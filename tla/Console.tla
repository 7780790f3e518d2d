------------------------------ MODULE Console ------------------------------
(***************************************************************************)
(* Programs at the console: the system calls read, write, lseek, _llseek   *)
(* and fork (os/kernel/syscalls.h), from the user's buffer over the        *)
(* descriptor and its description to the drivers of the keyboard and of    *)
(* the screen, and back.                                                   *)
(*                                                                         *)
(* A call is a sequence of steps, and the timer may switch to another      *)
(* process between any two.  A step is what is done under one lock, or     *)
(* with memory that only the calling process uses.                         *)
(***************************************************************************)
EXTENDS Keyboard, Terminal, Collections, FiniteSets

CONSTANTS
  Process, First,       \* the processes, and `init'
  PageSize,             \* PAGE_SIZE
  Readable, Writable,   \* the pages of a program that it may read, and write
  InitMemory,           \* what they hold when `init' starts
  ArgBlockCount,        \* ARGBLOCK_COUNT, the areas of dedic_argblock
  Nobody,               \* no process
  Request,              \* the calls that programs make
  Kind, Glyph,          \* what the keys are, and what they spell (Teletype)
  MaxEvents             \* bound: keys hit or released, and calls made

PageOf(a) == a \div PageSize
Address == UNION {PageSize * g .. PageSize * (g + 1) - 1 : g \in Readable}

ASSUME ConsoleAssumption ==
  /\ First \in Process /\ Nobody \notin Process /\ ArgBlockCount \in Nat
  /\ PageSize \in Nat \ {0}
  /\ Writable \subseteq Readable /\ Readable \subseteq Nat
  /\ InitMemory \in [Address -> 0 .. 255]
  /\ IsFiniteSet(Process) /\ Absent \notin 1 .. 5 /\ Absent # "KFDInfo"
  /\ Request \subseteq [nr : {"read", "write", "lseek", "_llseek"},
                       fd : Int, addr : Int, count : Nat]
  /\ \A r \in Request :    \* drives are read and written in BlockDevice
       r.nr \in {"read", "write"} => r.fd \notin 3 .. 6
  /\ MaxEvents \in Nat

(* The keys in use: each sends its code when it goes down, and spells what *)
(* the driver's tables have for that code.  The keys beside these are the  *)
(* keypad's digits, the function keys and those above the arrows; delete   *)
(* is one of them, so CAD is never called.                                 *)
CodeOf(k) == IF Len(Make[k]) = 1 THEN Make[k][1] ELSE \h100 + Make[k][2]
Spells(k) ==
  LET c == CodeOf(k)
  IN \/ /\ Kind[k] = "letter"
        /\ c \in DOMAIN Letter /\ Glyph[k] = <<Letter[c], Letter[c] - 32>>
     \/ /\ Kind[k] = "sign"
        /\ \/ c \in DOMAIN Digit /\ Glyph[k] = <<Digit[c][2], Digit[c][3]>>
           \/ c \in DOMAIN Punctuation /\ Glyph[k] = <<Punctuation[c][2], Punctuation[c][3]>>
           \/ c \in DOMAIN Editing /\ Glyph[k] = <<Editing[c][2], Editing[c][2]>>
           \/ c \in DOMAIN KeypadSign /\ Glyph[k] = <<KeypadSign[c][2], KeypadSign[c][2]>>
     \/ Kind[k] = "arrow" /\ c \in DOMAIN Arrow /\ Glyph[k] = Arrow[c][2]
     \/ Kind[k] = "modifier" /\ c \in DOMAIN Modifier /\ Glyph[k] = Modifier[c][2]
     \/ Kind[k] = "caps" /\ c = \h58

ASSUME KeysAssumption ==
  /\ \A k \in Key :
       /\ CodeOf(k) \in 0 .. \h1ff
       /\ Make[k] = IF CodeOf(k) < \h100 THEN <<CodeOf(k)>> ELSE <<\he0, CodeOf(k) - \h100>>
       /\ Break[k] = IF CodeOf(k) < \h100 THEN <<\hf0, CodeOf(k)>>
                     ELSE <<\he0, \hf0, CodeOf(k) - \h100>>
       /\ Spells(k)
  /\ \A j, k \in Key : CodeOf(j) = CodeOf(k) => j = k

VARIABLES
  bufLock, accessLock,      \* who holds the keyboard's and the terminal's lock
  desctors,                 \* the descriptor map of each process
  KFDStatus, kfdDriverMap,  \* the maps of the file descriptions
  refs,                     \* the reference count of each description
  memory, pins, alive,      \* the bytes and the pinned pages of each process
  proc,                     \* the call of each process, and where it is in it
  held, capsLock, typed, taken, paper,   \* history, as in Teletype
  events                    \* keys hit or released, and calls made

descriptions == <<desctors, KFDStatus, kfdDriverMap, refs>>
keys == <<held, capsLock, typed>>
input == <<kbd, port, bufLock, taken>>
setup == <<device, stage, strays>>
output == <<term, accessLock, paper>>
vars == <<setup, input, output, stopped, descriptions, memory, pins, alive, proc, keys, events>>

NoCall == [nr |-> "none", fd |-> -1, addr |-> -1, count |-> 0]
AtRest == [pc |-> "user", call |-> NoCall, kfd |-> Absent,
           area |-> <<>>, moved |-> 0, status |-> "none"]
Labels == {"user", "getMem", "fetch", "adjust", "driver", "put", "take",
           "poll", "retDesc", "retMem", "return"}

(* initSystemCallInterface and systemEntry: five descriptions, of the      *)
(* terminal and four drives, of which init has seven descriptors.          *)
Init ==
  /\ KeyboardInit
  /\ TerminalInit
  /\ bufLock = Nobody /\ accessLock = Nobody
  /\ desctors = [p \in Process |->
       IF p = First THEN Map_of(<<<<0, 1>>, <<1, 1>>, <<2, 1>>, <<3, 2>>, <<4, 3>>,
                                  <<5, 4>>, <<6, 5>>>>)
       ELSE Set_create]
  /\ kfdDriverMap = Map_of(<<<<1, "VGATerminal">>, <<2, "ATA">>, <<3, "ATA">>,
                             <<4, "ATA">>, <<5, "ATA">>>>)
  /\ KFDStatus = Map_of([k \in 1 .. 5 |-> <<k, "KFDInfo">>])
  /\ refs = [k \in 1 .. 5 |-> IF k = 1 THEN 2 ELSE 0]
  /\ memory = [p \in Process |-> InitMemory]
  /\ pins = [p \in Process |-> [g \in Readable |-> 0]]
  /\ alive = {First}
  /\ proc = [p \in Process |-> AtRest]
  /\ held = {} /\ capsLock = FALSE /\ typed = <<>> /\ events = 0
  /\ taken = 0 /\ paper = <<>>

Of(p) == proc[p].call
In(p, label) == proc[p].pc = label /\ stopped = 0
Goto(p, label) == proc' = [proc EXCEPT ![p].pc = label]
Ends(p, status, label) == proc' = [proc EXCEPT ![p].pc = label, ![p].status = status]
Stops(number) == stopped' = number /\ UNCHANGED proc

-----------------------------------------------------------------------------

(* system_call: what needs a buffer of the user's gets it first.           *)
Call(p, req) ==
  /\ In(p, "user") /\ p \in alive /\ stage = Ready
  /\ events < MaxEvents /\ events' = events + 1
  /\ proc' = [proc EXCEPT ![p] =
       [AtRest EXCEPT !.pc = IF req.nr = "lseek" THEN "fetch" ELSE "getMem",
                      !.call = req, !.status = "asked"]]
  /\ UNCHANGED <<setup, input, output, stopped, descriptions, memory, pins, alive, keys>>

(* getUserMem and retUserMem take no bytes for one byte.                   *)
PagesOf(req) == PageOf(req.addr) .. PageOf(req.addr + (IF req.count = 0 THEN 0 ELSE req.count - 1))
Fault(req) ==
  /\ req.nr # "lseek"
  /\ ~(PagesOf(req) \subseteq IF req.nr = "write" THEN Readable ELSE Writable)

PageFault == 14
MaxPins == 7
Adjusted(p, by) ==
  pins' = [pins EXCEPT ![p] = [g \in Readable |-> IF g \in PagesOf(Of(p)) THEN @[g] + by ELSE @[g]]]

Offset(req) == req.addr % PageSize
Passed(p) ==      \* the pages of a write, as they are in the user's memory
  [i \in 1 .. PageSize * Cardinality(PagesOf(Of(p))) |->
    IF Of(p).nr = "write" THEN memory[p][Of(p).addr - Offset(Of(p)) + i - 1] ELSE 0]

(* A call has the pages of its buffer, and an area, between getUserMem and *)
(* retUserMem.                                                             *)
HasMem(p) == proc[p].pc \notin {"user", "getMem", "return"} /\ Of(p).nr # "lseek"
AreaFree == Cardinality({q \in Process : HasMem(q)}) < ArgBlockCount

GetUserMemKept(p) ==    \* mutation: after a failure the pages before it stay pinned
  /\ In(p, "getMem")
  /\ Adjusted(p, 1)
  /\ \/ Fault(Of(p)) /\ Ends(p, "EFAULT", "return")
     \/ /\ ~Fault(Of(p))
        /\ AreaFree
        /\ proc' = [proc EXCEPT ![p].pc = "fetch", ![p].area = Passed(p)]
  /\ UNCHANGED <<setup, input, output, stopped, descriptions, memory, alive, keys, events>>

(* getUserMem: the pages are pinned in order, and unpinned again when one  *)
(* may not be used so; dedic_argblock turns until an area is free.  What   *)
(* the program passes is copied: of the second page and any more the copy  *)
(* goes behind the area, where nothing is mapped.                          *)
GetUserMem(p) ==
  /\ In(p, "getMem")
  /\ \/ Fault(Of(p)) /\ Ends(p, "EFAULT", "return") /\ UNCHANGED <<pins, stopped>>
     \/ /\ ~Fault(Of(p))
        /\ AreaFree
        /\ IF \E g \in PagesOf(Of(p)) : pins[p][g] = MaxPins THEN Stops(9)
           ELSE IF Of(p).nr = "write" /\ Cardinality(PagesOf(Of(p))) > 1 THEN Stops(PageFault)
           ELSE /\ proc' = [proc EXCEPT ![p].pc = "fetch", ![p].area = Passed(p)]
                /\ UNCHANGED stopped
        /\ Adjusted(p, 1)
  /\ UNCHANGED <<setup, input, output, descriptions, memory, alive, keys, events>>

(* Where a call goes when it has done with the description.                *)
Back(p) == IF Of(p).nr = "lseek" THEN "return" ELSE "retMem"

(* getDesc, as far as it looks up; then as far as it counts.               *)
Fetch(p) ==
  /\ In(p, "fetch")
  /\ LET k == Map_fetch(Of(p).fd, desctors[p])
     IN IF Of(p).fd < 0 \/ k = Absent
        THEN Ends(p, "EBADF", Back(p)) /\ UNCHANGED stopped
        ELSE IF Map_fetch(k, KFDStatus) = Absent THEN Stops(3)
        ELSE proc' = [proc EXCEPT ![p].pc = "adjust", ![p].kfd = k] /\ UNCHANGED stopped
  /\ UNCHANGED <<setup, input, output, descriptions, memory, pins, alive, keys, events>>

Adjust(p) ==
  /\ In(p, "adjust")
  /\ refs' = [refs EXCEPT ![proc[p].kfd] = @ + 1]
  /\ Goto(p, "driver")
  /\ UNCHANGED <<setup, input, output, stopped, desctors, KFDStatus, kfdDriverMap,
                 memory, pins, alive, keys, events>>

-----------------------------------------------------------------------------

Driver(p) == Map_fetch(proc[p].kfd, kfdDriverMap)
Calls(p, nr, driver) == In(p, "driver") /\ Of(p).nr = nr /\ Driver(p) = driver
Others == <<setup, descriptions, memory, pins, alive, keys, events>>

(* VGATerminalWrite: the lock, and the cursor off.                         *)
WriteUnlocked(p) ==    \* mutation: the lock is not waited for
  /\ Calls(p, "write", "VGATerminal")
  /\ accessLock' = p
  /\ term' = Toggled(term)
  /\ Goto(p, "put")
  /\ UNCHANGED <<Others, input, paper, stopped>>

Write(p) ==
  /\ Calls(p, "write", "VGATerminal")
  /\ accessLock = Nobody
  /\ accessLock' = p
  /\ term' = Toggled(term)
  /\ Goto(p, "put")
  /\ UNCHANGED <<Others, input, paper, stopped>>

(* writeDataVGATerminal: one code point of one byte.                       *)
Put(p) ==
  /\ In(p, "put")
  /\ proc[p].moved < Of(p).count
  /\ term' = WriteCodePoint(term, proc[p].area[Offset(Of(p)) + proc[p].moved + 1])
  /\ proc' = [proc EXCEPT ![p].moved = @ + 1]
  /\ UNCHANGED <<Others, input, accessLock, paper, stopped>>

MovedBytes(p) == SubSeq(proc[p].area, Offset(Of(p)) + 1, Offset(Of(p)) + Of(p).count)

WrittenLocked(p) ==    \* mutation: the lock is not released
  /\ In(p, "put")
  /\ proc[p].moved = Of(p).count
  /\ term' = Toggled(term)
  /\ paper' = paper \o MovedBytes(p)
  /\ Ends(p, "done", "retDesc")
  /\ UNCHANGED <<Others, input, accessLock, stopped>>

Written(p) ==
  /\ In(p, "put")
  /\ proc[p].moved = Of(p).count
  /\ term' = Toggled(term)
  /\ accessLock' = Nobody
  /\ paper' = paper \o MovedBytes(p)
  /\ Ends(p, "done", "retDesc")
  /\ UNCHANGED <<Others, input, stopped>>

(* kbd8042_readGiven: the lock, which is kept until the read is complete.  *)
Read(p) ==
  /\ Calls(p, "read", "VGATerminal")
  /\ IF Of(p).count = 0 THEN Ends(p, "done", "retDesc") /\ UNCHANGED bufLock
     ELSE bufLock = Nobody /\ bufLock' = p /\ Goto(p, "take")
  /\ UNCHANGED <<Others, kbd, port, taken, output, stopped>>

Take(p) ==
  /\ In(p, "take")
  /\ LET want == Of(p).count - proc[p].moved
         n == IF Len(kbd.bufTerm) >= want THEN want ELSE Len(kbd.bufTerm)
         at == Offset(Of(p)) + proc[p].moved
         area == [i \in DOMAIN proc[p].area |->
                   IF i - at \in 1 .. n THEN kbd.bufTerm[i - at] ELSE proc[p].area[i]]
     IN /\ kbd' = [kbd EXCEPT !.bufTerm = SubSeq(@, n + 1, Len(@))]
        /\ IF n = want
           THEN /\ bufLock' = Nobody
                /\ taken' = taken + Of(p).count
                /\ proc' = [proc EXCEPT ![p].area = area, ![p].status = "done",
                                        ![p].moved = @ + n, ![p].pc = "retDesc"]
           ELSE /\ proc' = [proc EXCEPT ![p].area = area, ![p].moved = @ + n, ![p].pc = "poll"]
                /\ UNCHANGED <<bufLock, taken>>
  /\ UNCHANGED <<Others, port, output, stopped>>

PollUnlocked(p) ==     \* mutation: the lock is released while there is no key
  /\ In(p, "poll")
  /\ IF port = <<>>
     THEN bufLock' = Nobody /\ Goto(p, "driver") /\ UNCHANGED <<kbd, port, stopped>>
     ELSE kbd' = Processed(kbd, Head(port)) /\ port' = Tail(port) /\ Goto(p, "take")
          /\ UNCHANGED <<bufLock, stopped>>
  /\ UNCHANGED <<Others, taken, output>>

(* Nothing in the port: the process yields, still with the lock.           *)
Poll(p) ==
  /\ In(p, "poll")
  /\ port # <<>>
  /\ port' = Tail(port)
  /\ IF kbd.set # 2 THEN Stops(\h103) /\ UNCHANGED kbd
     ELSE IF ~Processable(kbd, Head(port)) THEN Stops(\h104) /\ UNCHANGED kbd
     ELSE kbd' = Processed(kbd, Head(port)) /\ Goto(p, "take") /\ UNCHANGED stopped
  /\ UNCHANGED <<Others, bufLock, taken, output>>

(* A terminal cannot seek; a drive tells its position, which is its start  *)
(* here (BlockDevice has the moves).                                       *)
Seek(p) ==
  /\ \E nr \in {"lseek", "_llseek"} :
       \/ Calls(p, nr, "VGATerminal") /\ Ends(p, "ESPIPE", "retDesc")
       \/ Calls(p, nr, "ATA") /\ Ends(p, "done", "retDesc")
  /\ UNCHANGED <<Others, input, output, stopped>>

-----------------------------------------------------------------------------

(* retDesc: the last reference closes the description.  The terminal's     *)
(* driver has no closeFinal to call.                                       *)
RetDesc(p) ==
  /\ In(p, "retDesc")
  /\ LET k == proc[p].kfd
     IN /\ refs' = [refs EXCEPT ![k] = @ - 1]
        /\ IF refs[k] # 0
           THEN Goto(p, Back(p)) /\ UNCHANGED <<kfdDriverMap, KFDStatus, stopped>>
           ELSE IF Driver(p) = "VGATerminal"
           THEN Stops(PageFault) /\ UNCHANGED <<kfdDriverMap, KFDStatus>>
           ELSE /\ kfdDriverMap' = Map_remove(k, kfdDriverMap)
                /\ KFDStatus' = Map_remove(k, KFDStatus)
                /\ Goto(p, Back(p)) /\ UNCHANGED stopped
  /\ UNCHANGED <<setup, input, output, desctors, memory, pins, alive, keys, events>>

(* The bytes a call brings back: none for an error or a write.             *)
Got(p) ==
  IF proc[p].status = "done" /\ Of(p).nr \in {"read", "_llseek"} THEN MovedBytes(p) ELSE <<>>

Leave(p) == proc' = [proc EXCEPT ![p] = AtRest]

(* retUserMem, and the end of the call.                                    *)
RetMem(p) ==
  /\ In(p, "retMem")
  /\ LET got == Got(p)
         to == Of(p).addr
     IN memory' = [memory EXCEPT ![p] = [a \in Address |->
          IF a - to + 1 \in DOMAIN got THEN got[a - to + 1] ELSE @[a]]]
  /\ Adjusted(p, -1)
  /\ Leave(p)
  /\ UNCHANGED <<setup, input, output, stopped, descriptions, alive, keys, events>>

Return(p) ==
  /\ In(p, "return")
  /\ Leave(p)
  /\ UNCHANGED <<setup, input, output, stopped, descriptions, memory, pins, alive, keys, events>>

(* fork, as far as the descriptors: the copy of the map is not counted.    *)
Fork(p, q) ==
  /\ In(p, "user") /\ p \in alive /\ stage = Ready
  /\ q \notin alive
  /\ alive' = alive \cup {q}
  /\ desctors' = [desctors EXCEPT ![q] = Map_copy(desctors[p])]
  /\ memory' = [memory EXCEPT ![q] = memory[p]]
  /\ UNCHANGED <<setup, input, output, stopped, KFDStatus, kfdDriverMap, refs, pins, proc, keys, events>>

-----------------------------------------------------------------------------

Doing == [p \in Process |->
  [req |-> Of(p), status |-> proc[p].status, bytes |-> Got(p)]]
DescribedBy(fd) ==
  CASE fd \in 0 .. 2 -> "terminal" [] fd \in 3 .. 6 -> "drive" [] OTHER -> "nothing"
T == INSTANCE Teletype WITH doing <- Doing, Target <- DescribedBy

(* The user: what the keyboard sends, and what the user means by it.       *)
HitKey ==
  /\ CanSend /\ Listening
  /\ events < MaxEvents /\ events' = events + 1
  /\ \E k \in Key :
       \/ port' = port \o Make[k] /\ T!Hit(k)
       \/ port' = port \o Break[k] /\ T!LetGo(k)
  /\ UNCHANGED <<setup, kbd, bufLock, taken, output, stopped, descriptions, memory,
                 pins, alive, proc>>

Steps(p) ==
  \/ GetUserMem(p) \/ Fetch(p) \/ Adjust(p)
  \/ Write(p) \/ Put(p) \/ Written(p) \/ Read(p) \/ Take(p) \/ Poll(p) \/ Seek(p)
  \/ RetDesc(p) \/ RetMem(p) \/ Return(p)

Programs ==
  \E p \in Process :
    \/ \E req \in Request : Call(p, req)
    \/ Steps(p)
    \/ \E q \in Process : Fork(p, q)

BringsUp ==
  /\ BringUp
  /\ UNCHANGED <<bufLock, taken, output, descriptions, memory, pins, alive, proc, keys, events>>

Next == BringsUp \/ HitKey \/ Programs

(* A process in the kernel goes on: it is scheduled again and again, and   *)
(* what it waits for is not taken for ever by others (KernelMutex).        *)
Spec == Init /\ [][Next]_vars /\ \A p \in Process : WF_vars(Steps(p))

-----------------------------------------------------------------------------

CallType ==
  [pc : Labels, call : Request \cup {NoCall}, kfd : 1 .. 5 \cup {Absent},
   area : Seq(0 .. 255), moved : Nat,
   status : {"none", "asked", "done", "EFAULT", "EBADF", "ESPIPE"}]

(* The types: the position is on the screen, the buffer of the keyboard    *)
(* holds no more than it has room for, and pins fit into three bits.       *)
TypeOK ==
  /\ kbd \in [set : {0, 2}, capL : BOOLEAN, numL : BOOLEAN, scrlL : BOOLEAN,
              modeApp : {FALSE}, down : SUBSET ({"shift", "ctrl", "alt"} \X {"L", "R"}),
              on : SUBSET {"shift", "ctrl", "alt"}, state : 0 .. 8, bufTerm : Seq(0 .. 255)]
  /\ Len(kbd.bufTerm) <= BufTermSize
  /\ port \in Seq(0 .. 255)
  /\ device \in [ports : SUBSET {1, 2}, translation : BOOLEAN, scanning : BOOLEAN,
                 testing : BOOLEAN]
  /\ stage \in Stages /\ strays \in 0 .. MaxStray /\ stopped \in Nat
  /\ term \in TerminalType
  /\ bufLock \in Process \cup {Nobody} /\ accessLock \in Process \cup {Nobody}
  /\ refs \in [1 .. 5 -> Nat]
  /\ memory \in [Process -> [Address -> 0 .. 255]]
  /\ pins \in [Process -> [Readable -> 0 .. MaxPins]]
  /\ alive \subseteq Process
  /\ proc \in [Process -> CallType]

(* The calls, however their steps mix with those of other processes and    *)
(* with the keys, do what Teletype says: a write prints its bytes whole, a *)
(* read takes the next bytes that the keys spelled whole, and its caller   *)
(* finds them in its buffer.                                               *)
ImplementsTeletype == T!Spec

(* What the bytes printed look like on paper that never ends: rows of      *)
(* characters and the column where the next one goes.                      *)
BlankRow == [c \in 0 .. width - 1 |-> Space]
Printed(bytes) ==
  LET NewLine(page) == [rows |-> Append(page.rows, BlankRow), col |-> 0]
      Inked(page, b) ==
        CASE b = LF -> NewLine(page)
          [] b = CR -> [page EXCEPT !.col = 0]
          [] b \in 32 .. 126 ->
               LET next == [rows |-> [page.rows EXCEPT ![Len(page.rows)][page.col] = b],
                             col |-> page.col + 1]
               IN IF next.col = width THEN NewLine(next) ELSE next
          [] OTHER -> page
  IN FoldLeft(Inked, [rows |-> <<BlankRow>>, col |-> 0], bytes)

(* While nobody writes, the screen shows the last rows of the paper, and   *)
(* of all cells exactly the one where the next character goes has its      *)
(* colours exchanged (VGATerminalAdjustVis and the cursor).                *)
ScreenShowsPaper ==
  accessLock = Nobody =>
    LET page == Printed(paper)
        above == IF Len(page.rows) > height THEN Len(page.rows) - height ELSE 0
        here == width * (Len(page.rows) - above - 1) + page.col
    IN term = [pos |-> here,
               screen |-> [i \in Cells |->
                 LET r == above + (i \div width) + 1
                 IN [text |-> IF r <= Len(page.rows) THEN page.rows[r][i % width] ELSE Space,
                     format |-> IF i = here THEN \h70 ELSE \h07]]]

(* When the driver has seen all that the keyboard sent, its flags are the  *)
(* modifiers that are held, on one side or both, and it waits for the      *)
(* first byte of a key.                                                    *)
ModifiersFollowKeys ==
  stage = Ready /\ port = <<>> =>
    /\ kbd.on = {m \in {"shift", "ctrl", "alt"} : T!Holding(m)}
    /\ kbd.capL = capsLock
    /\ kbd.state = 0

(* Nothing stops the kernel but a controller that fails its tests, a key   *)
(* hit or a self test that ends late while the keyboard is brought up, and *)
(* a write of a buffer that spans pages.                                   *)
StopsOnlyFor ==
  stopped # 0 =>
    \/ stopped \in {\h2fc, \h3fc}
    \/ stage # Ready /\ strays > 0
    \/ stage # Ready /\ stopped = \h6aa
    \/ /\ stopped = PageFault
       /\ \E p \in Process : /\ proc[p].pc = "getMem" /\ Of(p).nr = "write"
                            /\ Cardinality(PagesOf(Of(p))) > 1

(* The calls that use a description, which its count includes.             *)
Using(k) == {p \in Process : proc[p].kfd = k /\ proc[p].pc \in {"driver", "put", "take", "poll", "retDesc"}}

(* A process's pages are pinned exactly while a call of it uses them,      *)
(* however the call ends.                                                  *)
BuffersReturned ==
  stopped = 0 =>
    \A p \in Process : \A g \in Readable :
      pins[p][g] = IF HasMem(p) /\ g \in PagesOf(Of(p)) THEN 1 ELSE 0

(* The list of blocks is a function: the map that a fork copies means what *)
(* the original does, and removing and adding keys changes that as in a    *)
(* function, whatever blocks become empty or have room.                    *)
Without(f, k) == [x \in DOMAIN f \ {k} |-> f[x]]
MapsAreFunctions ==
  [][\A map \in {desctors'[q] : q \in alive' \ alive} :
       /\ \E p \in alive : Meaning(map) = Meaning(desctors[p])
       /\ \A j, k \in Keys(map) :
            \A less \in {Map_remove(j, m) : m \in {Map_remove(k, map)}} :
              /\ WellFormed(less)
              /\ Meaning(less) = Without(Without(Meaning(map), k), j)
              /\ \A more \in {Map_add(k, 9, less)} :
                   /\ WellFormed(more)
                   /\ Without(Meaning(more), k) = Meaning(less)
                   /\ Map_fetch(k, more) = 9]_vars

(* A call returns, unless it is a read and keys are missing: those that    *)
(* it waits for, or those that the read waits for which came before it.    *)
KeysMissing == \E q \in Process : bufLock = q /\ Len(typed) - taken < Of(q).count
CallsOnlyWaitForKeys ==
  \A p \in Process :
    []<>(proc[p].pc = "user" \/ stopped # 0 \/ (Of(p).nr = "read" /\ KeysMissing))

=============================================================================
