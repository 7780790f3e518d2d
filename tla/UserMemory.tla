------------------------------ MODULE UserMemory ------------------------------
(***************************************************************************)
(* The memory of user processes: the large blocks of the kernel heap and   *)
(* their reference counts (os/kernel/kmemman.h), the page tables of memory *)
(* spaces (paging.h, machine/x86_32/paging.h), brk (syscalls.h) and the    *)
(* copy of a memory space by fork (memfork.h, MemSpace_based).             *)
(*                                                                         *)
(* A process has one thread, so its memory space and its break are its own *)
(* and only the heap is shared; the kernel tasks of processes interleave   *)
(* between any two accesses to it.  A function of the heap holds a Mutex   *)
(* (module KernelMutex) around its access and is one action.  Assertions   *)
(* under __TESTING__ are not in the build (cc.sh) and not in the model.    *)
(*                                                                         *)
(* A frame is a large block; its contents are one value.  Every frame of a *)
(* program is described as type 1, to be copied by a fork.  Page 0 of all  *)
(* spaces is the kernel's low memory, which no operation here changes; the *)
(* pages of a space are in one page table.                                 *)
(*                                                                         *)
(* A shrinking brk leaves the entries of the pages it gave back present    *)
(* and writable by the program.  The program may use them: a store through *)
(* one changes whatever the frame holds by then.  Control here depends on  *)
(* no contents, except that a program which overwrites the kernel's own    *)
(* blocks may do anything; the model follows the system no further then.   *)
(***************************************************************************)
EXTENDS Integers, FiniteSets, RoundRobin

CONSTANTS
  Proc, InitProc, MaxPage, PageSize, Value,   \* as in AddressSpaces
  FrameCount,      \* KMEM_LB_AMNTMEMSPACES: the frames are 0 .. FrameCount - 1
  KernelBlocks,    \* bound: blocks of a process' kernel stack and page tables
  InitBreak,       \* where the image of `init' ends
  InitTable,       \* the frames of its pages, as loadELF left them
  InitKernel,      \* the frames of its page tables
  StackPage,       \* the pages of its stack, above the break
  InitContent      \* what memory holds then

Page == 1 .. MaxPage
Break == 1 .. (MaxPage + 1) * PageSize
Frame == 0 .. FrameCount - 1
NoFrame == -1      \* a page table entry that is not present

LastPage(b) == (b - 1) \div PageSize

ASSUME BoundsAssumption ==
  /\ InitProc \in Proc
  /\ MaxPage \in Nat /\ PageSize \in Nat \ {0}
  /\ FrameCount \in Nat /\ KernelBlocks \in Nat
  /\ 0 \in Value

ASSUME InitAssumption ==
  /\ InitBreak \in Break
  /\ InitTable \in [Page -> Frame \cup {NoFrame}]
  /\ InitKernel \subseteq Frame
  /\ StackPage \subseteq Page
  /\ InitContent \in [Frame -> Value]
  /\ \A g \in Page :
       InitTable[g] # NoFrame =>
         /\ InitTable[g] \notin InitKernel
         /\ g <= LastPage(InitBreak) \/ g \in StackPage
         /\ \A h \in Page : InitTable[h] = InitTable[g] => h = g
  /\ \A g \in StackPage : InitTable[g] # NoFrame /\ LastPage(InitBreak) < g

VARIABLES
  used,       \* the large blocks marked in the heap's bitmap
  refs,       \* PageDesc.data.refs of each
  content,    \* what each holds
  procs,      \* the processes that exist
  userBreak,
  table,      \* mem->dir: the page tables of each process
  kernel,     \* the frames of each process' page tables and kernel stack
  pc,         \* where each process is: in user mode or in brk or fork
  newBreak,   \* rb of its brk
  page,       \* the loop variable of its brk or fork
  block,      \* the block its brk or fork allocated last
  taken,      \* the blocks its fork allocated for the child's kernel data
  child,      \* the page tables its fork has built
  bugCheck,   \* the number bugCheckNum stopped the kernel with, or 0
  strayed     \* history: a program has stored through a page it gave back

heap == <<used, refs, content>>
space == <<userBreak, table, kernel>>
local == <<newBreak, page, block, taken, child>>
vars == <<heap, procs, space, pc, local, bugCheck, strayed>>

Brking == {"release", "dealloc", "grow", "wipe", "map"}
Forking == {"take", "taken", "fetch", "forkBlock", "copy", "describe"}

OutOfLargeBlocks == 632147981   \* 0x25add00d
Overwritten == -1   \* a program has overwritten blocks of the kernel's own

(* The types: frames of the heap in every page table and at most one       *)
(* reference to each, as nothing makes pages of type 2.                    *)
TypeOK ==
  /\ used \subseteq Frame
  /\ refs \in [Frame -> 0 .. 1]
  /\ content \in [Frame -> Value]
  /\ procs \subseteq Proc
  /\ userBreak \in [Proc -> Break]
  /\ table \in [Proc -> [Page -> Frame \cup {NoFrame}]]
  /\ kernel \in [Proc -> SUBSET Frame]
  /\ pc \in [Proc -> {"user"} \cup Brking \cup Forking]
  /\ newBreak \in [Proc -> Break]
  /\ page \in [Proc -> 0 .. MaxPage + 1]
  /\ block \in [Proc -> Frame \cup {NoFrame}]
  /\ taken \in [Proc -> SUBSET Frame]
  /\ child \in [Proc -> [Page -> Frame \cup {NoFrame}]]
  /\ bugCheck \in {0, 2, 7, 12, 16, OutOfLargeBlocks, Overwritten}
  /\ strayed \in BOOLEAN

NoPages == [g \in Page |-> NoFrame]

(* `init' is loaded.                                                       *)
Init ==
  /\ used = InitKernel \cup {InitTable[g] : g \in {h \in Page : InitTable[h] # NoFrame}}
  /\ refs = [f \in Frame |-> IF f \in used \ InitKernel THEN 1 ELSE 0]
  /\ content = InitContent
  /\ procs = {InitProc}
  /\ userBreak = [p \in Proc |-> InitBreak]
  /\ table = [p \in Proc |-> IF p = InitProc THEN InitTable ELSE NoPages]
  /\ kernel = [p \in Proc |-> IF p = InitProc THEN InitKernel ELSE {}]
  /\ pc = [p \in Proc |-> "user"]
  /\ newBreak = [p \in Proc |-> InitBreak]
  /\ page = [p \in Proc |-> 0]
  /\ block = [p \in Proc |-> NoFrame]
  /\ taken = [p \in Proc |-> {}]
  /\ child = [p \in Proc |-> NoPages]
  /\ bugCheck = 0
  /\ strayed = FALSE

(* The locals of brk and fork are dead when they return.                   *)
Return(p) ==
  /\ pc' = [pc EXCEPT ![p] = "user"]
  /\ newBreak' = [newBreak EXCEPT ![p] = InitBreak]
  /\ page' = [page EXCEPT ![p] = 0]
  /\ block' = [block EXCEPT ![p] = NoFrame]
  /\ taken' = [taken EXCEPT ![p] = {}]
  /\ child' = [child EXCEPT ![p] = NoPages]

At(p, label) == p \in procs /\ pc[p] = label /\ bugCheck = 0
Goto(p, label) == pc' = [pc EXCEPT ![p] = label]
Stop(number) == bugCheck' = number

-----------------------------------------------------------------------------
(* The heap of large blocks.                                               *)

(* alloc_lb: the first block that is not marked, and no memory is fatal.   *)
AllocLb(p, next) ==
  LET free == Frame \ used
  IN  \/ /\ free = {}
         /\ Stop(OutOfLargeBlocks)
         /\ UNCHANGED <<used, block, pc>>
      \/ /\ free # {}
         /\ used' = used \cup {Least(free)}
         /\ block' = [block EXCEPT ![p] = Least(free)]
         /\ Goto(p, next)
         /\ UNCHANGED bugCheck

-----------------------------------------------------------------------------
(* The program of p, which can store wherever an entry is present.         *)

(* Its own pages: its image, its heap below the break b and its stack.     *)
InReach(p, g, b) == table[p][g] # NoFrame /\ (g <= LastPage(b) \/ g \in StackPage)

(* The page tables and kernel stacks there are, or are being made.         *)
KernelsOwn ==
  UNION {kernel[p] \cup taken[p] \cup (IF pc[p] = "taken" THEN {block[p]} ELSE {}) : p \in procs}

Store(p, g, v) ==
  /\ At(p, "user")
  /\ table[p][g] # NoFrame
  /\ content' = [content EXCEPT ![table[p][g]] = v]
  /\ strayed' = (strayed \/ ~InReach(p, g, userBreak[p]))
  /\ bugCheck' = IF table[p][g] \in KernelsOwn THEN Overwritten ELSE 0
  /\ UNCHANGED <<used, refs, procs, space, pc, local>>

(* A brk within the page of the break moves it and does nothing else.      *)
BrkInPage(p, rb) ==
  /\ At(p, "user")
  /\ LastPage(rb) = LastPage(userBreak[p])
  /\ userBreak' = [userBreak EXCEPT ![p] = rb]
  /\ UNCHANGED <<heap, procs, table, kernel, pc, local, bugCheck>>

BrkShrink(p, rb) ==
  /\ At(p, "user")
  /\ LastPage(rb) < LastPage(userBreak[p])
  /\ newBreak' = [newBreak EXCEPT ![p] = rb]
  /\ page' = [page EXCEPT ![p] = LastPage(userBreak[p])]
  /\ Goto(p, "release")
  /\ UNCHANGED <<heap, procs, space, block, taken, child, bugCheck>>

BrkGrowFromOld(p, rb) ==    \* mutation: the growth starts at the page of the break
  /\ At(p, "user")
  /\ LastPage(rb) > LastPage(userBreak[p])
  /\ \A g \in Page : LastPage(userBreak[p]) < g /\ g <= LastPage(rb) => table[p][g] = NoFrame
  /\ newBreak' = [newBreak EXCEPT ![p] = rb]
  /\ page' = [page EXCEPT ![p] = LastPage(userBreak[p])]
  /\ Goto(p, "grow")
  /\ UNCHANGED <<heap, procs, space, block, taken, child, bugCheck>>

(* A growth over a page that exists, of the stack or one that a shrink     *)
(* left in the table, fails and changes nothing.                           *)
BrkGrow(p, rb) ==
  /\ At(p, "user")
  /\ LastPage(rb) > LastPage(userBreak[p])
  /\ \A g \in Page : LastPage(userBreak[p]) < g /\ g <= LastPage(rb) => table[p][g] = NoFrame
  /\ newBreak' = [newBreak EXCEPT ![p] = rb]
  /\ page' = [page EXCEPT ![p] = LastPage(userBreak[p]) + 1]
  /\ Goto(p, "grow")
  /\ UNCHANGED <<heap, procs, space, block, taken, child, bugCheck>>

BrkReturn(p) ==
  /\ userBreak' = [userBreak EXCEPT ![p] = newBreak[p]]
  /\ Return(p)
  /\ UNCHANGED <<heap, procs, table, kernel, bugCheck>>

-----------------------------------------------------------------------------
(* brk: the loop of a shrink, downwards.  The page stays in the table.     *)

ReleaseDone(p) ==
  /\ At(p, "release")
  /\ page[p] = LastPage(newBreak[p])
  /\ BrkReturn(p)

ReleaseKeepingBlock(p) ==   \* mutation: nothing happens when the count gets to zero
  /\ At(p, "release")
  /\ page[p] # LastPage(newBreak[p])
  /\ page' = [page EXCEPT ![p] = @ - 1]
  /\ refs' = IF table[p][page[p]] = NoFrame THEN refs
             ELSE [refs EXCEPT ![table[p][page[p]]] = 0]
  /\ UNCHANGED <<used, content, procs, space, pc, newBreak, block, taken, child, bugCheck>>

(* freeUserPage, whose chgPageRef drops the count and, after its unlock,   *)
(* calls userPageDealloc if that made it zero.                             *)
Release(p) ==
  /\ At(p, "release")
  /\ page[p] # LastPage(newBreak[p])
  /\ LET f == table[p][page[p]]
     IN  \/ /\ f = NoFrame
            /\ page' = [page EXCEPT ![p] = @ - 1]
            /\ UNCHANGED <<refs, pc, bugCheck>>
         \/ /\ f # NoFrame /\ refs[f] = 0
            /\ Stop(2)
            /\ UNCHANGED <<refs, page, pc>>
         \/ /\ f # NoFrame /\ refs[f] # 0
            /\ refs' = [refs EXCEPT ![f] = @ - 1]
            /\ IF refs[f] = 1
               THEN Goto(p, "dealloc") /\ UNCHANGED page
               ELSE page' = [page EXCEPT ![p] = @ - 1] /\ UNCHANGED pc
            /\ UNCHANGED bugCheck
  /\ UNCHANGED <<used, content, procs, space, newBreak, block, taken, child>>

(* dealloc_lb.                                                             *)
Dealloc(p) ==
  /\ At(p, "dealloc")
  /\ used' = used \ {table[p][page[p]]}
  /\ page' = [page EXCEPT ![p] = @ - 1]
  /\ Goto(p, "release")
  /\ UNCHANGED <<refs, content, procs, space, newBreak, block, taken, child, bugCheck>>

-----------------------------------------------------------------------------
(* brk: the loop of a growth, upwards.                                     *)

GrowDone(p) ==
  /\ At(p, "grow")
  /\ page[p] = LastPage(newBreak[p]) + 1
  /\ BrkReturn(p)

GrowBlock(p) ==
  /\ At(p, "grow")
  /\ page[p] # LastPage(newBreak[p]) + 1
  /\ AllocLb(p, "wipe")
  /\ UNCHANGED <<refs, content, procs, space, newBreak, page, taken, child>>

WipeForgotten(p) ==         \* mutation: alloc_lb for alloc_lb_wiped
  /\ At(p, "wipe")
  /\ Goto(p, "map")
  /\ UNCHANGED <<heap, procs, space, local, bugCheck>>

(* The rest of alloc_lb_wiped.                                             *)
Wipe(p) ==
  /\ At(p, "wipe")
  /\ content' = [content EXCEPT ![block[p]] = 0]
  /\ Goto(p, "map")
  /\ UNCHANGED <<used, refs, procs, space, local, bugCheck>>

(* initPageRef, then mapPage, which fails on a page that is present.       *)
Map(p) ==
  /\ At(p, "map")
  /\ refs' = [refs EXCEPT ![block[p]] = 1]
  /\ bugCheck' = IF refs[block[p]] # 0 THEN 7 ELSE IF table[p][page[p]] # NoFrame THEN 16 ELSE 0
  /\ table' = [table EXCEPT ![p][page[p]] = IF @ = NoFrame THEN block[p] ELSE @]
  /\ page' = [page EXCEPT ![p] = @ + 1]
  /\ Goto(p, "grow")
  /\ UNCHANGED <<used, content, procs, userBreak, kernel, newBreak, block, taken, child>>

-----------------------------------------------------------------------------
(* fork: the kernel stack, then MemSpace_fork.  Of the bound on processes, *)
(* each call of fork reserves one.                                         *)

CallFork(p) ==
  /\ At(p, "user")
  /\ Cardinality(procs) + Cardinality({q \in procs : pc[q] \in Forking}) < Cardinality(Proc)
  /\ Goto(p, "take")
  /\ UNCHANGED <<heap, procs, space, local, bugCheck>>

(* The blocks of the kernel stack, the page directory and the page tables. *)
TakeBlock(p) ==
  /\ At(p, "take")
  /\ Cardinality(taken[p]) < KernelBlocks
  /\ AllocLb(p, "taken")
  /\ UNCHANGED <<refs, content, procs, space, newBreak, page, taken, child>>

Taken(p) ==
  /\ At(p, "taken")
  /\ taken' = [taken EXCEPT ![p] = @ \cup {block[p]}]
  /\ Goto(p, "take")
  /\ UNCHANGED <<heap, procs, space, newBreak, page, block, child, bugCheck>>

TakeDone(p) ==
  /\ At(p, "take")
  /\ Cardinality(taken[p]) >= KernelBlocks
  /\ page' = [page EXCEPT ![p] = 1]
  /\ Goto(p, "fetch")
  /\ UNCHANGED <<heap, procs, space, newBreak, block, taken, child, bugCheck>>

SetChildPage(p, f) ==
  /\ child' = [child EXCEPT ![p][page[p]] = f]
  /\ page' = [page EXCEPT ![p] = @ + 1]

FetchPageDataTwice(p) ==    \* mutation: a page with one reference is shared
  /\ At(p, "fetch")
  /\ page[p] \in Page
  /\ LET f == table[p][page[p]]
         live == IF f = NoFrame THEN FALSE ELSE refs[f] > 1
     IN  \/ /\ ~live
            /\ SetChildPage(p, f)
            /\ UNCHANGED pc
         \/ /\ live
            /\ Goto(p, "forkBlock")
            /\ UNCHANGED <<page, child>>
  /\ UNCHANGED <<heap, procs, space, newBreak, block, taken, bugCheck>>

(* fork_user_page: an absent page stays absent, a dead one is shared as it *)
(* is, and a live one gets a block of its own.                             *)
FetchPageData(p) ==
  /\ At(p, "fetch")
  /\ page[p] \in Page
  /\ LET f == table[p][page[p]]
         live == IF f = NoFrame THEN FALSE ELSE refs[f] # 0
     IN  \/ /\ ~live
            /\ SetChildPage(p, f)
            /\ UNCHANGED pc
         \/ /\ live
            /\ Goto(p, "forkBlock")
            /\ UNCHANGED <<page, child>>
  /\ UNCHANGED <<heap, procs, space, newBreak, block, taken, bugCheck>>

ForkBlock(p) ==
  /\ At(p, "forkBlock")
  /\ AllocLb(p, "copy")
  /\ UNCHANGED <<refs, content, procs, space, newBreak, page, taken, child>>

Copy(p) ==
  /\ At(p, "copy")
  /\ content' = [content EXCEPT ![block[p]] = content[table[p][page[p]]]]
  /\ Goto(p, "describe")
  /\ UNCHANGED <<used, refs, procs, space, local, bugCheck>>

DescribeAsShared(p) ==      \* mutation: the page is counted and shared, as type 2 is
  /\ At(p, "describe")
  /\ refs' = [refs EXCEPT ![table[p][page[p]]] = @ + 1]
  /\ SetChildPage(p, table[p][page[p]])
  /\ Goto(p, "fetch")
  /\ UNCHANGED <<used, content, procs, space, newBreak, block, taken, bugCheck>>

(* initPageRefBased.                                                       *)
Describe(p) ==
  /\ At(p, "describe")
  /\ refs' = [refs EXCEPT ![block[p]] = 1]
  /\ bugCheck' = IF refs[block[p]] # 0 THEN 12 ELSE 0
  /\ SetChildPage(p, block[p])
  /\ Goto(p, "fetch")
  /\ UNCHANGED <<used, content, procs, space, newBreak, block, taken>>

(* The child gets its tid.  There is one left: the blocks run out first.   *)
Spawn(p, c) ==
  /\ At(p, "fetch")
  /\ page[p] \notin Page
  /\ c \in Proc \ procs
  /\ procs' = procs \cup {c}
  /\ userBreak' = [userBreak EXCEPT ![c] = userBreak[p]]
  /\ table' = [table EXCEPT ![c] = child[p]]
  /\ kernel' = [kernel EXCEPT ![c] = taken[p]]
  /\ Return(p)
  /\ UNCHANGED <<heap, bugCheck>>

Proceed(p) ==
  \/ ReleaseDone(p) \/ Release(p) \/ Dealloc(p)
  \/ GrowDone(p) \/ GrowBlock(p) \/ Wipe(p) \/ Map(p)
  \/ TakeBlock(p) \/ Taken(p) \/ TakeDone(p)
  \/ FetchPageData(p) \/ ForkBlock(p) \/ Copy(p) \/ Describe(p)
  \/ \E c \in Proc : Spawn(p, c)

Next ==
  \E p \in procs :
     \/ \E g \in Page, v \in Value : Store(p, g, v)
     \/ /\ \/ \E rb \in Break : BrkInPage(p, rb) \/ BrkShrink(p, rb) \/ BrkGrow(p, rb)
           \/ CallFork(p)
           \/ Proceed(p)
        /\ UNCHANGED strayed

Spec == Init /\ [][Next]_vars

-----------------------------------------------------------------------------

(* The break of p as its program will find it.                             *)
BreakOf(p) == IF pc[p] \in {"release", "dealloc"} THEN newBreak[p] ELSE userBreak[p]

MemOf(p) == {g \in Page : InReach(p, g, BreakOf(p))}

(* The pages left in the table of p that a brk of it gave back.            *)
ReleasedOf(p) ==
  {g \in Page \ StackPage :
     /\ table[p][g] # NoFrame
     /\ g > LastPage(IF pc[p] \in Brking THEN newBreak[p] ELSE userBreak[p])}

spaceOf ==
  [p \in procs |->
     [brk |-> BreakOf(p), mem |-> [g \in MemOf(p) |-> content[table[p][g]]],
      released |-> ReleasedOf(p)]]

A == INSTANCE AddressSpaces WITH space <- spaceOf

(* Until a program uses a page it gave back, no interleaving of brks and   *)
(* forks lets a process see or change another one's memory or an earlier   *)
(* owner's: growth brings zeros, a child starts with its parent's          *)
(* contents, and brk refuses only what it must.                            *)
ImplementsAddressSpaces == A!Spec

(* The blocks that brk or fork holds in a local variable.                  *)
InHand(p) ==
  IF pc[p] \in {"wipe", "map", "taken", "copy", "describe"} THEN {block[p]}
  ELSE IF pc[p] = "dealloc" THEN {table[p][page[p]]} ELSE {}

KernelData(p) == kernel[p] \cup taken[p] \cup InHand(p)

(* Every block marked in the bitmap is kernel data of one process or is    *)
(* counted and in a page table: brk and fork neither leak a block nor free *)
(* one that is counted.                                                    *)
BlocksAccountedFor ==
  LET counted == {f \in Frame : refs[f] > 0}
  IN  /\ used = counted \cup UNION {KernelData(p) : p \in procs}
      /\ counted \cap UNION {KernelData(p) : p \in procs} = {}
      /\ \A f \in counted : \E p \in procs, g \in Page : f \in {table[p][g], child[p][g]}

(* "A userspace page is any virtual memory page accessible to a            *)
(* threadgroup" (docs/memory.txt), so that those a brk gave back remain    *)
(* ones.  The entries it leaves are the only way to a frame of another     *)
(* process: a frame of a process's own is counted once, and every other    *)
(* entry that leads to it, of any process, is of a page given back.        *)
SharedOnlyWhereReleased ==
  \A p \in procs : \A g \in MemOf(p) :
    /\ refs[table[p][g]] = 1
    /\ \A q \in procs : \A h \in Page :
         table[q][h] = table[p][g] => (q = p /\ h = g) \/ h \in ReleasedOf(q)

(* The assertions on reference counts and page tables never fail, whatever *)
(* programs do with pages they gave back: the kernel stops only when the   *)
(* large blocks are used up, unless its own blocks were overwritten.       *)
OnlyOutOfMemory == bugCheck \in {0, OutOfLargeBlocks, Overwritten}

(* "it is expected that the page pointed to by `page' is not killed"       *)
(* (memfork.h) while fork_user_page copies it.                             *)
ForkSourceAlive ==
  \A p \in procs : pc[p] \in {"forkBlock", "copy", "describe"} => refs[table[p][page[p]]] > 0

=============================================================================
