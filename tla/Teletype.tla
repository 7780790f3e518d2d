------------------------------ MODULE Teletype ------------------------------
(***************************************************************************)
(* What the console promises the programs that use it, without drivers,    *)
(* locks or buffers: a stream of bytes that the keys spell, of which each  *)
(* read takes the next bytes whole, and a paper on which each write prints *)
(* whole.  Keys are held and released; the modifiers that are held when a  *)
(* key goes down decide what it spells.                                    *)
(***************************************************************************)
EXTENDS Integers, Sequences

CONSTANTS
  Process, First,    \* the programs, and the first of them
  Key,              \* the keys in use
  Kind,             \* what each is: a letter, a sign, an arrow, a modifier...
  Glyph,            \* what it spells alone and with shift, or the modifier it is
  Address,          \* the memory of a program
  InitMemory,       \* what it holds in the first program
  Request,          \* what programs ask for
  Fault(_),         \* whether the memory that a request names may not be used so
  Target(_)         \* what a descriptor is: a terminal, a drive, or nothing

VARIABLES
  held, capsLock,   \* the keys that are down, and whether capitals are locked
  typed, taken,     \* the bytes the keys spelled, and how many of them were read
  paper,            \* the bytes printed
  alive, memory,    \* the programs that run, and their memories
  doing             \* the request of each, how it stands and the bytes it got

vars == <<held, capsLock, typed, taken, paper, alive, memory, doing>>
keys == <<held, capsLock, typed>>

NoRequest == [nr |-> "none", fd |-> -1, addr |-> -1, count |-> 0]
Idle == [req |-> NoRequest, status |-> "none", bytes |-> <<>>]

Init ==
  /\ held = {}
  /\ capsLock = FALSE
  /\ typed = <<>>
  /\ taken = 0
  /\ paper = <<>>
  /\ alive = {First}
  /\ memory = [p \in Process |-> InitMemory]
  /\ doing = [p \in Process |-> Idle]

-----------------------------------------------------------------------------

Holding(modifier) == \E k \in held : Kind[k] = "modifier" /\ Glyph[k] = modifier

Escaped(bytes) == IF Holding("alt") THEN <<27>> \o bytes ELSE bytes
Controlled(byte) == Escaped(<<IF Holding("ctrl") THEN byte % 32 ELSE byte>>)

Spelling(k) ==
  CASE Kind[k] = "letter" ->
         Controlled(Glyph[k][IF Holding("shift") # capsLock THEN 2 ELSE 1])
    [] Kind[k] = "sign" -> Controlled(Glyph[k][IF Holding("shift") THEN 2 ELSE 1])
    [] Kind[k] = "arrow" ->
         Escaped(IF Holding("ctrl") THEN <<27, 91, 49, 59, 53, Glyph[k]>>
                 ELSE <<27, 91, Glyph[k]>>)
    [] OTHER -> <<>>

(* A key goes down, or repeats while it is down.                           *)
Hit(k) ==
  /\ typed' = typed \o Spelling(k)
  /\ capsLock' = (capsLock # (Kind[k] = "caps"))
  /\ held' = held \cup {k}

LetGo(k) ==
  /\ k \in held
  /\ held' = held \ {k}
  /\ UNCHANGED <<capsLock, typed>>

HitKey ==
  /\ \E k \in Key : Hit(k) \/ LetGo(k)
  /\ UNCHANGED <<taken, paper, alive, memory, doing>>

-----------------------------------------------------------------------------

Ask(p, req) ==
  /\ p \in alive
  /\ doing[p] = Idle
  /\ doing' = [doing EXCEPT ![p] = [req |-> req, status |-> "asked", bytes |-> <<>>]]
  /\ UNCHANGED <<keys, taken, paper, alive, memory>>

Asked(p, nr, target) ==
  /\ doing[p].status = "asked"
  /\ doing[p].req.nr = nr
  /\ ~Fault(doing[p].req)
  /\ Target(doing[p].req.fd) = target

Ends(p, status, bytes) ==
  /\ doing' = [doing EXCEPT ![p].status = status, ![p].bytes = bytes]
  /\ UNCHANGED <<keys, alive, memory>>

Bytes(p, req) == [i \in 1 .. req.count |-> memory[p][req.addr + i - 1]]

Put(p) ==
  /\ Asked(p, "write", "terminal")
  /\ paper' = paper \o Bytes(p, doing[p].req)
  /\ Ends(p, "done", <<>>)
  /\ UNCHANGED taken

Get(p) ==
  /\ Asked(p, "read", "terminal")
  /\ LET n == doing[p].req.count
     IN /\ taken + n <= Len(typed)
        /\ Ends(p, "done", SubSeq(typed, taken + 1, taken + n))
        /\ taken' = taken + n
  /\ UNCHANGED paper

(* A drive is asked for its position; a terminal has none.                 *)
Tell(p) ==
  /\ \E nr \in {"lseek", "_llseek"} :
       \/ /\ Asked(p, nr, "drive")
          /\ Ends(p, "done", IF nr = "lseek" THEN <<>>
                             ELSE [i \in 1 .. doing[p].req.count |-> 0])
       \/ Asked(p, nr, "terminal") /\ Ends(p, "ESPIPE", <<>>)
  /\ UNCHANGED <<taken, paper>>

Refuse(p) ==
  /\ doing[p].status = "asked"
  /\ LET req == doing[p].req
     IN \/ Fault(req) /\ Ends(p, "EFAULT", <<>>)
        \/ ~Fault(req) /\ Target(req.fd) = "nothing" /\ Ends(p, "EBADF", <<>>)
  /\ UNCHANGED <<taken, paper>>

(* The bytes that a request got are in the program's memory when it returns. *)
Answer(p) ==
  /\ doing[p].status \notin {"none", "asked"}
  /\ doing' = [doing EXCEPT ![p] = Idle]
  /\ LET to == doing[p].req.addr
         got == doing[p].bytes
     IN memory' = [memory EXCEPT ![p] = [a \in Address |->
                    IF a - to + 1 \in 1 .. Len(got) THEN got[a - to + 1] ELSE @[a]]]
  /\ UNCHANGED <<keys, taken, paper, alive>>

Fork(p, q) ==
  /\ p \in alive
  /\ doing[p] = Idle
  /\ q \notin alive
  /\ alive' = alive \cup {q}
  /\ memory' = [memory EXCEPT ![q] = memory[p]]
  /\ UNCHANGED <<keys, taken, paper, doing>>

Next ==
  \/ HitKey
  \/ \E p \in Process :
       \/ \E req \in Request : Ask(p, req)
       \/ Put(p) \/ Get(p) \/ Tell(p) \/ Refuse(p) \/ Answer(p)
       \/ \E q \in Process : Fork(p, q)

Spec == Init /\ [][Next]_vars

=============================================================================
