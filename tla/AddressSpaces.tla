----------------------------- MODULE AddressSpaces -----------------------------
(***************************************************************************)
(* What the kernel's memory management promises programs that leave alone  *)
(* what they gave back: every process has memory of its own.  A page       *)
(* changes only by its process's stores; brk(2) gives pages back or adds   *)
(* pages of zeros, and fork copies the caller's memory.  A page that was   *)
(* once given back cannot be had again: brk refuses to grow over it, as it *)
(* refuses to grow into the stack.  Once a program has stored into a page  *)
(* it had given back, nothing is promised of any memory.                   *)
(***************************************************************************)
EXTENDS Integers

CONSTANTS
  Proc,      \* the processes there may be
  InitProc,  \* `init'
  MaxPage,   \* bound: the pages of an address space are 1 .. MaxPage
  PageSize,  \* bound: the addresses in a page
  Value      \* what a page may contain; 0 is a page of zeros

Page == 1 .. MaxPage
Break == 1 .. (MaxPage + 1) * PageSize

(* The page of the last address below a break.                             *)
LastPage(b) == (b - 1) \div PageSize

VARIABLES
  space,     \* of each process: its break, its pages, those it gave back
  strayed    \* whether a program has stored into a page it had given back

Init ==
  /\ strayed = FALSE
  /\ \E b \in Break, pages \in SUBSET Page :
      \E mem \in [pages -> Value] :
        space = [p \in {InitProc} |-> [brk |-> b, mem |-> mem, released |-> {}]]

Store(p, g, v) ==
  /\ g \in DOMAIN space[p].mem
  /\ space' = [space EXCEPT ![p].mem[g] = v]

Shrink(p, b) ==
  /\ LastPage(b) <= LastPage(space[p].brk)
  /\ LET s == space[p]
         gone == {g \in DOMAIN s.mem : LastPage(b) < g /\ g <= LastPage(s.brk)}
     IN  space' = [space EXCEPT ![p] =
                     [brk |-> b,
                      mem |-> [g \in DOMAIN s.mem \ gone |-> s.mem[g]],
                      released |-> s.released \cup gone]]

Grow(p, b) ==
  LET s == space[p]
      more == {g \in Page : LastPage(s.brk) < g /\ g <= LastPage(b)}
  IN  /\ LastPage(s.brk) <= LastPage(b)
      /\ more \cap (DOMAIN s.mem \cup s.released) = {}
      /\ space' = [space EXCEPT ![p] =
                     [brk |-> b,
                      mem |-> [g \in DOMAIN s.mem \cup more |->
                                 IF g \in more THEN 0 ELSE s.mem[g]],
                      released |-> s.released]]

Fork(p, c) ==
  /\ c \notin DOMAIN space
  /\ space' = [q \in DOMAIN space \cup {c} |-> IF q = c THEN space[p] ELSE space[q]]

Orderly ==
  /\ \E p \in DOMAIN space :
       \/ \E g \in Page, v \in Value : Store(p, g, v)
       \/ \E b \in Break : Shrink(p, b) \/ Grow(p, b)
       \/ \E c \in Proc : Fork(p, c)
  /\ UNCHANGED strayed

Stray ==
  /\ strayed \/ \E p \in DOMAIN space : space[p].released # {}
  /\ strayed'

Next == Orderly \/ Stray

Spec == Init /\ [][Next]_<<space, strayed>>

=============================================================================
