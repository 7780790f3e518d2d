--------------------------- MODULE UserMemory_proofs ---------------------------
(***************************************************************************)
(* What UserMemory guarantees for any number of processes, pages, frames   *)
(* and kernel blocks, and any image of `init': types, that no block is     *)
(* leaked or freed twice, that only the entries a brk left behind lead to  *)
(* frames of others, that the kernel stops for want of memory only, and    *)
(* that every process has the memory AddressSpaces promises it until a     *)
(* program uses such an entry.  What memory contains is known until then;  *)
(* the rest of the invariant holds ever after.                             *)
(*                                                                         *)
(* A process owns the pages its program can reach, or is about to; what    *)
(* else is in its page table is stale and may point at frames of others.   *)
(* The invariant says that an owned page has the one reference to its      *)
(* frame, through every step of the brk or fork it is in the middle of.    *)
(***************************************************************************)
EXTENDS UserMemory, RoundRobin_proofs

Growing == {"grow", "wipe", "map"}
Copying == {"forkBlock", "copy", "describe"}

(* The last page below the break that p has not given back, or has got.    *)
Limit(p) ==
  IF pc[p] = "release" THEN page[p]
  ELSE IF pc[p] \in {"dealloc"} \cup Growing THEN page[p] - 1
  ELSE LastPage(userBreak[p])

Own(p) == {g \in Page : table[p][g] # NoFrame /\ (g <= Limit(p) \/ g \in StackPage)}

(* The pages that the child of p will own.                                 *)
ChildOwn(p) ==
  {g \in Page : child[p][g] # NoFrame /\ (g <= LastPage(userBreak[p]) \/ g \in StackPage)}

(* Between calls the locals of a process are what Return left.             *)
IdleInv(p) ==
  /\ pc[p] \notin Forking => taken[p] = {} /\ child[p] = NoPages
  /\ pc[p] \in {"user", "take", "taken"} => page[p] = 0

StackInv(p) ==
  \A g \in StackPage :
    /\ table[p][g] # NoFrame
    /\ LastPage(userBreak[p]) < g
    /\ pc[p] \in Growing => LastPage(newBreak[p]) < g

ShrinkInv(p) ==
  /\ pc[p] = "release" => LastPage(newBreak[p]) <= page[p] /\ page[p] <= LastPage(userBreak[p])
  /\ pc[p] = "dealloc" =>
       /\ LastPage(newBreak[p]) < page[p] /\ page[p] <= LastPage(userBreak[p])
       /\ table[p][page[p]] # NoFrame

(* The pages of a growth: zeros as far as it came, then absent.            *)
GrowInv(p) ==
  pc[p] \in Growing =>
    /\ LastPage(userBreak[p]) < page[p]
    /\ pc[p] = "grow" => page[p] <= LastPage(newBreak[p]) + 1
    /\ pc[p] # "grow" => page[p] <= LastPage(newBreak[p]) /\ block[p] # NoFrame
    /\ pc[p] = "map" /\ ~strayed => content[block[p]] = 0
    /\ \A g \in Page :
         /\ page[p] <= g /\ g <= LastPage(newBreak[p]) => table[p][g] = NoFrame
         /\ LastPage(userBreak[p]) < g /\ g < page[p] =>
              table[p][g] # NoFrame /\ (~strayed => content[table[p][g]] = 0)

(* The tables of a child: a copy as far as the fork came, then empty.      *)
ForkInv(p) ==
  /\ pc[p] \in {"taken", "copy", "describe"} => block[p] # NoFrame
  /\ pc[p] \in Forking => \A g \in Page :
       /\ page[p] <= g => child[p][g] = NoFrame
       /\ g < page[p] => (child[p][g] = NoFrame <=> table[p][g] = NoFrame)
       /\ g \in ChildOwn(p) /\ ~strayed => content[child[p][g]] = content[table[p][g]]
  /\ pc[p] = "fetch" => page[p] # 0
  /\ pc[p] \in Copying => page[p] \in Page /\ table[p][page[p]] # NoFrame
  /\ pc[p] = "describe" /\ page[p] \in Own(p) /\ ~strayed =>
       content[block[p]] = content[table[p][page[p]]]

PathInv(p) == StackInv(p) /\ ShrinkInv(p) /\ GrowInv(p) /\ ForkInv(p)

(* BlocksAccountedFor, frame by frame.                                     *)
Accounted ==
  \A f \in Frame :
    /\ f \in used <=> refs[f] = 1 \/ \E p \in procs : f \in KernelData(p)
    /\ refs[f] = 1 => \A p \in procs : f \notin KernelData(p)
    /\ refs[f] = 1 => \E p \in procs, g \in Page : f = table[p][g] \/ f = child[p][g]

Counted ==
  \A p \in procs :
    /\ \A g \in Own(p) : refs[table[p][g]] = 1
    /\ \A g \in ChildOwn(p) : refs[child[p][g]] = 1

Distinct ==
  \A p, q \in procs :
    /\ \A g \in Own(p), h \in Own(q) : table[p][g] = table[q][h] => p = q /\ g = h
    /\ \A g \in ChildOwn(p), h \in ChildOwn(q) : child[p][g] = child[q][h] => p = q /\ g = h
    /\ \A g \in Own(p), h \in ChildOwn(q) : table[p][g] # child[q][h]

(* A block in hand is in no other hand, nor any process' kernel data yet.  *)
Hands ==
  \A p, q \in procs :
    /\ p # q => InHand(p) \cap InHand(q) = {}
    /\ InHand(p) \cap (kernel[q] \cup taken[q]) = {}

FrameInv == Accounted /\ Counted /\ Distinct /\ Hands

IInv ==
  /\ TypeOK
  /\ OnlyOutOfMemory
  /\ \A p \in Proc : IdleInv(p)
  /\ \A p \in Proc \ procs : pc[p] = "user"
  /\ \A p \in procs : PathInv(p)
  /\ FrameInv

-----------------------------------------------------------------------------

(* A break is in one of the pages, or just above page 0.                   *)
LEMMA QuotientBelow ==
  ASSUME NEW x \in Nat, NEW m \in Nat, NEW d \in Nat \ {0}, x < (m + 1) * d
  PROVE  x \div d \in 0 .. m
<1> DEFINE q == x \div d
           r == x % d
<1>1. q \in Nat /\ r \in Nat /\ x = d * q + r
  OBVIOUS
<1>2. ASSUME q >= m + 1 PROVE FALSE
  <2>1. PICK k \in Nat : q = m + 1 + k
    <3>1. q - (m + 1) \in Nat /\ q = m + 1 + (q - (m + 1))
      BY <1>1, <1>2
    <3> QED BY <3>1
  <2>2. d * q = (m + 1) * d + k * d /\ k * d \in Nat
    BY <2>1
  <2> QED BY <1>1, <2>2
<1> QED BY <1>1, <1>2

LEMMA LastPageType ==
  ASSUME NEW b \in Break
  PROVE  LastPage(b) \in 0 .. MaxPage
<1>1. b - 1 \in Nat /\ b - 1 < (MaxPage + 1) * PageSize
  BY BoundsAssumption DEF Break
<1> QED BY <1>1, QuotientBelow, BoundsAssumption DEF LastPage

LEMMA FrameFacts == Frame \subseteq Nat /\ NoFrame \notin Frame /\ Page \subseteq Nat
BY BoundsAssumption DEF Frame, NoFrame, Page

(* alloc_lb takes a block that is not in use, or stops the kernel.         *)
LEMMA AllocLbFacts ==
  ASSUME NEW p, NEW next, AllocLb(p, next)
  PROVE  \/ /\ bugCheck' = OutOfLargeBlocks
            /\ UNCHANGED <<used, block, pc>>
         \/ \E f \in Frame \ used :
              /\ used' = used \cup {f}
              /\ block' = [block EXCEPT ![p] = f]
              /\ pc' = [pc EXCEPT ![p] = next]
              /\ UNCHANGED bugCheck
<1> DEFINE free == Frame \ used
<1>1. free \in SUBSET Nat
  BY FrameFacts
<1>2. CASE free = {}
  BY <1>2 DEF AllocLb, Stop
<1>3. CASE free # {}
  <2>1. Least(free) \in Frame \ used
    BY <1>1, <1>3, LeastOfNat
  <2> QED BY <1>3, <2>1 DEF AllocLb, Goto
<1> QED BY <1>2, <1>3

(* The invariant gives the properties of the runs.                         *)
LEMMA KernelDataFrames ==
  ASSUME IInv, NEW p \in procs
  PROVE  KernelData(p) \subseteq Frame
<1>1. p \in Proc /\ kernel[p] \subseteq Frame /\ taken[p] \subseteq Frame
      /\ block[p] \in Frame \cup {NoFrame} /\ page[p] \in 0 .. MaxPage + 1
  BY DEF IInv, TypeOK
<1>2. InHand(p) \subseteq Frame
  <2>1. CASE pc[p] = "dealloc"
    <3>1. LastPage(newBreak[p]) \in 0 .. MaxPage /\ LastPage(userBreak[p]) \in 0 .. MaxPage
      BY <1>1, LastPageType DEF IInv, TypeOK
    <3>2. page[p] \in Page
      BY <1>1, <2>1, <3>1, BoundsAssumption DEF IInv, PathInv, ShrinkInv, Page
    <3>3. table[p][page[p]] \in Frame
      BY <1>1, <2>1, <3>2 DEF IInv, TypeOK, PathInv, ShrinkInv
    <3> QED BY <2>1, <3>3 DEF InHand
  <2>2. CASE pc[p] \in {"wipe", "map", "taken", "copy", "describe"}
    BY <1>1, <2>2 DEF InHand, IInv, PathInv, GrowInv, ForkInv, Growing
  <2> QED BY <2>1, <2>2 DEF InHand
<1> QED BY <1>1, <1>2 DEF KernelData

LEMMA Accounting == IInv => BlocksAccountedFor
<1> SUFFICES ASSUME IInv PROVE BlocksAccountedFor
  OBVIOUS
<1> DEFINE counted == {f \in Frame : refs[f] > 0}
           data == UNION {KernelData(p) : p \in procs}
<1>1. \A f \in Frame : refs[f] \in 0 .. 1
  BY DEF IInv, TypeOK
<1>2. \A f \in Frame : f \in counted <=> refs[f] = 1
  BY <1>1
<1>3. used \subseteq Frame /\ data \subseteq Frame
  BY KernelDataFrames DEF IInv, TypeOK
<1>4. used = counted \cup data
  BY <1>2, <1>3 DEF IInv, FrameInv, Accounted
<1>5. counted \cap data = {}
  BY <1>2, <1>3 DEF IInv, FrameInv, Accounted
<1>6. \A f \in counted : \E p \in procs, g \in Page : f \in {table[p][g], child[p][g]}
  BY <1>2 DEF IInv, FrameInv, Accounted
<1> QED BY <1>4, <1>5, <1>6 DEF BlocksAccountedFor

LEMMA MemOwned ==
  ASSUME IInv, NEW p \in procs
  PROVE  MemOf(p) \subseteq Own(p)
<1>1. p \in Proc /\ page[p] \in 0 .. MaxPage + 1
      /\ LastPage(newBreak[p]) \in 0 .. MaxPage /\ LastPage(userBreak[p]) \in 0 .. MaxPage
  BY LastPageType DEF IInv, TypeOK
<1>2. LastPage(BreakOf(p)) <= Limit(p) /\ LastPage(BreakOf(p)) \in Int /\ Limit(p) \in Int
  <2>1. CASE pc[p] \in {"release", "dealloc"}
    BY <1>1, <2>1, BoundsAssumption DEF IInv, PathInv, ShrinkInv, BreakOf, Limit, Growing
  <2>2. CASE pc[p] \in Growing
    <3>1. LastPage(userBreak[p]) < page[p]
      BY <2>2 DEF IInv, PathInv, GrowInv
    <3> QED BY <1>1, <2>2, <3>1, BoundsAssumption DEF BreakOf, Limit, Growing
  <2>3. CASE pc[p] \notin {"release", "dealloc"} \cup Growing
    BY <1>1, <2>3, BoundsAssumption DEF BreakOf, Limit
  <2> QED BY <2>1, <2>2, <2>3
<1>3. \A g \in Page : g \in Int /\ (g <= LastPage(BreakOf(p)) => g <= Limit(p))
  <2> HIDE DEF Limit, BreakOf
  <2> QED BY <1>2, FrameFacts
<1> QED BY <1>3 DEF MemOf, Own, InReach

(* An entry that is neither a page of p's nor one p gave back is of a page *)
(* that p is growing by.                                                   *)
LEMMA OwnOrReleased ==
  ASSUME IInv, NEW p \in procs, NEW g \in Page, table[p][g] # NoFrame
  PROVE  g \in Own(p) \/ g \in ReleasedOf(p)
<1>1. /\ p \in Proc /\ page[p] \in 0 .. MaxPage + 1 /\ g \in Nat
      /\ LastPage(newBreak[p]) \in 0 .. MaxPage /\ LastPage(userBreak[p]) \in 0 .. MaxPage
  BY LastPageType, FrameFacts DEF IInv, TypeOK
<1>2. CASE g \in StackPage
  BY <1>2 DEF Own
<1>3. CASE g \notin StackPage /\ pc[p] \in Growing
  BY <1>1, <1>3, BoundsAssumption
  DEF IInv, PathInv, GrowInv, Own, Limit, ReleasedOf, Brking, Growing
<1>4. CASE g \notin StackPage /\ pc[p] \in {"release", "dealloc"}
  BY <1>1, <1>4, BoundsAssumption
  DEF IInv, PathInv, ShrinkInv, Own, Limit, ReleasedOf, Brking, Growing
<1>5. CASE g \notin StackPage /\ pc[p] \notin Brking
  BY <1>1, <1>5 DEF Own, Limit, ReleasedOf, Brking, Growing
<1> QED BY <1>2, <1>3, <1>4, <1>5 DEF Brking, Growing

LEMMA OnlyReleasedShared == IInv => SharedOnlyWhereReleased
<1> SUFFICES ASSUME IInv, NEW p \in procs, NEW g \in MemOf(p)
             PROVE  /\ refs[table[p][g]] = 1
                    /\ \A q \in procs : \A h \in Page :
                         table[q][h] = table[p][g] => (q = p /\ h = g) \/ h \in ReleasedOf(q)
  BY DEF SharedOnlyWhereReleased
<1>1. g \in Own(p) /\ table[p][g] # NoFrame
  BY MemOwned DEF Own
<1>2. refs[table[p][g]] = 1
  BY <1>1 DEF IInv, FrameInv, Counted
<1>3. ASSUME NEW q \in procs, NEW h \in Page, table[q][h] = table[p][g]
      PROVE  (q = p /\ h = g) \/ h \in ReleasedOf(q)
  BY <1>1, <1>3, OwnOrReleased DEF IInv, FrameInv, Distinct
<1> QED BY <1>2, <1>3

-----------------------------------------------------------------------------
(* What a step leaves alone.                                               *)

(* Everything p has of its own but what memory contains.                   *)
Same(p) ==
  /\ userBreak'[p] = userBreak[p] /\ table'[p] = table[p] /\ kernel'[p] = kernel[p]
  /\ pc'[p] = pc[p] /\ newBreak'[p] = newBreak[p] /\ page'[p] = page[p]
  /\ block'[p] = block[p] /\ taken'[p] = taken[p] /\ child'[p] = child[p]

LEMMA SameOperators ==
  ASSUME NEW p, Same(p)
  PROVE  /\ Own(p)' = Own(p) /\ ChildOwn(p)' = ChildOwn(p) /\ Limit(p)' = Limit(p)
         /\ InHand(p)' = InHand(p) /\ KernelData(p)' = KernelData(p)
         /\ BreakOf(p)' = BreakOf(p) /\ MemOf(p)' = MemOf(p) /\ ReleasedOf(p)' = ReleasedOf(p)
         /\ IdleInv(p) => IdleInv(p)'
<1>1. Limit(p)' = Limit(p) /\ InHand(p)' = InHand(p) /\ BreakOf(p)' = BreakOf(p)
  BY DEF Same, Limit, InHand, BreakOf
<1>2. Own(p)' = Own(p) /\ ChildOwn(p)' = ChildOwn(p) /\ KernelData(p)' = KernelData(p)
  BY <1>1 DEF Same, Own, ChildOwn, KernelData
<1>3. MemOf(p)' = MemOf(p) /\ ReleasedOf(p)' = ReleasedOf(p)
  BY <1>1 DEF Same, MemOf, ReleasedOf, InReach
<1>4. IdleInv(p) => IdleInv(p)'
  BY DEF Same, IdleInv
<1> QED BY <1>1, <1>2, <1>3, <1>4

(* The frames whose contents matter to p.                                  *)
ContentKept(p) ==
  /\ \A g \in Own(p) : content'[table[p][g]] = content[table[p][g]]
  /\ \A g \in ChildOwn(p) : content'[child[p][g]] = content[child[p][g]]
  /\ \A f \in InHand(p) : content'[f] = content[f]

(* A page of the child to be is one that the parent owns.                  *)
LEMMA ChildOwnFacts ==
  ASSUME IInv, NEW p \in procs
  PROVE  /\ ChildOwn(p) \subseteq Own(p)
         /\ \A g \in ChildOwn(p) : pc[p] \in Forking /\ g < page[p]
<1>1. p \in Proc /\ IdleInv(p) /\ PathInv(p) /\ page[p] \in Int
  BY DEF IInv, TypeOK
<1>2. ASSUME NEW g \in ChildOwn(p) PROVE pc[p] \in Forking /\ g < page[p]
  BY <1>1, <1>2, FrameFacts DEF ChildOwn, IdleInv, PathInv, ForkInv, NoPages
<1>3. ASSUME NEW g \in ChildOwn(p) PROVE g \in Own(p)
  <2>1. pc[p] \in Forking /\ g < page[p] /\ g \in Page /\ child[p][g] # NoFrame
    BY <1>2 DEF ChildOwn
  <2>2. table[p][g] # NoFrame
    BY <1>1, <2>1 DEF PathInv, ForkInv
  <2>3. Limit(p) = LastPage(userBreak[p])
    BY <2>1 DEF Limit, Forking, Growing
  <2> QED BY <2>1, <2>2, <2>3 DEF Own, ChildOwn
<1> QED BY <1>2, <1>3

LEMMA PathKept ==
  ASSUME IInv, NEW p \in procs, Same(p), strayed => strayed', strayed' \/ ContentKept(p)
  PROVE  PathInv(p)'
<1>1. p \in Proc /\ PathInv(p) /\ page[p] \in Int /\ LastPage(userBreak[p]) \in Int
  BY LastPageType DEF IInv, TypeOK
<1>2. StackInv(p)'
  BY <1>1 DEF Same, PathInv, StackInv
<1>3. ShrinkInv(p)'
  BY <1>1 DEF Same, PathInv, ShrinkInv
<1>4. GrowInv(p)'
  <2>1. pc[p] = "map" /\ ~strayed' => content'[block[p]] = content[block[p]]
    BY DEF ContentKept, InHand
  <2>2. ASSUME pc[p] \in Growing, NEW g \in Page, LastPage(userBreak[p]) < g, g < page[p]
        PROVE  table[p][g] # NoFrame /\ (~strayed' => content'[table[p][g]] = 0)
    <3>1. table[p][g] # NoFrame /\ (~strayed => content[table[p][g]] = 0)
      BY <1>1, <2>2 DEF PathInv, GrowInv
    <3>2. g \in Own(p)
      BY <1>1, <2>2, <3>1, FrameFacts DEF Own, Limit, Growing
    <3> QED BY <3>1, <3>2 DEF ContentKept
  <2> QED BY <1>1, <2>1, <2>2 DEF Same, PathInv, GrowInv
<1>5. ForkInv(p)'
  <2>1. ~strayed' =>
          \A g \in ChildOwn(p) : /\ content'[child[p][g]] = content[child[p][g]]
                                 /\ content'[table[p][g]] = content[table[p][g]]
    BY ChildOwnFacts DEF ContentKept
  <2>2. pc[p] = "describe" /\ ~strayed' => content'[block[p]] = content[block[p]]
    BY DEF ContentKept, InHand
  <2>3. pc[p] = "describe" /\ page[p] \in Own(p) /\ ~strayed' =>
          content'[table[p][page[p]]] = content[table[p][page[p]]]
    BY DEF ContentKept
  <2> QED BY <1>1, <2>1, <2>2, <2>3, SameOperators DEF Same, PathInv, ForkInv
<1> QED BY <1>2, <1>3, <1>4, <1>5 DEF PathInv

(* All that FrameInv looks at of p: its entries may only be added to.      *)
SameFrames(p) ==
  /\ Own(p)' = Own(p) /\ ChildOwn(p)' = ChildOwn(p)
  /\ InHand(p)' = InHand(p) /\ kernel'[p] = kernel[p] /\ taken'[p] = taken[p]
  /\ \A g \in Page : /\ table[p][g] # NoFrame => table'[p][g] = table[p][g]
                     /\ child[p][g] # NoFrame => child'[p][g] = child[p][g]

LEMMA SameIsSameFrames ==
  ASSUME NEW p, Same(p)
  PROVE  SameFrames(p)
BY SameOperators DEF Same, SameFrames

LEMMA FramesKept ==
  ASSUME IInv, UNCHANGED <<used, refs, procs>>, \A p \in procs : SameFrames(p)
  PROVE  FrameInv'
<1>1. \A p \in procs : /\ \A g \in Own(p) : table'[p][g] = table[p][g]
                       /\ \A g \in ChildOwn(p) : child'[p][g] = child[p][g]
                       /\ KernelData(p)' = KernelData(p)
  BY DEF SameFrames, Own, ChildOwn, KernelData
<1>2. Accounted'
  <2>1. \A f \in Frame :
          refs[f] = 1 => \E p \in procs, g \in Page : f = table'[p][g] \/ f = child'[p][g]
    <3> SUFFICES ASSUME NEW f \in Frame, refs[f] = 1
                 PROVE  \E p \in procs, g \in Page : f = table'[p][g] \/ f = child'[p][g]
      OBVIOUS
    <3>1. PICK p \in procs, g \in Page : f = table[p][g] \/ f = child[p][g]
      BY DEF IInv, FrameInv, Accounted
    <3>2. f = table'[p][g] \/ f = child'[p][g]
      BY <3>1, FrameFacts DEF SameFrames
    <3> QED BY <3>2
  <2> QED BY <1>1, <2>1 DEF IInv, FrameInv, Accounted
<1>3. Counted'
  BY <1>1 DEF IInv, FrameInv, Counted, SameFrames
<1>4. Distinct'
  BY <1>1 DEF IInv, FrameInv, Distinct, SameFrames
<1>5. Hands'
  BY DEF IInv, FrameInv, Hands, SameFrames
<1> QED BY <1>2, <1>3, <1>4, <1>5 DEF FrameInv

(* A step of p that leaves the other processes alone.                      *)
Alone(p) == procs' = procs /\ \A q \in Proc \ {p} : Same(q)

LEMMA StepOf ==
  ASSUME IInv, NEW p \in procs, Alone(p),
         TypeOK', OnlyOutOfMemory', IdleInv(p)', PathInv(p)', FrameInv',
         strayed => strayed', strayed' \/ \A q \in procs \ {p} : ContentKept(q)
  PROVE  IInv'
<1>1. procs \subseteq Proc /\ procs' = procs
  BY DEF IInv, TypeOK, Alone
<1>2. \A q \in Proc : IdleInv(q)'
  BY SameOperators DEF IInv, Alone
<1>3. \A q \in Proc \ procs : pc'[q] = "user"
  BY DEF IInv, Alone, Same
<1>4. \A q \in procs : PathInv(q)'
  BY <1>1, PathKept DEF Alone
<1> QED BY <1>1, <1>2, <1>3, <1>4 DEF IInv

(* What the program of p has, as AddressSpaces tells it.                   *)
View(p) ==
  [brk |-> BreakOf(p), mem |-> [g \in MemOf(p) |-> content[table[p][g]]],
   released |-> ReleasedOf(p)]

(* Only p's program may notice a step that leaves the others alone.        *)
LEMMA Seen ==
  ASSUME IInv, NEW p \in procs, Alone(p), \A q \in procs \ {p} : ContentKept(q)
  PROVE  /\ spaceOf' = [spaceOf EXCEPT ![p] = View(p)']
         /\ DOMAIN spaceOf = procs /\ spaceOf[p] = View(p)
<1>1. procs \subseteq Proc /\ procs' = procs
  BY DEF IInv, TypeOK, Alone
<1>2. ASSUME NEW q \in procs \ {p} PROVE View(q)' = View(q)
  <2>1. Same(q) /\ ContentKept(q)
    BY <1>1 DEF Alone
  <2>2. \A g \in MemOf(q) : content'[table'[q][g]] = content[table[q][g]]
    BY <2>1, MemOwned DEF ContentKept, Same
  <2>3. BreakOf(q)' = BreakOf(q) /\ MemOf(q)' = MemOf(q) /\ ReleasedOf(q)' = ReleasedOf(q)
    BY <2>1, SameOperators
  <2>4. [g \in MemOf(q) |-> content[table[q][g]]]' = [g \in MemOf(q) |-> content[table[q][g]]]
    BY <2>2, <2>3
  <2> QED BY <2>3, <2>4 DEF View
<1>3. spaceOf = [q \in procs |-> View(q)] /\ spaceOf' = [q \in procs' |-> View(q)']
  BY DEF spaceOf, View
<1> QED BY <1>1, <1>2, <1>3

(* p's program does not notice one that keeps what it has.                 *)
LEMMA Unseen ==
  ASSUME IInv, NEW p \in procs, Alone(p), \A q \in procs \ {p} : ContentKept(q),
         BreakOf(p)' = BreakOf(p), MemOf(p)' = MemOf(p), ReleasedOf(p)' = ReleasedOf(p),
         \A g \in MemOf(p) : content'[table'[p][g]] = content[table[p][g]]
  PROVE  spaceOf' = spaceOf
<1>1. [g \in MemOf(p) |-> content[table[p][g]]]' = [g \in MemOf(p) |-> content[table[p][g]]]
  OBVIOUS
<1>2. View(p)' = View(p)
  BY <1>1 DEF View
<1>3. spaceOf = [q \in procs |-> View(q)]
  BY DEF spaceOf, View
<1> QED BY <1>2, <1>3, Seen

(* The state of a process, for the lemmas on its steps.                    *)
LEMMA Here ==
  ASSUME IInv, NEW p \in procs
  PROVE  /\ p \in Proc /\ IdleInv(p) /\ PathInv(p)
         /\ userBreak[p] \in Break /\ newBreak[p] \in Break
         /\ LastPage(userBreak[p]) \in 0 .. MaxPage /\ LastPage(newBreak[p]) \in 0 .. MaxPage
         /\ page[p] \in 0 .. MaxPage + 1 /\ block[p] \in Frame \cup {NoFrame}
         /\ taken[p] \subseteq Frame /\ kernel[p] \subseteq Frame
         /\ table[p] \in [Page -> Frame \cup {NoFrame}]
         /\ child[p] \in [Page -> Frame \cup {NoFrame}]
         /\ MaxPage \in Nat /\ \A g \in Page : g \in Nat /\ 1 <= g /\ g <= MaxPage
BY LastPageType, BoundsAssumption DEF IInv, TypeOK, Page

(* A frame that p owns, or one it holds, is nothing to the others.         *)
LEMMA OwnFrame ==
  ASSUME IInv, NEW p \in procs, NEW g \in Own(p)
  PROVE  /\ table[p][g] \in Frame /\ refs[table[p][g]] = 1
         /\ \A q \in procs : table[p][g] \notin KernelData(q)
         /\ \A q \in procs \ {p} : \A h \in Own(q) : table[q][h] # table[p][g]
         /\ \A h \in Own(p) \ {g} : table[p][h] # table[p][g]
         /\ \A q \in procs : \A h \in ChildOwn(q) : child[q][h] # table[p][g]
<1>1. table[p][g] \in Frame /\ refs[table[p][g]] = 1
  BY Here DEF Own, IInv, FrameInv, Counted
<1> QED BY <1>1 DEF IInv, FrameInv, Distinct, Accounted

LEMMA HeldFrame ==
  ASSUME IInv, NEW p \in procs, NEW f \in InHand(p)
  PROVE  /\ f \in Frame /\ f \in used /\ refs[f] = 0
         /\ \A q \in procs : f \notin kernel[q] \cup taken[q]
         /\ \A q \in procs \ {p} : f \notin InHand(q)
         /\ \A q \in procs : \A h \in Own(q) : table[q][h] # f
         /\ \A q \in procs : \A h \in ChildOwn(q) : child[q][h] # f
<1>1. f \in Frame /\ f \in KernelData(p)
  BY KernelDataFrames DEF KernelData
<1>2. f \in used /\ refs[f] = 0
  BY <1>1 DEF IInv, TypeOK, FrameInv, Accounted
<1> QED BY <1>1, <1>2 DEF IInv, FrameInv, Hands, Counted

LEMMA OthersKeepContent ==
  ASSUME IInv, NEW p \in procs, NEW f, NEW v, content' = [content EXCEPT ![f] = v],
         f \in InHand(p) \/ \E g \in Own(p) : f = table[p][g]
  PROVE  /\ \A q \in procs \ {p} : ContentKept(q)
         /\ f \in InHand(p) =>
              /\ \A h \in Own(p) : content'[table[p][h]] = content[table[p][h]]
              /\ \A h \in ChildOwn(p) : content'[child[p][h]] = content[child[p][h]]
<1>1. ASSUME NEW x \in Frame, x # f PROVE content'[x] = content[x]
  BY <1>1 DEF IInv, TypeOK
<1>2. \A q \in procs : /\ \A h \in Own(q) : table[q][h] \in Frame
                       /\ \A h \in ChildOwn(q) : child[q][h] \in Frame
                       /\ \A x \in InHand(q) : x \in Frame
  BY Here, KernelDataFrames DEF Own, ChildOwn, KernelData
<1>3. CASE f \in InHand(p)
  BY <1>1, <1>2, <1>3, HeldFrame DEF ContentKept
<1>4. CASE \E g \in Own(p) : f = table[p][g] /\ f \notin InHand(p)
  BY <1>1, <1>2, <1>4, OwnFrame DEF ContentKept, KernelData
<1> QED BY <1>3, <1>4

LEMMA NoContentChange ==
  ASSUME content' = content
  PROVE  \A q : ContentKept(q)
BY DEF ContentKept

-----------------------------------------------------------------------------
(* The program and the calls of brk.                                       *)

LEMMA StoreKeeps ==
  ASSUME IInv, NEW p \in procs, NEW g \in Page, NEW v \in Value, Store(p, g, v)
  PROVE  IInv' /\ A!Next
<1>1. /\ pc[p] = "user" /\ table[p][g] \in Frame /\ BreakOf(p) = userBreak[p]
      /\ content' = [content EXCEPT ![table[p][g]] = v]
      /\ bugCheck' \in {0, Overwritten}
      /\ UNCHANGED <<used, refs, procs, space, pc, local>>
  BY Here DEF Store, At, BreakOf
<1>2. /\ strayed' \in BOOLEAN
      /\ strayed => strayed'
      /\ g \notin MemOf(p) => strayed'
      /\ ~strayed /\ g \in MemOf(p) => strayed' = strayed
  <2>1. g \in MemOf(p) <=> InReach(p, g, userBreak[p])
    BY <1>1 DEF MemOf
  <2>2. strayed \in BOOLEAN /\ strayed' = (strayed \/ ~InReach(p, g, userBreak[p]))
    BY DEF Store, IInv, TypeOK
  <2> QED BY <2>1, <2>2
<1>3. Alone(p) /\ Same(p)
  BY <1>1 DEF Alone, Same, space, local
<1>4. g \in MemOf(p) => \A q \in procs \ {p} : ContentKept(q)
  BY <1>1, MemOwned, OthersKeepContent
<1>5. TypeOK' /\ OnlyOutOfMemory'
  <2>1. content' \in [Frame -> Value]
    BY <1>1 DEF IInv, TypeOK
  <2>2. strayed' \in BOOLEAN
    BY <1>2
  <2>3. bugCheck' \in {0, 2, 7, 12, 16, OutOfLargeBlocks, Overwritten}
    BY <1>1
  <2>4. OnlyOutOfMemory'
    BY <1>1 DEF OnlyOutOfMemory
  <2> QED BY <1>1, <2>1, <2>2, <2>3, <2>4 DEF IInv, TypeOK, space, local
<1>6. IdleInv(p)' /\ PathInv(p)'
  <2>1. ChildOwn(p) = {}
    BY <1>1, ChildOwnFacts DEF Forking
  <2> QED BY <1>1, <1>3, <2>1, Here, SameOperators
      DEF Same, PathInv, StackInv, ShrinkInv, GrowInv, ForkInv, Growing, Copying, Forking
<1>7. FrameInv'
  BY <1>1, <1>3, FramesKept, SameIsSameFrames DEF Alone, IInv, TypeOK
<1>8. IInv'
  <2>1. strayed' \/ \A q \in procs \ {p} : ContentKept(q)
    BY <1>2, <1>4
  <2> QED BY <1>2, <1>3, <1>5, <1>6, <1>7, <2>1, StepOf
<1>9. CASE strayed
  BY <1>2, <1>8, <1>9 DEF A!Next, A!Stray
<1>10. CASE g \notin MemOf(p)    \* p stores through a page it gave back
  <2>1. g \in ReleasedOf(p)
    <3>1. table[p][g] # NoFrame /\ g \notin StackPage /\ ~(g <= LastPage(userBreak[p]))
      BY <1>1, <1>10, FrameFacts DEF MemOf, InReach
    <3> QED BY <1>1, <3>1, Here DEF ReleasedOf, Brking
  <2>2. p \in DOMAIN spaceOf /\ spaceOf[p].released # {}
    BY <2>1 DEF spaceOf
  <2> QED BY <1>2, <1>8, <1>10, <2>2 DEF A!Next, A!Stray
<1>11. CASE ~strayed /\ g \in MemOf(p)
  <2>1. g \in Own(p)
    BY <1>11, MemOwned
  <2>2. View(p)' = [brk |-> View(p).brk, mem |-> [View(p).mem EXCEPT ![g] = v],
                    released |-> View(p).released]
    <3>1. \A h \in MemOf(p) : content'[table[p][h]] = IF h = g THEN v ELSE content[table[p][h]]
      <4>1. ASSUME NEW h \in MemOf(p), h # g
            PROVE  table[p][h] # table[p][g] /\ table[p][h] \in Frame
        BY <2>1, <4>1, MemOwned, OwnFrame
      <4> QED BY <1>1, <4>1 DEF IInv, TypeOK
    <3>2. BreakOf(p)' = BreakOf(p) /\ MemOf(p)' = MemOf(p) /\ ReleasedOf(p)' = ReleasedOf(p)
          /\ table'[p] = table[p]
      BY <1>3, SameOperators DEF Same
    <3>3. [h \in MemOf(p) |-> content[table[p][h]]]'
            = [[h \in MemOf(p) |-> content[table[p][h]]] EXCEPT ![g] = v]
      BY <3>1, <3>2
    <3> QED BY <3>2, <3>3 DEF View
  <2>3. A!Store(p, g, v) /\ DOMAIN spaceOf = procs
    <3>1. /\ spaceOf' = [spaceOf EXCEPT ![p] = View(p)']
          /\ DOMAIN spaceOf = procs /\ spaceOf[p] = View(p)
      BY <1>3, <1>4, <1>11, Seen
    <3>2. g \in DOMAIN spaceOf[p].mem
      BY <1>11, <3>1 DEF View
    <3>3. View(p) = [brk |-> View(p).brk, mem |-> View(p).mem, released |-> View(p).released]
      BY DEF View
    <3>4. [View(p) EXCEPT !.mem[g] = v] = View(p)'
      BY <2>2, <3>3
    <3> QED BY <3>1, <3>2, <3>4 DEF A!Store
  <2>4. strayed' = strayed
    BY <1>2, <1>11
  <2> QED BY <1>8, <2>3, <2>4 DEF A!Next, A!Orderly, A!Page, Page
<1> QED BY <1>2, <1>8, <1>9, <1>10, <1>11

LEMMA BrkInPageKeeps ==
  ASSUME IInv, NEW p \in procs, NEW rb \in Break, BrkInPage(p, rb), UNCHANGED strayed
  PROVE  IInv' /\ A!Next
<1>1. /\ pc[p] = "user" /\ LastPage(rb) = LastPage(userBreak[p])
      /\ userBreak' = [userBreak EXCEPT ![p] = rb]
      /\ UNCHANGED <<used, refs, content, procs, table, kernel, pc, newBreak, page, block, taken, child, bugCheck>>
  BY DEF BrkInPage, At, heap, local
<1>2. p \in Proc /\ userBreak'[p] = rb /\ Alone(p)
  BY <1>1, Here DEF IInv, TypeOK, Alone, Same
<1>3. \A q \in procs \ {p} : ContentKept(q)
  BY <1>1, NoContentChange
<1>4. TypeOK' /\ OnlyOutOfMemory'
  BY <1>1 DEF IInv, TypeOK, OnlyOutOfMemory
<1>5. IdleInv(p)' /\ PathInv(p)'
  BY <1>1, <1>2, Here
  DEF IdleInv, PathInv, StackInv, ShrinkInv, GrowInv, ForkInv, Growing, Copying, Forking
<1>6. SameFrames(p)
  BY <1>1, <1>2 DEF SameFrames, Own, ChildOwn, Limit, InHand
<1>7. FrameInv'
  BY <1>1, <1>2, <1>6, FramesKept, SameIsSameFrames DEF Alone, IInv, TypeOK
<1>8. View(p)' = [brk |-> rb, mem |-> View(p).mem, released |-> View(p).released]
  <2>1. BreakOf(p)' = rb /\ MemOf(p)' = MemOf(p) /\ ReleasedOf(p)' = ReleasedOf(p)
    BY <1>1, <1>2 DEF BreakOf, MemOf, InReach, ReleasedOf, Brking
  <2> QED BY <1>1, <2>1 DEF View
<1>9. A!Shrink(p, rb)
  <2>1. /\ spaceOf' = [spaceOf EXCEPT ![p] = View(p)']
        /\ DOMAIN spaceOf = procs /\ spaceOf[p] = View(p)
    BY <1>2, <1>3, Seen
  <2>2. View(p).brk = userBreak[p] /\ DOMAIN View(p).mem = MemOf(p)
    BY <1>1 DEF View, BreakOf
  <2> DEFINE gone == {g \in DOMAIN View(p).mem : LastPage(rb) < g /\ g <= LastPage(userBreak[p])}
  <2>3. gone = {} /\ LastPage(rb) <= LastPage(userBreak[p])
    BY <1>1, <2>2, Here DEF MemOf
  <2>4. /\ [g \in DOMAIN View(p).mem \ gone |-> View(p).mem[g]] = View(p).mem
        /\ View(p).released \cup gone = View(p).released
    BY <2>3 DEF View
  <2>5. View(p)' = [brk |-> rb,
                    mem |-> [g \in DOMAIN View(p).mem \ gone |-> View(p).mem[g]],
                    released |-> View(p).released \cup gone]
    BY <1>8, <2>4
  <2> HIDE DEF gone
  <2>6. /\ gone = {g \in DOMAIN View(p).mem : A!LastPage(rb) < g /\ g <= A!LastPage(userBreak[p])}
        /\ A!LastPage(rb) <= A!LastPage(userBreak[p])
    BY <2>3 DEF gone, A!LastPage, LastPage
  <2> QED BY <2>1, <2>2, <2>5, <2>6 DEF A!Shrink
<1> QED BY <1>2, <1>3, <1>4, <1>5, <1>7, <1>9, StepOf, Seen DEF A!Next, A!Orderly, A!Break, Break

LEMMA BrkShrinkKeeps ==
  ASSUME IInv, NEW p \in procs, NEW rb \in Break, BrkShrink(p, rb), UNCHANGED strayed
  PROVE  IInv' /\ A!Next
<1>1. /\ pc[p] = "user" /\ LastPage(rb) < LastPage(userBreak[p])
      /\ newBreak' = [newBreak EXCEPT ![p] = rb]
      /\ page' = [page EXCEPT ![p] = LastPage(userBreak[p])]
      /\ pc' = [pc EXCEPT ![p] = "release"]
      /\ UNCHANGED <<used, refs, content, procs, userBreak, table, kernel, block, taken, child, bugCheck>>
  BY DEF BrkShrink, At, Goto, heap, space
<1>2. /\ p \in Proc /\ newBreak'[p] = rb /\ page'[p] = LastPage(userBreak[p]) /\ pc'[p] = "release"
      /\ Alone(p) /\ LastPage(rb) \in 0 .. MaxPage
  BY <1>1, Here, LastPageType DEF IInv, TypeOK, Alone, Same
<1>3. \A q \in procs \ {p} : ContentKept(q)
  BY <1>1, NoContentChange
<1>4. TypeOK' /\ OnlyOutOfMemory'
  BY <1>1, Here DEF IInv, TypeOK, OnlyOutOfMemory, Brking
<1>5. IdleInv(p)' /\ PathInv(p)'
  BY <1>1, <1>2, Here
  DEF IdleInv, PathInv, StackInv, ShrinkInv, GrowInv, ForkInv, Growing, Copying, Forking
<1>6. SameFrames(p)
  BY <1>1, <1>2 DEF SameFrames, Own, ChildOwn, Limit, InHand, Growing
<1>7. FrameInv'
  BY <1>1, <1>2, <1>6, FramesKept, SameIsSameFrames DEF Alone, IInv, TypeOK
<1> DEFINE gone == {g \in MemOf(p) : LastPage(rb) < g /\ g <= LastPage(userBreak[p])}
<1>8. View(p)' = [brk |-> rb, mem |-> [g \in MemOf(p) \ gone |-> View(p).mem[g]],
                  released |-> View(p).released \cup gone]
  <2>1. BreakOf(p)' = rb
    BY <1>1, <1>2 DEF BreakOf
  <2>2. MemOf(p)' = MemOf(p) \ gone
    BY <1>1, <1>2, <2>1, Here DEF MemOf, InReach, BreakOf, PathInv, StackInv
  <2>3. ReleasedOf(p)' = ReleasedOf(p) \cup gone
    BY <1>1, <1>2, Here DEF ReleasedOf, MemOf, InReach, BreakOf, Brking, PathInv, StackInv
  <2> QED BY <1>1, <2>1, <2>2, <2>3 DEF View
<1>9. A!Shrink(p, rb)
  <2>1. /\ spaceOf' = [spaceOf EXCEPT ![p] = View(p)']
        /\ DOMAIN spaceOf = procs /\ spaceOf[p] = View(p)
    BY <1>2, <1>3, Seen
  <2>2. View(p).brk = userBreak[p] /\ DOMAIN View(p).mem = MemOf(p)
    BY <1>1 DEF View, BreakOf
  <2>3. LastPage(rb) <= LastPage(userBreak[p])
    BY <1>1, <1>2, Here
  <2> QED BY <1>8, <2>1, <2>2, <2>3 DEF A!Shrink, A!LastPage, LastPage
<1> QED BY <1>2, <1>3, <1>4, <1>5, <1>7, <1>9, StepOf, Seen DEF A!Next, A!Orderly, A!Break, Break

LEMMA BrkGrowKeeps ==
  ASSUME IInv, NEW p \in procs, NEW rb \in Break, BrkGrow(p, rb), UNCHANGED strayed
  PROVE  IInv' /\ spaceOf' = spaceOf
<1>1. /\ pc[p] = "user" /\ LastPage(rb) > LastPage(userBreak[p])
      /\ \A g \in Page : LastPage(userBreak[p]) < g /\ g <= LastPage(rb) => table[p][g] = NoFrame
      /\ newBreak' = [newBreak EXCEPT ![p] = rb]
      /\ page' = [page EXCEPT ![p] = LastPage(userBreak[p]) + 1]
      /\ pc' = [pc EXCEPT ![p] = "grow"]
      /\ UNCHANGED <<used, refs, content, procs, userBreak, table, kernel, block, taken, child, bugCheck>>
  BY DEF BrkGrow, At, Goto, heap, space
<1>2. /\ p \in Proc /\ newBreak'[p] = rb /\ page'[p] = LastPage(userBreak[p]) + 1 /\ pc'[p] = "grow"
      /\ Alone(p) /\ LastPage(rb) \in 0 .. MaxPage
  BY <1>1, Here, LastPageType DEF IInv, TypeOK, Alone, Same
<1>3. \A q \in procs \ {p} : ContentKept(q)
  BY <1>1, NoContentChange
<1>4. TypeOK' /\ OnlyOutOfMemory'
  <2>1. LastPage(userBreak[p]) + 1 \in 0 .. MaxPage + 1
    BY Here
  <2> QED BY <1>1, <2>1 DEF IInv, TypeOK, OnlyOutOfMemory, Brking
<1>5. IdleInv(p)' /\ PathInv(p)'
  <2>1. \A g \in StackPage : LastPage(rb) < g
    BY <1>1, <1>2, Here, InitAssumption DEF PathInv, StackInv
  <2> QED BY <1>1, <1>2, <2>1, Here
      DEF IdleInv, PathInv, StackInv, ShrinkInv, GrowInv, ForkInv, Growing, Copying, Forking
<1>6. SameFrames(p)
  <2>1. Limit(p)' = Limit(p)
    BY <1>1, <1>2, Here DEF Limit, Growing
  <2> QED BY <1>1, <1>2, <2>1 DEF SameFrames, Own, ChildOwn, InHand
<1>7. FrameInv'
  BY <1>1, <1>2, <1>6, FramesKept, SameIsSameFrames DEF Alone, IInv, TypeOK
<1>8. spaceOf' = spaceOf
  <2>1. BreakOf(p)' = BreakOf(p) /\ MemOf(p)' = MemOf(p)
    BY <1>1, <1>2 DEF BreakOf, MemOf, InReach
  <2>2. ReleasedOf(p)' = ReleasedOf(p)
    BY <1>1, <1>2, Here DEF ReleasedOf, Brking
  <2> QED BY <1>1, <1>2, <1>3, <2>1, <2>2, Unseen
<1> QED BY <1>2, <1>3, <1>4, <1>5, <1>7, <1>8, StepOf

-----------------------------------------------------------------------------
(* The loops of brk.                                                       *)

LEMMA ReleaseDoneKeeps ==
  ASSUME IInv, NEW p \in procs, ReleaseDone(p), UNCHANGED strayed
  PROVE  IInv' /\ spaceOf' = spaceOf
<1>1. /\ pc[p] = "release" /\ page[p] = LastPage(newBreak[p])
      /\ userBreak' = [userBreak EXCEPT ![p] = newBreak[p]]
      /\ Return(p)
      /\ UNCHANGED <<used, refs, content, procs, table, kernel, bugCheck>>
  BY DEF ReleaseDone, BrkReturn, At, heap
<1>2. /\ p \in Proc /\ userBreak'[p] = newBreak[p] /\ pc'[p] = "user" /\ page'[p] = 0
      /\ taken'[p] = {} /\ child'[p] = NoPages /\ taken[p] = {} /\ child[p] = NoPages
      /\ Alone(p)
  BY <1>1, Here DEF Return, IInv, TypeOK, Alone, Same, IdleInv, Forking
<1>3. \A q \in procs \ {p} : ContentKept(q)
  BY <1>1, NoContentChange
<1>4. TypeOK' /\ OnlyOutOfMemory'
  <2>1. NoPages \in [Page -> Frame \cup {NoFrame}] /\ InitBreak \in Break
    BY InitAssumption DEF NoPages
  <2> QED BY <1>1, <2>1, Here DEF Return, IInv, TypeOK, OnlyOutOfMemory
<1>5. IdleInv(p)' /\ PathInv(p)'
  BY <1>1, <1>2, Here, InitAssumption
  DEF IdleInv, PathInv, StackInv, ShrinkInv, GrowInv, ForkInv, Growing, Copying, Forking
<1>6. SameFrames(p)
  <2>1. Limit(p)' = Limit(p)
    BY <1>1, <1>2 DEF Limit, Growing
  <2>2. ChildOwn(p) = {} /\ ChildOwn(p)' = {}
    BY <1>2 DEF ChildOwn, NoPages
  <2> QED BY <1>1, <1>2, <2>1, <2>2 DEF SameFrames, Own, InHand
<1>7. FrameInv'
  BY <1>1, <1>2, <1>6, FramesKept, SameIsSameFrames DEF Alone, IInv, TypeOK
<1>8. spaceOf' = spaceOf
  <2>1. BreakOf(p)' = BreakOf(p)
    BY <1>1, <1>2 DEF BreakOf
  <2>2. MemOf(p)' = MemOf(p) /\ ReleasedOf(p)' = ReleasedOf(p)
    BY <1>1, <1>2, <2>1 DEF MemOf, InReach, ReleasedOf, Brking
  <2> QED BY <1>1, <1>2, <1>3, <2>1, <2>2, Unseen
<1> QED BY <1>2, <1>3, <1>4, <1>5, <1>7, <1>8, StepOf

(* freeUserPage on the page a shrink has come to: absent, or owned.        *)
LEMMA ReleaseKeeps ==
  ASSUME IInv, NEW p \in procs, Release(p), UNCHANGED strayed
  PROVE  IInv' /\ spaceOf' = spaceOf
<1> DEFINE f == table[p][page[p]]
<1>1. /\ pc[p] = "release" /\ LastPage(newBreak[p]) < page[p]
      /\ page[p] \in Page /\ page[p] \notin StackPage
      /\ Limit(p) = page[p] /\ InHand(p) = {} /\ BreakOf(p) = newBreak[p]
      /\ UNCHANGED <<used, content, procs, userBreak, table, kernel, newBreak, block, taken, child>>
  BY Here DEF Release, At, space, PathInv, ShrinkInv, StackInv, Limit, InHand, BreakOf, Page
<1>2. \A q \in procs \ {p} : ContentKept(q)
  BY <1>1, NoContentChange
<1>3. CASE f = NoFrame
  <2>1. /\ page' = [page EXCEPT ![p] = page[p] - 1] /\ UNCHANGED <<refs, pc, bugCheck>>
    BY <1>3 DEF Release
  <2>2. page'[p] = page[p] - 1 /\ Alone(p)
    BY <1>1, <2>1, Here DEF IInv, TypeOK, Alone, Same
  <2>3. TypeOK' /\ OnlyOutOfMemory'
    <3>1. page[p] - 1 \in 0 .. MaxPage + 1
      BY <1>1, Here
    <3> QED BY <1>1, <2>1, <3>1 DEF IInv, TypeOK, OnlyOutOfMemory
  <2>4. IdleInv(p)' /\ PathInv(p)'
    BY <1>1, <2>1, <2>2, Here
    DEF IdleInv, PathInv, StackInv, ShrinkInv, GrowInv, ForkInv, Growing, Copying, Forking
  <2>5. SameFrames(p)
    <3>1. Limit(p)' = page[p] - 1
      BY <1>1, <2>1, <2>2 DEF Limit
    <3>2. Own(p)' = Own(p)
      BY <1>1, <1>3, <3>1, Here DEF Own
    <3> QED BY <1>1, <2>1, <3>2 DEF SameFrames, ChildOwn, InHand
  <2>6. FrameInv'
    BY <1>1, <2>1, <2>2, <2>5, FramesKept, SameIsSameFrames DEF Alone, IInv, TypeOK
  <2>7. spaceOf' = spaceOf
    <3>1. BreakOf(p)' = BreakOf(p) /\ MemOf(p)' = MemOf(p) /\ ReleasedOf(p)' = ReleasedOf(p)
      BY <1>1, <2>1 DEF BreakOf, MemOf, InReach, ReleasedOf
    <3> QED BY <1>1, <1>2, <2>2, <3>1, Unseen
  <2> QED BY <1>2, <2>2, <2>3, <2>4, <2>6, <2>7, StepOf
<1>4. CASE f # NoFrame
  <2>1. page[p] \in Own(p) /\ f \in Frame /\ refs[f] = 1
    BY <1>1, <1>4, OwnFrame, Here DEF Own
  <2>2. /\ refs' = [refs EXCEPT ![f] = 0]
        /\ pc' = [pc EXCEPT ![p] = "dealloc"] /\ UNCHANGED <<page, bugCheck>>
    BY <1>4, <2>1 DEF Release, Goto
  <2>3. /\ pc'[p] = "dealloc" /\ Alone(p)
        /\ refs'[f] = 0 /\ \A x \in Frame \ {f} : refs'[x] = refs[x]
    BY <1>1, <2>1, <2>2, Here DEF IInv, TypeOK, Alone, Same
  <2>4. TypeOK' /\ OnlyOutOfMemory'
    <3>1. refs' \in [Frame -> 0 .. 1]
      BY <2>1, <2>2 DEF IInv, TypeOK
    <3>2. pc' \in [Proc -> {"user"} \cup Brking \cup Forking]
      BY <2>2 DEF IInv, TypeOK, Brking
    <3> QED BY <1>1, <2>2, <3>1, <3>2 DEF IInv, TypeOK, OnlyOutOfMemory
  <2>5. IdleInv(p)' /\ PathInv(p)'
    BY <1>1, <1>4, <2>2, <2>3, Here
    DEF IdleInv, PathInv, StackInv, ShrinkInv, GrowInv, ForkInv, Growing, Copying, Forking
  <2>6. /\ Own(p)' = Own(p) \ {page[p]} /\ InHand(p)' = {f} /\ ChildOwn(p)' = ChildOwn(p)
        /\ KernelData(p)' = KernelData(p) \cup {f}
    <3>1. Limit(p)' = page[p] - 1
      BY <1>1, <2>2, <2>3 DEF Limit
    <3>2. Own(p)' = Own(p) \ {page[p]}
      BY <1>1, <3>1, Here DEF Own
    <3>3. InHand(p)' = {f}
      BY <1>1, <2>2, <2>3 DEF InHand
    <3> QED BY <1>1, <3>2, <3>3 DEF ChildOwn, KernelData
  <2>7. \A q \in procs \ {p} :
          /\ Own(q)' = Own(q) /\ ChildOwn(q)' = ChildOwn(q) /\ InHand(q)' = InHand(q)
          /\ KernelData(q)' = KernelData(q)
    BY <2>3, SameOperators DEF Alone, IInv, TypeOK
  <2>8. FrameInv'
    <3>1. Accounted'
      BY <1>1, <2>1, <2>3, <2>6, <2>7 DEF IInv, FrameInv, Accounted
    <3>2. Counted'
      <4>1. ASSUME NEW q \in procs, NEW g \in Own(q)' PROVE refs'[table[q][g]] = 1
        BY <2>1, <2>3, <2>6, <2>7, <4>1, OwnFrame
      <4>2. ASSUME NEW q \in procs, NEW g \in ChildOwn(q)' PROVE refs'[child[q][g]] = 1
        BY <2>1, <2>3, <2>6, <2>7, <4>2, OwnFrame, Here DEF IInv, FrameInv, Counted, ChildOwn
      <4> QED BY <1>1, <4>1, <4>2 DEF Counted
    <3>3. Distinct'
      BY <1>1, <2>6, <2>7 DEF IInv, FrameInv, Distinct
    <3>4. Hands'
      BY <1>1, <2>1, <2>6, <2>7, OwnFrame DEF IInv, FrameInv, Hands, KernelData
    <3> QED BY <3>1, <3>2, <3>3, <3>4 DEF FrameInv
  <2>9. spaceOf' = spaceOf
    <3>1. BreakOf(p)' = BreakOf(p) /\ MemOf(p)' = MemOf(p) /\ ReleasedOf(p)' = ReleasedOf(p)
      BY <1>1, <2>3 DEF BreakOf, MemOf, InReach, ReleasedOf, Brking
    <3> QED BY <1>1, <1>2, <2>3, <3>1, Unseen
  <2> QED BY <1>2, <2>3, <2>4, <2>5, <2>8, <2>9, StepOf
<1> QED BY <1>3, <1>4

(* userPageDealloc: the block is in no table's reach and in no other hand. *)
LEMMA DeallocKeeps ==
  ASSUME IInv, NEW p \in procs, Dealloc(p), UNCHANGED strayed
  PROVE  IInv' /\ spaceOf' = spaceOf
<1> DEFINE f == table[p][page[p]]
<1>1. /\ pc[p] = "dealloc" /\ used' = used \ {f}
      /\ page' = [page EXCEPT ![p] = page[p] - 1]
      /\ pc' = [pc EXCEPT ![p] = "release"]
      /\ UNCHANGED <<refs, content, procs, userBreak, table, kernel, newBreak, block, taken, child, bugCheck>>
  BY DEF Dealloc, At, Goto, space
<1>2. /\ p \in Proc /\ page'[p] = page[p] - 1 /\ pc'[p] = "release" /\ Alone(p)
      /\ f \in InHand(p) /\ InHand(p) = {f} /\ InHand(p)' = {}
  BY <1>1, Here DEF IInv, TypeOK, Alone, Same, InHand
<1>3. \A q \in procs \ {p} : ContentKept(q)
  BY <1>1, NoContentChange
<1>4. TypeOK' /\ OnlyOutOfMemory'
  <2>1. page[p] - 1 \in 0 .. MaxPage + 1
    BY <1>1, Here DEF PathInv, ShrinkInv
  <2> QED BY <1>1, <2>1 DEF IInv, TypeOK, OnlyOutOfMemory, Brking
<1>5. IdleInv(p)' /\ PathInv(p)'
  BY <1>1, <1>2, Here
  DEF IdleInv, PathInv, StackInv, ShrinkInv, GrowInv, ForkInv, Growing, Copying, Forking
<1>6. Own(p)' = Own(p) /\ ChildOwn(p)' = ChildOwn(p)
  <2>1. Limit(p)' = Limit(p)
    BY <1>1, <1>2 DEF Limit
  <2> QED BY <1>1, <2>1 DEF Own, ChildOwn
<1>7. \A q \in procs \ {p} :
        /\ Own(q)' = Own(q) /\ ChildOwn(q)' = ChildOwn(q) /\ InHand(q)' = InHand(q)
        /\ KernelData(q)' = KernelData(q)
  BY <1>2, SameOperators DEF Alone, IInv, TypeOK
<1>8. FrameInv'
  <2>1. /\ f \in Frame /\ refs[f] = 0 /\ \A q \in procs \ {p} : f \notin KernelData(q)
        /\ f \notin kernel[p] \cup taken[p]
    BY <1>2, HeldFrame DEF KernelData
  <2>2. KernelData(p)' = KernelData(p) \ {f}
    BY <1>1, <1>2, <2>1 DEF KernelData
  <2>3. Accounted'
    BY <1>1, <1>7, <2>1, <2>2 DEF IInv, FrameInv, Accounted
  <2>4. Counted' /\ Distinct'
    BY <1>1, <1>6, <1>7 DEF IInv, FrameInv, Counted, Distinct
  <2>5. Hands'
    BY <1>1, <1>2, <1>7 DEF IInv, FrameInv, Hands
  <2> QED BY <2>3, <2>4, <2>5 DEF FrameInv
<1>9. spaceOf' = spaceOf
  <2>1. BreakOf(p)' = BreakOf(p) /\ MemOf(p)' = MemOf(p) /\ ReleasedOf(p)' = ReleasedOf(p)
    BY <1>1, <1>2 DEF BreakOf, MemOf, InReach, ReleasedOf, Brking
  <2> QED BY <1>1, <1>2, <1>3, <2>1, Unseen
<1> QED BY <1>2, <1>3, <1>4, <1>5, <1>8, <1>9, StepOf

(* A growth that is done: its pages appear at once, all zeros.             *)
LEMMA GrowDoneKeeps ==
  ASSUME IInv, NEW p \in procs, GrowDone(p), UNCHANGED strayed
  PROVE  IInv' /\ A!Next
<1>1. /\ pc[p] = "grow" /\ page[p] = LastPage(newBreak[p]) + 1
      /\ userBreak' = [userBreak EXCEPT ![p] = newBreak[p]]
      /\ Return(p)
      /\ UNCHANGED <<used, refs, content, procs, table, kernel, bugCheck>>
  BY DEF GrowDone, BrkReturn, At, heap
<1>2. /\ p \in Proc /\ userBreak'[p] = newBreak[p] /\ pc'[p] = "user" /\ page'[p] = 0
      /\ taken'[p] = {} /\ child'[p] = NoPages /\ taken[p] = {} /\ child[p] = NoPages
      /\ Alone(p)
  BY <1>1, Here DEF Return, IInv, TypeOK, Alone, Same, IdleInv, Forking
<1>3. \A q \in procs \ {p} : ContentKept(q)
  BY <1>1, NoContentChange
<1>4. TypeOK' /\ OnlyOutOfMemory'
  <2>1. NoPages \in [Page -> Frame \cup {NoFrame}] /\ InitBreak \in Break
    BY InitAssumption DEF NoPages
  <2> QED BY <1>1, <2>1, Here DEF Return, IInv, TypeOK, OnlyOutOfMemory
<1>5. IdleInv(p)' /\ PathInv(p)'
  BY <1>1, <1>2, Here, InitAssumption
  DEF IdleInv, PathInv, StackInv, ShrinkInv, GrowInv, ForkInv, Growing, Copying, Forking
<1>6. SameFrames(p)
  <2>1. Limit(p)' = Limit(p)
    BY <1>1, <1>2, Here DEF Limit, Growing
  <2>2. ChildOwn(p) = {} /\ ChildOwn(p)' = {}
    BY <1>2 DEF ChildOwn, NoPages
  <2> QED BY <1>1, <1>2, <2>1, <2>2 DEF SameFrames, Own, InHand
<1>7. FrameInv'
  BY <1>1, <1>2, <1>6, FramesKept, SameIsSameFrames DEF Alone, IInv, TypeOK
<1> DEFINE more == {g \in Page : LastPage(userBreak[p]) < g /\ g <= LastPage(newBreak[p])}
<1>8. /\ LastPage(userBreak[p]) <= LastPage(newBreak[p])
      /\ \A g \in more : table[p][g] # NoFrame /\ (~strayed => content[table[p][g]] = 0)
  BY <1>1, Here DEF PathInv, GrowInv, Growing
<1>9. /\ MemOf(p)' = MemOf(p) \cup more /\ more \cap MemOf(p) = {}
      /\ BreakOf(p) = userBreak[p] /\ BreakOf(p)' = newBreak[p]
      /\ ReleasedOf(p)' = ReleasedOf(p) /\ more \cap ReleasedOf(p) = {}
  <2>1. BreakOf(p) = userBreak[p] /\ BreakOf(p)' = newBreak[p]
    BY <1>1, <1>2 DEF BreakOf
  <2>2. \A g \in StackPage : g \notin more
    BY <1>1, Here DEF PathInv, StackInv, Growing
  <2>3. MemOf(p)' = MemOf(p) \cup more /\ more \cap MemOf(p) = {}
    <3>1. MemOf(p) = {g \in Page : table[p][g] # NoFrame
                               /\ (g <= LastPage(userBreak[p]) \/ g \in StackPage)}
      BY <2>1 DEF MemOf, InReach
    <3>2. MemOf(p)' = {g \in Page : table[p][g] # NoFrame
                                /\ (g <= LastPage(newBreak[p]) \/ g \in StackPage)}
      BY <1>1, <2>1 DEF MemOf, InReach
    <3> QED BY <1>8, <2>2, <3>1, <3>2, Here
  <2>4. ReleasedOf(p)' = ReleasedOf(p) /\ more \cap ReleasedOf(p) = {}
    BY <1>1, <1>2, Here DEF ReleasedOf, Brking
  <2> QED BY <2>1, <2>3, <2>4
<1>10. ~strayed => View(p)' =
                  [brk |-> newBreak[p],
                   mem |-> [g \in MemOf(p) \cup more |-> IF g \in more THEN 0 ELSE View(p).mem[g]],
                   released |-> View(p).released]
  <2>1. \A g \in MemOf(p) : View(p).mem[g] = content[table[p][g]]
    BY DEF View
  <2>2. ~strayed => [g \in MemOf(p) |-> content[table[p][g]]]'
          = [g \in MemOf(p) \cup more |-> IF g \in more THEN 0 ELSE View(p).mem[g]]
    BY <1>1, <1>8, <1>9, <2>1
  <2> QED BY <1>9, <2>2 DEF View
<1>11. ASSUME ~strayed PROVE A!Grow(p, newBreak[p])
  <2>1. /\ spaceOf' = [spaceOf EXCEPT ![p] = View(p)']
        /\ DOMAIN spaceOf = procs /\ spaceOf[p] = View(p)
    BY <1>2, <1>3, Seen
  <2>2. /\ View(p).brk = userBreak[p] /\ DOMAIN View(p).mem = MemOf(p)
        /\ View(p).released = ReleasedOf(p)
    BY <1>9 DEF View
  <2>3. more = {g \in A!Page : A!LastPage(userBreak[p]) < g /\ g <= A!LastPage(newBreak[p])}
        /\ A!LastPage(userBreak[p]) <= A!LastPage(newBreak[p])
    BY <1>8 DEF A!LastPage, LastPage, A!Page, Page
  <2> HIDE DEF more
  <2>4. more \cap (DOMAIN View(p).mem \cup View(p).released) = {}
    BY <1>9, <2>2
  <2>5. View(p)' = [brk |-> newBreak[p],
                    mem |-> [g \in DOMAIN View(p).mem \cup more |->
                               IF g \in more THEN 0 ELSE View(p).mem[g]],
                    released |-> View(p).released]
    BY <1>10, <1>11, <2>2
  <2> QED BY <2>1, <2>2, <2>3, <2>4, <2>5 DEF A!Grow
<1>12. A!Next
  <2>1. CASE strayed
    BY <2>1 DEF A!Next, A!Stray
  <2>2. CASE ~strayed
    BY <1>2, <1>3, <1>11, <2>2, Here, Seen DEF A!Next, A!Orderly, A!Break, Break
  <2> QED BY <2>1, <2>2
<1> QED BY <1>2, <1>3, <1>4, <1>5, <1>7, <1>12, StepOf

(* alloc_lb puts a block that is nobody's into the hand of its caller.     *)
LEMMA AllocKeeps ==
  ASSUME IInv, NEW p \in procs, NEW next, AllocLb(p, next),
         \/ pc[p] = "grow" /\ next = "wipe" /\ page[p] # LastPage(newBreak[p]) + 1
         \/ pc[p] = "take" /\ next = "taken"
         \/ pc[p] = "forkBlock" /\ next = "copy",
         UNCHANGED <<refs, content, procs, space, newBreak, page, taken, child, strayed>>
  PROVE  IInv' /\ spaceOf' = spaceOf
<1>1. /\ p \in Proc /\ InHand(p) = {}
      /\ UNCHANGED <<userBreak, table, kernel>>
  BY Here DEF InHand, space
<1>2. \A q \in procs \ {p} : ContentKept(q)
  BY NoContentChange
<1>3. CASE bugCheck' = OutOfLargeBlocks /\ UNCHANGED <<used, block, pc>>
  <2>1. \A q \in Proc : Same(q)
    BY <1>1, <1>3 DEF Same
  <2>2. Alone(p) /\ Same(p)
    BY <1>1, <2>1 DEF Alone
  <2>3. TypeOK' /\ OnlyOutOfMemory'
    BY <1>1, <1>3 DEF IInv, TypeOK, OnlyOutOfMemory
  <2>4. IdleInv(p)' /\ PathInv(p)'
    BY <2>2, Here, PathKept, SameOperators, NoContentChange
  <2>5. FrameInv'
    BY <1>1, <1>3, <2>1, FramesKept, SameIsSameFrames DEF IInv, TypeOK
  <2>6. spaceOf' = spaceOf
    BY <1>1, <1>2, <2>2, SameOperators, Unseen
  <2> QED BY <1>2, <2>2, <2>3, <2>4, <2>5, <2>6, StepOf
<1>4. ASSUME NEW f \in Frame \ used,
             used' = used \cup {f}, block' = [block EXCEPT ![p] = f],
             pc' = [pc EXCEPT ![p] = next], UNCHANGED bugCheck
      PROVE  IInv' /\ spaceOf' = spaceOf
  <2>1. /\ block'[p] = f /\ f # NoFrame /\ pc'[p] = next /\ Alone(p) /\ InHand(p)' = {f}
    BY <1>1, <1>4, FrameFacts DEF IInv, TypeOK, Alone, Same, InHand
  <2>2. TypeOK' /\ OnlyOutOfMemory'
    BY <1>1, <1>4 DEF IInv, TypeOK, OnlyOutOfMemory, Brking, Forking
  <2>3. IdleInv(p)' /\ PathInv(p)'
    <3>1. IdleInv(p)' /\ StackInv(p)' /\ ShrinkInv(p)'
      BY <1>1, <1>4, <2>1, Here
      DEF IdleInv, PathInv, StackInv, ShrinkInv, Growing, Copying, Forking
    <3>2. GrowInv(p)'
      BY <1>1, <1>4, <2>1, Here DEF PathInv, GrowInv, Growing
    <3>3. ForkInv(p)'
      <4>1. ChildOwn(p)' = ChildOwn(p)
        BY <1>1 DEF ChildOwn
      <4> QED BY <1>1, <1>4, <2>1, <4>1, Here DEF PathInv, ForkInv, Copying, Forking
    <3> QED BY <3>1, <3>2, <3>3 DEF PathInv
  <2>4. \A q \in procs : Own(q)' = Own(q) /\ ChildOwn(q)' = ChildOwn(q)
    <3>1. Limit(p)' = Limit(p)
      BY <1>1, <1>4, <2>1 DEF Limit, Growing
    <3>2. Own(p)' = Own(p) /\ ChildOwn(p)' = ChildOwn(p)
      BY <1>1, <1>4, <3>1 DEF Own, ChildOwn
    <3> QED BY <2>1, <3>2, SameOperators DEF Alone, IInv, TypeOK
  <2>5. \A q \in procs \ {p} : InHand(q)' = InHand(q) /\ KernelData(q)' = KernelData(q)
    BY <2>1, SameOperators DEF Alone, IInv, TypeOK
  <2>6. FrameInv'
    <3>1. /\ KernelData(p)' = KernelData(p) \cup {f}
          /\ refs[f] # 1 /\ \A q \in procs : f \notin KernelData(q)
      BY <1>1, <2>1 DEF KernelData, IInv, FrameInv, Accounted
    <3>2. Accounted'
      BY <1>4, <2>5, <3>1, <1>1 DEF IInv, FrameInv, Accounted
    <3>3. Counted' /\ Distinct'
      BY <1>1, <2>4 DEF IInv, FrameInv, Counted, Distinct
    <3>4. Hands'
      BY <1>1, <2>1, <2>5, <3>1 DEF IInv, FrameInv, Hands, KernelData
    <3> QED BY <3>2, <3>3, <3>4 DEF FrameInv
  <2>7. spaceOf' = spaceOf
    <3>1. BreakOf(p)' = BreakOf(p) /\ MemOf(p)' = MemOf(p) /\ ReleasedOf(p)' = ReleasedOf(p)
      BY <1>1, <2>1 DEF BreakOf, MemOf, InReach, ReleasedOf, Brking
    <3> QED BY <1>1, <1>2, <2>1, <3>1, Unseen
  <2> QED BY <1>2, <2>1, <2>2, <2>3, <2>6, <2>7, StepOf
<1> QED BY <1>3, <1>4, AllocLbFacts

LEMMA GrowBlockKeeps ==
  ASSUME IInv, NEW p \in procs, GrowBlock(p), UNCHANGED strayed
  PROVE  IInv' /\ spaceOf' = spaceOf
BY AllocKeeps DEF GrowBlock, At

LEMMA WipeKeeps ==
  ASSUME IInv, NEW p \in procs, Wipe(p), UNCHANGED strayed
  PROVE  IInv' /\ spaceOf' = spaceOf
<1>1. /\ pc[p] = "wipe" /\ content' = [content EXCEPT ![block[p]] = 0]
      /\ pc' = [pc EXCEPT ![p] = "map"]
      /\ UNCHANGED <<used, refs, procs, userBreak, table, kernel, newBreak, page, block, taken, child, bugCheck>>
  BY DEF Wipe, At, Goto, space, local
<1>2. /\ p \in Proc /\ pc'[p] = "map" /\ Alone(p)
      /\ InHand(p) = {block[p]} /\ InHand(p)' = {block[p]} /\ block[p] \in Frame
      /\ content'[block[p]] = 0 /\ block[p] # NoFrame
  <2>1. p \in Proc /\ InHand(p) = {block[p]}
    BY <1>1, Here DEF InHand
  <2>2. block[p] \in Frame
    BY <2>1, HeldFrame
  <2> QED BY <1>1, <2>1, <2>2, FrameFacts DEF IInv, TypeOK, Alone, Same, InHand
<1>3. /\ \A q \in procs \ {p} : ContentKept(q)
      /\ \A g \in Own(p) : content'[table[p][g]] = content[table[p][g]]
  BY <1>1, <1>2, OthersKeepContent
<1>4. TypeOK' /\ OnlyOutOfMemory'
  <2>1. content' \in [Frame -> Value]
    BY <1>1, BoundsAssumption DEF IInv, TypeOK
  <2> QED BY <1>1, <2>1 DEF IInv, TypeOK, OnlyOutOfMemory, Brking
<1>5. IdleInv(p)' /\ PathInv(p)'
  <2>1. IdleInv(p)' /\ StackInv(p)' /\ ShrinkInv(p)' /\ ForkInv(p)'
    BY <1>1, <1>2, Here
    DEF IdleInv, PathInv, StackInv, ShrinkInv, ForkInv, Growing, Copying, Forking
  <2>2. ASSUME NEW g \in Page, LastPage(userBreak[p]) < g, g < page[p]
        PROVE  table[p][g] # NoFrame /\ (~strayed => content'[table[p][g]] = 0)
    <3>1. table[p][g] # NoFrame /\ (~strayed => content[table[p][g]] = 0)
      BY <1>1, <2>2, Here DEF PathInv, GrowInv, Growing
    <3>2. g \in Own(p)
      BY <1>1, <2>2, <3>1, Here DEF Own, Limit, Growing
    <3> QED BY <1>3, <3>1, <3>2
  <2>3. GrowInv(p)'
    BY <1>1, <1>2, <2>2, Here DEF PathInv, GrowInv, Growing
  <2> QED BY <2>1, <2>3 DEF PathInv
<1>6. SameFrames(p)
  BY <1>1, <1>2 DEF SameFrames, Own, ChildOwn, Limit, Growing
<1>7. FrameInv'
  BY <1>1, <1>2, <1>6, FramesKept, SameIsSameFrames DEF Alone, IInv, TypeOK
<1>8. spaceOf' = spaceOf
  <2>1. BreakOf(p)' = BreakOf(p) /\ MemOf(p)' = MemOf(p) /\ ReleasedOf(p)' = ReleasedOf(p)
    BY <1>1, <1>2 DEF BreakOf, MemOf, InReach, ReleasedOf, Brking
  <2> QED BY <1>1, <1>2, <1>3, <2>1, MemOwned, Unseen
<1> QED BY <1>2, <1>3, <1>4, <1>5, <1>7, <1>8, StepOf

(* The frame that p maps was in its hand and becomes the page's own.       *)
LEMMA MapKeeps ==
  ASSUME IInv, NEW p \in procs, Map(p), UNCHANGED strayed
  PROVE  IInv' /\ spaceOf' = spaceOf
<1> DEFINE f == block[p]
           g == page[p]
<1>1. /\ pc[p] = "map" /\ p \in Proc /\ InHand(p) = {f} /\ f # NoFrame
      /\ f \in Frame /\ refs[f] = 0 /\ (~strayed => content[f] = 0)
      /\ g \in Page /\ g \notin StackPage /\ table[p][g] = NoFrame
      /\ LastPage(userBreak[p]) < g /\ g <= LastPage(newBreak[p]) /\ Limit(p) = g - 1
  <2>1. pc[p] = "map" /\ p \in Proc /\ InHand(p) = {f}
    BY Here DEF Map, At, InHand
  <2>2. f \in Frame /\ refs[f] = 0
    BY <2>1, HeldFrame
  <2>3. /\ LastPage(userBreak[p]) < g /\ g <= LastPage(newBreak[p]) /\ (~strayed => content[f] = 0)
        /\ g \in Page /\ table[p][g] = NoFrame
    BY <2>1, Here DEF PathInv, GrowInv, Growing, Page
  <2>4. g \notin StackPage
    BY <2>3, Here DEF PathInv, StackInv
  <2> QED BY <2>1, <2>2, <2>3, <2>4, FrameFacts DEF Limit, Growing
<1>2. /\ refs' = [refs EXCEPT ![f] = 1] /\ bugCheck' = 0
      /\ table' = [table EXCEPT ![p] = [table[p] EXCEPT ![g] = f]]
      /\ page' = [page EXCEPT ![p] = g + 1] /\ pc' = [pc EXCEPT ![p] = "grow"]
      /\ UNCHANGED <<used, content, procs, userBreak, kernel, newBreak, block, taken, child>>
  BY <1>1, Here DEF Map, Goto, IInv, TypeOK
<1>3. /\ refs'[f] = 1 /\ \A x \in Frame \ {f} : refs'[x] = refs[x]
      /\ table'[p] = [table[p] EXCEPT ![g] = f] /\ table'[p][g] = f
      /\ \A h \in Page \ {g} : table'[p][h] = table[p][h]
      /\ page'[p] = g + 1 /\ pc'[p] = "grow" /\ Alone(p) /\ InHand(p)' = {}
  <2>1. table[p] \in [Page -> Frame \cup {NoFrame}] /\ table'[p] = [table[p] EXCEPT ![g] = f]
    BY <1>1, <1>2, Here DEF IInv, TypeOK
  <2>2. page'[p] = g + 1 /\ pc'[p] = "grow" /\ Alone(p)
    BY <1>1, <1>2 DEF IInv, TypeOK, Alone, Same
  <2>3. refs'[f] = 1 /\ \A x \in Frame \ {f} : refs'[x] = refs[x]
    BY <1>1, <1>2 DEF IInv, TypeOK
  <2> QED BY <1>1, <2>1, <2>2, <2>3 DEF InHand
<1>4. \A q \in procs \ {p} : ContentKept(q)
  BY <1>2, NoContentChange
<1>5. TypeOK' /\ OnlyOutOfMemory'
  <2>1. refs' \in [Frame -> 0 .. 1] /\ pc' \in [Proc -> {"user"} \cup Brking \cup Forking]
    BY <1>1, <1>2 DEF IInv, TypeOK, Brking
  <2>2. table' \in [Proc -> [Page -> Frame \cup {NoFrame}]]
    BY <1>1, <1>2, Here DEF IInv, TypeOK
  <2>3. page' \in [Proc -> 0 .. MaxPage + 1]
    BY <1>1, <1>2, Here DEF IInv, TypeOK
  <2> QED BY <1>2, <2>1, <2>2, <2>3 DEF IInv, TypeOK, OnlyOutOfMemory
<1>6. IdleInv(p)' /\ PathInv(p)'
  <2>1. IdleInv(p)' /\ StackInv(p)' /\ ShrinkInv(p)' /\ ForkInv(p)'
    BY <1>1, <1>2, <1>3, Here, InitAssumption
    DEF IdleInv, PathInv, StackInv, ShrinkInv, ForkInv, Growing, Copying, Forking
  <2>2. GrowInv(p)'
    <3>1. \A h \in Page : LastPage(userBreak[p]) < h /\ h < g + 1 =>
            table'[p][h] # NoFrame /\ (~strayed => content[table'[p][h]] = 0)
      <4> SUFFICES ASSUME NEW h \in Page, LastPage(userBreak[p]) < h, h < g + 1
                   PROVE  table'[p][h] # NoFrame /\ (~strayed => content[table'[p][h]] = 0)
        OBVIOUS
      <4>1. CASE h = g
        BY <1>1, <1>3, <4>1
      <4>2. CASE h # g
        <5>1. table[p][h] # NoFrame /\ (~strayed => content[table[p][h]] = 0)
          BY <1>1, <4>2, Here DEF PathInv, GrowInv, Growing
        <5> QED BY <1>3, <4>2, <5>1
      <4> QED BY <4>1, <4>2
    <3>2. \A h \in Page : g + 1 <= h /\ h <= LastPage(newBreak[p]) => table'[p][h] = NoFrame
      BY <1>1, <1>3, Here DEF PathInv, GrowInv, Growing
    <3> QED BY <1>1, <1>2, <1>3, <3>1, <3>2, Here DEF GrowInv, Growing
  <2> QED BY <2>1, <2>2 DEF PathInv
<1>7. /\ Own(p)' = Own(p) \cup {g} /\ g \notin Own(p) /\ ChildOwn(p)' = ChildOwn(p)
      /\ KernelData(p)' = kernel[p] \cup taken[p]
  <2>1. Limit(p)' = g
    BY <1>1, <1>3, Here DEF Limit, Growing
  <2>2. Own(p)' = Own(p) \cup {g} /\ g \notin Own(p)
    BY <1>1, <1>3, <2>1, Here DEF Own
  <2> QED BY <1>2, <1>3, <2>2 DEF ChildOwn, KernelData
<1>8. \A q \in procs \ {p} :
        /\ Own(q)' = Own(q) /\ ChildOwn(q)' = ChildOwn(q) /\ InHand(q)' = InHand(q)
        /\ KernelData(q)' = KernelData(q) /\ table'[q] = table[q]
  <2> SUFFICES ASSUME NEW q \in procs \ {p}
      PROVE  /\ Own(q)' = Own(q) /\ ChildOwn(q)' = ChildOwn(q) /\ InHand(q)' = InHand(q)
             /\ KernelData(q)' = KernelData(q) /\ table'[q] = table[q]
    OBVIOUS
  <2>1. Same(q)
    BY <1>3 DEF Alone, IInv, TypeOK
  <2>2. table'[q] = table[q]
    BY <2>1 DEF Same
  <2> QED BY <2>1, <2>2, SameOperators
<1>9. /\ \A q \in procs \ {p} : f \notin KernelData(q)
      /\ f \notin kernel[p] \cup taken[p]
      /\ \A q \in procs : \A h \in Own(q) : table[q][h] # f /\ table[q][h] \in Frame
      /\ \A q \in procs : \A h \in ChildOwn(q) : child[q][h] # f /\ child[q][h] \in Frame
  BY <1>1, HeldFrame, Here DEF KernelData, Own, ChildOwn
<1>10. FrameInv'
  <2>1. Accounted'
    <3>1. \A q \in procs : KernelData(q)' = KernelData(q) \ {f}
      BY <1>1, <1>7, <1>8, <1>9 DEF KernelData
    <3>2. ASSUME NEW x \in Frame, refs'[x] = 1
          PROVE  \E q \in procs, h \in Page : x = table'[q][h] \/ x = child[q][h]
      <4>1. CASE x = f
        BY <1>1, <1>3, <4>1
      <4>2. CASE x # f
        <5>1. PICK q \in procs, h \in Page : x = table[q][h] \/ x = child[q][h]
          BY <1>3, <3>2, <4>2 DEF IInv, FrameInv, Accounted
        <5>2. x = table'[q][h] \/ x = child[q][h]
          BY <1>1, <1>3, <1>8, <5>1, FrameFacts
        <5> QED BY <5>2
      <4> QED BY <4>1, <4>2
    <3>3. f \in used
      BY <1>1, HeldFrame
    <3> QED BY <1>1, <1>2, <1>3, <3>1, <3>2, <3>3 DEF IInv, FrameInv, Accounted
  <2>2. Counted'
    BY <1>2, <1>3, <1>7, <1>8, <1>9 DEF IInv, FrameInv, Counted, Own
  <2>3. Distinct'
    <3>1. \A q \in procs : \A h \in Own(q)' :
            \/ q = p /\ h = g /\ table'[q][h] = f
            \/ h \in Own(q) /\ table'[q][h] = table[q][h]
      BY <1>3, <1>7, <1>8 DEF Own
    <3>2. \A q \in procs : ChildOwn(q)' = ChildOwn(q)
      BY <1>7, <1>8
    <3> QED BY <1>2, <1>9, <3>1, <3>2 DEF IInv, FrameInv, Distinct
  <2>4. Hands'
    BY <1>2, <1>3, <1>8 DEF IInv, FrameInv, Hands
  <2> QED BY <2>1, <2>2, <2>3, <2>4 DEF FrameInv
<1>11. spaceOf' = spaceOf
  <2>1. BreakOf(p)' = BreakOf(p) /\ BreakOf(p) = userBreak[p]
    BY <1>1, <1>2, <1>3 DEF BreakOf
  <2>2. MemOf(p)' = MemOf(p) /\ g \notin MemOf(p)
    BY <1>1, <1>2, <1>3, <2>1, Here DEF MemOf, InReach
  <2>3. ReleasedOf(p)' = ReleasedOf(p)
    BY <1>1, <1>2, <1>3, Here DEF ReleasedOf, Brking
  <2>4. \A h \in MemOf(p) : content'[table'[p][h]] = content[table[p][h]]
    BY <1>2, <1>3, <2>2 DEF MemOf
  <2> QED BY <1>3, <1>4, <2>1, <2>2, <2>3, <2>4, Unseen
<1> QED BY <1>3, <1>4, <1>5, <1>6, <1>10, <1>11, StepOf

-----------------------------------------------------------------------------
(* fork.                                                                   *)

(* The steps of a fork before its child exists move no page of its caller. *)
LEMMA ForkUnseen ==
  ASSUME IInv, NEW p \in procs, Alone(p), \A q \in procs \ {p} : ContentKept(q),
         pc[p] \in {"user"} \cup Forking, pc'[p] \in Forking,
         userBreak'[p] = userBreak[p], table'[p] = table[p],
         \A g \in MemOf(p) : content'[table[p][g]] = content[table[p][g]]
  PROVE  /\ spaceOf' = spaceOf
         /\ Limit(p)' = Limit(p) /\ Own(p)' = Own(p)
<1>1. BreakOf(p)' = BreakOf(p) /\ MemOf(p)' = MemOf(p) /\ ReleasedOf(p)' = ReleasedOf(p)
  BY DEF BreakOf, MemOf, InReach, ReleasedOf, Brking, Forking
<1>2. Limit(p)' = Limit(p) /\ Own(p)' = Own(p)
  BY DEF Limit, Own, Growing, Forking
<1> QED BY <1>1, <1>2, Unseen

LEMMA CallForkKeeps ==
  ASSUME IInv, NEW p \in procs, CallFork(p), UNCHANGED strayed
  PROVE  IInv' /\ spaceOf' = spaceOf
<1>1. /\ pc[p] = "user" /\ pc' = [pc EXCEPT ![p] = "take"]
      /\ UNCHANGED <<used, refs, content, procs, userBreak, table, kernel, newBreak, page, block, taken, child, bugCheck>>
  BY DEF CallFork, At, Goto, heap, space, local
<1>2. /\ p \in Proc /\ pc'[p] = "take" /\ Alone(p)
      /\ taken[p] = {} /\ child[p] = NoPages /\ page[p] = 0
  BY <1>1, Here DEF IInv, TypeOK, Alone, Same, IdleInv, Forking
<1>3. \A q \in procs \ {p} : ContentKept(q)
  BY <1>1, NoContentChange
<1>4. TypeOK' /\ OnlyOutOfMemory'
  BY <1>1 DEF IInv, TypeOK, OnlyOutOfMemory, Forking
<1>5. IdleInv(p)' /\ PathInv(p)'
  <2>1. ChildOwn(p)' = {}
    BY <1>1, <1>2 DEF ChildOwn, NoPages
  <2> QED BY <1>1, <1>2, <2>1, Here
      DEF IdleInv, PathInv, StackInv, ShrinkInv, GrowInv, ForkInv, Growing, Copying, Forking, NoPages
<1>6. spaceOf' = spaceOf /\ Own(p)' = Own(p)
  BY <1>1, <1>2, <1>3, ForkUnseen DEF Forking
<1>7. SameFrames(p)
  BY <1>1, <1>2, <1>6 DEF SameFrames, ChildOwn, InHand
<1>8. FrameInv'
  BY <1>1, <1>2, <1>7, FramesKept, SameIsSameFrames DEF Alone, IInv, TypeOK
<1> QED BY <1>2, <1>3, <1>4, <1>5, <1>6, <1>8, StepOf

LEMMA TakeBlockKeeps ==
  ASSUME IInv, NEW p \in procs, TakeBlock(p), UNCHANGED strayed
  PROVE  IInv' /\ spaceOf' = spaceOf
BY AllocKeeps DEF TakeBlock, At

LEMMA TakenKeeps ==
  ASSUME IInv, NEW p \in procs, Taken(p), UNCHANGED strayed
  PROVE  IInv' /\ spaceOf' = spaceOf
<1>1. /\ pc[p] = "taken" /\ pc' = [pc EXCEPT ![p] = "take"]
      /\ taken' = [taken EXCEPT ![p] = taken[p] \cup {block[p]}]
      /\ UNCHANGED <<used, refs, content, procs, userBreak, table, kernel, newBreak, page, block, child, bugCheck>>
  BY DEF Taken, At, Goto, heap, space
<1>2. /\ p \in Proc /\ pc'[p] = "take" /\ taken'[p] = taken[p] \cup {block[p]} /\ Alone(p)
      /\ InHand(p) = {block[p]} /\ InHand(p)' = {} /\ block[p] \in Frame
  <2>1. p \in Proc /\ InHand(p) = {block[p]}
    BY <1>1, Here DEF InHand
  <2>2. block[p] \in Frame
    BY <2>1, HeldFrame
  <2> QED BY <1>1, <2>1, <2>2 DEF IInv, TypeOK, Alone, Same, InHand
<1>3. \A q \in procs \ {p} : ContentKept(q)
  BY <1>1, NoContentChange
<1>4. TypeOK' /\ OnlyOutOfMemory'
  BY <1>1, <1>2, Here DEF IInv, TypeOK, OnlyOutOfMemory, Forking
<1>5. ChildOwn(p)' = ChildOwn(p)
  BY <1>1 DEF ChildOwn
<1>6. IdleInv(p)' /\ PathInv(p)'
  BY <1>1, <1>2, <1>5, Here
  DEF IdleInv, PathInv, StackInv, ShrinkInv, GrowInv, ForkInv, Growing, Copying, Forking
<1>7. spaceOf' = spaceOf /\ Own(p)' = Own(p)
  BY <1>1, <1>2, <1>3, ForkUnseen DEF Forking
<1>8. \A q \in procs \ {p} :
        /\ Own(q)' = Own(q) /\ ChildOwn(q)' = ChildOwn(q) /\ InHand(q)' = InHand(q)
        /\ KernelData(q)' = KernelData(q) /\ taken'[q] = taken[q]
  BY <1>2, SameOperators DEF Alone, IInv, TypeOK, Same
<1>9. FrameInv'
  <2>1. KernelData(p)' = KernelData(p)
    BY <1>1, <1>2 DEF KernelData
  <2>2. Accounted' /\ Counted' /\ Distinct'
    BY <1>1, <1>5, <1>7, <1>8, <2>1 DEF IInv, FrameInv, Accounted, Counted, Distinct
  <2>3. \A q \in procs \ {p} : block[p] \notin InHand(q)
    BY <1>2 DEF IInv, FrameInv, Hands
  <2>4. Hands'
    BY <1>1, <1>2, <1>8, <2>3 DEF IInv, FrameInv, Hands
  <2> QED BY <2>2, <2>4 DEF FrameInv
<1> QED BY <1>2, <1>3, <1>4, <1>6, <1>7, <1>9, StepOf

LEMMA TakeDoneKeeps ==
  ASSUME IInv, NEW p \in procs, TakeDone(p), UNCHANGED strayed
  PROVE  IInv' /\ spaceOf' = spaceOf
<1>1. /\ pc[p] = "take" /\ pc' = [pc EXCEPT ![p] = "fetch"]
      /\ page' = [page EXCEPT ![p] = 1]
      /\ UNCHANGED <<used, refs, content, procs, userBreak, table, kernel, newBreak, block, taken, child, bugCheck>>
  BY DEF TakeDone, At, Goto, heap, space
<1>2. p \in Proc /\ pc'[p] = "fetch" /\ page'[p] = 1 /\ page[p] = 0 /\ Alone(p)
  BY <1>1, Here DEF IInv, TypeOK, Alone, Same, IdleInv
<1>3. \A q \in procs \ {p} : ContentKept(q)
  BY <1>1, NoContentChange
<1>4. TypeOK' /\ OnlyOutOfMemory'
  <2>1. 1 \in 0 .. MaxPage + 1
    BY BoundsAssumption
  <2> QED BY <1>1, <2>1 DEF IInv, TypeOK, OnlyOutOfMemory, Forking
<1>5. ChildOwn(p)' = ChildOwn(p)
  BY <1>1 DEF ChildOwn
<1>6. IdleInv(p)' /\ PathInv(p)'
  <2>1. IdleInv(p)' /\ StackInv(p)' /\ ShrinkInv(p)' /\ GrowInv(p)'
    BY <1>1, <1>2, Here
    DEF IdleInv, PathInv, StackInv, ShrinkInv, GrowInv, Growing, Forking
  <2>2. ForkInv(p)'
    BY <1>1, <1>2, <1>5, Here DEF PathInv, ForkInv, Copying, Forking
  <2> QED BY <2>1, <2>2 DEF PathInv
<1>7. spaceOf' = spaceOf /\ Own(p)' = Own(p)
  BY <1>1, <1>2, <1>3, ForkUnseen DEF Forking
<1>8. SameFrames(p)
  BY <1>1, <1>2, <1>5, <1>7 DEF SameFrames, InHand
<1>9. FrameInv'
  BY <1>1, <1>2, <1>8, FramesKept, SameIsSameFrames DEF Alone, IInv, TypeOK
<1> QED BY <1>2, <1>3, <1>4, <1>6, <1>7, <1>9, StepOf

(* A page that is not live is no page of the parent's, nor of the child's. *)
LEMMA FetchPageDataKeeps ==
  ASSUME IInv, NEW p \in procs, FetchPageData(p), UNCHANGED strayed
  PROVE  IInv' /\ spaceOf' = spaceOf
<1> DEFINE g == page[p]
           f == table[p][g]
           live == IF f = NoFrame THEN FALSE ELSE refs[f] # 0
<1>1. /\ pc[p] = "fetch" /\ p \in Proc /\ g \in Page
      /\ UNCHANGED <<used, refs, content, procs, userBreak, table, kernel, newBreak, block, taken, bugCheck>>
  BY Here DEF FetchPageData, At, heap, space
<1>2. \A q \in procs \ {p} : ContentKept(q)
  BY <1>1, NoContentChange
<1>3. CASE live
  <2>1. pc' = [pc EXCEPT ![p] = "forkBlock"] /\ UNCHANGED <<page, child>>
    BY <1>3 DEF FetchPageData, Goto
  <2>2. pc'[p] = "forkBlock" /\ Alone(p) /\ f # NoFrame
    BY <1>1, <1>3, <2>1 DEF IInv, TypeOK, Alone, Same
  <2>3. TypeOK' /\ OnlyOutOfMemory'
    BY <1>1, <2>1 DEF IInv, TypeOK, OnlyOutOfMemory, Forking
  <2>4. ChildOwn(p)' = ChildOwn(p)
    BY <1>1, <2>1 DEF ChildOwn
  <2>5. IdleInv(p)' /\ PathInv(p)'
    BY <1>1, <2>1, <2>2, <2>4, Here
    DEF IdleInv, PathInv, StackInv, ShrinkInv, GrowInv, ForkInv, Growing, Copying, Forking
  <2>6. spaceOf' = spaceOf /\ Own(p)' = Own(p)
    BY <1>1, <1>2, <2>2, ForkUnseen DEF Forking
  <2>7. SameFrames(p)
    BY <1>1, <2>1, <2>2, <2>4, <2>6 DEF SameFrames, InHand
  <2>8. FrameInv'
    BY <1>1, <2>2, <2>7, FramesKept, SameIsSameFrames DEF Alone, IInv, TypeOK
  <2> QED BY <1>2, <2>2, <2>3, <2>5, <2>6, <2>8, StepOf
<1>4. CASE ~ live
  <2>1. /\ child' = [child EXCEPT ![p] = [child[p] EXCEPT ![g] = f]]
        /\ page' = [page EXCEPT ![p] = g + 1] /\ UNCHANGED pc
    BY <1>4 DEF FetchPageData, SetChildPage
  <2>2. /\ child'[p] = [child[p] EXCEPT ![g] = f] /\ child'[p][g] = f
        /\ \A h \in Page \ {g} : child'[p][h] = child[p][h]
        /\ page'[p] = g + 1 /\ Alone(p)
    <3>1. child'[p] = [child[p] EXCEPT ![g] = f] /\ page'[p] = g + 1 /\ Alone(p)
      BY <1>1, <2>1 DEF IInv, TypeOK, Alone, Same
    <3> QED BY <1>1, <3>1, Here
  <2>3. TypeOK' /\ OnlyOutOfMemory'
    <3>1. child' \in [Proc -> [Page -> Frame \cup {NoFrame}]]
      BY <1>1, <2>1, Here DEF IInv, TypeOK
    <3>2. page' \in [Proc -> 0 .. MaxPage + 1]
      BY <1>1, <2>1, Here DEF IInv, TypeOK
    <3> QED BY <1>1, <2>1, <3>1, <3>2 DEF IInv, TypeOK, OnlyOutOfMemory
  <2>4. ChildOwn(p)' = ChildOwn(p)
    <3>1. g \notin Own(p)
      BY <1>4, OwnFrame DEF Own
    <3>2. ~ (f # NoFrame /\ (g <= LastPage(userBreak[p]) \/ g \in StackPage))
      BY <1>1, <3>1 DEF Own, Limit, Growing
    <3>3. child[p][g] = NoFrame
      BY <1>1, Here DEF PathInv, ForkInv, Forking
    <3> QED BY <1>1, <2>2, <3>2, <3>3 DEF ChildOwn
  <2>5. IdleInv(p)' /\ PathInv(p)'
    <3>1. IdleInv(p)' /\ StackInv(p)' /\ ShrinkInv(p)' /\ GrowInv(p)'
      BY <1>1, <2>1, Here DEF IdleInv, PathInv, StackInv, ShrinkInv, GrowInv, Growing, Forking
    <3>2. \A h \in Page : /\ g + 1 <= h => child'[p][h] = NoFrame
                          /\ h < g + 1 => (child'[p][h] = NoFrame <=> table[p][h] = NoFrame)
      BY <1>1, <2>2, Here DEF PathInv, ForkInv, Forking
    <3>3. ~strayed => \A h \in ChildOwn(p) : content[child'[p][h]] = content[table[p][h]]
      BY <1>1, <2>2, Here DEF PathInv, ForkInv, Forking, ChildOwn
    <3>4. ForkInv(p)'
      BY <1>1, <2>1, <2>2, <2>4, <3>2, <3>3, Here DEF ForkInv, Copying, Forking
    <3> QED BY <3>1, <3>4 DEF PathInv
  <2>6. spaceOf' = spaceOf /\ Own(p)' = Own(p)
    BY <1>1, <1>2, <2>1, <2>2, ForkUnseen DEF Forking
  <2>7. SameFrames(p)
    <3>1. child[p][g] = NoFrame
      BY <1>1, Here DEF PathInv, ForkInv, Forking
    <3> QED BY <1>1, <2>1, <2>2, <2>4, <2>6, <3>1 DEF SameFrames, InHand
  <2>8. FrameInv'
    BY <1>1, <2>2, <2>7, FramesKept, SameIsSameFrames DEF Alone, IInv, TypeOK
  <2> QED BY <1>2, <2>2, <2>3, <2>5, <2>6, <2>8, StepOf
<1> QED BY <1>3, <1>4

LEMMA ForkBlockKeeps ==
  ASSUME IInv, NEW p \in procs, ForkBlock(p), UNCHANGED strayed
  PROVE  IInv' /\ spaceOf' = spaceOf
BY AllocKeeps DEF ForkBlock, At

LEMMA CopyKeeps ==
  ASSUME IInv, NEW p \in procs, Copy(p), UNCHANGED strayed
  PROVE  IInv' /\ spaceOf' = spaceOf
<1> DEFINE f == block[p]
           source == table[p][page[p]]
<1>1. /\ pc[p] = "copy" /\ content' = [content EXCEPT ![f] = content[source]]
      /\ pc' = [pc EXCEPT ![p] = "describe"]
      /\ UNCHANGED <<used, refs, procs, userBreak, table, kernel, newBreak, page, block, taken, child, bugCheck>>
  BY DEF Copy, At, Goto, space, local
<1>2. /\ p \in Proc /\ pc'[p] = "describe" /\ Alone(p)
      /\ InHand(p) = {f} /\ InHand(p)' = {f} /\ f \in Frame /\ f # NoFrame
      /\ page[p] \in Page /\ source \in Frame /\ content'[f] = content[source]
  <2>1. p \in Proc /\ InHand(p) = {f}
    BY <1>1, Here DEF InHand
  <2>2. f \in Frame
    BY <2>1, HeldFrame
  <2>3. page[p] \in Page /\ source \in Frame
    BY <1>1, Here DEF PathInv, ForkInv, Copying
  <2> QED BY <1>1, <2>1, <2>2, <2>3, FrameFacts DEF IInv, TypeOK, Alone, Same, InHand
<1>3. /\ \A q \in procs \ {p} : ContentKept(q)
      /\ \A g \in Own(p) : content'[table[p][g]] = content[table[p][g]]
      /\ \A g \in ChildOwn(p) : content'[child[p][g]] = content[child[p][g]]
  BY <1>1, <1>2, OthersKeepContent
<1>4. TypeOK' /\ OnlyOutOfMemory'
  <2>1. content' \in [Frame -> Value]
    BY <1>1, <1>2 DEF IInv, TypeOK
  <2> QED BY <1>1, <2>1 DEF IInv, TypeOK, OnlyOutOfMemory, Forking
<1>5. spaceOf' = spaceOf /\ Own(p)' = Own(p)
  BY <1>1, <1>2, <1>3, MemOwned, ForkUnseen DEF Forking
<1>6. ChildOwn(p)' = ChildOwn(p)
  BY <1>1 DEF ChildOwn
<1>7. IdleInv(p)' /\ PathInv(p)'
  <2>1. IdleInv(p)' /\ StackInv(p)' /\ ShrinkInv(p)' /\ GrowInv(p)'
    BY <1>1, <1>2, Here DEF IdleInv, PathInv, StackInv, ShrinkInv, GrowInv, Growing, Forking
  <2>2. ~strayed => \A g \in ChildOwn(p) : content'[child[p][g]] = content'[table[p][g]]
    BY <1>1, <1>3, Here, ChildOwnFacts DEF PathInv, ForkInv, Forking, ChildOwn
  <2>3. page[p] \in Own(p) => content'[f] = content'[source]
    BY <1>2, <1>3
  <2>4. ForkInv(p)'
    BY <1>1, <1>2, <1>5, <1>6, <2>2, <2>3, Here DEF PathInv, ForkInv, Copying, Forking
  <2> QED BY <2>1, <2>4 DEF PathInv
<1>8. SameFrames(p)
  BY <1>1, <1>2, <1>5, <1>6 DEF SameFrames
<1>9. FrameInv'
  BY <1>1, <1>2, <1>8, FramesKept, SameIsSameFrames DEF Alone, IInv, TypeOK
<1> QED BY <1>2, <1>3, <1>4, <1>5, <1>7, <1>9, StepOf

LEMMA DescribeKeeps ==
  ASSUME IInv, NEW p \in procs, Describe(p), UNCHANGED strayed
  PROVE  IInv' /\ spaceOf' = spaceOf
<1> DEFINE f == block[p]
           g == page[p]
<1>1. /\ pc[p] = "describe" /\ p \in Proc /\ InHand(p) = {f} /\ f # NoFrame
      /\ f \in Frame /\ refs[f] = 0 /\ g \in Page /\ child[p][g] = NoFrame
      /\ table[p][g] # NoFrame
      /\ g \in Own(p) /\ ~strayed => content[f] = content[table[p][g]]
  <2>1. pc[p] = "describe" /\ p \in Proc /\ InHand(p) = {f}
    BY Here DEF Describe, At, InHand
  <2>2. f \in Frame /\ refs[f] = 0
    BY <2>1, HeldFrame
  <2>3. /\ g \in Page /\ child[p][g] = NoFrame /\ table[p][g] # NoFrame
        /\ g \in Own(p) /\ ~strayed => content[f] = content[table[p][g]]
    BY <2>1, Here DEF PathInv, ForkInv, Copying, Forking
  <2> QED BY <2>1, <2>2, <2>3, FrameFacts
<1>2. /\ refs' = [refs EXCEPT ![f] = 1] /\ bugCheck' = 0
      /\ child' = [child EXCEPT ![p] = [child[p] EXCEPT ![g] = f]]
      /\ page' = [page EXCEPT ![p] = g + 1] /\ pc' = [pc EXCEPT ![p] = "fetch"]
      /\ UNCHANGED <<used, content, procs, userBreak, table, kernel, newBreak, block, taken>>
  BY <1>1 DEF Describe, SetChildPage, Goto, space
<1>3. /\ refs'[f] = 1 /\ \A x \in Frame \ {f} : refs'[x] = refs[x]
      /\ child'[p][g] = f /\ \A h \in Page \ {g} : child'[p][h] = child[p][h]
      /\ page'[p] = g + 1 /\ pc'[p] = "fetch" /\ Alone(p) /\ InHand(p)' = {}
  <2>1. child[p] \in [Page -> Frame \cup {NoFrame}] /\ child'[p] = [child[p] EXCEPT ![g] = f]
    BY <1>1, <1>2, Here DEF IInv, TypeOK
  <2>2. page'[p] = g + 1 /\ pc'[p] = "fetch" /\ Alone(p)
    BY <1>1, <1>2 DEF IInv, TypeOK, Alone, Same
  <2>3. refs'[f] = 1 /\ \A x \in Frame \ {f} : refs'[x] = refs[x]
    BY <1>1, <1>2 DEF IInv, TypeOK
  <2> QED BY <1>1, <2>1, <2>2, <2>3 DEF InHand
<1>4. \A q \in procs \ {p} : ContentKept(q)
  BY <1>2, NoContentChange
<1>5. TypeOK' /\ OnlyOutOfMemory'
  <2>1. refs' \in [Frame -> 0 .. 1] /\ pc' \in [Proc -> {"user"} \cup Brking \cup Forking]
    BY <1>1, <1>2 DEF IInv, TypeOK, Forking
  <2>2. child' \in [Proc -> [Page -> Frame \cup {NoFrame}]]
    BY <1>1, <1>2, Here DEF IInv, TypeOK
  <2>3. page' \in [Proc -> 0 .. MaxPage + 1]
    BY <1>1, <1>2, Here DEF IInv, TypeOK
  <2> QED BY <1>2, <2>1, <2>2, <2>3 DEF IInv, TypeOK, OnlyOutOfMemory
<1>6. spaceOf' = spaceOf /\ Own(p)' = Own(p)
  BY <1>1, <1>2, <1>3, <1>4, ForkUnseen DEF Forking
<1>7. /\ \A h \in ChildOwn(p)' : h # g => h \in ChildOwn(p) /\ child'[p][h] = child[p][h]
      /\ g \in ChildOwn(p)' => g \in Own(p)
      /\ KernelData(p)' = kernel[p] \cup taken[p]
  <2>1. \A h \in ChildOwn(p)' : h # g => h \in ChildOwn(p) /\ child'[p][h] = child[p][h]
    BY <1>2, <1>3 DEF ChildOwn
  <2>2. g \in ChildOwn(p)' => g \in Own(p)
    BY <1>1, <1>2 DEF ChildOwn, Own, Limit, Growing
  <2> QED BY <1>2, <1>3, <2>1, <2>2 DEF KernelData
<1>8. IdleInv(p)' /\ PathInv(p)'
  <2>1. IdleInv(p)' /\ StackInv(p)' /\ ShrinkInv(p)' /\ GrowInv(p)'
    BY <1>1, <1>2, <1>3, Here DEF IdleInv, PathInv, StackInv, ShrinkInv, GrowInv, Growing, Forking
  <2>2. \A h \in Page : /\ g + 1 <= h => child'[p][h] = NoFrame
                        /\ h < g + 1 => (child'[p][h] = NoFrame <=> table[p][h] = NoFrame)
    BY <1>1, <1>3, Here DEF PathInv, ForkInv, Forking
  <2>3. ~strayed => \A h \in ChildOwn(p)' : content[child'[p][h]] = content[table[p][h]]
    BY <1>1, <1>3, <1>7, Here DEF PathInv, ForkInv, Forking, ChildOwn
  <2>4. ForkInv(p)'
    BY <1>1, <1>2, <1>3, <2>2, <2>3, Here DEF ForkInv, Copying, Forking
  <2> QED BY <2>1, <2>4 DEF PathInv
<1>9. \A q \in procs \ {p} :
        /\ Own(q)' = Own(q) /\ ChildOwn(q)' = ChildOwn(q) /\ InHand(q)' = InHand(q)
        /\ KernelData(q)' = KernelData(q) /\ child'[q] = child[q]
  <2> SUFFICES ASSUME NEW q \in procs \ {p}
      PROVE  /\ Own(q)' = Own(q) /\ ChildOwn(q)' = ChildOwn(q) /\ InHand(q)' = InHand(q)
             /\ KernelData(q)' = KernelData(q) /\ child'[q] = child[q]
    OBVIOUS
  <2>1. Same(q)
    BY <1>3 DEF Alone, IInv, TypeOK
  <2>2. child'[q] = child[q]
    BY <2>1 DEF Same
  <2> QED BY <2>1, <2>2, SameOperators
<1>10. /\ \A q \in procs \ {p} : f \notin KernelData(q)
       /\ f \notin kernel[p] \cup taken[p]
       /\ \A q \in procs : \A h \in Own(q) : table[q][h] # f /\ table[q][h] \in Frame
       /\ \A q \in procs : \A h \in ChildOwn(q) : child[q][h] # f /\ child[q][h] \in Frame
  BY <1>1, HeldFrame, Here DEF KernelData, Own, ChildOwn
<1>11. FrameInv'
  <2>1. \A q \in procs : \A h \in ChildOwn(q)' :
          \/ q = p /\ h = g /\ child'[q][h] = f
          \/ h \in ChildOwn(q) /\ child'[q][h] = child[q][h]
    BY <1>3, <1>7, <1>9
  <2>2. \A q \in procs : Own(q)' = Own(q)
    BY <1>6, <1>9
  <2>3. Accounted'
    <3>1. \A q \in procs : KernelData(q)' = KernelData(q) \ {f}
      BY <1>1, <1>7, <1>9, <1>10 DEF KernelData
    <3>2. ASSUME NEW x \in Frame, refs'[x] = 1
          PROVE  \E q \in procs, h \in Page : x = table[q][h] \/ x = child'[q][h]
      <4>1. CASE x = f
        BY <1>1, <1>3, <4>1
      <4>2. CASE x # f
        <5>1. PICK q \in procs, h \in Page : x = table[q][h] \/ x = child[q][h]
          BY <1>3, <3>2, <4>2 DEF IInv, FrameInv, Accounted
        <5>2. x = table[q][h] \/ x = child'[q][h]
          BY <1>1, <1>3, <1>9, <5>1, FrameFacts
        <5> QED BY <5>2
      <4> QED BY <4>1, <4>2
    <3>3. f \in used
      BY <1>1, HeldFrame
    <3> QED BY <1>1, <1>2, <1>3, <3>1, <3>2, <3>3 DEF IInv, FrameInv, Accounted
  <2>4. Counted'
    BY <1>2, <1>3, <1>10, <2>1, <2>2 DEF IInv, FrameInv, Counted
  <2>5. Distinct'
    BY <1>2, <1>10, <2>1, <2>2 DEF IInv, FrameInv, Distinct
  <2>6. Hands'
    BY <1>2, <1>3, <1>9 DEF IInv, FrameInv, Hands
  <2> QED BY <2>3, <2>4, <2>5, <2>6 DEF FrameInv
<1> QED BY <1>3, <1>4, <1>5, <1>6, <1>8, <1>11, StepOf

(* The child's pages were its parent's to give: nobody else owns them.     *)
LEMMA SpawnKeeps ==
  ASSUME IInv, NEW p \in procs, NEW c \in Proc, Spawn(p, c), UNCHANGED strayed
  PROVE  IInv' /\ A!Next
<1>1. /\ pc[p] = "fetch" /\ page[p] \notin Page /\ c \in Proc \ procs /\ c # p
      /\ procs' = procs \cup {c}
      /\ userBreak' = [userBreak EXCEPT ![c] = userBreak[p]]
      /\ table' = [table EXCEPT ![c] = child[p]]
      /\ kernel' = [kernel EXCEPT ![c] = taken[p]]
      /\ Return(p)
      /\ UNCHANGED <<used, refs, content, bugCheck>>
  BY DEF Spawn, At, heap
<1>2. /\ p \in Proc /\ pc'[p] = "user" /\ page'[p] = 0 /\ taken'[p] = {} /\ child'[p] = NoPages
      /\ userBreak'[p] = userBreak[p] /\ table'[p] = table[p] /\ kernel'[p] = kernel[p]
      /\ userBreak'[c] = userBreak[p] /\ table'[c] = child[p] /\ kernel'[c] = taken[p]
      /\ pc'[c] = "user" /\ page'[c] = 0 /\ taken'[c] = {} /\ child'[c] = NoPages
      /\ \A q \in Proc \ {p, c} : Same(q)
  <2>1. pc[c] = "user" /\ IdleInv(c)
    BY <1>1 DEF IInv
  <2>2. page[c] = 0 /\ taken[c] = {} /\ child[c] = NoPages
    BY <2>1 DEF IdleInv, Forking
  <2> QED BY <1>1, <2>1, <2>2, Here DEF Return, IInv, TypeOK, Same
<1>3. \A q \in procs \ {p} : Same(q) /\ ContentKept(q)
  BY <1>1, <1>2, NoContentChange DEF IInv, TypeOK
<1>4. TypeOK' /\ OnlyOutOfMemory'
  <2>1. NoPages \in [Page -> Frame \cup {NoFrame}] /\ InitBreak \in Break
    BY InitAssumption DEF NoPages
  <2> QED BY <1>1, <2>1, Here DEF Return, IInv, TypeOK, OnlyOutOfMemory
<1>5. \A g \in Page : /\ child[p][g] = NoFrame <=> table[p][g] = NoFrame
                      /\ g \in ChildOwn(p) /\ ~strayed => content[child[p][g]] = content[table[p][g]]
  BY <1>1, Here DEF PathInv, ForkInv, Forking, Page
<1>6. \A q \in Proc : IdleInv(q)'
  BY <1>2, SameOperators DEF IInv, IdleInv
<1>7. \A q \in Proc \ procs' : pc'[q] = "user"
  BY <1>1, <1>2 DEF IInv, Same
<1>8. \A q \in procs' : PathInv(q)'
  <2>1. \A q \in procs \ {p} : PathInv(q)'
    BY <1>3, PathKept
  <2>2. PathInv(p)'
    BY <1>1, <1>2, Here
    DEF PathInv, StackInv, ShrinkInv, GrowInv, ForkInv, Growing, Copying, Forking
  <2>3. PathInv(c)'
    <3>1. \A g \in StackPage : child[p][g] # NoFrame /\ LastPage(userBreak[p]) < g
      BY <1>5, Here, InitAssumption DEF PathInv, StackInv
    <3> QED BY <1>2, <3>1
        DEF PathInv, StackInv, ShrinkInv, GrowInv, ForkInv, Growing, Copying, Forking
  <2> QED BY <1>1, <2>1, <2>2, <2>3
<1>9. /\ Own(p)' = Own(p) /\ Own(c)' = ChildOwn(p)
      /\ ChildOwn(p)' = {} /\ ChildOwn(c)' = {} /\ InHand(p)' = {} /\ InHand(c)' = {}
      /\ InHand(p) = {} /\ KernelData(p) = kernel[p] \cup taken[p]
      /\ KernelData(p)' = kernel[p] /\ KernelData(c)' = taken[p]
  <2>1. Limit(p)' = LastPage(userBreak[p]) /\ Limit(c)' = LastPage(userBreak[p])
        /\ Limit(p) = LastPage(userBreak[p])
    BY <1>1, <1>2 DEF Limit, Growing
  <2>2. InHand(p)' = {} /\ InHand(c)' = {} /\ InHand(p) = {}
    BY <1>1, <1>2 DEF InHand
  <2> QED BY <1>2, <2>1, <2>2 DEF Own, ChildOwn, NoPages, KernelData
<1>10. \A q \in procs \ {p} :
         /\ Own(q)' = Own(q) /\ ChildOwn(q)' = ChildOwn(q) /\ InHand(q)' = InHand(q)
         /\ KernelData(q)' = KernelData(q) /\ table'[q] = table[q] /\ child'[q] = child[q]
         /\ kernel'[q] = kernel[q] /\ taken'[q] = taken[q]
  BY <1>3, SameOperators DEF Same
<1>11. FrameInv'
  <2>1. Accounted'
    <3>1. \A x : (\E q \in procs' : x \in KernelData(q)') <=> (\E q \in procs : x \in KernelData(q))
      BY <1>1, <1>9, <1>10
    <3>2. ASSUME NEW x \in Frame, refs[x] = 1
          PROVE  \E q \in procs', h \in Page : x = table'[q][h] \/ x = child'[q][h]
      <4>1. PICK q \in procs, h \in Page : x = table[q][h] \/ x = child[q][h]
        BY <3>2 DEF IInv, FrameInv, Accounted
      <4>2. CASE q = p
        BY <1>1, <1>2, <4>1, <4>2
      <4>3. CASE q # p
        BY <1>1, <1>10, <4>1, <4>3
      <4> QED BY <4>2, <4>3
    <3>3. \A x \in Frame : refs[x] = 1 => \A q \in procs' : x \notin KernelData(q)'
      BY <1>1, <3>1 DEF IInv, FrameInv, Accounted
    <3> QED BY <1>1, <3>1, <3>2, <3>3 DEF IInv, FrameInv, Accounted
  <2>2. Counted'
    BY <1>1, <1>2, <1>9, <1>10 DEF IInv, FrameInv, Counted
  <2>3. Distinct'
    <3>1. \A q \in procs' : \A h \in Own(q)' :
            \/ q = c /\ h \in ChildOwn(p) /\ table'[q][h] = child[p][h]
            \/ q # c /\ q \in procs /\ h \in Own(q) /\ table'[q][h] = table[q][h]
      BY <1>1, <1>2, <1>9, <1>10
    <3>2. \A q \in procs' : \A h \in ChildOwn(q)' :
            q \in procs \ {p} /\ h \in ChildOwn(q) /\ child'[q][h] = child[q][h]
      BY <1>1, <1>9, <1>10
    <3> QED BY <3>1, <3>2 DEF IInv, FrameInv, Distinct
  <2>4. Hands'
    <3>1. \A q \in procs' : InHand(q)' # {} => q \in procs \ {p} /\ InHand(q)' = InHand(q)
      BY <1>1, <1>9, <1>10
    <3>2. \A q \in procs' : \E r \in procs : kernel'[q] \cup taken'[q] \subseteq kernel[r] \cup taken[r]
      BY <1>1, <1>2, <1>10
    <3> QED BY <3>1, <3>2 DEF IInv, FrameInv, Hands
  <2> QED BY <2>1, <2>2, <2>3, <2>4 DEF FrameInv
<1>12. ASSUME ~strayed PROVE A!Fork(p, c)
  <2>1. \A q \in procs \ {p} : View(q)' = View(q)
    <3> SUFFICES ASSUME NEW q \in procs \ {p} PROVE View(q)' = View(q)
      OBVIOUS
    <3>1. BreakOf(q)' = BreakOf(q) /\ MemOf(q)' = MemOf(q) /\ ReleasedOf(q)' = ReleasedOf(q)
      BY <1>3, SameOperators
    <3>2. [g \in MemOf(q) |-> content[table[q][g]]]' = [g \in MemOf(q) |-> content[table[q][g]]]
      BY <1>1, <1>10, <3>1
    <3> QED BY <3>1, <3>2 DEF View
  <2>2. /\ BreakOf(p) = userBreak[p] /\ BreakOf(p)' = userBreak[p] /\ BreakOf(c)' = userBreak[p]
    BY <1>1, <1>2 DEF BreakOf
  <2>3. MemOf(p)' = MemOf(p) /\ MemOf(c)' = MemOf(p) /\ MemOf(p) \subseteq ChildOwn(p)
    BY <1>2, <1>5, <2>2 DEF MemOf, InReach, ChildOwn
  <2>4. ReleasedOf(p)' = ReleasedOf(p) /\ ReleasedOf(c)' = ReleasedOf(p)
    BY <1>1, <1>2, <1>5 DEF ReleasedOf, Brking
  <2>5. View(p)' = View(p)
    <3>1. [g \in MemOf(p) |-> content[table[p][g]]]' = [g \in MemOf(p) |-> content[table[p][g]]]
      BY <1>1, <1>2, <2>3
    <3> QED BY <2>2, <2>3, <2>4, <3>1 DEF View
  <2>6. View(c)' = View(p)
    <3>1. \A g \in MemOf(p) : content'[table'[c][g]] = content[table[p][g]]
      BY <1>1, <1>2, <1>5, <1>12, <2>3 DEF MemOf
    <3>2. [g \in MemOf(c) |-> content[table[c][g]]]' = [g \in MemOf(p) |-> content[table[p][g]]]
      BY <2>3, <3>1
    <3> QED BY <2>2, <2>3, <2>4, <3>2 DEF View
  <2>7. spaceOf = [q \in procs |-> View(q)] /\ spaceOf' = [q \in procs' |-> View(q)']
    BY DEF spaceOf, View
  <2> QED BY <1>1, <2>1, <2>5, <2>6, <2>7 DEF A!Fork
<1>13. A!Next
  <2>1. DOMAIN spaceOf = procs
    BY DEF spaceOf
  <2>2. CASE strayed
    BY <2>2 DEF A!Next, A!Stray
  <2>3. CASE ~strayed
    BY <1>12, <2>1, <2>3 DEF A!Next, A!Orderly
  <2> QED BY <2>2, <2>3
<1> QED BY <1>4, <1>6, <1>7, <1>8, <1>11, <1>13 DEF IInv

-----------------------------------------------------------------------------

LEMMA InitIInv == Init => IInv /\ A!Init
<1> SUFFICES ASSUME Init PROVE IInv /\ A!Init
  OBVIOUS
<1> DEFINE p == InitProc
           loaded == {InitTable[g] : g \in {h \in Page : InitTable[h] # NoFrame}}
<1>1. /\ procs = {p} /\ p \in Proc /\ bugCheck = 0 /\ content = InitContent
      /\ used = InitKernel \cup loaded /\ loaded \subseteq Frame /\ loaded \cap InitKernel = {}
      /\ userBreak[p] = InitBreak /\ table[p] = InitTable /\ kernel[p] = InitKernel
      /\ pc[p] = "user" /\ page[p] = 0 /\ taken[p] = {} /\ child[p] = NoPages /\ strayed = FALSE
  BY InitAssumption, BoundsAssumption DEF Init
<1>2. TypeOK /\ OnlyOutOfMemory
  <2>1. NoPages \in [Page -> Frame \cup {NoFrame}]
    BY DEF NoPages
  <2>2. table \in [Proc -> [Page -> Frame \cup {NoFrame}]]
    BY <2>1, InitAssumption DEF Init
  <2>3. refs \in [Frame -> 0 .. 1] /\ used \subseteq Frame
    BY <1>1, InitAssumption DEF Init
  <2>4. page \in [Proc -> 0 .. MaxPage + 1]
    BY BoundsAssumption DEF Init
  <2>5. /\ userBreak \in [Proc -> Break] /\ newBreak \in [Proc -> Break]
        /\ kernel \in [Proc -> SUBSET Frame] /\ taken \in [Proc -> SUBSET Frame]
        /\ pc \in [Proc -> {"user"} \cup Brking \cup Forking]
        /\ block \in [Proc -> Frame \cup {NoFrame}]
        /\ child \in [Proc -> [Page -> Frame \cup {NoFrame}]]
    BY <2>1, InitAssumption DEF Init
  <2>6. content \in [Frame -> Value] /\ procs \subseteq Proc
    BY <1>1, InitAssumption
  <2> QED BY <1>1, <2>2, <2>3, <2>4, <2>5, <2>6 DEF TypeOK, OnlyOutOfMemory
<1>3. /\ \A q \in Proc : IdleInv(q)
      /\ \A q \in Proc \ procs : pc[q] = "user"
  BY DEF Init, IdleInv, Forking
<1>4. PathInv(p)
  BY <1>1, InitAssumption
  DEF PathInv, StackInv, ShrinkInv, GrowInv, ForkInv, Growing, Copying, Forking
<1>5. /\ \A g \in Own(p) : table[p][g] \in loaded /\ InitTable[g] # NoFrame /\ g \in Page
      /\ ChildOwn(p) = {} /\ InHand(p) = {} /\ KernelData(p) = InitKernel
  BY <1>1 DEF Own, ChildOwn, NoPages, InHand, KernelData
<1>6. FrameInv
  <2>1. \A f \in Frame : refs[f] = 1 <=> f \in loaded
    <3>1. \A f \in Frame : refs[f] = IF f \in used \ InitKernel THEN 1 ELSE 0
      BY DEF Init
    <3> QED BY <1>1, <3>1
  <2>2. Accounted
    BY <1>1, <1>5, <2>1 DEF Accounted
  <2>3. Counted
    BY <1>1, <1>5, <2>1 DEF Counted
  <2>4. Distinct
    BY <1>1, <1>5, InitAssumption DEF Distinct
  <2>5. Hands
    BY <1>1, <1>5 DEF Hands
  <2> QED BY <2>2, <2>3, <2>4, <2>5 DEF FrameInv
<1>7. IInv
  BY <1>1, <1>2, <1>3, <1>4, <1>6 DEF IInv
<1>8. A!Init
  <2> DEFINE mem == [g \in MemOf(p) |-> content[table[p][g]]]
  <2>1. BreakOf(p) = InitBreak /\ InitBreak \in A!Break
    BY <1>1, InitAssumption DEF BreakOf, A!Break, Break
  <2>2. MemOf(p) \in SUBSET A!Page
    BY DEF MemOf, A!Page, Page
  <2>3. ReleasedOf(p) = {}
    <3>1. \A g \in Page : InitTable[g] # NoFrame => g <= LastPage(InitBreak) \/ g \in StackPage
      BY InitAssumption
    <3>2. \A g \in Page : g \in Int /\ LastPage(InitBreak) \in Int
      BY FrameFacts, InitAssumption, LastPageType
    <3> QED BY <1>1, <3>1, <3>2 DEF ReleasedOf, Brking
  <2>4. \A g \in MemOf(p) : content[table[p][g]] \in Value
    <3> SUFFICES ASSUME NEW g \in MemOf(p) PROVE content[table[p][g]] \in Value
      OBVIOUS
    <3>1. g \in Own(p)
      BY <1>1, <1>7, MemOwned
    <3>2. table[p][g] \in Frame
      BY <1>1, <1>5, <3>1
    <3> QED BY <1>2, <3>2 DEF TypeOK
  <2>5. mem \in [MemOf(p) -> Value]
    BY <2>4
  <2>6. spaceOf = [q \in {InitProc} |-> [brk |-> InitBreak, mem |-> mem, released |-> {}]]
    BY <1>1, <2>1, <2>3 DEF spaceOf
  <2> QED BY <1>1, <2>1, <2>2, <2>5, <2>6 DEF A!Init
<1> QED BY <1>7, <1>8

LEMMA NextKeeps ==
  ASSUME IInv, [Next]_vars
  PROVE  IInv' /\ [A!Next]_<<spaceOf, strayed>>
<1>1. CASE UNCHANGED vars
  <2>1. /\ UNCHANGED <<used, refs, content, procs, userBreak, table, kernel, pc>>
        /\ UNCHANGED <<newBreak, page, block, taken, child, bugCheck, strayed>>
    BY <1>1 DEF vars, heap, space, local
  <2>2. \A q \in Proc : Same(q) /\ ContentKept(q)
    BY <2>1, NoContentChange DEF Same
  <2>3. TypeOK' /\ OnlyOutOfMemory'
    BY <2>1 DEF IInv, TypeOK, OnlyOutOfMemory
  <2>4. \A q \in procs : PathInv(q)' /\ SameFrames(q)
    BY <2>1, <2>2, PathKept, SameIsSameFrames DEF IInv, TypeOK
  <2>5. FrameInv'
    BY <2>1, <2>4, FramesKept
  <2>6. \A q \in Proc : IdleInv(q)' /\ pc'[q] = pc[q]
    BY <2>1, <2>2, SameOperators DEF IInv
  <2>7. IInv'
    BY <2>1, <2>3, <2>4, <2>5, <2>6 DEF IInv
  <2>8. spaceOf' = spaceOf
    BY <2>1 DEF spaceOf, BreakOf, MemOf, InReach, ReleasedOf
  <2> QED BY <2>1, <2>7, <2>8
<1>2. CASE Next
  <2> SUFFICES ASSUME NEW p \in procs,
                      \/ \E g \in Page, v \in Value : Store(p, g, v)
                      \/ /\ \/ \E rb \in Break : BrkInPage(p, rb) \/ BrkShrink(p, rb) \/ BrkGrow(p, rb)
                            \/ CallFork(p)
                            \/ Proceed(p)
                         /\ UNCHANGED strayed
               PROVE  IInv' /\ [A!Next]_<<spaceOf, strayed>>
    BY <1>2 DEF Next
  <2>1. ASSUME NEW g \in Page, NEW v \in Value, Store(p, g, v) PROVE IInv' /\ A!Next
    BY <2>1, StoreKeeps
  <2> DEFINE Quiet == IInv' /\ spaceOf' = spaceOf /\ strayed' = strayed
  <2>2. ASSUME NEW rb \in Break, BrkInPage(p, rb), UNCHANGED strayed PROVE IInv' /\ A!Next
    BY <2>2, BrkInPageKeeps
  <2>3. ASSUME NEW rb \in Break, BrkShrink(p, rb), UNCHANGED strayed PROVE IInv' /\ A!Next
    BY <2>3, BrkShrinkKeeps
  <2>4. ASSUME NEW rb \in Break, BrkGrow(p, rb), UNCHANGED strayed PROVE Quiet
    BY <2>4, BrkGrowKeeps
  <2>5. CASE CallFork(p) /\ UNCHANGED strayed
    BY <2>5, CallForkKeeps
  <2>6. CASE Proceed(p) /\ UNCHANGED strayed
    <3>1. CASE ReleaseDone(p) \/ Release(p) \/ Dealloc(p)
      BY <2>6, <3>1, ReleaseDoneKeeps, ReleaseKeeps, DeallocKeeps
    <3>2. CASE GrowDone(p) \/ GrowBlock(p) \/ Wipe(p) \/ Map(p)
      BY <2>6, <3>2, GrowDoneKeeps, GrowBlockKeeps, WipeKeeps, MapKeeps
    <3>3. CASE TakeBlock(p) \/ Taken(p) \/ TakeDone(p)
      BY <2>6, <3>3, TakeBlockKeeps, TakenKeeps, TakeDoneKeeps
    <3>4. CASE FetchPageData(p) \/ ForkBlock(p) \/ Copy(p) \/ Describe(p)
      BY <2>6, <3>4, FetchPageDataKeeps, ForkBlockKeeps, CopyKeeps, DescribeKeeps
    <3>5. CASE \E c \in Proc : Spawn(p, c)
      BY <2>6, <3>5, SpawnKeeps
    <3> QED BY <2>6, <3>1, <3>2, <3>3, <3>4, <3>5 DEF Proceed
  <2> QED BY <2>1, <2>2, <2>3, <2>4, <2>5, <2>6
<1> QED BY <1>1, <1>2

LEMMA Invariance == Spec => []IInv
<1>1. Init => IInv
  BY InitIInv
<1>2. IInv /\ [Next]_vars => IInv'
  BY NextKeeps
<1> QED BY <1>1, <1>2, PTL DEF Spec

(* Types: page tables only ever name blocks of the heap, a page is         *)
(* referenced once at most, and the loops of brk and fork stay in them.    *)
THEOREM TypeCorrect == Spec => []TypeOK
<1>1. IInv => TypeOK
  BY DEF IInv
<1> QED BY <1>1, Invariance, PTL

(* alloc_lb and dealloc_lb account for every large block, in any           *)
(* interleaving of brks and forks, and when the kernel stops half-way.     *)
THEOREM NoBlockLost == Spec => []BlocksAccountedFor
BY Accounting, Invariance, PTL

(* The entries that a shrinking brk leaves present, and the copies that    *)
(* forks make of them, are the only ones that lead to another process'     *)
(* memory, or twice to the same.                                           *)
THEOREM OnlyStaleEntriesShare == Spec => []SharedOnlyWhereReleased
BY OnlyReleasedShared, Invariance, PTL

(* The bug checks of chgPageRef, initPageRef, initPageRefBased and mapPage *)
(* never fail.                                                             *)
THEOREM StopsForMemoryOnly == Spec => []OnlyOutOfMemory
<1>1. IInv => OnlyOutOfMemory
  BY DEF IInv
<1> QED BY <1>1, Invariance, PTL

(* brk and fork give every process the memory of its own that              *)
(* AddressSpaces promises, until a program stores through a page it gave   *)
(* back: the reference counts, the stale entries as such and the           *)
(* interleavings cannot be told from outside.                              *)
THEOREM MemoryRefinement == Spec => ImplementsAddressSpaces
<1>1. Init => A!Init
  BY InitIInv
<1>2. IInv /\ [Next]_vars => [A!Next]_<<spaceOf, strayed>>
  BY NextKeeps
<1> QED BY <1>1, <1>2, Invariance, PTL DEF Spec, A!Spec, ImplementsAddressSpaces

=============================================================================
