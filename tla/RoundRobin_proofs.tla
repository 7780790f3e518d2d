-------------------------- MODULE RoundRobin_proofs --------------------------
(* Facts about the scheduling order, for every set of tids.                *)
EXTENDS RoundRobin, WellFoundedInduction, TLAPS

(* A nonempty set of naturals has a least element, which Least returns.    *)
LEMMA LeastOfNat ==
  ASSUME NEW S \in SUBSET Nat, S # {}
  PROVE  /\ Least(S) \in S
         /\ \A y \in S : Least(S) <= y
<1>1. PICK x \in S : \A y \in S : ~ (<<y, x>> \in OpToRel(<, Nat))
  BY NatLessThanWellFounded, WFMin
<1>2. \A y \in S : x <= y
  <2> SUFFICES ASSUME NEW y \in S PROVE x <= y
    OBVIOUS
  <2>1. <<y, x>> \notin OpToRel(<, Nat)
    BY <1>1
  <2>2. ~ (y < x)
    BY <2>1 DEF OpToRel
  <2> QED BY <2>2
<1> QED BY <1>2 DEF Least

(* Threads_nextThread always finds a thread of the map: neither of its bug *)
(* checks 3 and 4 can fail while the map is not empty.                     *)
THEOREM NextThreadInMap ==
  ASSUME NEW tasks \in SUBSET Nat, tasks # {}, NEW cur \in Nat
  PROVE  NextThread(tasks, cur) \in tasks
<1>1. Above(tasks, cur) \in SUBSET Nat /\ Above(tasks, 0) \in SUBSET Nat
  BY DEF Above
<1>2. CASE Above(tasks, cur) # {}
  BY <1>1, <1>2, LeastOfNat DEF NextThread, Above
<1>3. CASE Above(tasks, cur) = {} /\ 0 \in tasks
  BY <1>3 DEF NextThread
<1>4. CASE Above(tasks, cur) = {} /\ 0 \notin tasks
  <2>1. Above(tasks, 0) # {}
    <3>1. PICK t \in tasks : TRUE
      OBVIOUS
    <3>2. t \in Nat /\ t # 0
      BY <1>4
    <3>3. t > 0
      BY <3>2
    <3> QED BY <3>3 DEF Above
  <2>2. Least(Above(tasks, 0)) \in Above(tasks, 0)
    BY <1>1, <2>1, LeastOfNat
  <2> QED BY <1>4, <2>2 DEF NextThread, Above
<1> QED BY <1>2, <1>3, <1>4

=============================================================================
