------------------------- MODULE KernelMutex_proofs -------------------------
(***************************************************************************)
(* What KernelMutex guarantees for every number of threads and handlers,   *)
(* every schedule and every bound, provided a retry of SimpleMutex_acquire *)
(* finds its operands intact (AfterYield = {Intact}).  Run mutex_compiled  *)
(* shows that the compiled code breaks the proviso; the theorems say that  *)
(* nothing else stands between Mutex and its contract.                     *)
(***************************************************************************)
EXTENDS KernelMutex, RoundRobin_proofs

(* The acquisitions of c that `acquires' accounts for: those that returned *)
(* and are not being released, one that is about to return, and one whose  *)
(* release has not yet decremented the count.                              *)
Held(c) ==
  IF pc[c] = "unlock" /\ op[c] # "release" THEN depth[c] + 1
  ELSE IF pc[c] # "unlock" /\ op[c] = "release" THEN depth[c] + 1
  ELSE depth[c]

(* Where a context is agrees with the call it makes, and its registers are *)
(* those of a fresh call.                                                  *)
CallInv(c) ==
  /\ pc[c] = "idle" <=> op[c] = "none"
  /\ pc[c] \in {"test", "own", "count", "backoff", "retry"} => op[c] \in {"acquire", "tryAcquire"}
  /\ pc[c] \in {"check", "uncount"} => op[c] = "release"
  /\ op[c] # "none" => depth[c] < MaxDepth
  /\ reg[c] = Intact

(* stateLock is set exactly while one context is in its section.           *)
SectionInv ==
  /\ \A c, d \in Context : pc[c] \in Section /\ pc[d] \in Section => c = d
  /\ stateLock = 1 <=> \E c \in Context : pc[c] \in Section

(* The owner accounts for the whole count, in the steps between two        *)
(* accesses to the lock's fields too.                                      *)
OwnerInv ==
  /\ acquires > 0 => ownerThread \in Context
  /\ \A c \in Context : Held(c) = IF c = ownerThread THEN acquires ELSE 0
  /\ \A c \in Context :
       /\ pc[c] = "own" => acquires = 0
       /\ pc[c] \in {"count", "uncount"} => ownerThread = c
       /\ pc[c] = "uncount" => acquires > 0

IInv ==
  /\ TypeOK
  /\ bugCheck = 0
  /\ \A c \in Context : CallInv(c)
  /\ SectionInv
  /\ OwnerInv

-----------------------------------------------------------------------------

(* An identity is never 0, so no thread is mistaken for the owner of a     *)
(* lock that nobody has acquired.                                          *)
LEMMA ContextFacts ==
  /\ Context \subseteq Int
  /\ 0 \notin Context
  /\ \A t \in Thread : t \in Context /\ Complement(t) \in Context
<1>1. \A t \in Thread : t \in Nat /\ t # 0
  BY ConstantsAssumption
<1>2. \A t \in Thread : Complement(t) \in Int /\ Complement(t) # 0
  BY <1>1 DEF Complement
<1> QED BY <1>1, <1>2 DEF Context, Handler

LEMMA ScheduledThread ==
  ASSUME NEW t \in Thread
  PROVE  NextThread(Thread, t) \in Thread
<1>1. Thread \in SUBSET Nat /\ Thread # {} /\ t \in Nat
  BY ConstantsAssumption
<1> QED BY <1>1, NextThreadInMap

LEMMA InitIInv == Init => IInv
<1> SUFFICES ASSUME Init PROVE IInv
  OBVIOUS
<1> USE ConstantsAssumption, ContextFacts DEF Init
<1>1. TypeOK
  <2>1. Least(Thread) \in Thread
    BY LeastOfNat
  <2>2. 0 \in 0 .. AcquiresMod - 1 /\ 0 \in 0 .. MaxDepth /\ 0 \in 0 .. MaxCalls
    OBVIOUS
  <2> QED BY <2>1, <2>2 DEF TypeOK, Byte, Labels, Ops, Registers, Intact
<1>2. \A c \in Context : CallInv(c)
  BY DEF CallInv
<1>3. SectionInv
  BY DEF SectionInv, Section
<1>4. OwnerInv
  BY DEF OwnerInv, Held
<1> QED BY <1>1, <1>2, <1>3, <1>4 DEF IInv

-----------------------------------------------------------------------------
(* One lemma per step of a lock function.                                  *)

LEMMA CallStep ==
  ASSUME IInv, NEW c \in Context, CallAcquire(c) \/ CallRelease(c)
  PROVE  IInv'
<1> USE ConstantsAssumption, ContextFacts
<1> PICK f \in {"acquire", "tryAcquire", "release"} : Call(c, f)
  BY DEF CallAcquire, CallRelease
<1>1. /\ pc[c] = "idle" /\ op[c] = "none"
      /\ pc' = [pc EXCEPT ![c] = "xchg"] /\ op' = [op EXCEPT ![c] = f]
      /\ reg' = [reg EXCEPT ![c] = Intact]
      /\ UNCHANGED <<cpu, slice, mutex, elsewhere, bugCheck>>
  BY DEF Call, AtLabel, Goto, EnterSimpleMutex, IInv, CallInv
<1>2. \/ /\ f # "release" /\ depth[c] < MaxDepth /\ UNCHANGED depth
         /\ calls' \in 0 .. MaxCalls
      \/ /\ f = "release" /\ depth[c] > 0
         /\ depth' = [depth EXCEPT ![c] = @ - 1] /\ calls' \in 0 .. MaxCalls
  BY <1>1 DEF CallAcquire, CallRelease, Call, IInv, TypeOK
<1>3. TypeOK'
  BY <1>1, <1>2 DEF IInv, TypeOK, cpu, mutex, Labels, Ops, Registers, Intact, Byte
<1>4. \A d \in Context : CallInv(d)'
  BY <1>1, <1>2 DEF IInv, TypeOK, CallInv
<1>5. SectionInv'
  BY <1>1 DEF IInv, TypeOK, SectionInv, Section, mutex
<1>6. \A d \in Context : Held(d)' = Held(d)
  BY <1>1, <1>2 DEF IInv, TypeOK, Held
<1>7. OwnerInv'
  BY <1>1, <1>6 DEF IInv, TypeOK, OwnerInv, mutex
<1> QED BY <1>1, <1>3, <1>4, <1>5, <1>7 DEF IInv

(* A context that finds stateLock free enters its section, alone.          *)
LEMMA XchgStep ==
  ASSUME IInv, AfterYield = {Intact}, slice' \in 0 .. MinSlice,
         NEW c \in Context, Xchg(c)
  PROVE  IInv'
<1> USE ConstantsAssumption, ContextFacts
<1>1. /\ pc[c] = "xchg" /\ op[c] # "none" /\ reg[c] = Intact
      /\ UNCHANGED <<currentThread, handlingIRQ, ownerThread, acquires, elsewhere, op,
                     depth, calls, bugCheck>>
  BY DEF Xchg, AtLabel, IInv, CallInv, TypeOK, Intact, cpu, client
<1>2. /\ reg' = [reg EXCEPT ![c] = Intact]
      /\ stateLock' = 1
      /\ \/ /\ stateLock = 0
            /\ pc' = [pc EXCEPT ![c] = IF op[c] = "release" THEN "check" ELSE "test"]
         \/ /\ stateLock = 1
            /\ pc' = [pc EXCEPT ![c] = "spin"]
  <2>1. /\ reg[c].edx = "lock" /\ reg[c].al = 1
        /\ [reg[c] EXCEPT !.al = 1] = Intact
    BY <1>1 DEF Intact
  <2>2. stateLock' = 1
    BY <2>1 DEF Xchg
  <2>3. CASE stateLock = 0
    BY <2>1, <2>2, <2>3 DEF Xchg, Goto
  <2>4. CASE stateLock = 1
    <3>1. reg' = [reg EXCEPT ![c] = [reg[c] EXCEPT !.al = 1]]
      BY <2>1, <2>4 DEF Xchg
    <3> QED BY <2>1, <2>2, <2>4, <3>1 DEF Xchg, Goto
  <2> QED BY <2>3, <2>4 DEF IInv, TypeOK, Byte
<1>3. TypeOK'
  BY <1>1, <1>2 DEF IInv, TypeOK, Labels, Registers, Intact, Byte
<1>4. \A d \in Context : CallInv(d)'
  BY <1>1, <1>2 DEF IInv, TypeOK, CallInv, Ops
<1>5. SectionInv'
  BY <1>1, <1>2 DEF IInv, TypeOK, SectionInv, Section
<1>6. \A d \in Context : Held(d)' = Held(d)
  BY <1>1, <1>2 DEF IInv, TypeOK, Held
<1>7. OwnerInv'
  BY <1>1, <1>2, <1>6 DEF IInv, TypeOK, OwnerInv
<1> QED BY <1>1, <1>3, <1>4, <1>5, <1>7 DEF IInv

(* Waiting moves the CPU and, with the operands intact, nothing else.      *)
LEMMA WaitStep ==
  ASSUME IInv, AfterYield = {Intact}, slice' \in 0 .. MinSlice,
         NEW c \in Context, Spin(c) \/ Retry(c)
  PROVE  IInv'
<1> USE ConstantsAssumption, ContextFacts
<1>1. /\ pc[c] \in {"spin", "retry"} /\ op[c] # "none" /\ reg[c] = Intact
      /\ pc' = [pc EXCEPT ![c] = "xchg"]
      /\ UNCHANGED <<stateLock, ownerThread, acquires, elsewhere, op, depth, calls, bugCheck>>
  BY DEF Spin, Retry, EnterSimpleMutex, AtLabel, Goto, IInv, CallInv, TypeOK, mutex, client
<1>2. reg' = reg
  <2>1. [reg[c] EXCEPT !.al = 1] = Intact /\ [reg EXCEPT ![c] = Intact] = reg
    BY <1>1 DEF Intact, IInv, TypeOK
  <2>2. CASE Spin(c) /\ handlingIRQ = 1
    <3>1. reg' = [reg EXCEPT ![c] = [reg[c] EXCEPT !.al = 1]]
      BY <2>2 DEF Spin
    <3> QED BY <2>1, <3>1
  <2>3. CASE Spin(c) /\ handlingIRQ = 0
    BY <2>1, <2>3 DEF Spin
  <2>4. CASE Retry(c)
    BY <2>1, <2>4 DEF Retry, EnterSimpleMutex
  <2> QED BY <2>2, <2>3, <2>4 DEF IInv, TypeOK, Byte
<1>3. currentThread' \in Thread /\ handlingIRQ' = handlingIRQ
  <2>1. NextThread(Thread, currentThread) \in Thread
    BY ScheduledThread DEF IInv, TypeOK
  <2> QED BY <2>1 DEF Spin, Retry, YieldCPU, cpu, IInv, TypeOK
<1>4. TypeOK'
  BY <1>1, <1>2, <1>3 DEF IInv, TypeOK, Labels
<1>5. \A d \in Context : CallInv(d)'
  BY <1>1, <1>2 DEF IInv, TypeOK, CallInv
<1>6. SectionInv'
  BY <1>1 DEF IInv, TypeOK, SectionInv, Section
<1>7. \A d \in Context : Held(d)' = Held(d)
  BY <1>1 DEF IInv, TypeOK, Held
<1>8. OwnerInv'
  BY <1>1, <1>7 DEF IInv, TypeOK, OwnerInv
<1> QED BY <1>1, <1>4, <1>5, <1>6, <1>8 DEF IInv

(* The tests that a context makes in its section: they only move it.  The  *)
(* two assertions of Mutex_release hold because OwnerInv makes the caller, *)
(* who has an acquisition to release, the owner of a positive count.       *)
LEMMA TestStep ==
  ASSUME IInv, slice' \in 0 .. MinSlice, NEW c \in Context, Test(c) \/ Check(c)
  PROVE  IInv'
<1> USE ConstantsAssumption, ContextFacts
<1>1. UNCHANGED <<currentThread, handlingIRQ, stateLock, ownerThread, acquires, elsewhere,
                  op, reg, depth, calls>>
  BY DEF Test, Check, cpu, mutex, client
<1>2. \/ /\ pc[c] = "test" /\ op[c] # "release" /\ bugCheck' = 0
         /\ \/ acquires = 0 /\ pc' = [pc EXCEPT ![c] = "own"]
            \/ ownerThread = c /\ pc' = [pc EXCEPT ![c] = "count"]
            \/ pc' = [pc EXCEPT ![c] = "backoff"]
      \/ /\ pc[c] = "check" /\ op[c] = "release"
         /\ pc' = [pc EXCEPT ![c] = "uncount"]
         /\ ownerThread = c /\ acquires > 0 /\ bugCheck' = 0
  <2>1. CASE Test(c)
    BY <2>1 DEF Test, AtLabel, Goto, IInv, CallInv
  <2>2. CASE Check(c)
    <3>1. pc[c] = "check" /\ op[c] = "release" /\ pc' = [pc EXCEPT ![c] = "uncount"]
      BY <2>2 DEF Check, AtLabel, Goto, IInv, CallInv
    <3>2. Held(c) = depth[c] + 1 /\ depth[c] \in Nat
      BY <3>1 DEF Held, IInv, TypeOK
    <3>3. ownerThread = c /\ acquires > 0
      BY <3>2 DEF IInv, OwnerInv
    <3> QED BY <2>2, <3>1, <3>3 DEF Check, IInv, TypeOK
  <2> QED BY <2>1, <2>2
<1>3. TypeOK'
  BY <1>1, <1>2 DEF IInv, TypeOK, Labels
<1>4. \A d \in Context : CallInv(d)'
  BY <1>1, <1>2 DEF IInv, TypeOK, CallInv
<1>5. SectionInv'
  BY <1>1, <1>2 DEF IInv, TypeOK, SectionInv, Section
<1>6. \A d \in Context : Held(d)' = Held(d)
  BY <1>1, <1>2 DEF IInv, TypeOK, Held
<1>7. OwnerInv'
  BY <1>1, <1>2, <1>6 DEF IInv, TypeOK, OwnerInv
<1> QED BY <1>2, <1>3, <1>4, <1>5, <1>7 DEF IInv

(* Taking a free lock: nobody's acquisitions are counted, so whoever owned *)
(* it last loses nothing.                                                  *)
LEMMA OwnStep ==
  ASSUME IInv, slice' \in 0 .. MinSlice, NEW c \in Context, Own(c)
  PROVE  IInv'
<1> USE ConstantsAssumption, ContextFacts
<1>1. /\ pc[c] = "own" /\ op[c] # "release" /\ acquires = 0
      /\ pc' = [pc EXCEPT ![c] = "count"] /\ ownerThread' = c
      /\ UNCHANGED <<currentThread, handlingIRQ, stateLock, acquires, elsewhere, op, reg,
                     depth, calls, bugCheck>>
  BY DEF Own, AtLabel, Goto, IInv, CallInv, OwnerInv, cpu, client
<1>2. TypeOK'
  BY <1>1 DEF IInv, TypeOK, Labels
<1>3. \A d \in Context : CallInv(d)'
  BY <1>1 DEF IInv, TypeOK, CallInv
<1>4. SectionInv'
  BY <1>1 DEF IInv, TypeOK, SectionInv, Section
<1>5. \A d \in Context : Held(d) = 0 /\ Held(d)' = 0
  BY <1>1 DEF IInv, TypeOK, Held, OwnerInv
<1>6. OwnerInv'
  BY <1>1, <1>5 DEF IInv, TypeOK, OwnerInv, SectionInv, Section
<1> QED BY <1>1, <1>2, <1>3, <1>4, <1>6 DEF IInv

(* The owner counts its acquisition; the count cannot wrap because no      *)
(* context nests more than MaxDepth of them.                               *)
LEMMA CountStep ==
  ASSUME IInv, slice' \in 0 .. MinSlice, NEW c \in Context, Count(c)
  PROVE  IInv'
<1> USE ConstantsAssumption, ContextFacts
<1>1. /\ pc[c] = "count" /\ op[c] \in {"acquire", "tryAcquire"} /\ ownerThread = c
      /\ pc' = [pc EXCEPT ![c] = "unlock"]
      /\ UNCHANGED <<currentThread, handlingIRQ, stateLock, ownerThread, elsewhere, op, reg,
                     depth, calls>>
  BY DEF Count, AtLabel, Goto, IInv, CallInv, OwnerInv, cpu, client
<1>2. acquires = depth[c] /\ depth[c] < MaxDepth /\ depth[c] \in Nat
  <2>1. Held(c) = depth[c] /\ depth[c] \in Nat
    BY <1>1 DEF Held, IInv, TypeOK
  <2>2. Held(c) = acquires
    BY <1>1 DEF IInv, OwnerInv
  <2>3. depth[c] < MaxDepth
    BY <1>1 DEF IInv, CallInv
  <2> QED BY <2>1, <2>2, <2>3
<1>3. acquires' = acquires + 1 /\ acquires' # 0 /\ bugCheck' = 0
  BY <1>2 DEF Count
<1>4. TypeOK'
  BY <1>1, <1>2, <1>3 DEF IInv, TypeOK, Labels
<1>5. \A d \in Context : CallInv(d)'
  BY <1>1 DEF IInv, TypeOK, CallInv
<1>6. SectionInv'
  BY <1>1 DEF IInv, TypeOK, SectionInv, Section
<1>7. /\ Held(c)' = acquires'
      /\ \A d \in Context \ {c} : Held(d)' = Held(d)
  BY <1>1, <1>2, <1>3 DEF IInv, TypeOK, Held
<1>8. OwnerInv'
  BY <1>1, <1>2, <1>3, <1>7 DEF IInv, TypeOK, OwnerInv, SectionInv, Section
<1> QED BY <1>3, <1>4, <1>5, <1>6, <1>8 DEF IInv

(* The owner takes an acquisition off the count.                           *)
LEMMA UncountStep ==
  ASSUME IInv, slice' \in 0 .. MinSlice, NEW c \in Context, Uncount(c)
  PROVE  IInv'
<1> USE ConstantsAssumption, ContextFacts
<1>1. /\ pc[c] = "uncount" /\ op[c] = "release" /\ ownerThread = c /\ acquires > 0
      /\ pc' = [pc EXCEPT ![c] = "unlock"] /\ acquires' = acquires - 1
      /\ UNCHANGED <<currentThread, handlingIRQ, stateLock, ownerThread, elsewhere, op, reg,
                     depth, calls, bugCheck>>
  BY DEF Uncount, AtLabel, Goto, IInv, CallInv, OwnerInv, cpu, client
<1>2. TypeOK'
  BY <1>1 DEF IInv, TypeOK, Labels
<1>3. \A d \in Context : CallInv(d)'
  BY <1>1 DEF IInv, TypeOK, CallInv
<1>4. SectionInv'
  BY <1>1 DEF IInv, TypeOK, SectionInv, Section
<1>5. /\ Held(c) = acquires /\ Held(c) = depth[c] + 1 /\ Held(c)' = depth[c]
      /\ depth[c] \in Nat
      /\ \A d \in Context \ {c} : Held(d)' = Held(d)
  BY <1>1 DEF IInv, TypeOK, Held, OwnerInv
<1>6. Held(c)' = acquires'
  BY <1>1, <1>5 DEF IInv, TypeOK
<1>7. OwnerInv'
  BY <1>1, <1>5, <1>6 DEF IInv, TypeOK, OwnerInv, SectionInv, Section
<1> QED BY <1>1, <1>2, <1>3, <1>4, <1>7 DEF IInv

(* Leaving the section: the acquisition or release is now the client's.    *)
LEMMA LeaveStep ==
  ASSUME IInv, slice' \in 0 .. MinSlice, NEW c \in Context, Unlock(c) \/ Backoff(c)
  PROVE  IInv'
<1> USE ConstantsAssumption, ContextFacts
<1>1. /\ pc[c] \in Section /\ stateLock' = 0
      /\ UNCHANGED <<currentThread, handlingIRQ, ownerThread, acquires, elsewhere, reg,
                     calls, bugCheck>>
  BY DEF Unlock, Backoff, AtLabel, Section, cpu, client
<1>2. \/ /\ pc[c] = "unlock" /\ op[c] \in {"acquire", "tryAcquire"}
         /\ depth[c] < MaxDepth /\ depth' = [depth EXCEPT ![c] = @ + 1]
         /\ pc' = [pc EXCEPT ![c] = "idle"] /\ op' = [op EXCEPT ![c] = "none"]
      \/ /\ pc[c] = "unlock" /\ op[c] = "release" /\ UNCHANGED depth
         /\ pc' = [pc EXCEPT ![c] = "idle"] /\ op' = [op EXCEPT ![c] = "none"]
      \/ /\ pc[c] = "backoff" /\ op[c] = "tryAcquire" /\ UNCHANGED depth
         /\ pc' = [pc EXCEPT ![c] = "idle"] /\ op' = [op EXCEPT ![c] = "none"]
      \/ /\ pc[c] = "backoff" /\ op[c] = "acquire" /\ UNCHANGED depth
         /\ pc' = [pc EXCEPT ![c] = "retry"] /\ UNCHANGED op
  <2>1. CASE Unlock(c)
    <3>1. /\ pc[c] = "unlock" /\ op[c] \in {"acquire", "tryAcquire", "release"}
          /\ depth[c] < MaxDepth
      BY <2>1 DEF Unlock, AtLabel, IInv, CallInv, TypeOK, Ops
    <3>2. CASE op[c] = "release"
      BY <2>1, <3>1, <3>2 DEF Unlock, Goto, IInv, TypeOK
    <3>3. CASE op[c] # "release"
      BY <2>1, <3>1, <3>3 DEF Unlock, Goto
    <3> QED BY <3>2, <3>3
  <2>2. CASE Backoff(c)
    BY <2>2 DEF Backoff, AtLabel, Goto, client
  <2> QED BY <2>1, <2>2
<1>3. TypeOK'
  BY <1>1, <1>2 DEF IInv, TypeOK, Labels, Ops, Byte
<1>4. \A d \in Context : CallInv(d)'
  BY <1>1, <1>2 DEF IInv, TypeOK, CallInv
<1>5. SectionInv'
  BY <1>1, <1>2 DEF IInv, TypeOK, SectionInv, Section
<1>6. \A d \in Context : Held(d)' = Held(d)
  BY <1>1, <1>2 DEF IInv, TypeOK, Held
<1>7. OwnerInv'
  BY <1>1, <1>2, <1>6 DEF IInv, TypeOK, OwnerInv
<1> QED BY <1>1, <1>3, <1>4, <1>5, <1>7 DEF IInv

(* Interrupts and the returns from them leave every lock and call alone.   *)
LEMMA InterruptStep ==
  ASSUME IInv, EnterKfunc \/ ReturnKfunc \/ Timer \/ UNCHANGED vars
  PROVE  IInv'
<1> USE ConstantsAssumption, ContextFacts
<1>1. UNCHANGED <<stateLock, ownerThread, acquires, elsewhere, pc, op, reg, depth, bugCheck>>
  BY DEF EnterKfunc, ReturnKfunc, Timer, vars, mutex, client
<1>2. /\ currentThread' \in Thread /\ handlingIRQ' \in Byte /\ slice' \in 0 .. MinSlice
      /\ calls' \in 0 .. MaxCalls
  <2>1. NextThread(Thread, currentThread) \in Thread
    BY ScheduledThread DEF IInv, TypeOK
  <2> QED BY <2>1 DEF EnterKfunc, ReturnKfunc, Timer, YieldCPU, vars, cpu, client, IInv, TypeOK, Byte
<1>3. TypeOK'
  BY <1>1, <1>2 DEF IInv, TypeOK
<1>4. \A d \in Context : CallInv(d)' /\ Held(d)' = Held(d)
  BY <1>1 DEF IInv, CallInv, Held
<1>5. SectionInv' /\ OwnerInv'
  BY <1>1, <1>4 DEF IInv, SectionInv, OwnerInv
<1> QED BY <1>1, <1>3, <1>4, <1>5 DEF IInv

-----------------------------------------------------------------------------

(* Every step of the system keeps the invariant.                           *)
LEMMA NextIInv ==
  ASSUME IInv, AfterYield = {Intact}, [Next]_vars
  PROVE  IInv'
<1>1. ASSUME NEW c \in Context, Proceed(c)
      PROVE  IInv'
  <2>1. slice' \in 0 .. MinSlice
    BY <1>1, ConstantsAssumption DEF Proceed, IInv, TypeOK
  <2> QED BY <1>1, <2>1, XchgStep, WaitStep, TestStep, OwnStep, CountStep, UncountStep,
             LeaveStep DEF Proceed
<1> QED BY <1>1, CallStep, InterruptStep DEF Next

LEMMA IInvHolds == AfterYield = {Intact} => (Spec => []IInv)
<1> SUFFICES ASSUME AfterYield = {Intact} PROVE Spec => []IInv
  OBVIOUS
<1>1. IInv /\ [Next]_vars => IInv'
  BY NextIInv
<1> QED BY <1>1, InitIInv, PTL DEF Spec

(* The lock's fields, the registers and the calls keep their types.        *)
THEOREM TypeCorrect == AfterYield = {Intact} => (Spec => []TypeOK)
<1> SUFFICES ASSUME AfterYield = {Intact} PROVE Spec => []TypeOK
  OBVIOUS
<1>1. IInv => TypeOK
  BY DEF IInv
<1> QED BY <1>1, IInvHolds, PTL

(* What a context holds is part of the count, and only of its own.         *)
LEMMA HeldCoversDepth ==
  ASSUME IInv, NEW c \in Context
  PROVE  /\ depth[c] \in Nat
         /\ depth[c] <= Held(c)
         /\ c # ownerThread => depth[c] = 0
BY ConstantsAssumption DEF IInv, TypeOK, OwnerInv, Held

(* Critical sections exclude each other, however the timer and the kfunc   *)
(* handlers interleave the lock functions.                                 *)
THEOREM MutualExclusionHolds == AfterYield = {Intact} => (Spec => []MutualExclusion)
<1> SUFFICES ASSUME AfterYield = {Intact} PROVE Spec => []MutualExclusion
  OBVIOUS
<1>1. IInv => MutualExclusion
  BY HeldCoversDepth DEF MutualExclusion
<1> QED BY <1>1, IInvHolds, PTL

(* None of the four assertions of Mutex can fail.                          *)
THEOREM NoBugCheckHolds == AfterYield = {Intact} => (Spec => []NoBugCheck)
<1> SUFFICES ASSUME AfterYield = {Intact} PROVE Spec => []NoBugCheck
  OBVIOUS
<1>1. IInv => NoBugCheck
  BY DEF IInv, NoBugCheck
<1> QED BY <1>1, IInvHolds, PTL

(* Between lock functions nothing is left behind: the inner lock is free   *)
(* and the count is what the owner has yet to release.                     *)
THEOREM QuiescentCountHolds == AfterYield = {Intact} => (Spec => []QuiescentCount)
<1> SUFFICES ASSUME AfterYield = {Intact} PROVE Spec => []QuiescentCount
  OBVIOUS
<1>1. IInv => QuiescentCount
  <2> SUFFICES ASSUME IInv, \A c \in Context : op[c] = "none"
               PROVE  /\ stateLock = 0
                      /\ acquires = IF ownerThread = 0 THEN 0 ELSE depth[ownerThread]
    BY DEF QuiescentCount
  <2>1. \A c \in Context : pc[c] = "idle" /\ Held(c) = depth[c]
    BY DEF IInv, CallInv, Held
  <2>2. stateLock = 0
    BY <2>1 DEF IInv, TypeOK, SectionInv, Section, Byte
  <2>3. CASE ownerThread = 0
    <3>1. acquires \in Nat /\ ~ (acquires > 0)
      BY <2>3, ContextFacts, ConstantsAssumption DEF IInv, TypeOK, OwnerInv
    <3> QED BY <2>2, <2>3, <3>1
  <2>4. CASE ownerThread # 0
    <3>1. ownerThread \in Context
      BY <2>4 DEF IInv, TypeOK
    <3>2. acquires = depth[ownerThread]
      BY <2>1, <3>1 DEF IInv, OwnerInv
    <3> QED BY <2>2, <2>4, <3>2
  <2> QED BY <2>3, <2>4
<1> QED BY <1>1, IInvHolds, PTL

-----------------------------------------------------------------------------

(* Mutex is a linearizable reentrant lock: an acquisition takes effect     *)
(* when it is counted, a refusal when the owner is found to be another,    *)
(* and a release when it is taken off the count, each between the call and *)
(* its return; no other step of the lock functions shows.                  *)
THEOREM LockImplemented == AfterYield = {Intact} => (Spec => ImplementsLock)
<1> SUFFICES ASSUME AfterYield = {Intact} PROVE Spec => ImplementsLock
  OBVIOUS
<1> USE ConstantsAssumption, ContextFacts
<1> DEFINE seen == [c \in Context |-> CallSeen(c)]
           holder == IF acquires = 0 THEN 0 ELSE ownerThread
<1>1. Init => Lock!Init
  BY DEF Init, Lock!Init, CallSeen
<1>2. IInv /\ [Next]_vars => [Lock!Next]_(Lock!vars)
  <2> SUFFICES ASSUME IInv, [Next]_vars PROVE [Lock!Next]_(Lock!vars)
    OBVIOUS
  <2>a. \A c \in Context : seen[c] = CallSeen(c) /\ seen'[c] = CallSeen(c)'
    OBVIOUS
  <2>1. ASSUME NEW c \in Context, CallAcquire(c) \/ CallRelease(c)
        PROVE  Lock!Invoke(c)
    <3>1. PICK f \in {"acquire", "tryAcquire", "release"} :
            /\ Call(c, f)
            /\ \/ f # "release" /\ UNCHANGED depth
               \/ /\ f = "release" /\ depth[c] > 0
                  /\ depth' = [depth EXCEPT ![c] = @ - 1]
      BY <2>1 DEF CallAcquire, CallRelease
    <3>2. /\ op[c] = "none" /\ pc[c] = "idle"
          /\ pc' = [pc EXCEPT ![c] = "xchg"] /\ op' = [op EXCEPT ![c] = f]
          /\ UNCHANGED <<ownerThread, acquires>>
      BY <3>1 DEF Call, AtLabel, Goto, EnterSimpleMutex, IInv, CallInv, mutex
    <3>3. CallSeen(c) = "none" /\ CallSeen(c)' = f
      BY <3>2 DEF CallSeen, IInv, TypeOK
    <3>4. \A d \in Context \ {c} : CallSeen(d)' = CallSeen(d)
      BY <3>2 DEF CallSeen, IInv, TypeOK
    <3>5. seen' = [seen EXCEPT ![c] = f]
      BY <3>3, <3>4
    <3> QED BY <2>a, <3>1, <3>2, <3>3, <3>5 DEF Lock!Invoke, Lock!Becomes
  <2>2. ASSUME NEW c \in Context, Count(c)
        PROVE  Lock!Take(c)
    <3>1. /\ pc[c] = "count" /\ op[c] \in {"acquire", "tryAcquire"} /\ ownerThread = c
          /\ pc' = [pc EXCEPT ![c] = "unlock"] /\ UNCHANGED <<op, ownerThread, depth>>
      BY <2>2 DEF Count, AtLabel, Goto, IInv, CallInv, OwnerInv, client
    <3>2. acquires \in Nat /\ acquires' = acquires + 1 /\ acquires' # 0
      <4>1. Held(c) = depth[c] /\ depth[c] \in Nat /\ depth[c] < MaxDepth
        BY <3>1 DEF Held, IInv, TypeOK, CallInv
      <4>2. acquires = depth[c]
        BY <3>1, <4>1 DEF IInv, OwnerInv
      <4> QED BY <2>2, <4>1, <4>2 DEF Count
    <3>3. CallSeen(c) = op[c] /\ CallSeen(c)' = "taken"
      BY <3>1 DEF CallSeen, IInv, TypeOK
    <3>4. \A d \in Context \ {c} : CallSeen(d)' = CallSeen(d)
      BY <3>1 DEF CallSeen, IInv, TypeOK
    <3>5. seen' = [seen EXCEPT ![c] = "taken"]
      BY <3>3, <3>4
    <3>6. holder \in {0, c} /\ holder' = c
      BY <3>1, <3>2
    <3> QED BY <2>a, <3>1, <3>2, <3>3, <3>5, <3>6 DEF Lock!Take, Lock!Becomes
  <2>3. ASSUME NEW c \in Context, Test(c)
        PROVE  Lock!Refuse(c) \/ UNCHANGED Lock!vars
    <3>1. /\ pc[c] = "test" /\ op[c] \in {"acquire", "tryAcquire"}
          /\ UNCHANGED <<op, ownerThread, acquires, depth>>
          /\ \/ pc' = [pc EXCEPT ![c] = "own"]
             \/ pc' = [pc EXCEPT ![c] = "count"]
             \/ /\ acquires # 0 /\ ownerThread # c
                /\ pc' = [pc EXCEPT ![c] = "backoff"]
      BY <2>3 DEF Test, AtLabel, Goto, IInv, CallInv, mutex, client
    <3>2. \A d \in Context \ {c} : CallSeen(d)' = CallSeen(d)
      BY <3>1 DEF CallSeen, IInv, TypeOK
    <3>3. CallSeen(c) = op[c]
      BY <3>1 DEF CallSeen
    <3>4. CASE pc' = [pc EXCEPT ![c] = "backoff"] /\ op[c] = "tryAcquire"
      <4>1. CallSeen(c)' = "refused"
        BY <3>1, <3>4 DEF CallSeen, IInv, TypeOK
      <4>2. seen' = [seen EXCEPT ![c] = "refused"]
        BY <3>2, <4>1
      <4>3. holder \notin {0, c}
        <5>1. acquires # 0 /\ ownerThread # c
          BY <3>1, <3>4 DEF IInv, TypeOK
        <5>2. ownerThread # 0
          BY <5>1 DEF IInv, TypeOK, OwnerInv
        <5> QED BY <5>1, <5>2
      <4> QED BY <2>a, <3>1, <3>3, <3>4, <4>2, <4>3 DEF Lock!Refuse, Lock!Becomes
    <3>5. CASE ~ (pc' = [pc EXCEPT ![c] = "backoff"] /\ op[c] = "tryAcquire")
      <4>1. CallSeen(c)' = op[c]
        BY <3>1, <3>5 DEF CallSeen, IInv, TypeOK
      <4>2. seen' = seen
        BY <3>2, <3>3, <4>1
      <4> QED BY <3>1, <4>2 DEF Lock!vars
    <3> QED BY <3>4, <3>5
  <2>4. ASSUME NEW c \in Context, Uncount(c)
        PROVE  Lock!Drop(c)
    <3>1. /\ pc[c] = "uncount" /\ op[c] = "release" /\ ownerThread = c
          /\ acquires \in Nat /\ acquires > 0 /\ acquires' = acquires - 1
          /\ pc' = [pc EXCEPT ![c] = "unlock"] /\ UNCHANGED <<op, ownerThread, depth>>
      BY <2>4 DEF Uncount, AtLabel, Goto, IInv, TypeOK, CallInv, OwnerInv, client
    <3>2. CallSeen(c) = "release" /\ CallSeen(c)' = "dropped"
      BY <3>1 DEF CallSeen, IInv, TypeOK
    <3>3. \A d \in Context \ {c} : CallSeen(d)' = CallSeen(d)
      BY <3>1 DEF CallSeen, IInv, TypeOK
    <3>4. seen' = [seen EXCEPT ![c] = "dropped"]
      BY <3>2, <3>3
    <3>5. holder = c /\ holder' = IF acquires = 1 THEN 0 ELSE c
      BY <3>1
    <3> QED BY <2>a, <3>1, <3>2, <3>4, <3>5 DEF Lock!Drop, Lock!Becomes
  <2>5. ASSUME NEW c \in Context, Unlock(c) \/ Backoff(c)
        PROVE  Lock!Return(c) \/ UNCHANGED Lock!vars
    <3>1. UNCHANGED <<ownerThread, acquires>>
      BY <2>5 DEF Unlock, Backoff
    <3>2. CASE Backoff(c) /\ op[c] = "acquire"
      <4>1. /\ pc[c] = "backoff" /\ pc' = [pc EXCEPT ![c] = "retry"] /\ UNCHANGED <<op, depth>>
        BY <3>2 DEF Backoff, AtLabel, Goto, client
      <4>2. \A d \in Context : CallSeen(d)' = CallSeen(d)
        BY <3>2, <4>1 DEF CallSeen, IInv, TypeOK
      <4>3. seen' = seen
        BY <4>2
      <4> QED BY <3>1, <4>1, <4>3 DEF Lock!vars
    <3>3. CASE ~ (Backoff(c) /\ op[c] = "acquire")
      <4>1. /\ pc' = [pc EXCEPT ![c] = "idle"] /\ op' = [op EXCEPT ![c] = "none"]
            /\ \/ /\ CallSeen(c) = "taken" /\ depth' = [depth EXCEPT ![c] = @ + 1]
               \/ /\ CallSeen(c) \in {"refused", "dropped"} /\ UNCHANGED depth
        <5>1. CASE Backoff(c)
          BY <3>3, <5>1 DEF Backoff, AtLabel, Goto, client, CallSeen, IInv, TypeOK
        <5>2. CASE Unlock(c) /\ op[c] = "release"
          <6>1. depth' = [depth EXCEPT ![c] = depth[c]] /\ depth \in [Context -> 0 .. MaxDepth]
            BY <5>2 DEF Unlock, IInv, TypeOK
          <6> QED BY <5>2, <6>1 DEF Unlock, AtLabel, Goto, CallSeen
        <5>3. CASE Unlock(c) /\ op[c] # "release"
          BY <5>3 DEF Unlock, AtLabel, Goto, CallSeen
        <5> QED BY <2>5, <5>1, <5>2, <5>3
      <4>2. CallSeen(c)' = "none"
        BY <4>1 DEF CallSeen, IInv, TypeOK
      <4>3. \A d \in Context \ {c} : CallSeen(d)' = CallSeen(d)
        BY <4>1 DEF CallSeen, IInv, TypeOK
      <4>4. seen' = [seen EXCEPT ![c] = "none"]
        BY <4>2, <4>3
      <4> QED BY <2>a, <3>1, <4>1, <4>4 DEF Lock!Return, Lock!Becomes
    <3> QED BY <3>2, <3>3
  <2>6. ASSUME NEW c \in Context, Xchg(c) \/ Spin(c) \/ Own(c) \/ Retry(c) \/ Check(c)
        PROVE  UNCHANGED Lock!vars
    <3>1. /\ pc[c] \in {"xchg", "spin", "own", "retry", "check"}
          /\ \E label \in {"test", "check", "spin", "xchg", "count", "uncount"} :
               pc' = [pc EXCEPT ![c] = label]
          /\ UNCHANGED <<op, acquires, depth>>
      BY <2>6 DEF Xchg, Spin, Own, Retry, Check, EnterSimpleMutex, AtLabel, Goto, mutex, client
    <3>2. holder' = holder
      BY <2>6 DEF Xchg, Spin, Own, Retry, Check, mutex, AtLabel, IInv, OwnerInv
    <3>3. \A d \in Context : CallSeen(d)' = CallSeen(d)
      BY <3>1 DEF CallSeen, IInv, TypeOK
    <3>4. seen' = seen
      BY <3>3
    <3> QED BY <3>1, <3>2, <3>4 DEF Lock!vars
  <2>7. CASE EnterKfunc \/ ReturnKfunc \/ Timer \/ UNCHANGED vars
    <3>1. UNCHANGED <<ownerThread, acquires, depth, pc, op>>
      BY <2>7 DEF EnterKfunc, ReturnKfunc, Timer, vars, client, mutex
    <3>2. seen' = seen
      BY <3>1 DEF CallSeen
    <3> QED BY <3>1, <3>2 DEF Lock!vars
  <2> QED BY <2>1, <2>2, <2>3, <2>4, <2>5, <2>6, <2>7 DEF Next, Proceed, Lock!Next
<1> QED BY <1>1, <1>2, IInvHolds, PTL DEF Spec, ImplementsLock, Lock!Spec

=============================================================================
