---------------------------- MODULE Threads_proofs ----------------------------
(***************************************************************************)
(* What Threads guarantees for every number of tids, every program and     *)
(* every interleaving with the timer: types, that the kfunc interface      *)
(* never sees a request it does not know, and that each thread runs as if  *)
(* it had a CPU of its own.                                                *)
(*                                                                         *)
(* A thread is in the slots of the CPU or in its struct Thread.  UserOf,   *)
(* KernelOf and InKernel say what its state is wherever it is, and the     *)
(* invariant speaks of that state, so that a switch has nothing to prove.  *)
(***************************************************************************)
EXTENDS Threads, RoundRobin_proofs

(* How far the call of t has come, and what its fields hold there.         *)
CallInv(t) ==
  LET k == KernelOf(t)
      r == taskMap[t]
  IN  /\ InKernel(t) <=> k.at # "park"
      /\ k.at = "entry" => UserOf(t).eax \in SyscallNr
      /\ k.at \in {"data", "kfunc", "trap", "result", "return", "reply"} =>
           k.call = UserOf(t).eax /\ k.call \in SyscallNr
      /\ k.at \in {"data", "kfunc", "trap", "result"} => k.call # Gettid /\ r.errno = 0
      /\ k.at \in {"kfunc", "trap"} => r.data = Request(k.call)
      /\ k.at = "trap" => r.kfunc = IF k.call = SchedYield THEN "NULL" ELSE "forkExec"

(* What the call of t will return, once that is known.                     *)
ResultInv(t) ==
  LET k == KernelOf(t)
      r == taskMap[t]
  IN  /\ k.at = "result" /\ k.call = Fork => r.data \in Tid \cup {-1}
      /\ k.at = "return" =>
           \/ k.call = Gettid /\ k.result = t /\ r.errno = 0
           \/ k.call = SchedYield /\ k.result = 0 /\ r.errno = 0
           \/ k.call = Fork /\ k.result \in Tid /\ r.errno = 0
           \/ k.call = Fork /\ k.result = -1 /\ r.errno = EAGAIN
      /\ k.at = "reply" =>
           \/ k.call = Gettid /\ k.result = t
           \/ k.call = SchedYield /\ k.result = 0
           \/ k.call = Fork /\ k.result \in Tid \cup {-EAGAIN}

IInv ==
  /\ TypeOK
  /\ bugCheck = 0
  /\ InitTid \in DOMAIN taskMap
  /\ \A t \in DOMAIN taskMap : CallInv(t) /\ ResultInv(t)

-----------------------------------------------------------------------------

LEMMA TidFacts == Tid \subseteq Nat \ {0} /\ InitTid \in Tid /\ Address \in Nat
BY PidAssumption DEF Tid, InitTid, Address

LEMMA NoReply ==
  ASSUME NEW k, NEW r, k.call # Fork \/ k.at \notin {"result", "return", "reply"}
  PROVE  Reply(k, r) = 0
BY DEF Reply

(* Threads_insertThread finds a tid no thread has, unless all are taken.   *)
LEMMA FirstFreeFacts ==
  /\ FirstFree # 0 => FirstFree \in Tid \ DOMAIN taskMap
  /\ FirstFree # 0 => FirstFree \in PidStart .. PidMax - 1
  /\ FirstFree = 0 => PidStart .. PidMax - 1 \subseteq DOMAIN taskMap
<1> DEFINE free == {n \in PidStart .. PidMax - 1 : n \notin DOMAIN taskMap}
           later == {n \in free : n >= nextTask}
<1>1. free \in SUBSET Nat /\ later \in SUBSET Nat /\ 0 \notin free
  BY PidAssumption
<1>2. CASE later # {}
  <2>1. FirstFree = Least(later)
    BY <1>2 DEF FirstFree
  <2>2. Least(later) \in later
    BY <1>1, <1>2, LeastOfNat
  <2> QED BY <1>1, <2>1, <2>2 DEF Tid
<1>3. CASE later = {} /\ free # {}
  <2>1. FirstFree = Least(free)
    BY <1>3 DEF FirstFree
  <2>2. Least(free) \in free
    BY <1>1, <1>3, LeastOfNat
  <2> QED BY <1>1, <2>1, <2>2 DEF Tid
<1>4. CASE free = {}
  BY <1>4 DEF FirstFree
<1> QED BY <1>2, <1>3, <1>4

(* All that the invariant and the refinement look at of a thread.          *)
Same(t) ==
  /\ UserOf(t)' = UserOf(t)
  /\ KernelOf(t)' = KernelOf(t)
  /\ InKernel(t)' = InKernel(t)
  /\ taskMap'[t].data = taskMap[t].data
  /\ taskMap'[t].kfunc = taskMap[t].kfunc
  /\ taskMap'[t].errno = taskMap[t].errno

LEMMA SameKeeps ==
  ASSUME NEW t, Same(t)
  PROVE  /\ CallInv(t) => CallInv(t)'
         /\ ResultInv(t) => ResultInv(t)'
         /\ ProcOf(t)' = ProcOf(t)
BY DEF Same, CallInv, ResultInv, ProcOf, Reply

(* A step of the current thread leaves every other thread the same.        *)
LEMMA OthersSame ==
  ASSUME UNCHANGED currentThread, NEW t, t # currentThread, taskMap'[t] = taskMap[t]
  PROVE  Same(t)
BY DEF Same, UserOf, KernelOf, InKernel

(* A switch moves threads between the slots and their structs and leaves   *)
(* them the same, but for where the interrupted kernel task resumes.       *)
LEMMA SwitchKeeps ==
  ASSUME TypeOK, NEW c, c = currentThread,
         NEW k \in KernelState, Switch(k), UNCHANGED <<nextTask, bugCheck>>
  PROVE  /\ TypeOK'
         /\ DOMAIN taskMap' = DOMAIN taskMap
         /\ \A t \in DOMAIN taskMap \ {c} : Same(t)
         /\ k = slotK => Same(c)
         /\ UserOf(c)' = UserOf(c) /\ KernelOf(c)' = k /\ InKernel(c)' = InKernel(c)
         /\ taskMap'[c].data = taskMap[c].data
         /\ taskMap'[c].kfunc = taskMap[c].kfunc
         /\ taskMap'[c].errno = taskMap[c].errno
<1> DEFINE next == NextThread(DOMAIN taskMap, c)
<1>1. next \in DOMAIN taskMap /\ c \in DOMAIN taskMap /\ taskMap[c] \in Thread
  <2>1. DOMAIN taskMap \in SUBSET Nat /\ c \in DOMAIN taskMap /\ c \in Nat
    BY TidFacts DEF TypeOK
  <2> QED BY <2>1, NextThreadInMap DEF TypeOK
<1>2. CASE next = c
  <2>1. slotK' = k /\ UNCHANGED <<taskMap, currentThread, slotU, busyK>>
    BY <1>2 DEF Switch
  <2>2. TypeOK'
    BY <2>1 DEF TypeOK
  <2>3. \A t \in DOMAIN taskMap \ {c} : Same(t)
    BY <2>1, OthersSame
  <2>4. UserOf(c)' = UserOf(c) /\ KernelOf(c)' = k /\ InKernel(c)' = InKernel(c)
    BY <2>1 DEF UserOf, KernelOf, InKernel
  <2>5. k = slotK => Same(c)
    BY <2>1, <2>4 DEF Same, KernelOf
  <2> QED BY <2>1, <2>2, <2>3, <2>4, <2>5
<1>3. CASE next # c
  <2>1. /\ taskMap' = [taskMap EXCEPT ![c] = Flushed(taskMap[c], k)]
        /\ slotU' = taskMap[next].tss /\ slotK' = taskMap[next].ktss
        /\ busyK' = taskMap[next].kernelExecution /\ currentThread' = next
    BY <1>3 DEF Switch
  <2>2. /\ Flushed(taskMap[c], k) \in Thread
        /\ Flushed(taskMap[c], k).tss = slotU
        /\ Flushed(taskMap[c], k).ktss = k
        /\ Flushed(taskMap[c], k).kernelExecution = busyK
        /\ Flushed(taskMap[c], k).data = taskMap[c].data
        /\ Flushed(taskMap[c], k).kfunc = taskMap[c].kfunc
        /\ Flushed(taskMap[c], k).errno = taskMap[c].errno
    BY <1>1 DEF Flushed, Thread, TypeOK
  <2>3. DOMAIN taskMap' = DOMAIN taskMap /\ taskMap'[c] = Flushed(taskMap[c], k)
        /\ \A t \in DOMAIN taskMap \ {c} : taskMap'[t] = taskMap[t]
    BY <1>1, <2>1
  <2>4. TypeOK'
    <3>1. taskMap[next] \in Thread
      BY <1>1 DEF TypeOK
    <3>2. slotU' \in UserState /\ slotK' \in KernelState /\ busyK' \in BOOLEAN
      BY <2>1, <3>1 DEF Thread
    <3>3. taskMap' \in [DOMAIN taskMap' -> Thread]
      BY <2>1, <2>2 DEF TypeOK
    <3> QED BY <1>1, <2>1, <2>3, <3>2, <3>3 DEF TypeOK
  <2>5. \A t \in DOMAIN taskMap \ {c} : Same(t)
    BY <1>1, <1>3, <2>1, <2>3 DEF Same, UserOf, KernelOf, InKernel
  <2>6. /\ UserOf(c)' = UserOf(c) /\ KernelOf(c)' = k /\ InKernel(c)' = InKernel(c)
        /\ taskMap'[c].data = taskMap[c].data
        /\ taskMap'[c].kfunc = taskMap[c].kfunc
        /\ taskMap'[c].errno = taskMap[c].errno
    BY <1>3, <2>1, <2>2, <2>3 DEF UserOf, KernelOf, InKernel
  <2>7. k = slotK => Same(c)
    BY <2>6 DEF Same, KernelOf
  <2> QED BY <2>3, <2>4, <2>5, <2>6, <2>7
<1> QED BY <1>2, <1>3

LEMMA InitIInv == Init => IInv
<1> SUFFICES ASSUME Init PROVE IInv
  OBVIOUS
<1>1. /\ DOMAIN taskMap = {InitTid} /\ InitTid \in Tid
      /\ slotU \in UserState /\ slotK \in KernelState
  <2>1. 0 \in 0 .. PosMod - 1
    BY PidAssumption
  <2>2. slotU \in UserState
    BY <2>1 DEF Init, UserState, Value
  <2>3. slotK \in KernelState
    BY DEF Init, KernelState, Parked, Place, Value
  <2> QED BY <2>2, <2>3, TidFacts DEF Init
<1>2. taskMap \in [{InitTid} -> Thread]
  <2>1. taskMap = [t \in {InitTid} |->
                     [tss |-> slotU, ktss |-> slotK, kernelExecution |-> FALSE,
                      kfunc |-> "NULL", data |-> 0, errno |-> 0]]
    BY DEF Init
  <2>2. 0 \in Value
    BY DEF Value
  <2> QED BY <1>1, <2>1, <2>2 DEF Thread
<1>3. TypeOK
  <2>1. PidStart \in PidStart .. PidMax - 1
    BY PidAssumption
  <2>2. taskMap \in [DOMAIN taskMap -> Thread]
    BY <1>1, <1>2
  <2> QED BY <1>1, <2>1, <2>2 DEF Init, TypeOK
<1>4. CallInv(InitTid) /\ ResultInv(InitTid)
  BY <1>1 DEF Init, CallInv, ResultInv, UserOf, KernelOf, InKernel, Parked
<1> QED BY <1>1, <1>3, <1>4 DEF Init, IInv

(* What is common to the steps that only touch the current thread.         *)
Local(c) ==
  /\ UNCHANGED <<nextTask, currentThread, bugCheck>>
  /\ taskMap' = [taskMap EXCEPT ![c] = taskMap'[c]]

LEMMA LocalStep ==
  ASSUME IInv, NEW c, c = currentThread, Local(c),
         slotU' \in UserState, slotK' \in KernelState, busyK' \in BOOLEAN,
         taskMap'[c] \in Thread, CallInv(c)', ResultInv(c)'
  PROVE  /\ IInv'
         /\ DOMAIN taskMap' = DOMAIN taskMap
         /\ \A t \in DOMAIN taskMap \ {c} : ProcOf(t)' = ProcOf(t)
<1>1. /\ c \in DOMAIN taskMap /\ c = currentThread' /\ DOMAIN taskMap' = DOMAIN taskMap
      /\ \A t \in DOMAIN taskMap \ {c} : taskMap'[t] = taskMap[t]
  BY DEF IInv, TypeOK, Local
<1>2. \A t \in DOMAIN taskMap \ {c} : CallInv(t)' /\ ResultInv(t)' /\ ProcOf(t)' = ProcOf(t)
  BY <1>1, OthersSame, SameKeeps DEF IInv, Local
<1>3. taskMap' \in [DOMAIN taskMap' -> Thread]
  BY <1>1 DEF IInv, TypeOK, Local
<1>4. TypeOK'
  BY <1>1, <1>3 DEF IInv, TypeOK, Local
<1> QED BY <1>1, <1>2, <1>4 DEF IInv, Local

(* The state of the current thread, for the lemmas on its steps.           *)
LEMMA CurrentFacts ==
  ASSUME IInv, NEW c, c = currentThread
  PROVE  /\ c \in DOMAIN taskMap /\ c \in Tid
         /\ UserOf(c) = slotU /\ KernelOf(c) = slotK /\ InKernel(c) = busyK
         /\ slotU \in UserState /\ slotK \in KernelState /\ busyK \in BOOLEAN
         /\ taskMap = [t \in DOMAIN taskMap |-> taskMap[t]] /\ taskMap[c] \in Thread
         /\ CallInv(c) /\ ResultInv(c)
BY DEF IInv, TypeOK, UserOf, KernelOf, InKernel

(* A step of a program is its own, ...                                     *)
LEMMA UserStepKeeps ==
  ASSUME IInv, NEW c, c = currentThread, UserStep
  PROVE  IInv' /\ P!Next
<1>1. /\ ~ busyK /\ slotU' = [slotU EXCEPT !.pos = (slotU.pos + 1) % PosMod]
      /\ UNCHANGED <<taskMap, nextTask, currentThread, slotK, busyK, bugCheck>>
  BY DEF UserStep, UserMode
<1>2. /\ slotU' \in UserState /\ slotU'.eax = slotU.eax
      /\ slotU'.pos = (slotU.pos + 1) % PosMod
  BY <1>1, CurrentFacts, PidAssumption DEF UserState
<1>3. UserOf(c)' = slotU' /\ KernelOf(c)' = slotK /\ InKernel(c)' = busyK
  BY <1>1 DEF UserOf, KernelOf, InKernel
<1>4. CallInv(c)' /\ ResultInv(c)'
  BY <1>1, <1>2, <1>3, CurrentFacts DEF CallInv, ResultInv
<1>5. IInv' /\ DOMAIN taskMap' = DOMAIN taskMap
      /\ \A t \in DOMAIN taskMap \ {c} : ProcOf(t)' = ProcOf(t)
  BY <1>1, <1>2, <1>4, LocalStep, CurrentFacts DEF Local
<1>6. ProcOf(c)' = [ProcOf(c) EXCEPT !.pos = (ProcOf(c).pos + 1) % PosMod]
  BY <1>1, <1>2, <1>3, CurrentFacts DEF ProcOf, Calling, Reply
<1>7. procOf' = [procOf EXCEPT ![c] = [procOf[c] EXCEPT !.pos = (procOf[c].pos + 1) % PosMod]]
  BY <1>1, <1>5, <1>6, CurrentFacts DEF procOf
<1>8. ~ procOf[c].calling
  BY <1>1, CurrentFacts DEF procOf, ProcOf, Calling, CallInv
<1> QED BY <1>5, <1>7, <1>8, CurrentFacts DEF P!Next, P!Run, procOf

(* ... a system call starts with its number in %eax, ...                   *)
LEMMA Int80Keeps ==
  ASSUME IInv, NEW c, c = currentThread, NEW nr \in Calls, Int80(nr)
  PROVE  IInv' /\ P!Next
<1>1. /\ ~ busyK /\ nr \in SyscallNr /\ nr \in Value
      /\ slotU' = [slotU EXCEPT !.eax = nr] /\ slotK' = [slotK EXCEPT !.at = "entry"]
      /\ busyK' = TRUE
      /\ UNCHANGED <<taskMap, nextTask, currentThread, bugCheck>>
  BY CallsAssumption DEF Int80, UserMode, Value
<1>2. /\ slotU' \in UserState /\ slotU'.eax = nr /\ slotU'.pos = slotU.pos
      /\ slotK' \in KernelState /\ slotK'.at = "entry"
  BY <1>1, CurrentFacts DEF UserState, KernelState, Place
<1>3. UserOf(c)' = slotU' /\ KernelOf(c)' = slotK' /\ InKernel(c)' = busyK'
  BY <1>1 DEF UserOf, KernelOf, InKernel
<1>4. CallInv(c)' /\ ResultInv(c)'
  BY <1>1, <1>2, <1>3, CurrentFacts DEF CallInv, ResultInv
<1>5. IInv' /\ DOMAIN taskMap' = DOMAIN taskMap
      /\ \A t \in DOMAIN taskMap \ {c} : ProcOf(t)' = ProcOf(t)
  BY <1>1, <1>2, <1>4, LocalStep, CurrentFacts DEF Local
<1>6. /\ ProcOf(c).calling = FALSE /\ ProcOf(c).pos = slotU.pos
      /\ ProcOf(c)' = [pos |-> slotU.pos, eax |-> nr, calling |-> TRUE, reply |-> 0]
  <2>1. Calling(slotK) = FALSE /\ Calling(slotK') = TRUE
    BY <1>1, <1>2, CurrentFacts DEF Calling, CallInv
  <2>2. Reply(slotK', taskMap'[c]) = 0
    BY <1>2, NoReply
  <2> QED BY <1>2, <1>3, <2>1, <2>2, CurrentFacts DEF ProcOf
<1>7. procOf' = [procOf EXCEPT ![c] =
                   [pos |-> procOf[c].pos, eax |-> nr, calling |-> TRUE, reply |-> 0]]
  BY <1>5, <1>6, CurrentFacts DEF procOf
<1>8. ~ procOf[c].calling /\ c \in DOMAIN procOf
  BY <1>6, CurrentFacts DEF procOf
<1>9. P!Invoke(c, nr)
  BY <1>7, <1>8 DEF P!Invoke, P!Caller
<1> QED BY <1>1, <1>5, <1>8, <1>9 DEF P!Next, P!SyscallNr, P!Fork, P!SchedYield, P!Gettid,
        SyscallNr, Fork, SchedYield, Gettid

(* ... and the steps of the kernel that lead to the kfunc, or back from it *)
(* to the user task, change nothing that a program can see.                *)
Invisible == procOf' = procOf

LEMMA LocalInvisible ==
  ASSUME NEW c \in DOMAIN taskMap, DOMAIN taskMap' = DOMAIN taskMap,
         ProcOf(c)' = ProcOf(c), \A t \in DOMAIN taskMap \ {c} : ProcOf(t)' = ProcOf(t)
  PROVE  Invisible
BY DEF Invisible, procOf

LEMMA DispatchKeeps ==
  ASSUME IInv, NEW c, c = currentThread, Dispatch
  PROVE  IInv' /\ Invisible
<1>1. /\ busyK /\ slotK.at = "entry" /\ slotU.eax \in SyscallNr
      /\ slotK' = IF slotU.eax = Gettid
                  THEN [at |-> "return", call |-> slotU.eax, result |-> c]
                  ELSE [at |-> "data", call |-> slotU.eax, result |-> 0]
      /\ taskMap' = [taskMap EXCEPT ![c] = [taskMap[c] EXCEPT !.errno = 0]]
      /\ UNCHANGED <<nextTask, currentThread, slotU, busyK, bugCheck>>
  BY CurrentFacts DEF Dispatch, KernelAt, CallInv
<1>2. /\ slotK' \in KernelState /\ slotK'.call = slotU.eax
      /\ \/ slotK'.at = "return" /\ slotU.eax = Gettid /\ slotK'.result = c
         \/ slotK'.at = "data" /\ slotU.eax # Gettid
  BY <1>1, CurrentFacts DEF KernelState, Place, Value
<1>3. taskMap'[c] \in Thread /\ taskMap'[c].errno = 0 /\ Local(c)
  BY <1>1, CurrentFacts DEF Thread, Local
<1>4. UserOf(c)' = slotU /\ KernelOf(c)' = slotK' /\ InKernel(c)' = busyK
  BY <1>1 DEF UserOf, KernelOf, InKernel
<1>5. CallInv(c)' /\ ResultInv(c)'
  BY <1>1, <1>2, <1>3, <1>4 DEF CallInv, ResultInv
<1>6. IInv' /\ DOMAIN taskMap' = DOMAIN taskMap
      /\ \A t \in DOMAIN taskMap \ {c} : ProcOf(t)' = ProcOf(t)
  BY <1>1, <1>2, <1>3, <1>5, LocalStep, CurrentFacts
<1>7. ProcOf(c)' = ProcOf(c)
  <2>1. Calling(slotK) = TRUE /\ Calling(slotK') = TRUE
    BY <1>1, <1>2 DEF Calling
  <2>2. Reply(slotK, taskMap[c]) = 0 /\ Reply(slotK', taskMap'[c]) = 0
    BY <1>1, <1>2, NoReply DEF Fork, Gettid
  <2> QED BY <1>1, <1>4, <2>1, <2>2, CurrentFacts DEF ProcOf
<1> QED BY <1>6, <1>7, CurrentFacts, LocalInvisible

LEMMA StoreDataKeeps ==
  ASSUME IInv, NEW c, c = currentThread, StoreData
  PROVE  IInv' /\ Invisible
<1>1. /\ busyK /\ slotK.at = "data" /\ Request(slotK.call) \in Value
      /\ slotK' = [slotK EXCEPT !.at = "kfunc"]
      /\ taskMap' = [taskMap EXCEPT ![c] = [taskMap[c] EXCEPT !.data = Request(slotK.call)]]
      /\ UNCHANGED <<nextTask, currentThread, slotU, busyK, bugCheck>>
  BY DEF StoreData, KernelAt, Request, Value
<1>2. /\ slotK' \in KernelState /\ slotK'.at = "kfunc" /\ slotK'.call = slotK.call
  BY <1>1, CurrentFacts DEF KernelState, Place
<1>3. /\ taskMap'[c] \in Thread /\ Local(c)
      /\ taskMap'[c].data = Request(slotK.call) /\ taskMap'[c].errno = taskMap[c].errno
  BY <1>1, CurrentFacts DEF Thread, Local
<1>4. UserOf(c)' = slotU /\ KernelOf(c)' = slotK' /\ InKernel(c)' = busyK
  BY <1>1 DEF UserOf, KernelOf, InKernel
<1>5. CallInv(c)' /\ ResultInv(c)'
  <2>1. taskMap'[c].errno = 0 /\ taskMap'[c].data = Request(slotK'.call)
    BY <1>1, <1>2, <1>3, CurrentFacts DEF CallInv
  <2>2. slotK'.call = slotU.eax /\ slotU.eax \in SyscallNr /\ slotU.eax # Gettid
    BY <1>1, <1>2, CurrentFacts DEF CallInv
  <2>3. CallInv(c)'
    BY <1>1, <1>2, <1>4, <2>1, <2>2 DEF CallInv
  <2>4. ResultInv(c)'
    BY <1>2, <1>4 DEF ResultInv
  <2> QED BY <2>3, <2>4
<1>6. IInv' /\ DOMAIN taskMap' = DOMAIN taskMap
      /\ \A t \in DOMAIN taskMap \ {c} : ProcOf(t)' = ProcOf(t)
  BY <1>1, <1>2, <1>3, <1>5, LocalStep, CurrentFacts
<1>7. ProcOf(c)' = ProcOf(c)
  <2>1. Calling(slotK) = TRUE /\ Calling(slotK') = TRUE
    BY <1>1, <1>2 DEF Calling
  <2>2. Reply(slotK, taskMap[c]) = 0 /\ Reply(slotK', taskMap'[c]) = 0
    BY <1>1, <1>2, NoReply
  <2> QED BY <1>1, <1>4, <2>1, <2>2, CurrentFacts DEF ProcOf
<1> QED BY <1>6, <1>7, CurrentFacts, LocalInvisible

LEMMA StoreKfuncKeeps ==
  ASSUME IInv, NEW c, c = currentThread, StoreKfunc
  PROVE  IInv' /\ Invisible
<1> DEFINE f == IF slotK.call = SchedYield THEN "NULL" ELSE "forkExec"
<1>1. /\ busyK /\ slotK.at = "kfunc"
      /\ slotK' = [slotK EXCEPT !.at = "trap"]
      /\ taskMap' = [taskMap EXCEPT ![c] = [taskMap[c] EXCEPT !.kfunc = f]]
      /\ UNCHANGED <<nextTask, currentThread, slotU, busyK, bugCheck>>
  BY DEF StoreKfunc, KernelAt
<1>2. /\ slotK' \in KernelState /\ slotK'.at = "trap" /\ slotK'.call = slotK.call
  BY <1>1, CurrentFacts DEF KernelState, Place
<1>3. /\ taskMap'[c] \in Thread /\ Local(c)
      /\ taskMap'[c].kfunc = f /\ taskMap'[c].data = taskMap[c].data
      /\ taskMap'[c].errno = taskMap[c].errno
  BY <1>1, CurrentFacts DEF Thread, Local
<1>4. UserOf(c)' = slotU /\ KernelOf(c)' = slotK' /\ InKernel(c)' = busyK
  BY <1>1 DEF UserOf, KernelOf, InKernel
<1>5. CallInv(c)' /\ ResultInv(c)'
  <2>1. taskMap'[c].kfunc = IF slotK'.call = SchedYield THEN "NULL" ELSE "forkExec"
    BY <1>2, <1>3
  <2>2. taskMap'[c].errno = 0 /\ taskMap'[c].data = Request(slotK'.call)
    <3>1. CallInv(c) /\ KernelOf(c) = slotK
      BY CurrentFacts
    <3>2. taskMap[c].errno = 0 /\ taskMap[c].data = Request(slotK.call)
      BY <1>1, <3>1 DEF CallInv
    <3> QED BY <1>2, <1>3, <3>2
  <2>3. slotK'.call = slotU.eax /\ slotU.eax \in SyscallNr /\ slotU.eax # Gettid
    <3>1. CallInv(c) /\ UserOf(c) = slotU /\ KernelOf(c) = slotK
      BY CurrentFacts
    <3>2. slotK.call = slotU.eax /\ slotK.call \in SyscallNr /\ slotK.call # Gettid
      BY <1>1, <3>1 DEF CallInv
    <3> QED BY <1>2, <3>2
  <2>4. CallInv(c)'
    BY <1>1, <1>2, <1>4, <2>1, <2>2, <2>3 DEF CallInv
  <2>5. ResultInv(c)'
    BY <1>2, <1>4 DEF ResultInv
  <2> QED BY <2>4, <2>5
<1>6. IInv' /\ DOMAIN taskMap' = DOMAIN taskMap
      /\ \A t \in DOMAIN taskMap \ {c} : ProcOf(t)' = ProcOf(t)
  BY <1>1, <1>2, <1>3, <1>5, LocalStep, CurrentFacts
<1>7. ProcOf(c)' = ProcOf(c)
  <2>1. Calling(slotK) = TRUE /\ Calling(slotK') = TRUE
    BY <1>1, <1>2 DEF Calling
  <2>2. Reply(slotK, taskMap[c]) = 0 /\ Reply(slotK', taskMap'[c]) = 0
    BY <1>1, <1>2, NoReply
  <2> QED BY <1>1, <1>4, <2>1, <2>2, CurrentFacts DEF ProcOf
<1> QED BY <1>6, <1>7, CurrentFacts, LocalInvisible

LEMMA CollectKeeps ==
  ASSUME IInv, NEW c, c = currentThread, Collect
  PROVE  IInv' /\ Invisible
<1> DEFINE v == IF slotK.call = SchedYield THEN 0 ELSE taskMap[c].data
           e == IF slotK.call = Fork /\ v = -1 THEN EAGAIN ELSE taskMap[c].errno
<1>1. /\ busyK /\ slotK.at = "result"
      /\ slotK' = [slotK EXCEPT !.at = "return", !.result = v]
      /\ taskMap' = [taskMap EXCEPT ![c] = [taskMap[c] EXCEPT !.errno = e]]
      /\ UNCHANGED <<nextTask, currentThread, slotU, busyK, bugCheck>>
  BY DEF Collect, KernelAt
<1>2. /\ slotK.call = slotU.eax /\ slotK.call \in {Fork, SchedYield}
      /\ slotK.call = Fork => taskMap[c].data \in Tid \cup {-1}
      /\ taskMap[c].errno = 0 /\ taskMap[c].data \in Value
  BY <1>1, CurrentFacts DEF CallInv, ResultInv, SyscallNr, Thread
<1>3. /\ slotK' \in KernelState /\ slotK'.at = "return" /\ slotK'.call = slotK.call
      /\ slotK'.result = v
  BY <1>1, <1>2, CurrentFacts, ZenonT(40) DEF KernelState, Place, Value
<1>4. /\ taskMap'[c] \in Thread /\ taskMap'[c].errno = e /\ Local(c)
  BY <1>1, <1>2, CurrentFacts, ZenonT(40) DEF Thread, Local
<1>5. UserOf(c)' = slotU /\ KernelOf(c)' = slotK' /\ InKernel(c)' = busyK
  BY <1>1 DEF UserOf, KernelOf, InKernel
<1>6. \/ slotK.call = SchedYield /\ v = 0 /\ e = 0
      \/ slotK.call = Fork /\ v = taskMap[c].data /\ v \in Tid /\ v # -1 /\ e = 0
      \/ slotK.call = Fork /\ v = taskMap[c].data /\ v = -1 /\ e = EAGAIN
  BY <1>2, TidFacts DEF Fork, SchedYield
<1>7. CallInv(c)'
  BY <1>1, <1>2, <1>3, <1>5, CurrentFacts DEF CallInv
<1>8. ResultInv(c)'
  BY <1>3, <1>4, <1>5, <1>6 DEF ResultInv
<1>9. IInv' /\ DOMAIN taskMap' = DOMAIN taskMap
      /\ \A t \in DOMAIN taskMap \ {c} : ProcOf(t)' = ProcOf(t)
  BY <1>1, <1>3, <1>4, <1>7, <1>8, LocalStep, CurrentFacts
<1>10. ProcOf(c)' = ProcOf(c)
  <2>1. Calling(slotK) = TRUE /\ Calling(slotK') = TRUE
    BY <1>1, <1>3 DEF Calling
  <2>2. Reply(slotK', taskMap'[c]) = Reply(slotK, taskMap[c])
    BY <1>1, <1>3, <1>4, <1>6 DEF Reply, Fork, SchedYield, EAGAIN
  <2> QED BY <1>1, <1>5, <2>1, <2>2, CurrentFacts DEF ProcOf
<1> QED BY <1>9, <1>10, CurrentFacts, LocalInvisible

LEMMA TestErrnoKeeps ==
  ASSUME IInv, NEW c, c = currentThread, TestErrno
  PROVE  IInv' /\ Invisible
<1> DEFINE v == IF taskMap[c].errno = 0 THEN slotK.result ELSE -taskMap[c].errno
<1>1. /\ busyK /\ slotK.at = "return"
      /\ slotK' = [slotK EXCEPT !.at = "reply", !.result = v]
      /\ UNCHANGED <<taskMap, nextTask, currentThread, slotU, busyK, bugCheck>>
  BY DEF TestErrno, KernelAt
<1>2. \/ slotK.call = Gettid /\ v = c
      \/ slotK.call = SchedYield /\ v = 0
      \/ slotK.call = Fork /\ v \in Tid \cup {-EAGAIN}
  <2>1. LET e == taskMap[c].errno
        IN  \/ slotK.call = Gettid /\ slotK.result = c /\ e = 0
            \/ slotK.call = SchedYield /\ slotK.result = 0 /\ e = 0
            \/ slotK.call = Fork /\ slotK.result \in Tid /\ e = 0
            \/ slotK.call = Fork /\ slotK.result = -1 /\ e = EAGAIN
    BY <1>1, CurrentFacts DEF ResultInv
  <2>2. EAGAIN # 0
    BY DEF EAGAIN
  <2> QED BY <2>1, <2>2
<1>3. /\ slotK' \in KernelState /\ slotK'.at = "reply" /\ slotK'.call = slotK.call
      /\ slotK'.result = v /\ slotK.call = slotU.eax
  BY <1>1, <1>2, CurrentFacts DEF KernelState, Place, Value, CallInv
<1>4. UserOf(c)' = slotU /\ KernelOf(c)' = slotK' /\ InKernel(c)' = busyK /\ Local(c)
  BY <1>1, CurrentFacts DEF UserOf, KernelOf, InKernel, Local
<1>5. CallInv(c)' /\ ResultInv(c)'
  BY <1>1, <1>2, <1>3, <1>4, CurrentFacts DEF CallInv, ResultInv
<1>6. IInv' /\ DOMAIN taskMap' = DOMAIN taskMap
      /\ \A t \in DOMAIN taskMap \ {c} : ProcOf(t)' = ProcOf(t)
  BY <1>1, <1>3, <1>4, <1>5, LocalStep, CurrentFacts
<1>7. ProcOf(c)' = ProcOf(c)
  <2>1. Calling(slotK) = TRUE /\ Calling(slotK') = TRUE
    BY <1>1, <1>3 DEF Calling
  <2>2. Reply(slotK', taskMap'[c]) = Reply(slotK, taskMap[c])
    BY <1>1, <1>3 DEF Reply
  <2> QED BY <1>1, <1>4, <2>1, <2>2, CurrentFacts DEF ProcOf
<1> QED BY <1>6, <1>7, CurrentFacts, LocalInvisible

(* Writing %eax of the user task is the return of the call, ...            *)
LEMMA WriteEaxKeeps ==
  ASSUME IInv, NEW c, c = currentThread, WriteEax
  PROVE  IInv' /\ P!Next
<1>1. /\ busyK /\ slotK.at = "reply"
      /\ slotU' = [slotU EXCEPT !.eax = slotK.result] /\ slotK' = [slotK EXCEPT !.at = "iret"]
      /\ UNCHANGED <<taskMap, nextTask, currentThread, busyK, bugCheck>>
  BY DEF WriteEax, KernelAt
<1>2. /\ slotU' \in UserState /\ slotU'.eax = slotK.result /\ slotU'.pos = slotU.pos
      /\ slotK' \in KernelState /\ slotK'.at = "iret"
  BY <1>1, CurrentFacts DEF UserState, KernelState, Place
<1>3. UserOf(c)' = slotU' /\ KernelOf(c)' = slotK' /\ InKernel(c)' = busyK /\ Local(c)
  BY <1>1, CurrentFacts DEF UserOf, KernelOf, InKernel, Local
<1>4. CallInv(c)' /\ ResultInv(c)'
  BY <1>1, <1>2, <1>3, CurrentFacts DEF CallInv, ResultInv
<1>5. IInv' /\ DOMAIN taskMap' = DOMAIN taskMap
      /\ \A t \in DOMAIN taskMap \ {c} : ProcOf(t)' = ProcOf(t)
  BY <1>1, <1>2, <1>3, <1>4, LocalStep, CurrentFacts
<1>6. /\ ProcOf(c) = [pos |-> slotU.pos, eax |-> slotK.call, calling |-> TRUE,
                      reply |-> IF slotK.call = Fork THEN slotK.result ELSE 0]
      /\ ProcOf(c)' = [pos |-> slotU.pos, eax |-> slotK.result, calling |-> FALSE, reply |-> 0]
  <2>1. Calling(slotK) = TRUE /\ Calling(slotK') = FALSE
    BY <1>1, <1>2 DEF Calling
  <2>2. /\ Reply(slotK, taskMap[c]) = IF slotK.call = Fork THEN slotK.result ELSE 0
        /\ Reply(slotK', taskMap'[c]) = 0
    BY <1>1, <1>2 DEF Reply
  <2>3. slotK.call = slotU.eax
    BY <1>1, CurrentFacts DEF CallInv
  <2> QED BY <1>2, <1>3, <2>1, <2>2, <2>3, CurrentFacts DEF ProcOf
<1>7. procOf' = [procOf EXCEPT ![c] =
                   [pos |-> procOf[c].pos, eax |-> slotK.result, calling |-> FALSE, reply |-> 0]]
  <2>1. ProcOf(c).pos = slotU.pos
    BY <1>6
  <2> QED BY <1>5, <1>6, <2>1, CurrentFacts DEF procOf
<1>8. c \in DOMAIN procOf /\ procOf[c] = ProcOf(c)
  BY CurrentFacts DEF procOf
<1>9. P!Result(c) = slotK.result /\ (procOf[c].eax = Fork => procOf[c].reply # 0)
  <2>1. \/ slotK.call = Gettid /\ slotK.result = c
        \/ slotK.call = SchedYield /\ slotK.result = 0
        \/ slotK.call = Fork /\ slotK.result # 0
    <3>1. \A v \in Tid \cup {-EAGAIN} : v # 0
      BY TidFacts DEF EAGAIN
    <3> QED BY <1>1, <3>1, CurrentFacts DEF ResultInv
  <2> QED BY <1>6, <1>8, <2>1 DEF P!Result, P!Gettid, P!SchedYield, Gettid, SchedYield, Fork
<1>10. P!Finish(c)
  BY <1>6, <1>7, <1>8, <1>9 DEF P!Finish, P!NewProc, P!Fork, Fork
<1> QED BY <1>5, <1>8, <1>10 DEF P!Next

(* ... and the return to the user task is not seen any more.               *)
LEMMA IretKeeps ==
  ASSUME IInv, NEW c, c = currentThread, Iret
  PROVE  IInv' /\ Invisible
<1>1. /\ slotK.at = "iret" /\ slotK' = Parked /\ busyK' = FALSE
      /\ UNCHANGED <<taskMap, nextTask, currentThread, slotU, bugCheck>>
  BY DEF Iret, KernelAt
<1>2. slotK' \in KernelState /\ slotK'.at = "park"
  BY <1>1 DEF KernelState, Place, Parked, Value
<1>3. UserOf(c)' = slotU /\ KernelOf(c)' = slotK' /\ InKernel(c)' = FALSE /\ Local(c)
  BY <1>1, CurrentFacts DEF UserOf, KernelOf, InKernel, Local
<1>4. CallInv(c)' /\ ResultInv(c)'
  BY <1>1, <1>2, <1>3 DEF CallInv, ResultInv
<1>5. IInv' /\ DOMAIN taskMap' = DOMAIN taskMap
      /\ \A t \in DOMAIN taskMap \ {c} : ProcOf(t)' = ProcOf(t)
  BY <1>1, <1>2, <1>3, <1>4, LocalStep, CurrentFacts
<1>6. ProcOf(c)' = ProcOf(c)
  <2>1. Calling(slotK) = FALSE /\ Calling(slotK') = FALSE
    BY <1>1, <1>2 DEF Calling
  <2>2. Reply(slotK, taskMap[c]) = 0 /\ Reply(slotK', taskMap'[c]) = 0
    BY <1>1, <1>2, NoReply
  <2> QED BY <1>1, <1>3, <2>1, <2>2, CurrentFacts DEF ProcOf
<1> QED BY <1>5, <1>6, CurrentFacts, LocalInvisible

-----------------------------------------------------------------------------
(* The handlers that run with interrupts off.                              *)

LEMMA TimerKeeps ==
  ASSUME IInv, Timer
  PROVE  IInv' /\ Invisible
<1>1. PICK c : c = currentThread
  OBVIOUS
<1>2. /\ TypeOK' /\ DOMAIN taskMap' = DOMAIN taskMap
      /\ \A t \in DOMAIN taskMap \ {c} : Same(t)
      /\ Same(c)
  <2>1. slotK \in KernelState /\ Switch(slotK) /\ UNCHANGED <<nextTask, bugCheck>> /\ TypeOK
    BY DEF Timer, IInv, TypeOK
  <2> QED BY <1>1, <2>1, SwitchKeeps
<1>3. \A t \in DOMAIN taskMap : CallInv(t)' /\ ResultInv(t)' /\ ProcOf(t)' = ProcOf(t)
  BY <1>2, SameKeeps DEF IInv
<1>4. Invisible
  BY <1>2, <1>3 DEF Invisible, procOf
<1> QED BY <1>2, <1>3, <1>4 DEF IInv, Timer

(* A thread that yields asked to, and is switched like any other.          *)
LEMMA KfuncNullKeeps ==
  ASSUME IInv, NEW c, c = currentThread, KfuncNull
  PROVE  IInv' /\ Invisible
<1>1. /\ busyK /\ slotK.at = "trap" /\ taskMap[c].kfunc = "NULL"
      /\ slotK.call = SchedYield /\ slotK.call = slotU.eax
      /\ taskMap[c].data = 1 /\ taskMap[c].errno = 0
  BY CurrentFacts DEF KfuncNull, KernelAt, CallInv, Request
<1>2. /\ Switch(AfterTrap) /\ UNCHANGED <<nextTask, bugCheck>>
      /\ AfterTrap \in KernelState /\ AfterTrap.at = "result" /\ AfterTrap.call = slotK.call
  BY <1>1, CurrentFacts DEF KfuncNull, AfterTrap, KernelState, Place
<1>3. PICK k : k = AfterTrap
  OBVIOUS
<1>4. /\ TypeOK' /\ DOMAIN taskMap' = DOMAIN taskMap
      /\ \A t \in DOMAIN taskMap \ {c} : Same(t)
      /\ UserOf(c)' = UserOf(c) /\ KernelOf(c)' = k /\ InKernel(c)' = InKernel(c)
      /\ taskMap'[c].errno = taskMap[c].errno
  BY <1>2, <1>3, SwitchKeeps DEF IInv
<1>5. /\ UserOf(c)' = slotU /\ InKernel(c)' = busyK
      /\ k.at = "result" /\ k.call = SchedYield /\ k.call = slotU.eax
  BY <1>1, <1>2, <1>3, <1>4, CurrentFacts
<1>6. CallInv(c)' /\ ResultInv(c)'
  BY <1>1, <1>4, <1>5 DEF CallInv, ResultInv, SyscallNr, SchedYield, Gettid, Fork
<1>7. ProcOf(c)' = ProcOf(c)
  <2>1. Calling(slotK) = TRUE /\ Calling(k) = TRUE
    BY <1>1, <1>5 DEF Calling
  <2>2. Reply(slotK, taskMap[c]) = 0 /\ Reply(k, taskMap'[c]) = 0
    BY <1>1, <1>5, NoReply DEF SchedYield, Fork
  <2> QED BY <1>4, <1>5, <2>1, <2>2, CurrentFacts DEF ProcOf
<1>8. \A t \in DOMAIN taskMap : CallInv(t)' /\ ResultInv(t)' /\ ProcOf(t)' = ProcOf(t)
  BY <1>4, <1>6, <1>7, SameKeeps DEF IInv
<1>9. Invisible
  BY <1>4, <1>8 DEF Invisible, procOf
<1> QED BY <1>2, <1>4, <1>8, <1>9 DEF IInv

(* A fork that finds no tid: every tid has a thread.                       *)
LEMMA ForkFailsKeeps ==
  ASSUME IInv, NEW c, c = currentThread, KfuncForkExec, FirstFree = 0
  PROVE  IInv' /\ P!Next
<1>1. /\ busyK /\ slotK.at = "trap" /\ slotK.call = Fork /\ slotK.call = slotU.eax
      /\ taskMap[c].errno = 0
  BY CurrentFacts DEF KfuncForkExec, KernelAt, CallInv, SyscallNr
<1>2. /\ taskMap' = [taskMap EXCEPT ![c] = [taskMap[c] EXCEPT !.data = -1]]
      /\ slotK' = [slotK EXCEPT !.at = "result"]
      /\ UNCHANGED <<nextTask, currentThread, slotU, busyK, bugCheck>>
  BY DEF KfuncForkExec, AfterTrap
<1>3. /\ slotK' \in KernelState /\ slotK'.at = "result" /\ slotK'.call = slotK.call
      /\ taskMap'[c] \in Thread /\ taskMap'[c].data = -1 /\ taskMap'[c].errno = 0 /\ Local(c)
  <2>1. slotK' \in KernelState /\ slotK'.at = "result" /\ slotK'.call = slotK.call
    BY <1>2, CurrentFacts DEF KernelState, Place
  <2>2. taskMap'[c] = [taskMap[c] EXCEPT !.data = -1] /\ Local(c)
    BY <1>2, CurrentFacts DEF Local
  <2>3. -1 \in Value
    BY DEF Value
  <2> QED BY <1>1, <2>1, <2>2, <2>3, CurrentFacts DEF Thread
<1>4. UserOf(c)' = slotU /\ KernelOf(c)' = slotK' /\ InKernel(c)' = busyK
  BY <1>2 DEF UserOf, KernelOf, InKernel
<1>5. CallInv(c)' /\ ResultInv(c)'
  BY <1>1, <1>3, <1>4 DEF CallInv, ResultInv, SyscallNr, Fork, Gettid
<1>6. IInv' /\ DOMAIN taskMap' = DOMAIN taskMap
      /\ \A t \in DOMAIN taskMap \ {c} : ProcOf(t)' = ProcOf(t)
  BY <1>2, <1>3, <1>5, LocalStep, CurrentFacts
<1>7. /\ ProcOf(c) = [pos |-> slotU.pos, eax |-> Fork, calling |-> TRUE, reply |-> 0]
      /\ ProcOf(c)' = [pos |-> slotU.pos, eax |-> Fork, calling |-> TRUE, reply |-> -EAGAIN]
  <2>1. Calling(slotK) = TRUE /\ Calling(slotK') = TRUE
    BY <1>1, <1>3 DEF Calling
  <2>2. Reply(slotK, taskMap[c]) = 0 /\ Reply(slotK', taskMap'[c]) = -EAGAIN
    BY <1>1, <1>3 DEF Reply
  <2> QED BY <1>1, <1>4, <2>1, <2>2, CurrentFacts DEF ProcOf
<1>8. procOf' = [procOf EXCEPT ![c] =
                   [pos |-> procOf[c].pos, eax |-> Fork, calling |-> TRUE, reply |-> -EAGAIN]]
  <2>1. ProcOf(c).pos = slotU.pos
    BY <1>7
  <2> QED BY <1>6, <1>7, <2>1, CurrentFacts DEF procOf
<1>9. c \in DOMAIN procOf /\ procOf[c] = ProcOf(c) /\ Tid \subseteq DOMAIN procOf
  BY CurrentFacts, FirstFreeFacts DEF procOf, IInv, Tid
<1>10. P!ForkFails(c)
  BY <1>7, <1>8, <1>9 DEF P!ForkFails, P!Pending, P!Caller, P!Fork, P!EAGAIN, Fork, EAGAIN
<1> QED BY <1>6, <1>9, <1>10 DEF P!Next

(* The child: its parent's registers, a result of 0, and user execution.   *)
LEMMA ChildFacts ==
  ASSUME IInv, NEW c, c = currentThread
  PROVE  LET child == ChildOf(taskMap[c])
         IN  /\ child \in Thread
             /\ child.tss.pos = slotU.pos /\ child.tss.eax = 0
             /\ child.ktss = Parked /\ child.kernelExecution = FALSE
<1> DEFINE r == taskMap[c]
           f == Flushed(r, slotK)
           u == [slotU EXCEPT !.eax = 0]
<1>1. f \in Thread /\ f.tss = slotU
  BY CurrentFacts DEF Flushed, Thread
<1>2. 0 \in Value /\ Parked \in KernelState
  BY DEF Value, Parked, KernelState, Place
<1>3. u \in UserState /\ u.eax = 0 /\ u.pos = slotU.pos
  BY <1>2, CurrentFacts DEF UserState
<1>4. ChildOf(r) = [f EXCEPT !.tss = u, !.ktss = Parked, !.kernelExecution = FALSE, !.data = 0]
  BY <1>1 DEF ChildOf
<1> QED BY <1>1, <1>2, <1>3, <1>4 DEF Thread

(* A fork that finds one.                                                  *)
LEMMA ForkSucceedsKeeps ==
  ASSUME IInv, NEW c, c = currentThread, KfuncForkExec, NEW n, n = FirstFree, n # 0
  PROVE  IInv' /\ P!Next
<1>1. /\ busyK /\ slotK.at = "trap" /\ slotK.call = Fork /\ slotK.call = slotU.eax
      /\ taskMap[c].errno = 0
  BY CurrentFacts DEF KfuncForkExec, KernelAt, CallInv, SyscallNr
<1>2. n \in Tid \ DOMAIN taskMap /\ n \in PidStart .. PidMax - 1 /\ n # c /\ n # -1
  BY FirstFreeFacts, CurrentFacts, TidFacts
<1> DEFINE child == ChildOf(taskMap[c])
           self == [taskMap[c] EXCEPT !.data = n]
<1>3. /\ taskMap' = [t \in DOMAIN taskMap \cup {n} |->
                       IF t = n THEN child ELSE IF t = c THEN self ELSE taskMap[t]]
      /\ nextTask' = Successor(n)
      /\ slotK' = [slotK EXCEPT !.at = "result"]
      /\ UNCHANGED <<currentThread, slotU, busyK, bugCheck>>
  BY DEF KfuncForkExec, AfterTrap
<1>4. /\ DOMAIN taskMap' = DOMAIN taskMap \cup {n}
      /\ taskMap'[n] = child /\ taskMap'[c] = self
      /\ \A t \in DOMAIN taskMap \ {c} : taskMap'[t] = taskMap[t]
  BY <1>2, <1>3, CurrentFacts
<1>5. /\ self \in Thread /\ self.data = n /\ self.errno = 0
  <2>1. n \in Value
    BY <1>2 DEF Value
  <2> QED BY <1>1, <2>1, CurrentFacts DEF Thread
<1>6. slotK' \in KernelState /\ slotK'.at = "result" /\ slotK'.call = slotK.call
  BY <1>3, CurrentFacts DEF KernelState, Place
<1>7. TypeOK'
  <2>1. taskMap' \in [DOMAIN taskMap' -> Thread]
    BY <1>3, <1>4, <1>5, ChildFacts DEF IInv, TypeOK
  <2>2. nextTask' \in PidStart .. PidMax - 1
    BY <1>2, <1>3, PidAssumption DEF Successor
  <2> QED BY <1>2, <1>3, <1>4, <1>6, <2>1, <2>2 DEF IInv, TypeOK
<1>8. \A t \in DOMAIN taskMap \ {c} : CallInv(t)' /\ ResultInv(t)' /\ ProcOf(t)' = ProcOf(t)
  BY <1>3, <1>4, OthersSame, SameKeeps DEF IInv
<1>9. UserOf(c)' = slotU /\ KernelOf(c)' = slotK' /\ InKernel(c)' = busyK
  BY <1>3 DEF UserOf, KernelOf, InKernel
<1>10. CallInv(c)' /\ ResultInv(c)'
  BY <1>1, <1>2, <1>4, <1>5, <1>6, <1>9 DEF CallInv, ResultInv, SyscallNr, Fork, Gettid
<1>11. /\ UserOf(n)' = child.tss /\ KernelOf(n)' = Parked /\ InKernel(n)' = FALSE
  BY <1>2, <1>3, <1>4, ChildFacts DEF UserOf, KernelOf, InKernel
<1>12. CallInv(n)' /\ ResultInv(n)'
  BY <1>11 DEF CallInv, ResultInv, Parked
<1>13. IInv'
  BY <1>3, <1>4, <1>7, <1>8, <1>10, <1>12 DEF IInv
<1>14. /\ ProcOf(c) = [pos |-> slotU.pos, eax |-> Fork, calling |-> TRUE, reply |-> 0]
       /\ ProcOf(c)' = [pos |-> slotU.pos, eax |-> Fork, calling |-> TRUE, reply |-> n]
  <2>1. Calling(slotK) = TRUE /\ Calling(slotK') = TRUE
    BY <1>1, <1>6 DEF Calling
  <2>2. Reply(slotK, taskMap[c]) = 0 /\ Reply(slotK', taskMap'[c]) = n
    BY <1>1, <1>2, <1>4, <1>5, <1>6 DEF Reply
  <2> QED BY <1>1, <1>9, <2>1, <2>2, CurrentFacts DEF ProcOf
<1>15. ProcOf(n)' = [pos |-> slotU.pos, eax |-> 0, calling |-> FALSE, reply |-> 0]
  <2>1. Calling(Parked) = FALSE /\ Reply(Parked, taskMap'[n]) = 0
    BY NoReply DEF Calling, Parked
  <2> QED BY <1>11, <2>1, ChildFacts DEF ProcOf
<1>16. /\ c \in DOMAIN procOf /\ DOMAIN procOf = DOMAIN taskMap
       /\ procOf[c] = ProcOf(c)
  BY CurrentFacts DEF procOf
<1>17. procOf' = [p \in DOMAIN procOf \cup {n} |->
                    IF p = n THEN P!NewProc(procOf[c].pos, 0)
                    ELSE IF p = c THEN P!Caller(procOf[c].pos, P!Fork, n)
                    ELSE procOf[p]]
  <2>1. procOf' = [p \in DOMAIN taskMap \cup {n} |-> ProcOf(p)']
    BY <1>4 DEF procOf
  <2>2. procOf[c].pos = slotU.pos
    BY <1>14, <1>16
  <2>3. ProcOf(n)' = P!NewProc(procOf[c].pos, 0)
    BY <1>15, <2>2 DEF P!NewProc
  <2>4. ProcOf(c)' = P!Caller(procOf[c].pos, P!Fork, n)
    BY <1>14, <2>2 DEF P!Caller, P!Fork, Fork
  <2>5. \A p \in DOMAIN taskMap \ {c} : ProcOf(p)' = procOf[p]
    BY <1>8 DEF procOf
  <2> QED BY <1>2, <1>16, <2>1, <2>3, <2>4, <2>5
<1>18. P!ForkSucceeds(c)
  BY <1>2, <1>14, <1>16, <1>17 DEF P!ForkSucceeds, P!Pending, P!Fork, Fork
<1> QED BY <1>13, <1>16, <1>18 DEF P!Next

-----------------------------------------------------------------------------

(* Every step keeps the invariant and is a step of one thread or no step   *)
(* at all to the programs.                                                 *)
LEMMA NextKeeps ==
  ASSUME IInv, [Next]_vars
  PROVE  IInv' /\ [P!Next]_procOf
<1>1. PICK c : c = currentThread
  OBVIOUS
<1>2. CASE Timer
  BY <1>2, TimerKeeps DEF Invisible
<1>3. CASE UserStep
  BY <1>1, <1>3, UserStepKeeps
<1>4. ASSUME NEW nr \in Calls, Int80(nr)
      PROVE  IInv' /\ [P!Next]_procOf
  BY <1>1, <1>4, Int80Keeps
<1>5. CASE KfuncForkExec
  <2>1. CASE FirstFree = 0
    BY <1>1, <1>5, <2>1, ForkFailsKeeps
  <2>2. CASE FirstFree # 0
    BY <1>1, <1>5, <2>2, ForkSucceedsKeeps
  <2> QED BY <2>1, <2>2
<1>6. CASE KernelStep
  BY <1>1, <1>5, <1>6, DispatchKeeps, StoreDataKeeps, StoreKfuncKeeps, KfuncNullKeeps,
     CollectKeeps, TestErrnoKeeps, WriteEaxKeeps, IretKeeps DEF KernelStep, Invisible
<1>7. CASE UNCHANGED vars
  <2>1. IInv'
    BY <1>7 DEF vars, IInv, TypeOK, CallInv, ResultInv, UserOf, KernelOf, InKernel
  <2>2. procOf' = procOf
    BY <1>7 DEF vars, procOf, ProcOf, UserOf, KernelOf
  <2> QED BY <2>1, <2>2
<1> QED BY <1>2, <1>3, <1>4, <1>6, <1>7 DEF Next

LEMMA IInvHolds == Spec => []IInv
<1>1. IInv /\ [Next]_vars => IInv'
  BY NextKeeps
<1> QED BY <1>1, InitIInv, PTL DEF Spec

(* The task map, the slots of the CPU and the saved states keep their      *)
(* types; in particular no thread is given a tid outside the range.        *)
THEOREM TypeCorrect == Spec => []TypeOK
<1>1. IInv => TypeOK
  BY DEF IInv
<1> QED BY <1>1, IInvHolds, PTL

(* The handler of int 0x40 never finds a request it does not know.         *)
THEOREM NoBugCheckHolds == Spec => []NoBugCheck
<1>1. IInv => NoBugCheck
  BY DEF IInv, NoBugCheck
<1> QED BY <1>1, IInvHolds, PTL

(* However the timer interleaves the threads, each runs as if alone on a   *)
(* CPU, forks as fork(2) does, and is denied a fork only when the tids     *)
(* have run out.                                                           *)
THEOREM ProcessesImplemented == Spec => ImplementsProcesses
<1>1. Init => P!Init
  <2> SUFFICES ASSUME Init PROVE procOf = [t \in {InitTid} |-> P!NewProc(0, 0)]
    BY DEF P!Init
  <2>1. Calling(Parked) = FALSE /\ Reply(Parked, taskMap[InitTid]) = 0
    BY NoReply DEF Calling, Parked
  <2>2. DOMAIN taskMap = {InitTid} /\ UserOf(InitTid) = [pos |-> 0, eax |-> 0]
        /\ KernelOf(InitTid) = Parked
    BY DEF Init, UserOf, KernelOf
  <2>3. ProcOf(InitTid) = P!NewProc(0, 0)
    <3>1. UserOf(InitTid).pos = 0 /\ UserOf(InitTid).eax = 0
      BY <2>2
    <3>2. Calling(KernelOf(InitTid)) = FALSE /\ Reply(KernelOf(InitTid), taskMap[InitTid]) = 0
      BY <2>1, <2>2
    <3> QED BY <3>1, <3>2, Zenon DEF ProcOf, P!NewProc
  <2> QED BY <2>2, <2>3 DEF procOf
<1>2. IInv /\ [Next]_vars => [P!Next]_procOf
  BY NextKeeps
<1> QED BY <1>1, <1>2, IInvHolds, PTL DEF Spec, ImplementsProcesses, P!Spec

=============================================================================
