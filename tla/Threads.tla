------------------------------- MODULE Threads -------------------------------
(***************************************************************************)
(* The thread scheduler and fork of Stallos (os/kernel/threads.h, sched.h, *)
(* machine/x86_32/threads.h and Threadstate.h), with the kfunc calls that  *)
(* carry them out (kfct and irupt_handler_kfunc of os/system.c) and the    *)
(* system call path of os/system.s.                                        *)
(*                                                                         *)
(* The CPU runs one user task and one kernel task, whose state segments    *)
(* are slots of low memory; a thread switch copies the slots to the        *)
(* current thread's struct Thread and loads them from the next thread's.   *)
(* Kernel code runs with interrupts on, so the timer may come between any  *)
(* two of its steps.  The handlers of the timer and of int 0x40 run with   *)
(* interrupts off and are single actions.                                  *)
(*                                                                         *)
(* A program is the place it is at and its %eax; a system call is fork,    *)
(* sched_yield or gettid.  No thread ever exits: _exit does not return to  *)
(* the scheduler's tables.                                                 *)
(***************************************************************************)
EXTENDS Integers, RoundRobin

CONSTANTS
  PidStart,  \* PID_USERSTART: the first tid given to a forked thread
  PidMax,    \* pid_max: no tid reaches it
  PosMod,    \* bound: the number of places a program can be at
  Calls      \* bound: the system calls that programs make

ASSUME PidAssumption ==
  /\ PidStart \in Nat /\ PidStart > 1
  /\ PidMax \in Nat /\ PidMax > PidStart
  /\ PosMod \in Nat \ {0}

InitTid == 1
Tid == {InitTid} \cup PidStart .. PidMax - 1

VARIABLES
  taskMap,        \* ___taskMap___: tid -> what its struct Thread holds
  nextTask,       \* ___nextTask___
  currentThread,
  slotU,          \* the user task's state segment, at 0xd80
  slotK,          \* the kernel task's, at 0xb00
  busyK,          \* whether the kernel task's descriptor is marked busy
  bugCheck        \* the number bugCheckNum stopped the kernel with, or 0

vars == <<taskMap, nextTask, currentThread, slotU, slotK, busyK, bugCheck>>

Fork == 2
SchedYield == 158
Gettid == 224
SyscallNr == {Fork, SchedYield, Gettid}

ASSUME CallsAssumption == Calls \subseteq SyscallNr

EAGAIN == 11
Address == PidMax   \* that of a struct Thread, which is no tid and no kfunc number

(* Where the kernel task is: waiting for a system call; about to read its  *)
(* arguments; about to store invocData.data, then invocData.kfunc; about   *)
(* to execute int 0x40; about to read the result; about to test errno;     *)
(* about to write %eax of the user task; about to return.                  *)
Place == {"park", "entry", "data", "kfunc", "trap", "result", "return", "reply", "iret"}
Value == Tid \cup SyscallNr \cup {0, -1, -EAGAIN, 1, Address}

UserState == [pos : 0 .. PosMod - 1, eax : Value]
KernelState == [at : Place, call : SyscallNr \cup {0}, result : Value]
Thread ==
  [tss : UserState, ktss : KernelState, kernelExecution : BOOLEAN,
   kfunc : {"NULL", "forkExec"}, data : Value, errno : {0, EAGAIN}]

(* The types: tids below pid_max, the current thread in the task map, and  *)
(* in every saved state values that a thread's registers can hold.         *)
TypeOK ==
  /\ DOMAIN taskMap \subseteq Tid
  /\ taskMap \in [DOMAIN taskMap -> Thread]
  /\ nextTask \in PidStart .. PidMax - 1
  /\ currentThread \in DOMAIN taskMap
  /\ slotU \in UserState
  /\ slotK \in KernelState
  /\ busyK \in BOOLEAN
  /\ bugCheck \in {0, 8}

-----------------------------------------------------------------------------

Parked == [at |-> "park", call |-> 0, result |-> 0]

(* The state systemEntry leaves, `init' loaded and about to run.           *)
Init ==
  LET start == [pos |-> 0, eax |-> 0]
  IN  /\ taskMap = [t \in {InitTid} |->
                      [tss |-> start, ktss |-> Parked, kernelExecution |-> FALSE,
                       kfunc |-> "NULL", data |-> 0, errno |-> 0]]
      /\ nextTask = PidStart
      /\ currentThread = InitTid
      /\ slotU = start
      /\ slotK = Parked
      /\ busyK = FALSE
      /\ bugCheck = 0

FirstFreeUnwrapped ==    \* mutation: the search goes on to pid_max
  LET free == {n \in PidStart .. PidMax : n \notin DOMAIN taskMap}
      later == {n \in free : n >= nextTask}
  IN  IF later # {} THEN Least(later) ELSE IF free # {} THEN Least(free) ELSE 0

(* Threads_insertThread: the first free tid from nextTask up, going on     *)
(* from PID_USERSTART when pid_max is reached; 0 if there is none.         *)
FirstFree ==
  LET free == {n \in PidStart .. PidMax - 1 : n \notin DOMAIN taskMap}
      later == {n \in free : n >= nextTask}
  IN  IF later # {} THEN Least(later) ELSE IF free # {} THEN Least(free) ELSE 0

Successor(n) == IF n + 1 = PidMax THEN PidStart ELSE n + 1

FlushedStale(r, k) ==    \* mutation: the busy bit is not looked at
  [r EXCEPT !.tss = slotU, !.ktss = k]

(* flushThreadState, with the kernel task's state as the trap saved it.    *)
Flushed(r, k) ==
  [r EXCEPT !.tss = slotU, !.ktss = k, !.kernelExecution = busyK]

(* Threads_nextThread, from a handler that interrupted the kernel task     *)
(* with state k (or the user task, and then k is its parked state).        *)
Switch(k) ==
  LET next == NextThread(DOMAIN taskMap, currentThread)
  IN  \/ /\ next = currentThread
         /\ slotK' = k
         /\ UNCHANGED <<taskMap, currentThread, slotU, busyK>>
      \/ /\ next # currentThread
         /\ taskMap' = [taskMap EXCEPT ![currentThread] = Flushed(@, k)]
         /\ slotU' = taskMap[next].tss
         /\ slotK' = taskMap[next].ktss
         /\ busyK' = taskMap[next].kernelExecution
         /\ currentThread' = next

(* irupt_70h: Scheduler_update at every tick.                              *)
Timer ==
  /\ bugCheck = 0
  /\ Switch(slotK)
  /\ UNCHANGED <<nextTask, bugCheck>>

-----------------------------------------------------------------------------
(* The user task.                                                          *)

UserMode == ~ busyK /\ bugCheck = 0

UserStep ==
  /\ UserMode
  /\ slotU' = [slotU EXCEPT !.pos = (@ + 1) % PosMod]
  /\ UNCHANGED <<taskMap, nextTask, currentThread, slotK, busyK, bugCheck>>

Int80(nr) ==
  /\ UserMode
  /\ slotU' = [slotU EXCEPT !.eax = nr]
  /\ slotK' = [slotK EXCEPT !.at = "entry"]
  /\ busyK' = TRUE
  /\ UNCHANGED <<taskMap, nextTask, currentThread, bugCheck>>

-----------------------------------------------------------------------------
(* The kernel task, one access to shared state at a time.                  *)

KernelAt(place) == busyK /\ slotK.at = place /\ bugCheck = 0

(* irupt_80h reads the call from the user task's slot; system_call clears  *)
(* errno and calls its function.                                           *)
Dispatch ==
  /\ KernelAt("entry")
  /\ LET nr == slotU.eax
     IN  slotK' = IF nr = Gettid
                  THEN [at |-> "return", call |-> nr, result |-> currentThread]
                  ELSE [at |-> "data", call |-> nr, result |-> 0]
  /\ taskMap' = [taskMap EXCEPT ![currentThread].errno = 0]
  /\ UNCHANGED <<nextTask, currentThread, slotU, busyK, bugCheck>>

(* kfct: the arguments, then the function, then the interrupt.             *)
Request(nr) == IF nr = SchedYield THEN 1 ELSE Address

StoreDataLost ==         \* mutation: the arguments are left to an earlier call's
  /\ KernelAt("data")
  /\ slotK' = [slotK EXCEPT !.at = "kfunc"]
  /\ UNCHANGED <<taskMap, nextTask, currentThread, slotU, busyK, bugCheck>>

StoreData ==
  /\ KernelAt("data")
  /\ taskMap' = [taskMap EXCEPT ![currentThread].data = Request(slotK.call)]
  /\ slotK' = [slotK EXCEPT !.at = "kfunc"]
  /\ UNCHANGED <<nextTask, currentThread, slotU, busyK, bugCheck>>

StoreKfunc ==
  /\ KernelAt("kfunc")
  /\ taskMap' = [taskMap EXCEPT ![currentThread].kfunc =
                   IF slotK.call = SchedYield THEN "NULL" ELSE "forkExec"]
  /\ slotK' = [slotK EXCEPT !.at = "trap"]
  /\ UNCHANGED <<nextTask, currentThread, slotU, busyK, bugCheck>>

(* irupt_handler_kfunc, at int 0x40; iret resumes after the instruction.   *)
AfterTrap == [slotK EXCEPT !.at = "result"]

(* Without a function the only request is 1, to yield.                     *)
KfuncNull ==
  /\ KernelAt("trap")
  /\ taskMap[currentThread].kfunc = "NULL"
  /\ IF taskMap[currentThread].data = 1
     THEN Switch(AfterTrap) /\ UNCHANGED bugCheck
     ELSE bugCheck' = 8 /\ UNCHANGED <<taskMap, currentThread, slotU, slotK, busyK>>
  /\ UNCHANGED nextTask

ChildUnflushed(r) ==     \* mutation: the child keeps the copied state
  [r EXCEPT !.tss.eax = 0, !.ktss = Parked, !.kernelExecution = FALSE, !.data = 0]

(* Threads_executionFork.  The new struct Thread is a copy of the caller's *)
(* (Threads_forkData) whose state is flushed and given a result of 0, user *)
(* execution and a kernel stack of its own (prepare_fork_child).  What     *)
(* its kfunc is, a leftover of the parent's, does not matter: every trap   *)
(* follows a StoreKfunc.                                                   *)
ChildOf(r) ==
  [Flushed(r, slotK) EXCEPT !.tss.eax = 0, !.ktss = Parked, !.kernelExecution = FALSE,
                            !.data = 0]

KfuncForkExec ==
  /\ KernelAt("trap")
  /\ taskMap[currentThread].kfunc = "forkExec"
  /\ LET n == FirstFree
         self == taskMap[currentThread]
     IN  \/ /\ n = 0
            /\ taskMap' = [taskMap EXCEPT ![currentThread].data = -1]
            /\ UNCHANGED nextTask
         \/ /\ n # 0
            /\ taskMap' = [t \in DOMAIN taskMap \cup {n} |->
                             IF t = n THEN ChildOf(self)
                             ELSE IF t = currentThread THEN [self EXCEPT !.data = n]
                             ELSE taskMap[t]]
            /\ nextTask' = Successor(n)
  /\ slotK' = AfterTrap
  /\ UNCHANGED <<currentThread, slotU, busyK, bugCheck>>

CollectRetrying ==       \* mutation: a fork without a tid starts over
  /\ KernelAt("result")
  /\ slotK' = IF slotK.call = Fork /\ taskMap[currentThread].data = -1
              THEN [slotK EXCEPT !.at = "data"]
              ELSE [slotK EXCEPT !.at = "return", !.result = taskMap[currentThread].data]
  /\ UNCHANGED <<taskMap, nextTask, currentThread, slotU, busyK, bugCheck>>

(* kfct returns data[0], or 0 to yield; fork sets errno if that is -1.     *)
Collect ==
  /\ KernelAt("result")
  /\ LET result == IF slotK.call = SchedYield THEN 0 ELSE taskMap[currentThread].data
     IN  /\ slotK' = [slotK EXCEPT !.at = "return", !.result = result]
         /\ taskMap' = [taskMap EXCEPT ![currentThread].errno =
                          IF slotK.call = Fork /\ result = -1 THEN EAGAIN ELSE @]
  /\ UNCHANGED <<nextTask, currentThread, slotU, busyK, bugCheck>>

(* irupt_80h: an errno takes the place of the result.                      *)
TestErrno ==
  /\ KernelAt("return")
  /\ slotK' = [slotK EXCEPT
                 !.at = "reply",
                 !.result = LET e == taskMap[currentThread].errno
                            IN  IF e = 0 THEN @ ELSE -e]
  /\ UNCHANGED <<taskMap, nextTask, currentThread, slotU, busyK, bugCheck>>

WriteEax ==
  /\ KernelAt("reply")
  /\ slotU' = [slotU EXCEPT !.eax = slotK.result]
  /\ slotK' = [slotK EXCEPT !.at = "iret"]
  /\ UNCHANGED <<taskMap, nextTask, currentThread, busyK, bugCheck>>

(* Back to the user task; the kernel task's registers are dead.            *)
Iret ==
  /\ KernelAt("iret")
  /\ slotK' = Parked
  /\ busyK' = FALSE
  /\ UNCHANGED <<taskMap, nextTask, currentThread, slotU, bugCheck>>

KernelStep ==
  \/ Dispatch \/ StoreData \/ StoreKfunc
  \/ KfuncNull \/ KfuncForkExec
  \/ Collect \/ TestErrno \/ WriteEax \/ Iret

Next ==
  \/ Timer
  \/ UserStep
  \/ \E nr \in Calls : Int80(nr)
  \/ KernelStep

Spec == Init /\ [][Next]_vars

(* The timer ticks forever and nothing masks it for good; a thread that    *)
(* gets the CPU over and over executes between two ticks.  Programs need   *)
(* not make any system call.                                               *)
Fairness ==
  /\ WF_vars(Timer)
  /\ \A t \in Tid : SF_vars(t = currentThread /\ KernelStep)

FairSpec == Spec /\ Fairness

-----------------------------------------------------------------------------

(* The state of a thread, wherever it is: in the slots of the CPU if it is *)
(* the current one, and otherwise in its struct Thread.                    *)
UserOf(t) == IF t = currentThread THEN slotU ELSE taskMap[t].tss
KernelOf(t) == IF t = currentThread THEN slotK ELSE taskMap[t].ktss
InKernel(t) == IF t = currentThread THEN busyK ELSE taskMap[t].kernelExecution

Calling(k) == k.at \notin {"park", "iret"}

(* What a fork that has taken effect will return to its caller.            *)
Reply(k, r) ==
  IF k.call # Fork THEN 0
  ELSE IF k.at = "result" THEN IF r.data = -1 THEN -EAGAIN ELSE r.data
  ELSE IF k.at = "return" THEN IF r.errno = 0 THEN k.result ELSE -r.errno
  ELSE IF k.at = "reply" THEN k.result ELSE 0

ProcOf(t) ==
  [pos |-> UserOf(t).pos, eax |-> UserOf(t).eax,
   calling |-> Calling(KernelOf(t)), reply |-> Reply(KernelOf(t), taskMap[t])]

procOf == [t \in DOMAIN taskMap |-> ProcOf(t)]

P == INSTANCE Processes WITH proc <- procOf

(* No switch, at whatever step of a system call, loses or mixes up the     *)
(* registers, the kfunc calls or the results of threads; a child continues *)
(* from its parent's registers; fork fails only when the tids are used up. *)
ImplementsProcesses == P!Spec

(* irupt_handler_kfunc finds the request that the thread stored last,      *)
(* whatever runs between the stores: bug check 8 is never reached.         *)
NoBugCheck == bugCheck = 0

(* Every thread in the task map gets the CPU again and again.              *)
EverybodyRuns ==
  \A t \in Tid : [](t \in DOMAIN taskMap => <>(t = currentThread))

(* Every system call returns.                                              *)
CallsReturn ==
  \A t \in Tid :
    (t \in DOMAIN taskMap /\ InKernel(t)) ~> (t \in DOMAIN taskMap /\ ~ InKernel(t))

=============================================================================
