------------------------------ MODULE Processes ------------------------------
(***************************************************************************)
(* What the thread system promises the programs it runs: every thread has  *)
(* a CPU of its own.  Its registers change only by its own steps and by    *)
(* the replies to its system calls, and fork(2) makes a second thread that *)
(* continues from the caller's registers with a result of 0 (the contract  *)
(* of kernel_fork, os/kernel/threads.h).                                   *)
(***************************************************************************)
EXTENDS Integers

CONSTANTS
  Tid,       \* the tids there are
  InitTid,   \* the tid of `init'
  PosMod     \* bound: the number of places a program can be at

Fork == 2            \* system call numbers, as x86_32 Linux has them
SchedYield == 158
Gettid == 224
SyscallNr == {Fork, SchedYield, Gettid}
EAGAIN == 11

VARIABLE proc   \* the registers and the call of each thread that exists

NewProc(pos, eax) == [pos |-> pos, eax |-> eax, calling |-> FALSE, reply |-> 0]
Caller(pos, nr, reply) == [pos |-> pos, eax |-> nr, calling |-> TRUE, reply |-> reply]

Init == proc = [t \in {InitTid} |-> NewProc(0, 0)]

(* The program of t takes a step.                                          *)
Run(t) ==
  /\ ~ proc[t].calling
  /\ proc' = [proc EXCEPT ![t].pos = (@ + 1) % PosMod]

Invoke(t, nr) ==
  /\ ~ proc[t].calling
  /\ proc' = [proc EXCEPT ![t] = Caller(@.pos, nr, 0)]

(* A fork that has not been replied to takes effect.                       *)
Pending(t) == proc[t].calling /\ proc[t].eax = Fork /\ proc[t].reply = 0

ForkSucceeds(t) ==
  /\ Pending(t)
  /\ \E n \in Tid \ DOMAIN proc :
       proc' = [p \in DOMAIN proc \cup {n} |->
                  IF p = n THEN NewProc(proc[t].pos, 0)
                  ELSE IF p = t THEN Caller(proc[t].pos, Fork, n)
                  ELSE proc[p]]

(* ... and fails only when there is no tid left.                           *)
ForkFails(t) ==
  /\ Pending(t)
  /\ Tid \subseteq DOMAIN proc
  /\ proc' = [proc EXCEPT ![t] = Caller(@.pos, Fork, -EAGAIN)]

Result(t) ==
  IF proc[t].eax = Gettid THEN t
  ELSE IF proc[t].eax = SchedYield THEN 0 ELSE proc[t].reply

Finish(t) ==
  /\ proc[t].calling
  /\ proc[t].eax = Fork => proc[t].reply # 0
  /\ proc' = [proc EXCEPT ![t] = NewProc(@.pos, Result(t))]

Next ==
  \E t \in DOMAIN proc :
     \/ Run(t)
     \/ \E nr \in SyscallNr : Invoke(t, nr)
     \/ ForkSucceeds(t)
     \/ ForkFails(t)
     \/ Finish(t)

Spec == Init /\ [][Next]_proc

=============================================================================
