----------------------------- MODULE KernelMutex -----------------------------
(***************************************************************************)
(* The kernel's reentrant Mutex (os/kernel/util.h) on top of SimpleMutex   *)
(* (os/kernel/machine/x86_32/util.s), run by threads that the timer        *)
(* preempts between any two accesses to the lock, and by kfunc handlers.   *)
(*                                                                         *)
(* There is one CPU.  A context is a thread inside a system call (its      *)
(* interrupt flag is set, so the timer may switch to another thread) or    *)
(* the kfunc handler of a thread (`handlingIRQ' is 1 and the flag is       *)
(* clear, so nothing else runs until it returns).  The handler of thread   *)
(* t is the context ~t, which is the identity the code locks under.        *)
(*                                                                         *)
(* One lock is modelled.  Its clients nest acquisitions and release what   *)
(* they acquired: threads as often as they like, a handler a bounded       *)
(* number of times before it returns.                                      *)
(***************************************************************************)
EXTENDS Integers, RoundRobin

CONSTANTS
  Thread,        \* tids of the threads, positive
  KfuncCallers,  \* the threads whose kfunc handlers use this lock
  AfterYield,    \* what %al and %edx may hold when a thread returns from yield
  MaxDepth,      \* bound: nested acquisitions of one context
  MaxCalls,      \* bound: acquisitions that one run of a kfunc handler asks for
  MinSlice,      \* bound: steps of lock functions between two ticks that hit one
  AcquiresMod    \* the number of values of `acquires', an unsigned long

Byte == {0, 1}   \* a byte that is zero, or is not
Registers == [al : Byte, edx : {"lock", "elsewhere"}]
Intact == [al |-> 1, edx |-> "lock"]

ASSUME ConstantsAssumption ==
  /\ Thread \subseteq Nat \ {0}
  /\ Thread # {}
  /\ KfuncCallers \subseteq Thread
  /\ AfterYield \subseteq Registers
  /\ AfterYield # {}
  /\ MaxDepth \in Nat \ {0}
  /\ MaxCalls \in Nat
  /\ MinSlice \in Nat
  /\ AcquiresMod \in Nat
  /\ AcquiresMod > MaxDepth

Complement(t) == (-t) - 1       \* ~t in two's complement
Handler == {Complement(t) : t \in Thread}
Context == Thread \cup Handler

VARIABLES
  currentThread, handlingIRQ,              \* of system.c
  slice,       \* steps of lock functions since a tick hit one, up to MinSlice
  stateLock, ownerThread, acquires,        \* the Mutex
  elsewhere,   \* the byte %edx addresses once it no longer holds the lock's address
  pc, op,      \* where each context is, and in which lock function
  reg,         \* %al and %edx of each context, inside SimpleMutex_acquire
  depth,       \* acquisitions that returned to each context and are unreleased
  calls,       \* acquisitions the running kfunc handler has asked for
  bugCheck     \* the number bugCheckNum stopped the kernel with, or 0

cpu == <<currentThread, handlingIRQ>>
mutex == <<stateLock, ownerThread, acquires>>
client == <<depth, calls>>
vars == <<cpu, slice, mutex, elsewhere, pc, op, reg, client, bugCheck>>

Ops == {"none", "acquire", "tryAcquire", "release"}
Labels == {"idle", "xchg", "spin", "test", "own", "count", "unlock",
           "backoff", "retry", "check", "uncount"}

(* The labels at which a context has passed SimpleMutex_acquire and has    *)
(* not yet called SimpleMutex_release.                                     *)
Section == {"test", "own", "count", "unlock", "backoff", "check", "uncount"}

(* The types: the count stays within an unsigned long and the registers   *)
(* and places of every context are those the code has.                     *)
TypeOK ==
  /\ currentThread \in Thread
  /\ handlingIRQ \in Byte
  /\ slice \in 0 .. MinSlice
  /\ stateLock \in Byte
  /\ ownerThread \in Context \cup {0}
  /\ acquires \in 0 .. AcquiresMod - 1
  /\ elsewhere \in Byte
  /\ pc \in [Context -> Labels]
  /\ op \in [Context -> Ops]
  /\ reg \in [Context -> Registers]
  /\ depth \in [Context -> 0 .. MaxDepth]
  /\ calls \in 0 .. MaxCalls
  /\ bugCheck \in {0, 257, 258, 259, 260}

-----------------------------------------------------------------------------

(* Mutex_initUnlocked, with the first thread about to run.  The byte at    *)
(* the wrong address is code of the kernel image and is not zero.          *)
Init ==
  /\ currentThread = Least(Thread)
  /\ handlingIRQ = 0
  /\ slice = MinSlice
  /\ stateLock = 0
  /\ ownerThread = 0
  /\ acquires = 0
  /\ elsewhere = 1
  /\ pc = [c \in Context |-> "idle"]
  /\ op = [c \in Context |-> "none"]
  /\ reg = [c \in Context |-> Intact]
  /\ depth = [c \in Context |-> 0]
  /\ calls = 0
  /\ bugCheck = 0

(* The identity a lock function computes for its caller.                   *)
Running == IF handlingIRQ = 1 THEN Complement(currentThread) ELSE currentThread

AtLabel(c, label) == c = Running /\ pc[c] = label /\ bugCheck = 0
Goto(c, label) == pc' = [pc EXCEPT ![c] = label]

(* Enter SimpleMutex_acquire: %edx is the lock's address and %al is 1.     *)
EnterSimpleMutex(c) ==
  /\ Goto(c, "xchg")
  /\ reg' = [reg EXCEPT ![c] = Intact]

Call(c, f) ==
  /\ AtLabel(c, "idle")
  /\ op' = [op EXCEPT ![c] = f]
  /\ EnterSimpleMutex(c)
  /\ UNCHANGED <<cpu, slice, mutex, elsewhere, bugCheck>>

CallAcquire(c) ==
  /\ depth[c] < MaxDepth
  /\ \E f \in {"acquire", "tryAcquire"} : Call(c, f)
  /\ \/ handlingIRQ = 0 /\ UNCHANGED calls
     \/ handlingIRQ = 1 /\ calls < MaxCalls /\ calls' = calls + 1
  /\ UNCHANGED depth

CallRelease(c) ==
  /\ depth[c] > 0
  /\ Call(c, "release")
  /\ depth' = [depth EXCEPT ![c] = @ - 1]
  /\ UNCHANGED calls

-----------------------------------------------------------------------------

(* What yield does to a thread: a kfunc that runs the scheduler, after     *)
(* which the thread resumes with whatever the call left in registers the   *)
(* ABI lets it clobber.  In a handler yield returns at once; the test of   *)
(* handlingIRQ leaves its value, 1, in %eax and does not use %edx.         *)
YieldCPU == currentThread' = NextThread(Thread, currentThread) /\ UNCHANGED handlingIRQ

XchgNotStored(c) ==      \* mutation: the lock byte is read and not written
  /\ AtLabel(c, "xchg")
  /\ IF stateLock = 0
     THEN Goto(c, IF op[c] = "release" THEN "check" ELSE "test")
     ELSE Goto(c, "spin")
  /\ UNCHANGED <<cpu, mutex, elsewhere, op, reg, client, bugCheck>>

(* SimpleMutex_acquire: exchange %al with the byte at %edx.  An old value  *)
(* of zero ends the call, and the registers are then dead.                 *)
Xchg(c) ==
  /\ AtLabel(c, "xchg")
  /\ LET onLock == reg[c].edx = "lock"
         old == IF onLock THEN stateLock ELSE elsewhere
     IN  /\ stateLock' = IF onLock THEN reg[c].al ELSE stateLock
         /\ elsewhere' = IF onLock THEN elsewhere ELSE reg[c].al
         /\ \/ /\ old = 0
               /\ Goto(c, IF op[c] = "release" THEN "check" ELSE "test")
               /\ reg' = [reg EXCEPT ![c] = Intact]
            \/ /\ old # 0
               /\ Goto(c, "spin")
               /\ reg' = [reg EXCEPT ![c].al = old]
  /\ UNCHANGED <<cpu, ownerThread, acquires, op, client, bugCheck>>

(* ... otherwise call yield and jump back to the exchange, reloading       *)
(* neither register.                                                       *)
Spin(c) ==
  /\ AtLabel(c, "spin")
  /\ Goto(c, "xchg")
  /\ \/ /\ handlingIRQ = 1
        /\ reg' = [reg EXCEPT ![c].al = 1]
        /\ UNCHANGED cpu
     \/ /\ handlingIRQ = 0
        /\ \E r \in AfterYield : reg' = [reg EXCEPT ![c] = r]
        /\ YieldCPU
  /\ UNCHANGED <<mutex, elsewhere, op, client, bugCheck>>

TestIgnoringOwner(c) ==  \* mutation: a held lock passes for the caller's own
  /\ AtLabel(c, "test")
  /\ Goto(c, IF acquires = 0 THEN "own" ELSE "count")
  /\ UNCHANGED <<cpu, mutex, elsewhere, op, reg, client, bugCheck>>

TestTryNotReentrant(c) ==   \* mutation: tryAcquire refuses the owner as well
  /\ AtLabel(c, "test")
  /\ \/ acquires = 0 /\ Goto(c, "own")
     \/ acquires # 0 /\ ownerThread = c /\ op[c] = "acquire" /\ Goto(c, "count")
     \/ acquires # 0 /\ (ownerThread # c \/ op[c] = "tryAcquire") /\ Goto(c, "backoff")
  /\ UNCHANGED <<cpu, mutex, elsewhere, op, reg, client, bugCheck>>

(* Mutex_acquire and Mutex_tryAcquire with stateLock held: the lock is     *)
(* free, or the caller's own, or somebody else's.                          *)
Test(c) ==
  /\ AtLabel(c, "test")
  /\ \/ acquires = 0 /\ Goto(c, "own")
     \/ acquires # 0 /\ ownerThread = c /\ Goto(c, "count")
     \/ acquires # 0 /\ ownerThread # c /\ Goto(c, "backoff")
  /\ UNCHANGED <<cpu, mutex, elsewhere, op, reg, client, bugCheck>>

Own(c) ==
  /\ AtLabel(c, "own")
  /\ ownerThread' = c
  /\ Goto(c, "count")
  /\ UNCHANGED <<cpu, stateLock, acquires, elsewhere, op, reg, client, bugCheck>>

(* acquires++, and the check that it did not wrap to zero.                 *)
Count(c) ==
  /\ AtLabel(c, "count")
  /\ acquires' = IF acquires + 1 = AcquiresMod THEN 0 ELSE acquires + 1
  /\ bugCheck' = IF acquires' # 0 THEN 0
                 ELSE IF op[c] = "acquire" THEN 257 ELSE 260
  /\ Goto(c, "unlock")
  /\ UNCHANGED <<cpu, stateLock, ownerThread, elsewhere, op, reg, client>>

UnlockOfReleaseForgotten(c) ==   \* mutation: Mutex_release keeps stateLock
  /\ AtLabel(c, "unlock")
  /\ stateLock' = IF op[c] = "release" THEN stateLock ELSE 0
  /\ Goto(c, "idle")
  /\ op' = [op EXCEPT ![c] = "none"]
  /\ depth' = [depth EXCEPT ![c] = IF op[c] = "release" THEN @ ELSE @ + 1]
  /\ UNCHANGED <<cpu, ownerThread, acquires, elsewhere, reg, calls, bugCheck>>

(* SimpleMutex_release and return, from an acquisition that succeeded or   *)
(* from a release.                                                         *)
Unlock(c) ==
  /\ AtLabel(c, "unlock")
  /\ stateLock' = 0
  /\ Goto(c, "idle")
  /\ op' = [op EXCEPT ![c] = "none"]
  /\ depth' = [depth EXCEPT ![c] = IF op[c] = "release" THEN @ ELSE @ + 1]
  /\ UNCHANGED <<cpu, ownerThread, acquires, elsewhere, reg, calls, bugCheck>>

BackoffForgetful(c) ==   \* mutation: stateLock is kept across the wait
  /\ AtLabel(c, "backoff")
  /\ \/ op[c] = "tryAcquire" /\ Goto(c, "idle") /\ op' = [op EXCEPT ![c] = "none"]
     \/ op[c] = "acquire" /\ Goto(c, "retry") /\ UNCHANGED op
  /\ UNCHANGED <<cpu, mutex, elsewhere, reg, client, bugCheck>>

(* Somebody else's lock: release stateLock; Mutex_tryAcquire returns 0 and *)
(* Mutex_acquire yields before it tries again.                             *)
Backoff(c) ==
  /\ AtLabel(c, "backoff")
  /\ stateLock' = 0
  /\ \/ op[c] = "tryAcquire" /\ Goto(c, "idle") /\ op' = [op EXCEPT ![c] = "none"]
     \/ op[c] = "acquire" /\ Goto(c, "retry") /\ UNCHANGED op
  /\ UNCHANGED <<cpu, ownerThread, acquires, elsewhere, reg, client, bugCheck>>

Retry(c) ==
  /\ AtLabel(c, "retry")
  /\ EnterSimpleMutex(c)
  /\ \/ handlingIRQ = 1 /\ UNCHANGED cpu
     \/ handlingIRQ = 0 /\ YieldCPU
  /\ UNCHANGED <<mutex, elsewhere, op, client, bugCheck>>

(* Mutex_release with stateLock held: the two assertions, then acquires--. *)
Check(c) ==
  /\ AtLabel(c, "check")
  /\ bugCheck' = IF ownerThread # c THEN 258
                 ELSE IF acquires = 0 THEN 259 ELSE 0
  /\ Goto(c, "uncount")
  /\ UNCHANGED <<cpu, mutex, elsewhere, op, reg, client>>

UncountTwice(c) ==       \* mutation: the count is dropped by two
  /\ AtLabel(c, "uncount")
  /\ acquires' = acquires - 2
  /\ Goto(c, "unlock")
  /\ UNCHANGED <<cpu, stateLock, ownerThread, elsewhere, op, reg, client, bugCheck>>

Uncount(c) ==
  /\ AtLabel(c, "uncount")
  /\ acquires' = acquires - 1
  /\ Goto(c, "unlock")
  /\ UNCHANGED <<cpu, stateLock, ownerThread, elsewhere, op, reg, client, bugCheck>>

-----------------------------------------------------------------------------

(* A kfunc whose function uses the lock (Threads_insertThread reaches      *)
(* alloc through Map_add).  No call site makes one with the lock held.     *)
EnterKfunc ==
  /\ AtLabel(currentThread, "idle")
  /\ currentThread \in KfuncCallers
  /\ depth[currentThread] = 0
  /\ handlingIRQ' = 1
  /\ UNCHANGED <<currentThread, slice, mutex, elsewhere, pc, op, reg, client, bugCheck>>

ReturnKfunc ==
  /\ handlingIRQ = 1
  /\ AtLabel(Running, "idle")
  /\ depth[Running] = 0
  /\ handlingIRQ' = 0
  /\ calls' = 0
  /\ UNCHANGED <<currentThread, slice, mutex, elsewhere, pc, op, reg, depth, bugCheck>>

(* The timer's handler: it needs the interrupt flag, which handlers run    *)
(* without, and ends with the next thread on the CPU.  Ticks are 10 ms     *)
(* apart: one hits a thread outside the lock functions at any time, and    *)
(* one inside them only after MinSlice steps since the last that did.      *)
Timer ==
  /\ handlingIRQ = 0
  /\ bugCheck = 0
  /\ \/ pc[currentThread] = "idle" /\ UNCHANGED slice
     \/ pc[currentThread] # "idle" /\ slice = MinSlice /\ slice' = 0
  /\ YieldCPU
  /\ UNCHANGED <<mutex, elsewhere, pc, op, reg, client, bugCheck>>

(* A context inside a lock function takes a step.                          *)
Proceed(c) ==
  /\ slice' = IF slice < MinSlice THEN slice + 1 ELSE slice
  /\ \/ Xchg(c) \/ Spin(c) \/ Test(c) \/ Own(c) \/ Count(c) \/ Unlock(c)
     \/ Backoff(c) \/ Retry(c) \/ Check(c) \/ Uncount(c)

Next ==
  \/ \E c \in Context : CallAcquire(c) \/ CallRelease(c) \/ Proceed(c)
  \/ EnterKfunc
  \/ ReturnKfunc
  \/ Timer

Spec == Init /\ [][Next]_vars

(* What a context inside the lock's protocol does without choosing to.     *)
Advance(c) == Proceed(c) \/ CallRelease(c)

(* The timer ticks at 100 Hz, and a tick that finds interrupts disabled    *)
(* stays pending until they are enabled, so it is strongly fair; a thread  *)
(* that keeps getting the CPU executes; clients release what they hold;    *)
(* nothing stops a handler.  Nobody has to acquire.                        *)
Fairness ==
  /\ SF_vars(Timer)
  /\ \A t \in Thread : SF_vars(Advance(t))
  /\ WF_vars(handlingIRQ = 1 /\ (Advance(Running) \/ ReturnKfunc))

FairSpec == Spec /\ Fairness

-----------------------------------------------------------------------------

(* No two contexts are between the return of an acquisition and the call   *)
(* of its release: the critical sections Mutex_acquire delimits.           *)
MutualExclusion ==
  \A c, d \in Context : depth[c] > 0 /\ depth[d] > 0 => c = d

(* The assertions of Mutex_acquire, Mutex_tryAcquire and Mutex_release     *)
(* (owner and count at a release, no wrap of the count) never fail.        *)
NoBugCheck == bugCheck = 0

(* When no lock function is executing, stateLock is free and the count is  *)
(* the number of acquisitions the owner has not released, 0 for a lock     *)
(* nobody holds: no interleaving of failed and retried calls leaks one.    *)
QuiescentCount ==
  (\A c \in Context : op[c] = "none") =>
     /\ stateLock = 0
     /\ acquires = IF ownerThread = 0 THEN 0 ELSE depth[ownerThread]

(* A kfunc handler waits, with interrupts off, for a stateLock or a lock   *)
(* that a preempted thread holds: the thread can never run again.          *)
HandlerStuck ==
  /\ handlingIRQ = 1
  /\ \E t \in Thread :
       \/ op[Running] # "none" /\ pc[t] \in Section
       \/ op[Running] = "acquire" /\ (op[t] = "release" \/ depth[t] > 0)

(* What the callers can tell of a call: it is still to take effect (an     *)
(* acquisition when it is counted, a refusal when somebody else is found   *)
(* to be the owner, a release when it is taken off the count), or it has.  *)
CallSeen(c) ==
  IF pc[c] = "unlock" THEN (IF op[c] = "release" THEN "dropped" ELSE "taken")
  ELSE IF pc[c] = "backoff" /\ op[c] = "tryAcquire" THEN "refused"
  ELSE op[c]

(* Waiting is never in vain for everybody, and never in vain for good:     *)
(* while a call is under way some call takes effect, so the contexts that  *)
(* poll the inner lock do not keep each other from it, and a context that  *)
(* is left alone with the lock gets through.  A stuck handler is the only  *)
(* exception.  Nothing better holds of one thread among others: it may     *)
(* lose the race for either lock each time it runs.                        *)
WaitsEnd ==
  /\ (\E c \in Context : op[c] # "none") ~>
       \/ HandlerStuck
       \/ \E c \in Context : CallSeen(c) \in {"taken", "refused", "dropped"}
  /\ \A c \in Context :
       <>[](\A d \in Context \ {c} : op[d] = "none" /\ depth[d] = 0) =>
         (op[c] # "none" ~> op[c] = "none")

(* "avoidance of deadlock must be sure" (kmemman.h): a handler never       *)
(* stays stuck behind a thread it preempted.                               *)
HandlersNeverStuck == ~HandlerStuck

(* Mutex is a linearizable reentrant lock: Mutex_acquire and tryAcquire    *)
(* succeed only at an instant when the lock is free or the caller's,       *)
(* tryAcquire refuses only when it is somebody else's, and a release gives *)
(* up just one acquisition.                                                *)
Lock == INSTANCE ReentrantLock
          WITH Nobody <- 0,
               holder <- IF acquires = 0 THEN 0 ELSE ownerThread,
               count <- acquires,
               call <- [c \in Context |-> CallSeen(c)]
ImplementsLock == Lock!Spec

=============================================================================
