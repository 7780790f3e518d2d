---------------------------- MODULE ReentrantLock ----------------------------
(***************************************************************************)
(* What a Mutex of os/kernel/util.h promises its callers.  A call is made, *)
(* takes effect at one instant between then and its return, and returns.   *)
(* Mutex_acquire takes effect when the lock is free or the caller's own,   *)
(* and not before; Mutex_tryAcquire also has an answer, refusal, which it  *)
(* gives only if somebody else has the lock at that instant;               *)
(* Mutex_release gives up one acquisition, and the last one frees the lock *)
(***************************************************************************)
EXTENDS Naturals

CONSTANTS
  Context,    \* the threads and the interrupt handlers
  Nobody      \* the holder of a free lock

VARIABLES
  holder,     \* the context that has the lock, or Nobody
  count,      \* how many acquisitions the holder has in effect
  call,       \* the call each context is in, or what it has come to
  depth       \* the acquisitions that have returned to each context and that
              \* it has not called to release

vars == <<holder, count, call, depth>>

Init ==
  /\ holder = Nobody
  /\ count = 0
  /\ call = [c \in Context |-> "none"]
  /\ depth = [c \in Context |-> 0]

Becomes(c, state) == call' = [call EXCEPT ![c] = state]

(* A caller may only release what it has acquired.                         *)
Invoke(c) ==
  /\ call[c] = "none"
  /\ \/ /\ \E f \in {"acquire", "tryAcquire"} : Becomes(c, f)
        /\ UNCHANGED depth
     \/ /\ depth[c] > 0
        /\ Becomes(c, "release")
        /\ depth' = [depth EXCEPT ![c] = @ - 1]
  /\ UNCHANGED <<holder, count>>

Take(c) ==
  /\ call[c] \in {"acquire", "tryAcquire"}
  /\ holder \in {Nobody, c}
  /\ holder' = c
  /\ count' = count + 1
  /\ Becomes(c, "taken")
  /\ UNCHANGED depth

Refuse(c) ==
  /\ call[c] = "tryAcquire"
  /\ holder \notin {Nobody, c}
  /\ Becomes(c, "refused")
  /\ UNCHANGED <<holder, count, depth>>

Drop(c) ==
  /\ call[c] = "release"
  /\ holder = c
  /\ holder' = IF count = 1 THEN Nobody ELSE c
  /\ count' = count - 1
  /\ Becomes(c, "dropped")
  /\ UNCHANGED depth

Return(c) ==
  /\ \/ /\ call[c] = "taken"
        /\ depth' = [depth EXCEPT ![c] = @ + 1]
     \/ /\ call[c] \in {"refused", "dropped"}
        /\ UNCHANGED depth
  /\ Becomes(c, "none")
  /\ UNCHANGED <<holder, count>>

Next == \E c \in Context : Invoke(c) \/ Take(c) \/ Refuse(c) \/ Drop(c) \/ Return(c)

Spec == Init /\ [][Next]_vars

=============================================================================
