----------------------------- MODULE RoundRobin -----------------------------
(***************************************************************************)
(* The order in which Stallos' scheduler visits the threads of its task    *)
(* map (Threads_findNext and the search of Threads_nextThread in           *)
(* os/kernel/machine/x86_32/threads.h).  The module has no state: the      *)
(* thread scheduler and the lock model both schedule with NextThread.      *)
(*                                                                         *)
(* A thread is its tid, a natural number below pid_max.  `tasks' is the    *)
(* set of tids the task map holds; every thread of it is scheduled,        *)
(* because nothing in the kernel ever sets `dispo' to a nonzero value.     *)
(***************************************************************************)
EXTENDS Integers

Least(S) == CHOOSE x \in S : \A y \in S : x <= y

(* The tids above `low', among which Threads_findNext keeps the smallest.  *)
Above(tasks, low) == {t \in tasks : t > low}

NextThreadGreatest(tasks, cur) ==   \* mutation: the greatest tid is kept
  LET higher == Above(tasks, cur)
  IN  IF higher # {} THEN CHOOSE x \in higher : \A y \in higher : y <= x
      ELSE IF 0 \in tasks THEN 0 ELSE Least(Above(tasks, 0))

(* The tid Threads_nextThread switches to: the next one up, or, past the   *)
(* last one, tid 0 if the map holds it and otherwise the smallest.         *)
NextThread(tasks, cur) ==
  LET higher == Above(tasks, cur)
  IN  IF higher # {} THEN Least(higher)
      ELSE IF 0 \in tasks THEN 0 ELSE Least(Above(tasks, 0))

=============================================================================
