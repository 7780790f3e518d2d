------------------------------ MODULE MCThreads ------------------------------
(* The instances of Threads for TLC: two tids and all the calls, and three *)
(* tids and fork only; the last fork finds no tid left in either.          *)
EXTENDS Threads

=============================================================================
