---------------------------- MODULE MCKernelMutex ----------------------------
(* Instances of KernelMutex for TLC.                                       *)
EXTENDS KernelMutex

(* A retry that finds its operands as it left them, ...                    *)
MCIntact == {Intact}

(* ... and what the compiled yield leaves behind: kfct returns 0 in %eax   *)
(* and has just used %edx for the null function pointer it was passed.     *)
MCCompiled == {[al |-> 0, edx |-> "elsewhere"]}

=============================================================================
