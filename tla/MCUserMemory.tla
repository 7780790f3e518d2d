----------------------------- MODULE MCUserMemory -----------------------------
(* Instances of UserMemory for TLC: three processes that reuse each        *)
(* other's frames, with breaks that move inside pages and between the      *)
(* image and the stack, and with no stack and no kernel blocks.  Memory    *)
(* that was never allocated does not hold zeros.                           *)
EXTENDS UserMemory, TLC

MCNoBlock == {}
MCOneBlock == {0}
FirstPageFrame == Cardinality(InitKernel)     \* the first frame of the pages
MCImage == [g \in Page |-> IF g = 1 THEN FirstPageFrame ELSE NoFrame]
MCNoStack == {}
MCImageAndStack == [MCImage EXCEPT ![MaxPage] = FirstPageFrame + 1]
MCStack == {MaxPage}
MCContent == [f \in Frame |-> 1]

(* The processes that fork creates are interchangeable.                    *)
Children == Permutations(Proc \ {InitProc})

=============================================================================
