---------------------------- MODULE MCBlockDevice ----------------------------
(* Two processes on a drive of four sectors of two bytes.  Neighbouring    *)
(* bytes differ, before and after a write.  With offsets of five bits a    *)
(* position has ten: two seeks by the least of them wrap into the file.    *)
EXTENDS BlockDevice

MCInitData == [a \in Address |-> 4 * (a % 2)]
MCPattern == {[a \in Address |-> 1 + (a % 3)]}
MCOffHi == {-16, -1, 0}
MCOffLo == {-3, 3, 9}

=============================================================================
