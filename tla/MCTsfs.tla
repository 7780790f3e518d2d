------------------------------- MODULE MCTsfs -------------------------------
(* Two names, at most two deep, and blocks of two bytes: a write fits into *)
(* a block, ends one, or goes on into new ones.                            *)
EXTENDS Tsfs

CONSTANTS usr, bin
MCPath == {<<usr>>, <<bin>>, <<usr, bin>>}
MCWritten == (<<usr>> :> {<<"a">>, <<"b", "c">>}) @@ (<<bin>> :> {<<"d", "e">>})
               @@ (<<usr, bin>> :> {<<"f", "g">>})
=============================================================================
