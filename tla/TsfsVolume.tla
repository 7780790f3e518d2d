---------------------------- MODULE TsfsVolume ----------------------------
(***************************************************************************)
(* A TSFS volume (os/kernel/filesystems): the blocks on the disk, the      *)
(* counts of used blocks that the root block keeps, and the two areas they *)
(* delimit.  Structure (nodes, directory blocks, tables of keys) is taken  *)
(* from the left end, files' data from the right end.                      *)
(*                                                                         *)
(* The functions of the C code become operators from volumes to volumes.   *)
(* A volume that a function leaves in a state the code has no word for     *)
(* carries the reason in `health', and nothing more is done with it:       *)
(*   "full"     a block number of 0 was used, for want of blocks, or no    *)
(*              key was left                                               *)
(*   "null"     a structure block was to be moved, through a null pointer  *)
(*   "runaway"  the loop that moves data counts below zero                 *)
(*   "dangling" a record was used after it was released                    *)
(*   "refused"  magic_smoke: a block out of bounds, a name not found       *)
(*   "corrupt"  loadFS refuses the root block                              *)
(*   "stale"    a directory or a table was moved away from under those     *)
(*              that refer to it, or another file's key was released       *)
(***************************************************************************)
EXTENDS Naturals, SequencesExt

CONSTANTS
  TotalBlocks,    \* the partition's size in blocks
  RootEntries,    \* entries of the root table of keys (1024 in the code)
  TableEntries,   \* entries of a table of keys (254 in the code)
  DataSize        \* bytes of data in a block, BLOCK_SIZE - TSFSDATABLOCK_DSIZE

LProtect == 13               \* TSFS_CORE_LPROTECT: 9 + TSFS_EDATA_SIZE
TopDir == LProtect - 2
Center == TotalBlocks \div 2

ASSUME VolumeAssumption ==
  /\ TotalBlocks \in Nat /\ Center > LProtect
  /\ RootEntries \in Nat \ {0}
  /\ TableEntries \in Nat \ {0, 1} /\ DataSize \in Nat \ {0}

Health == {"ok", "full", "null", "runaway", "dangling", "refused", "corrupt", "stale"}
Blocks == 0 .. TotalBlocks - 1
Slot == 0 .. TableEntries - 1

Nothing == [kind |-> "null"]
Put(v, b, r) == [v EXCEPT !.disk[b] = r]
Null(v, B) == [v EXCEPT !.disk = [b \in Blocks |-> IF b \in B THEN Nothing ELSE @[b]]]
Is(v, b, kind) == v.disk[b].kind = kind
InUse(v) == {b \in Blocks : ~Is(v, b, "null")}

Then(v, Op(_)) == IF v.health = "ok" THEN Op(v) ELSE v

Node(flags, name, parent_loc, pnode) ==
  [kind |-> "node", flags |-> flags, name |-> name, parent_loc |-> parent_loc,
   pnode |-> pnode, ikey |-> "none"]
Block(ref) == [kind |-> "block", disk_ref |-> ref, entries |-> <<>>]
Table(level, index, parent, count, ents) ==
  [kind |-> "table", level |-> level, index |-> index, parent |-> parent,
   count |-> count, ents |-> ents]

NoEntries == [i \in Slot |-> 0]

(* createFS.  The first table of the second level (block 6) is filled with *)
(* ones, so that no key leads through it.                                  *)
Format ==
  [usedleft |-> LProtect, usedright |-> TotalBlocks - 1, health |-> "ok",
   disk |-> [b \in Blocks |->
     CASE b = 0 -> [kind |-> "root", usedleft |-> LProtect, usedright |-> TotalBlocks - 1]
       [] b = 1 -> [kind |-> "keys", ents |-> [i \in 0 .. RootEntries - 1 |-> IF i = 0 THEN 5 ELSE 0]]
       [] b = 5 -> Table(1, 0, 1, 1, [NoEntries EXCEPT ![0] = 6])
       [] b = 6 -> Table(2, 0, 5, 0, [i \in Slot |-> 1])
       [] b = TopDir -> Node("dir", "/", TopDir + 1, 0)
       [] b = TopDir + 1 -> Block(TopDir)
       [] OTHER -> Nothing]]

(* Nothing is said of what a volume that is not "ok" has on its disk.       *)
Fail(why) == [Format EXCEPT !.health = why]

WriteRoot(v) ==
  Put(v, 0, [kind |-> "root", usedleft |-> v.usedleft, usedright |-> v.usedright])

\* mutation: the root block is not written when blocks are taken on the right
AllocateUnsaved(v, area, count) ==
  CASE area = "left" /\ v.usedleft + count <= Center ->
         WriteRoot([v EXCEPT !.usedleft = @ + count])
    [] area = "right" /\ count < v.usedright /\ v.usedright - count >= Center ->
         [v EXCEPT !.usedright = @ - count]
    [] OTHER -> Fail("full")

\* mutation: the left area may grow beyond the center
AllocateBeyond(v, area, count) ==
  CASE area = "left" /\ v.usedleft + count <= TotalBlocks ->
         WriteRoot([v EXCEPT !.usedleft = @ + count])
    [] area = "right" /\ count < v.usedright /\ v.usedright - count >= Center ->
         WriteRoot([v EXCEPT !.usedright = @ - count])
    [] OTHER -> Fail("full")

(* _allocate_blocks, and the first of the blocks it gives.  Its callers    *)
(* never look whether it is 0.                                             *)
Allocate(v, area, count) ==
  CASE area = "left" /\ v.usedleft + count <= Center ->
         WriteRoot([v EXCEPT !.usedleft = @ + count])
    [] area = "right" /\ count < v.usedright /\ v.usedright - count >= Center ->
         WriteRoot([v EXCEPT !.usedright = @ - count])
    [] OTHER -> Fail("full")
First(v, area, count) ==
  IF area = "left" THEN v.usedleft ELSE v.usedright - count

(* tsfs_root_corruption_check: the root block that was read.               *)
Corrupt(r) ==
  \/ r.kind # "root"
  \/ r.usedright >= TotalBlocks
  \/ r.usedleft < LProtect
  \/ r.usedleft >= r.usedright

(* loadFS                                                                  *)
Load(v) ==
  [v EXCEPT !.usedleft = v.disk[0].usedleft, !.usedright = v.disk[0].usedright]

=============================================================================
