-------------------------------- MODULE Tsfs --------------------------------
(***************************************************************************)
(* The TSFS file system (os/kernel/filesystems): commands by path, one at  *)
(* a time, as fstesting.c gives them.                                      *)
(*                                                                         *)
(* "all file system operations are invoked in a thread-safe manner"        *)
(* (tsfs_info.txt), and between two of them nothing is held in memory but  *)
(* the counts of the root block: a command is one step, on a mounted       *)
(* volume.                                                                 *)
(***************************************************************************)
EXTENDS TsfsData

CONSTANTS
  Path,      \* bound: the paths, sequences of names
  Written,   \* what a command writes to each path: sequences of bytes
  MaxSize,   \* bound: the bytes of a file
  MaxFiles   \* bound: the files that are ever made

VARIABLES
  vol,       \* the volume
  tree       \* what can be found on the volume: a function of vol, kept for the properties

vars == <<vol, tree>>

ASSUME PathAssumption ==
  \A p \in Path : /\ p # <<>> /\ p \in Seq(Range(p))
                  /\ Len(p) > 1 => Front(p) \in Path
ASSUME WrittenAssumption == \A p \in Path : \A s \in Written[p] : s \in Seq(Range(s))

At(v, p) == Lookup(v, p)
IsFile(v, b) == Is(v, b, "node") /\ v.disk[b].flags = "file"
Files(v) == {p \in Path : IsFile(v, At(v, p))}
Dirs(v) == {p \in Path : IsDir(v, At(v, p))}
Key(v, p) == v.disk[At(v, p)].ikey
HeaderAt(v, p) == Resolve(v, Key(v, p))
ChainOf(v, p) == Chain(v, v.disk[HeaderAt(v, p)].head)
Content(v, p) == FoldLeft(LAMBDA s, b : s \o v.disk[b].data, <<>>, ChainOf(v, p))

(* The blocks that hold a directory or a file, and what is found.          *)
Placed(v, p) ==
  CASE IsDir(v, At(v, p)) -> <<At(v, p), DirBlock(v, At(v, p))>>
    [] IsFile(v, At(v, p)) -> <<At(v, p), HeaderAt(v, p)>> \o ChainOf(v, p)
    [] OTHER -> <<>>
Tree(v) ==
  IF v.health # "ok"
  THEN [store |-> <<>>, dirs |-> {}, placed |-> [p \in Path |-> <<>>]]
  ELSE [store |-> [p \in Files(v) |-> Content(v, p)], dirs |-> Dirs(v),
        placed |-> [p \in Path |-> Placed(v, p)]]

Tables(v) == {b \in Blocks : Is(v, b, "table")}
FilesMade(v) ==
  MapThenSumSet(LAMBDA t : v.disk[t].count, {t \in Tables(v) : v.disk[t].level = 2})

Ready == vol.health = "ok"

(* A command gives up without a change when there is no such directory or  *)
(* file, the name is taken (EEXIST), the node is of the wrong kind, or the *)
(* position is beyond the end.                                             *)
New(p) == IsDir(vol, At(vol, Front(p))) /\ At(vol, p) = 0

Make(p) ==
  /\ Ready /\ New(p) /\ FilesMade(vol) < MaxFiles
  /\ vol' = MkFile(vol, At(vol, Front(p)), Last(p))

MakeDir(p) ==
  /\ Ready /\ New(p)
  /\ vol' = MkDir(vol, At(vol, Front(p)), Last(p))

Write(p, position, bytes) ==
  LET w == DataWrite(vol, Key(vol, p), position, bytes)
  IN /\ w.health = "ok" => Len(Content(w, p)) <= MaxSize
     /\ vol' = w

(* The record of the first block is released twice unless the length is 0: *)
(* the count of its uses is read in memory that was given back.            *)
Shorten(p, length) ==
  \/ vol' = Truncate(vol, Key(vol, p), length)
  \/ length > 0 /\ vol' = Fail("dangling")

UnlinkAt(p) == vol' = Unlink(vol, At(vol, p))

RemoveDir(p) ==
  /\ vol.disk[DirBlock(vol, At(vol, p))].entries = <<>>
  /\ vol' = RmDir(vol, At(vol, p))

(* fsclose, then fsinit: loadFS refuses a root block that looks corrupted. *)
Reopen ==
  /\ Ready
  /\ vol' = IF Corrupt(vol.disk[0]) THEN Fail("corrupt") ELSE Load(vol)

Command ==
  \/ Reopen
  \/ \E p \in Path : Make(p) \/ MakeDir(p)
  \/ /\ Ready
     /\ \/ \E p \in tree.dirs : RemoveDir(p)
        \/ \E p \in DOMAIN tree.store :
             \/ UnlinkAt(p)
             \/ \E n \in 0 .. Len(tree.store[p]) :
                  \/ n < Len(tree.store[p]) /\ Shorten(p, n)
                  \/ \E bytes \in Written[p] : Write(p, n, bytes)

Init == vol = Format /\ tree = Tree(vol)
Next == Command /\ tree' = Tree(vol')
Spec == Init /\ [][Next]_vars
---------------------------------------------------------------------------
Sound == vol.health = "ok"

(* The blocks of a file's data, and those of a directory.                  *)
DataOf(v, p) == {HeaderAt(v, p)} \cup Range(ChainOf(v, p))
NodesOf(v, p) == {At(v, p)} \cup IF p \in Dirs(v) THEN {DirBlock(v, At(v, p))} ELSE {}
Area(v) == [left |-> LProtect .. v.usedleft - 1,
            right |-> v.usedright .. TotalBlocks - 2]
Reserved == {0, 1, 5, 6, TopDir, TopDir + 1}

(* Bounds and kinds of what is kept.                                       *)
TypeOK ==
  /\ vol.health \in Health
  /\ vol.usedleft \in LProtect .. Center
  /\ vol.usedright \in Center .. TotalBlocks - 1
  /\ DOMAIN vol.disk = Blocks

(* "THERE SHALL BE NO GAPS" (tsfs_info.txt:6): the used blocks on the right *)
(* are those of the files, each of one file; the used ones on the left are *)
(* the nodes, the directories' blocks and the tables, each reached by one  *)
(* path or key; and every other block is null.                             *)
NoGaps ==
  Sound =>
    LET owned == {DataOf(vol, p) : p \in Files(vol)}
        nodes == {NodesOf(vol, p) : p \in Files(vol) \cup Dirs(vol)}
    IN /\ InUse(vol) = Reserved \cup Area(vol).left \cup Area(vol).right
       /\ UNION owned = Area(vol).right
       /\ \A p, q \in Files(vol) : p # q => DataOf(vol, p) \cap DataOf(vol, q) = {}
       /\ UNION nodes \cup (Tables(vol) \ Reserved) = Area(vol).left
       /\ \A p, q \in Files(vol) \cup Dirs(vol) :
            p # q => NodesOf(vol, p) \cap NodesOf(vol, q) = {}

(* A file's key leads to its own header; from there its blocks are linked  *)
(* in both directions, none but the first is empty, and the header counts  *)
(* them and their bytes.  That all but the last block are full             *)
(* (tsfs_info.txt:2) is not so: see ImplementsFileStore and its run.       *)
ChainsLinked ==
  Sound => \A p \in Files(vol) :
    LET b == HeaderAt(vol, p)
        h == vol.disk[b]
        c == ChainOf(vol, p)
        d == [i \in DOMAIN c |-> vol.disk[c[i]]]
    IN /\ Is(vol, b, "head") /\ h.ikey = Key(vol, p)
       /\ h.blocks = Len(c) /\ h.size = Len(Content(vol, p))
       /\ d[1].prev_block = b /\ d[Len(c)].next_block = 0
       /\ \A i \in 2 .. Len(c) : d[i].prev_block = c[i - 1] /\ d[i].data # <<>>
       /\ \A i \in DOMAIN c : Len(d[i].data) <= DataSize

(* The references that blocks of structure keep to each other survive that *)
(* they are moved, and no command follows one to a block or a name that is *)
(* not there ("nodes and blocks only refer to each other through ids, this *)
(* allows for them to be rearranged", tsfs_info.txt:29).                    *)
TreeLinked ==
  /\ vol.health # "refused"
  /\ Sound =>
    /\ \A b \in {TopDir} \cup {At(vol, p) : p \in Dirs(vol)} :
         LET e == vol.disk[DirBlock(vol, b)].entries
         IN /\ vol.disk[DirBlock(vol, b)].disk_ref = b
            /\ \A i \in DOMAIN e : /\ vol.disk[e[i].dloc].name = e[i].name
                                   /\ vol.disk[e[i].dloc].pnode = b
            /\ \A i, j \in DOMAIN e : e[i].name = e[j].name => i = j
    /\ \A b \in Tables(vol) :
         LET t == vol.disk[b]
         IN /\ Entry(vol, t.parent, t.index) = b
            /\ b # 6 => t.count = Cardinality({i \in Slot : t.ents[i] # 0})

(* Whenever the volume is closed, it can be opened again and is the same,  *)
(* unless both areas have met: loadFS takes that for a corruption.         *)
Mountable ==
  Sound => /\ Is(vol, 0, "root") /\ Load(vol) = vol
           /\ Corrupt(vol.disk[0]) => vol.usedleft = Center /\ vol.usedright = Center

(* A read that begins in a file's first block gives the bytes the file has *)
(* there and in its second block, as far as they were asked for.  Of a     *)
(* file of one block no more is asked for than it has (see DataRead).      *)
ReadBack ==
  Sound => \A p \in Files(vol) :
    LET c == ChainOf(vol, p)
        first == Len(vol.disk[c[1]].data)
        both == Length(vol, SubSeq(c, 1, Min({2, Len(c)})))
        most == IF Len(c) = 1 THEN first ELSE both + 1
    IN \A at \in 0 .. first - 1 : \A n \in 1 .. most - at :
         DataRead(vol, Key(vol, p), at, n)
           = SubSeq(Content(vol, p), at + 1, Min({at + n, both}))

(* A file can be deleted if it is the one that was extended last, which    *)
(* has the leftmost block of data, if nothing is behind its table of keys  *)
(* (ReleaseSlot), and if the last block of structure, which takes the      *)
(* place of its node, can be moved: a node, but of no directory that has   *)
(* other entries, or a table that no tables refer to.  Each other file is  *)
(* lost with its volume.                                                   *)
LastMoves(v, b) ==
  LET r == v.disk[v.usedleft - 1]
  IN \/ b = v.usedleft - 1
     \/ r.kind = "node" /\ (r.flags = "dir" =>
          \A i \in DOMAIN v.disk[r.parent_loc].entries : v.disk[r.parent_loc].entries[i].dloc = b)
     \/ r.kind = "table" /\ (r.level = 1 => r.count = 0)
LastExtendedGoes ==
  Sound => \A p \in Files(vol) :
    LET k == Key(vol, p)
    IN Unlink(vol, At(vol, p)).health = "ok" <=>
         /\ vol.usedright \in DataOf(vol, p)
         /\ Entry(vol, Entry(vol, 1, k.root), k.l1 + 1) = 0
         /\ LastMoves(vol, At(vol, p))

(* Deletion ends: the loop of _tsfs_free_data counts down to the first     *)
(* live block and stops.                                                   *)
DeletionEnds == vol.health # "runaway"

(* "deletion will not rearrange more blocks than were deleted"             *)
(* (tsfs_info.txt:23).  More: each block of what stays that is elsewhere   *)
(* afterwards fills a place that was freed.                                *)
FewMoves ==
  [][LET stay == {s \in Path \X (1 .. TotalBlocks) :
                    s[2] \in DOMAIN tree.placed[s[1]] \cap DOMAIN tree'.placed[s[1]]}
         was == {tree.placed[s[1]][s[2]] : s \in stay}
         is == {tree'.placed[s[1]][s[2]] : s \in stay}
     IN Cardinality({s \in stay : tree.placed[s[1]][s[2]] # tree'.placed[s[1]][s[2]]})
          <= Cardinality(is \ was)]_vars

(* A command that leaves the volume sound changes one path at most, and    *)
(* that as it should, wherever blocks are moved: it makes an empty file or *)
(* a directory, or removes one, or takes bytes off the end of a file, or   *)
(* puts what is written in its place.  What a write takes away is less     *)
(* than a block: no byte before its position and none of a later block.    *)
Unchanged(p) ==
  /\ p \in tree.dirs <=> p \in tree'.dirs
  /\ p \in DOMAIN tree.store <=> p \in DOMAIN tree'.store
  /\ p \in DOMAIN tree.store => tree'.store[p] = tree.store[p]
Changed(p) ==
  \/ p \notin tree.dirs \cup DOMAIN tree.store /\ (p \in DOMAIN tree'.store => tree'.store[p] = <<>>)
  \/ p \notin tree'.dirs \cup DOMAIN tree'.store
  \/ /\ p \in DOMAIN tree.store \cap DOMAIN tree'.store
     /\ LET old == tree.store[p]
            new == tree'.store[p]
        IN \/ IsPrefix(new, old)
           \/ \E at \in 0 .. Len(old), bytes \in Written[p] :
                \E end \in at .. Min({Len(old), (at + Len(bytes) + DataSize) - 1}) :
                  new = SubSeq(old, 1, at) \o bytes \o SubSeq(old, end + 1, Len(old))
KeepsToItsPath ==
  [][Sound' => \E p \in Path :
       /\ Unchanged(p) \/ Changed(p)
       /\ \A q \in Path \ {p} : Unchanged(q)]_vars

(* A volume gets lost to these commands only: one that needs blocks when   *)
(* an area has too few; closing it when both areas have met; shortening    *)
(* to more than nothing; removing a file that was not extended last, whose *)
(* table has one behind it, or whose node or directory has to give its     *)
(* place to a block that cannot be moved.                                  *)
MostBlocks == Max({2} \cup {(Len(s) \div DataSize) + 1 : s \in UNION {Written[p] : p \in Path}})

(* A command that leaves the volume sound does to the tree of files and    *)
(* their bytes what a file system promises: "the only way to cause the     *)
(* amount of data within a block to decrease is through truncation"        *)
(* (tsfs_info.txt:4).  It does not: a write that ends inside a block takes *)
(* away what the block held behind it.                                     *)
FS == INSTANCE FileStore WITH store <- tree.store, dirs <- tree.dirs
ImplementsFileStore == [][Sound' => FS!Next]_(FS!vars)
=============================================================================
