--------------------------- MODULE TsfsStructure ---------------------------
(***************************************************************************)
(* The left area of a TSFS volume: directories, nodes and the tables of    *)
(* keys, kept without gaps by moving the last block into each that is      *)
(* freed (tsfscore.h, tsfsmanage.h, itable.h).                             *)
(***************************************************************************)
EXTENDS TsfsVolume

(* A directory's entry that leads to a node.  Entries are compared by the  *)
(* hash and some letters of the name first, then by the name: hashes of    *)
(* different names are taken to differ.                                    *)
EntryAt(v, pb, name) ==
  LET E == v.disk[pb].entries
      at == {i \in DOMAIN E : E[i].name = name}
  IN IF at = {} THEN 0 ELSE Min(at)

DirBlock(v, n) == v.disk[n].parent_loc
IsDir(v, n) == Is(v, n, "node") /\ v.disk[n].flags = "dir"

(* tsfs_find, tsfs_resolve_path: 0 when there is no such node.             *)
Find(v, dir, name) ==
  IF ~IsDir(v, dir) \/ EntryAt(v, DirBlock(v, dir), name) = 0 THEN 0
  ELSE v.disk[DirBlock(v, dir)].entries[EntryAt(v, DirBlock(v, dir), name)].dloc
Lookup(v, path) ==
  LET at[i \in 0 .. Len(path)] ==
        IF i = 0 THEN TopDir ELSE Find(v, at[i - 1], path[i])
  IN at[Len(path)]

(* tsfs_add_sn, tsfs_add_sbce, for directories of up to 71 entries         *)
AddEntry(v, pb, name, dloc) ==
  [v EXCEPT !.disk[pb].entries = Append(@, [name |-> name, dloc |-> dloc])]

(* What _tsfs_free_structure does with the last block, s, moved to d.  The *)
(* nodes in a directory, and the tables below a table, go on referring to  *)
(* where it was: their later use of that reference is not followed.        *)
MoveTable(v, s, d) ==
  LET t == v.disk[s]
      moved == Null(Put([v EXCEPT !.disk[t.parent].ents[t.index] = d], d, t), {s})
  IN IF t.level = 1 /\ t.count # 0 THEN Fail("stale") ELSE moved

\* mutation: the directory's block goes on referring to where its node was
MoveNodeAlone(v, s, d) ==
  LET n == v.disk[s]
      moved == Null(Put(v, d, n), {s})
      led(e) == IF e.name = n.name THEN [e EXCEPT !.dloc = d] ELSE e
      found == [moved EXCEPT !.disk[DirBlock(v, n.pnode)].entries =
                  [i \in DOMAIN @ |-> led(@[i])]]
  IN IF n.parent_loc # 0 /\ v.disk[n.parent_loc].entries # <<>> THEN Fail("stale")
     ELSE found

MoveNode(v, s, d) ==
  LET n == v.disk[s]
      moved == Null(Put(v, d, n), {s})
      owned == IF n.parent_loc = 0 THEN moved
               ELSE [moved EXCEPT !.disk[n.parent_loc].disk_ref = d]
      led(e) == IF e.name = n.name THEN [e EXCEPT !.dloc = d] ELSE e
      found == [owned EXCEPT !.disk[DirBlock(v, n.pnode)].entries =
                  [i \in DOMAIN @ |-> led(@[i])]]
  IN IF n.parent_loc # 0 /\ v.disk[n.parent_loc].entries # <<>> THEN Fail("stale")
     ELSE found


FreeStructure(v, b) ==
  LET last == v.usedleft - 1
      w == Null(WriteRoot([v EXCEPT !.usedleft = last]), {b})
  IN IF b >= v.usedleft \/ b < LProtect THEN Fail("refused")
     ELSE CASE b = last -> w
            [] Is(w, last, "table") -> MoveTable(w, last, b)
            [] Is(w, last, "node") -> MoveNode(w, last, b)
            [] OTHER -> Fail("null")

(* Where the node at b is after the block at freed was: the caller's       *)
(* record of it is the one that is moved (tsfs_load_node).                 *)
Held(v, freed, b) == IF b = v.usedleft - 1 THEN freed ELSE b

(* _tsfs_delnode, with _tsfs_delce                                         *)
DelNode(v, b) ==
  LET n == v.disk[b]
      pb == DirBlock(v, n.pnode)
      i == EntryAt(v, pb, n.name)
  IN IF i = 0 THEN Fail("refused")
     ELSE FreeStructure([v EXCEPT !.disk[pb].entries = RemoveAt(@, i)], b)

(* tsfs_mk_dir and tsfs_rmdir; a name that exists, a file and a directory  *)
(* with entries are refused before.                                        *)
MkDir(v, parent, name) ==
  LET b == First(v, "left", 2)
  IN Then(Allocate(v, "left", 2), LAMBDA w :
       AddEntry(Put(Put(w, b, Block(b + 1)), b + 1, Node("dir", name, b, parent)),
                DirBlock(w, parent), name, b + 1))

RmDir(v, b) ==
  Then(FreeStructure([v EXCEPT !.disk[b].parent_loc = 0], DirBlock(v, b)), LAMBDA w :
    DelNode(w, Held(v, DirBlock(v, b), b)))

---------------------------------------------------------------------------
(* itable.h.  A key leads through the root table (blocks 1 to 4, of which  *)
(* one is modelled) and two levels of tables to a file's header.           *)

Entry(v, b, i) == IF i \in DOMAIN v.disk[b].ents THEN v.disk[b].ents[i] ELSE 0
TableOf(v, key) == Entry(v, Entry(v, 1, key.root), key.l1)
Resolve(v, key) == Entry(v, TableOf(v, key), key.l2)
UpdateEntry(v, key, value) ==
  [v EXCEPT !.disk[TableOf(v, key)].ents[key.l2] = value]

(* _search_l2_table, _search_l1_table: the places that can take an entry.  *)
Spare(v, t) ==
  IF v.disk[t].count = TableEntries THEN {} ELSE {i \in Slot : Entry(v, t, i) = 0}
Places(v, l1) ==
  {i \in Slot : Entry(v, l1, i) = 0 \/ Spare(v, Entry(v, l1, i)) # {}}

(* aquire_itable_slot: the key it gives, and what it writes.  When every   *)
(* table is full it gives ITABLE_FAILURE, which its caller takes for a key.*)
Roots(v) ==
  {i \in DOMAIN v.disk[1].ents : Entry(v, 1, i) = 0 \/ Places(v, Entry(v, 1, i)) # {}}
NextKey(v) ==
  LET r == Min(Roots(v))
      l1 == IF Entry(v, 1, r) = 0 THEN 0 ELSE Min(Places(v, Entry(v, 1, r)))
      l2 == IF Entry(v, 1, r) = 0 THEN 0 ELSE Entry(v, Entry(v, 1, r), l1)
  IN [root |-> r, l1 |-> l1, l2 |-> IF l2 = 0 THEN 0 ELSE Min(Spare(v, l2))]

CreateL1(v, key) ==
  LET b == First(v, "left", 1)
  IN Then(Allocate(v, "left", 1), LAMBDA w :
       [Put(w, b, Table(1, key.root, 1, 0, NoEntries)) EXCEPT !.disk[1].ents[key.root] = b])
CreateL2(v, key) ==
  LET b == First(v, "left", 1)
      l1 == Entry(v, 1, key.root)
  IN Then(Allocate(v, "left", 1), LAMBDA w :
       [Put(w, b, Table(2, key.l1, l1, 0, NoEntries))
          EXCEPT !.disk[l1].ents[key.l1] = b, !.disk[l1].count = @ + 1])
AcquireSlot(v, value) ==
  LET key == NextKey(v)
      rooted == IF Roots(v) = {} THEN Fail("full")
                ELSE IF Entry(v, 1, key.root) = 0 THEN CreateL1(v, key) ELSE v
      tabled == Then(rooted, LAMBDA w :
                  IF TableOf(w, key) = 0 THEN CreateL2(w, key) ELSE w)
  IN Then(tabled, LAMBDA w :
       [w EXCEPT !.disk[TableOf(w, key)].ents[key.l2] = value,
                 !.disk[TableOf(w, key)].count = @ + 1])

(* release_itable_slot.  It skips eight bytes of a table's head after it   *)
(* has read four of them, and so finds the entry after the one it seeks.   *)
(* Where there is no table behind that one it writes into the root block,  *)
(* which is whole again when the counts of blocks are next saved; where    *)
(* there is one it clears an entry of it that is another file's.           *)
ReleaseSlot(v, key) ==
  IF Entry(v, Entry(v, 1, key.root), key.l1 + 1) = 0
  THEN Put(v, 0, [kind |-> "overwritten"]) ELSE Fail("stale")

=============================================================================
