------------------------------ MODULE TsfsData ------------------------------
(***************************************************************************)
(* The right area of a TSFS volume: a file's header, which its key leads   *)
(* to, and the chain of blocks that hold its data (tsfscore.h,             *)
(* tsfsmanage.h, tsfshelpers.h).                                           *)
(***************************************************************************)
EXTENDS TsfsStructure

Header(head, ikey) ==
  [kind |-> "head", head |-> head, ikey |-> ikey, refcount |-> 1, size |-> 0, blocks |-> 1]
Data(next_block, prev_block, data) ==
  [kind |-> "data", next_block |-> next_block, prev_block |-> prev_block, data |-> data]

(* The blocks of a chain from b on, and the bytes they hold.               *)
Chain(v, b) ==
  LET from[c \in Blocks] ==
        <<c>> \o IF Is(v, c, "data") /\ v.disk[c].next_block # 0
                 THEN from[v.disk[c].next_block] ELSE <<>>
  IN from[b]
Length(v, s) ==
  LET sum[i \in 0 .. Len(s)] ==
        IF i = 0 THEN 0 ELSE sum[i - 1] + Len(v.disk[s[i]].data)
  IN sum[Len(s)]

(* tsfs_mk_file: a node, and a file without data (_tsfs_make_data).        *)
MakeData(v, b) ==
  LET d == First(v, "right", 2)
      key == NextKey(v)
      keyed == Then(Allocate(v, "right", 2), LAMBDA w : AcquireSlot(w, d + 1))
  IN Then(keyed, LAMBDA w :
       [Put(Put(w, d, Data(0, d + 1, <<>>)), d + 1, Header(d, key))
          EXCEPT !.disk[b].ikey = key])

MkFile(v, parent, name) ==
  LET b == First(v, "left", 1)
      noded == Then(Allocate(v, "left", 1), LAMBDA w :
                 AddEntry(Put(w, b, Node("file", name, 0, parent)),
                          DirBlock(w, parent), name, b))
  IN Then(noded, LAMBDA w : MakeData(w, b))

---------------------------------------------------------------------------
(* data_write, with getcreat_databloc.  A position beyond the end writes   *)
(* nothing.  What fits into the block of the position ends that block,     *)
(* whatever it held after it; what does not fills it, and then the blocks  *)
(* that follow and new ones.                                               *)
WriteWithin(v, h, b, off, bytes) ==
  LET data == SubSeq(v.disk[b].data, 1, off) \o bytes
  IN [v EXCEPT !.disk[b].data = data,
               !.disk[h].size = (@ + Len(data)) - Len(v.disk[b].data)]

(* The bytes for the jth block after the one that was filled, over what    *)
(* that block holds.                                                       *)
Piece(rest, j, old) ==
  LET p == SubSeq(rest, (j - 1) * DataSize + 1, Min({j * DataSize, Len(rest)}))
  IN p \o SubSeq(old, Len(p) + 1, Len(old))

WriteAcross(v, h, chain, k, off, bytes) ==
  LET room == DataSize - off
      rest == SubSeq(bytes, room + 1, Len(bytes))
      need == ((Len(rest) + DataSize) - 1) \div DataSize
      have == Len(chain) - k
      added == IF need > have THEN need - have ELSE 0
      all == chain \o [j \in 1 .. added |-> v.usedright - j]
      old(i) == IF i > Len(chain) THEN <<>> ELSE v.disk[all[i]].data
      new(i) == CASE i = k -> SubSeq(old(k), 1, off) \o SubSeq(bytes, 1, room)
                  [] i \in k + 1 .. k + need -> Piece(rest, i - k, old(i))
                  [] OTHER -> old(i)
      place(b) == CHOOSE i \in DOMAIN all : all[i] = b
      written == [b \in Range(all) |->
        LET i == place(b)
        IN Data(IF i = Len(all) THEN 0 ELSE all[i + 1],
                IF i = 1 THEN h ELSE all[i - 1], new(i))]
  IN Then(IF added = 0 THEN v ELSE Allocate(v, "right", added), LAMBDA w :
       LET x == [w EXCEPT !.disk = [b \in Blocks |-> IF b \in Range(all) THEN written[b] ELSE @[b]]]
       IN [x EXCEPT !.disk[h].size = (@ + Length(x, all)) - Length(v, chain),
                    !.disk[h].blocks = @ + added])

DataWrite(v, key, position, bytes) ==
  LET h == Resolve(v, key)
      chain == Chain(v, v.disk[h].head)
      before(k) == Length(v, SubSeq(chain, 1, k - 1))
      reach == {k \in DOMAIN chain : before(k + 1) >= position}
  IN IF h = 0 \/ position > v.disk[h].size \/ reach = {} THEN v
     ELSE LET k == Min(reach)
              off == position - before(k)
          IN IF Len(bytes) <= DataSize - off
             THEN WriteWithin(v, h, chain[k], off, bytes)
             ELSE WriteAcross(v, h, chain, k, off, bytes)

(* tsfs_traverse, tsfs_traverse_blkno: no data when the file has no such   *)
(* block.  The walk along the chain reads the first block again and again. *)
Traverse(v, h, position) ==
  IF h.blocks <= position \div DataSize THEN Data(0, 0, <<>>) ELSE v.disk[h.head]

(* The root block, read as a block of data: its first word, the version,   *)
(* is taken for the length.                                                *)
VERNOBN == 12
RootBytes == [i \in 1 .. VERNOBN |-> "root"]
NextData(v, d) == IF d.next_block = 0 THEN RootBytes ELSE v.disk[d.next_block].data

\* mutation: all of the first block counts as read
DataReadWhole(v, key, position, size) ==
  LET h == v.disk[Resolve(v, key)]
      first == Traverse(v, h, position)
      off == position % DataSize
      part == SubSeq(first.data, off + 1, Min({off + size, Len(first.data)}))
      more == NextData(v, first)
      left == IF size > Len(first.data) THEN size - Len(first.data) ELSE 0
  IN IF off >= Len(first.data) THEN <<>>
     ELSE part \o SubSeq(more, 1, Min({left, Len(more)}))

(* data_read.  It goes on to one more block, which after the last one of   *)
(* the file is block 0, the root: bytes of it are given for the file's.    *)
DataRead(v, key, position, size) ==
  LET h == v.disk[Resolve(v, key)]
      first == Traverse(v, h, position)
      off == position % DataSize
      part == SubSeq(first.data, off + 1, Min({off + size, Len(first.data)}))
      more == NextData(v, first)
  IN IF off >= Len(first.data) THEN <<>>
     ELSE part \o SubSeq(more, 1, Min({size - Len(part), Len(more)}))

---------------------------------------------------------------------------
(* _tsfs_free_data: the blocks of a chain, and the header if it starts     *)
(* there, become holes.  Live blocks left of a hole are moved into it, run *)
(* by run, until the holes are the leftmost blocks.  Blocks are counted    *)
(* from the first used one.                                                *)
Used(v) == 0 .. (TotalBlocks - v.usedright) - 2

\* mutation: the blocks are marked one place too far to the right
HolesShifted(v, freed) == {(b - v.usedright) + 1 : b \in freed}

Holes(v, freed) == {b - v.usedright : b \in freed}

MoveHeader(v, s, d) ==
  LET h == v.disk[s]
      w == UpdateEntry(Null(Put(v, d, h), {s}), h.ikey, d)
  IN [w EXCEPT !.disk[h.head].prev_block = d]

\* mutation: the data are not moved with the block
MoveDataBlank(v, s, d) ==
  LET b == v.disk[s]
      w == Null(Put(v, d, [b EXCEPT !.data = [i \in DOMAIN @ |-> "0"]]), {s})
      x == IF Is(w, b.prev_block, "head") THEN [w EXCEPT !.disk[b.prev_block].head = d]
           ELSE [w EXCEPT !.disk[b.prev_block].next_block = d]
  IN IF b.next_block = 0 THEN x ELSE [x EXCEPT !.disk[b.next_block].prev_block = d]

MoveData(v, s, d) ==
  LET b == v.disk[s]
      w == Null(Put(v, d, b), {s})
      x == IF Is(w, b.prev_block, "head") THEN [w EXCEPT !.disk[b.prev_block].head = d]
           ELSE [w EXCEPT !.disk[b.prev_block].next_block = d]
  IN IF b.next_block = 0 THEN x ELSE [x EXCEPT !.disk[b.next_block].prev_block = d]

Move(v, s, d) == IF Is(v, s, "head") THEN MoveHeader(v, s, d) ELSE MoveData(v, s, d)

FirstLive(v, holes) == Min((Used(v) \ holes) \cup {Cardinality(Used(v))})
LastHole(holes) == Max(holes)

(* One run: as many live blocks as the last run of holes takes.  When the  *)
(* first of them is block 0, the count of blocks left to move goes below   *)
(* zero and never ends.                                                    *)
MoveRun(v, holes) ==
  LET first == FirstLive(v, holes)
      last == LastHole(holes)
      room == last - Max({i \in 0 .. last : i \notin holes})
      live == Min({n \in 1 .. room : n = room \/ first + n \in holes})
      from(j) == v.usedright + first + (live - j)
      to(j) == v.usedright + (last - j) + 1
      moved[j \in 0 .. live] ==
        IF j = 0 THEN v ELSE Move(Null(moved[j - 1], {to(j)}), from(j), to(j))
  IN [vol |-> IF first = 0 THEN Fail("runaway") ELSE moved[live],
      holes |-> (holes \cup first .. (first + live) - 1) \ ((last - live) + 1 .. last)]

\* mutation: every live block left of a hole is moved, by the holes right of it
CompactedShifted(v, holes) ==
  LET live == {i \in Used(v) : i \notin holes /\ i < LastHole(holes)}
      right(i) == Cardinality({h \in holes : h > i})
      n == Cardinality(live)
      nth(j) == CHOOSE i \in live : Cardinality({k \in live : k > i}) = j - 1
  IN IF FirstLive(v, holes) = 0 THEN Fail("runaway")
     ELSE FoldLeft(LAMBDA w, j : Move(w, v.usedright + nth(j),
                                      v.usedright + nth(j) + right(nth(j))),
                   v, [j \in 1 .. n |-> j])

Compacted(v, holes) ==
  LET n == Cardinality(Used(v))
      Run(s) == IF s.vol.health # "ok" \/ FirstLive(v, s.holes) > LastHole(s.holes) THEN s
                ELSE MoveRun(s.vol, s.holes)
      after[i \in 0 .. n] ==
        IF i = 0 THEN [vol |-> v, holes |-> holes] ELSE Run(after[i - 1])
  IN after[n].vol

Freed(v, b) ==
  {b} \cup Range(Chain(v, IF Is(v, b, "head") THEN v.disk[b].head ELSE b))

\* mutation: the header is not counted among the blocks removed
GiveBackShort(v, removed) ==
  WriteRoot([Null(v, v.usedright .. (v.usedright + removed) - 2)
               EXCEPT !.usedright = (@ + removed) - 1])

GiveBack(v, removed) ==
  WriteRoot([Null(v, v.usedright .. (v.usedright + removed) - 1)
               EXCEPT !.usedright = @ + removed])

FreeData(v, b) ==
  IF b < v.usedright \/ b >= TotalBlocks THEN Fail("refused")
  ELSE Then(Compacted(v, Holes(v, Freed(v, b))), LAMBDA w :
         GiveBack(w, Cardinality(Freed(v, b))))

(* tsfs_unlink: each file has one name.                                    *)
Unlink(v, b) ==
  LET key == v.disk[b].ikey
      h == Resolve(v, key)
      released == ReleaseSlot([v EXCEPT !.disk[h].refcount = @ - 1], key)
  IN Then(Then(released, LAMBDA w : FreeData(w, h)), LAMBDA w :
       DelNode(w, b))

\* mutation: the header goes on counting the blocks that were freed
TruncateUncounted(v, key, length) ==
  LET h == Resolve(v, key)
      head == v.disk[h].head
      next == v.disk[head].next_block
      kept == SubSeq(v.disk[head].data, 1, length)
      cut == [v EXCEPT !.disk[head].next_block = 0, !.disk[head].data = kept,
                       !.disk[h].size = length]
  IN IF length > Len(v.disk[head].data) THEN Fail("dangling")
     ELSE IF next = 0 THEN cut ELSE FreeData(cut, next)

(* tsfs_truncate to a length below the size.  A length beyond the first    *)
(* block is sought with a record that was released.                        *)
Truncate(v, key, length) ==
  LET h == Resolve(v, key)
      head == v.disk[h].head
      next == v.disk[head].next_block
      kept == SubSeq(v.disk[head].data, 1, length)
      cut == [v EXCEPT !.disk[head].next_block = 0, !.disk[head].data = kept,
                       !.disk[h].size = length, !.disk[h].blocks = 1]
  IN IF length > Len(v.disk[head].data) THEN Fail("dangling")
     ELSE IF next = 0 THEN cut ELSE FreeData(cut, next)

=============================================================================
