---------------------------- MODULE Collections ----------------------------
(***************************************************************************)
(* The kernel's Map (os/kernel/obj/Map.h), a Set (os/kernel/obj/Set.h) of  *)
(* pairs.  A Set is a list of blocks of at most SET_BS - 2 members; it is  *)
(* searched from the first block on, filled where there is room first, and *)
(* a block that gets empty leaves the list.                                *)
(***************************************************************************)
EXTENDS Integers, Sequences, SequencesExt

CONSTANTS
  BlockSize,    \* SET_BS - 2, the members of a block
  Absent        \* (uintptr) (-1)

ASSUME CollectionsAssumption == BlockSize \in Nat \ {0}

Pair(k, v) == [key |-> k, value |-> v]

Set_create == <<>>

(* The block where the search of a member ends, and the place in it.       *)
Places(P(_), set) ==
  {f \in (1 .. Len(set)) \X (1 .. BlockSize) :
     f[2] <= Len(set[f[1]]) /\ P(set[f[1]][f[2]])}
FirstPlace(places) ==
  CHOOSE f \in places : \A g \in places : f[1] < g[1] \/ (f[1] = g[1] /\ f[2] <= g[2])

Set_add(dat, set) ==
  LET open == {i \in 1 .. Len(set) : Len(set[i]) # BlockSize}
  IN IF open = {} THEN Append(set, <<dat>>)
     ELSE LET i == CHOOSE i \in open : \A j \in open : i <= j
          IN [set EXCEPT ![i] = Append(@, dat)]

Set_removeKeepingBlock(dat, set) ==    \* mutation: the block that got empty stays
  LET f == FirstPlace(Places(LAMBDA d : d = dat, set))
  IN [set EXCEPT ![f[1]] = RemoveAt(@, f[2])]

Set_remove(dat, set) ==
  LET f == FirstPlace(Places(LAMBDA d : d = dat, set))
  IN IF Len(set[f[1]]) = 1 THEN RemoveAt(set, f[1])
     ELSE [set EXCEPT ![f[1]] = RemoveAt(@, f[2])]

(* Set_containsByCompare with Map_compare: the pair of a key.              *)
Map_pairs(key, map) == Places(LAMBDA d : d.key = key, map)
Map_pair(key, map) ==
  LET f == FirstPlace(Map_pairs(key, map)) IN map[f[1]][f[2]]

Map_add(key, value, map) ==
  IF Map_pairs(key, map) # {} THEN map ELSE Set_add(Pair(key, value), map)

Map_fetch(key, map) ==
  IF Map_pairs(key, map) = {} THEN Absent ELSE Map_pair(key, map).value

Map_remove(key, map) ==
  IF Map_pairs(key, map) = {} THEN map ELSE Set_remove(Map_pair(key, map), map)

(* Map_findByCompare visits every pair in the order of the list.           *)
Map_copy(map) ==
  FoldLeft(LAMBDA nm, d : Map_add(d.key, d.value, nm), Set_create, FlattenSeq(map))

Map_of(pairs) ==      \* a map to which the pairs were added, one after the other
  FoldLeft(LAMBDA m, d : Map_add(d[1], d[2], m), Set_create, pairs)

-----------------------------------------------------------------------------

(* What a map means: a function from its keys to their values.             *)
Members(map) == UNION {Range(block) : block \in Range(map)}
Keys(map) == {d.key : d \in Members(map)}
Meaning(map) == [k \in Keys(map) |-> Map_fetch(k, map)]

(* The blocks are neither empty nor too full, and no key is there twice.   *)
WellFormed(map) ==
  /\ \A i \in 1 .. Len(map) : Len(map[i]) \in 1 .. BlockSize
  /\ \A k \in Keys(map) : \A f, g \in Map_pairs(k, map) : f = g

=============================================================================
