------------------------- MODULE Collections_proofs -------------------------
(***************************************************************************)
(* What the kernel's Map promises, proved for every map and every size of  *)
(* a block: a list of blocks that is well formed is a function, and        *)
(* fetching, adding, removing and copying are what they are of a function. *)
(*                                                                         *)
(* The copy of a map and the map of a sequence of pairs are folds.  What a *)
(* fold computes is shown by induction on the number of members it has     *)
(* gone through; the induction is the one on the set of the numbers for    *)
(* which a fact holds (Induction below), so that it needs no theorem with  *)
(* an operator as its parameter.                                           *)
(***************************************************************************)
EXTENDS Collections, SequenceTheorems, WellFoundedInduction, TLAPS

(* Every set of numbers has a least one.                                   *)
LEMMA Least ==
  ASSUME NEW S \in SUBSET Nat, S # {}
  PROVE  \E n \in S : \A m \in S : n <= m
<1> DEFINE R == {ss \in Nat \X Nat : ss[1] < ss[2]}
<1>1. IsWellFoundedOn(R, Nat)
  BY NatLessThanWellFounded DEF OpToRel
<1>2. \E x \in S : \A y \in S : ~(<<y, x>> \in R)
  <2> HIDE DEF R
  <2> QED BY <1>1, WFMin
<1>3. PICK x \in S : \A y \in S : ~(<<y, x>> \in R)
  BY <1>2
<1>4. ASSUME NEW y \in S PROVE x <= y
  <2>1. x \in Nat /\ y \in Nat
    OBVIOUS
  <2>2. <<y, x>> \in Nat \X Nat /\ <<y, x>>[1] = y /\ <<y, x>>[2] = x
    BY <2>1
  <2>3. ~(y < x)
    BY <1>3, <2>2
  <2> QED BY <2>1, <2>3
<1> QED BY <1>4

(* What holds of 0, and of n + 1 when it holds of n, holds of all up to N. *)
LEMMA Induction ==
  ASSUME NEW N \in Nat, NEW S, 0 \in S, \A n \in 0 .. N - 1 : n \in S => n + 1 \in S
  PROVE  \A n \in 0 .. N : n \in S
<1> DEFINE Not == {n \in 0 .. N : n \notin S}
<1>1. SUFFICES ASSUME Not # {} PROVE FALSE
  OBVIOUS
<1>2. Not \in SUBSET Nat
  OBVIOUS
<1>3. PICK n \in Not : \A m \in Not : n <= m
  <2> HIDE DEF Not
  <2> QED BY <1>1, <1>2, Least
<1>4. n \in 1 .. N
  BY <1>3
<1>5. n - 1 \in 0 .. N - 1 /\ n - 1 \notin Not
  BY <1>3, <1>4
<1>6. n - 1 \in S
  BY <1>5
<1> QED BY <1>3, <1>4, <1>5, <1>6

-----------------------------------------------------------------------------

(* The maps with members in a set D of pairs, and the places of a map.     *)
MapOf(D) == {map \in Seq(Seq(D)) : WellFormed(map)}
Pairing(D) == \A d \in D : d = Pair(d.key, d.value)
InMap(map, i, j) == i \in 1 .. Len(map) /\ j \in 1 .. Len(map[i])
OnePlace(map) ==
  \A i, j, i2, j2 \in Nat :
    InMap(map, i, j) /\ InMap(map, i2, j2) /\ map[i][j].key = map[i2][j2].key
      => i = i2 /\ j = j2
Fits(map) == \A i \in 1 .. Len(map) : Len(map[i]) \in 1 .. BlockSize

LEMMA MemberAt ==
  ASSUME NEW D, NEW map \in Seq(Seq(D)), NEW d
  PROVE  d \in Members(map) <=> \E i, j \in Nat : InMap(map, i, j) /\ d = map[i][j]
<1>1. DOMAIN map = 1 .. Len(map) /\ \A i \in 1 .. Len(map) : DOMAIN map[i] = 1 .. Len(map[i])
  OBVIOUS
<1>2. ASSUME d \in Members(map)
      PROVE  \E i, j \in Nat : InMap(map, i, j) /\ d = map[i][j]
  <2>1. PICK block \in Range(map) : d \in Range(block)
    BY <1>2 DEF Members
  <2>2. PICK i \in 1 .. Len(map) : block = map[i]
    BY <2>1, <1>1 DEF Range
  <2>3. PICK j \in 1 .. Len(map[i]) : d = map[i][j]
    BY <2>1, <2>2, <1>1 DEF Range
  <2> QED BY <2>2, <2>3 DEF InMap
<1>3. ASSUME NEW i \in Nat, NEW j \in Nat, InMap(map, i, j), d = map[i][j]
      PROVE  d \in Members(map)
  <2>1. map[i] \in Range(map)
    BY <1>1, <1>3 DEF InMap, Range
  <2>2. d \in Range(map[i])
    BY <1>1, <1>3 DEF InMap, Range
  <2> QED BY <2>1, <2>2 DEF Members
<1> QED BY <1>2, <1>3

LEMMA MemberIn ==
  ASSUME NEW D, NEW map \in Seq(Seq(D))
  PROVE  /\ Members(map) \subseteq D
         /\ \A i, j \in Nat : InMap(map, i, j) =>
              map[i][j] \in Members(map) /\ map[i][j].key \in Keys(map)
<1>1. \A i, j \in Nat : InMap(map, i, j) => map[i][j] \in D
  BY DEF InMap
<1>2. Members(map) \subseteq D
  BY <1>1, MemberAt
<1>3. \A i, j \in Nat : InMap(map, i, j) => map[i][j] \in Members(map)
  BY MemberAt
<1> QED BY <1>2, <1>3 DEF Keys

(* The places of a key, and what WellFormed says of them.                  *)
LEMMA PairsAt ==
  ASSUME NEW D, NEW map \in Seq(Seq(D)), Fits(map), NEW k, NEW i \in Nat, NEW j \in Nat
  PROVE  <<i, j>> \in Map_pairs(k, map) <=> InMap(map, i, j) /\ map[i][j].key = k
<1>1. ASSUME i \in 1 .. Len(map)
      PROVE  j \in 1 .. Len(map[i]) <=> j \in 1 .. BlockSize /\ j <= Len(map[i])
  <2>1. Len(map[i]) \in 1 .. BlockSize
    BY <1>1 DEF Fits
  <2> QED BY <2>1, CollectionsAssumption
<1> QED BY <1>1 DEF Map_pairs, Places, InMap

LEMMA PairsArePlaces ==
  ASSUME NEW k, NEW map
  PROVE  \A f \in Map_pairs(k, map) : f = <<f[1], f[2]>> /\ f[1] \in Nat /\ f[2] \in Nat
<1>1. \A f \in Map_pairs(k, map) : f \in (1 .. Len(map)) \X (1 .. BlockSize)
  BY DEF Map_pairs, Places
<1> QED BY <1>1

LEMMA WellFormedIs ==
  ASSUME NEW D, NEW map \in Seq(Seq(D))
  PROVE  WellFormed(map) <=> Fits(map) /\ OnePlace(map)
<1>1. ASSUME WellFormed(map) PROVE Fits(map) /\ OnePlace(map)
  <2>1. Fits(map)
    BY <1>1 DEF WellFormed, Fits
  <2>2. ASSUME NEW i \in Nat, NEW j \in Nat, NEW i2 \in Nat, NEW j2 \in Nat,
               InMap(map, i, j), InMap(map, i2, j2), map[i][j].key = map[i2][j2].key
        PROVE  i = i2 /\ j = j2
    <3> DEFINE k == map[i][j].key
    <3>1. <<i, j>> \in Map_pairs(k, map) /\ <<i2, j2>> \in Map_pairs(k, map)
      BY <2>1, <2>2, PairsAt
    <3>2. k \in Keys(map)
      BY <2>2, MemberIn
    <3>3. <<i, j>> = <<i2, j2>>
      BY <1>1, <3>1, <3>2 DEF WellFormed
    <3> QED BY <3>3
  <2> QED BY <2>1, <2>2 DEF OnePlace
<1>2. ASSUME Fits(map), OnePlace(map) PROVE WellFormed(map)
  <2>1. ASSUME NEW k, NEW f \in Map_pairs(k, map), NEW g \in Map_pairs(k, map)
        PROVE  f = g
    <3>1. /\ f = <<f[1], f[2]>> /\ f[1] \in Nat /\ f[2] \in Nat
          /\ g = <<g[1], g[2]>> /\ g[1] \in Nat /\ g[2] \in Nat
      BY PairsArePlaces
    <3>2. InMap(map, f[1], f[2]) /\ map[f[1]][f[2]].key = k
      BY <1>2, <3>1, PairsAt
    <3>3. InMap(map, g[1], g[2]) /\ map[g[1]][g[2]].key = k
      BY <1>2, <3>1, PairsAt
    <3> QED BY <1>2, <3>1, <3>2, <3>3 DEF OnePlace
  <2> QED BY <1>2, <2>1 DEF WellFormed, Fits
<1> QED BY <1>1, <1>2

-----------------------------------------------------------------------------

(* The pair with a key is found, at its only place, and no other is.       *)
LEMMA FoundAt ==
  ASSUME NEW D, NEW map \in MapOf(D), NEW i \in Nat, NEW j \in Nat, InMap(map, i, j),
         NEW k, map[i][j].key = k
  PROVE  /\ Map_pairs(k, map) = {<<i, j>>}
         /\ Map_pair(k, map) = map[i][j]
         /\ Map_fetch(k, map) = map[i][j].value
<1>1. map \in Seq(Seq(D)) /\ Fits(map) /\ OnePlace(map)
  BY WellFormedIs DEF MapOf
<1>2. <<i, j>> \in Map_pairs(k, map)
  BY <1>1, PairsAt
<1>3. ASSUME NEW f \in Map_pairs(k, map) PROVE f = <<i, j>>
  <2>1. f = <<f[1], f[2]>> /\ f[1] \in Nat /\ f[2] \in Nat
    BY PairsArePlaces
  <2>2. InMap(map, f[1], f[2]) /\ map[f[1]][f[2]].key = k
    BY <1>1, <2>1, PairsAt
  <2> QED BY <1>1, <2>1, <2>2, ZenonT(40) DEF OnePlace
<1>4. Map_pairs(k, map) = {<<i, j>>}
  BY <1>2, <1>3
<1>5. FirstPlace({<<i, j>>}) = <<i, j>>
  BY DEF FirstPlace
<1>6. Map_pair(k, map) = map[i][j]
  BY <1>4, <1>5 DEF Map_pair
<1>7. Map_pairs(k, map) # {}
  BY <1>4
<1> QED BY <1>4, <1>6, <1>7 DEF Map_fetch

LEMMA NotFound ==
  ASSUME NEW D, NEW map \in MapOf(D), NEW k, k \notin Keys(map)
  PROVE  Map_pairs(k, map) = {} /\ Map_fetch(k, map) = Absent
<1>1. map \in Seq(Seq(D)) /\ Fits(map)
  BY WellFormedIs DEF MapOf
<1>2. ASSUME NEW f \in Map_pairs(k, map) PROVE FALSE
  <2>1. f = <<f[1], f[2]>> /\ f[1] \in Nat /\ f[2] \in Nat
    BY PairsArePlaces
  <2>2. InMap(map, f[1], f[2]) /\ map[f[1]][f[2]].key = k
    BY <1>1, <2>1, PairsAt
  <2> QED BY <1>1, <2>1, <2>2, MemberIn
<1> QED BY <1>2 DEF Map_fetch

(* What is fetched by the key of a pair of the map is its value            *)
(* (Map_fetch, Map_pair).                                                  *)
THEOREM Fetches ==
  ASSUME NEW D, NEW map \in MapOf(D), NEW d \in Members(map)
  PROVE  /\ Map_pairs(d.key, map) # {}
         /\ Map_pair(d.key, map) = d
         /\ Map_fetch(d.key, map) = d.value
<1>1. PICK i, j \in Nat : InMap(map, i, j) /\ d = map[i][j]
  BY MemberAt DEF MapOf
<1> DEFINE k == d.key
<1>2. map[i][j].key = k
  BY <1>1
<1> HIDE DEF k
<1>3. Map_pairs(k, map) = {<<i, j>>} /\ Map_pair(k, map) = d /\ Map_fetch(k, map) = d.value
  BY <1>1, <1>2, FoundAt
<1> QED BY <1>3 DEF k

LEMMA OneMember ==
  ASSUME NEW D, NEW map \in MapOf(D),
         NEW d \in Members(map), NEW e \in Members(map), d.key = e.key
  PROVE  d = e
<1>1. Map_pair(d.key, map) = d /\ Map_pair(e.key, map) = e
  BY Fetches
<1> QED BY <1>1

LEMMA KeyHas ==
  ASSUME NEW map, NEW k
  PROVE  k \in Keys(map) <=> \E d \in Members(map) : d.key = k
BY DEF Keys

LEMMA EmptyMap ==
  ASSUME NEW D
  PROVE  Set_create \in MapOf(D) /\ Members(Set_create) = {}
<1>1. Set_create \in Seq(Seq(D)) /\ Len(Set_create) = 0
  BY DEF Set_create
<1>2. Fits(Set_create) /\ OnePlace(Set_create)
  BY <1>1 DEF Fits, OnePlace, InMap
<1>3. Members(Set_create) = {}
  <2>1. Range(Set_create) = {}
    BY DEF Set_create, Range
  <2> QED BY <2>1 DEF Members
<1> QED BY <1>1, <1>2, <1>3, WellFormedIs DEF MapOf

-----------------------------------------------------------------------------

(* A list that has a member more, at a new place, and is the same else.    *)
HasMore(new, map, a, b, d) ==
  /\ InMap(new, a, b) /\ new[a][b] = d
  /\ \A i, j \in Nat : InMap(map, i, j) => InMap(new, i, j) /\ new[i][j] = map[i][j]
  /\ \A i, j \in Nat : InMap(new, i, j) => InMap(map, i, j) \/ (i = a /\ j = b)

LEMMA Grown ==
  ASSUME NEW D, NEW map \in MapOf(D), NEW new \in Seq(Seq(D)), Fits(new),
         NEW d \in D, d.key \notin Keys(map),
         NEW a \in Nat, NEW b \in Nat, HasMore(new, map, a, b, d)
  PROVE  new \in MapOf(D) /\ Members(new) = Members(map) \cup {d}
<1>0. /\ InMap(new, a, b) /\ new[a][b] = d
      /\ \A i, j \in Nat : InMap(map, i, j) => InMap(new, i, j) /\ new[i][j] = map[i][j]
      /\ \A i, j \in Nat : InMap(new, i, j) => InMap(map, i, j) \/ (i = a /\ j = b)
  BY DEF HasMore
<1>1. map \in Seq(Seq(D)) /\ Fits(map) /\ OnePlace(map)
  BY WellFormedIs DEF MapOf
<1>2. \A i, j \in Nat : InMap(map, i, j) => map[i][j].key # d.key
  BY <1>1, MemberIn
<1>3. OnePlace(new)
  <2>1. SUFFICES ASSUME NEW i \in Nat, NEW j \in Nat, NEW i2 \in Nat, NEW j2 \in Nat,
                        InMap(new, i, j), InMap(new, i2, j2), new[i][j].key = new[i2][j2].key
                 PROVE  i = i2 /\ j = j2
    BY DEF OnePlace
  <2>2. CASE InMap(map, i, j) /\ InMap(map, i2, j2)
    <3>1. map[i][j].key = map[i2][j2].key
      BY <1>0, <2>1, <2>2
    <3> QED BY <1>1, <2>2, <3>1 DEF OnePlace
  <2>3. CASE ~InMap(map, i, j)
    <3>1. i = a /\ j = b /\ new[i][j] = d
      BY <1>0, <2>1, <2>3
    <3>2. new[i2][j2].key = d.key
      BY <2>1, <3>1
    <3>3. InMap(map, i2, j2) => map[i2][j2] = new[i2][j2]
      BY <1>0
    <3>4. ~InMap(map, i2, j2)
      BY <1>2, <3>2, <3>3
    <3> QED BY <1>0, <2>1, <3>1, <3>4
  <2>4. CASE ~InMap(map, i2, j2)
    <3>1. i2 = a /\ j2 = b /\ new[i2][j2] = d
      BY <1>0, <2>1, <2>4
    <3>2. new[i][j].key = d.key
      BY <2>1, <3>1
    <3>3. InMap(map, i, j) => map[i][j] = new[i][j]
      BY <1>0
    <3>4. ~InMap(map, i, j)
      BY <1>2, <3>2, <3>3
    <3> QED BY <1>0, <2>1, <3>1, <3>4
  <2> QED BY <2>2, <2>3, <2>4
<1>4. ASSUME NEW e PROVE e \in Members(new) <=> e \in Members(map) \cup {d}
  <2>1. ASSUME e \in Members(new) PROVE e \in Members(map) \cup {d}
    <3>1. PICK i, j \in Nat : InMap(new, i, j) /\ e = new[i][j]
      BY <2>1, MemberAt
    <3>2. CASE InMap(map, i, j)
      <4>1. e = map[i][j]
        BY <1>0, <3>1, <3>2
      <4> QED BY <1>1, <3>2, <4>1, MemberAt
    <3>3. CASE ~InMap(map, i, j)
      BY <1>0, <3>1, <3>3
    <3> QED BY <3>2, <3>3
  <2>2. ASSUME e \in Members(map) PROVE e \in Members(new)
    <3>1. PICK i, j \in Nat : InMap(map, i, j) /\ e = map[i][j]
      BY <1>1, <2>2, MemberAt
    <3>2. InMap(new, i, j) /\ e = new[i][j]
      BY <1>0, <3>1
    <3> QED BY <3>2, MemberAt
  <2>3. d \in Members(new)
    BY <1>0, MemberAt
  <2> QED BY <2>1, <2>2, <2>3
<1> QED BY <1>3, <1>4, WellFormedIs DEF MapOf

(* Set_add, and with it Map_add, makes a list of a member more: behind the *)
(* members of the first block with room, or in a block of its own.         *)
LEMMA SetAdds ==
  ASSUME NEW D, NEW map \in MapOf(D), NEW d \in D, d.key \notin Keys(map)
  PROVE  Set_add(d, map) \in MapOf(D) /\ Members(Set_add(d, map)) = Members(map) \cup {d}
<1> DEFINE open == {i \in 1 .. Len(map) : Len(map[i]) # BlockSize}
           new == Set_add(d, map)
<1>1. map \in Seq(Seq(D)) /\ Fits(map)
  BY WellFormedIs DEF MapOf
<1>2. CASE open = {}
  <2> DEFINE a == Len(map) + 1
             b == 1
  <2>1. new = Append(map, <<d>>)
    BY <1>2 DEF Set_add
  <2>2. /\ new \in Seq(Seq(D)) /\ Len(new) = a
        /\ \A i \in 1 .. Len(map) : new[i] = map[i]
        /\ new[a] = <<d>>
    BY <1>1, <2>1
  <2>3. Len(new[a]) = b /\ new[a][b] = d
    BY <2>2
  <2>4. a \in Nat /\ b \in Nat /\ Len(map) \in Nat /\ a = Len(map) + 1 /\ b = 1
    BY <1>1
  <2> HIDE DEF new, a, b
  <2>5. \A i \in 1 .. a : i = a \/ i \in 1 .. Len(map)
    BY <2>4
  <2>6. Fits(new)
    <3>1. ASSUME NEW i \in 1 .. Len(new) PROVE Len(new[i]) \in 1 .. BlockSize
      <4>1. CASE i = a
        <5>1. 1 \in 1 .. BlockSize
          BY CollectionsAssumption
        <5>2. Len(new[i]) = 1
          BY <2>3, <2>4, <4>1
        <5> QED BY <5>1, <5>2
      <4>2. CASE i \in 1 .. Len(map)
        BY <1>1, <2>2, <4>2 DEF Fits
      <4> QED BY <2>2, <2>5, <4>1, <4>2
    <3> QED BY <3>1 DEF Fits
  <2>7. InMap(new, a, b)
    BY <2>2, <2>3, <2>4 DEF InMap
  <2>8. \A i, j \in Nat : InMap(map, i, j) => InMap(new, i, j) /\ new[i][j] = map[i][j]
    BY <2>2, <2>4 DEF InMap
  <2>9. ASSUME NEW i \in Nat, NEW j \in Nat, InMap(new, i, j)
        PROVE  InMap(map, i, j) \/ (i = a /\ j = b)
    <3>1. CASE i = a
      <4>1. j \in 1 .. Len(new[a])
        BY <2>9, <3>1 DEF InMap
      <4>2. j \in 1 .. 1
        BY <2>3, <2>4, <4>1
      <4> QED BY <2>4, <3>1, <4>2
    <3>2. CASE i \in 1 .. Len(map)
      BY <2>2, <2>9, <3>2 DEF InMap
    <3> QED BY <2>2, <2>5, <2>9, <3>1, <3>2 DEF InMap
  <2>10. HasMore(new, map, a, b, d)
    BY <2>3, <2>7, <2>8, <2>9 DEF HasMore
  <2>11. new \in MapOf(D) /\ Members(new) = Members(map) \cup {d}
    BY <2>2, <2>4, <2>6, <2>10, Grown
  <2> QED BY <2>11 DEF new
<1>3. CASE open # {}
  <2> DEFINE a == CHOOSE i \in open : \A j \in open : i <= j
             grown == Append(map[a], d)
             b == Len(grown)
  <2>1. open \in SUBSET Nat
    OBVIOUS
  <2>2. \E i \in open : \A j \in open : i <= j
    <3> HIDE DEF open
    <3> QED BY <1>3, <2>1, Least
  <2>3. a \in open
    BY <2>2
  <2>4. new = [map EXCEPT ![a] = grown]
    BY <1>3 DEF Set_add
  <2> HIDE DEF a
  <2>5. a \in 1 .. Len(map) /\ Len(map[a]) # BlockSize /\ map[a] \in Seq(D) /\ Len(map) \in Nat
    BY <1>1, <2>3
  <2>6. /\ grown \in Seq(D) /\ b = Len(map[a]) + 1 /\ grown[b] = d /\ b \in Nat
        /\ \A j \in 1 .. Len(map[a]) : grown[j] = map[a][j]
    BY <2>5
  <2>7. b \in 1 .. BlockSize
    <3>1. Len(map[a]) \in 1 .. BlockSize
      BY <1>1, <2>5 DEF Fits
    <3> QED BY <2>5, <2>6, <3>1, CollectionsAssumption
  <2> HIDE DEF grown
  <2>8. /\ new \in Seq(Seq(D)) /\ Len(new) = Len(map) /\ new[a] = grown
        /\ \A i \in 1 .. Len(map) : i # a => new[i] = map[i]
    <3>1. new \in Seq(Seq(D))
      BY <1>1, <2>4, <2>5, <2>6, ExceptSeq
    <3> QED BY <1>1, <2>4, <2>5, <3>1
  <2>9. Len(new[a]) = b /\ new[a][b] = d /\ Len(map[a]) \in Nat /\ a \in Nat
    BY <2>5, <2>6, <2>8
  <2> HIDE DEF new, b
  <2>10. \A j \in 1 .. b : j = b \/ j \in 1 .. Len(map[a])
    BY <2>6, <2>9
  <2>11. Fits(new)
    <3>1. ASSUME NEW i \in 1 .. Len(new) PROVE Len(new[i]) \in 1 .. BlockSize
      <4>1. CASE i = a
        BY <2>7, <2>9, <4>1
      <4>2. CASE i # a
        BY <1>1, <2>8, <4>2 DEF Fits
      <4> QED BY <4>1, <4>2
    <3> QED BY <3>1 DEF Fits
  <2>12. InMap(new, a, b)
    BY <2>5, <2>7, <2>8, <2>9, <2>6 DEF InMap
  <2>13. ASSUME NEW i \in Nat, NEW j \in Nat, InMap(map, i, j)
         PROVE  InMap(new, i, j) /\ new[i][j] = map[i][j]
    <3>1. CASE i = a
      <4>1. j \in 1 .. Len(map[a])
        BY <2>13, <3>1 DEF InMap
      <4>2. j \in 1 .. b
        BY <2>6, <2>9, <4>1
      <4> QED BY <2>5, <2>6, <2>8, <2>9, <3>1, <4>1, <4>2 DEF InMap
    <3>2. CASE i # a
      BY <2>8, <2>13, <3>2 DEF InMap
    <3> QED BY <3>1, <3>2
  <2>14. ASSUME NEW i \in Nat, NEW j \in Nat, InMap(new, i, j)
         PROVE  InMap(map, i, j) \/ (i = a /\ j = b)
    <3>1. CASE i = a
      BY <2>5, <2>9, <2>10, <2>14, <3>1 DEF InMap
    <3>2. CASE i # a
      BY <2>8, <2>14, <3>2 DEF InMap
    <3> QED BY <3>1, <3>2
  <2>15. HasMore(new, map, a, b, d)
    BY <2>9, <2>12, <2>13, <2>14 DEF HasMore
  <2>16. new \in MapOf(D) /\ Members(new) = Members(map) \cup {d}
    <3>1. a \in Nat /\ b \in Nat /\ new \in Seq(Seq(D))
      BY <2>6, <2>8, <2>9
    <3> QED BY <2>11, <2>15, <3>1, Grown
  <2> QED BY <2>16 DEF new
<1> QED BY <1>2, <1>3

LEMMA Adds ==
  ASSUME NEW D, NEW map \in MapOf(D), NEW k, NEW v, Pair(k, v) \in D
  PROVE  /\ Map_add(k, v, map) \in MapOf(D)
         /\ k \notin Keys(map) =>
              Members(Map_add(k, v, map)) = Members(map) \cup {Pair(k, v)}
         /\ k \in Keys(map) => Map_add(k, v, map) = map
<1>1. Pair(k, v).key = k
  BY DEF Pair
<1>2. CASE k \in Keys(map)
  <2>1. PICK d \in Members(map) : d.key = k
    BY <1>2, KeyHas
  <2>2. Map_pairs(d.key, map) # {}
    BY Fetches
  <2> QED BY <1>2, <2>1, <2>2 DEF Map_add
<1>3. CASE k \notin Keys(map)
  <2>1. Map_add(k, v, map) = Set_add(Pair(k, v), map)
    BY <1>3, NotFound DEF Map_add
  <2>2. Pair(k, v).key \notin Keys(map)
    BY <1>1, <1>3
  <2> QED BY <1>3, <2>1, <2>2, SetAdds
<1> QED BY <1>2, <1>3

-----------------------------------------------------------------------------

(* RemoveAt: the elements behind the place move up by one.                 *)
LEMMA RemovedAt ==
  ASSUME NEW T, NEW s \in Seq(T), NEW c \in 1 .. Len(s)
  PROVE  /\ RemoveAt(s, c) \in Seq(T) /\ Len(RemoveAt(s, c)) = Len(s) - 1
         /\ \A i \in 1 .. Len(s) - 1 :
              RemoveAt(s, c)[i] = IF i < c THEN s[i] ELSE s[i + 1]
<1> DEFINE front == SubSeq(s, 1, c - 1)
           back == SubSeq(s, c + 1, Len(s))
<1>1. /\ front \in Seq(T) /\ Len(front) = c - 1
      /\ \A i \in 1 .. c - 1 : front[i] = s[i]
  <2>1. 1 \in Int /\ c - 1 \in Int /\ \A i \in 1 .. c - 1 : i \in 1 .. Len(s)
    OBVIOUS
  <2>2. \A i \in 1 .. c - 1 : s[i] \in T
    BY <2>1
  <2> QED BY <2>1, <2>2
<1>2. /\ back \in Seq(T) /\ Len(back) = Len(s) - c
      /\ \A i \in 1 .. Len(s) - c : back[i] = s[c + i]
  <2>1. \A i \in c + 1 .. Len(s) : s[i] \in T
    OBVIOUS
  <2> QED BY <2>1
<1>3. RemoveAt(s, c) = front \o back
  BY DEF RemoveAt
<1>4. c \in Nat /\ Len(s) \in Nat /\ 1 <= c /\ c <= Len(s)
  OBVIOUS
<1> HIDE DEF front, back
<1>5. front \o back \in Seq(T) /\ Len(front \o back) = Len(s) - 1
  <2>1. front \o back \in Seq(T) /\ Len(front \o back) = Len(front) + Len(back)
    BY <1>1, <1>2, ConcatProperties
  <2> QED BY <1>1, <1>2, <1>4, <2>1
<1>6. ASSUME NEW i \in 1 .. Len(s) - 1
      PROVE  (front \o back)[i] = IF i < c THEN s[i] ELSE s[i + 1]
  <2>1. CASE i < c
    BY <1>1, <1>2, <1>4, <2>1
  <2>2. CASE ~(i < c)
    <3>1. i - (c - 1) \in 1 .. Len(s) - c
      BY <1>4, <2>2
    <3>2. (front \o back)[i] = back[i - (c - 1)]
      BY <1>1, <1>2, <1>4, <2>2
    <3>3. back[i - (c - 1)] = s[c + (i - (c - 1))]
      BY <1>2, <3>1
    <3> QED BY <1>4, <2>2, <3>2, <3>3
  <2> QED BY <2>1, <2>2
<1> QED BY <1>3, <1>5, <1>6

(* A list that has a member less: each of its places was a place of the    *)
(* map, another than the one that is gone, and they are as many.           *)
HasLess(new, map, a, b, from) ==
  /\ \A i, j \in Nat : InMap(new, i, j) =>
       LET i2 == from[<<i, j>>][1]
           j2 == from[<<i, j>>][2]
       IN /\ i2 \in Nat /\ j2 \in Nat /\ InMap(map, i2, j2) /\ ~(i2 = a /\ j2 = b)
          /\ new[i][j] = map[i2][j2]
  /\ \A i, j, i2, j2 \in Nat :
       InMap(new, i, j) /\ InMap(new, i2, j2) /\ from[<<i, j>>] = from[<<i2, j2>>]
         => i = i2 /\ j = j2
  /\ \A i2, j2 \in Nat : InMap(map, i2, j2) /\ ~(i2 = a /\ j2 = b) =>
       \E i, j \in Nat : InMap(new, i, j) /\ new[i][j] = map[i2][j2]

LEMMA Shrunk ==
  ASSUME NEW D, NEW map \in MapOf(D), NEW new \in Seq(Seq(D)), Fits(new),
         NEW a \in Nat, NEW b \in Nat, InMap(map, a, b),
         NEW from \in [Nat \X Nat -> Nat \X Nat], HasLess(new, map, a, b, from)
  PROVE  new \in MapOf(D) /\ Members(new) = Members(map) \ {map[a][b]}
<1> DEFINE CameFrom(i, j, x, y) ==
             /\ from[<<i, j>>] = <<x, y>> /\ InMap(map, x, y)
             /\ ~(x = a /\ y = b) /\ new[i][j] = map[x][y]
<1>1. map \in Seq(Seq(D)) /\ Fits(map) /\ OnePlace(map)
  BY WellFormedIs DEF MapOf
<1>2. ASSUME NEW i \in Nat, NEW j \in Nat, InMap(new, i, j)
      PROVE  \E x, y \in Nat : CameFrom(i, j, x, y)
  <2>1. from[<<i, j>>] \in Nat \X Nat
    OBVIOUS
  <2>2. PICK f \in Nat \X Nat : from[<<i, j>>] = f
    BY <2>1
  <2>3. f = <<f[1], f[2]>> /\ f[1] \in Nat /\ f[2] \in Nat
    OBVIOUS
  <2>4. /\ InMap(map, f[1], f[2]) /\ ~(f[1] = a /\ f[2] = b)
        /\ new[i][j] = map[f[1]][f[2]]
    BY <1>2, <2>2 DEF HasLess
  <2>5. CameFrom(i, j, f[1], f[2])
    BY <2>2, <2>3, <2>4
  <2> QED BY <2>3, <2>5
<1>3. OnePlace(new)
  <2>1. SUFFICES ASSUME NEW i \in Nat, NEW j \in Nat, NEW i2 \in Nat, NEW j2 \in Nat,
                        InMap(new, i, j), InMap(new, i2, j2), new[i][j].key = new[i2][j2].key
                 PROVE  i = i2 /\ j = j2
    BY DEF OnePlace
  <2>2. PICK x, y \in Nat : CameFrom(i, j, x, y)
    <3> HIDE DEF CameFrom
    <3> QED BY <1>2, <2>1
  <2>3. PICK x2, y2 \in Nat : CameFrom(i2, j2, x2, y2)
    <3> HIDE DEF CameFrom
    <3> QED BY <1>2, <2>1
  <2>4. map[x][y].key = map[x2][y2].key
    BY <2>1, <2>2, <2>3
  <2>5. x = x2 /\ y = y2
    BY <1>1, <2>2, <2>3, <2>4 DEF OnePlace
  <2> QED BY <2>1, <2>2, <2>3, <2>5 DEF HasLess
<1>4. ASSUME NEW d \in Members(new) PROVE d \in Members(map) \ {map[a][b]}
  <2>1. PICK i, j \in Nat : InMap(new, i, j) /\ d = new[i][j]
    BY MemberAt
  <2>2. PICK x, y \in Nat : CameFrom(i, j, x, y)
    <3> HIDE DEF CameFrom
    <3> QED BY <1>2, <2>1
  <2>3. d \in Members(map)
    BY <1>1, <2>1, <2>2, MemberAt
  <2>4. ASSUME map[x][y] = map[a][b] PROVE FALSE
    BY <1>1, <2>2, <2>4 DEF OnePlace
  <2> QED BY <2>1, <2>2, <2>3, <2>4
<1>5. ASSUME NEW d \in Members(map), d # map[a][b] PROVE d \in Members(new)
  <2>1. PICK x, y \in Nat : InMap(map, x, y) /\ d = map[x][y]
    BY <1>1, <1>5, MemberAt
  <2>2. ~(x = a /\ y = b)
    BY <1>5, <2>1
  <2>3. PICK i, j \in Nat : InMap(new, i, j) /\ new[i][j] = map[x][y]
    BY <2>1, <2>2 DEF HasLess
  <2> QED BY <2>1, <2>3, MemberAt
<1> QED BY <1>3, <1>4, <1>5, WellFormedIs DEF MapOf

(* Set_remove, and with it Map_remove: a block of one member leaves the    *)
(* list, and in a longer block the members behind move up.                 *)
LEMMA RemovesBlock ==
  ASSUME NEW D, NEW map \in MapOf(D), NEW a \in Nat, NEW b \in Nat, InMap(map, a, b),
         Len(map[a]) = 1
  PROVE  /\ RemoveAt(map, a) \in MapOf(D)
         /\ Members(RemoveAt(map, a)) = Members(map) \ {map[a][b]}
<1> DEFINE new == RemoveAt(map, a)
           at(i) == IF i < a THEN i ELSE i + 1
           from == [p \in Nat \X Nat |-> <<at(p[1]), p[2]>>]
<1>1. map \in Seq(Seq(D)) /\ Fits(map)
  BY WellFormedIs DEF MapOf
<1>2. a \in 1 .. Len(map) /\ b = 1 /\ Len(map) \in Nat
  BY <1>1 DEF InMap
<1>3. /\ new \in Seq(Seq(D)) /\ Len(new) = Len(map) - 1
      /\ \A i \in 1 .. Len(map) - 1 : new[i] = map[at(i)]
  BY <1>1, <1>2, RemovedAt
<1>4. from \in [Nat \X Nat -> Nat \X Nat]
  OBVIOUS
<1>5. \A i, j \in Nat : from[<<i, j>>] = <<at(i), j>>
  OBVIOUS
<1> HIDE DEF new, from
<1>6. \A i \in 1 .. Len(new) : new[i] = map[at(i)] /\ at(i) \in 1 .. Len(map) /\ at(i) # a
  BY <1>2, <1>3
<1>7. Fits(new)
  BY <1>1, <1>6 DEF Fits
<1>8. HasLess(new, map, a, b, from)
  <2>1. ASSUME NEW i \in Nat, NEW j \in Nat, InMap(new, i, j)
        PROVE  /\ at(i) \in Nat /\ InMap(map, at(i), j) /\ at(i) # a
               /\ new[i][j] = map[at(i)][j]
    BY <1>6, <2>1 DEF InMap
  <2>2. ASSUME NEW i \in Nat, NEW i2 \in Nat, at(i) = at(i2) PROVE i = i2
    BY <1>2, <2>2
  <2>3. ASSUME NEW x \in Nat, NEW y \in Nat, InMap(map, x, y), ~(x = a /\ y = b)
        PROVE  \E i, j \in Nat : InMap(new, i, j) /\ new[i][j] = map[x][y]
    <3> DEFINE i == IF x < a THEN x ELSE x - 1
    <3>1. x # a
      <4>1. ASSUME x = a PROVE FALSE
        <5>1. y \in 1 .. Len(map[a]) /\ y # b
          BY <2>3, <4>1 DEF InMap
        <5>2. y \in 1 .. 1
          BY <5>1
        <5> QED BY <1>2, <5>1, <5>2
      <4> QED BY <4>1
    <3>2. i \in 1 .. Len(new) /\ at(i) = x /\ i \in Nat
      BY <1>2, <1>3, <2>3, <3>1 DEF InMap
    <3> HIDE DEF i
    <3>3. new[i] = map[x]
      BY <1>6, <3>2
    <3>4. InMap(new, i, y) /\ new[i][y] = map[x][y]
      BY <2>3, <3>2, <3>3 DEF InMap
    <3> QED BY <3>2, <3>4
  <2> HIDE DEF at
  <2>4. ASSUME NEW i \in Nat, NEW j \in Nat, InMap(new, i, j)
        PROVE  LET i2 == from[<<i, j>>][1]
                   j2 == from[<<i, j>>][2]
               IN /\ i2 \in Nat /\ j2 \in Nat /\ InMap(map, i2, j2) /\ ~(i2 = a /\ j2 = b)
                  /\ new[i][j] = map[i2][j2]
    <3>1. from[<<i, j>>][1] = at(i) /\ from[<<i, j>>][2] = j
      BY <1>5
    <3> QED BY <2>1, <2>4, <3>1
  <2>5. ASSUME NEW i \in Nat, NEW j \in Nat, NEW i2 \in Nat, NEW j2 \in Nat,
               from[<<i, j>>] = from[<<i2, j2>>]
        PROVE  i = i2 /\ j = j2
    <3>1. <<at(i), j>> = <<at(i2), j2>>
      BY <1>5, <2>5
    <3> QED BY <2>2, <3>1
  <2> QED BY <2>3, <2>4, <2>5 DEF HasLess
<1> QED BY <1>3, <1>4, <1>7, <1>8, Shrunk DEF new

Closed(map, a, b) == [map EXCEPT ![a] = RemoveAt(@, b)]

LEMMA RemovesPlace ==
  ASSUME NEW D, NEW map \in MapOf(D), NEW a \in Nat, NEW b \in Nat, InMap(map, a, b),
         Len(map[a]) # 1
  PROVE  Closed(map, a, b) \in MapOf(D) /\ Members(Closed(map, a, b)) = Members(map) \ {map[a][b]}
<1> DEFINE less == RemoveAt(map[a], b)
           new == Closed(map, a, b)
           at(i, j) == IF i = a /\ b <= j THEN j + 1 ELSE j
           from == [p \in Nat \X Nat |-> <<p[1], at(p[1], p[2])>>]
<1>1. map \in Seq(Seq(D)) /\ Fits(map)
  BY WellFormedIs DEF MapOf
<1>2. /\ a \in 1 .. Len(map) /\ b \in 1 .. Len(map[a]) /\ Len(map) \in Nat
      /\ map[a] \in Seq(D) /\ Len(map[a]) \in 2 .. BlockSize
  <2>1. a \in 1 .. Len(map) /\ b \in 1 .. Len(map[a]) /\ Len(map) \in Nat /\ map[a] \in Seq(D)
    BY <1>1 DEF InMap
  <2>2. Len(map[a]) \in 1 .. BlockSize
    BY <1>1, <2>1 DEF Fits
  <2>3. Len(map[a]) # 1
    OBVIOUS
  <2>4. \A n \in 1 .. BlockSize : n # 1 => n \in 2 .. BlockSize
    BY CollectionsAssumption
  <2> QED BY <2>1, <2>2, <2>3, <2>4
<1>3. /\ less \in Seq(D) /\ Len(less) = Len(map[a]) - 1
      /\ \A j \in 1 .. Len(map[a]) - 1 : less[j] = map[a][IF j < b THEN j ELSE j + 1]
  <2>1. \A j \in 1 .. Len(map[a]) - 1 : less[j] = IF j < b THEN map[a][j] ELSE map[a][j + 1]
    BY <1>2, RemovedAt
  <2> QED BY <1>2, <2>1, RemovedAt
<1> HIDE DEF less
<1>4. new = [map EXCEPT ![a] = less]
  BY DEF less, Closed
<1>5. /\ new \in Seq(Seq(D)) /\ Len(new) = Len(map) /\ new[a] = less
      /\ \A i \in 1 .. Len(map) : i # a => new[i] = map[i]
  <2>1. new \in Seq(Seq(D))
    BY <1>1, <1>2, <1>3, <1>4, ExceptSeq
  <2> QED BY <1>1, <1>2, <1>4, <2>1
<1>6. from \in [Nat \X Nat -> Nat \X Nat]
  <2>1. \A i, j \in Nat : at(i, j) \in Nat
    OBVIOUS
  <2> HIDE DEF at
  <2> QED BY <2>1
<1>7. \A i, j \in Nat : from[<<i, j>>] = <<i, at(i, j)>>
  OBVIOUS
<1> HIDE DEF new, from
<1>8. Fits(new)
  <2>1. ASSUME NEW i \in 1 .. Len(new) PROVE Len(new[i]) \in 1 .. BlockSize
    <3>1. CASE i = a
      BY <1>2, <1>3, <1>5, <3>1, CollectionsAssumption
    <3>2. CASE i # a
      BY <1>1, <1>5, <3>2 DEF Fits
    <3> QED BY <3>1, <3>2
  <2> QED BY <2>1 DEF Fits
<1>9. HasLess(new, map, a, b, from)
  <2>1. ASSUME NEW i \in Nat, NEW j \in Nat, InMap(new, i, j)
        PROVE  /\ at(i, j) \in Nat /\ InMap(map, i, at(i, j)) /\ ~(i = a /\ at(i, j) = b)
               /\ new[i][j] = map[i][at(i, j)]
    <3>1. CASE i = a
      <4>1. j \in 1 .. Len(map[a]) - 1
        BY <1>3, <1>5, <2>1, <3>1 DEF InMap
      <4>2. at(i, j) = IF j < b THEN j ELSE j + 1
        BY <1>2, <3>1
      <4>3. at(i, j) \in 1 .. Len(map[a]) /\ at(i, j) # b /\ at(i, j) \in Nat
        BY <1>2, <4>1, <4>2
      <4>4. new[i][j] = map[i][at(i, j)]
        BY <1>3, <1>5, <3>1, <4>1, <4>2
      <4> QED BY <1>2, <3>1, <4>3, <4>4 DEF InMap
    <3>2. CASE i # a
      BY <1>5, <2>1, <3>2 DEF InMap
    <3> QED BY <3>1, <3>2
  <2>2. ASSUME NEW i \in Nat, NEW j \in Nat, NEW j2 \in Nat, at(i, j) = at(i, j2) PROVE j = j2
    BY <2>2
  <2>3. ASSUME NEW x \in Nat, NEW y \in Nat, InMap(map, x, y), ~(x = a /\ y = b)
        PROVE  \E i, j \in Nat : InMap(new, i, j) /\ new[i][j] = map[x][y]
    <3>1. CASE x = a
      <4> DEFINE j == IF y < b THEN y ELSE y - 1
      <4>1. y \in 1 .. Len(map[a]) /\ y # b
        BY <2>3, <3>1 DEF InMap
      <4>2. /\ j \in 1 .. Len(map[a]) - 1 /\ j \in Nat
            /\ (IF j < b THEN j ELSE j + 1) = y
        BY <1>2, <4>1
      <4> HIDE DEF j
      <4>3. less[j] = map[a][y] /\ j \in 1 .. Len(less)
        BY <1>3, <4>2
      <4>4. InMap(new, a, j) /\ new[a][j] = map[x][y]
        BY <1>2, <1>5, <3>1, <4>3 DEF InMap
      <4> QED BY <4>2, <4>4
    <3>2. CASE x # a
      <4>1. InMap(new, x, y) /\ new[x][y] = map[x][y]
        BY <1>5, <2>3, <3>2 DEF InMap
      <4> QED BY <4>1
    <3> QED BY <3>1, <3>2
  <2> HIDE DEF at
  <2>4. ASSUME NEW i \in Nat, NEW j \in Nat, InMap(new, i, j)
        PROVE  LET i2 == from[<<i, j>>][1]
                   j2 == from[<<i, j>>][2]
               IN /\ i2 \in Nat /\ j2 \in Nat /\ InMap(map, i2, j2) /\ ~(i2 = a /\ j2 = b)
                  /\ new[i][j] = map[i2][j2]
    <3>1. from[<<i, j>>][1] = i /\ from[<<i, j>>][2] = at(i, j)
      BY <1>7
    <3> QED BY <2>1, <2>4, <3>1
  <2>5. ASSUME NEW i \in Nat, NEW j \in Nat, NEW i2 \in Nat, NEW j2 \in Nat,
               from[<<i, j>>] = from[<<i2, j2>>]
        PROVE  i = i2 /\ j = j2
    <3>1. <<i, at(i, j)>> = <<i2, at(i2, j2)>>
      BY <1>7, <2>5
    <3>2. i = i2
      BY <3>1
    <3>3. at(i, j) = at(i, j2)
      BY <3>1, <3>2
    <3> QED BY <2>2, <3>2, <3>3
  <2> QED BY <2>3, <2>4, <2>5 DEF HasLess
<1>10. new \in MapOf(D) /\ Members(new) = Members(map) \ {map[a][b]}
  <2>1. new \in Seq(Seq(D))
    BY <1>5
  <2> HIDE DEF at
  <2>2. Fits(new) /\ HasLess(new, map, a, b, from) /\ from \in [Nat \X Nat -> Nat \X Nat]
    BY <1>6, <1>8, <1>9
  <2> QED BY ONLY <2>1, <2>2, Shrunk, map \in MapOf(D), a \in Nat, b \in Nat, InMap(map, a, b)
<1> QED BY <1>10 DEF new

LEMMA Removes ==
  ASSUME NEW D, NEW map \in MapOf(D), NEW k
  PROVE  /\ Map_remove(k, map) \in MapOf(D)
         /\ Members(Map_remove(k, map)) = {d \in Members(map) : d.key # k}
<1>1. map \in Seq(Seq(D)) /\ Fits(map) /\ OnePlace(map)
  BY WellFormedIs DEF MapOf
<1>2. CASE k \notin Keys(map)
  <2>1. Map_remove(k, map) = map
    BY <1>2, NotFound DEF Map_remove
  <2>2. \A d \in Members(map) : d.key # k
    BY <1>2, KeyHas
  <2>3. Members(map) = {d \in Members(map) : d.key # k}
    BY <2>2
  <2> QED BY <2>1, <2>3
<1>3. CASE k \in Keys(map)
  <2>1. PICK dat \in Members(map) : dat.key = k
    BY <1>3, KeyHas
  <2>2. Map_pairs(k, map) # {} /\ Map_pair(k, map) = dat
    BY <2>1, Fetches
  <2>3. Map_remove(k, map) = Set_remove(dat, map)
    BY <2>2 DEF Map_remove
  <2>4. PICK a, b \in Nat : InMap(map, a, b) /\ dat = map[a][b]
    BY <1>1, MemberAt
  <2> DEFINE places == {f \in (1 .. Len(map)) \X (1 .. BlockSize) :
                         f[2] <= Len(map[f[1]]) /\ map[f[1]][f[2]] = dat}
  <2>5. places = {<<a, b>>}
    <3>1. \A i, j \in Nat :
            i \in 1 .. Len(map) /\ j \in 1 .. BlockSize /\ j <= Len(map[i]) => InMap(map, i, j)
      <4>1. \A i \in 1 .. Len(map) : Len(map[i]) \in 1 .. BlockSize
        BY <1>1 DEF Fits
      <4> QED BY <4>1, CollectionsAssumption DEF InMap
    <3>2. a \in 1 .. Len(map) /\ b \in 1 .. BlockSize /\ b <= Len(map[a])
      <4>1. a \in 1 .. Len(map) /\ b \in 1 .. Len(map[a])
        BY <2>4 DEF InMap
      <4>2. Len(map[a]) \in 1 .. BlockSize
        BY <1>1, <4>1 DEF Fits
      <4> QED BY <4>1, <4>2, CollectionsAssumption
    <3>3. <<a, b>> \in places
      BY <2>4, <3>2
    <3>4. ASSUME NEW f \in places PROVE f = <<a, b>>
      <4>1. /\ f \in (1 .. Len(map)) \X (1 .. BlockSize)
            /\ f[2] <= Len(map[f[1]]) /\ map[f[1]][f[2]] = dat
        BY <3>4
      <4>2. f = <<f[1], f[2]>> /\ f[1] \in Nat /\ f[2] \in Nat /\ InMap(map, f[1], f[2])
        BY <3>1, <4>1
      <4> QED BY <1>1, <2>4, <4>1, <4>2 DEF OnePlace
    <3> QED BY <3>3, <3>4
  <2>6. FirstPlace({<<a, b>>}) = <<a, b>>
    BY DEF FirstPlace
  <2>7. Set_remove(dat, map) =
          IF Len(map[a]) = 1 THEN RemoveAt(map, a) ELSE [map EXCEPT ![a] = RemoveAt(@, b)]
    <3>1. FirstPlace(places) = <<a, b>>
      BY <2>5, <2>6
    <3> DEFINE f == FirstPlace(places)
    <3>2. Set_remove(dat, map) =
            IF Len(map[f[1]]) = 1 THEN RemoveAt(map, f[1])
            ELSE [map EXCEPT ![f[1]] = RemoveAt(@, f[2])]
      BY DEF Set_remove, Places
    <3>3. f[1] = a /\ f[2] = b
      BY <3>1
    <3> HIDE DEF f, places
    <3> QED BY <3>2, <3>3
  <2>8. /\ Set_remove(dat, map) \in MapOf(D)
        /\ Members(Set_remove(dat, map)) = Members(map) \ {dat}
    <3>1. CASE Len(map[a]) = 1
      BY <2>4, <2>7, <3>1, RemovesBlock
    <3>2. CASE Len(map[a]) # 1
      <4>1. Set_remove(dat, map) = Closed(map, a, b)
        BY <2>7, <3>2 DEF Closed
      <4> QED BY <2>4, <3>2, <4>1, RemovesPlace
    <3> QED BY <3>1, <3>2
  <2>9. Members(map) \ {dat} = {d \in Members(map) : d.key # k}
    BY <2>1, OneMember
  <2> QED BY <2>3, <2>8, <2>9
<1> QED BY <1>2, <1>3

LEMMA KeysRemoved ==
  ASSUME NEW D, NEW map \in MapOf(D), NEW k
  PROVE  Keys(Map_remove(k, map)) = Keys(map) \ {k}
BY Removes DEF Keys

-----------------------------------------------------------------------------

(* The fold that adds the pairs <<K[i], V[i]>>, i \in 1 .. N, in order.    *)
Adding(g, K, V, n) ==
  [s \in SUBSET (1 .. n) |->
     IF s = {} THEN Set_create
     ELSE Map_add(K[Max(s)], V[Max(s)], g[s \ {Max(s)}])]

IsSum(g, K, V, n) == g = Adding(g, K, V, n)

LEMMA MaxIs ==
  ASSUME NEW s, NEW n \in s, s \subseteq 1 .. n, n \in Nat
  PROVE  Max(s) = n
<1>1. \A y \in s : n >= y
  OBVIOUS
<1>2. \A x \in s : (\A y \in s : x >= y) => x = n
  OBVIOUS
<1> QED BY <1>1, <1>2 DEF Max

(* A set of numbers up to N has a greatest one, which Max chooses.         *)
LEMMA MaxIn ==
  ASSUME NEW N \in Nat, NEW s \in SUBSET (1 .. N), s # {}
  PROVE  Max(s) \in s
<1> DEFINE up == {N - n : n \in s}
<1>1. up \in SUBSET Nat /\ up # {}
  <2>1. \A n \in s : N - n \in Nat
    OBVIOUS
  <2>2. PICK n \in s : TRUE
    OBVIOUS
  <2>3. N - n \in up
    BY <2>2
  <2> QED BY <2>1, <2>3
<1>2. PICK m \in up : \A y \in up : m <= y
  <2> HIDE DEF up
  <2> QED BY <1>1, Least
<1>3. PICK x \in s : m = N - x
  BY <1>2
<1>4. ASSUME NEW y \in s PROVE x >= y
  <2>1. N - y \in up /\ m <= N - y
    BY <1>2
  <2> QED BY <1>3, <2>1
<1> QED BY <1>4 DEF Max

(* There is a function that the recursive definition of the fold defines.  *)
LEMMA AddingDefined ==
  ASSUME NEW N \in Nat, NEW K, NEW V
  PROVE  \E g : g = Adding(g, K, V, N)
<1> DEFINE S == {n \in 0 .. N : \E g : g = Adding(g, K, V, n)}
<1>1. 0 \in S
  <2> DEFINE g == [s \in SUBSET (1 .. 0) |-> Set_create]
  <2>1. \A s \in SUBSET (1 .. 0) : s = {}
    OBVIOUS
  <2>2. Adding(g, K, V, 0) = [s \in SUBSET (1 .. 0) |-> Set_create]
    BY <2>1 DEF Adding
  <2>3. g = Adding(g, K, V, 0)
    BY <2>2
  <2> QED BY <2>3
<1>2. ASSUME NEW n \in 0 .. N - 1, n \in S PROVE n + 1 \in S
  <2>1. PICK g : g = Adding(g, K, V, n)
    BY <1>2
  <2> DEFINE add(s) == Map_add(K[n + 1], V[n + 1], g[s \ {n + 1}])
             h == [s \in SUBSET (1 .. n + 1) |-> IF n + 1 \in s THEN add(s) ELSE g[s]]
  <2>2. n \in Nat /\ n + 1 \in Nat /\ n + 1 \in 0 .. N
    OBVIOUS
  <2>3. ASSUME NEW s \in SUBSET (1 .. n + 1)
        PROVE  h[s] = IF s = {} THEN Set_create
                      ELSE Map_add(K[Max(s)], V[Max(s)], h[s \ {Max(s)}])
    <3>1. CASE n + 1 \in s
      <4>1. Max(s) = n + 1
        BY <2>2, <3>1, MaxIs
      <4>2. s \ {n + 1} \in SUBSET (1 .. n + 1) /\ n + 1 \notin s \ {n + 1}
        OBVIOUS
      <4>3. h[s \ {n + 1}] = g[s \ {n + 1}]
        BY <4>2
      <4>4. h[s] = add(s)
        BY <3>1
      <4> HIDE DEF h
      <4> QED BY <3>1, <4>1, <4>3, <4>4
    <3>2. CASE n + 1 \notin s
      <4>1. \A t \in SUBSET s : t \in SUBSET (1 .. n) /\ t \in SUBSET (1 .. n + 1) /\ n + 1 \notin t
        <5>1. \A i \in 1 .. n + 1 : i # n + 1 => i \in 1 .. n
          BY <2>2
        <5> QED BY <3>2, <5>1
      <4>2. \A t \in SUBSET s : h[t] = g[t]
        BY <4>1
      <4>3. s \in SUBSET s /\ s \ {Max(s)} \in SUBSET s
        OBVIOUS
      <4>4. g[s] = Adding(g, K, V, n)[s]
        BY <2>1
      <4>5. Adding(g, K, V, n)[s] =
              IF s = {} THEN Set_create
              ELSE Map_add(K[Max(s)], V[Max(s)], g[s \ {Max(s)}])
        BY <4>1, <4>3 DEF Adding
      <4> HIDE DEF h
      <4> QED BY <4>2, <4>3, <4>4, <4>5
    <3> QED BY <3>1, <3>2
  <2>4. h = [s \in SUBSET (1 .. n + 1) |-> h[s]]
    OBVIOUS
  <2> HIDE DEF h
  <2>5. h = Adding(h, K, V, n + 1)
    BY <2>3, <2>4 DEF Adding
  <2> QED BY <2>2, <2>5
<1> HIDE DEF S
<1>3. \A n \in 0 .. N : n \in S
  BY <1>1, <1>2, Induction
<1>4. N \in S
  BY <1>3
<1> QED BY <1>4 DEF S

(* What it adds up to, when equal keys have equal values.                  *)
Agreeing(D, K, V, N) ==
  /\ \A i \in 1 .. N : Pair(K[i], V[i]) \in D
  /\ \A i, j \in 1 .. N : K[i] = K[j] => V[i] = V[j]

LEMMA AddedUp ==
  ASSUME NEW D, NEW N \in Nat, NEW K, NEW V, Agreeing(D, K, V, N),
         NEW g, IsSum(g, K, V, N)
  PROVE  g[1 .. N] \in MapOf(D) /\ Members(g[1 .. N]) = {Pair(K[i], V[i]) : i \in 1 .. N}
<1> DEFINE Up(n) == g[1 .. n] \in MapOf(D) /\ Members(g[1 .. n]) = {Pair(K[i], V[i]) : i \in 1 .. n}
           S == {n \in 0 .. N : Up(n)}
<1>1. \A s \in SUBSET (1 .. N) :
        g[s] = IF s = {} THEN Set_create
               ELSE Map_add(K[Max(s)], V[Max(s)], g[s \ {Max(s)}])
  BY DEF Adding, IsSum
<1>2. 0 \in S
  <2>1. 1 .. 0 = {} /\ {} \in SUBSET (1 .. N)
    OBVIOUS
  <2>2. g[1 .. 0] = Set_create
    BY <1>1, <2>1
  <2>3. {Pair(K[i], V[i]) : i \in 1 .. 0} = {}
    BY <2>1
  <2> QED BY <2>2, <2>3, EmptyMap
<1>3. ASSUME NEW n \in 0 .. N - 1, n \in S PROVE n + 1 \in S
  <2>1. n \in Nat /\ n + 1 \in 1 .. N /\ n + 1 \in 0 .. N /\ n + 1 \in 1 .. n + 1
    OBVIOUS
  <2>2. 1 .. n + 1 \in SUBSET (1 .. N) /\ 1 .. n + 1 # {} /\ (1 .. n + 1) \ {n + 1} = 1 .. n
    BY <2>1
  <2>3. Max(1 .. n + 1) = n + 1
    <3> DEFINE m == n + 1
    <3>1. m \in Nat /\ m \in 1 .. m
      BY <2>1
    <3> HIDE DEF m
    <3>2. Max(1 .. m) = m
      BY <3>1, MaxIs
    <3> QED BY <3>2 DEF m
  <2>4. g[1 .. n + 1] = Map_add(K[n + 1], V[n + 1], g[1 .. n])
    BY <1>1, <2>2, <2>3
  <2>5. g[1 .. n] \in MapOf(D) /\ Members(g[1 .. n]) = {Pair(K[i], V[i]) : i \in 1 .. n}
    BY <1>3
  <2> DEFINE map == g[1 .. n]
             k == K[n + 1]
             v == V[n + 1]
  <2>6. Pair(k, v) \in D
    BY <2>1 DEF Agreeing
  <2>7. {Pair(K[i], V[i]) : i \in 1 .. n + 1} = {Pair(K[i], V[i]) : i \in 1 .. n} \cup {Pair(k, v)}
    <3>1. 1 .. n + 1 = (1 .. n) \cup {n + 1}
      BY <2>1
    <3> QED BY <3>1
  <2>8. CASE k \notin Keys(map)
    BY <2>1, <2>4, <2>5, <2>6, <2>7, <2>8, Adds
  <2>9. CASE k \in Keys(map)
    <3>1. g[1 .. n + 1] = map
      BY <2>4, <2>5, <2>6, <2>9, Adds
    <3>2. PICK d \in Members(map) : d.key = k
      BY <2>9, KeyHas
    <3>3. PICK i \in 1 .. n : d = Pair(K[i], V[i])
      BY <2>5, <3>2
    <3>4. K[i] = k /\ i \in 1 .. N
      BY <3>2, <3>3, <2>1 DEF Pair
    <3>5. V[i] = v
      BY <2>1, <3>4 DEF Agreeing
    <3>6. Pair(k, v) \in Members(map)
      BY <3>2, <3>3, <3>4, <3>5
    <3> QED BY <2>1, <2>5, <2>7, <3>1, <3>6
  <2> QED BY <2>8, <2>9
<1> HIDE DEF S
<1>4. \A n \in 0 .. N : n \in S
  BY <1>2, <1>3, Induction
<1>5. N \in S
  BY <1>4
<1> QED BY <1>5 DEF S

(* A map that is made by adding pairs with different keys has just these   *)
(* pairs: the descriptors and descriptions of the start.                   *)
THEOREM MapOfPairs ==
  ASSUME NEW D, NEW pairs \in Seq(D),
         NEW E, \A i \in 1 .. Len(pairs) : Pair(pairs[i][1], pairs[i][2]) \in E,
         \A i, j \in 1 .. Len(pairs) : pairs[i][1] = pairs[j][1] => i = j
  PROVE  /\ Map_of(pairs) \in MapOf(E)
         /\ Members(Map_of(pairs)) = {Pair(pairs[i][1], pairs[i][2]) : i \in 1 .. Len(pairs)}
<1> DEFINE N == Len(pairs)
           K == [i \in 1 .. N |-> pairs[i][1]]
           V == [i \in 1 .. N |-> pairs[i][2]]
           iterated(g) ==
             [s \in SUBSET DOMAIN pairs |->
                IF s = {} THEN Set_create
                ELSE Map_add(pairs[Max(s)][1], pairs[Max(s)][2], g[s \ {Max(s)}])]
           iter == CHOOSE g : g = iterated(g)
<1>1. N \in Nat /\ DOMAIN pairs = 1 .. N
  OBVIOUS
<1>2. Map_of(pairs) = iter[DOMAIN pairs]
  BY DEF Map_of, FoldLeft, MapThenFoldSet
<1>3. \A g : iterated(g) = Adding(g, K, V, N)
  <2> SUFFICES ASSUME NEW g PROVE iterated(g) = Adding(g, K, V, N)
    OBVIOUS
  <2>1. ASSUME NEW s \in SUBSET (1 .. N), s # {}
        PROVE  pairs[Max(s)][1] = K[Max(s)] /\ pairs[Max(s)][2] = V[Max(s)]
    <3>1. Max(s) \in s
      BY <1>1, <2>1, MaxIn
    <3>2. Max(s) \in 1 .. N
      BY <3>1
    <3> QED BY <3>2
  <2> HIDE DEF K, V, N
  <2> QED BY <1>1, <2>1 DEF Adding
<1>4. IsSum(iter, K, V, N)
  <2>1. PICK g : g = Adding(g, K, V, N)
    BY <1>1, AddingDefined
  <2>2. g = iterated(g)
    BY <1>3, <2>1
  <2>3. iter = iterated(iter)
    <3> HIDE DEF iterated
    <3> QED BY <2>2
  <2> HIDE DEF iter, iterated, K, V, N
  <2> QED BY <1>3, <2>3 DEF IsSum
<1> HIDE DEF iter, iterated
<1>5. Agreeing(E, K, V, N)
  BY DEF Agreeing
<1>6. {Pair(K[i], V[i]) : i \in 1 .. N} = {Pair(pairs[i][1], pairs[i][2]) : i \in 1 .. N}
  OBVIOUS
<1>7. iter[1 .. N] \in MapOf(E) /\ Members(iter[1 .. N]) = {Pair(K[i], V[i]) : i \in 1 .. N}
  <2> HIDE DEF K, V, N
  <2>1. N \in Nat
    BY <1>1
  <2> QED BY <2>1, <1>4, <1>5, AddedUp, ZenonT(30)
<1> QED BY <1>1, <1>2, <1>6, <1>7

-----------------------------------------------------------------------------

(* The members of the blocks one after the other, in the order of the      *)
(* list: what FlattenSeq makes of the first n blocks.                      *)
Flattening(g, map, n) ==
  [i \in 1 .. n |-> IF i = 1 THEN map[i] ELSE g[i - 1] \o map[i]]

LEMMA FlatteningDefined ==
  ASSUME NEW N \in Nat, NEW map
  PROVE  \E g : g = Flattening(g, map, N)
<1> DEFINE S == {n \in 0 .. N : \E g : g = Flattening(g, map, n)}
<1>1. 0 \in S
  <2> DEFINE g == [i \in 1 .. 0 |-> map[i]]
  <2>1. \A i \in 1 .. 0 : FALSE
    OBVIOUS
  <2>2. Flattening(g, map, 0) = g
    BY <2>1 DEF Flattening
  <2> QED BY <2>2
<1>2. ASSUME NEW n \in 0 .. N - 1, n \in S PROVE n + 1 \in S
  <2>1. PICK g : g = Flattening(g, map, n)
    BY <1>2
  <2> DEFINE h == [i \in 1 .. n + 1 |-> IF i = 1 THEN map[i] ELSE g[i - 1] \o map[i]]
  <2>2. n \in Nat /\ n + 1 \in 0 .. N
    OBVIOUS
  <2>3. ASSUME NEW i \in 1 .. n PROVE g[i] = h[i]
    <3>1. g[i] = Flattening(g, map, n)[i]
      BY <2>1
    <3>2. i \in 1 .. n + 1
      BY <2>2
    <3> QED BY <3>1, <3>2 DEF Flattening
  <2>4. ASSUME NEW i \in 1 .. n + 1
        PROVE  h[i] = IF i = 1 THEN map[i] ELSE h[i - 1] \o map[i]
    <3>1. CASE i = 1
      BY <3>1
    <3>2. CASE i # 1
      <4>1. i - 1 \in 1 .. n
        BY <2>2, <3>2
      <4>2. g[i - 1] = h[i - 1]
        BY <2>3, <4>1
      <4> QED BY <3>2, <4>2
    <3> QED BY <3>1, <3>2
  <2>5. h = [i \in 1 .. n + 1 |-> h[i]]
    OBVIOUS
  <2> HIDE DEF h
  <2>6. h = Flattening(h, map, n + 1)
    BY <2>4, <2>5 DEF Flattening
  <2> QED BY <2>2, <2>6
<1> HIDE DEF S
<1>3. \A n \in 0 .. N : n \in S
  BY <1>1, <1>2, Induction
<1>4. N \in S
  BY <1>3
<1> QED BY <1>4 DEF S

LEMMA Joined ==
  ASSUME NEW D, NEW s \in Seq(D), NEW t \in Seq(D)
  PROVE  Range(s \o t) = Range(s) \cup Range(t)
<1>1. /\ DOMAIN s = 1 .. Len(s) /\ DOMAIN t = 1 .. Len(t) /\ Len(s) \in Nat /\ Len(t) \in Nat
      /\ DOMAIN (s \o t) = 1 .. Len(s) + Len(t)
  OBVIOUS
<1>2. ASSUME NEW x \in Range(s \o t) PROVE x \in Range(s) \cup Range(t)
  <2>1. PICK i \in 1 .. Len(s) + Len(t) : x = (s \o t)[i]
    BY <1>1, <1>2 DEF Range
  <2>2. CASE i <= Len(s)
    <3>1. x = s[i] /\ i \in 1 .. Len(s)
      BY <1>1, <2>1, <2>2
    <3> QED BY <1>1, <3>1 DEF Range
  <2>3. CASE ~(i <= Len(s))
    <3>1. x = t[i - Len(s)] /\ i - Len(s) \in 1 .. Len(t)
      BY <1>1, <2>1, <2>3
    <3> QED BY <1>1, <3>1 DEF Range
  <2> QED BY <2>2, <2>3
<1>3. ASSUME NEW x \in Range(s) PROVE x \in Range(s \o t)
  <2>1. PICK i \in 1 .. Len(s) : x = s[i]
    BY <1>1, <1>3 DEF Range
  <2>2. x = (s \o t)[i] /\ i \in 1 .. Len(s) + Len(t)
    BY <1>1, <2>1
  <2> QED BY <1>1, <2>2 DEF Range
<1>4. ASSUME NEW x \in Range(t) PROVE x \in Range(s \o t)
  <2>1. PICK i \in 1 .. Len(t) : x = t[i]
    BY <1>1, <1>4 DEF Range
  <2>2. x = (s \o t)[Len(s) + i] /\ Len(s) + i \in 1 .. Len(s) + Len(t)
    BY <1>1, <2>1
  <2> QED BY <1>1, <2>2 DEF Range
<1> QED BY <1>2, <1>3, <1>4

LEMMA Flattened ==
  ASSUME NEW D, NEW map \in Seq(Seq(D))
  PROVE  FlattenSeq(map) \in Seq(D) /\ Range(FlattenSeq(map)) = Members(map)
<1> DEFINE N == Len(map)
           flatten == CHOOSE g : g = [i \in 1 .. Len(map) |->
                        IF i = 1 THEN map[i] ELSE g[i - 1] \o map[i]]
<1>1. N \in Nat /\ DOMAIN map = 1 .. N /\ \A i \in 1 .. N : map[i] \in Seq(D)
  OBVIOUS
<1>2. Members(map) = UNION {Range(map[i]) : i \in 1 .. N}
  <2>1. Range(map) = {map[i] : i \in 1 .. N}
    BY <1>1 DEF Range
  <2> QED BY <2>1 DEF Members
<1>3. CASE N = 0
  <2>1. FlattenSeq(map) = map
    BY <1>3 DEF FlattenSeq
  <2>2. map = <<>>
    BY <1>3
  <2>3. Range(map) = {} /\ map \in Seq(D)
    BY <2>2 DEF Range
  <2> QED BY <2>1, <2>3 DEF Members
<1>4. CASE N # 0
  <2>1. FlattenSeq(map) = flatten[N]
    BY <1>4 DEF FlattenSeq
  <2>2. flatten = Flattening(flatten, map, N)
    <3>1. PICK g : g = Flattening(g, map, N)
      BY <1>1, FlatteningDefined
    <3> QED BY <3>1 DEF Flattening
  <2> HIDE DEF flatten
  <2>3. \A i \in 1 .. N : flatten[i] = IF i = 1 THEN map[i] ELSE flatten[i - 1] \o map[i]
    BY <2>2 DEF Flattening
  <2> DEFINE Upto(n) == /\ flatten[n] \in Seq(D)
                        /\ Range(flatten[n]) = UNION {Range(map[i]) : i \in 1 .. n}
             S == {n \in 0 .. N : n = 0 \/ Upto(n)}
  <2>4. 0 \in S
    BY <1>1
  <2>5. ASSUME NEW n \in 0 .. N - 1, n \in S PROVE n + 1 \in S
    <3>1. n \in Nat /\ n + 1 \in 1 .. N /\ n + 1 \in 0 .. N
      BY <1>1
    <3>2. CASE n = 0
      <4>0. n + 1 = 1 /\ 1 \in 1 .. N
        BY <3>1, <3>2
      <4>1. flatten[1] = map[1]
        BY <2>3, <4>0
      <4>2. 1 .. 1 = {1}
        OBVIOUS
      <4>3. Upto(1)
        BY <1>1, <4>0, <4>1, <4>2
      <4>4. Upto(n + 1)
        BY <4>0, <4>3
      <4> HIDE DEF Upto
      <4> QED BY <3>1, <4>4
    <3>3. CASE n # 0
      <4>1. flatten[n + 1] = flatten[n] \o map[n + 1]
        <5>1. n + 1 # 1 /\ (n + 1) - 1 = n
          BY <3>1, <3>3
        <5>2. flatten[n + 1] = flatten[(n + 1) - 1] \o map[n + 1]
          BY <2>3, <3>1, <5>1
        <5> QED BY <5>1, <5>2
      <4>2. Upto(n)
        BY <2>5, <3>3
      <4>3. flatten[n] \o map[n + 1] \in Seq(D)
        BY <1>1, <3>1, <4>2, ConcatProperties
      <4>4. Range(flatten[n] \o map[n + 1]) = Range(flatten[n]) \cup Range(map[n + 1])
        BY <1>1, <3>1, <4>2, Joined
      <4>5. 1 .. n + 1 = (1 .. n) \cup {n + 1}
        BY <3>1
      <4>6. Upto(n + 1)
        BY <4>1, <4>2, <4>3, <4>4, <4>5
      <4> QED BY <3>1, <4>6
    <3> QED BY <3>2, <3>3
  <2> HIDE DEF S
  <2>6. \A n \in 0 .. N : n \in S
    BY <1>1, <2>4, <2>5, Induction
  <2>7. N \in S
    BY <1>1, <2>6
  <2>8. Upto(N)
    BY <1>4, <2>7 DEF S
  <2> QED BY <1>2, <2>1, <2>8
<1> QED BY <1>3, <1>4

(* A copy of a map has the pairs of the original, each once: what fork     *)
(* gives a child of its parent's descriptors (Map_copy, Set_copy).         *)
THEOREM Copies ==
  ASSUME NEW D, Pairing(D), NEW map \in MapOf(D)
  PROVE  Map_copy(map) \in MapOf(D) /\ Members(Map_copy(map)) = Members(map)
<1> DEFINE flat == FlattenSeq(map)
           N == Len(flat)
           K == [i \in 1 .. N |-> flat[i].key]
           V == [i \in 1 .. N |-> flat[i].value]
           iterated(g) ==
             [s \in SUBSET DOMAIN flat |->
                IF s = {} THEN Set_create
                ELSE Map_add(flat[Max(s)].key, flat[Max(s)].value, g[s \ {Max(s)}])]
           iter == CHOOSE g : g = iterated(g)
<1>1. map \in Seq(Seq(D))
  BY DEF MapOf
<1>2. flat \in Seq(D) /\ Range(flat) = Members(map)
  BY <1>1, Flattened
<1>3. Map_copy(map) = iter[DOMAIN flat]
  BY DEF Map_copy, FoldLeft, MapThenFoldSet
<1> HIDE DEF flat
<1>4. N \in Nat /\ DOMAIN flat = 1 .. N
  BY <1>2
<1>5. \A g : iterated(g) = Adding(g, K, V, N)
  <2> SUFFICES ASSUME NEW g PROVE iterated(g) = Adding(g, K, V, N)
    OBVIOUS
  <2>1. ASSUME NEW s \in SUBSET (1 .. N), s # {}
        PROVE  flat[Max(s)].key = K[Max(s)] /\ flat[Max(s)].value = V[Max(s)]
    <3>1. Max(s) \in s
      BY <1>4, <2>1, MaxIn
    <3>2. Max(s) \in 1 .. N
      BY <3>1
    <3> QED BY <3>2
  <2> HIDE DEF K, V, N
  <2> QED BY <1>4, <2>1 DEF Adding
<1>6. IsSum(iter, K, V, N)
  <2>1. PICK g : g = Adding(g, K, V, N)
    BY <1>4, AddingDefined
  <2>2. g = iterated(g)
    BY <1>5, <2>1
  <2>3. iter = iterated(iter)
    <3> HIDE DEF iterated
    <3> QED BY <2>2
  <2> HIDE DEF iter, iterated, K, V, N
  <2> QED BY <1>5, <2>3 DEF IsSum
<1> HIDE DEF iter, iterated
<1>7. \A i \in 1 .. N : flat[i] \in Members(map) /\ flat[i] \in D
  BY <1>2, <1>4 DEF Range
<1>8. \A i \in 1 .. N : Pair(K[i], V[i]) = flat[i]
  BY <1>7 DEF Pairing
<1>9. Agreeing(D, K, V, N)
  <2>1. ASSUME NEW i \in 1 .. N, NEW j \in 1 .. N, K[i] = K[j] PROVE V[i] = V[j]
    <3>1. flat[i].key = flat[j].key
      BY <2>1
    <3>2. flat[i] = flat[j]
      BY <1>7, <3>1, OneMember
    <3> QED BY <3>2
  <2> HIDE DEF K, V, N
  <2> QED BY <1>7, <1>8, <2>1 DEF Agreeing
<1>10. {Pair(K[i], V[i]) : i \in 1 .. N} = Members(map)
  <2>1. {flat[i] : i \in 1 .. N} = Members(map)
    BY <1>2, <1>4 DEF Range
  <2> HIDE DEF K, V, N
  <2> QED BY <1>8, <2>1
<1>11. iter[1 .. N] \in MapOf(D) /\ Members(iter[1 .. N]) = {Pair(K[i], V[i]) : i \in 1 .. N}
  <2> HIDE DEF K, V, N
  <2> QED BY <1>4, <1>6, <1>9, AddedUp, SMTT(20)
<1> QED BY <1>3, <1>4, <1>10, <1>11

-----------------------------------------------------------------------------

(* The function that a map means.                                          *)
LEMMA Means ==
  ASSUME NEW D, NEW map \in MapOf(D)
  PROVE  /\ DOMAIN Meaning(map) = Keys(map)
         /\ Meaning(map) = [k \in Keys(map) |-> Meaning(map)[k]]
         /\ \A d \in Members(map) : d.key \in Keys(map) /\ Meaning(map)[d.key] = d.value
<1>1. ASSUME NEW d \in Members(map)
      PROVE  d.key \in Keys(map) /\ Meaning(map)[d.key] = d.value
  BY Fetches DEF Keys, Meaning
<1> QED BY <1>1 DEF Meaning

LEMMA SameMembers ==
  ASSUME NEW D, NEW map \in MapOf(D), NEW other \in MapOf(D), Members(map) = Members(other)
  PROVE  Meaning(map) = Meaning(other)
<1>1. Keys(map) = Keys(other)
  BY DEF Keys
<1>2. ASSUME NEW k \in Keys(map) PROVE Map_fetch(k, map) = Map_fetch(k, other)
  <2>1. PICK d \in Members(map) : d.key = k
    BY KeyHas
  <2> QED BY <2>1, Fetches
<1> QED BY <1>1, <1>2 DEF Meaning

(* A function but for a key; and what is left of a map, and what it is     *)
(* with a pair more.                                                       *)
Less(f, k) == [x \in DOMAIN f \ {k} |-> f[x]]
LessIs(map, k, less) == WellFormed(less) /\ Meaning(less) = Less(Meaning(map), k)
MoreIs(map, k, v, more) ==
  WellFormed(more) /\ Less(Meaning(more), k) = Meaning(map) /\ Map_fetch(k, more) = v

(* Removing a key from a map removes it, and no other, from the function,  *)
(* whichever pairs move between the blocks and whichever block goes: that  *)
(* is what Map_remove has to do with any map (os/kernel/obj/Map.h).    *)
THEOREM MeansWithout ==
  ASSUME NEW D, NEW map \in MapOf(D), NEW k
  PROVE  LessIs(map, k, Map_remove(k, map))
<1> DEFINE less == Map_remove(k, map)
<1>1. less \in MapOf(D) /\ Members(less) = {d \in Members(map) : d.key # k}
  BY Removes
<1>2. Keys(less) = Keys(map) \ {k}
  BY KeysRemoved
<1> HIDE DEF less
<1>3. ASSUME NEW x \in Keys(less) PROVE Meaning(less)[x] = Meaning(map)[x]
  <2>1. PICK d \in Members(less) : d.key = x
    BY KeyHas
  <2>2. d \in Members(map)
    BY <1>1
  <2> QED BY <1>1, <2>1, <2>2, Means
<1>4. DOMAIN Meaning(map) = Keys(map)
  BY Means
<1>5. Meaning(less) = [x \in Keys(less) |-> Meaning(less)[x]]
  BY <1>1, Means
<1> QED BY <1>1, <1>2, <1>3, <1>4, <1>5 DEF less, MapOf, LessIs, Less

(* Adding a key that a map has not got adds it, with its value, to the     *)
(* function, and no other: into a block with room, or into a new one       *)
(* (Map_add).                                                              *)
THEOREM MeansWith ==
  ASSUME NEW D, NEW map \in MapOf(D), NEW k, NEW v, Pair(k, v) \in D, k \notin Keys(map)
  PROVE  MoreIs(map, k, v, Map_add(k, v, map))
<1> DEFINE more == Map_add(k, v, map)
<1>1. more \in MapOf(D) /\ Members(more) = Members(map) \cup {Pair(k, v)}
  BY Adds
<1> HIDE DEF more
<1>2. Pair(k, v).key = k /\ Pair(k, v).value = v
  BY DEF Pair
<1>3. Keys(more) = Keys(map) \cup {k}
  BY <1>1, <1>2 DEF Keys
<1>4. DOMAIN Meaning(more) \ {k} = Keys(map)
  BY <1>1, <1>3, Means
<1>5. ASSUME NEW x \in Keys(map) PROVE Meaning(more)[x] = Meaning(map)[x]
  <2>1. PICK d \in Members(map) : d.key = x
    BY KeyHas
  <2>2. d \in Members(more)
    BY <1>1
  <2> QED BY <1>1, <2>1, <2>2, Means
<1>6. Meaning(map) = [x \in Keys(map) |-> Meaning(map)[x]]
  BY Means
<1>7. Map_fetch(k, more) = v
  BY <1>1, <1>2, Fetches
<1> QED BY <1>1, <1>4, <1>5, <1>6, <1>7 DEF more, MapOf, MoreIs, Less

=============================================================================
