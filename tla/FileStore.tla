----------------------------- MODULE FileStore -----------------------------
(***************************************************************************)
(* What a file system promises: a tree of directories and files that hold  *)
(* bytes.                                                                  *)
(***************************************************************************)
EXTENDS Sequences, Naturals

CONSTANTS
  Path,     \* the paths: sequences of names
  Written   \* what is written to each in one call: sequences of bytes

VARIABLES
  store,    \* what each file holds
  dirs      \* the directories, without the root

vars == <<store, dirs>>

Init == store = <<>> /\ dirs = {}

Parent(p) == SubSeq(p, 1, Len(p) - 1)
Taken == DOMAIN store \cup dirs
Free(p) == p \notin Taken /\ (Len(p) = 1 \/ Parent(p) \in dirs)
Rest(s, n) == SubSeq(s, n + 1, Len(s))

Create(p) ==
  /\ Free(p)
  /\ store' = [q \in DOMAIN store \cup {p} |-> IF q = p THEN <<>> ELSE store[q]]
  /\ UNCHANGED dirs

MakeDir(p) ==
  /\ Free(p)
  /\ dirs' = dirs \cup {p}
  /\ UNCHANGED store

(* The bytes take the place of as many that were there.                    *)
Write(p, at, bytes) ==
  /\ store' = [store EXCEPT ![p] = SubSeq(@, 1, at) \o bytes \o Rest(@, at + Len(bytes))]
  /\ UNCHANGED dirs

Truncate(p, length) ==
  /\ store' = [store EXCEPT ![p] = SubSeq(@, 1, length)]
  /\ UNCHANGED dirs

Unlink(p) ==
  /\ store' = [q \in DOMAIN store \ {p} |-> store[q]]
  /\ UNCHANGED dirs

RemoveDir(p) ==
  /\ \A q \in Taken : Len(q) = 1 \/ Parent(q) # p
  /\ dirs' = dirs \ {p}
  /\ UNCHANGED store

Next ==
  \/ \E p \in Path : Create(p) \/ MakeDir(p)
  \/ \E p \in dirs : RemoveDir(p)
  \/ \E p \in DOMAIN store :
       \/ Unlink(p)
       \/ \E n \in 0 .. Len(store[p]) :
            \/ Truncate(p, n)
            \/ \E bytes \in Written[p] : Write(p, n, bytes)

Spec == Init /\ [][Next]_vars
=============================================================================
