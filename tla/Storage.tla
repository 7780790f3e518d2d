------------------------------- MODULE Storage -------------------------------
(***************************************************************************)
(* What a block device file promises its users, whatever the drive's       *)
(* sectors are: each read, write and seek takes effect at once, on the     *)
(* bytes and the one position of the file.                                 *)
(***************************************************************************)
EXTENDS Integers

CONSTANTS
  Process,   \* who calls
  File,      \* the files: hda, hdb, ...
  Size,      \* the bytes of a file
  Byte,      \* what a byte may be
  Source,    \* what programs write: functions from offsets to bytes
  Count,     \* the numbers of bytes they ask for
  Offset,    \* the offsets they seek by
  LongHalf,  \* 2^63: a position is at least -LongHalf and less than LongHalf
  How        \* SEEK_SET, ...

Address == 0 .. Size - 1

VARIABLES
  data,      \* the bytes of each file
  pos,       \* the position of each
  reply,     \* what the last call of each process returned
  asked      \* the last call of all, with its arguments

vars == <<data, pos, reply, asked>>

Asks(p, f, what) == asked' = [by |-> p, file |-> f, what |-> what]

Returned(n, bytes) == [ret |-> n, errno |-> "none", bytes |-> bytes]
Failed(e) == [ret |-> -1, errno |-> e, bytes |-> <<>>]

(* How much a transfer of n bytes at a position moves.                     *)
Within(at, n) == IF at \notin Address THEN 0 ELSE IF at + n > Size THEN Size - at ELSE n

(* The bytes of a file after n bytes of s were written to it.              *)
Written(bytes, at, s, n) ==
  [a \in Address |-> IF at <= a /\ a < at + n THEN s[a - at] ELSE bytes[a]]

Slice(bytes, at, n) == [i \in 1 .. n |-> bytes[at + i - 1]]

(* The sum n of a position and an offset, as 64 bits have it.              *)
Wrapped(n) ==
  IF n \in -LongHalf .. LongHalf - 1 THEN n
  ELSE IF n < 0 THEN n + 2 * LongHalf ELSE n - 2 * LongHalf

(* Where a seek goes, which may be nowhere in the file.  A seek to data    *)
(* below the first byte is taken for one to data; from so far below, a     *)
(* seek backwards may wrap and come to the file again.                     *)
Target(how, off, at) ==
  IF how = "SEEK_CUR" THEN Wrapped(off + at)
  ELSE IF how = "SEEK_END" THEN Wrapped(off + Size)
  ELSE IF how = "SEEK_HOLE" /\ off <= Size THEN Size ELSE off

SeekError(how, off, at) ==
  IF how \in {"SEEK_SET", "SEEK_CUR", "SEEK_END"}
  THEN IF Target(how, off, at) \in 0 .. Size THEN "none" ELSE "EINVAL"
  ELSE IF how = "SEEK_DATA" THEN IF off < Size THEN "none" ELSE "ENXIO"
  ELSE IF how = "SEEK_HOLE" THEN IF off <= Size THEN "none" ELSE "ENXIO"
  ELSE "EINVAL"

Init ==
  /\ data \in [File -> [Address -> Byte]]
  /\ pos = [f \in File |-> 0]
  /\ reply = [p \in Process |-> Returned(0, <<>>)]
  /\ asked = <<>>

Write(p, f, s, n) ==
  LET k == Within(pos[f], n)
  IN  /\ Asks(p, f, [source |-> s, count |-> n])
      /\ data' = [data EXCEPT ![f] = Written(@, pos[f], s, k)]
      /\ pos' = [pos EXCEPT ![f] = @ + k]
      /\ reply' = [reply EXCEPT ![p] = Returned(k, <<>>)]

Read(p, f, n) ==
  LET k == Within(pos[f], n)
  IN  /\ Asks(p, f, [count |-> n])
      /\ pos' = [pos EXCEPT ![f] = @ + k]
      /\ reply' = [reply EXCEPT ![p] = Returned(k, Slice(data[f], pos[f], k))]
      /\ UNCHANGED data

(* The 64-bit seek, and the 32-bit one, whose result has to fit.           *)
Seek(p, f, how, off, wide) ==
  LET e == SeekError(how, off, pos[f])
      to == Target(how, off, pos[f])
  IN  /\ Asks(p, f, [how |-> how, offset |-> off, wide |-> wide])
      /\ \/ /\ e # "none"
            /\ reply' = [reply EXCEPT ![p] = Failed(e)]
            /\ UNCHANGED pos
         \/ /\ e = "none" /\ to < 0 /\ ~ wide
            /\ reply' = [reply EXCEPT ![p] = Failed("EOVERFLOW")]
            /\ UNCHANGED pos
         \/ /\ e = "none" /\ (to < 0 => wide)
            /\ pos' = [pos EXCEPT ![f] = to]
            /\ reply' = [reply EXCEPT ![p] = Returned(to, <<>>)]
      /\ UNCHANGED data

Next ==
  \E p \in Process, f \in File :
     \/ \E s \in Source, n \in Count : Write(p, f, s, n)
     \/ \E n \in Count : Read(p, f, n)
     \/ \E how \in How, off \in Offset, wide \in BOOLEAN : Seek(p, f, how, off, wide)

Spec == Init /\ [][Next]_vars

=============================================================================
