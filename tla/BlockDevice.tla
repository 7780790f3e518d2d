----------------------------- MODULE BlockDevice -----------------------------
(***************************************************************************)
(* The block device layer (os/kernel/blockdev.h) over the sector transfers *)
(* of a drive (driver/ATA.h): reads and writes of any number of bytes at   *)
(* any position, by processes that share the files hda, hdb, ...           *)
(*                                                                         *)
(* A call holds the Mutex of its file, and a transfer the one of the bus,  *)
(* so a transfer is one action.  One that the drive refuses or that fails  *)
(* moves nothing and is tried again until it succeeds: it is a stutter.    *)
(*                                                                         *)
(* A file is shorter than 2^31 bytes (initATA), so no sum of a position    *)
(* in it and a 32-bit count wraps; those of a seek may.                    *)
(***************************************************************************)
EXTENDS Integers, Sequences

CONSTANTS
  Process, File, Byte, Source, Count, How,   \* as in Storage
  SectorSize,   \* 2^bs
  Sectors,      \* amnt, the sectors of a file
  MaxTransfer,  \* readMax and writeMax, in sectors
  OffHi, OffLo, \* the halves of the offsets that programs seek by
  OffHalf,      \* an off_t is at least -OffHalf and less than OffHalf: 2^31
  MaxCalls,     \* bound: the calls all processes make
  InitData      \* what a file holds at first

Size == Sectors * SectorSize
Address == 0 .. Size - 1
None == "none"

ASSUME DeviceAssumption ==
  /\ SectorSize \in Nat \ {0} /\ Sectors \in Nat \ {0} /\ MaxTransfer \in Nat \ {0}
  /\ OffHalf \in Nat /\ Size < OffHalf
  /\ Count \subseteq Nat
  /\ Source \subseteq [Address -> Byte]
  /\ InitData \in [Address -> Byte]
  /\ OffHi \subseteq -OffHalf .. OffHalf - 1
  /\ OffLo \subseteq -OffHalf .. OffHalf - 1
  /\ None \notin Process
  /\ MaxCalls \in Nat

VARIABLES
  disk,      \* the bytes on each drive
  pos,       \* file->pos
  lock,      \* who holds file->lock
  pc,        \* where each process is in its call
  call,      \* its arguments and the locals of Block_base_write or _read
  buf,       \* the sector buffer on its stack
  got,       \* what a read has put into the caller's memory
  reply,     \* what its last call returned
  asked,     \* history: the last call of all, with its arguments
  calls      \* how many calls were made

vars == <<disk, pos, lock, pc, call, buf, got, reply, asked, calls>>

NoCall == [write |-> FALSE, file |-> None, source |-> InitData,
           at |-> 0, left |-> 0, total |-> 0]
Blank == [i \in 0 .. SectorSize - 1 |-> InitData[0]]

(* _llseek joins the halves of an offset with `|': the low half is an      *)
(* off_t, so its sign fills the high one.                                  *)
Joined(hi, lo) == IF lo < 0 THEN lo ELSE hi * 2 * OffHalf + lo
Offset == OffLo \cup {Joined(hi, lo) : hi \in OffHi, lo \in OffLo}

(* The drives as Storage, a call under way counting as over: its bytes are *)
(* where they will be, and so are the position and what it returns.        *)
Done(p) == call[p].total - call[p].left
Under(f) == {p \in Process : lock[f] = p}

FinishedData ==
  [f \in File |-> [a \in Address |->
     IF \E p \in Under(f) : call[p].write /\ a - call[p].at \in 0 .. call[p].left - 1
     THEN LET p == lock[f] IN call[p].source[Done(p) + a - call[p].at]
     ELSE disk[f][a]]]

FinishedPos ==
  [f \in File |-> IF lock[f] = None THEN pos[f] ELSE pos[f] + call[lock[f]].total]

FinishedReply ==
  [p \in Process |->
     IF pc[p] = "user" THEN reply[p]
     ELSE [ret |-> call[p].total, errno |-> "none",
           bytes |-> got[p] \o [i \in 1 .. (IF call[p].write THEN 0 ELSE call[p].left) |->
                                  disk[call[p].file][call[p].at + i - 1]]]]

LongHalf == 2 * OffHalf * OffHalf     \* of a loff_t, which has twice the bits

S == INSTANCE Storage WITH data <- FinishedData, pos <- FinishedPos, reply <- FinishedReply

Init ==
  /\ disk = [f \in File |-> InitData]
  /\ pos = [f \in File |-> 0]
  /\ lock = [f \in File |-> None]
  /\ pc = [p \in Process |-> "user"]
  /\ call = [p \in Process |-> NoCall]
  /\ buf = [p \in Process |-> Blank]
  /\ got = [p \in Process |-> <<>>]
  /\ reply = [p \in Process |-> S!Returned(0, <<>>)]
  /\ asked = <<>>
  /\ calls = 0

-----------------------------------------------------------------------------
(* Reads and writes.                                                       *)

(* A call in user mode that finds its file free: no step is between the    *)
(* acquisition of its lock and the first transfer.                         *)
Calling(p, f) ==
  /\ pc[p] = "user" /\ lock[f] = None
  /\ calls < MaxCalls /\ calls' = calls + 1

(* Where a call goes on after a transfer.                                  *)
RestUnended(left) ==     \* mutation: a call that ends with whole sectors goes on
  IF left >= SectorSize \/ left = 0 THEN "bulk" ELSE "tail"

Rest(left) ==
  IF left = 0 THEN "done" ELSE IF left >= SectorSize THEN "bulk" ELSE "tail"

Begin(p, f, write, s, n) ==
  /\ Calling(p, f)
  /\ S!Asks(p, f, IF write THEN [source |-> s, count |-> n] ELSE [count |-> n])
  /\ IF pos[f] \notin Address
     THEN /\ reply' = [reply EXCEPT ![p] = S!Returned(0, <<>>)]
          /\ UNCHANGED <<lock, pc, call, got>>
     ELSE LET k == IF pos[f] + n > Size THEN Size - pos[f] ELSE n
          IN  /\ call' = [call EXCEPT ![p] = [write |-> write, file |-> f, source |-> s,
                                               at |-> pos[f], left |-> k, total |-> k]]
              /\ pc' = [pc EXCEPT ![p] =
                          IF pos[f] % SectorSize # 0 THEN "head" ELSE Rest(k)]
              /\ lock' = [lock EXCEPT ![f] = p]
              /\ got' = [got EXCEPT ![p] = <<>>]
              /\ UNCHANGED reply
  /\ UNCHANGED <<disk, pos, buf>>

(* The first byte of the sector that a call has come to, and the sector.   *)
Base(c) == c.at - (c.at % SectorSize)

SectorAtUnread(c) ==     \* mutation: the sector is not read before the merge
  [i \in 0 .. SectorSize - 1 |-> InitData[i]]

SectorAt(c) == [i \in 0 .. SectorSize - 1 |-> disk[c.file][Base(c) + i]]

(* How many bytes the head of a call covers: up to the end of the sector.  *)
HeadCountToEnd(c) ==     \* mutation: up to the end of the sector, whatever the count
  SectorSize - (c.at % SectorSize)

HeadCount(c) ==
  IF (c.at % SectorSize) + c.left > SectorSize THEN SectorSize - (c.at % SectorSize) ELSE c.left

(* How many bytes one transfer of whole sectors moves: the most the drive  *)
(* takes, or the sectors that are left.                                    *)
BulkCount(c) ==
  SectorSize * (IF c.left \div SectorSize >= MaxTransfer THEN MaxTransfer
                ELSE c.left \div SectorSize)

(* The count of the part of a sector at the head or the tail.              *)
PartCount(p) == IF pc[p] \in {"head", "headWrite"} THEN HeadCount(call[p]) ELSE call[p].left

Advance(p, n) ==
  /\ call' = [call EXCEPT ![p].at = @ + n, ![p].left = @ - n]
  /\ pc' = [pc EXCEPT ![p] = Rest(call[p].left - n)]

(* The bytes that a call writes next, byte a of the file being the one at  *)
(* index a here.                                                           *)
SourceAt(c, a) == c.source[c.total - c.left + a - c.at]

ReadSector(p) ==
  LET c == call[p]
      n == PartCount(p)
  IN  /\ pc[p] \in {"head", "tail"}
      /\ buf' = [buf EXCEPT ![p] = SectorAt(c)]
      /\ IF c.write
         THEN /\ pc' = [pc EXCEPT ![p] = IF @ = "head" THEN "headWrite" ELSE "tailWrite"]
              /\ UNCHANGED <<call, got>>
         ELSE /\ got' = [got EXCEPT ![p] =
                           @ \o [i \in 1 .. n |-> buf'[p][(c.at % SectorSize) + i - 1]]]
              /\ Advance(p, n)
      /\ UNCHANGED <<disk, pos, lock, reply, asked, calls>>

(* The buffer with the bytes of the caller in their place, written back.   *)
WriteSector(p) ==
  LET c == call[p]
      n == PartCount(p)
      merged == [a \in Base(c) .. Base(c) + SectorSize - 1 |->
                   IF c.at <= a /\ a < c.at + n THEN SourceAt(c, a) ELSE buf[p][a - Base(c)]]
  IN  /\ pc[p] \in {"headWrite", "tailWrite"}
      /\ disk' = [disk EXCEPT ![c.file] = [a \in Address |->
                    IF a \in DOMAIN merged THEN merged[a] ELSE @[a]]]
      /\ buf' = [buf EXCEPT ![p] = [i \in 0 .. SectorSize - 1 |-> merged[Base(c) + i]]]
      /\ Advance(p, n)
      /\ UNCHANGED <<pos, lock, got, reply, asked, calls>>

TransferSectors(p) ==
  LET c == call[p]
      n == BulkCount(c)
  IN  /\ pc[p] = "bulk"
      /\ IF c.write
         THEN /\ disk' = [disk EXCEPT ![c.file] = [a \in Address |->
                            IF c.at <= a /\ a < c.at + n THEN SourceAt(c, a) ELSE @[a]]]
              /\ UNCHANGED got
         ELSE /\ got' = [got EXCEPT ![p] = @ \o [i \in 1 .. n |-> disk[c.file][c.at + i - 1]]]
              /\ UNCHANGED disk
      /\ Advance(p, n)
      /\ UNCHANGED <<pos, lock, buf, reply, asked, calls>>

Finish(p) ==
  LET c == call[p]
  IN  /\ pc[p] = "done"
      /\ pos' = [pos EXCEPT ![c.file] = @ + c.total]
      /\ reply' = [reply EXCEPT ![p] = S!Returned(c.total, got[p])]
      /\ lock' = [lock EXCEPT ![c.file] = None]
      /\ pc' = [pc EXCEPT ![p] = "user"]
      /\ call' = [call EXCEPT ![p] = NoCall]
      /\ buf' = [buf EXCEPT ![p] = Blank]
      /\ got' = [got EXCEPT ![p] = <<>>]
      /\ UNCHANGED <<disk, asked, calls>>

-----------------------------------------------------------------------------
(* Seeks: one step each, since every use of a position holds the lock.     *)

(* The sum of two loff_t: what is beyond their 64 bits is lost.            *)
LongLong(n) ==
  CASE n >= LongHalf -> n - 2 * LongHalf
    [] n < -LongHalf -> n + 2 * LongHalf
    [] OTHER -> n

(* The new position of a seek, or the error it fails with.                 *)
Sought(f, how, rel) ==
  LET to == CASE how = "SEEK_END" -> LongLong(rel + Size)
              [] how = "SEEK_CUR" -> LongLong(rel + pos[f])
              [] how = "SEEK_HOLE" -> Size
              [] OTHER -> rel
      error == CASE how \in {"SEEK_END", "SEEK_CUR", "SEEK_SET"} ->
                      IF to < 0 \/ to > Size THEN "EINVAL" ELSE "none"
                 [] how = "SEEK_DATA" -> IF rel >= Size THEN "ENXIO" ELSE "none"
                 [] how = "SEEK_HOLE" -> IF rel > Size THEN "ENXIO" ELSE "none"
                 [] OTHER -> "EINVAL"
  IN  [to |-> to, error |-> error]

LLSeek(p, f, how, hi, lo) ==
  LET s == Sought(f, how, Joined(hi, lo))
  IN  /\ Calling(p, f)
      /\ S!Asks(p, f, [how |-> how, offset |-> Joined(hi, lo), wide |-> TRUE])
      /\ IF s.error # "none"
         THEN /\ reply' = [reply EXCEPT ![p] = S!Failed(s.error)]
              /\ UNCHANGED pos
         ELSE /\ reply' = [reply EXCEPT ![p] = S!Returned(s.to, <<>>)]
              /\ pos' = [pos EXCEPT ![f] = s.to]
      /\ UNCHANGED <<disk, lock, pc, call, buf, got>>

(* lseek is _llseek with the sign for a high half, undone when the result  *)
(* is not below 2^32.  It takes the reentrant lock of the file twice.      *)
LSeek(p, f, how, off) ==
  LET s == Sought(f, how, Joined(IF off < 0 THEN -1 ELSE 0, off))
  IN  /\ Calling(p, f)
      /\ S!Asks(p, f, [how |-> how, offset |-> off, wide |-> FALSE])
      /\ IF s.error # "none"
         THEN /\ reply' = [reply EXCEPT ![p] = S!Failed(s.error)]
              /\ UNCHANGED pos
         ELSE IF s.to \notin 0 .. 2 * OffHalf - 1
         THEN /\ reply' = [reply EXCEPT ![p] = S!Failed("EOVERFLOW")]
              /\ UNCHANGED pos
         ELSE /\ reply' = [reply EXCEPT ![p] = S!Returned(s.to, <<>>)]
              /\ pos' = [pos EXCEPT ![f] = s.to]
      /\ UNCHANGED <<disk, lock, pc, call, buf, got>>

-----------------------------------------------------------------------------
Proceed(p) == ReadSector(p) \/ WriteSector(p) \/ TransferSectors(p) \/ Finish(p)

Next ==
  \E p \in Process :
     \/ Proceed(p)
     \/ \E f \in File :
          \/ \E s \in Source, n \in Count : Begin(p, f, TRUE, s, n)
          \/ \E n \in Count : Begin(p, f, FALSE, InitData, n)
          \/ \E how \in How, hi \in OffHi, lo \in OffLo : LLSeek(p, f, how, hi, lo)
          \/ \E how \in How, off \in OffLo : LSeek(p, f, how, off)

(* Fairness: the scheduler runs every process, and a transfer that fails   *)
(* again and again succeeds in the end.                                    *)
Fairness == \A p \in Process : WF_vars(Proceed(p))

Spec == Init /\ [][Next]_vars /\ Fairness

-----------------------------------------------------------------------------
(* Properties.                                                             *)

(* Type correctness: no position leaves the 64 bits it has, and a call     *)
(* that is under way holds the lock of its file, never runs past the end   *)
(* of the device and has moved what its counts say.                        *)
TypeOK ==
  /\ disk \in [File -> [Address -> Byte]]
  /\ pos \in [File -> -2 * OffHalf * OffHalf .. Size]
  /\ lock \in [File -> Process \cup {None}]
  /\ pc \in [Process -> {"user", "head", "headWrite", "bulk", "tail", "tailWrite", "done"}]
  /\ buf \in [Process -> [0 .. SectorSize - 1 -> Byte]]
  /\ calls \in 0 .. MaxCalls
  /\ \A p \in Process :
       pc[p] # "user" =>
         LET c == call[p]
         IN  /\ lock[c.file] = p
             /\ c.left \in 0 .. c.total
             /\ c.at = pos[c.file] + Done(p) /\ c.at + c.left <= Size
             /\ ~ c.write => Len(got[p]) = Done(p)

(* Reads, writes and seeks of any length at any position take effect at    *)
(* once, on the bytes of the device and nothing else, also from positions  *)
(* far below the file, where sums wrap: a write that covers                *)
(* part of a sector leaves the rest of it as it was, the bytes around a    *)
(* write that crosses sectors are not disturbed by the other process, and  *)
(* a read returns the bytes of one moment (Block_base_write and _read).    *)
ImplementsStorage == S!Spec

(* A call that has begun returns, whatever its position and its count.     *)
CallsComplete == \A p \in Process : pc[p] # "user" ~> pc[p] = "user"

=============================================================================
