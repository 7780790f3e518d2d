-------------------------- MODULE BlockDevice_proofs --------------------------
(***************************************************************************)
(* What BlockDevice guarantees for any number of processes and drives, any *)
(* size of the sectors and of the largest transfer, and any counts and     *)
(* offsets: types, and that the drives are the files of Storage.           *)
(*                                                                         *)
(* The invariant says where in its bytes a call is at each stage: a part   *)
(* of a sector is left only at its head and at its tail, and the buffer    *)
(* that is about to be written holds what the drive still holds.           *)
(***************************************************************************)
EXTENDS BlockDevice, TLAPS

Call == [write : BOOLEAN, file : File \cup {None}, source : [Address -> Byte],
         at : Nat, left : Nat, total : Nat]

(* TypeOK, and the types of the variables it says nothing about.           *)
Types ==
  /\ TypeOK
  /\ call \in [Process -> Call]
  /\ got \in [Process -> Seq(Byte)]
  /\ reply = [p \in Process |-> reply[p]]

(* The bytes that a call has moved, and those it has still to move.        *)
CountInv(p) ==
  LET c == call[p]
  IN  /\ c.file \in File /\ lock[c.file] = p
      /\ c.left \in 0 .. c.total
      /\ c.at = pos[c.file] + (c.total - c.left) /\ c.at + c.left <= Size
      /\ 0 <= pos[c.file]
      /\ c.write => got[p] = <<>>
      /\ ~ c.write => Len(got[p]) = c.total - c.left

(* Where in a sector it is at each stage.                                  *)
StageInv(p) ==
  LET c == call[p]
  IN  /\ pc[p] \in {"head", "headWrite"} => c.at < Size
      /\ pc[p] \in {"bulk", "tail", "tailWrite"} => c.at % SectorSize = 0
      /\ pc[p] = "bulk" => SectorSize <= c.left
      /\ pc[p] \in {"tail", "tailWrite"} => 0 < c.left /\ c.left < SectorSize
      /\ pc[p] \in {"headWrite", "tailWrite"} => c.write /\ buf[p] = SectorAt(c)
      /\ pc[p] = "done" => c.left = 0

CallInv(p) == pc[p] # "user" => CountInv(p) /\ StageInv(p)

(* A lock is held for the call of its owner.                               *)
LockInv ==
  \A f \in File, p \in Process : lock[f] = p => pc[p] # "user" /\ call[p].file = f

IInv == Types /\ LockInv /\ \A p \in Process : CallInv(p)

-----------------------------------------------------------------------------
(* Sectors.                                                                *)

LEMMA Sizes ==
  /\ SectorSize \in Nat /\ 0 < SectorSize
  /\ Size \in Nat /\ 0 < Size /\ Size < OffHalf /\ OffHalf \in Nat
  /\ None \notin Process /\ InitData \in [Address -> Byte]
  /\ Source \subseteq [Address -> Byte] /\ Count \subseteq Nat /\ MaxCalls \in Nat
<1>1. \A x, y \in Nat \ {0} : x * y \in Nat /\ 0 < x * y
  OBVIOUS
<1> QED BY <1>1, DeviceAssumption DEF DeviceAssumption, Size

LEMMA Split ==
  ASSUME NEW d \in Nat, 0 < d, NEW x \in Nat
  PROVE  /\ x \div d \in Nat /\ x % d \in 0 .. d - 1
         /\ x = d * (x \div d) + (x % d)
OBVIOUS

LEMMA Whole ==
  ASSUME NEW d \in Nat, 0 < d, NEW k \in Nat
  PROVE  (d * k) % d = 0
<1> DEFINE q == (d * k) \div d
           r == (d * k) % d
<1>1. d * k \in Nat
  OBVIOUS
<1>2. q \in Nat /\ r \in 0 .. d - 1 /\ d * k = d * q + r
  BY <1>1, Split
<1> HIDE DEF q, r
<1>3. CASE k > q
  <2>1. PICK m \in Nat : k = q + 1 + m
    BY <1>2, <1>3, k - q - 1 \in Nat
  <2>2. d * k = d * q + d + d * m /\ d * m \in Nat
    BY <1>2, <2>1
  <2> QED BY <1>2, <2>2
<1>4. CASE k < q
  <2>1. PICK m \in Nat : q = k + 1 + m
    BY <1>2, <1>4, q - k - 1 \in Nat
  <2>2. d * q = d * k + d + d * m /\ d * m \in Nat
    BY <1>2, <2>1
  <2> QED BY <1>2, <2>2
<1>5. CASE k = q
  BY <1>2, <1>5
<1>6. r = 0
  BY <1>2, <1>3, <1>4, <1>5
<1> QED BY <1>6 DEF r

(* The sector of a byte of the device is on the device.                    *)
LEMMA OnDevice ==
  ASSUME NEW x \in Nat, x < Size
  PROVE  /\ x % SectorSize \in 0 .. SectorSize - 1
         /\ x % SectorSize <= x
         /\ x - (x % SectorSize) + SectorSize <= Size
<1> DEFINE q == x \div SectorSize
           r == x % SectorSize
<1>1. q \in Nat /\ r \in 0 .. SectorSize - 1 /\ x = SectorSize * q + r
  BY Sizes, Split
<1>2. SectorSize * q \in Nat
  BY <1>1, Sizes
<1> HIDE DEF q, r
<1>3. Sectors \in Nat /\ Size = SectorSize * Sectors
  BY DeviceAssumption DEF DeviceAssumption, Size
<1>4. /\ r \in 0 .. SectorSize - 1 /\ r <= x
      /\ x - r + SectorSize <= Size
  <2>1. q < Sectors \/ Sectors <= q
    BY <1>1, <1>3
  <2>2. r <= x
    BY <1>1, <1>2, Sizes
  <2>3. x - r + SectorSize <= Size
    <3>1. CASE Sectors <= q
      <4>1. PICK m \in Nat : q = Sectors + m
        BY <1>1, <1>3, <3>1, q - Sectors \in Nat
      <4>2. SectorSize * q = Size + SectorSize * m /\ SectorSize * m \in Nat
        BY <1>3, <4>1, Sizes
      <4> QED BY <1>1, <4>2, Sizes
    <3>2. CASE q < Sectors
      <4>1. PICK m \in Nat : Sectors = q + 1 + m
        BY <1>1, <1>3, <3>2, Sectors - q - 1 \in Nat
      <4>2. Size = SectorSize * q + SectorSize + SectorSize * m /\ SectorSize * m \in Nat
        BY <1>1, <1>3, <4>1, Sizes
      <4> QED BY <1>1, <1>2, <4>2, Sizes
    <3> QED BY <2>1, <3>1, <3>2
  <2> QED BY <1>1, <2>2, <2>3
<1> QED BY <1>4 DEF r

(* The head of a call ends at the end of its sector, unless the call ends  *)
(* there; whole sectors keep what is left at the start of one.             *)
LEMMA HeadEnds ==
  ASSUME NEW x \in Nat
  PROVE  (x + (SectorSize - (x % SectorSize))) % SectorSize = 0
<1> DEFINE q == x \div SectorSize
           r == x % SectorSize
<1>1. q \in Nat /\ r \in 0 .. SectorSize - 1 /\ x = SectorSize * q + r
  BY Sizes, Split
<1>2. q + 1 \in Nat /\ x + (SectorSize - r) = SectorSize * (q + 1)
  <2> HIDE DEF q, r
  <2> QED BY <1>1, Sizes
<1> QED BY <1>2, Whole, Sizes

LEMMA BulkEnds ==
  ASSUME NEW c \in Call, c.at % SectorSize = 0, SectorSize <= c.left
  PROVE  /\ BulkCount(c) \in 1 .. c.left
         /\ (c.at + BulkCount(c)) % SectorSize = 0
<1> DEFINE k == c.left \div SectorSize
           t == IF k >= MaxTransfer THEN MaxTransfer ELSE k
           q == c.at \div SectorSize
<1>1. c.left \in Nat /\ c.at \in Nat
  BY DEF Call
<1>2. k \in Nat /\ c.left % SectorSize \in 0 .. SectorSize - 1
      /\ c.left = SectorSize * k + (c.left % SectorSize)
  BY <1>1, Sizes, Split
<1>3. q \in Nat /\ c.at = SectorSize * q
  BY <1>1, Sizes, Split
<1>4. BulkCount(c) = SectorSize * t
  BY DEF BulkCount
<1> HIDE DEF k, q
<1>5. 0 < k
  <2>1. CASE k = 0
    BY <1>2, <2>1, Sizes
  <2> QED BY <1>2, <2>1
<1>6. t \in Nat /\ 0 < t /\ t <= k
  BY <1>2, <1>5, DeviceAssumption DEF DeviceAssumption
<1> HIDE DEF t
<1>7. PICK m \in Nat : k = t + m
  BY <1>2, <1>6, k - t \in Nat
<1>8. PICK j \in Nat : t = 1 + j
  BY <1>6, t - 1 \in Nat
<1>9. /\ SectorSize * k = SectorSize * t + SectorSize * m /\ SectorSize * m \in Nat
      /\ SectorSize * t = SectorSize + SectorSize * j /\ SectorSize * j \in Nat
  BY <1>7, <1>8, Sizes
<1>10. SectorSize * t \in 1 .. c.left
  BY <1>1, <1>2, <1>9, Sizes
<1>11. q + t \in Nat /\ c.at + SectorSize * t = SectorSize * (q + t)
  BY <1>3, <1>6, Sizes
<1> QED BY <1>4, <1>10, <1>11, Whole, Sizes

(* The part of a sector that a call moves lies within one sector.          *)
LEMMA PartFits ==
  ASSUME IInv, NEW p \in Process, pc[p] \in {"head", "headWrite", "tail", "tailWrite"}
  PROVE  LET c == call[p]
             n == PartCount(p)
         IN  /\ c.at \in Nat /\ c.left \in Nat /\ n \in 0 .. c.left
             /\ c.at % SectorSize \in 0 .. SectorSize - 1
             /\ (c.at % SectorSize) + n <= SectorSize
             /\ Base(c) \in Nat /\ Base(c) + (c.at % SectorSize) = c.at
             /\ Base(c) + SectorSize <= Size
             /\ n # c.left => (c.at + n) % SectorSize = 0
<1> DEFINE c == call[p]
           n == PartCount(p)
           r == c.at % SectorSize
<1>1. /\ c.at \in Nat /\ c.left \in Nat
      /\ c.at + c.left <= Size
  BY DEF IInv, Types, Call, CallInv, CountInv
<1>2. /\ pc[p] \in {"head", "headWrite"} => c.at < Size
      /\ pc[p] \in {"tail", "tailWrite"} => r = 0 /\ 0 < c.left /\ c.left < SectorSize
  BY DEF IInv, CallInv, StageInv
<1>3. c.at < Size
  BY <1>1, <1>2, Sizes
<1>4. /\ r \in 0 .. SectorSize - 1 /\ r <= c.at
      /\ c.at - r + SectorSize <= Size
  BY <1>1, <1>3, OnDevice
<1>5. (c.at + (SectorSize - r)) % SectorSize = 0
  BY <1>1, HeadEnds
<1>6. Base(c) = c.at - r
  BY DEF Base
<1>7. n = IF pc[p] \in {"head", "headWrite"}
          THEN IF r + c.left > SectorSize THEN SectorSize - r ELSE c.left
          ELSE c.left
  BY DEF PartCount, HeadCount
<1> HIDE DEF n, r, c
<1>8. /\ n \in 0 .. c.left /\ r + n <= SectorSize
      /\ n # c.left => n = SectorSize - r
  BY <1>1, <1>2, <1>4, <1>7, Sizes
<1>9. Base(c) \in Nat /\ Base(c) + r = c.at /\ Base(c) + SectorSize <= Size
  BY <1>1, <1>4, <1>6, Sizes
<1> QED BY <1>1, <1>4, <1>5, <1>8, <1>9 DEF n, r, c

-----------------------------------------------------------------------------
(* The invariant is inductive.                                             *)

LEMMA InitInv == Init => IInv
<1> SUFFICES ASSUME Init PROVE IInv
  OBVIOUS
<1>1. 0 \in Address /\ -2 * OffHalf * OffHalf <= 0
  <2>1. OffHalf * OffHalf \in Nat
    BY Sizes
  <2> QED BY <2>1, Sizes DEF Address
<1>2. TypeOK
  BY <1>1, Sizes DEF Init, TypeOK, Blank
<1>3. Types
  <2>1. call \in [Process -> Call]
    BY Sizes DEF Init, NoCall, Call
  <2>2. got \in [Process -> Seq(Byte)] /\ reply = [p \in Process |-> reply[p]]
    BY DEF Init
  <2> QED BY <1>2, <2>1, <2>2 DEF Types
<1>4. LockInv
  BY Sizes DEF Init, LockInv
<1>5. \A p \in Process : CallInv(p)
  BY DEF Init, CallInv
<1> QED BY <1>3, <1>4, <1>5 DEF IInv

(* What a step of p leaves to the other processes.                         *)
Apart(p) ==
  \A q \in Process : q # p =>
    /\ pc'[q] = pc[q] /\ call'[q] = call[q] /\ got'[q] = got[q]
    /\ buf'[q] = buf[q] /\ reply'[q] = reply[q]
    /\ \A f \in File : lock'[f] = q <=> lock[f] = q
    /\ \A f \in File : lock[f] = q => pos'[f] = pos[f] /\ disk'[f] = disk[f]

LEMMA OthersKeep ==
  ASSUME IInv, NEW p \in Process, Apart(p), NEW q \in Process, q # p
  PROVE  CallInv(q)'
<1> SUFFICES ASSUME pc'[q] # "user" PROVE CountInv(q)' /\ StageInv(q)'
  BY DEF CallInv
<1>1. /\ pc'[q] = pc[q] /\ call'[q] = call[q] /\ got'[q] = got[q] /\ buf'[q] = buf[q]
      /\ \A f \in File : lock'[f] = q <=> lock[f] = q
      /\ \A f \in File : lock[f] = q => pos'[f] = pos[f] /\ disk'[f] = disk[f]
  BY DEF Apart
<1>2. CountInv(q) /\ StageInv(q)
  BY <1>1 DEF IInv, CallInv
<1>3. /\ call[q].file \in File /\ lock[call[q].file] = q /\ lock'[call[q].file] = q
      /\ pos'[call[q].file] = pos[call[q].file] /\ disk'[call[q].file] = disk[call[q].file]
  BY <1>1, <1>2 DEF CountInv
<1>4. CountInv(q)'
  BY <1>1, <1>2, <1>3 DEF CountInv
<1>5. SectorAt(call[q])' = SectorAt(call[q])
  BY <1>1, <1>3 DEF SectorAt, Base
<1>6. StageInv(q)'
  BY <1>1, <1>2, <1>5 DEF StageInv
<1> QED BY <1>4, <1>6

LEMMA OthersLock ==
  ASSUME IInv, NEW p \in Process, Apart(p),
         \A f \in File : lock'[f] = p => pc'[p] # "user" /\ call'[p].file = f
  PROVE  LockInv'
<1> SUFFICES ASSUME NEW f \in File, NEW q \in Process, lock'[f] = q
             PROVE  pc'[q] # "user" /\ call'[q].file = f
  BY DEF LockInv
<1>1. CASE q = p
  BY <1>1
<1>2. CASE q # p
  BY <1>2 DEF Apart, IInv, LockInv
<1> QED BY <1>1, <1>2

LEMMA BeginKeeps ==
  ASSUME IInv, NEW p \in Process, NEW f \in File, NEW write \in BOOLEAN,
         NEW s \in [Address -> Byte], NEW n \in Nat, Begin(p, f, write, s, n)
  PROVE  IInv' /\ Apart(p)
<1>1. /\ pc[p] = "user" /\ lock[f] = None
      /\ calls < MaxCalls /\ calls' = calls + 1
      /\ disk' = disk /\ pos' = pos /\ buf' = buf
  BY DEF Begin, Calling
<1>2. /\ Types /\ TypeOK
      /\ pos[f] \in Int /\ pos[f] <= Size
  BY DEF IInv, Types, TypeOK
<1>3. CASE pos[f] \notin Address
  <2>1. /\ reply' = [reply EXCEPT ![p] = S!Returned(0, <<>>)]
        /\ lock' = lock /\ pc' = pc /\ call' = call /\ got' = got
    BY <1>3 DEF Begin
  <2>2. TypeOK'
    BY <1>1, <1>2, <2>1, Sizes DEF TypeOK, Done
  <2>3. Types'
    BY <1>2, <2>1, <2>2 DEF Types
  <2>4. LockInv' /\ \A q \in Process : CallInv(q)'
    BY <1>1, <2>1 DEF IInv, LockInv, CallInv, CountInv, StageInv, SectorAt, Base
  <2>5. Apart(p)
    BY <1>1, <1>2, <2>1, Sizes DEF Apart, Types, TypeOK
  <2> QED BY <2>3, <2>4, <2>5 DEF IInv
<1>4. CASE pos[f] \in Address
  <2> DEFINE k == IF pos[f] + n > Size THEN Size - pos[f] ELSE n
             c == [write |-> write, file |-> f, source |-> s,
                   at |-> pos[f], left |-> k, total |-> k]
             to == IF pos[f] % SectorSize # 0 THEN "head" ELSE Rest(k)
  <2>1. /\ call' = [call EXCEPT ![p] = c]
        /\ pc' = [pc EXCEPT ![p] = to]
        /\ lock' = [lock EXCEPT ![f] = p]
        /\ got' = [got EXCEPT ![p] = <<>>]
        /\ reply' = reply
    BY <1>4 DEF Begin
  <2>2. pos[f] \in Nat /\ pos[f] < Size /\ k \in Nat /\ pos[f] + k <= Size
    BY <1>4, Sizes DEF Address
  <2>3. c \in Call
    BY <2>2 DEF Call
  <2>4. /\ to \in {"head", "bulk", "tail", "done"}
        /\ to = "bulk" => SectorSize <= k /\ pos[f] % SectorSize = 0
        /\ to = "tail" => 0 < k /\ k < SectorSize /\ pos[f] % SectorSize = 0
        /\ to = "done" => k = 0
    BY <2>2, Sizes DEF Rest
  <2> HIDE DEF to
  <2>5. /\ call'[p] = c /\ pc'[p] = to /\ lock'[f] = p /\ got'[p] = <<>>
        /\ disk'[f] = disk[f] /\ pos'[f] = pos[f]
    BY <1>1, <1>2, <2>1 DEF Types, TypeOK
  <2>6. c.write = write /\ c.file = f /\ c.at = pos[f] /\ c.left = k /\ c.total = k
    OBVIOUS
  <2> HIDE DEF c, k
  <2>7. CountInv(p)'
    BY <2>2, <2>4, <2>5, <2>6 DEF CountInv
  <2>8. StageInv(p)'
    BY <2>2, <2>4, <2>5, <2>6 DEF StageInv
  <2>9. Apart(p)
    BY <1>1, <1>2, <2>1, Sizes, SMTT(40) DEF Apart, Types, TypeOK
  <2>10. \A q \in Process : CallInv(q)'
    BY <2>7, <2>8, <2>9, OthersKeep DEF CallInv
  <2>11. LockInv'
    <3>1. \A g \in File : lock'[g] = p => g = f
      BY <1>1, <1>2, <2>1 DEF IInv, LockInv, Types, TypeOK
    <3>2. pc'[p] # "user" /\ call'[p].file = f
      BY <2>4, <2>5, <2>6
    <3> QED BY <2>9, <3>1, <3>2, OthersLock
  <2>12. /\ call' \in [Process -> Call] /\ got' \in [Process -> Seq(Byte)]
         /\ reply' = [q \in Process |-> reply'[q]]
    BY <1>2, <2>1, <2>3 DEF Types
  <2>13. TypeOK'
    <3>1. /\ disk' \in [File -> [Address -> Byte]]
          /\ pos' \in [File -> -2 * OffHalf * OffHalf .. Size]
          /\ buf' \in [Process -> [0 .. SectorSize - 1 -> Byte]]
      BY <1>1, <1>2 DEF TypeOK
    <3>2. calls' \in 0 .. MaxCalls
      BY <1>1, <1>2, Sizes DEF TypeOK
    <3>3. lock' \in [File -> Process \cup {None}]
      BY <1>2, <2>1 DEF TypeOK
    <3>4. pc' \in [Process -> {"user", "head", "headWrite", "bulk", "tail", "tailWrite", "done"}]
      BY <1>2, <2>1, <2>4 DEF TypeOK
    <3>5. \A q \in Process : pc'[q] # "user" => CountInv(q)'
      BY <2>10 DEF CallInv
    <3> QED BY <3>1, <3>2, <3>3, <3>4, <3>5 DEF TypeOK, CountInv, Done
  <2> QED BY <2>9, <2>10, <2>11, <2>12, <2>13 DEF IInv, Types
<1> QED BY <1>3, <1>4

(* The invariant after a step of p that changes p's call only, given what  *)
(* the variables hold after it.                                            *)
LEMMA StepKeeps ==
  ASSUME IInv, NEW p \in Process, Apart(p), CallInv(p)',
         \A f \in File : lock'[f] = p => pc'[p] # "user" /\ call'[p].file = f,
         disk' \in [File -> [Address -> Byte]],
         pos' \in [File -> -2 * OffHalf * OffHalf .. Size],
         lock' \in [File -> Process \cup {None}],
         pc' \in [Process -> {"user", "head", "headWrite", "bulk", "tail", "tailWrite", "done"}],
         buf' \in [Process -> [0 .. SectorSize - 1 -> Byte]],
         calls' \in 0 .. MaxCalls,
         call' \in [Process -> Call], got' \in [Process -> Seq(Byte)],
         reply' = [q \in Process |-> reply'[q]]
  PROVE  IInv'
<1>1. \A q \in Process : CallInv(q)'
  BY OthersKeep
<1>2. LockInv'
  BY OthersLock
<1>3. \A q \in Process : pc'[q] # "user" => CountInv(q)'
  BY <1>1 DEF CallInv
<1>4. TypeOK'
  BY <1>3 DEF TypeOK, CountInv, Done
<1> QED BY <1>1, <1>2, <1>4 DEF IInv, Types

(* The bytes of a file with n bytes of a write of c in them, and those a   *)
(* read of c gets next.                                                    *)
Put(c, n) ==
  [a \in Address |-> IF c.at <= a /\ a < c.at + n THEN SourceAt(c, a) ELSE disk[c.file][a]]
Taken(c, n) == [i \in 1 .. n |-> disk[c.file][c.at + i - 1]]

(* A step that moves the next n bytes of p's call: what a head, a tail and *)
(* a transfer of whole sectors have in common.                             *)
Moves(p, n) ==
  LET c == call[p]
  IN  /\ pc[p] # "user"
      /\ n \in 0 .. c.left /\ (n # c.left => (c.at + n) % SectorSize = 0)
      /\ IF c.write
         THEN disk' = [disk EXCEPT ![c.file] = Put(c, n)] /\ got' = got
         ELSE got' = [got EXCEPT ![p] = @ \o Taken(c, n)] /\ disk' = disk
      /\ Advance(p, n)
      /\ pos' = pos /\ lock' = lock /\ reply' = reply /\ calls' = calls
      /\ buf' \in [Process -> [0 .. SectorSize - 1 -> Byte]]
      /\ \A q \in Process : q # p => buf'[q] = buf[q]

(* The types of what a call moves: its bytes are bytes of the device.      *)
LEMMA MovedBytes ==
  ASSUME IInv, NEW p \in Process, pc[p] # "user", NEW n \in 0 .. call[p].left
  PROVE  /\ Put(call[p], n) \in [Address -> Byte]
         /\ Taken(call[p], n) \in Seq(Byte) /\ Len(Taken(call[p], n)) = n
<1> DEFINE c == call[p]
<1>1. c \in Call /\ CountInv(p) /\ disk \in [File -> [Address -> Byte]] /\ pos \in [File -> Int]
  BY DEF IInv, Types, TypeOK, CallInv
<1>2. /\ c.file \in File /\ c.at \in Nat /\ c.left \in Nat /\ c.total \in Nat
      /\ c.at + c.left <= Size /\ c.left <= c.total
      /\ c.source \in [Address -> Byte]
      /\ c.total - c.left <= c.at
  BY <1>1 DEF CountInv, Call
<1>range. n \in Nat /\ n <= c.left
  BY <1>2
<1> HIDE DEF c
<1>3. ASSUME NEW a \in Address, c.at <= a, a < c.at + n
      PROVE  c.total - c.left + a - c.at \in Address
  <2>1. a \in Nat /\ a < Size /\ Size \in Nat
    BY Sizes DEF Address
  <2>2. /\ 0 <= c.total - c.left + a - c.at /\ c.total - c.left + a - c.at <= a
        /\ c.total - c.left + a - c.at \in Int
    BY <1>2, <1>3, <2>1
  <2> QED BY <2>1, <2>2 DEF Address
<1>4. Put(c, n) \in [Address -> Byte]
  BY <1>1, <1>2, <1>3 DEF Put, SourceAt
<1>5. \A i \in 1 .. n : disk[c.file][c.at + i - 1] \in Byte
  <2> SUFFICES ASSUME NEW i \in 1 .. n PROVE disk[c.file][c.at + i - 1] \in Byte
    OBVIOUS
  <2>1. c.at + i - 1 \in Address
    BY <1>2, <1>range, Sizes DEF Address
  <2> QED BY <1>1, <1>2, <2>1
<1>7. Taken(c, n) \in Seq(Byte) /\ Len(Taken(c, n)) = n
  BY <1>5, <1>range DEF Taken
<1> QED BY <1>4, <1>7 DEF c

(* A call that has moved n more bytes.                                     *)
LEMMA Advanced ==
  ASSUME NEW c \in Call, NEW n \in 0 .. c.left
  PROVE  [c EXCEPT !.at = @ + n, !.left = @ - n]
           = [write |-> c.write, file |-> c.file, source |-> c.source,
              at |-> c.at + n, left |-> c.left - n, total |-> c.total]
<1> DEFINE d == [c EXCEPT !.at = @ + n]
<1>1. d = [write |-> c.write, file |-> c.file, source |-> c.source,
           at |-> c.at + n, left |-> c.left, total |-> c.total]
  BY DEF Call
<1>2. [c EXCEPT !.at = @ + n, !.left = @ - n] = [d EXCEPT !.left = @ - n]
  BY DEF Call
<1> HIDE DEF d
<1> QED BY <1>1, <1>2

LEMMA MovesKeeps ==
  ASSUME IInv, NEW p \in Process, NEW n, Moves(p, n)
  PROVE  IInv' /\ Apart(p)
<1> DEFINE c == call[p]
           d == [c EXCEPT !.at = @ + n, !.left = @ - n]
<1>1. /\ pc[p] # "user"
      /\ n \in 0 .. c.left /\ (n # c.left => (c.at + n) % SectorSize = 0)
      /\ c.write => disk' = [disk EXCEPT ![c.file] = Put(c, n)] /\ got' = got
      /\ ~ c.write => got' = [got EXCEPT ![p] = @ \o Taken(c, n)] /\ disk' = disk
      /\ call' = [call EXCEPT ![p] = d]
      /\ pc' = [pc EXCEPT ![p] = Rest(c.left - n)]
      /\ pos' = pos /\ lock' = lock /\ reply' = reply /\ calls' = calls
      /\ buf' \in [Process -> [0 .. SectorSize - 1 -> Byte]]
      /\ \A q \in Process : q # p => buf'[q] = buf[q]
  BY DEF Moves, Advance, IInv, Types
<1>2. /\ c \in Call /\ CountInv(p) /\ TypeOK
      /\ call \in [Process -> Call] /\ got \in [Process -> Seq(Byte)]
      /\ reply = [q \in Process |-> reply[q]]
  BY <1>1 DEF IInv, Types, CallInv
<1>3. /\ c.file \in File /\ lock[c.file] = p
      /\ c.at \in Nat /\ c.left \in Nat /\ c.total \in Nat
      /\ c.left <= c.total /\ c.at + c.left <= Size
      /\ c.at = pos[c.file] + (c.total - c.left) /\ 0 <= pos[c.file]
      /\ c.write \in BOOLEAN /\ c.source \in [Address -> Byte]
      /\ pos[c.file] \in Int
  BY <1>2 DEF CountInv, Call, TypeOK
<1>4. /\ Put(c, n) \in [Address -> Byte]
      /\ Taken(c, n) \in Seq(Byte) /\ Len(Taken(c, n)) = n
  BY <1>1, MovedBytes
<1>5. /\ d.write = c.write /\ d.file = c.file /\ d.source = c.source /\ d.total = c.total
      /\ d.at = c.at + n /\ d.left = c.left - n
      /\ d \in Call
  <2>1. /\ d.write = c.write /\ d.file = c.file /\ d.source = c.source /\ d.total = c.total
        /\ d.at = c.at + n /\ d.left = c.left - n
    BY <1>2 DEF Call
  <2>2. c.at + n \in Nat /\ c.left - n \in Nat
    <3> DEFINE l == c.left
               x == c.at
    <3>1. n \in 0 .. l /\ l \in Nat /\ x \in Nat
      BY <1>1, <1>3
    <3> HIDE DEF l, x
    <3>2. x + n \in Nat /\ l - n \in Nat
      BY <3>1
    <3> QED BY <3>2 DEF l, x
  <2>3. [write |-> c.write, file |-> c.file, source |-> c.source,
         at |-> c.at + n, left |-> c.left - n, total |-> c.total] \in Call
    BY <1>2, <1>3, <2>2 DEF Call
  <2>4. d = [write |-> c.write, file |-> c.file, source |-> c.source,
             at |-> c.at + n, left |-> c.left - n, total |-> c.total]
    BY <1>1, <1>2, Advanced
  <2> QED BY <2>1, <2>3, <2>4
<1>6. /\ call'[p] = d /\ pc'[p] = Rest(c.left - n)
      /\ call' \in [Process -> Call]
  BY <1>1, <1>2, <1>5 DEF TypeOK
<1>7. /\ ~ c.write => got'[p] = got[p] \o Taken(c, n)
      /\ got' \in [Process -> Seq(Byte)]
  <2>1. got[p] \o Taken(c, n) \in Seq(Byte)
    BY <1>2, <1>4
  <2> QED BY <1>1, <1>2, <1>3, <2>1
<1>8. disk' \in [File -> [Address -> Byte]]
  BY <1>1, <1>2, <1>3, <1>4 DEF TypeOK
<1> HIDE DEF c, d
<1>9. /\ Rest(c.left - n) \in {"bulk", "tail", "done"}
      /\ Rest(c.left - n) = "bulk" => SectorSize <= c.left - n
      /\ Rest(c.left - n) = "tail" => 0 < c.left - n /\ c.left - n < SectorSize
      /\ Rest(c.left - n) = "done" <=> c.left - n = 0
  BY <1>1, <1>3, Sizes DEF Rest
<1>10. CountInv(p)'
  <2>1. ~ c.write => Len(got'[p]) = d.total - d.left
    <3>1. ~ c.write => Len(got[p]) = c.total - c.left
      BY <1>2 DEF CountInv, c
    <3>2. Len(got[p] \o Taken(c, n)) = Len(got[p]) + n
      <4>1. got[p] \in Seq(Byte)
        BY <1>2
      <4> QED BY <1>4, <4>1
    <3>3. d.total - d.left = (c.total - c.left) + n
      <4> DEFINE l == c.left
      <4>1. n \in 0 .. l /\ l \in Nat /\ c.total \in Nat /\ d.left = l - n /\ d.total = c.total
        BY <1>1, <1>3, <1>5
      <4> HIDE DEF l
      <4>2. d.total - d.left = (c.total - l) + n
        BY <4>1
      <4> QED BY <4>2 DEF l
    <3> QED BY <1>7, <3>1, <3>2, <3>3
  <2>2. c.write => got'[p] = <<>>
    BY <1>1, <1>2 DEF CountInv, c
  <2>3. d.left \in 0 .. d.total /\ d.at + d.left <= Size
    <3> DEFINE l == c.left
    <3>1. /\ n \in 0 .. l /\ l \in Nat /\ c.total \in Nat /\ c.at \in Nat
          /\ l <= c.total /\ c.at + l <= Size
      BY <1>1, <1>3
    <3>2. d.left = l - n /\ d.at = c.at + n /\ d.total = c.total
      BY <1>5
    <3> HIDE DEF l
    <3>3. /\ l - n \in 0 .. c.total
          /\ (c.at + n) + (l - n) <= Size
      BY <3>1, Sizes
    <3> QED BY <3>2, <3>3
  <2>4. d.at = pos[d.file] + (d.total - d.left)
    BY <1>1, <1>3, <1>5
  <2> QED BY <1>1, <1>3, <1>5, <1>6, <2>1, <2>2, <2>3, <2>4 DEF CountInv
<1>11. StageInv(p)'
  <2>1. c.left - n # 0 => d.at % SectorSize = 0
    BY <1>1, <1>3, <1>5
  <2> QED BY <1>3, <1>1, <1>5, <1>6, <1>9, <2>1 DEF StageInv
<1>12. Apart(p)
  <2>1. \A q \in Process : q # p => pc'[q] = pc[q] /\ call'[q] = call[q] /\ got'[q] = got[q]
    BY <1>1, <1>2, <1>3 DEF TypeOK
  <2>2. \A f \in File : f # c.file => disk'[f] = disk[f]
    BY <1>1, <1>2, <1>3 DEF TypeOK
  <2> QED BY <1>1, <1>3, <2>1, <2>2 DEF Apart
<1>13. \A f \in File : lock'[f] = p => pc'[p] # "user" /\ call'[p].file = f
  BY <1>1, <1>5, <1>6, <1>9 DEF IInv, LockInv, c
<1>14. /\ pos' \in [File -> -2 * OffHalf * OffHalf .. Size]
       /\ lock' \in [File -> Process \cup {None}]
       /\ calls' \in 0 .. MaxCalls
       /\ reply' = [q \in Process |-> reply'[q]]
  BY <1>1, <1>2 DEF TypeOK
<1>15. pc' \in [Process -> {"user", "head", "headWrite", "bulk", "tail", "tailWrite", "done"}]
  BY <1>1, <1>2, <1>9 DEF TypeOK
<1>16. CallInv(p)'
  BY <1>10, <1>11 DEF CallInv
<1> QED BY <1>1, <1>6, <1>7, <1>8, <1>12, <1>13, <1>14, <1>15, <1>16, StepKeeps

(* The steps that move bytes are moves: a read takes what the drive holds, *)
(* and a write puts its bytes and leaves those around them.                *)
LEMMA ReadMoves ==
  ASSUME IInv, NEW p \in Process, ReadSector(p), ~ call[p].write
  PROVE  Moves(p, PartCount(p))
<1> DEFINE c == call[p]
           n == PartCount(p)
           r == c.at % SectorSize
<1>1. /\ pc[p] \in {"head", "tail"}
      /\ buf' = [buf EXCEPT ![p] = SectorAt(c)]
      /\ got' = [got EXCEPT ![p] = @ \o [i \in 1 .. n |-> buf'[p][r + i - 1]]]
      /\ Advance(p, n)
      /\ disk' = disk /\ pos' = pos /\ lock' = lock /\ reply' = reply /\ calls' = calls
  BY DEF ReadSector
<1>2. /\ c.at \in Nat /\ c.left \in Nat /\ n \in 0 .. c.left
      /\ r \in 0 .. SectorSize - 1 /\ r + n <= SectorSize
      /\ Base(c) \in Nat /\ Base(c) + r = c.at /\ Base(c) + SectorSize <= Size
      /\ n # c.left => (c.at + n) % SectorSize = 0
  BY <1>1, PartFits
<1>3. /\ buf \in [Process -> [0 .. SectorSize - 1 -> Byte]]
      /\ disk \in [File -> [Address -> Byte]] /\ c.file \in File
  BY <1>1 DEF IInv, Types, TypeOK, CallInv, CountInv
<1>4. buf'[p] = SectorAt(c)
  BY <1>1, <1>3
<1> HIDE DEF c, n, r
<1>5. \A i \in 1 .. n : SectorAt(c)[r + i - 1] = disk[c.file][c.at + i - 1]
  <2> SUFFICES ASSUME NEW i \in 1 .. n
               PROVE  SectorAt(c)[r + i - 1] = disk[c.file][c.at + i - 1]
    OBVIOUS
  <2>1. r + i - 1 \in 0 .. SectorSize - 1 /\ Base(c) + (r + i - 1) = c.at + i - 1
    BY <1>2, Sizes
  <2> QED BY <2>1 DEF SectorAt
<1>6. [i \in 1 .. n |-> buf'[p][r + i - 1]] = Taken(c, n)
  BY <1>4, <1>5 DEF Taken
<1>7. buf' \in [Process -> [0 .. SectorSize - 1 -> Byte]]
  <2>1. \A i \in 0 .. SectorSize - 1 : Base(c) + i \in Address
    BY <1>2, Sizes DEF Address
  <2>2. SectorAt(c) \in [0 .. SectorSize - 1 -> Byte]
    BY <1>3, <2>1 DEF SectorAt
  <2> QED BY <1>1, <1>3, <2>2
<1> QED BY <1>1, <1>2, <1>6, <1>7 DEF Moves, c, n

LEMMA WriteMoves ==
  ASSUME IInv, NEW p \in Process, WriteSector(p)
  PROVE  Moves(p, PartCount(p)) /\ call[p].write
<1> DEFINE c == call[p]
           n == PartCount(p)
           b == Base(c)
           merged == [a \in b .. b + SectorSize - 1 |->
                        IF c.at <= a /\ a < c.at + n THEN SourceAt(c, a) ELSE buf[p][a - b]]
           new == [a \in Address |-> IF a \in DOMAIN merged THEN merged[a] ELSE disk[c.file][a]]
<1>1. /\ pc[p] \in {"headWrite", "tailWrite"}
      /\ buf' = [buf EXCEPT ![p] = [i \in 0 .. SectorSize - 1 |-> merged[b + i]]]
      /\ Advance(p, n)
      /\ pos' = pos /\ lock' = lock /\ got' = got /\ reply' = reply /\ calls' = calls
  BY DEF WriteSector
<1>2. /\ c.at \in Nat /\ c.left \in Nat /\ n \in 0 .. c.left
      /\ c.at % SectorSize \in 0 .. SectorSize - 1
      /\ (c.at % SectorSize) + n <= SectorSize
      /\ b \in Nat /\ b + (c.at % SectorSize) = c.at /\ b + SectorSize <= Size
      /\ n # c.left => (c.at + n) % SectorSize = 0
  BY <1>1, PartFits
<1>3. /\ buf \in [Process -> [0 .. SectorSize - 1 -> Byte]]
      /\ disk \in [File -> [Address -> Byte]] /\ c.file \in File
      /\ c.write /\ buf[p] = SectorAt(c)
  BY <1>1 DEF IInv, Types, TypeOK, CallInv, CountInv, StageInv
<1>4. disk' = [disk EXCEPT ![c.file] = new]
  BY <1>3 DEF WriteSector
<1>5. n \in Nat /\ b <= c.at /\ c.at + n <= b + SectorSize
  <2> DEFINE l == c.left
             r == c.at % SectorSize
             x == c.at
  <2>1. /\ l \in Nat /\ n \in 0 .. l /\ r \in 0 .. SectorSize - 1 /\ r + n <= SectorSize
        /\ b \in Nat /\ b + r = x
    BY <1>2
  <2> HIDE DEF l, r, x, b, n
  <2>2. n \in Nat /\ b <= x /\ x + n <= b + SectorSize
    BY <2>1, Sizes
  <2> QED BY <2>2 DEF x
<1>6. Put(c, n) \in [Address -> Byte]
  BY <1>1, <1>2, MovedBytes
<1>7. \A a \in Address : a \in b .. b + SectorSize - 1 =>
        buf[p][a - b] = disk[c.file][a]
  <2> SUFFICES ASSUME NEW a \in Address, a \in b .. b + SectorSize - 1
               PROVE  SectorAt(c)[a - b] = disk[c.file][a]
    BY <1>3
  <2>1. a - b \in 0 .. SectorSize - 1 /\ b + (a - b) = a
    <3> HIDE DEF b
    <3> QED BY <1>2, Sizes DEF Address
  <2> QED BY <2>1 DEF SectorAt
<1>8. \A a \in Address : new[a] = Put(c, n)[a]
  <2> SUFFICES ASSUME NEW a \in Address PROVE new[a] = Put(c, n)[a]
    OBVIOUS
  <2>1. Put(c, n)[a] = IF c.at <= a /\ a < c.at + n THEN SourceAt(c, a) ELSE disk[c.file][a]
    BY DEF Put
  <2>2. CASE a \in b .. b + SectorSize - 1
    <3>1. new[a] = IF c.at <= a /\ a < c.at + n THEN SourceAt(c, a) ELSE buf[p][a - b]
      <4> HIDE DEF b, n, c
      <4> QED BY <2>2
    <3> QED BY <1>7, <2>1, <2>2, <3>1
  <2>3. CASE a \notin b .. b + SectorSize - 1
    <3>1. new[a] = disk[c.file][a]
      <4> HIDE DEF b, n, c
      <4> QED BY <2>3
    <3>2. ~ (c.at <= a /\ a < c.at + n)
      <4> DEFINE x == c.at
      <4>1. x \in Nat /\ n \in Nat /\ b <= x /\ x + n <= b + SectorSize /\ b \in Nat
        BY <1>2, <1>5
      <4> HIDE DEF x, b, n
      <4>2. ~ (x <= a /\ a < x + n)
        BY <2>3, <4>1, Sizes DEF Address
      <4> QED BY <4>2 DEF x
    <3> QED BY <2>1, <3>1, <3>2
  <2> QED BY <2>2, <2>3
<1>9. new = Put(c, n)
  <2> HIDE DEF merged, n, c
  <2> QED BY <1>8 DEF Put
<1>10. buf' \in [Process -> [0 .. SectorSize - 1 -> Byte]]
  <2>1. \A i \in 0 .. SectorSize - 1 :
          b + i \in Address /\ b + i \in b .. b + SectorSize - 1
    <3>1. b \in Nat /\ b + SectorSize <= Size
      BY <1>2
    <3> HIDE DEF b
    <3> QED BY <3>1, Sizes DEF Address
  <2>2. \A i \in 0 .. SectorSize - 1 : merged[b + i] = new[b + i]
    <3> HIDE DEF b, n, c
    <3> QED BY <2>1
  <2>3. [i \in 0 .. SectorSize - 1 |-> merged[b + i]] \in [0 .. SectorSize - 1 -> Byte]
    <3> HIDE DEF merged, new, b, n, c
    <3> QED BY <1>6, <1>9, <2>1, <2>2
  <2> HIDE DEF merged, b
  <2> QED BY <1>1, <1>3, <2>3
<1>11. \A q \in Process : q # p => buf'[q] = buf[q]
  <2> HIDE DEF merged, b
  <2> QED BY <1>1, <1>3
<1> HIDE DEF merged, new, b
<1> QED BY <1>1, <1>2, <1>3, <1>4, <1>9, <1>10, <1>11 DEF Moves

LEMMA TransferMoves ==
  ASSUME IInv, NEW p \in Process, TransferSectors(p)
  PROVE  Moves(p, BulkCount(call[p]))
<1> DEFINE c == call[p]
           n == BulkCount(c)
<1>1. /\ pc[p] = "bulk"
      /\ Advance(p, n)
      /\ pos' = pos /\ lock' = lock /\ buf' = buf /\ reply' = reply /\ calls' = calls
      /\ ~ c.write => disk' = disk /\ got' = [got EXCEPT ![p] = @ \o Taken(c, n)]
  BY DEF TransferSectors, Taken
<1>2. /\ c \in Call /\ c.file \in File /\ SectorSize <= c.left /\ c.at % SectorSize = 0
      /\ disk \in [File -> [Address -> Byte]]
      /\ buf \in [Process -> [0 .. SectorSize - 1 -> Byte]]
  BY <1>1 DEF IInv, Types, TypeOK, CallInv, CountInv, StageInv
<1>3. n \in 1 .. c.left /\ (c.at + n) % SectorSize = 0 /\ c.left \in Nat
  BY <1>2, BulkEnds DEF Call
<1>4. n \in 0 .. c.left
  <2> HIDE DEF n
  <2> QED BY <1>3
<1>5. c.write => disk' = [disk EXCEPT ![c.file] = Put(c, n)] /\ got' = got
  BY <1>2 DEF TransferSectors, Put
<1> QED BY <1>1, <1>2, <1>3, <1>4, <1>5 DEF Moves

(* A write reads the sector of its head or its tail into the buffer.       *)
LEMMA FillKeeps ==
  ASSUME IInv, NEW p \in Process, ReadSector(p), call[p].write
  PROVE  IInv' /\ Apart(p)
<1> DEFINE c == call[p]
           to == IF pc[p] = "head" THEN "headWrite" ELSE "tailWrite"
<1>1. /\ pc[p] \in {"head", "tail"}
      /\ buf' = [buf EXCEPT ![p] = SectorAt(c)]
      /\ pc' = [pc EXCEPT ![p] = to]
      /\ call' = call /\ got' = got
      /\ disk' = disk /\ pos' = pos /\ lock' = lock /\ reply' = reply /\ calls' = calls
  BY DEF ReadSector, IInv, Types, TypeOK
<1>2. /\ buf \in [Process -> [0 .. SectorSize - 1 -> Byte]]
      /\ disk \in [File -> [Address -> Byte]] /\ c.file \in File
      /\ Types /\ CountInv(p) /\ StageInv(p) /\ TypeOK
  BY <1>1 DEF IInv, Types, TypeOK, CallInv, CountInv
<1>3. Base(c) \in Nat /\ Base(c) + SectorSize <= Size
  BY <1>1, PartFits
<1>4. SectorAt(c) \in [0 .. SectorSize - 1 -> Byte]
  <2>1. \A i \in 0 .. SectorSize - 1 : Base(c) + i \in Address
    <3> HIDE DEF c
    <3> QED BY <1>3, Sizes DEF Address
  <2> QED BY <1>2, <2>1 DEF SectorAt
<1>5. /\ buf' \in [Process -> [0 .. SectorSize - 1 -> Byte]]
      /\ buf'[p] = SectorAt(c) /\ pc'[p] = to
  <2> HIDE DEF c, to
  <2> QED BY <1>1, <1>2, <1>4 DEF TypeOK
<1>6. to \in {"headWrite", "tailWrite"}
  OBVIOUS
<1>7. pc' \in [Process -> {"user", "head", "headWrite", "bulk", "tail", "tailWrite", "done"}]
  BY <1>1, <1>2 DEF TypeOK
<1>8. Apart(p)
  <2> HIDE DEF c, to
  <2> QED BY <1>1, <1>2 DEF Apart, TypeOK
<1>9. CountInv(p)'
  BY <1>1, <1>2 DEF CountInv
<1>10. SectorAt(call[p])' = SectorAt(c)
  BY <1>1 DEF SectorAt, Base
<1>11. StageInv(p)'
  BY <1>1, <1>2, <1>5, <1>10 DEF StageInv
<1>12. \A f \in File : lock'[f] = p => pc'[p] # "user" /\ call'[p].file = f
  BY <1>1, <1>5, <1>6 DEF IInv, LockInv
<1>13. CallInv(p)'
  BY <1>9, <1>11 DEF CallInv
<1>14. /\ disk' \in [File -> [Address -> Byte]]
       /\ pos' \in [File -> -2 * OffHalf * OffHalf .. Size]
       /\ lock' \in [File -> Process \cup {None}]
       /\ calls' \in 0 .. MaxCalls
       /\ call' \in [Process -> Call] /\ got' \in [Process -> Seq(Byte)]
       /\ reply' = [q \in Process |-> reply'[q]]
  BY <1>1, <1>2 DEF Types, TypeOK
<1> QED BY <1>5, <1>7, <1>8, <1>12, <1>13, <1>14, StepKeeps

LEMMA FinishKeeps ==
  ASSUME IInv, NEW p \in Process, Finish(p)
  PROVE  IInv' /\ Apart(p)
<1> DEFINE c == call[p]
<1>1. /\ pc[p] = "done"
      /\ pos' = [pos EXCEPT ![c.file] = @ + c.total]
      /\ reply' = [reply EXCEPT ![p] = S!Returned(c.total, got[p])]
      /\ lock' = [lock EXCEPT ![c.file] = None]
      /\ pc' = [pc EXCEPT ![p] = "user"]
      /\ call' = [call EXCEPT ![p] = NoCall]
      /\ buf' = [buf EXCEPT ![p] = Blank]
      /\ got' = [got EXCEPT ![p] = <<>>]
      /\ disk' = disk /\ calls' = calls
  BY DEF Finish
<1>2. Types /\ TypeOK /\ CountInv(p) /\ StageInv(p) /\ c \in Call
  BY <1>1 DEF IInv, Types, CallInv
<1>3. /\ c.file \in File /\ lock[c.file] = p
      /\ c.left = 0 /\ c.at = pos[c.file] + c.total /\ c.at <= Size
      /\ c.total \in Nat /\ pos[c.file] \in Int /\ 0 <= pos[c.file]
  BY <1>1, <1>2 DEF CountInv, StageInv, TypeOK, Call
<1> HIDE DEF c
<1>4. pc'[p] = "user"
  BY <1>1, <1>2 DEF TypeOK
<1>5. \A f \in File : lock'[f] # p
  BY <1>1, <1>2, <1>3, Sizes DEF IInv, LockInv, TypeOK, c
<1>6. Apart(p)
  BY <1>1, <1>2, <1>3, Sizes, ZenonT(40) DEF Apart, Types, TypeOK
<1>7. CallInv(p)'
  BY <1>4 DEF CallInv
<1>8. pos' \in [File -> -2 * OffHalf * OffHalf .. Size]
  <2>1. -2 * OffHalf * OffHalf <= 0 /\ -2 * OffHalf * OffHalf \in Int
    <3>1. OffHalf * OffHalf \in Nat
      BY Sizes
    <3> QED BY <3>1, Sizes
  <2>2. pos[c.file] + c.total \in -2 * OffHalf * OffHalf .. Size
    <3> DEFINE low == -2 * OffHalf * OffHalf
    <3>1. low <= 0 /\ low \in Int
      BY <2>1
    <3> HIDE DEF low
    <3>2. pos[c.file] + c.total \in low .. Size
      BY <1>3, <3>1, Sizes
    <3> QED BY <3>2 DEF low
  <2> QED BY <1>1, <1>2, <2>2 DEF TypeOK
<1>9. /\ lock' \in [File -> Process \cup {None}]
      /\ pc' \in [Process -> {"user", "head", "headWrite", "bulk", "tail", "tailWrite", "done"}]
      /\ disk' \in [File -> [Address -> Byte]] /\ calls' \in 0 .. MaxCalls
  BY <1>1, <1>2 DEF TypeOK
<1>10. buf' \in [Process -> [0 .. SectorSize - 1 -> Byte]]
  BY <1>1, <1>2, Sizes DEF TypeOK, Blank, Address
<1>11. call' \in [Process -> Call]
  BY <1>1, <1>2, Sizes DEF Types, NoCall, Call
<1>12. got' \in [Process -> Seq(Byte)] /\ reply' = [q \in Process |-> reply'[q]]
  <2>1. got' \in [Process -> Seq(Byte)]
    BY <1>1, <1>2 DEF Types
  <2>2. reply = [q \in Process |-> reply[q]]
    BY <1>2 DEF Types
  <2>3. reply' = [q \in Process |-> reply'[q]]
    BY <1>1, <2>2
  <2> QED BY <2>1, <2>3
<1> QED BY <1>4, <1>5, <1>6, <1>7, <1>8, <1>9, <1>10, <1>11, <1>12, StepKeeps

-----------------------------------------------------------------------------
(* Seeks.                                                                  *)

(* The offsets that two halves can make have 64 bits.                      *)
LEMMA JoinedRange ==
  ASSUME NEW hi \in -OffHalf .. OffHalf - 1, NEW lo \in -OffHalf .. OffHalf - 1
  PROVE  Joined(hi, lo) \in Int /\ -2 * OffHalf * OffHalf <= Joined(hi, lo)
<1>1. hi \in Int /\ lo \in Int /\ -OffHalf <= hi /\ -OffHalf <= lo /\ OffHalf \in Nat
      /\ 1 <= OffHalf
  BY Sizes
<1>2. PICK m \in Nat : hi = m - OffHalf
  BY <1>1, hi + OffHalf \in Nat
<1>3. hi * 2 * OffHalf = 2 * (m * OffHalf) - 2 * (OffHalf * OffHalf)
      /\ m * OffHalf \in Nat /\ OffHalf * OffHalf \in Nat
  BY <1>1, <1>2
<1>4. OffHalf <= OffHalf * OffHalf
  <2>1. PICK k \in Nat : OffHalf = 1 + k
    BY <1>1, OffHalf - 1 \in Nat
  <2>2. OffHalf * OffHalf = OffHalf + k * OffHalf /\ k * OffHalf \in Nat
    BY <1>1, <2>1
  <2> QED BY <1>1, <2>2
<1>5. -2 * OffHalf * OffHalf = -2 * (OffHalf * OffHalf)
  BY <1>1
<1> QED BY <1>1, <1>3, <1>4, <1>5 DEF Joined

(* An offset that sign-extends one half is the half.                       *)
LEMMA JoinedSign ==
  ASSUME NEW off \in -OffHalf .. OffHalf - 1
  PROVE  Joined(IF off < 0 THEN -1 ELSE 0, off) = off
BY Sizes DEF Joined

(* Both wrap a sum alike.                                                  *)
LEMMA Wraps ==
  ASSUME NEW n \in Int
  PROVE  LongLong(n) \in Int /\ S!Wrapped(n) = LongLong(n)
<1>1. LongHalf \in Nat
  <2>1. OffHalf * OffHalf \in Nat
    BY Sizes
  <2> QED BY <2>1, Sizes DEF LongHalf
<1> QED BY <1>1 DEF LongLong, S!Wrapped

(* A seek that does not fail goes to the position Storage says, and one    *)
(* that fails does so for the reason Storage says.                         *)
LEMMA SeekAgrees ==
  ASSUME NEW f \in File, pos[f] \in Int, NEW how, NEW rel \in Int
  PROVE  LET s == Sought(f, how, rel)
         IN  /\ s.error = S!SeekError(how, rel, pos[f])
             /\ s.error = "none" =>
                  /\ s.to = S!Target(how, rel, pos[f])
                  /\ s.to \in Int /\ s.to <= Size
                  /\ rel <= s.to \/ 0 <= s.to
<1>1. Size \in Nat
  BY Sizes
<1>2. CASE how = "SEEK_END"
  <2>1. /\ LongLong(rel + Size) \in Int
        /\ S!Wrapped(rel + Size) = LongLong(rel + Size)
    BY <1>1, Wraps
  <2> QED BY <1>1, <1>2, <2>1 DEF Sought, S!SeekError, S!Target
<1>3. CASE how = "SEEK_CUR"
  <2>1. /\ LongLong(rel + pos[f]) \in Int
        /\ S!Wrapped(rel + pos[f]) = LongLong(rel + pos[f])
    BY Wraps
  <2> QED BY <1>1, <1>3, <2>1 DEF Sought, S!SeekError, S!Target
<1>4. CASE how = "SEEK_SET"
  BY <1>1, <1>4 DEF Sought, S!SeekError, S!Target
<1>5. CASE how = "SEEK_DATA"
  BY <1>1, <1>5 DEF Sought, S!SeekError, S!Target
<1>6. CASE how = "SEEK_HOLE"
  BY <1>1, <1>6 DEF Sought, S!SeekError, S!Target
<1>7. CASE how \notin {"SEEK_END", "SEEK_CUR", "SEEK_SET", "SEEK_DATA", "SEEK_HOLE"}
  BY <1>1, <1>7 DEF Sought, S!SeekError, S!Target
<1> QED BY <1>2, <1>3, <1>4, <1>5, <1>6, <1>7

(* What both seeks do: move the position of a free file, or fail.          *)
LEMMA SeekKeeps ==
  ASSUME IInv, NEW p \in Process, NEW f \in File, NEW to, NEW value,
         pc[p] = "user", lock[f] = None, calls < MaxCalls, calls' = calls + 1,
         to \in -2 * OffHalf * OffHalf .. Size,
         pos' = pos \/ pos' = [pos EXCEPT ![f] = to],
         reply' = [reply EXCEPT ![p] = value],
         UNCHANGED <<disk, lock, pc, call, buf, got>>
  PROVE  IInv' /\ Apart(p)
<1>1. Types /\ TypeOK /\ reply = [q \in Process |-> reply[q]]
  BY DEF IInv, Types
<1>2. pos' \in [File -> -2 * OffHalf * OffHalf .. Size]
  BY <1>1 DEF TypeOK
<1>3. reply' = [q \in Process |-> reply'[q]]
  BY <1>1
<1>4. \A g \in File : g # f => pos'[g] = pos[g]
  BY <1>1 DEF TypeOK
<1>5. Apart(p)
  BY <1>1, <1>4, Sizes DEF Apart
<1>6. calls' \in 0 .. MaxCalls
  BY <1>1, Sizes DEF TypeOK
<1>7. CallInv(p)'
  BY DEF CallInv
<1>8. \A g \in File : lock'[g] = p => pc'[p] # "user" /\ call'[p].file = g
  BY DEF IInv, LockInv
<1>9. /\ disk' \in [File -> [Address -> Byte]]
      /\ lock' \in [File -> Process \cup {None}]
      /\ pc' \in [Process -> {"user", "head", "headWrite", "bulk", "tail", "tailWrite", "done"}]
      /\ buf' \in [Process -> [0 .. SectorSize - 1 -> Byte]]
      /\ call' \in [Process -> Call] /\ got' \in [Process -> Seq(Byte)]
  BY <1>1 DEF Types, TypeOK
<1> QED BY <1>2, <1>3, <1>5, <1>6, <1>7, <1>8, <1>9, StepKeeps

(* A seek that succeeds stays within the 64 bits of a position.            *)
LEMMA SoughtRange ==
  ASSUME IInv, NEW f \in File, NEW how, NEW rel \in Int,
         -2 * OffHalf * OffHalf <= rel, Sought(f, how, rel).error = "none"
  PROVE  Sought(f, how, rel).to \in -2 * OffHalf * OffHalf .. Size
<1> DEFINE low == -2 * OffHalf * OffHalf
           to == Sought(f, how, rel).to
<1>1. pos[f] \in Int
  BY DEF IInv, Types, TypeOK
<1>2. to \in Int /\ to <= Size /\ (rel <= to \/ 0 <= to)
  BY <1>1, SeekAgrees
<1>3. low \in Int /\ low <= 0
  <2>1. OffHalf * OffHalf \in Nat
    BY Sizes
  <2> QED BY <2>1, Sizes
<1>4. low <= rel
  OBVIOUS
<1> HIDE DEF low, to
<1>5. to \in low .. Size
  BY <1>2, <1>3, <1>4, Sizes
<1> QED BY <1>5 DEF low, to

LEMMA LLSeekKeeps ==
  ASSUME IInv, NEW p \in Process, NEW f \in File, NEW how,
         NEW hi \in OffHi, NEW lo \in OffLo, LLSeek(p, f, how, hi, lo)
  PROVE  IInv' /\ Apart(p)
<1> DEFINE s == Sought(f, how, Joined(hi, lo))
<1>1. Joined(hi, lo) \in Int /\ -2 * OffHalf * OffHalf <= Joined(hi, lo)
  BY JoinedRange, DeviceAssumption DEF DeviceAssumption
<1>2. /\ pc[p] = "user" /\ lock[f] = None
      /\ calls < MaxCalls /\ calls' = calls + 1
      /\ UNCHANGED <<disk, lock, pc, call, buf, got>>
  BY DEF LLSeek, Calling
<1>3. CASE s.error # "none"
  <2>1. pos' = pos /\ reply' = [reply EXCEPT ![p] = S!Failed(s.error)]
    BY <1>3 DEF LLSeek
  <2>2. 0 \in -2 * OffHalf * OffHalf .. Size
    <3>1. OffHalf * OffHalf \in Nat
      BY Sizes
    <3> QED BY <3>1, Sizes
  <2> QED BY <1>2, <2>1, <2>2, SeekKeeps
<1>4. CASE s.error = "none"
  <2>1. pos' = [pos EXCEPT ![f] = s.to] /\ reply' = [reply EXCEPT ![p] = S!Returned(s.to, <<>>)]
    BY <1>4 DEF LLSeek
  <2>2. s.to \in -2 * OffHalf * OffHalf .. Size
    BY <1>1, <1>4, SoughtRange
  <2> HIDE DEF s
  <2> QED BY <1>2, <2>1, <2>2, SeekKeeps
<1> QED BY <1>3, <1>4

LEMMA LSeekKeeps ==
  ASSUME IInv, NEW p \in Process, NEW f \in File, NEW how,
         NEW off \in OffLo, LSeek(p, f, how, off)
  PROVE  IInv' /\ Apart(p)
<1> DEFINE s == Sought(f, how, Joined(IF off < 0 THEN -1 ELSE 0, off))
<1>1. off \in Int /\ Joined(IF off < 0 THEN -1 ELSE 0, off) = off
  BY JoinedSign, Sizes, DeviceAssumption DEF DeviceAssumption
<1>2. /\ pc[p] = "user" /\ lock[f] = None
      /\ calls < MaxCalls /\ calls' = calls + 1
      /\ UNCHANGED <<disk, lock, pc, call, buf, got>>
  BY DEF LSeek, Calling
<1>3. 0 \in -2 * OffHalf * OffHalf .. Size /\ -2 * OffHalf * OffHalf <= off
  <2>1. off \in -OffHalf .. OffHalf - 1
    BY DeviceAssumption DEF DeviceAssumption
  <2>2. PICK k \in Nat : OffHalf = 1 + k
    <3>1. OffHalf - 1 \in Nat
      BY Sizes
    <3> QED BY <3>1, Sizes
  <2>3. OffHalf * OffHalf = OffHalf + k * OffHalf /\ k * OffHalf \in Nat
    BY <2>2, Sizes
  <2> QED BY <2>1, <2>3, Sizes
<1>4. CASE s.error = "none" /\ s.to \in 0 .. 2 * OffHalf - 1
  <2>1. pos' = [pos EXCEPT ![f] = s.to] /\ reply' = [reply EXCEPT ![p] = S!Returned(s.to, <<>>)]
    BY <1>4 DEF LSeek
  <2>2. s.to \in -2 * OffHalf * OffHalf .. Size
    BY <1>1, <1>3, <1>4, SoughtRange
  <2> HIDE DEF s
  <2> QED BY <1>2, <2>1, <2>2, SeekKeeps
<1>5. CASE ~ (s.error = "none" /\ s.to \in 0 .. 2 * OffHalf - 1)
  <2>1. PICK value : pos' = pos /\ reply' = [reply EXCEPT ![p] = value]
    BY <1>5 DEF LSeek
  <2> QED BY <1>2, <1>3, <2>1, SeekKeeps
<1> QED BY <1>4, <1>5

(* Every step of p, by the action it is.                                   *)
LEMMA NextCases ==
  ASSUME Next
  PROVE  \E p \in Process :
           \/ Proceed(p)
           \/ \E f \in File, write \in BOOLEAN, s \in [Address -> Byte], n \in Nat :
                /\ Begin(p, f, write, s, n)
                /\ n \in Count /\ (write => s \in Source)
           \/ \E f \in File, how \in How, hi \in OffHi, lo \in OffLo : LLSeek(p, f, how, hi, lo)
           \/ \E f \in File, how \in How, off \in OffLo : LSeek(p, f, how, off)
<1> SUFFICES ASSUME NEW p \in Process,
                    \/ Proceed(p)
                    \/ \E f \in File :
                         \/ \E s \in Source, n \in Count : Begin(p, f, TRUE, s, n)
                         \/ \E n \in Count : Begin(p, f, FALSE, InitData, n)
                         \/ \E how \in How, hi \in OffHi, lo \in OffLo : LLSeek(p, f, how, hi, lo)
                         \/ \E how \in How, off \in OffLo : LSeek(p, f, how, off)
             PROVE
               \/ Proceed(p)
               \/ \E f \in File, write \in BOOLEAN, s \in [Address -> Byte], n \in Nat :
                    /\ Begin(p, f, write, s, n)
                    /\ n \in Count /\ (write => s \in Source)
               \/ \E f \in File, how \in How, hi \in OffHi, lo \in OffLo : LLSeek(p, f, how, hi, lo)
               \/ \E f \in File, how \in How, off \in OffLo : LSeek(p, f, how, off)
  BY DEF Next
<1>1. ASSUME NEW f \in File, NEW s \in Source, NEW n \in Count, Begin(p, f, TRUE, s, n)
      PROVE  \E write \in BOOLEAN, t \in [Address -> Byte], m \in Nat :
               /\ Begin(p, f, write, t, m)
               /\ m \in Count /\ (write => t \in Source)
  <2>1. s \in [Address -> Byte] /\ n \in Nat
    BY Sizes
  <2> QED BY <1>1, <2>1
<1>2. ASSUME NEW f \in File, NEW n \in Count, Begin(p, f, FALSE, InitData, n)
      PROVE  \E write \in BOOLEAN, t \in [Address -> Byte], m \in Nat :
               /\ Begin(p, f, write, t, m)
               /\ m \in Count /\ (write => t \in Source)
  <2>1. InitData \in [Address -> Byte] /\ n \in Nat
    BY Sizes
  <2> QED BY <1>2, <2>1
<1> QED BY <1>1, <1>2

LEMMA NextInv == IInv /\ [Next]_vars => IInv'
<1> SUFFICES ASSUME IInv, [Next]_vars PROVE IInv'
  OBVIOUS
<1>1. CASE UNCHANGED vars
  BY <1>1 DEF vars, IInv, Types, TypeOK, LockInv, CallInv, CountInv, StageInv,
              SectorAt, Base, Done
<1>2. CASE Next
  <2>1. PICK p \in Process :
          \/ Proceed(p)
          \/ \E f \in File, write \in BOOLEAN, s \in [Address -> Byte], n \in Nat :
               /\ Begin(p, f, write, s, n)
               /\ n \in Count /\ (write => s \in Source)
          \/ \E f \in File, how \in How, hi \in OffHi, lo \in OffLo : LLSeek(p, f, how, hi, lo)
          \/ \E f \in File, how \in How, off \in OffLo : LSeek(p, f, how, off)
    BY <1>2, NextCases
  <2>2. CASE ReadSector(p)
    BY <2>2, ReadMoves, MovesKeeps, FillKeeps
  <2>3. CASE WriteSector(p)
    BY <2>3, WriteMoves, MovesKeeps
  <2>4. CASE TransferSectors(p)
    BY <2>4, TransferMoves, MovesKeeps
  <2>5. CASE Finish(p)
    BY <2>5, FinishKeeps
  <2> QED BY <2>1, <2>2, <2>3, <2>4, <2>5, BeginKeeps, LLSeekKeeps, LSeekKeeps DEF Proceed
<1> QED BY <1>1, <1>2

(* The invariant holds of every behaviour of the specification.            *)
LEMMA Invariance == Spec => []IInv
BY InitInv, NextInv, PTL DEF Spec

(* No position leaves its 64 bits, and a call that is under way holds the  *)
(* lock of its file, stays within the device and has moved what its counts *)
(* say (TypeOK), whatever the sectors and the counts.                      *)
THEOREM TypeCorrect == Spec => []TypeOK
<1>1. IInv => TypeOK
  BY DEF IInv, Types
<1> QED BY <1>1, Invariance, PTL

-----------------------------------------------------------------------------
(* The drives are the files of Storage.                                    *)

(* A file and a reply as Storage has them.                                 *)
Bytes(f) ==
  [a \in Address |->
     IF \E p \in Under(f) : call[p].write /\ a - call[p].at \in 0 .. call[p].left - 1
     THEN LET p == lock[f] IN call[p].source[Done(p) + a - call[p].at]
     ELSE disk[f][a]]

Position(f) == IF lock[f] = None THEN pos[f] ELSE pos[f] + call[lock[f]].total

Answer(p) ==
  IF pc[p] = "user" THEN reply[p]
  ELSE [ret |-> call[p].total, errno |-> "none",
        bytes |-> got[p] \o [i \in 1 .. (IF call[p].write THEN 0 ELSE call[p].left) |->
                               disk[call[p].file][call[p].at + i - 1]]]

LEMMA Pointwise ==
  /\ FinishedData = [f \in File |-> Bytes(f)]
  /\ FinishedPos = [f \in File |-> Position(f)]
  /\ FinishedReply = [p \in Process |-> Answer(p)]
  /\ FinishedData' = [f \in File |-> Bytes(f)']
  /\ FinishedPos' = [f \in File |-> Position(f)']
  /\ FinishedReply' = [p \in Process |-> Answer(p)']
BY DEF FinishedData, FinishedPos, FinishedReply, Bytes, Position, Answer

(* The file of a call, and one that is free.                               *)
LEMMA BusyBytes ==
  ASSUME NEW p \in Process, NEW f \in File, lock[f] = p, IInv
  PROVE  /\ Bytes(f) = [a \in Address |->
              IF call[p].write /\ a - call[p].at \in 0 .. call[p].left - 1
              THEN call[p].source[(call[p].total - call[p].left) + a - call[p].at]
              ELSE disk[f][a]]
         /\ Position(f) = pos[f] + call[p].total
BY Sizes DEF Bytes, Position, Under, Done

LEMMA FreeBytes ==
  ASSUME NEW f \in File, lock[f] = None, IInv
  PROVE  Bytes(f) = disk[f] /\ Position(f) = pos[f]
<1>1. Under(f) = {}
  BY Sizes DEF Under
<1>2. disk[f] \in [Address -> Byte]
  BY DEF IInv, Types, TypeOK
<1>3. Bytes(f) = [a \in Address |-> disk[f][a]]
  BY <1>1 DEF Bytes
<1> QED BY <1>2, <1>3 DEF Position

LEMMA BusyBytesNext ==
  ASSUME NEW p \in Process, NEW f \in File, lock'[f] = p, IInv'
  PROVE  /\ Bytes(f)' = [a \in Address |->
              IF call'[p].write /\ a - call'[p].at \in 0 .. call'[p].left - 1
              THEN call'[p].source[(call'[p].total - call'[p].left) + a - call'[p].at]
              ELSE disk'[f][a]]
         /\ Position(f)' = pos'[f] + call'[p].total
BY Sizes DEF Bytes, Position, Under, Done

LEMMA FreeBytesNext ==
  ASSUME NEW f \in File, lock'[f] = None, IInv'
  PROVE  Bytes(f)' = disk'[f] /\ Position(f)' = pos'[f]
<1>1. Under(f)' = {}
  BY Sizes DEF Under
<1>2. disk'[f] \in [Address -> Byte]
  BY DEF IInv, Types, TypeOK
<1>3. Bytes(f)' = [a \in Address |-> disk'[f][a]]
  BY <1>1 DEF Bytes
<1> QED BY <1>2, <1>3 DEF Position

(* A file of another process, or free, is the same after a step of p.      *)
LEMMA OthersBytes ==
  ASSUME IInv, IInv', NEW p \in Process, Apart(p),
         NEW f \in File, lock[f] # p, lock'[f] = lock[f],
         disk'[f] = disk[f], pos'[f] = pos[f]
  PROVE  Bytes(f)' = Bytes(f) /\ Position(f)' = Position(f)
<1>1. CASE lock[f] = None
  BY <1>1, FreeBytes, FreeBytesNext
<1>2. CASE lock[f] # None
  <2>1. lock[f] \in Process /\ lock[f] # p
    BY <1>2 DEF IInv, Types, TypeOK
  <2>2. call'[lock[f]] = call[lock[f]]
    BY <2>1 DEF Apart
  <2>3. Under(f) = {lock[f]} /\ Under(f)' = {lock[f]}
    BY <2>1 DEF Under
  <2> QED BY <2>1, <2>2, <2>3, Sizes DEF Bytes, Position, Done
<1> QED BY <1>1, <1>2

LEMMA OthersAnswer ==
  ASSUME IInv, NEW p \in Process, Apart(p), NEW q \in Process, q # p
  PROVE  Answer(q)' = Answer(q)
<1>1. /\ pc'[q] = pc[q] /\ call'[q] = call[q] /\ got'[q] = got[q] /\ reply'[q] = reply[q]
      /\ \A f \in File : lock[f] = q => disk'[f] = disk[f]
  BY DEF Apart
<1>2. pc[q] # "user" => call[q].file \in File /\ lock[call[q].file] = q
  BY DEF IInv, CallInv, CountInv
<1> QED BY <1>1, <1>2 DEF Answer

-----------------------------------------------------------------------------
(* What a call does on Storage it does when it begins; the rest stutters.  *)

Stutter ==
  FinishedData' = FinishedData /\ FinishedPos' = FinishedPos /\ FinishedReply' = FinishedReply

(* Joining what a read has got to the bytes it still has to get.           *)
LEMMA Rejoin ==
  ASSUME NEW s \in Seq(Byte), NEW l \in Nat, NEW n \in 0 .. l,
         NEW t \in Seq(Byte), Len(t) = l
  PROVE  (s \o [i \in 1 .. n |-> t[i]]) \o [i \in 1 .. l - n |-> t[n + i]] = s \o t
<1> DEFINE u == [i \in 1 .. n |-> t[i]]
           v == [i \in 1 .. l - n |-> t[n + i]]
<1>1. n \in Nat /\ l - n \in Nat
  OBVIOUS
<1>2. u \in Seq(Byte) /\ Len(u) = n /\ \A i \in 1 .. n : u[i] = t[i]
  BY <1>1
<1>3. v \in Seq(Byte) /\ Len(v) = l - n /\ \A i \in 1 .. l - n : v[i] = t[n + i]
  <2>1. \A i \in 1 .. l - n : n + i \in 1 .. Len(t)
    BY <1>1
  <2> QED BY <1>1, <2>1
<1> HIDE DEF u, v
<1> DEFINE x == (s \o u) \o v
           y == s \o t
<1>4. s \o u \in Seq(Byte) /\ Len(s \o u) = Len(s) + n
  BY <1>2
<1>5. /\ x \in Seq(Byte) /\ y \in Seq(Byte)
      /\ Len(x) = Len(s) + n + Len(v) /\ Len(y) = Len(s) + l
  <2>1. \A a, b \in Seq(Byte) : a \o b \in Seq(Byte) /\ Len(a \o b) = Len(a) + Len(b)
    OBVIOUS
  <2>2. x \in Seq(Byte) /\ Len(x) = Len(s \o u) + Len(v)
    BY <1>3, <1>4, <2>1
  <2>3. y \in Seq(Byte) /\ Len(y) = Len(s) + Len(t)
    BY <2>1
  <2> QED BY <1>4, <2>2, <2>3
<1>6. Len(x) = Len(s) + l /\ Len(s) \in Nat
  BY <1>1, <1>3, <1>5
<1>7. ASSUME NEW i \in 1 .. Len(s) + l PROVE x[i] = y[i]
  <2>0. i \in Nat /\ 1 <= i /\ i <= Len(s) + l
    BY <1>6
  <2>1. CASE i <= Len(s)
    BY <1>1, <1>2, <1>3, <1>4, <2>1
  <2>2. CASE Len(s) < i /\ i <= Len(s) + n
    BY <1>1, <1>2, <1>3, <1>4, <2>2
  <2>3. CASE Len(s) + n < i
    <3> DEFINE k == i - (Len(s) + n)
    <3>1. k \in 1 .. l - n /\ i - Len(s) = n + k /\ i - Len(s) \in 1 .. l
      BY <1>1, <1>6, <2>0, <2>3
    <3>2. x[i] = v[k]
      BY <1>1, <1>3, <1>4, <1>6, <2>0, <2>3
    <3>3. y[i] = t[i - Len(s)]
      BY <1>6, <2>0, <2>3, <3>1
    <3> QED BY <1>3, <3>1, <3>2, <3>3
  <2> QED BY <1>1, <1>6, <2>0, <2>1, <2>2, <2>3
<1> HIDE DEF x, y
<1>8. x = y
  BY <1>5, <1>6, <1>7
<1> QED BY <1>8 DEF x, y, u, v

LEMMA MovesStutter ==
  ASSUME IInv, IInv', NEW p \in Process, NEW n, Moves(p, n), Apart(p)
  PROVE  Stutter
<1> DEFINE c == call[p]
           d == call'[p]
<1>1. /\ c \in Call /\ CountInv(p) /\ d.file = c.file
      /\ pc[p] # "user" /\ n \in 0 .. c.left
      /\ pos' = pos /\ lock' = lock /\ reply' = reply
  BY DEF Moves, Advance, IInv, Types, CallInv, Call
<1>2. /\ c.file \in File /\ lock[c.file] = p /\ lock'[c.file] = p
      /\ c.at \in Nat /\ c.left \in Nat /\ c.total \in Nat /\ c.left <= c.total
      /\ c.at + c.left <= Size
  BY <1>1 DEF CountInv, Call
<1>3. PICK f \in File : f = c.file
  BY <1>2
<1>4. d = [c EXCEPT !.at = @ + n, !.left = @ - n]
  BY <1>1 DEF Moves, Advance, IInv, Types
<1>5. /\ d.write = c.write /\ d.source = c.source /\ d.total = c.total
      /\ d.at = c.at + n /\ d.left = c.left - n
  <2> HIDE DEF d
  <2>1. d = [write |-> c.write, file |-> c.file, source |-> c.source,
             at |-> c.at + n, left |-> c.left - n, total |-> c.total]
    BY <1>1, <1>4, Advanced
  <2> QED BY <2>1
<1>6. /\ c.write => disk'[f] = Put(c, n) /\ got' = got
      /\ ~ c.write => disk' = disk /\ got'[p] = got[p] \o Taken(c, n)
      /\ \A g \in File : g # f => disk'[g] = disk[g]
      /\ pc'[p] = Rest(c.left - n)
  <2>1. /\ c.write => disk' = [disk EXCEPT ![f] = Put(c, n)] /\ got' = got
        /\ ~ c.write => disk' = disk /\ got' = [got EXCEPT ![p] = @ \o Taken(c, n)]
        /\ pc' = [pc EXCEPT ![p] = Rest(c.left - n)]
    BY <1>3 DEF Moves, Advance
  <2>2. /\ disk \in [File -> [Address -> Byte]] /\ got \in [Process -> Seq(Byte)]
        /\ pc \in [Process -> {"user", "head", "headWrite", "bulk", "tail", "tailWrite", "done"}]
        /\ c.write \in BOOLEAN
    BY <1>1 DEF IInv, Types, TypeOK, Call
  <2> HIDE DEF c
  <2> QED BY <2>1, <2>2
<1>7. lock[f] = p /\ lock'[f] = p /\ d.file = f
  BY <1>3, <1>1, <1>2
<1>8. /\ n \in Nat /\ c.left - n \in Nat /\ c.at + n \in Nat /\ c.total - c.left \in Nat
      /\ c.total - (c.left - n) = (c.total - c.left) + n
  <2> DEFINE l == c.left
             t == c.total
             x == c.at
  <2>1. n \in 0 .. l /\ l \in Nat /\ t \in Nat /\ l <= t /\ x \in Nat
    BY <1>1, <1>2
  <2> HIDE DEF l, t, x
  <2>2. n \in Nat /\ l - n \in Nat /\ x + n \in Nat /\ t - l \in Nat /\ t - (l - n) = (t - l) + n
    BY <2>1
  <2> QED BY <2>2 DEF l, t, x
<1>9. \A g \in File : g # f => Bytes(g)' = Bytes(g) /\ Position(g)' = Position(g)
  <2>1. \A g \in File : g # f => lock[g] # p
    BY <1>3, <1>1 DEF IInv, LockInv
  <2> QED BY <1>1, <1>6, <2>1, OthersBytes
<1>10. Position(f)' = Position(f)
  BY <1>1, <1>7, <1>5, BusyBytes, BusyBytesNext
<1>11. /\ Bytes(f) = [a \in Address |->
              IF c.write /\ a - c.at \in 0 .. c.left - 1
              THEN c.source[(c.total - c.left) + a - c.at] ELSE disk[f][a]]
       /\ Bytes(f)' = [a \in Address |->
              IF d.write /\ a - d.at \in 0 .. d.left - 1
              THEN d.source[(d.total - d.left) + a - d.at] ELSE disk'[f][a]]
  BY <1>7, BusyBytes, BusyBytesNext DEF d
<1>12. Bytes(f)' = Bytes(f)
  <2>1. CASE ~ c.write
    BY <1>5, <1>6, <1>11, <2>1
  <2>2. CASE c.write
    <3> DEFINE old(a) == IF a - c.at \in 0 .. c.left - 1
                         THEN c.source[(c.total - c.left) + a - c.at]
                         ELSE disk[f][a]
               new(a) == IF a - d.at \in 0 .. d.left - 1
                         THEN c.source[(d.total - d.left) + a - d.at]
                         ELSE Put(c, n)[a]
    <3>1. Bytes(f) = [a \in Address |-> old(a)]
      BY <1>11, <2>2
    <3>2. Bytes(f)' = [a \in Address |-> new(a)]
      BY <1>5, <1>6, <1>11, <2>2
    <3>3. ASSUME NEW a \in Address PROVE new(a) = old(a)
      <4> DEFINE l == c.left
                 t == c.total
                 x == c.at
      <4>1. /\ l \in Nat /\ t \in Nat /\ x \in Nat /\ n \in Nat /\ a \in Int /\ n <= l
            /\ d.at = x + n /\ d.left = l - n /\ d.total = t
        BY <1>1, <1>2, <1>5, <1>8, Sizes DEF Address
      <4>2. Put(c, n)[a] = IF x <= a /\ a < x + n THEN c.source[t - l + a - x]
                           ELSE disk[f][a]
        BY <1>3 DEF Put, SourceAt
      <4>3. old(a) = IF a - x \in 0 .. l - 1 THEN c.source[(t - l) + a - x]
                     ELSE disk[f][a]
        OBVIOUS
      <4>4. new(a) = IF a - (x + n) \in 0 .. (l - n) - 1
                     THEN c.source[(t - (l - n)) + a - (x + n)] ELSE Put(c, n)[a]
        BY <4>1
      <4> HIDE DEF l, t, x, old, new
      <4>5. CASE x <= a /\ a < x + n
        <5>1. a - x \in 0 .. l - 1 /\ a - (x + n) \notin 0 .. (l - n) - 1
          BY <4>1, <4>5
        <5> QED BY <4>2, <4>3, <4>4, <4>5, <5>1
      <4>6. CASE x + n <= a /\ a < x + l
        <5>1. /\ a - x \in 0 .. l - 1 /\ a - (x + n) \in 0 .. (l - n) - 1
              /\ (t - (l - n)) + a - (x + n) = (t - l) + a - x
          BY <4>1, <4>6
        <5> QED BY <4>2, <4>3, <4>4, <4>6, <5>1
      <4>7. CASE a < x \/ x + l <= a
        <5>1. /\ a - x \notin 0 .. l - 1 /\ a - (x + n) \notin 0 .. (l - n) - 1
              /\ ~ (x <= a /\ a < x + n)
          BY <4>1, <4>7
        <5> QED BY <4>2, <4>3, <4>4, <4>7, <5>1
      <4> QED BY <4>1, <4>5, <4>6, <4>7
    <3> HIDE DEF old, new
    <3> QED BY <3>1, <3>2, <3>3
  <2> QED BY <2>1, <2>2
<1>13. Answer(p)' = Answer(p)
  <2>1. pc'[p] # "user"
    BY <1>6 DEF Rest
  <2>2. CASE c.write
    <3>1. got'[p] = got[p] /\ d.write
      BY <1>5, <1>6, <2>2
    <3>2. got[p] = <<>>
      BY <1>1, <2>2 DEF CountInv
    <3>3. /\ Answer(p) = [ret |-> c.total, errno |-> "none", bytes |-> got[p] \o
                [i \in 1 .. 0 |-> disk[c.file][c.at + i - 1]]]
          /\ Answer(p)' = [ret |-> d.total, errno |-> "none", bytes |-> got'[p] \o
                [i \in 1 .. 0 |-> disk'[d.file][d.at + i - 1]]]
      BY <1>1, <2>1, <2>2, <3>1 DEF Answer, d
    <3>4. [i \in 1 .. 0 |-> disk[c.file][c.at + i - 1]] = [i \in 1 .. 0 |-> disk'[d.file][d.at + i - 1]]
      OBVIOUS
    <3> QED BY <1>5, <3>1, <3>3, <3>4
  <2>3. CASE ~ c.write
    <3> DEFINE t == Taken(c, c.left)
               rest == [i \in 1 .. d.left |-> disk'[d.file][d.at + i - 1]]
    <3>1. /\ Answer(p) = [ret |-> c.total, errno |-> "none", bytes |-> got[p] \o t]
          /\ Answer(p)' = [ret |-> d.total, errno |-> "none", bytes |-> got'[p] \o rest]
      BY <1>1, <1>5, <2>1, <2>3 DEF Answer, d, Taken
    <3>2. t \in Seq(Byte) /\ Len(t) = c.left /\ got[p] \in Seq(Byte)
      <4>1. c.left \in 0 .. c.left
        BY <1>2
      <4> QED BY <1>1, <4>1, MovedBytes DEF IInv, Types
    <3>3. Taken(c, n) = [i \in 1 .. n |-> t[i]]
      <4> DEFINE l == c.left
      <4>1. \A i \in 1 .. n : i \in 1 .. l
        <5>1. n \in 0 .. l /\ l \in Nat
          BY <1>1, <1>2
        <5> HIDE DEF l
        <5> QED BY <5>1
      <4> QED BY <4>1 DEF Taken
    <3>4. rest = [i \in 1 .. c.left - n |-> t[n + i]]
      <4>1. \A i \in 1 .. c.left - n : n + i \in 1 .. c.left /\ (c.at + n) + i - 1 = c.at + (n + i) - 1
        <5> DEFINE l == c.left
                   x == c.at
        <5>1. n \in 0 .. l /\ l \in Nat /\ x \in Nat
          BY <1>1, <1>2
        <5> HIDE DEF l, x
        <5>2. \A i \in 1 .. l - n : n + i \in 1 .. l /\ (x + n) + i - 1 = x + (n + i) - 1
          BY <5>1
        <5> QED BY <5>2 DEF l, x
      <4>2. disk' = disk /\ d.file = c.file /\ d.at = c.at + n /\ d.left = c.left - n
        BY <1>1, <1>5, <1>6, <2>3
      <4>3. \A i \in 1 .. c.left - n : disk'[d.file][d.at + i - 1] = t[n + i]
        BY <4>1, <4>2 DEF Taken
      <4> QED BY <4>2, <4>3
    <3>5. got'[p] \o rest = got[p] \o t
      <4> DEFINE l == c.left
      <4>1. l \in Nat /\ n \in 0 .. l /\ Len(t) = l /\ rest = [i \in 1 .. l - n |-> t[n + i]]
        BY <1>1, <1>2, <3>2, <3>4
      <4>2. got'[p] = got[p] \o [i \in 1 .. n |-> t[i]]
        BY <1>6, <2>3, <3>3
      <4> HIDE DEF l, t, rest
      <4>3. t \in Seq(Byte) /\ got[p] \in Seq(Byte)
        BY <3>2
      <4>4. (got[p] \o [i \in 1 .. n |-> t[i]]) \o [i \in 1 .. l - n |-> t[n + i]] = got[p] \o t
        BY <4>1, <4>3, Rejoin
      <4> QED BY <4>1, <4>2, <4>4
    <3> QED BY <1>5, <3>1, <3>5
  <2> QED BY <2>2, <2>3
<1>14. \A q \in Process : Answer(q)' = Answer(q)
  BY <1>13, OthersAnswer
<1>15. \A g \in File : Bytes(g)' = Bytes(g) /\ Position(g)' = Position(g)
  BY <1>9, <1>10, <1>12
<1> QED BY <1>14, <1>15, Pointwise DEF Stutter

LEMMA FillStutters ==
  ASSUME IInv, IInv', NEW p \in Process, ReadSector(p), call[p].write, Apart(p)
  PROVE  Stutter
<1>1. /\ disk' = disk /\ pos' = pos /\ lock' = lock /\ reply' = reply
      /\ call' = call /\ got' = got
      /\ pc[p] # "user" /\ pc'[p] # "user"
  BY DEF ReadSector, IInv, Types, TypeOK
<1>2. \A f \in File : Bytes(f)' = Bytes(f) /\ Position(f)' = Position(f)
  BY <1>1 DEF Bytes, Position, Under, Done
<1>3. Answer(p)' = Answer(p)
  BY <1>1 DEF Answer
<1>4. \A q \in Process : Answer(q)' = Answer(q)
  BY <1>3, OthersAnswer
<1> QED BY <1>2, <1>4, Pointwise DEF Stutter

(* When a call is over, all that it promised is there.                     *)
LEMMA FinishStutters ==
  ASSUME IInv, IInv', NEW p \in Process, Finish(p), Apart(p)
  PROVE  Stutter
<1> DEFINE c == call[p]
<1>1. /\ pc[p] = "done"
      /\ pos' = [pos EXCEPT ![c.file] = @ + c.total]
      /\ reply' = [reply EXCEPT ![p] = S!Returned(c.total, got[p])]
      /\ lock' = [lock EXCEPT ![c.file] = None]
      /\ pc' = [pc EXCEPT ![p] = "user"]
      /\ disk' = disk
  BY DEF Finish
<1>2. CountInv(p) /\ StageInv(p) /\ c \in Call /\ Types /\ TypeOK
  BY <1>1 DEF IInv, Types, CallInv
<1>3. c.file \in File /\ lock[c.file] = p /\ c.left = 0 /\ c.at \in Nat /\ c.write \in BOOLEAN
  BY <1>1, <1>2 DEF CountInv, StageInv, Call
<1>4. PICK f \in File : f = c.file
  BY <1>3
<1> HIDE DEF c
<1>5. lock[f] = p /\ lock'[f] = None /\ pos'[f] = pos[f] + c.total
  BY <1>1, <1>2, <1>3, <1>4 DEF TypeOK
<1>6. disk[f] \in [Address -> Byte]
  BY <1>2 DEF TypeOK
<1>7. Bytes(f)' = Bytes(f)
  <2>1. \A a \in Address : a - c.at \notin 0 .. c.left - 1
    BY <1>3, Sizes DEF Address
  <2>2. Bytes(f) = [a \in Address |-> disk[f][a]]
    BY <1>5, <2>1, BusyBytes DEF c
  <2> QED BY <1>1, <1>5, <1>6, <2>2, FreeBytesNext
<1>8. Position(f)' = Position(f)
  BY <1>5, BusyBytes, FreeBytesNext DEF c
<1>9. ASSUME NEW g \in File, g # f
      PROVE  Bytes(g)' = Bytes(g) /\ Position(g)' = Position(g)
  <2>1. lock[g] # p
    BY <1>4, <1>9 DEF IInv, LockInv, c
  <2>2. lock'[g] = lock[g] /\ pos'[g] = pos[g] /\ disk'[g] = disk[g]
    BY <1>1, <1>2, <1>4, <1>9 DEF TypeOK
  <2> QED BY <2>1, <2>2, OthersBytes
<1>10. Answer(p)' = Answer(p)
  <2>1. got[p] \in Seq(Byte)
    BY <1>2 DEF Types
  <2>2. Answer(p)' = [ret |-> c.total, errno |-> "none", bytes |-> got[p]]
    <3>1. pc'[p] = "user"
      BY <1>1, <1>2 DEF TypeOK
    <3>2. reply = [q \in Process |-> reply[q]]
      BY <1>2 DEF Types
    <3>3. reply'[p] = S!Returned(c.total, got[p])
      BY <1>1, <3>2
    <3> QED BY <3>1, <3>3 DEF Answer, S!Returned
  <2>3. Answer(p) = [ret |-> c.total, errno |-> "none",
                     bytes |-> got[p] \o [i \in 1 .. 0 |-> disk[c.file][c.at + i - 1]]]
    BY <1>1, <1>3 DEF Answer, c
  <2>4. got[p] \o [i \in 1 .. 0 |-> disk[c.file][c.at + i - 1]] = got[p]
    <3>1. [i \in 1 .. 0 |-> disk[c.file][c.at + i - 1]] = <<>>
      OBVIOUS
    <3>2. \A s \in Seq(Byte) : s \o <<>> = s
      OBVIOUS
    <3> QED BY <2>1, <3>1, <3>2
  <2> QED BY <2>2, <2>3, <2>4
<1>11. \A q \in Process : Answer(q)' = Answer(q)
  BY <1>10, OthersAnswer
<1>12. \A g \in File : Bytes(g)' = Bytes(g) /\ Position(g)' = Position(g)
  BY <1>7, <1>8, <1>9
<1> QED BY <1>11, <1>12, Pointwise DEF Stutter

(* A read or a write happens to Storage when it begins.                    *)
LEMMA BeginActs ==
  ASSUME IInv, IInv', NEW p \in Process, NEW f \in File, NEW write \in BOOLEAN,
         NEW s \in [Address -> Byte], NEW n \in Nat, Begin(p, f, write, s, n), Apart(p)
  PROVE  IF write THEN S!Write(p, f, s, n) ELSE S!Read(p, f, n)
<1> DEFINE k == S!Within(pos[f], n)
           out == IF write THEN <<>> ELSE S!Slice(disk[f], pos[f], k)
           now == IF write THEN S!Written(disk[f], pos[f], s, k) ELSE disk[f]
<1>1. /\ pc[p] = "user" /\ lock[f] = None /\ disk' = disk /\ pos' = pos
      /\ Types /\ TypeOK /\ pos[f] \in Int /\ disk[f] \in [Address -> Byte]
  BY DEF Begin, Calling, IInv, Types, TypeOK
<1>2. Bytes(f) = disk[f] /\ Position(f) = pos[f]
  BY <1>1, FreeBytes
<1>3. ASSUME NEW g \in File, g # f
      PROVE  Bytes(g)' = Bytes(g) /\ Position(g)' = Position(g)
  <2>1. lock[g] # p
    BY <1>1 DEF IInv, LockInv
  <2>2. lock'[g] = lock[g]
    BY <1>1, <1>3 DEF Begin, TypeOK
  <2> QED BY <1>1, <2>1, <2>2, OthersBytes
<1>4. /\ Bytes(f)' = now /\ Position(f)' = pos[f] + k
      /\ Answer(p)' = S!Returned(k, out)
  <2>1. CASE pos[f] \notin Address
    <3>1. /\ reply' = [reply EXCEPT ![p] = S!Returned(0, <<>>)]
          /\ lock' = lock /\ pc' = pc
      BY <2>1 DEF Begin
    <3>2. k = 0
      BY <2>1 DEF S!Within, Address, S!Address
    <3> HIDE DEF k
    <3>3. Bytes(f)' = disk[f] /\ Position(f)' = pos[f]
      BY <1>1, <3>1, FreeBytesNext
    <3>4. now = disk[f]
      <4>1. \A a \in Address : ~ (pos[f] <= a /\ a < pos[f] + k)
        BY <1>1, <3>2, Sizes DEF Address
      <4>2. S!Written(disk[f], pos[f], s, k) = [a \in Address |-> disk[f][a]]
        BY <4>1 DEF S!Written, S!Address, Address
      <4> QED BY <1>1, <4>2
    <3>5. out = <<>>
      BY <3>2 DEF S!Slice
    <3>6. Answer(p)' = S!Returned(0, <<>>)
      <4>1. reply = [q \in Process |-> reply[q]]
        BY <1>1 DEF Types
      <4>2. reply'[p] = S!Returned(0, <<>>)
        BY <3>1, <4>1
      <4> QED BY <1>1, <3>1, <4>2 DEF Answer
    <3> QED BY <1>1, <3>2, <3>3, <3>4, <3>5, <3>6
  <2>2. CASE pos[f] \in Address
    <3> DEFINE c == call'[p]
    <3>1. /\ call'[p] = [write |-> write, file |-> f, source |-> s,
                         at |-> pos[f], left |-> k, total |-> k]
          /\ lock' = [lock EXCEPT ![f] = p]
          /\ got'[p] = <<>>
          /\ pc'[p] = IF pos[f] % SectorSize # 0 THEN "head" ELSE Rest(k)
      BY <1>1, <2>2 DEF Begin, Types, TypeOK, S!Within, Address, S!Address
    <3>2. /\ c.write = write /\ c.file = f /\ c.source = s
          /\ c.at = pos[f] /\ c.left = k /\ c.total = k
      BY <3>1
    <3>3. k \in Nat
      BY <1>1, <2>2, Sizes DEF S!Within, Address, S!Address
    <3>4. lock'[f] = p /\ pc'[p] # "user"
      BY <1>1, <3>1 DEF TypeOK, Rest
    <3> HIDE DEF c, k
    <3>5. Position(f)' = pos[f] + k
      BY <1>1, <3>2, <3>4, BusyBytesNext DEF c
    <3>6. Bytes(f)' = [a \in Address |->
                         IF write /\ a - pos[f] \in 0 .. k - 1
                         THEN s[(k - k) + a - pos[f]] ELSE disk[f][a]]
      BY <1>1, <3>2, <3>4, BusyBytesNext DEF c
    <3>7. Bytes(f)' = now
      <4>1. CASE ~ write
        BY <1>1, <3>6, <4>1
      <4>2. CASE write
        <5>1. \A a \in Address :
                /\ a - pos[f] \in 0 .. k - 1 <=> pos[f] <= a /\ a < pos[f] + k
                /\ (k - k) + a - pos[f] = a - pos[f]
          BY <1>1, <3>3, Sizes DEF Address
        <5> QED BY <3>6, <4>2, <5>1 DEF S!Written, S!Address, Address
      <4> QED BY <4>1, <4>2
    <3>8. Answer(p)' = S!Returned(k, out)
      <4>1. Answer(p)' = [ret |-> c.total, errno |-> "none",
              bytes |-> got'[p] \o [i \in 1 .. (IF c.write THEN 0 ELSE c.left) |->
                                      disk'[c.file][c.at + i - 1]]]
        BY <3>4 DEF Answer, c
      <4>2. CASE write
        <5>1. <<>> \o [i \in 1 .. 0 |-> disk'[c.file][c.at + i - 1]] = <<>>
          <6>1. [i \in 1 .. 0 |-> disk'[c.file][c.at + i - 1]] = <<>>
            OBVIOUS
          <6> QED BY <6>1
        <5> QED BY <3>1, <3>2, <4>1, <4>2, <5>1 DEF S!Returned
      <4>3. CASE ~ write
        <5> DEFINE t == [i \in 1 .. k |-> disk[f][pos[f] + i - 1]]
        <5>1. t \in Seq(Byte)
          <6>1. \A i \in 1 .. k : pos[f] + i - 1 \in Address
            <7>1. pos[f] \in Nat /\ pos[f] + k <= Size
              BY <1>1, <2>2, Sizes DEF Address, S!Address, S!Within, k
            <7> QED BY <3>3, <7>1, Sizes DEF Address
          <6> QED BY <1>1, <3>3, <6>1
        <5>2. <<>> \o t = t
          <6> HIDE DEF t
          <6> QED BY <5>1
        <5>3. [i \in 1 .. c.left |-> disk'[c.file][c.at + i - 1]] = t
          BY <1>1, <3>2
        <5>4. out = t
          BY <4>3 DEF S!Slice
        <5> HIDE DEF t, out
        <5> QED BY <3>1, <3>2, <4>1, <4>3, <5>2, <5>3, <5>4 DEF S!Returned
      <4> QED BY <4>2, <4>3
    <3> QED BY <3>5, <3>7, <3>8
  <2> QED BY <2>1, <2>2
<1> HIDE DEF k, out, now
<1>5. FinishedData' = [FinishedData EXCEPT ![f] = now]
  BY <1>3, <1>4, Pointwise
<1>6. FinishedPos' = [FinishedPos EXCEPT ![f] = @ + k]
  BY <1>2, <1>3, <1>4, Pointwise
<1>7. FinishedReply' = [FinishedReply EXCEPT ![p] = S!Returned(k, out)]
  BY <1>4, Pointwise, OthersAnswer
<1>8. FinishedData[f] = disk[f] /\ FinishedPos[f] = pos[f]
  BY <1>2, Pointwise
<1> DEFINE wrote == [source |-> s, count |-> n]
           read == [count |-> n]
<1> HIDE DEF wrote, read
<1>11. S!Asks(p, f, IF write THEN wrote ELSE read)
  BY DEF Begin, wrote, read
<1>9. CASE write
  <2>1. S!Asks(p, f, wrote)
    BY <1>9, <1>11
  <2> QED BY <1>5, <1>6, <1>7, <1>8, <1>9, <2>1 DEF S!Write, k, out, now, wrote
<1>10. CASE ~ write
  <2>2. S!Asks(p, f, read)
    BY <1>10, <1>11
  <2>1. FinishedData' = FinishedData
    BY <1>2, <1>3, <1>4, <1>10, Pointwise DEF now
  <2> QED BY <1>6, <1>7, <1>8, <1>10, <2>1, <2>2 DEF S!Read, k, out, read
<1> QED BY <1>9, <1>10

(* A seek happens to Storage as it happens to the drive.                   *)
Sets(p, f, to, value) ==
  /\ pos' = [pos EXCEPT ![f] = to]
  /\ reply' = [reply EXCEPT ![p] = value]

SetsFinished(p, f, to, value) ==
  /\ FinishedData' = FinishedData
  /\ FinishedPos' = [FinishedPos EXCEPT ![f] = to]
  /\ FinishedReply' = [FinishedReply EXCEPT ![p] = value]

LEMMA SeekMaps ==
  ASSUME IInv, IInv', NEW p \in Process, NEW f \in File, NEW to, NEW value, Apart(p),
         pc[p] = "user", lock[f] = None, Sets(p, f, to, value),
         UNCHANGED <<disk, lock, pc, call, buf, got>>
  PROVE  SetsFinished(p, f, to, value)
<1>1. /\ pos \in [File -> -2 * OffHalf * OffHalf .. Size]
      /\ reply = [q \in Process |-> reply[q]]
  BY DEF IInv, Types, TypeOK
<1>2. Bytes(f)' = Bytes(f) /\ Position(f)' = to
  BY <1>1, FreeBytes, FreeBytesNext DEF Sets
<1>3. ASSUME NEW g \in File, g # f
      PROVE  Bytes(g)' = Bytes(g) /\ Position(g)' = Position(g)
  <2>1. lock[g] # p
    BY DEF IInv, LockInv
  <2>2. lock'[g] = lock[g] /\ pos'[g] = pos[g] /\ disk'[g] = disk[g]
    BY <1>1, <1>3 DEF Sets
  <2> QED BY <2>1, <2>2, OthersBytes
<1>4. Answer(p)' = value
  <2>1. reply'[p] = value
    BY <1>1 DEF Sets
  <2> QED BY <2>1 DEF Answer
<1> QED BY <1>2, <1>3, <1>4, OthersAnswer, Pointwise DEF SetsFinished

LEMMA LLSeekActs ==
  ASSUME IInv, IInv', NEW p \in Process, NEW f \in File, NEW how,
         NEW hi \in OffHi, NEW lo \in OffLo, LLSeek(p, f, how, hi, lo), Apart(p)
  PROVE  S!Seek(p, f, how, Joined(hi, lo), TRUE)
<1> DEFINE rel == Joined(hi, lo)
           s == Sought(f, how, rel)
<1>1. rel \in Int
  BY JoinedRange, DeviceAssumption DEF DeviceAssumption
<1>2. /\ pc[p] = "user" /\ lock[f] = None
      /\ UNCHANGED <<disk, lock, pc, call, buf, got>>
  BY DEF LLSeek, Calling
<1>3. pos[f] \in Int /\ pos = [pos EXCEPT ![f] = pos[f]]
  BY DEF IInv, Types, TypeOK
<1>4. /\ s.error = S!SeekError(how, rel, pos[f])
      /\ s.error = "none" => s.to = S!Target(how, rel, pos[f])
  BY <1>1, <1>3, SeekAgrees
<1>5. FinishedPos[f] = pos[f] /\ FinishedPos = [FinishedPos EXCEPT ![f] = pos[f]]
  BY <1>2, FreeBytes, Pointwise
<1> DEFINE request == [how |-> how, offset |-> rel, wide |-> TRUE]
<1>8. S!Asks(p, f, request)
  BY DEF LLSeek
<1> HIDE DEF request
<1>6. CASE s.error # "none"
  <2>1. pos' = [pos EXCEPT ![f] = pos[f]] /\ reply' = [reply EXCEPT ![p] = S!Failed(s.error)]
    BY <1>3, <1>6 DEF LLSeek
  <2> HIDE DEF s
  <2>2. /\ FinishedData' = FinishedData
        /\ FinishedPos' = FinishedPos
        /\ FinishedReply' = [FinishedReply EXCEPT ![p] = S!Failed(s.error)]
    <3>1. Sets(p, f, pos[f], S!Failed(s.error))
      BY <2>1 DEF Sets
    <3>2. SetsFinished(p, f, pos[f], S!Failed(s.error))
      BY <1>2, <3>1, SeekMaps
    <3> QED BY <1>5, <3>2 DEF SetsFinished
  <2> HIDE DEF rel
  <2> QED BY <1>4, <1>5, <1>6, <1>8, <2>2 DEF S!Seek, rel, request
<1>7. CASE s.error = "none"
  <2>1. pos' = [pos EXCEPT ![f] = s.to] /\ reply' = [reply EXCEPT ![p] = S!Returned(s.to, <<>>)]
    BY <1>7 DEF LLSeek
  <2> HIDE DEF s
  <2>2. /\ FinishedData' = FinishedData
        /\ FinishedPos' = [FinishedPos EXCEPT ![f] = s.to]
        /\ FinishedReply' = [FinishedReply EXCEPT ![p] = S!Returned(s.to, <<>>)]
    <3>1. Sets(p, f, s.to, S!Returned(s.to, <<>>))
      BY <2>1 DEF Sets
    <3>2. SetsFinished(p, f, s.to, S!Returned(s.to, <<>>))
      BY <1>2, <3>1, SeekMaps
    <3> QED BY <3>2 DEF SetsFinished
  <2> HIDE DEF rel
  <2> QED BY <1>4, <1>5, <1>7, <1>8, <2>2 DEF S!Seek, rel, request
<1> QED BY <1>6, <1>7

LEMMA LSeekActs ==
  ASSUME IInv, IInv', NEW p \in Process, NEW f \in File, NEW how,
         NEW off \in OffLo, LSeek(p, f, how, off), Apart(p)
  PROVE  S!Seek(p, f, how, off, FALSE)
<1> DEFINE s == Sought(f, how, off)
<1>1. off \in -OffHalf .. OffHalf - 1 /\ off \in Int /\ OffHalf \in Nat
      /\ Size \in Nat /\ Size < OffHalf
  BY Sizes, DeviceAssumption DEF DeviceAssumption
<1>2. Joined(IF off < 0 THEN -1 ELSE 0, off) = off
  BY <1>1, JoinedSign
<1>3. /\ pc[p] = "user" /\ lock[f] = None
      /\ UNCHANGED <<disk, lock, pc, call, buf, got>>
  BY DEF LSeek, Calling
<1>4. pos[f] \in Int /\ pos = [pos EXCEPT ![f] = pos[f]]
  BY DEF IInv, Types, TypeOK
<1>5. /\ s.error = S!SeekError(how, off, pos[f])
      /\ s.error = "none" => s.to = S!Target(how, off, pos[f]) /\ s.to \in Int /\ s.to <= Size
  BY <1>1, <1>4, SeekAgrees
<1>6. FinishedPos[f] = pos[f] /\ FinishedPos = [FinishedPos EXCEPT ![f] = pos[f]]
  BY <1>3, FreeBytes, Pointwise
<1> DEFINE request == [how |-> how, offset |-> off, wide |-> FALSE]
<1>11. S!Asks(p, f, request)
  BY DEF LSeek
<1> HIDE DEF request
<1>7. CASE s.error # "none"
  <2>1. pos' = [pos EXCEPT ![f] = pos[f]] /\ reply' = [reply EXCEPT ![p] = S!Failed(s.error)]
    BY <1>2, <1>4, <1>7 DEF LSeek
  <2> HIDE DEF s
  <2>2. /\ FinishedData' = FinishedData
        /\ FinishedPos' = FinishedPos
        /\ FinishedReply' = [FinishedReply EXCEPT ![p] = S!Failed(s.error)]
    <3>1. Sets(p, f, pos[f], S!Failed(s.error))
      BY <2>1 DEF Sets
    <3>2. SetsFinished(p, f, pos[f], S!Failed(s.error))
      BY <1>3, <3>1, SeekMaps
    <3> QED BY <1>6, <3>2 DEF SetsFinished
  <2> QED BY <1>5, <1>6, <1>11, <1>7, <2>2 DEF S!Seek, request
<1>8. CASE s.error = "none" /\ s.to < 0
  <2>1. s.to \notin 0 .. 2 * OffHalf - 1
    <3> HIDE DEF s
    <3> QED BY <1>1, <1>8
  <2>2. pos' = [pos EXCEPT ![f] = pos[f]] /\ reply' = [reply EXCEPT ![p] = S!Failed("EOVERFLOW")]
    BY <1>2, <1>4, <1>8, <2>1 DEF LSeek
  <2> HIDE DEF s
  <2>3. /\ FinishedData' = FinishedData
        /\ FinishedPos' = FinishedPos
        /\ FinishedReply' = [FinishedReply EXCEPT ![p] = S!Failed("EOVERFLOW")]
    <3>1. Sets(p, f, pos[f], S!Failed("EOVERFLOW"))
      BY <2>2 DEF Sets
    <3>2. SetsFinished(p, f, pos[f], S!Failed("EOVERFLOW"))
      BY <1>3, <3>1, SeekMaps
    <3> QED BY <1>6, <3>2 DEF SetsFinished
  <2> QED BY <1>5, <1>6, <1>11, <1>8, <2>3 DEF S!Seek, request
<1>9. CASE s.error = "none" /\ 0 <= s.to
  <2>1. s.to \in 0 .. 2 * OffHalf - 1
    <3> HIDE DEF s
    <3> QED BY <1>1, <1>5, <1>9
  <2>2. pos' = [pos EXCEPT ![f] = s.to] /\ reply' = [reply EXCEPT ![p] = S!Returned(s.to, <<>>)]
    BY <1>2, <1>9, <2>1 DEF LSeek
  <2> HIDE DEF s
  <2>3. /\ FinishedData' = FinishedData
        /\ FinishedPos' = [FinishedPos EXCEPT ![f] = s.to]
        /\ FinishedReply' = [FinishedReply EXCEPT ![p] = S!Returned(s.to, <<>>)]
    <3>1. Sets(p, f, s.to, S!Returned(s.to, <<>>))
      BY <2>2 DEF Sets
    <3>2. SetsFinished(p, f, s.to, S!Returned(s.to, <<>>))
      BY <1>3, <3>1, SeekMaps
    <3> QED BY <3>2 DEF SetsFinished
  <2>4. ~ (s.to < 0)
    BY <1>5, <1>9
  <2> QED BY <1>5, <1>6, <1>11, <1>9, <2>3, <2>4 DEF S!Seek, request
<1>10. s.error = "none" => s.to < 0 \/ 0 <= s.to
  BY <1>5
<1> QED BY <1>7, <1>8, <1>9, <1>10

-----------------------------------------------------------------------------
LEMMA InitMaps == Init => S!Init
<1> SUFFICES ASSUME Init PROVE S!Init
  OBVIOUS
<1>1. IInv
  BY InitInv
<1>2. \A f \in File : Bytes(f) = InitData /\ Position(f) = 0
  BY <1>1, FreeBytes DEF Init
<1>3. \A p \in Process : Answer(p) = S!Returned(0, <<>>)
  BY DEF Init, Answer
<1>4. InitData \in [S!Address -> Byte]
  BY Sizes DEF Address, S!Address
<1>5. asked = <<>>
  BY DEF Init
<1> QED BY <1>2, <1>3, <1>4, <1>5, Pointwise DEF S!Init

LEMMA NextMaps == IInv /\ [Next]_vars => [S!Next]_S!vars
<1> SUFFICES ASSUME IInv, [Next]_vars PROVE S!Next \/ (Stutter /\ asked' = asked)
  BY DEF Stutter, S!vars
<1>1. CASE UNCHANGED vars
  BY <1>1 DEF vars, Stutter, FinishedData, FinishedPos, FinishedReply, Under, Done
<1>2. CASE Next
  <2>1. PICK p \in Process :
          \/ Proceed(p)
          \/ \E f \in File, write \in BOOLEAN, s \in [Address -> Byte], n \in Nat :
               /\ Begin(p, f, write, s, n)
               /\ n \in Count /\ (write => s \in Source)
          \/ \E f \in File, how \in How, hi \in OffHi, lo \in OffLo : LLSeek(p, f, how, hi, lo)
          \/ \E f \in File, how \in How, off \in OffLo : LSeek(p, f, how, off)
    BY <1>2, NextCases
  <2>2. CASE ReadSector(p)
    <3>1. Stutter
      BY <2>2, ReadMoves, MovesKeeps, MovesStutter, FillKeeps, FillStutters
    <3> QED BY <2>2, <3>1 DEF ReadSector
  <2>3. CASE WriteSector(p)
    <3>1. Stutter
      BY <2>3, WriteMoves, MovesKeeps, MovesStutter
    <3> QED BY <2>3, <3>1 DEF WriteSector
  <2>4. CASE TransferSectors(p)
    <3>1. Stutter
      BY <2>4, TransferMoves, MovesKeeps, MovesStutter
    <3> QED BY <2>4, <3>1 DEF TransferSectors
  <2>5. CASE Finish(p)
    <3>1. Stutter
      BY <2>5, FinishKeeps, FinishStutters
    <3> QED BY <2>5, <3>1 DEF Finish
  <2>6. ASSUME NEW f \in File, NEW write \in BOOLEAN, NEW s \in [Address -> Byte], NEW n \in Nat,
               Begin(p, f, write, s, n), n \in Count, write => s \in Source
        PROVE  S!Next
    <3>1. IF write THEN S!Write(p, f, s, n) ELSE S!Read(p, f, n)
      BY <2>6, BeginKeeps, BeginActs
    <3> QED BY <2>6, <3>1 DEF S!Next
  <2>7. ASSUME NEW f \in File, NEW how \in How, NEW hi \in OffHi, NEW lo \in OffLo,
               LLSeek(p, f, how, hi, lo)
        PROVE  S!Next
    <3>1. S!Seek(p, f, how, Joined(hi, lo), TRUE)
      BY <2>7, LLSeekKeeps, LLSeekActs
    <3>2. Joined(hi, lo) \in Offset
      BY DEF Offset
    <3> QED BY <3>1, <3>2 DEF S!Next
  <2>8. ASSUME NEW f \in File, NEW how \in How, NEW off \in OffLo, LSeek(p, f, how, off)
        PROVE  S!Next
    <3>1. S!Seek(p, f, how, off, FALSE)
      BY <2>8, LSeekKeeps, LSeekActs
    <3>2. off \in Offset
      BY DEF Offset
    <3> QED BY <3>1, <3>2 DEF S!Next
  <2> QED BY <2>1, <2>2, <2>3, <2>4, <2>5, <2>6, <2>7, <2>8 DEF Proceed
<1> QED BY <1>1, <1>2

(* The drives are the files of Storage (ImplementsStorage): a read or a    *)
(* write of any length at any position, in as many transfers as it takes,  *)
(* happens at once and to its bytes alone, among the calls of any number   *)
(* of processes; so does a seek.                                           *)
THEOREM StorageRefinement == Spec => ImplementsStorage
<1>1. Init => S!Init
  BY InitMaps
<1>2. IInv /\ [Next]_vars => [S!Next]_S!vars
  BY NextMaps
<1> QED BY <1>1, <1>2, Invariance, PTL DEF Spec, ImplementsStorage, S!Spec

=============================================================================
