--------------------------- MODULE StreamerProofs ---------------------------
(***************************************************************************)
(* A stream reads and writes the bytes it was asked for, for every size of *)
(* sector, drive and partition, every set of requests and every point at   *)
(* which the drive may fail.                                               *)
(*                                                                         *)
(* The properties say nothing of a call under way, so that none of them is *)
(* inductive: StreamInv says what every sector of a call leaves behind.    *)
(***************************************************************************)
EXTENDS Streamer, SequenceTheorems, TLAPS

(* The position and the count of transferred bytes move together, and a    *)
(* call that succeeds has transferred all of its bytes.                    *)
Progress ==
    /\ from \in Nat /\ total \in Nat /\ done \in 0 .. total
    /\ pos = from + done
    /\ busy \in BOOLEAN /\ op \in {"read", "write"}
    /\ ~busy /\ res = 0 => done = total

(* What was read so far is what was asked for so far. *)
ReadSoFar == op = "read" => out = [k \in 1 .. done |-> Target(k - 1)]

(* What was written so far stands on the drive, and while the call is under *)
(* way nothing else has changed: only its last sector can damage anything.  *)
WrittenSoFar ==
    /\ drive \in [Addresses -> Int]
    /\ op = "read" => \A a \in Addresses : drive[a] = Old
    /\ op = "write" =>
          \A k \in 0 .. done - 1 : Target(k) \in Addresses /\ drive[Target(k)] = k
    /\ op = "write" /\ busy =>
          \A a \in Addresses : drive[a] # Old => a \in Target(0) .. Target(done) - 1

StreamInv == Progress /\ ReadSoFar /\ WrittenSoFar /\ WriteFootprint /\ Confined

-----------------------------------------------------------------------------
(* Arithmetic that the provers do not find by themselves.                  *)

(* A position is in one sector, at one place in it. *)
LEMMA DivMod ==
    ASSUME NEW n \in Nat, NEW s \in Nat \ {0}
    PROVE  /\ n \div s \in Nat /\ n % s \in 0 .. s - 1
           /\ n = (n \div s) * s + (n % s)
  OBVIOUS

(* Every byte of a sector is in that sector. *)
LEMMA DivOfByte ==
    ASSUME NEW q \in Nat, NEW s \in Nat \ {0}, NEW r \in 0 .. s - 1
    PROVE  (q * s + r) \div s = q
  OBVIOUS

(* A sector of the drive ends on the drive. *)
LEMMA SectorEnds ==
    ASSUME NEW q \in Nat, NEW m \in Nat, NEW s \in Nat, q < m
    PROVE  q * s + s <= m * s
  OBVIOUS

(* Where the next sector lies, in terms of the position: the sector that   *)
(* is read or written holds the next byte of the request.                  *)
LEMMA SectorFacts ==
    ASSUME Progress
    PROVE  /\ pos \in Nat
           /\ Lba \in Nat /\ Lba >= starting_lba
           /\ Offset \in 0 .. SectorSize - 1
           /\ Lba * SectorSize \in Nat
           /\ Lba * SectorSize + Offset = Target(done)
           /\ ThisSector \in 0 .. Left /\ Offset + ThisSector <= SectorSize
           /\ Overflow => Offset + ThisSector = SectorSize
           /\ ~Overflow => ThisSector = Left /\ Offset + ThisSector < SectorSize
  <1> USE StreamerAssumption
  <1>1. pos \in Nat /\ Left \in Nat
    BY DEF Progress, Left
  <1>2. Sector \in Nat /\ Offset \in 0 .. SectorSize - 1 /\ pos = Sector * SectorSize + Offset
    BY <1>1, DivMod DEF Sector, Offset
  <1>3. Lba \in Nat /\ Lba >= starting_lba
    BY <1>2 DEF Lba
  <1>4. /\ Lba * SectorSize = starting_lba * SectorSize + Sector * SectorSize
        /\ starting_lba * SectorSize \in Nat /\ Sector * SectorSize \in Nat
    BY <1>2 DEF Lba
  <1>5. Lba * SectorSize \in Nat /\ Lba * SectorSize + Offset = Target(done)
    BY <1>2, <1>4 DEF Progress, Target
  <1>6. /\ ThisSector \in 0 .. Left /\ Offset + ThisSector <= SectorSize
        /\ Overflow => Offset + ThisSector = SectorSize
        /\ ~Overflow => ThisSector = Left /\ Offset + ThisSector < SectorSize
    BY <1>1, <1>2 DEF ThisSector, Overflow
  <1> QED
    BY <1>1, <1>2, <1>3, <1>5, <1>6

(* The bytes of the sector are on the drive, and in no other sector. *)
LEMMA SectorBytes ==
    ASSUME Progress, InBounds(Lba), NEW a \in Int,
           a >= Lba * SectorSize, a < Lba * SectorSize + SectorSize
    PROVE  a \in Addresses /\ a \div SectorSize = Lba
  <1> USE StreamerAssumption
  <1>1. Lba \in Nat /\ Lba * SectorSize \in Nat
    BY SectorFacts
  <1>2. Lba < DriveSectors
    BY DEF InBounds
  <1>3. Lba * SectorSize + SectorSize <= DriveSectors * SectorSize
    BY <1>1, <1>2, SectorEnds
  <1>4. DriveSectors * SectorSize \in Nat
    OBVIOUS
  <1>5. a \in Addresses
    BY <1>1, <1>3, <1>4 DEF Addresses
  <1>6. a - Lba * SectorSize \in 0 .. SectorSize - 1
    BY <1>1
  <1>7. (Lba * SectorSize + (a - Lba * SectorSize)) \div SectorSize = Lba
    BY <1>1, <1>6, DivOfByte
  <1>8. Lba * SectorSize + (a - Lba * SectorSize) = a
    BY <1>1
  <1> QED
    BY <1>5, <1>7, <1>8

-----------------------------------------------------------------------------
(* What a step of a call does to the parts of the invariant.               *)

(* The position and the count move by the same number of bytes.            *)
LEMMA AdvanceProgress ==
    ASSUME Progress, busy, Advance
    PROVE  /\ Progress'
           /\ done' = done + ThisSector /\ from' = from /\ op' = op
           /\ busy' => Overflow
           /\ \A k : Target(k)' = Target(k)
  <1>1. ThisSector \in 0 .. Left /\ (~Overflow => ThisSector = Left)
    BY SectorFacts
  <1>2. /\ pos' = pos + ThisSector /\ done' = done + ThisSector
        /\ from' = from /\ op' = op /\ total' = total
        /\ IF Overflow THEN busy' = busy /\ res' = res ELSE busy' = FALSE /\ res' = 0
    BY DEF Advance
  <1>3. busy = TRUE
    BY DEF Progress
  <1>4. /\ from' \in Nat /\ total' \in Nat /\ done' \in 0 .. total'
        /\ pos' = from' + done' /\ op' \in {"read", "write"}
    BY <1>1, <1>2 DEF Progress, Left
  <1>5. ~Overflow => done' = total'
    BY <1>1, <1>2 DEF Progress, Left
  <1>6. busy' \in BOOLEAN /\ (~busy' /\ res' = 0 => done' = total') /\ (busy' => Overflow)
    BY <1>2, <1>3, <1>5
  <1> QED
    BY <1>2, <1>4, <1>6 DEF Progress, Target

(* Only sectors of the partition are touched.                              *)
LEMMA AdvanceConfined ==
    ASSUME Progress, Confined, InBounds(Lba), Advance
    PROVE  Confined'
  <1>1. Lba \in Nat /\ Lba >= starting_lba
    BY SectorFacts
  <1>2. starting_lba # 0 /\ ending_lba # 0 => Lba \in starting_lba .. ending_lba
    BY <1>1, StreamerAssumption DEF InBounds
  <1> QED
    BY <1>2 DEF Confined, Advance

(* A read appends the bytes that come next in the request.                 *)
LEMMA ReadStep ==
    ASSUME StreamInv, diskstreamer_read
    PROVE  StreamInv'
  <1> USE StreamerAssumption
  <1>1. Progress /\ busy /\ Advance /\ op = "read" /\ InBounds(Lba) /\ drive' = drive
    BY DEF StreamInv, diskstreamer_read
  <1>2. /\ Progress' /\ done' = done + ThisSector /\ op' = op
        /\ \A k : Target(k)' = Target(k)
    BY <1>1, AdvanceProgress
  <1>3. ReadSoFar'
    <2> DEFINE more == [k \in 1 .. ThisSector |-> Byte(Offset + k - 1)]
               now  == [k \in 1 .. done + ThisSector |-> Target(k - 1)]
    <2>1. out = [k \in 1 .. done |-> Target(k - 1)] /\ out' = out \o more
      BY <1>1 DEF StreamInv, ReadSoFar, diskstreamer_read
    <2>2. done \in Nat /\ ThisSector \in Nat
      BY <1>1, SectorFacts DEF Progress, Left
    <2>3. \A k \in Nat : Target(k) \in Int
      BY <1>1 DEF Target, Progress
    <2>4. \A k \in 1 .. ThisSector : more[k] = Target(done + k - 1)
      BY <1>1, <2>2, SectorFacts DEF Byte, Target, Progress
    <2>5. out \in Seq(Int) /\ Len(out) = done
      BY <2>1, <2>2, <2>3
    <2>6. more \in Seq(Int) /\ Len(more) = ThisSector
      <3>1. \A k \in 1 .. ThisSector : Byte(Offset + k - 1) \in Int
        BY <1>1, <2>2, SectorFacts DEF Byte
      <3> QED
        BY <3>1, <2>2
    <2>7. out \o more \in Seq(Int) /\ Len(out \o more) = done + ThisSector
      BY <2>2, <2>5, <2>6
    <2>8. now \in Seq(Int) /\ Len(now) = done + ThisSector
      BY <2>2, <2>3
    <2> HIDE DEF more, now
    <2>9. \A k \in 1 .. done + ThisSector : (out \o more)[k] = now[k]
      <3> TAKE k \in 1 .. done + ThisSector
      <3>1. CASE k <= done
        BY <3>1, <2>1, <2>2, <2>5, <2>6 DEF now
      <3>2. CASE k > done
        <4>1. k - done \in 1 .. ThisSector /\ (out \o more)[k] = more[k - done]
          BY <3>2, <2>2, <2>5, <2>6
        <4>2. done + (k - done) - 1 = k - 1
          BY <2>2
        <4> QED
          BY <4>1, <4>2, <2>4 DEF now
      <3>3. k <= done \/ k > done
        BY <2>2
      <3> QED
        BY <3>1, <3>2, <3>3
    <2>10. out \o more = now
      BY <2>7, <2>8, <2>9, SeqEqual
    <2> QED
      BY <1>2, <2>1, <2>10 DEF ReadSoFar, now
  <1>4. WrittenSoFar' /\ WriteFootprint'
    <2>1. op' = "read" /\ \A a \in Addresses : drive'[a] = Old
      BY <1>1, <1>2 DEF StreamInv, WrittenSoFar
    <2>2. WrittenSoFar'
      BY <1>1, <2>1 DEF StreamInv, WrittenSoFar
    <2>3. WriteFootprint'
      BY <2>1 DEF WriteFootprint
    <2> QED
      BY <2>2, <2>3
  <1>5. Confined'
    BY <1>1, AdvanceConfined DEF StreamInv
  <1> QED
    BY <1>2, <1>3, <1>4, <1>5 DEF StreamInv

(* A write puts the next bytes in place, keeps the earlier ones, because a *)
(* sector that begins with some of them is read first, and damages what    *)
(* follows only if it is the last of the call and begins with its sector.  *)
LEMMA WriteStep ==
    ASSUME StreamInv, diskstreamer_write
    PROVE  StreamInv'
  <1> USE StreamerAssumption
  <1> DEFINE base == Lba * SectorSize
             top  == Target(done) + ThisSector
  <1>1. Progress /\ busy /\ Advance /\ op = "write" /\ InBounds(Lba) /\ out' = out
    BY DEF StreamInv, diskstreamer_write
  <1>2. /\ Progress' /\ done' = done + ThisSector /\ op' = op
        /\ busy' => Overflow
        /\ from' = from
    BY <1>1, AdvanceProgress
  <1>3. /\ base \in Nat /\ Offset \in 0 .. SectorSize - 1 /\ base + Offset = Target(done)
        /\ done \in Nat /\ ThisSector \in Nat /\ Offset + ThisSector <= SectorSize
        /\ Overflow => Offset + ThisSector = SectorSize
        /\ ~Overflow => ThisSector = Left /\ Offset + ThisSector < SectorSize
    BY <1>1, SectorFacts DEF Progress, Left
  <1>4. Target(0) \in Nat /\ \A k \in Int : Target(k) = Target(0) + k
    <2>1. starting_lba * SectorSize \in Nat /\ from \in Nat
      BY <1>1 DEF Progress
    <2> QED
      BY <2>1 DEF Target
  <1>5. /\ Target(done) \in Nat /\ top \in Nat /\ Target(0) <= Target(done)
        /\ Target(done)' = top /\ Target(0)' = Target(0)
    <2>1. Target(done) \in Nat /\ top \in Nat /\ Target(0) <= Target(done)
      BY <1>3, <1>4
    <2>2. Target(0)' = Target(0) /\ Target(done)' = Target(done + ThisSector)
      BY <1>2 DEF Target
    <2>3. Target(done + ThisSector) = top
      BY <1>3, <1>4
    <2> QED
      BY <2>1, <2>2, <2>3
  <1>6. \A a \in Int : a >= base /\ a < base + SectorSize
                          => a \in Addresses /\ a \div SectorSize = Lba
    BY <1>1, SectorBytes
  <1>7. \A a \in Addresses :
           /\ a < base \/ a >= base + SectorSize => drive'[a] = drive[a]
           /\ a >= Target(done) /\ a < top => drive'[a] = done + (a - Target(done))
           /\ a >= base /\ a < Target(done) => drive'[a] = drive[a]
           /\ a >= top /\ a < base + SectorSize => Offset = 0 \/ drive'[a] = drive[a]
    <2> SUFFICES ASSUME NEW a \in Addresses
                 PROVE  /\ a < base \/ a >= base + SectorSize => drive'[a] = drive[a]
                        /\ a >= Target(done) /\ a < top => drive'[a] = done + (a - Target(done))
                        /\ a >= base /\ a < Target(done) => drive'[a] = drive[a]
                        /\ a >= top /\ a < base + SectorSize => Offset = 0 \/ drive'[a] = drive[a]
      OBVIOUS
    <2>1. a \in Int
      BY DEF Addresses
    <2>2. drive'[a] = IF a - base \notin 0 .. SectorSize - 1 THEN drive[a]
                      ELSE IF a - base \in Offset .. Offset + ThisSector - 1
                           THEN done + (a - base - Offset)
                      ELSE IF ReadsFirst THEN drive[a] ELSE Junk
      BY DEF diskstreamer_write
    <2>3. Offset # 0 => ReadsFirst
      BY DEF ReadsFirst
    <2> HIDE DEF base
    <2> QED
      BY <1>3, <1>5, <2>1, <2>2, <2>3
  <1>8. WrittenSoFar'
    <2>1. drive' \in [Addresses -> Int]
      <3>1. drive' = [a \in Addresses |-> drive'[a]]
        BY DEF diskstreamer_write
      <3>2. ASSUME NEW a \in Addresses PROVE drive'[a] \in Int
        <4>1. drive[a] \in Int /\ a - Lba * SectorSize - Offset \in Int
          BY <1>3 DEF StreamInv, WrittenSoFar, Addresses
        <4> QED
          BY <4>1, <1>3 DEF diskstreamer_write, Junk
      <3> QED
        BY <3>1, <3>2
    <2>2. \A k \in 0 .. done + ThisSector - 1 : Target(k) \in Addresses /\ drive'[Target(k)] = k
      <3> TAKE k \in 0 .. done + ThisSector - 1
      <3>1. k \in Int /\ Target(k) = Target(0) + k /\ Target(k) = Target(done) + (k - done)
        BY <1>3, <1>4
      <3> HIDE DEF base
      <3>2. CASE k < done
        <4>1. Target(k) \in Addresses /\ drive[Target(k)] = k
          BY <3>2, <1>1, <1>3 DEF StreamInv, WrittenSoFar
        <4>2. Target(k) < Target(done)
          BY <3>1, <3>2, <1>3, <1>5
        <4>3. Target(k) \in Int
          BY <3>1, <1>4
        <4> QED
          BY <4>1, <4>2, <4>3, <1>3, <1>5, <1>7
      <3>3. CASE k >= done
        <4>1. Target(k) >= Target(done) /\ Target(k) < top /\ Target(k) \in Int
          BY <3>1, <3>3, <1>3, <1>4, <1>5
        <4>2. Target(k) >= base /\ Target(k) < base + SectorSize
          BY <4>1, <1>3, <1>5
        <4>3. Target(k) \in Addresses
          BY <4>1, <4>2, <1>6
        <4>4. drive'[Target(k)] = done + (Target(k) - Target(done))
          BY <4>1, <4>3, <1>7
        <4> QED
          BY <4>3, <4>4, <3>1, <1>3, <1>5
      <3> QED
        BY <3>1, <3>2, <3>3, <1>3
    <2>3. busy' => \A a \in Addresses : drive'[a] # Old => a \in Target(0)' .. Target(done)' - 1
      <3> SUFFICES ASSUME busy', NEW a \in Addresses, drive'[a] # Old
                   PROVE  a \in Target(0) .. top - 1
        BY <1>2, <1>5
      <3>1. a \in Int
        BY DEF Addresses
      <3>2. drive[a] # Old => a \in Target(0) .. Target(done) - 1
        BY <1>1 DEF StreamInv, WrittenSoFar
      <3> HIDE DEF base
      <3>3. top = base + SectorSize
        BY <1>2, <1>3, <1>5
      <3>4. \/ a < base \/ a >= top \/ a < Target(done) => drive'[a] = drive[a]
            \/ a >= Target(done) /\ a < top
        BY <3>1, <3>3, <1>3, <1>5, <1>7
      <3> QED
        BY <3>1, <3>2, <3>4, <1>3, <1>4, <1>5
    <2>4. op' = "write" /\ done' = done + ThisSector /\ \A k : Target(k)' = Target(k)
      BY <1>1, <1>2 DEF Target
    <2>5. \A k \in 0 .. done' - 1 : Target(k)' \in Addresses /\ drive'[Target(k)'] = k
      <3> TAKE k \in 0 .. done' - 1
      <3>1. k \in 0 .. done + ThisSector - 1
        BY <1>2, <1>3
      <3>2. Target(k)' = Target(k)
        BY <2>4
      <3> QED
        BY <2>2, <3>1, <3>2
    <2> QED
      BY <2>1, <2>3, <2>4, <2>5 DEF WrittenSoFar
  <1>9. WriteFootprint'
    <2> SUFFICES ASSUME NEW a \in Addresses, drive'[a] # Old
                 PROVE  \/ a \in Target(0) .. top - 1
                        \/ a >= top /\ a \in Damage'
      BY <1>1, <1>2, <1>5 DEF WriteFootprint
    <2>1. a \in Int
      BY DEF Addresses
    <2>2. drive[a] # Old => a \in Target(0) .. Target(done) - 1
      BY <1>1 DEF StreamInv, WrittenSoFar
    <2>3. CASE a < top
      <3> HIDE DEF base
      <3>1. a < Target(done) => drive'[a] = drive[a]
        BY <2>1, <1>3, <1>5, <1>7
      <3>2. a >= Target(0)
        BY <3>1, <2>1, <2>2, <1>4, <1>5
      <3> QED
        BY <3>2, <2>1, <2>3, <1>5
    <2>4. CASE a >= top
      <3>1. drive[a] = Old
        BY <2>1, <2>2, <2>4, <1>3, <1>5
      <3>2. a >= base /\ a < base + SectorSize /\ Offset = 0
        <4> HIDE DEF base, top
        <4> QED
          BY <3>1, <2>1, <2>4, <1>3, <1>5, <1>7
      <3>3. top >= base /\ top < base + SectorSize
        BY <3>2, <2>1, <2>4, <1>3, <1>5
      <3>4. a \div SectorSize = Lba /\ top \div SectorSize = Lba
        BY <3>2, <3>3, <2>1, <1>5, <1>6
      <3>5. EndsInFreshSector'
        <4>1. CASE Target(0) = Target(done)
          <5>1. Target(0) = Lba * SectorSize
            BY <4>1, <3>2, <1>3
          <5>2. Target(0) % SectorSize = 0
            <6>1. (Lba * SectorSize) \div SectorSize = Lba
              BY <1>6, <1>3, <3>3
            <6>2. /\ Target(0) % SectorSize \in 0 .. SectorSize - 1
                  /\ Target(0) = (Target(0) \div SectorSize) * SectorSize + (Target(0) % SectorSize)
              BY <1>4, DivMod
            <6> DEFINE r == Target(0) % SectorSize
            <6>3. r \in Int /\ Target(0) = base /\ Target(0) = base + r
              BY <5>1, <6>1, <6>2
            <6> HIDE DEF base, r
            <6>4. r = 0
              BY <6>3, <1>3
            <6> QED
              BY <6>4 DEF r
          <5> QED
            BY <5>2, <1>5 DEF EndsInFreshSector
        <4>2. CASE Target(0) # Target(done)
          <5>1. Target(0) < base
            BY <4>2, <3>2, <1>3, <1>4, <1>5
          <5>2. Target(0) \div SectorSize # Lba
            <6>1. /\ Target(0) % SectorSize \in 0 .. SectorSize - 1
                  /\ Target(0) = (Target(0) \div SectorSize) * SectorSize + (Target(0) % SectorSize)
              BY <1>4, DivMod
            <6> QED
              BY <5>1, <6>1, <1>3, <1>4
          <5> QED
            BY <5>2, <3>4, <1>2, <1>5 DEF EndsInFreshSector
        <4> QED
          BY <4>1, <4>2
      <3> QED
        BY <3>4, <3>5, <2>4, <1>1, <1>2, <1>5 DEF Damage
    <2> QED
      BY <2>1, <2>3, <2>4, <1>5
  <1>10. ReadSoFar' /\ Confined'
    BY <1>1, <1>2, AdvanceConfined DEF StreamInv, ReadSoFar
  <1> QED
    BY <1>2, <1>8, <1>9, <1>10 DEF StreamInv

(* A call that begins has done nothing yet; one that fails leaves what it  *)
(* has done.                                                               *)
LEMMA CallStep ==
    ASSUME StreamInv, NEW kind \in {"read", "write"}, NEW r \in Nat \X Nat, Call(kind, r)
    PROVE  StreamInv'
  <1>1. drive' = [a \in Addresses |-> Old] /\ done' = 0 /\ out' = <<>> /\ touched' = {}
        /\ op' = kind /\ busy' = TRUE /\ from' = r[1] /\ pos' = r[1] /\ total' = r[2]
    BY DEF Call
  <1>2. Progress'
    BY <1>1 DEF Progress
  <1>3. ReadSoFar'
    BY <1>1 DEF ReadSoFar
  <1>4. WrittenSoFar' /\ WriteFootprint'
    BY <1>1 DEF WrittenSoFar, WriteFootprint, Old
  <1>5. Confined'
    BY <1>1 DEF Confined
  <1> QED
    BY <1>2, <1>3, <1>4, <1>5 DEF StreamInv

(* A drive that refuses a sector ends the call with what was moved so far. *)
LEMMA FailStep ==
    ASSUME StreamInv, Fails
    PROVE  StreamInv'
  <1>1. busy' = FALSE /\ res' = EIO
        /\ UNCHANGED <<drive, pos, op, from, total, done, out, touched>>
    BY DEF Fails
  <1>2. Progress'
    <2>1. busy' \in BOOLEAN /\ op' \in {"read", "write"} /\ (~busy' /\ res' = 0 => done' = total')
      <3>1. res' # 0
        BY <1>1 DEF EIO
      <3> QED
        BY <3>1, <1>1 DEF StreamInv, Progress
    <2> QED
      BY <2>1, <1>1 DEF StreamInv, Progress
  <1>3. ReadSoFar' /\ Confined'
    BY <1>1 DEF StreamInv, ReadSoFar, Confined, Target
  <1>4. WrittenSoFar'
    BY <1>1 DEF StreamInv, WrittenSoFar, Target
  <1>5. WriteFootprint'
    BY <1>1 DEF StreamInv, WriteFootprint, Damage, EndsInFreshSector, Target
  <1> QED
    BY <1>2, <1>3, <1>4, <1>5 DEF StreamInv

-----------------------------------------------------------------------------
(* StreamInv holds in every state of every stream.                         *)
THEOREM StreamInvariant == Spec => []StreamInv
  <1> USE StreamerAssumption
  <1>1. Init => StreamInv
    <2> SUFFICES ASSUME Init PROVE StreamInv
      OBVIOUS
    <2>1. Progress
      <3>1. from \in Nat /\ total \in Nat /\ done \in 0 .. total /\ pos = from + done
        BY DEF Init
      <3>2. busy \in BOOLEAN /\ op \in {"read", "write"} /\ done = total
        BY DEF Init
      <3> QED
        BY <3>1, <3>2 DEF Progress
    <2>2. ReadSoFar
      BY DEF Init, ReadSoFar
    <2>3. WrittenSoFar /\ WriteFootprint /\ Confined
      BY DEF Init, WrittenSoFar, WriteFootprint, Confined, Old
    <2> QED
      BY <2>1, <2>2, <2>3 DEF StreamInv
  <1>2. StreamInv /\ [Next]_vars => StreamInv'
    <2> SUFFICES ASSUME StreamInv, [Next]_vars PROVE StreamInv'
      OBVIOUS
    <2>1. ASSUME NEW r \in ReadRequests, Call("read", r) PROVE StreamInv'
      BY <2>1, CallStep
    <2>2. ASSUME NEW r \in WriteRequests, Call("write", r) PROVE StreamInv'
      BY <2>2, CallStep
    <2>3. CASE Fails
      BY <2>3, FailStep
    <2>4. CASE diskstreamer_read
      BY <2>4, ReadStep
    <2>5. CASE diskstreamer_write
      BY <2>5, WriteStep
    <2>6. CASE UNCHANGED vars
      BY <2>6 DEF vars, StreamInv, Progress, ReadSoFar, WrittenSoFar, WriteFootprint,
                  Damage, EndsInFreshSector, Target, Confined
    <2> QED
      BY <2>1, <2>2, <2>3, <2>4, <2>5, <2>6 DEF Next
  <1> QED
    BY <1>1, <1>2, PTL DEF Spec

(* A read that succeeds has stored the bytes that were asked for, across   *)
(* any number of sector boundaries, and left the position after them.      *)
THEOREM ReadsAreExact == Spec => []ReadExact
  <1>1. StreamInv => ReadExact
    BY DEF StreamInv, Progress, ReadSoFar, ReadExact
  <1> QED
    BY <1>1, StreamInvariant, PTL

(* Every byte of a write that has been transferred stands where it belongs *)
(* on the drive, also when a later sector failed.                          *)
THEOREM WritesStandInPlace == Spec => []WrittenInPlace
  <1>1. StreamInv => WrittenInPlace
    BY DEF StreamInv, WrittenSoFar, WrittenInPlace
  <1> QED
    BY <1>1, StreamInvariant, PTL

(* A write changes nothing but its own bytes and, when it left the sector  *)
(* it began in or began with one, the rest of the sector where it ends.    *)
THEOREM WritesKeepTheirFootprint == Spec => []WriteFootprint
  <1>1. StreamInv => WriteFootprint
    BY DEF StreamInv
  <1> QED
    BY <1>1, StreamInvariant, PTL

(* No call touches a sector outside of a partition that does not begin     *)
(* with the drive.                                                         *)
THEOREM StreamsAreConfined == Spec => []Confined
  <1>1. StreamInv => Confined
    BY DEF StreamInv
  <1> QED
    BY <1>1, StreamInvariant, PTL
=============================================================================
