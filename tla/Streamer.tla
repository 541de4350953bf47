------------------------------ MODULE Streamer ------------------------------
(***************************************************************************)
(* A stream over a partition: diskstreamer_seek, diskstreamer_read and     *)
(* diskstreamer_write of disk/streamer.c over disk_read_block and          *)
(* disk_write_block of disk/disk.c.  The two recursive calls are loops     *)
(* here: one step per sector, and the drive may fail any of them.          *)
(*                                                                         *)
(* Bytes are told apart only as far as it matters: on the drive, a byte is *)
(* Old (as it was before the call), Junk (from an array that was never     *)
(* initialised), or k, the k-th byte of the data being written; a byte     *)
(* that was read is the address it came from.                              *)
(***************************************************************************)
EXTENDS Integers, Sequences

CONSTANTS
    SectorSize,    \* VIOS_SECTOR_SIZE
    DriveSectors,  \* the size of the drive
    starting_lba,  \* of the partition; both zero for the primary disk
    ending_lba,
    ReadRequests,  \* <<pos, total>>: what callers read
    WriteRequests, \* <<pos, total>>: what callers write
    DriveFails     \* whether the drive may report errors

ASSUME StreamerAssumption ==
    /\ SectorSize \in Nat \ {0}
    /\ DriveSectors \in Nat \ {0}
    /\ starting_lba \in Nat
    /\ ending_lba \in Nat
    /\ ReadRequests \subseteq Nat \X Nat
    /\ WriteRequests \subseteq Nat \X Nat
    /\ DriveFails \in BOOLEAN

Old == -1
Junk == -2
Addresses == 0 .. DriveSectors * SectorSize - 1

VARIABLES
    drive,   \* the bytes of the whole drive
    pos,     \* stream->pos
    op,      \* the call under way or the last one: "read" or "write"
    busy,    \* whether a call is under way
    from,    \* stream->pos when the call was made
    total,   \* the size the call was made with
    done,    \* how many bytes the call has transferred
    out,     \* what a read has stored in its buffer
    touched, \* the sectors that the call has read or written
    res      \* the result of the last call: 0 or EIO

vars == <<drive, pos, op, busy, from, total, done, out, touched, res>>

EIO == -1

-----------------------------------------------------------------------------
(* Where the next sector starts on the drive, and where in it to begin.    *)

Sector == pos \div SectorSize
Offset == pos % SectorSize
Lba == starting_lba + Sector
Left == total - done

Overflow == Offset + Left >= SectorSize

(* How many of the bytes lie in this sector. *)
ThisSector == IF Overflow THEN SectorSize - Offset ELSE Left

(* Fault: the end of the partition is not enforced. *)
FaultInBounds(lba) == lba < DriveSectors

(* The test of disk_read_block and disk_write_block; the drive itself      *)
(* rejects sectors that it does not have.                                  *)
InBounds(lba) ==
    /\ lba + 1 > ending_lba => starting_lba = 0 \/ ending_lba = 0
    /\ lba < DriveSectors

Byte(k) == Lba * SectorSize + k

(* Fault: only a sector that is left at its end is read first. *)
FaultReadsFirst == Overflow /\ Left < SectorSize

(* "If we're writing to the middle or end of a sector, we need to read it  *)
(* first" (streamer.c:87).                                                 *)
ReadsFirst == Offset # 0 \/ (Overflow /\ Left < SectorSize)

-----------------------------------------------------------------------------
Init ==
    /\ drive = [a \in Addresses |-> Old]
    /\ pos = 0
    /\ op = "read" /\ busy = FALSE
    /\ from = 0 /\ total = 0 /\ done = 0
    /\ out = <<>> /\ touched = {} /\ res = 0

(* diskstreamer_seek, and then a call. *)
Call(kind, request) ==
    /\ ~busy
    /\ op' = kind /\ busy' = TRUE
    /\ pos' = request[1] /\ from' = request[1]
    /\ total' = request[2] /\ done' = 0
    /\ drive' = [a \in Addresses |-> Old]
    /\ out' = <<>> /\ touched' = {}
    /\ UNCHANGED res

(* The sector cannot be read or written: what was done stays done. *)
Fails ==
    /\ busy
    /\ DriveFails \/ ~InBounds(Lba)
    /\ busy' = FALSE /\ res' = EIO
    /\ UNCHANGED <<drive, pos, op, from, total, done, out, touched>>

(* Fault: the position moves by the whole request. *)
FaultAdvance ==
    /\ pos' = pos + Left
    /\ done' = done + ThisSector
    /\ touched' = touched \cup {Lba}
    /\ IF Overflow
       THEN UNCHANGED <<busy, res>>
       ELSE busy' = FALSE /\ res' = 0
    /\ UNCHANGED <<op, from, total>>

(* The stream moves on, and the call goes on if the request overflows.     *)
Advance ==
    /\ pos' = pos + ThisSector
    /\ done' = done + ThisSector
    /\ touched' = touched \cup {Lba}
    /\ IF Overflow
       THEN UNCHANGED <<busy, res>>
       ELSE busy' = FALSE /\ res' = 0
    /\ UNCHANGED <<op, from, total>>

diskstreamer_read ==
    /\ busy /\ op = "read" /\ InBounds(Lba)
    /\ out' = out \o [k \in 1 .. ThisSector |-> Byte(Offset + k - 1)]
    /\ Advance
    /\ UNCHANGED drive

(* The whole buffer is written; where it was not read first, it holds what *)
(* was on the stack.                                                       *)
diskstreamer_write ==
    /\ busy /\ op = "write" /\ InBounds(Lba)
    /\ drive' = [a \in Addresses |->
          LET k == a - Lba * SectorSize
          IN  IF k \notin 0 .. SectorSize - 1 THEN drive[a]
              ELSE IF k \in Offset .. Offset + ThisSector - 1 THEN done + (k - Offset)
              ELSE IF ReadsFirst THEN drive[a]
              ELSE Junk]
    /\ Advance
    /\ UNCHANGED out

Next ==
    \/ \E r \in ReadRequests : Call("read", r)
    \/ \E r \in WriteRequests : Call("write", r)
    \/ Fails
    \/ diskstreamer_read
    \/ diskstreamer_write

Spec == Init /\ [][Next]_vars

-----------------------------------------------------------------------------
(* Properties.                                                             *)

(* The address of the k-th byte of the request. *)
Target(k) == starting_lba * SectorSize + from + k

(* A call that succeeds has read the bytes that were asked for, across     *)
(* sector boundaries and in order, and has left the position after them.   *)
ReadExact ==
    op = "read" /\ ~busy /\ res = 0 =>
        /\ out = [k \in 1 .. total |-> Target(k - 1)]
        /\ pos = from + total

(* The data of a write stands on the drive where it belongs: no later      *)
(* sector of the call, whole, partial or empty, overwrites an earlier one. *)
WrittenInPlace == op = "write" => \A k \in 0 .. done - 1 : drive[Target(k)] = k

(* "Read-modify-write for partial sector writes" (streamer.c:10): a write  *)
(* changes no byte of the drive but those it was asked to write.  The code *)
(* does not keep this.                                                     *)
OnlyRequested ==
    op = "write" => \A a \in Addresses :
        drive[a] # Old => a \in Target(0) .. Target(total) - 1

(* How far the damage goes, for every request and with a drive that may    *)
(* fail at any sector: only what follows the data in the one sector where  *)
(* the write ends can be lost, and only if the write starts with a sector  *)
(* or has left the one it started in.  A write inside one sector that does *)
(* not begin it changes its own bytes alone.                               *)
EndsInFreshSector ==
    \/ Target(0) % SectorSize = 0
    \/ Target(done) \div SectorSize # Target(0) \div SectorSize

Damage ==
    IF op = "write" /\ EndsInFreshSector
    THEN {a \in Addresses : a \div SectorSize = Target(done) \div SectorSize}
    ELSE {}

WriteFootprint ==
    \A a \in Addresses :
        drive[a] # Old => \/ op = "write" /\ a \in Target(0) .. Target(done) - 1
                          \/ a >= Target(done) /\ a \in Damage

(* "you cannot read over to other virtual disks" (disk.c:169): no call     *)
(* touches a sector outside of the partition.                              *)
Confined ==
    starting_lba # 0 /\ ending_lba # 0 => touched \subseteq starting_lba .. ending_lba

=============================================================================
