----------------------------- MODULE MCStreamer -----------------------------
(***************************************************************************)
(* Instances of Streamer for TLC: sectors of four bytes, and a partition   *)
(* in the middle of a drive of six sectors.                                *)
(***************************************************************************)
EXTENDS Streamer

(* Every position in the partition and the sector behind it, every size up *)
(* to three sectors.                                                       *)
AllRequests == (0 .. 4 * SectorSize) \X (0 .. 3 * SectorSize)

(* The same without the requests for no bytes. *)
NonemptyRequests == (0 .. 4 * SectorSize) \X (1 .. 3 * SectorSize)
=============================================================================
