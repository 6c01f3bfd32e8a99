----------------------------- MODULE MCScanners -----------------------------
(***************************************************************************)
(* The scans that read a whole structure and judge it, each over bounded   *)
(* inputs: the journal languages over every vector, and the inspection of  *)
(* a chain directory over every history.  A behaviour is a behaviour of    *)
(* one of them; the other stands idle.                                     *)
(***************************************************************************)
EXTENDS JournalScan, ChainHistory

HistoryIdle ==
  /\ rows = <<>> /\ staged = NoEnvelope /\ active = NoRecord /\ outside = 0
  /\ drawn = [txids |-> {}, digests |-> {}]

ScanIdle ==
  /\ vector = [i \in 1..N |-> "pending"] /\ position = N + 2
  /\ forward = 0 /\ reverse = 0 /\ rolledback = 0

MCInit == (ScanInit /\ HistoryIdle) \/ (HInit /\ ScanIdle)
MCNext == (Read /\ UNCHANGED hvars) \/ (HNext /\ UNCHANGED vars)
MCSpec == MCInit /\ [][MCNext]_<<vars, hvars>>
=============================================================================
