---------------------------- MODULE JournalScan ----------------------------
(***************************************************************************)
(* The left-to-right scans of core/recovery/journal.py (_forward_language, *)
(* _reverse_language, _rolled_back_language) as the loops they are: one    *)
(* action reads one symbol and moves the three phase counters.  The other  *)
(* modules use the neighbour form of the languages (RecoveryJournal); the  *)
(* run of this module shows that the two accept the same vectors.          *)
(***************************************************************************)
EXTENDS RecoveryJournal, Integers

VARIABLES
  vector,       \* the journal vector being judged
  position,     \* the next symbol to read
  forward, reverse, rolledback      \* phases, Refused once a scan returned False

vars == <<vector, position, forward, reverse, rolledback>>

Refused == -1

ScanInit ==
  /\ vector \in Journals
  /\ position = 1
  /\ forward = 0 /\ reverse = 0 /\ rolledback = 0

ForwardStep(phase, symbol) ==
  CASE phase = 0 /\ symbol = "done" -> 0
    [] phase = 0 /\ symbol = "started" -> 1
    [] phase # Refused /\ symbol = "pending" -> 2
    [] OTHER -> Refused

\* Mutant: a pending effect may stand behind an opened undo.
BugReverseStep(phase, symbol) ==
  CASE phase = 0 /\ symbol = "done" -> 0
    [] phase = 0 /\ symbol = "undo_started" -> 1
    [] phase \in {0, 1, 2} /\ symbol = "undone" -> 2
    [] phase \in {0, 1, 2, 3} /\ symbol = "pending" -> 3
    [] OTHER -> Refused

ReverseStep(phase, symbol) ==
  CASE phase = 0 /\ symbol = "done" -> 0
    [] phase = 0 /\ symbol = "undo_started" -> 1
    [] phase \in {0, 1, 2} /\ symbol = "undone" -> 2
    [] phase \in {0, 2, 3} /\ symbol = "pending" -> 3
    [] OTHER -> Refused

\* Phase 1 is the code's `pending' flag.
RolledBackStep(phase, symbol) ==
  CASE phase # Refused /\ symbol = "pending" -> 1
    [] phase = 0 /\ symbol = "undone" -> 0
    [] OTHER -> Refused

Read ==
  /\ position <= N
  /\ position' = position + 1
  /\ forward' = ForwardStep(forward, vector[position])
  /\ reverse' = ReverseStep(reverse, vector[position])
  /\ rolledback' = RolledBackStep(rolledback, vector[position])
  /\ UNCHANGED vector

ScanSpec == ScanInit /\ [][Read]_vars

(* When the scans end, each has accepted exactly the vectors its language  *)
(* holds in neighbour form; with the state matrix around them unchanged,   *)
(* RecoveryJournal judges every record as journal.py does.                 *)
ScansAgree ==
  position = N + 1 =>
    /\ (forward # Refused) <=> ForwardLanguage(vector)
    /\ (reverse # Refused) <=> ReverseLanguage(vector)
    /\ (rolledback # Refused) <=> RolledBackLanguage(vector)
=============================================================================
