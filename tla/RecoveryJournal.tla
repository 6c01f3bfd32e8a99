--------------------------- MODULE RecoveryJournal ---------------------------
(***************************************************************************)
(* The vocabulary of the recovery model (core/recovery/model.py) and the   *)
(* pure judgements over it that core/recovery/journal.py makes: which      *)
(* journal vectors each transaction state may carry, which commit decision *)
(* is compatible with which state, and what recovery may do about a record.*)
(*                                                                         *)
(* journal.py scans a vector with a phase counter.  In each of its three   *)
(* languages the phase is a function of the last symbol read, so the       *)
(* language is the set of vectors whose symbols are in an alphabet and     *)
(* whose neighbours are in a `follows' relation; that is the form used     *)
(* here.  JournalScan models the phase counters themselves and the run     *)
(* scanners compares the two.                                      *)
(***************************************************************************)
EXTENDS Naturals

CONSTANT N                \* number of effects of a compiled specification

ASSUME NAssumption == N \in Nat \ {0}

Effects == 1..N

JournalStates == {"pending", "started", "done", "undo_started", "undone"}

TransactionStates == {"prepared", "applying", "applied", "committed",
                      "rolling_back", "rolled_back", "halted"}

TerminalStates == {"committed", "rolled_back"}

CommitDecisions == {"uncommitted", "committed"}

RollbackResults == {"restored", "external_drift_preserved"}

Journals == [Effects -> JournalStates]

AllAre(j, s) == \A i \in Effects : j[i] = s

Neighbours(j, follows) == \A i \in Effects : i + 1 \in Effects => j[i + 1] \in follows[j[i]]

-----------------------------------------------------------------------------
(* The three journal languages.                                            *)

Nothing == [s \in JournalStates |-> {}]

ForwardFollows ==
  [Nothing EXCEPT !["done"] = {"done", "started", "pending"},
                  !["started"] = {"pending"},
                  !["pending"] = {"pending"}]

ForwardLanguage(j) ==
  /\ \A i \in Effects : j[i] \in {"done", "started", "pending"}
  /\ Neighbours(j, ForwardFollows)

\* "pending" may not stand directly behind "undo_started" (journal.py:114).
ReverseFollows ==
  [Nothing EXCEPT !["done"] = {"done", "undo_started", "undone", "pending"},
                  !["undo_started"] = {"undone"},
                  !["undone"] = {"undone", "pending"},
                  !["pending"] = {"pending"}]

ReverseLanguage(j) ==
  /\ \A i \in Effects : j[i] \in {"done", "undo_started", "undone", "pending"}
  /\ Neighbours(j, ReverseFollows)

RolledBackFollows ==
  [Nothing EXCEPT !["undone"] = {"undone", "pending"}, !["pending"] = {"pending"}]

RolledBackLanguage(j) ==
  /\ \A i \in Effects : j[i] \in {"undone", "pending"}
  /\ Neighbours(j, RolledBackFollows)

CompatibleCommitDecision(s, decision) ==
  \/ s = "halted"
  \/ s = "committed" /\ decision = "committed"
  \/ s \notin {"halted", "committed"} /\ decision = "uncommitted"

LegalJournalLanguage(s, j) ==
  \/ s = "prepared" /\ AllAre(j, "pending")
  \/ s = "applying" /\ ForwardLanguage(j)
  \/ s \in {"applied", "committed"} /\ AllAre(j, "done")
  \/ s = "rolling_back" /\ (ForwardLanguage(j) \/ ReverseLanguage(j))
  \/ s = "rolled_back" /\ RolledBackLanguage(j)

-----------------------------------------------------------------------------
(* What recovery is entitled to do about a record                          *)
(* (classify_transaction_authority).                                       *)

Authority(s, decision, j, isActive) ==
  IF ~CompatibleCommitDecision(s, decision) THEN "halt"
  ELSE IF s = "halted" THEN "stable_halt"
  ELSE IF ~LegalJournalLanguage(s, j) THEN "halt"
  ELSE IF ~isActive THEN (IF s \in TerminalStates THEN "no_recovery" ELSE "halt")
  ELSE IF s = "rolled_back" THEN "detach"
  ELSE "classify"

(* The effect a rollback is working on: the last one that is not yet       *)
(* undone and was begun.  _rollback_plan walks the effects from the last   *)
(* to the first, and an undone or pending effect needs no journal step.    *)
Unwound == {"pending", "undone"}

RollbackCursor(j, i) ==
  /\ j[i] \notin Unwound
  /\ \A k \in Effects : k > i => j[k] \in Unwound
=============================================================================
