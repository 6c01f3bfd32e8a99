---------------------------- MODULE AtomicOutcome ----------------------------
(***************************************************************************)
(* What the coordinator promises of a transaction, with everything about   *)
(* how it is done left out: at most one transaction is open at a time, it  *)
(* is announced on the public ledger before its outcome is decided, the    *)
(* outcome is decided once and never revised, it is published once and     *)
(* truthfully, and the next transaction opens only after that.             *)
(*                                                                         *)
(* The promise has no clock: an open transaction may stay open for ever    *)
(* (that is what a halt is, and it blocks everybody else).                 *)
(***************************************************************************)
EXTENDS Naturals, Sequences

CONSTANTS Txns, NoTxn

VARIABLES
  outcome,      \* [Txns -> {"none", "open", "committed", "rolled_back"}]
  ledger,       \* sequence of <<transaction, what is announced about it>>
  busy          \* the transaction being run, or NoTxn

avars == <<outcome, ledger, busy>>

Decided == {"committed", "rolled_back"}

Announced(t, what) == \E d \in 1..Len(ledger) : ledger[d] = <<t, what>>

AInit ==
  /\ outcome = [t \in Txns |-> "none"]
  /\ ledger = <<>>
  /\ busy = NoTxn

Open(t) ==
  /\ busy = NoTxn /\ outcome[t] = "none"
  /\ busy' = t /\ outcome' = [outcome EXCEPT ![t] = "open"]
  /\ UNCHANGED ledger

Register(t) ==
  /\ busy = t /\ outcome[t] = "open" /\ ~Announced(t, "registered")
  /\ ledger' = Append(ledger, <<t, "registered">>)
  /\ UNCHANGED <<outcome, busy>>

Decide(t, o) ==
  /\ busy = t /\ outcome[t] = "open" /\ Announced(t, "registered")
  /\ outcome' = [outcome EXCEPT ![t] = o]
  /\ UNCHANGED <<ledger, busy>>

PublishOutcome(t) ==
  /\ busy = t /\ outcome[t] \in Decided
  /\ \A o \in Decided : ~Announced(t, o)
  /\ ledger' = Append(ledger, <<t, outcome[t]>>)
  /\ UNCHANGED <<outcome, busy>>

Close(t) ==
  /\ busy = t /\ outcome[t] \in Decided /\ Announced(t, outcome[t])
  /\ busy' = NoTxn
  /\ UNCHANGED <<outcome, ledger>>

ANext ==
  \E t \in Txns :
    \/ Open(t) \/ Register(t) \/ PublishOutcome(t) \/ Close(t)
    \/ \E o \in Decided : Decide(t, o)

ASpec == AInit /\ [][ANext]_avars
=============================================================================
