---------------------------- MODULE ChainHistory ----------------------------
(***************************************************************************)
(* The history in a project's chain under the commands that extend it      *)
(* (coordinator/commands.py: append_intent, run_transaction and their      *)
(* gates), under recovery, and under programs that copy, mix and lose      *)
(* leaves of the directory without taking the lock; and what inspection    *)
(* says of its published leaves.  The registrations it reports as pending, *)
(* of which inspect_chain_detached counts a staged one (staged_pending),   *)
(* are not modelled: the verdict does not depend on them.                  *)
(***************************************************************************)
EXTENDS ChainInspection

CONSTANTS
  Txids,
  MaxEntries,             \* bound on the entries ever written
  MaxOutside              \* bound on what other programs do

ASSUME HistoryBounds == MaxEntries \in Nat \ {0} /\ MaxOutside \in Nat

VARIABLES
  rows,                   \* digest -> entry
  staged,                 \* the staging leaf
  active,                 \* the transaction of the active row
  drawn,                  \* txids and digests that have been used
  outside                 \* number of changes by other programs

hvars == <<rows, staged, active, drawn, outside>>

\* No staging leaf, or one that decode_entry refuses; no active row.
NoEnvelope == [class |-> "none"]
Torn == [class |-> "undecodable"]
NoRecord == [txid |-> NoTxid, fulfills |-> NoDigest, registration |-> NoDigest]

Digests == 1..MaxEntries
Fresh == LET left == Digests \ drawn.digests IN IF left = {} THEN {} ELSE {Min(left)}
Draw(d) == [drawn EXCEPT !.digests = @ \cup {d}]

With(d, e) == [x \in DOMAIN rows \cup {d} |-> IF x = d THEN e ELSE rows[x]]

\* A root that has its genesis; or rows no program wrote, digests and all.
Registration == rows = [d \in {1} |-> Genesis]
Scattered ==
  \E S \in SUBSET (1..3) :
    rows \in [S -> {Genesis} \cup {Intent(p) : p \in 1..3}]

\* Two copies of a root that both went on to fulfill the one intent.
Mixed ==
  \E t, u \in Txids :
    /\ t # u
    /\ rows = <<Genesis, Intent(1), Registered(2, t, 2), Registered(3, u, 2),
                Settled(4, t, 3, "committed")>>

HInit ==
  /\ Registration \/ Scattered \/ Mixed
  /\ staged = NoEnvelope /\ active = NoRecord /\ outside = 0
  /\ drawn = [txids |-> {rows[d].txid : d \in DOMAIN rows} \cap Txids,
               digests |-> DOMAIN rows]

\* _registered_root, and what resolve has made sure of.
Ready == active = NoRecord /\ staged = NoEnvelope /\ Inspect(rows) = WellFormedChain

-----------------------------------------------------------------------------
(* append_intent: _require_no_pending.                                     *)
AppendIntent ==
  /\ Ready /\ Pending(rows) = {}
  /\ \E d \in Fresh : rows' = With(d, Intent(Tip(rows))) /\ drawn' = Draw(d)
  /\ UNCHANGED <<staged, active, outside>>

\* Mutant: the second of the two submission checks is left out.
BugAdmissibleFulfills(f) == Admissible(rows, Walk(rows), Len(Walk(rows)) + 1, f)

(* _require_admissible_fulfills: at the index the registration will have,  *)
(* and not fulfilled by an earlier commit.                                 *)
AdmissibleFulfills(f) ==
  /\ Admissible(rows, Walk(rows), Len(Walk(rows)) + 1, f)
  /\ f \notin Fulfilled(rows)

(* run_transaction up to PREPARED.                                         *)
Submit(t, f) ==
  /\ Ready /\ Pending(rows) = {}
  /\ f = NoDigest \/ AdmissibleFulfills(f)
  /\ t \notin drawn.txids /\ drawn' = [drawn EXCEPT !.txids = @ \cup {t}]
  /\ active' = [txid |-> t, fulfills |-> f, registration |-> NoDigest]
  /\ UNCHANGED <<rows, staged, outside>>

RegistrationOf(r) == Registered(Tip(rows), r.txid, r.fulfills)
Running == active # NoRecord /\ Inspect(rows) = WellFormedChain

(* append_entry: the staging leaf, which a kill may leave torn or whole.   *)
StageRegistration ==
  /\ Running /\ staged = NoEnvelope /\ active.registration = NoDigest
  /\ staged' \in {Torn, RegistrationOf(active)}
  /\ UNCHANGED <<rows, active, drawn, outside>>

(* Its rename; or resolve, which finishes the envelope that is planned.    *)
PublishRegistration ==
  /\ Running /\ staged = RegistrationOf(active)
  /\ \E d \in Fresh :
       /\ rows' = With(d, staged) /\ drawn' = Draw(d)
       /\ active' = [active EXCEPT !.registration = d]
  /\ staged' = NoEnvelope /\ UNCHANGED outside

(* resolve: a staging leaf that is not planned is removed.                 *)
RemoveStaged ==
  /\ staged # NoEnvelope
  /\ Inspect(rows) = WellFormedChain
  /\ active = NoRecord \/ staged # RegistrationOf(active)
  /\ staged' = NoEnvelope /\ UNCHANGED <<rows, active, drawn, outside>>

(* The transaction ends, by itself or in recovery.                         *)
Settle(outcome) ==
  /\ Running /\ staged = NoEnvelope /\ active.registration # NoDigest
  /\ \E d \in Fresh :
       /\ rows' = With(d, Settled(Tip(rows), active.txid, active.registration, outcome))
       /\ drawn' = Draw(d)
  /\ active' = NoRecord /\ UNCHANGED <<staged, outside>>

-----------------------------------------------------------------------------
(* Outside the lock.  The metadata root is lost with the record; a leaf is *)
(* lost; an entry turns up that was written elsewhere, on a copy of these  *)
(* leaves or on nothing that is here.                                      *)

Outside == active = NoRecord /\ outside < MaxOutside /\ outside' = outside + 1

LoseRecord ==
  /\ active # NoRecord /\ outside < MaxOutside /\ outside' = outside + 1
  /\ active' = NoRecord /\ UNCHANGED <<rows, staged, drawn>>

LoseLeaf ==
  /\ Outside
  /\ \E d \in DOMAIN rows : rows' = [x \in DOMAIN rows \ {d} |-> rows[x]]
  /\ UNCHANGED <<staged, active, drawn>>

Anywhere(p) ==
  {Genesis, Intent(p)}
    \cup {Registered(p, t, f) : t \in Txids, f \in DOMAIN rows \cup {NoDigest}}
    \cup {Settled(p, t, r, o) : t \in Txids, r \in DOMAIN rows,
                                o \in {"committed", "rolled-back"}}

FindLeaf ==
  /\ Outside
  /\ \E d \in Fresh : \E p \in drawn.digests : \E e \in Anywhere(p) :
       /\ rows' = With(d, e)
       /\ drawn' = [txids |-> drawn.txids \cup ({e.txid} \cap Txids),
                    digests |-> drawn.digests \cup {d}]
  /\ UNCHANGED <<staged, active>>

-----------------------------------------------------------------------------
Command ==
  \/ AppendIntent \/ StageRegistration \/ PublishRegistration \/ RemoveStaged
  \/ \E t \in Txids, f \in DOMAIN rows \cup {NoDigest} : Submit(t, f)
  \/ \E outcome \in {"committed", "rolled-back"} : Settle(outcome)

HNext == Command \/ LoseRecord \/ LoseLeaf \/ FindLeaf

HSpec == HInit /\ [][HNext]_hvars

-----------------------------------------------------------------------------
(* What a chain is: its entries in an order in which each names the one    *)
(* before, and every reference goes back to the one thing it may name.     *)

\* The sequences of n leaves in which each names the one before.
Threads(leaves, n) ==
  LET of[k \in 0..n] ==
        IF k = 0 THEN {<<>>}
        ELSE UNION {{Append(s, d) : d \in {d \in DOMAIN leaves :
                                           leaves[d].previous = IF k = 1 THEN NoDigest
                                                                ELSE s[k - 1]}}
                     : s \in of[k - 1]}
  IN  of[n]

IsChain(leaves) ==
  \E order \in Threads(leaves, Cardinality(DOMAIN leaves)) :
    LET at(i) == leaves[order[i]]
        All(class) == {i \in DOMAIN order : at(i).class = class}
        commits(i) == at(i).outcome = "committed"
    IN  /\ ToSet(order) = DOMAIN leaves
        /\ \A i, j \in All("registered") : at(i).txid = at(j).txid => i = j
        /\ \A i, j \in All("settled") : at(i).txid = at(j).txid => i = j
        /\ \A i \in All("registered") :
             at(i).refers # NoDigest =>
               \E j \in All("intent") : j < i /\ order[j] = at(i).refers
        /\ \A i \in All("settled") :
             \E j \in All("registered") :
               /\ j < i /\ order[j] = at(i).refers /\ at(j).txid = at(i).txid
               /\ \A k \in All("settled") \ {i} : \A l \in All("registered") :
                    (commits(i) /\ commits(k) /\ order[l] = at(k).refers
                       /\ at(l).refers = at(j).refers) => at(j).refers = NoDigest

(* Inspection calls a directory well-formed exactly when it is a chain,    *)
(* whatever was lost from it or mixed into it; so that what it accepts can *)
(* be appended to, and what a command refuses is reported (inspect.py:     *)
(* "simultaneously appendable and reported malformed").                    *)
InspectionAgrees ==
  rows # <<>> => (Inspect(rows) = WellFormedChain <=> IsChain(rows))

(* No command turns a chain into something inspection calls malformed,     *)
(* though the gates judge a fulfills before its outcome is known.          *)
CommandsKeepChain == [][Command => (IsChain(rows) => IsChain(rows'))]_hvars

=============================================================================
