--------------------------- MODULE ChainInspection ---------------------------
(***************************************************************************)
(* The passes of chain/inspect.py over the leaves of a chain directory.    *)
(*                                                                         *)
(* rows maps the digest of a leaf, which is its name, to its entry.        *)
(* Digests are numbers because the passes go through them in ascending     *)
(* order; a scanned directory has one row per name.                        *)
(***************************************************************************)
EXTENDS Naturals, FiniteSets, SequencesExt

NoDigest == 0
NoTxid == "no txid"

Genesis == [class |-> "genesis", previous |-> NoDigest, txid |-> NoTxid,
            refers |-> NoDigest, outcome |-> "none"]
Intent(p) == [Genesis EXCEPT !.class = "intent", !.previous = p]
Registered(p, t, fulfills) ==
  [Intent(p) EXCEPT !.class = "registered", !.txid = t, !.refers = fulfills]
Settled(p, t, registration, outcome) ==
  [Intent(p) EXCEPT !.class = "settled", !.txid = t, !.refers = registration,
                    !.outcome = outcome]

Verdict(kind, subject) == [kind |-> kind, subject |-> subject]
WellFormedChain == Verdict("well-formed", NoDigest)
IsDefect(v) == v.kind \notin {"well-formed", "absent"}

-----------------------------------------------------------------------------
(* Pass 2, _linearize.                                                     *)

Geneses(rows) == {d \in DOMAIN rows : rows[d].previous = NoDigest}
Successors(rows, p) == {d \in DOMAIN rows : rows[d].previous = p}
Orphaned(rows) ==
  {d \in DOMAIN rows : rows[d].previous \notin DOMAIN rows \cup {NoDigest}}
Branching(rows) == {p \in DOMAIN rows : Cardinality(Successors(rows, p)) > 1}

\* From the genesis on, successor by successor.
Walk(rows) ==
  LET walked[n \in 1..Cardinality(DOMAIN rows)] ==
        IF n = 1 THEN <<Min(Geneses(rows))>>
        ELSE LET before == walked[n - 1]
                 next == Successors(rows, Last(before))
             IN  IF next = {} THEN before ELSE Append(before, Min(next))
  IN  walked[Cardinality(DOMAIN rows)]

Linkage(rows) ==
  LET reached == ToSet(Walk(rows)) IN
  IF Cardinality(Geneses(rows)) # 1 THEN Verdict("genesis-count", NoDigest)
  ELSE IF Orphaned(rows) # {} THEN Verdict("missing-predecessor", Min(Orphaned(rows)))
  ELSE IF Branching(rows) # {} THEN Verdict("sibling-branch", Min(Branching(rows)))
  ELSE IF reached # DOMAIN rows
       THEN Verdict("orphan-history", Min(DOMAIN rows \ reached))
  ELSE WellFormedChain

-----------------------------------------------------------------------------
(* Pass 3, _inspect_entry_classes, over the entries in the order of the    *)
(* chain; the sets the loop fills are what stands at a lower index.        *)

\* fulfills_fault: the entry at position i may refer to digest f.
Admissible(rows, chain, i, f) ==
  \E j \in DOMAIN chain : j < i /\ chain[j] = f /\ rows[f].class = "intent"

Earlier(rows, chain, i, class) ==
  {j \in 1..(i - 1) : rows[chain[j]].class = class}

\* The intent a committed settlement fulfills.
FulfilledBy(rows, settlement) ==
  IF settlement.outcome = "committed" /\ settlement.refers \in DOMAIN rows
  THEN rows[settlement.refers].refers ELSE NoDigest

RegisteredFault(rows, chain, i, e) ==
  CASE \E j \in Earlier(rows, chain, i, "registered") : rows[chain[j]].txid = e.txid
         -> "duplicate-registration"
    [] e.refers # NoDigest /\ ~Admissible(rows, chain, i, e.refers)
         -> "fulfills-unresolved"
    [] OTHER -> "none"

\* Mutant: an intent may be fulfilled again.
BugSettledFault(rows, chain, i, e) ==
  CASE \A j \in Earlier(rows, chain, i, "registered") : chain[j] # e.refers
         -> "settlement-without-registration"
    [] rows[e.refers].txid # e.txid -> "settlement-txid-mismatch"
    [] \E j \in Earlier(rows, chain, i, "settled") : rows[chain[j]].txid = e.txid
         -> "duplicate-settlement"
    [] OTHER -> "none"

SettledFault(rows, chain, i, e) ==
  IF \A j \in Earlier(rows, chain, i, "registered") : chain[j] # e.refers
  THEN "settlement-without-registration"
  ELSE IF rows[e.refers].txid # e.txid THEN "settlement-txid-mismatch"
  ELSE IF \E j \in Earlier(rows, chain, i, "settled") : rows[chain[j]].txid = e.txid
  THEN "duplicate-settlement"
  ELSE IF /\ FulfilledBy(rows, e) # NoDigest
          /\ \E j \in Earlier(rows, chain, i, "settled") :
               FulfilledBy(rows, rows[chain[j]]) = FulfilledBy(rows, e)
  THEN "duplicate-fulfillment"
  ELSE "none"

Fault(rows, chain, i) ==
  LET e == rows[chain[i]] IN
  CASE e.class = "registered" -> RegisteredFault(rows, chain, i, e)
    [] e.class = "settled" -> SettledFault(rows, chain, i, e)
    [] OTHER -> "none"

Classes(rows, chain) ==
  LET faulty == {i \in DOMAIN chain : Fault(rows, chain, i) # "none"} IN
  IF faulty = {} THEN WellFormedChain
  ELSE Verdict(Fault(rows, chain, Min(faulty)), chain[Min(faulty)])

(* inspect_scan.                                                           *)
Inspect(rows) ==
  IF rows = <<>> THEN Verdict("absent", NoDigest)
  ELSE LET linkage == Linkage(rows) IN
       IF IsDefect(linkage) THEN linkage ELSE Classes(rows, Walk(rows))

Tip(rows) == Last(Walk(rows))

(* _pending_of: registrations that no settlement names, wherever it is.    *)
Pending(rows) ==
  {rows[d].txid : d \in {d \in DOMAIN rows : rows[d].class = "registered"}}
    \ {rows[d].txid : d \in {d \in DOMAIN rows : rows[d].class = "settled"}}

\* committed_fulfillments.
Fulfilled(rows) ==
  {FulfilledBy(rows, rows[d]) : d \in {d \in DOMAIN rows : rows[d].class = "settled"}}
=============================================================================
