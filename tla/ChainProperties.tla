--------------------------- MODULE ChainProperties ---------------------------
(***************************************************************************)
(* What ChainDirectory guarantees through kills and power cuts.            *)
(***************************************************************************)
EXTENDS ChainDirectory

OnDisk(e) == e \in DOMAIN disk_names /\ disk_bytes[disk_names[e]] = e

(* What anybody may rely on is on disk: a digest bound in the store or     *)
(* returned to a caller survives a power cut at any moment, unless a lease *)
(* went on from names or bytes that a killed process had left unflushed    *)
(* (the order of the calls in append_entry).                               *)
ReliedSurvives == ~neglected => \A e \in relied : OnDisk(e)

(* Under the same condition whatever a power cut leaves is a chain that    *)
(* validates: no entry without its predecessor, none with torn bytes, no   *)
(* two successors of one entry, from any subset of what was not flushed.   *)
CutLeavesChain ==
  ~neglected => /\ \A e \in DOMAIN disk_names \ {Stage} : OnDisk(e)
                /\ Linear(DOMAIN disk_names \ {Stage})

(* Without a power cut no number of kills ever makes a lease be refused,   *)
(* and nothing relied on is ever missing (validate_chain and               *)
(* apply_survivors know every state a killed process leaves).              *)
KillsAreHarmless == cuts = 0 => ValidChain /\ relied \subseteq Published

(* However often publication is interrupted and repaired, every entry is   *)
(* in the chain at most once.                                              *)
PublishedOnce ==
  \A e \in Published : \A j, k \in 1..Len(e) : e[j] = e[k] => j = k

(* Commands never meet a staging leaf after resolve (recover.py:           *)
(* _registered_root raises "chain staging appeared after lease             *)
(* resolution").                                                           *)
LeaseIsClean == pc = "ready" => ValidChain /\ ~Staged

(* The entry a record demands gets published and bound, or the chain is    *)
(* one that every lease refuses.                                           *)
DemandIsMet == Unbound ~> (~Unbound \/ ~Agrees)
=============================================================================
