--------------------------- MODULE RootProperties ---------------------------
(* What the commands of RootCreation promise, whoever else is at the root. *)
EXTENDS RootCreation

Rows(kind) == {c \in Carriers : rows[c].kind = kind}

(* However commands interleave and die, no two metadata roots end up       *)
(* writable over one project root.  Exempt: the register that finds a      *)
(* chain after it looked for one (claim_one_carrier), and trees an outside *)
(* writer changed.                                                         *)
OneWritableCarrier ==
  ~raced /\ ~touched =>
    \A c, d \in Carriers :
      rows[c].lifecycle = "writable" /\ rows[d].lifecycle = "writable" => c = d

(* The comment "Two metadata roots cannot claim one root" in               *)
(* _register_operation, for registers that end.                            *)
TwoCannotClaimOneRoot ==
  \A c, d \in Carriers :
    ~touched /\ rows[c].lifecycle = "writable" /\ rows[d].lifecycle = "writable" => c = d

(* While an operation is recorded and its tree not yet proved, the claim   *)
(* in the root names it; a claim never names another operation than an     *)
(* unfinished row does.                                                    *)
ClaimNamesOperation ==
  \A c \in Carriers :
    LET own == [id |-> rows[c].id, request |-> rows[c].request] IN
    ~raced /\ ~touched /\ HasOperation(rows[c]) /\ rows[c].phase # "complete" =>
      \/ claim = own
      \/ claim = Nothing /\ rows[c].phase = "tree-durable"

(* A finished copy is the source at the head that its request names, under *)
(* the overrides, with the source's chain or with its own genesis, however *)
(* often it was killed, resumed or overtaken by the source.                *)
CopyIsFaithful ==
  \A c \in Rows("replicate") \cup Rows("fork") :
    rows[c].phase = "complete" /\ ~touched =>
      LET request == rows[c].request IN
      tree = [l \in Leaves |->
                CASE l \in Overridden /\ request.kind = "fork" -> Override
                  [] l \in Paths \ Overridden -> past[request.head][l]
                  [] l \in Paths /\ request.kind = "replicate" -> past[request.head][l]
                  [] l = History /\ request.kind = "replicate" -> request.head
                  [] l = request.payload /\ request.kind = "fork" -> l
                  [] OTHER -> Absent]

(* A finished register or fork leaves a well-formed chain whose genesis is *)
(* the one that was asked for, nothing torn in the root, and rows that the *)
(* CHECKs of the schema admit.                                             *)
FinishedRootIsRegistered ==
  \A c \in Carriers :
    rows[c].phase = "complete" /\ ~touched /\ ~raced =>
      /\ WellFormedRow(rows[c])
      /\ WellFormedChain /\ tree[Staging] = Absent
      /\ rows[c].kind # "replicate" => Geneses = {rows[c].request.payload}
      /\ \A l \in Leaves : tree[l] # Torn

Ended(p, why) == ~At(p, "idle") /\ proc'[p].pc = "idle" /\ proc'[p].why = why

(* What lies in the way of a resumption: a file that was cut off, a staged *)
(* entry, an override applied before the tree was proved.                  *)
Residue ==
  \/ tree[Staging] # Absent
  \/ \E l \in Leaves : tree[l] = Torn
  \/ \E c \in Rows("fork") :
       /\ rows[c].phase = "source-snapshot-durable"
       /\ \E l \in Overridden \cap Paths : tree[l] # rows[c].source[l]

(* RootOperationInvalid means damage: no command that competes or resumes  *)
(* meets it in a root that only the commands wrote to, unless a residue of *)
(* an interrupted one or a claim that is just being written lies there.    *)
(* (A register on another carrier interrupts a fork, too: its lease drops  *)
(* the staged genesis before it looks at the claim.)  And a trigger refuses*)
(* only what another command on the carrier has finished meanwhile, never  *)
(* the next step of an operation that is under way.                        *)
InvalidMeansDamage ==
  [][\A p \in Procs :
       /\ Ended(p, "invalid") =>
            raced \/ touched \/ claim = Torn \/ Residue
       /\ Ended(p, "store") =>
            \/ raced \/ touched
            \/ Row(p).phase = "complete"
            \/ Row(p).origin \in {"read-serviceability", "migration-v2"}]_rvars

(* docs/protocol.md: after source-snapshot-durable, "resume_fork_root      *)
(* resumes and completes the fork using the persisted snapshot".           *)
ForkResumes ==
  [][\A p \in Procs :
       Ended(p, "invalid") /\ Kind(p) = "fork" =>
         raced \/ touched \/ Row(p).phase # "source-snapshot-durable"]_rvars

(* What an outside writer put into the root is never overwritten or        *)
(* removed, but where a fork has an override and where recovery takes the  *)
(* staging leaf for its own.                                               *)
ForeignFilesStay ==
  [][\A l \in Leaves \ (Overridden \cup {Staging}) :
       tree[l] = Foreign => tree'[l] = Foreign \/ spent'.faults # spent.faults]_rvars

(* A grant of writability is never taken back, and an operation, once      *)
(* complete, is never replaced: whatever a late command still does.        *)
CompletionIsFinal ==
  [][\A c \in Carriers :
       rows[c].phase = "complete" =>
         /\ rows'[c].id = rows[c].id /\ rows'[c].phase = "complete"
         /\ rows[c].lifecycle = "writable" => rows'[c].lifecycle = "writable"]_rvars

(* Every command ends: no two wait for each other's locks, although a copy *)
(* holds source and destination together and a resumed one needs the       *)
(* source while it has the destination (the "canonical two-lock order").   *)
CommandsEnd == \A p \in Procs : ~At(p, "idle") ~> At(p, "idle")
=============================================================================
