---------------------------- MODULE RootCreation ----------------------------
(***************************************************************************)
(* The commands that make a root: register_root, replicate_root,           *)
(* fork_root, resume_fork_root, grant_read_serviceability and              *)
(* migrate_root_to_lifecycle_v3 (coordinator/commands.py and lifecycle.py),*)
(* competing for one project root.                                         *)
(*                                                                         *)
(* What serializes them is little.  Each metadata root ("carrier") has its *)
(* own lock and its own rows, the source of a copy has another lock, and   *)
(* between carriers there is only the claim file in the root itself.  A    *)
(* process takes one step per system call or store transaction that others *)
(* can tell apart, and may be killed between any two; an outside writer    *)
(* changes the root and the source whenever it likes.                      *)
(*                                                                         *)
(* The tree is a function from leaves to contents.  The chain is the       *)
(* leaves History (the entries a replica copies, as one leaf that holds    *)
(* the head they lead to), the genesis entries, named by what they hold,   *)
(* and Staging.  A refusal that comes before any lock and changes nothing  *)
(* is not a step.                                                          *)
(***************************************************************************)
EXTENDS Naturals, Sequences, RootRows

CONSTANTS
  Procs, Carriers,
  Paths,                  \* the files of the source
  Overridden,             \* paths for which a fork carries a payload
  Payloads,               \* genesis payloads
  Override, Foreign,      \* an override's content, an outside writer's
  Absent, Torn,           \* no entry; one that is not written in full
  History, Staging,       \* leaves of the chain directory
  Source, Nobody, Nothing,
  Requests,               \* what callers ask for
  MaxHead, MaxFaults, MaxCommands

ASSUME CreationBounds ==
  MaxHead \in Nat \ {0} /\ {MaxFaults, MaxCommands} \subseteq Nat

(* What a command may be asked for, its source's head known or not; only a *)
(* register or a fork writes a genesis.  mint_operation_id draws from Ids. *)
Kinds == Creations \cup {"grant", "migrate"}
Asked ==
  {r \in [kind : Kinds, carrier : Carriers, head : 0..MaxHead,
          payload : Payloads \cup {Nothing}] :
     r.kind \in {"register", "fork"} => r.payload \in Payloads}
Ids == 1..(Cardinality(Carriers) + Cardinality(Procs) + 1)

ASSUME CreationValues ==
  /\ Requests \subseteq Asked /\ Payloads # {}
  /\ Nobody \notin Procs /\ Source \notin Carriers
  /\ Absent \notin {Torn, Override} \cup Payloads \cup 1..MaxHead
  /\ Staging # History /\ {Staging, History} \cap Payloads = {}
  /\ (Paths \cup Overridden) \cap ({Staging, History} \cup Payloads) = {}

\* An absent or a torn claim is not a claim.
ASSUME ClaimValues ==
  Nothing # Torn /\ {Nothing, Torn} \cap [id : Ids, request : Asked] = {}

\* A file that is not written in full, or an outside writer's, is told apart.
ASSUME ContentValues ==
  /\ Torn \notin {Override} \cup Payloads \cup 1..MaxHead
  /\ Foreign \notin {Absent, Torn}

VARIABLES
  exists,                 \* the root directory is there
  claim,                  \* .#~root-claim: Nothing, Torn or [id, request]
  tree,                   \* leaf -> content
  rows,                   \* carrier -> its two rows
  stores,                 \* carriers whose database exists
  locks,                  \* carrier or Source -> process or Nobody
  proc,                   \* process -> the command it runs
  past,                   \* the source's files, by the head of its chain
  spent,                  \* faults (kills, outside changes) and commands so far
  touched,                \* the outside writer changed root or source
  raced                   \* a register claimed a root that has a chain

disk == <<exists, claim, tree>>
store == <<rows, stores>>
rvars == <<disk, store, locks, proc, past, spent, touched, raced>>

ChainLeaves == {History, Staging} \cup Payloads
Leaves == Paths \cup Overridden \cup ChainLeaves
Present == {l \in Leaves : tree[l] # Absent}
Geneses == Present \cap ({History} \cup Payloads)
WellFormedChain ==
  \E l \in Geneses : Geneses = {l} /\ tree[l] \in (1..MaxHead) \cup {l}
MalformedChain == Geneses # {} /\ ~WellFormedChain

(* tree_snapshot has no entry for what is Absent: of the root it is the     *)
(* tree itself, of the source its files and, for a replica, its chain.     *)
Tip == Len(past)
SourceSnapshot(kind) ==
  [l \in Leaves |-> CASE l \in Paths -> past[Tip][l]
                     [] l = History /\ kind = "replicate" -> Tip
                     [] OTHER -> Absent]
Entries(snapshot) == {l \in Leaves : snapshot[l] # Absent}

-----------------------------------------------------------------------------
(* A request is the whole operation in canonical bytes.  A replicate names *)
(* its head only once it has seen the source: head 0 before, and any head  *)
(* in a request that is adopted.                                           *)
Concrete(request) ==
  IF request.kind = "replicate" /\ request.head = 0
  THEN {[request EXCEPT !.head = h] : h \in 1..MaxHead} ELSE {request}

Idle(why) ==
  [pc |-> "idle", request |-> Nothing, id |-> 0,
   todo |-> {}, leaf |-> Nothing, why |-> why]

\* A command that starts; id 0 until it has made or found its operation.
Command(pc, request, id) ==
  [Idle("none") EXCEPT !.pc = pc, !.request = request, !.id = id]

At(p, pc) == proc[p].pc = pc
Request(p) == proc[p].request
Carrier(p) == Request(p).carrier
Kind(p) == Request(p).kind
Row(p) == rows[Carrier(p)]
OwnClaim(p) == [id |-> proc[p].id, request |-> Request(p)]
Claimed == claim \notin {Nothing, Torn}

(* read_lifecycle_state of a carrier whose binding holds: the root was not *)
(* moved.                                                                  *)
View(carrier) ==
  CASE rows[carrier] = Legacy -> "version-2"
    [] rows[carrier] = NoRow -> "metadata-less"
    [] OTHER -> rows[carrier].lifecycle

\* The least id that is in use nowhere stands for what is drawn.
InUse(n) ==
  \/ \E c \in Carriers : rows[c].id = n
  \/ \E p \in Procs : proc[p].id = n
  \/ Claimed /\ claim.id = n
Mints(n) == ~InUse(n) /\ \A m \in Ids : m < n => InUse(m)

Go(p, pc) == proc' = [proc EXCEPT ![p].pc = pc] /\ UNCHANGED locks

\* Mutant: a refused command keeps the lock of the source.
BugEnd(p, why) ==
  /\ proc' = [proc EXCEPT ![p] = Idle(why)]
  /\ locks' = [k \in DOMAIN locks |->
                 IF locks[k] = p /\ (why # "refused" \/ k # Source)
                 THEN Nobody ELSE locks[k]]

(* A command ends, by an exception or not: every lock it holds is closed.  *)
End(p, why) ==
  /\ proc' = [proc EXCEPT ![p] = Idle(why)]
  /\ locks' = [k \in DOMAIN locks |-> IF locks[k] = p THEN Nobody ELSE locks[k]]

\* A lock is waited for, taken, or only tried.
Free(k) == locks[k] = Nobody
Busy(k) == ~Free(k)
Lock(p, k) == locks' = [locks EXCEPT ![k] = p]

\* The command has the source of its copy.
Fed(p) == locks[Source] = p

Others == UNCHANGED <<past, spent, touched>>
Reads == UNCHANGED <<disk, store, raced>> /\ Others

Begin(p, command) ==
  /\ At(p, "idle") /\ spent.commands < MaxCommands
  /\ spent' = [spent EXCEPT !.commands = @ + 1]
  /\ proc' = [proc EXCEPT ![p] = command]
  /\ UNCHANGED <<disk, store, locks, past, touched, raced>>

-----------------------------------------------------------------------------
(* No root, an empty one, or one that an earlier version registered.       *)
RInit ==
  /\ stores \in {{}} \cup {{c} : c \in Carriers}
  /\ exists \in BOOLEAN /\ (stores # {} => exists)
  /\ rows = [c \in Carriers |-> IF c \in stores THEN Legacy ELSE NoRow]
  /\ LET genesis == CHOOSE g \in Payloads : TRUE IN
       tree = [l \in Leaves |-> IF stores # {} /\ l = genesis THEN l ELSE Absent]
  /\ claim = Nothing
  /\ locks = [k \in Carriers \cup {Source} |-> Nobody]
  /\ proc = [p \in Procs |-> Idle("none")]
  /\ past = <<[l \in Paths |-> 1]>>
  /\ spent = [faults |-> 0, commands |-> 0]
  /\ touched = FALSE /\ raced = FALSE

-----------------------------------------------------------------------------
(* register_root.                                                          *)

(* _refuse_bare_genesis: a chain that no claim and no carrier speaks for.  *)
BareGenesis == claim = Nothing /\ WellFormedChain

\* What is looked at before any lock.
RegisterLooks(p, request) ==
  /\ exists /\ request.kind = "register" /\ Free(request.carrier)
  /\ \/ /\ View(request.carrier) = "read-only-unserviceable"
        /\ rows[request.carrier].kind = "register"
     \/ /\ View(request.carrier) = "metadata-less"
        /\ ~BareGenesis
  /\ Begin(p, Command("lease", request, 0))

(* _recovery_lease: the store is created; resolve removes a staging leaf.  *)
RegisterLeases(p) ==
  /\ At(p, "lease") /\ Free(Carrier(p))
  /\ stores' = stores \cup {Carrier(p)}
  /\ \/ MalformedChain /\ End(p, "refused") /\ UNCHANGED tree
     \/ /\ ~MalformedChain
        /\ tree' = [tree EXCEPT ![Staging] = Absent]
        /\ Lock(p, Carrier(p)) /\ proc' = [proc EXCEPT ![p].pc = "adopt"]
  /\ UNCHANGED <<exists, claim, rows, raced>> /\ Others

\* Mutant: a claim is adopted whatever it names.
BugAdoptOperation(p) ==
  /\ At(p, "adopt") /\ claim # Torn
  /\ \/ /\ HasOperation(Row(p)) /\ Row(p).request # Request(p) /\ End(p, "refused")
     \/ /\ HasOperation(Row(p)) /\ Row(p).request = Request(p) /\ UNCHANGED locks
        /\ proc' = [proc EXCEPT ![p].pc = "chain", ![p].id = Row(p).id]
     \/ /\ ~HasOperation(Row(p)) /\ UNCHANGED locks
        /\ IF Claimed THEN proc' = [proc EXCEPT ![p].pc = "stamp", ![p].id = claim.id]
           ELSE proc' = [proc EXCEPT ![p].pc = "claim"]
  /\ Reads

(* _register_operation, as far as it only reads.                           *)
AdoptOperation(p) ==
  LET recorded == HasOperation(Row(p))
      mismatch ==
        \/ Claimed /\ claim.request # Request(p)
        \/ recorded /\ Row(p).request # Request(p)
        \/ recorded /\ Claimed /\ claim.id # Row(p).id
  IN /\ At(p, "adopt")
     /\ \/ claim = Torn /\ End(p, "invalid")
        \/ claim # Torn /\ mismatch /\ End(p, "refused")
        \/ /\ claim # Torn /\ ~mismatch /\ UNCHANGED locks
           /\ \/ recorded /\ proc' = [proc EXCEPT ![p].pc = "chain", ![p].id = Row(p).id]
              \/ ~recorded /\ Claimed /\ proc' = [proc EXCEPT ![p].pc = "stamp", ![p].id = claim.id]
              \/ ~recorded /\ ~Claimed /\ proc' = [proc EXCEPT ![p].pc = "claim"]
     /\ Reads

\* Mutant: the claim is created over one that is there.
BugCreateClaim(p) ==
  /\ At(p, "claim") /\ claim' = Torn
  /\ \E n \in Ids : Mints(n) /\ proc' = [proc EXCEPT ![p].pc = "write_claim", ![p].id = n]
  /\ raced' = (raced \/ (claim = Nothing /\ Geneses # {}))
  /\ UNCHANGED <<exists, tree, store, locks>> /\ Others

(* create_root_claim: exclusive.  A loser could only adopt the claim of    *)
(* its own request, and that names its own, locked carrier.                *)
CreateClaim(p) ==
  /\ At(p, "claim")
  /\ \/ /\ claim = Nothing /\ claim' = Torn
        /\ \E n \in Ids : Mints(n) /\ proc' = [proc EXCEPT ![p].pc = "write_claim", ![p].id = n]
        /\ UNCHANGED locks
     \/ claim = Torn /\ End(p, "invalid") /\ UNCHANGED claim
     \/ Claimed /\ claim.request # Request(p) /\ End(p, "refused") /\ UNCHANGED claim
  /\ raced' = (raced \/ (claim = Nothing /\ Geneses # {}))
  /\ UNCHANGED <<exists, tree, store>> /\ Others

WriteClaim(p) ==
  /\ At(p, "write_claim")
  /\ claim' = OwnClaim(p) /\ Go(p, "stamp")
  /\ UNCHANGED <<exists, tree, store, raced>> /\ Others

(* The operation and the unserviceable lifecycle row, in one transaction;  *)
(* for a copy, _stamp_copy_destination.                                    *)
Stamp(p) ==
  /\ At(p, "stamp")
  /\ \/ ~StampAllowed(Row(p)) /\ End(p, "store") /\ UNCHANGED rows
     \/ /\ StampAllowed(Row(p))
        /\ rows' = [rows EXCEPT ![Carrier(p)] = Stamped(Kind(p), proc[p].id, Request(p))]
        /\ Go(p, IF Kind(p) = "register" THEN "chain" ELSE "snapshot")
  /\ UNCHANGED <<disk, stores, raced>> /\ Others

(* The chain of a root that is being made holds nothing or the genesis the *)
(* operation names: register_root, and _finish_fork_construction, which    *)
(* calls a staging survivor invalid.                                       *)
ReadChain(p) ==
  /\ At(p, "chain")
  /\ \/ /\ tree[Staging] # Absent
        /\ End(p, IF Kind(p) = "fork" THEN "invalid" ELSE "refused")
     \/ tree[Staging] = Absent /\ MalformedChain /\ End(p, "refused")
     \/ /\ tree[Staging] = Absent /\ WellFormedChain
        /\ IF Geneses = {Request(p).payload} THEN Go(p, "prove") ELSE End(p, "invalid")
     \/ /\ tree[Staging] = Absent /\ Geneses = {}
        /\ IF Kind(p) = "fork"
           THEN proc' = [proc EXCEPT ![p].pc = "override", ![p].todo = Overridden] /\ UNCHANGED locks
           ELSE Go(p, "stage")
  /\ Reads

(* append_entry of a genesis.                                              *)
StageGenesis(p) ==
  /\ At(p, "stage")
  /\ IF tree[Staging] # Absent \/ Geneses # {}
     THEN End(p, "refused") /\ UNCHANGED tree
     ELSE /\ tree' = [tree EXCEPT ![Staging] = Request(p).payload]
          /\ Go(p, "publish")
  /\ UNCHANGED <<exists, claim, store, raced>> /\ Others

\* Mutant: the staged entry is linked and stays.
BugPublishGenesis(p) ==
  /\ At(p, "publish") /\ tree[Staging] # Absent
  /\ tree' = [tree EXCEPT ![Request(p).payload] = tree[Staging]]
  /\ Go(p, "prove")
  /\ UNCHANGED <<exists, claim, store, raced>> /\ Others

PublishGenesis(p) ==
  /\ At(p, "publish")
  /\ IF tree[Staging] = Absent \/ tree[Request(p).payload] # Absent
     THEN End(p, "refused") /\ UNCHANGED tree
     ELSE /\ tree' = [tree EXCEPT ![Request(p).payload] = tree[Staging],
                                  ![Staging] = Absent]
          /\ Go(p, "prove")
  /\ UNCHANGED <<exists, claim, store, raced>> /\ Others

\* Mutant: the proof is stored again whatever the phase.
BugProveRegister(p) ==
  /\ At(p, "prove") /\ Kind(p) = "register"
  /\ rows' = [rows EXCEPT ![Carrier(p)].phase = "tree-durable",
                          ![Carrier(p)].proof = tree]
  /\ Go(p, "unclaim")
  /\ UNCHANGED <<disk, stores, raced>> /\ Others

(* _prove_register_tree.                                                   *)
ProveRegister(p) ==
  /\ At(p, "prove") /\ Kind(p) = "register"
  /\ IF Row(p).phase = "recorded"
     THEN /\ rows' = [rows EXCEPT ![Carrier(p)].phase = "tree-durable",
                                  ![Carrier(p)].proof = tree]
          /\ Go(p, "unclaim")
     ELSE /\ UNCHANGED rows
          /\ IF Row(p).proof = tree THEN Go(p, "unclaim") ELSE End(p, "invalid")
  /\ UNCHANGED <<disk, stores, raced>> /\ Others

-----------------------------------------------------------------------------
(* replicate_root and fork_root.                                           *)

\* _dest_metadata_carrier_exists.
HasCarrier(request) == request.carrier \in stores

(* _copy_root: a claim is adopted, an absent root is made, and an occupied *)
(* one without a claim is resumed only through its own carrier.            *)
CopyLooks(p, request) ==
  /\ request.kind \in {"replicate", "fork"}
  /\ \/ ~exists /\ Begin(p, Command("source", request, 0))
     \/ /\ exists /\ Claimed /\ claim.request \in Concrete(request)
        /\ Begin(p, Command("destination", claim.request, claim.id))
     \/ /\ exists /\ claim = Nothing /\ HasCarrier(request)
        /\ Begin(p, Command("destination", request, 0))

(* read_pending_fork_operation: claim and row must name one unfinished     *)
(* fork; 0 stands for None and for its refusals.                           *)
PendingFork(carrier) ==
  LET row == rows[carrier]
      open == row.kind = "fork" /\ row.phase # "complete"
  IN CASE /\ Claimed /\ claim.request.kind = "fork" /\ claim.request.carrier = carrier
          /\ View(carrier) = "metadata-less" \/ (open /\ row.id = claim.id) -> claim.id
       [] claim = Nothing /\ open -> row.id
       [] OTHER -> 0

(* resume_fork_root: the claim or the row says what was asked for.         *)
ResumeFork(p, carrier) ==
  /\ exists /\ Free(carrier) /\ PendingFork(carrier) # 0
  /\ Begin(p, Command("destination",
                      IF Claimed THEN claim.request ELSE rows[carrier].request,
                      PendingFork(carrier)))

\* Mutant: a moved source is copied all the same.
BugTakeSource(p) ==
  /\ At(p, "source") /\ Free(Source)
  /\ Lock(p, Source)
  /\ proc' = [proc EXCEPT
       ![p].pc = IF proc[p].id = 0 THEN "claim_root" ELSE "destination",
       ![p].request.head = IF @ = 0 THEN Tip ELSE @]
  /\ Reads

(* _copy_source: a blocking lock.  The head is the one asked for, or the   *)
(* first one seen.  A command that has an id already is in                 *)
(* _finish_with_source.                                                    *)
TakeSource(p) ==
  /\ At(p, "source") /\ Free(Source)
  /\ IF Request(p).head \notin {0, Tip}
     THEN End(p, "refused")
     ELSE /\ Lock(p, Source)
          /\ proc' = [proc EXCEPT
               ![p].pc = IF proc[p].id = 0 THEN "claim_root" ELSE "destination",
               ![p].request = [@ EXCEPT !.head = Tip]]
  /\ Reads

(* _publish_claimed_destination: the sibling with its claim is renamed to  *)
(* the root, no-clobber; the loser adopts its own request or gives up.     *)
ClaimRoot(p) ==
  /\ At(p, "claim_root")
  /\ \/ /\ ~exists /\ exists' = TRUE
        /\ \E n \in Ids :
             /\ Mints(n) /\ claim' = [id |-> n, request |-> Request(p)]
             /\ proc' = [proc EXCEPT ![p].pc = "destination", ![p].id = n]
        /\ UNCHANGED locks
     \/ /\ exists /\ Claimed /\ claim.request = Request(p)
        /\ proc' = [proc EXCEPT ![p].pc = "destination", ![p].id = claim.id]
        /\ UNCHANGED <<exists, claim, locks>>
     \/ /\ exists /\ (Claimed => claim.request # Request(p))
        /\ End(p, IF claim = Torn THEN "invalid" ELSE "refused")
        /\ UNCHANGED <<exists, claim>>
  /\ UNCHANGED <<tree, store, raced>> /\ Others

(* _NeedsSource leaves the destination's lease: the source comes first.    *)
NeedSource(p) ==
  /\ locks' = [locks EXCEPT ![Carrier(p)] = Nobody]
  /\ proc' = [proc EXCEPT ![p].pc = "source"]

(* _verify_copy_row, for a replicate after it took over the recorded head. *)
VerifyCopyRow(p, row) ==
  row.request \in Concrete(Request(p)) /\ proc[p].id \in {0, row.id}

Proceed(p, row) ==
  /\ \/ row.phase = "complete" /\ End(p, "done")
     \/ /\ row.phase # "complete"
        /\ Lock(p, Carrier(p))
        /\ proc' = [proc EXCEPT
             ![p].request = row.request, ![p].id = row.id,
             ![p].todo = IF row.source = NoSnapshot THEN {} ELSE Entries(row.source),
             ![p].pc = CASE row.phase = "recorded" -> "snapshot"
                            [] row.phase = "source-snapshot-durable" -> "copy"
                            [] row.phase = "tree-durable" -> "reprove"]

(* _claimed_destination_lease, which only tries the lock, and as much of   *)
(* _resume_copy and _advance_copy as reads the row.                        *)
TakeDestination(p) ==
  /\ At(p, "destination")
  /\ \/ Busy(Carrier(p)) /\ End(p, "refused") /\ UNCHANGED stores
     \/ /\ Free(Carrier(p)) /\ Row(p) = Legacy
        /\ End(p, "refused") /\ UNCHANGED stores
     \/ /\ Free(Carrier(p)) /\ Row(p) # Legacy /\ stores' = stores \cup {Carrier(p)}
        /\ \/ ~HasOperation(Row(p)) /\ proc[p].id = 0 /\ End(p, "refused")
           \/ /\ ~HasOperation(Row(p)) /\ proc[p].id # 0
              /\ Lock(p, Carrier(p)) /\ proc' = [proc EXCEPT ![p].pc = "stamp"]
           \/ /\ HasOperation(Row(p))
              /\ IF VerifyCopyRow(p, Row(p)) THEN Proceed(p, Row(p))
                 ELSE End(p, "refused")
  /\ UNCHANGED <<disk, rows, raced>> /\ Others

(* The source as it is now, retained before anything is copied.            *)
SnapshotSource(p) ==
  /\ At(p, "snapshot")
  /\ IF Fed(p)
     THEN /\ rows' = [rows EXCEPT ![Carrier(p)].phase = "source-snapshot-durable",
                                  ![Carrier(p)].source = SourceSnapshot(Kind(p))]
          /\ proc' = [proc EXCEPT ![p].pc = "copy", ![p].todo = Entries(SourceSnapshot(Kind(p)))]
          /\ UNCHANGED locks
     ELSE NeedSource(p) /\ UNCHANGED rows
  /\ UNCHANGED <<disk, stores, raced>> /\ Others

AfterCopy(p) == IF Kind(p) = "fork" THEN "chain" ELSE "prove"

\* Mutant: what is missing contradicts the snapshot, too.
BugVerifyDestination(p) ==
  LET source == Row(p).source IN
  /\ At(p, "copy") /\ ~Fed(p)
  /\ IF \E l \in Entries(source) : tree[l] # source[l]
     THEN End(p, "invalid") ELSE Go(p, AfterCopy(p))
  /\ Reads

(* _copy_tree without a source: what the destination alone can prove.      *)
VerifyDestination(p) ==
  LET source == Row(p).source IN
  /\ At(p, "copy") /\ ~Fed(p)
  /\ \/ (\E l \in Entries(source) : tree[l] \notin {Absent, source[l]}) /\ End(p, "invalid")
     \/ /\ \A l \in Entries(source) : tree[l] \in {Absent, source[l]}
        /\ IF \E l \in Entries(source) : tree[l] = Absent
           THEN NeedSource(p) ELSE Go(p, AfterCopy(p))
  /\ Reads

\* Mutant: what is there is not looked at.
BugCopyEntry(p) ==
  /\ At(p, "copy") /\ Fed(p)
  /\ \E l \in proc[p].todo :
       /\ tree' = [tree EXCEPT ![l] = Torn]
       /\ proc' = [proc EXCEPT ![p].pc = "write", ![p].leaf = l, ![p].todo = @ \ {l}]
       /\ UNCHANGED locks
  /\ UNCHANGED <<exists, claim, store, raced>> /\ Others

(* _copy_tree with a source, an entry at a time; names are arbitrary, and  *)
(* so is their order.  What is there must match, and what is missing is    *)
(* created if the source still holds what the snapshot says.               *)
CopyEntry(p) ==
  /\ At(p, "copy") /\ Fed(p)
  /\ \E l \in proc[p].todo :
       LET wanted == Row(p).source[l] IN
       \/ /\ tree[l] = wanted
          /\ proc' = [proc EXCEPT ![p].todo = @ \ {l}] /\ UNCHANGED <<tree, locks>>
       \/ /\ tree[l] = Absent /\ SourceSnapshot("replicate")[l] = wanted
          /\ tree' = [tree EXCEPT ![l] = Torn]
          /\ proc' = [proc EXCEPT ![p].pc = "write", ![p].leaf = l, ![p].todo = @ \ {l}]
          /\ UNCHANGED locks
       \/ /\ tree[l] # wanted
          /\ tree[l] = Absent => SourceSnapshot("replicate")[l] # wanted
          /\ End(p, "invalid") /\ UNCHANGED tree
  /\ UNCHANGED <<exists, claim, store, raced>> /\ Others

CopyDone(p) ==
  /\ At(p, "copy") /\ Fed(p) /\ proc[p].todo = {}
  /\ Go(p, AfterCopy(p)) /\ Reads

(* A file created exclusively is written through its descriptor: if the    *)
(* entry is another by now, that one is left alone.                        *)
WriteEntry(p) ==
  LET l == proc[p].leaf IN
  /\ At(p, "write") \/ At(p, "overwrite")
  /\ tree' = [tree EXCEPT ![l] = IF @ # Torn THEN @
                                 ELSE IF At(p, "write") THEN Row(p).source[l]
                                 ELSE Override]
  /\ Go(p, IF At(p, "write") THEN "copy" ELSE "override")
  /\ UNCHANGED <<exists, claim, store, raced>> /\ Others

(* _apply_overrides: one that is in place stays, another entry is removed  *)
(* and then created anew.                                                  *)
ApplyOverride(p) ==
  /\ At(p, "override")
  /\ \E l \in proc[p].todo :
       /\ proc' = [proc EXCEPT ![p].todo = @ \ {l}, ![p].leaf = l,
                  ![p].pc = IF tree[l] = Override THEN "override" ELSE "create"]
       /\ tree' = [tree EXCEPT ![l] = IF @ = Override THEN @ ELSE Absent]
  /\ UNCHANGED <<exists, claim, store, locks, raced>> /\ Others

CreateOverride(p) ==
  LET l == proc[p].leaf IN
  /\ At(p, "create")
  /\ IF tree[l] = Absent
     THEN tree' = [tree EXCEPT ![l] = Torn] /\ Go(p, "overwrite")
     ELSE End(p, "refused") /\ UNCHANGED tree
  /\ UNCHANGED <<exists, claim, store, raced>> /\ Others

OverridesDone(p) ==
  /\ At(p, "override") /\ proc[p].todo = {} /\ Go(p, "stage") /\ Reads

\* _prove_destination: the path set is what this operation wrote, no more.
Expected(p) ==
  Entries(Row(p).source)
    \cup IF Kind(p) = "fork" THEN Overridden \cup {Request(p).payload} ELSE {}

ProveCopy(p) ==
  /\ At(p, "prove") /\ Kind(p) # "register"
  /\ IF Present # Expected(p) THEN End(p, "invalid") /\ UNCHANGED rows
     ELSE /\ rows' = [rows EXCEPT ![Carrier(p)].phase = "tree-durable",
                                  ![Carrier(p)].proof = tree]
          /\ Go(p, "reprove")
  /\ UNCHANGED <<disk, stores, raced>> /\ Others

(* The tree-durable branch of _advance_copy.                               *)
ReproveCopy(p) ==
  /\ At(p, "reprove")
  /\ IF Present = Expected(p) /\ Row(p).proof = tree
     THEN Go(p, "unclaim") ELSE End(p, "invalid")
  /\ Reads

-----------------------------------------------------------------------------
(* The end of every creation.                                              *)

(* remove_root_claim: absence is legitimate, other bytes are not.          *)
RemoveClaim(p) ==
  /\ At(p, "unclaim")
  /\ IF claim \in {Nothing, OwnClaim(p)}
     THEN claim' = Nothing /\ Go(p, "complete")
     ELSE End(p, "invalid") /\ UNCHANGED claim
  /\ UNCHANGED <<exists, tree, store, raced>> /\ Others

(* _complete_root_operation.                                               *)
Complete(p) ==
  /\ At(p, "complete")
  /\ IF CompletionAllowed(Row(p))
     THEN rows' = [rows EXCEPT ![Carrier(p)] = Completed(@)] /\ End(p, "done")
     ELSE End(p, "store") /\ UNCHANGED rows
  /\ UNCHANGED <<disk, stores, raced>> /\ Others

-----------------------------------------------------------------------------
(* grant_read_serviceability: _require_grantable_tree comes before the     *)
(* lock.                                                                   *)
GrantLooks(p, request) ==
  LET view == View(request.carrier) IN
  /\ request.kind = "grant" /\ exists /\ Free(request.carrier)
  /\ claim = Nothing /\ tree[Staging] = Absent /\ WellFormedChain
  /\ \/ view = "metadata-less"
     \/ view = "read-only-unserviceable" /\ rows[request.carrier].phase = "complete"
  /\ Begin(p, Command(IF view = "metadata-less" THEN "admit" ELSE "serve", request, 0))

(* Cold admission, in one transaction of a creating lease.                 *)
Admit(p) ==
  /\ At(p, "admit") /\ Free(Carrier(p))
  /\ stores' = stores \cup {Carrier(p)}
  /\ IF StampAllowed(Row(p))
     THEN rows' = [rows EXCEPT ![Carrier(p)] = Admitted] /\ End(p, "done")
     ELSE End(p, "store") /\ UNCHANGED rows
  /\ UNCHANGED <<disk, raced>> /\ Others

(* _transition_serviceability, under the lock.                             *)
Serve(p) ==
  /\ At(p, "serve") /\ Free(Carrier(p))
  /\ IF TransitionAllowed(Row(p), "read-only-serviceable")
     THEN /\ rows' = [rows EXCEPT ![Carrier(p)].lifecycle = "read-only-serviceable"]
          /\ End(p, "done")
     ELSE End(p, "store") /\ UNCHANGED rows
  /\ UNCHANGED <<disk, stores, raced>> /\ Others

(* migrate_root_to_lifecycle_v3: the version is looked at before the lock, *)
(* and the DDL fails on tables that are there.                             *)
MigrateLooks(p, request) ==
  /\ request.kind = "migrate" /\ exists /\ Free(request.carrier)
  /\ View(request.carrier) = "version-2" /\ WellFormedChain
  /\ Begin(p, Command("migrate", request, 0))

Migrate(p) ==
  /\ At(p, "migrate") /\ Free(Carrier(p))
  /\ IF Row(p) = Legacy
     THEN rows' = [rows EXCEPT ![Carrier(p)] = Migrated] /\ End(p, "done")
     ELSE End(p, "store") /\ UNCHANGED rows
  /\ UNCHANGED <<disk, stores, raced>> /\ Others

-----------------------------------------------------------------------------
(* The process dies; the locks of a dead process are free.                 *)
Kill(p) ==
  /\ ~At(p, "idle") /\ spent.faults < MaxFaults
  /\ spent' = [spent EXCEPT !.faults = @ + 1]
  /\ End(p, "none")
  /\ UNCHANGED <<disk, store, past, touched, raced>>

(* A transaction of the source's own: it takes the source's lock.  A file  *)
(* holds the number of the head that wrote it.                             *)
SourceMoves ==
  /\ Free(Source) /\ Tip < MaxHead
  /\ \E l \in Paths : past' = Append(past, [past[Tip] EXCEPT ![l] = Tip + 1])
  /\ UNCHANGED <<disk, store, locks, proc, spent, touched, raced>>

Outside ==
  /\ spent.faults < MaxFaults
  /\ spent' = [spent EXCEPT !.faults = @ + 1] /\ touched' = TRUE
  /\ \/ \E l \in Leaves, c \in {Foreign, Absent} :
          exists /\ tree' = [tree EXCEPT ![l] = c] /\ UNCHANGED past
     \/ \E l \in Paths :
          past' = [past EXCEPT ![Tip][l] = Foreign] /\ UNCHANGED tree
  /\ UNCHANGED <<exists, claim, store, locks, proc, raced>>

Step(p) ==
  \/ RegisterLeases(p) \/ AdoptOperation(p) \/ CreateClaim(p) \/ WriteClaim(p)
  \/ Stamp(p) \/ ReadChain(p) \/ StageGenesis(p) \/ PublishGenesis(p)
  \/ ProveRegister(p) \/ TakeSource(p) \/ ClaimRoot(p) \/ TakeDestination(p)
  \/ SnapshotSource(p) \/ VerifyDestination(p) \/ CopyEntry(p) \/ CopyDone(p)
  \/ WriteEntry(p) \/ ApplyOverride(p) \/ CreateOverride(p) \/ OverridesDone(p)
  \/ ProveCopy(p) \/ ReproveCopy(p) \/ RemoveClaim(p) \/ Complete(p)
  \/ Admit(p) \/ Serve(p) \/ Migrate(p)

RNext ==
  \/ \E p \in Procs : Step(p) \/ Kill(p)
  \/ \E p \in Procs, r \in Requests :
       \/ RegisterLooks(p, r) \/ CopyLooks(p, r)
       \/ GrantLooks(p, r) \/ MigrateLooks(p, r)
  \/ \E p \in Procs, c \in Carriers : ResumeFork(p, c)
  \/ SourceMoves \/ Outside

\* A command that can go on does, and one that waits for a lock takes it
\* when it stays free.
RSpec == RInit /\ [][RNext]_rvars /\ \A p \in Procs : WF_rvars(Step(p))
=============================================================================
