-------------------------- MODULE RootCreation_proofs --------------------------
(***************************************************************************)
(* Proofs, for every number of processes, metadata roots, commands, kills  *)
(* and paths, about RootCreation: first about the claim and the rows, then *)
(* about what the commands leave in the root.                              *)
(***************************************************************************)
EXTENDS RootProperties, TLAPS, SequenceTheorems, FiniteSetTheorems

-----------------------------------------------------------------------------
(* The invariant, part by part.                                            *)

ProcFields == {"pc", "request", "id", "todo", "leaf", "why"}
Columns == {"lifecycle", "origin", "kind", "phase", "id", "request", "source", "proof"}

Shape ==
  /\ DOMAIN proc = Procs /\ \A p \in Procs : DOMAIN proc[p] = ProcFields
  /\ DOMAIN rows = Carriers /\ \A c \in Carriers : DOMAIN rows[c] = Columns
  /\ DOMAIN locks = Carriers \cup {Source} /\ DOMAIN tree = Leaves
  /\ past \in Seq([Paths -> 1..MaxHead \cup {Foreign}]) /\ Tip \in 1..MaxHead

\* Where a command holds the lock of its carrier, and where it has a row.
Engaged ==
  {"snapshot", "copy", "write", "chain", "override", "create", "overwrite",
   "stage", "publish", "prove", "reprove", "unclaim", "complete"}
Held == Engaged \cup {"adopt", "claim", "write_claim", "stamp"}

(* What a program point says of the request, the lock and the work list.   *)
RequestFits(p) ==
  LET pc == proc[p].pc IN
  /\ pc # "idle" => Request(p) \in Asked
  /\ pc \in {"lease", "adopt", "claim", "write_claim"} => Kind(p) = "register" /\ exists
  /\ pc \in {"source", "claim_root", "destination", "snapshot", "copy", "write", "reprove"} =>
       Kind(p) \in {"replicate", "fork"}
  /\ pc \in {"override", "create", "overwrite"} => Kind(p) = "fork"
  /\ pc \in {"chain", "stage", "publish"} => Kind(p) \in {"register", "fork"}
  /\ pc \in {"stamp", "prove", "unclaim", "complete"} => Kind(p) \in Creations
  /\ pc = "write_claim" => proc[p].id \in Ids
  /\ pc \in {"override", "create", "overwrite"} => proc[p].todo \subseteq Overridden
  /\ pc \in {"create", "overwrite"} => proc[p].leaf \in Overridden

HoldsLock(p) == proc[p].pc \in Held => locks[Carrier(p)] = p

(* ... and of the carrier's row, which nobody else changes meanwhile.      *)
RowFits(p) ==
  LET pc == proc[p].pc IN
  /\ pc \in Engaged =>
       /\ HasOperation(Row(p)) /\ Row(p).request = Request(p)
       /\ Row(p).id = proc[p].id
  /\ pc = "snapshot" => Row(p).phase = "recorded"
  /\ pc \in {"copy", "write"} => Row(p).phase = "source-snapshot-durable"
  /\ pc \in {"chain", "override", "create", "overwrite", "stage", "publish", "prove"}
     /\ Kind(p) # "register" => Row(p).phase = "source-snapshot-durable"
  /\ pc = "reprove" => Row(p).phase = "tree-durable"
  /\ pc \in {"unclaim", "complete"} => Row(p).phase \in {"tree-durable", "complete"}
  /\ pc \in {"copy", "write"} => proc[p].todo \subseteq Entries(Row(p).source)
  /\ pc = "write" => proc[p].leaf \in Entries(Row(p).source)
  /\ pc = "serve" => HasOperation(Row(p))

RowSound(c) ==
  LET row == rows[c] IN
  /\ WellFormedRow(row)
  /\ ~HasOperation(row) => row \in {NoRow, Legacy, Migrated, Admitted}
  /\ HasOperation(row) =>
       /\ row.kind \in Creations /\ row.request \in Asked
       /\ row.request.kind = row.kind /\ row.request.carrier = c
       /\ row.phase \in {"recorded", "tree-durable", "complete"}
                        \cup IF row.kind = "register" THEN {} ELSE {"source-snapshot-durable"}
  /\ row.kind = "replicate" /\ row.phase # "recorded" => History \in Entries(row.source)

ClaimSound ==
  /\ Claimed => /\ claim = [id |-> claim.id, request |-> claim.request]
                /\ claim.request \in Asked
  /\ claim # Nothing => exists

RInv ==
  /\ Shape /\ ClaimSound
  /\ \A p \in Procs : RequestFits(p) /\ HoldsLock(p) /\ RowFits(p)
  /\ \A c \in Carriers : RowSound(c)

-----------------------------------------------------------------------------
\* A carrier that has, had or may get the root.
Owner(c) ==
  HasOperation(rows[c]) \/ rows[c].lifecycle = "writable" \/ rows[c] = Legacy

NamesRow(c) ==
  Claimed /\ claim = [id |-> rows[c].id, request |-> rows[c].request]

OneOwner == \A c, d \in Carriers : Owner(c) /\ Owner(d) => c = d

(* An owner is known to everybody who looks: by the claim or by the chain. *)
OwnerShows ==
  \A c \in Carriers : Owner(c) =>
    /\ exists
    /\ (HasOperation(rows[c]) /\ NamesRow(c)) \/ (claim = Nothing /\ Geneses # {})
    /\ rows[c].phase \in {"recorded", "source-snapshot-durable"} => NamesRow(c)
    /\ rows[c].phase \in {"tree-durable", "complete"} => Geneses # {}

ClaimShows(p) ==
  LET pc == proc[p].pc
      own == Claimed /\ claim = OwnClaim(p) IN
  /\ pc = "write_claim" =>
       claim = Torn /\ \A q \in Procs : At(q, "write_claim") => q = p
  /\ pc = "stamp" => own
  /\ pc = "destination" /\ proc[p].id # 0 => own \/ HasOperation(Row(p))
  /\ pc = "source" /\ proc[p].id # 0 => HasOperation(Row(p))
  /\ pc = "prove" /\ Kind(p) # "replicate" => Geneses # {}
  /\ pc = "complete" => claim = Nothing

Core == OneOwner /\ OwnerShows /\ \A p \in Procs : ClaimShows(p)
OwnerInv == raced \/ touched \/ Core

-----------------------------------------------------------------------------
(* Steps of one process, as the others see them.                           *)

Fits(p) == RequestFits(p) /\ HoldsLock(p) /\ RowFits(p)

Alone(p) ==
  /\ exists => exists'
  /\ \A q \in Procs \ {p} : proc'[q] = proc[q]
  /\ \A q \in Procs \ {p}, k \in DOMAIN locks : locks[k] = q => locks'[k] = q
  /\ \A q \in Procs \ {p}, c \in Carriers : locks[c] = q => rows'[c] = rows[c]
  /\ \A c \in Carriers : HasOperation(rows[c]) => HasOperation(rows'[c])

(* The rows of a root without an operation.                                *)
LEMMA EmptyRows ==
  /\ \A row \in {NoRow, Legacy, Migrated, Admitted} :
       DOMAIN row = Columns /\ row.kind = Null /\ row.phase = Null
       /\ WellFormedRow(row)
  /\ NoRow.lifecycle = Null /\ NoRow.origin = Null
  /\ Legacy.lifecycle = Null /\ Legacy.origin = "version-2"
  /\ Migrated.lifecycle = "writable"
  /\ Admitted.lifecycle = "read-only-serviceable" /\ Admitted.origin = "read-serviceability"
<1>1. /\ DOMAIN NoRow = Columns /\ NoRow.lifecycle = Null /\ NoRow.origin = Null
      /\ NoRow.kind = Null /\ NoRow.phase = Null
      /\ NoRow.source = NoSnapshot /\ NoRow.proof = NoSnapshot
  BY DEF NoRow, Columns
<1>2. /\ DOMAIN Legacy = Columns /\ Legacy.lifecycle = Null /\ Legacy.origin = "version-2"
      /\ Legacy.kind = Null /\ Legacy.phase = Null
      /\ Legacy.source = NoSnapshot /\ Legacy.proof = NoSnapshot
  BY <1>1 DEF Legacy, Columns
<1>3. /\ DOMAIN Migrated = Columns /\ Migrated.lifecycle = "writable"
      /\ Migrated.origin = "migration-v2" /\ Migrated.kind = Null /\ Migrated.phase = Null
      /\ Migrated.source = NoSnapshot /\ Migrated.proof = NoSnapshot
  BY <1>1 DEF Migrated, Columns
<1>4. /\ DOMAIN Admitted = Columns /\ Admitted.lifecycle = "read-only-serviceable"
      /\ Admitted.origin = "read-serviceability"
      /\ Admitted.kind = Null /\ Admitted.phase = Null
      /\ Admitted.source = NoSnapshot /\ Admitted.proof = NoSnapshot
  BY <1>1 DEF Admitted, Columns
<1>5. WellFormedRow(NoRow) /\ WellFormedRow(Legacy)
  BY <1>1, <1>2 DEF WellFormedRow, Paired, OriginAdmits, ProofsMatchPhase, HasOperation,
                    Creations, Null
<1>6. WellFormedRow(Migrated) /\ WellFormedRow(Admitted)
  BY <1>3, <1>4 DEF WellFormedRow, Paired, OriginAdmits, ProofsMatchPhase, HasOperation,
                    Creations, Null
<1> QED
  BY <1>1, <1>2, <1>3, <1>4, <1>5, <1>6

\* What a request says about itself.
LEMMA AskedFields ==
  ASSUME NEW r \in Asked
  PROVE  /\ DOMAIN r = {"kind", "carrier", "head", "payload"}
         /\ r.carrier \in Carriers /\ r.kind \in Kinds
         /\ r.kind \in {"register", "fork"} => r.payload \in Payloads
BY DEF Asked

\* A resume stands for a request of the same kind on the same carrier.
LEMMA ConcreteAsked ==
  ASSUME NEW r \in Asked, NEW s \in Concrete(r)
  PROVE  s \in Asked /\ s.carrier = r.carrier /\ s.kind = r.kind
BY CreationBounds DEF Concrete, Asked, Kinds, Creations

(* A step of one command disturbs no other: whoever is past the lock of a  *)
(* carrier keeps the row it relied on.                                     *)
LEMMA Bystanders ==
  ASSUME RInv, NEW p \in Procs, Alone(p), NEW q \in Procs \ {p}
  PROVE  Fits(q)'
<1>1. proc'[q] = proc[q]
  BY DEF Alone
<1>2. RequestFits(q)'
  BY <1>1 DEF RInv, RequestFits, Request, Kind, At, Alone
<1>3. ~At(q, "idle") => Carrier(q) \in Carriers
  BY AskedFields DEF RInv, RequestFits, Carrier, At
<1>4. HoldsLock(q)'
  BY <1>1, <1>3 DEF RInv, Shape, HoldsLock, Alone, Carrier, Request, Held, Engaged, At
<1>5. RowFits(q)'
  <2>1. CASE proc[q].pc \in Engaged
    <3>1. locks[Carrier(q)] = q /\ Carrier(q) \in Carriers
      BY <1>3, <2>1 DEF RInv, HoldsLock, Held, Engaged, At
    <3>2. rows'[Carrier(q)] = rows[Carrier(q)]
      BY <3>1 DEF Alone
    <3>3. Carrier(q)' = Carrier(q) /\ Row(q)' = Row(q)
      BY <1>1, <3>2 DEF Carrier, Request, Row
    <3> QED
      BY <1>1, <3>3 DEF RInv, RowFits, Kind, Request
  <2>2. CASE proc[q].pc \notin Engaged
    BY <1>1, <1>3, <2>2 DEF RInv, RowFits, Engaged, Alone, Row, Carrier, Request, At
  <2> QED
    BY <2>1, <2>2
<1> QED
  BY <1>2, <1>4, <1>5 DEF Fits

\* A command that ends holds nothing.
LEMMA Ending ==
  ASSUME RInv, NEW p \in Procs, NEW why, End(p, why)
  PROVE  /\ DOMAIN proc' = Procs /\ \A q \in Procs : DOMAIN proc'[q] = ProcFields
         /\ DOMAIN locks' = DOMAIN locks
         /\ proc'[p].pc = "idle"
         /\ \A q \in Procs \ {p} : proc'[q] = proc[q]
         /\ \A q \in Procs \ {p}, k \in DOMAIN locks : locks[k] = q => locks'[k] = q
BY DEF RInv, Shape, End, Idle, ProcFields

\* A command that is not running owes nothing.
LEMMA IdleFits ==
  ASSUME NEW p \in Procs, proc'[p].pc = "idle"
  PROVE  Fits(p)'
BY DEF Fits, RequestFits, HoldsLock, RowFits, Held, Engaged

(* What each action has to show: its own frame, and what is new.           *)
ProcFrame(p) ==
  /\ DOMAIN proc' = Procs /\ DOMAIN proc'[p] = ProcFields
  /\ \A q \in Procs \ {p} : proc'[q] = proc[q]
LockFrame(p) ==
  /\ DOMAIN locks' = DOMAIN locks
  /\ \A q \in Procs \ {p}, k \in DOMAIN locks : locks[k] = q => locks'[k] = q
RowFrame(p) ==
  /\ DOMAIN rows' = Carriers
  /\ \A c \in Carriers :
       \/ rows'[c] = rows[c]
       \/ /\ locks[c] \in {p, Nobody} /\ DOMAIN rows'[c] = Columns /\ RowSound(c)'
          /\ HasOperation(rows[c]) => HasOperation(rows'[c])
DiskFrame ==
  UNCHANGED past /\ DOMAIN tree' = Leaves /\ ClaimSound' /\ (exists => exists')

(* The invariant survives a step that keeps to the four frames and leaves  *)
(* the stepping command where its own facts hold.                          *)
LEMMA Keeps ==
  ASSUME RInv, NEW p \in Procs,
         ProcFrame(p), LockFrame(p), RowFrame(p), DiskFrame, Fits(p)'
  PROVE  RInv'
<1>1. Shape'
  BY DEF RInv, Shape, ProcFrame, LockFrame, RowFrame, DiskFrame, Tip
<1>2. Alone(p)
  BY CreationValues DEF RInv, Shape, ProcFrame, LockFrame, RowFrame, DiskFrame, Alone
<1>3. \A q \in Procs \ {p} : Fits(q)'
  BY <1>2, Bystanders
<1>4. ASSUME NEW c \in Carriers PROVE RowSound(c)'
  BY <1>4 DEF RInv, RowFrame, RowSound, Entries
<1> QED
  BY <1>1, <1>3, <1>4 DEF RInv, DiskFrame, Fits

(* A command that ends has released what it held, so its frames and facts  *)
(* hold.                                                                   *)
LEMMA EndFrame ==
  ASSUME RInv, NEW p \in Procs, NEW why, End(p, why)
  PROVE  ProcFrame(p) /\ LockFrame(p) /\ Fits(p)'
BY Ending, IdleFits DEF ProcFrame, LockFrame

\* A step that leaves the rows alone is within the row frame.
LEMMA SameRows ==
  ASSUME RInv, NEW p, UNCHANGED rows
  PROVE  RowFrame(p)
BY DEF RInv, Shape, RowFrame

(* A step that leaves the claim and the past alone is within the disk      *)
(* frame.                                                                  *)
LEMMA SameDisk ==
  ASSUME RInv, UNCHANGED <<exists, claim, past>>, DOMAIN tree' = DOMAIN tree
  PROVE  DiskFrame
BY DEF RInv, Shape, DiskFrame, ClaimSound, Claimed

\* Ending a command without touching rows or disk preserves the invariant.
LEMMA EndKeeps ==
  ASSUME RInv, NEW p \in Procs, NEW why, End(p, why),
         UNCHANGED <<exists, claim, rows, past>>, DOMAIN tree' = DOMAIN tree
  PROVE  RInv'
BY EndFrame, SameRows, SameDisk, Keeps

\* Moving on to the next program point keeps the shape of the process.
LEMMA GoFrame ==
  ASSUME RInv, NEW p \in Procs, NEW pc, Go(p, pc)
  PROVE  /\ ProcFrame(p) /\ LockFrame(p) /\ locks' = locks
         /\ proc'[p].pc = pc /\ proc'[p].request = Request(p) /\ proc'[p].id = proc[p].id
         /\ proc'[p].todo = proc[p].todo /\ proc'[p].leaf = proc[p].leaf
BY DEF RInv, Shape, Go, ProcFrame, LockFrame, ProcFields, Request

\* Most steps go on and leave rows and claim alone.
LEMMA GoKeeps ==
  ASSUME RInv, NEW p \in Procs, NEW pc, Go(p, pc), Fits(p)',
         UNCHANGED <<exists, claim, rows, past>>, DOMAIN tree' = DOMAIN tree
  PROVE  RInv'
BY GoFrame, SameRows, SameDisk, Keeps

\* Starting a command preserves the invariant: it holds no lock yet.
LEMMA BeginKeeps ==
  ASSUME RInv, NEW p \in Procs, NEW r \in Asked, NEW id,
         NEW pc \in {"lease", "source", "destination", "admit", "serve", "migrate"},
         Begin(p, Command(pc, r, id)),
         pc = "lease" => r.kind = "register" /\ exists,
         pc \in {"source", "destination"} => r.kind \in {"replicate", "fork"},
         pc = "serve" => HasOperation(rows[r.carrier])
  PROVE  RInv'
<1>1. /\ ProcFrame(p) /\ LockFrame(p)
      /\ proc'[p].pc = pc /\ proc'[p].request = r
  BY DEF RInv, Shape, Begin, Command, Idle, ProcFrame, LockFrame, ProcFields
<1>2. RowFrame(p) /\ DiskFrame
  BY SameRows, SameDisk DEF Begin, disk, store
<1>3. UNCHANGED rows
  BY DEF Begin, store
<1>4. Fits(p)'
  BY <1>1, <1>3 DEF Fits, RequestFits, HoldsLock, RowFits, Held, Engaged, Request,
                    Kind, Carrier, Row, HasOperation, Begin, disk
<1> QED
  BY <1>1, <1>2, <1>4, Keeps

(* The registration look-ups before the lock only read, so they preserve   *)
(* the invariant.                                                          *)
LEMMA LooksKeep ==
  ASSUME RInv, NEW p \in Procs, NEW r \in Requests,
         RegisterLooks(p, r) \/ CopyLooks(p, r) \/ GrantLooks(p, r) \/ MigrateLooks(p, r)
  PROVE  RInv'
<1>1. r \in Asked
  BY CreationValues
<1>2. CASE RegisterLooks(p, r)
  BY <1>1, <1>2, BeginKeeps DEF RegisterLooks
<1>3. CASE CopyLooks(p, r)
  <2>1. Claimed /\ claim.request \in Concrete(r) =>
          claim.request \in Asked /\ claim.request.kind = r.kind
    BY <1>1, ConcreteAsked
  <2> QED
    BY <1>1, <1>3, <2>1, BeginKeeps DEF CopyLooks
<1>4. CASE GrantLooks(p, r)
  <2>1. View(r.carrier) # "metadata-less" => HasOperation(rows[r.carrier])
    <3> SUFFICES ASSUME View(r.carrier) = "read-only-unserviceable",
                        rows[r.carrier].phase = "complete",
                        ~HasOperation(rows[r.carrier])
                 PROVE  FALSE
      BY <1>4 DEF GrantLooks
    <3>1. rows[r.carrier] \in {NoRow, Legacy, Migrated, Admitted}
      BY <1>1, AskedFields DEF RInv, RowSound
    <3> QED
      BY <3>1, EmptyRows DEF Null
  <2> QED
    BY <1>1, <1>4, <2>1, BeginKeeps DEF GrantLooks
<1>5. CASE MigrateLooks(p, r)
  BY <1>1, <1>5, BeginKeeps DEF MigrateLooks
<1> QED
  BY <1>2, <1>3, <1>4, <1>5

(* A resume takes its request from the row or from the claim, which name   *)
(* only requests somebody asked for.                                       *)
LEMMA ResumeKeeps ==
  ASSUME RInv, NEW p \in Procs, NEW c \in Carriers, ResumeFork(p, c)
  PROVE  RInv'
<1> DEFINE r == IF Claimed THEN claim.request ELSE rows[c].request
<1>1. r \in Asked /\ r.kind = "fork"
  <2>1. CASE Claimed
    BY <2>1 DEF ResumeFork, PendingFork, RInv, ClaimSound, Claimed
  <2>2. CASE ~Claimed
    BY <2>2 DEF ResumeFork, PendingFork, RInv, RowSound, Claimed, HasOperation, Null
  <2> QED
    BY <2>1, <2>2
<1> QED
  BY <1>1, BeginKeeps DEF ResumeFork

-----------------------------------------------------------------------------
(* The invariant holds, action by action.                                  *)

\* The invariant holds on a directory nobody has touched.
LEMMA InitInv == RInit => RInv
<1> SUFFICES ASSUME RInit PROVE RInv
  OBVIOUS
<1>1. \A c \in Carriers : rows[c] \in {Legacy, NoRow}
  BY DEF RInit
<1>2. ASSUME NEW c \in Carriers PROVE RowSound(c) /\ DOMAIN rows[c] = Columns
  BY <1>1, EmptyRows DEF RowSound, HasOperation, Null
<1>3. past \in Seq([Paths -> 1..MaxHead \cup {Foreign}]) /\ Tip = 1
  BY CreationBounds DEF RInit, Tip
<1>4. Shape
  BY <1>2, <1>3, CreationBounds DEF RInit, Shape, Idle, ProcFields
<1>5. \A p \in Procs : Fits(p)
  BY DEF RInit, Idle, Fits, RequestFits, HoldsLock, RowFits, Held, Engaged
<1>6. ClaimSound
  BY DEF RInit, ClaimSound, Claimed
<1> QED
  BY <1>2, <1>4, <1>5, <1>6 DEF RInv, Fits

\* A command at work has a request that can be asked, for one of the carriers.
LEMMA RequestKnown ==
  ASSUME RInv, NEW p \in Procs, ~At(p, "idle")
  PROVE  /\ Request(p) \in Asked /\ Carrier(p) \in Carriers /\ Kind(p) \in Kinds
         /\ DOMAIN Request(p) = {"kind", "carrier", "head", "payload"}
BY AskedFields DEF RInv, RequestFits, At, Carrier, Kind

(* Taking the leases gives the command its lock before it relies on the    *)
(* row.                                                                    *)
LEMMA RegisterLeasesKeeps ==
  ASSUME RInv, NEW p \in Procs, RegisterLeases(p) PROVE RInv'
<1>1. Carrier(p) \in Carriers
  BY RequestKnown DEF RegisterLeases, At
<1>2. CASE End(p, "refused") /\ UNCHANGED tree
  BY <1>2, EndKeeps DEF RegisterLeases, Others
<1>3. CASE /\ tree' = [tree EXCEPT ![Staging] = Absent]
           /\ Lock(p, Carrier(p)) /\ proc' = [proc EXCEPT ![p].pc = "adopt"]
  <2>1. ProcFrame(p) /\ proc'[p].pc = "adopt" /\ proc'[p].request = Request(p)
    BY <1>3 DEF RInv, Shape, ProcFrame, ProcFields, Request
  <2>2. LockFrame(p) /\ locks'[Carrier(p)] = p
    BY <1>1, <1>3, CreationValues
       DEF RInv, Shape, LockFrame, Lock, RegisterLeases, Free
  <2>3. Fits(p)'
    BY <2>1, <2>2 DEF RInv, Fits, RequestFits, HoldsLock, RowFits, Held, Engaged, Request,
                      Kind, Carrier, RegisterLeases, At
  <2> QED
    BY <1>3, <2>1, <2>2, <2>3, SameRows, SameDisk, Keeps DEF RegisterLeases, Others
<1> QED
  BY <1>2, <1>3 DEF RegisterLeases

(* A new operation row is well formed, and an adopted one is the one asked *)
(* for.                                                                    *)
LEMMA AdoptOperationKeeps ==
  ASSUME RInv, NEW p \in Procs, AdoptOperation(p) PROVE RInv'
<1>1. CASE \E why : End(p, why)
  BY <1>1, EndKeeps DEF AdoptOperation, Reads, Others, disk, store
<1>2. ASSUME UNCHANGED locks, NEW pc, NEW id,
             \/ proc' = [proc EXCEPT ![p].pc = pc, ![p].id = id]
             \/ proc' = [proc EXCEPT ![p].pc = pc],
             \/ /\ pc = "chain" /\ id = Row(p).id
                /\ HasOperation(Row(p)) /\ Row(p).request = Request(p)
                /\ proc' = [proc EXCEPT ![p].pc = pc, ![p].id = id]
             \/ pc \in {"stamp", "claim"}
      PROVE  RInv'
  <2>1. /\ ProcFrame(p) /\ LockFrame(p)
        /\ proc'[p].pc = pc /\ proc'[p].request = Request(p)
        /\ pc = "chain" => proc'[p].id = id
    BY <1>2 DEF RInv, Shape, ProcFrame, LockFrame, ProcFields, Request
  <2>2. UNCHANGED rows
    BY DEF AdoptOperation, Reads, store
  <2>3. Fits(p)'
    BY <1>2, <2>1, <2>2
       DEF RInv, Fits, RequestFits, HoldsLock, RowFits, Held, Engaged, Request, Kind, Carrier,
           Row, AdoptOperation, Reads, disk, At, Creations
  <2> QED
    BY <2>1, <2>2, <2>3, SameRows, SameDisk, Keeps DEF AdoptOperation, Reads, Others, disk
<1> QED
  BY <1>1, <1>2 DEF AdoptOperation

\* An empty claim file names nobody, so it says nothing false.
LEMMA CreateClaimKeeps ==
  ASSUME RInv, NEW p \in Procs, CreateClaim(p) PROVE RInv'
<1>1. CASE \E why : End(p, why) /\ UNCHANGED claim
  BY <1>1, EndKeeps DEF CreateClaim, Others, store
<1>2. ASSUME claim = Nothing, claim' = Torn, UNCHANGED locks, NEW n \in Ids,
             proc' = [proc EXCEPT ![p].pc = "write_claim", ![p].id = n]
      PROVE  RInv'
  <2>1. /\ ProcFrame(p) /\ LockFrame(p)
        /\ proc'[p].pc = "write_claim" /\ proc'[p].request = Request(p) /\ proc'[p].id = n
    BY <1>2 DEF RInv, Shape, ProcFrame, LockFrame, ProcFields, Request
  <2>2. Fits(p)'
    BY <1>2, <2>1
       DEF RInv, Fits, RequestFits, HoldsLock, RowFits, Held, Engaged, Request, Kind, Carrier,
           CreateClaim, At
  <2>3. DiskFrame
    BY <1>2, ClaimValues
       DEF RInv, Shape, DiskFrame, ClaimSound, Claimed, RequestFits, CreateClaim, At, Others
  <2> QED
    BY <2>1, <2>2, <2>3, SameRows, Keeps DEF CreateClaim, store
<1> QED
  BY <1>1, <1>2 DEF CreateClaim

\* The claim is written from the row of the command that holds the lock.
LEMMA WriteClaimKeeps ==
  ASSUME RInv, NEW p \in Procs, WriteClaim(p) PROVE RInv'
<1>1. Request(p) \in Asked /\ Kind(p) = "register" /\ exists /\ proc[p].id \in Ids
  BY RequestKnown DEF RInv, RequestFits, WriteClaim, At
<1>2. /\ ProcFrame(p) /\ LockFrame(p) /\ locks' = locks
      /\ proc'[p].pc = "stamp" /\ proc'[p].request = Request(p)
  BY GoFrame DEF WriteClaim
<1>3. Fits(p)'
  BY <1>1, <1>2
     DEF RInv, Fits, RequestFits, HoldsLock, RowFits, Held, Engaged, Request, Kind, Carrier,
         WriteClaim, At, Creations
<1>4. DiskFrame
  BY <1>1 DEF RInv, Shape, DiskFrame, ClaimSound, Claimed, WriteClaim, OwnClaim, Others
<1> QED
  BY <1>2, <1>3, <1>4, SameRows, Keeps DEF WriteClaim, store

\* A new row replaces one, under the lock.
LEMMA OneRow ==
  ASSUME RInv, NEW c \in Carriers, NEW p \in Procs, NEW row,
         rows' = [rows EXCEPT ![c] = row], locks[c] \in {p, Nobody},
         DOMAIN row = Columns, RowSound(c)',
         HasOperation(rows[c]) => HasOperation(row)
  PROVE  RowFrame(p)
BY DEF RInv, Shape, RowFrame

(* A stamp changes the phase of a fork or copy row and keeps it well       *)
(* formed.                                                                 *)
LEMMA StampedRow ==
  ASSUME NEW kind \in Creations, NEW id, NEW r
  PROVE  LET row == Stamped(kind, id, r) IN
         /\ DOMAIN row = Columns /\ row.kind = kind /\ row.phase = "recorded"
         /\ row.id = id /\ row.request = r /\ row.source = NoSnapshot
         /\ row.lifecycle = "read-only-unserviceable" /\ HasOperation(row)
         /\ WellFormedRow(row)
<1> DEFINE row == Stamped(kind, id, r)
<1>1. /\ DOMAIN row = Columns /\ row.kind = kind /\ row.phase = "recorded"
      /\ row.id = id /\ row.request = r /\ row.source = NoSnapshot
      /\ row.lifecycle = "read-only-unserviceable" /\ row.proof = NoSnapshot
      /\ row.origin = kind
  BY DEF Stamped, NoRow, Columns
<1> HIDE DEF row
<1>2. HasOperation(row)
  BY <1>1 DEF HasOperation, Creations, Null
<1>3. WellFormedRow(row)
  BY <1>1, <1>2 DEF WellFormedRow, Paired, OriginAdmits, ProofsMatchPhase, Creations, Null
<1> QED
  BY <1>1, <1>2, <1>3 DEF row

\* Stamping a row happens under the lock of its carrier.
LEMMA StampKeeps ==
  ASSUME RInv, NEW p \in Procs, Stamp(p) PROVE RInv'
<1>0. PICK c \in Carriers : c = Carrier(p)
  BY RequestKnown DEF Stamp, At
<1>1. /\ Kind(p) \in Creations /\ Request(p) \in Asked
      /\ locks[c] = p
  BY <1>0, RequestKnown DEF RInv, RequestFits, HoldsLock, Stamp, At, Held
<1>2. CASE End(p, "store") /\ UNCHANGED rows
  BY <1>2, EndKeeps DEF Stamp, Others, disk
<1>3. CASE /\ StampAllowed(Row(p))
           /\ rows' = [rows EXCEPT ![Carrier(p)] = Stamped(Kind(p), proc[p].id, Request(p))]
           /\ Go(p, IF Kind(p) = "register" THEN "chain" ELSE "snapshot")
  <2> DEFINE row == Stamped(Kind(p), proc[p].id, Request(p))
  <2>1. /\ DOMAIN row = Columns /\ row.kind = Kind(p) /\ row.phase = "recorded"
        /\ row.id = proc[p].id /\ row.request = Request(p)
        /\ HasOperation(row) /\ WellFormedRow(row)
    BY <1>1, StampedRow
  <2> HIDE DEF row
  <2>2. rows' = [rows EXCEPT ![c] = row] /\ rows'[c] = row
    BY <1>0, <1>3 DEF row, RInv, Shape
  <2>3. RowSound(c)'
    BY <1>0, <1>1, <2>1, <2>2 DEF RowSound, Kind, Carrier
  <2>4. RowFrame(p)
    BY <1>1, <2>1, <2>2, <2>3, OneRow
  <2>5. /\ ProcFrame(p) /\ LockFrame(p) /\ locks' = locks
        /\ proc'[p].pc = (IF Kind(p) = "register" THEN "chain" ELSE "snapshot")
        /\ proc'[p].request = Request(p) /\ proc'[p].id = proc[p].id
    BY <1>3, GoFrame
  <2>6. Fits(p)'
    BY <1>0, <1>1, <2>1, <2>2, <2>5
       DEF Fits, RequestFits, HoldsLock, RowFits, Held, Engaged, Request, Kind, Carrier, Row,
           Creations
  <2> QED
    BY <2>4, <2>5, <2>6, SameDisk, Keeps DEF Stamp, Others, disk
<1> QED
  BY <1>2, <1>3 DEF Stamp

\* Reading the chain changes only where the command goes next.
LEMMA ReadChainKeeps ==
  ASSUME RInv, NEW p \in Procs, ReadChain(p) PROVE RInv'
<1>1. CASE \E why : End(p, why)
  BY <1>1, EndKeeps DEF ReadChain, Reads, Others, disk, store
<1>2. Request(p) \in Asked /\ Kind(p) \in {"register", "fork"}
  BY RequestKnown DEF RInv, RequestFits, ReadChain, At
<1>3. ASSUME NEW pc \in {"prove", "stage"}, Go(p, pc) PROVE RInv'
  <2>1. UNCHANGED rows
    BY DEF ReadChain, Reads, store
  <2>2. Fits(p)'
    BY <1>2, <1>3, <2>1, GoFrame
       DEF RInv, Fits, RequestFits, HoldsLock, RowFits, Held, Engaged, Request, Kind, Carrier,
           Row, ReadChain, At, Creations
  <2> QED
    BY <1>3, <2>2, GoKeeps DEF ReadChain, Reads, Others, disk, store
<1>4. ASSUME Kind(p) = "fork", UNCHANGED locks,
             proc' = [proc EXCEPT ![p].pc = "override", ![p].todo = Overridden]
      PROVE  RInv'
  <2>1. /\ ProcFrame(p) /\ LockFrame(p)
        /\ proc'[p].pc = "override" /\ proc'[p].request = Request(p)
        /\ proc'[p].id = proc[p].id /\ proc'[p].todo = Overridden
    BY <1>4 DEF RInv, Shape, ProcFrame, LockFrame, ProcFields, Request
  <2>2. UNCHANGED rows
    BY DEF ReadChain, Reads, store
  <2>3. Fits(p)'
    BY <1>2, <1>4, <2>1, <2>2
       DEF RInv, Fits, RequestFits, HoldsLock, RowFits, Held, Engaged, Request, Kind, Carrier,
           Row, ReadChain, At
  <2> QED
    BY <2>1, <2>2, <2>3, SameRows, SameDisk, Keeps DEF ReadChain, Reads, Others, disk
<1> QED
  BY <1>1, <1>2, <1>3, <1>4 DEF ReadChain

\* Staging a genesis record leaves rows and claim alone.
LEMMA StageGenesisKeeps ==
  ASSUME RInv, NEW p \in Procs, StageGenesis(p) PROVE RInv'
<1>1. CASE End(p, "refused") /\ UNCHANGED tree
  BY <1>1, EndKeeps DEF StageGenesis, Others, store
<1>2. CASE tree' = [tree EXCEPT ![Staging] = Request(p).payload] /\ Go(p, "publish")
  <2>1. Fits(p)'
    BY <1>2, GoFrame
       DEF RInv, Fits, RequestFits, HoldsLock, RowFits, Held, Engaged, Request, Kind, Carrier,
           Row, StageGenesis, At, store
  <2> QED
    BY <1>2, <2>1, GoKeeps DEF StageGenesis, Others, store
<1> QED
  BY <1>1, <1>2 DEF StageGenesis

\* Publishing the genesis record leaves rows and claim alone.
LEMMA PublishGenesisKeeps ==
  ASSUME RInv, NEW p \in Procs, PublishGenesis(p) PROVE RInv'
<1>1. CASE End(p, "refused") /\ UNCHANGED tree
  BY <1>1, EndKeeps DEF PublishGenesis, Others, store
<1>2. CASE Go(p, "prove") /\ DOMAIN tree' = DOMAIN tree
  <2>1. Fits(p)'
    BY <1>2, GoFrame
       DEF RInv, Fits, RequestFits, HoldsLock, RowFits, Held, Engaged, Request, Kind, Carrier,
           Row, PublishGenesis, At, store, Creations
  <2> QED
    BY <1>2, <2>1, GoKeeps DEF PublishGenesis, Others, store
<1> QED
  BY <1>1, <1>2 DEF PublishGenesis

\* The absent snapshot lists no leaf.
LEMMA NoSnapshotLeaves == DOMAIN NoSnapshot = {}
BY DEF NoSnapshot

\* The proof is stored: the second phase of a register, the third of a copy.
LEMMA ProvedRow ==
  ASSUME RInv, NEW c \in Carriers, HasOperation(rows[c]),
         \/ rows[c].phase = "recorded" /\ rows[c].kind = "register"
         \/ rows[c].phase = "source-snapshot-durable",
         rows' = [rows EXCEPT ![c].phase = "tree-durable", ![c].proof = tree]
  PROVE  /\ RowSound(c)' /\ HasOperation(rows'[c]) /\ DOMAIN rows'[c] = Columns
         /\ rows'[c].phase = "tree-durable" /\ rows'[c].proof = tree
         /\ rows'[c].request = rows[c].request /\ rows'[c].id = rows[c].id
         /\ rows'[c].kind = rows[c].kind /\ rows'[c].source = rows[c].source
<1>1. /\ DOMAIN rows'[c] = Columns
      /\ rows'[c].phase = "tree-durable" /\ rows'[c].proof = tree
      /\ rows'[c].request = rows[c].request /\ rows'[c].id = rows[c].id
      /\ rows'[c].kind = rows[c].kind /\ rows'[c].source = rows[c].source
      /\ rows'[c].lifecycle = rows[c].lifecycle /\ rows'[c].origin = rows[c].origin
  BY DEF RInv, Shape, Columns
<1>2. tree # NoSnapshot
  BY NoSnapshotLeaves DEF RInv, Shape, Leaves, ChainLeaves
<1>3. HasOperation(rows'[c])
  BY <1>1 DEF HasOperation
<1>4. Paired(rows[c]) /\ OriginAdmits(rows[c]) /\ ProofsMatchPhase(rows[c])
  BY DEF RInv, RowSound, WellFormedRow
<1>5. Paired(rows'[c]) /\ OriginAdmits(rows'[c]) /\ ProofsMatchPhase(rows'[c])
  <2>1. Paired(rows'[c])
    BY <1>1, <1>3, <1>4, HasOperation(rows[c]) DEF Paired
  <2>2. OriginAdmits(rows'[c])
    BY <1>1, <1>4 DEF OriginAdmits
  <2>3. ProofsMatchPhase(rows'[c])
    BY <1>1, <1>2, <1>4 DEF ProofsMatchPhase
  <2> QED
    BY <2>1, <2>2, <2>3
<1>6. WellFormedRow(rows'[c])
  BY <1>5 DEF WellFormedRow
<1> QED
  BY <1>1, <1>3, <1>6 DEF RInv, RowSound, Entries

\* A proof recorded in a row keeps it well formed.
LEMMA ProveKeeps ==
  ASSUME RInv, NEW p \in Procs, At(p, "prove"), NEW pc, Go(p, pc),
         UNCHANGED <<exists, claim, tree, past>>,
         rows' = [rows EXCEPT ![Carrier(p)].phase = "tree-durable", ![Carrier(p)].proof = tree],
         pc = IF Kind(p) = "register" THEN "unclaim" ELSE "reprove",
         Kind(p) = "register" => Row(p).phase = "recorded"
  PROVE  RInv'
<1>0. PICK c \in Carriers : c = Carrier(p)
  BY RequestKnown DEF At
<1>1. /\ Kind(p) \in Creations /\ locks[c] = p /\ HasOperation(rows[c])
      /\ rows[c].request = Request(p) /\ rows[c].id = proc[p].id
      /\ Kind(p) # "register" => rows[c].phase = "source-snapshot-durable"
      /\ rows[c].kind = Kind(p) /\ Request(p) \in Asked
  BY <1>0, RequestKnown
     DEF RInv, RequestFits, HoldsLock, RowFits, RowSound, At, Held, Engaged, Row, Kind
<1>2. /\ RowSound(c)' /\ HasOperation(rows'[c]) /\ DOMAIN rows'[c] = Columns
      /\ rows'[c].phase = "tree-durable" /\ rows'[c].request = Request(p)
      /\ rows'[c].id = proc[p].id
  BY <1>0, <1>1, ProvedRow DEF Row
<1>3. RowFrame(p)
  BY <1>0, <1>1, <1>2 DEF RInv, Shape, RowFrame
<1>4. /\ proc'[p].pc \in {"unclaim", "reprove"} /\ locks' = locks
      /\ Kind(p) = "register" => proc'[p].pc = "unclaim"
      /\ proc'[p].id = proc[p].id /\ Request(p)' = Request(p)
  BY GoFrame DEF Request
<1>5. Carrier(p)' = c /\ Kind(p)' = Kind(p) /\ Row(p)' = rows'[c]
  BY <1>0, <1>4 DEF Carrier, Kind, Row
<1>6. Fits(p)'
  BY <1>1, <1>2, <1>4, <1>5
     DEF Fits, RequestFits, HoldsLock, RowFits, Held, Engaged, Creations
<1> QED
  BY <1>3, <1>6, GoFrame, SameDisk, Keeps

\* A register is proved without a snapshot of the destination.
LEMMA ProveRegisterKeeps ==
  ASSUME RInv, NEW p \in Procs, ProveRegister(p) PROVE RInv'
<1>1. CASE Row(p).phase = "recorded"
  BY <1>1, ProveKeeps DEF ProveRegister, Others, disk
<1>2. CASE \E why : End(p, why) /\ UNCHANGED rows
  BY <1>2, EndKeeps DEF ProveRegister, Others, disk
<1>3. CASE Row(p).phase # "recorded" /\ UNCHANGED rows /\ Go(p, "unclaim")
  <2>1. Row(p).phase \in {"tree-durable", "complete"}
    BY <1>3, RequestKnown
       DEF RInv, RowSound, RowFits, Engaged, ProveRegister, At, Row, Kind
  <2>2. Fits(p)'
    BY <1>3, <2>1, GoFrame
       DEF RInv, Fits, RequestFits, HoldsLock, RowFits, Held, Engaged, Request, Kind, Carrier,
           Row, ProveRegister, At, Creations
  <2> QED
    BY <1>3, <2>2, GoKeeps DEF ProveRegister, Others, disk
<1> QED
  BY <1>1, <1>2, <1>3 DEF ProveRegister

\* A copy is proved by the snapshot of the destination it made.
LEMMA ProveCopyKeeps ==
  ASSUME RInv, NEW p \in Procs, ProveCopy(p) PROVE RInv'
<1>1. CASE End(p, "invalid") /\ UNCHANGED rows
  BY <1>1, EndKeeps DEF ProveCopy, Others, disk
<1>2. CASE Present = Expected(p)
  BY <1>2, ProveKeeps DEF ProveCopy, Others, disk
<1> QED
  BY <1>1, <1>2 DEF ProveCopy

\* The source snapshot of a copy is taken under the lock of its carrier.
LEMMA TakeSourceKeeps ==
  ASSUME RInv, NEW p \in Procs, TakeSource(p) PROVE RInv'
<1>1. CASE End(p, "refused")
  BY <1>1, EndKeeps DEF TakeSource, Reads, Others, disk, store
<1>2. ASSUME NEW pc \in {"claim_root", "destination"}, Lock(p, Source),
             proc' = [proc EXCEPT ![p].pc = pc, ![p].request = [@ EXCEPT !.head = Tip]]
      PROVE  RInv'
  <2>1. ProcFrame(p) /\ proc'[p].pc = pc /\ proc'[p].request = [Request(p) EXCEPT !.head = Tip]
    BY <1>2 DEF RInv, Shape, ProcFrame, ProcFields, Request
  <2>2. LockFrame(p)
    BY <1>2, CreationValues DEF RInv, Shape, LockFrame, Lock, TakeSource, Free
  <2>3. Request(p) \in Asked /\ Tip \in 0..MaxHead /\ Kind(p) \in {"replicate", "fork"}
    BY RequestKnown, CreationBounds DEF RInv, Shape, RequestFits, TakeSource, At
  <2>4. /\ [Request(p) EXCEPT !.head = Tip] \in Asked
        /\ [Request(p) EXCEPT !.head = Tip].kind = Kind(p)
    BY <2>3 DEF Asked, Kind
  <2>5. Fits(p)'
    BY <2>1, <2>3, <2>4
       DEF Fits, RequestFits, HoldsLock, RowFits, Held, Engaged, Request, Kind
  <2> QED
    BY <2>1, <2>2, <2>5, SameRows, SameDisk, Keeps DEF TakeSource, Reads, Others, disk, store
<1> QED
  BY <1>1, <1>2 DEF TakeSource

\* Publishing a claim of a whole root preserves the invariant.
LEMMA ClaimRootKeeps ==
  ASSUME RInv, NEW p \in Procs, ClaimRoot(p) PROVE RInv'
<1>1. CASE \E why : End(p, why) /\ UNCHANGED <<exists, claim>>
  BY <1>1, EndKeeps DEF ClaimRoot, Others, store
<1>2. ASSUME NEW id, proc' = [proc EXCEPT ![p].pc = "destination", ![p].id = id],
             UNCHANGED locks, DiskFrame
      PROVE  RInv'
  <2>1. /\ ProcFrame(p) /\ LockFrame(p)
        /\ proc'[p].pc = "destination" /\ proc'[p].request = Request(p)
    BY <1>2 DEF RInv, Shape, ProcFrame, LockFrame, ProcFields, Request
  <2>2. Fits(p)'
    BY <2>1 DEF RInv, Fits, RequestFits, HoldsLock, RowFits, Held, Engaged, Request, Kind,
                ClaimRoot, At
  <2> QED
    BY <1>2, <2>1, <2>2, SameRows, Keeps DEF ClaimRoot, store
<1>3. Request(p) \in Asked
  BY RequestKnown DEF ClaimRoot, At
<1>4. ASSUME NEW n \in Ids, claim' = [id |-> n, request |-> Request(p)], exists' = TRUE
      PROVE  DiskFrame
  BY <1>3, <1>4 DEF RInv, Shape, DiskFrame, ClaimSound, Claimed, ClaimRoot, Others
<1>5. CASE UNCHANGED <<exists, claim>>
  BY <1>1, <1>2, <1>5, SameDisk DEF ClaimRoot, Others
<1> QED
  BY <1>1, <1>2, <1>4, <1>5 DEF ClaimRoot

\* A copy that goes back for its source.
LEMMA NeedSourceKeeps ==
  ASSUME RInv, NEW p \in Procs, proc[p].pc \in {"snapshot", "copy"}, NeedSource(p),
         UNCHANGED <<disk, rows, past>>
  PROVE  RInv'
<1>1. ProcFrame(p) /\ proc'[p].pc = "source" /\ proc'[p].request = Request(p)
  BY DEF RInv, Shape, NeedSource, ProcFrame, ProcFields, Request
<1>2. LockFrame(p)
  BY RequestKnown DEF RInv, Shape, HoldsLock, Held, Engaged, LockFrame, NeedSource, At
<1>3. Fits(p)'
  BY <1>1 DEF RInv, Fits, RequestFits, HoldsLock, RowFits, Held, Engaged, Request, Kind
<1> QED
  BY <1>1, <1>2, <1>3, SameRows, SameDisk, Keeps DEF disk

(* What a fork or copy does on finding its destination preserves the       *)
(* invariant.                                                              *)
LEMMA TakeDestinationKeeps ==
  ASSUME RInv, NEW p \in Procs, TakeDestination(p) PROVE RInv'
<1>0. PICK c \in Carriers : c = Carrier(p)
  BY RequestKnown DEF TakeDestination, At
<1>1. CASE \E why : End(p, why)
  BY <1>1, EndKeeps DEF TakeDestination, Others, disk
<1>2. Request(p) \in Asked /\ Kind(p) \in {"replicate", "fork"}
  BY RequestKnown DEF RInv, RequestFits, TakeDestination, At
<1>3. ASSUME Free(c), Lock(p, c)
      PROVE  LockFrame(p) /\ locks'[c] = p
  BY <1>3, CreationValues DEF RInv, Shape, LockFrame, Lock, Free
<1>4. CASE Free(c) /\ Lock(p, c) /\ proc' = [proc EXCEPT ![p].pc = "stamp"]
  <2>1. ProcFrame(p) /\ proc'[p].pc = "stamp" /\ proc'[p].request = Request(p)
    BY <1>4 DEF RInv, Shape, ProcFrame, ProcFields, Request
  <2>2. Fits(p)'
    BY <1>0, <1>2, <1>3, <1>4, <2>1
       DEF Fits, RequestFits, HoldsLock, RowFits, Held, Engaged, Request, Kind, Carrier,
           Creations
  <2> QED
    BY <1>3, <1>4, <2>1, <2>2, SameRows, SameDisk, Keeps DEF TakeDestination, Others, disk
<1>5. CASE /\ Free(c) /\ HasOperation(rows[c]) /\ VerifyCopyRow(p, rows[c])
           /\ rows[c].phase # "complete" /\ Proceed(p, rows[c])
  <2> DEFINE row == rows[c]
  <2>1. /\ row.request \in Asked /\ row.request.carrier = c
        /\ row.request.kind = Kind(p) /\ row.kind = Kind(p)
        /\ row.phase \in {"recorded", "source-snapshot-durable", "tree-durable"}
    BY <1>2, <1>5, ConcreteAsked DEF VerifyCopyRow, RInv, RowSound, Kind
  <2>2. Lock(p, c)
    BY <1>0, <1>5 DEF Proceed
  <2> DEFINE todo == IF row.source = NoSnapshot THEN {} ELSE Entries(row.source)
             point == CASE row.phase = "recorded" -> "snapshot"
                        [] row.phase = "source-snapshot-durable" -> "copy"
                        [] row.phase = "tree-durable" -> "reprove"
  <2>3. proc' = [proc EXCEPT ![p].request = row.request, ![p].id = row.id,
                             ![p].todo = todo, ![p].pc = point]
    BY <1>5 DEF Proceed
  <2>4. /\ point \in {"snapshot", "copy", "reprove"}
        /\ point = "snapshot" => row.phase = "recorded"
        /\ point = "copy" => row.phase = "source-snapshot-durable"
        /\ point = "reprove" => row.phase = "tree-durable"
    BY <2>1
  <2>5. todo \subseteq Entries(row.source)
    OBVIOUS
  <2> HIDE DEF todo, point
  <2>6. /\ ProcFrame(p) /\ proc'[p].request = row.request /\ proc'[p].id = row.id
        /\ proc'[p].todo = todo /\ proc'[p].pc = point
    BY <2>3 DEF RInv, Shape, ProcFrame, ProcFields
  <2>7. /\ proc'[p].pc \in {"snapshot", "copy", "reprove"}
        /\ proc'[p].pc = "snapshot" => row.phase = "recorded"
        /\ proc'[p].pc = "copy" => row.phase = "source-snapshot-durable"
        /\ proc'[p].pc = "reprove" => row.phase = "tree-durable"
    BY <2>4, <2>6
  <2>8. UNCHANGED rows /\ proc'[p].todo \subseteq Entries(row.source)
    BY <2>5, <2>6 DEF TakeDestination
  <2>9. Request(p)' = row.request /\ Carrier(p)' = c /\ Kind(p)' = Kind(p) /\ Row(p)' = row
    BY <2>1, <2>6, <2>8 DEF Request, Carrier, Kind, Row
  <2> HIDE DEF row
  <2>10. RequestFits(p)'
    BY <1>2, <2>1, <2>7, <2>9 DEF RequestFits
  <2>11. HoldsLock(p)'
    BY <1>3, <1>5, <2>2, <2>9 DEF HoldsLock
  <2>12. RowFits(p)'
    BY <1>5, <2>6, <2>7, <2>8, <2>9 DEF RowFits, Engaged, Entries, row
  <2> QED
    BY <1>3, <1>5, <2>2, <2>6, <2>8, <2>10, <2>11, <2>12, SameRows, SameDisk, Keeps
       DEF TakeDestination, Others, disk, Fits
<1> QED
  BY <1>0, <1>1, <1>4, <1>5 DEF TakeDestination, Proceed, Row

\* The snapshot is in the row; a replica's has the chain in it.
LEMMA SnapshotRow ==
  ASSUME RInv, NEW c \in Carriers, HasOperation(rows[c]), rows[c].phase = "recorded",
         rows[c].kind \in {"replicate", "fork"},
         rows' = [rows EXCEPT ![c].phase = "source-snapshot-durable",
                              ![c].source = SourceSnapshot(rows[c].kind)]
  PROVE  /\ RowSound(c)' /\ HasOperation(rows'[c]) /\ DOMAIN rows'[c] = Columns
         /\ rows'[c].phase = "source-snapshot-durable"
         /\ rows'[c].source = SourceSnapshot(rows[c].kind)
         /\ rows'[c].request = rows[c].request /\ rows'[c].id = rows[c].id
         /\ rows'[c].kind = rows[c].kind
<1> DEFINE source == SourceSnapshot(rows[c].kind)
<1>1. /\ DOMAIN rows'[c] = Columns
      /\ rows'[c].phase = "source-snapshot-durable" /\ rows'[c].source = source
      /\ rows'[c].request = rows[c].request /\ rows'[c].id = rows[c].id
      /\ rows'[c].kind = rows[c].kind /\ rows'[c].proof = rows[c].proof
      /\ rows'[c].lifecycle = rows[c].lifecycle /\ rows'[c].origin = rows[c].origin
  BY DEF RInv, Shape, Columns
<1>2. DOMAIN source = Leaves /\ source # NoSnapshot
  BY NoSnapshotLeaves DEF SourceSnapshot, Leaves, ChainLeaves
<1>3. rows[c].kind = "replicate" => History \in Entries(source)
  <2>1. SUFFICES ASSUME rows[c].kind = "replicate" PROVE History \in Entries(source)
    OBVIOUS
  <2>2. History \in Leaves /\ History \notin Paths
    BY CreationValues DEF Leaves, ChainLeaves
  <2>3. source[History] = Tip
    BY <2>1, <2>2 DEF SourceSnapshot
  <2>4. Tip # Absent
    BY CreationValues DEF RInv, Shape
  <2> QED
    BY <2>2, <2>3, <2>4 DEF Entries
<1> HIDE DEF source
<1>4. HasOperation(rows'[c])
  BY <1>1 DEF HasOperation
<1>5. Paired(rows[c]) /\ OriginAdmits(rows[c])
  BY DEF RInv, RowSound, WellFormedRow
<1>6. Paired(rows'[c])
  BY <1>1, <1>4, <1>5, HasOperation(rows[c]) DEF Paired
<1>7. OriginAdmits(rows'[c])
  BY <1>1, <1>5 DEF OriginAdmits
<1>8. ProofsMatchPhase(rows'[c])
  BY <1>1, <1>2 DEF RInv, RowSound, WellFormedRow, ProofsMatchPhase
<1>9. WellFormedRow(rows'[c])
  BY <1>6, <1>7, <1>8 DEF WellFormedRow
<1> QED
  BY <1>1, <1>3, <1>4, <1>9 DEF RInv, RowSound, Entries, source

(* The snapshot of the source goes into the row with the phase that        *)
(* requires it.                                                            *)
LEMMA SnapshotSourceKeeps ==
  ASSUME RInv, NEW p \in Procs, SnapshotSource(p) PROVE RInv'
<1>0. PICK c \in Carriers : c = Carrier(p)
  BY RequestKnown DEF SnapshotSource, At
<1>1. CASE NeedSource(p) /\ UNCHANGED rows
  BY <1>1, NeedSourceKeeps DEF SnapshotSource, Others, disk, At
<1>2. CASE Fed(p)
  <2>1. /\ Kind(p) \in {"replicate", "fork"} /\ locks[c] = p /\ HasOperation(rows[c])
        /\ rows[c].request = Request(p) /\ rows[c].id = proc[p].id
        /\ rows[c].phase = "recorded" /\ rows[c].kind = Kind(p) /\ Request(p) \in Asked
    BY <1>0, RequestKnown
       DEF RInv, RequestFits, HoldsLock, RowFits, RowSound, At, Held, Engaged, Row, Kind,
           SnapshotSource
  <2>2. rows' = [rows EXCEPT ![c].phase = "source-snapshot-durable",
                             ![c].source = SourceSnapshot(rows[c].kind)]
    BY <1>0, <1>2, <2>1 DEF SnapshotSource
  <2>3. /\ RowSound(c)' /\ HasOperation(rows'[c]) /\ DOMAIN rows'[c] = Columns
        /\ rows'[c].phase = "source-snapshot-durable"
        /\ rows'[c].source = SourceSnapshot(Kind(p))
        /\ rows'[c].request = Request(p) /\ rows'[c].id = proc[p].id
    BY <2>1, <2>2, SnapshotRow
  <2>4. RowFrame(p)
    BY <2>1, <2>2, <2>3 DEF RInv, Shape, RowFrame
  <2>5. /\ ProcFrame(p) /\ LockFrame(p) /\ locks' = locks
        /\ proc'[p].pc = "copy" /\ proc'[p].id = proc[p].id /\ Request(p)' = Request(p)
        /\ proc'[p].todo = Entries(SourceSnapshot(Kind(p)))
    BY <1>2 DEF RInv, Shape, SnapshotSource, ProcFrame, LockFrame, ProcFields, Request
  <2>6. Carrier(p)' = c /\ Kind(p)' = Kind(p) /\ Row(p)' = rows'[c]
    BY <1>0, <2>5 DEF Carrier, Kind, Row
  <2>7. Fits(p)'
    BY <2>1, <2>3, <2>5, <2>6
       DEF Fits, RequestFits, HoldsLock, RowFits, Held, Engaged, Entries
  <2> QED
    BY <2>4, <2>5, <2>7, SameDisk, Keeps DEF SnapshotSource, Others, disk
<1> QED
  BY <1>1, <1>2 DEF SnapshotSource

\* A step that only moves on under the lock, in the same phase of the row.
LEMMA MoveKeeps ==
  ASSUME RInv, NEW p \in Procs, NEW pc, ProcFrame(p), UNCHANGED <<locks, rows>>,
         DiskFrame, proc[p].pc \in Engaged, proc'[p].pc = pc,
         proc'[p].request = Request(p), proc'[p].id = proc[p].id,
         RequestFits(p)',
         pc \in Engaged \ {"snapshot", "reprove", "unclaim", "complete"},
         Kind(p) # "register" => Row(p).phase = "source-snapshot-durable",
         pc \in {"copy", "write"} =>
           /\ Kind(p) # "register" /\ proc'[p].todo \subseteq Entries(Row(p).source)
           /\ pc = "write" => proc'[p].leaf \in Entries(Row(p).source)
  PROVE  RInv'
<1>1. LockFrame(p) /\ RowFrame(p)
  BY SameRows DEF LockFrame
<1>2. Request(p)' = Request(p) /\ Kind(p)' = Kind(p) /\ Carrier(p)' = Carrier(p) /\ Row(p)' = Row(p)
  BY DEF Request, Kind, Carrier, Row
<1>3. HoldsLock(p)'
  BY <1>2 DEF RInv, HoldsLock, Held
<1>4. RowFits(p)'
  BY <1>2 DEF RInv, RowFits, Engaged, HasOperation, Entries
<1> QED
  BY <1>1, <1>3, <1>4, Keeps DEF Fits

\* What is known of a copy at "copy" and at "write", and of a fork later.
LEMMA CopyKnown ==
  ASSUME RInv, NEW p \in Procs
  PROVE  /\ proc[p].pc \in {"copy", "write"} =>
              /\ Request(p) \in Asked /\ Kind(p) \in {"replicate", "fork"}
              /\ Row(p).phase = "source-snapshot-durable"
              /\ proc[p].todo \subseteq Entries(Row(p).source)
         /\ At(p, "write") => proc[p].leaf \in Entries(Row(p).source)
         /\ proc[p].pc \in {"override", "create", "overwrite"} =>
              /\ Request(p) \in Asked /\ Kind(p) = "fork"
              /\ Row(p).phase = "source-snapshot-durable"
              /\ proc[p].todo \subseteq Overridden
         /\ proc[p].pc \in {"create", "overwrite"} => proc[p].leaf \in Overridden
BY RequestKnown DEF RInv, RequestFits, RowFits, At

(* The transition after the last leaf depends only on the phase of the     *)
(* row.                                                                    *)
LEMMA AfterCopyKeeps ==
  ASSUME RInv, NEW p \in Procs, At(p, "copy"), Go(p, AfterCopy(p)),
         UNCHANGED <<exists, claim, rows, past>>, DOMAIN tree' = DOMAIN tree
  PROVE  RInv'
<1>1. /\ ProcFrame(p) /\ UNCHANGED locks /\ proc'[p].pc = AfterCopy(p)
      /\ proc'[p].request = Request(p) /\ proc'[p].id = proc[p].id
  BY GoFrame
<1>2. RequestFits(p)'
  BY <1>1, CopyKnown DEF At, AfterCopy, RequestFits, Request, Kind, Creations
<1> QED
  BY <1>1, <1>2, MoveKeeps, CopyKnown, SameDisk DEF At, AfterCopy, Engaged

\* Comparing the destination with the row only moves the command on.
LEMMA VerifyDestinationKeeps ==
  ASSUME RInv, NEW p \in Procs, VerifyDestination(p) PROVE RInv'
<1>1. CASE \E why : End(p, why)
  BY <1>1, EndKeeps DEF VerifyDestination, Reads, Others, disk, store
<1>2. CASE NeedSource(p)
  BY <1>2, NeedSourceKeeps DEF VerifyDestination, Reads, Others, store, At
<1>3. CASE Go(p, AfterCopy(p))
  BY <1>3, AfterCopyKeeps DEF VerifyDestination, Reads, Others, disk, store
<1> QED
  BY <1>1, <1>2, <1>3 DEF VerifyDestination

\* Ending the copy loop only moves the command on.
LEMMA CopyDoneKeeps ==
  ASSUME RInv, NEW p \in Procs, CopyDone(p) PROVE RInv'
BY AfterCopyKeeps DEF CopyDone, Reads, Others, disk, store

(* Creating a leaf of the destination touches the tree and nothing the     *)
(* invariant says of rows.                                                 *)
LEMMA CopyEntryKeeps ==
  ASSUME RInv, NEW p \in Procs, CopyEntry(p) PROVE RInv'
<1>1. CASE \E why : End(p, why) /\ UNCHANGED tree
  BY <1>1, EndKeeps DEF CopyEntry, Others, store
<1>2. /\ Request(p) \in Asked /\ Kind(p) \in {"replicate", "fork"}
      /\ Row(p).phase = "source-snapshot-durable"
      /\ proc[p].todo \subseteq Entries(Row(p).source)
  BY CopyKnown DEF CopyEntry, At
<1>3. ASSUME NEW l \in proc[p].todo, UNCHANGED locks, DOMAIN tree' = DOMAIN tree,
             \/ proc' = [proc EXCEPT ![p].todo = @ \ {l}]
             \/ proc' = [proc EXCEPT ![p].pc = "write", ![p].leaf = l, ![p].todo = @ \ {l}]
      PROVE  RInv'
  <2>1. /\ ProcFrame(p) /\ proc'[p].pc \in {"copy", "write"}
        /\ proc'[p].request = Request(p) /\ proc'[p].id = proc[p].id
        /\ proc'[p].todo = proc[p].todo \ {l}
        /\ proc'[p].pc = "write" => proc'[p].leaf = l
    BY <1>3 DEF RInv, Shape, ProcFrame, ProcFields, Request, CopyEntry, At
  <2>2. RequestFits(p)'
    BY <1>2, <2>1 DEF RequestFits, Request, Kind
  <2> QED
    BY <1>2, <1>3, <2>1, <2>2, MoveKeeps, SameDisk DEF CopyEntry, Others, store, At, Engaged
<1> QED
  BY <1>1, <1>3 DEF CopyEntry

\* Filling a leaf touches the tree and nothing the invariant says of rows.
LEMMA WriteEntryKeeps ==
  ASSUME RInv, NEW p \in Procs, WriteEntry(p) PROVE RInv'
<1> DEFINE pc == IF At(p, "write") THEN "copy" ELSE "override"
<1>1. /\ ProcFrame(p) /\ UNCHANGED locks /\ proc'[p].pc = pc
      /\ proc'[p].request = Request(p) /\ proc'[p].id = proc[p].id
      /\ proc'[p].todo = proc[p].todo
  BY GoFrame DEF WriteEntry
<1>2. RequestFits(p)'
  BY <1>1, CopyKnown DEF At, WriteEntry, RequestFits, Request, Kind
<1>3. DiskFrame
  BY SameDisk DEF WriteEntry, Others
<1> QED
  BY <1>1, <1>2, <1>3, MoveKeeps, CopyKnown DEF At, WriteEntry, Engaged, store

\* Removing an overridden leaf touches the tree alone.
LEMMA ApplyOverrideKeeps ==
  ASSUME RInv, NEW p \in Procs, ApplyOverride(p) PROVE RInv'
<1>1. PICK l \in proc[p].todo :
        proc' = [proc EXCEPT ![p].todo = @ \ {l}, ![p].leaf = l,
                 ![p].pc = IF tree[l] = Override THEN "override" ELSE "create"]
  BY DEF ApplyOverride
<1> DEFINE pc == IF tree[l] = Override THEN "override" ELSE "create"
<1>2. /\ ProcFrame(p) /\ proc'[p].pc = pc
      /\ proc'[p].request = Request(p) /\ proc'[p].id = proc[p].id
      /\ proc'[p].todo = proc[p].todo \ {l} /\ proc'[p].leaf = l
  <2> HIDE DEF pc
  <2>1. proc' = [proc EXCEPT ![p].todo = @ \ {l}, ![p].leaf = l, ![p].pc = pc]
    BY <1>1 DEF pc
  <2> QED
    BY <2>1 DEF RInv, Shape, ProcFrame, ProcFields, Request
<1>3. RequestFits(p)'
  BY <1>2, CopyKnown DEF ApplyOverride, At, RequestFits, Request, Kind
<1>4. DiskFrame
  BY SameDisk DEF ApplyOverride, Others
<1> QED
  BY <1>2, <1>3, <1>4, MoveKeeps, CopyKnown DEF ApplyOverride, At, Engaged, store

\* Writing an override touches the tree alone.
LEMMA CreateOverrideKeeps ==
  ASSUME RInv, NEW p \in Procs, CreateOverride(p) PROVE RInv'
<1>1. CASE \E why : End(p, why) /\ UNCHANGED tree
  BY <1>1, EndKeeps DEF CreateOverride, Others, store
<1>2. CASE Go(p, "overwrite") /\ DOMAIN tree' = DOMAIN tree
  <2>1. /\ ProcFrame(p) /\ UNCHANGED locks /\ proc'[p].pc = "overwrite"
        /\ proc'[p].request = Request(p) /\ proc'[p].id = proc[p].id
        /\ proc'[p].todo = proc[p].todo /\ proc'[p].leaf = proc[p].leaf
    BY <1>2, GoFrame
  <2>2. RequestFits(p)'
    BY <2>1, CopyKnown DEF CreateOverride, At, RequestFits, Request, Kind
  <2> QED
    BY <1>2, <2>1, <2>2, MoveKeeps, CopyKnown, SameDisk
       DEF CreateOverride, At, Engaged, store, Others
<1> QED
  BY <1>1, <1>2 DEF CreateOverride

\* Ending the overrides only moves the command on.
LEMMA OverridesDoneKeeps ==
  ASSUME RInv, NEW p \in Procs, OverridesDone(p) PROVE RInv'
<1>1. /\ ProcFrame(p) /\ UNCHANGED locks /\ proc'[p].pc = "stage"
      /\ proc'[p].request = Request(p) /\ proc'[p].id = proc[p].id
  BY GoFrame DEF OverridesDone
<1>2. RequestFits(p)'
  BY <1>1, CopyKnown DEF OverridesDone, At, RequestFits, Request, Kind
<1> QED
  BY <1>1, <1>2, MoveKeeps, CopyKnown, SameDisk
     DEF OverridesDone, Reads, At, Engaged, disk, store, Others

\* Proving the destination again compares it with the proof in the row.
LEMMA ReproveCopyKeeps ==
  ASSUME RInv, NEW p \in Procs, ReproveCopy(p) PROVE RInv'
<1>1. CASE End(p, "invalid")
  BY <1>1, EndKeeps DEF ReproveCopy, Reads, Others, disk, store
<1>2. CASE Go(p, "unclaim")
  <2>1. Fits(p)'
    BY <1>2, GoFrame, RequestKnown
       DEF RInv, Fits, RequestFits, HoldsLock, RowFits, Held, Engaged, Request, Kind, Carrier,
           Row, ReproveCopy, Reads, store, At, Creations
  <2> QED
    BY <1>2, <2>1, GoKeeps DEF ReproveCopy, Reads, Others, disk, store
<1> QED
  BY <1>1, <1>2 DEF ReproveCopy

\* A removed claim names nobody, so it says nothing false.
LEMMA RemoveClaimKeeps ==
  ASSUME RInv, NEW p \in Procs, RemoveClaim(p) PROVE RInv'
<1>1. CASE End(p, "invalid") /\ UNCHANGED claim
  BY <1>1, EndKeeps DEF RemoveClaim, Others, store
<1>2. CASE claim' = Nothing /\ Go(p, "complete")
  <2>1. Fits(p)'
    BY <1>2, GoFrame, RequestKnown
       DEF RInv, Fits, RequestFits, HoldsLock, RowFits, Held, Engaged, Request, Kind, Carrier,
           Row, RemoveClaim, store, At
  <2>2. DiskFrame
    BY <1>2 DEF RInv, Shape, DiskFrame, ClaimSound, Claimed, RemoveClaim, Others
  <2> QED
    BY <1>2, <2>1, <2>2, GoFrame, SameRows, Keeps DEF RemoveClaim, store
<1> QED
  BY <1>1, <1>2 DEF RemoveClaim

\* A command that ends with a new row in place of one nobody else works on.
LEMMA EndRowKeeps ==
  ASSUME RInv, NEW p \in Procs, NEW c \in Carriers, NEW row,
         \E why : End(p, why), UNCHANGED <<exists, claim, tree, past>>,
         rows' = [rows EXCEPT ![c] = row], locks[c] \in {p, Nobody},
         DOMAIN row = Columns, RowSound(c)',
         HasOperation(rows[c]) => HasOperation(row)
  PROVE  RInv'
BY EndFrame, OneRow, SameDisk, Keeps

\* A new row that has no operation.
LEMMA EndBareRowKeeps ==
  ASSUME RInv, NEW p \in Procs, NEW c \in Carriers, NEW row \in {Migrated, Admitted},
         \E why : End(p, why), UNCHANGED <<exists, claim, tree, past>>,
         rows' = [rows EXCEPT ![c] = row], Free(c), rows[c] \in {NoRow, Legacy}
  PROVE  RInv'
<1>1. /\ DOMAIN row = Columns /\ row.kind = Null /\ row.phase = Null /\ WellFormedRow(row)
      /\ ~HasOperation(rows[c])
  BY EmptyRows DEF HasOperation
<1>2. rows'[c] = row
  BY DEF RInv, Shape
<1>3. RowSound(c)'
  BY <1>1, <1>2 DEF RowSound, HasOperation, Null
<1> QED
  BY <1>1, <1>3, EndRowKeeps DEF Free

\* A proved row that becomes complete is well formed.
LEMMA CompletedRow ==
  ASSUME RInv, NEW c \in Carriers, HasOperation(rows[c]), CompletionAllowed(rows[c]),
         rows' = [rows EXCEPT ![c] = Completed(rows[c])]
  PROVE  /\ RowSound(c)' /\ HasOperation(rows'[c]) /\ DOMAIN rows'[c] = Columns
         /\ rows'[c].phase = "complete" /\ rows[c].phase = "tree-durable"
         /\ rows'[c].request = rows[c].request /\ rows'[c].id = rows[c].id
         /\ rows'[c].kind = rows[c].kind
<1> DEFINE row == rows[c]
<1>1. /\ rows'[c] = Completed(row) /\ DOMAIN rows'[c] = Columns
      /\ rows'[c].phase = "complete" /\ rows'[c].proof = row.proof
      /\ rows'[c].request = row.request /\ rows'[c].id = row.id
      /\ rows'[c].kind = row.kind /\ rows'[c].source = row.source
      /\ rows'[c].lifecycle = FinalState(row.kind) /\ rows'[c].origin = row.origin
  BY DEF RInv, Shape, Columns, Completed
<1>2. row.phase = "tree-durable"
  BY DEF CompletionAllowed, PhaseAllowed
<1>3. /\ Paired(row) /\ OriginAdmits(row) /\ ProofsMatchPhase(row)
      /\ row.kind \in Creations /\ row.lifecycle # Null
  BY DEF RInv, RowSound, WellFormedRow, Paired
<1>4. HasOperation(rows'[c])
  BY <1>1 DEF HasOperation
<1>5. FinalState(row.kind) \in {"read-only-unserviceable", "writable"}
      /\ (row.kind = "replicate" => FinalState(row.kind) = "read-only-unserviceable")
  BY DEF FinalState
<1>6. Paired(rows'[c])
  BY <1>1, <1>3, <1>4, <1>5 DEF Paired, Null
<1>7. OriginAdmits(rows'[c])
  BY <1>1, <1>3, <1>5 DEF OriginAdmits, Paired, HasOperation, Creations
<1>8. ProofsMatchPhase(rows'[c])
  BY <1>1, <1>2, <1>3 DEF ProofsMatchPhase
<1>9. WellFormedRow(rows'[c])
  BY <1>6, <1>7, <1>8 DEF WellFormedRow
<1> QED
  BY <1>1, <1>2, <1>4, <1>9 DEF RInv, RowSound, Entries

(* Completing an operation happens under the lock of its carrier, on a     *)
(* proved row.                                                             *)
LEMMA CompleteKeeps ==
  ASSUME RInv, NEW p \in Procs, Complete(p) PROVE RInv'
<1>0. PICK c \in Carriers : c = Carrier(p)
  BY RequestKnown DEF Complete, At
<1>1. CASE End(p, "store") /\ UNCHANGED rows
  BY <1>1, EndKeeps DEF Complete, Others, disk
<1>2. CASE /\ CompletionAllowed(rows[c]) /\ End(p, "done")
           /\ rows' = [rows EXCEPT ![c] = Completed(@)]
  <2>1. locks[c] = p /\ HasOperation(rows[c])
    BY <1>0 DEF RInv, HoldsLock, RowFits, Held, Engaged, Complete, At, Row
  <2>2. rows' = [rows EXCEPT ![c] = Completed(rows[c])]
    BY <1>2 DEF RInv, Shape
  <2>3. rows'[c] = Completed(rows[c])
    BY <2>2 DEF RInv, Shape
  <2>4. RowSound(c)' /\ HasOperation(Completed(rows[c])) /\ DOMAIN Completed(rows[c]) = Columns
    BY <1>2, <2>1, <2>2, <2>3, CompletedRow
  <2> QED
    BY <1>2, <2>1, <2>2, <2>4, EndRowKeeps DEF Complete, Others, disk
<1> QED
  BY <1>0, <1>1, <1>2 DEF Complete, Row

\* Admitting a cold root for reading writes a well-formed row.
LEMMA AdmitKeeps ==
  ASSUME RInv, NEW p \in Procs, Admit(p) PROVE RInv'
<1>0. PICK c \in Carriers : c = Carrier(p)
  BY RequestKnown DEF Admit, At
<1>1. CASE End(p, "store") /\ UNCHANGED rows
  BY <1>1, EndKeeps DEF Admit, Others, disk
<1>2. CASE StampAllowed(rows[c]) /\ rows' = [rows EXCEPT ![c] = Admitted] /\ End(p, "done")
  BY <1>0, <1>2, EndBareRowKeeps DEF Admit, Others, disk, StampAllowed
<1> QED
  BY <1>0, <1>1, <1>2 DEF Admit, Row

\* Migrating a cold root writes a well-formed row.
LEMMA MigrateKeeps ==
  ASSUME RInv, NEW p \in Procs, Migrate(p) PROVE RInv'
<1>0. PICK c \in Carriers : c = Carrier(p)
  BY RequestKnown DEF Migrate, At
<1>1. CASE End(p, "store") /\ UNCHANGED rows
  BY <1>1, EndKeeps DEF Migrate, Others, disk
<1>2. CASE rows[c] = Legacy /\ rows' = [rows EXCEPT ![c] = Migrated] /\ End(p, "done")
  BY <1>0, <1>2, EndBareRowKeeps DEF Migrate, Others, disk
<1> QED
  BY <1>0, <1>1, <1>2 DEF Migrate, Row

\* Granting writability keeps the operation of the row.
LEMMA ServeKeeps ==
  ASSUME RInv, NEW p \in Procs, Serve(p) PROVE RInv'
<1>0. PICK c \in Carriers : c = Carrier(p)
  BY RequestKnown DEF Serve, At
<1>1. CASE End(p, "store") /\ UNCHANGED rows
  BY <1>1, EndKeeps DEF Serve, Others, disk
<1>2. CASE /\ TransitionAllowed(rows[c], "read-only-serviceable") /\ End(p, "done")
           /\ rows' = [rows EXCEPT ![c].lifecycle = "read-only-serviceable"]
  <2> DEFINE row == [rows[c] EXCEPT !.lifecycle = "read-only-serviceable"]
  <2>1. HasOperation(rows[c]) /\ locks[c] = Nobody
    BY <1>0 DEF RInv, RowFits, Serve, At, Row, Free
  <2>2. /\ DOMAIN row = Columns /\ row.lifecycle = "read-only-serviceable"
        /\ row.kind = rows[c].kind /\ row.origin = rows[c].origin /\ row.phase = rows[c].phase
        /\ row.request = rows[c].request /\ row.source = rows[c].source
        /\ row.proof = rows[c].proof
    BY DEF RInv, Shape, Columns
  <2>3. rows' = [rows EXCEPT ![c] = row] /\ rows'[c] = row
    BY <1>2 DEF RInv, Shape
  <2> HIDE DEF row
  <2>4. HasOperation(row)
    BY <2>1, <2>2 DEF HasOperation
  <2>5. /\ Paired(rows[c]) /\ OriginAdmits(rows[c]) /\ ProofsMatchPhase(rows[c])
        /\ rows[c].kind \in Creations /\ rows[c].lifecycle # Null
    BY <2>1 DEF RInv, RowSound, WellFormedRow, Paired
  <2>6. row.origin \in {"replicate"}
    BY <1>2, <2>1, <2>2, <2>5
       DEF TransitionAllowed, OriginAdmits, Paired, Creations, Null
  <2>7. Paired(row) /\ OriginAdmits(row) /\ ProofsMatchPhase(row)
    BY <2>1, <2>2, <2>4, <2>5, <2>6 DEF Paired, OriginAdmits, ProofsMatchPhase, Creations, Null
  <2>8. RowSound(c)'
    BY <2>1, <2>2, <2>3, <2>4, <2>7 DEF RInv, RowSound, WellFormedRow, Entries
  <2> QED
    BY <1>2, <2>1, <2>2, <2>3, <2>4, <2>8, EndRowKeeps DEF Serve, Others, disk
<1> QED
  BY <1>0, <1>1, <1>2 DEF Serve, Row

\* Every step of a command preserves the invariant.
LEMMA StepKeeps ==
  ASSUME RInv, NEW p \in Procs, Step(p) PROVE RInv'
BY RegisterLeasesKeeps, AdoptOperationKeeps, CreateClaimKeeps, WriteClaimKeeps, StampKeeps,
   ReadChainKeeps, StageGenesisKeeps, PublishGenesisKeeps, ProveRegisterKeeps, TakeSourceKeeps,
   ClaimRootKeeps, TakeDestinationKeeps, SnapshotSourceKeeps, VerifyDestinationKeeps,
   CopyEntryKeeps, CopyDoneKeeps, WriteEntryKeeps, ApplyOverrideKeeps, CreateOverrideKeeps,
   OverridesDoneKeeps, ProveCopyKeeps, ReproveCopyKeeps, RemoveClaimKeeps, CompleteKeeps,
   AdmitKeeps, ServeKeeps, MigrateKeeps
   DEF Step

\* Nothing of this reads what the outside writer changes.
LEMMA OutsideKeeps ==
  ASSUME RInv, SourceMoves \/ Outside PROVE RInv'
<1>1. UNCHANGED <<exists, claim, rows, locks, proc>>
  BY DEF SourceMoves, Outside, disk, store
<1>2. DOMAIN tree' = Leaves
  BY DEF RInv, Shape, SourceMoves, Outside, disk
<1>3. /\ past' \in Seq([Paths -> 1..MaxHead \cup {Foreign}]) /\ Len(past') \in 1..MaxHead
  <2> DEFINE F == [Paths -> 1..MaxHead \cup {Foreign}]
  <2>1. past \in Seq(F) /\ Len(past) \in 1..MaxHead /\ past[Len(past)] \in F
    BY CreationBounds DEF RInv, Shape, Tip
  <2>2. CASE SourceMoves
    <3>1. PICK l \in Paths : past' = Append(past, [past[Tip] EXCEPT ![l] = Tip + 1])
      BY <2>2 DEF SourceMoves
    <3>2. Tip + 1 \in 1..MaxHead
      BY <2>1, <2>2, CreationBounds DEF SourceMoves, Tip
    <3>3. [past[Tip] EXCEPT ![l] = Tip + 1] \in F
      BY <2>1, <3>2 DEF Tip
    <3> HIDE DEF F
    <3>4. past' \in Seq(F) /\ Len(past') = Len(past) + 1
      BY <2>1, <3>1, <3>3, AppendProperties
    <3> QED
      BY <3>2, <3>4 DEF F, Tip
  <2>3. CASE Outside
    <3>1. CASE UNCHANGED past
      BY <2>1, <3>1
    <3>2. ASSUME NEW l \in Paths, past' = [past EXCEPT ![Tip][l] = Foreign]
          PROVE  past' \in Seq(F) /\ Len(past') = Len(past)
      <4>1. [past[Tip] EXCEPT ![l] = Foreign] \in F
        BY <2>1 DEF Tip
      <4>2. past' = [past EXCEPT ![Tip] = [past[Tip] EXCEPT ![l] = Foreign]]
        BY <3>2
      <4> HIDE DEF F
      <4> QED
        BY <2>1, <4>1, <4>2, ExceptSeq DEF Tip
    <3> QED
      BY <2>1, <2>3, <3>1, <3>2 DEF Outside
  <2> QED
    BY <2>2, <2>3
<1>4. \A p \in Procs : Fits(p)'
  BY <1>1 DEF RInv, Fits, RequestFits, HoldsLock, RowFits, Request, Kind, Carrier, Row, At, Entries
<1>5. \A c \in Carriers : RowSound(c)'
  BY <1>1 DEF RInv, RowSound, Entries
<1> QED
  BY <1>1, <1>2, <1>3, <1>4, <1>5 DEF RInv, Shape, ClaimSound, Claimed, Fits, Tip

\* So does a step that changes nothing.
LEMMA StutterKeeps == RInv /\ UNCHANGED rvars => RInv'
BY DEF RInv, Shape, ClaimSound, Claimed, RequestFits, HoldsLock, RowFits, RowSound, Request,
       Kind, Carrier, Row, At, Entries, Tip, rvars, disk, store

\* The invariant is inductive.
LEMMA NextKeeps == RInv /\ [RNext]_rvars => RInv'
<1> SUFFICES ASSUME RInv, [RNext]_rvars PROVE RInv'
  OBVIOUS
<1>1. ASSUME NEW p \in Procs, Kill(p) PROVE RInv'
  BY <1>1, EndKeeps DEF Kill, disk, store
<1> QED
  BY <1>1, StepKeeps, LooksKeep, ResumeKeeps, OutsideKeeps, StutterKeeps DEF RNext

(* Every reachable state satisfies RInv: whoever acts on a row holds the   *)
(* lock of its carrier, every row is well formed and fits the program      *)
(* point of its writer, and a claim names only a request somebody made.    *)
THEOREM InvHolds == RSpec => []RInv
<1> QED
  BY InitInv, NextKeeps, PTL DEF RSpec

-----------------------------------------------------------------------------
(* What a step does to a row.                                              *)

RowActions(p) ==
  \/ Stamp(p) \/ ProveRegister(p) \/ SnapshotSource(p) \/ ProveCopy(p) \/ Complete(p)
  \/ Admit(p) \/ Serve(p) \/ Migrate(p)

\* Only these actions write a row.
LEMMA RowsChange ==
  ASSUME [RNext]_rvars
  PROVE  UNCHANGED rows \/ \E p \in Procs : RowActions(p)
<1>1. ASSUME NEW p \in Procs, Step(p) PROVE UNCHANGED rows \/ RowActions(p)
  BY <1>1 DEF Step, RowActions, RegisterLeases, AdoptOperation, CreateClaim, WriteClaim,
     ReadChain, StageGenesis, PublishGenesis, TakeSource, ClaimRoot, TakeDestination,
     VerifyDestination, CopyEntry, CopyDone, WriteEntry, ApplyOverride, CreateOverride,
     OverridesDone, ReproveCopy, RemoveClaim, Reads, store
<1>2. ASSUME NEW p \in Procs, Kill(p) PROVE UNCHANGED rows
  BY <1>2 DEF Kill, store
<1>3. ASSUME NEW p \in Procs, NEW r \in Requests,
             RegisterLooks(p, r) \/ CopyLooks(p, r) \/ GrantLooks(p, r) \/ MigrateLooks(p, r)
      PROVE  UNCHANGED rows
  BY <1>3 DEF RegisterLooks, CopyLooks, GrantLooks, MigrateLooks, Begin, store
<1>4. ASSUME NEW p \in Procs, NEW c \in Carriers, ResumeFork(p, c) PROVE UNCHANGED rows
  BY <1>4 DEF ResumeFork, Begin, store
<1>5. CASE SourceMoves \/ Outside \/ UNCHANGED rvars
  BY <1>5 DEF SourceMoves, Outside, rvars, store
<1> QED
  BY <1>1, <1>2, <1>3, <1>4, <1>5 DEF RNext

(* An operation keeps what it was recorded with, and its phases come in    *)
(* order; the row of a root is otherwise stamped, admitted or migrated.    *)
SameOperation(c) ==
  /\ HasOperation(rows'[c]) /\ rows'[c].kind = rows[c].kind
  /\ rows'[c].request = rows[c].request /\ rows'[c].id = rows[c].id
Proving(p) == (ProveRegister(p) \/ ProveCopy(p)) /\ At(p, "prove")

Advances(c) ==
  /\ rows[c].lifecycle = "writable" => rows'[c].lifecycle = "writable"
  /\ HasOperation(rows[c]) =>
       /\ SameOperation(c)
       /\ \/ rows'[c].phase = rows[c].phase
          \/ rows[c].phase = "recorded" /\ rows'[c].phase = "source-snapshot-durable"
          \/ /\ rows[c].phase \in {"recorded", "source-snapshot-durable"}
             /\ rows'[c].phase = "tree-durable"
             /\ \E p \in Procs : Proving(p) /\ Carrier(p) = c
          \/ rows[c].phase = "tree-durable" /\ rows'[c].phase = "complete"
  /\ ~HasOperation(rows[c]) =>
       \/ rows'[c] = rows[c]
       \/ \E p \in Procs : /\ At(p, "stamp") /\ Carrier(p) = c /\ rows[c] = NoRow
                           /\ rows'[c] = Stamped(Kind(p), proc[p].id, Request(p))
       \/ rows[c] = NoRow /\ rows'[c] = Admitted
       \/ rows[c] = Legacy /\ rows'[c] = Migrated

\* A proof advances its row.
LEMMA ProvesAdvance ==
  ASSUME RInv, NEW p \in Procs, Proving(p), NEW c \in Carriers, c = Carrier(p),
         UNCHANGED rows \/
         /\ rows' = [rows EXCEPT ![Carrier(p)].phase = "tree-durable", ![Carrier(p)].proof = tree]
         /\ Kind(p) = "register" => Row(p).phase = "recorded"
  PROVE  Advances(c)
<1>1. /\ HasOperation(rows[c])
      /\ Kind(p) = rows[c].kind
      /\ Kind(p) # "register" => rows[c].phase = "source-snapshot-durable"
  BY DEF RInv, RowFits, RowSound, Engaged, At, Row, Proving, Kind
<1>2. CASE UNCHANGED rows
  BY <1>1, <1>2 DEF Advances, SameOperation
<1>3. CASE /\ rows' = [rows EXCEPT ![c].phase = "tree-durable", ![c].proof = tree]
           /\ Kind(p) = "register" => rows[c].phase = "recorded"
  <2>1. /\ HasOperation(rows'[c]) /\ rows'[c].phase = "tree-durable"
        /\ rows'[c].request = rows[c].request /\ rows'[c].id = rows[c].id
        /\ rows'[c].kind = rows[c].kind
    BY <1>1, <1>3, ProvedRow
  <2>2. rows'[c].lifecycle = rows[c].lifecycle
    BY <1>3 DEF RInv, Shape, Columns
  <2> QED
    BY <1>1, <1>3, <2>1, <2>2 DEF Advances, SameOperation
<1> QED
  BY <1>2, <1>3 DEF Row

\* Every step advances a row or leaves it as it is.
LEMMA RowAdvances ==
  ASSUME RInv, [RNext]_rvars, NEW c \in Carriers
  PROVE  Advances(c)
<1>1. CASE rows'[c] = rows[c]
  BY <1>1 DEF Advances, SameOperation
<1>2. ASSUME NEW p \in Procs, RowActions(p), rows'[c] # rows[c]
      PROVE  Advances(c)
  <2>1. ~At(p, "idle")
    BY <1>2 DEF RowActions, Stamp, ProveRegister, SnapshotSource, ProveCopy, Complete, Admit,
                Serve, Migrate, At
  <2>2. Carrier(p) = c
    BY <1>2, <2>1, RequestKnown
       DEF RowActions, Stamp, ProveRegister, SnapshotSource, ProveCopy, Complete, Admit, Serve,
           Migrate, RInv, Shape
  <2>3. CASE Stamp(p)
    <3>1. rows[c] = NoRow /\ rows'[c] = Stamped(Kind(p), proc[p].id, Request(p))
      BY <1>2, <2>2, <2>3 DEF Stamp, StampAllowed, Row, RInv, Shape
    <3> QED
      BY <2>2, <2>3, <3>1, EmptyRows DEF Advances, Stamp, HasOperation, Null
  <2>4. CASE ProveRegister(p)
    BY <2>2, <2>4, ProvesAdvance DEF ProveRegister, Proving
  <2>5. CASE ProveCopy(p)
    BY <2>2, <2>5, ProvesAdvance DEF ProveCopy, Proving
  <2>6. CASE SnapshotSource(p)
    <3>1. /\ HasOperation(rows[c]) /\ rows[c].phase = "recorded"
      BY <2>2, <2>6 DEF RInv, RowFits, Engaged, At, Row, SnapshotSource
    <3>2. rows' = [rows EXCEPT ![c].phase = "source-snapshot-durable",
                               ![c].source = SourceSnapshot(Kind(p))]
      BY <1>2, <2>2, <2>6 DEF SnapshotSource
    <3>3. /\ rows'[c].phase = "source-snapshot-durable" /\ rows'[c].kind = rows[c].kind
          /\ rows'[c].request = rows[c].request /\ rows'[c].id = rows[c].id
          /\ rows'[c].lifecycle = rows[c].lifecycle
      BY <3>2 DEF RInv, Shape, Columns
    <3> QED
      BY <3>1, <3>3 DEF Advances, SameOperation, HasOperation
  <2>7. CASE Complete(p)
    <3>1. HasOperation(rows[c]) /\ CompletionAllowed(rows[c])
          /\ rows' = [rows EXCEPT ![c] = Completed(@)]
      BY <1>2, <2>2, <2>7 DEF RInv, RowFits, Engaged, At, Row, Complete
    <3>2. rows' = [rows EXCEPT ![c] = Completed(rows[c])]
      BY <3>1 DEF RInv, Shape
    <3>3. rows[c].lifecycle # "writable" \/ rows'[c].lifecycle = "writable"
      <4>1. rows'[c].lifecycle = FinalState(rows[c].kind)
        BY <3>2 DEF RInv, Shape, Columns, Completed
      <4>2. OriginAdmits(rows[c]) /\ Paired(rows[c]) /\ rows[c].kind \in Creations
        BY <3>1 DEF RInv, RowSound, WellFormedRow
      <4> QED
        BY <3>1, <4>1, <4>2 DEF FinalState, OriginAdmits, Paired, Creations, Null
    <3> QED
      BY <3>1, <3>2, <3>3, CompletedRow DEF Advances, SameOperation
  <2>8. CASE Admit(p)
    <3>1. rows[c] = NoRow /\ rows'[c] = Admitted
      BY <1>2, <2>2, <2>8 DEF Admit, StampAllowed, Row, RInv, Shape
    <3> QED
      BY <3>1, EmptyRows DEF Advances, HasOperation, Null
  <2>9. CASE Migrate(p)
    <3>1. rows[c] = Legacy /\ rows'[c] = Migrated
      BY <1>2, <2>2, <2>9 DEF Migrate, Row, RInv, Shape
    <3> QED
      BY <3>1, EmptyRows DEF Advances, HasOperation, Null
  <2>10. CASE Serve(p)
    <3>1. HasOperation(rows[c]) /\ TransitionAllowed(rows[c], "read-only-serviceable")
      BY <1>2, <2>2, <2>10 DEF RInv, RowFits, At, Row, Serve
    <3>2. rows' = [rows EXCEPT ![c].lifecycle = "read-only-serviceable"]
      BY <1>2, <2>2, <2>10 DEF Serve
    <3>3. /\ rows'[c].phase = rows[c].phase /\ rows'[c].kind = rows[c].kind
          /\ rows'[c].request = rows[c].request /\ rows'[c].id = rows[c].id
      BY <3>2 DEF RInv, Shape, Columns
    <3> QED
      BY <3>1, <3>3 DEF Advances, SameOperation, HasOperation, TransitionAllowed
  <2> QED
    BY <1>2, <2>3, <2>4, <2>5, <2>6, <2>7, <2>8, <2>9, <2>10 DEF RowActions
<1> QED
  BY <1>1, <1>2, RowsChange

(* The CHECKs and triggers of the schema hold of every row at every step:  *)
(* no interleaving gets a command to a row that the schema refuses.        *)
RowsKeepSchema == \A c \in Carriers : WellFormedRow(rows[c])

(* Every row of every carrier satisfies the constraints that schema.py     *)
(* puts on it, at all times and under every interleaving: no statement of  *)
(* a command is ever refused by a CHECK of the table.                      *)
THEOREM SchemaHolds == RSpec => []RowsKeepSchema
<1>1. RInv => RowsKeepSchema
  BY DEF RInv, RowSound, RowsKeepSchema
<1> QED
  BY <1>1, InvHolds, PTL

(* Once complete, an operation is never replaced, and a grant of           *)
(* writability never taken back.                                           *)
THEOREM CompletionHolds == RSpec => CompletionIsFinal
<1> DEFINE Final ==
      \A c \in Carriers :
        rows[c].phase = "complete" =>
          /\ rows'[c].id = rows[c].id /\ rows'[c].phase = "complete"
          /\ rows[c].lifecycle = "writable" => rows'[c].lifecycle = "writable"
<1>1. RInv /\ [RNext]_rvars => Final
  <2> SUFFICES ASSUME RInv, [RNext]_rvars, NEW c \in Carriers, rows[c].phase = "complete"
               PROVE  /\ rows'[c].id = rows[c].id /\ rows'[c].phase = "complete"
                      /\ rows[c].lifecycle = "writable" => rows'[c].lifecycle = "writable"
    OBVIOUS
  <2>1. HasOperation(rows[c])
    BY EmptyRows DEF RInv, RowSound, Null
  <2> QED
    BY <2>1, RowAdvances DEF Advances, SameOperation
<1> HIDE DEF Final
<1>2. RSpec => [][Final]_rvars
  BY <1>1, InvHolds, PTL DEF RSpec
<1> QED
  BY <1>2 DEF CompletionIsFinal, Final

-----------------------------------------------------------------------------
(* The owner of the root, while no register claims a root that has a chain *)
(* and no outside writer touches it.                                       *)

\* A genesis, once there, stays: what commands remove is Staging or an override's.
LEMMA GenesesStay ==
  ASSUME RInv, NEW p \in Procs, Step(p)
  PROVE  Geneses \subseteq Geneses'
<1> DEFINE Chain == {History} \cup Payloads
<1>0. Geneses = {l \in Chain : tree[l] # Absent} /\ Geneses' = {l \in Chain : tree'[l] # Absent}
  BY DEF Geneses, Present, Leaves, ChainLeaves
<1>1. Staging \notin Chain /\ Overridden \cap Chain = {} /\ Chain \subseteq Leaves
      /\ Torn # Absent /\ Override # Absent
  BY CreationValues DEF Leaves, ChainLeaves
<1>2. DOMAIN tree = Leaves
  BY DEF RInv, Shape
<1> SUFFICES ASSUME NEW l \in Chain, tree[l] # Absent PROVE tree'[l] # Absent
  BY <1>0
<1> HIDE DEF Chain
<1>3. CASE UNCHANGED tree
  BY <1>3
<1>4. CASE RegisterLeases(p) \/ StageGenesis(p)
  BY <1>1, <1>2, <1>4 DEF RegisterLeases, StageGenesis
<1>5. CASE PublishGenesis(p)
  BY <1>1, <1>2, <1>5 DEF PublishGenesis
<1>6. CASE CopyEntry(p)
  BY <1>1, <1>2, <1>6 DEF CopyEntry
<1>7. CASE WriteEntry(p)
  <2>1. At(p, "write") => Row(p).source[proc[p].leaf] # Absent
    BY CopyKnown DEF Entries
  <2> QED
    BY <1>1, <1>2, <1>7, <2>1 DEF WriteEntry
<1>8. CASE ApplyOverride(p)
  <2>1. proc[p].todo \subseteq Overridden
    BY <1>8, CopyKnown DEF ApplyOverride, At
  <2> QED
    BY <1>1, <1>2, <1>8, <2>1 DEF ApplyOverride
<1>9. CASE CreateOverride(p)
  BY <1>1, <1>2, <1>9 DEF CreateOverride
<1> QED
  BY <1>3, <1>4, <1>5, <1>6, <1>7, <1>8, <1>9
     DEF Step, AdoptOperation, CreateClaim, WriteClaim, Stamp, ReadChain, ProveRegister,
         TakeSource, ClaimRoot, TakeDestination, SnapshotSource, VerifyDestination, CopyDone,
         OverridesDone, ProveCopy, ReproveCopy, RemoveClaim, Complete, Admit, Serve, Migrate,
         Reads, disk

\* A step of a command never takes a published chain back.
LEMMA ChainStays ==
  ASSUME RInv, [RNext]_rvars, ~touched'
  PROVE  /\ Geneses \subseteq Geneses' /\ (exists => exists')
         /\ ~touched /\ (raced => raced')
<1>1. ASSUME NEW p \in Procs, Step(p)
      PROVE  (exists => exists') /\ UNCHANGED touched /\ (raced => raced')
  <2>1. UNCHANGED touched
    BY <1>1 DEF Step, RegisterLeases, AdoptOperation, CreateClaim, WriteClaim, Stamp, ReadChain,
       StageGenesis, PublishGenesis, ProveRegister, TakeSource, ClaimRoot, TakeDestination,
       SnapshotSource, VerifyDestination, CopyEntry, CopyDone, WriteEntry, ApplyOverride,
       CreateOverride, OverridesDone, ProveCopy, ReproveCopy, RemoveClaim, Complete, Admit,
       Serve, Migrate, Reads, Others
  <2>2. CASE ClaimRoot(p) \/ CreateClaim(p)
    <3>1. CASE ClaimRoot(p)
      <4>1. exists' = TRUE \/ exists' = exists
        BY <3>1 DEF ClaimRoot
      <4>2. raced' = raced
        BY <3>1 DEF ClaimRoot
      <4> QED
        BY <2>1, <4>1, <4>2
    <3>2. CASE CreateClaim(p)
      <4>1. exists' = exists
        BY <3>2 DEF CreateClaim
      <4>2. raced' = (raced \/ (claim = Nothing /\ Geneses # {}))
        BY <3>2 DEF CreateClaim
      <4>3. raced => raced'
        BY <4>2, Zenon
      <4> QED
        BY <2>1, <4>1, <4>3
    <3> QED
      BY <2>2, <3>1, <3>2
  <2>3. CASE ~ClaimRoot(p) /\ ~CreateClaim(p)
    <3>1. UNCHANGED <<exists, raced>>
      BY <1>1, <2>3 DEF Step, RegisterLeases, AdoptOperation, WriteClaim, Stamp, ReadChain,
         StageGenesis, PublishGenesis, ProveRegister, TakeSource, TakeDestination,
         SnapshotSource, VerifyDestination, CopyEntry, CopyDone, WriteEntry, ApplyOverride,
         CreateOverride, OverridesDone, ProveCopy, ReproveCopy, RemoveClaim, Complete, Admit,
         Serve, Migrate, Reads, disk
    <3> QED
      BY <2>1, <3>1
  <2> QED
    BY <2>2, <2>3
<1>2. ASSUME UNCHANGED <<exists, tree, touched, raced>>
      PROVE  Geneses \subseteq Geneses' /\ (exists => exists') /\ ~touched /\ (raced => raced')
  BY <1>2 DEF Geneses, Present
<1>3. ASSUME NEW p \in Procs, Kill(p) PROVE UNCHANGED <<exists, tree, touched, raced>>
  BY <1>3 DEF Kill, disk
<1>4. ASSUME NEW p \in Procs, NEW r \in Requests,
             RegisterLooks(p, r) \/ CopyLooks(p, r) \/ GrantLooks(p, r) \/ MigrateLooks(p, r)
      PROVE  UNCHANGED <<exists, tree, touched, raced>>
  BY <1>4 DEF RegisterLooks, CopyLooks, GrantLooks, MigrateLooks, Begin, disk
<1>5. ASSUME NEW p \in Procs, NEW c \in Carriers, ResumeFork(p, c)
      PROVE  UNCHANGED <<exists, tree, touched, raced>>
  BY <1>5 DEF ResumeFork, Begin, disk
<1>6. CASE SourceMoves \/ Outside \/ UNCHANGED rvars
  BY <1>2, <1>6 DEF SourceMoves, Outside, rvars, disk
<1> QED
  BY <1>1, <1>2, <1>3, <1>4, <1>5, <1>6, GenesesStay DEF RNext

(* How the claim file changes: created exclusively, written by its creator,*)
(* made with the root, removed by the command whose operation it names.    *)
ClaimActions(p) == CreateClaim(p) \/ WriteClaim(p) \/ ClaimRoot(p) \/ RemoveClaim(p)

\* Only these actions write or remove the claim.
LEMMA ClaimChanges ==
  ASSUME [RNext]_rvars
  PROVE  UNCHANGED claim \/ \E p \in Procs : ClaimActions(p)
<1>1. ASSUME NEW p \in Procs, Step(p) PROVE UNCHANGED claim \/ ClaimActions(p)
  BY <1>1 DEF Step, ClaimActions, RegisterLeases, AdoptOperation, Stamp,
     ReadChain, StageGenesis, PublishGenesis, ProveRegister, TakeSource, TakeDestination,
     SnapshotSource, VerifyDestination, CopyEntry, CopyDone, WriteEntry, ApplyOverride,
     CreateOverride, OverridesDone, ProveCopy, ReproveCopy, Complete, Admit, Serve, Migrate,
     Reads, disk
<1>2. ASSUME NEW p \in Procs, Kill(p) PROVE UNCHANGED claim
  BY <1>2 DEF Kill, disk
<1>3. ASSUME NEW p \in Procs, NEW r \in Requests,
             RegisterLooks(p, r) \/ CopyLooks(p, r) \/ GrantLooks(p, r) \/ MigrateLooks(p, r)
      PROVE  UNCHANGED claim
  BY <1>3 DEF RegisterLooks, CopyLooks, GrantLooks, MigrateLooks, Begin, disk
<1>4. ASSUME NEW p \in Procs, NEW c \in Carriers, ResumeFork(p, c) PROVE UNCHANGED claim
  BY <1>4 DEF ResumeFork, Begin, disk
<1>5. CASE SourceMoves \/ Outside \/ UNCHANGED rvars
  BY <1>5 DEF SourceMoves, Outside, rvars, disk
<1> QED
  BY <1>1, <1>2, <1>3, <1>4, <1>5 DEF RNext

ClaimGoesOn ==
  \/ UNCHANGED claim
  \/ claim = Nothing /\ Geneses = {} /\ claim' = Torn
  \/ /\ \E p \in Procs : At(p, "write_claim") /\ ~At(p, "write_claim")'
     /\ claim' \notin {Nothing, Torn}
  \/ ~exists /\ claim' \notin {Nothing, Torn}
  \/ /\ claim' = Nothing
     /\ \E p \in Procs : At(p, "unclaim") /\ claim = OwnClaim(p)

\* Every step takes the claim on as ClaimGoesOn says, or leaves it.
LEMMA ClaimAdvances ==
  ASSUME RInv, [RNext]_rvars, ~raced'
  PROVE  ClaimGoesOn
<1>1. ASSUME NEW p \in Procs, ClaimActions(p), claim' # claim PROVE ClaimGoesOn
  <2>1. CASE CreateClaim(p)
    BY <1>1, <2>1 DEF CreateClaim, ClaimGoesOn
  <2>2. CASE WriteClaim(p)
    <3>1. /\ proc[p].id \in Ids /\ Request(p) \in Asked
          /\ At(p, "write_claim") /\ ~At(p, "write_claim")'
      BY <2>2, GoFrame DEF RInv, RequestFits, WriteClaim, At
    <3> QED
      BY <2>2, <3>1, ClaimValues DEF WriteClaim, OwnClaim, ClaimGoesOn
  <2>3. CASE ClaimRoot(p)
    <3>1. Request(p) \in Asked
      BY <2>3, RequestKnown DEF ClaimRoot, At
    <3> QED
      BY <1>1, <2>3, <3>1, ClaimValues DEF ClaimRoot, ClaimGoesOn
  <2>4. CASE RemoveClaim(p)
    BY <1>1, <2>4 DEF RemoveClaim, ClaimGoesOn
  <2> QED
    BY <1>1, <2>1, <2>2, <2>3, <2>4 DEF ClaimActions
<1> QED
  BY <1>1, ClaimChanges DEF ClaimGoesOn

\* No step changes both a row and the claim.
LEMMA RowsOrClaim ==
  ASSUME [RNext]_rvars
  PROVE  UNCHANGED rows \/ UNCHANGED claim
BY RowsChange DEF RowActions, Stamp, ProveRegister, SnapshotSource, ProveCopy, Complete, Admit,
                  Serve, Migrate, disk

\* A carrier becomes an owner where its operation is stamped, and nowhere else.
LEMMA NewOwner ==
  ASSUME RInv, [RNext]_rvars, Core, NEW c \in Carriers, Owner(c)', ~Owner(c)
  PROVE  /\ UNCHANGED claim /\ Claimed /\ claim.request.carrier = c
         /\ HasOperation(rows'[c]) /\ NamesRow(c)' /\ rows'[c].phase = "recorded"
<1>1. ~HasOperation(rows[c]) /\ Advances(c)
  BY RowAdvances DEF Owner
<1>2. rows'[c] # rows[c] /\ UNCHANGED claim
  BY RowsOrClaim DEF Owner
<1>3. rows'[c] # Admitted /\ rows[c] # Legacy
  <2>1. Admitted.kind = Null /\ Admitted.lifecycle = "read-only-serviceable" /\ Admitted # Legacy
    BY EmptyRows DEF Null
  <2> QED
    BY <2>1 DEF Owner, HasOperation
<1>4. PICK p \in Procs : /\ At(p, "stamp") /\ Carrier(p) = c
                         /\ rows'[c] = Stamped(Kind(p), proc[p].id, Request(p))
  BY <1>1, <1>2, <1>3 DEF Advances
<1>5. Claimed /\ claim = OwnClaim(p) /\ Kind(p) \in Creations
  BY <1>4 DEF Core, ClaimShows, At, RInv, RequestFits
<1>6. /\ HasOperation(rows'[c]) /\ rows'[c].phase = "recorded"
      /\ rows'[c].id = proc[p].id /\ rows'[c].request = Request(p)
  BY <1>4, <1>5, StampedRow
<1>7. NamesRow(c)'
  BY <1>2, <1>5, <1>6 DEF NamesRow, OwnClaim, Claimed
<1>8. claim.request.carrier = c
  BY <1>4, <1>5 DEF OwnClaim, Carrier
<1> QED
  BY <1>2, <1>5, <1>6, <1>7, <1>8

\* Who the claim names: the owner that is not done.
LEMMA Named ==
  ASSUME RInv, NEW c \in Carriers, HasOperation(rows[c]), NamesRow(c)
  PROVE  Claimed /\ claim.request = rows[c].request /\ claim.request.carrier = c
BY DEF RInv, RowSound, NamesRow

\* Two carriers never both come to own the root.
LEMMA OneOwnerKeeps ==
  ASSUME RInv, [RNext]_rvars, Core
  PROVE  OneOwner'
<1> SUFFICES ASSUME NEW c \in Carriers, NEW d \in Carriers, Owner(c)', Owner(d)'
             PROVE  c = d
  BY DEF OneOwner
<1>1. ASSUME NEW e \in Carriers, Owner(e), Claimed
      PROVE  claim.request.carrier = e
  BY <1>1, Named DEF Core, OwnerShows, Claimed
<1>2. CASE Owner(c) /\ Owner(d)
  BY <1>2 DEF Core, OneOwner
<1>3. CASE ~Owner(c)
  BY <1>1, <1>3, NewOwner
<1>4. CASE ~Owner(d)
  BY <1>1, <1>4, NewOwner
<1> QED
  BY <1>2, <1>3, <1>4

\* The proof of a tree sees a genesis in it.
LEMMA ProvedChain ==
  ASSUME RInv, Core, NEW p \in Procs, Proving(p), rows' # rows
  PROVE  Geneses # {}
<1>1. CASE Kind(p) # "replicate"
  BY <1>1 DEF Core, ClaimShows, Proving, At
<1>2. CASE Kind(p) = "replicate"
  <2>1. PICK c \in Carriers : c = Carrier(p)
    BY RequestKnown DEF Proving, At
  <2>2. Present = Expected(p)
    BY <1>2 DEF Proving, ProveRegister, ProveCopy
  <2>3. /\ HasOperation(rows[c]) /\ rows[c].kind = "replicate"
        /\ rows[c].phase = "source-snapshot-durable"
    BY <1>2, <2>1 DEF Proving, RInv, RowFits, RowSound, Engaged, At, Row, Kind
  <2>4. History \in Entries(rows[c].source)
    BY <2>3 DEF RInv, RowSound
  <2> QED
    BY <2>1, <2>2, <2>4 DEF Expected, Row, Geneses
<1> QED
  BY <1>1, <1>2

\* A carrier that owns the root has a chain to show for it.
LEMMA OwnerShowsKeeps ==
  ASSUME RInv, [RNext]_rvars, Core, ~raced', ~touched'
  PROVE  OwnerShows'
<1> SUFFICES ASSUME NEW c \in Carriers, Owner(c)'
             PROVE  /\ exists'
                    /\ \/ HasOperation(rows'[c]) /\ NamesRow(c)'
                       \/ claim' = Nothing /\ Geneses' # {}
                    /\ rows'[c].phase \in {"recorded", "source-snapshot-durable"} => NamesRow(c)'
                    /\ rows'[c].phase \in {"tree-durable", "complete"} => Geneses' # {}
  BY DEF OwnerShows
<1>1. /\ Geneses \subseteq Geneses' /\ (exists => exists')
      /\ ClaimGoesOn /\ Advances(c)
  BY ChainStays, ClaimAdvances, RowAdvances
<1>2. CASE ~Owner(c)
  <2>1. exists
    BY <1>2, NewOwner DEF RInv, ClaimSound, Claimed
  <2> QED
    BY <1>1, <1>2, <2>1, NewOwner
<1>3. CASE Owner(c) /\ UNCHANGED claim
  <2>1. /\ exists
        /\ (HasOperation(rows[c]) /\ NamesRow(c)) \/ (claim = Nothing /\ Geneses # {})
        /\ rows[c].phase \in {"recorded", "source-snapshot-durable"} => NamesRow(c)
        /\ rows[c].phase \in {"tree-durable", "complete"} => Geneses # {}
    BY <1>3 DEF Core, OwnerShows
  <2>2. CASE HasOperation(rows[c])
    <3>1. SameOperation(c)
      BY <1>1, <2>2 DEF Advances
    <3>2. NamesRow(c) => NamesRow(c)'
      BY <1>3, <3>1 DEF SameOperation, NamesRow, Claimed
    <3>3. \/ rows'[c].phase = rows[c].phase
          \/ rows[c].phase = "recorded" /\ rows'[c].phase = "source-snapshot-durable"
          \/ rows'[c].phase = "tree-durable" /\ Geneses # {}
          \/ rows[c].phase = "tree-durable" /\ rows'[c].phase = "complete"
      BY <1>1, <2>2, ProvedChain DEF Advances
    <3> QED
      BY <1>1, <1>3, <2>1, <3>1, <3>2, <3>3 DEF SameOperation
  <2>3. CASE ~HasOperation(rows[c])
    <3>1. rows[c] \in {NoRow, Legacy, Migrated, Admitted} /\ rows[c] # NoRow
      BY <1>3, <2>3, EmptyRows DEF RInv, RowSound, Owner, Null
    <3>2. rows'[c] \in {Legacy, Migrated, Admitted}
      BY <1>1, <2>3, <3>1 DEF Advances
    <3>3. rows'[c].phase = Null
      BY <3>2, EmptyRows
    <3> QED
      BY <1>1, <1>3, <2>1, <2>3, <3>3 DEF Null
  <2> QED
    BY <2>2, <2>3
<1>4. CASE Owner(c) /\ claim' # claim
  <2>1. /\ exists
        /\ (HasOperation(rows[c]) /\ NamesRow(c)) \/ (claim = Nothing /\ Geneses # {})
        /\ rows[c].phase \in {"recorded", "source-snapshot-durable"} => NamesRow(c)
        /\ rows[c].phase \in {"tree-durable", "complete"} => Geneses # {}
    BY <1>4 DEF Core, OwnerShows
  <2>2. claim # Torn
    BY <2>1, ClaimValues DEF NamesRow, Claimed
  <2>3. PICK p \in Procs : claim' = Nothing /\ At(p, "unclaim") /\ claim = OwnClaim(p)
    BY <1>1, <1>4, <2>1, <2>2 DEF ClaimGoesOn, NamesRow, Claimed, Core, ClaimShows, At
  <2>4. HasOperation(rows[c]) /\ NamesRow(c)
    BY <1>4, <2>1, <2>3
  <2>5. Carrier(p) = c
    BY <2>3, <2>4, Named DEF OwnClaim, Carrier
  <2>6. rows[c].phase \in {"tree-durable", "complete"}
    BY <2>3, <2>5 DEF RInv, RowFits, At, Row
  <2>7. UNCHANGED rows
    BY <1>4, RowsOrClaim
  <2> QED
    BY <1>1, <2>1, <2>3, <2>6, <2>7
<1> QED
  BY <1>2, <1>3, <1>4

\* A command that does not move keeps what it relies on.
LEMMA Stays ==
  ASSUME RInv, [RNext]_rvars, Core, ~raced', ~touched',
         NEW q \in Procs, proc'[q] = proc[q]
  PROVE  LET pc == proc[q].pc
             own == Claimed' /\ claim' = OwnClaim(q) IN
         /\ pc = "write_claim" => claim' = Torn
         /\ pc = "stamp" => own
         /\ pc = "destination" /\ proc[q].id # 0 => own \/ HasOperation(Row(q))'
         /\ pc = "source" /\ proc[q].id # 0 => HasOperation(Row(q))'
         /\ pc = "prove" /\ Kind(q) # "replicate" => Geneses' # {}
         /\ pc = "complete" => claim' = Nothing
<1>1. Geneses \subseteq Geneses' /\ ClaimGoesOn
  BY ChainStays, ClaimAdvances
<1>2. ClaimShows(q)
  BY DEF Core
<1>3. ~At(q, "idle") /\ HasOperation(Row(q)) => HasOperation(Row(q))'
  <2> SUFFICES ASSUME ~At(q, "idle"), HasOperation(Row(q)) PROVE HasOperation(Row(q))'
    OBVIOUS
  <2>1. PICK c \in Carriers : c = Carrier(q)
    BY RequestKnown
  <2>2. HasOperation(rows'[c])
    BY <2>1, RowAdvances DEF Row, Advances, SameOperation
  <2>3. Row(q)' = rows'[c]
    BY <2>1 DEF Row, Carrier, Request
  <2> QED
    BY <2>2, <2>3
\* A process at "unclaim" that removes the claim of q is at q's own carrier.
<1>4. ASSUME NEW p \in Procs, At(p, "unclaim"), claim = OwnClaim(p), claim = OwnClaim(q),
             ~At(q, "idle")
      PROVE  HasOperation(Row(q)) /\ (proc[q].pc \in Held => p = q)
  <2>1. Carrier(p) = Carrier(q) /\ Carrier(q) \in Carriers
    BY <1>4, RequestKnown DEF OwnClaim, Carrier
  <2>2. HasOperation(Row(p)) /\ locks[Carrier(p)] = p
    BY <1>4 DEF RInv, RowFits, HoldsLock, Held, Engaged, At
  <2>3. proc[q].pc \in Held => locks[Carrier(q)] = q
    BY DEF RInv, HoldsLock
  <2> QED
    BY <2>1, <2>2, <2>3 DEF Row
<1>5. Claimed => exists /\ claim # Torn /\ claim # Nothing
  BY DEF RInv, ClaimSound, Claimed
<1>6. Claimed /\ claim' # claim =>
        \E p \in Procs : At(p, "unclaim") /\ claim = OwnClaim(p)
  BY <1>1, <1>5 DEF ClaimGoesOn, Core, ClaimShows, At
<1>7. CASE proc[q].pc = "write_claim"
  <2>1. claim = Torn /\ exists /\ \A p \in Procs : At(p, "write_claim") => p = q
    BY <1>2, <1>7, ClaimValues DEF ClaimShows, RInv, ClaimSound
  <2>2. ~\E p \in Procs : At(p, "unclaim") /\ claim = OwnClaim(p)
    <3> SUFFICES ASSUME NEW p \in Procs, At(p, "unclaim"), claim = OwnClaim(p) PROVE FALSE
      OBVIOUS
    <3>1. PICK c \in Carriers : c = Carrier(p)
      BY RequestKnown DEF At
    <3>2. HasOperation(rows[c])
      BY <3>1 DEF RInv, RowFits, Engaged, At, Row
    <3> QED
      BY <2>1, <3>2, ClaimValues DEF Core, OwnerShows, Owner, NamesRow, Claimed
  <2>3. claim' = claim
    BY <1>1, <1>7, <2>1, <2>2, ClaimValues DEF ClaimGoesOn, At
  <2> QED
    BY <1>7, <2>1, <2>3
<1>8. CASE proc[q].pc = "stamp"
  <2>1. Claimed /\ claim = OwnClaim(q)
    BY <1>2, <1>8 DEF ClaimShows
  <2>2. claim' = claim
    BY <1>4, <1>6, <1>8, <2>1 DEF At, Held
  <2> QED
    BY <1>8, <2>1, <2>2 DEF Claimed
<1>9. CASE proc[q].pc = "destination"
  <2>1. CASE Claimed /\ claim = OwnClaim(q)
    BY <1>3, <1>4, <1>6, <1>9, <2>1 DEF At, Claimed
  <2> QED
    BY <1>2, <1>3, <1>9, <2>1 DEF ClaimShows, At
<1>10. CASE proc[q].pc = "complete"
  <2>1. PICK c \in Carriers : c = Carrier(q)
    BY <1>10, RequestKnown DEF At
  <2>2. HasOperation(rows[c]) /\ claim = Nothing
    BY <1>2, <1>10, <2>1 DEF RInv, RowFits, Engaged, Row, ClaimShows
  <2>3. exists /\ Geneses # {}
    BY <2>2 DEF Core, OwnerShows, Owner, NamesRow, Claimed
  <2>4. claim' = Nothing
    BY <1>1, <2>2, <2>3, ClaimValues DEF ClaimGoesOn, Core, ClaimShows, At
  <2> QED
    BY <1>10, <2>4
<1> QED
  BY <1>1, <1>2, <1>3, <1>7, <1>8, <1>9, <1>10 DEF ClaimShows, At

-----------------------------------------------------------------------------
(* What a command finds that gets to a point.                              *)

Watched == {"write_claim", "stamp", "destination", "source", "prove", "complete"}

Arrived(p) ==
  /\ \A q \in Procs \ {p} : proc'[q] = proc[q]
  /\ LET pc == proc'[p].pc
         own == Claimed' /\ claim' = OwnClaim(p)' IN
     /\ pc = "write_claim" => claim = Nothing /\ claim' = Torn
     /\ pc = "stamp" => own
     /\ pc = "destination" /\ proc'[p].id # 0 => own \/ HasOperation(Row(p))'
     /\ pc = "source" /\ proc'[p].id # 0 => HasOperation(Row(p))'
     /\ pc = "prove" /\ Kind(p)' # "replicate" => Geneses' # {}
     /\ pc = "complete" => claim' = Nothing

(* A command that stays short of the watched points leaves every other     *)
(* where it was.                                                           *)
LEMMA Unwatched ==
  ASSUME NEW p \in Procs, \A q \in Procs \ {p} : proc'[q] = proc[q], proc'[p].pc \notin Watched
  PROVE  Arrived(p)
BY DEF Arrived, Watched

\* A command that ends arrives at no watched point.
LEMMA EndArrives ==
  ASSUME RInv, NEW p \in Procs, NEW why, End(p, why)
  PROVE  Arrived(p)
BY Ending, Unwatched DEF Watched

\* A command that moves on arrives at the point it was sent to.
LEMMA GoArrives ==
  ASSUME RInv, NEW p \in Procs, NEW pc, Go(p, pc), pc \notin Watched
  PROVE  Arrived(p)
BY GoFrame, Unwatched DEF ProcFrame

\* A command that starts arrives at no watched point.
LEMMA BeginArrives ==
  ASSUME RInv, Core, NEW p \in Procs, [RNext]_rvars,
         \/ \E r \in Requests :
              RegisterLooks(p, r) \/ CopyLooks(p, r) \/ GrantLooks(p, r) \/ MigrateLooks(p, r)
         \/ \E c \in Carriers : ResumeFork(p, c)
  PROVE  Arrived(p)
<1>1. ASSUME NEW pc, NEW r, NEW id, Begin(p, Command(pc, r, id)),
             \/ pc \notin Watched
             \/ pc \in {"source", "destination"} /\ id = 0
             \/ pc = "destination" /\ Claimed /\ id = claim.id /\ r = claim.request
             \/ pc = "destination" /\ \E c \in Carriers : r.carrier = c /\ HasOperation(rows[c])
      PROVE  Arrived(p)
  <2>1. /\ \A q \in Procs \ {p} : proc'[q] = proc[q]
        /\ proc'[p].pc = pc /\ proc'[p].request = r /\ proc'[p].id = id
        /\ UNCHANGED claim /\ UNCHANGED rows
    BY <1>1 DEF RInv, Shape, Begin, Command, Idle, disk, store
  <2>2. Claimed => claim = [id |-> claim.id, request |-> claim.request]
    BY DEF RInv, ClaimSound
  <2>3. /\ Claimed' <=> Claimed
        /\ OwnClaim(p)' = [id |-> id, request |-> r] /\ Row(p)' = rows[r.carrier]
    BY <2>1 DEF Claimed, OwnClaim, Row, Carrier, Request
  <2> QED
    BY <1>1, <2>1, <2>2, <2>3 DEF Arrived, Watched
<1>2. ASSUME NEW r \in Requests,
             RegisterLooks(p, r) \/ CopyLooks(p, r) \/ GrantLooks(p, r) \/ MigrateLooks(p, r)
      PROVE  Arrived(p)
  BY <1>1, <1>2 DEF RegisterLooks, CopyLooks, GrantLooks, MigrateLooks, Watched
<1>3. ASSUME NEW c \in Carriers, ResumeFork(p, c)
      PROVE  Arrived(p)
  <2>1. CASE Claimed
    <3>1. PendingFork(c) = claim.id
      BY <1>3, <2>1 DEF ResumeFork, PendingFork, Claimed
    <3> QED
      BY <1>1, <1>3, <2>1, <3>1 DEF ResumeFork
  <2>2. CASE ~Claimed
    <3>1. HasOperation(rows[c])
      BY <1>3, <2>2 DEF ResumeFork, PendingFork, Claimed, HasOperation, Null
    <3>2. rows[c].request.carrier = c
      BY <3>1 DEF RInv, RowSound
    <3> QED
      BY <1>1, <1>3, <2>2, <3>1, <3>2 DEF ResumeFork
  <2> QED
    BY <2>1, <2>2
<1> QED
  BY <1>2, <1>3

(* The steps of a register reach a watched point only with the claim they  *)
(* need.                                                                   *)
LEMMA RegisterArrives ==
  ASSUME RInv, Core, NEW p \in Procs, ~raced', ~touched', [RNext]_rvars,
         \/ RegisterLeases(p) \/ AdoptOperation(p) \/ CreateClaim(p) \/ WriteClaim(p)
         \/ Stamp(p) \/ ReadChain(p) \/ StageGenesis(p) \/ PublishGenesis(p) \/ ProveRegister(p)
  PROVE  Arrived(p)
<1>0. ASSUME NEW why, End(p, why) PROVE Arrived(p)
  BY <1>0, EndArrives
<1>1. CASE RegisterLeases(p)
  <2>1. CASE proc' = [proc EXCEPT ![p].pc = "adopt"]
    <3>1. proc'[p].pc = "adopt" /\ \A q \in Procs \ {p} : proc'[q] = proc[q]
      BY <2>1 DEF RInv, Shape
    <3> QED
      BY <3>1, Unwatched DEF Watched
  <2> QED
    BY <1>0, <1>1, <2>1 DEF RegisterLeases
<1>2. CASE AdoptOperation(p)
  <2>1. CASE proc' = [proc EXCEPT ![p].pc = "chain", ![p].id = Row(p).id]
             \/ proc' = [proc EXCEPT ![p].pc = "claim"]
    <3>1. proc'[p].pc \in {"chain", "claim"} /\ \A q \in Procs \ {p} : proc'[q] = proc[q]
      BY <2>1 DEF RInv, Shape, ProcFields
    <3> QED
      BY <3>1, Unwatched DEF Watched
  <2>2. CASE /\ proc' = [proc EXCEPT ![p].pc = "stamp", ![p].id = claim.id]
             /\ Claimed /\ claim.request = Request(p)
    <3>1. /\ \A q \in Procs \ {p} : proc'[q] = proc[q]
          /\ proc'[p].pc = "stamp" /\ proc'[p].id = claim.id /\ proc'[p].request = Request(p)
      BY <2>2 DEF RInv, Shape, ProcFields, Request
    <3>2. claim' = claim /\ claim = [id |-> claim.id, request |-> claim.request]
      BY <1>2, <2>2 DEF AdoptOperation, Reads, disk, RInv, ClaimSound
    <3> QED
      BY <2>2, <3>1, <3>2 DEF Arrived, OwnClaim, Request, Claimed
  <2> QED
    BY <1>0, <1>2, <2>1, <2>2 DEF AdoptOperation
<1>3. CASE CreateClaim(p)
  <2>1. ASSUME NEW n, proc' = [proc EXCEPT ![p].pc = "write_claim", ![p].id = n],
               claim = Nothing, claim' = Torn
        PROVE  Arrived(p)
    <3>1. proc'[p].pc = "write_claim" /\ \A q \in Procs \ {p} : proc'[q] = proc[q]
      BY <2>1 DEF RInv, Shape, ProcFields
    <3> QED
      BY <2>1, <3>1 DEF Arrived
  <2> QED
    BY <1>0, <1>3, <2>1 DEF CreateClaim
<1>4. CASE WriteClaim(p)
  <2>1. /\ \A q \in Procs \ {p} : proc'[q] = proc[q]
        /\ proc'[p].pc = "stamp" /\ proc'[p].id = proc[p].id /\ proc'[p].request = Request(p)
    BY <1>4, GoFrame DEF WriteClaim, ProcFrame
  <2>2. claim' = OwnClaim(p) /\ proc[p].id \in Ids /\ Request(p) \in Asked
    BY <1>4 DEF WriteClaim, RInv, RequestFits, At
  <2>3. OwnClaim(p)' = OwnClaim(p)
    BY <2>1 DEF OwnClaim, Request
  <2>4. Claimed'
    BY <2>2, ClaimValues DEF Claimed, OwnClaim
  <2> QED
    BY <2>1, <2>2, <2>3, <2>4 DEF Arrived
<1>5. CASE Stamp(p)
  BY <1>0, <1>5, GoArrives DEF Stamp, Watched
<1>6. CASE ReadChain(p)
  <2>1. CASE Go(p, "prove") /\ WellFormedChain
    <3>1. Geneses # {} /\ Geneses' = Geneses
      BY <1>6, <2>1 DEF WellFormedChain, ReadChain, Reads, disk, Geneses, Present
    <3> QED
      BY <2>1, <3>1, GoFrame DEF Arrived, ProcFrame
  <2>2. CASE Go(p, "stage")
    BY <2>2, GoArrives DEF Watched
  <2>3. CASE proc' = [proc EXCEPT ![p].pc = "override", ![p].todo = Overridden]
    <3>1. proc'[p].pc = "override" /\ \A q \in Procs \ {p} : proc'[q] = proc[q]
      BY <2>3 DEF RInv, Shape, ProcFields
    <3> QED
      BY <3>1, Unwatched DEF Watched
  <2> QED
    BY <1>0, <1>6, <2>1, <2>2, <2>3 DEF ReadChain
<1>7. CASE StageGenesis(p)
  BY <1>0, <1>7, GoArrives DEF StageGenesis, Watched
<1>8. CASE PublishGenesis(p)
  <2>1. CASE /\ Go(p, "prove") /\ tree[Staging] # Absent
             /\ tree' = [tree EXCEPT ![Request(p).payload] = tree[Staging], ![Staging] = Absent]
    <3>1. PICK l \in Payloads : l = Request(p).payload
      BY <1>8, RequestKnown, AskedFields DEF RInv, RequestFits, PublishGenesis, At, Kind
    <3>2. tree'[l] # Absent
      BY <2>1, <3>1, CreationValues DEF RInv, Shape, Leaves, ChainLeaves
    <3>3. Geneses' # {}
      BY <3>2 DEF Geneses, Present, Leaves, ChainLeaves
    <3> QED
      BY <2>1, <3>3, GoFrame DEF Arrived, ProcFrame
  <2> QED
    BY <1>0, <1>8, <2>1 DEF PublishGenesis
<1>9. CASE ProveRegister(p)
  BY <1>0, <1>9, GoArrives DEF ProveRegister, Watched
<1> QED
  BY <1>1, <1>2, <1>3, <1>4, <1>5, <1>6, <1>7, <1>8, <1>9

\* A copy that has its operation takes it along when it goes for the source.
LEMMA NeedSourceArrives ==
  ASSUME RInv, NEW p \in Procs, proc[p].pc \in {"snapshot", "copy"}, NeedSource(p),
         UNCHANGED rows
  PROVE  Arrived(p)
<1>1. /\ \A q \in Procs \ {p} : proc'[q] = proc[q]
      /\ proc'[p].pc = "source" /\ proc'[p].request = Request(p)
  BY DEF RInv, Shape, NeedSource, ProcFields, Request
<1>2. HasOperation(Row(p)) /\ Row(p)' = Row(p)
  BY <1>1 DEF RInv, RowFits, Engaged, Row, Carrier, Request
<1> QED
  BY <1>1, <1>2 DEF Arrived

\* So does the transition after the last leaf.
LEMMA AfterCopyArrives ==
  ASSUME RInv, NEW p \in Procs, At(p, "copy"), Go(p, AfterCopy(p))
  PROVE  Arrived(p)
<1>1. /\ \A q \in Procs \ {p} : proc'[q] = proc[q]
      /\ proc'[p].pc = AfterCopy(p) /\ proc'[p].request = Request(p)
  BY GoFrame DEF ProcFrame
<1>2. Kind(p)' = Kind(p) /\ Kind(p) \in {"replicate", "fork"}
  BY <1>1, CopyKnown DEF Kind, Request, At
<1> QED
  BY <1>1, <1>2 DEF Arrived, AfterCopy

\* So do the steps of a fork or copy.
LEMMA CopyArrives ==
  ASSUME RInv, Core, NEW p \in Procs, ~raced', ~touched', [RNext]_rvars,
         \/ TakeSource(p) \/ ClaimRoot(p) \/ TakeDestination(p)
         \/ SnapshotSource(p) \/ VerifyDestination(p) \/ CopyEntry(p) \/ CopyDone(p)
  PROVE  Arrived(p)
<1>0. ASSUME NEW why, End(p, why) PROVE Arrived(p)
  BY <1>0, EndArrives
<1>1. CASE TakeSource(p)
  <2>1. ASSUME NEW pc \in {"claim_root", "destination"},
               pc = "destination" => proc[p].id # 0,
               proc' = [proc EXCEPT ![p].pc = pc, ![p].request = [@ EXCEPT !.head = Tip]]
        PROVE  Arrived(p)
    <3>1. /\ \A q \in Procs \ {p} : proc'[q] = proc[q]
          /\ proc'[p].pc = pc /\ proc'[p].id = proc[p].id
          /\ proc'[p].request = [Request(p) EXCEPT !.head = Tip]
      BY <2>1 DEF RInv, Shape, ProcFields, Request
    <3>2. UNCHANGED rows
      BY <1>1 DEF TakeSource, Reads, store
    <3>3. Row(p)' = Row(p)
      BY <1>1, <3>1, <3>2, RequestKnown DEF Row, Carrier, Request, TakeSource, At
    <3>4. pc = "destination" => HasOperation(Row(p))
      BY <1>1, <2>1 DEF Core, ClaimShows, TakeSource, At
    <3> QED
      BY <2>1, <3>1, <3>3, <3>4 DEF Arrived
  <2> QED
    BY <1>0, <1>1, <2>1 DEF TakeSource
<1>2. CASE ClaimRoot(p)
  <2>1. ASSUME NEW n, proc' = [proc EXCEPT ![p].pc = "destination", ![p].id = n],
               claim' = [id |-> n, request |-> Request(p)], Claimed'
        PROVE  Arrived(p)
    <3>1. /\ \A q \in Procs \ {p} : proc'[q] = proc[q]
          /\ proc'[p].pc = "destination" /\ proc'[p].id = n /\ proc'[p].request = Request(p)
      BY <2>1 DEF RInv, Shape, ProcFields, Request
    <3> QED
      BY <2>1, <3>1 DEF Arrived, OwnClaim, Request
  <2>2. Request(p) \in Asked
    BY <1>2, RequestKnown DEF ClaimRoot, At
  <2>3. ASSUME NEW n \in Ids, claim' = [id |-> n, request |-> Request(p)]
        PROVE  Claimed'
    BY <2>2, <2>3, ClaimValues DEF Claimed
  <2>4. CASE /\ Claimed /\ claim.request = Request(p) /\ UNCHANGED claim
             /\ proc' = [proc EXCEPT ![p].pc = "destination", ![p].id = claim.id]
    <3>1. claim' = [id |-> claim.id, request |-> Request(p)] /\ Claimed'
      BY <2>4 DEF RInv, ClaimSound, Claimed
    <3> QED
      BY <2>1, <2>4, <3>1
  <2> QED
    BY <1>0, <1>2, <2>1, <2>3, <2>4 DEF ClaimRoot
<1>3. CASE TakeDestination(p)
  <2>1. CASE /\ ~HasOperation(Row(p)) /\ proc[p].id # 0
             /\ proc' = [proc EXCEPT ![p].pc = "stamp"]
    <3>1. /\ \A q \in Procs \ {p} : proc'[q] = proc[q] /\ proc'[p].pc = "stamp"
          /\ proc'[p].id = proc[p].id /\ proc'[p].request = Request(p)
      BY <2>1 DEF RInv, Shape, ProcFields, Request
    <3>2. Claimed /\ claim = OwnClaim(p)
      BY <1>3, <2>1 DEF Core, ClaimShows, TakeDestination, At
    <3>3. claim' = claim
      BY <1>3 DEF TakeDestination, disk
    <3>4. OwnClaim(p)' = OwnClaim(p) /\ proc'[p].pc = "stamp"
      BY <2>1, <3>1 DEF OwnClaim, Request, RInv, Shape, ProcFields
    <3>5. \A q \in Procs \ {p} : proc'[q] = proc[q]
      BY <2>1 DEF RInv, Shape
    <3> QED
      BY <3>2, <3>3, <3>4, <3>5 DEF Arrived, Claimed
  <2>2. CASE HasOperation(Row(p)) /\ VerifyCopyRow(p, Row(p)) /\ Row(p).phase # "complete"
             /\ Proceed(p, Row(p))
    <3> DEFINE row == Row(p)
               todo == IF row.source = NoSnapshot THEN {} ELSE Entries(row.source)
               point == CASE row.phase = "recorded" -> "snapshot"
                          [] row.phase = "source-snapshot-durable" -> "copy"
                          [] row.phase = "tree-durable" -> "reprove"
    <3>1. proc' = [proc EXCEPT ![p].request = row.request, ![p].id = row.id,
                               ![p].todo = todo, ![p].pc = point]
      BY <2>2 DEF Proceed
    <3>2. row.phase \in {"recorded", "source-snapshot-durable", "tree-durable"}
      BY <1>3, <2>2, RequestKnown DEF RInv, RowSound, TakeDestination, At, Row
    <3>3. point \in {"snapshot", "copy", "reprove"}
      BY <3>2
    <3> HIDE DEF row, todo, point
    <3>4. proc'[p].pc = point /\ \A q \in Procs \ {p} : proc'[q] = proc[q]
      BY <3>1 DEF RInv, Shape, ProcFields
    <3> QED
      BY <3>3, <3>4, Unwatched DEF Watched
  <2> QED
    BY <1>0, <1>3, <2>1, <2>2 DEF TakeDestination, Proceed
<1>4. CASE SnapshotSource(p)
  <2>1. ASSUME NEW todo, proc' = [proc EXCEPT ![p].pc = "copy", ![p].todo = todo]
        PROVE  Arrived(p)
    <3>1. proc'[p].pc = "copy" /\ \A q \in Procs \ {p} : proc'[q] = proc[q]
      BY <2>1 DEF RInv, Shape, ProcFields
    <3> QED
      BY <3>1, Unwatched DEF Watched
  <2> QED
    BY <1>4, <2>1, NeedSourceArrives DEF SnapshotSource, At
<1>5. CASE VerifyDestination(p)
  BY <1>0, <1>5, NeedSourceArrives, AfterCopyArrives
     DEF VerifyDestination, At, Reads, store
<1>6. CASE CopyEntry(p)
  <2>1. ASSUME NEW l, \/ proc' = [proc EXCEPT ![p].todo = @ \ {l}]
                      \/ proc' = [proc EXCEPT ![p].pc = "write", ![p].leaf = l,
                                  ![p].todo = @ \ {l}]
        PROVE  Arrived(p)
    <3>1. proc'[p].pc \in {"copy", "write"} /\ \A q \in Procs \ {p} : proc'[q] = proc[q]
      BY <1>6, <2>1 DEF RInv, Shape, ProcFields, CopyEntry, At
    <3> QED
      BY <3>1, Unwatched DEF Watched
  <2> QED
    BY <1>0, <1>6, <2>1 DEF CopyEntry
<1>7. CASE CopyDone(p)
  BY <1>7, AfterCopyArrives DEF CopyDone
<1> QED
  BY <1>1, <1>2, <1>3, <1>4, <1>5, <1>6, <1>7

\* So do the steps that remove the claim and complete the row.
LEMMA FinishArrives ==
  ASSUME RInv, Core, NEW p \in Procs,
         \/ WriteEntry(p) \/ ApplyOverride(p) \/ CreateOverride(p) \/ OverridesDone(p)
         \/ ProveCopy(p) \/ ReproveCopy(p) \/ RemoveClaim(p) \/ Complete(p)
         \/ Admit(p) \/ Serve(p) \/ Migrate(p)
  PROVE  Arrived(p)
<1>0. ASSUME NEW why, End(p, why) PROVE Arrived(p)
  BY <1>0, EndArrives
<1>1. CASE WriteEntry(p)
  BY <1>1, GoArrives DEF WriteEntry, Watched
<1>2. CASE ApplyOverride(p)
  <2>1. PICK l \in proc[p].todo :
          proc' = [proc EXCEPT ![p].todo = @ \ {l}, ![p].leaf = l,
                   ![p].pc = IF tree[l] = Override THEN "override" ELSE "create"]
    BY <1>2 DEF ApplyOverride
  <2> DEFINE pc == IF tree[l] = Override THEN "override" ELSE "create"
  <2>2. pc \in {"override", "create"}
    OBVIOUS
  <2> HIDE DEF pc
  <2>3. proc' = [proc EXCEPT ![p].todo = @ \ {l}, ![p].leaf = l, ![p].pc = pc]
    BY <2>1 DEF pc
  <2>4. proc'[p].pc = pc /\ \A q \in Procs \ {p} : proc'[q] = proc[q]
    BY <2>3 DEF RInv, Shape, ProcFields
  <2> QED
    BY <2>2, <2>4, Unwatched DEF Watched
<1>3. CASE CreateOverride(p)
  BY <1>0, <1>3, GoArrives DEF CreateOverride, Watched
<1>4. CASE OverridesDone(p) \/ ProveCopy(p) \/ ReproveCopy(p)
  BY <1>0, <1>4, GoArrives DEF OverridesDone, ProveCopy, ReproveCopy, Watched
<1>5. CASE RemoveClaim(p)
  <2>1. CASE claim' = Nothing /\ Go(p, "complete")
    BY <2>1, GoFrame DEF Arrived, ProcFrame
  <2> QED
    BY <1>0, <1>5, <2>1 DEF RemoveClaim
<1>6. CASE Complete(p) \/ Admit(p) \/ Serve(p) \/ Migrate(p)
  BY <1>0, <1>6 DEF Complete, Admit, Serve, Migrate
<1> QED
  BY <1>1, <1>2, <1>3, <1>4, <1>5, <1>6

(* Every step of a command reaches a watched point only with the claim it  *)
(* needs.                                                                  *)
LEMMA Arrives ==
  ASSUME RInv, Core, [RNext]_rvars, ~raced', ~touched'
  PROVE  UNCHANGED proc \/ \E p \in Procs : Arrived(p)
<1>1. ASSUME NEW p \in Procs, Step(p) PROVE Arrived(p)
  BY <1>1, RegisterArrives, CopyArrives, FinishArrives DEF Step
<1>2. ASSUME NEW p \in Procs, Kill(p) PROVE Arrived(p)
  BY <1>2, EndArrives DEF Kill
<1>3. CASE SourceMoves \/ Outside \/ UNCHANGED rvars
  BY <1>3 DEF SourceMoves, Outside, rvars
<1> QED
  BY <1>1, <1>2, <1>3, BeginArrives DEF RNext

(* The claim goes on showing the operation that is recorded and not yet    *)
(* proved.                                                                 *)
LEMMA ClaimShowsKeeps ==
  ASSUME RInv, Core, [RNext]_rvars, ~raced', ~touched', NEW q \in Procs
  PROVE  ClaimShows(q)'
<1>1. \A p \in Procs : proc'[p] = proc[p] \/ Arrived(p)
  BY Arrives DEF Arrived
<1>2. CASE proc'[q] = proc[q]
  <2>1. OwnClaim(q)' = OwnClaim(q) /\ Kind(q)' = Kind(q)
    BY <1>2 DEF OwnClaim, Kind, Request
  <2>2. ASSUME At(q, "write_claim"), NEW p \in Procs, At(p, "write_claim")' PROVE p = q
    <3>1. claim = Torn /\ claim # Nothing /\ \A r \in Procs : At(r, "write_claim") => r = q
      BY <2>2, ClaimValues DEF Core, ClaimShows, At
    <3>2. proc'[p] = proc[p]
      BY <1>1, <2>2, <3>1 DEF Arrived, At
    <3> QED
      BY <2>2, <3>1, <3>2 DEF At
  <2> QED
    BY <1>2, <2>1, <2>2, Stays DEF ClaimShows, At
<1>3. CASE proc'[q] # proc[q]
  <2>1. Arrived(q)
    BY <1>1, <1>3
  <2>2. ASSUME At(q, "write_claim")', NEW p \in Procs, At(p, "write_claim")' PROVE p = q
    <3>1. claim = Nothing /\ claim # Torn
      BY <2>1, <2>2, ClaimValues DEF Arrived, At
    <3>2. p # q => At(p, "write_claim")
      BY <2>1, <2>2 DEF Arrived, At
    <3> QED
      BY <3>1, <3>2 DEF Core, ClaimShows, At
  <2> QED
    BY <2>1, <2>2 DEF Arrived, ClaimShows, At
<1> QED
  BY <1>2, <1>3

-----------------------------------------------------------------------------
\* Initially nobody owns the root and there is no claim.
LEMMA InitOwner == RInit => OwnerInv
<1> SUFFICES ASSUME RInit PROVE Core
  BY DEF OwnerInv
<1>1. \A c \in Carriers : ~HasOperation(rows[c]) /\ rows[c].lifecycle = Null /\ rows[c].phase = Null
  BY EmptyRows DEF RInit, HasOperation
<1>2. \A c \in Carriers : Owner(c) <=> c \in stores
  <2>1. NoRow # Legacy
    BY EmptyRows, NoRow.origin # Legacy.origin DEF Null
  <2> QED
    BY <1>1, <2>1 DEF RInit, Owner, Null
<1>3. stores # {} => Geneses # {}
  <2> DEFINE genesis == CHOOSE g \in Payloads : TRUE
  <2>1. genesis \in Payloads
    BY CreationValues
  <2>2. stores # {} => tree[genesis] = genesis
    BY <2>1 DEF RInit, Leaves, ChainLeaves
  <2> QED
    BY <2>1, <2>2, CreationValues DEF Geneses, Present, Leaves, ChainLeaves
<1>4. OneOwner
  BY <1>2 DEF RInit, OneOwner
<1>5. OwnerShows
  BY <1>1, <1>2, <1>3 DEF RInit, OwnerShows, Null
<1>6. \A p \in Procs : ClaimShows(p)
  BY DEF RInit, ClaimShows, Idle
<1> QED
  BY <1>4, <1>5, <1>6 DEF Core

\* OwnerInv is inductive relative to RInv.
LEMMA NextOwner == RInv /\ OwnerInv /\ [RNext]_rvars => OwnerInv'
<1> SUFFICES ASSUME RInv, OwnerInv, [RNext]_rvars, ~raced', ~touched' PROVE Core'
  BY DEF OwnerInv
<1>1. Core
  BY ChainStays DEF OwnerInv
<1> QED
  BY <1>1, OneOwnerKeeps, OwnerShowsKeeps, ClaimShowsKeeps DEF Core

(* Every reachable state satisfies OwnerInv: unless a claim was raced for  *)
(* or the root touched from outside, at most one carrier owns the root, an *)
(* owner has a chain, and the claim shows the operation in progress.       *)
THEOREM OwnerHolds == RSpec => []OwnerInv
<1> QED
  BY InitOwner, NextOwner, InvHolds, PTL DEF RSpec

(* However commands interleave and die, at most one metadata root is       *)
(* writable over the root.                                                 *)
THEOREM OneWritableHolds == RSpec => []OneWritableCarrier
<1>1. OwnerInv => OneWritableCarrier
  BY DEF OwnerInv, Core, OneOwner, Owner, OneWritableCarrier
<1> QED
  BY <1>1, OwnerHolds, PTL

(* The claim names the one operation that is recorded and not yet proved.  *)
THEOREM ClaimNamesHolds == RSpec => []ClaimNamesOperation
<1>1. RInv /\ OwnerInv => ClaimNamesOperation
  <2> SUFFICES ASSUME RInv, Core, NEW c \in Carriers, HasOperation(rows[c]),
                      rows[c].phase # "complete"
               PROVE  \/ claim = [id |-> rows[c].id, request |-> rows[c].request]
                      \/ claim = Nothing /\ rows[c].phase = "tree-durable"
    BY DEF OwnerInv, ClaimNamesOperation
  <2>1. rows[c].phase \in {"recorded", "source-snapshot-durable", "tree-durable"}
    BY DEF RInv, RowSound
  <2> QED
    BY <2>1 DEF Core, OwnerShows, Owner, NamesRow
<1> QED
  BY <1>1, InvHolds, OwnerHolds, PTL

-----------------------------------------------------------------------------
(* Copies.  Whatever happens to the files, a root is made by one copy at   *)
(* most, and nobody registers it before that copy is done.                 *)

Copying == {"replicate", "fork"}

\* A request that a claim, a row or a command with its id speaks for.
Known(r) ==
  \/ Claimed /\ claim.request = r
  \/ \E c \in Carriers : HasOperation(rows[c]) /\ rows[c].request = r
  \/ \E p \in Procs : /\ proc[p].pc \in {"destination", "source", "stamp"}
                      /\ proc[p].id # 0 /\ Request(p) = r
Copies == {r \in Asked : r.kind \in Copying /\ Known(r)}

InRow(r) == HasOperation(rows[r.carrier]) /\ rows[r.carrier].request = r
Phase(r) == rows[r.carrier].phase
Done(r) == InRow(r) /\ Phase(r) \in {"tree-durable", "complete"}

OneCopy == \A r, s \in Copies : r = s

\* A root that is not there has nothing in it and nobody at work.
Before ==
  ~exists =>
    /\ Copies = {} /\ \A l \in Leaves : tree[l] = Absent
    /\ \A c \in Carriers : ~HasOperation(rows[c])
    /\ \A p \in Procs : ~At(p, "stamp")

\* A copy names its head, and has the claim until it is done.
Pending ==
  \A r \in Copies :
    r.head \in 1..Tip /\ (Done(r) \/ (Claimed /\ claim.request = r))

\* Who registers a root finds every copy done.
Registering ==
  \/ \E c \in Carriers : rows[c].kind = "register"
  \/ \E p \in Procs : proc[p].pc \in {"claim", "write_claim", "stamp"} /\ Kind(p) = "register"
KeptOut == Registering => \A r \in Copies : Done(r)

(* The source of a copy does not move while the copy has it; what a        *)
(* command that is about to write its row has found there.                 *)
Holding(p) ==
  /\ Fed(p) => ~At(p, "idle") /\ Request(p).head = Tip
  /\ proc[p].pc \in {"claim", "write_claim", "stamp"} => ~HasOperation(Row(p))
  /\ At(p, "stamp") /\ Kind(p) \in Copying => proc[p].id # 0
  /\ At(p, "write") \/ At(p, "claim_root") => Fed(p)
  /\ At(p, "serve") => Row(p).phase = "complete"
  /\ At(p, "migrate") => Row(p) \in {Legacy, Migrated}

Unfinished ==
  \A c \in Carriers :
    HasOperation(rows[c]) /\ rows[c].phase # "complete" =>
      rows[c].lifecycle = "read-only-unserviceable"

CopyInv ==
  /\ OneCopy /\ Before /\ Pending /\ KeptOut /\ Unfinished
  /\ \A p \in Procs : Holding(p)

-----------------------------------------------------------------------------
(* What a copy has put into the root, while no outside writer touches it.  *)

\* The source at the head that a request names.
Wanted(r) ==
  [l \in Leaves |-> CASE l \in Paths -> past[r.head][l]
                     [] l = History /\ r.kind = "replicate" -> r.head
                     [] OTHER -> Absent]

Overrides(r) == IF r.kind = "fork" THEN Overridden ELSE {}

\* What may be found at a leaf while the copy is made.
Possible(r, l) ==
  {Absent}
    \cup (IF Wanted(r)[l] = Absent THEN {} ELSE {Torn, Wanted(r)[l]})
    \cup (IF l \in Overrides(r) THEN {Torn, Override} ELSE {})
    \cup (IF r.kind = "fork" /\ l \in {Staging, r.payload} THEN {r.payload} ELSE {})

\* The root that a finished copy leaves.
Final(r) ==
  [l \in Leaves |-> CASE l \in Overrides(r) -> Override
                     [] l = r.payload /\ r.kind = "fork" -> l
                     [] OTHER -> Wanted(r)[l]]

PastSound == \A h \in 1..Tip, l \in Paths : past[h][l] \in 1..MaxHead

SourceKept ==
  \A r \in Copies :
    InRow(r) /\ Phase(r) # "recorded" =>
      rows[r.carrier].source = Wanted(r)

Overruled(r) == \A l \in Overrides(r) : tree[l] = Override

TreeFits(r) ==
  /\ ~InRow(r) \/ Phase(r) = "recorded" => \A l \in Leaves : tree[l] = Absent
  /\ InRow(r) /\ Phase(r) = "source-snapshot-durable" =>
       /\ \A l \in Leaves : tree[l] \in Possible(r, l)
       /\ r.kind = "fork" /\ tree[r.payload] # Absent => Overruled(r)
  /\ Done(r) => tree = Final(r) /\ rows[r.carrier].proof = tree

\* What the command at work on a copy has done so far.
Copied(p, S) == \A l \in Entries(Wanted(Request(p))) \ S : tree[l] = Wanted(Request(p))[l]

Working(p) ==
  LET r == Request(p)  pc == proc[p].pc IN
  pc # "idle" /\ r.kind \in Copying =>
    /\ pc = "copy" /\ Fed(p) => Copied(p, proc[p].todo)
    /\ pc = "write" => Copied(p, proc[p].todo \cup {proc[p].leaf}) /\ tree[proc[p].leaf] = Torn
    /\ pc \in {"chain", "override", "create", "overwrite", "stage", "publish", "prove"} =>
         Copied(p, Overrides(r))
    /\ pc \in {"override", "create", "overwrite", "stage", "publish"} => tree[r.payload] = Absent
    /\ pc = "override" => \A l \in Overridden \ proc[p].todo : tree[l] = Override
    /\ pc \in {"create", "overwrite"} =>
         /\ \A l \in Overridden \ (proc[p].todo \cup {proc[p].leaf}) : tree[l] = Override
         /\ tree[proc[p].leaf] = IF pc = "create" THEN Absent ELSE Torn
    /\ pc \in {"stage", "publish"} => Overruled(r)
    /\ pc = "prove" /\ r.kind = "fork" => tree[r.payload] = r.payload

CopyTree ==
  /\ tree = [l \in Leaves |-> tree[l]]
  /\ PastSound /\ SourceKept
  /\ \A r \in Copies : TreeFits(r)
  /\ \A p \in Procs : Working(p)
CopyTreeInv == touched \/ CopyTree

-----------------------------------------------------------------------------
(* What a register has put into the root, while no outside writer touches  *)
(* it and no register claims a root that has a chain.                      *)

RegisterTree ==
  /\ (\A c \in Carriers : ~Owner(c)) => \A l \in Leaves : tree[l] = Absent
  /\ \A c \in Carriers : rows[c].kind = "register" =>
       LET genesis == rows[c].request.payload IN
       /\ \A l \in Leaves : tree[l] \in {Absent, genesis}
       /\ \A l \in Leaves \ {Staging, genesis} : tree[l] = Absent
       /\ rows[c].phase \in {"tree-durable", "complete"} =>
            tree[Staging] = Absent /\ tree[genesis] = genesis /\ rows[c].proof = tree
  /\ \A p \in Procs :
       At(p, "prove") /\ Kind(p) = "register" => tree[Staging] = Absent
  /\ \A p \in Procs :
       At(p, "admit") =>
         exists /\ claim = Nothing /\ Geneses # {} /\ Row(p) \in {NoRow, Admitted}
RegisterTreeInv == raced \/ touched \/ RegisterTree

-----------------------------------------------------------------------------
(* What a step of one command leaves to the others.                        *)

Acts(p) ==
  \/ Step(p) \/ Kill(p)
  \/ \E r \in Requests :
       RegisterLooks(p, r) \/ CopyLooks(p, r) \/ GrantLooks(p, r) \/ MigrateLooks(p, r)
  \/ \E c \in Carriers : ResumeFork(p, c)

\* Its own program point and locks are what a command changes, and no other's.
Turn(p) ==
  /\ \A q \in Procs \ {p} : proc'[q] = proc[q]
  /\ \A k \in Carriers \cup {Source} : locks'[k] \in {locks[k], p, Nobody}
  /\ \A k \in Carriers \cup {Source} : locks[k] \notin {p, Nobody} => locks'[k] = locks[k]

\* A command that ends gives its locks back and changes nothing of the others.
LEMMA EndTurn ==
  ASSUME RInv, NEW p \in Procs, NEW why, End(p, why)
  PROVE  /\ \A q \in Procs \ {p} : proc'[q] = proc[q]
         /\ \A k \in Carriers \cup {Source} : locks'[k] \in {locks[k], Nobody} \ {p}
         /\ \A k \in Carriers \cup {Source} : locks[k] # p => locks'[k] = locks[k]
         /\ proc'[p] = Idle(why) /\ At(p, "idle")'
BY CreationValues DEF RInv, Shape, End, Idle, At

\* A command that moves on keeps its locks.
LEMMA GoTurn ==
  ASSUME RInv, NEW p \in Procs, NEW pc, Go(p, pc)
  PROVE  /\ \A q \in Procs \ {p} : proc'[q] = proc[q]
         /\ locks' = locks /\ proc' = [proc EXCEPT ![p].pc = pc]
BY DEF RInv, Shape, Go

\* A step of a command leaves the others' program points and locks alone.
LEMMA StepTurn ==
  ASSUME RInv, NEW p \in Procs, Step(p) \/ Kill(p)
  PROVE  Turn(p)
<1>1. ASSUME NEW why, End(p, why) PROVE Turn(p)
  BY <1>1, EndTurn DEF Turn
<1>2. ASSUME NEW pc, Go(p, pc) PROVE Turn(p)
  BY <1>2, GoTurn DEF Turn
<1>3. ASSUME \A q \in Procs \ {p} : proc'[q] = proc[q],
             \/ UNCHANGED locks
             \/ \E k \in Carriers \cup {Source} :
                  /\ Free(k) \/ locks[k] = p
                  /\ locks' = [locks EXCEPT ![k] = p] \/ locks' = [locks EXCEPT ![k] = Nobody]
      PROVE Turn(p)
  BY <1>3 DEF RInv, Shape, Free, Turn
<1>4. CASE RegisterLeases(p) \/ AdoptOperation(p) \/ CreateClaim(p) \/ WriteClaim(p)
  <2>1. Carrier(p) \in Carriers
    BY <1>4, RequestKnown DEF RegisterLeases, AdoptOperation, CreateClaim, WriteClaim, At
  <2> QED
    BY <1>1, <1>2, <1>3, <1>4, <2>1
       DEF RegisterLeases, AdoptOperation, CreateClaim, WriteClaim, Lock, RInv, Shape
<1>5. CASE Stamp(p) \/ ReadChain(p) \/ StageGenesis(p) \/ PublishGenesis(p) \/ ProveRegister(p)
  BY <1>1, <1>2, <1>3, <1>5
     DEF Stamp, ReadChain, StageGenesis, PublishGenesis, ProveRegister, RInv, Shape
<1>6. CASE TakeSource(p) \/ ClaimRoot(p)
  BY <1>1, <1>2, <1>3, <1>6 DEF TakeSource, ClaimRoot, Lock, RInv, Shape
<1>7. CASE TakeDestination(p)
  <2>1. Carrier(p) \in Carriers
    BY <1>7, RequestKnown DEF TakeDestination, At
  <2>2. CASE \E why : End(p, why)
    BY <1>1, <2>2
  <2>3. CASE Free(Carrier(p)) /\ Lock(p, Carrier(p)) /\ proc' = [proc EXCEPT ![p].pc = "stamp"]
    BY <1>3, <2>1, <2>3 DEF Lock, RInv, Shape
  <2>4. CASE Free(Carrier(p)) /\ Proceed(p, Row(p))
    BY <1>1, <1>3, <2>1, <2>4 DEF Proceed, Lock, RInv, Shape
  <2> QED
    BY <1>7, <2>2, <2>3, <2>4 DEF TakeDestination
<1>8. ASSUME proc[p].pc \in {"snapshot", "copy"}, NeedSource(p) PROVE Turn(p)
  <2>1. Carrier(p) \in Carriers /\ locks[Carrier(p)] = p
    BY <1>8, RequestKnown DEF RInv, HoldsLock, Held, Engaged, At
  <2> QED
    BY <1>3, <1>8, <2>1 DEF NeedSource, RInv, Shape
<1>9. CASE SnapshotSource(p) \/ VerifyDestination(p) \/ CopyDone(p)
  BY <1>1, <1>2, <1>3, <1>8, <1>9 DEF SnapshotSource, VerifyDestination, CopyDone, At, RInv, Shape
<1>10. CASE CopyEntry(p) \/ WriteEntry(p) \/ ApplyOverride(p) \/ CreateOverride(p) \/ OverridesDone(p)
  BY <1>1, <1>2, <1>3, <1>10
     DEF CopyEntry, WriteEntry, ApplyOverride, CreateOverride, OverridesDone, RInv, Shape
<1>11. CASE ProveCopy(p) \/ ReproveCopy(p) \/ RemoveClaim(p) \/ Complete(p)
            \/ Admit(p) \/ Serve(p) \/ Migrate(p) \/ Kill(p)
  BY <1>1, <1>2, <1>11
     DEF ProveCopy, ReproveCopy, RemoveClaim, Complete, Admit, Serve, Migrate, Kill
<1> QED
  BY <1>4, <1>5, <1>6, <1>7, <1>9, <1>10, <1>11 DEF Step

\* ... and so does one that starts; the past is the source's.
LEMMA ActsTurn ==
  ASSUME RInv, NEW p \in Procs, Acts(p)
  PROVE  Turn(p) /\ UNCHANGED past
<1>1. ASSUME NEW command, Begin(p, command) PROVE Turn(p) /\ UNCHANGED past
  BY <1>1 DEF Begin, RInv, Shape, Turn
<1>2. CASE Step(p)
  <2>1. UNCHANGED past
    BY <1>2 DEF Step, RegisterLeases, AdoptOperation, CreateClaim, WriteClaim, Stamp, ReadChain,
       StageGenesis, PublishGenesis, ProveRegister, TakeSource, ClaimRoot, TakeDestination,
       SnapshotSource, VerifyDestination, CopyEntry, CopyDone, WriteEntry, ApplyOverride,
       CreateOverride, OverridesDone, ProveCopy, ReproveCopy, RemoveClaim, Complete, Admit,
       Serve, Migrate, Reads, Others
  <2> QED
    BY <1>2, <2>1, StepTurn
<1>3. CASE Kill(p)
  BY <1>3, StepTurn DEF Kill
<1> QED
  BY <1>1, <1>2, <1>3
     DEF Acts, RegisterLooks, CopyLooks, GrantLooks, MigrateLooks, ResumeFork

\* Every step is a command's, the source's, or the outside writer's.
LEMMA Steps ==
  ASSUME [RNext]_rvars
  PROVE  (\E p \in Procs : Acts(p)) \/ SourceMoves \/ Outside \/ UNCHANGED rvars
BY DEF RNext, Acts

\* A row changes at the hands of a command on its carrier that nobody locks out.
LEMMA RowsHeld ==
  ASSUME RInv, NEW p \in Procs, Acts(p), NEW c \in Carriers, rows'[c] # rows[c]
  PROVE  RowActions(p) /\ Carrier(p) = c /\ locks[c] \in {p, Nobody}
<1>1. RowActions(p)
  <2>1. CASE Step(p)
    BY <2>1 DEF Step, RowActions, RegisterLeases, AdoptOperation, CreateClaim, WriteClaim,
       ReadChain, StageGenesis, PublishGenesis, TakeSource, ClaimRoot, TakeDestination,
       VerifyDestination, CopyEntry, CopyDone, WriteEntry, ApplyOverride, CreateOverride,
       OverridesDone, ReproveCopy, RemoveClaim, Reads, store
  <2>2. CASE ~Step(p)
    BY <2>2 DEF Acts, Kill, RegisterLooks, CopyLooks, GrantLooks, MigrateLooks, ResumeFork,
                Begin, store
  <2> QED
    BY <2>1, <2>2
<1>2. ~At(p, "idle")
  BY <1>1 DEF RowActions, Stamp, ProveRegister, SnapshotSource, ProveCopy, Complete, Admit,
              Serve, Migrate, At
<1>3. Carrier(p) = c
  BY <1>1, <1>2, RequestKnown
     DEF RowActions, Stamp, ProveRegister, SnapshotSource, ProveCopy, Complete, Admit, Serve,
         Migrate, RInv, Shape
<1>4. locks[c] \in {p, Nobody}
  BY <1>1, <1>3 DEF RowActions, Stamp, ProveRegister, SnapshotSource, ProveCopy, Complete, Admit,
     Serve, Migrate, RInv, HoldsLock, Held, Engaged, At, Free
<1> QED
  BY <1>1, <1>3, <1>4

\* What a command relies on, nobody else changes.
LEMMA RowStays ==
  ASSUME RInv, NEW p \in Procs, Acts(p), NEW q \in Procs \ {p}, proc[q].pc \in Held
  PROVE  Row(q)' = Row(q)
<1>1. Carrier(q) \in Carriers /\ locks[Carrier(q)] = q
  BY RequestKnown DEF RInv, HoldsLock, Held, Engaged, At
<1>2. rows'[Carrier(q)] = rows[Carrier(q)]
  BY <1>1, RowsHeld, CreationValues
<1>3. proc'[q] = proc[q]
  BY ActsTurn DEF Turn
<1> QED
  BY <1>2, <1>3 DEF Row, Carrier, Request

\* What holds of a command holds while the others act.
LEMMA HoldingStays ==
  ASSUME RInv, NEW q \in Procs, Holding(q), NEW p \in Procs \ {q}, Acts(p)
  PROVE  Holding(q)'
<1>1. proc'[q] = proc[q] /\ UNCHANGED past /\ (Fed(q)' <=> Fed(q))
  BY ActsTurn, CreationValues DEF Turn, Fed
<1>2. Request(q)' = Request(q) /\ Kind(q)' = Kind(q) /\ Carrier(q)' = Carrier(q) /\ Tip' = Tip
  BY <1>1 DEF Request, Kind, Carrier, Tip
<1>3. proc[q].pc \in Held => Row(q)' = Row(q)
  BY RowStays
<1>4. At(q, "serve") \/ At(q, "migrate") =>
        /\ Row(q).phase = "complete" /\ HasOperation(Row(q)) => Row(q)'.phase = "complete"
        /\ Row(q) \in {Legacy, Migrated} => Row(q)' \in {Legacy, Migrated}
  <2> SUFFICES ASSUME At(q, "serve") \/ At(q, "migrate")
               PROVE  /\ Row(q).phase = "complete" /\ HasOperation(Row(q))
                           => Row(q)'.phase = "complete"
                      /\ Row(q) \in {Legacy, Migrated} => Row(q)' \in {Legacy, Migrated}
    OBVIOUS
  <2>1. PICK c \in Carriers : c = Carrier(q)
    BY RequestKnown DEF At
  <2>2. Row(q) = rows[c] /\ Row(q)' = rows'[c]
    BY <1>2, <2>1 DEF Row
  <2>3. [RNext]_rvars
    BY DEF RNext, Acts
  <2>4. Advances(c)
    BY <2>3, RowAdvances
  <2>5. Legacy # NoRow /\ Migrated # NoRow /\ Migrated # Legacy
        /\ ~HasOperation(Legacy) /\ ~HasOperation(Migrated)
    BY EmptyRows DEF HasOperation, Null
  <2> QED
    BY <2>2, <2>4, <2>5 DEF Advances
<1>5. At(q, "serve") => HasOperation(Row(q))
  BY DEF RInv, RowFits, At
<1> QED
  BY <1>1, <1>2, <1>3, <1>4, <1>5 DEF Holding, At, Held

-----------------------------------------------------------------------------
(* Where a command of its own step lands.                                  *)

Special ==
  {"idle", "claim", "write_claim", "stamp", "claim_root", "destination", "source", "write",
   "serve", "migrate"}

\* The request of a command that has an id is known, or just made with the root.
Makes(r) ==
  /\ ~exists /\ exists' /\ Claimed' /\ claim'.request = r /\ r.head = Tip
  /\ UNCHANGED <<rows, tree>>
Names(p) ==
  /\ proc'[p].pc \in {"destination", "source", "stamp"} /\ proc'[p].id # 0
  /\ Kind(p)' \in Copying
  => Request(p)' \in Copies \/ Makes(Request(p)')
Registers(p) ==
  proc'[p].pc \in {"claim", "write_claim", "stamp"} /\ Kind(p)' = "register" =>
    exists /\ \A r \in Copies : Done(r)
Lands(p) == Holding(p)' /\ Names(p) /\ Registers(p)

\* Nothing is asked of a command elsewhere but that its source did not move.
LEMMA Elsewhere ==
  ASSUME RInv, NEW p \in Procs, Holding(p), UNCHANGED past, proc'[p].pc \notin Special,
         Fed(p)' => Fed(p) /\ Request(p)'.head = Request(p).head
  PROVE  Lands(p)
BY DEF Lands, Holding, Names, Registers, Special, Tip, At

\* A command that ends has given the source back.
LEMMA EndLands ==
  ASSUME RInv, NEW p \in Procs, NEW why, End(p, why)
  PROVE  Lands(p)
<1>1. ~Fed(p)' /\ proc'[p].pc = "idle"
  BY EndTurn DEF Fed, At
<1> QED
  BY <1>1 DEF Lands, Holding, Names, Registers, At

\* Going on elsewhere.
LEMMA GoLands ==
  ASSUME RInv, NEW p \in Procs, Holding(p), NEW pc, Go(p, pc), pc \notin Special, UNCHANGED past
  PROVE  Lands(p)
BY GoFrame, Elsewhere DEF Fed, Request

\* The commands of a register.
LEMMA RegisterLands ==
  ASSUME RInv, CopyInv, NEW p \in Procs,
         \/ RegisterLeases(p) \/ AdoptOperation(p) \/ CreateClaim(p) \/ WriteClaim(p)
         \/ Stamp(p) \/ ReadChain(p) \/ StageGenesis(p) \/ PublishGenesis(p) \/ ProveRegister(p)
  PROVE  Lands(p)
<1>0. Holding(p) /\ UNCHANGED past /\ ~At(p, "idle")
  BY ActsTurn DEF Acts, Step, CopyInv, RegisterLeases, AdoptOperation, CreateClaim, WriteClaim,
     Stamp, ReadChain, StageGenesis, PublishGenesis, ProveRegister, At
<1>1. ASSUME NEW why, End(p, why) PROVE Lands(p)
  BY <1>1, EndLands
<1>2. ASSUME NEW pc, Go(p, pc), pc \notin Special PROVE Lands(p)
  BY <1>0, <1>2, GoLands
<1>3. ~At(p, "idle") => Carrier(p) \in Carriers
  BY RequestKnown
<1>4. CASE RegisterLeases(p)
  <2>1. CASE Lock(p, Carrier(p)) /\ proc' = [proc EXCEPT ![p].pc = "adopt"]
    <3>1. proc'[p].pc = "adopt" /\ proc'[p].request = Request(p) /\ locks'[Source] = locks[Source]
      BY <1>0, <1>3, <2>1, CreationValues DEF RInv, Shape, ProcFields, Request, Lock
    <3> QED
      BY <1>0, <3>1, Elsewhere DEF Special, Fed, Request
  <2> QED
    BY <1>1, <1>4, <2>1 DEF RegisterLeases
<1>5. CASE AdoptOperation(p)
  <2>0. Kind(p) = "register" /\ exists /\ UNCHANGED <<claim, rows, exists, past>>
    BY <1>5 DEF AdoptOperation, At, RInv, RequestFits, Reads, disk, store, Others
  <2>1. CASE ~HasOperation(Row(p)) /\ UNCHANGED locks
             /\ \/ /\ proc' = [proc EXCEPT ![p].pc = "stamp", ![p].id = claim.id]
                   /\ Claimed /\ claim.request = Request(p)
                \/ proc' = [proc EXCEPT ![p].pc = "claim"] /\ ~Claimed
    <3>1. proc'[p].pc \in {"stamp", "claim"} /\ proc'[p].request = Request(p)
      BY <2>1 DEF RInv, Shape, ProcFields, Request
    <3>2. Row(p)' = Row(p) /\ Kind(p)' = "register"
          /\ (Fed(p)' <=> Fed(p)) /\ Request(p)' = Request(p)
      BY <2>0, <2>1, <3>1 DEF Row, Carrier, Request, Kind, Fed
    <3>3. ASSUME NEW r \in Copies PROVE Done(r)
      <4>1. r.kind # "register" /\ (Done(r) \/ (Claimed /\ claim.request = r))
        BY DEF CopyInv, Pending, Copies, Copying
      <4> QED
        BY <2>0, <2>1, <4>1 DEF Kind
    <3>4. Holding(p)'
      BY <1>0, <2>0, <2>1, <3>1, <3>2 DEF Holding, At, Copying, Tip
    <3> QED
      BY <2>0, <3>2, <3>3, <3>4 DEF Lands, Names, Registers, Copying
  <2>2. CASE proc' = [proc EXCEPT ![p].pc = "chain", ![p].id = Row(p).id] /\ UNCHANGED locks
    <3>1. proc'[p].pc = "chain" /\ proc'[p].request = Request(p)
      BY <2>2 DEF RInv, Shape, ProcFields, Request
    <3> QED
      BY <1>0, <2>2, <3>1, Elsewhere DEF Special, Fed, Request
  <2> QED
    BY <1>1, <1>5, <2>1, <2>2 DEF AdoptOperation
<1>6. CASE CreateClaim(p) \/ WriteClaim(p)
  <2>0. /\ Kind(p) = "register" /\ exists /\ UNCHANGED <<rows, past>>
        /\ ~HasOperation(Row(p)) /\ \A r \in Copies : Done(r)
    BY <1>0, <1>6 DEF CreateClaim, WriteClaim, At, RInv, RequestFits, store, Others, Holding,
       CopyInv, KeptOut, Registering
  <2>1. CASE proc'[p].pc \in {"write_claim", "stamp"} /\ proc'[p].request = Request(p)
             /\ UNCHANGED locks
    <3>2. Row(p)' = Row(p) /\ Kind(p)' = "register"
          /\ (Fed(p)' <=> Fed(p)) /\ Request(p)' = Request(p)
      BY <2>0, <2>1 DEF Row, Carrier, Request, Kind, Fed
    <3>4. Holding(p)'
      BY <1>0, <2>0, <2>1, <3>2 DEF Holding, At, Copying, Tip
    <3> QED
      BY <2>0, <3>2, <3>4 DEF Lands, Names, Registers, Copying
  <2>2. CASE CreateClaim(p)
    <3>1. ASSUME NEW n, proc' = [proc EXCEPT ![p].pc = "write_claim", ![p].id = n]
          PROVE  proc'[p].pc \in {"write_claim", "stamp"} /\ proc'[p].request = Request(p)
      BY <3>1 DEF RInv, Shape, ProcFields, Request
    <3> QED
      BY <1>1, <2>1, <2>2, <3>1 DEF CreateClaim
  <2>3. CASE WriteClaim(p)
    BY <2>1, <2>3, GoFrame DEF WriteClaim
  <2> QED
    BY <1>6, <2>2, <2>3
<1>7. CASE Stamp(p) \/ StageGenesis(p) \/ PublishGenesis(p) \/ ProveRegister(p)
  BY <1>1, <1>2, <1>7 DEF Stamp, StageGenesis, PublishGenesis, ProveRegister, Special
<1>8. CASE ReadChain(p)
  <2>1. CASE proc' = [proc EXCEPT ![p].pc = "override", ![p].todo = Overridden] /\ UNCHANGED locks
    <3>1. proc'[p].pc = "override" /\ proc'[p].request = Request(p)
      BY <2>1 DEF RInv, Shape, ProcFields, Request
    <3> QED
      BY <1>0, <2>1, <3>1, Elsewhere DEF Special, Fed, Request
  <2> QED
    BY <1>1, <1>2, <1>8, <2>1 DEF ReadChain, Special
<1> QED
  BY <1>4, <1>5, <1>6, <1>7, <1>8

\* Commands start without the source, and with an id only as they found it.
LEMMA BeginLands ==
  ASSUME RInv, RInv', CopyInv, NEW p \in Procs,
         \/ \E r \in Requests :
              RegisterLooks(p, r) \/ CopyLooks(p, r) \/ GrantLooks(p, r) \/ MigrateLooks(p, r)
         \/ \E c \in Carriers : ResumeFork(p, c)
  PROVE  Lands(p)
<1>1. ASSUME NEW pc \in {"lease", "source", "destination", "admit", "serve", "migrate"},
             NEW r, NEW id, Begin(p, Command(pc, r, id)),
             pc \in {"source", "destination"} /\ id # 0 /\ r.kind \in Copying => r \in Copies,
             pc = "serve" => rows[r.carrier].phase = "complete",
             pc = "migrate" => rows[r.carrier] \in {Legacy, Migrated}
      PROVE  Lands(p)
  <2>1. /\ proc'[p].pc = pc /\ proc'[p].request = r /\ proc'[p].id = id
        /\ UNCHANGED <<rows, locks, past>> /\ At(p, "idle")
    BY <1>1 DEF RInv, Shape, Begin, Command, Idle, disk, store
  <2>2. ~Fed(p)'
    BY <2>1 DEF CopyInv, Holding, Fed
  <2>3. Row(p)' = rows[r.carrier] /\ Request(p)' = r /\ Kind(p)' = r.kind
    BY <2>1 DEF Row, Carrier, Request, Kind
  <2> QED
    BY <1>1, <2>1, <2>2, <2>3 DEF Lands, Holding, Names, Registers, At
<1>2. ASSUME NEW r \in Requests, RegisterLooks(p, r) PROVE Lands(p)
  BY <1>1, <1>2 DEF RegisterLooks
<1>3. ASSUME NEW r \in Requests, CopyLooks(p, r) PROVE Lands(p)
  <2>1. Claimed /\ claim.request.kind \in Copying => claim.request \in Copies
    BY DEF Copies, Known, RInv, ClaimSound
  <2> QED
    BY <1>1, <1>3, <2>1 DEF CopyLooks
<1>4. ASSUME NEW r \in Requests, GrantLooks(p, r) PROVE Lands(p)
  BY <1>1, <1>4 DEF GrantLooks
<1>5. ASSUME NEW r \in Requests, MigrateLooks(p, r) PROVE Lands(p)
  <2>1. r.carrier \in Carriers
    BY CreationValues, AskedFields
  <2>2. rows[r.carrier] = Legacy
    <3> SUFFICES ASSUME rows[r.carrier] # Legacy PROVE FALSE
      OBVIOUS
    <3>1. rows[r.carrier] # NoRow /\ rows[r.carrier].lifecycle = "version-2"
      BY <1>5 DEF MigrateLooks, View
    <3>2. RowSound(r.carrier)
      BY <2>1 DEF RInv
    <3>3. CASE ~HasOperation(rows[r.carrier])
      BY <3>1, <3>2, <3>3, EmptyRows DEF RowSound
    <3>4. CASE HasOperation(rows[r.carrier])
      BY <3>1, <3>2, <3>4
         DEF RowSound, WellFormedRow, Paired, OriginAdmits, Creations, Null
    <3> QED
      BY <3>3, <3>4
  <2> QED
    BY <1>1, <1>5, <2>2 DEF MigrateLooks
<1>6. ASSUME NEW c \in Carriers, ResumeFork(p, c) PROVE Lands(p)
  <2>1. CASE Claimed
    <3>1. claim.request \in Asked
      BY <2>1 DEF RInv, ClaimSound
    <3>2. claim.request.kind \in Copying => claim.request \in Copies
      BY <2>1, <3>1 DEF Copies, Known
    <3> QED
      BY <1>1, <1>6, <2>1, <3>2 DEF ResumeFork
  <2>2. CASE ~Claimed
    <3>1. HasOperation(rows[c])
      BY <1>6, <2>2 DEF ResumeFork, PendingFork, Claimed, HasOperation, Null
    <3>2. rows[c].request \in Asked
      BY <3>1 DEF RInv, RowSound
    <3>3. rows[c].request.kind \in Copying => rows[c].request \in Copies
      BY <3>1, <3>2 DEF Copies, Known
    <3> QED
      BY <1>1, <1>6, <2>2, <3>3 DEF ResumeFork
  <2> QED
    BY <2>1, <2>2
<1> QED
  BY <1>2, <1>3, <1>4, <1>5, <1>6

\* A source that is taken has the head that the request names.
LEMMA SourceLands ==
  ASSUME RInv, CopyInv, NEW p \in Procs, TakeSource(p)
  PROVE  Lands(p)
<1>0. /\ Holding(p) /\ UNCHANGED <<past, rows>> /\ At(p, "source")
      /\ Request(p) \in Asked /\ Kind(p) \in Copying
  BY ActsTurn, RequestKnown DEF Acts, Step, CopyInv, TakeSource, At, RInv, RequestFits, Copying,
     Reads, store
<1>1. CASE End(p, "refused")
  BY <1>1, EndLands
<1>2. CASE /\ Request(p).head \in {0, Tip} /\ Free(Source) /\ Lock(p, Source)
           /\ proc' = [proc EXCEPT
                ![p].pc = IF proc[p].id = 0 THEN "claim_root" ELSE "destination",
                ![p].request = [@ EXCEPT !.head = Tip]]
  <2>1. PICK pc : pc = IF proc[p].id = 0 THEN "claim_root" ELSE "destination"
    OBVIOUS
  <2>2. PICK r : r = [Request(p) EXCEPT !.head = Tip]
    OBVIOUS
  <2>3. proc' = [proc EXCEPT ![p].pc = pc, ![p].request = r]
    BY <1>2, <2>1, <2>2 DEF Request
  <2>4. /\ proc'[p].pc = pc /\ proc'[p].request = r /\ proc'[p].id = proc[p].id
    BY <2>3 DEF RInv, Shape, ProcFields
  <2>5. Fed(p)' /\ Tip' = Tip /\ r.head = Tip /\ r.kind = Kind(p)
    BY <1>0, <1>2, <2>2, AskedFields DEF RInv, Shape, Fed, Lock, Tip, Kind
  <2>6. ASSUME pc = "destination" PROVE r \in Copies
    <3>1. Request(p) \in Copies
      BY <1>0, <2>1, <2>6 DEF Copies, Known, At, Kind
    <3>2. Request(p).head = Tip
      BY <1>2, <3>1 DEF CopyInv, Pending
    <3>3. r = Request(p)
      BY <1>0, <2>2, <3>2 DEF Asked
    <3> QED
      BY <3>1, <3>3
  <2>7. Request(p)' = r /\ Kind(p)' = r.kind
    BY <2>4 DEF Request, Kind
  <2> QED
    BY <1>0, <2>1, <2>4, <2>5, <2>6, <2>7 DEF Lands, Holding, Names, Registers, At, Copying
<1> QED
  BY <1>1, <1>2 DEF TakeSource

\* A root that is made is the copy's that has the source.
LEMMA ClaimRootLands ==
  ASSUME RInv, CopyInv, NEW p \in Procs, ClaimRoot(p)
  PROVE  Lands(p)
<1>0. /\ Holding(p) /\ UNCHANGED <<past, rows, tree>> /\ At(p, "claim_root")
      /\ Request(p) \in Asked /\ Kind(p) \in Copying /\ Fed(p) /\ Request(p).head = Tip
  BY ActsTurn, RequestKnown DEF Acts, Step, CopyInv, ClaimRoot, At, RInv, RequestFits, Copying,
     Holding, store
<1>1. ASSUME NEW why, End(p, why) PROVE Lands(p)
  BY <1>1, EndLands
<1>2. ASSUME NEW n, proc' = [proc EXCEPT ![p].pc = "destination", ![p].id = n], UNCHANGED locks,
             Request(p) \in Copies \/ Makes(Request(p))
      PROVE  Lands(p)
  <2>1. proc'[p].pc = "destination" /\ proc'[p].request = Request(p)
    BY <1>2 DEF RInv, Shape, ProcFields, Request
  <2>2. Request(p)' = Request(p) /\ Kind(p)' = Kind(p) /\ Fed(p)' /\ Tip' = Tip
    BY <1>0, <1>2, <2>1 DEF Request, Kind, Fed, Tip
  <2> QED
    BY <1>0, <1>2, <2>1, <2>2 DEF Lands, Holding, Names, Registers, At, Copying
<1>3. CASE ~exists /\ exists' = TRUE /\ \E n \in Ids : claim' = [id |-> n, request |-> Request(p)]
           /\ proc' = [proc EXCEPT ![p].pc = "destination", ![p].id = n] /\ UNCHANGED locks
  <2>1. PICK n \in Ids : /\ claim' = [id |-> n, request |-> Request(p)]
                         /\ proc' = [proc EXCEPT ![p].pc = "destination", ![p].id = n]
                         /\ UNCHANGED locks
    BY <1>3
  <2>2. Claimed' /\ claim'.request = Request(p)
    BY <1>0, <2>1, ClaimValues DEF Claimed
  <2>3. Makes(Request(p))
    BY <1>0, <1>3, <2>2 DEF Makes
  <2> QED
    BY <1>2, <2>1, <2>3
<1>4. CASE Claimed /\ claim.request = Request(p) /\ UNCHANGED locks
           /\ proc' = [proc EXCEPT ![p].pc = "destination", ![p].id = claim.id]
  <2>1. Request(p) \in Copies
    BY <1>0, <1>4 DEF Copies, Known, Kind
  <2> QED
    BY <1>2, <1>4, <2>1
<1> QED
  BY <1>1, <1>3, <1>4 DEF ClaimRoot

\* A destination that is taken has the row that the command asks for.
LEMMA DestinationLands ==
  ASSUME RInv, CopyInv, NEW p \in Procs, TakeDestination(p)
  PROVE  Lands(p)
<1>0. /\ Holding(p) /\ UNCHANGED <<past, rows>> /\ At(p, "destination")
      /\ Request(p) \in Asked /\ Kind(p) \in Copying /\ Carrier(p) \in Carriers
  BY ActsTurn, RequestKnown DEF Acts, Step, CopyInv, TakeDestination, At, RInv, RequestFits, Copying
<1>1. ASSUME NEW why, End(p, why) PROVE Lands(p)
  BY <1>1, EndLands
<1>2. ASSUME Lock(p, Carrier(p)) PROVE locks'[Source] = locks[Source]
  BY <1>0, <1>2, CreationValues DEF RInv, Shape, Lock
<1>3. CASE /\ ~HasOperation(Row(p)) /\ proc[p].id # 0
           /\ Lock(p, Carrier(p)) /\ proc' = [proc EXCEPT ![p].pc = "stamp"]
  <2>1. proc'[p].pc = "stamp" /\ proc'[p].request = Request(p) /\ proc'[p].id = proc[p].id
    BY <1>3 DEF RInv, Shape, ProcFields, Request
  <2>2. /\ Request(p)' = Request(p) /\ Kind(p)' = Kind(p) /\ (Fed(p)' <=> Fed(p)) /\ Tip' = Tip
        /\ Row(p)' = Row(p)
    BY <1>0, <1>2, <1>3, <2>1 DEF Request, Kind, Fed, Tip, Row, Carrier
  <2>3. Request(p) \in Copies
    BY <1>0, <1>3 DEF Copies, Known, Kind, At
  <2> QED
    BY <1>0, <1>3, <2>1, <2>2, <2>3 DEF Lands, Holding, Names, Registers, At, Copying
<1>4. CASE HasOperation(Row(p)) /\ VerifyCopyRow(p, Row(p)) /\ Proceed(p, Row(p))
  <2>1. PICK pc : pc = CASE Row(p).phase = "recorded" -> "snapshot"
                         [] Row(p).phase = "source-snapshot-durable" -> "copy"
                         [] Row(p).phase = "tree-durable" -> "reprove"
    OBVIOUS
  <2>2. PICK todo : todo = IF Row(p).source = NoSnapshot THEN {} ELSE Entries(Row(p).source)
    OBVIOUS
  <2>3. RowSound(Carrier(p)) /\ Row(p) = rows[Carrier(p)]
    BY <1>0 DEF RInv, Row
  <2>4. Row(p).request \in Concrete(Request(p)) /\ Row(p).kind \in Creations
        /\ Row(p).phase \in {"recorded", "source-snapshot-durable", "tree-durable", "complete"}
    BY <1>4, <2>3 DEF VerifyCopyRow, RowSound
  <2>5. CASE Row(p).phase # "complete" /\ Lock(p, Carrier(p))
             /\ proc' = [proc EXCEPT ![p].request = Row(p).request, ![p].id = Row(p).id,
                                     ![p].todo = todo, ![p].pc = pc]
    <3>1. proc'[p].pc = pc /\ proc'[p].request = Row(p).request
      BY <2>5 DEF RInv, Shape, ProcFields
    <3>2. pc \in {"snapshot", "copy", "reprove"}
      BY <2>1, <2>4, <2>5
    <3>3. Fed(p)' => Fed(p)
      BY <1>2, <2>5 DEF Fed
    <3>4. Fed(p) => Request(p).head = Tip /\ Tip # 0
      BY <1>0 DEF Holding, RInv, Shape
    <3>5. Fed(p) => Row(p).request = Request(p)
      BY <2>4, <3>4 DEF Concrete
    <3> QED
      BY <1>0, <3>1, <3>2, <3>3, <3>5, Elsewhere DEF Special, Request
  <2>6. \/ End(p, "done")
        \/ /\ Row(p).phase # "complete" /\ Lock(p, Carrier(p))
           /\ proc' = [proc EXCEPT ![p].request = Row(p).request, ![p].id = Row(p).id,
                                   ![p].todo = todo, ![p].pc = pc]
    BY <1>4, <2>1, <2>2 DEF Proceed
  <2> QED
    BY <1>1, <2>5, <2>6
<1> QED
  BY <1>1, <1>3, <1>4 DEF TakeDestination

\* A copy that goes for the source is known by its row.
LEMMA NeedSourceLands ==
  ASSUME RInv, CopyInv, NEW p \in Procs, proc[p].pc \in {"snapshot", "copy"}, NeedSource(p), ~Fed(p),
         UNCHANGED past
  PROVE  Lands(p)
<1>1. /\ Carrier(p) \in Carriers /\ Request(p) \in Asked
      /\ HasOperation(Row(p)) /\ Row(p).request = Request(p)
  BY RequestKnown DEF RInv, RowFits, Engaged, At
<1>2. proc'[p].pc = "source" /\ proc'[p].request = Request(p) /\ locks'[Source] = locks[Source]
  BY <1>1, CreationValues DEF RInv, Shape, ProcFields, Request, NeedSource
<1>3. ~Fed(p)' /\ Request(p)' = Request(p) /\ Kind(p)' = Kind(p)
  BY <1>2 DEF Fed, Request, Kind
<1>4. Kind(p) \in Copying => Request(p) \in Copies
  BY <1>1 DEF Copies, Known, Row, Kind
<1> QED
  BY <1>2, <1>3, <1>4 DEF Lands, Holding, Names, Registers, At

\* The commands of a copy that has its row.
LEMMA CopyLands ==
  ASSUME RInv, CopyInv, NEW p \in Procs,
         \/ SnapshotSource(p) \/ VerifyDestination(p) \/ CopyEntry(p) \/ CopyDone(p)
         \/ WriteEntry(p) \/ ApplyOverride(p) \/ CreateOverride(p) \/ OverridesDone(p)
         \/ ProveCopy(p) \/ ReproveCopy(p)
  PROVE  Lands(p)
<1>0. Holding(p) /\ UNCHANGED past
  BY ActsTurn DEF Acts, Step, CopyInv
<1>1. ASSUME NEW why, End(p, why) PROVE Lands(p)
  BY <1>1, EndLands
<1>2. ASSUME NEW pc, Go(p, pc), pc \notin Special PROVE Lands(p)
  BY <1>0, <1>2, GoLands
<1>3. AfterCopy(p) \notin Special
  BY DEF AfterCopy, Special
<1>4. ASSUME proc'[p].pc \notin Special, proc'[p].request = Request(p), UNCHANGED locks PROVE Lands(p)
  BY <1>0, <1>4, Elsewhere DEF Fed, Request
<1>5. CASE SnapshotSource(p) \/ VerifyDestination(p)
  <2>1. CASE NeedSource(p)
    <3>1. ~Fed(p)
      <4>1. Carrier(p) \in Carriers /\ locks[Carrier(p)] = p
        BY <1>5, RequestKnown DEF SnapshotSource, VerifyDestination, RInv, HoldsLock, Held, Engaged, At
      <4>2. CASE SnapshotSource(p) /\ Fed(p)
        <5>1. locks' = locks /\ locks'[Carrier(p)] = Nobody
          BY <2>1, <4>1, <4>2 DEF NeedSource, SnapshotSource, RInv, Shape
        <5> QED
          BY <4>1, <5>1, CreationValues
      <4> QED
        BY <1>5, <4>2 DEF VerifyDestination
    <3> QED
      BY <1>0, <1>5, <2>1, <3>1, NeedSourceLands DEF SnapshotSource, VerifyDestination, At
  <2>2. CASE SnapshotSource(p) /\ ~NeedSource(p)
    <3>1. PICK todo : todo = Entries(SourceSnapshot(Kind(p)))
      OBVIOUS
    <3>2. proc' = [proc EXCEPT ![p].pc = "copy", ![p].todo = todo] /\ UNCHANGED locks
      BY <2>2, <3>1 DEF SnapshotSource
    <3>3. proc'[p].pc = "copy" /\ proc'[p].request = Request(p)
      BY <3>2 DEF RInv, Shape, ProcFields, Request
    <3> QED
      BY <1>4, <3>2, <3>3 DEF Special
  <2> QED
    BY <1>1, <1>2, <1>3, <1>5, <2>1, <2>2 DEF VerifyDestination
<1>6. CASE CopyEntry(p)
  <2>1. ASSUME NEW l, UNCHANGED locks,
               \/ proc' = [proc EXCEPT ![p].todo = @ \ {l}]
               \/ proc' = [proc EXCEPT ![p].pc = "write", ![p].leaf = l, ![p].todo = @ \ {l}]
        PROVE  Lands(p)
    <3>1. /\ proc'[p].pc = "copy" \/ proc'[p].pc = "write"
          /\ proc'[p].request = Request(p) /\ Fed(p)
      <4>1. At(p, "copy") /\ Fed(p)
        BY <1>6 DEF CopyEntry
      <4>2. CASE proc' = [proc EXCEPT ![p].todo = @ \ {l}]
        BY <4>1, <4>2 DEF RInv, Shape, ProcFields, Request, At
      <4>3. CASE proc' = [proc EXCEPT ![p].pc = "write", ![p].leaf = l, ![p].todo = @ \ {l}]
        BY <4>1, <4>3 DEF RInv, Shape, ProcFields, Request, At
      <4> QED
        BY <2>1, <4>2, <4>3
    <3>2. Fed(p)' /\ Request(p)' = Request(p) /\ Tip' = Tip
      BY <1>0, <2>1, <3>1 DEF Fed, Request, Tip
    <3> QED
      BY <1>0, <3>1, <3>2 DEF Lands, Holding, Names, Registers, At
  <2> QED
    BY <1>1, <1>6, <2>1 DEF CopyEntry
<1>7. CASE CopyDone(p) \/ WriteEntry(p) \/ CreateOverride(p) \/ OverridesDone(p) \/ ReproveCopy(p)
           \/ ProveCopy(p)
  BY <1>1, <1>2, <1>3, <1>7
     DEF CopyDone, WriteEntry, CreateOverride, OverridesDone, ReproveCopy, ProveCopy, Special
<1>8. CASE ApplyOverride(p)
  <2>1. PICK l : proc' = [proc EXCEPT ![p].todo = @ \ {l}, ![p].leaf = l,
                   ![p].pc = IF tree[l] = Override THEN "override" ELSE "create"]
    BY <1>8 DEF ApplyOverride
  <2>2. PICK pc : pc = IF tree[l] = Override THEN "override" ELSE "create"
    OBVIOUS
  <2>3. proc' = [proc EXCEPT ![p].todo = @ \ {l}, ![p].leaf = l, ![p].pc = pc]
    BY <2>1, <2>2
  <2>4. proc'[p].pc = pc /\ proc'[p].request = Request(p)
    BY <2>3 DEF RInv, Shape, ProcFields, Request
  <2> QED
    BY <1>4, <1>8, <2>2, <2>4 DEF ApplyOverride, Special
<1> QED
  BY <1>5, <1>6, <1>7, <1>8

\* Every command lands where it finds what Holding says.
LEMMA ActsLand ==
  ASSUME RInv, RInv', CopyInv, NEW p \in Procs, Acts(p)
  PROVE  Lands(p)
<1>0. Holding(p) /\ UNCHANGED past
  BY ActsTurn DEF Acts, Step, CopyInv
<1>1. ASSUME NEW why, End(p, why) PROVE Lands(p)
  BY <1>1, EndLands
<1>2. CASE RemoveClaim(p) \/ Complete(p) \/ Admit(p) \/ Serve(p) \/ Migrate(p) \/ Kill(p)
  BY <1>0, <1>1, <1>2, GoLands DEF RemoveClaim, Complete, Admit, Serve, Migrate, Kill, Special
<1> QED
  BY <1>2, RegisterLands, BeginLands, SourceLands, ClaimRootLands, DestinationLands, CopyLands
     DEF Acts, Step

-----------------------------------------------------------------------------
(* The invariant of copies is inductive.                                   *)

\* A root, once there, stays.
LEMMA RootStays ==
  ASSUME [RNext]_rvars, exists
  PROVE  exists'
<1>1. ASSUME NEW p \in Procs, Step(p) PROVE exists'
  <2>1. CASE ClaimRoot(p)
    BY <2>1 DEF ClaimRoot
  <2>2. CASE ~ClaimRoot(p)
    BY <1>1, <2>2 DEF Step, RegisterLeases, AdoptOperation, CreateClaim, WriteClaim, Stamp, ReadChain,
       StageGenesis, PublishGenesis, ProveRegister, TakeSource, TakeDestination,
       SnapshotSource, VerifyDestination, CopyEntry, CopyDone, WriteEntry, ApplyOverride,
       CreateOverride, OverridesDone, ProveCopy, ReproveCopy, RemoveClaim, Complete, Admit,
       Serve, Migrate, Reads, disk
  <2> QED
    BY <2>1, <2>2
<1> QED
  BY <1>1 DEF RNext, Kill, RegisterLooks, CopyLooks, GrantLooks, MigrateLooks, ResumeFork, Begin,
              SourceMoves, Outside, rvars, disk

\* The past of the source only grows.
LEMMA PastGrows ==
  ASSUME RInv, [RNext]_rvars
  PROVE  Tip \in 1..MaxHead /\ Tip' \in 1..MaxHead /\ Tip <= Tip'
<1>1. Tip \in 1..MaxHead /\ past \in Seq([Paths -> 1..MaxHead \cup {Foreign}])
  BY DEF RInv, Shape
<1>2. CASE UNCHANGED past
  BY <1>1, <1>2, CreationBounds DEF Tip
<1>3. CASE SourceMoves
  <2>1. PICK l \in Paths : past' = Append(past, [past[Tip] EXCEPT ![l] = Tip + 1])
    BY <1>3 DEF SourceMoves
  <2>2. PICK f : f = [past[Tip] EXCEPT ![l] = Tip + 1]
    OBVIOUS
  <2>3. past' = Append(past, f) /\ Tip < MaxHead
    BY <1>3, <2>1, <2>2 DEF SourceMoves
  <2>4. Len(past') = Len(past) + 1
    BY <1>1, <2>3
  <2> QED
    BY <1>1, <2>3, <2>4, CreationBounds DEF Tip
<1>4. CASE Outside
  <2>1. CASE \E l \in Paths : past' = [past EXCEPT ![Tip][l] = Foreign]
    <3>1. PICK f : past' = [past EXCEPT ![Tip] = f]
      BY <2>1
    <3>2. Len(past') = Len(past)
      BY <1>1, <3>1
    <3> QED
      BY <1>1, <3>2, CreationBounds DEF Tip
  <2> QED
    BY <1>2, <1>4, <2>1 DEF Outside
<1> QED
  BY <1>2, <1>3, <1>4, Steps, ActsTurn DEF rvars

\* What is done stays done.
LEMMA DoneStays ==
  ASSUME RInv, [RNext]_rvars, NEW r \in Asked
  PROVE  /\ InRow(r) => InRow(r)'
         /\ Done(r) => Done(r)'
<1>1. r.carrier \in Carriers
  BY AskedFields
<1>2. Advances(r.carrier)
  BY <1>1, RowAdvances
<1> QED
  BY <1>2 DEF InRow, Done, Phase, Advances, SameOperation

\* Only a copy that makes the root is new.
LEMMA CopiesGrow ==
  ASSUME RInv, RInv', CopyInv, [RNext]_rvars, NEW r \in Copies'
  PROVE  r \in Copies \/ Makes(r)
<1>0. r \in Asked /\ r.kind \in Copying /\ r.kind # "register"
  BY DEF Copies, Copying
<1>1. CASE Claimed' /\ claim'.request = r
  <2>1. CASE UNCHANGED claim
    BY <1>0, <1>1, <2>1 DEF Copies, Known, Claimed
  <2>2. ASSUME NEW p \in Procs, ClaimActions(p) PROVE r \in Copies \/ Makes(r)
    <3>1. CASE CreateClaim(p)
      BY <1>1, <2>1, <3>1 DEF CreateClaim, Claimed
    <3>2. CASE WriteClaim(p)
      <4>1. Request(p).kind = "register" /\ claim'.request = Request(p)
        BY <3>2 DEF WriteClaim, OwnClaim, RInv, RequestFits, At, Kind
      <4> QED
        BY <1>0, <1>1, <4>1
    <3>3. CASE ClaimRoot(p)
      <4>1. Lands(p) /\ At(p, "claim_root") /\ Holding(p)
        BY <3>3, ClaimRootLands DEF ClaimRoot, CopyInv
      <4>2. CASE ~exists /\ exists' = TRUE /\ UNCHANGED <<rows, tree>>
        <5>1. claim'.request = Request(p)
          <6>1. \E n \in Ids : claim' = [id |-> n, request |-> Request(p)]
            BY <3>3, <4>2 DEF ClaimRoot
          <6> QED
            BY <6>1
        <5> QED
          BY <1>1, <4>1, <4>2, <5>1 DEF Makes, Holding
      <4> QED
        BY <2>1, <3>3, <4>2 DEF ClaimRoot, store
    <3>4. CASE RemoveClaim(p)
      BY <1>1, <2>1, <3>4 DEF RemoveClaim, Claimed
    <3> QED
      BY <2>2, <3>1, <3>2, <3>3, <3>4 DEF ClaimActions
  <2> QED
    BY <2>1, <2>2, ClaimChanges
<1>2. ASSUME NEW c \in Carriers, HasOperation(rows'[c]), rows'[c].request = r
      PROVE  r \in Copies
  <2>1. Advances(c)
    BY RowAdvances
  <2>2. CASE HasOperation(rows[c])
    BY <1>0, <1>2, <2>1, <2>2 DEF Advances, SameOperation, Copies, Known
  <2>3. CASE ~HasOperation(rows[c])
    <3>1. CASE rows'[c] \in {rows[c], Admitted, Migrated}
      BY <1>2, <2>3, <3>1, EmptyRows DEF HasOperation
    <3>2. ASSUME NEW p \in Procs, At(p, "stamp"), rows'[c] = Stamped(Kind(p), proc[p].id, Request(p))
          PROVE  r \in Copies
      <4>1. r = Request(p)
        BY <1>2, <3>2 DEF Stamped, NoRow
      <4>2. Holding(p)
        BY DEF CopyInv
      <4> QED
        BY <1>0, <3>2, <4>1, <4>2 DEF Holding, Copies, Known, At, Kind
    <3> QED
      BY <2>1, <2>3, <3>1, <3>2 DEF Advances
  <2> QED
    BY <2>2, <2>3
<1>3. ASSUME NEW q \in Procs, proc'[q].pc \in {"destination", "source", "stamp"}, proc'[q].id # 0,
             proc'[q].request = r
      PROVE  r \in Copies \/ Makes(r)
  <2>1. CASE proc'[q] = proc[q]
    BY <1>0, <1>3, <2>1 DEF Copies, Known, Request
  <2>2. ASSUME NEW p \in Procs, Acts(p) PROVE r \in Copies \/ Makes(r)
    <3>1. CASE p # q
      BY <2>1, <2>2, <3>1, ActsTurn DEF Turn
    <3>2. CASE p = q
      <4>1. Names(q)
        BY <2>2, <3>2, ActsLand DEF Lands
      <4>2. Request(q)' = r /\ Kind(q)' = r.kind
        BY <1>3 DEF Request, Kind
      <4> QED
        BY <1>0, <1>3, <4>1, <4>2 DEF Names
    <3> QED
      BY <3>1, <3>2
  <2>3. CASE SourceMoves \/ Outside \/ UNCHANGED rvars
    BY <2>1, <2>3 DEF SourceMoves, Outside, rvars
  <2> QED
    BY <2>2, <2>3, Steps
<1>4. Known(r)'
  BY DEF Copies
<1> QED
  BY <1>1, <1>2, <1>3, <1>4 DEF Known, Request

\* Nobody writes to a root that is not there.
LEMMA NothingWritten ==
  ASSUME RInv, CopyInv, [RNext]_rvars, ~exists'
  PROVE  UNCHANGED tree
<1>1. ~exists
  BY RootStays
<1>2. ASSUME NEW p \in Procs, Step(p) PROVE UNCHANGED tree
  <2>1. proc[p].pc \notin Engaged
    BY <1>1, RequestKnown DEF RInv, RowFits, CopyInv, Before, Row, Engaged, At
  <2>2. proc[p].pc # "lease"
    BY <1>1 DEF RInv, RequestFits
  <2> QED
    BY <1>2, <2>1, <2>2 DEF Step, RegisterLeases, AdoptOperation, CreateClaim, WriteClaim, Stamp,
       ReadChain, StageGenesis, PublishGenesis, ProveRegister, TakeSource, ClaimRoot,
       TakeDestination, SnapshotSource, VerifyDestination, CopyEntry, CopyDone, WriteEntry,
       ApplyOverride, CreateOverride, OverridesDone, ProveCopy, ReproveCopy, RemoveClaim, Complete,
       Admit, Serve, Migrate, Reads, disk, At, Engaged
<1> QED
  BY <1>1, <1>2 DEF RNext, Kill, RegisterLooks, CopyLooks, GrantLooks, MigrateLooks, ResumeFork,
              Begin, SourceMoves, Outside, rvars, disk

\* A root that is not there yet stays empty until a copy makes it.
LEMMA BeforeKeeps ==
  ASSUME RInv, RInv', CopyInv, [RNext]_rvars
  PROVE  Before'
<1> SUFFICES ASSUME ~exists'
             PROVE  /\ Copies' = {} /\ \A l \in Leaves : tree'[l] = Absent
                    /\ \A c \in Carriers : ~HasOperation(rows'[c])
                    /\ \A p \in Procs : ~At(p, "stamp")'
  BY DEF Before
<1>1. ~exists /\ UNCHANGED tree
  BY RootStays, NothingWritten
<1>2. /\ Copies = {} /\ \A l \in Leaves : tree[l] = Absent
      /\ \A c \in Carriers : ~HasOperation(rows[c])
      /\ \A p \in Procs : ~At(p, "stamp")
  BY <1>1 DEF CopyInv, Before
<1>3. Copies' = {}
  BY <1>2, CopiesGrow DEF Makes
<1>4. ASSUME NEW c \in Carriers PROVE ~HasOperation(rows'[c])
  BY <1>2, RowAdvances, EmptyRows DEF Advances, HasOperation
<1>5. ASSUME NEW q \in Procs, At(q, "stamp")' PROVE FALSE
  <2>1. proc'[q] # proc[q]
    BY <1>2, <1>5 DEF At
  <2>2. PICK p \in Procs : Acts(p)
    BY <2>1, Steps DEF SourceMoves, Outside, rvars
  <2>3. p = q
    BY <2>1, <2>2, ActsTurn DEF Turn
  <2>4. Holding(q)' /\ Names(q) /\ Registers(q) /\ proc'[q].pc = "stamp"
    BY <1>5, <2>2, <2>3, ActsLand DEF Lands, At
  <2>5. Kind(q)' \in Creations
    BY <1>5 DEF RInv, RequestFits, At
  <2>6. CASE Kind(q)' = "register"
    BY <1>1, <2>4, <2>6 DEF Registers
  <2>7. CASE Kind(q)' \in Copying
    <3>1. proc'[q].id # 0
      BY <1>5, <2>4, <2>7 DEF Holding
    <3> QED
      BY <1>2, <2>4, <2>7, <3>1 DEF Names, Makes
  <2> QED
    BY <2>5, <2>6, <2>7 DEF Creations, Copying
<1> QED
  BY <1>1, <1>2, <1>3, <1>4, <1>5

\* A claim that a copy under way has stays until that copy is done.
LEMMA PendingKeeps ==
  ASSUME RInv, RInv', CopyInv, [RNext]_rvars
  PROVE  Pending'
<1> SUFFICES ASSUME NEW r \in Copies'
             PROVE  /\ r.head \in 1..Tip'
                    /\ Done(r)' \/ (Claimed' /\ claim'.request = r)
  BY DEF Pending
<1>0. r \in Asked /\ Tip \in 1..MaxHead /\ Tip' \in 1..MaxHead /\ Tip <= Tip'
  BY PastGrows DEF Copies
<1>1. CASE Makes(r)
  BY <1>0, <1>1, CreationBounds DEF Makes
<1>2. CASE r \in Copies
  <2>1. r.head \in 1..Tip /\ (Done(r) \/ (Claimed /\ claim.request = r)) /\ r.kind \in Copying
    BY <1>2 DEF CopyInv, Pending, Copies
  <2>2. r.head \in 1..Tip'
    BY <1>0, <2>1, CreationBounds
  <2>3. CASE Done(r)
    BY <1>0, <2>2, <2>3, DoneStays
  <2>4. CASE UNCHANGED claim /\ ~Done(r)
    BY <2>1, <2>2, <2>4 DEF Claimed
  <2>5. ASSUME NEW p \in Procs, ClaimActions(p), ~Done(r), claim' # claim PROVE FALSE
    <3>1. CASE CreateClaim(p)
      BY <2>1, <2>5, <3>1 DEF CreateClaim, Claimed
    <3>2. CASE WriteClaim(p)
      <4>1. At(p, "write_claim") /\ Kind(p) = "register"
        BY <3>2 DEF WriteClaim, RInv, RequestFits, At
      <4>2. Registering
        BY <4>1 DEF Registering, At
      <4> QED
        BY <1>2, <2>5, <4>2 DEF CopyInv, KeptOut
    <3>3. CASE ClaimRoot(p)
      BY <1>2, <2>5, <3>3 DEF ClaimRoot, CopyInv, Before
    <3>4. CASE RemoveClaim(p)
      <4>1. claim = OwnClaim(p) /\ At(p, "unclaim")
        BY <2>1, <2>5, <3>4 DEF RemoveClaim, Claimed
      <4>2. Request(p) = r /\ Row(p) = rows[r.carrier]
        BY <2>1, <2>5, <4>1 DEF OwnClaim, Row, Carrier
      <4>3. /\ HasOperation(Row(p)) /\ Row(p).request = r
            /\ Row(p).phase \in {"tree-durable", "complete"}
        BY <4>1, <4>2 DEF RInv, RowFits, Engaged, At
      <4> QED
        BY <2>5, <4>2, <4>3 DEF Done, InRow, Phase
    <3> QED
      BY <2>5, <3>1, <3>2, <3>3, <3>4 DEF ClaimActions
  <2> QED
    BY <2>2, <2>3, <2>4, <2>5, ClaimChanges
<1> QED
  BY <1>1, <1>2, CopiesGrow

\* Nobody comes to register a root while a copy of it is under way.
LEMMA KeptOutKeeps ==
  ASSUME RInv, RInv', CopyInv, [RNext]_rvars
  PROVE  KeptOut'
<1> SUFFICES ASSUME Registering', NEW r \in Copies' PROVE Done(r)'
  BY DEF KeptOut
<1>0. r \in Asked
  BY DEF Copies
<1>1. (exists /\ \A s \in Copies : Done(s)) \/ Registering
  <2>1. ASSUME NEW c \in Carriers, rows'[c].kind = "register"
        PROVE  Registering
    <3>1. Advances(c)
      BY RowAdvances
    <3>2. CASE HasOperation(rows[c])
      BY <2>1, <3>1, <3>2 DEF Advances, SameOperation, Registering
    <3>3. CASE ~HasOperation(rows[c])
      <4>1. CASE rows'[c] \in {rows[c], Admitted, Migrated}
        BY <2>1, <3>3, <4>1, EmptyRows DEF HasOperation, Null
      <4>2. ASSUME NEW p \in Procs, At(p, "stamp"),
                   rows'[c] = Stamped(Kind(p), proc[p].id, Request(p))
            PROVE  Registering
        <5>1. Kind(p) = "register"
          BY <2>1, <4>2 DEF Stamped, NoRow
        <5> QED
          BY <4>2, <5>1 DEF Registering, At
      <4> QED
        BY <3>1, <3>3, <4>1, <4>2 DEF Advances
    <3> QED
      BY <3>2, <3>3
  <2>2. ASSUME NEW q \in Procs, proc'[q].pc \in {"claim", "write_claim", "stamp"},
               Kind(q)' = "register"
        PROVE  (exists /\ \A s \in Copies : Done(s)) \/ Registering
    <3>1. CASE proc'[q] = proc[q]
      BY <2>2, <3>1 DEF Registering, Kind, Request
    <3>2. CASE proc'[q] # proc[q]
      <4>1. PICK p \in Procs : Acts(p)
        BY <3>2, Steps DEF SourceMoves, Outside, rvars
      <4>2. p = q
        BY <3>2, <4>1, ActsTurn DEF Turn
      <4> QED
        BY <2>2, <4>1, <4>2, ActsLand DEF Lands, Registers
    <3> QED
      BY <3>1, <3>2
  <2> QED
    BY <2>1, <2>2 DEF Registering
<1>2. Registering => exists /\ \A s \in Copies : Done(s)
  <2>1. Registering => exists
    <3>1. ASSUME NEW c \in Carriers, rows[c].kind = "register" PROVE exists
      BY <3>1 DEF CopyInv, Before, HasOperation, Null
    <3>2. ASSUME NEW q \in Procs, proc[q].pc \in {"claim", "write_claim", "stamp"} PROVE exists
      BY <3>2 DEF CopyInv, Before, RInv, RequestFits, At
    <3> QED
      BY <3>1, <3>2 DEF Registering
  <2> QED
    BY <2>1 DEF CopyInv, KeptOut
<1>3. r \in Copies
  BY <1>1, <1>2, CopiesGrow DEF Makes
<1> QED
  BY <1>0, <1>1, <1>2, <1>3, DoneStays

\* A root that is not complete is unserviceable.
LEMMA UnfinishedKeeps ==
  ASSUME RInv, CopyInv, [RNext]_rvars
  PROVE  Unfinished'
<1> SUFFICES ASSUME NEW c \in Carriers, HasOperation(rows'[c]), rows'[c].phase # "complete"
             PROVE  rows'[c].lifecycle = "read-only-unserviceable"
  BY DEF Unfinished
<1>1. Advances(c)
  BY RowAdvances
<1>2. CASE ~HasOperation(rows[c])
  <2>1. rows'[c] \notin {rows[c], Admitted, Migrated}
    BY <1>2, EmptyRows DEF HasOperation
  <2>2. PICK p \in Procs : rows'[c] = Stamped(Kind(p), proc[p].id, Request(p))
    BY <1>1, <1>2, <2>1 DEF Advances
  <2> QED
    BY <2>2 DEF Stamped, NoRow
<1>3. CASE HasOperation(rows[c]) /\ rows'[c] = rows[c]
  BY <1>3 DEF CopyInv, Unfinished
<1>4. CASE HasOperation(rows[c]) /\ rows'[c] # rows[c]
  <2>1. PICK p \in Procs : RowActions(p) /\ Carrier(p) = c
    BY <1>4, Steps, RowsHeld DEF SourceMoves, Outside, rvars, store
  <2>2. rows[c].phase # "complete"
    BY <1>1, <1>4 DEF Advances
  <2>3. rows[c].lifecycle = "read-only-unserviceable" /\ rows[c] \notin {NoRow, Legacy}
    BY <1>4, <2>2, EmptyRows DEF CopyInv, Unfinished, HasOperation
  <2>4. DOMAIN rows = Carriers /\ DOMAIN rows[c] = Columns
    BY DEF RInv, Shape
  <2>5. CASE Stamp(p) \/ Admit(p) \/ Migrate(p)
    BY <1>4, <2>1, <2>3, <2>5 DEF Stamp, Admit, Migrate, StampAllowed, Row
  <2>6. CASE ProveRegister(p) \/ ProveCopy(p)
    BY <1>4, <2>1, <2>3, <2>4, <2>6 DEF ProveRegister, ProveCopy, Row, Columns
  <2>7. CASE SnapshotSource(p)
    <3>1. PICK snapshot : snapshot = SourceSnapshot(Kind(p))
      OBVIOUS
    <3>2. rows' = [rows EXCEPT ![c].phase = "source-snapshot-durable", ![c].source = snapshot]
      BY <1>4, <2>1, <2>7, <3>1 DEF SnapshotSource
    <3> QED
      BY <2>3, <2>4, <3>2 DEF Columns
  <2>8. CASE Complete(p)
    <3>1. rows'[c] = Completed(rows[c])
      BY <1>4, <2>1, <2>4, <2>8 DEF Complete, Row
    <3> QED
      BY <2>4, <3>1 DEF Completed, Columns
  <2>9. CASE Serve(p)
    BY <1>4, <2>1, <2>2, <2>3, <2>9 DEF Serve, Row, TransitionAllowed
  <2> QED
    BY <2>1, <2>5, <2>6, <2>7, <2>8, <2>9 DEF RowActions
<1> QED
  BY <1>2, <1>3, <1>4

\* The invariant of copies holds at the start and is inductive.
LEMMA CopyInit == RInit => CopyInv
<1> SUFFICES ASSUME RInit PROVE CopyInv
  OBVIOUS
<1>1. \A c \in Carriers : rows[c] \in {Legacy, NoRow} /\ ~HasOperation(rows[c])
  BY EmptyRows DEF RInit, HasOperation
<1>2. ~Claimed /\ Copies = {}
  BY <1>1 DEF RInit, Claimed, Copies, Known, Idle
<1>3. ASSUME NEW p \in Procs PROVE Holding(p)
  BY CreationValues DEF RInit, Holding, Idle, Fed, At
<1>4. ~Registering
  BY <1>1 DEF Registering, RInit, Idle, HasOperation, Null
<1>5. Before
  BY <1>1, <1>2 DEF Before, RInit, Idle, At
<1> QED
  BY <1>1, <1>2, <1>3, <1>4, <1>5 DEF CopyInv, OneCopy, Pending, KeptOut, Unfinished

\* ... by the lemmas above, part by part.
LEMMA CopyNext == RInv /\ CopyInv /\ [RNext]_rvars => CopyInv'
<1> SUFFICES ASSUME RInv, CopyInv, [RNext]_rvars PROVE CopyInv'
  OBVIOUS
<1>0. RInv'
  BY NextKeeps
<1>1. OneCopy'
  <2> SUFFICES ASSUME NEW r \in Copies', NEW s \in Copies' PROVE r = s
    BY DEF OneCopy
  <2>1. r \in Copies \/ Makes(r)
    BY <1>0, CopiesGrow
  <2>2. s \in Copies \/ Makes(s)
    BY <1>0, CopiesGrow
  <2> QED
    BY <2>1, <2>2 DEF CopyInv, OneCopy, Before, Makes
<1>2. ASSUME NEW q \in Procs PROVE Holding(q)'
  <2>1. ASSUME NEW p \in Procs, Acts(p) PROVE Holding(q)'
    BY <1>0, <2>1, HoldingStays, ActsLand DEF Lands, CopyInv
  <2>2. CASE SourceMoves \/ Outside \/ UNCHANGED rvars
    <3>1. UNCHANGED <<rows, locks, proc>>
      BY <2>2 DEF SourceMoves, Outside, rvars, store
    <3>2. Fed(q) => Tip' = Tip
      <4>1. CASE SourceMoves
        BY <4>1, CreationValues DEF SourceMoves, Free, Fed
      <4>2. CASE Outside
        <5>1. ASSUME NEW l, past' = [past EXCEPT ![Tip][l] = Foreign] PROVE Tip' = Tip
          <6>1. PICK f : past' = [past EXCEPT ![Tip] = f]
            BY <5>1
          <6> QED
            BY <6>1 DEF RInv, Shape, Tip
        <5> QED
          BY <4>2, <5>1 DEF Outside, Tip
      <4>3. CASE UNCHANGED rvars
        BY <4>3 DEF rvars, Tip
      <4> QED
        BY <2>2, <4>1, <4>2, <4>3
    <3> QED
      BY <3>1, <3>2 DEF CopyInv, Holding, At, Row, Request, Kind, Carrier, Fed
  <2> QED
    BY <2>1, <2>2, Steps
<1> QED
  BY <1>0, <1>1, <1>2, BeforeKeeps, PendingKeeps, KeptOutKeeps, UnfinishedKeeps DEF CopyInv

-----------------------------------------------------------------------------
(* What copies write.                                                      *)

\* The leaves of the chain are none of the source's.
LEMMA LeavesApart ==
  /\ Staging \in Leaves /\ History \in Leaves /\ Payloads \subseteq Leaves
  /\ Paths \subseteq Leaves /\ Overridden \subseteq Leaves
  /\ Staging \notin Paths \cup Overridden \cup {History} \cup Payloads
  /\ History \notin Paths \cup Overridden \cup Payloads
  /\ \A g \in Payloads : g \notin Paths \cup Overridden
  /\ Absent # Torn /\ Absent # Override /\ Torn # Override
  /\ \A g \in Payloads : g # Absent /\ g # Torn
BY CreationValues, ContentValues DEF Leaves, ChainLeaves

\* A request that is copied, and what a request for a copy names.
LEMMA CopyRequest ==
  ASSUME CopyInv, NEW r \in Copies
  PROVE  /\ r \in Asked /\ r.kind \in Copying /\ r.carrier \in Carriers /\ r.head \in 1..Tip
         /\ r.kind = "fork" => r.payload \in Payloads
         /\ Overrides(r) \subseteq Overridden /\ (r.kind = "fork" => Overrides(r) = Overridden)
BY AskedFields DEF CopyInv, Pending, Copies, Overrides

\* Only what is in the source, or its head, is wanted of it.
LEMMA WantedLeaves ==
  ASSUME RInv, PastSound, NEW r \in Asked, r.kind \in Copying, r.head \in 1..Tip
  PROVE  /\ DOMAIN Wanted(r) = Leaves /\ Wanted(r)[Staging] = Absent
         /\ \A g \in Payloads : Wanted(r)[g] = Absent
         /\ \A l \in Paths : Wanted(r)[l] = past[r.head][l] /\ Wanted(r)[l] \in 1..MaxHead
         /\ Wanted(r)[History] = IF r.kind = "replicate" THEN r.head ELSE Absent
         /\ \A l \in Leaves \ (Paths \cup {History}) : Wanted(r)[l] = Absent
         /\ \A l \in Leaves : Wanted(r)[l] # Torn
<1>1. \A l \in Leaves :
        Wanted(r)[l] = CASE l \in Paths -> past[r.head][l]
                         [] l = History /\ r.kind = "replicate" -> r.head
                         [] OTHER -> Absent
  BY DEF Wanted
<1>2. Tip \in 1..MaxHead
  BY DEF RInv, Shape
<1>3. \A l \in Paths : past[r.head][l] \in 1..MaxHead
  BY DEF PastSound
<1>4. r.head \in 1..MaxHead /\ Torn \notin 1..MaxHead
  BY <1>2, ContentValues, CreationBounds
<1>5. DOMAIN Wanted(r) = Leaves
  BY DEF Wanted
<1> QED
  BY <1>1, <1>3, <1>4, <1>5, LeavesApart

\* The source at a head that was never changes, and a new head is the next.
LEMMA WantedStays ==
  ASSUME RInv, PastSound, [RNext]_rvars, ~touched'
  PROVE  /\ PastSound'
         /\ \A r \in Asked : r.head \in 1..Tip => Wanted(r)' = Wanted(r)
<1> DEFINE F == [Paths -> 1..MaxHead \cup {Foreign}]
<1>1. Tip \in 1..MaxHead /\ past \in Seq(F) /\ Tip = Len(past)
  BY DEF RInv, Shape, Tip
<1>2. /\ PastSound'
      /\ \A h \in 1..Tip : past'[h] = past[h]
  <2>1. CASE UNCHANGED past
    BY <2>1 DEF PastSound, Tip
  <2>2. CASE SourceMoves
    <3>1. PICK l \in Paths : past' = Append(past, [past[Tip] EXCEPT ![l] = Tip + 1])
      BY <2>2 DEF SourceMoves
    <3>2. PICK f : f = [past[Tip] EXCEPT ![l] = Tip + 1]
      OBVIOUS
    <3>3. past' = Append(past, f) /\ Tip < MaxHead
      BY <2>2, <3>1, <3>2 DEF SourceMoves
    <3>4. past[Tip] \in F
      BY <1>1
    <3>5. /\ Len(past') = Len(past) + 1 /\ past'[Tip + 1] = f
          /\ \A h \in 1..Tip : past'[h] = past[h]
      BY <1>1, <3>3
    <3>6. Tip' = Tip + 1
      BY <1>1, <3>5 DEF Tip
    <3>7. ASSUME NEW m \in Paths PROVE f[m] \in 1..MaxHead
      BY <1>1, <3>2, <3>3, <3>4, <3>7, CreationBounds DEF PastSound
    <3>8. ASSUME NEW h \in 1..Tip', NEW m \in Paths PROVE past'[h][m] \in 1..MaxHead
      <4>1. CASE h = Tip + 1
        BY <3>5, <3>7, <4>1
      <4>2. CASE h \in 1..Tip
        BY <3>5, <4>2 DEF PastSound
      <4>3. h \in 1..(Tip + 1)
        BY <3>6
      <4> QED
        BY <1>1, <4>1, <4>2, <4>3, CreationBounds
    <3> QED
      BY <3>5, <3>8 DEF PastSound
  <2>3. CASE Outside
    BY <2>3 DEF Outside
  <2> QED
    BY <2>1, <2>2, <2>3, Steps, ActsTurn DEF rvars
<1>3. ASSUME NEW r \in Asked, r.head \in 1..Tip PROVE Wanted(r)' = Wanted(r)
  <2>1. past'[r.head] = past[r.head]
    BY <1>2, <1>3
  <2> QED
    BY <2>1 DEF Wanted, Leaves, ChainLeaves
<1> QED
  BY <1>2, <1>3

\* Who writes to the root: a lease that drops the staging leaf, or one of these.
Writes(p) ==
  \/ StageGenesis(p) \/ PublishGenesis(p) \/ CopyEntry(p) \/ WriteEntry(p)
  \/ ApplyOverride(p) \/ CreateOverride(p)

\* A command that changes the root does it in one of these steps.
LEMMA ActsWrite ==
  ASSUME RInv, NEW p \in Procs, Acts(p), tree' # tree
  PROVE  (RegisterLeases(p) /\ tree' = [tree EXCEPT ![Staging] = Absent]) \/ Writes(p)
<1>1. Step(p)
  BY DEF Acts, Kill, RegisterLooks, CopyLooks, GrantLooks, MigrateLooks, ResumeFork, Begin, disk
<1>2. RegisterLeases(p) \/ Writes(p)
  BY <1>1 DEF Step, Writes, AdoptOperation, CreateClaim, WriteClaim, Stamp, ReadChain,
     ProveRegister, TakeSource, ClaimRoot, TakeDestination, SnapshotSource, VerifyDestination,
     CopyDone, OverridesDone, ProveCopy, ReproveCopy, RemoveClaim, Complete, Admit,
     Serve, Migrate, Reads, disk
<1> QED
  BY <1>2 DEF RegisterLeases

\* While no outside writer touches it, nobody else does.
LEMMA WhoWrites ==
  ASSUME RInv, [RNext]_rvars, ~touched', tree' # tree
  PROVE  \E p \in Procs :
           /\ Acts(p)
           /\ (RegisterLeases(p) /\ tree' = [tree EXCEPT ![Staging] = Absent]) \/ Writes(p)
<1>1. PICK p \in Procs : Acts(p)
  BY Steps DEF SourceMoves, Outside, rvars, disk
<1> QED
  BY <1>1, ActsWrite

\* A command with a row of a copy is the copy's own.
LEMMA OwnCopy ==
  ASSUME RInv, CopyInv, NEW p \in Procs, proc[p].pc \in Engaged, Kind(p) \in Copying
  PROVE  /\ Request(p) \in Copies /\ InRow(Request(p)) /\ Row(p) = rows[Request(p).carrier]
         /\ locks[Request(p).carrier] = p /\ Phase(Request(p)) = Row(p).phase
         /\ \A r \in Copies : r = Request(p)
<1>1. Request(p) \in Asked /\ Carrier(p) \in Carriers /\ locks[Carrier(p)] = p
      /\ HasOperation(Row(p)) /\ Row(p).request = Request(p)
  BY RequestKnown DEF RInv, RowFits, HoldsLock, Held, Engaged, At
<1>2. Request(p) \in Copies
  BY <1>1 DEF Copies, Known, Kind, Row
<1> QED
  BY <1>1, <1>2 DEF InRow, Phase, Row, Carrier, CopyInv, OneCopy

\* The chain that a finished copy leaves.
LEMMA FinalChain ==
  ASSUME RInv, CopyInv, PastSound, NEW r \in Copies, tree = Final(r)
  PROVE  /\ tree[Staging] = Absent /\ \A l \in Leaves : tree[l] # Torn
         /\ Geneses = {IF r.kind = "fork" THEN r.payload ELSE History}
         /\ WellFormedChain
         /\ \A l \in Overrides(r) : tree[l] = Override
         /\ r.kind = "fork" => tree[r.payload] = r.payload
         /\ \A l \in Leaves \ (Overrides(r) \cup {r.payload}) : tree[l] = Wanted(r)[l]
         /\ r.kind = "replicate" => \A l \in Leaves : tree[l] = Wanted(r)[l]
<1>1. /\ r \in Asked /\ r.kind \in Copying /\ r.head \in 1..Tip
      /\ r.kind = "fork" => r.payload \in Payloads
      /\ Overrides(r) \subseteq Overridden
      /\ r.kind # "fork" => Overrides(r) = {}
  BY CopyRequest DEF Overrides
<1>2. /\ Wanted(r)[Staging] = Absent /\ \A g \in Payloads : Wanted(r)[g] = Absent
      /\ Wanted(r)[History] = IF r.kind = "replicate" THEN r.head ELSE Absent
      /\ \A l \in Leaves : Wanted(r)[l] # Torn
  BY <1>1, WantedLeaves
<1>3. ASSUME NEW l \in Leaves
      PROVE  tree[l] = CASE l \in Overrides(r) -> Override
                         [] l = r.payload /\ r.kind = "fork" -> l
                         [] OTHER -> Wanted(r)[l]
  BY <1>3 DEF Final
<1>4. /\ \A l \in Overrides(r) : tree[l] = Override
      /\ r.kind = "fork" => tree[r.payload] = r.payload
      /\ \A l \in Leaves \ (Overrides(r) \cup {r.payload}) : tree[l] = Wanted(r)[l]
      /\ r.kind = "replicate" => \A l \in Leaves : tree[l] = Wanted(r)[l]
  BY <1>1, <1>3, LeavesApart
<1>5. tree[Staging] = Absent
  BY <1>1, <1>2, <1>3, LeavesApart
<1>6. \A l \in Leaves : tree[l] # Torn
  BY <1>1, <1>2, <1>3, LeavesApart
<1>7. r.head # Absent /\ r.head \in 1..MaxHead
  BY <1>1, CreationValues, CreationBounds DEF RInv, Shape
<1>8. ASSUME NEW l \in {History} \cup Payloads
      PROVE  tree[l] # Absent <=> l = IF r.kind = "fork" THEN r.payload ELSE History
  <2>1. CASE r.kind = "fork"
    BY <1>1, <1>2, <1>3, <2>1, LeavesApart
  <2>2. CASE r.kind = "replicate"
    BY <1>2, <1>4, <1>7, <2>2, LeavesApart
  <2> QED
    BY <1>1, <2>1, <2>2 DEF Copying
<1>9. Geneses = {IF r.kind = "fork" THEN r.payload ELSE History}
  BY <1>1, <1>8, LeavesApart DEF Geneses, Present
<1>10. WellFormedChain
  <2> DEFINE g == IF r.kind = "fork" THEN r.payload ELSE History
  <2>1. g \in Geneses /\ Geneses = {g}
    BY <1>9
  <2>2. tree[g] \in (1..MaxHead) \cup {g}
    BY <1>1, <1>2, <1>4, <1>7, LeavesApart DEF Copying
  <2> QED
    BY <2>1, <2>2 DEF WellFormedChain
<1> QED
  BY <1>4, <1>5, <1>6, <1>9, <1>10

\* What a step does to the snapshots of an operation.
LEMMA Snapshots ==
  ASSUME RInv, [RNext]_rvars, NEW c \in Carriers, HasOperation(rows[c])
  PROVE  \/ rows'[c].source = rows[c].source /\ rows'[c].proof = rows[c].proof
         \/ \E p \in Procs :
              /\ SnapshotSource(p) /\ Fed(p) /\ Carrier(p) = c
              /\ rows'[c].source = SourceSnapshot(Kind(p)) /\ rows'[c].proof = rows[c].proof
              /\ rows[c].phase = "recorded"
         \/ \E p \in Procs :
              /\ ProveRegister(p) \/ ProveCopy(p)
              /\ Carrier(p) = c /\ UNCHANGED tree
              /\ rows'[c].source = rows[c].source /\ rows'[c].proof = tree
              /\ rows'[c].phase = "tree-durable"
              /\ rows[c].phase \notin {"tree-durable", "complete"}
<1>1. CASE rows'[c] = rows[c]
  BY <1>1
<1>2. CASE rows'[c] # rows[c]
  <2>1. PICK p \in Procs : RowActions(p) /\ Carrier(p) = c
    BY <1>2, Steps, RowsHeld DEF SourceMoves, Outside, rvars, store
  <2>2. DOMAIN rows = Carriers /\ DOMAIN rows[c] = Columns /\ Row(p) = rows[c]
    BY <2>1 DEF RInv, Shape, Row
  <2>3. rows[c] \notin {NoRow, Legacy}
    BY EmptyRows DEF HasOperation
  <2>4. CASE Stamp(p) \/ Admit(p) \/ Migrate(p)
    BY <1>2, <2>1, <2>2, <2>3, <2>4 DEF Stamp, Admit, Migrate, StampAllowed
  <2>5. CASE ProveRegister(p) \/ ProveCopy(p)
    <3>1. rows' = [rows EXCEPT ![c].phase = "tree-durable", ![c].proof = tree] /\ UNCHANGED tree
      BY <1>2, <2>1, <2>5 DEF ProveRegister, ProveCopy, disk
    <3>2. /\ rows'[c].source = rows[c].source /\ rows'[c].proof = tree
          /\ rows'[c].phase = "tree-durable"
      BY <2>2, <3>1 DEF Columns
    <3>3. rows[c].phase \notin {"tree-durable", "complete"}
      BY <1>2, <2>1, <2>2, <2>5 DEF ProveRegister, ProveCopy, RInv, RowFits, At
    <3> QED
      BY <2>1, <2>5, <3>1, <3>2, <3>3
  <2>6. CASE SnapshotSource(p)
    <3>1. PICK snapshot : snapshot = SourceSnapshot(Kind(p))
      OBVIOUS
    <3>2. rows' = [rows EXCEPT ![c].phase = "source-snapshot-durable", ![c].source = snapshot]
          /\ Fed(p) /\ At(p, "snapshot")
      BY <1>2, <2>1, <2>6, <3>1 DEF SnapshotSource
    <3>3. rows'[c].source = snapshot /\ rows'[c].proof = rows[c].proof
      BY <2>2, <3>2 DEF Columns
    <3>4. rows[c].phase = "recorded"
      BY <2>2, <3>2 DEF RInv, RowFits, At
    <3> QED
      BY <2>1, <2>6, <3>1, <3>2, <3>3, <3>4
  <2>7. CASE Complete(p)
    <3>1. rows'[c] = Completed(rows[c])
      BY <1>2, <2>1, <2>2, <2>7 DEF Complete
    <3> QED
      BY <2>2, <3>1 DEF Completed, Columns
  <2>8. CASE Serve(p)
    <3>1. rows' = [rows EXCEPT ![c].lifecycle = "read-only-serviceable"]
      BY <1>2, <2>1, <2>8 DEF Serve
    <3> QED
      BY <2>2, <3>1 DEF Columns
  <2> QED
    BY <2>1, <2>4, <2>5, <2>6, <2>7, <2>8 DEF RowActions
<1> QED
  BY <1>1, <1>2

\* A snapshot of the source at the tip is what the request for it wants.
LEMMA SnapshotIsWanted ==
  ASSUME RInv, NEW r \in Asked, r.head = Tip, r.kind \in Copying
  PROVE  SourceSnapshot(r.kind) = Wanted(r)
BY DEF SourceSnapshot, Wanted

\* What the row of a copy retains is the source at the head of its request.
LEMMA SourceKeptKeeps ==
  ASSUME RInv, RInv', CopyInv, CopyTree, [RNext]_rvars, ~touched'
  PROVE  SourceKept'
<1> SUFFICES ASSUME NEW r \in Copies', InRow(r)', Phase(r)' # "recorded"
             PROVE  rows'[r.carrier].source = Wanted(r)'
  BY DEF SourceKept
<1>1. r \in Asked /\ r.carrier \in Carriers
  BY AskedFields DEF Copies
<1>2. PICK c \in Carriers : c = r.carrier
  BY <1>1
<1>3. /\ HasOperation(rows'[c]) /\ rows'[c].request = r /\ rows'[c].phase # "recorded"
      /\ Advances(c)
  BY <1>2, RowAdvances DEF InRow, Phase
<1>4. HasOperation(rows[c]) /\ rows[c].request = r
  <2>1. HasOperation(rows[c])
    <3> SUFFICES ASSUME ~HasOperation(rows[c]) PROVE FALSE
      OBVIOUS
    <3>1. rows'[c] \notin {rows[c], Admitted, Migrated}
      BY <1>3, EmptyRows DEF HasOperation
    <3>2. PICK p \in Procs : rows'[c] = Stamped(Kind(p), proc[p].id, Request(p))
      BY <1>3, <3>1 DEF Advances
    <3> QED
      BY <1>3, <3>2 DEF Stamped, NoRow
  <2> QED
    BY <1>3, <2>1 DEF Advances, SameOperation
<1>5. r \in Copies
  BY <1>1, <1>2, <1>4 DEF Copies, Known
<1>6. r.head \in 1..Tip /\ Wanted(r)' = Wanted(r)
  BY <1>1, <1>5, WantedStays DEF CopyTree, CopyInv, Pending
<1>7. CASE rows'[c].source = rows[c].source
  <2>1. rows[c].phase # "recorded" \/ rows'[c].phase = "tree-durable"
        \/ rows'[c].phase = "source-snapshot-durable"
    BY <1>3, <1>4 DEF Advances
  <2>2. CASE rows[c].phase # "recorded"
    BY <1>2, <1>4, <1>5, <1>6, <1>7, <2>2 DEF CopyTree, SourceKept, InRow, Phase
  <2>3. CASE rows[c].phase = "recorded"
    <3>1. RowSound(c) /\ RowSound(c)'
      BY DEF RInv
    <3>2. rows[c].source = NoSnapshot
      BY <1>4, <2>3, <3>1 DEF RowSound, WellFormedRow, ProofsMatchPhase
    <3>3. rows'[c].source # NoSnapshot
      <4>1. WellFormedRow(rows'[c]) /\ rows'[c].kind = r.kind
        BY <1>3, <3>1 DEF RowSound
      <4>2. r.kind \in Copying
        BY <1>5 DEF Copies
      <4> QED
        BY <1>3, <4>1, <4>2 DEF WellFormedRow, ProofsMatchPhase, Copying
    <3> QED
      BY <1>7, <3>2, <3>3
  <2> QED
    BY <2>2, <2>3
<1>8. ASSUME NEW p \in Procs, SnapshotSource(p), Fed(p), Carrier(p) = c,
             rows'[c].source = SourceSnapshot(Kind(p))
      PROVE  rows'[c].source = Wanted(r)
  <2>1. Request(p) = r
    BY <1>4, <1>8 DEF RInv, RowFits, Engaged, At, Row, SnapshotSource
  <2>2. r.head = Tip
    BY <1>8, <2>1 DEF CopyInv, Holding
  <2> QED
    BY <1>1, <1>5, <1>8, <2>1, <2>2, SnapshotIsWanted DEF Kind, Copies
<1> QED
  BY <1>2, <1>4, <1>6, <1>7, <1>8, Snapshots

-----------------------------------------------------------------------------
(* The invariant of the tree of a copy is inductive.                       *)

\* The program points from the first entry of a copy to its proof.
Making ==
  {"copy", "write", "chain", "override", "create", "overwrite", "stage", "publish", "prove"}

\* A command that makes a copy has the only one, and its row is not proved.
LEMMA MakingCopy ==
  ASSUME RInv, CopyInv, CopyTree, NEW p \in Procs, proc[p].pc \in Making, Kind(p) \in Copying
  PROVE  /\ Request(p) \in Copies /\ InRow(Request(p))
         /\ Phase(Request(p)) = "source-snapshot-durable" /\ ~Done(Request(p))
         /\ Row(p) = rows[Request(p).carrier] /\ Row(p).source = Wanted(Request(p))
         /\ locks[Request(p).carrier] = p /\ \A r \in Copies : r = Request(p)
<1>1. proc[p].pc \in Engaged
  BY DEF Making, Engaged
<1>2. Kind(p) # "register"
  BY DEF Copying
<1>3. Row(p).phase = "source-snapshot-durable"
  BY <1>2 DEF RInv, RowFits, Making
<1> QED
  BY <1>1, <1>3, OwnCopy DEF Done, CopyTree, SourceKept

\* A register at work finds every copy done.
LEMMA RegisterFindsDone ==
  ASSUME RInv, CopyInv, NEW p \in Procs, proc[p].pc \in Engaged, Kind(p) = "register"
  PROVE  \A r \in Copies : Done(r)
<1>1. Carrier(p) \in Carriers /\ HasOperation(Row(p)) /\ Row(p).request = Request(p)
  BY RequestKnown DEF RInv, RowFits, Engaged, At
<1>2. rows[Carrier(p)].kind = "register"
  BY <1>1 DEF RInv, RowSound, Row, Kind
<1> QED
  BY <1>1, <1>2 DEF CopyInv, KeptOut, Registering

\* Who writes is engaged, and leaves the rows alone.
LEMMA WritersEngaged ==
  ASSUME RInv, NEW p \in Procs, Writes(p)
  PROVE  /\ proc[p].pc \in Making /\ proc[p].pc \in Engaged /\ UNCHANGED rows
         /\ Kind(p) \in {"register", "fork", "replicate"}
BY DEF Writes, StageGenesis, PublishGenesis, CopyEntry, WriteEntry, ApplyOverride, CreateOverride,
       At, Making, Engaged, store, RInv, RequestFits

\* Of a copy that is made nobody else writes more than the staging leaf.
LEMMA OthersWrite ==
  ASSUME RInv, CopyInv, CopyTree, [RNext]_rvars, ~touched',
         NEW q \in Procs, proc[q].pc \in Making, Kind(q) \in Copying,
         tree' # tree
  PROVE  \/ Writes(q) /\ Acts(q)
         \/ /\ \E p \in Procs \ {q} : Acts(p)
            /\ UNCHANGED rows /\ \A l \in Leaves \ {Staging} : tree'[l] = tree[l]
<1>1. PICK p \in Procs :
        /\ Acts(p)
        /\ (RegisterLeases(p) /\ tree' = [tree EXCEPT ![Staging] = Absent]) \/ Writes(p)
  BY WhoWrites
<1>2. CASE RegisterLeases(p) /\ tree' = [tree EXCEPT ![Staging] = Absent]
  <2>1. p # q
    BY <1>2 DEF RegisterLeases, At, Making
  <2>2. DOMAIN tree = Leaves
    BY DEF RInv, Shape
  <2> QED
    BY <1>1, <1>2, <2>1, <2>2 DEF RegisterLeases
<1>3. CASE Writes(p) /\ p # q
  <2>1. proc[p].pc \in Making /\ proc[p].pc \in Engaged
        /\ Kind(p) \in {"register", "fork", "replicate"}
    BY <1>3, WritersEngaged
  <2>2. ~Done(Request(q)) /\ Request(q) \in Copies /\ locks[Request(q).carrier] = q
    BY MakingCopy
  <2>3. Kind(p) # "register"
    BY <2>1, <2>2, RegisterFindsDone
  <2>4. locks[Request(p).carrier] = p /\ Request(q) = Request(p)
    BY <2>1, <2>2, <2>3, MakingCopy DEF Copying
  <2> QED
    BY <1>3, <2>2, <2>4
<1> QED
  BY <1>1, <1>2, <1>3

\* What a copy has done so far it keeps while the others act.
LEMMA WorkingStays ==
  ASSUME RInv, CopyInv, CopyTree, [RNext]_rvars, ~touched',
         NEW q \in Procs, proc'[q] = proc[q], Fed(q)' => Fed(q),
         \A l \in Leaves \ {Staging} : tree'[l] = tree[l]
  PROVE  Working(q)'
<1> SUFFICES ASSUME proc[q].pc \in Making, Kind(q) \in Copying PROVE Working(q)'
  BY DEF Working, Making, Kind, Request
<1>1. Request(q)' = Request(q)
  BY DEF Request
<1>2. PICK r \in Copies : r = Request(q)
  BY MakingCopy
<1>3. r \in Asked /\ Wanted(r)' = Wanted(r)
  BY CopyRequest, WantedStays DEF CopyTree
<1>4. /\ Entries(Wanted(r)) \subseteq Leaves
      /\ Staging \notin Entries(Wanted(r)) /\ Staging \notin Overridden
      /\ Overridden \subseteq Leaves
      /\ r.kind = "fork" => r.payload \in Leaves \ {Staging}
  BY CopyRequest, WantedLeaves, LeavesApart DEF Entries, CopyTree
<1>5. Entries(Wanted(r))' = Entries(Wanted(r))
  BY <1>3 DEF Entries, Leaves, ChainLeaves
<1>6. Working(q)
  BY DEF CopyTree
<1>7. /\ At(q, "write") => proc[q].leaf \in Entries(Wanted(r))
      /\ proc[q].pc \in {"override", "create", "overwrite", "stage", "publish"} => r.kind = "fork"
      /\ proc[q].pc \in {"create", "overwrite"} => proc[q].leaf \in Overridden
  <2>1. Row(q).source = Wanted(r)
    BY <1>2, MakingCopy
  <2> QED
    BY <1>2, <2>1 DEF RInv, RowFits, RequestFits, At, Kind, Copying
<1>8. \A S : Copied(q, S) => Copied(q, S)'
  BY <1>1, <1>2, <1>3, <1>4, <1>5 DEF Copied
<1>9. Overruled(r) => Overruled(r)'
  BY <1>4, CopyRequest DEF Overruled, Overrides
<1> QED
  BY <1>1, <1>2, <1>4, <1>6, <1>7, <1>8, <1>9 DEF Working, At

\* What a writing step of a copy may put into the root.
Puts(r) ==
  /\ \A l \in Leaves : tree'[l] # tree[l] => tree'[l] \in Possible(r, l)
  /\ r.kind = "fork" /\ tree'[r.payload] # Absent => Overruled(r)'

\* What is known of the command that makes a copy.
Makers(p, r) ==
  /\ r = Request(p) /\ r \in Copies /\ r.kind = Kind(p) /\ r.kind \in Copying
  /\ Row(p).source = Wanted(r) /\ Wanted(r)' = Wanted(r)
  /\ TreeFits(r) /\ Working(p)
  /\ InRow(r) /\ Phase(r) = "source-snapshot-durable"
  /\ Overrides(r) = (IF r.kind = "fork" THEN Overridden ELSE {})
  /\ r.kind = "fork" => r.payload \in Payloads
  /\ Wanted(r)[Staging] = Absent /\ \A g \in Payloads : Wanted(r)[g] = Absent

\* A command that makes a copy makes one of the known ones.
LEMMA MakerKnown ==
  ASSUME RInv, CopyInv, CopyTree, [RNext]_rvars, ~touched',
         NEW p \in Procs, proc[p].pc \in Making, Kind(p) \in Copying
  PROVE  \E r \in Copies : Makers(p, r)
<1>1. PICK r \in Copies : r = Request(p)
  BY MakingCopy
<1>2. r \in Asked /\ r.head \in 1..Tip /\ r.kind \in Copying
      /\ (r.kind = "fork" => r.payload \in Payloads)
  BY CopyRequest
<1>3. Wanted(r)' = Wanted(r)
  BY <1>2, WantedStays DEF CopyTree
<1>4. Wanted(r)[Staging] = Absent /\ \A g \in Payloads : Wanted(r)[g] = Absent
  BY <1>2, WantedLeaves DEF CopyTree
<1>5. InRow(r) /\ Phase(r) = "source-snapshot-durable" /\ Row(p).source = Wanted(r)
  BY <1>1, MakingCopy
<1> QED
  BY <1>1, <1>2, <1>3, <1>4, <1>5 DEF Makers, Kind, Overrides, CopyTree

\* A leaf that is wanted of the source.
LEMMA WantedEntry ==
  ASSUME RInv, NEW p \in Procs, NEW r, Makers(p, r), NEW l \in Entries(Row(p).source)
  PROVE  /\ l \in Leaves /\ l # Staging /\ l \notin Payloads /\ Wanted(r)[l] # Absent
         /\ {Torn, Wanted(r)[l]} \subseteq Possible(r, l)
BY DEF Makers, Entries, Possible

\* A step that leaves a command at a point where it makes nothing.
LEMMA WorksNot ==
  ASSUME NEW p, proc'[p].pc \notin Making \/ Kind(p)' \notin Copying
  PROVE  Working(p)'
BY DEF Working, Making, Kind, Request

\* An entry is created or found, ...
LEMMA CopyEntryWorks ==
  ASSUME RInv, NEW p \in Procs, NEW r, Makers(p, r), CopyEntry(p)
  PROVE  Working(p)' /\ (tree' # tree => Puts(r))
<1>0. At(p, "copy") /\ Fed(p) /\ DOMAIN tree = Leaves /\ Copied(p, proc[p].todo)
      /\ proc[p].todo \subseteq Entries(Row(p).source)
  BY DEF CopyEntry, RInv, Shape, RowFits, At, Makers, Working
<1>1. PICK l \in proc[p].todo :
        \/ /\ tree[l] = Row(p).source[l]
           /\ proc' = [proc EXCEPT ![p].todo = @ \ {l}] /\ UNCHANGED <<tree, locks>>
        \/ /\ tree[l] = Absent
           /\ tree' = [tree EXCEPT ![l] = Torn]
           /\ proc' = [proc EXCEPT ![p].pc = "write", ![p].leaf = l, ![p].todo = @ \ {l}]
           /\ UNCHANGED locks
        \/ End(p, "invalid") /\ UNCHANGED tree
  BY DEF CopyEntry
<1>2. /\ l \in Leaves /\ l # Staging /\ l \notin Payloads
      /\ Torn \in Possible(r, l) /\ Row(p).source[l] = Wanted(r)[l] /\ Wanted(r)[l] # Absent
  BY <1>0, WantedEntry DEF Makers
<1>3. CASE End(p, "invalid") /\ UNCHANGED tree
  BY <1>3, EndTurn, WorksNot DEF Making, At
<1>4. CASE /\ tree[l] = Row(p).source[l]
           /\ proc' = [proc EXCEPT ![p].todo = @ \ {l}] /\ UNCHANGED <<tree, locks>>
  <2>1. proc'[p].pc = "copy" /\ proc'[p].request = r /\ proc'[p].todo = proc[p].todo \ {l}
    BY <1>0, <1>4 DEF RInv, Shape, ProcFields, Request, At, Makers
  <2>2. Request(p) = r /\ Request(p)' = r /\ Wanted(r)' = Wanted(r)
    BY <2>1 DEF Request, Makers
  <2>3. ASSUME NEW m \in Entries(Wanted(r)), m \notin proc[p].todo \ {l}
        PROVE  tree'[m] = Wanted(r)[m]
    BY <1>0, <1>2, <1>4, <2>2, <2>3 DEF Copied
  <2>4. Entries(Wanted(r))' = Entries(Wanted(r))
    BY <2>2 DEF Entries, Leaves, ChainLeaves
  <2>5. Copied(p, proc[p].todo)'
    BY <2>1, <2>2, <2>3, <2>4 DEF Copied
  <2> QED
    BY <1>4, <2>1, <2>5 DEF Working
<1>5. CASE /\ tree[l] = Absent
           /\ tree' = [tree EXCEPT ![l] = Torn]
           /\ proc' = [proc EXCEPT ![p].pc = "write", ![p].leaf = l, ![p].todo = @ \ {l}]
           /\ UNCHANGED locks
  <2>1. /\ proc'[p].pc = "write" /\ proc'[p].request = r /\ proc'[p].leaf = l
        /\ proc'[p].todo = proc[p].todo \ {l}
    BY <1>5 DEF RInv, Shape, ProcFields, Request, Makers
  <2>2. Request(p) = r /\ Request(p)' = r /\ Wanted(r)' = Wanted(r)
    BY <2>1 DEF Request, Makers
  <2>3. tree'[l] = Torn /\ \A m \in Leaves \ {l} : tree'[m] = tree[m]
    BY <1>0, <1>2, <1>5
  <2>4. Entries(Wanted(r))' = Entries(Wanted(r)) /\ Entries(Wanted(r)) \subseteq Leaves
    BY <2>2 DEF Entries, Leaves, ChainLeaves
  <2>5. ASSUME NEW m \in Entries(Wanted(r)), m \notin (proc[p].todo \ {l}) \cup {l}
        PROVE  tree'[m] = Wanted(r)[m]
    BY <1>0, <2>2, <2>3, <2>4, <2>5 DEF Copied
  <2>6. Copied(p, proc[p].todo \cup {proc[p].leaf})'
    BY <2>1, <2>2, <2>4, <2>5 DEF Copied
  <2>7. Puts(r)
    <3>1. \A m \in Leaves : tree'[m] # tree[m] => tree'[m] \in Possible(r, m)
      BY <1>2, <2>3
    <3>2. ASSUME r.kind = "fork", tree'[r.payload] # Absent PROVE Overruled(r)'
      <4>1. r.payload \in Leaves /\ r.payload # l
        BY <1>2, <3>2, LeavesApart DEF Makers
      <4>2. Overruled(r)
        BY <2>3, <3>2, <4>1 DEF Makers, TreeFits
      <4>3. l \notin Overrides(r)
        BY <1>5, <4>2, LeavesApart DEF Overruled
      <4> QED
        BY <2>3, <4>2, <4>3, LeavesApart DEF Overruled, Makers, Overrides
    <3> QED
      BY <2>2, <3>1, <3>2 DEF Puts
  <2> QED
    BY <2>1, <2>3, <2>6, <2>7 DEF Working
<1> QED
  BY <1>1, <1>3, <1>4, <1>5

\* ... and written.
LEMMA WriteEntryWorks ==
  ASSUME RInv, NEW p \in Procs, NEW r, Makers(p, r), Holding(p), WriteEntry(p)
  PROVE  Working(p)' /\ Puts(r)
<1> DEFINE l == proc[p].leaf
<1>0. DOMAIN tree = Leaves /\ UNCHANGED locks
      /\ proc'[p].request = r /\ proc'[p].todo = proc[p].todo /\ proc'[p].leaf = l
  BY GoFrame DEF WriteEntry, RInv, Shape, Makers
<1>1. Request(p) = r /\ Request(p)' = r /\ Wanted(r)' = Wanted(r)
  BY <1>0 DEF Request, Makers
<1>2. Entries(Wanted(r))' = Entries(Wanted(r)) /\ Entries(Wanted(r)) \subseteq Leaves
  BY <1>1 DEF Entries, Leaves, ChainLeaves
<1>3. CASE At(p, "write")
  <2>1. l \in Entries(Row(p).source) /\ tree[l] = Torn
        /\ Copied(p, proc[p].todo \cup {l}) /\ proc'[p].pc = "copy"
    BY <1>3, GoFrame DEF RInv, RowFits, At, Makers, Working, WriteEntry
  <2>2. /\ l \in Leaves /\ l # Staging /\ l \notin Payloads
        /\ Wanted(r)[l] \in Possible(r, l) /\ Row(p).source[l] = Wanted(r)[l]
    BY <2>1, WantedEntry DEF Makers
  <2>3. tree'[l] = Wanted(r)[l] /\ \A m \in Leaves \ {l} : tree'[m] = tree[m]
    BY <1>0, <1>3, <2>1, <2>2 DEF WriteEntry
  <2>4. ASSUME NEW m \in Entries(Wanted(r)), m \notin proc[p].todo
        PROVE  tree'[m] = Wanted(r)[m]
    BY <1>1, <1>2, <2>1, <2>3, <2>4 DEF Copied
  <2>5. Copied(p, proc[p].todo)'
    BY <1>0, <1>1, <1>2, <2>4 DEF Copied
  <2>6. ASSUME r.kind = "fork", tree'[r.payload] # Absent PROVE Overruled(r)'
    <3>1. r.payload \in Leaves /\ r.payload # l
      BY <2>2, <2>6, LeavesApart DEF Makers
    <3>2. Overruled(r)
      BY <2>3, <2>6, <3>1 DEF Makers, TreeFits
    <3>3. l \notin Overrides(r)
      BY <2>1, <3>2, LeavesApart DEF Overruled
    <3> QED
      BY <2>3, <3>2, <3>3, LeavesApart DEF Overruled, Makers, Overrides
  <2>7. Puts(r)
    BY <1>1, <2>2, <2>3, <2>6 DEF Puts
  <2> QED
    BY <2>1, <2>5, <2>7 DEF Working
<1>4. CASE At(p, "overwrite")
  <2>1. /\ r.kind = "fork" /\ l \in Overridden /\ tree[l] = Torn
        /\ Copied(p, Overrides(r)) /\ tree[r.payload] = Absent /\ proc'[p].pc = "override"
        /\ \A m \in Overridden \ (proc[p].todo \cup {l}) : tree[m] = Override
    BY <1>1, <1>4, GoFrame DEF RInv, RequestFits, At, Makers, Working, WriteEntry, Kind
  <2>2. l \in Leaves /\ l # Staging /\ l \notin Payloads /\ Override \in Possible(r, l)
        /\ r.payload \in Leaves
    BY <2>1, LeavesApart DEF Makers, Possible
  <2>3. tree'[l] = Override /\ \A m \in Leaves \ {l} : tree'[m] = tree[m]
    BY <1>0, <1>4, <2>1, <2>2 DEF WriteEntry, At
  <2>4. Copied(p, Overrides(r))'
    BY <1>1, <1>2, <2>1, <2>3 DEF Copied, Makers, Overrides
  <2>5. tree'[r.payload] = Absent
    BY <2>1, <2>2, <2>3 DEF Makers
  <2>6. \A m \in Overridden \ proc[p].todo : tree'[m] = Override
    BY <2>1, <2>3, LeavesApart
  <2>7. Puts(r)
    BY <1>1, <2>2, <2>3, <2>5 DEF Puts
  <2> QED
    BY <1>0, <1>1, <2>1, <2>4, <2>5, <2>6, <2>7 DEF Working
<1> QED
  BY <1>3, <1>4 DEF WriteEntry

\* The chain of a fork is read, ...
LEMMA ReadChainWorks ==
  ASSUME RInv, NEW p \in Procs, NEW r, Makers(p, r), ReadChain(p)
  PROVE  Working(p)' /\ UNCHANGED tree
<1>0. At(p, "chain") /\ UNCHANGED tree /\ Copied(p, Overrides(r)) /\ r.kind = "fork"
      /\ Request(p) = r
  BY DEF ReadChain, Reads, disk, Makers, Working, At, RInv, RequestFits, Copying
<1>1. r.payload \in Payloads /\ r.payload \in Leaves /\ r.payload \notin Overridden
      /\ r.payload # Staging
  BY <1>0, LeavesApart DEF Makers
<1>2. ASSUME NEW why, End(p, why) PROVE Working(p)'
  BY <1>2, EndTurn, WorksNot DEF Making, At
<1>3. ASSUME proc'[p].request = r, proc'[p].pc = "prove", Geneses = {r.payload}
      PROVE  Working(p)'
  <2>1. Request(p)' = r /\ Wanted(r)' = Wanted(r)
    BY <1>3 DEF Request, Makers
  <2>2. Entries(Wanted(r))' = Entries(Wanted(r))
    BY <2>1 DEF Entries, Leaves, ChainLeaves
  <2>3. Copied(p, Overrides(r))'
    BY <1>0, <2>1, <2>2 DEF Copied
  <2>4. tree[r.payload] # Absent /\ tree[r.payload] \in Possible(r, r.payload)
    BY <1>1, <1>3 DEF Geneses, Present, Makers, TreeFits
  <2>5. tree[r.payload] = r.payload
    BY <1>0, <1>1, <2>4 DEF Possible, Makers
  <2> QED
    BY <1>0, <1>3, <2>1, <2>3, <2>5 DEF Working
<1>4. ASSUME proc'[p].request = r, proc'[p].pc = "override", proc'[p].todo = Overridden,
             Geneses = {}
      PROVE  Working(p)'
  <2>1. Request(p)' = r /\ Wanted(r)' = Wanted(r)
    BY <1>4 DEF Request, Makers
  <2>2. Entries(Wanted(r))' = Entries(Wanted(r))
    BY <2>1 DEF Entries, Leaves, ChainLeaves
  <2>3. Copied(p, Overrides(r))'
    BY <1>0, <2>1, <2>2 DEF Copied
  <2>4. tree[r.payload] = Absent
    BY <1>1, <1>4 DEF Geneses, Present
  <2> QED
    BY <1>0, <1>4, <2>1, <2>3, <2>4 DEF Working
<1>5. ASSUME Go(p, "prove"), Geneses = {Request(p).payload} PROVE Working(p)'
  BY <1>0, <1>3, <1>5, GoFrame
<1>6. ASSUME proc' = [proc EXCEPT ![p].pc = "override", ![p].todo = Overridden], Geneses = {}
      PROVE  Working(p)'
  <2>1. proc'[p].request = r /\ proc'[p].pc = "override" /\ proc'[p].todo = Overridden
    BY <1>0, <1>6 DEF RInv, Shape, ProcFields, Request
  <2> QED
    BY <1>4, <1>6, <2>1
<1> QED
  BY <1>0, <1>2, <1>5, <1>6 DEF ReadChain, Makers

\* ... its overrides are applied, one at a time, ...
LEMMA OverrideWorks ==
  ASSUME RInv, NEW p \in Procs, NEW r, Makers(p, r), ApplyOverride(p) \/ CreateOverride(p)
  PROVE  Working(p)' /\ (tree' # tree => Puts(r))
<1>0. /\ r.kind = "fork" /\ Overrides(r) = Overridden /\ Copied(p, Overridden) /\ Request(p) = r
      /\ tree[r.payload] = Absent /\ DOMAIN tree = Leaves
      /\ proc[p].todo \subseteq Overridden
  BY DEF ApplyOverride, CreateOverride, Makers, Working, At, RInv, RequestFits, Shape, Kind, Copying
<1>1. r.payload \in Leaves /\ r.payload \notin Overridden /\ Overridden \subseteq Leaves
  BY <1>0, LeavesApart DEF Makers
<1>2. Wanted(r)' = Wanted(r) /\ Overrides(r)' = Overridden
  BY <1>0 DEF Makers, Overrides
<1>3. Entries(Wanted(r))' = Entries(Wanted(r)) /\ Entries(Wanted(r)) \subseteq Leaves
  BY <1>2 DEF Entries, Leaves, ChainLeaves
<1>4. ASSUME NEW l \in Overridden, proc'[p].request = r,
             tree'[l] \in {Absent, Torn, Override}, \A m \in Leaves \ {l} : tree'[m] = tree[m]
      PROVE  /\ Request(p)' = r /\ Copied(p, Overridden)' /\ tree'[r.payload] = Absent
             /\ Puts(r)
  <2>1. Request(p)' = r
    BY <1>4 DEF Request
  <2>2. Copied(p, Overridden)'
    BY <1>0, <1>2, <1>3, <1>4, <2>1 DEF Copied
  <2>3. tree'[r.payload] = Absent
    BY <1>0, <1>1, <1>4
  <2>4. {Absent, Torn, Override} \subseteq Possible(r, l)
    BY <1>0, <1>4 DEF Possible
  <2> QED
    BY <1>0, <1>4, <2>1, <2>2, <2>3, <2>4 DEF Puts
<1>5. CASE ApplyOverride(p)
  <2>1. PICK l \in proc[p].todo :
          /\ proc' = [proc EXCEPT ![p].todo = @ \ {l}, ![p].leaf = l,
                  ![p].pc = IF tree[l] = Override THEN "override" ELSE "create"]
          /\ tree' = [tree EXCEPT ![l] = IF @ = Override THEN @ ELSE Absent]
    BY <1>5 DEF ApplyOverride
  <2>2. /\ proc'[p].todo = proc[p].todo \ {l} /\ proc'[p].leaf = l /\ proc'[p].request = r
        /\ proc'[p].pc = IF tree[l] = Override THEN "override" ELSE "create"
    BY <1>0, <2>1 DEF RInv, Shape, ProcFields, Request
  <2>3. /\ tree'[l] = (IF tree[l] = Override THEN Override ELSE Absent)
        /\ \A m \in Leaves \ {l} : tree'[m] = tree[m]
    BY <1>0, <1>1, <2>1
  <2>4. l \in Overridden
    BY <1>0
  <2>5. /\ Request(p)' = r /\ Copied(p, Overridden)' /\ tree'[r.payload] = Absent
        /\ Puts(r)
    BY <1>4, <2>2, <2>3, <2>4
  <2>6. \A m \in Overridden \ proc[p].todo : tree[m] = Override
    BY <1>0, <1>5 DEF ApplyOverride, At, Makers, Working
  <2>7. \A m \in Overridden \ proc[p].todo : tree'[m] = Override
    BY <1>1, <2>3, <2>6
  <2>8. CASE tree[l] = Override
    <3>1. proc'[p].pc = "override" /\ tree'[l] = Override
      BY <2>2, <2>3, <2>8
    <3>2. \A m \in Overridden \ proc'[p].todo : tree'[m] = Override
      BY <2>2, <2>7, <3>1
    <3> QED
      BY <1>0, <1>2, <2>5, <3>1, <3>2 DEF Working
  <2>9. CASE tree[l] # Override
    <3>1. proc'[p].pc = "create" /\ tree'[l] = Absent
      BY <2>2, <2>3, <2>9
    <3>2. \A m \in Overridden \ (proc'[p].todo \cup {proc'[p].leaf}) : tree'[m] = Override
      BY <2>2, <2>7
    <3> QED
      BY <1>0, <1>2, <2>2, <2>5, <3>1, <3>2 DEF Working
  <2> QED
    BY <2>8, <2>9
<1>6. CASE CreateOverride(p)
  <2> DEFINE l == proc[p].leaf
  <2>1. l \in Overridden /\ tree[l] = Absent
        /\ \A m \in Overridden \ (proc[p].todo \cup {l}) : tree[m] = Override
    BY <1>0, <1>6 DEF CreateOverride, At, Makers, Working, RInv, RequestFits
  <2>2. tree' = [tree EXCEPT ![l] = Torn] /\ Go(p, "overwrite")
    BY <1>6, <2>1 DEF CreateOverride
  <2>3. /\ proc'[p].pc = "overwrite" /\ proc'[p].request = r /\ proc'[p].todo = proc[p].todo
        /\ proc'[p].leaf = l
    BY <1>0, <2>2, GoFrame
  <2>4. tree'[l] = Torn /\ \A m \in Leaves \ {l} : tree'[m] = tree[m]
    BY <1>0, <1>1, <2>1, <2>2
  <2>5. /\ Request(p)' = r /\ Copied(p, Overridden)' /\ tree'[r.payload] = Absent
        /\ Puts(r)
    BY <1>4, <2>1, <2>3, <2>4
  <2>6. \A m \in Overridden \ (proc'[p].todo \cup {proc'[p].leaf}) : tree'[m] = Override
    BY <1>1, <2>1, <2>3, <2>4
  <2> QED
    BY <1>0, <1>2, <2>3, <2>4, <2>5, <2>6 DEF Working
<1> QED
  BY <1>5, <1>6

\* ... and its genesis is staged and published.
LEMMA GenesisWorks ==
  ASSUME RInv, NEW p \in Procs, NEW r, Makers(p, r), StageGenesis(p) \/ PublishGenesis(p)
  PROVE  Working(p)' /\ (tree' # tree => Puts(r))
<1>0. /\ r.kind = "fork" /\ Overrides(r) = Overridden /\ Copied(p, Overridden) /\ Request(p) = r
      /\ tree[r.payload] = Absent /\ DOMAIN tree = Leaves /\ Overruled(r)
  BY DEF StageGenesis, PublishGenesis, Makers, Working, At, RInv, RequestFits, Shape, Kind, Copying
<1>1. /\ r.payload \in Leaves /\ r.payload \in Payloads /\ r.payload # Absent
      /\ r.payload \notin Overridden /\ Overridden \subseteq Leaves
      /\ Staging \in Leaves /\ Staging \notin Overridden /\ r.payload # Staging
  BY <1>0, LeavesApart DEF Makers
<1>2. Wanted(r)' = Wanted(r) /\ Overrides(r)' = Overridden
  BY <1>0 DEF Makers, Overrides
<1>3. Entries(Wanted(r))' = Entries(Wanted(r)) /\ Entries(Wanted(r)) \subseteq Leaves
      /\ Staging \notin Entries(Wanted(r)) /\ r.payload \notin Entries(Wanted(r))
  BY <1>1, <1>2 DEF Entries, Leaves, ChainLeaves, Makers
<1>4. ASSUME NEW why, End(p, why), UNCHANGED tree PROVE Working(p)' /\ (tree' # tree => Puts(r))
  BY <1>4, EndTurn, WorksNot DEF Making, At
<1>5. ASSUME proc'[p].request = r,
             \A l \in Leaves \ {Staging, r.payload} : tree'[l] = tree[l]
      PROVE  Request(p)' = r /\ Copied(p, Overridden)' /\ Overruled(r)'
  <2>1. Request(p)' = r
    BY <1>5 DEF Request
  <2>2. Copied(p, Overridden)'
    BY <1>0, <1>2, <1>3, <1>5, <2>1 DEF Copied
  <2>3. Overruled(r)'
    BY <1>0, <1>1, <1>2, <1>5 DEF Overruled
  <2> QED
    BY <2>1, <2>2, <2>3
<1>6. r.payload \in Possible(r, Staging) /\ r.payload \in Possible(r, r.payload)
      /\ Absent \in Possible(r, Staging)
  BY <1>0 DEF Possible
<1>7. CASE StageGenesis(p)
  <2>1. CASE tree' = [tree EXCEPT ![Staging] = Request(p).payload] /\ Go(p, "publish")
    <3>1. proc'[p].pc = "publish" /\ proc'[p].request = r
      BY <1>0, <2>1, GoFrame
    <3>2. tree'[Staging] = r.payload /\ \A l \in Leaves \ {Staging} : tree'[l] = tree[l]
      BY <1>0, <1>1, <2>1
    <3>3. Request(p)' = r /\ Copied(p, Overridden)' /\ Overruled(r)'
      BY <1>5, <3>1, <3>2
    <3>4. Puts(r)
      BY <1>0, <1>6, <3>2, <3>3 DEF Puts
    <3>5. tree'[r.payload] = Absent
      BY <1>0, <1>1, <3>2
    <3> QED
      BY <1>0, <1>2, <3>1, <3>3, <3>4, <3>5 DEF Working
  <2> QED
    BY <1>4, <1>7, <2>1 DEF StageGenesis
<1>8. CASE PublishGenesis(p)
  <2>1. CASE /\ tree[Staging] # Absent /\ Go(p, "prove")
             /\ tree' = [tree EXCEPT ![Request(p).payload] = tree[Staging], ![Staging] = Absent]
    <3>1. proc'[p].pc = "prove" /\ proc'[p].request = r
      BY <1>0, <2>1, GoFrame
    <3>2. tree[Staging] \in Possible(r, Staging)
      BY <1>1 DEF Makers, TreeFits
    <3>3. tree[Staging] = r.payload
      BY <1>0, <1>1, <2>1, <3>2 DEF Possible, Makers
    <3>4. /\ tree'[Staging] = Absent /\ tree'[r.payload] = r.payload
          /\ \A l \in Leaves \ {Staging, r.payload} : tree'[l] = tree[l]
      BY <1>0, <1>1, <2>1, <3>3
    <3>5. Request(p)' = r /\ Copied(p, Overridden)' /\ Overruled(r)'
      BY <1>5, <3>1, <3>4
    <3>6. Puts(r)
      BY <1>0, <1>6, <3>4, <3>5 DEF Puts
    <3> QED
      BY <1>0, <1>2, <3>1, <3>4, <3>5, <3>6 DEF Working
  <2> QED
    BY <1>4, <1>8, <2>1 DEF PublishGenesis
<1> QED
  BY <1>7, <1>8

\* What was looked at and found to be the source is copied.
LEMMA CopiedWorks ==
  ASSUME RInv, NEW p \in Procs, NEW r, Makers(p, r), VerifyDestination(p) \/ CopyDone(p)
  PROVE  Working(p)'
<1>0. At(p, "copy") /\ UNCHANGED tree /\ Request(p) = r
  BY DEF VerifyDestination, CopyDone, Reads, disk, Makers
<1>1. ASSUME Copied(p, {}), Go(p, AfterCopy(p)) PROVE Working(p)'
  <2>1. proc'[p].request = r /\ proc'[p].pc = (IF r.kind = "fork" THEN "chain" ELSE "prove")
    BY <1>0, <1>1, GoFrame DEF AfterCopy, Makers
  <2>2. Request(p)' = r /\ Wanted(r)' = Wanted(r)
    BY <2>1 DEF Request, Makers
  <2>3. Entries(Wanted(r))' = Entries(Wanted(r))
    BY <2>2 DEF Entries, Leaves, ChainLeaves
  <2>4. Copied(p, Overrides(r))'
    BY <1>0, <1>1, <2>2, <2>3 DEF Copied
  <2> QED
    BY <2>1, <2>2, <2>4 DEF Working
<1>2. CASE VerifyDestination(p)
  <2>1. CASE End(p, "invalid")
    BY <2>1, EndTurn, WorksNot DEF Making, At
  <2>2. CASE NeedSource(p)
    <3>1. proc'[p].pc = "source"
      BY <2>2 DEF NeedSource, RInv, Shape, ProcFields
    <3> QED
      BY <3>1, WorksNot DEF Making
  <2>3. CASE /\ \A l \in Entries(Row(p).source) : tree[l] \in {Absent, Row(p).source[l]}
             /\ ~\E l \in Entries(Row(p).source) : tree[l] = Absent
             /\ Go(p, AfterCopy(p))
    <3>1. Copied(p, {})
      BY <1>0, <2>3 DEF Copied, Makers
    <3> QED
      BY <1>1, <2>3, <3>1
  <2> QED
    BY <1>2, <2>1, <2>2, <2>3 DEF VerifyDestination
<1>3. CASE CopyDone(p)
  <2>1. Copied(p, {}) /\ Go(p, AfterCopy(p))
    BY <1>0, <1>3 DEF CopyDone, Makers, Working, At, Copied
  <2> QED
    BY <1>1, <2>1
<1> QED
  BY <1>2, <1>3

\* Nothing is left to do where the overrides are done.
LEMMA OverridesDoneWorks ==
  ASSUME RInv, NEW p \in Procs, NEW r, Makers(p, r), OverridesDone(p)
  PROVE  Working(p)'
<1>0. /\ r.kind = "fork" /\ Overrides(r) = Overridden /\ Copied(p, Overridden) /\ Request(p) = r
      /\ tree[r.payload] = Absent /\ UNCHANGED tree
      /\ \A l \in Overridden : tree[l] = Override
  BY DEF OverridesDone, Reads, disk, Makers, Working, At, RInv, RequestFits, Kind
<1>1. proc'[p].request = r /\ proc'[p].pc = "stage"
  BY <1>0, GoFrame DEF OverridesDone
<1>2. Request(p)' = r /\ Wanted(r)' = Wanted(r) /\ Overrides(r)' = Overridden
  BY <1>0, <1>1 DEF Request, Makers, Overrides
<1>3. Entries(Wanted(r))' = Entries(Wanted(r))
  BY <1>2 DEF Entries, Leaves, ChainLeaves
<1>4. Copied(p, Overridden)'
  BY <1>0, <1>2, <1>3 DEF Copied
<1>5. Overruled(r)'
  BY <1>0, <1>2 DEF Overruled
<1> QED
  BY <1>0, <1>1, <1>2, <1>4, <1>5 DEF Working

\* A copy starts with the snapshot of its source before it, ...
LEMMA SnapshotWorks ==
  ASSUME RInv, CopyInv, CopyTree, [RNext]_rvars, ~touched', NEW p \in Procs, SnapshotSource(p)
  PROVE  Working(p)'
<1>1. PICK r \in Asked : r = Request(p)
  BY RequestKnown DEF SnapshotSource, At
<1>2. CASE Fed(p)
  <2>1. r.head = Tip /\ r.kind \in Copying
    BY <1>1, <1>2 DEF SnapshotSource, CopyInv, Holding, RInv, RequestFits, At, Kind, Copying
  <2>2. SourceSnapshot(r.kind) = Wanted(r)
    BY <2>1, SnapshotIsWanted
  <2>3. proc' = [proc EXCEPT ![p].pc = "copy", ![p].todo = Entries(Wanted(r))]
    BY <1>1, <1>2, <2>2 DEF SnapshotSource, Kind
  <2>4. proc'[p].pc = "copy" /\ proc'[p].request = r /\ proc'[p].todo = Entries(Wanted(r))
    BY <1>1, <2>3 DEF RInv, Shape, ProcFields, Request
  <2>5. Tip \in 1..MaxHead
    BY DEF RInv, Shape
  <2>6. Request(p)' = r /\ Wanted(r)' = Wanted(r)
    BY <2>1, <2>4, <2>5, WantedStays DEF Request, CopyTree
  <2>7. Entries(Wanted(r))' = Entries(Wanted(r))
    BY <2>6 DEF Entries, Leaves, ChainLeaves
  <2>8. Copied(p, proc[p].todo)'
    BY <2>4, <2>6, <2>7 DEF Copied
  <2> QED
    BY <2>4, <2>8 DEF Working
<1>3. CASE ~Fed(p)
  <2>1. proc'[p].pc = "source"
    BY <1>3 DEF SnapshotSource, NeedSource, RInv, Shape, ProcFields
  <2> QED
    BY <2>1, WorksNot DEF Making
<1> QED
  BY <1>2, <1>3

\* ... and so does a resumption.
LEMMA DestinationWorks ==
  ASSUME RInv, CopyInv, CopyTree, [RNext]_rvars, ~touched', NEW p \in Procs, TakeDestination(p)
  PROVE  Working(p)'
<1>0. Carrier(p) \in Carriers /\ Kind(p) \in Copying /\ Request(p) \in Asked
  BY RequestKnown DEF TakeDestination, RInv, RequestFits, At, Copying
<1>1. ASSUME NEW why, End(p, why) PROVE Working(p)'
  BY <1>1, EndTurn, WorksNot DEF Making, At
<1>2. CASE proc' = [proc EXCEPT ![p].pc = "stamp"]
  <2>1. proc'[p].pc = "stamp"
    BY <1>2 DEF RInv, Shape, ProcFields
  <2> QED
    BY <2>1, WorksNot DEF Making
<1>3. CASE HasOperation(Row(p)) /\ VerifyCopyRow(p, Row(p)) /\ Proceed(p, Row(p))
  <2>1. PICK row : row = Row(p)
    OBVIOUS
  <2>2. PICK r \in Asked : r = row.request /\ r.carrier = Carrier(p) /\ r.kind = Kind(p)
    <3>1. RowSound(Carrier(p))
      BY <1>0 DEF RInv
    <3> QED
      BY <1>0, <1>3, <2>1, <3>1, ConcreteAsked DEF RowSound, Row, VerifyCopyRow, Carrier, Kind
  <2>3. r \in Copies /\ InRow(r) /\ Phase(r) = row.phase
    BY <1>0, <1>3, <2>1, <2>2 DEF Copies, Known, InRow, Phase, Row
  <2>4. CASE row.phase = "complete"
    BY <1>1, <1>3, <2>1, <2>4 DEF Proceed
  <2>5. CASE row.phase # "complete"
    <3>1. PICK todo, pc :
            /\ todo = (IF row.source = NoSnapshot THEN {} ELSE Entries(row.source))
            /\ pc = CASE row.phase = "recorded" -> "snapshot"
                      [] row.phase = "source-snapshot-durable" -> "copy"
                      [] row.phase = "tree-durable" -> "reprove"
      OBVIOUS
    <3>2. proc' = [proc EXCEPT ![p].request = r, ![p].id = row.id, ![p].todo = todo, ![p].pc = pc]
      BY <1>3, <2>1, <2>2, <2>5, <3>1 DEF Proceed
    <3>3. proc'[p].request = r /\ proc'[p].todo = todo /\ proc'[p].pc = pc
      BY <3>2 DEF RInv, Shape, ProcFields
    <3>4. row.phase \in {"recorded", "source-snapshot-durable", "tree-durable"}
      BY <1>0, <1>3, <2>1, <2>5 DEF RInv, RowSound, Row
    <3>5. CASE row.phase # "source-snapshot-durable"
      <4>1. pc \in {"snapshot", "reprove"}
        BY <3>1, <3>4, <3>5
      <4> QED
        BY <3>3, <4>1, WorksNot DEF Making
    <3>6. CASE row.phase = "source-snapshot-durable"
      <4>1. pc = "copy"
        BY <3>1, <3>6
      <4>2. row.source = Wanted(r)
        BY <1>0, <2>1, <2>2, <2>3, <3>6 DEF CopyTree, SourceKept, Row, Carrier
      <4>3. r.head \in 1..Tip
        BY <2>3 DEF CopyInv, Pending
      <4>4. History \in DOMAIN Wanted(r)
        BY LeavesApart DEF Wanted
      <4>5. todo = Entries(Wanted(r))
        BY <3>1, <4>2, <4>4, NoSnapshotLeaves
      <4>6. Request(p)' = r /\ Wanted(r)' = Wanted(r)
        BY <3>3, <4>3, WantedStays DEF Request, CopyTree
      <4>7. Entries(Wanted(r))' = Entries(Wanted(r))
        BY <4>6 DEF Entries, Leaves, ChainLeaves
      <4>8. Copied(p, proc[p].todo)'
        BY <3>3, <4>5, <4>6, <4>7 DEF Copied
      <4> QED
        BY <3>3, <4>1, <4>8 DEF Working
    <3> QED
      BY <3>5, <3>6
  <2> QED
    BY <2>4, <2>5
<1> QED
  BY <1>1, <1>2, <1>3 DEF TakeDestination

\* Registers, and the ends of copies, make no copy.
LEMMA OtherWorks ==
  ASSUME RInv, NEW p \in Procs,
         \/ RegisterLeases(p) \/ AdoptOperation(p) \/ CreateClaim(p) \/ WriteClaim(p)
         \/ Stamp(p) \/ ProveRegister(p) \/ TakeSource(p) \/ ClaimRoot(p)
         \/ ProveCopy(p) \/ ReproveCopy(p) \/ RemoveClaim(p) \/ Complete(p)
         \/ Admit(p) \/ Serve(p) \/ Migrate(p) \/ Kill(p)
         \/ Kind(p) = "register" /\ (ReadChain(p) \/ StageGenesis(p) \/ PublishGenesis(p))
  PROVE  Working(p)'
<1>1. ASSUME NEW why, End(p, why) PROVE Working(p)'
  BY <1>1, EndTurn, WorksNot DEF Making, At
<1>2. ASSUME NEW pc, Go(p, pc), pc \notin Making \/ Kind(p) \notin Copying PROVE Working(p)'
  BY <1>2, GoFrame, WorksNot DEF Kind, Request
<1>3. ASSUME proc'[p].pc \notin Making \/ Kind(p)' \notin Copying PROVE Working(p)'
  BY <1>3, WorksNot
<1>4. "register" \notin Copying
  BY DEF Copying
<1>5. CASE RegisterLeases(p)
  <2>1. CASE proc' = [proc EXCEPT ![p].pc = "adopt"]
    <3>1. proc'[p].pc = "adopt"
      BY <2>1 DEF RInv, Shape, ProcFields
    <3> QED
      BY <1>3, <3>1 DEF Making
  <2> QED
    BY <1>1, <1>5, <2>1 DEF RegisterLeases
<1>6. CASE AdoptOperation(p)
  <2>0. Kind(p) = "register"
    BY <1>6 DEF AdoptOperation, At, RInv, RequestFits
  <2>1. ASSUME NEW pc, NEW id, \/ proc' = [proc EXCEPT ![p].pc = pc, ![p].id = id]
                               \/ proc' = [proc EXCEPT ![p].pc = pc]
        PROVE  Working(p)'
    <3>1. proc'[p].request = Request(p)
      BY <2>1 DEF RInv, Shape, ProcFields, Request
    <3> QED
      BY <1>3, <1>4, <2>0, <3>1 DEF Kind, Request
  <2> QED
    BY <1>1, <1>6, <2>1 DEF AdoptOperation
<1>7. CASE CreateClaim(p)
  <2>1. ASSUME NEW n, proc' = [proc EXCEPT ![p].pc = "write_claim", ![p].id = n]
        PROVE  Working(p)'
    <3>1. proc'[p].pc = "write_claim"
      BY <2>1 DEF RInv, Shape, ProcFields
    <3> QED
      BY <1>3, <3>1 DEF Making
  <2> QED
    BY <1>1, <1>7, <2>1 DEF CreateClaim
<1>8. CASE WriteClaim(p) \/ Stamp(p)
  BY <1>1, <1>2, <1>4, <1>8 DEF WriteClaim, Stamp, Making
<1>9. CASE ProveRegister(p) \/ ProveCopy(p) \/ ReproveCopy(p) \/ RemoveClaim(p) \/ Complete(p)
           \/ Admit(p) \/ Serve(p) \/ Migrate(p) \/ Kill(p)
  BY <1>1, <1>2, <1>9 DEF ProveRegister, ProveCopy, ReproveCopy, RemoveClaim, Complete, Admit,
     Serve, Migrate, Kill, Making
<1>10. CASE TakeSource(p)
  <2>1. CASE proc' = [proc EXCEPT
                      ![p].pc = IF proc[p].id = 0 THEN "claim_root" ELSE "destination",
                      ![p].request = [@ EXCEPT !.head = Tip]]
    <3>1. PICK pc : pc = IF proc[p].id = 0 THEN "claim_root" ELSE "destination"
      OBVIOUS
    <3>2. proc'[p].pc = pc
      BY <2>1, <3>1 DEF RInv, Shape, ProcFields
    <3> QED
      BY <1>3, <3>1, <3>2 DEF Making
  <2> QED
    BY <1>1, <1>10, <2>1 DEF TakeSource
<1>11. CASE ClaimRoot(p)
  <2>1. ASSUME NEW n, proc' = [proc EXCEPT ![p].pc = "destination", ![p].id = n]
        PROVE  Working(p)'
    <3>1. proc'[p].pc = "destination"
      BY <2>1 DEF RInv, Shape, ProcFields
    <3> QED
      BY <1>3, <3>1 DEF Making
  <2> QED
    BY <1>1, <1>11, <2>1 DEF ClaimRoot
<1>12. CASE Kind(p) = "register" /\ (ReadChain(p) \/ StageGenesis(p) \/ PublishGenesis(p))
  BY <1>1, <1>2, <1>4, <1>12 DEF ReadChain, StageGenesis, PublishGenesis
<1> QED
  BY <1>5, <1>6, <1>7, <1>8, <1>9, <1>10, <1>11, <1>12

\* Commands start with nothing done.
LEMMA BeginWorks ==
  ASSUME RInv, NEW p \in Procs,
         \/ \E r \in Requests :
              RegisterLooks(p, r) \/ CopyLooks(p, r) \/ GrantLooks(p, r) \/ MigrateLooks(p, r)
         \/ \E c \in Carriers : ResumeFork(p, c)
  PROVE  Working(p)'
<1>1. ASSUME NEW pc \in {"lease", "source", "destination", "admit", "serve", "migrate"},
             NEW r, NEW id, Begin(p, Command(pc, r, id))
      PROVE  Working(p)'
  <2>1. proc'[p].pc = pc
    BY <1>1 DEF RInv, Shape, Begin, Command, Idle
  <2> QED
    BY <2>1, WorksNot DEF Making
<1> QED
  BY <1>1 DEF RegisterLooks, CopyLooks, GrantLooks, MigrateLooks, ResumeFork

\* A command knows what it has done so far, and writes what may be there.
LEMMA OwnWorks ==
  ASSUME RInv, CopyInv, CopyTree, [RNext]_rvars, ~touched', NEW p \in Procs, Acts(p)
  PROVE  /\ Working(p)'
         /\ Writes(p) /\ Kind(p) \in Copying /\ tree' # tree =>
              \E r \in Copies : r = Request(p) /\ Puts(r)
<1>0. Holding(p)
  BY DEF CopyInv
<1>1. CASE proc[p].pc \in Making /\ Kind(p) \in Copying
           /\ (Writes(p) \/ ReadChain(p) \/ VerifyDestination(p) \/ CopyDone(p) \/ OverridesDone(p))
  <2>1. PICK r \in Copies : Makers(p, r)
    BY <1>1, MakerKnown
  <2>2. CASE Writes(p)
    <3>1. Working(p)' /\ (tree' # tree => Puts(r))
      BY <1>0, <2>1, <2>2, CopyEntryWorks, WriteEntryWorks, OverrideWorks, GenesisWorks DEF Writes
    <3> QED
      BY <2>1, <3>1 DEF Makers
  <2>3. CASE ReadChain(p)
    BY <2>1, <2>3, ReadChainWorks
  <2>4. CASE (VerifyDestination(p) \/ CopyDone(p) \/ OverridesDone(p)) /\ ~Writes(p)
    BY <2>1, <2>4, CopiedWorks, OverridesDoneWorks
  <2>5. VerifyDestination(p) \/ CopyDone(p) \/ OverridesDone(p) => UNCHANGED tree
    BY DEF VerifyDestination, CopyDone, OverridesDone, Reads, disk
  <2> QED
    BY <1>1, <2>2, <2>3, <2>4, <2>5
<1>2. Writes(p) \/ ReadChain(p) \/ VerifyDestination(p) \/ CopyDone(p) \/ OverridesDone(p) =>
        /\ proc[p].pc \in Making
        /\ \/ Kind(p) \in Copying
           \/ Kind(p) = "register" /\ (ReadChain(p) \/ StageGenesis(p) \/ PublishGenesis(p))
  BY DEF Writes, StageGenesis, PublishGenesis, CopyEntry, WriteEntry, ApplyOverride, CreateOverride,
         ReadChain, VerifyDestination, CopyDone, OverridesDone, At, Making, Copying,
         RInv, RequestFits
<1>3. CASE SnapshotSource(p) \/ TakeDestination(p)
  <2>1. ~Writes(p)
    BY <1>3 DEF SnapshotSource, TakeDestination, Writes, StageGenesis, PublishGenesis, CopyEntry,
       WriteEntry, ApplyOverride, CreateOverride, At
  <2> QED
    BY <1>3, <2>1, SnapshotWorks, DestinationWorks
<1>4. CASE Kind(p) = "register" /\ (ReadChain(p) \/ StageGenesis(p) \/ PublishGenesis(p))
  BY <1>4, OtherWorks DEF Copying
<1>5. CASE ~(Writes(p) \/ ReadChain(p) \/ VerifyDestination(p) \/ CopyDone(p) \/ OverridesDone(p)
             \/ SnapshotSource(p) \/ TakeDestination(p))
  BY <1>5, OtherWorks, BeginWorks DEF Acts, Step, Writes
<1> QED
  BY <1>1, <1>2, <1>3, <1>4, <1>5

\* So every command knows what it has done so far.
LEMMA WorkingKeeps ==
  ASSUME RInv, CopyInv, CopyTree, [RNext]_rvars, ~touched', NEW q \in Procs
  PROVE  Working(q)'
<1>1. CASE Acts(q)
  BY <1>1, OwnWorks
<1>2. CASE ~Acts(q)
  <2>1. proc'[q] = proc[q] /\ (Fed(q)' => Fed(q))
    <3>1. ASSUME NEW p \in Procs, Acts(p) PROVE proc'[q] = proc[q] /\ (Fed(q)' => Fed(q))
      BY <1>2, <3>1, ActsTurn, CreationValues DEF Turn, Fed
    <3> QED
      BY <3>1, Steps DEF SourceMoves, Outside, rvars, Fed
  <2>2. CASE proc[q].pc \in Making /\ Kind(q) \in Copying
    <3>1. \A l \in Leaves \ {Staging} : tree'[l] = tree[l]
      BY <1>2, <2>2, OthersWrite
    <3> QED
      BY <2>1, <3>1, WorkingStays
  <2>3. CASE proc[q].pc \notin Making \/ Kind(q) \notin Copying
    BY <2>1, <2>3, WorksNot DEF Kind, Request
  <2> QED
    BY <2>2, <2>3
<1> QED
  BY <1>1, <1>2

\* A writing step finds a copy under way and keeps to what may be there, or
\* it drops the staging leaf.
LEMMA WrittenFits ==
  ASSUME RInv, CopyInv, CopyTree, [RNext]_rvars, ~touched', tree' # tree, NEW r \in Copies
  PROVE  TreeFits(r)'
<1>0. /\ r \in Asked /\ r.kind \in Copying /\ r.carrier \in Carriers /\ r.head \in 1..Tip
      /\ (r.kind = "fork" => r.payload \in Payloads)
      /\ Overrides(r) \subseteq Overridden
  BY CopyRequest
<1>1. Wanted(r)' = Wanted(r) /\ TreeFits(r) /\ DOMAIN tree = Leaves
  BY <1>0, WantedStays DEF CopyTree, RInv, Shape
<1>2. PICK p \in Procs :
        /\ Acts(p)
        /\ (RegisterLeases(p) /\ tree' = [tree EXCEPT ![Staging] = Absent]) \/ Writes(p)
  BY WhoWrites
<1>3. CASE RegisterLeases(p) /\ tree' = [tree EXCEPT ![Staging] = Absent]
  <2>1. UNCHANGED rows /\ tree'[Staging] = Absent
        /\ \A l \in Leaves \ {Staging} : tree'[l] = tree[l]
    BY <1>1, <1>3, LeavesApart DEF RegisterLeases
  <2>2. ~Done(r)
    <3> SUFFICES ASSUME Done(r) PROVE FALSE
      OBVIOUS
    <3>1. tree = Final(r)
      BY <1>1 DEF TreeFits
    <3>2. tree[Staging] = Absent
      BY <3>1, FinalChain DEF CopyTree
    <3>3. tree = [l \in Leaves |-> tree[l]] /\ tree' = [l \in Leaves |-> tree'[l]]
      BY <1>3 DEF CopyTree
    <3>4. \A l \in Leaves : tree'[l] = tree[l]
      BY <2>1, <3>2
    <3> QED
      BY <3>3, <3>4
  <2>3. InRow(r)' = InRow(r) /\ Phase(r)' = Phase(r) /\ ~Done(r)'
    BY <2>1, <2>2 DEF InRow, Phase, Done
  <2>4. ASSUME NEW l \in Leaves, tree[l] \in Possible(r, l) PROVE tree'[l] \in Possible(r, l)'
    BY <1>1, <2>1, <2>4 DEF Possible, Overrides
  <2>5. ~InRow(r) \/ Phase(r) = "recorded" => \A l \in Leaves : tree'[l] = Absent
    BY <1>1, <2>1 DEF TreeFits
  <2>6. ASSUME InRow(r), Phase(r) = "source-snapshot-durable"
        PROVE  /\ \A l \in Leaves : tree'[l] \in Possible(r, l)'
               /\ r.kind = "fork" /\ tree'[r.payload] # Absent => Overruled(r)'
    <3>1. \A l \in Leaves : tree'[l] \in Possible(r, l)'
      BY <1>1, <2>4, <2>6 DEF TreeFits
    <3>2. ASSUME r.kind = "fork", tree'[r.payload] # Absent PROVE Overruled(r)'
      <4>1. tree'[r.payload] = tree[r.payload]
        BY <1>0, <2>1, <3>2, LeavesApart
      <4>2. Overruled(r)
        BY <1>1, <2>6, <3>2, <4>1 DEF TreeFits
      <4> QED
        BY <1>0, <2>1, <4>2, LeavesApart DEF Overruled, Overrides
    <3> QED
      BY <3>1, <3>2
  <2> QED
    BY <2>3, <2>5, <2>6 DEF TreeFits
<1>4. CASE Writes(p)
  <2>1. /\ proc[p].pc \in Making /\ proc[p].pc \in Engaged /\ UNCHANGED rows
        /\ Kind(p) \in {"register", "fork", "replicate"}
    BY <1>4, WritersEngaged
  <2>2. CASE Kind(p) = "register"
    <3>1. Done(r)
      BY <2>1, <2>2, RegisterFindsDone
    <3>2. Geneses # {} /\ tree[Staging] = Absent
      BY <1>1, <3>1, FinalChain DEF TreeFits, CopyTree
    <3>3. StageGenesis(p) \/ PublishGenesis(p)
      BY <1>4, <2>2 DEF Writes, CopyEntry, WriteEntry, ApplyOverride, CreateOverride,
                        RInv, RequestFits, At
    <3> QED
      BY <3>2, <3>3 DEF StageGenesis, PublishGenesis
  <2>3. CASE Kind(p) \in Copying
    <3>1. r = Request(p) /\ InRow(r) /\ Phase(r) = "source-snapshot-durable" /\ ~Done(r)
      BY <2>1, <2>3, MakingCopy
    <3>2. Puts(r)
      BY <1>2, <1>4, <2>3, <3>1, OwnWorks
    <3>3. InRow(r)' /\ Phase(r)' = "source-snapshot-durable" /\ ~Done(r)'
      BY <2>1, <3>1 DEF InRow, Phase, Done
    <3>4. ASSUME NEW l \in Leaves PROVE tree'[l] \in Possible(r, l)
      BY <1>1, <3>1, <3>2 DEF Puts, TreeFits
    <3>5. ASSUME NEW l \in Leaves PROVE Possible(r, l)' = Possible(r, l)
      BY <1>1 DEF Possible, Overrides
    <3>6. r.kind = "fork" /\ tree'[r.payload] # Absent => Overruled(r)'
      BY <3>1, <3>2 DEF Puts
    <3> QED
      BY <3>3, <3>4, <3>5, <3>6 DEF TreeFits
  <2> QED
    BY <2>1, <2>2, <2>3 DEF Copying
<1> QED
  BY <1>2, <1>3, <1>4

\* The tree that a copy proves is the source under the overrides, with its chain.
LEMMA ProvedTree ==
  ASSUME RInv, CopyInv, CopyTree, NEW p \in Procs, ProveCopy(p), rows' # rows,
         NEW r \in Copies, r.carrier = Carrier(p)
  PROVE  tree = Final(r)
<1>0. At(p, "prove") /\ Kind(p) # "register" /\ Present = Expected(p)
  BY DEF ProveCopy
<1>1. Kind(p) \in Copying /\ proc[p].pc \in Making
  BY <1>0 DEF RInv, RequestFits, At, Creations, Copying, Making
<1>2. r = Request(p) /\ InRow(r) /\ Phase(r) = "source-snapshot-durable"
      /\ Row(p).source = Wanted(r)
  BY <1>1, MakingCopy
<1>3. /\ Copied(p, Overrides(r)) /\ (r.kind = "fork" => tree[r.payload] = r.payload)
  BY <1>0, <1>1, <1>2 DEF CopyTree, Working, At, Kind
<1>4. r.kind = "fork" =>
        /\ r.payload \in Payloads /\ r.payload \notin Overridden
        /\ Overrides(r) = Overridden /\ Overruled(r)
  BY <1>2, <1>3, CopyRequest, LeavesApart DEF CopyTree, TreeFits
<1>5. r.kind # "fork" => Overrides(r) = {}
  BY DEF Overrides
<1>6. Present = Entries(Wanted(r)) \cup (IF r.kind = "fork" THEN Overridden \cup {r.payload} ELSE {})
  BY <1>0, <1>2 DEF Expected, Kind
<1>7. ASSUME NEW l \in Leaves
      PROVE  tree[l] = CASE l \in Overrides(r) -> Override
                         [] l = r.payload /\ r.kind = "fork" -> l
                         [] OTHER -> Wanted(r)[l]
  <2>1. CASE l \in Overrides(r)
    BY <1>4, <1>5, <2>1 DEF Overruled
  <2>2. CASE l \notin Overrides(r) /\ l = r.payload /\ r.kind = "fork"
    BY <1>3, <2>2
  <2>3. CASE l \notin Overrides(r) /\ ~(l = r.payload /\ r.kind = "fork")
    <3>1. CASE l \in Entries(Wanted(r))
      BY <1>2, <1>3, <2>3, <3>1 DEF Copied
    <3>2. CASE l \notin Entries(Wanted(r))
      <4>1. l \notin Present
        BY <1>4, <1>5, <1>6, <2>3, <3>2
      <4> QED
        BY <2>3, <3>2, <4>1 DEF Present, Entries
    <3> QED
      BY <3>1, <3>2
  <2> QED
    BY <2>1, <2>2, <2>3
<1>8. tree = [l \in Leaves |-> tree[l]]
  BY DEF CopyTree
<1> QED
  BY <1>7, <1>8 DEF Final

\* What is in the root of a copy fits the phase of its row.
LEMMA TreeFitsKeeps ==
  ASSUME RInv, RInv', CopyInv, CopyTree, [RNext]_rvars, ~touched', NEW r \in Copies'
  PROVE  TreeFits(r)'
<1>1. CASE r \notin Copies
  <2>1. Makes(r) /\ r \in Asked /\ r.kind \in Copying /\ r.carrier \in Carriers
    BY <1>1, CopiesGrow, AskedFields DEF Copies
  <2>2. ~InRow(r)
    BY <1>1, <2>1 DEF Copies, Known, InRow
  <2>3. \A l \in Leaves : tree'[l] = Absent
    BY <2>1 DEF Makes, CopyInv, Before
  <2>4. ~InRow(r)'
    BY <2>1, <2>2 DEF Makes, InRow
  <2> QED
    BY <2>3, <2>4 DEF TreeFits, Done
<1>2. CASE r \in Copies /\ tree' # tree
  BY <1>2, WrittenFits
<1>3. CASE r \in Copies /\ tree' = tree
  <2>0. /\ r \in Asked /\ r.kind \in Copying /\ r.carrier \in Carriers /\ r.head \in 1..Tip
        /\ (r.kind = "fork" => r.payload \in Payloads)
    BY <1>3, CopyRequest
  <2>1. Wanted(r)' = Wanted(r) /\ TreeFits(r)
    BY <1>3, <2>0, WantedStays DEF CopyTree
  <2>2. PICK c \in Carriers : c = r.carrier
    BY <2>0
  <2>3. Advances(c)
    BY RowAdvances
  <2>4. Overrides(r)' = Overrides(r) /\ Final(r)' = Final(r)
        /\ (Overruled(r)' <=> Overruled(r))
        /\ \A l \in Leaves : Possible(r, l)' = Possible(r, l)
    BY <1>3, <2>1 DEF Overrides, Final, Possible, Overruled, Leaves, ChainLeaves
  <2>5. CASE ~InRow(r)
    <3>1. \A l \in Leaves : tree'[l] = Absent
      BY <1>3, <2>1, <2>5 DEF TreeFits
    <3>2. InRow(r)' => Phase(r)' = "recorded"
      <4> SUFFICES ASSUME InRow(r)' PROVE rows'[c].phase = "recorded"
        BY <2>2 DEF Phase
      <4>1. ~HasOperation(rows[c])
        BY <2>2, <2>3, <2>5 DEF InRow, Advances, SameOperation
      <4>2. rows'[c] \notin {rows[c], Admitted, Migrated}
        BY <2>2, <4>1, EmptyRows DEF InRow, HasOperation
      <4>3. PICK p \in Procs : rows'[c] = Stamped(Kind(p), proc[p].id, Request(p))
        BY <2>3, <4>1, <4>2 DEF Advances
      <4> QED
        BY <4>3 DEF Stamped, NoRow
    <3> QED
      BY <3>1, <3>2 DEF TreeFits, Done
  <2>6. CASE InRow(r)
    <3>1. InRow(r)' /\ HasOperation(rows[c]) /\ rows[c].request = r
      BY <2>0, <2>2, <2>6, DoneStays DEF InRow
    <3>2. \/ rows'[c].phase = rows[c].phase
          \/ rows[c].phase = "recorded" /\ rows'[c].phase = "source-snapshot-durable"
          \/ /\ rows[c].phase \in {"recorded", "source-snapshot-durable"}
             /\ rows'[c].phase = "tree-durable"
          \/ rows[c].phase = "tree-durable" /\ rows'[c].phase = "complete"
      BY <2>3, <3>1 DEF Advances
    <3>3. CASE rows[c].phase \in {"tree-durable", "complete"}
      <4>1. tree = Final(r) /\ rows[c].proof = tree
        BY <2>1, <2>2, <2>6, <3>3 DEF TreeFits, Done, Phase
      <4>2. rows'[c].proof = rows[c].proof
        BY <3>1, <3>3, Snapshots
      <4>3. Done(r)' /\ Phase(r)' \notin {"recorded", "source-snapshot-durable"}
        BY <2>2, <3>1, <3>2, <3>3 DEF Done, Phase
      <4> QED
        BY <1>3, <2>2, <2>4, <3>1, <4>1, <4>2, <4>3 DEF TreeFits
    <3>4. CASE /\ rows[c].phase \in {"recorded", "source-snapshot-durable"}
               /\ rows'[c].phase = "tree-durable"
      <4>1. PICK p \in Procs : Proving(p) /\ Carrier(p) = c
        BY <2>3, <3>1, <3>4 DEF Advances
      <4>2. Row(p).request = Request(p) /\ Request(p) = r
        BY <3>1, <4>1 DEF Proving, RInv, RowFits, Engaged, At, Row
      <4>3. ProveCopy(p) /\ rows' # rows
        BY <2>0, <3>4, <4>1, <4>2 DEF Proving, ProveRegister, Kind, Copying
      <4>4. tree = Final(r)
        BY <1>3, <2>2, <4>1, <4>3, ProvedTree
      <4>5. rows'[c].proof = tree
        BY <3>1, <3>4, <4>1, <4>3 DEF ProveCopy, RInv, Shape, Columns
      <4>6. Done(r)' /\ Phase(r)' \notin {"recorded", "source-snapshot-durable"}
        BY <2>2, <3>1, <3>4 DEF Done, Phase
      <4> QED
        BY <1>3, <2>2, <2>4, <3>1, <4>4, <4>5, <4>6 DEF TreeFits
    <3>5. CASE rows[c].phase = "recorded" /\ rows'[c].phase = "source-snapshot-durable"
      <4>1. \A l \in Leaves : tree'[l] = Absent
        BY <1>3, <2>1, <2>2, <3>5 DEF TreeFits, Phase
      <4>2. r.kind = "fork" => r.payload \in Leaves
        BY <2>0, LeavesApart
      <4> QED
        BY <2>2, <3>1, <3>5, <4>1, <4>2 DEF TreeFits, Done, Phase, Possible
    <3>6. CASE rows'[c].phase = rows[c].phase
               /\ rows[c].phase \notin {"tree-durable", "complete"}
      <4>1. Phase(r)' = Phase(r) /\ InRow(r)' /\ ~Done(r)'
        BY <2>2, <3>1, <3>6 DEF Phase, Done
      <4> QED
        BY <1>3, <2>1, <2>4, <2>6, <4>1 DEF TreeFits
    <3> QED
      BY <3>2, <3>3, <3>4, <3>5, <3>6
  <2> QED
    BY <2>5, <2>6
<1> QED
  BY <1>1, <1>2, <1>3

\* Nothing is copied where nothing has started.
LEMMA CopyTreeInit == RInit => CopyTree
<1> SUFFICES ASSUME RInit PROVE CopyTree
  OBVIOUS
<1>1. Copies = {}
  <2>1. ~Claimed /\ (\A c \in Carriers : ~HasOperation(rows[c]))
        /\ \A p \in Procs : proc[p].pc = "idle"
    BY EmptyRows DEF RInit, Claimed, Idle, HasOperation
  <2> QED
    BY <2>1 DEF Copies, Known
<1>2. tree = [l \in Leaves |-> tree[l]]
  BY DEF RInit
<1>3. PastSound
  BY CreationBounds DEF RInit, PastSound, Tip
<1>4. \A p \in Procs : Working(p)
  BY DEF RInit, Working, Idle
<1> QED
  BY <1>1, <1>2, <1>3, <1>4 DEF CopyTree, SourceKept

\* What a copy has put into the root, it goes on fitting.
LEMMA CopyTreeNext ==
  RInv /\ CopyInv /\ CopyTreeInv /\ [RNext]_rvars => CopyTreeInv'
<1> SUFFICES ASSUME RInv, CopyInv, CopyTreeInv, [RNext]_rvars, ~touched' PROVE CopyTree'
  BY DEF CopyTreeInv
<1>1. CopyTree /\ RInv'
  BY ChainStays, NextKeeps DEF CopyTreeInv
<1>2. tree' = [l \in Leaves |-> tree'[l]]
  <2>1. tree = [l \in Leaves |-> tree[l]]
    BY <1>1 DEF CopyTree
  <2>2. CASE UNCHANGED tree
    BY <2>1, <2>2
  <2>3. ASSUME NEW p \in Procs,
               (RegisterLeases(p) /\ tree' = [tree EXCEPT ![Staging] = Absent]) \/ Writes(p)
        PROVE  tree' = [l \in Leaves |-> tree'[l]]
    BY <2>1, <2>3 DEF Writes, StageGenesis, PublishGenesis, CopyEntry, WriteEntry, ApplyOverride,
                      CreateOverride
  <2> QED
    BY <2>2, <2>3, WhoWrites
<1>3. PastSound' /\ SourceKept'
  BY <1>1, WantedStays, SourceKeptKeeps DEF CopyTree
<1>4. \A r \in Copies' : TreeFits(r)'
  BY <1>1, TreeFitsKeeps
<1>5. \A p \in Procs : Working(p)'
  BY <1>1, WorkingKeeps
<1> QED
  BY <1>2, <1>3, <1>4, <1>5 DEF CopyTree, Leaves, ChainLeaves

(* Every reachable state satisfies CopyInv and CopyTreeInv: one copy at    *)
(* most makes the root and has its claim until it is done; and unless the  *)
(* root or the source was touched from outside, every leaf holds what the  *)
(* phase of its row and the program point of its command admit.            *)
THEOREM CopyTreeHolds == RSpec => [](CopyInv /\ CopyTreeInv)
<1>1. RInit => CopyInv /\ CopyTreeInv
  BY CopyInit, CopyTreeInit DEF CopyTreeInv
<1>2. RInv /\ (CopyInv /\ CopyTreeInv) /\ [RNext]_rvars => (CopyInv /\ CopyTreeInv)'
  BY CopyNext, CopyTreeNext
<1> QED
  BY <1>1, <1>2, InvHolds, PTL DEF RSpec

(* A finished copy is the source at the head that its request names, under *)
(* the overrides, with the source's chain or its own genesis, however often*)
(* it was killed, resumed or overtaken by the source.                      *)
THEOREM CopyHolds == RSpec => []CopyIsFaithful
<1>1. RInv /\ CopyInv /\ CopyTreeInv => CopyIsFaithful
  <2> SUFFICES ASSUME RInv, CopyInv, CopyTree, NEW c \in Carriers,
                      rows[c].kind \in Copying, rows[c].phase = "complete"
               PROVE  LET r == rows[c].request IN
                      tree = [l \in Leaves |->
                        CASE l \in Overridden /\ r.kind = "fork" -> Override
                          [] l \in Paths \ Overridden -> past[r.head][l]
                          [] l \in Paths /\ r.kind = "replicate" -> past[r.head][l]
                          [] l = History /\ r.kind = "replicate" -> r.head
                          [] l = r.payload /\ r.kind = "fork" -> l
                          [] OTHER -> Absent]
    BY DEF CopyTreeInv, CopyIsFaithful, Rows, Copying
  <2>1. HasOperation(rows[c]) /\ RowSound(c)
    BY DEF HasOperation, Null, Copying, RInv
  <2>2. PICK r \in Asked : r = rows[c].request /\ r.carrier = c /\ r.kind = rows[c].kind
    BY <2>1 DEF RowSound
  <2>3. r \in Copies /\ Done(r)
    BY <2>1, <2>2 DEF Copies, Known, Done, InRow, Phase
  <2>4. tree = Final(r)
    BY <2>3 DEF CopyTree, TreeFits
  <2>5. /\ r.kind \in {"replicate", "fork"}
        /\ r.kind = "fork" => Overrides(r) = Overridden /\ r.payload \in Payloads
        /\ r.kind = "replicate" => Overrides(r) = {}
    BY <2>3, CopyRequest DEF Overrides, Copying
  <2>6. ASSUME NEW l \in Leaves
        PROVE  (CASE l \in Overrides(r) -> Override
                  [] l = r.payload /\ r.kind = "fork" -> l
                  [] OTHER -> Wanted(r)[l])
               = CASE l \in Overridden /\ r.kind = "fork" -> Override
                   [] l \in Paths \ Overridden -> past[r.head][l]
                   [] l \in Paths /\ r.kind = "replicate" -> past[r.head][l]
                   [] l = History /\ r.kind = "replicate" -> r.head
                   [] l = r.payload /\ r.kind = "fork" -> l
                   [] OTHER -> Absent
    <3>1. Wanted(r)[l] = CASE l \in Paths -> past[r.head][l]
                           [] l = History /\ r.kind = "replicate" -> r.head
                           [] OTHER -> Absent
      BY DEF Wanted
    <3>2. CASE r.kind = "fork"
      BY <2>5, <3>1, <3>2, LeavesApart
    <3>3. CASE r.kind = "replicate"
      BY <2>5, <3>1, <3>3, LeavesApart
    <3> QED
      BY <2>5, <3>2, <3>3
  <2> QED
    BY <2>2, <2>4, <2>6 DEF Final
<1> QED
  BY <1>1, InvHolds, CopyTreeHolds, PTL

-----------------------------------------------------------------------------
(* The invariant of the tree of a register is inductive.                   *)

\* What is found by a register that comes to its proof, and by a grant that starts.
Reaches(p) ==
  /\ At(p, "prove")' /\ Kind(p)' = "register" => tree'[Staging] = Absent
  /\ At(p, "admit")' => \E r \in Requests : GrantLooks(p, r)

\* A command that gets elsewhere.
LEMMA ReachesNot ==
  ASSUME NEW p, proc'[p].pc \notin {"prove", "admit"}
  PROVE  Reaches(p)
BY DEF Reaches, At

\* Registers come to their proof from the chain or from its genesis.
LEMMA RegisterReaches ==
  ASSUME RInv, NEW p \in Procs,
         \/ RegisterLeases(p) \/ AdoptOperation(p) \/ CreateClaim(p) \/ WriteClaim(p)
         \/ Stamp(p) \/ ReadChain(p) \/ StageGenesis(p) \/ PublishGenesis(p) \/ ProveRegister(p)
  PROVE  Reaches(p)
<1>1. ASSUME NEW why, End(p, why) PROVE Reaches(p)
  BY <1>1, EndTurn, ReachesNot DEF At
<1>2. ASSUME NEW pc, Go(p, pc), pc \notin {"prove", "admit"} PROVE Reaches(p)
  BY <1>2, GoFrame, ReachesNot
<1>3. ASSUME NEW pc, pc \notin {"prove", "admit"}, proc' = [proc EXCEPT ![p].pc = pc]
      PROVE  Reaches(p)
  BY <1>3, ReachesNot DEF RInv, Shape, ProcFields
<1>11. ASSUME NEW pc, NEW id, pc \notin {"prove", "admit"},
              proc' = [proc EXCEPT ![p].pc = pc, ![p].id = id]
       PROVE  Reaches(p)
  BY <1>11, ReachesNot DEF RInv, Shape, ProcFields
<1>12. ASSUME NEW pc, NEW todo, pc \notin {"prove", "admit"},
              proc' = [proc EXCEPT ![p].pc = pc, ![p].todo = todo]
       PROVE  Reaches(p)
  BY <1>12, ReachesNot DEF RInv, Shape, ProcFields
<1>4. ASSUME Go(p, "prove"), tree'[Staging] = Absent PROVE Reaches(p)
  BY <1>4, GoFrame DEF Reaches, At
<1>5. CASE RegisterLeases(p)
  BY <1>1, <1>3, <1>5 DEF RegisterLeases
<1>6. CASE AdoptOperation(p)
  BY <1>1, <1>3, <1>11, <1>6 DEF AdoptOperation
<1>7. CASE CreateClaim(p)
  BY <1>1, <1>11, <1>7 DEF CreateClaim
<1>8. CASE WriteClaim(p) \/ Stamp(p) \/ StageGenesis(p) \/ ProveRegister(p)
  BY <1>1, <1>2, <1>8 DEF WriteClaim, Stamp, StageGenesis, ProveRegister
<1>9. CASE ReadChain(p)
  <2>1. UNCHANGED tree
    BY <1>9 DEF ReadChain, Reads, disk
  <2> QED
    BY <1>1, <1>2, <1>12, <1>4, <1>9, <2>1 DEF ReadChain
<1>10. CASE PublishGenesis(p)
  <2>1. CASE /\ tree' = [tree EXCEPT ![Request(p).payload] = tree[Staging], ![Staging] = Absent]
             /\ Go(p, "prove")
    <3>1. tree'[Staging] = Absent
      BY <2>1, LeavesApart DEF RInv, Shape
    <3> QED
      BY <1>4, <2>1, <3>1
  <2> QED
    BY <1>1, <1>10, <2>1 DEF PublishGenesis
<1> QED
  BY <1>5, <1>6, <1>7, <1>8, <1>9, <1>10

\* Copies come to another proof, ...
LEMMA CopyReaches ==
  ASSUME RInv, NEW p \in Procs,
         \/ TakeSource(p) \/ ClaimRoot(p) \/ TakeDestination(p) \/ SnapshotSource(p)
         \/ VerifyDestination(p) \/ CopyEntry(p) \/ CopyDone(p)
  PROVE  Reaches(p)
<1>1. ASSUME NEW why, End(p, why) PROVE Reaches(p)
  BY <1>1, EndTurn, ReachesNot DEF At
<1>2. ASSUME NEW pc, pc \notin {"prove", "admit"}, proc' = [proc EXCEPT ![p].pc = pc]
      PROVE  Reaches(p)
  BY <1>2, ReachesNot DEF RInv, Shape, ProcFields
<1>11. ASSUME NEW pc, NEW id, pc \notin {"prove", "admit"},
              proc' = [proc EXCEPT ![p].pc = pc, ![p].id = id]
       PROVE  Reaches(p)
  BY <1>11, ReachesNot DEF RInv, Shape, ProcFields
<1>12. ASSUME NEW pc, NEW todo, pc \notin {"prove", "admit"},
              proc' = [proc EXCEPT ![p].pc = pc, ![p].todo = todo]
       PROVE  Reaches(p)
  BY <1>12, ReachesNot DEF RInv, Shape, ProcFields
<1>3. ASSUME Go(p, AfterCopy(p)), Kind(p) \in Copying PROVE Reaches(p)
  <2>1. proc'[p].request = Request(p) /\ proc'[p].pc # "admit"
    BY <1>3, GoFrame DEF AfterCopy
  <2> QED
    BY <1>3, <2>1 DEF Reaches, At, Kind, Request, Copying
<1>4. CASE TakeSource(p)
  <2>1. PICK pc, r : /\ pc = (IF proc[p].id = 0 THEN "claim_root" ELSE "destination")
                     /\ r = [proc[p].request EXCEPT !.head = Tip]
    OBVIOUS
  <2>2. CASE proc' = [proc EXCEPT
                      ![p].pc = IF proc[p].id = 0 THEN "claim_root" ELSE "destination",
                      ![p].request = [@ EXCEPT !.head = Tip]]
    <3>1. proc'[p].pc = pc
      BY <2>1, <2>2 DEF RInv, Shape, ProcFields
    <3> QED
      BY <2>1, <3>1, ReachesNot
  <2> QED
    BY <1>1, <1>4, <2>2 DEF TakeSource
<1>5. CASE ClaimRoot(p)
  <2>1. \/ \E n : proc' = [proc EXCEPT ![p].pc = "destination", ![p].id = n]
        \/ \E why : End(p, why)
    BY <1>5 DEF ClaimRoot
  <2> QED
    BY <1>1, <1>11, <2>1
<1>6. CASE TakeDestination(p)
  <2>1. CASE HasOperation(Row(p)) /\ Proceed(p, Row(p))
    <3>1. PICK row : row = Row(p)
      OBVIOUS
    <3>2. PICK todo, pc :
            /\ todo = (IF row.source = NoSnapshot THEN {} ELSE Entries(row.source))
            /\ pc = CASE row.phase = "recorded" -> "snapshot"
                      [] row.phase = "source-snapshot-durable" -> "copy"
                      [] row.phase = "tree-durable" -> "reprove"
      OBVIOUS
    <3>3. CASE row.phase # "complete"
      <4>1. row.phase \in {"recorded", "source-snapshot-durable", "tree-durable"}
        BY <1>6, <2>1, <3>1, <3>3, RequestKnown DEF TakeDestination, At, RInv, RowSound, Row
      <4>2. pc \notin {"prove", "admit"}
        BY <3>2, <4>1
      <4>3. proc' = [proc EXCEPT ![p].request = row.request, ![p].id = row.id, ![p].todo = todo,
                                 ![p].pc = pc]
        BY <2>1, <3>1, <3>2, <3>3 DEF Proceed
      <4> QED
        BY <4>2, <4>3, ReachesNot DEF RInv, Shape, ProcFields
    <3> QED
      BY <1>1, <2>1, <3>1, <3>3 DEF Proceed
  <2> QED
    BY <1>1, <1>2, <1>6, <2>1 DEF TakeDestination
<1>7. CASE SnapshotSource(p)
  BY <1>2, <1>12, <1>7 DEF SnapshotSource, NeedSource
<1>8. CASE VerifyDestination(p)
  <2>1. Kind(p) \in Copying
    BY <1>8 DEF VerifyDestination, RInv, RequestFits, At, Copying
  <2> QED
    BY <1>1, <1>2, <1>3, <1>8, <2>1 DEF VerifyDestination, NeedSource
<1>9. CASE CopyEntry(p)
  <2>1. PICK l :
          \/ proc' = [proc EXCEPT ![p].todo = @ \ {l}]
          \/ proc' = [proc EXCEPT ![p].pc = "write", ![p].leaf = l, ![p].todo = @ \ {l}]
          \/ End(p, "invalid")
    BY <1>9 DEF CopyEntry
  <2> QED
    <3>1. CASE proc' = [proc EXCEPT ![p].todo = @ \ {l}]
      BY <1>9, <3>1, ReachesNot DEF CopyEntry, RInv, Shape, ProcFields, At
    <3>2. CASE proc' = [proc EXCEPT ![p].pc = "write", ![p].leaf = l, ![p].todo = @ \ {l}]
      <4>1. proc'[p].pc = "write"
        BY <3>2 DEF RInv, Shape, ProcFields
      <4> QED
        BY <4>1, ReachesNot
    <3> QED
      BY <1>1, <2>1, <3>1, <3>2
<1>10. CASE CopyDone(p)
  <2>1. Kind(p) \in Copying
    BY <1>10 DEF CopyDone, RInv, RequestFits, At, Copying
  <2> QED
    BY <1>3, <1>10, <2>1 DEF CopyDone
<1> QED
  BY <1>4, <1>5, <1>6, <1>7, <1>8, <1>9, <1>10

\* ... and nobody comes to an admission but a grant.
LEMMA ActsReach ==
  ASSUME RInv, NEW p \in Procs, Acts(p)
  PROVE  Reaches(p)
<1>1. ASSUME NEW why, End(p, why) PROVE Reaches(p)
  BY <1>1, EndTurn, ReachesNot DEF At
<1>2. ASSUME NEW pc, Go(p, pc), pc \notin {"prove", "admit"} PROVE Reaches(p)
  BY <1>2, GoFrame, ReachesNot
<1>3. CASE \/ WriteEntry(p) \/ CreateOverride(p) \/ OverridesDone(p) \/ ProveCopy(p)
           \/ ReproveCopy(p) \/ RemoveClaim(p) \/ Complete(p)
           \/ Admit(p) \/ Serve(p) \/ Migrate(p) \/ Kill(p)
  BY <1>1, <1>2, <1>3 DEF WriteEntry, CreateOverride, OverridesDone, ProveCopy, ReproveCopy,
     RemoveClaim, Complete, Admit, Serve, Migrate, Kill
<1>4. CASE ApplyOverride(p)
  <2>1. PICK l \in proc[p].todo :
          proc' = [proc EXCEPT ![p].todo = @ \ {l}, ![p].leaf = l,
                  ![p].pc = IF tree[l] = Override THEN "override" ELSE "create"]
    BY <1>4 DEF ApplyOverride
  <2>2. proc'[p].pc = IF tree[l] = Override THEN "override" ELSE "create"
    BY <2>1 DEF RInv, Shape, ProcFields
  <2> QED
    BY <2>2, ReachesNot
<1>5. ASSUME NEW pc \in {"lease", "source", "destination", "serve", "migrate"},
             NEW r, NEW id, Begin(p, Command(pc, r, id))
      PROVE  Reaches(p)
  <2>1. proc'[p].pc = pc
    BY <1>5 DEF RInv, Shape, Begin, Command, Idle
  <2> QED
    BY <2>1, ReachesNot
<1>6. ASSUME NEW r \in Requests, GrantLooks(p, r) PROVE Reaches(p)
  <2>1. \E pc \in {"admit", "serve"} : Begin(p, Command(pc, r, 0))
    BY <1>6 DEF GrantLooks
  <2>2. proc'[p].pc \in {"admit", "serve"}
    BY <2>1 DEF RInv, Shape, Begin, Command, Idle
  <2> QED
    BY <1>6, <2>2 DEF Reaches, At
<1>7. CASE \/ \E r \in Requests :
                RegisterLooks(p, r) \/ CopyLooks(p, r) \/ GrantLooks(p, r) \/ MigrateLooks(p, r)
           \/ \E c \in Carriers : ResumeFork(p, c)
  BY <1>5, <1>6, <1>7 DEF RegisterLooks, CopyLooks, MigrateLooks, ResumeFork
<1> QED
  BY <1>3, <1>4, <1>7, RegisterReaches, CopyReaches DEF Acts, Step

\* Who writes while a register has the root: its lease, or its own command.
LEMMA RegisterWrites ==
  ASSUME RInv, CopyInv, CopyTree, Core, [RNext]_rvars, ~touched', tree' # tree,
         NEW c \in Carriers, rows[c].kind = "register"
  PROVE  \/ /\ tree' = [tree EXCEPT ![Staging] = Absent]
            /\ UNCHANGED rows /\ \E p \in Procs : RegisterLeases(p)
         \/ \E p \in Procs :
              /\ StageGenesis(p) \/ PublishGenesis(p)
              /\ UNCHANGED rows /\ Carrier(p) = c /\ locks[c] = p /\ Request(p) = rows[c].request
<1>1. PICK p \in Procs :
        (RegisterLeases(p) /\ tree' = [tree EXCEPT ![Staging] = Absent]) \/ Writes(p)
  BY WhoWrites
<1>2. CASE Writes(p)
  <2>1. /\ proc[p].pc \in Making /\ proc[p].pc \in Engaged /\ UNCHANGED rows
        /\ Kind(p) \in {"register", "fork", "replicate"}
    BY <1>2, WritersEngaged
  <2>2. Kind(p) = "register"
    <3> SUFFICES ASSUME Kind(p) \in Copying PROVE FALSE
      BY <2>1 DEF Copying
    <3>1. Request(p) \in Copies /\ ~Done(Request(p))
      BY <2>1, MakingCopy
    <3> QED
      BY <3>1 DEF CopyInv, KeptOut, Registering
  <2>3. StageGenesis(p) \/ PublishGenesis(p)
    BY <1>2, <2>2 DEF Writes, CopyEntry, WriteEntry, ApplyOverride, CreateOverride,
                      RInv, RequestFits, At
  <2>4. /\ Carrier(p) \in Carriers /\ locks[Carrier(p)] = p
        /\ HasOperation(Row(p)) /\ Row(p).request = Request(p)
    BY <2>1, RequestKnown DEF RInv, HoldsLock, Held, RowFits, Engaged, At
  <2>5. Carrier(p) = c
    BY <2>4 DEF Core, OneOwner, Owner, Row, HasOperation, Null
  <2> QED
    BY <2>1, <2>3, <2>4, <2>5 DEF Row
<1> QED
  BY <1>1, <1>2 DEF RegisterLeases

\* A root that nobody owns holds nothing.
LEMMA EmptyKeeps ==
  ASSUME RInv, RegisterTree, [RNext]_rvars, ~touched', \A c \in Carriers : ~Owner(c)'
  PROVE  \A l \in Leaves : tree'[l] = Absent
<1>1. ASSUME NEW c \in Carriers PROVE ~Owner(c)
  <2>1. Advances(c) /\ ~Owner(c)'
    BY RowAdvances
  <2>2. Migrated.lifecycle = "writable" /\ ~HasOperation(Legacy)
    BY EmptyRows DEF HasOperation
  <2>3. rows[c] = Legacy => rows'[c] \in {Legacy, Migrated}
    BY <2>1, <2>2, EmptyRows DEF Advances, Null
  <2> QED
    BY <2>1, <2>2, <2>3 DEF Advances, Owner, SameOperation
<1>2. \A l \in Leaves : tree[l] = Absent
  BY <1>1 DEF RegisterTree
<1>3. CASE tree' # tree
  <2>1. PICK p \in Procs :
          (RegisterLeases(p) /\ tree' = [tree EXCEPT ![Staging] = Absent]) \/ Writes(p)
    BY <1>3, WhoWrites
  <2>2. ~Writes(p)
    <3> SUFFICES ASSUME Writes(p) PROVE FALSE
      OBVIOUS
    <3>1. proc[p].pc \in Engaged
      BY WritersEngaged
    <3>2. Carrier(p) \in Carriers /\ HasOperation(Row(p))
      BY <3>1, RequestKnown DEF RInv, RowFits, Engaged, At
    <3> QED
      BY <1>1, <3>2 DEF Owner, Row
  <2> QED
    BY <1>2, <2>1, <2>2 DEF RInv, Shape
<1> QED
  BY <1>2, <1>3

\* What the root of a register on a carrier holds.
Registered(c) ==
  rows[c].kind = "register" =>
    LET genesis == rows[c].request.payload IN
    /\ \A l \in Leaves : tree[l] \in {Absent, genesis}
    /\ \A l \in Leaves \ {Staging, genesis} : tree[l] = Absent
    /\ rows[c].phase \in {"tree-durable", "complete"} =>
         tree[Staging] = Absent /\ tree[genesis] = genesis /\ rows[c].proof = tree

\* The payload of a register's row is a genesis.
LEMMA RegisterRow ==
  ASSUME RInv, NEW c \in Carriers, rows[c].kind = "register"
  PROVE  /\ HasOperation(rows[c]) /\ rows[c].request \in Asked
         /\ rows[c].request.kind = "register" /\ rows[c].request.carrier = c
         /\ rows[c].request.payload \in Payloads
<1>1. HasOperation(rows[c]) /\ RowSound(c)
  BY DEF RInv, HasOperation, Null
<1> QED
  BY <1>1, AskedFields DEF RowSound

\* A register finds the root empty, ...
LEMMA NewRegister ==
  ASSUME RInv, RegisterTree, Core, Core', [RNext]_rvars, ~touched',
         NEW c \in Carriers, rows'[c].kind = "register", rows[c].kind # "register"
  PROVE  Registered(c)'
<1>1. HasOperation(rows'[c])
  BY DEF HasOperation, Null
<1>2. ~HasOperation(rows[c])
  BY RowAdvances DEF Advances, SameOperation
<1>3. rows'[c] # rows[c] /\ rows'[c] \notin {Admitted, Migrated}
  BY <1>1, <1>2, EmptyRows DEF HasOperation
<1>4. rows[c] = NoRow
  BY <1>2, <1>3, RowAdvances DEF Advances
<1>5. ~Owner(c)
  BY <1>2, <1>4, EmptyRows DEF Owner, Null
<1>6. Claimed /\ claim.request.carrier = c /\ rows'[c].phase = "recorded"
  BY <1>1, <1>5, NewOwner DEF Owner
<1>7. ASSUME NEW d \in Carriers PROVE ~Owner(d)
  BY <1>5, <1>6, <1>7, Named DEF Core, OwnerShows, Claimed
<1>8. \A l \in Leaves : tree[l] = Absent
  BY <1>7 DEF RegisterTree
<1>9. UNCHANGED tree
  <2>1. PICK p \in Procs : RowActions(p)
    BY <1>3, RowsChange
  <2> QED
    BY <2>1 DEF RowActions, Stamp, ProveRegister, SnapshotSource, ProveCopy, Complete, Admit,
                Serve, Migrate, disk
<1> QED
  BY <1>6, <1>8, <1>9 DEF Registered

\* ... and writes its genesis and nothing else.
LEMMA RegisteredKeeps ==
  ASSUME RInv, CopyInv, CopyTree, RegisterTree, Core, [RNext]_rvars, ~touched',
         NEW c \in Carriers, rows[c].kind = "register"
  PROVE  Registered(c)'
<1>1. PICK g \in Payloads : g = rows[c].request.payload
  BY RegisterRow
<1>2. HasOperation(rows[c]) /\ rows'[c].request = rows[c].request /\ Advances(c)
  BY RegisterRow, RowAdvances DEF Advances, SameOperation
<1>3. /\ g \in Leaves /\ Staging \in Leaves /\ g # Staging /\ g # Absent
      /\ g \in {History} \cup Payloads
  BY LeavesApart
<1>4. /\ \A l \in Leaves : tree[l] \in {Absent, g}
      /\ \A l \in Leaves \ {Staging, g} : tree[l] = Absent
      /\ rows[c].phase \in {"tree-durable", "complete"} =>
           tree[Staging] = Absent /\ tree[g] = g /\ rows[c].proof = tree
      /\ DOMAIN tree = Leaves
  BY <1>1 DEF RegisterTree, RInv, Shape
<1>5. CASE tree' # tree
  <2>1. UNCHANGED rows
    BY <1>5, RegisterWrites
  <2>2. ASSUME \A l \in Leaves : tree'[l] \in {Absent, g},
               \A l \in Leaves \ {Staging, g} : tree'[l] = Absent,
               rows[c].phase \notin {"tree-durable", "complete"}
        PROVE  Registered(c)'
    BY <1>1, <2>1, <2>2 DEF Registered
  <2>3. ASSUME rows[c].phase \in {"tree-durable", "complete"}
        PROVE  tree[Staging] = Absent /\ Geneses # {}
    BY <1>3, <1>4, <2>3 DEF Geneses, Present
  <2>4. CASE tree' = [tree EXCEPT ![Staging] = Absent]
    <3>1. tree[Staging] # Absent
      <4> SUFFICES ASSUME tree[Staging] = Absent PROVE FALSE
        OBVIOUS
      <4>1. tree = [l \in Leaves |-> tree[l]] /\ tree' = [l \in Leaves |-> tree'[l]]
        BY <2>4 DEF CopyTree
      <4>2. \A l \in Leaves : tree'[l] = tree[l]
        BY <1>4, <2>4
      <4> QED
        BY <1>5, <4>1, <4>2
    <3> QED
      BY <1>3, <1>4, <2>2, <2>3, <2>4, <3>1
  <2>5. ASSUME NEW p \in Procs, StageGenesis(p) \/ PublishGenesis(p), Request(p) = rows[c].request
        PROVE  Registered(c)'
    <3>1. CASE StageGenesis(p)
      <4>1. tree' = [tree EXCEPT ![Staging] = g] /\ Geneses = {}
        BY <1>1, <1>5, <2>5, <3>1 DEF StageGenesis
      <4> QED
        BY <1>3, <1>4, <2>2, <2>3, <4>1
    <3>2. CASE PublishGenesis(p)
      <4>1. /\ tree' = [tree EXCEPT ![g] = tree[Staging], ![Staging] = Absent]
            /\ tree[Staging] # Absent
        BY <1>1, <1>5, <2>5, <3>2 DEF PublishGenesis
      <4> QED
        BY <1>3, <1>4, <2>2, <2>3, <4>1
    <3> QED
      BY <2>5, <3>1, <3>2
  <2> QED
    BY <1>5, <2>4, <2>5, RegisterWrites
<1>6. CASE tree' = tree
  <2>1. CASE rows[c].phase \in {"tree-durable", "complete"}
    <3>1. rows'[c].proof = rows[c].proof
      BY <1>2, <2>1, Snapshots
    <3> QED
      BY <1>1, <1>2, <1>4, <1>6, <2>1, <3>1 DEF Registered
  <2>2. CASE /\ rows'[c].phase = "tree-durable"
             /\ \E p \in Procs : Proving(p) /\ Carrier(p) = c
             /\ rows[c].phase \notin {"tree-durable", "complete"}
    <3>1. PICK p \in Procs : Proving(p) /\ Carrier(p) = c
      BY <2>2
    <3>2. Request(p) = rows[c].request /\ Kind(p) = "register" /\ At(p, "prove")
      BY <3>1, RegisterRow DEF Proving, RInv, RowFits, Engaged, At, Row, Kind
    <3>3. ProveRegister(p)
      BY <3>1, <3>2 DEF Proving, ProveCopy
    <3>4. tree[Staging] = Absent /\ Geneses # {}
      BY <3>2 DEF RegisterTree, Core, ClaimShows, At
    <3>5. tree[g] = g
      BY <1>4, <3>4 DEF Geneses, Present
    <3>6. rows'[c].proof = tree
      BY <2>2, <3>1, <3>3 DEF ProveRegister, RInv, Shape, Columns
    <3> QED
      BY <1>1, <1>2, <1>4, <1>6, <3>4, <3>5, <3>6 DEF Registered
  <2>3. CASE rows'[c].phase \notin {"tree-durable", "complete"}
    BY <1>1, <1>2, <1>4, <1>6, <2>3 DEF Registered
  <2> QED
    BY <1>2, <2>1, <2>2, <2>3 DEF Advances
<1> QED
  BY <1>5, <1>6

\* Nothing is staged where a register proves its root.
LEMMA StagedKeeps ==
  ASSUME RInv, CopyInv, CopyTree, RegisterTree, Core, [RNext]_rvars, ~touched',
         NEW q \in Procs, At(q, "prove")', Kind(q)' = "register"
  PROVE  tree'[Staging] = Absent
<1>1. CASE Acts(q)
  BY <1>1, ActsReach DEF Reaches
<1>2. CASE ~Acts(q)
  <2>1. proc'[q] = proc[q]
    BY <1>2, Steps, ActsTurn DEF Turn, SourceMoves, Outside, rvars
  <2>2. At(q, "prove") /\ Kind(q) = "register"
    BY <2>1 DEF At, Kind, Request
  <2>3. tree[Staging] = Absent /\ DOMAIN tree = Leaves
    BY <2>2 DEF RegisterTree, RInv, Shape
  <2>4. /\ Carrier(q) \in Carriers /\ locks[Carrier(q)] = q
        /\ HasOperation(Row(q)) /\ Row(q).request = Request(q)
    BY <2>2, RequestKnown DEF RInv, HoldsLock, Held, RowFits, Engaged, At
  <2>5. rows[Carrier(q)].kind = "register"
    BY <2>2, <2>4 DEF RInv, RowSound, Row, Kind
  <2>6. CASE tree' # tree
    <3>1. ASSUME NEW p \in Procs, StageGenesis(p) \/ PublishGenesis(p), p = q PROVE FALSE
      BY <2>2, <3>1 DEF StageGenesis, PublishGenesis, At
    <3> QED
      BY <2>3, <2>4, <2>5, <2>6, <3>1, RegisterWrites, LeavesApart
  <2> QED
    BY <2>3, <2>6
<1> QED
  BY <1>1, <1>2

\* A root that a grant admits has a chain, and nobody makes it.
LEMMA AdmissionKeeps ==
  ASSUME RInv, RegisterTree, Core, [RNext]_rvars, ~touched', ~raced',
         NEW q \in Procs, At(q, "admit")'
  PROVE  exists' /\ claim' = Nothing /\ Geneses' # {} /\ Row(q)' \in {NoRow, Admitted}
<1>1. CASE Acts(q)
  <2>1. PICK r \in Requests : GrantLooks(q, r)
    BY <1>1, ActsReach DEF Reaches
  <2>2. r \in Asked /\ r.carrier \in Carriers
    BY CreationValues, AskedFields
  <2>3. /\ Begin(q, Command("admit", r, 0)) /\ View(r.carrier) = "metadata-less"
    <3>1. \/ Begin(q, Command("admit", r, 0)) /\ View(r.carrier) = "metadata-less"
          \/ Begin(q, Command("serve", r, 0))
      BY <2>1 DEF GrantLooks
    <3>2. ~Begin(q, Command("serve", r, 0))
      BY DEF RInv, Shape, Begin, Command, Idle, At
    <3> QED
      BY <3>1, <3>2
  <2>4. UNCHANGED <<exists, claim, tree, rows>> /\ Request(q)' = r
    BY <2>3 DEF RInv, Shape, Begin, Command, Idle, disk, store, Request
  <2>5. exists /\ claim = Nothing /\ Geneses # {}
    BY <2>1 DEF GrantLooks, WellFormedChain
  <2>6. rows[r.carrier] = NoRow
    <3>1. RowSound(r.carrier)
      BY <2>2 DEF RInv
    <3>2. rows[r.carrier].lifecycle # "metadata-less"
      <4>1. CASE ~HasOperation(rows[r.carrier])
        BY <3>1, <4>1, EmptyRows DEF RowSound, Null
      <4>2. CASE HasOperation(rows[r.carrier])
        BY <3>1, <4>2 DEF RowSound, WellFormedRow, Paired, OriginAdmits, Creations, Null
      <4> QED
        BY <4>1, <4>2
    <3> QED
      BY <2>3, <3>1, <3>2, EmptyRows DEF View, Null
  <2> QED
    BY <2>4, <2>5, <2>6 DEF Row, Carrier, Geneses, Present, Leaves, ChainLeaves
<1>2. CASE ~Acts(q)
  <2>1. proc'[q] = proc[q] /\ At(q, "admit")
    BY <1>2, Steps, ActsTurn DEF Turn, SourceMoves, Outside, rvars, At
  <2>2. exists /\ claim = Nothing /\ Geneses # {} /\ Row(q) \in {NoRow, Admitted}
    BY <2>1 DEF RegisterTree
  <2>3. exists' /\ Geneses' # {}
    BY <2>2, ChainStays
  <2>4. claim' = Nothing
    <3>1. \A p \in Procs : ~At(p, "write_claim")
      BY <2>2, ClaimValues DEF Core, ClaimShows, At
    <3> QED
      BY <2>2, <3>1, ClaimAdvances DEF ClaimGoesOn
  <2>5. PICK c \in Carriers : c = Carrier(q)
    BY <2>1, RequestKnown DEF At
  <2>6. \A p \in Procs : ~At(p, "stamp")
    BY <2>2 DEF Core, ClaimShows, At, Claimed
  <2>7. Row(q) = rows[c] /\ Row(q)' = rows'[c]
    BY <2>1, <2>5 DEF Row, Carrier, Request
  <2>8. rows'[c] \in {NoRow, Admitted}
    <3>1. Advances(c) /\ Admitted # Legacy /\ Admitted # NoRow
          /\ ~HasOperation(NoRow) /\ ~HasOperation(Admitted) /\ NoRow # Legacy
      BY RowAdvances, EmptyRows DEF HasOperation, Null
    <3> QED
      BY <2>2, <2>6, <2>7, <3>1 DEF Advances
  <2> QED
    BY <2>3, <2>4, <2>7, <2>8
<1> QED
  BY <1>1, <1>2

\* An empty root, and one that an earlier version registered.
LEMMA RegisterTreeInit == RInit => RegisterTree
<1> SUFFICES ASSUME RInit PROVE RegisterTree
  OBVIOUS
<1>1. \A c \in Carriers : rows[c] = (IF c \in stores THEN Legacy ELSE NoRow) /\ rows[c].kind = Null
  BY EmptyRows DEF RInit
<1>2. (\A c \in Carriers : ~Owner(c)) => stores = {}
  BY <1>1 DEF RInit, Owner
<1>3. stores = {} => \A l \in Leaves : tree[l] = Absent
  BY DEF RInit
<1>4. \A p \in Procs : ~At(p, "prove") /\ ~At(p, "admit")
  BY DEF RInit, Idle, At
<1> QED
  BY <1>1, <1>2, <1>3, <1>4 DEF RegisterTree, Null

\* What a register has put into the root, it goes on fitting.
LEMMA RegisterTreeNext ==
  /\ RInv /\ CopyInv /\ CopyTreeInv /\ OwnerInv /\ RegisterTreeInv /\ [RNext]_rvars
  => RegisterTreeInv'
<1> SUFFICES ASSUME RInv, CopyInv, CopyTreeInv, OwnerInv, RegisterTreeInv, [RNext]_rvars,
                    ~raced', ~touched'
             PROVE  RegisterTree'
  BY DEF RegisterTreeInv
<1>1. CopyTree /\ Core /\ RegisterTree /\ Core'
  BY ChainStays, NextOwner DEF CopyTreeInv, OwnerInv, RegisterTreeInv
<1>2. (\A c \in Carriers : ~Owner(c)') => \A l \in Leaves : tree'[l] = Absent
  BY <1>1, EmptyKeeps
<1>3. \A c \in Carriers : Registered(c)'
  <2> TAKE c \in Carriers
  <2>1. CASE rows[c].kind = "register"
    BY <1>1, <2>1, RegisteredKeeps
  <2>2. CASE rows[c].kind # "register" /\ rows'[c].kind = "register"
    BY <1>1, <2>2, NewRegister
  <2>3. CASE rows'[c].kind # "register"
    BY <2>3 DEF Registered
  <2> QED
    BY <2>1, <2>2, <2>3
<1>4. \A p \in Procs : At(p, "prove")' /\ Kind(p)' = "register" => tree'[Staging] = Absent
  BY <1>1, StagedKeeps
<1>5. \A p \in Procs : At(p, "admit")' =>
        exists' /\ claim' = Nothing /\ Geneses' # {} /\ Row(p)' \in {NoRow, Admitted}
  BY <1>1, AdmissionKeeps
<1>6. Leaves' = Leaves
  BY DEF Leaves, ChainLeaves
<1> QED
  BY <1>2, <1>3, <1>4, <1>5, <1>6 DEF RegisterTree, Registered

(* Every reachable state satisfies RegisterTreeInv: unless a claim was     *)
(* raced for or the root touched, a root that nobody owns is empty, and    *)
(* one that a register makes holds its genesis and nothing else.           *)
THEOREM RegisterTreeHolds == RSpec => []RegisterTreeInv
<1>1. RInit => RegisterTreeInv
  BY RegisterTreeInit DEF RegisterTreeInv
<1> QED
  BY <1>1, RegisterTreeNext, InvHolds, CopyTreeHolds, OwnerHolds, PTL DEF RSpec

(* A finished register or fork leaves a well-formed chain whose genesis is *)
(* the one that was asked for, nothing torn in the root, and rows that the *)
(* CHECKs of the schema admit.                                             *)
THEOREM FinishedHolds == RSpec => []FinishedRootIsRegistered
<1>1. RInv /\ CopyInv /\ CopyTreeInv /\ RegisterTreeInv => FinishedRootIsRegistered
  <2> SUFFICES ASSUME RInv, CopyInv, CopyTree, RegisterTree, NEW c \in Carriers,
                      rows[c].phase = "complete"
               PROVE  /\ WellFormedRow(rows[c])
                      /\ WellFormedChain /\ tree[Staging] = Absent
                      /\ rows[c].kind # "replicate" => Geneses = {rows[c].request.payload}
                      /\ \A l \in Leaves : tree[l] # Torn
    BY DEF CopyTreeInv, RegisterTreeInv, FinishedRootIsRegistered
  <2>1. RowSound(c) /\ HasOperation(rows[c])
    BY EmptyRows DEF RInv, RowSound, Null
  <2>2. CASE rows[c].kind = "register"
    <3>1. PICK g \in Payloads : g = rows[c].request.payload
      BY <2>2, RegisterRow
    <3>2. /\ \A l \in Leaves : tree[l] \in {Absent, g}
          /\ \A l \in Leaves \ {Staging, g} : tree[l] = Absent
          /\ tree[Staging] = Absent /\ tree[g] = g
      BY <2>2, <3>1 DEF RegisterTree
    <3>3. Geneses = {g}
      BY <3>2, LeavesApart DEF Geneses, Present
    <3>4. WellFormedChain
      BY <3>2, <3>3 DEF WellFormedChain
    <3>5. \A l \in Leaves : tree[l] # Torn
      BY <3>2, LeavesApart
    <3> QED
      BY <2>1, <3>1, <3>2, <3>3, <3>4, <3>5 DEF RowSound
  <2>3. CASE rows[c].kind \in Copying
    <3>1. PICK r \in Asked : r = rows[c].request /\ r.carrier = c /\ r.kind = rows[c].kind
      BY <2>1 DEF RowSound
    <3>2. r \in Copies /\ Done(r)
      BY <2>1, <2>3, <3>1 DEF Copies, Known, Done, InRow, Phase
    <3>3. tree = Final(r)
      BY <3>2 DEF CopyTree, TreeFits
    <3>4. /\ tree[Staging] = Absent /\ \A l \in Leaves : tree[l] # Torn
          /\ Geneses = {IF r.kind = "fork" THEN r.payload ELSE History}
          /\ WellFormedChain
      BY <3>2, <3>3, FinalChain DEF CopyTree
    <3> QED
      BY <2>1, <2>3, <3>1, <3>4 DEF RowSound, Copying
  <2> QED
    BY <2>1, <2>2, <2>3 DEF RowSound, Creations, Copying
<1> QED
  BY <1>1, InvHolds, CopyTreeHolds, RegisterTreeHolds, PTL

-----------------------------------------------------------------------------
(* What outside writers and damage mean to the commands.                   *)

Counters == spent.faults \in Nat /\ DOMAIN spent = {"faults", "commands"}

\* Faults are counted.
LEMMA CountersHold == RSpec => []Counters
<1>1. RInit => Counters
  BY DEF RInit, Counters
<1>2. Counters /\ [RNext]_rvars => Counters'
  <2> SUFFICES ASSUME Counters, [RNext]_rvars PROVE Counters'
    OBVIOUS
  <2>1. CASE UNCHANGED spent
    BY <2>1 DEF Counters
  <2>2. CASE spent' = [spent EXCEPT !.faults = @ + 1] \/ spent' = [spent EXCEPT !.commands = @ + 1]
    BY <2>2 DEF Counters
  <2>3. ASSUME NEW p \in Procs, Acts(p) PROVE Counters'
    <3>1. CASE Step(p)
      BY <2>1, <3>1 DEF Step, RegisterLeases, AdoptOperation, CreateClaim, WriteClaim, Stamp,
         ReadChain, StageGenesis, PublishGenesis, ProveRegister, TakeSource, ClaimRoot,
         TakeDestination, SnapshotSource, VerifyDestination, CopyEntry, CopyDone, WriteEntry,
         ApplyOverride, CreateOverride, OverridesDone, ProveCopy, ReproveCopy, RemoveClaim,
         Complete, Admit, Serve, Migrate, Reads, Others
    <3> QED
      BY <2>2, <2>3, <3>1 DEF Acts, Kill, RegisterLooks, CopyLooks, GrantLooks, MigrateLooks,
         ResumeFork, Begin
  <2> QED
    BY <2>1, <2>2, <2>3, Steps DEF SourceMoves, Outside, rvars
<1> QED
  BY <1>1, <1>2, PTL DEF RSpec

\* A command leaves what is foreign, but for the staging leaf and for overrides.
LEMMA ForeignLeft ==
  ASSUME RInv, NEW p \in Procs, Acts(p), NEW l \in Leaves \ (Overridden \cup {Staging}),
         tree[l] = Foreign
  PROVE  tree'[l] = Foreign
<1>0. DOMAIN tree = Leaves /\ Foreign # Absent /\ Foreign # Torn
  BY ContentValues DEF RInv, Shape
<1>1. CASE tree' = tree
  BY <1>1
<1>2. CASE RegisterLeases(p) /\ tree' = [tree EXCEPT ![Staging] = Absent]
  BY <1>0, <1>2
<1>3. CASE StageGenesis(p)
  BY <1>0, <1>3 DEF StageGenesis
<1>4. CASE PublishGenesis(p)
  BY <1>0, <1>4 DEF PublishGenesis
<1>5. CASE CopyEntry(p)
  BY <1>0, <1>5 DEF CopyEntry
<1>6. CASE WriteEntry(p)
  BY <1>0, <1>6 DEF WriteEntry
<1>7. CASE ApplyOverride(p)
  <2>1. proc[p].todo \subseteq Overridden
    BY <1>7 DEF ApplyOverride, RInv, RequestFits, At
  <2> QED
    BY <1>0, <1>7, <2>1 DEF ApplyOverride
<1>8. CASE CreateOverride(p)
  BY <1>0, <1>8 DEF CreateOverride
<1> QED
  BY <1>1, <1>2, <1>3, <1>4, <1>5, <1>6, <1>7, <1>8, ActsWrite DEF Writes

(* What an outside writer put into the root is never overwritten or        *)
(* removed, but where a fork has an override and where recovery takes the  *)
(* staging leaf for its own.                                               *)
THEOREM ForeignHolds == RSpec => ForeignFilesStay
<1>1. RInv /\ Counters /\ [RNext]_rvars =>
        \A l \in Leaves \ (Overridden \cup {Staging}) :
          tree[l] = Foreign => tree'[l] = Foreign \/ spent'.faults # spent.faults
  <2> SUFFICES ASSUME RInv, Counters, [RNext]_rvars,
                      NEW l \in Leaves \ (Overridden \cup {Staging}), tree[l] = Foreign
               PROVE  tree'[l] = Foreign \/ spent'.faults # spent.faults
    OBVIOUS
  <2>1. CASE Outside
    <3>1. spent' = [spent EXCEPT !.faults = @ + 1]
      BY <2>1 DEF Outside
    <3> QED
      BY <3>1 DEF Counters
  <2>2. CASE SourceMoves \/ UNCHANGED rvars
    BY <2>2 DEF SourceMoves, rvars, disk
  <2> QED
    BY <2>1, <2>2, ForeignLeft, Steps
<1>2. [RNext]_rvars /\ RInv /\ Counters =>
        [\A l \in Leaves \ (Overridden \cup {Staging}) :
           tree[l] = Foreign => tree'[l] = Foreign \/ spent'.faults # spent.faults]_rvars
  BY <1>1
<1> QED
  BY <1>2, InvHolds, CountersHold, PTL DEF RSpec, ForeignFilesStay

\* A command ends with the outcome that it is given.
LEMMA EndWhy ==
  ASSUME RInv, NEW p \in Procs, NEW why, NEW given, Ended(p, why), End(p, given)
  PROVE  why = given
<1>1. proc'[p] = Idle(given)
  BY EndTurn
<1>2. Idle(given).why = given
  BY DEF Idle
<1> QED
  BY <1>1, <1>2 DEF Ended

\* A command that goes on has not ended.
LEMMA GoesOn ==
  ASSUME RInv, NEW p \in Procs, NEW why, NEW pc, Go(p, pc), pc # "idle"
  PROVE  ~Ended(p, why)
BY GoFrame DEF Ended

\* What holds of a leaf of a copy that is made.
LEMMA MakingLeaf ==
  ASSUME RInv, CopyInv, CopyTree, NEW p \in Procs, proc[p].pc \in Making, Kind(p) \in Copying,
         NEW l \in Entries(Row(p).source), tree[l] \notin {Absent, Row(p).source[l]}
  PROVE  Residue
<1>1. PICK r \in Copies :
        /\ r = Request(p) /\ InRow(r) /\ Phase(r) = "source-snapshot-durable"
        /\ Row(p) = rows[r.carrier] /\ Row(p).source = Wanted(r)
  BY MakingCopy
<1>2. /\ r \in Asked /\ r.kind \in Copying /\ r.carrier \in Carriers /\ r.head \in 1..Tip
      /\ (r.kind = "fork" => r.payload \in Payloads)
      /\ Overrides(r) = (IF r.kind = "fork" THEN Overridden ELSE {})
  BY CopyRequest DEF Overrides
<1>3. l \in Leaves /\ Wanted(r)[l] # Absent
  BY <1>1 DEF Entries
<1>4. tree[l] \in Possible(r, l)
  BY <1>1, <1>3 DEF CopyTree, TreeFits
<1>5. l # Staging /\ l \notin Payloads /\ (r.kind = "fork" => l \in Paths)
  BY <1>2, <1>3, WantedLeaves, LeavesApart DEF CopyTree
<1>6. CASE tree[l] = Torn
  BY <1>3, <1>6 DEF Residue
<1>7. CASE tree[l] # Torn
  <2>1. l \in Overrides(r)
    BY <1>1, <1>2, <1>4, <1>5, <1>7 DEF Possible
  <2>2. r.kind = "fork" /\ l \in Overridden \cap Paths
    BY <1>2, <1>5, <2>1
  <2>3. RowSound(r.carrier)
    BY <1>2 DEF RInv
  <2>4. r.carrier \in Rows("fork")
    BY <1>1, <1>2, <2>2, <2>3 DEF RowSound, InRow, Rows
  <2> QED
    BY <1>1, <2>2, <2>4 DEF Residue, Phase
<1> QED
  BY <1>6, <1>7

\* Who reads a claim calls it invalid only while it is being written.
LEMMA ClaimInvalid ==
  ASSUME RInv, NEW p \in Procs, AdoptOperation(p) \/ CreateClaim(p) \/ ClaimRoot(p),
         Ended(p, "invalid")
  PROVE  claim = Torn
<1>0. proc'[p].pc = "idle" /\ p \in DOMAIN proc /\ DOMAIN proc[p] = ProcFields
  BY DEF Ended, RInv, Shape
<1>1. CASE AdoptOperation(p)
  <2>1. ASSUME NEW pc, NEW id,
               \/ proc' = [proc EXCEPT ![p].pc = pc]
               \/ proc' = [proc EXCEPT ![p].pc = pc, ![p].id = id]
        PROVE  proc'[p].pc = pc
    BY <1>0, <2>1 DEF ProcFields
  <2>2. End(p, "refused") => FALSE
    BY EndWhy
  <2> QED
    BY <1>0, <1>1, <2>1, <2>2 DEF AdoptOperation
<1>2. CASE CreateClaim(p)
  <2>1. ASSUME NEW n \in Ids, proc' = [proc EXCEPT ![p].pc = "write_claim", ![p].id = n]
        PROVE  FALSE
    BY <1>0, <2>1 DEF ProcFields
  <2>2. End(p, "refused") => FALSE
    BY EndWhy
  <2> QED
    BY <1>2, <2>1, <2>2 DEF CreateClaim
<1>3. CASE ClaimRoot(p)
  <2>1. ASSUME NEW n, proc' = [proc EXCEPT ![p].pc = "destination", ![p].id = n]
        PROVE  FALSE
    BY <1>0, <2>1 DEF ProcFields
  <2>2. End(p, "refused") => FALSE
    BY EndWhy
  <2> QED
    BY <1>3, <2>1, <2>2 DEF ClaimRoot
<1> QED
  BY <1>1, <1>2, <1>3

(* A chain that names another genesis than the command's cannot come about *)
(* by what the commands write.                                             *)
LEMMA ReadChainInvalid ==
  ASSUME RInv, CopyInv, CopyTree, RegisterTree, NEW p \in Procs, ReadChain(p),
         Ended(p, "invalid")
  PROVE  Residue
<1>0. /\ At(p, "chain") /\ Carrier(p) \in Carriers /\ HasOperation(Row(p))
      /\ Row(p).request = Request(p) /\ Kind(p) \in {"register", "fork"}
  BY RequestKnown DEF ReadChain, RInv, RequestFits, RowFits, At, Engaged
<1>1. CASE tree[Staging] # Absent
  BY <1>1 DEF Residue
<1>2. CASE tree[Staging] = Absent
  <2>1. Geneses # {} /\ WellFormedChain /\ Geneses # {Request(p).payload}
    <3>1. ~MalformedChain
      <4>1. End(p, "refused") => FALSE
        BY EndWhy
      <4> QED
        BY <1>2, <4>1 DEF ReadChain, MalformedChain
    <3>2. Geneses # {}
      <4>1. ~Go(p, "stage")
        BY GoesOn
      <4>2. ASSUME proc' = [proc EXCEPT ![p].pc = "override", ![p].todo = Overridden]
            PROVE  FALSE
        BY <4>2 DEF Ended, RInv, Shape, ProcFields
      <4> QED
        BY <1>2, <3>1, <4>1, <4>2 DEF ReadChain, WellFormedChain
    <3>3. WellFormedChain
      BY <3>1, <3>2 DEF MalformedChain
    <3>4. ~Go(p, "prove")
      BY GoesOn
    <3> QED
      BY <1>2, <3>1, <3>2, <3>3, <3>4 DEF ReadChain
  <2>2. ASSUME NEW l \in {History} \cup Payloads, l # Request(p).payload
        PROVE  tree[l] = Absent
    <3>0. l \in Leaves /\ l # Staging
      BY LeavesApart
    <3>1. CASE Kind(p) = "register"
      <4>1. rows[Carrier(p)].kind = "register" /\ rows[Carrier(p)].request = Request(p)
        BY <1>0, <3>1 DEF RInv, RowSound, Row, Kind
      <4> QED
        BY <1>0, <2>2, <3>0, <4>1 DEF RegisterTree
    <3>2. CASE Kind(p) = "fork"
      <4>1. PICK r \in Copies :
              /\ r = Request(p) /\ InRow(r) /\ Phase(r) = "source-snapshot-durable"
        BY <1>0, <3>2, MakingCopy DEF At, Making, Copying
      <4>2. r \in Asked /\ r.kind = "fork" /\ r.kind \in Copying /\ r.head \in 1..Tip
            /\ Overrides(r) \subseteq Overridden
        BY <3>2, <4>1, CopyRequest DEF Kind
      <4>3. Wanted(r)[l] = Absent
        <5>1. PastSound
          BY DEF CopyTree
        <5> QED
          BY <4>2, <5>1, WantedLeaves
      <4>4. tree[l] \in Possible(r, l)
        BY <3>0, <4>1 DEF CopyTree, TreeFits
      <4>5. l \notin Overrides(r)
        BY <4>2, LeavesApart
      <4> QED
        BY <2>2, <3>0, <4>1, <4>3, <4>4, <4>5 DEF Possible
    <3> QED
      BY <1>0, <3>1, <3>2
  <2>3. Geneses \subseteq {Request(p).payload}
    BY <2>2 DEF Geneses, Present
  <2> QED
    BY <2>1, <2>3
<1> QED
  BY <1>1, <1>2

\* A register finds what it proved.
LEMMA ProveRegisterEnds ==
  ASSUME RInv, RegisterTree, NEW p \in Procs, ProveRegister(p), NEW why
  PROVE  ~Ended(p, why)
<1>0. /\ At(p, "prove") /\ Kind(p) = "register" /\ Carrier(p) \in Carriers
      /\ HasOperation(Row(p)) /\ Row(p).request = Request(p)
  BY RequestKnown DEF ProveRegister, RInv, RowFits, At, Engaged
<1>1. Row(p) = rows[Carrier(p)] /\ rows[Carrier(p)].kind = "register"
  BY <1>0 DEF RInv, RowSound, Row, Kind
<1>2. Row(p).phase \in {"recorded", "tree-durable", "complete"}
  BY <1>0, <1>1 DEF RInv, RowSound
<1>3. Row(p).phase # "recorded" => Row(p).proof = tree
  BY <1>0, <1>1, <1>2 DEF RegisterTree
<1>4. ~(Go(p, "unclaim") /\ Ended(p, why))
  BY GoesOn
<1> QED
  BY <1>3, <1>4 DEF ProveRegister

\* What a copy finds in the root is missing or its own, or else a residue.
LEMMA CopyInvalid ==
  ASSUME RInv, CopyInv, CopyTree, NEW p \in Procs, VerifyDestination(p) \/ CopyEntry(p),
         Ended(p, "invalid")
  PROVE  Residue
<1>0. /\ At(p, "copy") /\ proc[p].pc \in Making /\ Kind(p) \in Copying
      /\ proc[p].todo \subseteq Entries(Row(p).source)
      /\ p \in DOMAIN proc /\ DOMAIN proc[p] = ProcFields /\ proc'[p].pc = "idle"
  BY CopyKnown DEF VerifyDestination, CopyEntry, At, Making, Copying, Ended, RInv, Shape
<1>1. CASE VerifyDestination(p)
  <2>1. ~NeedSource(p)
    BY <1>0 DEF NeedSource, ProcFields
  <2>2. ~Go(p, AfterCopy(p))
    BY GoesOn DEF AfterCopy
  <2> QED
    BY <1>0, <1>1, <2>1, <2>2, MakingLeaf DEF VerifyDestination
<1>2. CASE CopyEntry(p)
  <2>1. PICK l \in proc[p].todo :
          /\ tree[l] # Row(p).source[l]
          /\ tree[l] = Absent => SourceSnapshot("replicate")[l] # Row(p).source[l]
    <3>1. ASSUME NEW S, proc' = [proc EXCEPT ![p].todo = S] PROVE FALSE
      BY <1>0, <3>1 DEF ProcFields, At
    <3>2. ASSUME NEW l, NEW S, proc' = [proc EXCEPT ![p].pc = "write", ![p].leaf = l, ![p].todo = S]
          PROVE  FALSE
      BY <1>0, <3>2 DEF ProcFields
    <3> QED
      BY <1>2, <3>1, <3>2 DEF CopyEntry
  <2>2. l \in Entries(Row(p).source)
    BY <1>0, <2>1
  <2>3. CASE tree[l] # Absent
    BY <1>0, <2>1, <2>2, <2>3, MakingLeaf
  <2>4. CASE tree[l] = Absent
    <3>1. PICK r \in Copies : r = Request(p) /\ Row(p).source = Wanted(r)
      BY <1>0, MakingCopy
    <3>2. r.head = Tip
      BY <1>0, <1>2, <3>1 DEF CopyEntry, CopyInv, Holding
    <3>3. r \in Asked /\ r.kind \in Copying /\ r.head \in 1..Tip
      BY <3>1, CopyRequest
    <3>4. l \in Leaves /\ Wanted(r)[l] # Absent
      BY <2>2, <3>1 DEF Entries
    <3>5. SourceSnapshot("replicate")[l] = Wanted(r)[l]
      <4>1. l \in Paths \/ (l = History /\ r.kind = "replicate")
        BY <3>4 DEF Wanted
      <4>2. History \notin Paths /\ History \in Leaves
        BY LeavesApart
      <4> QED
        BY <3>2, <3>4, <4>1, <4>2 DEF Wanted, SourceSnapshot
    <3> QED
      BY <2>1, <2>4, <3>1, <3>5
  <2> QED
    BY <2>3, <2>4
<1> QED
  BY <1>1, <1>2

\* The path set of a copy is what it wrote, but for a staged entry.
LEMMA ProveCopyInvalid ==
  ASSUME RInv, CopyInv, CopyTree, NEW p \in Procs, ProveCopy(p), Ended(p, "invalid")
  PROVE  Residue
<1>0. At(p, "prove") /\ Kind(p) # "register" /\ Present # Expected(p)
  <2>1. ~Go(p, "reprove")
    BY GoesOn
  <2> QED
    BY <2>1 DEF ProveCopy
<1>1. Kind(p) \in Copying /\ proc[p].pc \in Making
  BY <1>0 DEF RInv, RequestFits, At, Creations, Copying, Making
<1>2. PICK r \in Copies :
        /\ r = Request(p) /\ InRow(r) /\ Phase(r) = "source-snapshot-durable"
        /\ Row(p).source = Wanted(r)
  BY <1>1, MakingCopy
<1>3. Copied(p, Overrides(r)) /\ (r.kind = "fork" => tree[r.payload] = r.payload)
  BY <1>0, <1>1, <1>2 DEF CopyTree, Working, At, Kind
<1>4. /\ TreeFits(r) /\ (r.kind = "fork" => r.payload \in Payloads)
      /\ Overrides(r) = (IF r.kind = "fork" THEN Overridden ELSE {})
  BY CopyRequest DEF CopyTree, Overrides
<1>5. r.kind = "fork" => Overruled(r) /\ tree[r.payload] # Absent
  BY <1>2, <1>3, <1>4, LeavesApart DEF TreeFits
<1>6. Expected(p) = Entries(Wanted(r)) \cup (IF r.kind = "fork" THEN Overridden \cup {r.payload} ELSE {})
  BY <1>2 DEF Expected, Kind
<1> SUFFICES ASSUME tree[Staging] = Absent PROVE FALSE
  BY DEF Residue
<1>7. ASSUME NEW l \in Leaves PROVE l \in Present <=> l \in Expected(p)
  <2>1. CASE l \in Present
    <3>1. tree[l] \in Possible(r, l) /\ tree[l] # Absent /\ l # Staging
      BY <1>2, <1>4, <2>1 DEF TreeFits, Present
    <3>2. Wanted(r)[l] # Absent \/ l \in Overrides(r) \/ (r.kind = "fork" /\ l = r.payload)
      BY <3>1 DEF Possible
    <3> QED
      BY <1>4, <1>6, <2>1, <3>2 DEF Entries
  <2>2. CASE l \in Expected(p)
    <3>1. CASE l \in Overrides(r)
      BY <1>4, <1>5, <2>2, <3>1, LeavesApart DEF Overruled, Present
    <3>2. CASE l \in Entries(Wanted(r)) \ Overrides(r)
      BY <1>2, <1>3, <2>2, <3>2 DEF Copied, Entries, Present
    <3>3. CASE r.kind = "fork" /\ l = r.payload
      BY <1>5, <2>2, <3>3 DEF Present
    <3> QED
      BY <1>4, <1>6, <2>2, <3>1, <3>2, <3>3
  <2> QED
    BY <2>1, <2>2
<1>8. Present \subseteq Leaves /\ Expected(p) \subseteq Leaves
  BY <1>4, <1>6, LeavesApart DEF Present, Entries
<1> QED
  BY <1>0, <1>7, <1>8

\* A copy that was proved is as it was proved.
LEMMA ReproveEnds ==
  ASSUME RInv, CopyInv, CopyTree, NEW p \in Procs, ReproveCopy(p), NEW why
  PROVE  ~Ended(p, why)
<1>0. At(p, "reprove") /\ proc[p].pc \in Engaged /\ Kind(p) \in Copying
      /\ Row(p).phase = "tree-durable"
  BY DEF ReproveCopy, RInv, RequestFits, RowFits, At, Engaged, Copying
<1>1. PICK r \in Copies :
        /\ r = Request(p) /\ InRow(r) /\ Row(p) = rows[r.carrier] /\ Phase(r) = "tree-durable"
  BY <1>0, OwnCopy
<1>2. tree = Final(r) /\ Row(p).proof = tree /\ Row(p).source = Wanted(r)
  BY <1>1 DEF CopyTree, TreeFits, Done, SourceKept
<1>3. /\ r.kind = "fork" => r.payload \in Payloads
      /\ Overrides(r) = (IF r.kind = "fork" THEN Overridden ELSE {})
  BY CopyRequest DEF Overrides
<1>4. Expected(p) = Entries(Wanted(r)) \cup (IF r.kind = "fork" THEN Overridden \cup {r.payload} ELSE {})
  BY <1>1, <1>2 DEF Expected, Kind
<1>5. ASSUME NEW l \in Leaves PROVE l \in Present <=> l \in Expected(p)
  <2>1. CASE l \in Overrides(r)
    <3>1. tree[l] = Override
      BY <2>1, FinalChain, <1>2 DEF CopyTree
    <3> QED
      BY <1>3, <1>4, <2>1, <3>1, LeavesApart DEF Present
  <2>2. CASE l \notin Overrides(r) /\ l = r.payload /\ r.kind = "fork"
    <3>1. tree[l] = l
      BY <1>2, <2>2 DEF Final
    <3> QED
      BY <1>3, <1>4, <2>2, <3>1, LeavesApart DEF Present
  <2>3. CASE l \notin Overrides(r) /\ ~(l = r.payload /\ r.kind = "fork")
    <3>1. tree[l] = Wanted(r)[l]
      BY <1>2, <2>3 DEF Final
    <3> QED
      BY <1>3, <1>4, <2>3, <3>1 DEF Present, Entries
  <2> QED
    BY <2>1, <2>2, <2>3
<1>6. Present \subseteq Leaves /\ Expected(p) \subseteq Leaves
  BY <1>3, <1>4, LeavesApart DEF Present, Entries
<1>7. Present = Expected(p)
  BY <1>5, <1>6
<1>8. ~(Go(p, "unclaim") /\ Ended(p, why))
  BY GoesOn
<1> QED
  BY <1>2, <1>7, <1>8 DEF ReproveCopy

\* Who removes the claim finds its own or none.
LEMMA RemoveClaimEnds ==
  ASSUME RInv, Core, NEW p \in Procs, RemoveClaim(p), NEW why
  PROVE  ~Ended(p, why)
<1>0. /\ At(p, "unclaim") /\ Carrier(p) \in Carriers /\ HasOperation(Row(p))
      /\ Row(p).request = Request(p) /\ Row(p).id = proc[p].id
  BY RequestKnown DEF RemoveClaim, RInv, RowFits, At, Engaged
<1>1. Owner(Carrier(p)) /\ Row(p) = rows[Carrier(p)]
  BY <1>0 DEF Owner, Row
<1>2. NamesRow(Carrier(p)) \/ claim = Nothing
  BY <1>0, <1>1 DEF Core, OwnerShows
<1>3. claim \in {Nothing, OwnClaim(p)}
  BY <1>0, <1>1, <1>2 DEF NamesRow, OwnClaim
<1>4. ~(Go(p, "complete") /\ Ended(p, why))
  BY GoesOn
<1> QED
  BY <1>3, <1>4 DEF RemoveClaim

\* What the triggers of the schema refuse.
LEMMA StoreRefuses ==
  ASSUME RInv, CopyInv, Core, RegisterTree, NEW p \in Procs,
         Stamp(p) \/ Complete(p) \/ Admit(p) \/ Serve(p) \/ Migrate(p), Ended(p, "store")
  PROVE  Row(p).phase = "complete" \/ Row(p).origin \in {"read-serviceability", "migration-v2"}
<1>0. /\ ~End(p, "done") /\ \A pc : pc # "idle" => ~Go(p, pc)
      /\ Migrated.origin = "migration-v2" /\ Admitted.origin = "read-serviceability"
      /\ Holding(p) /\ ClaimShows(p)
  BY EndWhy, GoesOn DEF Migrated, Admitted, NoRow, CopyInv, Core
<1>1. CASE Stamp(p)
  <2>1. At(p, "stamp") /\ Row(p) # NoRow /\ ~HasOperation(Row(p)) /\ Carrier(p) \in Carriers
    BY <1>0, <1>1, RequestKnown DEF Stamp, StampAllowed, At, Holding
  <2>2. Row(p) \in {Legacy, Migrated, Admitted}
    BY <2>1 DEF RInv, RowSound, Row
  <2>3. claim # Nothing
    BY <1>0, <2>1 DEF ClaimShows, At, Claimed
  <2>4. Row(p) # Legacy
    BY <2>1, <2>3 DEF Core, OwnerShows, Owner, Row
  <2> QED
    BY <1>0, <2>2, <2>4
<1>2. CASE Complete(p)
  <2>1. /\ Carrier(p) \in Carriers /\ Row(p) = rows[Carrier(p)] /\ HasOperation(Row(p))
        /\ Row(p).phase \in {"tree-durable", "complete"} /\ ~CompletionAllowed(Row(p))
    BY <1>0, <1>2, RequestKnown DEF Complete, At, RInv, RowFits, Engaged, Row
  <2> SUFFICES ASSUME Row(p).phase = "tree-durable" PROVE FALSE
    BY <2>1
  <2>2. Row(p).lifecycle = "read-only-unserviceable"
    BY <2>1 DEF CopyInv, Unfinished
  <2>3. Row(p).kind \in Creations /\ Row(p).origin = Row(p).kind
    BY <2>1 DEF RInv, RowSound, WellFormedRow, Paired
  <2> QED
    BY <2>1, <2>2, <2>3 DEF CompletionAllowed, TransitionAllowed, FinalState, PhaseAllowed, Creations
<1>3. CASE Admit(p)
  BY <1>0, <1>3 DEF Admit, StampAllowed, RegisterTree
<1>4. CASE Serve(p)
  BY <1>0, <1>4 DEF Serve, Holding
<1>5. CASE Migrate(p)
  BY <1>0, <1>5 DEF Migrate, Holding
<1> QED
  BY <1>1, <1>2, <1>3, <1>4, <1>5

\* Every other step ends a command, if it does, with another outcome.
LEMMA OthersEnd ==
  ASSUME RInv, NEW p \in Procs, Acts(p), NEW why \in {"invalid", "store"}, Ended(p, why)
  PROVE  \/ /\ why = "invalid"
            /\ \/ AdoptOperation(p) \/ CreateClaim(p) \/ ClaimRoot(p) \/ ReadChain(p)
               \/ ProveRegister(p) \/ VerifyDestination(p) \/ CopyEntry(p) \/ ProveCopy(p)
               \/ ReproveCopy(p) \/ RemoveClaim(p)
         \/ /\ why = "store"
            /\ Stamp(p) \/ Complete(p) \/ Admit(p) \/ Serve(p) \/ Migrate(p)
<1>0. /\ ~At(p, "idle") /\ proc'[p].pc = "idle"
      /\ p \in DOMAIN proc /\ DOMAIN proc[p] = ProcFields
      /\ \A given : End(p, given) => why = given
      /\ \A pc : pc # "idle" => ~Go(p, pc)
  BY EndWhy, GoesOn DEF Ended, RInv, Shape
<1>1. Step(p)
  BY <1>0 DEF Acts, Kill, RegisterLooks, CopyLooks, GrantLooks, MigrateLooks, ResumeFork, Begin
<1>2. ~RegisterLeases(p)
  <2>1. proc' # [proc EXCEPT ![p].pc = "adopt"]
    BY <1>0 DEF ProcFields
  <2> QED
    BY <1>0, <2>1 DEF RegisterLeases
<1>3. ~WriteClaim(p) /\ ~StageGenesis(p) /\ ~PublishGenesis(p) /\ ~CreateOverride(p)
  BY <1>0 DEF WriteClaim, StageGenesis, PublishGenesis, CreateOverride
<1>4. ~OverridesDone(p) /\ ~CopyDone(p) /\ ~WriteEntry(p)
  BY <1>0 DEF OverridesDone, CopyDone, WriteEntry, AfterCopy
<1>5. ~ApplyOverride(p)
  <2>1. ASSUME NEW l,
               proc' = [proc EXCEPT ![p].todo = @ \ {l}, ![p].leaf = l,
                          ![p].pc = IF tree[l] = Override THEN "override" ELSE "create"]
        PROVE  FALSE
    BY <1>0, <2>1 DEF ProcFields
  <2> QED
    BY <2>1 DEF ApplyOverride
<1>6. ~TakeSource(p)
  <2>1. ASSUME NEW pc \in {"claim_root", "destination"}, NEW r,
               proc' = [proc EXCEPT ![p].pc = pc, ![p].request = r]
        PROVE  FALSE
    BY <1>0, <2>1 DEF ProcFields
  <2> QED
    BY <1>0, <2>1 DEF TakeSource
<1>7. ~TakeDestination(p)
  <2>1. proc' # [proc EXCEPT ![p].pc = "stamp"]
    BY <1>0 DEF ProcFields
  <2>2. ~(HasOperation(Row(p)) /\ Proceed(p, Row(p)))
    <3>1. ASSUME HasOperation(Row(p)), Proceed(p, Row(p)) PROVE FALSE
      <4>1. Carrier(p) \in Carriers
        BY <1>0, RequestKnown
      <4>2. Row(p).phase \in {"recorded", "source-snapshot-durable", "tree-durable", "complete"}
        BY <3>1, <4>1 DEF RInv, RowSound, Row
      <4>3. ~End(p, "done")
        BY <1>0
      <4>4. Row(p).phase # "complete" /\ proc' = [proc EXCEPT
              ![p].request = Row(p).request, ![p].id = Row(p).id,
              ![p].todo = IF Row(p).source = NoSnapshot THEN {} ELSE Entries(Row(p).source),
              ![p].pc = CASE Row(p).phase = "recorded" -> "snapshot"
                             [] Row(p).phase = "source-snapshot-durable" -> "copy"
                             [] Row(p).phase = "tree-durable" -> "reprove"]
        BY <3>1, <4>3 DEF Proceed
      <4>5. proc'[p].pc = CASE Row(p).phase = "recorded" -> "snapshot"
                            [] Row(p).phase = "source-snapshot-durable" -> "copy"
                            [] Row(p).phase = "tree-durable" -> "reprove"
        BY <1>0, <4>4 DEF ProcFields
      <4>6. proc'[p].pc \in {"snapshot", "copy", "reprove"}
        BY <4>2, <4>4, <4>5
      <4> QED
        BY <1>0, <4>6
    <3> QED
      BY <3>1
  <2> QED
    BY <1>0, <2>1, <2>2 DEF TakeDestination
<1>8. ~SnapshotSource(p)
  <2>1. ~NeedSource(p)
    BY <1>0 DEF NeedSource, ProcFields
  <2>2. ASSUME NEW S, proc' = [proc EXCEPT ![p].pc = "copy", ![p].todo = S] PROVE FALSE
    BY <1>0, <2>2 DEF ProcFields
  <2> QED
    BY <2>1, <2>2 DEF SnapshotSource
<1>9. CASE why = "invalid"
  <2>1. ~Stamp(p) /\ ~Complete(p) /\ ~Admit(p) /\ ~Serve(p) /\ ~Migrate(p)
    BY <1>0, <1>9 DEF Stamp, Complete, Admit, Serve, Migrate
  <2> QED
    BY <1>1, <1>2, <1>3, <1>4, <1>5, <1>6, <1>7, <1>8, <1>9, <2>1 DEF Step
<1>10. CASE why = "store"
  <2>1. why \notin {"invalid", "refused", "done"}
    BY <1>10
  <2>2. ~AdoptOperation(p)
    <3>1. ASSUME NEW pc \in {"chain", "stamp"}, NEW id,
                 proc' = [proc EXCEPT ![p].pc = pc, ![p].id = id]
          PROVE  FALSE
      BY <1>0, <3>1 DEF ProcFields
    <3>2. proc' # [proc EXCEPT ![p].pc = "claim"]
      BY <1>0 DEF ProcFields
    <3> QED
      BY <1>0, <2>1, <3>1, <3>2 DEF AdoptOperation
  <2>3. ~CreateClaim(p)
    <3>1. ASSUME NEW n \in Ids, proc' = [proc EXCEPT ![p].pc = "write_claim", ![p].id = n]
          PROVE  FALSE
      BY <1>0, <3>1 DEF ProcFields
    <3> QED
      BY <1>0, <2>1, <3>1 DEF CreateClaim
  <2>4. ~ClaimRoot(p)
    <3>1. ASSUME NEW n, proc' = [proc EXCEPT ![p].pc = "destination", ![p].id = n]
          PROVE  FALSE
      BY <1>0, <3>1 DEF ProcFields
    <3> QED
      BY <1>0, <2>1, <3>1 DEF ClaimRoot
  <2>5. ~ReadChain(p)
    <3>1. proc' # [proc EXCEPT ![p].pc = "override", ![p].todo = Overridden]
      BY <1>0 DEF ProcFields
    <3> QED
      BY <1>0, <2>1, <3>1 DEF ReadChain
  <2>6. ~ProveRegister(p) /\ ~ProveCopy(p) /\ ~ReproveCopy(p) /\ ~RemoveClaim(p)
    BY <1>0, <2>1 DEF ProveRegister, ProveCopy, ReproveCopy, RemoveClaim
  <2>7. ~VerifyDestination(p)
    <3>1. ~NeedSource(p)
      BY <1>0 DEF NeedSource, ProcFields
    <3> QED
      BY <1>0, <2>1, <3>1 DEF VerifyDestination, AfterCopy
  <2>8. ~CopyEntry(p)
    <3>1. ASSUME NEW S, proc' = [proc EXCEPT ![p].todo = S] PROVE FALSE
      BY <1>0, <3>1 DEF ProcFields, At
    <3>2. ASSUME NEW l, NEW S, proc' = [proc EXCEPT ![p].pc = "write", ![p].leaf = l, ![p].todo = S]
          PROVE  FALSE
      BY <1>0, <3>2 DEF ProcFields
    <3>3. ~End(p, "invalid")
      BY <1>0, <2>1
    <3> QED
      BY <3>1, <3>2, <3>3 DEF CopyEntry
  <2> QED
    BY <1>1, <1>2, <1>3, <1>4, <1>5, <1>6, <1>7, <1>8, <1>10,
       <2>2, <2>3, <2>4, <2>5, <2>6, <2>7, <2>8 DEF Step
<1> QED
  BY <1>9, <1>10

(* RootOperationInvalid means damage, and a trigger refuses only what      *)
(* another command has finished meanwhile: an ending that says so has the  *)
(* reason lying in the root or in the rows.                                *)
THEOREM DamageHolds == RSpec => InvalidMeansDamage
<1>1. RInv /\ CopyInv /\ CopyTreeInv /\ OwnerInv /\ RegisterTreeInv /\ [RNext]_rvars =>
        \A p \in Procs :
          /\ Ended(p, "invalid") => raced \/ touched \/ claim = Torn \/ Residue
          /\ Ended(p, "store") =>
               \/ raced \/ touched
               \/ Row(p).phase = "complete"
               \/ Row(p).origin \in {"read-serviceability", "migration-v2"}
  <2> SUFFICES ASSUME RInv, CopyInv, CopyTreeInv, OwnerInv, RegisterTreeInv, [RNext]_rvars,
                      ~raced, ~touched, NEW p \in Procs
               PROVE  /\ Ended(p, "invalid") => claim = Torn \/ Residue
                      /\ Ended(p, "store") =>
                           \/ Row(p).phase = "complete"
                           \/ Row(p).origin \in {"read-serviceability", "migration-v2"}
    OBVIOUS
  <2>0. CopyTree /\ Core /\ RegisterTree
    BY DEF CopyTreeInv, OwnerInv, RegisterTreeInv
  <2>1. ASSUME NEW why, Ended(p, why) PROVE Acts(p)
    <3>1. proc'[p] # proc[p]
      BY <2>1 DEF Ended, At
    <3>2. PICK q \in Procs : Acts(q)
      BY <3>1, Steps DEF SourceMoves, Outside, rvars
    <3> QED
      BY <3>1, <3>2, ActsTurn DEF Turn
  <2>2. ASSUME Ended(p, "invalid") PROVE claim = Torn \/ Residue
    <3>1. \/ AdoptOperation(p) \/ CreateClaim(p) \/ ClaimRoot(p) \/ ReadChain(p)
          \/ ProveRegister(p) \/ VerifyDestination(p) \/ CopyEntry(p) \/ ProveCopy(p)
          \/ ReproveCopy(p) \/ RemoveClaim(p)
      BY <2>1, <2>2, OthersEnd
    <3> QED
      BY <2>0, <2>2, <3>1, ClaimInvalid, ReadChainInvalid, ProveRegisterEnds, CopyInvalid,
         ProveCopyInvalid, ReproveEnds, RemoveClaimEnds
  <2>3. ASSUME Ended(p, "store")
        PROVE  Row(p).phase = "complete" \/ Row(p).origin \in {"read-serviceability", "migration-v2"}
    <3>1. Stamp(p) \/ Complete(p) \/ Admit(p) \/ Serve(p) \/ Migrate(p)
      BY <2>1, <2>3, OthersEnd
    <3> QED
      BY <2>0, <2>3, <3>1, StoreRefuses
  <2> QED
    BY <2>2, <2>3
<1>2. [RNext]_rvars /\ RInv /\ CopyInv /\ CopyTreeInv /\ OwnerInv /\ RegisterTreeInv =>
        [\A p \in Procs :
          /\ Ended(p, "invalid") => raced \/ touched \/ claim = Torn \/ Residue
          /\ Ended(p, "store") =>
               \/ raced \/ touched
               \/ Row(p).phase = "complete"
               \/ Row(p).origin \in {"read-serviceability", "migration-v2"}]_rvars
  BY <1>1
<1> QED
  BY <1>2, InvHolds, OwnerHolds, CopyTreeHolds, RegisterTreeHolds, PTL DEF RSpec, InvalidMeansDamage
=============================================================================
