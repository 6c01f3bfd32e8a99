--------------------------- MODULE BlobStore_proofs ---------------------------
(***************************************************************************)
(* Proofs, for every set of contents and every number of transactions,     *)
(* kills and power cuts, of the safety properties in BlobProperties.       *)
(***************************************************************************)
EXTENDS BlobProperties, TLAPS, SequenceTheorems, WellFoundedInduction

-----------------------------------------------------------------------------
(* The invariant, part by part.                                            *)

Lasts(e) == e \in DOMAIN names /\ e \in DOMAIN disk_names
Gone(e) == e \notin DOMAIN names /\ e \notin DOMAIN disk_names

\* What the metadata root may contain by now.
Entry(e) ==
  \/ e = DatabaseEntry \/ e = SidecarEntry
  \/ \E d \in Digests : e = Blob(d)
  \/ \E t \in 1..attempts :
       e = Staging(t) \/ e = Work(t) \/ \E d \in Digests : e = Staged(t, d)

Shape ==
  /\ \A e \in DOMAIN names : Entry(e)
  /\ \A e \in DOMAIN disk_names : Entry(e)
  /\ durable \subseteq whole
  /\ attempts \in Nat /\ needs \subseteq Digests
  /\ records \in [DOMAIN records -> SUBSET Digests] /\ DOMAIN records \subseteq 1..attempts
  /\ rows = UNION {records[t] : t \in DOMAIN records}
  /\ active \in DOMAIN records \cup {0}

(* The database: once it has bytes, its entry and its mode are on disk.    *)
DatabaseFits ==
  /\ content \in {"empty", "wal", "complete"}
  /\ content # "empty" => Lasts(DatabaseEntry) /\ private /\ disk_private
  /\ Gone(SidecarEntry) \/ Lasts(DatabaseEntry)
  /\ DOMAIN records # {} => content = "complete"
  /\ pc \in {"publish", "flush file", "flush root"} => DatabaseEntry \in DOMAIN names
  /\ pc = "repair" => DatabaseEntry \in DOMAIN names
  /\ pc = "flush file" => private
  /\ pc \in {"flush root", "connect", "profile", "schema"} => private /\ disk_private
  /\ pc \in {"connect", "profile", "schema"} => Lasts(DatabaseEntry)
  /\ pc \in {"profile", "schema"} => content # "complete"
  /\ pc \notin Opening \cup {"idle"} => content = "complete"

(* No leaf without its bytes, in memory or on disk.                        *)
LeavesFit ==
  /\ \A d \in Digests :
       /\ Blob(d) \in DOMAIN names => names[Blob(d)] \in durable
       /\ Blob(d) \in DOMAIN disk_names => disk_names[Blob(d)] \in durable
  /\ \A d \in rows : Lasts(Blob(d))

SlotsFit == \A t \in DOMAIN records : Lasts(Work(t)) /\ Gone(Staging(t))

(* Reclamation works down a list that no record is on.                     *)
Emptying == {"empty", "flush empty", "rmdir staging", "flush rmdir", "rmdir work", "flush work"}
ReclaimFits ==
  /\ pc \in Emptying \cup {"workspace"} =>
       /\ listed \subseteq (1..attempts) \ DOMAIN records
       /\ Workspaces \ DOMAIN records \subseteq listed
  /\ pc \in Emptying => Orphan \in listed
  /\ pc \in {"flush rmdir", "rmdir work", "flush work"} => Staging(Orphan) \notin DOMAIN names
  /\ pc = "flush work" => Work(Orphan) \notin DOMAIN names
  /\ pc \in {"list blobs", "blob", "flush blob", "resolve", "active", "ready"} =>
       Workspaces \subseteq DOMAIN records
  /\ pc \in {"blob", "flush blob"} => Leaves \ rows \subseteq listed
  /\ pc \in {"resolve", "active", "ready"} => Leaves \subseteq rows

(* The transaction under way: what it captured is on disk before it is     *)
(* published, and what it published before the record is committed.        *)
Making == {"mkdir staging", "mkdir work", "flush staging", "flush work parent"}
Capturing == {"capture", "write", "flush sink", "preflight"}
Discharging == {"flush spent", "rmdir spent", "flush discharged", "commit"}
Preparing == Making \cup Capturing \cup {"promote"} \cup Discharging

Secured(d) ==
  /\ Staged(attempts, d) \in DOMAIN names /\ names[Staged(attempts, d)] = Sink(d)
  /\ Sink(d) \in durable

TransactionFits ==
  /\ pc \in Preparing =>
       /\ attempts \in Nat \ {0} /\ attempts \notin DOMAIN records
       /\ listed \subseteq needs
       /\ Workspaces \subseteq DOMAIN records \cup {attempts}
       /\ Leaves \subseteq rows \cup needs
  /\ pc \in Making =>
       \A d \in Digests : Staged(attempts, d) \notin DOMAIN names
  /\ pc \in Making => listed = needs
  /\ pc \in {"flush staging", "flush work parent"} => Work(attempts) \in DOMAIN names
  /\ pc \in Capturing \cup {"promote"} \cup Discharging => Lasts(Work(attempts))
  /\ pc \in Capturing => \A d \in needs \ listed : Secured(d)
  /\ pc = "capture" => \A d \in listed : Staged(attempts, d) \notin DOMAIN names
  /\ pc \in {"write", "flush sink"} =>
       \E d \in listed :
         /\ Staged(attempts, d) \in DOMAIN names /\ names[Staged(attempts, d)] = Sink(d)
         /\ pc = "flush sink" => Sink(d) \in whole
         /\ \A c \in listed \ {d} : Staged(attempts, c) \notin DOMAIN names
  /\ pc = "preflight" => listed = {}
  /\ pc = "promote" =>
       /\ \A d \in needs : Staged(attempts, d) \in DOMAIN names =>
            names[Staged(attempts, d)] \in durable
       /\ \A d \in needs \ listed : Blob(d) \in DOMAIN names
  /\ pc \in Discharging => \A d \in needs : Lasts(Blob(d))
  /\ pc \in {"flush discharged", "commit"} => Staging(attempts) \notin DOMAIN names
  /\ pc = "commit" => Gone(Staging(attempts))

BInv ==
  Shape /\ DatabaseFits /\ LeavesFit /\ SlotsFit /\ ReclaimFits /\ TransactionFits
  /\ NeverInvalid

-----------------------------------------------------------------------------
(* Entries: which are different, and which directory they are in.          *)

Place(e) == IF Len(e) = 3 THEN "captured" ELSE e[1]

\* Entries of different places differ, and so do those with different names.
LEMMA EntriesDiffer ==
  /\ DatabaseEntry # SidecarEntry
  /\ Place(DatabaseEntry) = "root" /\ Place(SidecarEntry) = "root"
  /\ \A d : Place(Blob(d)) = "sha256" /\ Blob(d)[2] = d
  /\ \A t : Place(Staging(t)) = "staging" /\ Staging(t)[2] = t
  /\ \A t : Place(Work(t)) = "work" /\ Work(t)[2] = t
  /\ \A t, d : /\ Place(Staged(t, d)) = "captured"
               /\ Staged(t, d)[2] = t /\ Staged(t, d)[3] = d
BY DEF Place, DatabaseEntry, SidecarEntry, Blob, Staging, Work, Staged

\* The directory of an entry is the entry without its last part.
LEMMA Front2 ==
  ASSUME NEW a, NEW b
  PROVE  Parent(<<a, b>>) = <<a>>
<1> DEFINE s == <<a, b>>
           r == SubSeq(s, 1, 1)
<1>1. s \in Seq({a, b}) /\ Len(s) = 2 /\ s[1] = a
  OBVIOUS
<1>2. <<a>> \in Seq({a, b}) /\ Len(<<a>>) = 1 /\ <<a>>[1] = a
  OBVIOUS
<1> HIDE DEF s
<1>3. r \in Seq({a, b}) /\ Len(r) = 1 /\ \A i \in 1..1 : r[i] = s[i]
  BY <1>1, SubSeqProperties
<1> HIDE DEF r
<1>4. r = <<a>>
  BY <1>1, <1>2, <1>3, SeqEqual
<1> QED
  BY <1>1, <1>4 DEF Parent, r, s

\* The parent of a captured file is its staging directory.
LEMMA Front3 ==
  ASSUME NEW a, NEW b, NEW c
  PROVE  Parent(<<a, b, c>>) = <<a, b>>
<1> DEFINE s == <<a, b, c>>
           r == SubSeq(s, 1, 2)
<1>1. s \in Seq({a, b, c}) /\ Len(s) = 3 /\ s[1] = a /\ s[2] = b
  OBVIOUS
<1>2. <<a, b>> \in Seq({a, b, c}) /\ Len(<<a, b>>) = 2 /\ <<a, b>>[1] = a /\ <<a, b>>[2] = b
  OBVIOUS
<1> HIDE DEF s
<1>3. r \in Seq({a, b, c}) /\ Len(r) = 2 /\ \A i \in 1..2 : r[i] = s[i]
  BY <1>1, SubSeqProperties
<1> HIDE DEF r
<1>4. r = <<a, b>>
  BY <1>1, <1>2, <1>3, SeqEqual
<1> QED
  BY <1>1, <1>4 DEF Parent, r, s

\* The directory of each entry.
LEMMA Parents ==
  /\ Parent(DatabaseEntry) = <<"root">> /\ Parent(SidecarEntry) = <<"root">>
  /\ \A d : Parent(Blob(d)) = <<"sha256">>
  /\ \A t : Parent(Staging(t)) = <<"staging">> /\ Parent(Work(t)) = <<"work">>
  /\ \A t, d : Parent(Staged(t, d)) = Staging(t)
BY Front2, Front3 DEF DatabaseEntry, SidecarEntry, Blob, Staging, Work, Staged

\* Directories that hold others differ from one another.
LEMMA ParentsDiffer ==
  /\ <<"root">> # <<"sha256">> /\ <<"root">> # <<"staging">> /\ <<"root">> # <<"work">>
  /\ <<"sha256">> # <<"staging">> /\ <<"sha256">> # <<"work">> /\ <<"staging">> # <<"work">>
  /\ \A t : /\ Staging(t) # <<"root">> /\ Staging(t) # <<"sha256">>
            /\ Staging(t) # <<"staging">> /\ Staging(t) # <<"work">>
BY DEF Staging

-----------------------------------------------------------------------------
(* What a system call does to names.                                       *)

\* What Link does to the names in memory and on disk.
LEMMA Linked ==
  ASSUME NEW e, NEW i, Link(e, i)
  PROVE  /\ e \notin DOMAIN names /\ DOMAIN names' = DOMAIN names \cup {e}
         /\ names'[e] = i /\ \A f \in DOMAIN names : names'[f] = names[f]
         /\ UNCHANGED <<disk_names, whole, durable>>
BY DEF Link, Present, With

\* What Unlink does to them.
LEMMA Unlinked ==
  ASSUME NEW e, Unlink(e)
  PROVE  /\ e \in DOMAIN names /\ DOMAIN names' = DOMAIN names \ {e}
         /\ \A f \in DOMAIN names' : names'[f] = names[f]
         /\ UNCHANGED <<disk_names, whole, durable>>
BY DEF Unlink, Present, Without, Restrict

\* What Rename does to them.
LEMMA Renamed ==
  ASSUME NEW e, NEW f, Rename(e, f)
  PROVE  /\ e \in DOMAIN names /\ f \notin DOMAIN names
         /\ DOMAIN names' = (DOMAIN names \ {e}) \cup {f}
         /\ names'[f] = names[e]
         /\ \A g \in DOMAIN names \ {e} : names'[g] = names[g]
         /\ UNCHANGED <<disk_names, whole, durable>>
BY DEF Rename, Present, With, Without, Restrict

(* Whatever reaches the disk is as it was there or as it is in memory.     *)
DiskMoves ==
  \A e : \/ /\ e \in DOMAIN disk_names' <=> e \in DOMAIN disk_names
            /\ e \in DOMAIN disk_names => disk_names'[e] = disk_names[e]
         \/ /\ e \in DOMAIN disk_names' <=> e \in DOMAIN names
            /\ e \in DOMAIN names => disk_names'[e] = names[e]

\* A directory flush brings the entries of that directory to disk.
LEMMA Flushed ==
  ASSUME NEW p, FlushDirectory(p)
  PROVE  /\ DiskMoves /\ UNCHANGED <<names, whole, durable>>
         /\ \A e : Parent(e) = p => (e \in DOMAIN disk_names' <=> e \in DOMAIN names)
BY DEF FlushDirectory, Children, DiskMoves

\* A write-back brings some entry to disk.
LEMMA WrittenBack ==
  ASSUME NEW e, WriteBackName(e)
  PROVE  DiskMoves /\ UNCHANGED <<names, whole, durable>>
BY DEF WriteBackName, Settle, Present, With, Without, Restrict, DiskMoves

\* A power cut keeps what is on disk and reachable, with its durable bytes.
LEMMA Cut ==
  ASSUME LoseUnflushed
  PROVE  /\ DOMAIN names' = DOMAIN disk_names' /\ DOMAIN disk_names' \subseteq DOMAIN disk_names
         /\ \A e \in DOMAIN disk_names : Len(e) # 3 => e \in DOMAIN disk_names'
         /\ \A e \in DOMAIN disk_names' :
              names'[e] = disk_names[e] /\ disk_names'[e] = disk_names[e]
         /\ whole' = durable /\ durable' = durable
BY DEF LoseUnflushed, Reachable, Restrict

\* The workspace in hand is the least on the list.
LEMMA OrphanListed ==
  ASSUME NEW n \in Nat, listed \subseteq 1..n, listed # {}
  PROVE  Orphan \in listed
<1> DEFINE R == {ss \in Nat \X Nat : ss[1] < ss[2]}
<1>1. IsWellFoundedOn(R, Nat)
  BY NatLessThanWellFounded DEF OpToRel
<1>2. listed \subseteq Nat
  OBVIOUS
<1> HIDE DEF R
<1>3. PICK t \in listed : \A u \in listed : <<u, t>> \notin R
  BY <1>1, <1>2, WFMin
<1>4. ASSUME NEW u \in listed PROVE t <= u
  <2>1. u \in Nat /\ t \in Nat /\ <<u, t>> \in Nat \X Nat
        /\ <<u, t>>[1] = u /\ <<u, t>>[2] = t
    BY <1>2
  <2>2. ~(<<u, t>>[1] < <<u, t>>[2])
    BY <1>3, <2>1 DEF R
  <2> QED
    BY <2>1, <2>2
<1> QED
  BY <1>4 DEF Orphan

-----------------------------------------------------------------------------
(* What is recorded and on disk, through each system call.                 *)

Steady == UNCHANGED <<attempts, needs, store>>
Sound == Shape /\ LeavesFit /\ SlotsFit

\* Nothing is called.
LEMMA CalmKeeps ==
  ASSUME Sound, Steady, UNCHANGED tree
  PROVE  Sound'
<1>1. Shape'
  BY DEF Sound, Steady, store, tree, Shape, Entry, Staging, Work, Staged, Blob
<1>2. LeavesFit' /\ SlotsFit'
  BY DEF Sound, Steady, store, tree, LeavesFit, SlotsFit, Lasts, Gone, Blob
<1> QED
  BY <1>1, <1>2 DEF Sound

(* Names reach the disk, flushed or written back.                          *)
LEMMA DiskKeeps ==
  ASSUME Sound, Steady, DiskMoves, UNCHANGED <<names, whole, durable>>
  PROVE  Sound'
<1>1. Shape'
  BY DEF Sound, Steady, store, DiskMoves, Shape, Entry
<1>2. LeavesFit' /\ SlotsFit'
  BY DEF Sound, Steady, store, DiskMoves, LeavesFit, SlotsFit, Lasts, Gone
<1> QED
  BY <1>1, <1>2 DEF Sound

\* Bytes are written, or reach the disk.
LEMMA BytesKeep ==
  ASSUME Sound, Steady, NEW i, Fill(i) \/ FlushFile(i)
  PROVE  Sound'
<1>1. Shape'
  BY DEF Sound, Steady, store, Fill, FlushFile, Shape, Entry
<1>2. LeavesFit' /\ SlotsFit'
  BY DEF Sound, Steady, store, Fill, FlushFile, LeavesFit, SlotsFit, Lasts, Gone
<1> QED
  BY <1>1, <1>2 DEF Sound

(* A new name that is no leaf and not the staging of a record.             *)
LEMMA LinkKeeps ==
  ASSUME Sound, Steady, NEW e, NEW i, Link(e, i), Entry(e),
         \A d \in Digests : e # Blob(d), \A t \in DOMAIN records : e # Staging(t)
  PROVE  Sound'
<1>1. /\ DOMAIN names' = DOMAIN names \cup {e}
      /\ \A f \in DOMAIN names : names'[f] = names[f]
      /\ UNCHANGED <<disk_names, whole, durable>>
  BY Linked
<1>2. Shape'
  BY <1>1 DEF Sound, Steady, store, Shape, Entry
<1>3. rows \subseteq Digests
  BY DEF Sound, Shape
<1>4. LeavesFit'
  BY <1>1, <1>3 DEF Sound, Steady, store, LeavesFit, Lasts
<1>5. SlotsFit'
  BY <1>1 DEF Sound, Steady, store, SlotsFit, Lasts, Gone
<1> QED
  BY <1>2, <1>4, <1>5 DEF Sound

(* A name is removed that no record and no row relies on.                  *)
LEMMA UnlinkKeeps ==
  ASSUME Sound, Steady, NEW e, Unlink(e),
         \A d \in rows : e # Blob(d), \A t \in DOMAIN records : e # Work(t)
  PROVE  Sound'
<1>1. Shape'
  BY Unlinked DEF Sound, Steady, store, Shape, Entry
<1>2. LeavesFit' /\ SlotsFit'
  BY Unlinked DEF Sound, Steady, store, LeavesFit, SlotsFit, Lasts, Gone
<1> QED
  BY <1>1, <1>2 DEF Sound

(* The power is cut: what records and rows rely on was on disk.            *)
LEMMA CutKeeps ==
  ASSUME Sound, Steady, LoseUnflushed
  PROVE  Sound'
<1>1. Shape'
  BY Cut DEF Sound, Steady, store, Shape, Entry
<1>2. /\ \A d : Len(Blob(d)) # 3
      /\ \A t : Len(Work(t)) # 3
  BY DEF Blob, Work
<1>3. LeavesFit'
  BY <1>2, Cut DEF Sound, Steady, store, LeavesFit, Lasts
<1>4. SlotsFit'
  BY <1>2, Cut DEF Sound, Steady, store, SlotsFit, Lasts, Gone
<1> QED
  BY <1>1, <1>3, <1>4 DEF Sound

-----------------------------------------------------------------------------
(* Opening the store.                                                      *)

Abroad == Opening \cup {"idle", "reclaim"}

\* Outside reclamation and transactions nothing is asked of them.
LEMMA AbroadFits ==
  ASSUME pc' \in Abroad
  PROVE  ReclaimFits' /\ TransactionFits'
BY DEF Abroad, Opening, ReclaimFits, TransactionFits, Emptying, Making, Capturing,
       Discharging, Preparing

\* The two files of the root are neither leaves nor workspaces.
LEMMA RootEntries ==
  ASSUME NEW e \in {DatabaseEntry, SidecarEntry}
  PROVE  /\ Entry(e) /\ \A d : e # Blob(d)
         /\ \A t : e # Staging(t) /\ e # Work(t) /\ \A d : e # Staged(t, d)
<1>1. Place(e) = "root"
  BY EntriesDiffer
<1> QED
  BY <1>1, EntriesDiffer DEF Entry

\* A store that is complete stays fit while its database is left alone.
LEMMA CompleteFits ==
  ASSUME DatabaseFits, content = "complete", UNCHANGED database,
         pc' \notin Opening, Lasts(DatabaseEntry)'
  PROVE  DatabaseFits'
BY DEF DatabaseFits, database, Opening

\* Opening or creating the store preserves the invariant.
LEMMA OpenKeeps ==
  ASSUME BInv, Open
  PROVE  BInv'
<1> USE DEF BInv
<1>1. Steady
  BY DEF Open, Steady, work
<1>2. pc' \in Abroad
  BY DEF Open, OpenStore, Acquire, Stat, CreateDatabase, RepairMode, SetMode, FlushDatabase,
         PublishEntry, Connect, ApplyProfile, InitializeSchema, CheckIntegrity,
         Goto, Refuse, Abroad, Opening
<1>3. ReclaimFits' /\ TransactionFits'
  BY <1>2, AbroadFits
<1>4. Sound
  BY DEF Sound
<1>5. DOMAIN records' = DOMAIN records
  BY <1>1 DEF Steady, store
<1>6. SUFFICES Sound' /\ DatabaseFits' /\ NeverInvalid'
  BY <1>3 DEF Sound
<1>7. CASE Acquire
  BY <1>1, <1>4, <1>5, <1>7, CalmKeeps
     DEF Acquire, Goto, Untouched, tree, database, DatabaseFits, Lasts, Gone, Opening, NeverInvalid
<1>8. CASE Stat
  <2>1. Sound'
    BY <1>1, <1>4, <1>8, CalmKeeps DEF Stat, Untouched
  <2>2. ~Present(DatabaseEntry) => content = "empty" /\ ~Present(SidecarEntry)
    BY DEF DatabaseFits, Lasts, Gone, Present
  <2>3. \/ ~Present(DatabaseEntry) /\ Goto("create")
        \/ Present(DatabaseEntry) /\ Goto(IF content = "empty" THEN "repair" ELSE "connect")
    BY <1>8, <2>2 DEF Stat
  <2>4. /\ UNCHANGED <<names, disk_names, content, private, disk_private, refused>>
        /\ \/ pc' = "create"
           \/ Present(DatabaseEntry) /\ content = "empty" /\ pc' = "repair"
           \/ Present(DatabaseEntry) /\ content # "empty" /\ pc' = "connect"
    BY <1>8, <2>3 DEF Stat, Goto, Untouched, tree, database
  <2> QED
    BY <1>5, <2>1, <2>4 DEF DatabaseFits, Lasts, Gone, Present, Opening, NeverInvalid
<1>9. CASE CreateDatabase
  <2>1. Link(DatabaseEntry, Database)
    BY <1>9 DEF CreateDatabase
  <2>2. Sound'
    BY <1>1, <1>4, <2>1, LinkKeeps, RootEntries
  <2>3. content = "empty"
    BY <2>1, Linked DEF DatabaseFits, Lasts
  <2>4. /\ content' = "empty" /\ pc' = "publish" /\ UNCHANGED <<disk_names, refused>>
        /\ DatabaseEntry \notin DOMAIN names
        /\ DOMAIN names' = DOMAIN names \cup {DatabaseEntry}
    BY <1>9, <2>1, Linked DEF CreateDatabase, Goto
  <2> QED
    BY <1>5, <2>2, <2>3, <2>4, EntriesDiffer
       DEF DatabaseFits, Lasts, Gone, Opening, NeverInvalid
<1>10. CASE RepairMode \/ SetMode \/ FlushDatabase
  <2>1. Sound'
    BY <1>1, <1>4, <1>10, CalmKeeps DEF RepairMode, SetMode, FlushDatabase, Untouched
  <2>2. /\ UNCHANGED <<names, disk_names, content, refused>>
        /\ \/ pc = "repair" /\ pc' = "publish"
           \/ pc = "publish" /\ pc' = "flush file"
           \/ pc = "flush file" /\ pc' = "flush root"
    BY <1>10 DEF RepairMode, SetMode, FlushDatabase, Goto, Untouched, tree
  <2>3. ASSUME RepairMode \/ SetMode PROVE private' /\ (disk_private => disk_private')
    <3>1. private' = TRUE /\ disk_private' = disk_private
      BY <2>3 DEF RepairMode, SetMode
    <3> QED
      BY <3>1, Zenon
  <2>4. FlushDatabase => (private => private' /\ disk_private')
    BY Zenon DEF FlushDatabase
  <2>5. FlushDatabase => private
    BY DEF FlushDatabase, DatabaseFits
  <2>6. private' /\ (pc' = "flush root" \/ disk_private => disk_private')
    BY <1>10, <2>3, <2>4, <2>5 DEF RepairMode, SetMode, Goto
  <2> QED
    BY <1>5, <2>1, <2>2, <2>6 DEF DatabaseFits, Lasts, Gone, Opening, NeverInvalid
<1>11. CASE PublishEntry
  <2>1. FlushDirectory(<<"root">>)
    BY <1>11 DEF PublishEntry
  <2>2. Sound'
    BY <1>1, <1>4, <2>1, Flushed, DiskKeeps
  <2>3. /\ UNCHANGED names
        /\ DatabaseEntry \in DOMAIN disk_names' <=> DatabaseEntry \in DOMAIN names
    BY <2>1, Flushed, Parents
  <2> QED
    BY <1>5, <1>11, <2>2, <2>3
       DEF PublishEntry, Goto, database, DatabaseFits, Lasts, Gone, Opening, NeverInvalid
<1>12. CASE Connect
  <2>1. /\ private /\ disk_private /\ Lasts(DatabaseEntry)
        /\ Goto(IF content = "complete" THEN "integrity" ELSE "profile")
        /\ Untouched \/ Link(SidecarEntry, Sidecar)
    BY <1>12 DEF Connect, DatabaseFits
  <2>2. Sound'
    BY <1>1, <1>4, <2>1, CalmKeeps, LinkKeeps, RootEntries DEF Untouched
  <2>3. Lasts(DatabaseEntry)'
    BY <2>1, Linked DEF Untouched, tree, Lasts
  <2> QED
    BY <1>5, <1>12, <2>1, <2>2, <2>3
       DEF Connect, Goto, database, DatabaseFits, Opening, NeverInvalid
<1>13. CASE ApplyProfile \/ InitializeSchema \/ CheckIntegrity
  <2>1. Sound'
    BY <1>1, <1>4, <1>13, CalmKeeps DEF ApplyProfile, InitializeSchema, CheckIntegrity, Untouched
  <2>2. /\ UNCHANGED <<names, disk_names, private, disk_private, refused>>
        /\ \/ pc = "profile" /\ pc' = "schema" /\ content' = "wal"
           \/ pc = "schema" /\ pc' = "reclaim" /\ content' = "complete"
           \/ content = "complete" /\ pc' = "reclaim" /\ content' = "complete"
    BY <1>13 DEF ApplyProfile, InitializeSchema, CheckIntegrity, Goto, Untouched, tree, database
  <2>3. DatabaseFits'
    BY <1>5, <2>2 DEF DatabaseFits, Lasts, Gone, Opening
  <2> QED
    BY <2>1, <2>2, <2>3 DEF NeverInvalid
<1> QED
  BY <1>7, <1>8, <1>9, <1>10, <1>11, <1>12, <1>13 DEF Open, OpenStore

-----------------------------------------------------------------------------
(* Reclamation and recovery.                                               *)

\* The database stays where it is, whatever is done to other entries.
LEMMA DatabaseStays ==
  ASSUME Lasts(DatabaseEntry),
         \/ UNCHANGED tree
         \/ DiskMoves /\ UNCHANGED names
         \/ \E i : Fill(i) \/ FlushFile(i)
         \/ \E e, i : Link(e, i)
         \/ \E e : e # DatabaseEntry /\ Unlink(e)
         \/ \E e, f : e # DatabaseEntry /\ Rename(e, f)
  PROVE  Lasts(DatabaseEntry)'
<1>1. CASE UNCHANGED tree \/ (DiskMoves /\ UNCHANGED names) \/ \E i : Fill(i) \/ FlushFile(i)
  BY <1>1 DEF tree, DiskMoves, Fill, FlushFile, Lasts
<1>2. CASE \E e, i : Link(e, i)
  BY <1>2, Linked DEF Lasts
<1>3. CASE \E e : e # DatabaseEntry /\ Unlink(e)
  BY <1>3, Unlinked DEF Lasts
<1>4. CASE \E e, f : e # DatabaseEntry /\ Rename(e, f)
  <2>1. PICK e, f : e # DatabaseEntry /\ Rename(e, f)
    BY <1>4
  <2>2. DOMAIN names' = (DOMAIN names \ {e}) \cup {f} /\ UNCHANGED disk_names
    BY <2>1, Renamed
  <2> QED
    BY <2>1, <2>2 DEF Lasts
<1> QED
  BY <1>1, <1>2, <1>3, <1>4

\* Work behind an open store: what a step has to show.
LEMMA BehindStore ==
  ASSUME BInv, pc \notin Opening \cup {"idle"}, UNCHANGED database, refused' = refused,
         pc' \notin Opening,
         Sound', Lasts(DatabaseEntry) => Lasts(DatabaseEntry)', ReclaimFits', TransactionFits'
  PROVE  BInv'
<1>1. content = "complete" /\ Lasts(DatabaseEntry)
  BY DEF BInv, DatabaseFits
<1>2. DatabaseFits'
  BY <1>1, CompleteFits DEF BInv
<1> QED
  BY <1>2 DEF BInv, Sound, NeverInvalid

\* The workspaces and the leaves are what the entries say.
LEMMA SameEntries ==
  ASSUME DOMAIN names' = DOMAIN names, attempts' = attempts
  PROVE  Workspaces' = Workspaces /\ Leaves' = Leaves
BY DEF Workspaces, Leaves, Present

\* What is in a staging directory was captured there.
LEMMA StagedChildren ==
  ASSUME Shape, NEW t, NEW e \in Children(Staging(t))
  PROVE  Place(e) = "captured" /\ e \in DOMAIN names
<1>1. e \in DOMAIN names /\ Parent(e) = Staging(t) /\ Entry(e)
  BY DEF Shape, Children
<1>2. /\ e # DatabaseEntry /\ e # SidecarEntry
      /\ \A d : e # Blob(d)
      /\ \A u : e # Staging(u) /\ e # Work(u)
  BY <1>1, Parents, ParentsDiffer
<1> QED
  BY <1>1, <1>2, EntriesDiffer DEF Entry

\* With no transaction under way the last part of BInv says nothing.
LEMMA NotPreparing ==
  ASSUME pc' \notin Preparing
  PROVE  TransactionFits'
BY DEF TransactionFits, Preparing, Making, Capturing, Discharging

\* The workspace in hand stays the same while the list does.
LEMMA OrphanSame ==
  ASSUME listed' = listed
  PROVE  Orphan' = Orphan
BY DEF Orphan

\* Listing the workspaces that no record is on.
LEMMA ListWorkspacesKeeps ==
  ASSUME BInv, ListWorkspaces
  PROVE  BInv'
<1>1. /\ pc = "reclaim" /\ pc' = "workspace" /\ UNCHANGED tree /\ Steady
      /\ UNCHANGED database /\ refused' = refused /\ listed' = Workspaces \ DOMAIN records
  BY DEF ListWorkspaces, List, Goto, Untouched, Steady
<1>2. Workspaces' = Workspaces /\ DOMAIN records' = DOMAIN records /\ attempts' = attempts
  BY <1>1, SameEntries DEF tree, Steady, store
<1>3. ReclaimFits'
  BY <1>1, <1>2 DEF ReclaimFits, Emptying, Workspaces
<1>4. Sound'
  BY <1>1, CalmKeeps DEF BInv, Sound
<1> QED
  BY <1>1, <1>3, <1>4, NotPreparing, BehindStore, DatabaseStays
     DEF Opening, Preparing, Making, Capturing, Discharging

\* The next workspace on the list, or the blobs.
LEMMA NextWorkspaceKeeps ==
  ASSUME BInv, NextWorkspace
  PROVE  BInv'
<1>1. /\ pc = "workspace" /\ UNCHANGED tree /\ Steady /\ UNCHANGED database
      /\ refused' = refused /\ listed' = listed
      /\ \/ listed = {} /\ pc' = "list blobs"
         \/ listed # {} /\ Present(Staging(Orphan)) /\ pc' = "empty"
         \/ listed # {} /\ ~Present(Staging(Orphan)) /\ pc' = "rmdir work"
  BY DEF NextWorkspace, Only, Step, Goto, Quiet, Untouched, Steady, work
<1>2. /\ Workspaces' = Workspaces /\ DOMAIN records' = DOMAIN records /\ attempts' = attempts
      /\ Orphan' = Orphan /\ DOMAIN names' = DOMAIN names
  BY <1>1, SameEntries, OrphanSame DEF tree, Steady, store
<1>3. listed # {} => Orphan \in listed
  BY <1>1, OrphanListed DEF BInv, Shape, ReclaimFits
<1>4. ReclaimFits'
  BY <1>1, <1>2, <1>3 DEF BInv, ReclaimFits, Emptying, Present
<1>5. Sound'
  BY <1>1, CalmKeeps DEF BInv, Sound
<1> QED
  BY <1>1, <1>4, <1>5, NotPreparing, BehindStore, DatabaseStays
     DEF Opening, Preparing, Making, Capturing, Discharging

\* Removing what a capture left in a staging directory.
LEMMA EmptyStagingKeeps ==
  ASSUME BInv, EmptyStaging
  PROVE  BInv'
<1>1. /\ pc = "empty" /\ pc' \in {"empty", "flush empty"} /\ Steady /\ UNCHANGED database
      /\ refused' = refused /\ listed' = listed
      /\ UNCHANGED tree \/ \E e \in Children(Staging(Orphan)) : Unlink(e)
  BY DEF EmptyStaging, Only, Step, Goto, Quiet, Untouched, Steady, work
<1>2. ASSUME NEW e, Place(e) = "captured"
      PROVE  /\ e # DatabaseEntry /\ \A d : e # Blob(d)
             /\ \A t : e # Staging(t) /\ e # Work(t)
  BY <1>2, EntriesDiffer
<1>3. \/ UNCHANGED tree
      \/ \E e : Unlink(e) /\ Place(e) = "captured"
  BY <1>1, StagedChildren DEF BInv
<1>4. Sound'
  BY <1>1, <1>2, <1>3, CalmKeeps, UnlinkKeeps DEF BInv, Sound
<1>5. Lasts(DatabaseEntry) => Lasts(DatabaseEntry)'
  BY <1>2, <1>3, DatabaseStays
<1>6. /\ Workspaces' = Workspaces
      /\ DOMAIN records' = DOMAIN records /\ attempts' = attempts /\ Orphan' = Orphan
  <2>1. attempts' = attempts /\ DOMAIN records' = DOMAIN records /\ Orphan' = Orphan
    BY <1>1, OrphanSame DEF Steady, store
  <2>2. CASE UNCHANGED tree
    BY <2>1, <2>2, SameEntries DEF tree
  <2>3. ASSUME NEW e, Unlink(e), Place(e) = "captured" PROVE Workspaces' = Workspaces
    BY <1>2, <2>1, <2>3, Unlinked DEF Workspaces, Present
  <2> QED
    BY <1>3, <2>1, <2>2, <2>3
<1>7. ReclaimFits'
  BY <1>1, <1>6 DEF BInv, ReclaimFits, Emptying
<1> QED
  BY <1>1, <1>4, <1>5, <1>7, NotPreparing, BehindStore
     DEF Opening, Preparing, Making, Capturing, Discharging

\* A flush in reclamation changes nothing that is seen.
LEMMA FlushesKeep ==
  ASSUME BInv, FlushEmptied \/ FlushRemoved
  PROVE  BInv'
<1>1. /\ \/ pc = "flush empty" /\ pc' = "rmdir staging"
         \/ pc = "flush rmdir" /\ pc' = "rmdir work"
      /\ Steady /\ UNCHANGED database /\ refused' = refused /\ listed' = listed
      /\ \E p : FlushDirectory(p)
  BY DEF FlushEmptied, FlushRemoved, Step, Goto, Quiet, Steady, work
<1>2. DiskMoves /\ UNCHANGED <<names, whole, durable>>
  BY <1>1, Flushed
<1>3. /\ Workspaces' = Workspaces /\ DOMAIN records' = DOMAIN records /\ attempts' = attempts
      /\ Orphan' = Orphan
  BY <1>1, <1>2, SameEntries, OrphanSame DEF Steady, store
<1>4. ReclaimFits'
  BY <1>1, <1>2, <1>3 DEF BInv, ReclaimFits, Emptying
<1>5. Sound'
  BY <1>1, <1>2, DiskKeeps DEF BInv, Sound
<1> QED
  BY <1>1, <1>2, <1>4, <1>5, NotPreparing, BehindStore, DatabaseStays
     DEF Opening, Preparing, Making, Capturing, Discharging

\* The staging directory of an orphan goes first.
LEMMA RemoveStagingKeeps ==
  ASSUME BInv, RemoveStaging
  PROVE  BInv'
<1>1. /\ pc = "rmdir staging" /\ pc' = "flush rmdir"
      /\ Steady /\ UNCHANGED database /\ refused' = refused /\ listed' = listed
      /\ Unlink(Staging(Orphan))
  BY DEF RemoveStaging, RemoveDirectory, Step, Goto, Quiet, Steady, work
<1>2. /\ \A d : Staging(Orphan) # Blob(d)
      /\ \A t : Staging(Orphan) # Work(t)
      /\ Staging(Orphan) # DatabaseEntry
  BY EntriesDiffer
<1>3. DOMAIN names' = DOMAIN names \ {Staging(Orphan)}
  BY <1>1, Unlinked
<1>4. /\ DOMAIN records' = DOMAIN records /\ attempts' = attempts /\ Orphan' = Orphan
  BY <1>1, OrphanSame DEF Steady, store
<1>5. Workspaces' \subseteq Workspaces
  BY <1>3, <1>4 DEF Workspaces, Present
<1>6. ReclaimFits'
  BY <1>1, <1>3, <1>4, <1>5 DEF BInv, ReclaimFits, Emptying
<1>7. Sound'
  BY <1>1, <1>2, UnlinkKeeps DEF BInv, Sound
<1> QED
  BY <1>1, <1>2, <1>6, <1>7, NotPreparing, BehindStore, DatabaseStays
     DEF Opening, Preparing, Making, Capturing, Discharging

\* ... and then the work directory, which no record is on.
LEMMA RemoveWorkKeeps ==
  ASSUME BInv, RemoveWork
  PROVE  BInv'
<1>1. /\ pc = "rmdir work" /\ Steady /\ UNCHANGED database /\ refused' = refused
      /\ \/ pc' = "flush work" /\ listed' = listed /\ Unlink(Work(Orphan))
         \/ /\ pc' = "workspace" /\ listed' = listed \ {Orphan} /\ UNCHANGED tree
            /\ ~Present(Work(Orphan))
  BY DEF RemoveWork, RemoveDirectory, List, Step, Goto, Quiet, Untouched, Steady, work
<1>2. /\ Orphan \in listed /\ Orphan \notin DOMAIN records
      /\ Staging(Orphan) \notin DOMAIN names
  BY <1>1 DEF BInv, ReclaimFits, Emptying
<1>3. DOMAIN records' = DOMAIN records /\ attempts' = attempts
  BY <1>1 DEF Steady, store
<1>4. CASE pc' = "flush work" /\ listed' = listed /\ Unlink(Work(Orphan))
  <2>1. /\ \A d : Work(Orphan) # Blob(d)
        /\ \A t : Work(Orphan) # Staging(t) /\ (t # Orphan => Work(Orphan) # Work(t))
        /\ Work(Orphan) # DatabaseEntry
    BY EntriesDiffer
  <2>2. DOMAIN names' = DOMAIN names \ {Work(Orphan)}
    BY <1>4, Unlinked
  <2>3. Workspaces' \subseteq Workspaces /\ Orphan' = Orphan
    BY <1>3, <1>4, <2>2, OrphanSame DEF Workspaces, Present
  <2>4. ReclaimFits'
    BY <1>1, <1>2, <1>3, <1>4, <2>2, <2>3 DEF BInv, ReclaimFits, Emptying
  <2>5. Sound'
    BY <1>1, <1>2, <1>4, <2>1, UnlinkKeeps DEF BInv, Sound
  <2> QED
    BY <1>1, <1>4, <2>1, <2>4, <2>5, NotPreparing, BehindStore, DatabaseStays
       DEF Opening, Preparing, Making, Capturing, Discharging
<1>5. CASE /\ pc' = "workspace" /\ listed' = listed \ {Orphan} /\ UNCHANGED tree
           /\ ~Present(Work(Orphan))
  <2>1. Workspaces' = Workspaces /\ Orphan \notin Workspaces
    BY <1>2, <1>3, <1>5, SameEntries DEF Workspaces, Present, tree
  <2>2. ReclaimFits'
    BY <1>1, <1>3, <1>5, <2>1 DEF BInv, ReclaimFits, Emptying
  <2>3. Sound'
    BY <1>1, <1>5, CalmKeeps DEF BInv, Sound
  <2> QED
    BY <1>1, <1>5, <2>2, <2>3, NotPreparing, BehindStore, DatabaseStays
       DEF Opening, Preparing, Making, Capturing, Discharging
<1> QED
  BY <1>1, <1>4, <1>5

\* The orphan is off the list once both its directories are gone.
LEMMA FlushWorkKeeps ==
  ASSUME BInv, FlushWork
  PROVE  BInv'
<1>1. /\ pc = "flush work" /\ pc' = "workspace" /\ Steady /\ UNCHANGED database
      /\ refused' = refused /\ listed' = listed \ {Orphan} /\ FlushDirectory(<<"work">>)
  BY DEF FlushWork, Goto, Steady
<1>2. DiskMoves /\ UNCHANGED <<names, whole, durable>>
  BY <1>1, Flushed
<1>3. Workspaces' = Workspaces /\ DOMAIN records' = DOMAIN records /\ attempts' = attempts
  BY <1>1, <1>2, SameEntries DEF Steady, store
<1>4. Orphan \notin Workspaces
  BY <1>1 DEF BInv, ReclaimFits, Workspaces, Present
<1>5. ReclaimFits'
  BY <1>1, <1>3, <1>4 DEF BInv, ReclaimFits, Emptying
<1>6. Sound'
  BY <1>1, <1>2, DiskKeeps DEF BInv, Sound
<1> QED
  BY <1>1, <1>2, <1>5, <1>6, NotPreparing, BehindStore, DatabaseStays
     DEF Opening, Preparing, Making, Capturing, Discharging

\* Every leaf there is has its bytes, so that the listing refuses none.
LEMMA ListBlobsKeeps ==
  ASSUME BInv, ListBlobs
  PROVE  BInv'
<1>1. \A d \in Leaves : Verified(Blob(d))
  BY DEF BInv, Shape, LeavesFit, Leaves, Verified, Present
<1>2. /\ pc = "list blobs" /\ pc' = "blob" /\ UNCHANGED tree /\ Steady
      /\ UNCHANGED database /\ refused' = refused /\ listed' = Leaves \ rows
  BY <1>1 DEF ListBlobs, List, Goto, Untouched, Steady
<1>3. /\ Workspaces' = Workspaces /\ Leaves' = Leaves
      /\ DOMAIN records' = DOMAIN records /\ rows' = rows
  BY <1>2, SameEntries DEF tree, Steady, store
<1>4. ReclaimFits'
  BY <1>2, <1>3 DEF BInv, ReclaimFits, Emptying
<1>5. Sound'
  BY <1>2, CalmKeeps DEF BInv, Sound
<1> QED
  BY <1>2, <1>4, <1>5, NotPreparing, BehindStore, DatabaseStays
     DEF Opening, Preparing, Making, Capturing, Discharging

\* A leaf is removed only while no row names it.
LEMMA RemoveBlobKeeps ==
  ASSUME BInv, RemoveBlob
  PROVE  BInv'
<1>1. /\ pc = "blob" /\ Steady /\ UNCHANGED database /\ refused' = refused /\ listed' = listed
      /\ \/ listed = {} /\ pc' = "resolve" /\ UNCHANGED tree
         \/ \E d \in listed : d \notin rows /\ Unlink(Blob(d)) /\ pc' = "flush blob"
  BY DEF RemoveBlob, Only, Step, Goto, Quiet, Untouched, Steady, work
<1>2. /\ DOMAIN records' = DOMAIN records /\ attempts' = attempts /\ rows' = rows
  BY <1>1 DEF Steady, store
<1>3. CASE listed = {} /\ pc' = "resolve" /\ UNCHANGED tree
  <2>1. Workspaces' = Workspaces /\ Leaves' = Leaves
    BY <1>2, <1>3, SameEntries DEF tree
  <2>2. ReclaimFits'
    BY <1>1, <1>2, <1>3, <2>1 DEF BInv, ReclaimFits, Emptying
  <2>3. Sound'
    BY <1>1, <1>3, CalmKeeps DEF BInv, Sound
  <2> QED
    BY <1>1, <1>3, <2>2, <2>3, NotPreparing, BehindStore, DatabaseStays
       DEF Opening, Preparing, Making, Capturing, Discharging
<1>4. CASE \E d \in listed : d \notin rows /\ Unlink(Blob(d)) /\ pc' = "flush blob"
  <2>1. PICK d \in listed : d \notin rows /\ Unlink(Blob(d)) /\ pc' = "flush blob"
    BY <1>4
  <2>2. /\ Blob(d) # DatabaseEntry /\ \A c : c # d => Blob(d) # Blob(c)
        /\ \A t : Blob(d) # Staging(t) /\ Blob(d) # Work(t)
    BY EntriesDiffer
  <2>3. DOMAIN names' = DOMAIN names \ {Blob(d)}
    BY <2>1, Unlinked
  <2>4. Workspaces' = Workspaces /\ Leaves' \subseteq Leaves
    BY <1>2, <2>2, <2>3 DEF Workspaces, Leaves, Present
  <2>5. ReclaimFits'
    BY <1>1, <1>2, <2>1, <2>4 DEF BInv, ReclaimFits, Emptying
  <2>6. Sound'
    BY <1>1, <2>1, <2>2, UnlinkKeeps DEF BInv, Sound
  <2> QED
    BY <1>1, <2>1, <2>2, <2>5, <2>6, NotPreparing, BehindStore, DatabaseStays
       DEF Opening, Preparing, Making, Capturing, Discharging
<1> QED
  BY <1>1, <1>3, <1>4

\* What is still to be removed are the listed leaves that are still there.
LEMMA FlushRemovedBlobKeeps ==
  ASSUME BInv, FlushRemovedBlob
  PROVE  BInv'
<1>1. /\ pc = "flush blob" /\ pc' = "blob" /\ Steady /\ UNCHANGED database
      /\ refused' = refused /\ listed' = listed \cap Leaves /\ FlushDirectory(<<"sha256">>)
  BY DEF FlushRemovedBlob, Goto, Steady
<1>2. DiskMoves /\ UNCHANGED <<names, whole, durable>>
  BY <1>1, Flushed
<1>3. /\ Workspaces' = Workspaces /\ Leaves' = Leaves
      /\ DOMAIN records' = DOMAIN records /\ rows' = rows
  BY <1>1, <1>2, SameEntries DEF Steady, store
<1>4. ReclaimFits'
  BY <1>1, <1>3 DEF BInv, ReclaimFits, Emptying
<1>5. Sound'
  BY <1>1, <1>2, DiskKeeps DEF BInv, Sound
<1> QED
  BY <1>1, <1>2, <1>4, <1>5, NotPreparing, BehindStore, DatabaseStays
     DEF Opening, Preparing, Making, Capturing, Discharging

\* What a row names can be read.
LEMMA RowsReadable ==
  ASSUME BInv, NEW d \in rows
  PROVE  Readable(d) /\ d \in Digests
BY DEF BInv, Shape, LeavesFit, Lasts, Readable, Verified, Present

\* Recovery finds the slots of the active record, and its blobs.
LEMMA RecoveryKeeps ==
  ASSUME BInv, Resolve \/ OpenBlob \/ Detach
  PROVE  BInv'
<1>1. /\ UNCHANGED <<tree, attempts, needs, listed, rows, records>> /\ UNCHANGED database
      /\ active' \in {active, 0}
  BY DEF Resolve, OpenBlob, Detach, Only, Step, Goto, Refuse, Quiet, Untouched, store, work
<1>2. refused' = refused /\ {pc, pc'} \subseteq {"resolve", "ready", "active"}
  <2>1. CASE Resolve
    <3>1. active # 0 => ~Present(Staging(active)) /\ Present(Work(active))
      BY DEF BInv, Shape, SlotsFit, Lasts, Gone, Present
    <3> QED
      BY <2>1, <3>1 DEF Resolve, Only, Step, Goto
  <2>2. CASE OpenBlob
    <3>1. PICK t \in DOMAIN records : \E d \in records[t] :
            /\ pc = IF t = active THEN "active" ELSE "ready"
            /\ IF Readable(d) THEN Goto(pc) ELSE Refuse
      BY <2>2 DEF OpenBlob
    <3>2. \A d \in records[t] : Readable(d)
      BY <3>1, RowsReadable DEF BInv, Shape
    <3> QED
      BY <3>1, <3>2 DEF Goto
  <2>3. CASE Detach
    BY <2>3 DEF Detach, Goto
  <2> QED
    BY <2>1, <2>2, <2>3
<1>3. Sound'
  <2>1. Shape'
    BY <1>1 DEF BInv, Shape, Entry, tree
  <2>2. LeavesFit' /\ SlotsFit'
    BY <1>1 DEF BInv, LeavesFit, SlotsFit, Lasts, Gone, tree
  <2> QED
    BY <2>1, <2>2 DEF Sound
<1>4. Workspaces' = Workspaces /\ Leaves' = Leaves
  BY <1>1, SameEntries DEF tree
<1>5. ReclaimFits'
  BY <1>1, <1>2, <1>4 DEF BInv, ReclaimFits, Emptying
<1> QED
  BY <1>1, <1>2, <1>3, <1>5, NotPreparing, BehindStore, DatabaseStays
     DEF Opening, Preparing, Making, Capturing, Discharging

-----------------------------------------------------------------------------
(* A transaction.                                                          *)

\* The lease ends with the store closed.
LEMMA ReleaseKeeps ==
  ASSUME BInv, Release
  PROVE  BInv'
<1>1. /\ pc = "ready" /\ pc' = "idle" /\ Steady /\ UNCHANGED database /\ refused' = refused
      /\ UNCHANGED tree \/ Unlink(SidecarEntry)
  BY DEF Release, CloseStore, Goto, Untouched, Steady, work
<1>2. Sound'
  BY <1>1, CalmKeeps, UnlinkKeeps, RootEntries DEF BInv, Sound
<1>3. Lasts(DatabaseEntry) => Lasts(DatabaseEntry)'
  BY <1>1, DatabaseStays, EntriesDiffer
<1> QED
  BY <1>1, <1>2, <1>3, AbroadFits, BehindStore DEF Abroad, Opening

\* One more transaction.
LEMMA OneMore ==
  ASSUME NEW n \in Nat
  PROVE  /\ n + 1 \in Nat \ {0} /\ n + 1 \notin 1..n
         /\ 1..(n + 1) = 1..n \cup {n + 1}
OBVIOUS

\* A transaction that begins finds nothing under its number.
LEMMA AdmitKeeps ==
  ASSUME BInv, NEW S \in SUBSET Digests, Admit(S)
  PROVE  BInv'
<1>1. /\ pc = "ready" /\ pc' = "mkdir staging" /\ UNCHANGED <<tree, database, store>>
      /\ refused' = refused /\ attempts' = attempts + 1 /\ needs' = S /\ listed' = S
  BY DEF Admit, Goto, Untouched
<1>2. attempts \in Nat /\ attempts' \in Nat \ {0} /\ attempts' \notin 1..attempts
      /\ 1..attempts \subseteq 1..attempts' /\ 1..attempts' = 1..attempts \cup {attempts'}
  <2>1. attempts \in Nat
    BY DEF BInv, Shape
  <2>2. attempts' = attempts + 1
    BY <1>1
  <2> QED
    BY <2>1, <2>2, OneMore
<1>3. ASSUME NEW e, Entry(e)
      PROVE  /\ Entry(e)' /\ e # Staging(attempts') /\ e # Work(attempts')
             /\ \A d : e # Staged(attempts', d)
  BY <1>2, <1>3, EntriesDiffer DEF Entry
<1>4. \A e \in DOMAIN names : Entry(e)
  BY DEF BInv, Shape
<1>5. Sound'
  <2>1. Shape'
    BY <1>1, <1>2, <1>3 DEF BInv, Shape, tree, store
  <2>2. LeavesFit' /\ SlotsFit'
    BY <1>1 DEF BInv, LeavesFit, SlotsFit, Lasts, Gone, tree, store
  <2> QED
    BY <2>1, <2>2 DEF Sound
<1>6. Workspaces' = Workspaces /\ Leaves' = Leaves
  BY <1>1, <1>2, <1>3, <1>4 DEF Workspaces, Leaves, Present, tree
<1>7. ReclaimFits'
  BY <1>1 DEF ReclaimFits, Emptying
<1>8. TransactionFits'
  <2>1. /\ attempts' \notin DOMAIN records' /\ listed' = needs'
        /\ Workspaces' \subseteq DOMAIN records' /\ Leaves' \subseteq rows'
    BY <1>1, <1>2, <1>6 DEF BInv, Shape, ReclaimFits, store
  <2>2. \A d \in Digests : Staged(attempts, d)' \notin DOMAIN names'
    BY <1>1, <1>3, <1>4 DEF tree, Staged
  <2> QED
    BY <1>1, <1>2, <2>1, <2>2
       DEF TransactionFits, Preparing, Making, Capturing, Discharging
<1> QED
  BY <1>1, <1>5, <1>7, <1>8, BehindStore, DatabaseStays DEF Opening

\* No step of a transaction is one of reclamation.
LEMMA NotReclaiming ==
  ASSUME pc' \in Preparing
  PROVE  ReclaimFits'
BY DEF ReclaimFits, Emptying, Preparing, Making, Capturing, Discharging

\* What holds of a transaction at every point of it.
UnderWay ==
  /\ attempts \in Nat \ {0} /\ attempts \notin DOMAIN records
  /\ listed \subseteq needs /\ needs \subseteq Digests
  /\ Workspaces \subseteq DOMAIN records \cup {attempts}
  /\ Leaves \subseteq rows \cup needs

\* What BInv gives while a transaction is being prepared.
LEMMA InTransaction ==
  ASSUME BInv, pc \in Preparing
  PROVE  UnderWay /\ content = "complete" /\ Lasts(DatabaseEntry)
BY DEF BInv, Shape, TransactionFits, DatabaseFits, UnderWay, Opening,
       Preparing, Making, Capturing, Discharging

\* Making the workspace.
LEMMA CreateWorkspaceKeeps ==
  ASSUME BInv, CreateWorkspace
  PROVE  BInv'
<1>1. /\ pc \in Making /\ Steady /\ UNCHANGED database /\ refused' = refused /\ listed' = listed
      /\ \/ pc = "mkdir staging" /\ pc' = "mkdir work" /\ Link(Staging(attempts), Directory)
         \/ pc = "mkdir work" /\ pc' = "flush staging" /\ Link(Work(attempts), Directory)
         \/ /\ pc = "flush staging" /\ pc' = "flush work parent"
            /\ FlushDirectory(<<"staging">>)
         \/ pc = "flush work parent" /\ pc' = "capture" /\ FlushDirectory(<<"work">>)
  BY DEF CreateWorkspace, MakeStaging, MakeWork, FlushStagingParent, FlushWorkParent, Making,
         Step, Goto, Quiet, Steady, work
<1>2. UnderWay
  BY <1>1, InTransaction DEF Preparing
<1>3. /\ DOMAIN records' = DOMAIN records /\ attempts' = attempts /\ rows' = rows
      /\ needs' = needs
  BY <1>1 DEF Steady, store
<1>4. /\ \A d \in Digests : Staged(attempts, d) \notin DOMAIN names
      /\ listed = needs
      /\ pc \in {"flush staging", "flush work parent"} => Work(attempts) \in DOMAIN names
  BY <1>1 DEF BInv, TransactionFits
<1>5. ASSUME NEW e \in {Staging(attempts), Work(attempts)}, Link(e, Directory)
      PROVE  /\ Sound' /\ Lasts(DatabaseEntry)' /\ DOMAIN names' = DOMAIN names \cup {e}
             /\ \A d \in Digests : Staged(attempts, d) \notin DOMAIN names'
             /\ UnderWay'
  <2>1. /\ Entry(e) /\ \A d : e # Blob(d) /\ e # Staged(attempts, d)
        /\ \A t \in DOMAIN records : e # Staging(t)
        /\ \A t : t # attempts => e # Staging(t) /\ e # Work(t)
    BY <1>2, EntriesDiffer DEF Entry, UnderWay
  <2>2. Sound'
    BY <1>1, <1>5, <2>1, LinkKeeps DEF BInv, Sound
  <2>3. Lasts(DatabaseEntry)'
    BY <1>1, <1>5, InTransaction, DatabaseStays DEF Preparing
  <2>4. DOMAIN names' = DOMAIN names \cup {e}
    BY <1>5, Linked
  <2>5. Workspaces' \subseteq Workspaces \cup {attempts} /\ Leaves' = Leaves
    BY <1>3, <2>1, <2>4 DEF Workspaces, Leaves, Present
  <2> QED
    BY <1>1, <1>2, <1>3, <1>4, <2>1, <2>2, <2>3, <2>4, <2>5 DEF UnderWay
<1>6. ASSUME NEW p, FlushDirectory(p)
      PROVE  /\ Sound' /\ Lasts(DatabaseEntry)' /\ DOMAIN names' = DOMAIN names
             /\ (p = <<"work">> => (Work(attempts) \in DOMAIN disk_names'
                                    <=> Work(attempts) \in DOMAIN names))
             /\ UnderWay'
  <2>1. /\ DiskMoves /\ UNCHANGED <<names, whole, durable>>
        /\ \A e : Parent(e) = p => (e \in DOMAIN disk_names' <=> e \in DOMAIN names)
    BY <1>6, Flushed
  <2>2. Sound'
    BY <1>1, <2>1, DiskKeeps DEF BInv, Sound
  <2>3. Lasts(DatabaseEntry)'
    BY <1>1, <2>1, InTransaction, DatabaseStays DEF Preparing
  <2> QED
    BY <1>1, <1>2, <1>3, <2>1, <2>2, <2>3, SameEntries, Parents DEF UnderWay
<1>7. Sound' /\ Lasts(DatabaseEntry)' /\ UnderWay' /\ pc' \in Preparing
  BY <1>1, <1>5, <1>6 DEF Preparing, Making, Capturing
<1>8. \A d \in Digests : Staged(attempts, d) \notin DOMAIN names'
  BY <1>1, <1>4, <1>5, <1>6
<1>9. /\ pc' \in {"flush staging", "flush work parent"} => Work(attempts) \in DOMAIN names'
      /\ pc' = "capture" => Lasts(Work(attempts))'
  BY <1>1, <1>3, <1>4, <1>5, <1>6 DEF Lasts, Work
<1>10. TransactionFits'
  BY <1>1, <1>3, <1>4, <1>7, <1>8, <1>9
     DEF TransactionFits, UnderWay, Preparing, Making, Capturing, Discharging, Staged, Work, Sink
<1> QED
  BY <1>1, <1>7, <1>10, NotReclaiming, BehindStore
     DEF Opening, Preparing, Making, Capturing, Discharging

-----------------------------------------------------------------------------
(* Capture.                                                                *)

\* A name for something captured is none of the others.
LEMMA CapturedEntries ==
  ASSUME UnderWay, NEW d \in Digests
  PROVE  /\ Entry(Staged(attempts, d)) /\ Staged(attempts, d) # DatabaseEntry
         /\ \A c : Staged(attempts, d) # Blob(c)
         /\ \A t : Staged(attempts, d) # Staging(t) /\ Staged(attempts, d) # Work(t)
         /\ \A c : c # d => Staged(attempts, d) # Staged(attempts, c)
BY EntriesDiffer DEF Entry, UnderWay

\* The next file, or the end of the capture.
LEMMA OpenSinkKeeps ==
  ASSUME BInv, OpenSink
  PROVE  BInv'
<1>1. /\ pc = "capture" /\ Steady /\ UNCHANGED database /\ refused' = refused
      /\ listed' = listed
      /\ \/ listed = {} /\ pc' = "preflight" /\ UNCHANGED tree
         \/ pc' = "write" /\ \E d \in listed : Link(Staged(attempts, d), Sink(d))
  BY DEF OpenSink, Only, Step, Goto, Quiet, Untouched, Steady, work
<1>2. UnderWay /\ Lasts(DatabaseEntry)
  BY <1>1, InTransaction DEF Preparing, Capturing
<1>3. /\ DOMAIN records' = DOMAIN records /\ attempts' = attempts /\ rows' = rows
      /\ needs' = needs
  BY <1>1 DEF Steady, store
<1>4. /\ Lasts(Work(attempts))
      /\ \A d \in needs \ listed : Secured(d)
      /\ \A d \in listed : Staged(attempts, d) \notin DOMAIN names
  BY <1>1 DEF BInv, TransactionFits, Capturing
<1>5. ASSUME listed = {}, pc' = "preflight", UNCHANGED tree PROVE BInv'
  <2>1. Sound'
    BY <1>1, <1>5, CalmKeeps DEF BInv, Sound
  <2>2. Workspaces' = Workspaces /\ Leaves' = Leaves
    BY <1>3, <1>5, SameEntries DEF tree
  <2>3. (\A d \in needs \ listed : Secured(d))' /\ Lasts(Work(attempts))'
    BY <1>1, <1>3, <1>4, <1>5 DEF Secured, Staged, Sink, Lasts, Work, tree
  <2>4. TransactionFits'
    BY <1>1, <1>2, <1>3, <1>5, <2>2, <2>3
       DEF TransactionFits, UnderWay, Preparing, Making, Capturing, Discharging
  <2> QED
    BY <1>1, <1>5, <2>1, <2>4, NotReclaiming, BehindStore, DatabaseStays
       DEF Opening, Preparing, Making, Capturing, Discharging
<1>6. ASSUME NEW d \in listed, Link(Staged(attempts, d), Sink(d)), pc' = "write" PROVE BInv'
  <2>1. d \in Digests /\ d \in needs
    BY <1>2 DEF UnderWay
  <2>2. /\ DOMAIN names' = DOMAIN names \cup {Staged(attempts, d)}
        /\ names'[Staged(attempts, d)] = Sink(d)
        /\ \A f \in DOMAIN names : names'[f] = names[f]
        /\ UNCHANGED <<disk_names, whole, durable>>
    BY <1>6, Linked
  <2>3. Sound'
    BY <1>1, <1>2, <1>6, <2>1, CapturedEntries, LinkKeeps DEF BInv, Sound
  <2>4. Workspaces' = Workspaces /\ Leaves' = Leaves
    BY <1>2, <1>3, <2>1, <2>2, CapturedEntries DEF Workspaces, Leaves, Present
  <2>5. /\ Lasts(Work(attempts))'
        /\ (\A c \in needs \ listed : Secured(c))'
    BY <1>1, <1>3, <1>4, <2>2 DEF Lasts, Secured, Staged, Sink, Work
  <2>6. \A c \in listed \ {d} : Staged(attempts, c) \notin DOMAIN names'
    BY <1>2, <1>4, <2>1, <2>2, CapturedEntries DEF UnderWay
  <2>7. /\ d \in listed' /\ Staged(attempts, d)' = Staged(attempts, d) /\ Sink(d)' = Sink(d)
        /\ \A c : Staged(attempts, c)' = Staged(attempts, c)
    BY <1>1, <1>3 DEF Staged, Sink
  <2>8. TransactionFits'
    BY <1>1, <1>2, <1>3, <1>6, <2>2, <2>4, <2>5, <2>6, <2>7
       DEF TransactionFits, UnderWay, Preparing, Making, Capturing, Discharging
  <2> QED
    BY <1>1, <1>2, <1>6, <2>3, <2>8, NotReclaiming, BehindStore, DatabaseStays
       DEF Opening, Preparing, Making, Capturing, Discharging
<1> QED
  BY <1>1, <1>5, <1>6

\* The file in hand is written, and then flushed.
LEMMA SinkKeeps ==
  ASSUME BInv, WriteSink \/ FlushSink
  PROVE  BInv'
<1>1. /\ pc \in {"write", "flush sink"} /\ Steady /\ UNCHANGED database /\ refused' = refused
  BY DEF WriteSink, FlushSink, Step, Goto, Quiet, Steady, work
<1>2. UnderWay /\ Lasts(DatabaseEntry)
  BY <1>1, InTransaction DEF Preparing, Capturing
<1>3. /\ DOMAIN records' = DOMAIN records /\ attempts' = attempts /\ rows' = rows
      /\ needs' = needs
      /\ \A c : Staged(attempts, c)' = Staged(attempts, c) /\ Sink(c)' = Sink(c)
      /\ Work(attempts)' = Work(attempts)
  BY <1>1 DEF Steady, store, Staged, Sink, Work
<1>4. /\ Lasts(Work(attempts))
      /\ \A c \in needs \ listed : Secured(c)
  BY <1>1 DEF BInv, TransactionFits, Capturing
<1>5. PICK d \in listed :
        /\ Staged(attempts, d) \in DOMAIN names /\ names[Staged(attempts, d)] = Sink(d)
        /\ pc = "flush sink" => Sink(d) \in whole
        /\ \A c \in listed \ {d} : Staged(attempts, c) \notin DOMAIN names
  BY <1>1 DEF BInv, TransactionFits
<1>6. Captured \cap listed = {d}
  BY <1>2, <1>5 DEF Captured, Present, UnderWay
<1>7. ASSUME WriteSink PROVE BInv'
  <2>1. Fill(Sink(d)) /\ pc' = "flush sink" /\ listed' = listed
    BY <1>6, <1>7 DEF WriteSink, Step, Goto, Quiet, work
  <2>2. UNCHANGED <<names, disk_names, durable>> /\ whole' = whole \cup {Sink(d)}
    BY <2>1 DEF Fill
  <2>3. Sound'
    BY <1>1, <2>1, BytesKeep DEF BInv, Sound
  <2>4. Workspaces' = Workspaces /\ Leaves' = Leaves
    BY <1>3, <2>2, SameEntries
  <2>5. Lasts(Work(attempts))' /\ (\A c \in needs \ listed : Secured(c))'
    BY <1>3, <1>4, <2>1, <2>2 DEF Lasts, Secured
  <2>6. TransactionFits'
    BY <1>1, <1>2, <1>3, <1>5, <2>1, <2>2, <2>4, <2>5
       DEF TransactionFits, UnderWay, Preparing, Making, Capturing, Discharging
  <2> QED
    BY <1>1, <2>1, <2>3, <2>6, NotReclaiming, BehindStore, DatabaseStays
       DEF Opening, Preparing, Making, Capturing, Discharging
<1>8. ASSUME FlushSink PROVE BInv'
  <2>1. /\ FlushFile(Sink(d)) /\ pc = "flush sink" /\ pc' = "capture"
        /\ listed' = listed \ Captured
    BY <1>6, <1>8 DEF FlushSink, Goto
  <2>2. UNCHANGED <<names, disk_names, whole>> /\ durable' = durable \cup {Sink(d)}
    BY <1>5, <2>1 DEF FlushFile
  <2>3. Sound'
    BY <1>1, <2>1, BytesKeep DEF BInv, Sound
  <2>4. Workspaces' = Workspaces /\ Leaves' = Leaves
    BY <1>3, <2>2, SameEntries
  <2>5. listed' = listed \ {d}
    BY <1>6, <2>1
  <2>6. Lasts(Work(attempts))'
    BY <1>3, <1>4, <2>2 DEF Lasts
  <2>7. ASSUME NEW c \in needs \ listed' PROVE Secured(c)'
    BY <1>3, <1>4, <1>5, <2>2, <2>5, <2>7 DEF Secured
  <2>8. \A c \in listed' : Staged(attempts, c)' \notin DOMAIN names'
    BY <1>3, <1>5, <2>2, <2>5
  <2>9. (\A c \in needs \ listed : Secured(c))'
    BY <1>3, <2>7
  <2>10. TransactionFits'
    BY <1>1, <1>2, <1>3, <2>1, <2>4, <2>5, <2>6, <2>8, <2>9
       DEF TransactionFits, UnderWay, Preparing, Making, Capturing, Discharging
  <2> QED
    BY <1>1, <2>1, <2>3, <2>10, NotReclaiming, BehindStore, DatabaseStays
       DEF Opening, Preparing, Making, Capturing, Discharging
<1> QED
  BY <1>7, <1>8

\* A capture that is refused ends the lease.
LEMMA CaptureRefusesKeeps ==
  ASSUME BInv, CaptureRefuses
  PROVE  BInv'
<1>1. /\ pc = "write" /\ pc' = "idle" /\ Steady /\ UNCHANGED database /\ refused' = refused
      /\ UNCHANGED tree
  BY DEF CaptureRefuses, Only, Step, Goto, Quiet, Untouched, Steady, work
<1>2. Sound'
  BY <1>1, CalmKeeps DEF BInv, Sound
<1> QED
  BY <1>1, <1>2, AbroadFits, BehindStore, DatabaseStays DEF Abroad, Opening

-----------------------------------------------------------------------------
(* Promotion.                                                              *)

\* Every blob a row names is there, so that preflight refuses none.
LEMMA PreflightKeeps ==
  ASSUME BInv, Preflight
  PROVE  BInv'
<1>1. \A d \in needs \cap rows : Readable(d)
  BY RowsReadable
<1>2. /\ pc = "preflight" /\ pc' = "promote" /\ UNCHANGED tree /\ Steady
      /\ UNCHANGED database /\ refused' = refused /\ listed' = needs
  BY <1>1 DEF Preflight, List, Goto, Untouched, Steady
<1>3. UnderWay /\ Lasts(DatabaseEntry)
  BY <1>2, InTransaction DEF Preparing, Capturing
<1>4. /\ DOMAIN records' = DOMAIN records /\ attempts' = attempts /\ rows' = rows
      /\ needs' = needs
      /\ \A c : Staged(attempts, c)' = Staged(attempts, c)
      /\ Work(attempts)' = Work(attempts)
      /\ Workspaces' = Workspaces /\ Leaves' = Leaves
  BY <1>2, SameEntries DEF Steady, store, Staged, Work, tree
<1>5. /\ Lasts(Work(attempts))
      /\ \A c \in needs : names[Staged(attempts, c)] \in durable
  BY <1>2 DEF BInv, TransactionFits, Capturing, Secured
<1>6. Lasts(Work(attempts))'
  BY <1>2, <1>4, <1>5 DEF Lasts, tree
<1>7. Sound'
  BY <1>2, CalmKeeps DEF BInv, Sound
<1>8. TransactionFits'
  BY <1>2, <1>3, <1>4, <1>5, <1>6
     DEF TransactionFits, UnderWay, Preparing, Making, Capturing, Discharging, tree
<1> QED
  BY <1>2, <1>7, <1>8, NotReclaiming, BehindStore, DatabaseStays
     DEF Opening, Preparing, Making, Capturing, Discharging

\* A staged file becomes a blob, or turns out to be one already.
LEMMA PublishKeeps ==
  ASSUME BInv, pc = "promote", NEW d \in listed, PublishBlob(d) \/ AdoptBlob(d)
  PROVE  BInv'
<1>1. UnderWay /\ Lasts(DatabaseEntry)
  BY InTransaction DEF Preparing
<1>2. /\ d \in Digests /\ d \in needs
      /\ Lasts(Work(attempts))
      /\ \A c \in needs : Staged(attempts, c) \in DOMAIN names =>
           names[Staged(attempts, c)] \in durable
      /\ \A c \in needs \ listed : Blob(c) \in DOMAIN names
  BY <1>1 DEF BInv, TransactionFits, UnderWay
<1>3. Present(Blob(d)) => Verified(Blob(d))
  BY <1>2 DEF BInv, Shape, LeavesFit, Present, Verified
<1>4. /\ pc' = "promote" /\ Steady /\ UNCHANGED database /\ refused' = refused
      /\ listed' = listed \ {d}
      /\ \/ Rename(Staged(attempts, d), Blob(d))
         \/ Present(Blob(d)) /\ Unlink(Staged(attempts, d))
  BY <1>3 DEF PublishBlob, AdoptBlob, Dequeue, Goto, Steady
<1>5. /\ DOMAIN records' = DOMAIN records /\ attempts' = attempts /\ rows' = rows
      /\ needs' = needs /\ records' = records /\ active' = active
      /\ \A c : Staged(attempts, c)' = Staged(attempts, c)
      /\ Work(attempts)' = Work(attempts)
  BY <1>4 DEF Steady, store, Staged, Work
<1>6. /\ \A c : Staged(attempts, d) # Blob(c)
      /\ \A t : Staged(attempts, d) # Staging(t) /\ Staged(attempts, d) # Work(t)
      /\ \A c : c # d => Staged(attempts, d) # Staged(attempts, c) /\ Blob(d) # Blob(c)
      /\ \A t : Blob(d) # Staging(t) /\ Blob(d) # Work(t) /\ \A c : Blob(d) # Staged(t, c)
      /\ Staged(attempts, d) # DatabaseEntry
      /\ Entry(Blob(d))
  BY <1>2, EntriesDiffer DEF Entry
<1>7. /\ Staged(attempts, d) \in DOMAIN names
      /\ DOMAIN names' = (DOMAIN names \ {Staged(attempts, d)}) \cup {Blob(d)}
      /\ \A e \in DOMAIN names' : names'[e] = names[e] \/ e = Blob(d)
      /\ \/ names'[Blob(d)] = names[Staged(attempts, d)]
         \/ Blob(d) \in DOMAIN names /\ names'[Blob(d)] = names[Blob(d)]
      /\ UNCHANGED <<disk_names, whole, durable>>
  <2>1. CASE Rename(Staged(attempts, d), Blob(d))
    <3>1. /\ Staged(attempts, d) \in DOMAIN names
          /\ DOMAIN names' = (DOMAIN names \ {Staged(attempts, d)}) \cup {Blob(d)}
          /\ names'[Blob(d)] = names[Staged(attempts, d)]
          /\ \A e \in DOMAIN names \ {Staged(attempts, d)} : names'[e] = names[e]
          /\ UNCHANGED <<disk_names, whole, durable>>
      BY <2>1, Renamed
    <3>2. ASSUME NEW e \in DOMAIN names', e # Blob(d)
          PROVE names'[e] = names[e]
      <4>1. e \in DOMAIN names \ {Staged(attempts, d)}
        BY <3>1, <3>2
      <4> QED
        BY <3>1, <4>1
    <3>3. \A e \in DOMAIN names' : names'[e] = names[e] \/ e = Blob(d)
      BY <3>2
    <3> QED
      BY <3>1, <3>3
  <2>2. CASE Present(Blob(d)) /\ Unlink(Staged(attempts, d))
    BY <1>6, <2>2, Unlinked DEF Present
  <2> QED
    BY <1>4, <2>1, <2>2
<1>8. names'[Blob(d)] \in durable
  BY <1>2, <1>7 DEF BInv, LeavesFit
<1>9. Sound'
  <2>1. Shape'
    BY <1>5, <1>6, <1>7 DEF BInv, Shape, Entry
  <2>2. rows \subseteq Digests
    BY DEF BInv, Shape
  <2>3. LeavesFit'
    BY <1>5, <1>6, <1>7, <1>8, <2>2 DEF BInv, LeavesFit, Lasts
  <2>4. SlotsFit'
    BY <1>5, <1>6, <1>7 DEF BInv, SlotsFit, Lasts, Gone
  <2> QED
    BY <2>1, <2>3, <2>4 DEF Sound
<1>10. Workspaces' = Workspaces /\ Leaves' = Leaves \cup {d}
  <2>1. Workspaces' = Workspaces
    BY <1>5, <1>6, <1>7 DEF Workspaces, Present
  <2>2. \A c \in Digests : Blob(c) \in DOMAIN names' <=> Blob(c) \in DOMAIN names \/ c = d
    BY <1>6, <1>7
  <2> QED
    BY <1>2, <2>1, <2>2 DEF Leaves, Present
<1>11. /\ Lasts(Work(attempts))'
       /\ \A c \in needs : Staged(attempts, c) \in DOMAIN names' =>
            names'[Staged(attempts, c)] \in durable
       /\ \A c \in needs \ listed' : Blob(c) \in DOMAIN names'
  BY <1>2, <1>4, <1>5, <1>6, <1>7 DEF Lasts
<1>12. TransactionFits'
  BY <1>1, <1>2, <1>4, <1>5, <1>7, <1>10, <1>11
     DEF TransactionFits, UnderWay, Preparing, Making, Capturing, Discharging
<1> QED
  BY <1>1, <1>4, <1>6, <1>9, <1>12, NotReclaiming, BehindStore, DatabaseStays
     DEF Opening, Preparing, Making, Capturing, Discharging

(* The directories are flushed, and the staging directory taken away,      *)
(* before the record is committed.                                         *)
LEMMA DischargeKeeps ==
  ASSUME BInv, FlushBlobs \/ FlushSpent \/ RemoveSpent \/ FlushDischarged
  PROVE  BInv'
<1>1. /\ pc \in Preparing /\ Steady /\ UNCHANGED database /\ refused' = refused
      /\ listed' = listed
      /\ \/ /\ pc = "promote" /\ pc' = "flush spent" /\ listed = {}
            /\ FlushDirectory(<<"sha256">>)
         \/ pc = "flush spent" /\ pc' = "rmdir spent" /\ FlushDirectory(Staging(attempts))
         \/ pc = "rmdir spent" /\ pc' = "flush discharged" /\ Unlink(Staging(attempts))
         \/ pc = "flush discharged" /\ pc' = "commit" /\ FlushDirectory(<<"staging">>)
  BY DEF FlushBlobs, FlushSpent, RemoveSpent, FlushDischarged, RemoveDirectory, Step, Goto,
         Quiet, Steady, work, Preparing, Discharging
<1>2. UnderWay /\ Lasts(DatabaseEntry)
  BY <1>1, InTransaction
<1>3. /\ DOMAIN records' = DOMAIN records /\ attempts' = attempts /\ rows' = rows
      /\ needs' = needs
      /\ Work(attempts)' = Work(attempts) /\ Staging(attempts)' = Staging(attempts)
  BY <1>1 DEF Steady, store, Work, Staging
<1>4. /\ Lasts(Work(attempts))
      /\ pc = "promote" => \A d \in needs \ listed : Blob(d) \in DOMAIN names
      /\ pc # "promote" => \A d \in needs : Lasts(Blob(d))
      /\ pc = "flush discharged" => Staging(attempts) \notin DOMAIN names
  BY <1>1 DEF BInv, TransactionFits, Discharging
<1>5. ASSUME NEW p, FlushDirectory(p)
      PROVE  /\ Sound' /\ Lasts(DatabaseEntry)' /\ UNCHANGED names
             /\ \A e : Lasts(e) => Lasts(e)'
             /\ \A e : Parent(e) = p => (e \in DOMAIN disk_names' <=> e \in DOMAIN names)
             /\ Workspaces' = Workspaces /\ Leaves' = Leaves
  <2>1. /\ DiskMoves /\ UNCHANGED <<names, whole, durable>>
        /\ \A e : Parent(e) = p => (e \in DOMAIN disk_names' <=> e \in DOMAIN names)
    BY <1>5, Flushed
  <2>2. Sound'
    BY <1>1, <2>1, DiskKeeps DEF BInv, Sound
  <2>3. \A e : Lasts(e) => Lasts(e)'
    BY <2>1 DEF DiskMoves, Lasts
  <2>4. Lasts(DatabaseEntry)'
    BY <1>2, <2>1, DatabaseStays
  <2>5. Workspaces' = Workspaces /\ Leaves' = Leaves
    BY <1>3, <2>1, SameEntries
  <2> QED
    BY <2>1, <2>2, <2>3, <2>4, <2>5
<1>6. CASE pc = "promote" /\ pc' = "flush spent" /\ listed = {} /\ FlushDirectory(<<"sha256">>)
  <2>1. \A d \in needs : Lasts(Blob(d))'
    BY <1>4, <1>5, <1>6, Parents DEF Lasts, Blob
  <2>2. TransactionFits'
    BY <1>1, <1>2, <1>3, <1>4, <1>5, <1>6, <2>1
       DEF TransactionFits, UnderWay, Preparing, Making, Capturing, Discharging
  <2> QED
    BY <1>1, <1>2, <1>5, <1>6, <2>2, NotReclaiming, BehindStore
       DEF Opening, Preparing, Making, Capturing, Discharging
<1>7. CASE /\ pc = "flush spent" /\ pc' = "rmdir spent" /\ FlushDirectory(Staging(attempts))
  <2>1. TransactionFits'
    BY <1>1, <1>2, <1>3, <1>4, <1>5, <1>7
       DEF TransactionFits, UnderWay, Preparing, Making, Capturing, Discharging
  <2> QED
    BY <1>1, <1>2, <1>5, <1>7, <2>1, NotReclaiming, BehindStore
       DEF Opening, Preparing, Making, Capturing, Discharging
<1>8. CASE pc = "rmdir spent" /\ pc' = "flush discharged" /\ Unlink(Staging(attempts))
  <2>1. /\ \A d : Staging(attempts) # Blob(d)
        /\ \A t : Staging(attempts) # Work(t)
        /\ Staging(attempts) # DatabaseEntry
    BY EntriesDiffer
  <2>2. /\ DOMAIN names' = DOMAIN names \ {Staging(attempts)} /\ UNCHANGED disk_names
    BY <1>8, Unlinked
  <2>3. Sound'
    BY <1>1, <1>8, <2>1, UnlinkKeeps DEF BInv, Sound
  <2>4. Workspaces' \subseteq Workspaces /\ Leaves' = Leaves
    BY <1>3, <2>1, <2>2 DEF Workspaces, Leaves, Present
  <2>5. Lasts(Work(attempts))' /\ (\A d \in needs : Lasts(Blob(d)))'
    BY <1>3, <1>4, <1>8, <2>1, <2>2 DEF Lasts
  <2>6. TransactionFits'
    BY <1>1, <1>2, <1>3, <1>8, <2>2, <2>4, <2>5
       DEF TransactionFits, UnderWay, Preparing, Making, Capturing, Discharging
  <2> QED
    BY <1>1, <1>2, <1>8, <2>1, <2>3, <2>6, NotReclaiming, BehindStore, DatabaseStays
       DEF Opening, Preparing, Making, Capturing, Discharging
<1>9. CASE pc = "flush discharged" /\ pc' = "commit" /\ FlushDirectory(<<"staging">>)
  <2>1. Gone(Staging(attempts))'
    BY <1>3, <1>4, <1>5, <1>9, Parents DEF Gone
  <2>2. TransactionFits'
    BY <1>1, <1>2, <1>3, <1>4, <1>5, <1>9, <2>1
       DEF TransactionFits, UnderWay, Preparing, Making, Capturing, Discharging
  <2> QED
    BY <1>1, <1>2, <1>5, <1>9, <2>2, NotReclaiming, BehindStore
       DEF Opening, Preparing, Making, Capturing, Discharging
<1> QED
  BY <1>1, <1>6, <1>7, <1>8, <1>9

\* The record is committed once all that it names is on disk.
LEMMA CommitKeeps ==
  ASSUME BInv, CommitPrepared
  PROVE  BInv'
<1>1. /\ pc = "commit" /\ pc' = "active" /\ UNCHANGED tree /\ UNCHANGED database
      /\ refused' = refused /\ listed' = listed /\ attempts' = attempts /\ needs' = needs
      /\ rows' = rows \cup needs /\ active' = attempts
      /\ records' = [t \in DOMAIN records \cup {attempts} |->
                       IF t = attempts THEN needs ELSE records[t]]
  BY DEF CommitPrepared, Goto, Untouched, work
<1>2. UnderWay /\ Lasts(DatabaseEntry)
  BY <1>1, InTransaction DEF Preparing, Discharging
<1>3. /\ DOMAIN records' = DOMAIN records \cup {attempts} /\ records'[attempts] = needs
      /\ \A t \in DOMAIN records : records'[t] = records[t]
  BY <1>1, <1>2 DEF UnderWay
<1>4. /\ Lasts(Work(attempts)) /\ Gone(Staging(attempts))
      /\ \A d \in needs : Lasts(Blob(d))
  BY <1>1 DEF BInv, TransactionFits, Discharging
<1>5. Shape'
  <2>1. records' \in [DOMAIN records' -> SUBSET Digests]
    BY <1>1, <1>2 DEF BInv, Shape, UnderWay
  <2>2. rows' = UNION {records'[t] : t \in DOMAIN records'}
    <3>1. rows = UNION {records[t] : t \in DOMAIN records}
      BY DEF BInv, Shape
    <3>2. ASSUME NEW d PROVE d \in rows' <=> \E t \in DOMAIN records' : d \in records'[t]
      <4>1. d \in rows <=> \E t \in DOMAIN records : d \in records[t]
        BY <3>1
      <4>2. d \in rows' <=> d \in rows \/ d \in needs
        BY <1>1
      <4> QED
        BY <1>2, <1>3, <4>1, <4>2 DEF UnderWay
    <3> QED
      BY <3>2
  <2>3. DOMAIN records' \subseteq 1..attempts' /\ attempts' \in Nat
    BY <1>1, <1>2, <1>3 DEF BInv, Shape, UnderWay
  <2> QED
    BY <1>1, <1>3, <2>1, <2>2, <2>3 DEF BInv, Shape, Entry, tree
<1>6. LeavesFit'
  BY <1>1, <1>4 DEF BInv, LeavesFit, Lasts, tree
<1>7. SlotsFit'
  BY <1>1, <1>3, <1>4 DEF BInv, SlotsFit, Lasts, Gone, tree
<1>8. Workspaces' = Workspaces /\ Leaves' = Leaves
  BY <1>1, SameEntries DEF tree
<1>9. ReclaimFits'
  BY <1>1, <1>2, <1>3, <1>8 DEF ReclaimFits, Emptying, UnderWay
<1> QED
  BY <1>1, <1>2, <1>5, <1>6, <1>7, <1>9, NotPreparing, BehindStore, DatabaseStays
     DEF Sound, Opening, Preparing, Making, Capturing, Discharging

-----------------------------------------------------------------------------
(* Kills, power cuts and write-back.                                       *)

\* A database is fit again for the next lease, whatever was under way.
LEMMA IdleDatabase ==
  ASSUME DatabaseFits, pc' = "idle", content' = content, records' = records,
         /\ Lasts(DatabaseEntry) => Lasts(DatabaseEntry)'
         /\ Gone(SidecarEntry) => Gone(SidecarEntry)'
         /\ private /\ disk_private => private' /\ disk_private'
  PROVE  DatabaseFits'
BY DEF DatabaseFits, Opening

\* A killed process leaves all as it is.
LEMMA KillKeeps ==
  ASSUME BInv, Kill
  PROVE  BInv'
<1>1. /\ pc' = "idle" /\ UNCHANGED tree /\ Steady /\ content' = content
      /\ refused' = refused /\ records' = records
  BY DEF Kill, Lost, Untouched, Steady, store, work
<1>2. private /\ disk_private => private' /\ disk_private'
  <2>1. private' = private /\ disk_private' = disk_private
    BY DEF Kill
  <2> QED
    BY <2>1, Zenon
<1>3. DatabaseFits'
  BY <1>1, <1>2, IdleDatabase DEF BInv, tree, Lasts, Gone
<1>4. Sound'
  BY <1>1, CalmKeeps DEF BInv, Sound
<1> QED
  BY <1>1, <1>3, <1>4, AbroadFits DEF BInv, Sound, NeverInvalid, Abroad

\* A power cut leaves what the disk holds.
LEMMA PowerCutKeeps ==
  ASSUME BInv, PowerCut
  PROVE  BInv'
<1>1. /\ pc' = "idle" /\ LoseUnflushed /\ Steady /\ content' = content
      /\ refused' = refused /\ records' = records
  BY DEF PowerCut, Lost, LoseMode, Steady, store, work
<1>2. private /\ disk_private => private' /\ disk_private'
  <2>1. private' = disk_private /\ disk_private' = disk_private
    BY DEF PowerCut, LoseMode
  <2> QED
    BY <2>1, Zenon
<1>3. /\ Lasts(DatabaseEntry) => Lasts(DatabaseEntry)'
      /\ Gone(SidecarEntry) => Gone(SidecarEntry)'
  <2>1. Len(DatabaseEntry) # 3
    BY DEF DatabaseEntry
  <2> QED
    BY <1>1, <2>1, Cut DEF Lasts, Gone
<1>4. DatabaseFits'
  BY <1>1, <1>2, <1>3, IdleDatabase DEF BInv
<1>5. Sound'
  BY <1>1, CutKeeps DEF BInv, Sound
<1> QED
  BY <1>1, <1>4, <1>5, AbroadFits DEF BInv, Sound, NeverInvalid, Abroad

(* What the kernel writes back is what was there to be written.            *)
LEMMA BackgroundKeeps ==
  ASSUME BInv, Background
  PROVE  BInv'
<1>1. /\ Steady /\ UNCHANGED <<pc, refused, listed, content>>
      /\ \/ \E e : WriteBackName(e) /\ UNCHANGED database
         \/ \E i : FlushFile(i) /\ UNCHANGED database
         \/ WriteBackMode /\ UNCHANGED tree
  BY DEF Background, WriteBack, WriteBackBytes, WriteBackMode, Untouched, Steady, work, database
<1>2. \/ DiskMoves /\ UNCHANGED <<names, whole, durable>> /\ UNCHANGED database
      \/ \E i : FlushFile(i) /\ UNCHANGED database
      \/ WriteBackMode /\ UNCHANGED tree
  BY <1>1, WrittenBack
<1>3. /\ \A e : e \in DOMAIN disk_names' => e \in DOMAIN disk_names \/ e \in DOMAIN names
      /\ \A e : Lasts(e) => Lasts(e)'
      /\ \A e : Gone(e) => Gone(e)'
      /\ UNCHANGED names /\ durable \subseteq durable' /\ whole' = whole
  BY <1>2 DEF DiskMoves, FlushFile, tree, Lasts, Gone
<1>4. Sound'
  BY <1>1, <1>2, DiskKeeps, BytesKeep, CalmKeeps DEF BInv, Sound
<1>5. /\ private => private'
      /\ private /\ disk_private => disk_private'
  <2>1. CASE UNCHANGED database
    <3>1. private' = private /\ disk_private' = disk_private
      BY <2>1 DEF database
    <3> QED
      BY <3>1, Zenon
  <2>2. CASE WriteBackMode
    <3>1. private' = private /\ disk_private' = private
      BY <2>2 DEF WriteBackMode
    <3> QED
      BY <3>1, Zenon
  <2> QED
    BY <1>2, <2>1, <2>2
<1>6. DatabaseFits'
  BY <1>1, <1>3, <1>5 DEF BInv, DatabaseFits, Steady, store, Opening
<1>7. /\ DOMAIN records' = DOMAIN records /\ attempts' = attempts /\ rows' = rows
      /\ needs' = needs /\ records' = records /\ listed' = listed /\ Orphan' = Orphan
      /\ Workspaces' = Workspaces /\ Leaves' = Leaves
      /\ \A t : Staging(t)' = Staging(t) /\ Work(t)' = Work(t)
      /\ \A t, d : Staged(t, d)' = Staged(t, d)
      /\ \A d : Sink(d)' = Sink(d) /\ Blob(d)' = Blob(d)
  BY <1>1, <1>3, SameEntries, OrphanSame DEF Steady, store, Staging, Work, Staged, Sink, Blob
<1>8. ReclaimFits'
  BY <1>1, <1>3, <1>7 DEF BInv, ReclaimFits
<1>9. TransactionFits'
  <2>1. ASSUME NEW d, Secured(d) PROVE Secured(d)'
    BY <1>3, <1>7, <2>1 DEF Secured
  <2> QED
    BY <1>1, <1>3, <1>7, <2>1 DEF BInv, TransactionFits
<1> QED
  BY <1>1, <1>4, <1>6, <1>8, <1>9 DEF BInv, Sound, NeverInvalid

-----------------------------------------------------------------------------
(* The theorems.                                                           *)

\* An empty metadata root.
LEMMA InitFits == BInit => BInv
<1> SUFFICES ASSUME BInit PROVE BInv
  OBVIOUS
<1>1. DOMAIN names = {} /\ DOMAIN disk_names = {} /\ DOMAIN records = {}
  BY DEF BInit, DInit
<1>2. Shape
  BY <1>1 DEF BInit, DInit, Shape
<1>3. DatabaseFits
  BY <1>1 DEF BInit, DInit, DatabaseFits, Lasts, Gone, Opening
<1>4. LeavesFit /\ SlotsFit /\ NeverInvalid
  BY <1>1 DEF BInit, DInit, LeavesFit, SlotsFit, NeverInvalid
<1>5. ReclaimFits /\ TransactionFits
  BY DEF BInit, DInit, ReclaimFits, TransactionFits, Emptying, Making, Capturing, Discharging,
         Preparing
<1> QED
  BY <1>2, <1>3, <1>4, <1>5 DEF BInv

\* The invariant is inductive.
LEMMA StepsKeep == BInv /\ [BNext]_bvars => BInv'
<1> SUFFICES ASSUME BInv, [BNext]_bvars PROVE BInv'
  OBVIOUS
<1>1. CASE Lease
  <2>1. CASE Open
    BY <2>1, OpenKeeps
  <2>2. CASE Reclaim
    BY <2>2, ListWorkspacesKeeps, NextWorkspaceKeeps, EmptyStagingKeeps, FlushesKeep,
       RemoveStagingKeeps, RemoveWorkKeeps, FlushWorkKeeps, ListBlobsKeeps, RemoveBlobKeeps,
       FlushRemovedBlobKeeps
       DEF Reclaim, RemoveWorkspace
  <2>3. CASE Resolve
    BY <2>3, RecoveryKeeps
  <2> QED
    BY <1>1, <2>1, <2>2, <2>3 DEF Lease
<1>2. CASE Transaction
  <2>1. CASE CreateWorkspace
    BY <2>1, CreateWorkspaceKeeps
  <2>2. CASE Capture
    BY <2>2, OpenSinkKeeps, SinkKeeps, CaptureRefusesKeeps DEF Capture
  <2>3. CASE Prepare
    BY <2>3, PreflightKeeps, PublishKeeps, DischargeKeeps, CommitKeeps
       DEF Prepare, PromoteStaging
  <2> QED
    BY <1>2, <2>1, <2>2, <2>3 DEF Transaction
<1>3. CASE OpenBlob \/ Detach \/ Release \/ \E S \in SUBSET Digests : Admit(S)
  BY <1>3, RecoveryKeeps, ReleaseKeeps, AdmitKeeps
<1>4. CASE Kill \/ PowerCut \/ Background
  BY <1>4, KillKeeps, PowerCutKeeps, BackgroundKeeps
<1>5. CASE UNCHANGED bvars
  <2>1. /\ UNCHANGED tree /\ Steady /\ UNCHANGED <<pc, refused, listed, content>>
        /\ records' = records
    BY <1>5 DEF bvars, dvars, database, store, work, Steady
  <2>2. private' = private /\ disk_private' = disk_private
    BY <1>5 DEF bvars, dvars, database
  <2>3. (private => private') /\ (disk_private => disk_private')
    BY <2>2, Zenon
  <2>4. Sound'
    BY <2>1, CalmKeeps DEF BInv, Sound
  <2>5. DatabaseFits'
    BY <2>1, <2>3 DEF BInv, DatabaseFits, Opening, tree, Lasts, Gone
  <2>6. Workspaces' = Workspaces /\ Leaves' = Leaves /\ Orphan' = Orphan
    BY <2>1, SameEntries, OrphanSame DEF tree, Steady
  <2>7. ReclaimFits'
    BY <2>1, <2>6 DEF BInv, ReclaimFits, Steady, store, tree, Staging, Work
  <2>8. TransactionFits'
    BY <2>1, <2>6 DEF BInv, TransactionFits, Steady, store, tree, Secured, Staging, Work,
                      Staged, Sink, Blob, Lasts, Gone
  <2> QED
    BY <2>1, <2>4, <2>5, <2>7, <2>8 DEF BInv, Sound, NeverInvalid
<1> QED
  BY <1>1, <1>2, <1>3, <1>4, <1>5 DEF BNext

(* Every reachable state satisfies BInv: the database is on disk before it *)
(* has bytes, a leaf has its bytes before its name, a record its leaves    *)
(* and its work directory before it is committed, and reclamation has a    *)
(* list of everything that no record names.                                *)
THEOREM InvariantHolds == BSpec => []BInv
<1> QED
  BY InitFits, StepsKeep, PTL DEF BSpec

(* A record is never without its bytes, in memory or after a power cut.    *)
THEOREM RecordsHold == BSpec => []RecordsSurvive
<1>1. BInv => RecordsSurvive
  <2> SUFFICES ASSUME BInv PROVE RecordsSurvive
    OBVIOUS
  <2>1. ASSUME NEW d \in rows PROVE Readable(d) /\ OnDisk(d)
    BY RowsReadable DEF BInv, LeavesFit, Lasts, OnDisk
  <2>2. records # <<>> => DOMAIN records # {}
    <3> SUFFICES ASSUME DOMAIN records = {} PROVE records = <<>>
      OBVIOUS
    <3>1. records \in [1..0 -> SUBSET Digests]
      BY DEF BInv, Shape
    <3>2. records \in Seq(SUBSET Digests)
      BY <3>1
    <3>3. Len(records) = 0
      BY <3>1, <3>2
    <3> QED
      BY <3>2, <3>3, EmptySeq
  <2> QED
    BY <2>1, <2>2 DEF BInv, DatabaseFits, RecordsSurvive, Lasts
<1> QED
  BY <1>1, InvariantHolds, PTL

(* No lease meets a store it has to refuse.                                *)
THEOREM NoneRefused == BSpec => []NeverInvalid
<1>1. BInv => NeverInvalid
  BY DEF BInv
<1> QED
  BY <1>1, InvariantHolds, PTL

(* The active transaction keeps its work directory and has no staging.     *)
THEOREM SlotHolds == BSpec => []ActiveHasItsSlot
<1>1. BInv => ActiveHasItsSlot
  BY DEF BInv, Shape, SlotsFit, Lasts, Gone, ActiveHasItsSlot
<1> QED
  BY <1>1, InvariantHolds, PTL

(* What a lease finds behind reclamation is what the records name.         *)
THEOREM NothingIsStranded == BSpec => []NothingStranded
<1>1. BInv => NothingStranded
  <2> SUFFICES ASSUME BInv, pc = "ready"
               PROVE  /\ Leaves = rows /\ rows = UNION {records[t] : t \in DOMAIN records}
                      /\ Workspaces = DOMAIN records
                      /\ \A t \in Workspaces : ~Present(Staging(t))
    BY DEF NothingStranded
  <2>1. rows \subseteq Leaves
    BY RowsReadable DEF Readable, Verified, Leaves
  <2>2. Leaves \subseteq rows /\ Workspaces \subseteq DOMAIN records
    BY DEF BInv, ReclaimFits
  <2>3. DOMAIN records \subseteq Workspaces
    BY DEF BInv, Shape, SlotsFit, Lasts, Workspaces, Present
  <2>4. \A t \in DOMAIN records : ~Present(Staging(t))
    BY DEF BInv, SlotsFit, Gone, Present
  <2> QED
    BY <2>1, <2>2, <2>3, <2>4 DEF BInv, Shape
<1> QED
  BY <1>1, InvariantHolds, PTL
=============================================================================
