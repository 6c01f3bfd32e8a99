--------------------------- MODULE StoreDatabase ---------------------------
(***************************************************************************)
(* store/connection.py: how a lease creates atoms.db, publishes its entry, *)
(* gives it its profile and schema, and opens it again in whatever state a *)
(* kill or a power cut left it.  SQLite is external: a COMMIT is atomic    *)
(* and durable, the directory entries are not its business.                *)
(***************************************************************************)
EXTENDS MetadataTree

VARIABLES
  pc,                     \* what the holder of the project lock does next
  content,                \* of atoms.db: "empty", "wal", "complete"
  private, disk_private,  \* its mode is the exact one; and on disk
  refused                 \* a lease met a store it calls invalid

database == <<content, private, disk_private>>
dvars == <<tree, database, pc, refused>>

Opening == {"stat", "create", "repair", "publish", "flush file",
            "flush root", "connect", "profile", "schema", "integrity"}

DInit ==
  /\ names = <<>> /\ disk_names = <<>> /\ whole = {} /\ durable = {}
  /\ content = "empty" /\ private = FALSE /\ disk_private = FALSE
  /\ pc = "idle" /\ refused = FALSE

Goto(next) == pc' = next /\ UNCHANGED refused

\* MetadataStoreInvalid: the lease ends, and so will the next.
Refuse == pc' = "idle" /\ refused' = TRUE

Acquire == pc = "idle" /\ Goto("stat") /\ Untouched /\ UNCHANGED database

\* Mutant: an empty database is opened as it is.
BugStat ==
  /\ pc = "stat"
  /\ \/ ~Present(DatabaseEntry) /\ ~Present(SidecarEntry) /\ Goto("create")
     \/ ~Present(DatabaseEntry) /\ Present(SidecarEntry) /\ Refuse
     \/ Present(DatabaseEntry) /\ Goto("connect")
  /\ Untouched /\ UNCHANGED database

(* open_store, with the _preflight_entries of create_store and of          *)
(* open_database.                                                          *)
Stat ==
  /\ pc = "stat"
  /\ \/ ~Present(DatabaseEntry) /\ ~Present(SidecarEntry) /\ Goto("create")
     \/ ~Present(DatabaseEntry) /\ Present(SidecarEntry) /\ Refuse
     \/ Present(DatabaseEntry) /\ Goto(IF content = "empty" THEN "repair" ELSE "connect")
  /\ Untouched /\ UNCHANGED database

\* The umask may take bits off the mode.
CreateDatabase ==
  /\ pc = "create" /\ Link(DatabaseEntry, Database) /\ content' = "empty"
  /\ private' \in BOOLEAN /\ disk_private' = private'
  /\ Goto("publish")

(* repair_unpublished: the mode by way of /proc/self/fd, then published.   *)
RepairMode ==
  /\ pc = "repair" /\ private' = TRUE /\ Goto("publish")
  /\ Untouched /\ UNCHANGED <<content, disk_private>>

(* publish_entry.                                                          *)
SetMode ==
  /\ pc = "publish" /\ private' = TRUE /\ Goto("flush file")
  /\ Untouched /\ UNCHANGED <<content, disk_private>>

FlushDatabase ==
  /\ pc = "flush file" /\ disk_private' = private /\ Goto("flush root")
  /\ Untouched /\ UNCHANGED <<content, private>>

PublishEntry ==
  /\ pc = "flush root" /\ FlushDirectory(<<"root">>) /\ Goto("connect")
  /\ UNCHANGED database

(* _connect and classify, from reads alone.  SQLite cannot open a file     *)
(* whose mode was reduced, and puts its sidecars next to the others.       *)
Connect ==
  /\ pc = "connect"
  /\ IF ~private THEN Refuse /\ Untouched
     ELSE /\ Goto(IF content = "complete" THEN "integrity" ELSE "profile")
          /\ IF Present(SidecarEntry) THEN Untouched ELSE Link(SidecarEntry, Sidecar)
  /\ UNCHANGED database

(* apply_persistent_profile: the WAL transition writes the first page.     *)
ApplyProfile ==
  /\ pc = "profile" /\ content' = "wal" /\ Goto("schema")
  /\ Untouched /\ UNCHANGED <<private, disk_private>>

(* initialize_schema: one transaction.                                     *)
InitializeSchema ==
  /\ pc = "schema" /\ content' = "complete" /\ Goto("reclaim")
  /\ Untouched /\ UNCHANGED <<private, disk_private>>

(* A complete store must be in WAL and pass its integrity checks.          *)
CheckIntegrity ==
  /\ pc = "integrity" /\ content = "complete" /\ Goto("reclaim")
  /\ Untouched /\ UNCHANGED database

OpenStore ==
  \/ Acquire \/ Stat \/ CreateDatabase \/ RepairMode \/ SetMode \/ FlushDatabase
  \/ PublishEntry \/ Connect \/ ApplyProfile \/ InitializeSchema \/ CheckIntegrity

(* Store.close: the last connection takes the sidecars away.               *)
CloseStore ==
  /\ Goto("idle") /\ UNCHANGED database
  /\ IF Present(SidecarEntry) THEN Unlink(SidecarEntry) ELSE Untouched

LoseMode == private' = disk_private /\ UNCHANGED <<content, disk_private>>

WriteBackMode ==
  disk_private # private /\ disk_private' = private /\ UNCHANGED <<content, private>>
=============================================================================
