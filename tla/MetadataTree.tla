---------------------------- MODULE MetadataTree ----------------------------
(***************************************************************************)
(* The metadata root as directory entries and files, and what a power cut  *)
(* leaves of them: each entry and each file's bytes persist on their own,  *)
(* at any moment after they change, for certain when the directory, or the *)
(* file, is flushed (python/tests/persistence_model.py).                   *)
(*                                                                         *)
(* An entry is the directory it is in and its name there: <<"root",        *)
(* "atoms.db">>, <<"staging", t>>, <<"work", t>>, <<"sha256", d>>, and     *)
(* <<"staging", t, d>> for a file of the directory staging/t.              *)
(***************************************************************************)
EXTENDS Naturals, Sequences, Functions

VARIABLES
  names,                  \* entry -> inode, as the running kernel shows it
  disk_names,             \* the same after a power cut now
  whole,                  \* files that hold all the bytes they are meant to
  durable                 \* files that still do after a power cut

tree == <<names, disk_names, whole, durable>>

\* The inode of a directory (which one, its entry says) and of SQLite's files.
Directory == <<>>
Database == <<"atoms.db">>
Sidecar == <<"atoms.db-wal">>

DatabaseEntry == <<"root", "atoms.db">>
SidecarEntry == <<"root", "atoms.db-wal">>

Parent(e) == SubSeq(e, 1, Len(e) - 1)
Children(p) == {e \in DOMAIN names : Parent(e) = p}
Present(e) == e \in DOMAIN names

With(f, e, i) == [x \in DOMAIN f \cup {e} |-> IF x = e THEN i ELSE f[x]]
Without(f, e) == Restrict(f, DOMAIN f \ {e})

\* An entry of a directory that is gone is gone with it.
Reachable(f) ==
  Restrict(f, {e \in DOMAIN f : Len(e) = 3 => Parent(e) \in DOMAIN f})

Settle(f, e) == IF Present(e) THEN With(f, e, names[e]) ELSE Without(f, e)

-----------------------------------------------------------------------------
(* System calls; the kernel answers from memory.                           *)

Link(e, i) ==
  /\ ~Present(e) /\ names' = With(names, e, i)
  /\ UNCHANGED <<disk_names, whole, durable>>

Unlink(e) ==
  /\ Present(e) /\ names' = Without(names, e)
  /\ UNCHANGED <<disk_names, whole, durable>>

\* rmdir: the directory must be empty.
RemoveDirectory(e) == Children(e) = {} /\ Unlink(e)

Rename(e, f) ==
  /\ Present(e) /\ ~Present(f)
  /\ names' = With(Without(names, e), f, names[e])
  /\ UNCHANGED <<disk_names, whole, durable>>

Fill(i) == whole' = whole \cup {i} /\ UNCHANGED <<names, disk_names, durable>>

FlushFile(i) ==
  /\ durable' = durable \cup ({i} \cap whole)
  /\ UNCHANGED <<names, disk_names, whole>>

FlushDirectory(p) ==
  /\ disk_names' =
       LET other == {e \in DOMAIN disk_names : Parent(e) # p} IN
       [e \in other \cup Children(p) |->
          IF e \in other THEN disk_names[e] ELSE names[e]]
  /\ UNCHANGED <<names, whole, durable>>

Untouched == UNCHANGED tree

-----------------------------------------------------------------------------
(* The environment.                                                        *)

LoseUnflushed ==
  /\ names' = Reachable(disk_names) /\ disk_names' = Reachable(disk_names)
  /\ whole' = durable /\ UNCHANGED durable

WriteBackName(e) ==
  /\ disk_names' = Settle(disk_names, e) /\ disk_names' # disk_names
  /\ UNCHANGED <<names, whole, durable>>

WriteBackBytes(i) == i \in whole \ durable /\ FlushFile(i)

WriteBack ==
  \/ \E e \in DOMAIN names \cup DOMAIN disk_names : WriteBackName(e)
  \/ \E i \in whole : WriteBackBytes(i)
=============================================================================
