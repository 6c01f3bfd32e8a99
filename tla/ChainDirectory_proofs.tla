------------------------- MODULE ChainDirectory_proofs -------------------------
(***************************************************************************)
(* Proofs, for every set of entries and every number of kills and power    *)
(* cuts, of the safety properties in ChainProperties.                      *)
(***************************************************************************)
EXTENDS ChainProperties, TLAPS, SequenceTheorems, WellFoundedInduction

-----------------------------------------------------------------------------
(* The invariant, part by part.                                            *)

IsTop(e, S) == e \in S /\ \A f \in S : Len(f) <= Len(e)

\* The entries that are published by name on disk.
DiskPublished == DOMAIN disk_names \ {Stage}

\* Where the holder has validated the chain, and relies on it.
Outside == {"idle", "resolve"}
Appending == {"create", "write", "flush", "publish"}
Cleaned == {"removed", "finished", "reconcile", "create", "published", "bind", "return", "ready"}
Before == {"remove", "removed", "finish"} \cup Appending
After == {"published", "finished"}

New == Append(validated, entry)

\* Entries have their parts from the three sources, each at most once.
Sources == {Genesis} \cup demanded \cup Intents

Entries ==
  \A e \in Published :
    /\ e \in Seq(Bodies) /\ Len(e) > 0
    /\ \A k \in 1..Len(e) : e[k] \in Sources
    /\ \A j, k \in 1..Len(e) : e[j] = e[k] => j = k

Files ==
  /\ bytes \in Seq(Seq(Bodies)) /\ disk_bytes \in Seq(Seq(Bodies))
  /\ Len(disk_bytes) = Len(bytes)
  /\ \A n \in DOMAIN names : names[n] \in 1..Len(bytes)
  /\ \A n \in DOMAIN disk_names : disk_names[n] \in 1..Len(bytes)
  /\ \E most \in Nat : \A e \in Published : Len(e) <= most
  /\ \A e \in DiskPublished : e \in Published /\ disk_names[e] = names[e]

Record ==
  /\ demanded \subseteq Demands /\ owed \in demanded \cup {Nobody}
  /\ cuts \in Nat /\ relied # {}

Chain ==
  /\ pc \notin Outside => ValidChain
  /\ cuts = 0 => relied \subseteq Published
  /\ (cuts = 0 \/ ~neglected) => ValidChain

\* What was not neglected is on disk, but for the name published last.
OnDiskUnlessNeglected ==
  ~neglected =>
    /\ relied \subseteq DiskPublished
    /\ \A e \in Published : disk_bytes[names[e]] = e
    /\ \A e, f \in Published : Len(e) < Len(f) => e \in DOMAIN disk_names
    /\ pc \notin Outside \cup After => Published \subseteq DOMAIN disk_names

\* What the holder knows of its own work.
Fresh == entry \in demanded \cup Intents /\ \A k \in 1..Len(validated) : validated[k] # entry

Work ==
  /\ pc \in {"remove", "finish", "write", "flush", "publish"} => Staged
  /\ pc \in Cleaned => ~Staged
  /\ pc \in Before => IsTop(validated, Published)
  /\ pc \in {"remove", "removed", "reconcile", "finish", "finished"} => entry = owed
  /\ pc = "reconcile" =>
       IsTop(validated, Published) \/ New \in Found
  /\ pc \in Appending \cup {"finish"} => Fresh
  /\ pc \in After => IsTop(New, Published)
  /\ pc \in After \cup {"return"} => New \in Published
  /\ pc = "finished" => New \in Found
  /\ pc \in {"write", "flush", "publish"} => \A e \in Published : names[e] # names[Stage]
  /\ pc \in {"finish", "flush", "publish"} => bytes[names[Stage]] = New
  /\ pc = "publish" => disk_bytes[names[Stage]] = New

CInv == Entries /\ Files /\ Record /\ Chain /\ OnDiskUnlessNeglected /\ Work

-----------------------------------------------------------------------------
(* Sequences of entries.                                                   *)

\* Taking the last element off an appended sequence gives the sequence back.
LEMMA PreviousOfAppend ==
  ASSUME NEW S, NEW v \in Seq(S), NEW x \in S
  PROVE  /\ Append(v, x) \in Seq(S) /\ Len(Append(v, x)) = Len(v) + 1
         /\ \A k \in 1..Len(v) : Append(v, x)[k] = v[k]
         /\ Append(v, x)[Len(v) + 1] = x
         /\ Previous(Append(v, x)) = v
<1> DEFINE a == Append(v, x)
           r == SubSeq(a, 1, Len(v))
<1>1. /\ a \in Seq(S) /\ Len(a) = Len(v) + 1 /\ Len(v) \in Nat
      /\ \A k \in 1..Len(v) : a[k] = v[k]
      /\ a[Len(v) + 1] = x
  BY AppendProperties, LenProperties
<1> HIDE DEF a
<1>2. r \in Seq(S) /\ Len(r) = Len(v) /\ \A k \in 1..Len(v) : r[k] = a[k]
  BY <1>1, SubSeqProperties
<1> HIDE DEF r
<1>3. r = v
  BY <1>1, <1>2, SeqEqual
<1>4. Previous(a) = r
  BY <1>1 DEF Previous, r
<1> QED
  BY <1>1, <1>3, <1>4 DEF a

\* A set of positions that is not empty has a greatest one.
LEMMA Greatest ==
  ASSUME NEW n \in Nat, NEW K \in SUBSET (0..n), K # {}
  PROVE  \E k \in K : \A j \in K : j <= k
<1> DEFINE R == {ss \in Nat \X Nat : ss[1] < ss[2]}
           M == {m \in Nat : n - m \in K}
<1>1. IsWellFoundedOn(R, Nat)
  BY NatLessThanWellFounded DEF OpToRel
<1>2. M # {}
  <2>1. PICK k \in K : TRUE
    OBVIOUS
  <2>2. n - k \in Nat /\ n - (n - k) = k
    BY <2>1
  <2> QED
    BY <2>1, <2>2
<1>3. M \subseteq Nat
  OBVIOUS
<1>4. PICK m \in M : \A y \in M : ~(<<y, m>> \in R)
  BY <1>1, <1>2, <1>3, WFMin
<1>5. n - m \in K
  BY <1>4
<1>6. ASSUME NEW j \in K PROVE j <= n - m
  <2>1. n - j \in M
    <3>1. n - j \in Nat /\ n - (n - j) = j
      OBVIOUS
    <3> QED
      BY <3>1
  <2>2. ~(n - j < m)
    BY <1>4, <2>1
  <2> QED
    BY <2>1, <2>2
<1> QED
  BY <1>5, <1>6

\* Every beginning of an entry of a linear chain is an entry of it.
LEMMA BeginningsIn ==
  ASSUME NEW S \in SUBSET Seq(Bodies), Linear(S), NEW e \in S, NEW k \in 1..Len(e)
  PROVE  SubSeq(e, 1, k) \in S
<1> DEFINE K == {j \in 1..Len(e) : SubSeq(e, 1, j) \notin S}
<1> SUFFICES ASSUME K # {} PROVE FALSE
  OBVIOUS
<1>1. e \in Seq(Bodies) /\ Len(e) \in Nat
  BY LenProperties
<1>2. K \in SUBSET (0..Len(e))
  BY <1>1
<1>3. PICK j \in K : \A i \in K : i <= j
  BY <1>1, <1>2, Greatest
<1>4. SubSeq(e, 1, Len(e)) = e
  <2>1. SubSeq(e, 1, Len(e)) \in Seq(Bodies) /\ Len(SubSeq(e, 1, Len(e))) = Len(e)
        /\ \A i \in 1..Len(e) : SubSeq(e, 1, Len(e))[i] = e[i]
    BY <1>1, SubSeqProperties
  <2> QED
    BY <1>1, <2>1, SeqEqual
<1>5. j \in 1..Len(e) /\ j < Len(e)
  <2>1. j \in 1..Len(e) /\ SubSeq(e, 1, j) \notin S
    BY <1>3
  <2>2. j # Len(e)
    BY <1>4, <2>1
  <2> QED
    BY <1>1, <2>1, <2>2
<1> DEFINE f == SubSeq(e, 1, j + 1)
<1>6. f \in S
  BY <1>1, <1>3, <1>5
<1>7. f \in Seq(Bodies) /\ Len(f) = j + 1 /\ \A i \in 1..(j + 1) : f[i] = e[i]
  BY <1>1, <1>5, SubSeqProperties
<1> HIDE DEF f
<1>8. Previous(f) \in S /\ Previous(f) = SubSeq(f, 1, j)
  BY <1>5, <1>6, <1>7 DEF Linear, Previous
<1>9. SubSeq(f, 1, j) = SubSeq(e, 1, j)
  <2>1. SubSeq(f, 1, j) \in Seq(Bodies) /\ Len(SubSeq(f, 1, j)) = j
        /\ \A i \in 1..j : SubSeq(f, 1, j)[i] = f[i]
    BY <1>5, <1>7, SubSeqProperties
  <2>2. SubSeq(e, 1, j) \in Seq(Bodies) /\ Len(SubSeq(e, 1, j)) = j
        /\ \A i \in 1..j : SubSeq(e, 1, j)[i] = e[i]
    BY <1>1, <1>5, SubSeqProperties
  <2>3. \A i \in 1..j : f[i] = e[i]
    BY <1>5, <1>7
  <2> HIDE DEF f
  <2> QED
    BY <2>1, <2>2, <2>3, SeqEqual
<1> QED
  BY <1>3, <1>8, <1>9

\* A linear chain with a successor of its tip is linear.
LEMMA Extended ==
  ASSUME NEW S \in SUBSET Seq(Bodies), Linear(S), NEW v, IsTop(v, S), NEW x \in Bodies
  PROVE  /\ Append(v, x) \notin S /\ Append(v, x) # <<>>
         /\ Linear(S \cup {Append(v, x)})
         /\ IsTop(Append(v, x), S \cup {Append(v, x)})
<1> DEFINE a == Append(v, x)
<1>1. v \in S /\ v \in Seq(Bodies) /\ \A f \in S : Len(f) <= Len(v) /\ Len(f) \in Nat
  BY LenProperties DEF IsTop
<1>2. a \in Seq(Bodies) /\ Len(a) = Len(v) + 1 /\ Previous(a) = v
  BY <1>1, PreviousOfAppend
<1> HIDE DEF a
<1>3. a \notin S /\ a # <<>>
  BY <1>1, <1>2, EmptySeq
<1>4. \A e \in S \cup {a} : Len(e) > 1 => Previous(e) \in S \cup {a}
  BY <1>1, <1>2 DEF Linear
<1>5. \A e, f \in S \cup {a} : Len(e) = Len(f) => e = f
  BY <1>1, <1>2 DEF Linear
<1>6. IsTop(a, S \cup {a})
  BY <1>1, <1>2 DEF IsTop
<1> QED
  BY <1>3, <1>4, <1>5, <1>6 DEF Linear, a

\* Part of a linear chain that keeps every predecessor is linear.
LEMMA Beginning ==
  ASSUME NEW S \in SUBSET Seq(Bodies), Linear(S), NEW T \in SUBSET S,
         \A e, f \in S : f \in T /\ Len(e) < Len(f) => e \in T
  PROVE  Linear(T)
<1>1. ASSUME NEW e \in T, Len(e) > 1 PROVE Previous(e) \in T
  <2>1. e \in Seq(Bodies) /\ Previous(e) \in S
    BY <1>1 DEF Linear
  <2>2. Len(Previous(e)) = Len(e) - 1 /\ Len(e) \in Nat
    BY <1>1, <2>1, SubSeqProperties, LenProperties DEF Previous
  <2> QED
    BY <2>1, <2>2
<1> QED
  BY <1>1 DEF Linear

-----------------------------------------------------------------------------
(* What the operators of the directory say in a state of the invariant.    *)

\* The published entries are sequences of entries, and never the staging leaf.
LEMMA PublishedEntries ==
  ASSUME Entries
  PROVE  Published \in SUBSET Seq(Bodies) /\ Stage \notin Published
BY DEF Entries, Published

\* The tip is an entry of greatest length.
LEMMA TipIsTop ==
  ASSUME Entries, Files, ValidChain
  PROVE  IsTop(Tip, Published) /\ Tip \in Seq(Bodies)
<1> DEFINE K == {Len(e) : e \in Published}
<1>1. PICK most \in Nat : \A e \in Published : Len(e) <= most
  BY DEF Files
<1>2. \A e \in Published : e \in Seq(Bodies) /\ Len(e) \in Nat
  BY LenProperties DEF Entries
<1>3. K \in SUBSET (0..most)
  <2> SUFFICES ASSUME NEW e \in Published PROVE Len(e) \in 0..most
    OBVIOUS
  <2> QED
    BY <1>1, <1>2
<1>0. K # {}
  BY DEF ValidChain
<1>4. PICK k \in K : \A j \in K : j <= k
  BY <1>0, <1>1, <1>3, Greatest
<1>5. \E e \in Published : \A f \in Published : Len(f) <= Len(e)
  BY <1>4
<1> QED
  BY <1>2, <1>5 DEF Tip, IsTop

\* There is only one of that length.
LEMMA TopIsTip ==
  ASSUME Entries, Files, ValidChain, NEW v, IsTop(v, Published)
  PROVE  v = Tip
<1>1. /\ Tip \in Published /\ v \in Published
      /\ Len(Tip) <= Len(v) /\ Len(v) <= Len(Tip)
  BY TipIsTop DEF IsTop
<1>2. Len(Tip) \in Nat /\ Len(v) \in Nat
  BY <1>1, LenProperties DEF Entries
<1>3. Len(Tip) = Len(v)
  BY <1>1, <1>2
<1> QED
  BY <1>1, <1>3 DEF ValidChain, Linear

\* An entry that no published entry ends with is nowhere in the tip.
LEMMA NotFoundNotInTip ==
  ASSUME Entries, Files, ValidChain, Found = {}
  PROVE  \A k \in 1..Len(Tip) : Tip[k] # owed
<1> SUFFICES ASSUME NEW k \in 1..Len(Tip), Tip[k] = owed PROVE FALSE
  OBVIOUS
<1> DEFINE b == SubSeq(Tip, 1, k)
<1>1. Tip \in Published /\ Tip \in Seq(Bodies) /\ Len(Tip) \in Nat
  BY TipIsTop, LenProperties DEF IsTop
<1>2. b \in Published
  BY <1>1, BeginningsIn, PublishedEntries DEF ValidChain
<1>3. Len(b) = k /\ b[k] = Tip[k]
  BY <1>1, SubSeqProperties
<1> QED
  BY <1>2, <1>3 DEF Found

\* The new entry is one, and has its last part at its end.
LEMMA NewEntry ==
  ASSUME Entries, IsTop(validated, Published), entry \in Bodies
  PROVE  /\ validated \in Seq(Bodies) /\ New \in Seq(Bodies)
         /\ Len(New) = Len(validated) + 1 /\ Len(validated) \in Nat
         /\ New[Len(New)] = entry /\ New # Stage
         /\ \A k \in 1..Len(validated) : New[k] = validated[k]
<1>1. validated \in Seq(Bodies)
  BY DEF Entries, IsTop
<1>2. Len(validated) \in Nat
  BY <1>1, LenProperties
<1>3. /\ New \in Seq(Bodies) /\ Len(New) = Len(validated) + 1
      /\ \A k \in 1..Len(validated) : New[k] = validated[k]
      /\ New[Len(validated) + 1] = entry
  BY <1>1, PreviousOfAppend DEF New
<1>4. New # Stage
  BY <1>2, <1>3, EmptySeq DEF Stage
<1>5. New[Len(New)] = entry
  BY <1>3, Zenon
<1> QED
  BY <1>1, <1>2, <1>3, <1>4, <1>5

\* The sources of entries are entries, and nobody is not one of them.
LEMMA SourcesFit ==
  ASSUME Record
  PROVE  /\ Sources \subseteq Bodies
         /\ owed # Nobody => owed \in Sources \ {Genesis}
         /\ Nobody \notin demanded \cup Intents
BY EntryAssumption DEF Record, Sources, Bodies

-----------------------------------------------------------------------------
(* Steps that leave the directory alone.                                   *)

\* Where nothing in the directory changes, neither does what is in it.
LEMMA Still ==
  ASSUME Untouched
  PROVE  /\ Published' = Published /\ DiskPublished' = DiskPublished
         /\ (ValidChain <=> ValidChain') /\ Tip' = Tip /\ (Staged <=> Staged')
         /\ bytes' = bytes /\ names' = names /\ disk_names' = disk_names
         /\ disk_bytes' = disk_bytes
BY DEF Untouched, directory, persisted, Published, DiskPublished, ValidChain, Leaf, Tip, Staged

\* The entries and files stay as they are, also when the record demands more.
LEMMA StillFits ==
  ASSUME Entries, Files, Untouched, demanded \subseteq demanded'
  PROVE  Entries' /\ Files'
<1>1. Entries'
  BY Still DEF Entries, Sources
<1>2. Files'
  BY Still DEF Files
<1> QED
  BY <1>1, <1>2

\* Outside a lease the holder has no work.
LEMMA NoWork ==
  ASSUME pc' \in Outside
  PROVE  Work'
BY DEF Work, Outside, Appending, Cleaned, Before, After

\* A step that moves the program counter keeps the parts on directory and disk.
LEMMA StillKeeps ==
  ASSUME CInv, Untouched, UNCHANGED record, neglected => neglected', cuts' = cuts,
         pc' \notin Outside => ValidChain,
         ~neglected' => \/ pc' \in Outside \cup After
                        \/ pc \notin Outside \cup After
                        \/ Published \subseteq DOMAIN disk_names
  PROVE  Entries' /\ Files' /\ Record' /\ Chain' /\ OnDiskUnlessNeglected'
<1> USE DEF CInv, record
<1>1. Entries' /\ Files'
  BY StillFits
<1>2. Record'
  BY DEF Record
<1>3. Chain'
  BY Still DEF Chain
<1>4. OnDiskUnlessNeglected'
  BY Still DEF OnDiskUnlessNeglected
<1> QED
  BY <1>1, <1>2, <1>3, <1>4

-----------------------------------------------------------------------------
(* The lease.                                                              *)

\* Nothing changes: the lease is asked for, refused or given back, or killed.
LEMMA LeavingKeeps ==
  ASSUME CInv, Acquire \/ ResolveRefuses \/ Release \/ Kill
  PROVE  CInv'
<1>1. /\ pc' \in Outside /\ Untouched /\ UNCHANGED record /\ neglected' = neglected
      /\ cuts' = cuts
  BY DEF Acquire, ResolveRefuses, Release, Kill, Continue, Stop, Outside
<1>2. Entries' /\ Files' /\ Record' /\ Chain' /\ OnDiskUnlessNeglected'
  BY <1>1, StillKeeps
<1>3. Work'
  BY <1>1, NoWork
<1> QED
  BY <1>2, <1>3 DEF CInv

\* The chain is validated and the staging leaf judged.
LEMMA ResolveKeeps ==
  ASSUME CInv, Resolve
  PROVE  CInv'
<1> USE DEF CInv
<1>1. /\ Agrees /\ ValidChain /\ Untouched /\ UNCHANGED record /\ UNCHANGED cuts
      /\ neglected' = (neglected \/ \E e \in Published : e \notin DOMAIN disk_names)
      /\ pc' \in {"reconcile", "finish", "remove"}
      /\ pc' = "reconcile" <=> ~Staged
      /\ pc' = "finish" => Leaf(Stage) = Planned /\ Planned # Stage
      /\ entry' = owed /\ validated' = Tip
  BY DEF Resolve, Agrees
<1>2. Entries' /\ Files' /\ Record' /\ Chain' /\ OnDiskUnlessNeglected'
  BY <1>1, StillKeeps
<1>3. IsTop(validated, Published)'
  BY <1>1, Still, TipIsTop DEF IsTop
<1>4. ASSUME pc' = "finish" PROVE Fresh' /\ bytes'[names'[Stage]] = New'
  <2>1. Unbound /\ Found = {} /\ Planned = Append(Tip, owed)
    BY <1>1, <1>4 DEF Planned
  <2>2. \A k \in 1..Len(Tip) : Tip[k] # owed
    BY <1>1, <2>1, NotFoundNotInTip
  <2>3. Fresh'
    BY <1>1, <2>1, <2>2 DEF Fresh, Unbound, Record, record
  <2>4. Stage \in DOMAIN names /\ bytes[names[Stage]] = Append(Tip, owed)
    BY <1>1, <1>4, <2>1 DEF Leaf, Staged
  <2> QED
    BY <1>1, <2>3, <2>4, Still DEF New
<1>5. Work'
  BY <1>1, <1>3, <1>4, Still DEF Work, Outside, Appending, Cleaned, Before, After, record
<1> QED
  BY <1>2, <1>5

\* What is missing is appended, what is there is bound.
LEMMA ReconcileKeeps ==
  ASSUME CInv, Reconcile
  PROVE  CInv'
<1> USE DEF CInv
<1>1. /\ pc = "reconcile" /\ Untouched /\ UNCHANGED record /\ neglected' = neglected
      /\ pc' \in {"ready", "bind", "create"} /\ UNCHANGED <<entry, validated, cuts>>
      /\ pc' = "create" => Unbound /\ Found = {}
  BY DEF Reconcile, Continue
<1>2. ValidChain
  BY <1>1 DEF Chain, Outside
<1>3. Entries' /\ Files' /\ Record' /\ Chain' /\ OnDiskUnlessNeglected'
  BY <1>1, <1>2, StillKeeps DEF Outside, After
<1>4. entry = owed /\ ~Staged
  BY <1>1 DEF Work, Cleaned
<1>5. ASSUME pc' = "create" PROVE IsTop(validated, Published) /\ Fresh
  <2>1. Unbound /\ Found = {} /\ owed \in demanded
    BY <1>1, <1>5 DEF Unbound, Record
  <2>2. IsTop(validated, Published)
    BY <1>1, <2>1 DEF Work
  <2>3. validated = Tip
    BY <1>2, <2>2, TopIsTip
  <2>4. \A k \in 1..Len(validated) : validated[k] # owed
    BY <1>2, <2>1, <2>3, NotFoundNotInTip
  <2> QED
    BY <1>4, <2>1, <2>2, <2>4 DEF Fresh
<1>6. Work'
  BY <1>1, <1>4, <1>5, Still
     DEF Work, Fresh, IsTop, Outside, Appending, Cleaned, Before, After, record
<1> QED
  BY <1>3, <1>6

-----------------------------------------------------------------------------
(* Steps that change the directory but not what is published in it.        *)

\* What taking a name does.
LEMMA Unnaming ==
  ASSUME NEW f, NEW n
  PROVE  /\ DOMAIN Unname(f, n) = DOMAIN f \ {n}
         /\ \A m \in DOMAIN f \ {n} : Unname(f, n)[m] = f[m]
BY DEF Unname

\* The published entries keep their files and these their bytes.
SamePublished ==
  /\ Published' = Published
  /\ \A e \in Published : names'[e] = names[e] /\ bytes'[names[e]] = bytes[names[e]]

\* Then the chain stays what it is.
LEMMA SameChain ==
  ASSUME SamePublished
  PROVE  ValidChain <=> ValidChain'
<1>1. Published' = Published /\ \A e \in Published : e \in DOMAIN names /\ e \in DOMAIN names'
  BY DEF SamePublished, Published
<1>2. \A e \in Published : Leaf(e)' = Leaf(e)
  BY <1>1 DEF SamePublished, Leaf
<1> QED
  BY <1>1, <1>2 DEF ValidChain

\* The survivor is removed.
LEMMA RemoveKeeps ==
  ASSUME CInv, RemoveSurvivor
  PROVE  CInv'
<1> USE DEF CInv
<1>1. /\ pc = "remove" /\ pc' = "removed" /\ UNCHANGED <<bytes, persisted, record, neglected>>
      /\ names' = Unname(names, Stage) /\ UNCHANGED <<entry, validated, cuts>>
  BY DEF RemoveSurvivor, Unlink, Continue
<1>2. /\ DOMAIN names' = DOMAIN names \ {Stage}
      /\ \A n \in DOMAIN names' : names'[n] = names[n]
  BY <1>1, Unnaming
<1>3. SamePublished /\ DiskPublished' = DiskPublished /\ ~Staged'
  BY <1>1, <1>2 DEF SamePublished, Published, DiskPublished, Staged, persisted
<1>4. Entries'
  BY <1>1, <1>3 DEF Entries, SamePublished, Sources, record
<1>5. Files'
  BY <1>1, <1>2, <1>3 DEF Files, SamePublished, persisted
<1>6. Record' /\ Chain'
  BY <1>1, <1>3, SameChain DEF Record, Chain, record, SamePublished, Outside
<1>7. OnDiskUnlessNeglected'
  BY <1>1, <1>3 DEF OnDiskUnlessNeglected, SamePublished, persisted, record, Outside, After
<1>8. Work'
  BY <1>1, <1>3
     DEF Work, IsTop, SamePublished, record, Outside, Appending, Cleaned, Before, After
<1> QED
  BY <1>4, <1>5, <1>6, <1>7, <1>8

\* The directory is flushed: what is published is on disk.
LEMMA FlushKeeps ==
  ASSUME CInv, FlushDirectory, UNCHANGED <<entry, validated, cuts>>,
         pc \notin Outside, pc' \notin Outside
  PROVE  Entries' /\ Files' /\ Record' /\ Chain' /\ OnDiskUnlessNeglected'
<1> USE DEF CInv
<1>1. disk_names' = names /\ UNCHANGED <<directory, disk_bytes, record, neglected>>
  BY DEF FlushDirectory
<1>2. SamePublished /\ DiskPublished' = Published /\ Published \subseteq DOMAIN disk_names'
  BY <1>1 DEF SamePublished, Published, DiskPublished, directory
<1>3. Entries'
  BY <1>1, <1>2 DEF Entries, SamePublished, Sources, record
<1>4. Files'
  BY <1>1, <1>2 DEF Files, SamePublished, directory
<1>5. Record' /\ Chain'
  BY <1>1, <1>2, SameChain DEF Record, Chain, record, SamePublished
<1>6. ~neglected => relied \subseteq Published
  BY DEF OnDiskUnlessNeglected, Files
<1>7. OnDiskUnlessNeglected'
  BY <1>1, <1>2, <1>6 DEF OnDiskUnlessNeglected, SamePublished, directory, record
<1> QED
  BY <1>3, <1>4, <1>5, <1>7

\* The directory is flushed after a removal, or after a publication.
LEMMA FlushesKeep ==
  ASSUME CInv, FlushRemoval \/ FlushFinished \/ FlushPublished
  PROVE  CInv'
<1>1. /\ FlushDirectory /\ UNCHANGED <<entry, validated, cuts>> /\ UNCHANGED <<directory, record>>
      /\ \/ pc = "removed" /\ pc' = "reconcile"
         \/ pc = "finished" /\ pc' = "reconcile"
         \/ pc = "published" /\ pc' \in {"bind", "return"}
  BY DEF FlushRemoval, FlushFinished, FlushPublished, FlushDirectory, Continue
<1>2. Entries' /\ Files' /\ Record' /\ Chain' /\ OnDiskUnlessNeglected'
  BY <1>1, FlushKeeps DEF Outside
<1>3. /\ Published' = Published /\ (Staged <=> Staged') /\ Found' = Found /\ New' = New
      /\ (IsTop(validated, Published) <=> IsTop(validated, Published)')
      /\ (IsTop(New, Published) <=> IsTop(New, Published)')
      /\ entry' = entry /\ owed' = owed
  BY <1>1 DEF Published, Staged, directory, record, Found, New, IsTop
<1>4. /\ ~Staged
      /\ pc \in {"removed", "finished"} => entry = owed
      /\ pc = "removed" => IsTop(validated, Published)
      /\ pc = "finished" => New \in Found
      /\ pc = "published" => New \in Published
  BY <1>1 DEF CInv, Work, Cleaned, Before, After
<1>5. Work'
  BY <1>1, <1>3, <1>4 DEF Work, Outside, Appending, Cleaned, Before, After
<1> QED
  BY <1>2, <1>5 DEF CInv

-----------------------------------------------------------------------------
(* append_entry.                                                           *)

\* What the holder of the lease knows while it appends.
LEMMA Appender ==
  ASSUME CInv, pc \in Appending \cup {"finish"}
  PROVE  /\ ValidChain /\ IsTop(validated, Published) /\ Fresh /\ entry \in Sources
         /\ entry \in Bodies
         /\ ~neglected => Published \subseteq DOMAIN disk_names
<1>1. ValidChain /\ IsTop(validated, Published) /\ Fresh
  BY DEF CInv, Chain, Work, Outside, Appending, Before
<1>2. entry \in Sources /\ entry \in Bodies
  BY <1>1 DEF Fresh, CInv, Record, Sources, Bodies
<1>3. ~neglected => Published \subseteq DOMAIN disk_names
  BY DEF CInv, OnDiskUnlessNeglected, Outside, After, Appending
<1> QED
  BY <1>1, <1>2, <1>3

\* The staging leaf is created, with no bytes.
LEMMA CreateKeeps ==
  ASSUME CInv, CreateStaging
  PROVE  CInv'
<1> USE DEF CInv
<1>1. /\ pc = "create" /\ pc' = "write" /\ ~Staged /\ UNCHANGED <<entry, validated, cuts>>
      /\ names' = Name(names, Stage, Len(bytes) + 1)
      /\ bytes' = Append(bytes, Torn) /\ disk_bytes' = Append(disk_bytes, Torn)
      /\ UNCHANGED <<disk_names, record, neglected>>
  BY DEF CreateStaging, Create, Continue
<1>2. /\ DOMAIN names' = DOMAIN names \cup {Stage} /\ names'[Stage] = Len(bytes) + 1
      /\ \A n \in DOMAIN names \ {Stage} : names'[n] = names[n]
  BY <1>1 DEF Name
<1>3. /\ bytes \in Seq(Seq(Bodies)) /\ disk_bytes \in Seq(Seq(Bodies)) /\ Torn \in Seq(Bodies)
      /\ Len(disk_bytes) = Len(bytes) /\ Len(bytes) \in Nat
  BY LenProperties, EmptySeq DEF Files, Torn
<1>4. /\ bytes' \in Seq(Seq(Bodies)) /\ Len(bytes') = Len(bytes) + 1
      /\ \A i \in 1..Len(bytes) : bytes'[i] = bytes[i]
  BY <1>1, <1>3, AppendProperties
<1>5. /\ disk_bytes' \in Seq(Seq(Bodies)) /\ Len(disk_bytes') = Len(bytes) + 1
      /\ \A i \in 1..Len(bytes) : disk_bytes'[i] = disk_bytes[i]
  BY <1>1, <1>3, AppendProperties
<1>6. /\ Published' = Published /\ Staged' /\ DiskPublished' = DiskPublished
      /\ \A e \in Published : names'[e] = names[e] /\ names[e] \in 1..Len(bytes)
  BY <1>1, <1>2 DEF Published, DiskPublished, Staged, Files
<1>7. SamePublished
  BY <1>4, <1>6 DEF SamePublished
<1>8. Entries'
  BY <1>1, <1>6 DEF Entries, Sources, record
<1>9. Files'
  <2>1. \A n \in DOMAIN names' : names'[n] \in 1..Len(bytes')
    BY <1>2, <1>3, <1>4 DEF Files
  <2>2. \A n \in DOMAIN disk_names' : disk_names'[n] \in 1..Len(bytes')
    BY <1>1, <1>3, <1>4 DEF Files
  <2> QED
    BY <1>1, <1>4, <1>5, <1>6, <2>1, <2>2 DEF Files
<1>10. Record' /\ Chain'
  BY <1>1, <1>6, <1>7, SameChain DEF Record, Chain, record, Outside
<1>11. OnDiskUnlessNeglected'
  BY <1>1, <1>5, <1>6 DEF OnDiskUnlessNeglected, record, Outside, After
<1>12. IsTop(validated, Published)' /\ Fresh'
  BY <1>1, <1>6, Appender DEF Appending, IsTop, Fresh, record
<1>13. \A e \in Published' : names'[e] # names'[Stage]
  BY <1>2, <1>3, <1>6
<1>14. Work'
  BY <1>1, <1>6, <1>12, <1>13 DEF Work, Outside, Appending, Cleaned, Before, After
<1> QED
  BY <1>8, <1>9, <1>10, <1>11, <1>14

\* Writing to a sequence at one place.
LEMMA Overwriting ==
  ASSUME NEW S, NEW s \in Seq(S), NEW i \in 1..Len(s), NEW x \in S
  PROVE  /\ [s EXCEPT ![i] = x] \in Seq(S) /\ Len([s EXCEPT ![i] = x]) = Len(s)
         /\ [s EXCEPT ![i] = x][i] = x
         /\ \A j \in 1..Len(s) : j # i => [s EXCEPT ![i] = x][j] = s[j]
BY ExceptSeq

\* The bytes are written, to a file that no entry is published from.
LEMMA WriteKeeps ==
  ASSUME CInv, WriteStaging
  PROVE  CInv'
<1> USE DEF CInv
<1>1. /\ pc = "write" /\ pc' = "flush" /\ UNCHANGED <<entry, validated, cuts>>
      /\ bytes' = [bytes EXCEPT ![names[Stage]] = New]
      /\ UNCHANGED <<names, persisted, record, neglected>>
  BY DEF WriteStaging, Write, Continue, New
<1>2. /\ Staged /\ Stage \in DOMAIN names /\ names[Stage] \in 1..Len(bytes)
      /\ \A e \in Published : names[e] # names[Stage]
      /\ \A e \in Published : names[e] \in 1..Len(bytes)
  BY <1>1 DEF Work, Staged, Files, Published
<1>3. IsTop(validated, Published) /\ Fresh /\ New \in Seq(Bodies)
  BY <1>1, Appender, NewEntry DEF Appending
<1>4. /\ bytes' \in Seq(Seq(Bodies)) /\ Len(bytes') = Len(bytes) /\ bytes'[names[Stage]] = New
      /\ \A i \in 1..Len(bytes) : i # names[Stage] => bytes'[i] = bytes[i]
  BY <1>1, <1>2, <1>3, Overwriting DEF Files
<1>5. Published' = Published /\ DiskPublished' = DiskPublished /\ (Staged <=> Staged') /\ New' = New
  BY <1>1 DEF Published, DiskPublished, Staged, persisted, New
<1>6. SamePublished
  BY <1>1, <1>2, <1>4, <1>5 DEF SamePublished
<1>7. Entries' /\ Files'
  BY <1>1, <1>4, <1>5 DEF Entries, Sources, Files, record, persisted
<1>8. Record' /\ Chain'
  BY <1>1, <1>5, <1>6, SameChain DEF Record, Chain, record, Outside
<1>9. OnDiskUnlessNeglected'
  BY <1>1, <1>5 DEF OnDiskUnlessNeglected, record, persisted, Outside, After
<1>10. IsTop(validated, Published)' /\ Fresh'
  BY <1>1, <1>3, <1>5 DEF IsTop, Fresh, record
<1>11. Work'
  BY <1>1, <1>2, <1>4, <1>5, <1>10 DEF Work, Outside, Appending, Cleaned, Before, After
<1> QED
  BY <1>7, <1>8, <1>9, <1>11

\* They are flushed.
LEMMA FlushStagingKeeps ==
  ASSUME CInv, FlushStaging
  PROVE  CInv'
<1> USE DEF CInv
<1>1. /\ pc = "flush" /\ pc' = "publish" /\ UNCHANGED <<entry, validated, cuts>>
      /\ disk_bytes' = [disk_bytes EXCEPT ![names[Stage]] = bytes[names[Stage]]]
      /\ UNCHANGED <<directory, disk_names, record, neglected>>
  BY DEF FlushStaging, FlushFile, Continue
<1>2. /\ Staged /\ Stage \in DOMAIN names /\ names[Stage] \in 1..Len(disk_bytes)
      /\ \A e \in Published : names[e] # names[Stage]
      /\ \A e \in Published : names[e] \in 1..Len(disk_bytes)
      /\ bytes[names[Stage]] = New
  BY <1>1 DEF Work, Staged, Files, Published
<1>3. IsTop(validated, Published) /\ Fresh /\ New \in Seq(Bodies)
  BY <1>1, Appender, NewEntry DEF Appending
<1>4. /\ disk_bytes' \in Seq(Seq(Bodies)) /\ Len(disk_bytes') = Len(disk_bytes)
      /\ disk_bytes'[names[Stage]] = New
      /\ \A i \in 1..Len(disk_bytes) : i # names[Stage] => disk_bytes'[i] = disk_bytes[i]
  BY <1>1, <1>2, <1>3, Overwriting DEF Files
<1>5. Published' = Published /\ DiskPublished' = DiskPublished /\ (Staged <=> Staged') /\ New' = New
  BY <1>1 DEF Published, DiskPublished, Staged, directory, New
<1>6. SamePublished
  BY <1>1, <1>5 DEF SamePublished, directory
<1>7. Entries' /\ Files'
  BY <1>1, <1>4, <1>5 DEF Entries, Sources, Files, record, directory
<1>8. Record' /\ Chain'
  BY <1>1, <1>5, <1>6, SameChain DEF Record, Chain, record, Outside
<1>9. OnDiskUnlessNeglected'
  BY <1>1, <1>2, <1>4, <1>5 DEF OnDiskUnlessNeglected, record, directory, Outside, After
<1>10. IsTop(validated, Published)' /\ Fresh'
  BY <1>1, <1>3, <1>5 DEF IsTop, Fresh, record
<1>11. Work'
  BY <1>1, <1>2, <1>4, <1>5, <1>10
     DEF Work, directory, Outside, Appending, Cleaned, Before, After
<1> QED
  BY <1>7, <1>8, <1>9, <1>11

\* The staging leaf is renamed to the entry it holds: the chain grows by one.
LEMMA TransferKeeps ==
  ASSUME CInv, pc \in {"publish", "finish"}, Transfer(Stage, New), pc' \in After,
         UNCHANGED <<entry, validated, cuts>>, pc' = "finished" => owed = entry,
         neglected => neglected',
         ~neglected' => disk_bytes[names[Stage]] = New
  PROVE  CInv'
<1> USE DEF CInv
<1>1. /\ UNCHANGED <<bytes, persisted, record>>
      /\ names' = Name(Unname(names, Stage), New, names[Stage])
  BY DEF Transfer
<1>2. /\ Stage \in DOMAIN names /\ bytes[names[Stage]] = New
      /\ names[Stage] \in 1..Len(bytes)
  BY DEF Work, Staged, Files
<1>3. /\ ValidChain /\ IsTop(validated, Published) /\ Fresh
      /\ entry \in Sources /\ entry \in Bodies
      /\ ~neglected => Published \subseteq DOMAIN disk_names
  BY Appender DEF Appending
<1>4. /\ validated \in Seq(Bodies) /\ New \in Seq(Bodies)
      /\ Len(New) = Len(validated) + 1 /\ Len(validated) \in Nat
      /\ New[Len(New)] = entry /\ New # Stage
      /\ \A k \in 1..Len(validated) : New[k] = validated[k]
  BY <1>3, NewEntry
<1>5. /\ New \notin Published /\ Linear(Published \cup {New})
      /\ IsTop(New, Published \cup {New})
  BY <1>3, Extended, PublishedEntries DEF New, ValidChain
<1>6. /\ DOMAIN names' = (DOMAIN names \ {Stage}) \cup {New}
      /\ names'[New] = names[Stage]
      /\ \A n \in DOMAIN names \ {Stage} : n # New => names'[n] = names[n]
  BY <1>1 DEF Name, Unname
<1>7. /\ Published' = Published \cup {New} /\ ~Staged' /\ New' = New
      /\ DiskPublished' = DiskPublished
      /\ \A e \in Published : names'[e] = names[e]
  <2>1. Published' = Published \cup {New} /\ ~Staged'
    BY <1>4, <1>6 DEF Published, Staged
  <2>2. New' = New /\ DiskPublished' = DiskPublished
    BY <1>1 DEF New, DiskPublished, persisted
  <2>3. ASSUME NEW e \in Published PROVE names'[e] = names[e]
    <3>1. e # New /\ e \in DOMAIN names \ {Stage}
      BY <1>5, <2>3 DEF Published
    <3> QED
      BY <1>6, <3>1
  <2> QED
    BY <2>1, <2>2, <2>3
<1>8. Entries'
  <2>1. /\ \A k \in 1..Len(New) : New[k] \in Sources
        /\ \A j, k \in 1..Len(New) : New[j] = New[k] => j = k
    <3>1. /\ \A k \in 1..Len(validated) : validated[k] \in Sources
          /\ \A j, k \in 1..Len(validated) : validated[j] = validated[k] => j = k
      BY <1>3 DEF Entries, IsTop
    <3>2. \A k \in 1..Len(New) : k \in 1..Len(validated) \/ k = Len(New)
      BY <1>4
    <3>3. \A k \in 1..Len(validated) : validated[k] # entry
      BY <1>3 DEF Fresh
    <3> QED
      BY <1>3, <1>4, <3>1, <3>2, <3>3
  <2>2. Len(New) > 0
    BY <1>4
  <2> QED
    BY <1>1, <1>4, <1>7, <2>1, <2>2 DEF Entries, Sources, record
<1>9. Files'
  <2>1. \E most \in Nat : \A e \in Published' : Len(e) <= most
    <3>1. Len(New) \in Nat /\ \A e \in Published' : Len(e) <= Len(New)
      BY <1>4, <1>5, <1>7 DEF IsTop
    <3> QED
      BY <3>1
  <2>2. \A n \in DOMAIN names' : names'[n] \in 1..Len(bytes')
    BY <1>1, <1>2, <1>6 DEF Files
  <2>3. \A e \in DiskPublished' : e \in Published' /\ disk_names'[e] = names'[e]
    BY <1>1, <1>7 DEF Files, persisted
  <2> QED
    BY <1>1, <2>1, <2>2, <2>3 DEF Files, persisted
<1>10. ValidChain'
  <2>1. \A e \in Published' : Leaf(e)' = e
    BY <1>1, <1>2, <1>3, <1>6, <1>7 DEF ValidChain, Leaf, Published
  <2> QED
    BY <1>5, <1>7, <2>1 DEF ValidChain
<1>11. Record' /\ Chain'
  BY <1>1, <1>7, <1>10 DEF Record, Chain, record
<1>12. OnDiskUnlessNeglected'
  <2> SUFFICES ASSUME ~neglected' PROVE OnDiskUnlessNeglected'
    BY DEF OnDiskUnlessNeglected
  <2>1. /\ relied \subseteq DiskPublished /\ Published \subseteq DOMAIN disk_names
        /\ \A e \in Published : disk_bytes[names[e]] = e
    BY <1>3 DEF OnDiskUnlessNeglected
  <2>2. \A e \in Published' : disk_bytes'[names'[e]] = e
    BY <1>1, <1>6, <1>7, <2>1 DEF persisted
  <2>3. \A e \in Published : Len(e) < Len(New)
    <3>1. \A e \in Published : Len(e) <= Len(validated) /\ Len(e) \in Nat
      BY <1>3, LenProperties DEF IsTop, Entries
    <3> QED
      BY <1>4, <3>1
  <2>4. \A e, f \in Published' : Len(e) < Len(f) => e \in DOMAIN disk_names'
    <3> SUFFICES ASSUME NEW e \in Published', NEW f \in Published', Len(e) < Len(f)
                 PROVE  e \in DOMAIN disk_names'
      OBVIOUS
    <3>1. e # New
      <4> SUFFICES ASSUME e = New PROVE FALSE
        OBVIOUS
      <4>1. f \in Published' /\ Len(f) <= Len(New) /\ Len(f) \in Nat /\ Len(New) \in Nat
        BY <1>4, <1>5, <1>7, LenProperties DEF IsTop, Entries
      <4> QED
        BY <4>1
    <3> QED
      BY <1>1, <1>7, <2>1, <3>1 DEF persisted
  <2> QED
    BY <1>1, <1>7, <2>1, <2>2, <2>4 DEF OnDiskUnlessNeglected, persisted, record
<1>13. Work'
  <2>1. IsTop(New, Published)' /\ New' \in Published'
    BY <1>5, <1>7 DEF IsTop
  <2>2. pc' = "finished" => entry' = owed' /\ New' \in Found'
    BY <1>1, <1>4, <1>7, <2>1 DEF Found, record
  <2> QED
    BY <1>7, <2>1, <2>2 DEF Work, Outside, Appending, Cleaned, Before, After
<1> QED
  BY <1>8, <1>9, <1>11, <1>12, <1>13

\* A survivor is published, its bytes flushed or not; and an entry of append_entry.
LEMMA PublishKeeps ==
  ASSUME CInv, FinishSurvivor \/ PublishEntry
  PROVE  CInv'
<1>1. CASE FinishSurvivor
  <2>1. /\ pc = "finish" /\ pc' = "finished" /\ Transfer(Stage, New)
        /\ UNCHANGED <<entry, validated, cuts>>
        /\ neglected' = (neglected \/ disk_bytes[names[Stage]] # bytes[names[Stage]])
    BY <1>1 DEF FinishSurvivor, Continue, New
  <2>2. bytes[names[Stage]] = New /\ entry = owed
    BY <2>1 DEF CInv, Work
  <2> QED
    BY <2>1, <2>2, TransferKeeps DEF After
<1>2. CASE PublishEntry
  <2>1. /\ pc = "publish" /\ pc' = "published" /\ Transfer(Stage, New)
        /\ UNCHANGED <<entry, validated, cuts, neglected>>
    BY <1>2 DEF PublishEntry, Continue, New
  <2>2. disk_bytes[names[Stage]] = New
    BY <2>1 DEF CInv, Work
  <2> QED
    BY <2>1, <2>2, TransferKeeps DEF After
<1> QED
  BY <1>1, <1>2

-----------------------------------------------------------------------------
(* What the holder of a lease does with it.                                *)

\* The digest is bound in the store, or returned to the caller.
LEMMA RelyKeeps ==
  ASSUME CInv, Bind \/ ReturnDigest
  PROVE  CInv'
<1> USE DEF CInv
<1>1. /\ pc \in {"bind", "return"} /\ pc' = "ready" /\ Untouched
      /\ UNCHANGED <<demanded, owed, neglected, entry, validated, cuts>>
      /\ \E e \in Published : relied' = relied \cup {e}
  <2>1. CASE Bind
    BY <2>1 DEF Bind, Found, Continue
  <2>2. CASE ReturnDigest
    BY <2>2 DEF ReturnDigest, Continue, Work, New
  <2> QED
    BY <2>1, <2>2
<1>2. PICK e \in Published : relied' = relied \cup {e}
  BY <1>1
<1>3. Entries' /\ Files'
  BY <1>1, StillFits
<1>4. ValidChain /\ ~Staged
  BY <1>1 DEF Chain, Work, Outside, Cleaned
<1>5. ~neglected => e \in DiskPublished
  BY <1>1, PublishedEntries DEF OnDiskUnlessNeglected, DiskPublished, Outside, After
<1>6. Record' /\ Chain'
  BY <1>1, <1>2, <1>4, Still DEF Record, Chain
<1>7. OnDiskUnlessNeglected'
  BY <1>1, <1>2, <1>5, Still DEF OnDiskUnlessNeglected, Outside, After
<1>8. Work'
  BY <1>1, <1>4, Still DEF Work, Outside, Appending, Cleaned, Before, After
<1> QED
  BY <1>3, <1>6, <1>7, <1>8

\* The record is deleted once it demands nothing.
LEMMA DetachKeeps ==
  ASSUME CInv, Detach
  PROVE  CInv'
<1> USE DEF CInv
<1>1. /\ pc = "ready" /\ pc' = "ready" /\ Untouched /\ owed' = Nobody
      /\ UNCHANGED <<demanded, relied, neglected, entry, validated, cuts>>
  BY DEF Detach, Continue
<1>2. Entries' /\ Files'
  BY <1>1, StillFits
<1>3. ValidChain /\ ~Staged
  BY <1>1 DEF Chain, Work, Outside, Cleaned
<1>4. Record' /\ Chain' /\ OnDiskUnlessNeglected'
  BY <1>1, <1>3, Still DEF Record, Chain, OnDiskUnlessNeglected, Outside, After
<1>5. Work'
  BY <1>1, <1>3, Still DEF Work, Outside, Appending, Cleaned, Before, After
<1> QED
  BY <1>2, <1>4, <1>5

\* An append begins, of an entry that is nowhere in the chain.
LEMMA StartKeeps ==
  ASSUME CInv, pc = "ready", NEW x, StartAppend(x), relied' = relied,
         demanded \subseteq demanded', demanded' \subseteq Demands,
         owed' \in demanded' \cup {Nobody},
         x \in demanded' \cup Intents, \A k \in 1..Len(Tip) : Tip[k] # x
  PROVE  CInv'
<1> USE DEF CInv
<1>1. /\ pc' = "create" /\ Untouched /\ entry' = x /\ validated' = Tip
      /\ UNCHANGED <<cuts, neglected>>
  BY DEF StartAppend
<1>2. Entries' /\ Files'
  BY <1>1, StillFits
<1>3. ValidChain /\ ~Staged
  BY DEF Chain, Work, Outside, Cleaned
<1>4. Record' /\ Chain' /\ OnDiskUnlessNeglected'
  BY <1>1, <1>3, Still DEF Record, Chain, OnDiskUnlessNeglected, Outside, After
<1>5. IsTop(validated, Published)' /\ Fresh'
  BY <1>1, <1>3, Still, TipIsTop DEF IsTop, Fresh
<1>6. Work'
  BY <1>1, <1>3, <1>5, Still DEF Work, Outside, Appending, Cleaned, Before, After
<1> QED
  BY <1>2, <1>4, <1>6

\* The record comes to demand an entry no record has demanded.
LEMMA DemandKeeps ==
  ASSUME CInv, NEW x \in Demands, DemandEntry(x)
  PROVE  CInv'
<1> USE DEF CInv
<1>1. /\ pc = "ready" /\ x \notin demanded /\ StartAppend(x) /\ relied' = relied
      /\ demanded' = demanded \cup {x} /\ owed' = x
  BY DEF DemandEntry
<1>2. ValidChain
  BY <1>1 DEF Chain, Outside
<1>3. \A k \in 1..Len(Tip) : Tip[k] \in Sources
  BY <1>2, TipIsTop DEF IsTop, Entries
<1>4. x \notin Sources
  BY <1>1, EntryAssumption DEF Sources
<1>5. \A k \in 1..Len(Tip) : Tip[k] # x
  BY <1>3, <1>4
<1> QED
  BY <1>1, <1>5, StartKeeps DEF Record

\* A caller appends an intent that the chain has not got.
LEMMA IntentKeeps ==
  ASSUME CInv, NEW x \in Intents, AppendIntent(x)
  PROVE  CInv'
BY StartKeeps DEF AppendIntent, record, CInv, Record

-----------------------------------------------------------------------------
(* The environment.                                                        *)

\* What was not neglected is a chain on disk: what a power cut leaves is valid.
LEMMA ValidOnDisk ==
  ASSUME Entries, Files, ValidChain, OnDiskUnlessNeglected, ~neglected
  PROVE  /\ Linear(DiskPublished)
         /\ \A e \in DiskPublished : e \in DOMAIN disk_names /\ disk_bytes[disk_names[e]] = e
<1>1. DiskPublished \in SUBSET Published /\ \A e \in DiskPublished : disk_names[e] = names[e]
  BY DEF Files
<1>2. \A e, f \in Published : f \in DiskPublished /\ Len(e) < Len(f) => e \in DiskPublished
  BY <1>1, PublishedEntries DEF OnDiskUnlessNeglected, DiskPublished
<1>3. Linear(DiskPublished)
  BY <1>1, <1>2, Beginning, PublishedEntries DEF ValidChain
<1>4. \A e \in DiskPublished : e \in DOMAIN disk_names /\ disk_bytes[disk_names[e]] = e
  BY <1>1 DEF OnDiskUnlessNeglected, DiskPublished
<1> QED
  BY <1>3, <1>4

\* The power is cut: what is on disk is what there is.
LEMMA PowerCutKeeps ==
  ASSUME CInv, PowerCut
  PROVE  CInv'
<1> USE DEF CInv
<1>1. /\ pc' = "idle" /\ cuts' = cuts + 1 /\ cuts' # 0 /\ cuts' \in Nat
      /\ names' = disk_names /\ bytes' = disk_bytes
      /\ UNCHANGED <<persisted, record, neglected>>
  BY DEF PowerCut, Stop, Record
<1>2. Published' = DiskPublished /\ DiskPublished' = DiskPublished
  BY <1>1 DEF Published, DiskPublished, persisted
<1>3. DiskPublished \subseteq Published /\ \A e \in DiskPublished : disk_names[e] = names[e]
  BY DEF Files
<1>4. Entries'
  BY <1>1, <1>2, <1>3 DEF Entries, Sources, record
<1>5. Files'
  BY <1>1, <1>2, <1>3 DEF Files, persisted
<1>6. ~neglected => ValidChain'
  <2> SUFFICES ASSUME ~neglected PROVE ValidChain'
    OBVIOUS
  <2>1. ValidChain
    BY DEF Chain
  <2>2. /\ Linear(DiskPublished)
        /\ \A e \in DiskPublished : e \in DOMAIN disk_names /\ disk_bytes[disk_names[e]] = e
    BY <2>1, ValidOnDisk
  <2>3. DiskPublished # {}
    BY DEF OnDiskUnlessNeglected, Record
  <2> QED
    BY <1>1, <1>2, <2>2, <2>3 DEF ValidChain, Leaf
<1>7. Record' /\ Chain'
  BY <1>1, <1>6 DEF Record, Chain, record, Outside
<1>8. OnDiskUnlessNeglected'
  BY <1>1, <1>2, <1>3 DEF OnDiskUnlessNeglected, persisted, record, Outside, After, DiskPublished
<1>9. Work'
  BY <1>1, NoWork DEF Outside
<1> QED
  BY <1>4, <1>5, <1>7, <1>8, <1>9

\* The work of the holder stands where it and the directory do, disk bytes growing.
LEMMA WorkStays ==
  ASSUME Work, UNCHANGED directory, UNCHANGED record, UNCHANGED holder,
         Staged /\ disk_bytes[names[Stage]] = New /\ bytes[names[Stage]] = New
           => disk_bytes'[names[Stage]] = New
  PROVE  Work'
<1>1. /\ Published' = Published /\ (Staged <=> Staged') /\ Found' = Found /\ New' = New
      /\ (Fresh <=> Fresh')
      /\ (IsTop(validated, Published) <=> IsTop(validated, Published)')
      /\ (IsTop(New, Published) <=> IsTop(New, Published)')
      /\ entry' = entry /\ owed' = owed /\ pc' = pc /\ names' = names /\ bytes' = bytes
  BY DEF Published, Staged, directory, record, holder, Found, New, IsTop, Fresh
<1> QED
  BY <1>1 DEF Work, Outside, Appending, Cleaned, Before, After

\* A name is written back: of published entries no more is on disk than there is.
LEMMA WriteBackNameKeeps ==
  ASSUME CInv, NEW n \in DOMAIN names \cup DOMAIN disk_names, WriteBackName(n)
  PROVE  CInv'
<1> USE DEF CInv
<1>1. /\ disk_names' = IF n \in DOMAIN names THEN Name(disk_names, n, names[n])
                       ELSE Unname(disk_names, n)
      /\ UNCHANGED <<directory, disk_bytes, record, holder, cuts, neglected>>
  BY DEF WriteBackName
<1>2. n \in DOMAIN names \/ n = Stage
  BY DEF Files, DiskPublished, Published
<1>3. /\ \A e \in DOMAIN disk_names \ {Stage} : e \in DOMAIN disk_names'
      /\ \A e \in DOMAIN disk_names' :
           \/ e \in DOMAIN names /\ disk_names'[e] = names[e]
           \/ e \in DOMAIN disk_names /\ disk_names'[e] = disk_names[e]
  BY <1>1, <1>2 DEF Name, Unname
<1>4. Published' = Published /\ (Staged <=> Staged') /\ SamePublished
  BY <1>1 DEF Published, Staged, SamePublished, directory
<1>5. DiskPublished \subseteq DiskPublished'
  BY <1>3 DEF DiskPublished
<1>6. \A e \in DiskPublished' : e \in Published /\ disk_names'[e] = names[e]
  BY <1>3 DEF DiskPublished, Published, Files
<1>7. \A e \in Published : e \in DOMAIN disk_names => e \in DOMAIN disk_names'
  BY <1>3, PublishedEntries
<1>8. Entries'
  BY <1>1, <1>4 DEF Entries, Sources, record
<1>9. Files'
  BY <1>1, <1>3, <1>4, <1>6 DEF Files, directory
<1>10. Record' /\ Chain'
  BY <1>1, <1>4, SameChain DEF Record, Chain, record, holder
<1>11. OnDiskUnlessNeglected'
  BY <1>1, <1>4, <1>5, <1>7 DEF OnDiskUnlessNeglected, directory, record, holder
<1>12. Work'
  BY <1>1, <1>4, WorkStays
<1> QED
  BY <1>8, <1>9, <1>10, <1>11, <1>12

\* The bytes of a file are written back.
LEMMA WriteBackBytesKeeps ==
  ASSUME CInv, NEW n \in DOMAIN names, WriteBackBytes(names[n])
  PROVE  CInv'
<1> USE DEF CInv
<1> DEFINE i == names[n]
<1>1. /\ disk_bytes' = [disk_bytes EXCEPT ![i] = bytes[i]]
      /\ UNCHANGED <<directory, disk_names, record, holder, cuts, neglected>>
  BY DEF WriteBackBytes
<1>2. i \in 1..Len(disk_bytes) /\ bytes[i] \in Seq(Bodies)
  BY ElementOfSeq DEF Files
<1> HIDE DEF i
<1>3. /\ disk_bytes' \in Seq(Seq(Bodies)) /\ Len(disk_bytes') = Len(disk_bytes)
      /\ disk_bytes'[i] = bytes[i]
      /\ \A j \in 1..Len(disk_bytes) : j # i => disk_bytes'[j] = disk_bytes[j]
  BY <1>1, <1>2, Overwriting DEF Files
<1>4. /\ Published' = Published /\ (Staged <=> Staged') /\ SamePublished
      /\ DiskPublished' = DiskPublished
  BY <1>1 DEF Published, Staged, SamePublished, DiskPublished, directory
<1>5. Entries' /\ Files'
  BY <1>1, <1>3, <1>4 DEF Entries, Files, Sources, record, directory
<1>6. Record' /\ Chain'
  BY <1>1, <1>4, SameChain DEF Record, Chain, record, holder
<1>7. ASSUME ~neglected, NEW e \in Published PROVE disk_bytes'[names[e]] = e
  <2>1. disk_bytes[names[e]] = e /\ bytes[names[e]] = e /\ names[e] \in 1..Len(disk_bytes)
    BY <1>7 DEF OnDiskUnlessNeglected, Chain, ValidChain, Leaf, Published, Files
  <2> QED
    BY <1>3, <2>1
<1>8. OnDiskUnlessNeglected'
  BY <1>1, <1>4, <1>7 DEF OnDiskUnlessNeglected, directory, record, holder
<1>9. ASSUME Staged, disk_bytes[names[Stage]] = New, bytes[names[Stage]] = New
      PROVE  disk_bytes'[names[Stage]] = New
  <2>1. names[Stage] \in 1..Len(disk_bytes)
    BY <1>9 DEF Staged, Files
  <2> QED
    BY <1>3, <1>9, <2>1
<1>10. Work'
  BY <1>1, <1>4, <1>9, WorkStays
<1> QED
  BY <1>5, <1>6, <1>8, <1>10

-----------------------------------------------------------------------------
(* The invariant and what follows from it.                                 *)

\* The chain begins with the genesis entry, on disk.
LEMMA InitFits ==
  ASSUME CInit
  PROVE  CInv
<1>0. PICK g : g = <<Genesis>>
  OBVIOUS
<1>1. /\ g \in Seq(Bodies) /\ Len(g) = 1 /\ g[1] = Genesis /\ g # Stage
      /\ \A k \in 1..Len(g) : k = 1
  BY <1>0 DEF Bodies, Stage
<1>2. /\ bytes = <<g>> /\ bytes \in Seq(Seq(Bodies)) /\ Len(bytes) = 1 /\ bytes[1] = g
      /\ disk_bytes = bytes
  BY <1>0, <1>1 DEF CInit
<1>3. /\ DOMAIN names = {g} /\ names[g] = 1 /\ disk_names = names
  BY <1>0 DEF CInit
<1>4. /\ demanded = {} /\ owed = Nobody /\ relied = {g} /\ pc = "idle" /\ cuts = 0
  BY <1>0 DEF CInit
<1>5. Published = {g} /\ DiskPublished = {g}
  BY <1>1, <1>3 DEF Published, DiskPublished
<1>6. Entries
  <2> SUFFICES ASSUME NEW e \in Published
               PROVE  /\ e \in Seq(Bodies) /\ Len(e) > 0
                      /\ \A k \in 1..Len(e) : e[k] \in Sources
                      /\ \A j, k \in 1..Len(e) : e[j] = e[k] => j = k
    BY DEF Entries
  <2>1. e = g
    BY <1>5
  <2>2. e \in Seq(Bodies) /\ Len(e) = 1 /\ e[1] = Genesis
    BY <1>1, <2>1
  <2> QED
    BY <2>2 DEF Sources
<1>7. Files
  <2>1. 1 \in Nat /\ \A e \in Published : Len(e) <= 1
    <3>1. ASSUME NEW e \in Published PROVE Len(e) <= 1
      <4>1. e = g
        BY <1>5
      <4>2. Len(e) = 1
        BY <1>1, <4>1
      <4> QED
        BY <4>2
    <3> QED
      BY <3>1
  <2> QED
    BY <1>2, <1>3, <1>5, <2>1 DEF Files
<1>8. ValidChain
  <2>1. \A e \in Published : e = g /\ Leaf(e) = e
    BY <1>2, <1>3, <1>5 DEF Leaf
  <2>2. \A e \in Published : Len(e) = 1
    BY <1>1, <2>1
  <2>3. Linear(Published)
    BY <2>1, <2>2 DEF Linear
  <2> QED
    BY <1>5, <2>1, <2>3 DEF ValidChain
<1>9. Record /\ Chain
  BY <1>4, <1>5, <1>8 DEF Record, Chain
<1>10. OnDiskUnlessNeglected
  BY <1>1, <1>2, <1>3, <1>4, <1>5 DEF OnDiskUnlessNeglected, Outside
<1>11. Work
  BY <1>4 DEF Work, Outside, Appending, Cleaned, Before, After
<1> QED
  BY <1>6, <1>7, <1>9, <1>10, <1>11 DEF CInv

\* Every step keeps the invariant.
LEMMA StepsKeep == CInv /\ [CNext]_cvars => CInv'
<1> SUFFICES ASSUME CInv, [CNext]_cvars PROVE CInv'
  OBVIOUS
<1>1. CASE Lease
  BY <1>1, LeavingKeeps, ResolveKeeps, RemoveKeeps, FlushesKeep, PublishKeeps, ReconcileKeeps
     DEF Lease
<1>2. CASE AppendEntry
  BY <1>2, CreateKeeps, WriteKeeps, FlushStagingKeeps, PublishKeeps, FlushesKeep
     DEF AppendEntry
<1>3. CASE Client
  BY <1>3, RelyKeeps, DetachKeeps, LeavingKeeps, DemandKeeps, IntentKeeps DEF Client
<1>4. CASE Kill \/ PowerCut
  BY <1>4, LeavingKeeps, PowerCutKeeps
<1>5. CASE WriteBack
  BY <1>5, WriteBackNameKeeps, WriteBackBytesKeeps DEF WriteBack
<1>6. CASE UNCHANGED cvars
  <2>1. Untouched /\ UNCHANGED record /\ UNCHANGED neglected /\ UNCHANGED holder /\ cuts' = cuts
    BY <1>6 DEF cvars, Untouched
  <2>2. Entries' /\ Files' /\ Record' /\ Chain' /\ OnDiskUnlessNeglected'
    BY <2>1, StillKeeps DEF holder, CInv, Chain
  <2>3. UNCHANGED directory /\ disk_bytes' = disk_bytes
    BY <2>1 DEF Untouched, persisted
  <2>4. names' = names
    BY <2>3 DEF directory
  <2>5. Work'
    BY <2>1, <2>3, <2>4, WorkStays DEF CInv
  <2> QED
    BY <2>2, <2>5 DEF CInv
<1> QED
  BY <1>1, <1>2, <1>3, <1>4, <1>5, <1>6 DEF CNext

(* Every reachable state satisfies CInv: the chain is valid in every lease *)
(* and, unless something was neglected, at all times and on disk; only the *)
(* name published last may be missing there; and the holder appends to the *)
(* tip an entry that is not in it, under a name nobody reads yet.          *)
THEOREM ChainInvariant == CSpec => []CInv
<1> QED
  BY InitFits, StepsKeep, PTL DEF CSpec

(* A digest anybody relies on survives a power cut at any moment.          *)
THEOREM ReliedHolds == CSpec => []ReliedSurvives
<1>1. CInv => ReliedSurvives
  <2> SUFFICES ASSUME CInv, ~neglected, NEW e \in relied PROVE OnDisk(e)
    BY DEF ReliedSurvives
  <2> QED
    BY ValidOnDisk DEF CInv, Chain, OnDiskUnlessNeglected, OnDisk
<1> QED
  BY <1>1, ChainInvariant, PTL

(* What a power cut leaves is a chain that validates.                      *)
THEOREM CutHolds == CSpec => []CutLeavesChain
<1>1. CInv => CutLeavesChain
  BY ValidOnDisk DEF CInv, Chain, CutLeavesChain, OnDisk, DiskPublished
<1> QED
  BY <1>1, ChainInvariant, PTL

(* Without a power cut no lease is refused and nothing relied on is lost.  *)
THEOREM KillsHold == CSpec => []KillsAreHarmless
<1>1. CInv => KillsAreHarmless
  BY DEF CInv, Chain, KillsAreHarmless
<1> QED
  BY <1>1, ChainInvariant, PTL

(* Every entry is in the chain at most once.                               *)
THEOREM OnceHolds == CSpec => []PublishedOnce
<1>1. CInv => PublishedOnce
  BY DEF CInv, Entries, PublishedOnce
<1> QED
  BY <1>1, ChainInvariant, PTL

(* A lease that is ready has a valid chain and an empty staging leaf.      *)
THEOREM CleanHolds == CSpec => []LeaseIsClean
<1>1. CInv => LeaseIsClean
  BY DEF CInv, Chain, Work, LeaseIsClean, Outside, Cleaned
<1> QED
  BY <1>1, ChainInvariant, PTL
=============================================================================
