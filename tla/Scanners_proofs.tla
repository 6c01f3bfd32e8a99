---------------------------- MODULE Scanners_proofs ----------------------------
(***************************************************************************)
(* Proofs about the scans: that the loops of journal.py accept the         *)
(* languages that the other modules use, for every number of effects; that *)
(* inspection accepts exactly the directories that are chains; and that    *)
(* the commands, whose gates judge an entry before it is written, keep a   *)
(* chain a chain, however many entries there are.                          *)
(***************************************************************************)
EXTENDS JournalScan, ChainHistory, FiniteSetTheorems, SequenceTheorems, TLAPS

-----------------------------------------------------------------------------
(* The scans of a journal vector.  In each of them the phase is a function *)
(* of the last symbol that was read.                                       *)

\* The first n symbols are of a language.
Accepted(alphabet, follows, n) ==
  /\ \A i \in 1..n : vector[i] \in alphabet
  /\ \A i \in 1..n : i + 1 \in 1..n => vector[i + 1] \in follows[vector[i]]

ForwardAlphabet == {"done", "started", "pending"}
ReverseAlphabet == {"done", "undo_started", "undone", "pending"}
RolledBackAlphabet == {"undone", "pending"}

\* The phases, by the last symbol.
ForwardPhase(s) == CASE s = "done" -> 0 [] s = "started" -> 1 [] s = "pending" -> 2
ReversePhase(s) ==
  CASE s = "done" -> 0 [] s = "undo_started" -> 1 [] s = "undone" -> 2 [] s = "pending" -> 3
RolledBackPhase(s) == CASE s = "undone" -> 0 [] s = "pending" -> 1

ScanInv ==
  /\ vector \in Journals /\ position \in 1..(N + 1)
  /\ position = 1 => forward = 0 /\ reverse = 0 /\ rolledback = 0
  /\ IF Accepted(ForwardAlphabet, ForwardFollows, position - 1)
     THEN position > 1 => forward = ForwardPhase(vector[position - 1])
     ELSE forward = Refused
  /\ IF Accepted(ReverseAlphabet, ReverseFollows, position - 1)
     THEN position > 1 => reverse = ReversePhase(vector[position - 1])
     ELSE reverse = Refused
  /\ IF Accepted(RolledBackAlphabet, RolledBackFollows, position - 1)
     THEN position > 1 => rolledback = RolledBackPhase(vector[position - 1])
     ELSE rolledback = Refused

\* One more symbol is accepted if it is of the alphabet and may follow.
LEMMA AcceptedOneMore ==
  ASSUME NEW alphabet, NEW follows, NEW n \in Nat
  PROVE  Accepted(alphabet, follows, n + 1) <=>
           /\ Accepted(alphabet, follows, n)
           /\ vector[n + 1] \in alphabet
           /\ n > 0 => vector[n + 1] \in follows[vector[n]]
BY DEF Accepted

\* What may follow, written out.
LEMMA FollowsAre ==
  /\ ForwardFollows["done"] = {"done", "started", "pending"}
  /\ ForwardFollows["started"] = {"pending"}
  /\ ForwardFollows["pending"] = {"pending"}
  /\ ReverseFollows["done"] = {"done", "undo_started", "undone", "pending"}
  /\ ReverseFollows["undo_started"] = {"undone"}
  /\ ReverseFollows["undone"] = {"undone", "pending"}
  /\ ReverseFollows["pending"] = {"pending"}
  /\ RolledBackFollows["undone"] = {"undone", "pending"}
  /\ RolledBackFollows["pending"] = {"pending"}
BY DEF ForwardFollows, ReverseFollows, RolledBackFollows, Nothing, JournalStates

\* ScanInv is inductive.
LEMMA ScanStep ==
  ASSUME ScanInv, [Read]_vars
  PROVE  ScanInv'
<1>1. CASE UNCHANGED vars
  BY <1>1 DEF vars, ScanInv, Accepted
<1>2. CASE Read
  <2>1. PICK n : n = position - 1
    OBVIOUS
  <2>2. PICK s : s = vector[position]
    OBVIOUS
  <2>3. PICK b : b = vector[n]
    OBVIOUS
  <2>4. /\ n \in Nat /\ position = n + 1 /\ position' = n + 2 /\ position' - 1 = n + 1
        /\ vector' = vector /\ s \in JournalStates /\ position' \in 1..(N + 1)
        /\ vector[n + 1] = s
    BY <1>2, <2>1, <2>2, NAssumption DEF ScanInv, Read, Journals, Effects
  <2>5. \A alphabet, follows : Accepted(alphabet, follows, n + 1)' = Accepted(alphabet, follows, n + 1)
    BY <2>4 DEF Accepted
  <2>6. \A alphabet, follows : Accepted(alphabet, follows, n + 1) <=>
           Accepted(alphabet, follows, n) /\ s \in alphabet /\ (n > 0 => s \in follows[b])
    BY <2>3, <2>4, AcceptedOneMore
  <2>7. /\ forward' = ForwardStep(forward, s) /\ reverse' = ReverseStep(reverse, s)
        /\ rolledback' = RolledBackStep(rolledback, s)
    BY <1>2, <2>2 DEF Read
  <2>8. IF Accepted(ForwardAlphabet, ForwardFollows, n + 1)
        THEN forward' = ForwardPhase(s) ELSE forward' = Refused
    <3>1. CASE n = 0
      <4>1. forward = 0 /\ Accepted(ForwardAlphabet, ForwardFollows, n)
        BY <2>4, <3>1 DEF ScanInv, Accepted
      <4>2. Accepted(ForwardAlphabet, ForwardFollows, n + 1) <=> s \in ForwardAlphabet
        BY <2>4, <2>6, <3>1, <4>1
      <4> QED
        BY <2>4, <2>7, <4>1, <4>2
           DEF ForwardStep, ForwardPhase, ForwardAlphabet, Refused, JournalStates
    <3>2. CASE n > 0 /\ Accepted(ForwardAlphabet, ForwardFollows, n)
      <4>1. forward = ForwardPhase(b) /\ b \in ForwardAlphabet
        BY <2>1, <2>3, <2>4, <3>2 DEF ScanInv, Accepted
      <4>2. Accepted(ForwardAlphabet, ForwardFollows, n + 1) <=>
              s \in ForwardAlphabet /\ s \in ForwardFollows[b]
        BY <2>4, <2>6, <3>2
      <4> QED
        BY <2>4, <2>7, <4>1, <4>2, FollowsAre
           DEF ForwardStep, ForwardPhase, ForwardAlphabet, Refused, JournalStates
    <3>3. CASE ~Accepted(ForwardAlphabet, ForwardFollows, n)
      <4>1. forward = Refused /\ ~Accepted(ForwardAlphabet, ForwardFollows, n + 1)
        BY <2>1, <2>4, <2>6, <3>3 DEF ScanInv
      <4> QED
        BY <2>7, <4>1 DEF ForwardStep, Refused
    <3> QED
      BY <2>4, <3>1, <3>2, <3>3
  <2>9. IF Accepted(ReverseAlphabet, ReverseFollows, n + 1)
        THEN reverse' = ReversePhase(s) ELSE reverse' = Refused
    <3>1. CASE n = 0
      <4>1. reverse = 0 /\ Accepted(ReverseAlphabet, ReverseFollows, n)
        BY <2>4, <3>1 DEF ScanInv, Accepted
      <4>2. Accepted(ReverseAlphabet, ReverseFollows, n + 1) <=> s \in ReverseAlphabet
        BY <2>4, <2>6, <3>1, <4>1
      <4> QED
        BY <2>4, <2>7, <4>1, <4>2
           DEF ReverseStep, ReversePhase, ReverseAlphabet, Refused, JournalStates
    <3>2. CASE n > 0 /\ Accepted(ReverseAlphabet, ReverseFollows, n)
      <4>1. reverse = ReversePhase(b) /\ b \in ReverseAlphabet
        BY <2>1, <2>3, <2>4, <3>2 DEF ScanInv, Accepted
      <4>2. Accepted(ReverseAlphabet, ReverseFollows, n + 1) <=>
              s \in ReverseAlphabet /\ s \in ReverseFollows[b]
        BY <2>4, <2>6, <3>2
      <4> QED
        BY <2>4, <2>7, <4>1, <4>2, FollowsAre
           DEF ReverseStep, ReversePhase, ReverseAlphabet, Refused, JournalStates
    <3>3. CASE ~Accepted(ReverseAlphabet, ReverseFollows, n)
      <4>1. reverse = Refused /\ ~Accepted(ReverseAlphabet, ReverseFollows, n + 1)
        BY <2>1, <2>4, <2>6, <3>3 DEF ScanInv
      <4> QED
        BY <2>7, <4>1 DEF ReverseStep, Refused
    <3> QED
      BY <2>4, <3>1, <3>2, <3>3
  <2>10. IF Accepted(RolledBackAlphabet, RolledBackFollows, n + 1)
        THEN rolledback' = RolledBackPhase(s) ELSE rolledback' = Refused
    <3>1. CASE n = 0
      <4>1. rolledback = 0 /\ Accepted(RolledBackAlphabet, RolledBackFollows, n)
        BY <2>4, <3>1 DEF ScanInv, Accepted
      <4>2. Accepted(RolledBackAlphabet, RolledBackFollows, n + 1) <=> s \in RolledBackAlphabet
        BY <2>4, <2>6, <3>1, <4>1
      <4> QED
        BY <2>4, <2>7, <4>1, <4>2
           DEF RolledBackStep, RolledBackPhase, RolledBackAlphabet, Refused, JournalStates
    <3>2. CASE n > 0 /\ Accepted(RolledBackAlphabet, RolledBackFollows, n)
      <4>1. rolledback = RolledBackPhase(b) /\ b \in RolledBackAlphabet
        BY <2>1, <2>3, <2>4, <3>2 DEF ScanInv, Accepted
      <4>2. Accepted(RolledBackAlphabet, RolledBackFollows, n + 1) <=>
              s \in RolledBackAlphabet /\ s \in RolledBackFollows[b]
        BY <2>4, <2>6, <3>2
      <4> QED
        BY <2>4, <2>7, <4>1, <4>2, FollowsAre
           DEF RolledBackStep, RolledBackPhase, RolledBackAlphabet, Refused, JournalStates
    <3>3. CASE ~Accepted(RolledBackAlphabet, RolledBackFollows, n)
      <4>1. rolledback = Refused /\ ~Accepted(RolledBackAlphabet, RolledBackFollows, n + 1)
        BY <2>1, <2>4, <2>6, <3>3 DEF ScanInv
      <4> QED
        BY <2>7, <4>1 DEF RolledBackStep, Refused
    <3> QED
      BY <2>4, <3>1, <3>2, <3>3
  <2>11. vector'[position' - 1] = s /\ vector' \in Journals /\ position' # 1
    BY <2>4 DEF ScanInv
  <2> QED
    BY <2>4, <2>5, <2>8, <2>9, <2>10, <2>11 DEF ScanInv
<1> QED
  BY <1>1, <1>2

(* When the scans end, each has accepted exactly the vectors its language  *)
(* holds in neighbour form, for every number of effects (journal.py:       *)
(* _forward_language, _reverse_language, _rolled_back_language).           *)
THEOREM ScansHold == ScanSpec => []ScansAgree
<1>1. ScanInit => ScanInv
  BY NAssumption DEF ScanInit, ScanInv, Accepted
<1>2. ScanInv /\ [Read]_vars => ScanInv'
  BY ScanStep
<1>3. ScanInv => ScansAgree
  <2> SUFFICES ASSUME ScanInv, position = N + 1
               PROVE  /\ (forward # Refused) <=> ForwardLanguage(vector)
                      /\ (reverse # Refused) <=> ReverseLanguage(vector)
                      /\ (rolledback # Refused) <=> RolledBackLanguage(vector)
    BY DEF ScansAgree
  <2>1. position - 1 = N /\ N \in Nat /\ N > 0
    BY NAssumption
  <2>2. /\ ForwardLanguage(vector) <=> Accepted(ForwardAlphabet, ForwardFollows, N)
        /\ ReverseLanguage(vector) <=> Accepted(ReverseAlphabet, ReverseFollows, N)
        /\ RolledBackLanguage(vector) <=> Accepted(RolledBackAlphabet, RolledBackFollows, N)
    BY DEF ForwardLanguage, ReverseLanguage, RolledBackLanguage, Neighbours, Accepted, Effects,
           ForwardAlphabet, ReverseAlphabet, RolledBackAlphabet
  <2>3. /\ \A s \in ForwardAlphabet : ForwardPhase(s) # Refused
        /\ \A s \in ReverseAlphabet : ReversePhase(s) # Refused
        /\ \A s \in RolledBackAlphabet : RolledBackPhase(s) # Refused
    BY DEF ForwardAlphabet, ReverseAlphabet, RolledBackAlphabet, ForwardPhase, ReversePhase,
           RolledBackPhase, Refused
  <2>4. \A alphabet, follows : Accepted(alphabet, follows, N) => vector[N] \in alphabet
    BY <2>1 DEF Accepted
  <2> QED
    BY <2>1, <2>2, <2>3, <2>4 DEF ScanInv
<1> QED
  BY <1>1, <1>2, <1>3, PTL DEF ScanSpec

-----------------------------------------------------------------------------
(* Induction over the naturals, from the pigeon hole principle: a closed   *)
(* set that misses n would map 0..n into 0..n-1 one to one.                *)
LEMMA SetInduction ==
  ASSUME NEW S, 0 \in S, \A n \in Nat : n \in S => n + 1 \in S, NEW n \in Nat
  PROVE  n \in S
<1> SUFFICES ASSUME n \notin S PROVE FALSE
  OBVIOUS
<1>1. n > 0
  OBVIOUS
<1> DEFINE f == [k \in 0..n |-> IF k \in S THEN k ELSE k - 1]
<1>2. f \in [0..n -> 0..n-1]
  <2>1. ASSUME NEW k \in 0..n PROVE f[k] \in 0..n-1
    OBVIOUS
  <2> QED
    BY <2>1
<1>3. ASSUME NEW j \in 0..n, NEW k \in 0..n, j # k PROVE f[j] # f[k]
  <2>1. j \in Nat /\ k \in Nat
    OBVIOUS
  <2>2. CASE j \in S /\ k \notin S
    BY <1>3, <2>1, <2>2
  <2>3. CASE k \in S /\ j \notin S
    BY <1>3, <2>1, <2>3
  <2> QED
    BY <1>3, <2>1, <2>2, <2>3
<1>4. IsFiniteSet(0..n) /\ IsFiniteSet(0..n-1) /\ Cardinality(0..n-1) < Cardinality(0..n)
  <2>1. n \in Int /\ n - 1 \in Int
    OBVIOUS
  <2>2. IsFiniteSet(0..n) /\ Cardinality(0..n) = n + 1
    BY <2>1, FS_Interval
  <2>3. IsFiniteSet(0..n-1) /\ Cardinality(0..n-1) = n
    <3>1. /\ IsFiniteSet(0..(n-1))
          /\ Cardinality(0..(n-1)) = IF 0 > n-1 THEN 0 ELSE (n-1)-0+1
      BY <2>1, FS_Interval
    <3> QED
      BY <1>1, <3>1
  <2> QED
    BY <2>2, <2>3
<1> HIDE DEF f
<1> QED
  BY <1>2, <1>3, <1>4, FS_PigeonHole

\* A set of numbers that is not empty has a least one.
LEMMA MinIs ==
  ASSUME NEW S \in SUBSET Nat, S # {}
  PROVE  Min(S) \in S /\ \A k \in S : Min(S) <= k
<1> DEFINE Good == {n \in Nat : (\E k \in S : k <= n) => \E m \in S : \A k \in S : m <= k}
<1>1. 0 \in Good
  OBVIOUS
<1>2. ASSUME NEW n \in Nat, n \in Good PROVE n + 1 \in Good
  <2>1. CASE \E k \in S : k <= n
    BY <1>2, <2>1
  <2>2. CASE \A k \in S : k > n
    BY <2>2
  <2> QED
    BY <2>1, <2>2
<1> HIDE DEF Good
<1>3. PICK k \in S : TRUE
  OBVIOUS
<1>4. k \in Good
  BY <1>1, <1>2, SetInduction
<1>5. \E m \in S : \A x \in S : m <= x
  BY <1>4 DEF Good
<1> QED
  BY <1>5 DEF Min

-----------------------------------------------------------------------------
(* The leaves of a chain directory in a line, each naming the one before.  *)

\* What a scan of a chain directory yields.
Scanned(R) ==
  /\ R = [d \in DOMAIN R |-> R[d]] /\ IsFiniteSet(DOMAIN R)
  /\ DOMAIN R \subseteq Nat \ {NoDigest}

Links(R, q) ==
  \A k \in 1..Len(q) : R[q[k]].previous = IF k = 1 THEN NoDigest ELSE q[k - 1]

Lined(R, m) == {q \in Seq(DOMAIN R) : Len(q) = m /\ Links(R, q)}

\* Lines of k leaves, from those of one less.
Following(R, s, k) ==
  {d \in DOMAIN R : R[d].previous = IF k = 1 THEN NoDigest ELSE s[k - 1]}
Longer(R, s, k) == {Append(s, d) : d \in Following(R, s, k)}
ThreadStep(R, shorter, k) == UNION {Longer(R, s, k) : s \in shorter}

\* A leaf that names the last of a line makes it longer.
LEMMA LinedAppend ==
  ASSUME NEW R, NEW k \in Nat \ {0}, NEW s \in Lined(R, k - 1), NEW d \in DOMAIN R,
         R[d].previous = IF k = 1 THEN NoDigest ELSE s[k - 1]
  PROVE  Append(s, d) \in Lined(R, k)
<1>1. PICK q : q = Append(s, d)
  OBVIOUS
<1>2. s \in Seq(DOMAIN R) /\ Len(s) = k - 1 /\ Links(R, s)
  BY DEF Lined
<1>3. /\ q \in Seq(DOMAIN R) /\ Len(q) = k /\ q[k] = d
      /\ \A i \in 1..(k - 1) : q[i] = s[i]
  BY <1>1, <1>2, AppendProperties
<1>4. Links(R, q)
  BY <1>2, <1>3 DEF Links
<1> QED
  BY <1>1, <1>3, <1>4 DEF Lined

\* A line is a shorter one and a leaf that names its last.
LEMMA LinedGrows ==
  ASSUME NEW R, NEW k \in Nat \ {0}
  PROVE  ThreadStep(R, Lined(R, k - 1), k) = Lined(R, k)
<1>1. ASSUME NEW s \in Lined(R, k - 1), NEW d \in DOMAIN R,
             R[d].previous = IF k = 1 THEN NoDigest ELSE s[k - 1]
      PROVE  Append(s, d) \in Lined(R, k)
  BY <1>1, LinedAppend
<1>2. ASSUME NEW q \in Lined(R, k)
      PROVE  \E s \in Lined(R, k - 1) : \E d \in DOMAIN R :
               /\ R[d].previous = IF k = 1 THEN NoDigest ELSE s[k - 1]
               /\ q = Append(s, d)
  <2>1. q \in Seq(DOMAIN R) /\ Len(q) = k /\ Links(R, q)
    BY DEF Lined
  <2>2. \A i \in 1..k : q[i] \in DOMAIN R
    BY <2>1
  <2>3. PICK s : s = [i \in 1..(k - 1) |-> q[i]]
    OBVIOUS
  <2>4. s \in Seq(DOMAIN R) /\ Len(s) = k - 1
    BY <2>2, <2>3
  <2>5. Links(R, s)
    BY <2>1, <2>3, <2>4 DEF Links
  <2>6. /\ Append(s, q[k]) \in Seq(DOMAIN R) /\ Len(Append(s, q[k])) = k
        /\ \A i \in 1..(k - 1) : Append(s, q[k])[i] = s[i]
        /\ Append(s, q[k])[k] = q[k]
    BY <2>2, <2>4, AppendProperties
  <2>7. q = Append(s, q[k])
    <3>1. \A i \in 1..k : q[i] = Append(s, q[k])[i]
      BY <2>3, <2>6
    <3> QED
      BY <2>1, <2>6, <3>1, SeqEqual
  <2>8. R[q[k]].previous = IF k = 1 THEN NoDigest ELSE s[k - 1]
    BY <2>1, <2>3 DEF Links
  <2> QED
    BY <2>2, <2>4, <2>5, <2>7, <2>8 DEF Lined
<1>3. PICK L : L = Lined(R, k - 1)
  OBVIOUS
<1>4. ASSUME NEW q
      PROVE  q \in ThreadStep(R, L, k) <=>
               \E s \in L : \E d \in DOMAIN R :
                 /\ R[d].previous = IF k = 1 THEN NoDigest ELSE s[k - 1]
                 /\ q = Append(s, d)
  <2>1. q \in ThreadStep(R, L, k) <=> \E s \in L : q \in Longer(R, s, k)
    BY DEF ThreadStep
  <2>2. \A s : q \in Longer(R, s, k) <=> \E d \in Following(R, s, k) : q = Append(s, d)
    BY DEF Longer
  <2>3. \A s, d : d \in Following(R, s, k) <=>
          d \in DOMAIN R /\ R[d].previous = IF k = 1 THEN NoDigest ELSE s[k - 1]
    BY DEF Following
  <2> QED
    BY <2>1, <2>2, <2>3
<1>5. \A q : q \in ThreadStep(R, L, k) <=> q \in Lined(R, k)
  <2>1. ASSUME NEW q, q \in ThreadStep(R, L, k) PROVE q \in Lined(R, k)
    <3>1. PICK s \in L, d \in DOMAIN R :
            /\ R[d].previous = IF k = 1 THEN NoDigest ELSE s[k - 1]
            /\ q = Append(s, d)
      BY <1>4, <2>1
    <3> QED
      BY <1>1, <1>3, <3>1
  <2>2. ASSUME NEW q, q \in Lined(R, k) PROVE q \in ThreadStep(R, L, k)
    <3>1. \E s \in L : \E d \in DOMAIN R :
            /\ R[d].previous = IF k = 1 THEN NoDigest ELSE s[k - 1]
            /\ q = Append(s, d)
      BY <1>2, <1>3, <2>2
    <3> QED
      BY <1>4, <3>1
  <2> QED
    BY <2>1, <2>2
<1> QED
  BY <1>3, <1>5

\* The lines of one leaf after the other, as IsChain looks for them.
LEMMA ThreadsAre ==
  ASSUME NEW R, NEW n \in Nat
  PROVE  Threads(R, n) = Lined(R, n)
<1> DEFINE S(f) == [k \in 0..n |-> IF k = 0 THEN {<<>>} ELSE ThreadStep(R, f[k - 1], k)]
           g == [k \in 0..n |-> Lined(R, k)]
<1>1. PICK of : of = CHOOSE f : f = S(f)
  OBVIOUS
<1>2. Threads(R, n) = of[n]
  BY <1>1 DEF Threads, ThreadStep, Longer, Following
<1>3. Lined(R, 0) = {<<>>}
  <2>1. \A q \in Seq(DOMAIN R) : Len(q) = 0 <=> q = <<>>
    BY EmptySeq
  <2>2. <<>> \in Seq(DOMAIN R) /\ Links(R, <<>>)
    BY EmptySeq DEF Links
  <2> QED
    BY <2>1, <2>2, EmptySeq DEF Lined
<1>4. g = S(g)
  <2>1. ASSUME NEW k \in 0..n PROVE g[k] = S(g)[k]
    <3>1. CASE k = 0
      BY <1>3, <3>1
    <3>2. CASE k # 0
      <4>1. k \in Nat \ {0} /\ k - 1 \in 0..n
        BY <3>2
      <4> QED
        BY <3>2, <4>1, LinedGrows
    <3> QED
      BY <3>1, <3>2
  <2> QED
    BY <2>1
<1>5. of = S(of)
  BY <1>1, <1>4
<1> DEFINE Good == {k \in Nat : k <= n => of[k] = Lined(R, k)}
<1>6. 0 \in Good
  BY <1>3, <1>5
<1>7. ASSUME NEW k \in Nat, k \in Good PROVE k + 1 \in Good
  <2> SUFFICES ASSUME k + 1 <= n PROVE of[k + 1] = Lined(R, k + 1)
    OBVIOUS
  <2>1. of[k] = Lined(R, k)
    BY <1>7
  <2>2. of[k + 1] = ThreadStep(R, of[k], k + 1)
    <3>1. k + 1 \in 0..n /\ k + 1 # 0 /\ (k + 1) - 1 = k
      BY <1>7
    <3>2. of[k + 1] = S(of)[k + 1]
      BY <1>5
    <3> QED
      BY <3>1, <3>2
  <2>3. k + 1 \in Nat \ {0} /\ (k + 1) - 1 = k
    OBVIOUS
  <2> QED
    BY <2>1, <2>2, <2>3, LinedGrows
<1> HIDE DEF Good
<1>8. n \in Good
  BY <1>6, <1>7, SetInduction
<1> QED
  BY <1>2, <1>8 DEF Good

\* No leaf stands twice in a line.
LEMMA LineOnce ==
  ASSUME NEW R, Scanned(R), NEW m \in Nat, NEW q \in Lined(R, m)
  PROVE  \A i, j \in 1..m : q[i] = q[j] => i = j
<1>1. /\ q \in Seq(DOMAIN R) /\ Len(q) = m /\ \A k \in 1..m : q[k] \in DOMAIN R
      /\ \A k \in 1..m : R[q[k]].previous = IF k = 1 THEN NoDigest ELSE q[k - 1]
  BY DEF Lined, Links
<1>2. \A k \in 1..m : q[k] # NoDigest
  BY <1>1 DEF Scanned
<1> DEFINE Good == {i \in Nat : i \in 1..m => \A j \in 1..m : q[i] = q[j] => i = j}
<1>3. 0 \in Good
  OBVIOUS
<1>4. ASSUME NEW i \in Nat, i \in Good PROVE i + 1 \in Good
  <2> SUFFICES ASSUME i + 1 \in 1..m, NEW j \in 1..m, q[i + 1] = q[j] PROVE i + 1 = j
    OBVIOUS
  <2>1. (IF i + 1 = 1 THEN NoDigest ELSE q[i]) = (IF j = 1 THEN NoDigest ELSE q[j - 1])
    <3>1. (i + 1) - 1 = i
      OBVIOUS
    <3> QED
      BY <1>1, <3>1
  <2>2. i # 0 => i \in 1..m
    OBVIOUS
  <2>3. j # 1 => j - 1 \in 1..m
    OBVIOUS
  <2>4. CASE i = 0
    BY <1>2, <2>1, <2>3, <2>4
  <2>5. CASE i # 0 /\ j = 1
    BY <1>2, <2>1, <2>2, <2>5
  <2>6. CASE i # 0 /\ j # 1
    BY <1>4, <2>1, <2>2, <2>3, <2>6
  <2> QED
    BY <2>4, <2>5, <2>6
<1> HIDE DEF Good
<1>5. \A i \in 1..m : i \in Good
  BY <1>3, <1>4, SetInduction
<1> QED
  BY <1>5 DEF Good

\* A line through every leaf is as long as there are leaves.
LEMMA LineLength ==
  ASSUME NEW R, Scanned(R), NEW m \in Nat, NEW q \in Lined(R, m), ToSet(q) = DOMAIN R
  PROVE  m = Cardinality(DOMAIN R)
<1>1. q \in Seq(DOMAIN R) /\ Len(q) = m /\ DOMAIN q = 1..m
  BY DEF Lined
<1>2. q \in [1..m -> DOMAIN R] /\ \A d \in DOMAIN R : \E k \in 1..m : q[k] = d
  BY <1>1 DEF ToSet
<1>3. q \in Surjection(1..m, DOMAIN R)
  BY <1>2 DEF Surjection
<1>4. q \in Injection(1..m, DOMAIN R)
  BY <1>2, LineOnce DEF Injection, IsInjective
<1>5. IsFiniteSet(1..m) /\ Cardinality(1..m) = m
  BY FS_Interval
<1> QED
  BY <1>3, <1>4, <1>5, FS_Surjection

\* What the linkage pass finds in a line through every leaf.
LEMMA LineLinkage ==
  ASSUME NEW R, Scanned(R), NEW n \in Nat \ {0}, NEW q \in Lined(R, n), ToSet(q) = DOMAIN R
  PROVE  /\ Geneses(R) = {q[1]}
         /\ \A k \in 1..n : Successors(R, q[k]) = IF k < n THEN {q[k + 1]} ELSE {}
         /\ Orphaned(R) = {} /\ Branching(R) = {}
<1>1. /\ q \in Seq(DOMAIN R) /\ Len(q) = n /\ \A k \in 1..n : q[k] \in DOMAIN R
      /\ \A k \in 1..n : R[q[k]].previous = IF k = 1 THEN NoDigest ELSE q[k - 1]
  BY DEF Lined, Links
<1>2. \A k \in 1..n : q[k] # NoDigest
  BY <1>1 DEF Scanned
<1>3. \A d \in DOMAIN R : \E k \in 1..n : d = q[k]
  BY <1>1 DEF ToSet
<1>4. \A i, j \in 1..n : q[i] = q[j] => i = j
  BY LineOnce
<1>5. Geneses(R) = {q[1]}
  <2>1. ASSUME NEW k \in 1..n PROVE R[q[k]].previous = NoDigest <=> k = 1
    <3>1. k # 1 => k - 1 \in 1..n
      OBVIOUS
    <3> QED
      BY <1>1, <1>2, <3>1
  <2>2. 1 \in 1..n
    OBVIOUS
  <2> QED
    BY <1>1, <1>3, <2>1, <2>2 DEF Geneses
<1>6. ASSUME NEW k \in 1..n
      PROVE  Successors(R, q[k]) = IF k < n THEN {q[k + 1]} ELSE {}
  <2>1. ASSUME NEW j \in 1..n PROVE R[q[j]].previous = q[k] <=> j = k + 1
    <3>1. j # 1 => j - 1 \in 1..n
      OBVIOUS
    <3> QED
      BY <1>1, <1>2, <1>4, <3>1
  <2>2. \A d \in DOMAIN R : R[d].previous = q[k] <=> k + 1 \in 1..n /\ d = q[k + 1]
    BY <1>3, <2>1
  <2>3. k < n => k + 1 \in 1..n /\ q[k + 1] \in DOMAIN R
    BY <1>1
  <2>4. ~(k < n) => k + 1 \notin 1..n
    OBVIOUS
  <2> QED
    BY <2>2, <2>3, <2>4 DEF Successors
<1>7. Orphaned(R) = {}
  <2>1. ASSUME NEW k \in 1..n PROVE R[q[k]].previous \in DOMAIN R \cup {NoDigest}
    <3>1. k # 1 => k - 1 \in 1..n
      OBVIOUS
    <3> QED
      BY <1>1, <3>1
  <2> QED
    BY <1>3, <2>1 DEF Orphaned
<1>8. Branching(R) = {}
  <2>1. ASSUME NEW k \in 1..n PROVE ~(Cardinality(Successors(R, q[k])) > 1)
    <3>1. Cardinality({}) = 0 /\ Cardinality({q[k + 1]}) = 1
      BY FS_EmptySet, FS_Singleton
    <3> QED
      BY <1>6, <3>1
  <2> QED
    BY <1>3, <2>1 DEF Branching
<1> QED
  BY <1>5, <1>6, <1>7, <1>8

\* The walk, successor by successor.
WalkFrom(R, before) ==
  IF Successors(R, Last(before)) = {} THEN before
  ELSE Append(before, Min(Successors(R, Last(before))))

WalkStep(R, f, k) == IF k = 1 THEN <<Min(Geneses(R))>> ELSE WalkFrom(R, f[k - 1])

\* The function that the walk is the last value of.
LEMMA WalkUnfolds ==
  ASSUME NEW R, NEW n \in Nat, n = Cardinality(DOMAIN R)
  PROVE  \E f : f = [k \in 1..n |-> WalkStep(R, f, k)] /\ Walk(R) = f[n]
<1> DEFINE S(f, m) == [k \in 1..m |-> WalkStep(R, f, k)]
           Good == {m \in Nat : \E f : f = S(f, m)}
<1>1. 0 \in Good
  <2>1. S(<<>>, 0) = <<>>
    OBVIOUS
  <2> QED
    BY <2>1
<1>2. ASSUME NEW m \in Nat, m \in Good PROVE m + 1 \in Good
  <2>1. PICK f : f = S(f, m)
    BY <1>2
  <2>2. PICK g : g = [k \in 1..(m + 1) |-> IF k = m + 1 THEN WalkStep(R, f, k) ELSE f[k]]
    OBVIOUS
  <2>3. ASSUME NEW k \in 1..(m + 1) PROVE g[k] = WalkStep(R, g, k)
    <3>1. k # 1 => k - 1 \in 1..m /\ g[k - 1] = f[k - 1]
      BY <2>2
    <3>2. WalkStep(R, g, k) = WalkStep(R, f, k)
      BY <3>1 DEF WalkStep
    <3>3. k # m + 1 => f[k] = WalkStep(R, f, k)
      BY <2>1
    <3> QED
      BY <2>2, <3>2, <3>3
  <2>4. g = S(g, m + 1)
    BY <2>2, <2>3
  <2> QED
    BY <2>4
<1> HIDE DEF Good
<1>3. n \in Good
  BY <1>1, <1>2, SetInduction
<1>4. \E f : f = S(f, n)
  BY <1>3 DEF Good
<1>5. PICK w : w = CHOOSE f : f = S(f, n)
  OBVIOUS
<1>6. w = S(w, n)
  BY <1>4, <1>5
<1>7. Walk(R) = w[n]
  BY <1>5 DEF Walk, WalkStep, WalkFrom
<1> QED
  BY <1>6, <1>7

\* The walk is a line, as long as there is a genesis to start it.
LEMMA WalkLine ==
  ASSUME NEW R, Scanned(R), Geneses(R) # {}, NEW n \in Nat \ {0}, n = Cardinality(DOMAIN R)
  PROVE  \E m \in 1..n : Walk(R) \in Lined(R, m)
<1>1. PICK w : w = [k \in 1..n |-> WalkStep(R, w, k)] /\ Walk(R) = w[n]
  BY WalkUnfolds
<1> DEFINE Good == {k \in Nat : k \in 1..n => \E m \in 1..k : w[k] \in Lined(R, m)}
<1>2. 0 \in Good
  OBVIOUS
<1>3. ASSUME NEW k \in Nat, k \in Good PROVE k + 1 \in Good
  <2> SUFFICES ASSUME k + 1 \in 1..n
               PROVE  \E m \in 1..(k + 1) : w[k + 1] \in Lined(R, m)
    OBVIOUS
  <2>1. w[k + 1] = WalkStep(R, w, k + 1)
    BY <1>1
  <2>2. CASE k = 0
    <3>1. PICK d : d = Min(Geneses(R))
      OBVIOUS
    <3>2. d \in Geneses(R)
      <4>1. Geneses(R) \in SUBSET Nat
        BY DEF Geneses, Scanned
      <4> QED
        BY <3>1, <4>1, MinIs
    <3>3. d \in DOMAIN R /\ R[d].previous = NoDigest
      BY <3>2 DEF Geneses
    <3>4. w[k + 1] = <<d>>
      BY <2>1, <2>2, <3>1 DEF WalkStep
    <3>5. <<d>> \in Seq(DOMAIN R) /\ Len(<<d>>) = 1 /\ <<d>>[1] = d
      BY <3>3
    <3>6. Links(R, <<d>>)
      BY <3>3, <3>5 DEF Links
    <3>7. <<d>> \in Lined(R, 1)
      BY <3>5, <3>6 DEF Lined
    <3> QED
      BY <2>2, <3>4, <3>7
  <2>3. CASE k # 0
    <3>1. k \in 1..n /\ k + 1 # 1 /\ (k + 1) - 1 = k
      BY <2>3
    <3>2. PICK m \in 1..k : w[k] \in Lined(R, m)
      BY <1>3, <3>1
    <3>3. PICK b : b = w[k]
      OBVIOUS
    <3>4. b \in Seq(DOMAIN R) /\ Len(b) = m /\ Last(b) = b[m]
      BY <3>2, <3>3 DEF Lined, Last
    <3>5. w[k + 1] = WalkFrom(R, b)
      BY <2>1, <3>1, <3>3 DEF WalkStep
    <3>6. CASE Successors(R, b[m]) = {}
      BY <3>2, <3>3, <3>4, <3>5, <3>6 DEF WalkFrom
    <3>7. CASE Successors(R, b[m]) # {}
      <4>1. PICK d : d = Min(Successors(R, b[m]))
        OBVIOUS
      <4>2. d \in Successors(R, b[m])
        <5>1. Successors(R, b[m]) \in SUBSET Nat
          BY DEF Successors, Scanned
        <5> QED
          BY <3>7, <4>1, <5>1, MinIs
      <4>3. d \in DOMAIN R /\ R[d].previous = b[m]
        BY <4>2 DEF Successors
      <4>4. m + 1 \in Nat \ {0} /\ (m + 1) - 1 = m /\ m + 1 # 1 /\ m + 1 \in 1..(k + 1)
        OBVIOUS
      <4>5. Append(b, d) \in Lined(R, m + 1)
        BY <3>2, <3>3, <4>3, <4>4, LinedAppend
      <4>6. w[k + 1] = Append(b, d)
        BY <3>4, <3>5, <3>7, <4>1 DEF WalkFrom
      <4> QED
        BY <4>4, <4>5, <4>6
    <3> QED
      BY <3>6, <3>7
  <2> QED
    BY <2>2, <2>3
<1> HIDE DEF Good
<1>4. n \in Good
  BY <1>2, <1>3, SetInduction
<1>5. \E m \in 1..n : w[n] \in Lined(R, m)
  BY <1>4 DEF Good
<1> QED
  BY <1>1, <1>5

\* A line through every leaf is what the walk finds.
LEMMA WalkIsOrder ==
  ASSUME NEW R, Scanned(R), NEW n \in Nat \ {0}, NEW q \in Lined(R, n), ToSet(q) = DOMAIN R
  PROVE  Walk(R) = q
<1>1. n = Cardinality(DOMAIN R)
  BY LineLength
<1>2. PICK w : w = [k \in 1..n |-> WalkStep(R, w, k)] /\ Walk(R) = w[n]
  BY <1>1, WalkUnfolds
<1>3. /\ q \in Seq(DOMAIN R) /\ Len(q) = n
      /\ \A k \in 1..n : q[k] \in DOMAIN R /\ q[k] \in Nat
  BY DEF Lined, Scanned
<1>4. \A k \in 1..n : Min({q[k]}) = q[k]
  <2>1. ASSUME NEW k \in 1..n PROVE Min({q[k]}) = q[k]
    <3>1. {q[k]} \in SUBSET Nat /\ {q[k]} # {}
      BY <1>3
    <3> QED
      BY <3>1, MinIs
  <2> QED
    BY <2>1
<1>5. /\ Geneses(R) = {q[1]}
      /\ \A k \in 1..n : Successors(R, q[k]) = IF k < n THEN {q[k + 1]} ELSE {}
  BY LineLinkage
<1> DEFINE To(k) == [i \in 1..k |-> q[i]]
           Good == {k \in Nat : k \in 1..n => w[k] = To(k)}
<1>6. 0 \in Good
  OBVIOUS
<1>7. ASSUME NEW k \in Nat, k \in Good PROVE k + 1 \in Good
  <2> SUFFICES ASSUME k + 1 \in 1..n PROVE w[k + 1] = To(k + 1)
    OBVIOUS
  <2>1. w[k + 1] = WalkStep(R, w, k + 1)
    BY <1>2
  <2>2. CASE k = 0
    <3>1. w[1] = <<q[1]>>
      BY <1>4, <1>5, <2>1, <2>2 DEF WalkStep
    <3>2. <<q[1]>> = [i \in 1..1 |-> q[i]]
      OBVIOUS
    <3> QED
      BY <2>2, <3>1, <3>2
  <2>3. CASE k # 0
    <3>1. k \in 1..n /\ k + 1 # 1 /\ (k + 1) - 1 = k /\ k < n
      BY <2>3
    <3>2. w[k] = To(k)
      BY <1>7, <3>1
    <3>3. PICK b : b = To(k)
      OBVIOUS
    <3>4. b \in Seq(DOMAIN R) /\ Len(b) = k /\ \A i \in 1..k : b[i] = q[i]
      BY <1>3, <3>1, <3>3
    <3>5. Last(b) = q[k]
      BY <3>1, <3>4 DEF Last
    <3>6. Successors(R, q[k]) = {q[k + 1]} /\ Min({q[k + 1]}) = q[k + 1]
      BY <1>4, <1>5, <3>1
    <3>7. WalkFrom(R, b) = Append(b, q[k + 1])
      BY <3>5, <3>6 DEF WalkFrom
    <3>8. w[k + 1] = WalkFrom(R, b)
      BY <2>1, <3>1, <3>2, <3>3 DEF WalkStep
    <3>9. Append(b, q[k + 1]) = To(k + 1)
      BY <1>3, <3>1, <3>4
    <3> QED
      BY <3>7, <3>8, <3>9
  <2> QED
    BY <2>2, <2>3
<1> HIDE DEF Good
<1>8. n \in Good
  BY <1>6, <1>7, SetInduction
<1>9. w[n] = [i \in 1..n |-> q[i]]
  BY <1>8 DEF Good
<1>10. q = [i \in 1..n |-> q[i]]
  BY <1>3
<1> QED
  BY <1>2, <1>9, <1>10

\* The linkage pass finds nothing wrong when the walk is a line through
\* every leaf, and only then.
LEMMA LinkageFinds ==
  ASSUME NEW R, Scanned(R), NEW n \in Nat \ {0}, n = Cardinality(DOMAIN R)
  PROVE  /\ Linkage(R) = WellFormedChain <=>
              Walk(R) \in Lined(R, n) /\ ToSet(Walk(R)) = DOMAIN R
         /\ Linkage(R) # WellFormedChain => IsDefect(Linkage(R))
         /\ ~IsDefect(WellFormedChain)
<1>1. /\ Linkage(R) = WellFormedChain <=>
           /\ Cardinality(Geneses(R)) = 1 /\ Orphaned(R) = {} /\ Branching(R) = {}
           /\ ToSet(Walk(R)) = DOMAIN R
      /\ Linkage(R) # WellFormedChain => IsDefect(Linkage(R))
      /\ ~IsDefect(WellFormedChain)
  BY DEF Linkage, WellFormedChain, Verdict, IsDefect
<1>2. ASSUME Linkage(R) = WellFormedChain PROVE Walk(R) \in Lined(R, n)
  <2>1. Geneses(R) # {}
    BY <1>1, <1>2, FS_EmptySet
  <2>2. PICK m \in 1..n : Walk(R) \in Lined(R, m)
    BY <2>1, WalkLine
  <2>3. ToSet(Walk(R)) = DOMAIN R
    BY <1>1, <1>2
  <2>4. m = n
    BY <2>2, <2>3, LineLength
  <2> QED
    BY <2>2, <2>4
<1>3. ASSUME Walk(R) \in Lined(R, n), ToSet(Walk(R)) = DOMAIN R
      PROVE  Linkage(R) = WellFormedChain
  <2>1. PICK q : q = Walk(R)
    OBVIOUS
  <2>2. Geneses(R) = {q[1]} /\ Orphaned(R) = {} /\ Branching(R) = {}
    BY <1>3, <2>1, LineLinkage
  <2>3. Cardinality({q[1]}) = 1
    BY FS_Singleton
  <2> QED
    BY <1>1, <1>3, <2>2, <2>3
<1> QED
  BY <1>1, <1>2, <1>3

-----------------------------------------------------------------------------
(* The pass over the classes, and what IsChain asks of an order.           *)

InClass(R, q, class) == {i \in DOMAIN q : R[q[i]].class = class}

RegisteredOnce(R, q) ==
  \A i, j \in InClass(R, q, "registered") : R[q[i]].txid = R[q[j]].txid => i = j
SettledOnce(R, q) ==
  \A i, j \in InClass(R, q, "settled") : R[q[i]].txid = R[q[j]].txid => i = j
RefersBack(R, q) ==
  \A i \in InClass(R, q, "registered") :
    R[q[i]].refers # NoDigest =>
      \E j \in InClass(R, q, "intent") : j < i /\ q[j] = R[q[i]].refers
OnlyCommit(R, q, i, j) ==
  \A k \in InClass(R, q, "settled") \ {i} : \A l \in InClass(R, q, "registered") :
    (/\ R[q[i]].outcome = "committed" /\ R[q[k]].outcome = "committed"
     /\ q[l] = R[q[k]].refers /\ R[q[l]].refers = R[q[j]].refers)
       => R[q[j]].refers = NoDigest
SettlesBack(R, q) ==
  \A i \in InClass(R, q, "settled") :
    \E j \in InClass(R, q, "registered") :
      /\ j < i /\ q[j] = R[q[i]].refers /\ R[q[j]].txid = R[q[i]].txid
      /\ OnlyCommit(R, q, i, j)

\* The entries of an order refer as IsChain asks.
Referring(R, q) ==
  RegisteredOnce(R, q) /\ SettledOnce(R, q) /\ RefersBack(R, q) /\ SettlesBack(R, q)

\* What a chain is, in these words.
LEMMA ChainIs ==
  ASSUME NEW R, NEW n \in Nat, n = Cardinality(DOMAIN R)
  PROVE  IsChain(R) <=>
           \E q \in Lined(R, n) : ToSet(q) = DOMAIN R /\ Referring(R, q)
<1>1. Threads(R, n) = Lined(R, n)
  BY ThreadsAre
<1>2. IsChain(R) <=>
        \E q \in Threads(R, n) : ToSet(q) = DOMAIN R /\ Referring(R, q)
  BY DEF IsChain, Referring, RegisteredOnce, SettledOnce, RefersBack, SettlesBack,
         OnlyCommit, InClass
<1> QED
  BY <1>1, <1>2

\* The names of the faults; none of them is the name of a good chain.
LEMMA FaultNames ==
  ASSUME NEW R, NEW q, NEW i
  PROVE  /\ Fault(R, q, i) \in {"none", "duplicate-registration", "fulfills-unresolved",
              "settlement-without-registration", "settlement-txid-mismatch",
              "duplicate-settlement", "duplicate-fulfillment"}
         /\ Fault(R, q, i) # "well-formed"
<1>1. \A e : RegisteredFault(R, q, i, e) \in
        {"none", "duplicate-registration", "fulfills-unresolved"}
  BY DEF RegisteredFault
<1>2. \A e : SettledFault(R, q, i, e) \in
        {"none", "settlement-without-registration", "settlement-txid-mismatch",
         "duplicate-settlement", "duplicate-fulfillment"}
  BY DEF SettledFault
<1>3. Fault(R, q, i) \in {"none", "duplicate-registration", "fulfills-unresolved",
              "settlement-without-registration", "settlement-txid-mismatch",
              "duplicate-settlement", "duplicate-fulfillment"}
  BY <1>1, <1>2 DEF Fault
<1> QED
  BY <1>3

\* When nothing is wrong at one place.
LEMMA FaultIs ==
  ASSUME NEW R, NEW q, NEW i
  PROVE  Fault(R, q, i) = "none" <=>
    /\ R[q[i]].class = "registered" =>
         /\ \A j \in Earlier(R, q, i, "registered") : R[q[j]].txid # R[q[i]].txid
         /\ R[q[i]].refers # NoDigest => Admissible(R, q, i, R[q[i]].refers)
    /\ R[q[i]].class = "settled" =>
         /\ \E j \in Earlier(R, q, i, "registered") : q[j] = R[q[i]].refers
         /\ R[R[q[i]].refers].txid = R[q[i]].txid
         /\ \A j \in Earlier(R, q, i, "settled") : R[q[j]].txid # R[q[i]].txid
         /\ FulfilledBy(R, R[q[i]]) # NoDigest =>
              \A j \in Earlier(R, q, i, "settled") :
                FulfilledBy(R, R[q[j]]) # FulfilledBy(R, R[q[i]])
<1>1. PICK e : e = R[q[i]]
  OBVIOUS
<1>2. RegisteredFault(R, q, i, e) = "none" <=>
         /\ \A j \in Earlier(R, q, i, "registered") : R[q[j]].txid # e.txid
         /\ e.refers # NoDigest => Admissible(R, q, i, e.refers)
  BY DEF RegisteredFault
<1>3. SettledFault(R, q, i, e) = "none" <=>
         /\ \E j \in Earlier(R, q, i, "registered") : q[j] = e.refers
         /\ R[e.refers].txid = e.txid
         /\ \A j \in Earlier(R, q, i, "settled") : R[q[j]].txid # e.txid
         /\ FulfilledBy(R, e) # NoDigest =>
              \A j \in Earlier(R, q, i, "settled") :
                FulfilledBy(R, R[q[j]]) # FulfilledBy(R, e)
  BY DEF SettledFault
<1>4. Fault(R, q, i) = CASE e.class = "registered" -> RegisteredFault(R, q, i, e)
                         [] e.class = "settled" -> SettledFault(R, q, i, e)
                         [] OTHER -> "none"
  BY <1>1 DEF Fault
<1>5. CASE e.class = "registered"
  BY <1>1, <1>2, <1>4, <1>5
<1>6. CASE e.class = "settled"
  BY <1>1, <1>3, <1>4, <1>6
<1>7. CASE e.class \notin {"registered", "settled"}
  BY <1>1, <1>4, <1>7
<1> QED
  BY <1>5, <1>6, <1>7

\* The loop over the classes finds no fault when the entries refer as they
\* should.
LEMMA ReferringIsFaultless ==
  ASSUME NEW R, NEW n \in Nat, NEW q \in Lined(R, n), ToSet(q) = DOMAIN R, Referring(R, q),
         NEW i \in 1..n
  PROVE  Fault(R, q, i) = "none"
<1>1. DOMAIN q = 1..n /\ \A k \in 1..n : q[k] \in DOMAIN R
  BY DEF Lined
<1>2. \A class : InClass(R, q, class) = {k \in 1..n : R[q[k]].class = class}
  BY <1>1 DEF InClass
<1>3. \A class : Earlier(R, q, i, class) = {k \in InClass(R, q, class) : k < i}
  BY <1>2 DEF Earlier
<1>4. ASSUME R[q[i]].class = "registered"
      PROVE  /\ \A j \in Earlier(R, q, i, "registered") : R[q[j]].txid # R[q[i]].txid
             /\ R[q[i]].refers # NoDigest => Admissible(R, q, i, R[q[i]].refers)
  <2>1. i \in InClass(R, q, "registered")
    BY <1>2, <1>4
  <2>2. \A j \in Earlier(R, q, i, "registered") : R[q[j]].txid # R[q[i]].txid
    BY <1>2, <1>3, <2>1 DEF Referring, RegisteredOnce
  <2>3. ASSUME R[q[i]].refers # NoDigest PROVE Admissible(R, q, i, R[q[i]].refers)
    <3>1. PICK j \in InClass(R, q, "intent") : j < i /\ q[j] = R[q[i]].refers
      BY <2>1, <2>3 DEF Referring, RefersBack
    <3> QED
      BY <1>1, <1>2, <3>1 DEF Admissible
  <2> QED
    BY <2>2, <2>3
<1>5. ASSUME R[q[i]].class = "settled"
      PROVE  /\ \E j \in Earlier(R, q, i, "registered") : q[j] = R[q[i]].refers
             /\ R[R[q[i]].refers].txid = R[q[i]].txid
             /\ \A j \in Earlier(R, q, i, "settled") : R[q[j]].txid # R[q[i]].txid
             /\ FulfilledBy(R, R[q[i]]) # NoDigest =>
                  \A j \in Earlier(R, q, i, "settled") :
                    FulfilledBy(R, R[q[j]]) # FulfilledBy(R, R[q[i]])
  <2>1. i \in InClass(R, q, "settled")
    BY <1>2, <1>5
  <2>2. PICK j \in InClass(R, q, "registered") :
          /\ j < i /\ q[j] = R[q[i]].refers /\ R[q[j]].txid = R[q[i]].txid
          /\ OnlyCommit(R, q, i, j)
    BY <2>1 DEF Referring, SettlesBack
  <2>3. \A k \in Earlier(R, q, i, "settled") : R[q[k]].txid # R[q[i]].txid
    BY <1>2, <1>3, <2>1 DEF Referring, SettledOnce
  <2>4. ASSUME FulfilledBy(R, R[q[i]]) # NoDigest, NEW k \in Earlier(R, q, i, "settled"),
               FulfilledBy(R, R[q[k]]) = FulfilledBy(R, R[q[i]])
        PROVE  FALSE
    <3>1. k \in InClass(R, q, "settled") \ {i}
      BY <1>2, <1>3
    <3>2. PICK l \in InClass(R, q, "registered") : q[l] = R[q[k]].refers
      BY <3>1 DEF Referring, SettlesBack
    <3>3. /\ R[q[i]].outcome = "committed" /\ R[q[k]].outcome = "committed"
          /\ FulfilledBy(R, R[q[i]]) = R[R[q[i]].refers].refers
          /\ FulfilledBy(R, R[q[k]]) = R[R[q[k]].refers].refers
      BY <2>4 DEF FulfilledBy
    <3>4. R[q[l]].refers = R[q[j]].refers /\ R[q[j]].refers # NoDigest
      BY <2>2, <2>4, <3>2, <3>3
    <3> QED
      BY <2>2, <3>1, <3>2, <3>3, <3>4 DEF OnlyCommit
  <2> QED
    BY <1>3, <2>2, <2>3, <2>4
<1> QED
  BY <1>4, <1>5, FaultIs

\* And when it finds none, they do.
LEMMA FaultlessIsReferring ==
  ASSUME NEW R, NEW n \in Nat, NEW q \in Lined(R, n), ToSet(q) = DOMAIN R,
         \A i \in 1..n : Fault(R, q, i) = "none"
  PROVE  Referring(R, q)
<1>1. DOMAIN q = 1..n /\ \A k \in 1..n : q[k] \in DOMAIN R
  BY DEF Lined
<1>2. \A class : InClass(R, q, class) = {k \in 1..n : R[q[k]].class = class}
  BY <1>1 DEF InClass
<1>3. \A i \in 1..n : \A class :
        Earlier(R, q, i, class) = {k \in InClass(R, q, class) : k < i}
  BY <1>2 DEF Earlier
<1>4. ASSUME NEW i \in InClass(R, q, "registered")
      PROVE  /\ i \in 1..n
             /\ \A j \in Earlier(R, q, i, "registered") : R[q[j]].txid # R[q[i]].txid
             /\ R[q[i]].refers # NoDigest => Admissible(R, q, i, R[q[i]].refers)
  BY <1>2, FaultIs
<1>5. ASSUME NEW i \in InClass(R, q, "settled")
      PROVE  /\ i \in 1..n
             /\ \E j \in Earlier(R, q, i, "registered") : q[j] = R[q[i]].refers
             /\ R[R[q[i]].refers].txid = R[q[i]].txid
             /\ \A j \in Earlier(R, q, i, "settled") : R[q[j]].txid # R[q[i]].txid
             /\ FulfilledBy(R, R[q[i]]) # NoDigest =>
                  \A j \in Earlier(R, q, i, "settled") :
                    FulfilledBy(R, R[q[j]]) # FulfilledBy(R, R[q[i]])
  <2>1. i \in 1..n /\ R[q[i]].class = "settled"
    BY <1>2
  <2> QED
    BY <2>1, FaultIs
<1>6. RegisteredOnce(R, q)
  <2> SUFFICES ASSUME NEW i \in InClass(R, q, "registered"),
                      NEW j \in InClass(R, q, "registered"),
                      R[q[i]].txid = R[q[j]].txid, i # j
               PROVE  FALSE
    BY DEF RegisteredOnce
  <2>1. i \in 1..n /\ j \in 1..n
    BY <1>4
  <2>2. i \in Earlier(R, q, j, "registered") \/ j \in Earlier(R, q, i, "registered")
    BY <1>3, <2>1
  <2> QED
    BY <1>4, <2>2
<1>7. SettledOnce(R, q)
  <2> SUFFICES ASSUME NEW i \in InClass(R, q, "settled"),
                      NEW j \in InClass(R, q, "settled"),
                      R[q[i]].txid = R[q[j]].txid, i # j
               PROVE  FALSE
    BY DEF SettledOnce
  <2>1. i \in 1..n /\ j \in 1..n
    BY <1>5
  <2>2. i \in Earlier(R, q, j, "settled") \/ j \in Earlier(R, q, i, "settled")
    BY <1>3, <2>1
  <2> QED
    BY <1>5, <2>2
<1>8. RefersBack(R, q)
  <2> SUFFICES ASSUME NEW i \in InClass(R, q, "registered"), R[q[i]].refers # NoDigest
               PROVE  \E j \in InClass(R, q, "intent") : j < i /\ q[j] = R[q[i]].refers
    BY DEF RefersBack
  <2>1. PICK j \in DOMAIN q : /\ j < i /\ q[j] = R[q[i]].refers
                              /\ R[R[q[i]].refers].class = "intent"
    BY <1>4 DEF Admissible
  <2> QED
    BY <1>1, <1>2, <2>1
<1>9. SettlesBack(R, q)
  <2> SUFFICES ASSUME NEW i \in InClass(R, q, "settled")
               PROVE  \E j \in InClass(R, q, "registered") :
                        /\ j < i /\ q[j] = R[q[i]].refers /\ R[q[j]].txid = R[q[i]].txid
                        /\ OnlyCommit(R, q, i, j)
    BY DEF SettlesBack
  <2>1. i \in 1..n
    BY <1>5
  <2>2. PICK j \in Earlier(R, q, i, "registered") : q[j] = R[q[i]].refers
    BY <1>5
  <2>3. j \in InClass(R, q, "registered") /\ j < i
    BY <1>3, <2>1, <2>2
  <2>4. R[q[j]].txid = R[q[i]].txid
    BY <1>5, <2>2
  <2>5. OnlyCommit(R, q, i, j)
    <3> SUFFICES ASSUME NEW k \in InClass(R, q, "settled"), k # i,
                        NEW l \in InClass(R, q, "registered"),
                        R[q[i]].outcome = "committed", R[q[k]].outcome = "committed",
                        q[l] = R[q[k]].refers, R[q[l]].refers = R[q[j]].refers,
                        R[q[j]].refers # NoDigest
                 PROVE  FALSE
      BY DEF OnlyCommit
    <3>1. q[l] \in DOMAIN R /\ q[j] \in DOMAIN R /\ k \in 1..n
      BY <1>1, <1>2, <1>5, <2>3
    <3>2. /\ FulfilledBy(R, R[q[i]]) = R[q[j]].refers
          /\ FulfilledBy(R, R[q[k]]) = R[q[j]].refers
      BY <2>2, <3>1 DEF FulfilledBy
    <3>3. i \in Earlier(R, q, k, "settled") \/ k \in Earlier(R, q, i, "settled")
      BY <1>3, <2>1, <3>1
    <3> QED
      BY <1>5, <3>2, <3>3
  <2> QED
    BY <2>3, <2>2, <2>4, <2>5
<1> QED
  BY <1>6, <1>7, <1>8, <1>9 DEF Referring

\* A scanned directory of some leaves has as many as it has names.
LEMMA ScannedSize ==
  ASSUME NEW R, Scanned(R), R # <<>>
  PROVE  Cardinality(DOMAIN R) \in Nat \ {0}
<1>1. DOMAIN R # {}
  <2> SUFFICES ASSUME DOMAIN R = {} PROVE R = <<>>
    OBVIOUS
  <2>1. R = [d \in {} |-> R[d]]
    BY DEF Scanned
  <2>2. [d \in {} |-> R[d]] = <<>>
    OBVIOUS
  <2> QED
    BY <2>1, <2>2
<1>2. IsFiniteSet(DOMAIN R)
  BY DEF Scanned
<1> QED
  BY <1>1, <1>2, FS_CardinalityType, FS_EmptySet

\* What inspection says of a scanned directory is what it is.
LEMMA InspectionIsChain ==
  ASSUME NEW R, Scanned(R), R # <<>>
  PROVE  Inspect(R) = WellFormedChain <=> IsChain(R)
<1>1. PICK n : n = Cardinality(DOMAIN R)
  OBVIOUS
<1>2. n \in Nat \ {0}
  BY <1>1, ScannedSize
<1>3. IsChain(R) <=> \E q \in Lined(R, n) : ToSet(q) = DOMAIN R /\ Referring(R, q)
  BY <1>1, <1>2, ChainIs
<1>4. Inspect(R) = WellFormedChain <=>
        Linkage(R) = WellFormedChain /\ Classes(R, Walk(R)) = WellFormedChain
  BY <1>1, <1>2, LinkageFinds DEF Inspect
<1>5. ASSUME NEW q \in Lined(R, n)
      PROVE  Classes(R, q) = WellFormedChain <=> \A i \in 1..n : Fault(R, q, i) = "none"
  <2>1. DOMAIN q = 1..n
    BY DEF Lined
  <2>2. PICK F : F = {i \in 1..n : Fault(R, q, i) # "none"}
    OBVIOUS
  <2>3. Classes(R, q) = IF F = {} THEN WellFormedChain
                        ELSE Verdict(Fault(R, q, Min(F)), q[Min(F)])
    BY <2>1, <2>2 DEF Classes
  <2>4. Verdict(Fault(R, q, Min(F)), q[Min(F)]) # WellFormedChain
    BY FaultNames DEF Verdict, WellFormedChain
  <2> QED
    BY <2>2, <2>3, <2>4
<1>6. ASSUME Inspect(R) = WellFormedChain PROVE IsChain(R)
  <2>1. PICK q : q = Walk(R)
    OBVIOUS
  <2>2. q \in Lined(R, n) /\ ToSet(q) = DOMAIN R
    BY <1>1, <1>2, <1>4, <1>6, <2>1, LinkageFinds
  <2>3. \A i \in 1..n : Fault(R, q, i) = "none"
    BY <1>4, <1>5, <1>6, <2>1, <2>2
  <2>4. Referring(R, q)
    BY <1>2, <2>2, <2>3, FaultlessIsReferring
  <2> QED
    BY <1>3, <2>2, <2>4
<1>7. ASSUME IsChain(R) PROVE Inspect(R) = WellFormedChain
  <2>1. PICK q \in Lined(R, n) : ToSet(q) = DOMAIN R /\ Referring(R, q)
    BY <1>3, <1>7
  <2>2. Walk(R) = q
    BY <1>2, <2>1, WalkIsOrder
  <2>3. Linkage(R) = WellFormedChain
    BY <1>1, <1>2, <2>1, <2>2, LinkageFinds
  <2>4. \A i \in 1..n : Fault(R, q, i) = "none"
    BY <1>2, <2>1, ReferringIsFaultless
  <2>5. Classes(R, q) = WellFormedChain
    BY <1>5, <2>4
  <2> QED
    BY <1>4, <2>2, <2>3, <2>5
<1> QED
  BY <1>6, <1>7

-----------------------------------------------------------------------------
(* Every directory of a history can be scanned.                            *)

\* A digest that has not been used is a name.
LEMMA FreshIs ==
  ASSUME NEW d \in Fresh
  PROVE  d \in Digests /\ d \notin drawn.digests /\ d \in Nat \ {NoDigest}
<1>1. PICK left : left = Digests \ drawn.digests
  OBVIOUS
<1>2. left # {} /\ d = Min(left)
  BY <1>1 DEF Fresh
<1>3. left \in SUBSET Nat
  BY <1>1, HistoryBounds DEF Digests
<1>4. d \in left
  BY <1>2, <1>3, MinIs
<1> QED
  BY <1>1, <1>4, HistoryBounds DEF Digests, NoDigest

\* One more entry.
LEMMA WithIs ==
  ASSUME NEW d, NEW e, Scanned(rows), d \in Nat \ {NoDigest}
  PROVE  /\ Scanned(With(d, e)) /\ DOMAIN With(d, e) = DOMAIN rows \cup {d}
         /\ With(d, e)[d] = e
<1>1. IsFiniteSet(DOMAIN rows \cup {d})
  BY FS_AddElement DEF Scanned
<1> QED
  BY <1>1 DEF With, Scanned

\* The first directories.
LEMMA ScannedInit ==
  ASSUME HInit
  PROVE  Scanned(rows)
<1>1. CASE Registration
  <2>1. IsFiniteSet({1})
    BY FS_Singleton
  <2> QED
    BY <1>1, <2>1 DEF Registration, Scanned, NoDigest
<1>2. CASE Scattered
  <2>1. PICK S \in SUBSET (1..3) : rows \in [S -> {Genesis} \cup {Intent(p) : p \in 1..3}]
    BY <1>2 DEF Scattered
  <2>2. IsFiniteSet(S)
    <3>1. PICK a \in Int, b \in Int : a = 1 /\ b = 3
      OBVIOUS
    <3>2. IsFiniteSet(a..b)
      BY FS_Interval
    <3> QED
      BY <3>1, <3>2, FS_Subset
  <2>3. DOMAIN rows = S /\ rows = [d \in S |-> rows[d]]
    BY <2>1
  <2> QED
    BY <2>2, <2>3 DEF Scanned, NoDigest
<1>3. CASE Mixed
  <2>1. PICK a, b, c, d, e : rows = <<a, b, c, d, e>>
    BY <1>3 DEF Mixed
  <2>2. DOMAIN rows = 1..5 /\ rows = [i \in 1..5 |-> rows[i]]
    BY <2>1
  <2>3. PICK i \in Int, j \in Int : i = 1 /\ j = 5
    OBVIOUS
  <2>4. IsFiniteSet(i..j)
    BY FS_Interval
  <2> QED
    BY <2>2, <2>3, <2>4 DEF Scanned, NoDigest
<1> QED
  BY <1>1, <1>2, <1>3 DEF HInit

\* Every step leaves a directory that can be scanned.
LEMMA ScannedStep ==
  ASSUME Scanned(rows), [HNext]_hvars
  PROVE  Scanned(rows')
<1>1. CASE AppendIntent
  <2>1. PICK d \in Fresh : rows' = With(d, Intent(Tip(rows)))
    BY <1>1 DEF AppendIntent
  <2> QED
    BY <2>1, FreshIs, WithIs
<1>2. CASE PublishRegistration
  <2>1. PICK d \in Fresh : rows' = With(d, staged)
    BY <1>2 DEF PublishRegistration
  <2> QED
    BY <2>1, FreshIs, WithIs
<1>3. ASSUME NEW outcome \in {"committed", "rolled-back"}, Settle(outcome)
      PROVE  Scanned(rows')
  <2>1. PICK d \in Fresh :
          rows' = With(d, Settled(Tip(rows), active.txid, active.registration, outcome))
    BY <1>3 DEF Settle
  <2> QED
    BY <2>1, FreshIs, WithIs
<1>4. CASE LoseLeaf
  <2>1. PICK d \in DOMAIN rows : rows' = [x \in DOMAIN rows \ {d} |-> rows[x]]
    BY <1>4 DEF LoseLeaf
  <2>2. IsFiniteSet(DOMAIN rows \ {d})
    BY FS_RemoveElement DEF Scanned
  <2> QED
    BY <2>1, <2>2 DEF Scanned
<1>5. CASE FindLeaf
  <2>1. PICK d \in Fresh : \E p \in drawn.digests : \E e \in Anywhere(p) :
          rows' = With(d, e)
    BY <1>5 DEF FindLeaf
  <2>2. PICK e : rows' = With(d, e)
    BY <2>1
  <2> QED
    BY <2>2, FreshIs, WithIs
<1>6. CASE UNCHANGED rows
  BY <1>6
<1> QED
  BY <1>1, <1>2, <1>3, <1>4, <1>5, <1>6
     DEF HNext, Command, StageRegistration, RemoveStaged, Submit, LoseRecord, hvars

\* In every history inspection calls the directory well-formed exactly when
\* it is a chain (chain/inspect.py: inspect_scan over _linearize and
\* _inspect_entry_classes).
THEOREM InspectionHolds == HSpec => []InspectionAgrees
<1>1. HInit => Scanned(rows)
  BY ScannedInit
<1>2. Scanned(rows) /\ [HNext]_hvars => Scanned(rows)'
  <2> SUFFICES ASSUME Scanned(rows), [HNext]_hvars PROVE Scanned(rows)'
    OBVIOUS
  <2>1. Scanned(rows')
    BY ScannedStep
  <2> QED
    BY <2>1 DEF Scanned
<1>3. Scanned(rows) => InspectionAgrees
  BY InspectionIsChain DEF InspectionAgrees
<1> QED
  BY <1>1, <1>2, <1>3, PTL DEF HSpec

-----------------------------------------------------------------------------
(* A command appends to a chain.                                           *)

\* R with the entry e, under the name d.
Extends(S, R, d, e) ==
  /\ Scanned(S) /\ DOMAIN S = DOMAIN R \cup {d}
  /\ S[d] = e /\ \A x \in DOMAIN R : x # d => S[x] = R[x]

\* What the gates of the commands see to before e is written.
Fits(R, e) ==
  /\ e.class = "registered" =>
       /\ \A x \in DOMAIN R : R[x].class = "registered" => R[x].txid # e.txid
       /\ e.refers # NoDigest => e.refers \in DOMAIN R /\ R[e.refers].class = "intent"
  /\ e.class = "settled" =>
       /\ \A x \in DOMAIN R : R[x].class = "settled" => R[x].txid # e.txid
       /\ e.refers \in DOMAIN R /\ R[e.refers].class = "registered"
       /\ R[e.refers].txid = e.txid
       /\ R[e.refers].refers # NoDigest => R[e.refers].refers \notin Fulfilled(R)

\* A committed settlement in an order fulfills something.
LEMMA SettledFulfills ==
  ASSUME NEW R, NEW n \in Nat, NEW q \in Lined(R, n),
         NEW i \in 1..n, R[q[i]].class = "settled", R[q[i]].outcome = "committed",
         R[q[i]].refers \in DOMAIN R
  PROVE  R[R[q[i]].refers].refers \in Fulfilled(R)
<1>1. q[i] \in DOMAIN R
  BY DEF Lined
<1>2. FulfilledBy(R, R[q[i]]) = R[R[q[i]].refers].refers
  BY DEF FulfilledBy
<1> QED
  BY <1>1, <1>2 DEF Fulfilled

\* An order is an order of the larger directory, longer by the new name.
LEMMA OrderGrows ==
  ASSUME NEW R, Scanned(R), NEW n \in Nat \ {0}, NEW q \in Lined(R, n), ToSet(q) = DOMAIN R,
         NEW S, NEW d, NEW e, d \notin DOMAIN R, Extends(S, R, d, e), e.previous = q[n]
  PROVE  /\ Append(q, d) \in Lined(S, n + 1) /\ ToSet(Append(q, d)) = DOMAIN S
         /\ DOMAIN Append(q, d) = 1..(n + 1) /\ Append(q, d)[n + 1] = d
         /\ \A i \in 1..n : Append(q, d)[i] = q[i] /\ S[q[i]] = R[q[i]]
         /\ n + 1 = Cardinality(DOMAIN S)
<1>1. /\ q \in Seq(DOMAIN R) /\ Len(q) = n /\ Links(R, q)
      /\ \A i \in 1..n : q[i] \in DOMAIN R /\ q[i] \in DOMAIN S
  BY DEF Lined, Extends
<1>2. q \in Seq(DOMAIN S)
  BY <1>1
<1>3. \A i \in 1..n : S[q[i]] = R[q[i]]
  BY <1>1 DEF Extends
<1>4. q \in Lined(S, n)
  BY <1>1, <1>2, <1>3 DEF Lined, Links
<1>5. n + 1 \in Nat \ {0} /\ (n + 1) - 1 = n /\ n + 1 # 1
  OBVIOUS
<1>6. d \in DOMAIN S /\ S[d].previous = q[n]
  BY DEF Extends
<1>7. PICK p : p = Append(q, d)
  OBVIOUS
<1>8. p \in Lined(S, n + 1)
  BY <1>4, <1>5, <1>6, <1>7, LinedAppend
<1>9. p \in Seq(DOMAIN S) /\ Len(p) = n + 1 /\ p[n + 1] = d /\ \A i \in 1..n : p[i] = q[i]
  BY <1>1, <1>2, <1>6, <1>7, AppendProperties
<1>10. DOMAIN p = 1..(n + 1)
  BY <1>9
<1>11. ToSet(p) = DOMAIN S
  <2>1. \A x \in DOMAIN R : \E i \in 1..n : x = q[i]
    BY <1>1 DEF ToSet
  <2>2. ToSet(p) = {p[i] : i \in 1..(n + 1)}
    BY <1>10 DEF ToSet
  <2>3. ASSUME NEW x \in DOMAIN S PROVE \E i \in 1..(n + 1) : x = p[i]
    <3>1. CASE x = d
      BY <1>9, <3>1
    <3>2. CASE x # d
      <4>1. x \in DOMAIN R
        BY <3>2 DEF Extends
      <4>2. PICK i \in 1..n : x = q[i]
        BY <2>1, <4>1
      <4> QED
        BY <1>9, <4>2
    <3> QED
      BY <3>1, <3>2
  <2>4. \A i \in 1..(n + 1) : p[i] \in DOMAIN S
    BY <1>9
  <2> QED
    BY <2>2, <2>3, <2>4
<1>12. n + 1 = Cardinality(DOMAIN S)
  BY <1>5, <1>8, <1>11, LineLength DEF Extends
<1> QED
  BY <1>3, <1>7, <1>8, <1>9, <1>10, <1>11, <1>12

\* With an entry that fits, a chain is a chain again.
LEMMA ChainGrows ==
  ASSUME NEW R, Scanned(R), NEW n \in Nat \ {0}, NEW q \in Lined(R, n), ToSet(q) = DOMAIN R,
         Referring(R, q), NEW S, NEW d, NEW e, d \notin DOMAIN R, Extends(S, R, d, e),
         e.previous = q[n], Fits(R, e)
  PROVE  IsChain(S)
<1>1. PICK p : p = Append(q, d)
  OBVIOUS
<1>2. /\ p \in Lined(S, n + 1) /\ ToSet(p) = DOMAIN S
      /\ DOMAIN p = 1..(n + 1) /\ p[n + 1] = d
      /\ \A i \in 1..n : p[i] = q[i] /\ S[q[i]] = R[q[i]]
      /\ n + 1 = Cardinality(DOMAIN S)
  BY <1>1, OrderGrows
<1>3. /\ DOMAIN q = 1..n /\ \A i \in 1..n : q[i] \in DOMAIN R
      /\ \A x \in DOMAIN R : \E i \in 1..n : x = q[i]
  BY DEF Lined, ToSet
<1>4. /\ \A i \in 1..n : p[i] = q[i] /\ S[p[i]] = R[q[i]]
      /\ p[n + 1] = d /\ S[p[n + 1]] = e
  BY <1>2 DEF Extends
<1>5. \A class : InClass(R, q, class) = {k \in 1..n : R[q[k]].class = class}
  BY <1>3 DEF InClass
<1>6. \A class : InClass(S, p, class) = {k \in 1..(n + 1) : S[p[k]].class = class}
  BY <1>2 DEF InClass
<1>7. ASSUME NEW class, NEW k \in InClass(S, p, class)
      PROVE  \/ k \in InClass(R, q, class) /\ k \in 1..n
             \/ k = n + 1 /\ e.class = class
  BY <1>4, <1>5, <1>6
<1>8. \A class : \A k \in InClass(R, q, class) : k \in 1..n /\ k \in InClass(S, p, class)
  BY <1>4, <1>5, <1>6
<1>9. RegisteredOnce(S, p)
  <2> SUFFICES ASSUME NEW i \in InClass(S, p, "registered"),
                      NEW j \in InClass(S, p, "registered"),
                      S[p[i]].txid = S[p[j]].txid
               PROVE  i = j
    BY DEF RegisteredOnce
  <2>1. \/ i \in InClass(R, q, "registered") /\ i \in 1..n
        \/ i = n + 1 /\ e.class = "registered"
    BY <1>7
  <2>2. \/ j \in InClass(R, q, "registered") /\ j \in 1..n
        \/ j = n + 1 /\ e.class = "registered"
    BY <1>7
  <2>3. CASE i \in InClass(R, q, "registered") /\ j \in InClass(R, q, "registered")
    BY <1>4, <1>8, <2>3 DEF Referring, RegisteredOnce
  <2>4. CASE i \in InClass(R, q, "registered") /\ j = n + 1 /\ e.class = "registered"
    BY <1>3, <1>4, <1>5, <2>4 DEF Fits
  <2>5. CASE j \in InClass(R, q, "registered") /\ i = n + 1 /\ e.class = "registered"
    BY <1>3, <1>4, <1>5, <2>5 DEF Fits
  <2> QED
    BY <2>1, <2>2, <2>3, <2>4, <2>5
<1>10. SettledOnce(S, p)
  <2> SUFFICES ASSUME NEW i \in InClass(S, p, "settled"),
                      NEW j \in InClass(S, p, "settled"),
                      S[p[i]].txid = S[p[j]].txid
               PROVE  i = j
    BY DEF SettledOnce
  <2>1. \/ i \in InClass(R, q, "settled") /\ i \in 1..n
        \/ i = n + 1 /\ e.class = "settled"
    BY <1>7
  <2>2. \/ j \in InClass(R, q, "settled") /\ j \in 1..n
        \/ j = n + 1 /\ e.class = "settled"
    BY <1>7
  <2>3. CASE i \in InClass(R, q, "settled") /\ j \in InClass(R, q, "settled")
    BY <1>4, <1>8, <2>3 DEF Referring, SettledOnce
  <2>4. CASE i \in InClass(R, q, "settled") /\ j = n + 1 /\ e.class = "settled"
    BY <1>3, <1>4, <1>5, <2>4 DEF Fits
  <2>5. CASE j \in InClass(R, q, "settled") /\ i = n + 1 /\ e.class = "settled"
    BY <1>3, <1>4, <1>5, <2>5 DEF Fits
  <2> QED
    BY <2>1, <2>2, <2>3, <2>4, <2>5
<1>11. RefersBack(S, p)
  <2> SUFFICES ASSUME NEW i \in InClass(S, p, "registered"), S[p[i]].refers # NoDigest
               PROVE  \E j \in InClass(S, p, "intent") : j < i /\ p[j] = S[p[i]].refers
    BY DEF RefersBack
  <2>1. CASE i \in InClass(R, q, "registered") /\ i \in 1..n
    <3>1. PICK j \in InClass(R, q, "intent") : j < i /\ q[j] = R[q[i]].refers
      BY <1>4, <2>1 DEF Referring, RefersBack
    <3> QED
      BY <1>4, <1>8, <2>1, <3>1
  <2>2. CASE i = n + 1 /\ e.class = "registered"
    <3>1. e.refers \in DOMAIN R /\ R[e.refers].class = "intent"
      BY <1>4, <2>2 DEF Fits
    <3>2. PICK j \in 1..n : q[j] = e.refers
      BY <1>3, <3>1
    <3>3. j \in InClass(R, q, "intent")
      BY <1>5, <3>1, <3>2
    <3> QED
      BY <1>4, <1>8, <2>2, <3>2, <3>3
  <2> QED
    BY <1>7, <2>1, <2>2
<1>12. ASSUME NEW k \in InClass(R, q, "settled")
       PROVE  R[q[k]].refers \in DOMAIN R
  <2>1. PICK j \in InClass(R, q, "registered") : q[j] = R[q[k]].refers
    BY DEF Referring, SettlesBack
  <2> QED
    BY <1>3, <1>5, <2>1
<1>13. ASSUME NEW l \in InClass(S, p, "registered"), p[l] \in DOMAIN R
       PROVE  l \in InClass(R, q, "registered") /\ l \in 1..n
  BY <1>4, <1>7, <1>13
<1>14. SettlesBack(S, p)
  <2> SUFFICES ASSUME NEW i \in InClass(S, p, "settled")
               PROVE  \E j \in InClass(S, p, "registered") :
                        /\ j < i /\ p[j] = S[p[i]].refers /\ S[p[j]].txid = S[p[i]].txid
                        /\ OnlyCommit(S, p, i, j)
    BY DEF SettlesBack
  <2>1. CASE i \in InClass(R, q, "settled") /\ i \in 1..n
    <3>1. PICK j \in InClass(R, q, "registered") :
            /\ j < i /\ q[j] = R[q[i]].refers /\ R[q[j]].txid = R[q[i]].txid
            /\ OnlyCommit(R, q, i, j)
      BY <2>1 DEF Referring, SettlesBack
    <3>2. j \in 1..n /\ j \in InClass(S, p, "registered")
      BY <1>8
    <3>3. OnlyCommit(S, p, i, j)
      <4> SUFFICES ASSUME NEW k \in InClass(S, p, "settled"), k # i,
                          NEW l \in InClass(S, p, "registered"),
                          S[p[i]].outcome = "committed", S[p[k]].outcome = "committed",
                          p[l] = S[p[k]].refers, S[p[l]].refers = S[p[j]].refers
                   PROVE  S[p[j]].refers = NoDigest
        BY DEF OnlyCommit
      <4>1. CASE k \in InClass(R, q, "settled") /\ k \in 1..n
        <5>1. p[l] \in DOMAIN R
          BY <1>4, <1>12, <4>1
        <5>2. l \in InClass(R, q, "registered") /\ l \in 1..n
          BY <1>13, <5>1
        <5>3. /\ R[q[i]].outcome = "committed" /\ R[q[k]].outcome = "committed"
              /\ q[l] = R[q[k]].refers /\ R[q[l]].refers = R[q[j]].refers
          BY <1>4, <2>1, <3>2, <4>1, <5>2
        <5>4. R[q[j]].refers = NoDigest
          BY <3>1, <4>1, <5>2, <5>3 DEF OnlyCommit
        <5> QED
          BY <1>4, <3>2, <5>4
      <4>2. CASE k = n + 1 /\ e.class = "settled"
        <5>1. p[l] = e.refers /\ e.refers \in DOMAIN R
          BY <1>4, <4>2 DEF Fits
        <5>2. l \in InClass(R, q, "registered") /\ l \in 1..n
          BY <1>13, <5>1
        <5>3. R[e.refers].refers = R[q[j]].refers
          BY <1>4, <3>2, <5>1, <5>2
        <5>4. R[q[j]].refers \in Fulfilled(R)
          <6>1. R[q[i]].class = "settled" /\ R[q[i]].outcome = "committed"
            BY <1>4, <1>5, <2>1
          <6>2. R[q[i]].refers \in DOMAIN R
            BY <1>12, <2>1
          <6>3. R[R[q[i]].refers].refers \in Fulfilled(R)
            BY <2>1, <6>1, <6>2, SettledFulfills
          <6> QED
            BY <3>1, <6>3
        <5>5. R[q[j]].refers = NoDigest
          BY <4>2, <5>3, <5>4 DEF Fits
        <5> QED
          BY <1>4, <3>2, <5>5
      <4> QED
        BY <1>7, <4>1, <4>2
    <3> QED
      BY <1>4, <2>1, <3>1, <3>2, <3>3
  <2>2. CASE i = n + 1 /\ e.class = "settled"
    <3>1. e.refers \in DOMAIN R /\ R[e.refers].class = "registered" /\ R[e.refers].txid = e.txid
      BY <2>2 DEF Fits
    <3>2. PICK j \in 1..n : q[j] = e.refers
      BY <1>3, <3>1
    <3>3. j \in InClass(R, q, "registered") /\ j \in InClass(S, p, "registered")
      BY <1>5, <1>8, <3>1, <3>2
    <3>4. OnlyCommit(S, p, i, j)
      <4> SUFFICES ASSUME NEW k \in InClass(S, p, "settled"), k # i,
                          NEW l \in InClass(S, p, "registered"),
                          S[p[i]].outcome = "committed", S[p[k]].outcome = "committed",
                          p[l] = S[p[k]].refers, S[p[l]].refers = S[p[j]].refers
                   PROVE  S[p[j]].refers = NoDigest
        BY DEF OnlyCommit
      <4>1. k \in InClass(R, q, "settled") /\ k \in 1..n
        BY <1>7, <2>2
      <4>2. p[l] \in DOMAIN R
        BY <1>4, <1>12, <4>1
      <4>3. l \in InClass(R, q, "registered") /\ l \in 1..n
        BY <1>13, <4>2
      <4>4. R[R[q[k]].refers].refers \in Fulfilled(R)
        <5>1. R[q[k]].class = "settled" /\ R[q[k]].outcome = "committed"
          BY <1>4, <1>5, <4>1
        <5>2. R[q[k]].refers \in DOMAIN R
          BY <1>12, <4>1
        <5> QED
          BY <4>1, <5>1, <5>2, SettledFulfills
      <4>5. q[l] = R[q[k]].refers /\ R[q[l]].refers = R[q[j]].refers
        BY <1>4, <3>2, <4>1, <4>3
      <4>6. R[e.refers].refers \in Fulfilled(R)
        BY <3>2, <4>4, <4>5
      <4>7. R[e.refers].refers = NoDigest
        BY <2>2, <4>6 DEF Fits
      <4> QED
        BY <1>4, <3>2, <4>7
    <3> QED
      BY <1>4, <2>2, <3>1, <3>2, <3>3, <3>4
  <2> QED
    BY <1>7, <2>1, <2>2
<1>15. Referring(S, p)
  BY <1>9, <1>10, <1>11, <1>14 DEF Referring
<1>16. n + 1 \in Nat
  OBVIOUS
<1> QED
  BY <1>2, <1>15, <1>16, ChainIs

-----------------------------------------------------------------------------
(* What is known of the active row between a gate and the entry it guards. *)

Ended == {"registered", "settled"}

\* No entry of a class has this txid.
Unused(class, t) == \A x \in DOMAIN rows : rows[x].class = class => rows[x].txid # t

\* The row of a transaction that has not registered, and of one that has.
Unregistered(r) ==
  /\ Unused("registered", r.txid)
  /\ r.fulfills # NoDigest => r.fulfills \in DOMAIN rows /\ rows[r.fulfills].class = "intent"
IsRegistered(r) ==
  /\ r.registration \in DOMAIN rows /\ staged = NoEnvelope
  /\ rows[r.registration].class = "registered"
  /\ rows[r.registration].txid = r.txid /\ rows[r.registration].refers = r.fulfills

ActiveInv ==
  active # NoRecord =>
    /\ active.txid \in drawn.txids /\ Unused("settled", active.txid)
    /\ active.fulfills # NoDigest => active.fulfills \notin Fulfilled(rows)
    /\ IF active.registration = NoDigest THEN Unregistered(active) ELSE IsRegistered(active)

HistoryInv ==
  /\ Scanned(rows) /\ DOMAIN rows \subseteq drawn.digests
  /\ drawn = [txids |-> drawn.txids, digests |-> drawn.digests]
  /\ \A x \in DOMAIN rows :
       rows[x].class \in Ended /\ rows[x].txid \in Txids => rows[x].txid \in drawn.txids
  /\ active = [txid |-> active.txid, fulfills |-> active.fulfills,
               registration |-> active.registration]
  /\ ActiveInv

\* The first directories, and what has been used.
LEMMA HistoryInit ==
  ASSUME HInit
  PROVE  HistoryInv
<1>1. Scanned(rows)
  BY ScannedInit
<1>2. active = NoRecord
  BY DEF HInit
<1>3. drawn = [txids |-> {rows[d].txid : d \in DOMAIN rows} \cap Txids,
               digests |-> DOMAIN rows]
  BY DEF HInit
<1>4. active = [txid |-> active.txid, fulfills |-> active.fulfills,
                registration |-> active.registration]
  BY <1>2 DEF NoRecord
<1> QED
  BY <1>1, <1>2, <1>3, <1>4 DEF HistoryInv, ActiveInv

\* A good chain and its order.
LEMMA GoodOrder ==
  ASSUME Scanned(rows), Inspect(rows) = WellFormedChain
  PROVE  \E n \in Nat \ {0} : \E q \in Lined(rows, n) :
           /\ ToSet(q) = DOMAIN rows /\ Referring(rows, q)
           /\ q = Walk(rows) /\ Tip(rows) = q[n]
<1>1. rows # <<>>
  BY DEF Inspect, WellFormedChain, Verdict
<1>2. PICK n : n = Cardinality(DOMAIN rows)
  OBVIOUS
<1>3. n \in Nat \ {0}
  BY <1>1, <1>2, ScannedSize
<1>4. PICK q \in Lined(rows, n) : ToSet(q) = DOMAIN rows /\ Referring(rows, q)
  BY <1>1, <1>2, <1>3, InspectionIsChain, ChainIs
<1>5. q = Walk(rows)
  BY <1>3, <1>4, WalkIsOrder
<1>6. Len(q) = n
  BY <1>4 DEF Lined
<1>7. Tip(rows) = q[n]
  BY <1>5, <1>6 DEF Tip, Last
<1> QED
  BY <1>3, <1>4, <1>5, <1>7

\* What a good chain's settlements refer to.
LEMMA SettledRefers ==
  ASSUME Scanned(rows), Inspect(rows) = WellFormedChain,
         NEW x \in DOMAIN rows, rows[x].class = "settled"
  PROVE  rows[x].refers \in DOMAIN rows
<1>1. PICK n \in Nat \ {0} : \E q \in Lined(rows, n) :
        ToSet(q) = DOMAIN rows /\ Referring(rows, q)
  BY GoodOrder
<1> PICK q \in Lined(rows, n) : ToSet(q) = DOMAIN rows /\ Referring(rows, q)
  BY <1>1
<1>2. DOMAIN q = 1..n /\ \A i \in 1..n : q[i] \in DOMAIN rows
  BY DEF Lined
<1>3. PICK i \in 1..n : q[i] = x
  BY <1>1, <1>2 DEF ToSet
<1>4. i \in InClass(rows, q, "settled")
  BY <1>2, <1>3 DEF InClass
<1>5. PICK j \in InClass(rows, q, "registered") : q[j] = rows[x].refers
  BY <1>1, <1>3, <1>4 DEF Referring, SettlesBack
<1> QED
  BY <1>2, <1>5 DEF InClass

\* With an entry that fits, an appended directory stays a chain.
LEMMA AppendKeepsChain ==
  ASSUME HistoryInv, Inspect(rows) = WellFormedChain, NEW d \in Fresh, NEW e,
         rows' = With(d, e), e.previous = Tip(rows), Fits(rows, e)
  PROVE  IsChain(rows')
<1>1. /\ Scanned(rows) /\ d \notin DOMAIN rows /\ d \in Nat \ {NoDigest}
  BY FreshIs DEF HistoryInv
<1>2. PICK n \in Nat \ {0} : \E q \in Lined(rows, n) :
        ToSet(q) = DOMAIN rows /\ Referring(rows, q) /\ Tip(rows) = q[n]
  BY <1>1, GoodOrder
<1> PICK q \in Lined(rows, n) :
      ToSet(q) = DOMAIN rows /\ Referring(rows, q) /\ Tip(rows) = q[n]
  BY <1>2
<1>3. PICK S : S = rows'
  OBVIOUS
<1>4. Extends(S, rows, d, e)
  <2>1. S = With(d, e)
    BY <1>3
  <2>2. /\ Scanned(S) /\ DOMAIN S = DOMAIN rows \cup {d}
        /\ S[d] = e /\ \A x \in DOMAIN rows : x # d => S[x] = rows[x]
    <3>1. /\ Scanned(With(d, e)) /\ DOMAIN With(d, e) = DOMAIN rows \cup {d}
          /\ With(d, e)[d] = e
      BY <1>1, WithIs
    <3>2. \A x \in DOMAIN rows : x # d => With(d, e)[x] = rows[x]
      BY DEF With
    <3> QED
      BY <2>1, <3>1, <3>2
  <2> QED
    BY <2>2 DEF Extends
<1>5. IsChain(S)
  BY <1>1, <1>2, <1>4, ChainGrows
<1> QED
  BY <1>3, <1>5

\* The fields of what commands write.
LEMMA EntryFields ==
  /\ \A p : Intent(p).class = "intent" /\ Intent(p).previous = p
  /\ \A p, t, f : /\ Registered(p, t, f).class = "registered"
                  /\ Registered(p, t, f).previous = p
                  /\ Registered(p, t, f).txid = t /\ Registered(p, t, f).refers = f
  /\ \A p, t, r, o : /\ Settled(p, t, r, o).class = "settled"
                     /\ Settled(p, t, r, o).previous = p
                     /\ Settled(p, t, r, o).txid = t /\ Settled(p, t, r, o).refers = r
BY DEF Intent, Registered, Settled, Genesis

\* A registration is published for a row that has none.
LEMMA RowUnregistered ==
  ASSUME HistoryInv, PublishRegistration
  PROVE  /\ active # NoRecord /\ active.registration = NoDigest
         /\ Unused("settled", active.txid) /\ Unregistered(active)
         /\ active.fulfills # NoDigest => active.fulfills \notin Fulfilled(rows)
         /\ active.txid \in drawn.txids
<1>1. active # NoRecord /\ staged = RegistrationOf(active)
  BY DEF PublishRegistration, Running
<1>2. staged # NoEnvelope
  <2>1. RegistrationOf(active).class = "registered"
    BY EntryFields DEF RegistrationOf
  <2>2. NoEnvelope.class = "none"
    BY DEF NoEnvelope
  <2> QED
    BY <1>1, <2>1, <2>2
<1> QED
  BY <1>1, <1>2 DEF HistoryInv, ActiveInv, IsRegistered

\* No command turns a chain into anything else.
LEMMA CommandKeeps ==
  ASSUME HistoryInv, Command
  PROVE  IsChain(rows) => IsChain(rows')
<1>1. CASE AppendIntent
  <2>1. PICK d \in Fresh : rows' = With(d, Intent(Tip(rows)))
    BY <1>1 DEF AppendIntent
  <2>2. PICK e : e = Intent(Tip(rows))
    OBVIOUS
  <2>3. e.class = "intent" /\ e.previous = Tip(rows)
    BY <2>2, EntryFields
  <2>4. Inspect(rows) = WellFormedChain
    BY <1>1 DEF AppendIntent, Ready
  <2>5. Fits(rows, e)
    BY <2>3 DEF Fits
  <2> QED
    BY <2>1, <2>2, <2>3, <2>4, <2>5, AppendKeepsChain
<1>2. CASE PublishRegistration
  <2>1. PICK d \in Fresh : rows' = With(d, staged)
    BY <1>2 DEF PublishRegistration
  <2>2. staged = Registered(Tip(rows), active.txid, active.fulfills)
        /\ Inspect(rows) = WellFormedChain
    BY <1>2 DEF PublishRegistration, RegistrationOf, Running
  <2>3. PICK e : e = staged
    OBVIOUS
  <2>4. /\ e.class = "registered" /\ e.previous = Tip(rows)
        /\ e.txid = active.txid /\ e.refers = active.fulfills
    BY <2>2, <2>3, EntryFields
  <2>5. Fits(rows, e)
    <3>1. Unregistered(active)
      BY <1>2, RowUnregistered
    <3> QED
      BY <2>4, <3>1 DEF Fits, Unregistered, Unused
  <2> QED
    BY <2>1, <2>2, <2>3, <2>4, <2>5, AppendKeepsChain
<1>3. ASSUME NEW outcome \in {"committed", "rolled-back"}, Settle(outcome)
      PROVE  IsChain(rows')
  <2>1. PICK d \in Fresh :
          rows' = With(d, Settled(Tip(rows), active.txid, active.registration, outcome))
    BY <1>3 DEF Settle
  <2>2. PICK e : e = Settled(Tip(rows), active.txid, active.registration, outcome)
    OBVIOUS
  <2>3. /\ e.class = "settled" /\ e.previous = Tip(rows)
        /\ e.txid = active.txid /\ e.refers = active.registration
    BY <2>2, EntryFields
  <2>4. /\ Inspect(rows) = WellFormedChain /\ active # NoRecord
        /\ active.registration # NoDigest
    BY <1>3 DEF Settle, Running
  <2>5. /\ Unused("settled", active.txid) /\ IsRegistered(active)
        /\ active.fulfills # NoDigest => active.fulfills \notin Fulfilled(rows)
    BY <2>4 DEF HistoryInv, ActiveInv
  <2>6. Fits(rows, e)
    BY <2>3, <2>5 DEF Fits, Unused, IsRegistered
  <2> QED
    BY <2>1, <2>2, <2>3, <2>4, <2>6, AppendKeepsChain
<1>4. CASE UNCHANGED rows
  BY <1>4
<1> QED
  BY <1>1, <1>2, <1>3, <1>4 DEF Command, StageRegistration, RemoveStaged, Submit

\* One more entry, of a txid that has been used, under a digest that is used now.
LEMMA DrawnGrows ==
  ASSUME HistoryInv, NEW d \in Fresh, NEW e, rows' = With(d, e),
         drawn' = [txids |-> drawn'.txids, digests |-> drawn'.digests],
         drawn'.digests = drawn.digests \cup {d}, drawn.txids \subseteq drawn'.txids,
         e.class \in Ended /\ e.txid \in Txids => e.txid \in drawn'.txids
  PROVE  /\ Scanned(rows') /\ DOMAIN rows' \subseteq drawn'.digests
         /\ drawn' = [txids |-> drawn'.txids, digests |-> drawn'.digests]
         /\ \A x \in DOMAIN rows' :
              rows'[x].class \in Ended /\ rows'[x].txid \in Txids
                => rows'[x].txid \in drawn'.txids
<1>1. Scanned(rows) /\ d \in Nat \ {NoDigest}
  BY FreshIs DEF HistoryInv
<1>2. Scanned(rows') /\ DOMAIN rows' = DOMAIN rows \cup {d}
  BY <1>1, WithIs
<1>3. \A x \in DOMAIN rows' : rows'[x] = IF x = d THEN e ELSE rows[x]
  BY <1>2 DEF With
<1> QED
  BY <1>2, <1>3 DEF HistoryInv

\* A registration changes nothing that has been fulfilled.
LEMMA FulfilledStays ==
  ASSUME HistoryInv, Inspect(rows) = WellFormedChain, NEW d \in Fresh, NEW e,
         rows' = With(d, e), e.class # "settled"
  PROVE  \A f : f \in Fulfilled(rows') => f \in Fulfilled(rows)
<1>1. Scanned(rows) /\ d \notin DOMAIN rows /\ d \in Nat \ {NoDigest}
  BY FreshIs DEF HistoryInv
<1>2. DOMAIN rows' = DOMAIN rows \cup {d} /\ rows'[d] = e
  BY <1>1, WithIs
<1>3. \A x \in DOMAIN rows : rows'[x] = rows[x]
  BY <1>1 DEF With
<1>4. ASSUME NEW x \in DOMAIN rows', rows'[x].class = "settled"
      PROVE  /\ x \in DOMAIN rows /\ rows[x].class = "settled"
             /\ FulfilledBy(rows', rows'[x]) = FulfilledBy(rows, rows[x])
  <2>1. x \in DOMAIN rows /\ rows'[x] = rows[x]
    BY <1>2, <1>3, <1>4
  <2>2. rows[x].refers \in DOMAIN rows
    BY <1>1, <1>4, <2>1, SettledRefers
  <2>3. rows'[rows[x].refers] = rows[rows[x].refers] /\ rows[x].refers \in DOMAIN rows'
    BY <1>2, <1>3, <2>2
  <2> QED
    BY <1>4, <2>1, <2>2, <2>3 DEF FulfilledBy
<1> QED
  BY <1>4 DEF Fulfilled

\* HistoryInv is inductive.
LEMMA HistoryStep ==
  ASSUME HistoryInv, [HNext]_hvars
  PROVE  HistoryInv'
<1> DEFINE Shape(r) == r = [txid |-> r.txid, fulfills |-> r.fulfills,
                            registration |-> r.registration]
<1>1. CASE AppendIntent
  <2>1. PICK d \in Fresh : rows' = With(d, Intent(Tip(rows))) /\ drawn' = Draw(d)
    BY <1>1 DEF AppendIntent
  <2>2. PICK e : e = Intent(Tip(rows))
    OBVIOUS
  <2>3. e.class \notin Ended
    BY <2>2, EntryFields DEF Ended
  <2>4. /\ drawn' = [txids |-> drawn'.txids, digests |-> drawn'.digests]
        /\ drawn'.digests = drawn.digests \cup {d} /\ drawn'.txids = drawn.txids
    BY <2>1 DEF HistoryInv, Draw
  <2>5. active' = NoRecord /\ active = NoRecord
    BY <1>1 DEF AppendIntent, Ready
  <2>6. /\ Scanned(rows') /\ DOMAIN rows' \subseteq drawn'.digests
        /\ \A x \in DOMAIN rows' :
             rows'[x].class \in Ended /\ rows'[x].txid \in Txids
               => rows'[x].txid \in drawn'.txids
    BY <2>1, <2>2, <2>3, <2>4, DrawnGrows
  <2> QED
    BY <2>4, <2>5, <2>6 DEF HistoryInv, ActiveInv, Scanned
<1>2. ASSUME NEW t \in Txids, NEW f \in DOMAIN rows \cup {NoDigest}, Submit(t, f)
      PROVE  HistoryInv'
  <2>1. /\ UNCHANGED <<rows, staged>> /\ t \notin drawn.txids
        /\ drawn' = [drawn EXCEPT !.txids = @ \cup {t}]
        /\ active' = [txid |-> t, fulfills |-> f, registration |-> NoDigest]
        /\ Inspect(rows) = WellFormedChain
        /\ f = NoDigest \/ AdmissibleFulfills(f)
    BY <1>2 DEF Submit, Ready
  <2>2. /\ drawn' = [txids |-> drawn'.txids, digests |-> drawn'.digests]
        /\ drawn'.digests = drawn.digests /\ drawn'.txids = drawn.txids \cup {t}
    BY <2>1 DEF HistoryInv
  <2>3. Unused("settled", t) /\ Unused("registered", t)
    BY <2>1 DEF HistoryInv, Unused, Ended
  <2>4. ASSUME f # NoDigest
        PROVE  f \in DOMAIN rows /\ rows[f].class = "intent" /\ f \notin Fulfilled(rows)
    BY <2>1, <2>4 DEF AdmissibleFulfills, Admissible
  <2>5. ActiveInv'
    BY <2>1, <2>2, <2>3, <2>4 DEF ActiveInv, Unregistered, Unused
  <2> QED
    BY <2>1, <2>2, <2>5 DEF HistoryInv, Scanned
<1>3. CASE StageRegistration
  <2>1. UNCHANGED <<rows, active, drawn>> /\ active # NoRecord /\ active.registration = NoDigest
    BY <1>3 DEF StageRegistration, Running
  <2>2. ActiveInv'
    BY <2>1 DEF HistoryInv, ActiveInv, Unregistered, Unused
  <2> QED
    BY <2>1, <2>2 DEF HistoryInv, Scanned
<1>4. CASE PublishRegistration
  <2>1. PICK d \in Fresh : /\ rows' = With(d, staged) /\ drawn' = Draw(d)
                           /\ active' = [active EXCEPT !.registration = d]
    BY <1>4 DEF PublishRegistration
  <2>2. /\ staged = Registered(Tip(rows), active.txid, active.fulfills)
        /\ Inspect(rows) = WellFormedChain /\ staged' = NoEnvelope
    BY <1>4 DEF PublishRegistration, RegistrationOf, Running
  <2>3. PICK e : e = staged
    OBVIOUS
  <2>4. e.class = "registered" /\ e.txid = active.txid /\ e.refers = active.fulfills
    BY <2>2, <2>3, EntryFields
  <2>5. /\ Unused("settled", active.txid) /\ active.txid \in drawn.txids
        /\ active.fulfills # NoDigest => active.fulfills \notin Fulfilled(rows)
    BY <1>4, RowUnregistered
  <2>6. /\ drawn' = [txids |-> drawn'.txids, digests |-> drawn'.digests]
        /\ drawn'.digests = drawn.digests \cup {d} /\ drawn'.txids = drawn.txids
    BY <2>1 DEF HistoryInv, Draw
  <2>7. /\ Scanned(rows') /\ DOMAIN rows' \subseteq drawn'.digests
        /\ \A x \in DOMAIN rows' :
             rows'[x].class \in Ended /\ rows'[x].txid \in Txids
               => rows'[x].txid \in drawn'.txids
    BY <2>1, <2>3, <2>4, <2>5, <2>6, DrawnGrows
  <2>8. /\ Shape(active') /\ active'.registration = d
        /\ active'.txid = active.txid /\ active'.fulfills = active.fulfills
    BY <2>1 DEF HistoryInv
  <2>9. d \in Nat \ {NoDigest} /\ Scanned(rows)
    BY FreshIs DEF HistoryInv
  <2>10. DOMAIN rows' = DOMAIN rows \cup {d} /\ rows'[d] = e
    BY <2>1, <2>3, <2>9, WithIs
  <2>11. \A x \in DOMAIN rows' : rows'[x] = IF x = d THEN e ELSE rows[x]
    BY <2>1, <2>3, <2>10 DEF With
  <2>12. Unused("settled", active.txid)'
    BY <2>4, <2>5, <2>8, <2>10, <2>11 DEF Unused
  <2>13. active.fulfills # NoDigest => active.fulfills \notin Fulfilled(rows')
    BY <2>1, <2>2, <2>3, <2>4, <2>5, FulfilledStays
  <2>14. IsRegistered(active)'
    BY <2>2, <2>4, <2>8, <2>10 DEF IsRegistered
  <2>15. ActiveInv'
    BY <2>5, <2>6, <2>8, <2>9, <2>12, <2>13, <2>14 DEF ActiveInv
  <2> QED
    BY <2>6, <2>7, <2>8, <2>15 DEF HistoryInv, Scanned
<1>5. CASE RemoveStaged
  <2>1. UNCHANGED <<rows, active, drawn>> /\ staged' = NoEnvelope
    BY <1>5 DEF RemoveStaged
  <2>2. ActiveInv'
    BY <2>1 DEF HistoryInv, ActiveInv, Unregistered, IsRegistered, Unused
  <2> QED
    BY <2>1, <2>2 DEF HistoryInv, Scanned
<1>6. ASSUME NEW outcome \in {"committed", "rolled-back"}, Settle(outcome)
      PROVE  HistoryInv'
  <2>1. PICK d \in Fresh :
          /\ rows' = With(d, Settled(Tip(rows), active.txid, active.registration, outcome))
          /\ drawn' = Draw(d)
    BY <1>6 DEF Settle
  <2>2. PICK e : e = Settled(Tip(rows), active.txid, active.registration, outcome)
    OBVIOUS
  <2>3. e.txid = active.txid
    BY <2>2, EntryFields
  <2>4. /\ drawn' = [txids |-> drawn'.txids, digests |-> drawn'.digests]
        /\ drawn'.digests = drawn.digests \cup {d} /\ drawn'.txids = drawn.txids
    BY <2>1 DEF HistoryInv, Draw
  <2>5. active.txid \in drawn.txids /\ active' = NoRecord
    BY <1>6 DEF Settle, Running, HistoryInv, ActiveInv
  <2>6. /\ Scanned(rows') /\ DOMAIN rows' \subseteq drawn'.digests
        /\ \A x \in DOMAIN rows' :
             rows'[x].class \in Ended /\ rows'[x].txid \in Txids
               => rows'[x].txid \in drawn'.txids
    BY <2>1, <2>2, <2>3, <2>4, <2>5, DrawnGrows
  <2>7. Shape(active')
    BY <2>5 DEF NoRecord
  <2> QED
    BY <2>4, <2>5, <2>6, <2>7 DEF HistoryInv, ActiveInv, Scanned
<1>7. CASE LoseRecord
  <2>1. UNCHANGED <<rows, drawn>> /\ active' = NoRecord
    BY <1>7 DEF LoseRecord
  <2>2. Shape(active')
    BY <2>1 DEF NoRecord
  <2> QED
    BY <2>1, <2>2 DEF HistoryInv, ActiveInv, Scanned
<1>8. CASE LoseLeaf
  <2>1. PICK d \in DOMAIN rows : rows' = [x \in DOMAIN rows \ {d} |-> rows[x]]
    BY <1>8 DEF LoseLeaf
  <2>2. UNCHANGED <<active, drawn>> /\ active = NoRecord
    BY <1>8 DEF LoseLeaf, Outside
  <2>3. Scanned(rows')
    BY <1>8, ScannedStep DEF HNext, HistoryInv
  <2> QED
    BY <2>1, <2>2, <2>3 DEF HistoryInv, ActiveInv, Scanned
<1>9. CASE FindLeaf
  <2>1. PICK d \in Fresh : \E p \in drawn.digests : \E e \in Anywhere(p) :
          /\ rows' = With(d, e)
          /\ drawn' = [txids |-> drawn.txids \cup ({e.txid} \cap Txids),
                       digests |-> drawn.digests \cup {d}]
    BY <1>9 DEF FindLeaf
  <2>2. PICK e : /\ rows' = With(d, e)
                 /\ drawn' = [txids |-> drawn.txids \cup ({e.txid} \cap Txids),
                              digests |-> drawn.digests \cup {d}]
    BY <2>1
  <2>3. UNCHANGED active /\ active = NoRecord
    BY <1>9 DEF FindLeaf, Outside
  <2>4. /\ drawn' = [txids |-> drawn'.txids, digests |-> drawn'.digests]
        /\ drawn'.digests = drawn.digests \cup {d}
        /\ drawn'.txids = drawn.txids \cup ({e.txid} \cap Txids)
    BY <2>2
  <2>5. /\ Scanned(rows') /\ DOMAIN rows' \subseteq drawn'.digests
        /\ \A x \in DOMAIN rows' :
             rows'[x].class \in Ended /\ rows'[x].txid \in Txids
               => rows'[x].txid \in drawn'.txids
    BY <2>2, <2>4, DrawnGrows
  <2> QED
    BY <2>3, <2>4, <2>5 DEF HistoryInv, ActiveInv, Scanned
<1>10. CASE UNCHANGED hvars
  BY <1>10 DEF hvars, HistoryInv, ActiveInv, Unregistered, IsRegistered, Unused, Scanned
<1> QED
  BY <1>1, <1>2, <1>3, <1>4, <1>5, <1>6, <1>7, <1>8, <1>9, <1>10 DEF HNext, Command

\* No command turns a chain into something inspection calls malformed,
\* though its gate judges the entry before another step writes it
\* (commands.py: append_intent, _require_admissible_fulfills, run_transaction).
THEOREM CommandsHold == HSpec => CommandsKeepChain
<1>1. HInit => HistoryInv
  BY HistoryInit
<1>2. HistoryInv /\ [HNext]_hvars => HistoryInv'
  BY HistoryStep
<1>3. HistoryInv /\ [HNext]_hvars
        => [Command => (IsChain(rows) => IsChain(rows'))]_hvars
  BY CommandKeeps
<1> QED
  BY <1>1, <1>2, <1>3, PTL DEF HSpec, CommandsKeepChain

=============================================================================
