----------------------------- MODULE GuardProofs -----------------------------
(***************************************************************************)
(* Proofs about the guard package and about its reference host, for any    *)
(* sources, tasks and bounds.  Of the package: what bound_context computes *)
(* of any context, that a prepared context is of one revision, and that    *)
(* what is released is current.  Of the host: what its critical section    *)
(* keeps together, and that it implements GuardedThread.                   *)
(***************************************************************************)
EXTENDS MCGuard, FiniteSetTheorems, SequenceTheorems, WellFoundedInduction, TLAPS

------------------------------------------------------------------------------
(* The guard package.                                                      *)

\* No two chunks are of one source.
Distinct(c) == \A m, n \in 1..Len(c) : c[m].ref = c[n].ref => m = n

\* How much is too much, and what goes for it: pairs first, then chunks.
Excess(b) == Guard!Cost(b) - max_context_tokens
Dropped(b) == IF Excess(b) <= 0 THEN 0
              ELSE IF Excess(b) <= Len(b.history) THEN Excess(b) ELSE Len(b.history)
Fits(b) == IF Len(b.chunks) <= max_context_tokens THEN Len(b.chunks) ELSE max_context_tokens

\* The history without its oldest pairs, and the chunks there is room for.
Bounded(b) == Guard!Body(SubSeq(b.chunks, 1, Fits(b)),
                         SubSeq(b.history, 1 + Dropped(b), Len(b.history)))

\* The types of a prepared context and of a decision.
Contexts == [body : Guard!Bodies, revision : Nat, fingerprint : Guard!Bodies]
Answers == {"none", "prepared", "tampered", "readable", "denied", "policy_unavailable",
            "invalid_provenance", "stale_revision", "allowed"}

\* The type invariant: variables of the package, with the lengths of its inputs.
GuardTyped ==
  /\ allowed \in Seq(SUBSET Refs) /\ Len(allowed) \in 1..(MaxChanges + 1)
  /\ standing \in {"owner", "active", "gone"}
  /\ chunks \in Seq(Guard!Chunks) /\ Len(chunks) <= MaxChunks
  /\ pairs \in Seq(Guard!Turns) /\ window \in Seq(Guard!Turns)
  /\ Len(pairs) + Len(window) <= MaxTurns
  /\ at \in {"idle", "prepare", "history", "decided"}
  /\ expected \in 0..Len(allowed)
  /\ bound \in Contexts /\ bound.revision <= Len(allowed)
  /\ answer \in Answers

\* Nothing is answered before a decision, nor asked about before the snapshot.
Asked ==
  /\ at # "decided" => answer = "none"
  /\ at \in {"idle", "prepare"} => window = <<>>

\* What has passed was allowed at the revision of the first snapshot.
Gathered ==
  at = "history" \/ answer = "prepared" =>
    /\ expected \in 1..Len(allowed)
    /\ Guard!ChunkRefs(chunks) \subseteq allowed[expected]
    /\ Guard!HistoryRefs(pairs) \subseteq allowed[expected]
    /\ Distinct(chunks)
    /\ Len(pairs) + Len(window) <= max_prior_turns

\* A prepared context is what bound_context computes, and a tampered one shows.
Sealed ==
  /\ answer = "prepared" =>
       /\ bound.body = Bounded(Guard!Body(chunks, pairs))
       /\ bound.fingerprint = bound.body /\ bound.revision = expected
  /\ answer = "tampered" => bound.fingerprint # bound.body

\* The inductive invariant of the package.
GuardIInv == GuardTyped /\ Asked /\ Gathered /\ Sealed

------------------------------------------------------------------------------
(* Induction and counting.                                                 *)

\* Every nonempty set of numbers has a least element: a statement about every
\* context is proved by its least counterexample.
LEMMA LeastOf ==
  ASSUME NEW T \in SUBSET Nat, T # {}
  PROVE  \E n \in T : \A m \in T : n <= m
<1> DEFINE R == {ss \in Nat \X Nat : ss[1] < ss[2]}
<1>1. IsWellFoundedOn(R, Nat)
    BY NatLessThanWellFounded DEF OpToRel
<1>2. \A m, n \in Nat : <<m, n>> \in R <=> m < n
  OBVIOUS
<1> HIDE DEF R
<1>3. \E n \in T : \A m \in T : ~(<<m, n>> \in R)
    BY <1>1, WFMin
<1>4. \A n \in T : n \in Nat
  OBVIOUS
<1>5. PICK n \in T : \A m \in T : ~(<<m, n>> \in R)
  BY <1>3
<1>6. \A m \in T : ~(m < n)
  BY <1>5, <1>4, <1>2
<1>7. QED
  BY <1>4, <1>6

LEMMA SameCardinality == \A S : Guard!Cardinality(S) = Cardinality(S)
  BY DEF Guard!Cardinality, Cardinality

\* A finite set of numbers is counted through by the ranks of its elements.
LEMMA RanksCover ==
  ASSUME NEW n \in Nat, NEW K \in SUBSET (1..n)
  PROVE  /\ IsFiniteSet(K) /\ Cardinality(K) \in 0..n
         /\ \A k \in 1..Cardinality(K) : \E i \in K : Cardinality({j \in K : j <= i}) = k
<1> DEFINE below(i) == {j \in K : j <= i}
           size == Cardinality(K)
           rank == [i \in K |-> Cardinality(below(i))]
<1>1. IsFiniteSet(1..n) /\ Cardinality(1..n) = n
  BY FS_Interval
<1>2. IsFiniteSet(K) /\ size \in Nat /\ size <= n
  BY <1>1, FS_Subset, FS_CardinalityType
<1>3. IsFiniteSet(1..size) /\ Cardinality(1..size) = size
  BY <1>2, FS_Interval
<1>4. ASSUME NEW i \in K PROVE rank[i] \in 1..size
  <2>1. below(i) \in SUBSET K /\ i \in below(i)
    OBVIOUS
  <2>2. IsFiniteSet(below(i)) /\ Cardinality(below(i)) <= size /\ Cardinality(below(i)) \in Nat
    BY <1>2, <2>1, FS_Subset, FS_CardinalityType
  <2>3. Cardinality(below(i)) # 0
    BY <2>1, <2>2, FS_EmptySet
  <2>4. QED
    BY <1>2, <2>2, <2>3
<1>5. ASSUME NEW i \in K, NEW j \in K, i < j PROVE rank[i] < rank[j]
  <2>0. i \in Nat /\ j \in Nat /\ i <= j /\ ~(j <= i) /\ \A k \in K : k \in Nat
    BY <1>5
  <2>a. \A k \in K : k <= i => k <= j
    BY <2>0
  <2>b. below(i) \in SUBSET below(j)
    BY <2>a
  <2>c. j \in below(j) /\ j \notin below(i)
    BY <2>0
  <2>d. below(j) \in SUBSET K
    OBVIOUS
  <2>1. below(i) \in SUBSET below(j) /\ j \in below(j) /\ j \notin below(i) /\ below(j) \in SUBSET K
    BY <2>b, <2>c, <2>d
  <2>2. IsFiniteSet(below(j))
    BY <1>2, <2>1, FS_Subset
  <2>3. Cardinality(below(i)) <= Cardinality(below(j)) /\ Cardinality(below(j)) # Cardinality(below(i))
    BY <2>1, <2>2, FS_Subset
  <2>4. QED
    BY <1>2, <1>4, <2>3
<1>6. rank \in Injection(K, 1..size)
  <2>1. rank \in [K -> 1..size]
    BY <1>4
  <2>2. ASSUME NEW i \in K, NEW j \in K, rank[i] = rank[j] PROVE i = j
    <3> HIDE DEF rank, size
    <3>1. ~(i < j) /\ ~(j < i)
      BY <1>2, <1>4, <1>5, <2>2
    <3>2. QED
      BY <3>1
  <2> HIDE DEF rank, size
  <2>3. QED
    BY <2>1, <2>2 DEF Injection, IsInjective
<1>7. rank \in Surjection(K, 1..size)
  <2> HIDE DEF rank, size
  <2>1. QED
    BY <1>2, <1>3, <1>6, FS_Injection DEF size
<1>8. \A k \in 1..size : \E i \in K : rank[i] = k
  BY <1>7 DEF Surjection
<1>9. QED
  BY <1>2, <1>8

LEMMA ChosenIs ==
  ASSUME chunks \in Seq(Guard!Chunks)
  PROVE  /\ Guard!Chosen \in Seq(Guard!Chunks)
         /\ Len(Guard!Chosen) \in 0..Len(chunks)
         /\ \A n \in 1..Len(Guard!Chosen) : Guard!Chosen[n].ref \in Guard!Allowed
         /\ Distinct(Guard!Chosen)
<1> DEFINE K == Guard!Kept
           pick(n) == CHOOSE i \in K : Guard!Rank(i) = n
           size == Cardinality(K)
<1>1. Len(chunks) \in Nat /\ DOMAIN chunks = 1..Len(chunks) /\ chunks \in [1..Len(chunks) -> Guard!Chunks]
  BY LenProperties
<1>2. K \in SUBSET (1..Len(chunks))
  BY <1>1 DEF Guard!Kept
<1>3. /\ size \in 0..Len(chunks)
      /\ \A k \in 1..size : \E i \in K : Cardinality({j \in K : j <= i}) = k
  BY <1>1, <1>2, RanksCover
<1>4. \A i \in K : Guard!Rank(i) = Cardinality({j \in K : j <= i})
  BY SameCardinality DEF Guard!Rank
<1>5. ASSUME NEW n \in 1..size PROVE pick(n) \in K /\ Guard!Rank(pick(n)) = n
  BY <1>3, <1>4
<1>6. Guard!Chosen = [n \in 1..size |-> chunks[pick(n)]]
  BY SameCardinality DEF Guard!Chosen
<1>7. \A i \in K : /\ chunks[i].ref \in Guard!Allowed
                   /\ \A j \in 1..(i - 1) : chunks[j].ref # chunks[i].ref
  BY DEF Guard!Kept
<1> HIDE DEF K, pick, size
<1>8. \A n \in 1..size : pick(n) \in K /\ pick(n) \in 1..Len(chunks)
  BY <1>2, <1>5
<1>9. Guard!Chosen \in [1..size -> Guard!Chunks] /\ size \in Nat
  BY <1>1, <1>3, <1>6, <1>8
<1>10. Guard!Chosen \in Seq(Guard!Chunks) /\ Len(Guard!Chosen) = size
  BY <1>9
<1>11. \A n \in 1..size : Guard!Chosen[n] = chunks[pick(n)]
  BY <1>6
<1>12. ASSUME NEW m \in 1..size, NEW n \in 1..size, Guard!Chosen[m].ref = Guard!Chosen[n].ref
       PROVE  m = n
  <2>1. /\ pick(m) \in K /\ pick(n) \in K /\ pick(m) \in Nat /\ pick(n) \in Nat
        /\ pick(m) >= 1 /\ pick(n) >= 1
    BY <1>1, <1>8
  <2>2. chunks[pick(m)].ref = chunks[pick(n)].ref
    BY <1>11, <1>12
  <2>3. ~(pick(m) < pick(n)) /\ ~(pick(n) < pick(m))
    BY <1>7, <2>1, <2>2
  <2>4. pick(m) = pick(n)
    BY <2>1, <2>3
  <2>5. QED
    BY <1>5, <2>4
<1>13. \A n \in 1..size : Guard!Chosen[n].ref \in Guard!Allowed
  BY <1>7, <1>8, <1>11
<1>14. QED
  BY <1>3, <1>10, <1>12, <1>13 DEF Distinct

------------------------------------------------------------------------------
(* What bound_context computes.                                            *)

LEMMA BodyIs ==
  ASSUME NEW b \in Guard!Bodies
  PROVE  /\ b.chunks \in Seq(Guard!Chunks) /\ b.history \in Seq(Guard!Turns)
         /\ Len(b.chunks) \in Nat /\ Len(b.history) \in Nat
         /\ b = Guard!Body(b.chunks, b.history)
         /\ Guard!Cost(b) = Len(b.chunks) + Len(b.history)
         /\ Guard!Cost(b) \in Nat
<1>1. Guard!Cost(b) = Len(b.chunks) + Len(b.history)
  BY DEF Guard!Cost
<1>2. b.chunks \in Seq(Guard!Chunks) /\ b.history \in Seq(Guard!Turns)
  BY DEF Guard!Bodies
<1>3. Len(b.chunks) \in Nat /\ Len(b.history) \in Nat
  BY <1>2, LenProperties
<1>4. b = Guard!Body(b.chunks, b.history)
  BY DEF Guard!Bodies, Guard!Body
<1>5. \A m, n \in Nat : m + n \in Nat
  OBVIOUS
<1>6. Len(b.chunks) + Len(b.history) \in Nat
  BY <1>3, <1>5
<1>7. Guard!Cost(b) \in Nat
  BY <1>1, <1>6
<1>8. QED
  BY <1>1, <1>2, <1>3, <1>4, <1>7

LEMMA TokensNat == max_context_tokens \in Nat
  BY ContextAssumption DEF Guard!GuardAssumption

\* Dropping one pair, or without any the last chunk, drops what Bounded does.
LEMMA PairDropped ==
  ASSUME NEW b \in Guard!Bodies, Guard!Cost(b) > max_context_tokens, b.history # <<>>
  PROVE  /\ Guard!Shorter(b) \in Guard!Bodies /\ Bounded(Guard!Shorter(b)) = Bounded(b)
         /\ Guard!Cost(Guard!Shorter(b)) = Guard!Cost(b) - 1
<1> DEFINE h == b.history
           t == Tail(b.history)
           s == Guard!Shorter(b)
           d == Dropped(b)
<1>1. /\ b.chunks \in Seq(Guard!Chunks) /\ h \in Seq(Guard!Turns)
      /\ Len(b.chunks) \in Nat /\ Len(h) \in Nat
      /\ Guard!Cost(b) = Len(b.chunks) + Len(h)
  BY BodyIs
<1>2. t \in Seq(Guard!Turns) /\ Len(t) = Len(h) - 1 /\ \A i \in 1..Len(t) : t[i] = h[i + 1]
  BY <1>1, HeadTailProperties
<1>3. s = Guard!Body(b.chunks, t) /\ s.chunks = b.chunks /\ s.history = t
  BY DEF Guard!Shorter, Guard!Body
<1>4. s \in Guard!Bodies
  BY <1>1, <1>2, <1>3 DEF Guard!Bodies, Guard!Body
<1>5. Len(h) > 0
  BY <1>1, EmptySeq
<1>6. Guard!Cost(s) = Guard!Cost(b) - 1
  <2>1. Guard!Cost(s) = Len(b.chunks) + Len(t)
    BY <1>3 DEF Guard!Cost
  <2> HIDE DEF s, t, h
  <2>2. QED
    BY <1>1, <1>2, <2>1
<1>7. d \in 1..Len(h) /\ Dropped(s) = d - 1
  <2>1. Dropped(s) = IF Excess(s) <= 0 THEN 0
                     ELSE IF Excess(s) <= Len(t) THEN Excess(s) ELSE Len(t)
    BY <1>3 DEF Dropped
  <2>2. d = IF Excess(b) <= 0 THEN 0
            ELSE IF Excess(b) <= Len(h) THEN Excess(b) ELSE Len(h)
    BY DEF Dropped
  <2>3. Guard!Cost(b) \in Nat /\ Excess(b) = Guard!Cost(b) - max_context_tokens
        /\ Excess(s) = Guard!Cost(s) - max_context_tokens
    BY BodyIs DEF Excess
  <2> HIDE DEF s, t, h, d
  <2>4. Excess(b) \in Nat /\ Excess(b) >= 1 /\ Excess(s) = Excess(b) - 1
    BY <1>6, <2>3, TokensNat
  <2>5. QED
    BY <1>1, <1>2, <1>5, <2>1, <2>2, <2>4
<1>8. Fits(s) = Fits(b)
  BY <1>3 DEF Fits
<1> HIDE DEF d, h, t, s
<1>9. SubSeq(t, d, Len(t)) = SubSeq(h, 1 + d, Len(h))
  <2>1. \A i \in d..Len(t) : t[i] \in Guard!Turns
    BY <1>1, <1>2, <1>7, ElementOfSeq
  <2>2. \A i \in (1 + d)..Len(h) : h[i] \in Guard!Turns
    BY <1>1, <1>7, ElementOfSeq
  <2>3. /\ SubSeq(t, d, Len(t)) \in Seq(Guard!Turns)
        /\ Len(SubSeq(t, d, Len(t))) = Len(t) - d + 1
        /\ \A i \in 1..(Len(t) - d + 1) : SubSeq(t, d, Len(t))[i] = t[d + i - 1]
    BY <1>1, <1>2, <1>7, <2>1, SubSeqProperties
  <2>4. /\ SubSeq(h, 1 + d, Len(h)) \in Seq(Guard!Turns)
        /\ Len(SubSeq(h, 1 + d, Len(h))) = Len(h) - d
        /\ \A i \in 1..(Len(h) - d) : SubSeq(h, 1 + d, Len(h))[i] = h[1 + d + i - 1]
    BY <1>1, <1>7, <2>2, SubSeqProperties
  <2>5. \A i \in 1..(Len(h) - d) : t[d + i - 1] = h[1 + d + i - 1]
    BY <1>1, <1>2, <1>7
  <2>6. Len(t) - d + 1 = Len(h) - d
    BY <1>1, <1>2, <1>7
  <2>7. \A i \in 1..(Len(h) - d) : SubSeq(t, d, Len(t))[i] = SubSeq(h, 1 + d, Len(h))[i]
    BY <2>3, <2>4, <2>5, <2>6
  <2>8. QED
    BY <2>3, <2>4, <2>6, <2>7, SeqEqual
<1>10. Dropped(s) + 1 = d
  BY <1>1, <1>7
<1>11. Bounded(s) = Guard!Body(SubSeq(b.chunks, 1, Fits(b)), SubSeq(t, d, Len(t)))
  BY <1>1, <1>3, <1>7, <1>8, <1>10 DEF Bounded
<1>12. QED
  BY <1>4, <1>6, <1>9, <1>11 DEF Bounded, s, h, d

LEMMA ChunkDropped ==
  ASSUME NEW b \in Guard!Bodies, Guard!Cost(b) > max_context_tokens, b.history = <<>>
  PROVE  /\ Guard!Shorter(b) \in Guard!Bodies /\ Bounded(Guard!Shorter(b)) = Bounded(b)
         /\ Guard!Cost(Guard!Shorter(b)) = Guard!Cost(b) - 1
<1> DEFINE c == b.chunks
           f == Guard!Front(b.chunks)
           s == Guard!Shorter(b)
           k == max_context_tokens
<1>1. /\ c \in Seq(Guard!Chunks) /\ Len(c) \in Nat
      /\ Len(b.history) = 0 /\ Len(c) > k /\ k \in Nat
  <2>1. c \in Seq(Guard!Chunks) /\ Len(c) \in Nat /\ Guard!Cost(b) = Len(c) + Len(b.history)
    BY BodyIs
  <2>2. Len(b.history) = 0
    BY EmptySeq
  <2> HIDE DEF c
  <2>3. QED
    BY <2>1, <2>2, TokensNat
<1>2. \A i \in 1..Len(c) : c[i] \in Guard!Chunks
  BY <1>1, ElementOfSeq
<1>3. /\ f \in Seq(Guard!Chunks) /\ Len(f) = Len(c) - 1
      /\ \A i \in 1..Len(f) : f[i] = c[i]
  <2>1. \A i \in 1..(Len(c) - 1) : c[i] \in Guard!Chunks
    BY <1>1, <1>2
  <2>2. f = SubSeq(c, 1, Len(c) - 1)
    BY DEF Guard!Front
  <2> HIDE DEF c, f
  <2>3. /\ SubSeq(c, 1, Len(c) - 1) \in Seq(Guard!Chunks)
        /\ Len(SubSeq(c, 1, Len(c) - 1)) = IF 1 <= Len(c) - 1 THEN (Len(c) - 1) - 1 + 1 ELSE 0
        /\ \A i \in 1..((Len(c) - 1) - 1 + 1) : SubSeq(c, 1, Len(c) - 1)[i] = c[1 + i - 1]
    BY <1>1, <2>1, SubSeqProperties
  <2>4. QED
    <3> DEFINE L == Len(c)
    <3>1. L \in Nat /\ L > 0
      BY <1>1
    <3>2. Len(f) = IF 1 <= L - 1 THEN (L - 1) - 1 + 1 ELSE 0
      BY <2>2, <2>3
    <3>3. \A i \in 1..((L - 1) - 1 + 1) : f[i] = c[1 + i - 1]
      BY <2>2, <2>3
    <3> HIDE DEF L
    <3>4. (L - 1) - 1 + 1 = L - 1 /\ Len(f) = L - 1
      BY <3>1, <3>2
    <3>5. \A i \in 1..(L - 1) : f[i] = c[i]
      BY <3>1, <3>3, <3>4
    <3>6. QED
      BY <2>2, <2>3, <3>4, <3>5 DEF L
<1>4. s = Guard!Body(f, <<>>) /\ s.chunks = f /\ s.history = <<>>
  BY DEF Guard!Shorter, Guard!Body
<1>5. s \in Guard!Bodies
  BY <1>3, <1>4, EmptySeq DEF Guard!Bodies, Guard!Body
<1>6. Fits(s) = k /\ Fits(b) = k
  BY <1>1, <1>3, <1>4 DEF Fits
<1>7. Dropped(s) = 0 /\ Dropped(b) = 0
  <2>1. Dropped(b) = 0
    BY <1>1, BodyIs DEF Dropped, Excess
  <2>2. Len(s.history) = 0 /\ Guard!Cost(s) \in Nat
    <3>1. Guard!Cost(s) \in Nat
      BY <1>5, BodyIs
    <3>2. QED
      BY <1>4, <3>1, EmptySeq
  <2>3. Dropped(s) = 0
    BY <1>1, <2>2 DEF Dropped, Excess
  <2>4. QED
    BY <2>1, <2>3
<1>12. Guard!Cost(s) = Guard!Cost(b) - 1
  <2>1. Guard!Cost(s) = Len(f) + Len(<<>>) /\ Guard!Cost(b) = Len(c) + Len(b.history)
    BY <1>4 DEF Guard!Cost
  <2>2. Len(<<>>) = 0
    BY EmptySeq
  <2> HIDE DEF c, f, s
  <2>3. QED
    BY <1>1, <1>3, <2>1, <2>2
<1> HIDE DEF c, f, s, k
<1>8. SubSeq(f, 1, k) = SubSeq(c, 1, k)
  <2>0. k <= Len(f)
    BY <1>1, <1>3
  <2>1. \A i \in 1..k : f[i] \in Guard!Chunks /\ c[i] \in Guard!Chunks /\ f[i] = c[i]
    BY <1>1, <1>2, <1>3, <2>0
  <2>2. /\ SubSeq(f, 1, k) \in Seq(Guard!Chunks)
        /\ Len(SubSeq(f, 1, k)) = IF 1 <= k THEN k - 1 + 1 ELSE 0
        /\ \A i \in 1..(k - 1 + 1) : SubSeq(f, 1, k)[i] = f[1 + i - 1]
    BY <1>1, <2>1, SubSeqProperties
  <2>3. /\ SubSeq(c, 1, k) \in Seq(Guard!Chunks)
        /\ Len(SubSeq(c, 1, k)) = IF 1 <= k THEN k - 1 + 1 ELSE 0
        /\ \A i \in 1..(k - 1 + 1) : SubSeq(c, 1, k)[i] = c[1 + i - 1]
    BY <1>1, <2>1, SubSeqProperties
  <2>4. \A i \in 1..k : SubSeq(f, 1, k)[i] = SubSeq(c, 1, k)[i]
    BY <1>1, <2>1, <2>2, <2>3
  <2>5. QED
    BY <1>1, <2>2, <2>3, <2>4, SeqEqual
<1>9. Bounded(s) = Guard!Body(SubSeq(f, 1, k), SubSeq(<<>>, 1, 0))
  BY <1>4, <1>6, <1>7 DEF Bounded
<1>10. Bounded(b) = Guard!Body(SubSeq(c, 1, k), SubSeq(<<>>, 1, 0))
  BY <1>1, <1>6, <1>7 DEF Bounded, c
<1>11. QED
  BY <1>5, <1>8, <1>9, <1>10, <1>12 DEF s

\* The recursive definition has a closed form.
LEMMA BoundContextIs == \A b \in Guard!Bodies : Guard!bound_context[b] = Bounded(b)
<1> DEFINE f == [b \in Guard!Bodies |-> Bounded(b)]
           Unrolls(g) == g = [b \in Guard!Bodies |->
                    IF Guard!Cost(b) <= max_context_tokens THEN b ELSE g[Guard!Shorter(b)]]
           g == Guard!bound_context
<1>1. ASSUME NEW b \in Guard!Bodies, Guard!Cost(b) <= max_context_tokens PROVE Bounded(b) = b
  <2>1. Dropped(b) = 0 /\ Fits(b) = Len(b.chunks)
    <3>1. /\ Guard!Cost(b) = Len(b.chunks) + Len(b.history) /\ Guard!Cost(b) \in Nat
          /\ Len(b.chunks) \in Nat /\ Len(b.history) \in Nat
      BY BodyIs
    <3>2. \A cost, m, n, k \in Nat : cost = m + n /\ cost <= k => cost - k <= 0 /\ m <= k
      OBVIOUS
    <3>3. Guard!Cost(b) - max_context_tokens <= 0 /\ Len(b.chunks) <= max_context_tokens
      BY <1>1, <3>1, <3>2, TokensNat
    <3>4. QED
      BY <3>3 DEF Dropped, Fits, Excess
  <2>2. SubSeq(b.chunks, 1, Len(b.chunks)) = b.chunks /\ SubSeq(b.history, 1, Len(b.history)) = b.history
    BY BodyIs, SubSeqFull
  <2>3. b = Guard!Body(b.chunks, b.history)
    BY BodyIs
  <2>4. Bounded(b) = Guard!Body(SubSeq(b.chunks, 1, Len(b.chunks)), SubSeq(b.history, 1, Len(b.history)))
    BY <2>1 DEF Bounded
  <2>5. QED
    BY <2>2, <2>3, <2>4
<1>2. ASSUME NEW b \in Guard!Bodies, ~(Guard!Cost(b) <= max_context_tokens)
      PROVE  /\ Guard!Shorter(b) \in Guard!Bodies /\ Bounded(Guard!Shorter(b)) = Bounded(b)
             /\ Guard!Cost(Guard!Shorter(b)) = Guard!Cost(b) - 1
  <2>0. \A m, n \in Nat : m <= n \/ m > n
    OBVIOUS
  <2>1. Guard!Cost(b) > max_context_tokens
    BY <1>2, <2>0, BodyIs, TokensNat
  <2>2. QED
    BY <2>1, PairDropped, ChunkDropped
<1>3. \A b \in Guard!Bodies :
        f[b] = IF Guard!Cost(b) <= max_context_tokens THEN b ELSE f[Guard!Shorter(b)]
  BY <1>1, <1>2
<1>4. Unrolls(f)
  BY <1>3
<1>5. g = CHOOSE x : Unrolls(x)
  BY DEF Guard!bound_context
<1>6. Unrolls(g)
  <2> HIDE DEF Unrolls, g, f
  <2>1. QED
    BY <1>4, <1>5
<1> HIDE DEF g
<1>7. \A b \in Guard!Bodies :
        g[b] = IF Guard!Cost(b) <= max_context_tokens THEN b ELSE g[Guard!Shorter(b)]
  BY <1>6
<1>8. SUFFICES ASSUME NEW e \in Guard!Bodies, g[e] # Bounded(e) PROVE FALSE
  BY DEF g
<1> DEFINE Bad == {n \in Nat : \E b \in Guard!Bodies : Guard!Cost(b) = n /\ g[b] # Bounded(b)}
<1>9. \A b \in Guard!Bodies : Guard!Cost(b) \in Nat
  BY BodyIs
<1>10. Guard!Cost(e) \in Bad
  BY <1>8, <1>9
<1>11. PICK n \in Bad : \A m \in Bad : n <= m
  BY <1>10, LeastOf
<1>12. PICK b \in Guard!Bodies : Guard!Cost(b) = n /\ g[b] # Bounded(b)
  BY <1>11
<1>13. ~(Guard!Cost(b) <= max_context_tokens)
  BY <1>1, <1>7, <1>12
<1> DEFINE s == Guard!Shorter(b)
<1>14. s \in Guard!Bodies /\ Bounded(s) = Bounded(b) /\ Guard!Cost(s) = n - 1 /\ g[b] = g[s]
  BY <1>2, <1>7, <1>12, <1>13
<1>15. n - 1 \in Bad
  BY <1>9, <1>12, <1>14
<1>16. QED
  BY <1>11, <1>15

LEMMA PartOfSeq ==
  ASSUME NEW S, NEW q \in Seq(S), NEW m \in 1..(Len(q) + 1), NEW n \in 0..Len(q), m <= n + 1
  PROVE  LET p == SubSeq(q, m, n) IN
         /\ p \in Seq(S) /\ Len(p) = n - m + 1
         /\ \A i \in 1..Len(p) : p[i] = q[m + i - 1]
<1> DEFINE p == SubSeq(q, m, n)
<1>1. Len(q) \in Nat /\ m \in Int /\ n \in Int
  BY LenProperties
<1>2. \A i \in m..n : q[i] \in S
  BY <1>1, ElementOfSeq
<1>3. /\ p \in Seq(S) /\ Len(p) = IF m <= n THEN n - m + 1 ELSE 0
      /\ \A i \in 1..(n - m + 1) : p[i] = q[m + i - 1]
  BY <1>1, <1>2, SubSeqProperties
<1> HIDE DEF p
<1>4. Len(p) = n - m + 1
  BY <1>1, <1>3
<1>5. QED
  BY <1>3, <1>4 DEF p

\* What is bound is the beginning of the chunks and the end of the history.
LEMMA BoundedIs ==
  ASSUME NEW c \in Seq(Guard!Chunks), NEW h \in Seq(Guard!Turns)
  PROVE  LET b == Bounded(Guard!Body(c, h)) IN
         /\ b \in Guard!Bodies
         /\ Guard!IsPrefix(b.chunks, c) /\ Guard!IsSuffix(b.history, h)
         /\ Len(b.history) <= Len(h)
         /\ b.history # h => /\ b.chunks = c \/ b.history = <<>>
                             /\ Guard!Cost(b) = max_context_tokens
         /\ Guard!ChunkRefs(b.chunks) \subseteq Guard!ChunkRefs(c)
         /\ Guard!HistoryRefs(b.history) \subseteq Guard!HistoryRefs(h)
         /\ Distinct(c) => Distinct(b.chunks)
<1> DEFINE a == Guard!Body(c, h)
           b == Bounded(a)
           M == Len(c)
           N == Len(h)
           d == Dropped(a)
           f == Fits(a)
           k == max_context_tokens
<1>1. a \in Guard!Bodies /\ a.chunks = c /\ a.history = h
  BY DEF Guard!Body, Guard!Bodies
<1>2. M \in Nat /\ N \in Nat /\ k \in Nat
  BY LenProperties, TokensNat
<1>3. Guard!Cost(a) = M + N
  BY <1>1, BodyIs
<1>4. d = IF M + N - k <= 0 THEN 0 ELSE IF M + N - k <= N THEN M + N - k ELSE N
  <2>1. d = IF Excess(a) <= 0 THEN 0 ELSE IF Excess(a) <= N THEN Excess(a) ELSE N
    BY <1>1 DEF Dropped
  <2>2. Excess(a) = M + N - k
    <3>1. Excess(a) = Guard!Cost(a) - k
      BY DEF Excess
    <3> HIDE DEF a, M, N, k
    <3>2. QED
      BY <1>2, <1>3, <3>1
  <2> HIDE DEF d, a, M, N, k
  <2>3. QED
    BY <2>1, <2>2
<1>5. f = IF M <= k THEN M ELSE k
  BY <1>1 DEF Fits
<1>6. b.chunks = SubSeq(c, 1, f) /\ b.history = SubSeq(h, 1 + d, N)
  BY <1>1 DEF Bounded, Guard!Body
<1>7. b = Guard!Body(b.chunks, b.history)
  BY DEF Bounded, Guard!Body
<1> HIDE DEF a, b, M, N, d, f, k
<1>8. f \in 0..M /\ d \in 0..N
  BY <1>2, <1>4, <1>5
<1>9. /\ b.chunks \in Seq(Guard!Chunks) /\ Len(b.chunks) = f
      /\ \A i \in 1..f : b.chunks[i] = c[i]
  <2>1. /\ SubSeq(c, 1, f) \in Seq(Guard!Chunks) /\ Len(SubSeq(c, 1, f)) = f - 1 + 1
        /\ \A i \in 1..Len(SubSeq(c, 1, f)) : SubSeq(c, 1, f)[i] = c[1 + i - 1]
    <3>1. 1 \in 1..(Len(c) + 1) /\ f \in 0..Len(c) /\ 1 <= f + 1
      BY <1>2, <1>8 DEF M
    <3>2. QED
      BY <3>1, PartOfSeq
  <2>2. QED
    BY <1>2, <1>6, <1>8, <2>1
<1>10. /\ b.history \in Seq(Guard!Turns) /\ Len(b.history) = N - d
       /\ \A i \in 1..(N - d) : b.history[i] = h[d + i]
  <2>1. /\ SubSeq(h, 1 + d, N) \in Seq(Guard!Turns) /\ Len(SubSeq(h, 1 + d, N)) = N - (1 + d) + 1
        /\ \A i \in 1..Len(SubSeq(h, 1 + d, N)) : SubSeq(h, 1 + d, N)[i] = h[1 + d + i - 1]
    <3>1. 1 + d \in 1..(Len(h) + 1) /\ N \in 0..Len(h) /\ 1 + d <= N + 1
      BY <1>2, <1>8 DEF N
    <3>2. QED
      BY <3>1, PartOfSeq
  <2>2. QED
    BY <1>2, <1>6, <1>8, <2>1
<1>11. b \in Guard!Bodies
  BY <1>7, <1>9, <1>10 DEF Guard!Body, Guard!Bodies
<1>12. Guard!IsPrefix(b.chunks, c)
  <2>1. SubSeq(b.chunks, 1, f) = b.chunks
    BY <1>9, SubSeqFull
  <2>2. QED
    BY <1>2, <1>6, <1>8, <1>9, <2>1 DEF Guard!IsPrefix, M
<1>13. Guard!IsSuffix(b.history, h)
  <2> DEFINE r == Guard!Reverse(b.history)
             t == Guard!Reverse(h)
             n == N - d
  <2>1. n \in 0..N
    BY <1>2, <1>8
  <2>2. r = [i \in 1..n |-> b.history[(n - i) + 1]] /\ t = [i \in 1..N |-> h[(N - i) + 1]]
    BY <1>10 DEF Guard!Reverse, N
  <2> HIDE DEF n, r, t
  <2>3. \A i \in 1..n : (n - i) + 1 \in 1..n /\ d + ((n - i) + 1) = (N - i) + 1
    BY <1>2, <1>8 DEF n
  <2>4. \A i \in 1..N : (N - i) + 1 \in 1..N
    BY <1>2
  <2>5. \A i \in 1..n : r[i] = h[(N - i) + 1] /\ t[i] = h[(N - i) + 1]
    <3>1. \A i \in 1..n : b.history[(n - i) + 1] = h[d + ((n - i) + 1)]
      BY <1>10, <2>3 DEF n
    <3>2. \A i \in 1..n : r[i] = h[(N - i) + 1]
      BY <2>2, <2>3, <3>1
    <3>3. \A i \in 1..n : i \in 1..N
      BY <1>2, <2>1
    <3>4. \A i \in 1..n : t[i] = h[(N - i) + 1]
      BY <2>2, <3>3
    <3>5. QED
      BY <3>2, <3>4
  <2>6. \A i \in 1..N : h[i] \in Guard!Turns
    BY ElementOfSeq DEF N
  <2>7. r \in Seq(Guard!Turns) /\ Len(r) = n
    <3>1. r \in [1..n -> Guard!Turns]
      <4>1. \A i \in 1..n : b.history[(n - i) + 1] \in Guard!Turns
        BY <1>10, <2>3, ElementOfSeq DEF n
      <4>2. QED
        BY <2>2, <4>1
    <3>2. QED
      BY <2>1, <3>1
  <2>8. t \in Seq(Guard!Turns) /\ Len(t) = N
    <3>1. t \in [1..N -> Guard!Turns]
      BY <2>2, <2>4, <2>6
    <3>2. QED
      BY <1>2, <3>1
  <2>9. SubSeq(r, 1, n) = r
    BY <2>7, SubSeqFull
  <2>10. /\ SubSeq(t, 1, n) \in Seq(Guard!Turns) /\ Len(SubSeq(t, 1, n)) = n - 1 + 1
         /\ \A i \in 1..Len(SubSeq(t, 1, n)) : SubSeq(t, 1, n)[i] = t[1 + i - 1]
    <3>1. 1 \in 1..(Len(t) + 1) /\ n \in 0..Len(t) /\ 1 <= n + 1
      BY <1>2, <2>1, <2>8
    <3>2. QED
      BY <2>8, <3>1, PartOfSeq
  <2>11. SubSeq(t, 1, n) = r
    <3>1. Len(SubSeq(t, 1, n)) = n
      BY <2>1, <2>10
    <3>2. \A i \in 1..n : SubSeq(t, 1, n)[i] = r[i]
      BY <2>1, <2>5, <2>10, <3>1
    <3>3. QED
      BY <2>7, <2>10, <3>1, <3>2, SeqEqual
  <2>12. Len(r) <= Len(t)
    BY <1>2, <2>1, <2>7, <2>8
  <2>13. QED
    BY <2>7, <2>9, <2>11, <2>12 DEF Guard!IsSuffix, Guard!IsPrefix, r, t
<1>14. b.history # h => /\ b.chunks = c \/ b.history = <<>>
                        /\ Guard!Cost(b) = k
  <2>1. SUFFICES ASSUME b.history # h
                 PROVE  (b.chunks = c \/ b.history = <<>>) /\ Guard!Cost(b) = k
    OBVIOUS
  <2>2. d # 0
    BY <1>6, <2>1, SubSeqFull DEF N
  <2>3. d = N \/ f = M
    BY <1>2, <1>4, <1>5
  <2>4. d = N => b.history = <<>>
    BY <1>2, <1>6, SubSeqEmpty
  <2>5. f = M => b.chunks = c
    BY <1>6, SubSeqFull DEF M
  <2>6. Guard!Cost(b) = f + (N - d)
    BY <1>9, <1>10 DEF Guard!Cost
  <2>7. f + (N - d) = k
    BY <1>2, <1>4, <1>5, <2>2
  <2>8. QED
    BY <2>3, <2>4, <2>5, <2>6, <2>7
<1>15. Guard!ChunkRefs(b.chunks) \subseteq Guard!ChunkRefs(c)
  <2>1. DOMAIN b.chunks = 1..f /\ DOMAIN c = 1..M
    BY <1>9, LenProperties DEF M
  <2>2. \A i \in 1..f : i \in 1..M
    BY <1>2, <1>8
  <2>3. QED
    BY <1>9, <2>1, <2>2 DEF Guard!ChunkRefs, Guard!Range
<1>16. Guard!HistoryRefs(b.history) \subseteq Guard!HistoryRefs(h)
  <2>1. DOMAIN b.history = 1..(N - d) /\ DOMAIN h = 1..N
    BY <1>10, LenProperties DEF N
  <2>2. \A i \in 1..(N - d) : d + i \in 1..N
    BY <1>2, <1>8
  <2>3. Guard!Range(b.history) \subseteq Guard!Range(h)
    BY <1>10, <2>1, <2>2 DEF Guard!Range
  <2>4. QED
    BY <2>3 DEF Guard!HistoryRefs
<1>17. Distinct(c) => Distinct(b.chunks)
  <2>1. \A i \in 1..f : i \in 1..M
    BY <1>2, <1>8
  <2>2. QED
    BY <1>9, <2>1 DEF Distinct, M
<1>18. Len(b.history) <= Len(h)
  BY <1>2, <1>8, <1>10 DEF N
<1>19. QED
  BY <1>11, <1>12, <1>13, <1>14, <1>15, <1>16, <1>17, <1>18 DEF b, a, k

\* Distinct sources are as many as the chunks.
LEMMA DistinctCount ==
  ASSUME NEW c \in Seq(Guard!Chunks), Distinct(c)
  PROVE  Guard!Cardinality(Guard!ChunkRefs(c)) = Len(c)
<1> DEFINE n == Len(c)
           f == [i \in 1..n |-> c[i].ref]
<1>1. n \in Nat /\ DOMAIN c = 1..n
  BY LenProperties
<1>2. Guard!ChunkRefs(c) = {c[i].ref : i \in 1..n}
  BY <1>1 DEF Guard!ChunkRefs, Guard!Range
<1>3. \A i, j \in 1..n : c[i].ref = c[j].ref => i = j
  BY DEF Distinct
<1> HIDE DEF n
<1>4. f \in Bijection(1..n, Guard!ChunkRefs(c))
  BY <1>2, <1>3 DEF Bijection, Injection, IsInjective, Surjection
<1>5. IsFiniteSet(1..n) /\ Cardinality(1..n) = n
  BY <1>1, FS_Interval
<1>6. ExistsBijection(1..n, Guard!ChunkRefs(c))
  BY <1>4 DEF ExistsBijection
<1>7. Cardinality(Guard!ChunkRefs(c)) = n
  BY <1>1, <1>5, <1>6, FS_Bijection
<1>8. QED
  BY <1>7, SameCardinality DEF n

------------------------------------------------------------------------------
(* The guard's state.                                                      *)

LEMMA BoundsNat == {MaxChunks, MaxTurns, max_context_tokens, max_prior_turns, MaxChanges} \subseteq Nat
  BY ContextAssumption DEF Guard!GuardAssumption

LEMMA InitGuard == Guard!Init => GuardIInv
<1> SUFFICES ASSUME Guard!Init PROVE GuardIInv
  OBVIOUS
<1> USE DEF Guard!Init
<1>1. allowed \in Seq(SUBSET Refs) /\ Len(allowed) = 1
  <2>1. ASSUME NEW S, NEW m \in Nat, NEW q \in [1..m -> S] PROVE q \in Seq(S) /\ Len(q) = m
    OBVIOUS
  <2>2. allowed \in [1..1 -> SUBSET Refs]
    OBVIOUS
  <2>3. QED
    BY <2>1, <2>2
<1>2. \A S : <<>> \in Seq(S) /\ Len(<<>>) = 0
  BY EmptySeq
<1>3. Guard!Empty \in Guard!Bodies
  BY <1>2 DEF Guard!Empty, Guard!Body, Guard!Bodies
<1>4. bound \in Contexts /\ bound.revision = 0
  BY <1>3 DEF Contexts, Guard!Nothing
<1>5. GuardTyped
  BY <1>1, <1>2, <1>4, BoundsNat DEF GuardTyped, Answers
<1>6. QED
  BY <1>5 DEF GuardIInv, Asked, Gathered, Sealed

\* The policy only grows: what it allowed before, it still says.
LEMMA AllowedGrows ==
  ASSUME GuardTyped, NEW x \in SUBSET Refs, allowed' = Append(allowed, x)
  PROVE  /\ allowed' \in Seq(SUBSET Refs) /\ Len(allowed') = Len(allowed) + 1
         /\ Len(allowed) \in Nat
         /\ \A i \in 1..Len(allowed) : allowed'[i] = allowed[i]
  BY AppendProperties, LenProperties DEF GuardTyped

LEMMA ChangeGuard == GuardIInv /\ Guard!Change => GuardIInv'
<1> SUFFICES ASSUME GuardIInv, Guard!Change PROVE GuardIInv'
  OBVIOUS
<1>1. PICK x \in SUBSET Refs : allowed' = Append(allowed, x)
  BY DEF Guard!Change
<1>2. /\ allowed' \in Seq(SUBSET Refs) /\ Len(allowed') = Len(allowed) + 1
      /\ Len(allowed) \in Nat
      /\ \A i \in 1..Len(allowed) : allowed'[i] = allowed[i]
  BY <1>1, AllowedGrows DEF GuardIInv
<1>3. UNCHANGED <<standing, chunks, pairs, window, at, expected, bound, answer>>
  BY DEF Guard!Change
<1>4. Len(allowed) <= MaxChanges
  BY DEF Guard!Change, Guard!revision
<1>5. GuardTyped'
  <2>1. Len(allowed') \in 1..(MaxChanges + 1)
    BY <1>2, <1>4, BoundsNat
  <2>2. expected \in 0..Len(allowed') /\ bound.revision <= Len(allowed')
    BY <1>2 DEF GuardIInv, GuardTyped, Contexts
  <2>3. QED
    BY <1>2, <1>3, <2>1, <2>2 DEF GuardIInv, GuardTyped
<1>6. Asked' /\ Sealed'
  BY <1>3 DEF GuardIInv, Asked, Sealed
<1>7. Gathered'
  <2>1. SUFFICES ASSUME at = "history" \/ answer = "prepared"
                 PROVE  /\ expected \in 1..Len(allowed')
                        /\ allowed'[expected] = allowed[expected]
    BY <1>3 DEF GuardIInv, Gathered
  <2>2. expected \in 1..Len(allowed)
    BY <2>1 DEF GuardIInv, Gathered
  <2>3. QED
    BY <1>2, <2>2
<1>8. QED
  BY <1>5, <1>6, <1>7 DEF GuardIInv

LEMMA OutsideGuard ==
  GuardIInv /\ (Guard!LoseStanding \/ UNCHANGED guard) => GuardIInv'
<1> SUFFICES ASSUME GuardIInv, Guard!LoseStanding \/ UNCHANGED guard PROVE GuardIInv'
  OBVIOUS
<1>1. UNCHANGED <<allowed, chunks, pairs, window, at, expected, bound, answer>>
  BY DEF Guard!LoseStanding, guard
<1>2. standing' \in {"owner", "active", "gone"}
  BY DEF Guard!LoseStanding, guard, GuardIInv, GuardTyped
<1>3. GuardTyped'
  BY <1>1, <1>2 DEF GuardIInv, GuardTyped
<1>4. Asked' /\ Gathered' /\ Sealed'
  BY <1>1 DEF GuardIInv, Asked, Gathered, Sealed
<1>5. QED
  BY <1>3, <1>4 DEF GuardIInv

\* A decision without a context leaves nothing to seal.
LEMMA DecidedGuard ==
  ASSUME GuardIInv, at' = "decided", answer' \in Answers \ {"prepared", "tampered"},
         UNCHANGED <<allowed, standing, chunks, pairs, window, expected, bound>>
  PROVE  GuardIInv'
<1>1. GuardTyped'
  BY DEF GuardIInv, GuardTyped
<1>2. Asked' /\ Gathered' /\ Sealed'
  BY DEF Asked, Gathered, Sealed
<1>3. QED
  BY <1>1, <1>2 DEF GuardIInv

LEMMA BoundedSeqIs ==
  ASSUME NEW S, NEW n \in Nat, NEW q \in Guard!BoundedSeq(S, n)
  PROVE  q \in Seq(S) /\ Len(q) <= n
<1>1. PICK m \in 0..n : q \in [1..m -> S]
  BY DEF Guard!BoundedSeq, Guard!SeqOf
<1>2. QED
  BY <1>1

LEMMA CallGuard ==
  ASSUME GuardIInv, at = "idle",
         NEW c \in Guard!BoundedSeq(Guard!Chunks, MaxChunks),
         NEW t \in Guard!BoundedSeq(Guard!Turns, MaxTurns), Guard!Call(c, t)
  PROVE  GuardIInv'
<1>1. /\ chunks' = c /\ pairs' = t /\ at' = "prepare"
      /\ UNCHANGED <<allowed, standing, window, expected, bound, answer>>
  BY DEF Guard!Call, Guard!world
<1>2. c \in Seq(Guard!Chunks) /\ Len(c) <= MaxChunks /\ t \in Seq(Guard!Turns) /\ Len(t) <= MaxTurns
  BY BoundsNat, BoundedSeqIs
<1>3. window = <<>> /\ answer = "none"
  BY DEF GuardIInv, Asked
<1>4. Len(t) + Len(<<>>) <= MaxTurns
  BY <1>2, BoundsNat, EmptySeq, LenProperties
<1>5. GuardTyped'
  BY <1>1, <1>2, <1>3, <1>4 DEF GuardIInv, GuardTyped
<1>6. Asked' /\ Gathered' /\ Sealed'
  BY <1>1, <1>3 DEF Asked, Gathered, Sealed
<1>7. QED
  BY <1>5, <1>6 DEF GuardIInv

LEMMA NewestIs ==
  ASSUME pairs \in Seq(Guard!Turns)
  PROVE  /\ Guard!Newest(pairs) \in Seq(Guard!Turns)
         /\ Len(Guard!Newest(pairs)) <= Len(pairs)
         /\ Len(Guard!Newest(pairs)) <= max_prior_turns
<1> DEFINE n == Len(pairs)
           k == max_prior_turns
           m == IF n > k THEN n - k + 1 ELSE 1
<1>1. n \in Nat /\ k \in Nat
  BY LenProperties, BoundsNat
<1>2. Guard!Newest(pairs) = SubSeq(pairs, m, n)
  BY DEF Guard!Newest
<1> HIDE DEF k, m
<1>3. m \in 1..(n + 1) /\ m <= n + 1 /\ n - m + 1 <= n /\ n - m + 1 <= k
  <2> HIDE DEF n
  <2>1. QED
    BY <1>1 DEF m
<1>4. SubSeq(pairs, m, n) \in Seq(Guard!Turns) /\ Len(SubSeq(pairs, m, n)) = n - m + 1
  <2>1. m \in 1..(Len(pairs) + 1) /\ n \in 0..Len(pairs) /\ m <= n + 1
    BY <1>1, <1>3
  <2>2. QED
    BY <2>1, PartOfSeq
<1>5. QED
  BY <1>2, <1>3, <1>4 DEF k

LEMMA PrepareGuard == GuardIInv /\ Guard!Prepare => GuardIInv'
<1> SUFFICES ASSUME GuardIInv, Guard!Prepare PROVE GuardIInv'
  OBVIOUS
<1>1. at = "prepare" /\ UNCHANGED <<allowed, standing, bound>>
  BY DEF Guard!Prepare, Guard!world
<1>2. CASE /\ \E r \in {"policy_unavailable", "denied", "invalid_provenance"} : Guard!Decide(r)
           /\ UNCHANGED <<chunks, pairs, window, expected>>
  BY <1>1, <1>2, DecidedGuard DEF Guard!Decide, Answers
<1>3. CASE /\ expected' = Guard!revision /\ chunks' = Guard!Chosen
           /\ window' = Guard!Newest(pairs) /\ pairs' = <<>>
           /\ at' = "history" /\ UNCHANGED answer
  <2>1. /\ chunks \in Seq(Guard!Chunks) /\ Len(chunks) <= MaxChunks
        /\ pairs \in Seq(Guard!Turns) /\ Len(allowed) \in 1..(MaxChanges + 1)
        /\ answer = "none" /\ window = <<>>
    BY <1>1 DEF GuardIInv, GuardTyped, Asked
  <2>2. /\ chunks' \in Seq(Guard!Chunks) /\ Len(chunks') \in 0..Len(chunks)
        /\ \A n \in 1..Len(chunks') : chunks'[n].ref \in Guard!Allowed
        /\ Distinct(chunks')
    BY <1>3, <2>1, ChosenIs
  <2>3. /\ window' \in Seq(Guard!Turns) /\ Len(window') <= Len(pairs)
        /\ Len(window') <= max_prior_turns
    BY <1>3, <2>1, NewestIs
  <2>4. Len(pairs) <= MaxTurns /\ Len(window') \in Nat /\ Len(pairs) \in Nat /\ Len(chunks) \in Nat
    <3>1. Len(pairs) + Len(<<>>) <= MaxTurns
      BY <2>1 DEF GuardIInv, GuardTyped
    <3>2. QED
      BY <2>1, <2>3, <3>1, EmptySeq, LenProperties
  <2>5. pairs' \in Seq(Guard!Turns) /\ Len(pairs') = 0
    BY <1>3, EmptySeq
  <2>6. GuardTyped'
    <3>1. Len(chunks') <= MaxChunks /\ Len(pairs') + Len(window') <= MaxTurns
      BY <2>1, <2>2, <2>3, <2>4, <2>5, BoundsNat
    <3>2. expected' \in 0..Len(allowed)
      BY <1>3, <2>1 DEF Guard!revision
    <3>3. QED
      BY <1>1, <1>3, <2>2, <2>3, <2>5, <3>1, <3>2 DEF GuardIInv, GuardTyped
  <2>7. Asked' /\ Sealed'
    BY <1>3, <2>1 DEF Asked, Sealed
  <2>8. Gathered'
    <3>1. expected' = Len(allowed) /\ Guard!Allowed = allowed'[expected']
      BY <1>1, <1>3 DEF Guard!revision, Guard!Allowed
    <3>2. (Guard!ChunkRefs(chunks) \subseteq allowed[expected])'
      <4>1. DOMAIN chunks' = 1..Len(chunks')
        BY <2>2, LenProperties
      <4>2. QED
        BY <2>2, <3>1, <4>1 DEF Guard!ChunkRefs, Guard!Range
    <3>3. (Guard!HistoryRefs(pairs))' = {}
      <4>1. DOMAIN pairs' = {}
        BY <1>3
      <4>2. QED
        BY <4>1 DEF Guard!HistoryRefs, Guard!Range
    <3>4. Len(pairs') + Len(window') <= max_prior_turns
      BY <2>3, <2>4, <2>5, BoundsNat
    <3>5. QED
      BY <1>1, <2>1, <2>2, <3>1, <3>2, <3>3, <3>4 DEF Gathered
  <2>9. QED
    BY <2>6, <2>7, <2>8 DEF GuardIInv
<1>4. QED
  BY <1>2, <1>3 DEF Guard!Prepare

LEMMA AskGuard == GuardIInv /\ Guard!AskTurn => GuardIInv'
<1> SUFFICES ASSUME GuardIInv, Guard!AskTurn PROVE GuardIInv'
  OBVIOUS
<1>1. at = "history" /\ window # <<>> /\ UNCHANGED <<allowed, standing, chunks, expected, bound>>
  BY DEF Guard!AskTurn, Guard!world
<1>2. /\ pairs \in Seq(Guard!Turns) /\ window \in Seq(Guard!Turns) /\ answer = "none"
      /\ Len(pairs) \in Nat /\ Len(window) \in Nat
      /\ Len(pairs) + Len(window) <= MaxTurns /\ Len(pairs) + Len(window) <= max_prior_turns
  BY <1>1, LenProperties DEF GuardIInv, GuardTyped, Asked, Gathered
<1>3. Head(window) \in Guard!Turns /\ Tail(window) \in Seq(Guard!Turns) /\ Len(Tail(window)) = Len(window) - 1
  BY <1>1, <1>2, HeadTailProperties
<1>4. CASE /\ \E r \in {"policy_unavailable", "denied"} : Guard!Decide(r)
           /\ UNCHANGED <<pairs, window>>
  BY <1>1, <1>4, DecidedGuard DEF Guard!Decide, Answers
<1>5. ASSUME window' = Tail(window), UNCHANGED <<at, answer>>,
             pairs' \in Seq(Guard!Turns), Len(pairs') \in Nat, Len(pairs') <= Len(pairs) + 1,
             (Guard!HistoryRefs(pairs))' \subseteq allowed[expected]
      PROVE  GuardIInv'
  <2>1. Len(pairs') + Len(window') <= MaxTurns /\ Len(pairs') + Len(window') <= max_prior_turns
    <3> DEFINE p == Len(pairs')
               q == Len(pairs)
               w == Len(window)
    <3>1. Len(window') = w - 1
      BY <1>3, <1>5
    <3>2. p \in Nat /\ q \in Nat /\ w \in Nat /\ p <= q + 1 /\ q + w <= MaxTurns /\ q + w <= max_prior_turns
      BY <1>2, <1>5
    <3> HIDE DEF p, q, w
    <3>3. p + (w - 1) <= MaxTurns /\ p + (w - 1) <= max_prior_turns
      BY <3>2, BoundsNat
    <3>4. QED
      BY <3>1, <3>3 DEF p
  <2>2. GuardTyped'
    BY <1>1, <1>3, <1>5, <2>1 DEF GuardIInv, GuardTyped
  <2>3. Asked' /\ Sealed'
    BY <1>1, <1>2, <1>5 DEF GuardIInv, Asked, Sealed
  <2>4. Gathered'
    BY <1>1, <1>2, <1>5, <2>1 DEF GuardIInv, Gathered
  <2>5. QED
    BY <2>2, <2>3, <2>4 DEF GuardIInv
<1>6. CASE Guard!Keep(pairs)
  <2>1. (Guard!HistoryRefs(pairs))' \subseteq allowed[expected]
    BY <1>1, <1>6 DEF Guard!Keep, GuardIInv, Gathered
  <2>2. QED
    BY <1>2, <1>5, <1>6, <2>1 DEF Guard!Keep
<1>7. CASE /\ Guard!Current /\ Head(window) \subseteq Guard!Allowed
           /\ Guard!Keep(Append(pairs, Head(window)))
  <2>1. /\ pairs' = Append(pairs, Head(window))
        /\ pairs' \in Seq(Guard!Turns) /\ Len(pairs') = Len(pairs) + 1
        /\ \A i \in 1..Len(pairs) : pairs'[i] = pairs[i]
        /\ pairs'[Len(pairs) + 1] = Head(window)
    BY <1>2, <1>3, <1>7, AppendProperties DEF Guard!Keep
  <2>2. Head(window) \subseteq allowed[expected]
    BY <1>7 DEF Guard!Current, Guard!Allowed, Guard!revision
  <2>3. \A i \in 1..Len(pairs) : pairs[i] \subseteq allowed[expected]
    <3>1. DOMAIN pairs = 1..Len(pairs)
      BY <1>2, LenProperties
    <3>2. Guard!HistoryRefs(pairs) \subseteq allowed[expected]
      BY <1>1 DEF GuardIInv, Gathered
    <3>3. QED
      BY <3>1, <3>2 DEF Guard!HistoryRefs, Guard!Range
  <2>4. \A i \in DOMAIN pairs' : pairs'[i] \subseteq allowed[expected]
    <3>1. DOMAIN pairs' = 1..(Len(pairs) + 1)
      BY <2>1, LenProperties
    <3>2. \A i \in 1..(Len(pairs) + 1) : i \in 1..Len(pairs) \/ i = Len(pairs) + 1
      BY <1>2
    <3>3. QED
      BY <2>1, <2>2, <2>3, <3>1, <3>2
  <2>5. (Guard!HistoryRefs(pairs))' \subseteq allowed[expected]
    BY <2>4 DEF Guard!HistoryRefs, Guard!Range
  <2>6. QED
    BY <1>2, <1>5, <1>7, <2>1, <2>5 DEF Guard!Keep
<1>8. QED
  BY <1>4, <1>6, <1>7 DEF Guard!AskTurn

LEMMA BindGuard == GuardIInv /\ Guard!Bind => GuardIInv'
<1> SUFFICES ASSUME GuardIInv, Guard!Bind PROVE GuardIInv'
  OBVIOUS
<1> DEFINE a == Guard!Body(chunks, pairs)
<1>1. /\ at = "history" /\ at' = "decided" /\ answer' = "prepared"
      /\ UNCHANGED <<allowed, standing, chunks, pairs, window, expected>>
      /\ bound' = [body |-> Guard!bound_context[a], revision |-> expected,
                   fingerprint |-> Guard!bound_context[a]]
  BY DEF Guard!Bind, Guard!Decide, Guard!world
<1>2. chunks \in Seq(Guard!Chunks) /\ pairs \in Seq(Guard!Turns) /\ expected \in 0..Len(allowed)
  BY DEF GuardIInv, GuardTyped
<1>3. a \in Guard!Bodies
  BY <1>2 DEF Guard!Body, Guard!Bodies
<1>4. Guard!bound_context[a] = Bounded(a) /\ Bounded(a) \in Guard!Bodies
  BY <1>2, <1>3, BoundContextIs, BoundedIs
<1> HIDE DEF a
<1>5. bound' = [body |-> Bounded(a), revision |-> expected, fingerprint |-> Bounded(a)]
  BY <1>1, <1>4
<1>6. bound' \in Contexts /\ bound'.revision = expected
  <2>1. Len(allowed) \in Nat /\ expected \in Nat
    BY <1>2, LenProperties DEF GuardIInv, GuardTyped
  <2>2. QED
    BY <1>4, <1>5, <2>1 DEF Contexts
<1>7. GuardTyped'
  BY <1>1, <1>2, <1>6 DEF GuardIInv, GuardTyped, Answers
<1>8. Asked' /\ Gathered'
  BY <1>1 DEF GuardIInv, Asked, Gathered
<1>9. Sealed'
  BY <1>1, <1>5 DEF Sealed, a
<1>10. QED
  BY <1>7, <1>8, <1>9 DEF GuardIInv

LEMMA TamperGuard == GuardIInv /\ Guard!Tamper => GuardIInv'
<1> SUFFICES ASSUME GuardIInv, Guard!Tamper PROVE GuardIInv'
  OBVIOUS
<1>1. /\ answer = "prepared" /\ answer' = "tampered"
      /\ UNCHANGED <<allowed, standing, chunks, pairs, window, at, expected>>
  BY DEF Guard!Tamper, Guard!world
<1>2. PICK r \in Refs : bound' = [bound EXCEPT !.body.chunks = Append(@, [ref |-> r, genuine |-> FALSE])]
  BY DEF Guard!Tamper
<1> DEFINE c == bound.body.chunks
           x == [ref |-> r, genuine |-> FALSE]
<1>3. bound \in Contexts /\ bound.body \in Guard!Bodies /\ bound.fingerprint = bound.body
  BY <1>1 DEF GuardIInv, GuardTyped, Contexts, Sealed
<1>4. bound' = [bound EXCEPT !.body = [bound.body EXCEPT !.chunks = Append(c, x)]]
  BY <1>2, <1>3 DEF Contexts, Guard!Bodies
<1>5. x \in Guard!Chunks /\ c \in Seq(Guard!Chunks)
  BY <1>3 DEF Guard!Chunks, Guard!Bodies
<1>6. Append(c, x) \in Seq(Guard!Chunks) /\ Len(Append(c, x)) = Len(c) + 1 /\ Len(c) \in Nat
  BY <1>5, AppendProperties, LenProperties
<1> HIDE DEF x
<1>7. /\ bound' \in Contexts /\ bound'.revision = bound.revision
      /\ bound'.fingerprint = bound.fingerprint /\ bound'.body.chunks = Append(c, x)
  BY <1>3, <1>4, <1>6 DEF Contexts, Guard!Bodies
<1>8. bound'.fingerprint # bound'.body
  <2>1. bound'.fingerprint.chunks = c
    BY <1>3, <1>7
  <2> HIDE DEF c
  <2>2. Append(c, x) # c
    BY <1>6
  <2>3. QED
    BY <1>7, <2>1, <2>2
<1>9. GuardTyped'
  BY <1>1, <1>7 DEF GuardIInv, GuardTyped, Answers
<1>10. Asked' /\ Gathered' /\ Sealed'
  BY <1>1, <1>8 DEF GuardIInv, Asked, Gathered, Sealed
<1>11. QED
  BY <1>9, <1>10 DEF GuardIInv

\* What a decision of authorize_release is, and when it is that it is allowed.
LEMMA ReleaseGuard ==
  GuardIInv /\ Guard!Release =>
    /\ GuardIInv'
    /\ answer' = "allowed" =>
         /\ standing = "owner" /\ Guard!BodyRefs(bound.body) \subseteq Guard!Allowed
         /\ bound.revision = Guard!revision
         /\ Guard!Genuine(bound.body) /\ answer = "prepared"
<1> SUFFICES ASSUME GuardIInv, Guard!Release
             PROVE  /\ GuardIInv'
                    /\ answer' = "allowed" =>
                         /\ standing = "owner" /\ Guard!BodyRefs(bound.body) \subseteq Guard!Allowed
                         /\ bound.revision = Guard!revision
                         /\ Guard!Genuine(bound.body) /\ answer = "prepared"
  OBVIOUS
<1>1. /\ answer \in {"prepared", "tampered"}
      /\ UNCHANGED <<allowed, standing, chunks, pairs, window, at, expected, bound>>
  BY DEF Guard!Release, Guard!world
<1>2. answer' \in Answers \ {"none", "prepared", "tampered"}
  BY DEF Guard!Release, Answers
<1>3. at = "decided" /\ at' = "decided"
  BY <1>1 DEF GuardIInv, GuardTyped, Asked
<1>4. GuardIInv'
  BY <1>1, <1>2, <1>3, DecidedGuard
<1>5. ASSUME answer' = "allowed"
      PROVE  /\ standing = "owner" /\ Guard!BodyRefs(bound.body) \subseteq Guard!Allowed
             /\ bound.revision = Guard!revision
             /\ Guard!Genuine(bound.body) /\ answer = "prepared"
  <2>1. Guard!Releasable
    BY <1>5 DEF Guard!Release
  <2>2. answer = "prepared"
    BY <1>1, <2>1 DEF Guard!Releasable, GuardIInv, Sealed
  <2>3. /\ standing = "owner" /\ Guard!Fresh /\ Guard!BodyRefs(bound.body) \subseteq Guard!Allowed
        /\ Guard!Genuine(bound.body)
    BY <1>5, <2>1 DEF Guard!Release
  <2>4. QED
    BY <2>2, <2>3 DEF Guard!Fresh
<1>6. QED
  BY <1>4, <1>5

LEMMA ReadGuard ==
  ASSUME GuardIInv, NEW refs \in SUBSET Refs, Guard!Read(refs)
  PROVE  GuardIInv'
<1>1. /\ \E r \in {"policy_unavailable", "invalid_provenance", "denied", "readable"} : Guard!Decide(r)
      /\ UNCHANGED <<allowed, standing, chunks, pairs, window, expected, bound>>
  BY DEF Guard!Read, Guard!world
<1>2. QED
  BY <1>1, DecidedGuard DEF Guard!Decide, Answers

\* Only authorize_release allows.
LEMMA OnlyRelease ==
  ASSUME Guard!Next, answer # "allowed", answer' = "allowed"
  PROVE  Guard!Release
<1>1. ~Guard!Change /\ ~Guard!LoseStanding /\ ~Guard!Bind /\ ~Guard!Tamper
  BY DEF Guard!Change, Guard!LoseStanding, Guard!Bind, Guard!Tamper, Guard!Decide
<1>2. ~Guard!Prepare
  BY DEF Guard!Prepare, Guard!Decide
<1>3. ~Guard!AskTurn
  BY DEF Guard!AskTurn, Guard!Keep, Guard!Decide
<1>4. \A c, t : ~Guard!Call(c, t)
  BY DEF Guard!Call
<1>5. \A refs : ~Guard!Read(refs)
  BY DEF Guard!Read, Guard!Decide
<1>6. QED
  BY <1>1, <1>2, <1>3, <1>4, <1>5 DEF Guard!Next

LEMMA NextGuard ==
  GuardIInv /\ [Hosts \/ Guards]_<<part, vars, guard>> => GuardIInv'
<1> SUFFICES ASSUME GuardIInv, [Hosts \/ Guards]_<<part, vars, guard>> PROVE GuardIInv'
  OBVIOUS
<1>1. CASE UNCHANGED guard
  BY <1>1, OutsideGuard
<1>2. CASE Guard!Next
  BY <1>2, ChangeGuard, OutsideGuard, CallGuard, PrepareGuard, AskGuard, BindGuard, TamperGuard,
     ReleaseGuard, ReadGuard DEF Guard!Next
<1>3. QED
  BY <1>1, <1>2 DEF Hosts, Guards

LEMMA GuardImplied == GuardIInv => ContextIsOfOneRevision
<1> SUFFICES ASSUME GuardIInv PROVE Guard!GuardInv
  BY DEF ContextIsOfOneRevision
<1>1. chunks \in Seq(Guard!Chunks) /\ pairs \in Seq(Guard!Turns)
  BY DEF GuardIInv, GuardTyped
<1> DEFINE b == Bounded(Guard!Body(chunks, pairs))
<1>2. /\ b \in Guard!Bodies
      /\ Guard!IsPrefix(b.chunks, chunks) /\ Guard!IsSuffix(b.history, pairs)
      /\ Len(b.history) <= Len(pairs)
      /\ b.history # pairs => /\ b.chunks = chunks \/ b.history = <<>>
                              /\ Guard!Cost(b) = max_context_tokens
      /\ Guard!ChunkRefs(b.chunks) \subseteq Guard!ChunkRefs(chunks)
      /\ Guard!HistoryRefs(b.history) \subseteq Guard!HistoryRefs(pairs)
      /\ Distinct(chunks) => Distinct(b.chunks)
  BY <1>1, BoundedIs
<1> HIDE DEF b
<1>3. ASSUME answer = "prepared"
      PROVE  /\ bound.body = b /\ bound.revision = expected
             /\ Guard!ChunkRefs(chunks) \subseteq allowed[expected]
             /\ Guard!HistoryRefs(pairs) \subseteq allowed[expected]
             /\ Distinct(chunks)
             /\ Len(pairs) + Len(window) <= max_prior_turns
  BY <1>3 DEF GuardIInv, Gathered, Sealed, b
<1>4. Guard!TypeOK
  <2>1. answer = "prepared" =>
          Guard!Cardinality(Guard!ChunkRefs(bound.body.chunks)) = Len(bound.body.chunks)
    <3>1. b.chunks \in Seq(Guard!Chunks)
      BY <1>2 DEF Guard!Bodies
    <3>2. QED
      BY <1>2, <1>3, <3>1, DistinctCount
  <2>2. /\ Len(allowed) <= MaxChanges + 1 /\ expected \in 0..Len(allowed)
        /\ bound.revision \in 0..Len(allowed)
    BY BoundsNat DEF GuardIInv, GuardTyped, Contexts
  <2>3. QED
    BY <2>1, <2>2 DEF GuardIInv, GuardTyped, Answers, Guard!TypeOK, Guard!revision
<1>5. Guard!OneRevision
  BY <1>2, <1>3 DEF Guard!OneRevision, Guard!BodyRefs
<1>6. Guard!NewestHistory
  <2>1. answer = "prepared" => Len(b.history) <= max_prior_turns
    <3>1. Len(pairs) \in Nat /\ Len(window) \in Nat /\ Len(b.history) \in Nat
      BY <1>1, <1>2, BodyIs, LenProperties DEF GuardIInv, GuardTyped
    <3>2. QED
      BY <1>2, <1>3, <3>1, BoundsNat
  <2>2. QED
    BY <1>2, <1>3, <2>1 DEF Guard!NewestHistory
<1>7. QED
  BY <1>4, <1>5, <1>6 DEF Guard!GuardInv

\* A prepared context is of one revision: its chunks and the sources of its
\* history were all allowed then, however often the policy moved while the guard
\* asked about them (prepare_context, filter_history); and bound_context drops
\* no more than it must, the oldest pairs first.
THEOREM GuardKeepsRevision == MCSpec => []ContextIsOfOneRevision
<1>1. MCInit => GuardIInv
  BY InitGuard DEF MCInit
<1>2. QED
  BY <1>1, NextGuard, GuardImplied, PTL DEF MCSpec

\* authorize_release lets an answer out only to the owner, from the unaltered
\* context and under the very revision that is in force at that moment.
THEOREM GuardReleasesCurrent == MCSpec => ReleaseIsCurrent
<1> DEFINE Current == (answer # "allowed" /\ answer' = "allowed") =>
                        /\ standing = "owner" /\ Guard!BodyRefs(bound.body) \subseteq Guard!Allowed
                        /\ bound.revision = Guard!revision
                        /\ Guard!Genuine(bound.body) /\ answer = "prepared"
<1>1. MCInit => GuardIInv
  BY InitGuard DEF MCInit
<1>2. GuardIInv /\ [Hosts \/ Guards]_<<part, vars, guard>> => [Current]_(Guard!vars)
  <2> SUFFICES ASSUME GuardIInv, [Hosts \/ Guards]_<<part, vars, guard>>,
                      answer # "allowed", answer' = "allowed"
               PROVE  Current
    BY DEF Guard!vars
  <2>1. Guard!Next
    BY DEF Hosts, Guards, guard
  <2>2. QED
    BY <2>1, OnlyRelease, ReleaseGuard
<1> HIDE DEF Current
<1>3. MCSpec => [][Current]_(Guard!vars)
  BY <1>1, <1>2, NextGuard, PTL DEF MCSpec
<1>4. QED
  BY <1>3 DEF ReleaseIsCurrent, Guard!ReleaseIsCurrent, Current

------------------------------------------------------------------------------
(* The reference host.                                                     *)

\* A context is never of a later revision, and one of the current revision
\* has what the current policy permits.
RevisionKnown ==
  \A i \in DOMAIN contexts :
    /\ contexts[i].revision <= revision
    /\ contexts[i].revision = revision => contexts[i].refs = Permitted

\* What a task holds while the guard is asked: a binding that nobody else can
\* use, or the thread's last answer.
CallsKept ==
  \A t \in Tasks :
    /\ call[t].kind = "release" => call[t].ctx \in DOMAIN contexts
    /\ call[t].at = "asking" => call[t].kind \in {"release", "read"}
    /\ At(t, "asking", "release") => call[t].ctx \notin prepared \cup Range(turns)
    /\ At(t, "asking", "read") => turns # <<>> /\ call[t].ctx = Last(turns)

AuditBounded == \A i \in DOMAIN audit : audit[i].revision <= revision

\* The inductive invariant.
HostIInv == HostInv /\ RevisionKnown /\ CallsKept /\ AuditBounded

USE HostAssumption

------------------------------------------------------------------------------
(* Sequences and counting.                                                 *)

LEMMA Appended ==
  ASSUME NEW S, NEW s \in Seq(S), NEW e \in S
  PROVE  /\ Append(s, e) \in Seq(S)
         /\ Len(s) \in Nat
         /\ Len(Append(s, e)) = Len(s) + 1
         /\ DOMAIN s = 1..Len(s)
         /\ DOMAIN Append(s, e) = 1..(Len(s) + 1)
         /\ \A i \in 1..Len(s) : Append(s, e)[i] = s[i]
         /\ Append(s, e)[Len(s) + 1] = e
<1>1. Append(s, e) \in Seq(S) /\ Len(Append(s, e)) = Len(s) + 1
  BY AppendProperties
<1>2. DOMAIN Append(s, e) = 1..Len(Append(s, e))
  BY <1>1, LenProperties
<1>3. QED
  BY <1>1, <1>2, AppendProperties, LenProperties

\* How many elements of a set are up to i, when a new greatest one enters.
LEMMA Counting ==
  ASSUME NEW n \in Nat, NEW S \in SUBSET (1..n)
  PROVE  /\ Cardinality(S) \in Nat
         /\ Cardinality(S \cup {n + 1}) = Cardinality(S) + 1
         /\ UpTo(S \cup {n + 1}, n + 1) = Cardinality(S) + 1
         /\ \A i \in 1..n : UpTo(S \cup {n + 1}, i) = UpTo(S, i)
         /\ \A i \in S : UpTo(S, i) \in 1..Cardinality(S)
<1>1. IsFiniteSet(1..n)
  BY FS_Interval
<1>2. IsFiniteSet(S) /\ Cardinality(S) \in Nat
  BY <1>1, FS_Subset, FS_CardinalityType
<1>3. Cardinality(S \cup {n + 1}) = Cardinality(S) + 1
  <2>1. n + 1 \notin S
    OBVIOUS
  <2>2. QED
    BY <1>2, <2>1, FS_AddElement
<1>4. {j \in S \cup {n + 1} : j <= n + 1} = S \cup {n + 1}
  <2>1. \A j \in S \cup {n + 1} : j <= n + 1
    OBVIOUS
  <2>2. QED
    BY <2>1
<1>5. ASSUME NEW i \in 1..n
      PROVE  UpTo(S \cup {n + 1}, i) = UpTo(S, i)
  <2>1. {j \in S \cup {n + 1} : j <= i} = {j \in S : j <= i}
    OBVIOUS
  <2>2. QED
    BY <2>1 DEF UpTo
<1>6. ASSUME NEW i \in S
      PROVE  UpTo(S, i) \in 1..Cardinality(S)
  <2> DEFINE T == {j \in S : j <= i}
  <2>1. T \in SUBSET S /\ T # {}
    OBVIOUS
  <2>2. IsFiniteSet(T) /\ Cardinality(T) \in Nat /\ Cardinality(T) <= Cardinality(S)
    BY <1>2, <2>1, FS_Subset, FS_CardinalityType
  <2>3. Cardinality(T) # 0
    BY <2>1, <2>2, FS_EmptySet
  <2>4. QED
    BY <1>2, <2>2, <2>3 DEF UpTo
<1>7. QED
  BY <1>2, <1>3, <1>4, <1>5, <1>6 DEF UpTo

------------------------------------------------------------------------------
(* The invariant.                                                          *)

LEMMA InitHost == Init => HostIInv
<1> SUFFICES ASSUME Init PROVE HostIInv
  OBVIOUS
<1> USE DEF Init
<1>1. TypeOK
  <2>1. DOMAIN contexts = {} /\ contexts \in Seq(Context) /\ turns \in Seq(DOMAIN contexts)
    BY EmptySeq
  <2>2. audit \in Seq(Event) /\ call \in [Tasks -> Operation]
    BY EmptySeq DEF Idle, Operation, Callers
  <2>3. \A t \in Tasks : lock = t <=> call[t].at \in {"inside", "asking"}
    BY DEF Idle
  <2>4. 0 \in 0..MaxRevision
    OBVIOUS
  <2>5. member \in BOOLEAN /\ session \in BOOLEAN /\ expired \in BOOLEAN
    OBVIOUS
  <2>6. QED
    BY <2>1, <2>2, <2>3, <2>4, <2>5 DEF TypeOK
<1>2. OnePublication /\ RevisionDetermines /\ RevisionKnown /\ AuditBounded
  BY DEF OnePublication, RevisionDetermines, RevisionKnown, AuditBounded
<1>3. AuditIsWhole
  <2>1. Changes = {} /\ Releases = {} /\ DOMAIN audit = {} /\ Len(turns) = 0
    BY EmptySeq DEF Changes, Releases
  <2>2. QED
    BY <2>1, FS_EmptySet DEF AuditIsWhole
<1>4. CallsKept
  BY DEF CallsKept, At, Idle
<1>5. QED
  BY <1>1, <1>2, <1>3, <1>4 DEF HostIInv, HostInv

\* Steps that change neither the policy, the history nor the thread.
Quiet == UNCHANGED <<policy, history, thread>>

\* The types that an action of a task puts at risk: its call, and the lock
\* that moves with it.
LEMMA CallTyped ==
  ASSUME TypeOK, NEW t \in Tasks, NEW o \in Operation,
         call' = [call EXCEPT ![t] = o],
         \/ lock' = lock /\ (o.at \in {"inside", "asking"} <=> call[t].at \in {"inside", "asking"})
         \/ lock' = None /\ o.at \notin {"inside", "asking"} /\ lock \in {t, None}
         \/ lock' = t /\ o.at \in {"inside", "asking"} /\ lock \in {t, None}
  PROVE  /\ lock' \in Tasks \cup {None}
         /\ \A u \in Tasks : lock' = u <=> call'[u].at \in {"inside", "asking"}
         /\ call' \in [Tasks -> Operation]
BY DEF TypeOK

\* The calls a task may be left with.
LEMMA IdleOperation == Idle \in Operation /\ Idle.at = "idle"
BY DEF Operation, Idle, Callers

\* A task that is inside or asking ends its call.
LEMMA Returned ==
  ASSUME TypeOK, NEW t \in Tasks, call[t].at \in {"inside", "asking"}, Return(t)
  PROVE  /\ lock' \in Tasks \cup {None}
         /\ \A u \in Tasks : lock' = u <=> call'[u].at \in {"inside", "asking"}
         /\ call' \in [Tasks -> Operation]
<1>1. lock = t
  BY DEF TypeOK
<1>2. QED
  BY <1>1, CallTyped, IdleOperation DEF Return

\* A change of the policy takes the next revision and says so.
LEMMA ChangeKept ==
  ASSUME TypeOK, NEW t \in Tasks, ChangePolicy(t)
  PROVE  /\ granted' \subseteq Docs /\ roleGrants' \subseteq Docs /\ active' \subseteq Sources
         /\ member' \in BOOLEAN /\ session' \in BOOLEAN /\ expired' \in BOOLEAN
         /\ revision' \in 0..MaxRevision /\ audit' \in Seq(Event)
         /\ \/ UNCHANGED <<policy, history>>
            \/ /\ revision' = revision + 1
               /\ \E e \in Event : /\ audit' = Append(audit, e)
                                   /\ e.revision = revision' /\ e.event # "release"
<1>1. PICK d \in Docs :
        \/ revision = MaxRevision /\ UNCHANGED <<policy, history>>
        \/ grant(d) /\ Changed("grant")
        \/ revoke(d) /\ Changed("revoke")
        \/ set_role(d) /\ Changed("membership")
        \/ set_session /\ Changed("session")
        \/ set_version(d) /\ Changed("version")
  BY DEF ChangePolicy
<1>2. ASSUME NEW event \in {"grant", "revoke", "membership", "session", "version"}, Changed(event)
      PROVE  /\ revision' \in 0..MaxRevision /\ audit' \in Seq(Event) /\ revision' = revision + 1
             /\ \E e \in Event : /\ audit' = Append(audit, e)
                                 /\ e.revision = revision' /\ e.event # "release"
  <2> DEFINE e == [revision |-> revision', event |-> event]
  <2>1. revision' = revision + 1 /\ revision' \in 0..MaxRevision
    BY <1>2 DEF Changed, TypeOK
  <2>2. e \in Event /\ audit' = Append(audit, e) /\ e.revision = revision' /\ e.event # "release"
    BY <1>2, <2>1 DEF Changed, Event
  <2>3. QED
    BY <2>1, <2>2, AppendProperties DEF TypeOK
<1>3. granted' \subseteq Docs /\ roleGrants' \subseteq Docs
  BY <1>1 DEF grant, revoke, set_role, set_session, set_version, policy, TypeOK
<1>4. active' \subseteq Sources
  BY <1>1 DEF grant, revoke, set_role, set_session, set_version, policy, TypeOK
<1>5. member' \in BOOLEAN /\ session' \in BOOLEAN /\ expired' \in BOOLEAN
  BY <1>1, Zenon DEF grant, revoke, set_role, set_session, set_version, policy, TypeOK
<1>6. CASE UNCHANGED <<policy, history>>
  BY <1>3, <1>4, <1>5, <1>6 DEF history, TypeOK
<1>7. CASE ~UNCHANGED <<policy, history>>
  <2>1. PICK event \in {"grant", "revoke", "membership", "session", "version"} : Changed(event)
    BY <1>1, <1>7
  <2>2. QED
    BY <1>2, <1>3, <1>4, <1>5, <2>1
<1>8. QED
  BY <1>6, <1>7

\* A context prepared is a new one.
LEMMA PrepareKept ==
  ASSUME TypeOK, NEW t \in Tasks, Prepare(t)
  PROVE  /\ contexts' \in Seq(Context) /\ DOMAIN contexts \subseteq DOMAIN contexts'
         /\ prepared' \subseteq DOMAIN contexts'
         /\ \A i \in DOMAIN contexts : contexts'[i] = contexts[i]
         /\ \/ UNCHANGED <<contexts, prepared>>
            \/ LET n == Len(contexts) + 1 IN
               /\ DOMAIN contexts' = DOMAIN contexts \cup {n} /\ n \notin DOMAIN contexts
               /\ contexts'[n] = [refs |-> Permitted, revision |-> revision]
               /\ prepared' = prepared \cup {n}
<1>1. CASE UNCHANGED <<contexts, prepared>>
  BY <1>1 DEF TypeOK
<1>2. CASE ~UNCHANGED <<contexts, prepared>>
  <2> DEFINE c == [refs |-> Permitted, revision |-> revision]
  <2>1. Permitted # {} /\ Permitted \subseteq Sources
    BY <1>2 DEF Prepare, Permitted, TypeOK
  <2>2. c \in Context
    BY <2>1 DEF Context, TypeOK
  <2>3. contexts' = Append(contexts, c) /\ prepared' = prepared \cup {Len(contexts) + 1}
    BY <1>2 DEF Prepare
  <2> HIDE DEF c
  <2>4. /\ contexts' \in Seq(Context) /\ Len(contexts) \in Nat
        /\ DOMAIN contexts = 1..Len(contexts) /\ DOMAIN contexts' = 1..(Len(contexts) + 1)
        /\ \A i \in 1..Len(contexts) : contexts'[i] = contexts[i]
        /\ contexts'[Len(contexts) + 1] = c
    BY <2>2, <2>3, Appended DEF TypeOK
  <2>5. /\ 1..(Len(contexts) + 1) = (1..Len(contexts)) \cup {Len(contexts) + 1}
        /\ Len(contexts) + 1 \notin 1..Len(contexts)
    BY <2>4
  <2>6. prepared \subseteq DOMAIN contexts
    BY DEF TypeOK
  <2>7. prepared' \subseteq DOMAIN contexts'
    BY <2>3, <2>4, <2>5, <2>6
  <2>8. QED
    BY <2>3, <2>4, <2>5, <2>7 DEF c
<1>3. QED
  BY <1>1, <1>2

\* An answer published is the context that was asked about, with its event.
LEMMA ReleaseKept ==
  ASSUME TypeOK, CallsKept, NEW t \in Tasks, Release(t)
  PROVE  /\ turns' \in Seq(DOMAIN contexts) /\ audit' \in Seq(Event)
         /\ \/ UNCHANGED <<turns, audit>>
            \/ /\ Releasable(call[t].who, contexts[call[t].ctx])
               /\ call[t].ctx \in DOMAIN contexts
               /\ turns' = Append(turns, call[t].ctx)
               /\ [revision |-> revision, event |-> "release"] \in Event
               /\ audit' = Append(audit, [revision |-> revision, event |-> "release"])
<1>1. call[t].ctx \in DOMAIN contexts
  BY DEF Release, At, CallsKept
<1>2. [revision |-> revision, event |-> "release"] \in Event
  BY DEF Event, TypeOK
<1>3. CASE UNCHANGED <<turns, audit>>
  BY <1>3 DEF TypeOK
<1>4. CASE ~UNCHANGED <<turns, audit>>
  <2>1. /\ Releasable(call[t].who, contexts[call[t].ctx])
        /\ turns' = Append(turns, call[t].ctx)
        /\ audit' = Append(audit, [revision |-> revision, event |-> "release"])
    BY <1>4 DEF Release
  <2>2. turns' \in Seq(DOMAIN contexts) /\ audit' \in Seq(Event)
    BY <1>1, <1>2, <2>1, AppendProperties DEF TypeOK
  <2>3. QED
    BY <1>1, <1>2, <2>1, <2>2
<1>5. QED
  BY <1>3, <1>4

LEMMA LastTurn ==
  ASSUME TypeOK, turns # <<>>
  PROVE  /\ Len(turns) \in DOMAIN turns /\ Last(turns) = turns[Len(turns)]
         /\ Last(turns) \in DOMAIN contexts
<1>1. turns \in Seq(DOMAIN contexts) /\ Len(turns) \in Nat \ {0} /\ DOMAIN turns = 1..Len(turns)
  BY EmptySeq, LenProperties DEF TypeOK
<1>2. QED
  BY <1>1, ElementOfSeq DEF Last

LEMMA TypeStep == TypeOK /\ CallsKept /\ [Next]_vars => TypeOK'
<1> SUFFICES ASSUME TypeOK, CallsKept, [Next]_vars PROVE TypeOK'
  OBVIOUS
<1> DEFINE Calls == /\ lock' \in Tasks \cup {None}
                    /\ \A u \in Tasks : lock' = u <=> call'[u].at \in {"inside", "asking"}
                    /\ call' \in [Tasks -> Operation]
           Steady == UNCHANGED <<granted, member, roleGrants, active, session, expired>>
<1>q. ASSUME Calls, Quiet
      PROVE  TypeOK'
  BY <1>q DEF TypeOK, Quiet, policy, history, thread, Operation
<1>1. CASE Expire
  BY <1>1, Zenon DEF Expire, history, thread, TypeOK, Operation
<1>2. ASSUME NEW t \in Tasks, Start(t)
      PROVE  TypeOK'
  <2>1. PICK kind \in {"prepare", "read", "release", "change"}, who \in Callers,
             c \in DOMAIN contexts \cup {0} : Invoke(t, kind, who, c)
    BY <1>2 DEF Start, Callers
  <2> DEFINE o == [at |-> "waiting", kind |-> kind, who |-> who, ctx |-> c]
  <2>2. o \in Operation /\ o.at = "waiting"
    BY DEF Operation
  <2>3. call' = [call EXCEPT ![t] = o] /\ lock' = lock /\ call[t].at = "idle"
    BY <2>1, IdleOperation DEF Invoke
  <2> HIDE DEF o
  <2>4. Calls
    BY <2>2, <2>3, CallTyped
  <2>5. QED
    BY <1>q, <2>1, <2>4 DEF Invoke, Quiet
<1>3. ASSUME NEW t \in Tasks, policy_scope(t)
      PROVE  TypeOK'
  <2> DEFINE o == [call[t] EXCEPT !.at = "inside"]
  <2>1. o \in Operation /\ o.at = "inside"
    <3>1. call[t] \in Operation
      BY DEF TypeOK
    <3>2. QED
      BY <3>1 DEF Operation
  <2>2. call' = [call EXCEPT ![t] = o] /\ lock = None /\ lock' = t
    BY <1>3 DEF policy_scope, Free
  <2> HIDE DEF o
  <2>3. Calls
    BY <2>1, <2>2, CallTyped
  <2>4. QED
    BY <1>3, <1>q, <2>3 DEF policy_scope, Quiet
<1>4. ASSUME NEW t \in Tasks, Cancel(t)
      PROVE  TypeOK'
  <2>1. call' = [call EXCEPT ![t] = Idle] /\ Idle.at = "idle" /\ Idle \in Operation
    BY <1>4, IdleOperation DEF Cancel
  <2>2. \/ lock = t /\ lock' = None
        \/ lock # t /\ lock' = lock /\ call[t].at \notin {"inside", "asking"}
    BY <1>4 DEF Cancel, Left, TypeOK
  <2>3. Calls
    BY <2>1, <2>2, CallTyped
  <2>4. QED
    BY <1>4, <1>q, <2>3 DEF Cancel, Quiet
<1>5. ASSUME NEW t \in Tasks, ChangePolicy(t)
      PROVE  TypeOK'
  <2>1. Calls
    BY <1>5, Returned DEF ChangePolicy, At
  <2>2. revision' \in 0..MaxRevision /\ audit' \in Seq(Event)
    BY <1>5, ChangeKept
  <2>3. /\ granted' \subseteq Docs /\ roleGrants' \subseteq Docs /\ active' \subseteq Sources
        /\ member' \in BOOLEAN /\ session' \in BOOLEAN /\ expired' \in BOOLEAN
    BY <1>5, ChangeKept
  <2>4. QED
    BY <1>5, <2>1, <2>2, <2>3 DEF ChangePolicy, thread, TypeOK, Operation
<1>6. ASSUME NEW t \in Tasks, Prepare(t)
      PROVE  TypeOK'
  <2>1. Calls
    BY <1>6, Returned DEF Prepare, At
  <2>2. /\ contexts' \in Seq(Context) /\ DOMAIN contexts \subseteq DOMAIN contexts'
        /\ prepared' \subseteq DOMAIN contexts'
    BY <1>6, PrepareKept
  <2>3. Operation \subseteq Operation'
    BY <2>2 DEF Operation
  <2>4. turns' \in Seq(DOMAIN contexts')
    BY <1>6, <2>2, SeqMonotonic DEF Prepare, TypeOK
  <2>5. QED
    BY <1>6, <2>1, <2>2, <2>3, <2>4 DEF Prepare, policy, history, TypeOK
<1>7. ASSUME NEW t \in Tasks, Bind(t)
      PROVE  TypeOK'
  <2>1. Calls
    <3> DEFINE o == [call[t] EXCEPT !.at = "asking"]
    <3>1. CASE Bound(t)
      <4>1. o \in Operation /\ o.at = "asking"
        <5>1. call[t] \in Operation
          BY DEF TypeOK
        <5>2. QED
          BY <5>1 DEF Operation
      <4>2. call' = [call EXCEPT ![t] = o] /\ lock' = lock /\ call[t].at = "inside"
        BY <1>7, <3>1 DEF Bind, At
      <4> HIDE DEF o
      <4>3. QED
        BY <4>1, <4>2, CallTyped
    <3>2. CASE ~Bound(t)
      BY <1>7, <3>2, Returned DEF Bind, At
    <3>3. QED
      BY <3>1, <3>2
  <2>2. prepared' \subseteq DOMAIN contexts
    BY <1>7 DEF Bind, DropBinding, TypeOK
  <2>3. QED
    BY <1>7, <2>1, <2>2 DEF Bind, policy, history, TypeOK, Operation
<1>8. ASSUME NEW t \in Tasks, Release(t)
      PROVE  TypeOK'
  <2>1. Calls
    BY <1>8, Returned DEF Release, At
  <2>2. turns' \in Seq(DOMAIN contexts) /\ audit' \in Seq(Event)
    BY <1>8, ReleaseKept
  <2>3. QED
    BY <1>8, <2>1, <2>2 DEF Release, policy, TypeOK, Operation
<1>9. ASSUME NEW t \in Tasks, read_saved(t)
      PROVE  TypeOK'
  <2> DEFINE o == [call[t] EXCEPT !.at = "asking", !.ctx = Last(turns)]
  <2>1. Calls
    <3>1. CASE session_valid(call[t].who) /\ turns # <<>>
      <4>1. Last(turns) \in DOMAIN contexts
        BY <3>1, LastTurn
      <4>2. o \in Operation /\ o.at = "asking"
        <5>1. call[t] \in Operation
          BY DEF TypeOK
        <5>2. QED
          BY <4>1, <5>1 DEF Operation
      <4>3. call' = [call EXCEPT ![t] = o] /\ lock' = lock /\ call[t].at = "inside"
        BY <1>9, <3>1 DEF read_saved, At
      <4> HIDE DEF o
      <4>4. QED
        BY <4>2, <4>3, CallTyped
    <3>2. CASE ~(session_valid(call[t].who) /\ turns # <<>>)
      BY <1>9, <3>2, Returned DEF read_saved, At
    <3>3. QED
      BY <3>1, <3>2
  <2>2. view' \in SUBSET Sources
    BY <1>9 DEF read_saved, TypeOK
  <2>3. QED
    BY <1>9, <2>1, <2>2 DEF read_saved, policy, history, TypeOK, Operation
<1>10. ASSUME NEW t \in Tasks, Show(t)
       PROVE  TypeOK'
  <2>1. Calls
    BY <1>10, Returned DEF Show, At
  <2>2. view' \in SUBSET Sources
    BY <1>10 DEF Show, Permitted, TypeOK
  <2>3. QED
    BY <1>10, <2>1, <2>2 DEF Show, policy, history, TypeOK, Operation
<1>11. CASE UNCHANGED vars
  BY <1>11 DEF vars, TypeOK, Operation
<1>12. QED
  BY <1>1, <1>2, <1>3, <1>4, <1>5, <1>6, <1>7, <1>8, <1>9, <1>10, <1>11 DEF Next, Inside

------------------------------------------------------------------------------
(* What each step keeps together.                                          *)

\* Who is inside the critical section is there alone.
LEMMA Alone ==
  ASSUME TypeOK, NEW t \in Tasks, call[t].at \in {"inside", "asking"},
         NEW u \in Tasks, u # t
  PROVE  call[u].at \notin {"inside", "asking"}
BY DEF TypeOK

\* Contexts change with Prepare, the policy with ChangePolicy, nothing else
\* changes what is permitted.
LEMMA PolicySteps ==
  ASSUME [Next]_vars,
         ~ \E t \in Tasks : ChangePolicy(t), ~ \E t \in Tasks : Prepare(t)
  PROVE  UNCHANGED <<contexts, revision, Permitted>>
<1>1. CASE Expire
  BY <1>1 DEF Expire, history, thread, Permitted
<1>2. ASSUME NEW t \in Tasks, Start(t) \/ policy_scope(t) \/ Cancel(t)
      PROVE  UNCHANGED <<contexts, revision, Permitted>>
  BY <1>2 DEF Start, Invoke, policy_scope, Cancel, policy, history, thread, Permitted
<1>3. ASSUME NEW t \in Tasks, Bind(t) \/ Release(t) \/ read_saved(t) \/ Show(t)
      PROVE  UNCHANGED <<contexts, revision, Permitted>>
  BY <1>3 DEF Bind, Release, read_saved, Show, policy, history, Permitted
<1>4. CASE UNCHANGED vars
  BY <1>4 DEF vars, Permitted
<1>5. QED
  BY <1>1, <1>2, <1>3, <1>4 DEF Next, Inside

LEMMA RevisionStep == HostIInv /\ [Next]_vars => RevisionDetermines' /\ RevisionKnown'
<1> SUFFICES ASSUME HostIInv, [Next]_vars
             PROVE  RevisionDetermines' /\ RevisionKnown'
  OBVIOUS
<1> USE DEF RevisionDetermines, RevisionKnown
<1>0. TypeOK /\ RevisionDetermines /\ RevisionKnown
  BY DEF HostIInv, HostInv
<1>t. /\ revision \in Nat /\ DOMAIN contexts = 1..Len(contexts)
      /\ \A i \in DOMAIN contexts : contexts[i].revision \in Nat
  <2>1. revision \in Nat /\ contexts \in Seq(Context) /\ DOMAIN contexts = 1..Len(contexts)
    BY <1>0, LenProperties DEF TypeOK
  <2>2. ASSUME NEW i \in DOMAIN contexts
        PROVE  contexts[i].revision \in Nat
    <3>1. contexts[i] \in Context
      BY <2>1, ElementOfSeq
    <3>2. QED
      BY <3>1 DEF Context
  <2>3. QED
    BY <2>1, <2>2
<1>1. ASSUME NEW t \in Tasks, ChangePolicy(t)
      PROVE  RevisionDetermines' /\ RevisionKnown'
  <2>1. contexts' = contexts
    BY <1>1 DEF ChangePolicy, thread
  <2>2. CASE UNCHANGED <<policy, history>>
    <3>1. revision' = revision /\ Permitted' = Permitted
      BY <2>2 DEF policy, history, Permitted
    <3>2. QED
      BY <1>0, <2>1, <3>1
  <2>3. CASE revision' = revision + 1
    BY <1>0, <1>t, <2>1, <2>3
  <2>4. QED
    BY <1>0, <1>1, <2>2, <2>3, ChangeKept
<1>2. ASSUME NEW t \in Tasks, Prepare(t)
      PROVE  RevisionDetermines' /\ RevisionKnown'
  <2> DEFINE n == Len(contexts) + 1
  <2>1. revision' = revision /\ Permitted' = Permitted
    BY <1>2 DEF Prepare, policy, history, Permitted
  <2>2. \A i \in DOMAIN contexts : contexts'[i] = contexts[i]
    BY <1>0, <1>2, PrepareKept
  <2>3. CASE contexts' = contexts
    BY <1>0, <2>1, <2>3
  <2>4. CASE /\ DOMAIN contexts' = DOMAIN contexts \cup {n}
             /\ contexts'[n] = [refs |-> Permitted, revision |-> revision]
    BY <1>0, <1>t, <2>1, <2>2, <2>4
  <2>5. QED
    BY <1>0, <1>2, <2>3, <2>4, PrepareKept
<1>3. CASE UNCHANGED <<contexts, revision, Permitted>>
  BY <1>0, <1>3
<1>4. QED
  BY <1>1, <1>2, <1>3, PolicySteps

\* What is asked about is bound no more, and an answer uses it up.
LEMMA PublicationStep == HostIInv /\ [Next]_vars => OnePublication' /\ CallsKept'
<1> SUFFICES ASSUME HostIInv, [Next]_vars
             PROVE  OnePublication' /\ CallsKept'
  OBVIOUS
<1>0. TypeOK /\ OnePublication /\ CallsKept
  BY DEF HostIInv, HostInv
<1>t. /\ turns \in Seq(DOMAIN contexts) /\ DOMAIN turns = 1..Len(turns) /\ Len(turns) \in Nat
      /\ Range(turns) \subseteq DOMAIN contexts
      /\ prepared \subseteq DOMAIN contexts
      /\ call \in [Tasks -> Operation]
  BY <1>0, LenProperties, RangeOfSeq DEF TypeOK
<1>q. ASSUME UNCHANGED <<contexts, prepared, turns>>, NEW t \in Tasks,
             \A u \in Tasks \ {t} : call'[u] = call[u],
             call'[t].at # "asking",
             call'[t].kind = "release" => call'[t].ctx \in DOMAIN contexts
      PROVE  OnePublication' /\ CallsKept'
  BY <1>0, <1>q DEF OnePublication, CallsKept, At
<1>i. \A t \in Tasks : Return(t) => /\ \A u \in Tasks \ {t} : call'[u] = call[u]
                                    /\ call'[t] = Idle
  BY <1>t DEF Return
<1>1. CASE Expire
  BY <1>0, <1>1 DEF Expire, thread, OnePublication, CallsKept, At
<1>2. ASSUME NEW t \in Tasks, Start(t)
      PROVE  OnePublication' /\ CallsKept'
  <2>1. /\ UNCHANGED thread /\ \A u \in Tasks \ {t} : call'[u] = call[u]
        /\ call'[t].at = "waiting"
        /\ call'[t].kind = "release" => call'[t].ctx \in DOMAIN contexts
    BY <1>t, <1>2 DEF Start, Invoke
  <2>2. QED
    BY <1>q, <2>1 DEF thread
<1>3. ASSUME NEW t \in Tasks, policy_scope(t)
      PROVE  OnePublication' /\ CallsKept'
  <2>1. /\ UNCHANGED thread /\ \A u \in Tasks \ {t} : call'[u] = call[u]
        /\ call'[t] = [call[t] EXCEPT !.at = "inside"]
    BY <1>t, <1>3 DEF policy_scope
  <2>2. call'[t].at = "inside" /\ call'[t].kind = call[t].kind /\ call'[t].ctx = call[t].ctx
    BY <1>t, <2>1 DEF Operation
  <2>3. QED
    BY <1>0, <1>q, <2>1, <2>2 DEF CallsKept, thread
<1>4. ASSUME NEW t \in Tasks, Cancel(t) \/ ChangePolicy(t) \/ Show(t)
      PROVE  OnePublication' /\ CallsKept'
  <2>1. UNCHANGED <<contexts, prepared, turns>> /\ call' = [call EXCEPT ![t] = Idle]
    BY <1>4 DEF Cancel, ChangePolicy, Show, Return, thread
  <2>2. QED
    BY <1>q, <1>t, <2>1 DEF Idle
<1>5. ASSUME NEW t \in Tasks, Prepare(t)
      PROVE  OnePublication' /\ CallsKept'
  <2>1. /\ turns' = turns /\ call'[t] = Idle
        /\ \A u \in Tasks \ {t} : call'[u] = call[u] /\ call[u].at # "asking"
    BY <1>0, <1>i, <1>5, Alone DEF Prepare, At
  <2>2. /\ DOMAIN contexts \subseteq DOMAIN contexts'
        /\ \/ prepared' = prepared
           \/ \E n : n \notin DOMAIN contexts /\ prepared' = prepared \cup {n}
    BY <1>0, <1>5, PrepareKept
  <2>3. OnePublication'
    BY <1>0, <1>t, <2>1, <2>2 DEF OnePublication
  <2>4. CallsKept'
    BY <1>0, <2>1, <2>2 DEF CallsKept, At, Idle
  <2>5. QED
    BY <2>3, <2>4
<1>6. ASSUME NEW t \in Tasks, Bind(t)
      PROVE  OnePublication' /\ CallsKept'
  <2>1. contexts' = contexts /\ turns' = turns /\ call[t].at = "inside" /\ call[t].kind = "release"
    BY <1>6 DEF Bind, At
  <2>2. CASE Bound(t)
    <3>1. /\ prepared' = prepared \ {call[t].ctx} /\ call[t].ctx \in prepared
          /\ \A u \in Tasks \ {t} : call'[u] = call[u]
          /\ call'[t] = [call[t] EXCEPT !.at = "asking"]
      BY <1>t, <1>6, <2>2 DEF Bind, Bound, DropBinding
    <3>2. call'[t].at = "asking" /\ call'[t].kind = "release" /\ call'[t].ctx = call[t].ctx
      BY <1>t, <2>1, <3>1 DEF Operation
    <3>3. OnePublication'
      BY <1>0, <2>1, <3>1 DEF OnePublication
    <3>4. CallsKept'
      <4>1. call[t].ctx \notin Range(turns)
        BY <1>0, <3>1 DEF OnePublication
      <4>2. QED
        BY <1>0, <2>1, <3>1, <3>2, <4>1 DEF CallsKept, At
    <3>5. QED
      BY <3>3, <3>4
  <2>3. CASE ~Bound(t)
    BY <1>6, <1>i, <1>q, <2>3 DEF Bind, Idle
  <2>4. QED
    BY <2>2, <2>3
<1>7. ASSUME NEW t \in Tasks, Release(t)
      PROVE  OnePublication' /\ CallsKept'
  <2>1. /\ UNCHANGED <<contexts, prepared>> /\ call'[t] = Idle
        /\ \A u \in Tasks \ {t} : call'[u] = call[u] /\ call[u].at # "asking"
    BY <1>0, <1>i, <1>7, Alone DEF Release, At
  <2>2. CASE turns' = turns
    BY <1>q, <2>1, <2>2 DEF Idle
  <2>3. CASE turns' = Append(turns, call[t].ctx) /\ call[t].ctx \in DOMAIN contexts
    <3> DEFINE n == Len(turns) + 1
    <3>1. /\ DOMAIN turns' = 1..n /\ turns'[n] = call[t].ctx
          /\ \A i \in 1..Len(turns) : turns'[i] = turns[i]
      BY <1>t, <2>3, Appended
    <3>2. call[t].ctx \notin prepared \cup Range(turns)
      BY <1>0, <1>7 DEF CallsKept, Release
    <3>3. \A i \in 1..Len(turns) : turns[i] \in Range(turns)
      BY <1>t DEF Range
    <3>4. OnePublication'
      <4>1. Range(turns') = Range(turns) \cup {call[t].ctx}
        BY <1>t, <3>1 DEF Range
      <4>2. \A i, j \in 1..n : turns'[i] = turns'[j] => i = j
        BY <1>0, <1>t, <3>1, <3>2, <3>3 DEF OnePublication
      <4>3. QED
        BY <1>0, <2>1, <3>1, <3>2, <4>1, <4>2 DEF OnePublication
    <3>5. CallsKept'
      BY <1>0, <2>1 DEF CallsKept, At, Idle
    <3>6. QED
      BY <3>4, <3>5
  <2>4. QED
    BY <1>0, <1>7, <2>2, <2>3, ReleaseKept
<1>8. ASSUME NEW t \in Tasks, read_saved(t)
      PROVE  OnePublication' /\ CallsKept'
  <2>1. UNCHANGED <<contexts, prepared, turns>> /\ call[t].kind = "read"
    BY <1>8 DEF read_saved, At
  <2>2. CASE session_valid(call[t].who) /\ turns # <<>>
    <3>1. /\ \A u \in Tasks \ {t} : call'[u] = call[u]
          /\ call'[t] = [call[t] EXCEPT !.at = "asking", !.ctx = Last(turns)]
      BY <1>t, <1>8, <2>2 DEF read_saved
    <3>2. call'[t].at = "asking" /\ call'[t].kind = "read" /\ call'[t].ctx = Last(turns)
      BY <1>t, <2>1, <3>1 DEF Operation
    <3>3. OnePublication'
      BY <1>0, <2>1 DEF OnePublication
    <3>4. CallsKept'
      <4>1. ~At(t, "asking", "release")' /\ turns' # <<>> /\ call'[t].ctx = Last(turns)'
        BY <2>1, <2>2, <3>2 DEF At, Last
      <4>2. ASSUME NEW u \in Tasks \ {t}
            PROVE  /\ call'[u].kind = "release" => call'[u].ctx \in DOMAIN contexts'
                   /\ call'[u].at = "asking" => call'[u].kind \in {"release", "read"}
                   /\ At(u, "asking", "release")' => call'[u].ctx \notin prepared' \cup Range(turns')
                   /\ At(u, "asking", "read")' => turns' # <<>> /\ call'[u].ctx = Last(turns)'
        BY <1>0, <2>1, <3>1 DEF CallsKept, At, Last
      <4>3. QED
        BY <3>2, <4>1, <4>2 DEF CallsKept
    <3>5. QED
      BY <3>3, <3>4
  <2>3. CASE ~(session_valid(call[t].who) /\ turns # <<>>)
    BY <1>8, <1>i, <1>q, <2>1, <2>3 DEF read_saved, Idle
  <2>4. QED
    BY <2>2, <2>3
<1>9. CASE UNCHANGED vars
  BY <1>0, <1>9 DEF vars, OnePublication, CallsKept, At
<1>10. QED
  BY <1>1, <1>2, <1>3, <1>4, <1>5, <1>6, <1>7, <1>8, <1>9 DEF Next, Inside

\* A new last event is a change or an answer.
LEMMA AuditGrows ==
  ASSUME TypeOK, NEW e \in Event, audit' = Append(audit, e)
  PROVE  LET n == Len(audit) + 1 IN
         /\ Len(audit) \in Nat /\ DOMAIN audit = 1..Len(audit)
         /\ DOMAIN audit' = DOMAIN audit \cup {n} /\ audit'[n] = e
         /\ \A i \in DOMAIN audit : audit'[i] = audit[i]
         /\ Changes \in SUBSET (1..Len(audit)) /\ Releases \in SUBSET (1..Len(audit))
         /\ Changes' = IF e.event = "release" THEN Changes ELSE Changes \cup {n}
         /\ Releases' = IF e.event = "release" THEN Releases \cup {n} ELSE Releases
<1> DEFINE n == Len(audit) + 1
<1>1. /\ Len(audit) \in Nat /\ DOMAIN audit = 1..Len(audit)
      /\ DOMAIN audit' = 1..n /\ audit'[n] = e
      /\ \A i \in 1..Len(audit) : audit'[i] = audit[i]
  BY Appended DEF TypeOK
<1>2. 1..n = (1..Len(audit)) \cup {n} /\ n \notin 1..Len(audit)
  BY <1>1
<1>3. Changes' = IF e.event = "release" THEN Changes ELSE Changes \cup {n}
  BY <1>1, <1>2 DEF Changes
<1>4. Releases' = IF e.event = "release" THEN Releases \cup {n} ELSE Releases
  BY <1>1, <1>2 DEF Releases
<1>5. Changes \in SUBSET (1..Len(audit)) /\ Releases \in SUBSET (1..Len(audit))
  BY <1>1 DEF Changes, Releases
<1>6. QED
  BY <1>1, <1>2, <1>3, <1>4, <1>5

\* Answers and policy changes write the audit, each with what it tells of.
LEMMA AuditSteps ==
  ASSUME TypeOK, CallsKept, [Next]_vars,
         ~ \E t \in Tasks : ChangePolicy(t), ~ \E t \in Tasks : Release(t)
  PROVE  /\ UNCHANGED <<revision, audit, turns>>
         /\ \A i \in DOMAIN contexts : contexts'[i] = contexts[i]
<1>1. CASE Expire
  BY <1>1 DEF Expire, history, thread
<1>2. ASSUME NEW t \in Tasks, Start(t) \/ policy_scope(t) \/ Cancel(t)
      PROVE  UNCHANGED <<revision, audit, turns, contexts>>
  BY <1>2 DEF Start, Invoke, policy_scope, Cancel, history, thread
<1>3. ASSUME NEW t \in Tasks, Bind(t) \/ read_saved(t) \/ Show(t)
      PROVE  UNCHANGED <<revision, audit, turns, contexts>>
  BY <1>3 DEF Bind, read_saved, Show, history
<1>4. ASSUME NEW t \in Tasks, Prepare(t)
      PROVE  /\ UNCHANGED <<revision, audit, turns>>
             /\ \A i \in DOMAIN contexts : contexts'[i] = contexts[i]
  BY <1>4, PrepareKept DEF Prepare, history
<1>5. CASE UNCHANGED vars
  BY <1>5 DEF vars
<1>6. QED
  BY <1>1, <1>2, <1>3, <1>4, <1>5 DEF Next, Inside

LEMMA AuditStep == HostIInv /\ [Next]_vars => AuditIsWhole' /\ AuditBounded'
<1> SUFFICES ASSUME HostIInv, [Next]_vars
             PROVE  AuditIsWhole' /\ AuditBounded'
  OBVIOUS
<1> DEFINE n == Len(audit) + 1
<1>0. TypeOK /\ AuditIsWhole /\ AuditBounded /\ CallsKept
  BY DEF HostIInv, HostInv
<1>t. /\ audit \in Seq(Event) /\ revision \in Nat
      /\ turns \in Seq(DOMAIN contexts) /\ Len(turns) \in Nat /\ DOMAIN turns = 1..Len(turns)
  BY <1>0, LenProperties DEF TypeOK
<1>e. \A i \in DOMAIN audit : audit[i].revision \in Nat
  <2>1. \A i \in DOMAIN audit : audit[i] \in Event
    BY <1>t, ElementOfSeq, LenProperties
  <2>2. QED
    BY <2>1 DEF Event
<1>u. \A i \in Releases : UpTo(Releases, i) \in DOMAIN turns
  <2>1. Releases \in SUBSET (1..Len(audit)) /\ Len(audit) \in Nat
    BY <1>t, LenProperties DEF Releases
  <2>2. QED
    BY <1>0, <1>t, <2>1, Counting DEF AuditIsWhole
<1>1. ASSUME NEW t \in Tasks, ChangePolicy(t)
      PROVE  AuditIsWhole' /\ AuditBounded'
  <2>0. contexts' = contexts /\ turns' = turns
    BY <1>1 DEF ChangePolicy, thread
  <2>1. CASE UNCHANGED <<policy, history>>
    <3>1. audit' = audit /\ revision' = revision
      BY <2>1 DEF history
    <3>2. QED
      BY <1>0, <2>0, <3>1 DEF AuditIsWhole, AuditBounded, Changes, Releases, UpTo
  <2>2. ASSUME revision' = revision + 1, NEW e \in Event, audit' = Append(audit, e),
               e.revision = revision', e.event # "release"
        PROVE  AuditIsWhole' /\ AuditBounded'
    <3>1. /\ Len(audit) \in Nat /\ DOMAIN audit = 1..Len(audit)
          /\ DOMAIN audit' = DOMAIN audit \cup {n} /\ audit'[n] = e
          /\ \A i \in DOMAIN audit : audit'[i] = audit[i]
          /\ Changes \in SUBSET (1..Len(audit)) /\ Releases \in SUBSET (1..Len(audit))
          /\ Changes' = Changes \cup {n} /\ Releases' = Releases
      BY <1>0, <2>2, AuditGrows
    <3>2. /\ Cardinality(Changes') = revision'
          /\ UpTo(Changes', n) = revision'
          /\ \A i \in Changes : UpTo(Changes', i) = UpTo(Changes, i)
      BY <1>0, <2>2, <3>1, Counting DEF AuditIsWhole
    <3>3. \A i \in Changes' : audit'[i].revision = UpTo(Changes', i)
      BY <1>0, <2>2, <3>1, <3>2 DEF AuditIsWhole
    <3>4. \A i \in Releases' : audit'[i].revision = contexts'[turns'[UpTo(Releases', i)]].revision
      BY <1>0, <2>0, <3>1 DEF AuditIsWhole
    <3>5. \A i, j \in DOMAIN audit' : i < j => audit'[i].revision <= audit'[j].revision
      BY <1>0, <1>t, <1>e, <2>2, <3>1 DEF AuditIsWhole, AuditBounded
    <3>6. AuditBounded'
      BY <1>0, <1>t, <1>e, <2>2, <3>1 DEF AuditBounded
    <3>7. AuditIsWhole'
      BY <1>0, <2>0, <3>1, <3>2, <3>3, <3>4, <3>5 DEF AuditIsWhole, UpTo
    <3>8. QED
      BY <3>6, <3>7
  <2>3. QED
    BY <1>0, <1>1, <2>1, <2>2, ChangeKept
<1>2. ASSUME NEW t \in Tasks, Release(t)
      PROVE  AuditIsWhole' /\ AuditBounded'
  <2> DEFINE e == [revision |-> revision, event |-> "release"]
             c == call[t].ctx
  <2>0. contexts' = contexts /\ revision' = revision
    BY <1>2 DEF Release
  <2>1. CASE UNCHANGED <<turns, audit>>
    BY <1>0, <2>0, <2>1 DEF AuditIsWhole, AuditBounded, Changes, Releases, UpTo
  <2>2. CASE /\ Releasable(call[t].who, contexts[c]) /\ c \in DOMAIN contexts
             /\ turns' = Append(turns, c) /\ e \in Event /\ audit' = Append(audit, e)
    <3>1. /\ Len(audit) \in Nat /\ DOMAIN audit = 1..Len(audit)
          /\ DOMAIN audit' = DOMAIN audit \cup {n} /\ audit'[n] = e
          /\ \A i \in DOMAIN audit : audit'[i] = audit[i]
          /\ Changes \in SUBSET (1..Len(audit)) /\ Releases \in SUBSET (1..Len(audit))
          /\ Changes' = Changes /\ Releases' = Releases \cup {n}
      BY <1>0, <2>2, AuditGrows
    <3>2. /\ Len(turns') = Len(turns) + 1 /\ turns'[Len(turns) + 1] = c
          /\ \A i \in DOMAIN turns : turns'[i] = turns[i]
      BY <1>t, <2>2, Appended
    <3>3. /\ Cardinality(Releases') = Len(turns')
          /\ UpTo(Releases', n) = Len(turns')
          /\ \A i \in Releases : UpTo(Releases', i) = UpTo(Releases, i)
      <4>1. /\ Cardinality(Releases \cup {n}) = Cardinality(Releases) + 1
            /\ UpTo(Releases \cup {n}, n) = Cardinality(Releases) + 1
            /\ \A i \in Releases : UpTo(Releases \cup {n}, i) = UpTo(Releases, i)
        BY <3>1, Counting
      <4>2. QED
        BY <1>0, <3>1, <3>2, <4>1 DEF AuditIsWhole
    <3>4. contexts[c].revision = revision
      BY <2>2 DEF Releasable
    <3>5. \A i \in Releases' : audit'[i].revision = contexts'[turns'[UpTo(Releases', i)]].revision
      <4>1. ASSUME NEW i \in Releases
            PROVE  audit'[i].revision = contexts'[turns'[UpTo(Releases', i)]].revision
        <5>1. audit'[i] = audit[i] /\ UpTo(Releases', i) = UpTo(Releases, i)
          BY <3>1, <3>3
        <5>2. turns'[UpTo(Releases, i)] = turns[UpTo(Releases, i)]
          BY <1>u, <3>2
        <5>3. audit[i].revision = contexts[turns[UpTo(Releases, i)]].revision
          BY <1>0 DEF AuditIsWhole
        <5>4. QED
          BY <2>0, <5>1, <5>2, <5>3
      <4>2. audit'[n].revision = contexts'[turns'[UpTo(Releases', n)]].revision
        BY <2>0, <3>1, <3>2, <3>3, <3>4
      <4>3. QED
        BY <3>1, <4>1, <4>2
    <3>6. \A i \in Changes' : audit'[i].revision = UpTo(Changes', i)
      BY <1>0, <3>1 DEF AuditIsWhole
    <3>7. \A i, j \in DOMAIN audit' : i < j => audit'[i].revision <= audit'[j].revision
      BY <1>0, <1>t, <1>e, <3>1 DEF AuditIsWhole, AuditBounded
    <3>8. AuditBounded'
      BY <1>0, <1>t, <1>e, <2>0, <3>1 DEF AuditBounded
    <3>9. AuditIsWhole'
      BY <1>0, <2>0, <3>1, <3>3, <3>5, <3>6, <3>7 DEF AuditIsWhole, UpTo
    <3>10. QED
      BY <3>8, <3>9
  <2>3. QED
    BY <1>0, <1>2, <2>1, <2>2, ReleaseKept
<1>3. CASE /\ UNCHANGED <<revision, audit, turns>>
           /\ \A i \in DOMAIN contexts : contexts'[i] = contexts[i]
  <2>1. \A i \in DOMAIN turns : turns[i] \in DOMAIN contexts
    BY <1>t, ElementOfSeq
  <2>2. Changes' = Changes /\ Releases' = Releases
    BY <1>3 DEF Changes, Releases
  <2>3. \A i \in Releases : audit[i].revision = contexts'[turns[UpTo(Releases, i)]].revision
    BY <1>0, <1>u, <1>3, <2>1 DEF AuditIsWhole
  <2>4. QED
    BY <1>0, <1>3, <2>2, <2>3 DEF AuditIsWhole, AuditBounded, UpTo
<1>4. QED
  BY <1>0, <1>1, <1>2, <1>3, AuditSteps

LEMMA NextHost == HostIInv /\ [Next]_vars => HostIInv'
BY TypeStep, RevisionStep, PublicationStep, AuditStep DEF HostIInv, HostInv

------------------------------------------------------------------------------
(* The theorems.                                                           *)

\* In every state of every host: one publication for each binding, a whole
\* audit, and revisions that determine what was readable (demo_guard_host.py
\* 248-359).
THEOREM HostSafe == Spec => []HostInv
<1>1. HostIInv => HostInv
  BY DEF HostIInv
<1>2. QED
  BY InitHost, NextHost, <1>1, PTL DEF Spec

\* The sources of the answers, one for each turn.
LEMMA LogIsSeq ==
  ASSUME turns \in Seq(DOMAIN contexts)
  PROVE  LET log == [i \in DOMAIN turns |-> contexts[turns[i]].refs] IN
         /\ log \in Seq({contexts[i].refs : i \in DOMAIN contexts})
         /\ Len(log) = Len(turns)
<1> DEFINE log == [i \in DOMAIN turns |-> contexts[turns[i]].refs]
           R == {contexts[i].refs : i \in DOMAIN contexts}
<1>1. DOMAIN turns = 1..Len(turns) /\ Len(turns) \in Nat
  BY LenProperties
<1>2. log \in [1..Len(turns) -> R]
  BY <1>1, ElementOfSeq
<1>3. log \in Seq(R)
  BY <1>1, <1>2, SeqDef
<1>4. Len(log) = Len(turns)
  BY <1>1, <1>2, <1>3, LenProperties
<1>5. QED
  BY <1>3, <1>4

\* What of a thread its owner sees, after each step.
LEMMA PromiseStep == HostIInv /\ [Next]_vars => [Promised!Next]_(Promised!vars)
<1> SUFFICES ASSUME HostIInv, [Next]_vars
             PROVE  [Promised!Next]_(Promised!vars)
  OBVIOUS
<1> DEFINE readable == IF session_valid("owner") THEN Permitted ELSE {}
           log == [i \in DOMAIN turns |-> contexts[turns[i]].refs]
<1>0. TypeOK /\ CallsKept
  BY DEF HostIInv, HostInv
<1>p. Permitted \subseteq Sources /\ readable \in SUBSET Sources
  BY <1>0 DEF Permitted, TypeOK
<1>t. /\ turns \in Seq(DOMAIN contexts) /\ DOMAIN turns = 1..Len(turns) /\ Len(turns) \in Nat
      /\ \A i \in DOMAIN turns : turns[i] \in DOMAIN contexts
  BY <1>0, LenProperties, ElementOfSeq DEF TypeOK
<1>s. ASSUME turns' = turns, \A i \in DOMAIN contexts : contexts'[i] = contexts[i]
      PROVE  log' = log
  BY <1>s, <1>t
<1>r. ASSUME UNCHANGED policy
      PROVE  readable' = readable
  BY <1>r DEF policy, session_valid, Permitted
<1>1. CASE Expire \/ \E t \in Tasks : ChangePolicy(t)
  <2>1. log' = log /\ view' = view
    BY <1>1, <1>s DEF Expire, ChangePolicy, thread
  <2>2. readable' \in SUBSET Sources
    <3>1. active' \subseteq Sources
      BY <1>0, <1>1, ChangeKept DEF Expire, TypeOK
    <3>2. QED
      BY <3>1 DEF Permitted
  <2>3. Promised!Policy
    BY <2>1, <2>2 DEF Promised!Policy
  <2>4. QED
    BY <2>3 DEF Promised!Next
<1>2. ASSUME NEW t \in Tasks, Start(t) \/ policy_scope(t) \/ Cancel(t) \/ Bind(t) \/ Prepare(t)
      PROVE  UNCHANGED <<readable, log, view>>
  <2>1. UNCHANGED policy /\ UNCHANGED <<turns, view>>
    BY <1>2 DEF Start, Invoke, policy_scope, Cancel, Bind, Prepare, thread
  <2>2. \A i \in DOMAIN contexts : contexts'[i] = contexts[i]
    BY <1>0, <1>2, PrepareKept DEF Start, Invoke, policy_scope, Cancel, Bind, thread
  <2>3. QED
    BY <1>r, <1>s, <2>1, <2>2
<1>3. ASSUME NEW t \in Tasks, Release(t)
      PROVE  Promised!Publish \/ UNCHANGED <<readable, log, view>>
  <2> DEFINE c == call[t].ctx
             n == Len(turns) + 1
  <2>1. UNCHANGED policy /\ UNCHANGED <<contexts, view>>
    BY <1>3 DEF Release
  <2>2. CASE turns' = turns
    BY <1>r, <1>s, <2>1, <2>2
  <2>3. CASE Releasable(call[t].who, contexts[c]) /\ c \in DOMAIN contexts /\ turns' = Append(turns, c)
    <3>1. contexts[c].refs \in (SUBSET readable) \ {{}}
      <4>1. contexts[c] \in Context
        BY <1>0, <2>3, ElementOfSeq, LenProperties DEF TypeOK
      <4>2. contexts[c].refs # {}
        BY <4>1 DEF Context
      <4>3. readable = Permitted /\ contexts[c].refs \subseteq Permitted
        BY <2>3 DEF Releasable, session_valid
      <4>4. QED
        BY <4>2, <4>3
    <3>2. log' = Append(log, contexts[c].refs)
      <4>1. /\ DOMAIN turns' = 1..n /\ turns'[n] = c /\ n \notin 1..Len(turns)
            /\ \A i \in 1..Len(turns) : turns'[i] = turns[i]
        BY <1>t, <2>3, Appended
      <4>2. log' = [i \in 1..n |-> contexts[turns'[i]].refs]
        BY <2>1, <4>1
      <4>3. log \in Seq({contexts[i].refs : i \in DOMAIN contexts}) /\ Len(log) = Len(turns)
        BY <1>t, LogIsSeq
      <4> DEFINE r == contexts[c].refs
      <4>4. r \in {contexts[i].refs : i \in DOMAIN contexts}
        BY <2>3
      <4>5. /\ DOMAIN Append(log, r) = 1..n /\ Append(log, r)[n] = r
            /\ \A i \in 1..Len(turns) : Append(log, r)[i] = log[i]
        <5> HIDE DEF log, r
        <5>1. QED
          BY <4>3, <4>4, Appended
      <4>6. QED
        BY <1>t, <4>1, <4>2, <4>5
    <3>3. readable' = readable
      BY <1>r, <2>1
    <3>4. Promised!Publish
      BY <2>1, <3>1, <3>2, <3>3 DEF Promised!Publish
    <3>5. QED
      BY <3>4
  <2>4. QED
    BY <1>0, <1>3, <2>2, <2>3, ReleaseKept
<1>4. ASSUME NEW t \in Tasks, read_saved(t)
      PROVE  Promised!Hide \/ UNCHANGED <<readable, log, view>>
  <2>1. UNCHANGED policy /\ UNCHANGED <<contexts, turns>> /\ (view' = view \/ view' = {})
    BY <1>4 DEF read_saved
  <2>2. readable' = readable /\ log' = log
    BY <1>r, <1>s, <2>1
  <2>3. QED
    BY <2>1, <2>2 DEF Promised!Hide
<1>5. ASSUME NEW t \in Tasks, Show(t)
      PROVE  Promised!Show \/ Promised!Hide
  <2> DEFINE refs == contexts[call[t].ctx].refs
  <2>1. UNCHANGED policy /\ UNCHANGED <<contexts, turns>>
    BY <1>5 DEF Show
  <2>2. readable' = readable /\ log' = log
    BY <1>r, <1>s, <2>1
  <2>3. turns # <<>> /\ call[t].ctx = Last(turns) /\ Len(turns) \in DOMAIN turns
    BY <1>0, <1>5, LastTurn DEF Show, CallsKept
  <2>4. log # <<>> /\ log[Len(log)] = refs
    <3>1. Len(log) = Len(turns)
      BY <1>t, LogIsSeq
    <3>2. log[Len(turns)] = refs
      BY <2>3 DEF Last
    <3>3. log # <<>>
      BY <2>3, <3>1, EmptySeq
    <3>4. QED
      BY <3>1, <3>2, <3>3
  <2>5. CASE session_valid(call[t].who) /\ refs \subseteq Permitted
    <3>1. view' = refs
      BY <1>5, <2>5 DEF Show
    <3>2. refs \subseteq readable
      BY <2>5 DEF session_valid
    <3>3. Promised!Show
      BY <2>2, <2>4, <3>1, <3>2 DEF Promised!Show
    <3>4. QED
      BY <3>3
  <2>6. CASE ~(session_valid(call[t].who) /\ refs \subseteq Permitted)
    <3>1. view' = {}
      BY <1>5, <2>6 DEF Show
    <3>2. QED
      BY <2>2, <3>1 DEF Promised!Hide
  <2>7. QED
    BY <2>5, <2>6
<1>6. CASE UNCHANGED vars
  <2>1. UNCHANGED policy /\ UNCHANGED <<contexts, turns, view>>
    BY <1>6 DEF vars, policy
  <2>2. QED
    BY <1>r, <1>s, <2>1 DEF Promised!vars
<1>7. QED
  BY <1>1, <1>2, <1>3, <1>4, <1>5, <1>6 DEF Next, Inside, Promised!Next, Promised!vars

\* The host implements its promise: an answer enters the thread, and is shown,
\* only in an instant in which its owner may read every source of it.
THEOREM HostKeepsPromise == Spec => KeepsPromise
<1>1. Init => Promised!Init
  <2>1. Init => Permitted = {} /\ DOMAIN turns = {}
    BY DEF Init, Permitted
  <2>2. QED
    BY <2>1 DEF Init, Promised!Init
<1>2. QED
  BY <1>1, InitHost, NextHost, PromiseStep, PTL DEF Spec, KeepsPromise, Promised!Spec
========================================================================================================================================================
