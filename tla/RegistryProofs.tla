---------------------------- MODULE RegistryProofs ----------------------------
(***************************************************************************)
(* Proofs about the administrator's views, for any documents, roles and    *)
(* events and any bounds: what a view shows belongs together, the pages of *)
(* the audit log are whole, and a change is reported as what it was.       *)
(***************************************************************************)
EXTENDS MCRegistries, FiniteSetTheorems, SequenceTheorems, TLAPS

------------------------------------------------------------------------------
(* The audit log.                                                          *)

Descends(s) == \A i \in 1 .. Len(s) - 1 : s[i] > s[i + 1]
Answers(kind, p) == kind = None \/ KindOf[p] = kind

PageStages == {"none", "asked", "answered"}
Cursors == Places \cup {None}
AuditCall ==
  [at : PageStages, filters : Kinds \cup {None}, cursor : Cursors, page : Seq(Places), next : Cursors,
   matching : SUBSET Places]

\* A request asks for what follows the rows that are shown.
PageStaged ==
  /\ pageCall.at = "none" => pageCall = Audit!NoCall
  /\ ~reader => pageCall.at = "none" /\ rows = <<>> /\ nextCursor = None
  /\ pageCall.at # "none" => pageCall.filters = filters /\ pageCall.cursor = nextCursor
  /\ pageCall.at # "none" /\ pageCall.cursor = None => rows = <<>> /\ atFirst = {}

\* The cursor is the last row.
PageKept ==
  /\ IsFiniteSet(log) /\ atFirst \subseteq Audit!Matching(filters)
  /\ nextCursor # None => rows # <<>> /\ nextCursor = rows[Len(rows)]

\* A page holds what follows its cursor, in order, as far as its own next cursor.
Whole(page, next, kind, cursor, due) ==
  /\ Descends(page)
  /\ \A i \in 1 .. Len(page) : Answers(kind, page[i]) /\ (cursor # None => page[i] < cursor)
  /\ next # None => page # <<>> /\ next = page[Len(page)]
  /\ \A p \in due : (cursor = None \/ p < cursor) /\ (next = None \/ p >= next)
       => \E i \in 1 .. Len(page) : page[i] = p

PageGathered ==
  pageCall.at = "answered" =>
    /\ pageCall.matching \subseteq Audit!Matching(filters)
    /\ Whole(pageCall.page, pageCall.next, filters, pageCall.cursor,
             IF pageCall.cursor = None THEN pageCall.matching ELSE atFirst)

\* The inductive invariant.
AuditIInv == Audit!AuditInv /\ pageCall \in AuditCall /\ PageStaged /\ PageKept /\ PageGathered

USE ViewAssumption DEF Audit!AuditAssumption

\* How many of the places are not below one of them.
Rank(S, p) == Cardinality({q \in S : q >= p})

\* The view's module counts as this one does.
LEMMA SameCardinality == \A S : Audit!Cardinality(S) = Cardinality(S)
  BY DEF Audit!Cardinality, Cardinality

LEMMA RanksOrder ==
  ASSUME NEW S \in SUBSET Nat, IsFiniteSet(S)
  PROVE  /\ Cardinality(S) \in Nat
         /\ \A p \in S : Rank(S, p) \in 1 .. Cardinality(S)
         /\ \A p, r \in S : p < r => Rank(S, r) < Rank(S, p)
         /\ \A i \in 1 .. Cardinality(S) : \E p \in S : Rank(S, p) = i
<1> DEFINE up(p) == {q \in S : q >= p}
           n == Cardinality(S)
           f == [p \in S |-> Rank(S, p)]
<1>1. n \in Nat /\ IsFiniteSet(1 .. n) /\ Cardinality(1 .. n) = n
  BY FS_CardinalityType, FS_Interval
<1>2. ASSUME NEW p \in S PROVE Rank(S, p) \in 1 .. n
  <2>1. up(p) \in SUBSET S /\ p \in up(p)
    OBVIOUS
  <2>2. IsFiniteSet(up(p)) /\ Cardinality(up(p)) <= n /\ Cardinality(up(p)) \in Nat
    BY <2>1, FS_Subset, FS_CardinalityType
  <2>3. Cardinality(up(p)) # 0
    BY <2>1, <2>2, FS_EmptySet
  <2>4. QED
    BY <1>1, <2>2, <2>3 DEF Rank
<1>3. ASSUME NEW p \in S, NEW r \in S, p < r PROVE Rank(S, r) < Rank(S, p)
  <2>a. p \in Nat /\ r \in Nat /\ \A q \in S : q \in Nat /\ (q >= r => q >= p)
    BY <1>3
  <2>b. up(p) \in SUBSET S /\ up(r) \in SUBSET up(p)
    BY <2>a
  <2>c. p \in up(p)
    BY <2>a
  <2>d. p \notin up(r)
    BY <1>3, <2>a
  <2>1. up(p) \in SUBSET S /\ up(r) \in SUBSET up(p) /\ p \in up(p) /\ p \notin up(r)
    BY <2>b, <2>c, <2>d
  <2>2. IsFiniteSet(up(p))
    BY <2>1, FS_Subset
  <2>3. Cardinality(up(r)) <= Cardinality(up(p)) /\ Cardinality(up(p)) # Cardinality(up(r))
    BY <2>1, <2>2, FS_Subset
  <2>4. Rank(S, r) \in 1 .. n /\ Rank(S, p) \in 1 .. n
    BY <1>2
  <2>5. QED
    BY <1>1, <2>3, <2>4 DEF Rank
<1>4. f \in Injection(S, 1 .. n)
  <2>1. f \in [S -> 1 .. n]
    BY <1>2
  <2>2. ASSUME NEW p \in S, NEW r \in S, f[p] = f[r] PROVE p = r
    <3>1. ~(p < r) /\ ~(r < p)
      BY <1>1, <1>2, <1>3, <2>2
    <3>2. QED
      BY <3>1
  <2>3. QED
    BY <2>1, <2>2 DEF Injection, IsInjective
<1>5. f \in Surjection(S, 1 .. n)
  BY <1>1, <1>4, FS_Injection
<1>6. \A i \in 1 .. n : \E p \in S : f[p] = i
  BY <1>5 DEF Surjection
<1>7. QED
  BY <1>1, <1>2, <1>3, <1>6

\* The places of a finite set, from the highest to the lowest, each once.
LEMMA DescendingOrders ==
  ASSUME NEW S \in SUBSET Nat, IsFiniteSet(S)
  PROVE  /\ Cardinality(S) \in Nat
         /\ Audit!Descending(S) \in [1 .. Cardinality(S) -> S]
         /\ \A i, j \in 1 .. Cardinality(S) : i < j => Audit!Descending(S)[i] > Audit!Descending(S)[j]
         /\ \A p \in S : \E i \in 1 .. Cardinality(S) : Audit!Descending(S)[i] = p
<1> DEFINE n == Cardinality(S)
           d == Audit!Descending(S)
<1>1. /\ n \in Nat /\ \A p \in S : Rank(S, p) \in 1 .. n
      /\ \A p, r \in S : p < r => Rank(S, r) < Rank(S, p)
      /\ \A i \in 1 .. n : \E p \in S : Rank(S, p) = i
  BY RanksOrder
<1>2. d = [i \in 1 .. n |-> CHOOSE p \in S : Rank(S, p) = i]
  BY DEF Audit!Descending, Rank, Audit!Cardinality, Cardinality
<1>3. ASSUME NEW i \in 1 .. n PROVE d[i] \in S /\ Rank(S, d[i]) = i
  BY <1>1, <1>2
<1>4. d \in [1 .. n -> S]
  BY <1>2, <1>3
<1>5. ASSUME NEW i \in 1 .. n, NEW j \in 1 .. n, i < j PROVE d[i] > d[j]
  <2>1. /\ d[i] \in S /\ d[j] \in S /\ d[i] \in Nat /\ d[j] \in Nat
        /\ Rank(S, d[i]) = i /\ Rank(S, d[j]) = j
    BY <1>3
  <2> HIDE DEF d
  <2>2. d[i] # d[j] /\ ~(d[i] < d[j])
    BY <1>1, <1>5, <2>1
  <2>3. QED
    BY <2>1, <2>2
<1>6. ASSUME NEW p \in S PROVE \E i \in 1 .. n : d[i] = p
  <2>1. Rank(S, p) \in 1 .. n
    BY <1>1
  <2>2. PICK i \in 1 .. n : i = Rank(S, p)
    BY <2>1
  <2>3. d[i] \in S /\ Rank(S, d[i]) = Rank(S, p) /\ d[i] \in Nat /\ p \in Nat
    BY <1>3, <2>2
  <2> HIDE DEF d
  <2>4. ~(d[i] < p) /\ ~(p < d[i])
    BY <1>1, <2>1, <2>3
  <2>5. d[i] = p
    BY <2>3, <2>4
  <2>6. QED
    BY <2>2, <2>5
<1>7. QED
  BY <1>1, <1>4, <1>5, <1>6

\* A page is whole: what follows the cursor, as far as there is another page.
LEMMA PageIsWhole ==
  ASSUME NEW kind, NEW cursor \in Cursors, log \subseteq Places, IsFiniteSet(log)
  PROVE  /\ Audit!Page(kind, cursor).items \in Seq(Places)
         /\ Audit!Page(kind, cursor).next \in Cursors
         /\ Whole(Audit!Page(kind, cursor).items, Audit!Page(kind, cursor).next, kind, cursor, Audit!Matching(kind))
<1> DEFINE S == Audit!After(Audit!Matching(kind), cursor)
           n == Cardinality(S)
           d == Audit!Descending(S)
           m == IF n > PageSize + 1 THEN PageSize + 1 ELSE n
           k == IF m > PageSize THEN PageSize ELSE m
           entries == Audit!FirstOf(Audit!Limit, d)
           page == Audit!FirstOf(PageSize, entries)
<1>1. /\ S \in SUBSET Places /\ S \in SUBSET log /\ S \in SUBSET Nat
      /\ \A p \in S : Answers(kind, p) /\ (cursor # None => p < cursor)
      /\ \A p \in Audit!Matching(kind) : cursor = None \/ p < cursor => p \in S
  BY DEF Audit!After, Audit!Matching, Answers
<1>2. IsFiniteSet(S)
  BY <1>1, FS_Subset
<1> HIDE DEF S
<1>3. /\ n \in Nat /\ d \in [1 .. n -> S]
      /\ \A i, j \in 1 .. n : i < j => d[i] > d[j]
      /\ \A p \in S : \E i \in 1 .. n : d[i] = p
  BY <1>1, <1>2, DescendingOrders
<1> HIDE DEF d
<1>4. d \in Seq(S) /\ Len(d) = n
  BY <1>3
<1>5. m \in Nat /\ k \in Nat /\ k <= m /\ m <= n /\ k <= PageSize /\ PageSize \in Nat \ {0}
  BY <1>3
<1>6. entries = SubSeq(d, 1, m)
  BY <1>3, <1>4 DEF Audit!FirstOf, Audit!Limit
<1>7. entries \in Seq(S) /\ Len(entries) = m /\ \A i \in 1 .. m : entries[i] = d[i]
  <2>1. \A i \in 1 .. m : d[i] \in S
    BY <1>3, <1>5
  <2>2. QED
    BY <1>5, <1>6, <2>1, SubSeqProperties
<1> HIDE DEF entries, m
<1>8. page = SubSeq(entries, 1, k)
  BY <1>5, <1>7 DEF Audit!FirstOf
<1>9. page \in Seq(S) /\ Len(page) = k /\ \A i \in 1 .. k : page[i] = d[i]
  <2>1. \A i \in 1 .. k : entries[i] \in S /\ entries[i] = d[i]
    BY <1>3, <1>5, <1>7
  <2>2. QED
    BY <1>5, <1>8, <2>1, SubSeqProperties
<1> DEFINE next == IF m > PageSize THEN page[k] ELSE None
<1>10. Audit!Page(kind, cursor) = [items |-> page, next |-> next]
  BY <1>7, <1>9 DEF Audit!Page, Audit!Last, S, d, entries
<1> HIDE DEF page
<1>11. m > PageSize => k = PageSize /\ k > 0 /\ page[k] \in S
  BY <1>5, <1>9
<1>12. m <= PageSize => k = n
  BY <1>3, <1>5 DEF m
<1>a. \A i \in 1 .. k : page[i] \in S /\ page[i] = d[i] /\ i \in 1 .. n
  BY <1>3, <1>5, <1>9
<1>13. page \in Seq(Places) /\ next \in Cursors
  <2>1. page \in Seq(Places)
    BY <1>1, <1>9, SeqMonotonic
  <2>2. next \in Cursors
    BY <1>1, <1>11 DEF Cursors
  <2>3. QED
    BY <2>1, <2>2
<1>14. Descends(page)
  BY <1>3, <1>5, <1>9 DEF Descends
<1>15. \A i \in 1 .. Len(page) : Answers(kind, page[i]) /\ (cursor # None => page[i] < cursor)
  BY <1>1, <1>9, <1>a
<1>16. next # None => page # <<>> /\ next = page[Len(page)]
  BY <1>5, <1>9, <1>11
<1>17. ASSUME NEW p \in S, next = None \/ p >= next PROVE \E i \in 1 .. Len(page) : page[i] = p
  <2>1. PICK i \in 1 .. n : d[i] = p
    BY <1>3
  <2>2. i <= k
    <3>1. CASE m <= PageSize
      BY <1>12, <2>1, <3>1
    <3>2. CASE m > PageSize
      <4>1. next = page[k] /\ k \in 1 .. k /\ page[k] \in Places /\ page[k] \in Nat
        <5>1. k > 0 /\ page[k] \in S /\ k \in Nat /\ next = page[k]
          BY <1>5, <1>11, <3>2
        <5> HIDE DEF k, next
        <5>2. \A x \in S : x \in Places /\ x \in Nat
          BY <1>1
        <5>3. k \in 1 .. k
          BY <5>1
        <5>4. QED
          BY <5>1, <5>2, <5>3
      <4>2. next = d[k] /\ k \in 1 .. n /\ next # None /\ d[k] \in Nat
        BY <1>a, <4>1
      <4>3. p >= d[k] /\ p \in Nat
        BY <1>1, <1>17, <4>2
      <4>a. k < i => d[k] > d[i]
        BY <1>3, <2>1, <4>2
      <4>b. ~(k < i)
        BY <2>1, <4>2, <4>3, <4>a
      <4>4. QED
        BY <1>5, <4>b
    <3>3. QED
      BY <1>5, <3>1, <3>2
  <2>3. QED
    BY <1>5, <1>9, <2>1, <2>2
<1>18. Whole(page, next, kind, cursor, Audit!Matching(kind))
  BY <1>1, <1>14, <1>15, <1>16, <1>17 DEF Whole
<1>19. QED
  BY <1>10, <1>13, <1>18

LEMMA AuditNoCallTyped == Audit!NoCall \in AuditCall /\ Audit!NoCall.at = "none"
<1>1. "none" \in PageStages /\ None \in Cursors /\ None \in Kinds \cup {None} /\ <<>> \in Seq(Places)
  BY DEF PageStages, Cursors
<1>2. QED
  BY <1>1 DEF Audit!NoCall, AuditCall

LEMMA AuditInit == Audit!Init => AuditIInv
<1> SUFFICES ASSUME Audit!Init PROVE AuditIInv
  OBVIOUS
<1> USE AuditNoCallTyped DEF Audit!Init
<1>1. Audit!TypeOK
  <2>1. pageBusy = FALSE /\ pageCall.at = "none"
    OBVIOUS
  <2>2. pageBusy = (pageCall.at # "none")
    BY <2>1
  <2>3. rows \in Seq(Places)
    OBVIOUS
  <2>4. QED
    BY <2>2, <2>3 DEF Audit!TypeOK
<1>2. Audit!RowsDescend /\ Audit!RowsMatch /\ Audit!NoneSkipped
  BY DEF Audit!RowsDescend, Audit!RowsMatch, Audit!NoneSkipped
<1>3. pageCall \in AuditCall /\ PageStaged /\ PageGathered
  BY DEF PageStaged, PageGathered
<1>4. PageKept
  BY FS_EmptySet DEF PageKept
<1>5. QED
  BY <1>1, <1>2, <1>3, <1>4 DEF AuditIInv, Audit!AuditInv

LEMMA PageAsked ==
  ASSUME NEW kind \in Kinds \cup {None}, NEW cursor \in Cursors, Audit!FetchPage(kind, cursor)
  PROVE  /\ pageCall' \in AuditCall /\ pageCall'.at = "asked" /\ pageCall'.filters = kind
         /\ pageCall'.cursor = cursor /\ pageBusy' = (pageCall'.at # "none") /\ pageMessage' = "none"
<1>1. "asked" \in PageStages /\ pageCall' = [Audit!NoCall EXCEPT !.at = "asked", !.filters = kind, !.cursor = cursor]
  BY DEF PageStages, Audit!FetchPage
<1>2. pageCall' \in AuditCall /\ pageCall'.at = "asked" /\ pageCall'.filters = kind /\ pageCall'.cursor = cursor
  BY <1>1, AuditNoCallTyped DEF AuditCall
<1>3. pageBusy' = TRUE /\ pageCall'.at # "none" /\ pageMessage' = "none"
  BY <1>2 DEF Audit!FetchPage
<1>4. pageBusy' = (pageCall'.at # "none")
  BY <1>3
<1>5. QED
  BY <1>2, <1>3, <1>4

LEMMA AuditActions ==
  ASSUME AuditIInv, Audit!Next
  PROVE  AuditIInv'
<1> USE DEF AuditIInv, Audit!AuditInv, Audit!shown
<1>0. /\ pageBusy = (pageCall.at # "none") /\ pageCall \in AuditCall /\ rows \in Seq(Places)
      /\ filters \in Kinds \cup {None} /\ nextCursor \in Cursors /\ None \in Cursors
  BY DEF Audit!TypeOK, Cursors
<1>1. ASSUME Audit!Record PROVE AuditIInv'
  <2> USE <1>1 DEF Audit!Record
  <2>1. pageCall' = pageCall /\ log \subseteq log' /\ log' \subseteq Places /\ IsFiniteSet(log')
    BY FS_AddElement DEF Audit!TypeOK, PageKept
  <2>2. Audit!TypeOK'
    BY <1>0, <2>1 DEF Audit!TypeOK
  <2>3. Audit!RowsDescend' /\ Audit!RowsMatch' /\ Audit!NoneSkipped'
    BY <1>0, <2>1 DEF Audit!RowsDescend, Audit!RowsMatch, Audit!NoneSkipped, PageStaged
  <2>4. PageStaged'
    BY <1>0, <2>1 DEF PageStaged
  <2>5. PageKept'
    BY <1>0, <2>1 DEF PageKept, Audit!Matching, PageStaged
  <2>6. PageGathered'
    BY <1>0, <2>1 DEF PageGathered, Audit!Matching
  <2>7. QED
    BY <2>1, <2>2, <2>3, <2>4, <2>5, <2>6
<1>2. ASSUME NEW kind \in Kinds \cup {None}, Audit!Load(kind) PROVE AuditIInv'
  <2> USE <1>2 DEF Audit!Load, Audit!Forget
  <2>1. /\ pageCall' \in AuditCall /\ pageCall'.at = "asked" /\ pageCall'.filters = kind
        /\ pageCall'.cursor = None /\ pageBusy' = (pageCall'.at # "none") /\ pageMessage' = "none"
    BY <1>0, PageAsked
  <2>2. Audit!TypeOK'
    BY <1>0, <2>1 DEF Audit!TypeOK
  <2>3. Audit!RowsDescend' /\ Audit!RowsMatch' /\ Audit!NoneSkipped'
    BY <1>0, <2>1 DEF Audit!RowsDescend, Audit!RowsMatch, Audit!NoneSkipped, PageStaged
  <2>4. PageStaged'
    BY <1>0, <2>1 DEF PageStaged
  <2>5. PageKept'
    BY <1>0, <2>1 DEF PageKept, Audit!Matching, PageStaged
  <2>6. PageGathered'
    BY <1>0, <2>1 DEF PageGathered, Audit!Matching
  <2>7. QED
    BY <2>1, <2>2, <2>3, <2>4, <2>5, <2>6
<1>3. ASSUME Audit!LoadMore PROVE AuditIInv'
  <2> USE <1>3 DEF Audit!LoadMore
  <2>1. /\ pageCall' \in AuditCall /\ pageCall'.at = "asked" /\ pageCall'.filters = filters
        /\ pageCall'.cursor = nextCursor /\ pageBusy' = (pageCall'.at # "none") /\ pageMessage' = "none"
    BY <1>0, PageAsked
  <2>2. Audit!TypeOK'
    BY <1>0, <2>1 DEF Audit!TypeOK
  <2>3. Audit!RowsDescend' /\ Audit!RowsMatch' /\ Audit!NoneSkipped'
    BY <1>0, <2>1 DEF Audit!RowsDescend, Audit!RowsMatch, Audit!NoneSkipped, PageStaged
  <2>4. PageStaged'
    BY <1>0, <2>1 DEF PageStaged
  <2>5. PageKept'
    BY <1>0, <2>1 DEF PageKept, Audit!Matching, PageStaged
  <2>6. PageGathered'
    BY <1>0, <2>1 DEF PageGathered, Audit!Matching
  <2>7. QED
    BY <2>1, <2>2, <2>3, <2>4, <2>5, <2>6
<1>4. ASSUME Audit!SessionCleared PROVE AuditIInv'
  <2> USE <1>4 DEF Audit!SessionCleared, Audit!Forget
  <2>1. /\ pageCall' \in AuditCall /\ pageCall' = Audit!NoCall /\ pageCall'.at = "none"
    BY AuditNoCallTyped
  <2>a. rows' \in Seq(Places) /\ reader' \in BOOLEAN /\ pageMessage' \in {"none", "failed"}
    OBVIOUS
  <2>b. pageBusy' = (pageCall'.at # "none")
    BY <2>1
  <2>2. Audit!TypeOK'
    BY <2>a, <2>b DEF Audit!TypeOK
  <2>3. Audit!RowsDescend' /\ Audit!RowsMatch' /\ Audit!NoneSkipped'
    BY <1>0, <2>1 DEF Audit!RowsDescend, Audit!RowsMatch, Audit!NoneSkipped, PageStaged
  <2>4. PageStaged'
    BY <1>0, <2>1 DEF PageStaged
  <2>5. PageKept'
    BY <1>0, <2>1 DEF PageKept, Audit!Matching, PageStaged
  <2>6. PageGathered'
    BY <1>0, <2>1 DEF PageGathered, Audit!Matching
  <2>7. QED
    BY <2>1, <2>2, <2>3, <2>4, <2>5, <2>6
<1>5. ASSUME Audit!SignedIn PROVE AuditIInv'
  <2> USE <1>5 DEF Audit!SignedIn
  <2>1. pageCall' = pageCall /\ pageCall' \in AuditCall
    BY <1>0
  <2>2. Audit!TypeOK'
    BY <1>0, <2>1 DEF Audit!TypeOK
  <2>3. Audit!RowsDescend' /\ Audit!RowsMatch' /\ Audit!NoneSkipped'
    BY <1>0, <2>1 DEF Audit!RowsDescend, Audit!RowsMatch, Audit!NoneSkipped, PageStaged
  <2>4. PageStaged'
    BY <1>0, <2>1 DEF PageStaged
  <2>5. PageKept'
    BY <1>0, <2>1 DEF PageKept, Audit!Matching, PageStaged
  <2>6. PageGathered'
    BY <1>0, <2>1 DEF PageGathered, Audit!Matching
  <2>7. QED
    BY <2>1, <2>2, <2>3, <2>4, <2>5, <2>6
<1>6. ASSUME Audit!Fails PROVE AuditIInv'
  <2> USE <1>6 DEF Audit!Fails, Audit!Settled
  <2>1. /\ pageCall' \in AuditCall /\ pageCall' = Audit!NoCall /\ pageCall'.at = "none"
    BY AuditNoCallTyped
  <2>2. Audit!TypeOK'
    BY <1>0, <2>1 DEF Audit!TypeOK
  <2>3. Audit!RowsDescend' /\ Audit!RowsMatch' /\ Audit!NoneSkipped'
    BY <1>0, <2>1 DEF Audit!RowsDescend, Audit!RowsMatch, Audit!NoneSkipped, PageStaged
  <2>4. PageStaged'
    BY <1>0, <2>1 DEF PageStaged
  <2>5. PageKept'
    BY <1>0, <2>1 DEF PageKept, Audit!Matching, PageStaged
  <2>6. PageGathered'
    BY <1>0, <2>1 DEF PageGathered, Audit!Matching
  <2>7. QED
    BY <2>1, <2>2, <2>3, <2>4, <2>5, <2>6
<1>7. ASSUME Audit!LateArrives PROVE AuditIInv'
  <2> USE <1>7 DEF Audit!LateArrives, Audit!ArrivesLate
  <2>1. pageCall' = pageCall
    BY <1>0
  <2>2. Audit!TypeOK'
    BY <1>0, <2>1 DEF Audit!TypeOK
  <2>3. Audit!RowsDescend' /\ Audit!RowsMatch' /\ Audit!NoneSkipped'
    BY <1>0, <2>1 DEF Audit!RowsDescend, Audit!RowsMatch, Audit!NoneSkipped, PageStaged
  <2>4. PageStaged'
    BY <1>0, <2>1 DEF PageStaged
  <2>5. PageKept'
    BY <1>0, <2>1 DEF PageKept, Audit!Matching, PageStaged
  <2>6. PageGathered'
    BY <1>0, <2>1 DEF PageGathered, Audit!Matching
  <2>7. QED
    BY <2>1, <2>2, <2>3, <2>4, <2>5, <2>6
<1>8. ASSUME Audit!Serve PROVE AuditIInv'
  <2> USE <1>8 DEF Audit!Serve
  <2> DEFINE page == Audit!Page(pageCall.filters, pageCall.cursor)
             matching == Audit!Matching(pageCall.filters)
  <2>a. log \subseteq Places /\ IsFiniteSet(log) /\ pageCall.cursor \in Cursors
    BY <1>0 DEF Audit!TypeOK, PageKept, AuditCall
  <2>b. /\ page.items \in Seq(Places) /\ page.next \in Cursors
        /\ Whole(page.items, page.next, pageCall.filters, pageCall.cursor, matching)
    BY <2>a, PageIsWhole
  <2>c. pageCall.filters = filters /\ reader /\ (pageCall.cursor = None => rows = <<>> /\ atFirst = {})
        /\ pageCall.cursor = nextCursor
    BY DEF PageStaged
  <2>d. atFirst \subseteq matching /\ matching \in SUBSET Places /\ matching = Audit!Matching(filters)
    BY <2>a, <2>c DEF PageKept, Audit!Matching
  <2>e. pageCall' = [pageCall EXCEPT !.at = "answered", !.page = page.items, !.next = page.next,
                                     !.matching = matching]
    OBVIOUS
  <2> HIDE DEF page, matching
  <2>1. /\ pageCall' \in AuditCall /\ pageCall'.at = "answered" /\ pageCall'.filters = filters
        /\ pageCall'.cursor = pageCall.cursor /\ pageCall'.page = page.items /\ pageCall'.next = page.next
        /\ pageCall'.matching = matching
    <3>1. "answered" \in PageStages
      BY DEF PageStages
    <3>2. QED
      BY <1>0, <2>b, <2>c, <2>d, <2>e, <3>1 DEF AuditCall
  <2>2. Audit!TypeOK'
    <3>1. pageBusy' = (pageCall'.at # "none")
      BY <1>0, <2>1
    <3>2. QED
      BY <3>1 DEF Audit!TypeOK
  <2>3. Audit!RowsDescend' /\ Audit!RowsMatch' /\ Audit!NoneSkipped'
    BY DEF Audit!RowsDescend, Audit!RowsMatch, Audit!NoneSkipped
  <2>4. PageStaged'
    BY <2>1, <2>c DEF PageStaged
  <2>5. PageKept'
    BY DEF PageKept, Audit!Matching
  <2>6. PageGathered'
    <3>1. Whole(page.items, page.next, filters, pageCall.cursor,
                IF pageCall.cursor = None THEN matching ELSE atFirst)
      BY <2>b, <2>c, <2>d DEF Whole
    <3>2. Audit!Matching(filters)' = Audit!Matching(filters)
      BY DEF Audit!Matching
    <3>3. QED
      BY <2>1, <2>d, <3>1, <3>2 DEF PageGathered, Whole, Descends, Answers
  <2>7. QED
    BY <2>1, <2>2, <2>3, <2>4, <2>5, <2>6
<1>9. ASSUME Audit!Arrives PROVE AuditIInv'
  <2> USE <1>9 DEF Audit!Arrives, Audit!Settled
  <2>1. /\ pageCall' \in AuditCall /\ pageCall' = Audit!NoCall /\ pageCall'.at = "none"
        /\ pageBusy' = FALSE /\ reader
    BY AuditNoCallTyped DEF PageStaged
  <2> DEFINE page == pageCall.page
             cursor == pageCall.cursor
             due == IF cursor = None THEN pageCall.matching ELSE atFirst
  <2>a. /\ cursor = nextCursor /\ (cursor = None => rows = <<>>)
        /\ page \in Seq(Places) /\ pageCall.next \in Cursors /\ pageCall.matching \in SUBSET Places
        /\ pageCall.matching \subseteq Audit!Matching(filters)
        /\ Whole(page, pageCall.next, filters, cursor, due)
    BY <1>0 DEF PageStaged, PageGathered, AuditCall
  <2>b. rows' = rows \o page /\ nextCursor' = pageCall.next /\ atFirst' = due
    BY <2>a DEF Audit!Rows
  <2> DEFINE l == Len(rows)
             m == Len(page)
  <2>c. /\ l \in Nat /\ m \in Nat /\ rows' \in Seq(Places) /\ Len(rows') = l + m
        /\ \A i \in 1 .. l : rows[i] \in Nat /\ rows'[i] = rows[i]
        /\ \A i \in 1 .. m : page[i] \in Nat /\ rows'[l + i] = page[i]
    <3>1. \A i \in 1 .. l : rows[i] \in Places
      BY <1>0, ElementOfSeq
    <3>2. \A i \in 1 .. m : page[i] \in Places
      BY <2>a, ElementOfSeq
    <3>3. /\ rows' \in Seq(Places) /\ Len(rows') = l + m
          /\ \A i \in 1 .. l + m : rows'[i] = IF i <= l THEN rows[i] ELSE page[i - l]
      BY <1>0, <2>a, <2>b, ConcatProperties
    <3>4. l \in Nat /\ m \in Nat
      BY <1>0, <2>a
    <3>5. ASSUME NEW i \in 1 .. l PROVE rows[i] \in Nat /\ rows'[i] = rows[i]
      <4>1. i \in 1 .. l + m /\ i <= l
        BY <3>4
      <4>2. rows'[i] = rows[i]
        BY <3>3, <4>1
      <4>3. QED
        BY <3>1, <4>2
    <3>6. ASSUME NEW i \in 1 .. m PROVE page[i] \in Nat /\ rows'[l + i] = page[i]
      <4>1. l + i \in 1 .. l + m /\ ~(l + i <= l) /\ (l + i) - l = i
        BY <3>4
      <4>2. QED
        BY <3>2, <3>3, <4>1
    <3>7. QED
      BY <3>3, <3>4, <3>5, <3>6
  <2> HIDE DEF page, cursor, due
  <2>d. /\ Descends(page) /\ Descends(rows)
        /\ l # 0 => cursor # None /\ cursor = rows[l]
        /\ cursor # None => l # 0 /\ cursor \in Places
        /\ cursor # None => \A i \in 1 .. m : page[i] < cursor
        /\ pageCall.next # None => m # 0 /\ pageCall.next = page[m]
    BY <1>0, <2>a DEF Whole, Descends, Audit!RowsDescend, PageKept, Cursors
  <2>e. \A i \in 1 .. l + m : \/ i \in 1 .. l /\ rows'[i] = rows[i]
                              \/ i - l \in 1 .. m /\ rows'[i] = page[i - l] /\ i = l + (i - l)
    <3>1. ASSUME NEW i \in 1 .. l + m, ~(i \in 1 .. l)
          PROVE  i - l \in 1 .. m /\ rows'[i] = page[i - l] /\ i = l + (i - l)
      <4>1. i - l \in 1 .. m /\ i = l + (i - l)
        BY <2>c, <3>1
      <4>2. QED
        BY <2>c, <4>1
    <3>2. QED
      BY <2>c, <3>1
  <2>2. Audit!TypeOK'
    <3>1. pageBusy' = (pageCall'.at # "none")
      BY <2>1
    <3>2. due \in SUBSET Places
      BY <2>a DEF Audit!TypeOK, due
    <3>3. QED
      BY <2>a, <2>b, <2>c, <3>1, <3>2 DEF Audit!TypeOK, Cursors
  <2>3. Audit!RowsDescend'
    <3>1. ASSUME NEW i \in 1 .. (l + m) - 1 PROVE rows'[i] > rows'[i + 1]
      <4>1. CASE i < l
        <5>1. i \in 1 .. l /\ i + 1 \in 1 .. l /\ i \in 1 .. l - 1
          BY <2>c, <4>1
        <5>2. rows'[i] = rows[i] /\ rows'[i + 1] = rows[i + 1]
          BY <2>c, <5>1
        <5>3. rows[i] > rows[i + 1]
          BY <2>d, <5>1 DEF Descends
        <5>4. QED
          BY <5>2, <5>3
      <4>2. CASE i = l
        <5>1. rows'[i] = cursor /\ cursor # None /\ cursor \in Nat /\ 1 \in 1 .. m
          BY <2>c, <2>d, <4>2
        <5>2. rows'[i + 1] = page[1] /\ page[1] < cursor /\ page[1] \in Nat
          BY <2>c, <2>d, <4>2, <5>1
        <5>3. QED
          BY <5>1, <5>2
      <4>3. CASE i > l
        <5>1. i - l \in 1 .. m - 1 /\ i - l \in 1 .. m /\ i - l + 1 \in 1 .. m
              /\ l + (i - l) = i /\ l + (i - l + 1) = i + 1
          BY <2>c, <4>3
        <5>2. rows'[i] = page[i - l] /\ rows'[i + 1] = page[i - l + 1]
          BY <2>c, <5>1
        <5>3. page[i - l] > page[i - l + 1]
          BY <2>d, <5>1 DEF Descends
        <5>4. QED
          BY <5>2, <5>3
      <4>4. QED
        BY <2>c, <4>1, <4>2, <4>3
    <3>2. QED
      BY <2>c, <3>1 DEF Audit!RowsDescend
  <2>4. Audit!RowsMatch'
    <3>1. \A i \in 1 .. l : filters = None \/ KindOf[rows[i]] = filters
      BY <1>0 DEF Audit!RowsMatch
    <3>2. \A i \in 1 .. m : filters = None \/ KindOf[page[i]] = filters
      BY <2>a DEF Whole, Answers
    <3>3. \A i \in 1 .. l + m : filters = None \/ KindOf[rows'[i]] = filters
      BY <2>e, <3>1, <3>2
    <3>4. QED
      BY <2>1, <2>c, <3>3 DEF Audit!RowsMatch
  <2>5. Audit!NoneSkipped'
    <3>1. ASSUME NEW p \in due, pageCall.next = None \/ p >= pageCall.next
          PROVE  \E i \in 1 .. l + m : rows'[i] = p
      <4>1. CASE cursor = None \/ p < cursor
        <5>1. PICK i \in 1 .. m : page[i] = p
          BY <2>a, <3>1, <4>1 DEF Whole
        <5>2. l + i \in 1 .. l + m /\ rows'[l + i] = p
          BY <2>c, <5>1
        <5>3. QED
          BY <5>2
      <4>2. CASE cursor # None /\ ~(p < cursor)
        <5>1. p \in atFirst /\ p \in Nat /\ cursor \in Nat /\ nextCursor = cursor
          BY <2>a, <2>d, <4>2 DEF due, Audit!TypeOK
        <5>2. p >= nextCursor
          BY <4>2, <5>1
        <5>3. PICK i \in 1 .. l : rows[i] = p
          BY <1>0, <5>1, <5>2 DEF Audit!NoneSkipped
        <5>4. i \in 1 .. l + m /\ rows'[i] = p
          BY <2>c, <5>3
        <5>5. QED
          BY <5>4
      <4>3. QED
        BY <4>1, <4>2
    <3>2. DOMAIN rows' = 1 .. l + m
      BY <2>c
    <3>3. ASSUME NEW p \in atFirst', nextCursor' = None \/ p >= nextCursor'
          PROVE  \E i \in DOMAIN rows' : rows'[i] = p
      BY <2>b, <3>1, <3>2, <3>3
    <3>4. QED
      BY <3>3 DEF Audit!NoneSkipped
  <2>6. PageStaged' /\ PageGathered'
    BY <2>1 DEF PageStaged, PageGathered
  <2>7. PageKept'
    <3>1. due \subseteq Audit!Matching(filters)
      BY <2>a DEF due, PageKept
    <3>2. Audit!Matching(filters)' = Audit!Matching(filters)
      BY DEF Audit!Matching
    <3>3. nextCursor' # None => rows' # <<>> /\ nextCursor' = rows'[Len(rows')]
      BY <2>b, <2>c, <2>d
    <3>4. QED
      BY <2>b, <3>1, <3>2, <3>3 DEF PageKept, Audit!Matching
  <2>8. QED
    BY <2>1, <2>2, <2>3, <2>4, <2>5, <2>6, <2>7
<1>10. QED
  BY <1>1, <1>2, <1>3, <1>4, <1>5, <1>6, <1>7, <1>8, <1>9 DEF Audit!Next

LEMMA AuditSteps ==
  ASSUME AuditIInv, [Audit!Next]_audit
  PROVE  AuditIInv'
<1>1. CASE Audit!Next
  BY <1>1, AuditActions
<1>2. CASE UNCHANGED audit
  BY <1>2 DEF audit, AuditIInv, Audit!AuditInv, Audit!TypeOK, Audit!RowsDescend, Audit!RowsMatch,
              Audit!NoneSkipped, Audit!Matching, PageStaged, PageKept, PageGathered, Whole, Descends, Answers
<1>3. QED
  BY <1>1, <1>2

HIDE ViewAssumption DEF Audit!AuditAssumption

------------------------------------------------------------------------------
(* Documents.                                                              *)

DocKinds == Changes \cup {"none", "refresh", "select", "read"}
DocStages == {"none", "operate", "read", "history", "text", "answered"}
Lists == (SUBSET Entries) \cup {None}
Selections == Entries \cup {None}
Targets == Docs \cup {None}
Counts == [of : Docs, count : 0 .. MaxVersions]
Histories == Counts \cup [of : Docs, version : 1 .. MaxVersions] \cup {None}
Requests == {"none", "sent", "done", "refused"}
DocCall ==
  [kind : DocKinds, at : DocStages, target : Targets, error : BOOLEAN, acknowledged : BOOLEAN,
   request : Requests, made : Stored, granted : Lists, entries : Lists, selection : Selections,
   history : Histories]

Reloads == Changes \cup {"refresh"}

\* The stages of each kind of call.
DocStaged ==
  /\ call.kind = "none" => call = NoCall
  /\ who = "none" => call.kind = "none"
  /\ call.request # "none" => call.at = "operate"
  /\ call.at = "operate" => call.kind \in Changes /\ call.target \in Docs /\ who = "admin"
  /\ call.kind \in Reloads => call.at \in {"operate", "read", "history", "answered"}
  /\ call.kind = "select" => call.at \in {"history", "answered"}
  /\ call.kind = "read" => call.at \in {"text", "answered"}
  /\ call.at = "history" => who = "admin"
  /\ call.kind \in Changes /\ call.at # "operate" => call.error = ~call.acknowledged
  /\ call.kind # "none" => content = None

\* A history read after its entry.
HistoryOf(entry, history) ==
  history # None => history \in Counts /\ history.of = entry.id /\ entry.active <= history.count

\* What the call has read; nothing is shown while the lists are read again.
Reloading ==
  call.kind \in Reloads =>
    /\ items = {} /\ selected = None /\ versions = None
    /\ call.at = "operate" => call.granted = None /\ call.entries = None
    /\ call.at \in {"operate", "read"} => call.selection = None /\ call.history = None
    /\ call.at \in {"history", "answered"} => call.entries \in SUBSET Entries /\ call.granted \in SUBSET Entries
    /\ call.selection # None => call.selection \in call.entries /\ call.selection.id = call.target
    /\ call.at = "history" => call.selection # None /\ call.history = None
    /\ call.history # None => call.selection # None
    /\ HistoryOf(call.selection, call.history)

OfSelected ==
  /\ call.kind \in {"select", "read"} => selected # None /\ call.target = selected.id
  /\ call.kind = "select" =>
       /\ versions = None /\ HistoryOf(selected, call.history)
       /\ call.at = "history" => call.history = None
  /\ call.kind = "read" =>
       /\ selected.active # 0
       /\ call.at = "answered" => call.history = [of |-> selected.id, version |-> selected.active]

\* What was read of a document is no newer than the document, and no older than a confirmed change.
Published(entries) == \A e \in entries : e.active <= store[e.id].versions
UpToDate(entries) ==
  \A d \in Docs : confirmed[d].versions > 0 => \E e \in entries : e.id = d /\ e.active >= confirmed[d].active

DocDated ==
  /\ \A d \in Docs : /\ store[d].active <= store[d].versions /\ confirmed[d].active <= store[d].active
                     /\ confirmed[d].versions > 0 => store[d].versions > 0
  /\ call.request = "done" => store[call.target].versions > 0 /\ call.made.active <= store[call.target].active
  /\ Published(items)
  /\ call.kind \in Reloads /\ call.entries # None =>
       Published(call.entries) /\ (who = "admin" => UpToDate(call.entries))
  /\ call.kind \in Reloads /\ call.granted # None => Published(call.granted)

\* The inductive invariant.
RegistryIInv == RegistryInv /\ call \in DocCall /\ DocStaged /\ Reloading /\ OfSelected /\ DocDated

USE RegistryAssumption

LEMMA BlankTyped == Blank \in Stored /\ Blank.versions = 0 /\ Blank.active = 0
<1>1. 0 \in 0 .. MaxVersions
  OBVIOUS
<1>2. QED
  BY <1>1 DEF Blank, Stored

LEMMA DocNoCallTyped ==
  /\ NoCall \in DocCall /\ NoCall.kind = "none" /\ NoCall.at = "none" /\ NoCall.request = "none"
  /\ NoCall.granted = None /\ NoCall.entries = None /\ NoCall.selection = None /\ NoCall.history = None
<1>1. "none" \in DocKinds /\ "none" \in DocStages /\ "none" \in Requests
  BY DEF DocKinds, DocStages, Requests
<1>a. None \in Targets /\ None \in Lists /\ None \in Selections /\ None \in Histories
  BY Zenon DEF Targets, Lists, Selections, Histories
<1>2. QED
  BY <1>1, <1>a, BlankTyped DEF NoCall, DocCall

LEMMA RegistryInit == Init => RegistryIInv
<1> SUFFICES ASSUME Init PROVE RegistryIInv
  OBVIOUS
<1> USE DocNoCallTyped, BlankTyped DEF Init
<1>1. TypeOK
  <2>1. busy = (call.kind # "none")
    <3>1. busy = FALSE /\ call.kind = "none"
      OBVIOUS
    <3>2. QED
      BY <3>1
  <2>2. store \in [Docs -> Stored] /\ confirmed \in [Docs -> Stored]
    OBVIOUS
  <2>3. QED
    BY <2>1, <2>2 DEF TypeOK
<1>2. ShownBelongs /\ ActiveIsListed /\ ConfirmedIsShown
  BY DEF ShownBelongs, ActiveIsListed, ConfirmedIsShown
<1>3. call \in DocCall /\ DocStaged /\ Reloading /\ OfSelected
  BY DEF DocStaged, Reloading, OfSelected, Reloads, Changes
<1>4. \A d \in Docs : store[d] = Blank /\ confirmed[d] = Blank
  OBVIOUS
<1>5. DocDated
  BY <1>4 DEF DocDated, Published, Reloads, Changes
<1>6. QED
  BY <1>1, <1>2, <1>3, <1>5 DEF RegistryIInv, RegistryInv

\* What a call is when it begins.
LEMMA DocCallBegins ==
  ASSUME NEW kind \in DocKinds \ {"none"}, NEW at \in DocStages, NEW target \in Targets,
         Run(kind, at, target)
  PROVE  /\ call' \in DocCall /\ call'.kind = kind /\ call'.at = at /\ call'.target = target
         /\ at # "operate" => call'.request = "none"
         /\ call'.request \in {"none", "sent"}
         /\ call'.granted = None /\ call'.entries = None /\ call'.selection = None /\ call'.history = None
         /\ busy' = (call'.kind # "none") /\ message' = "none" /\ content' = None
<1> DEFINE request == IF at = "operate" THEN "sent" ELSE "none"
<1>1. /\ request \in Requests /\ request \in {"none", "sent"}
      /\ call' = [NoCall EXCEPT !.kind = kind, !.at = at, !.target = target, !.request = request]
  BY DEF Run, Requests
<1> HIDE DEF request
<1>2. call' \in DocCall
  BY <1>1, DocNoCallTyped DEF DocCall
<1>3. /\ call'.kind = kind /\ call'.at = at /\ call'.target = target /\ call'.request = request
      /\ call'.granted = None /\ call'.entries = None /\ call'.selection = None /\ call'.history = None
  BY <1>1, DocNoCallTyped DEF DocCall
<1>4. busy' = TRUE /\ call'.kind # "none" /\ message' = "none" /\ content' = None
  BY <1>3 DEF Run
<1>5. busy' = (call'.kind # "none")
  BY <1>4
<1>6. at # "operate" => call'.request = "none"
  BY <1>3 DEF request
<1>7. QED
  BY <1>1, <1>2, <1>3, <1>4, <1>5, <1>6

\* What a change does to the documents: versions are added, and the active one only goes up.
Grown ==
  /\ store' \in [Docs -> Stored] /\ readable' \subseteq Docs
  /\ \A d \in Docs : /\ store[d].versions <= store'[d].versions /\ store[d].active <= store'[d].active
                     /\ store'[d].active <= store'[d].versions

LEMMA StoreGrows ==
  ASSUME RegistryIInv, NEW d \in Docs, NEW indexed \in BOOLEAN, Edit(d) \/ Store(d, indexed)
  PROVE  Grown /\ store'[d].versions > 0
<1>1. /\ store \in [Docs -> Stored] /\ readable \subseteq Docs
      /\ \A e \in Docs : store[e].active <= store[e].versions
  BY DEF RegistryIInv, RegistryInv, TypeOK, DocDated
<1>2. \A e \in Docs : /\ store[e] \in Stored
                      /\ store[e].versions \in 0 .. MaxVersions /\ store[e].active \in 0 .. MaxVersions
  BY <1>1 DEF Stored
<1>3. CASE Edit(d)
  BY <1>1, <1>2, <1>3 DEF Edit, Grown
<1>4. CASE Store(d, indexed)
  <2> DEFINE v == store[d].versions + 1
             a == IF indexed THEN v ELSE store[d].active
             s == [versions |-> v, active |-> a]
  <2>1. store' = [store EXCEPT ![d] = s] /\ readable' = readable
    BY <1>4 DEF Store
  <2>2. v \in 0 .. MaxVersions /\ a \in 0 .. MaxVersions /\ a <= v /\ store[d].active <= a
        /\ v > 0 /\ store[d].versions <= v
    BY <1>1, <1>2, <1>4 DEF Store
  <2> HIDE DEF v, a
  <2>3. s \in Stored /\ s.versions = v /\ s.active = a
    BY <1>2, <2>2 DEF Stored
  <2> HIDE DEF s
  <2>4. store' \in [Docs -> Stored]
    BY <1>1, <2>1, <2>3
  <2>5. \A e \in Docs : store'[e] = IF e = d THEN s ELSE store[e]
    BY <1>1, <2>1
  <2>6. \A e \in Docs : /\ store[e].versions <= store'[e].versions /\ store[e].active <= store'[e].active
                        /\ store'[e].active <= store'[e].versions
    BY <1>1, <1>2, <2>2, <2>3, <2>5
  <2>7. QED
    BY <1>1, <2>1, <2>2, <2>3, <2>4, <2>5, <2>6 DEF Grown
<1>5. QED
  BY <1>3, <1>4

LEMMA NothingGrows ==
  ASSUME RegistryIInv, UNCHANGED <<store, readable>>
  PROVE  Grown
<1>1. /\ store \in [Docs -> Stored] /\ readable \subseteq Docs
      /\ \A e \in Docs : store[e].active <= store[e].versions
  BY DEF RegistryIInv, RegistryInv, TypeOK, DocDated
<1>2. \A e \in Docs : /\ store[e] \in Stored /\ store[e].versions \in Nat /\ store[e].active \in Nat
  BY <1>1 DEF Stored
<1>3. QED
  BY <1>1, <1>2 DEF Grown

LEMMA CommitGrows ==
  ASSUME RegistryIInv, NEW kind \in Changes, NEW d \in Docs, Commit(kind, d)
  PROVE  Grown /\ store'[d].versions > 0
<1>1. Edit(d) \/ Store(d, TRUE)
  BY DEF Commit, Changes
<1>2. QED
  BY <1>1, StoreGrows

\* What was read stays true while documents grow.
LEMMA PublishedStays ==
  ASSUME NEW S \in SUBSET Entries, Published(S), RegistryIInv, Grown
  PROVE  Published(S)'
<1>1. \A e \in S : e.id \in Docs /\ e.active \in Nat /\ store[e.id].versions \in Nat /\ store'[e.id].versions \in Nat
  BY DEF Entries, Grown, RegistryIInv, RegistryInv, TypeOK, Stored
<1>2. \A e \in S : e.active <= store[e.id].versions /\ store[e.id].versions <= store'[e.id].versions
  BY <1>1 DEF Published, Grown
<1>3. QED
  BY <1>1, <1>2 DEF Published

LEMMA RegistryServer ==
  ASSUME RegistryIInv
  PROVE  OthersChange \/ ServeChange \/ ServeUnserved => RegistryIInv'
<1> SUFFICES ASSUME OthersChange \/ ServeChange \/ ServeUnserved PROVE RegistryIInv'
  OBVIOUS
<1> USE DEF RegistryIInv, RegistryInv
<1>1. Grown
  <2>1. CASE OthersChange
    <3>1. PICK d \in Docs : Edit(d) \/ Store(d, TRUE) \/ Store(d, FALSE)
      BY <2>1 DEF OthersChange
    <3>2. QED
      BY <3>1, StoreGrows
  <2>2. CASE ServeChange
    <3>1. call.kind \in Changes /\ call.target \in Docs
      BY <2>2 DEF ServeChange, DocStaged
    <3>2. Commit(call.kind, call.target) \/ UNCHANGED <<store, readable>> \/ Store(call.target, FALSE)
      BY <2>2 DEF ServeChange
    <3>3. QED
      BY <3>1, <3>2, StoreGrows, CommitGrows, NothingGrows
  <2>3. CASE ServeUnserved
    <3>1. PICK u \in unserved : Commit(u.kind, u.target) \/ UNCHANGED <<store, readable>>
      BY <2>3 DEF ServeUnserved
    <3>2. u.kind \in Changes /\ u.target \in Docs
      BY DEF TypeOK
    <3>3. QED
      BY <3>1, <3>2, CommitGrows, NothingGrows
  <2>4. QED
    BY <2>1, <2>2, <2>3
<1>2. UNCHANGED <<who, shown, busy, message, confirmed>> /\ unserved' \subseteq unserved
  BY DEF OthersChange, ServeChange, ServeUnserved
<1>3. /\ call' \in DocCall /\ call' = [call EXCEPT !.request = call'.request, !.made = call'.made]
      /\ call'.request = "done" =>
           store'[call.target].versions > 0 /\ call'.made.active <= store'[call.target].active
      /\ call'.request # "none" => call.request # "none"
  <2>1. CASE call' = call
    <3>1. call' \in DocCall /\ call' = [call EXCEPT !.request = call'.request, !.made = call'.made]
      BY <2>1 DEF DocCall
    <3>2. ASSUME call.request = "done"
          PROVE  store'[call.target].versions > 0 /\ call.made.active <= store'[call.target].active
      <4>1. call.target \in Docs
        BY <3>2 DEF DocStaged
      <4>2. store[call.target].versions > 0 /\ call.made.active <= store[call.target].active
        BY <3>2 DEF DocDated
      <4>3. /\ call.made \in Stored /\ store[call.target] \in Stored /\ store'[call.target] \in Stored
            /\ store[call.target].versions <= store'[call.target].versions
            /\ store[call.target].active <= store'[call.target].active
        BY <4>1, <1>1 DEF DocCall, Grown, TypeOK
      <4>4. QED
        BY <4>2, <4>3 DEF Stored
    <3>3. QED
      BY <2>1, <3>1, <3>2
  <2>2. CASE ServeChange
    <3>1. call.kind \in Changes /\ call.target \in Docs
      BY <2>2 DEF ServeChange, DocStaged
    <3>2. CASE /\ Commit(call.kind, call.target)
               /\ call' = [call EXCEPT !.request = "done", !.made = store'[call.target]]
      <4>1. store'[call.target] \in Stored /\ "done" \in Requests
        BY <3>1, <1>1 DEF Grown, Requests
      <4>2. call' \in DocCall /\ call'.made = store'[call.target] /\ call'.request = "done"
        BY <3>2, <4>1 DEF DocCall
      <4>3. store'[call.target].versions > 0
        BY <3>1, <3>2, CommitGrows
      <4>4. QED
        BY <2>2, <3>2, <4>1, <4>2, <4>3 DEF Stored, ServeChange
    <3>3. CASE call' = [call EXCEPT !.request = "refused"]
      <4>1. call' \in DocCall /\ call'.request = "refused" /\ call'.made = call.made
        BY <3>3 DEF DocCall, Requests
      <4>2. call' = [call EXCEPT !.request = call'.request, !.made = call'.made]
        BY <3>3, <4>1 DEF DocCall
      <4>3. QED
        BY <2>2, <4>1, <4>2 DEF ServeChange
    <3>4. QED
      BY <2>2, <3>2, <3>3 DEF ServeChange
  <2>3. QED
    BY <2>1, <2>2 DEF OthersChange, ServeUnserved
<1>4. /\ call'.kind = call.kind /\ call'.at = call.at /\ call'.target = call.target /\ call'.error = call.error
      /\ call'.acknowledged = call.acknowledged /\ call'.granted = call.granted
      /\ call'.entries = call.entries /\ call'.selection = call.selection /\ call'.history = call.history
  BY <1>3 DEF DocCall
<1>a. call.kind = "none" => call' = call
  BY DEF OthersChange, ServeChange, ServeUnserved, DocStaged, Changes
<1>5. TypeOK'
  BY <1>1, <1>2, <1>4 DEF TypeOK, Grown, shown
<1>6. ShownBelongs' /\ ActiveIsListed' /\ ConfirmedIsShown'
  BY <1>2 DEF ShownBelongs, ActiveIsListed, ConfirmedIsShown, shown
<1>7. DocStaged'
  BY <1>2, <1>3, <1>4, <1>a DEF DocStaged, shown
<1>8. Reloading' /\ OfSelected'
  BY <1>2, <1>4 DEF Reloading, OfSelected, HistoryOf, shown
<1>9. DocDated'
  <2>1. \A d \in Docs : /\ store'[d].active <= store'[d].versions /\ confirmed[d].active <= store'[d].active
                        /\ confirmed[d].versions > 0 => store'[d].versions > 0
    BY <1>1 DEF Grown, DocDated, TypeOK, Stored
  <2>2. Published(items)'
    BY <1>1, <1>2, PublishedStays DEF DocDated, TypeOK, shown, Published
  <2>3. call.kind \in Reloads /\ call.entries # None => Published(call.entries)'
    BY <1>1, <1>4, PublishedStays DEF DocDated, DocCall, Lists, Published
  <2>4. call.kind \in Reloads /\ call.granted # None => Published(call.granted)'
    BY <1>1, <1>4, PublishedStays DEF DocDated, DocCall, Lists, Published
  <2>5. QED
    BY <1>2, <1>3, <1>4, <2>1, <2>2, <2>3, <2>4 DEF DocDated, UpToDate
<1>10. QED
  BY <1>3, <1>5, <1>6, <1>7, <1>8, <1>9

LEMMA RegistryViewed ==
  ASSUME RegistryIInv
  PROVE  \/ Refresh \/ Read \/ CloseContent \/ SessionCleared \/ SignedIn
         \/ \E e \in items : Select(e)
         \/ \E kind \in {"upload", "version", "update"}, d \in Docs : Mutate(kind, d)
         => RegistryIInv'
<1> USE DEF RegistryIInv, RegistryInv, Free, server, shown
<1>0. /\ busy = (call.kind # "none") /\ call \in DocCall
      /\ ~busy => call = NoCall
      /\ None \in Targets /\ \A d \in Docs : d \in Targets
  BY DEF TypeOK, DocStaged, Targets
<1>a. GivenUp \subseteq [kind : Changes, target : Docs]
  BY DEF GivenUp, DocStaged, TypeOK
<1>1. ASSUME Refresh PROVE RegistryIInv'
  <2> USE <1>1 DEF Refresh, Clear
  <2>a. "refresh" \in DocKinds \ {"none"} /\ "read" \in DocStages
    BY DEF DocKinds, DocStages
  <2>1. /\ call' \in DocCall /\ call'.kind = "refresh" /\ call'.at = "read" /\ call'.target = None
        /\ call'.request = "none" /\ call'.entries = None /\ call'.granted = None
        /\ call'.selection = None /\ call'.history = None
        /\ busy' = (call'.kind # "none") /\ message' = "none" /\ content' = None
    BY <1>0, <2>a, DocCallBegins
  <2>2. TypeOK'
    BY <1>0, <2>1, <1>a DEF TypeOK, Counts
  <2>3. ShownBelongs' /\ ActiveIsListed' /\ ConfirmedIsShown'
    BY <1>0, <2>1, <1>a DEF ShownBelongs, ActiveIsListed, ConfirmedIsShown, TypeOK, Entries
  <2>4. DocStaged'
    BY <1>0, <2>1, <1>a DEF DocStaged, Changes, Reloads
  <2>5. Reloading' /\ OfSelected'
    BY <1>0, <2>1, <1>a DEF Reloading, OfSelected, HistoryOf, Reloads, Changes
  <2>6. DocDated'
    BY <1>0, <2>1, <1>a DEF DocDated, Published, UpToDate, Reloads, Changes
  <2>7. QED
    BY <2>1, <2>2, <2>3, <2>4, <2>5, <2>6
<1>2. ASSUME NEW e \in items, Select(e) PROVE RegistryIInv'
  <2> USE <1>2 DEF Select
  <2> DEFINE at == IF who = "admin" THEN "history" ELSE "answered"
  <2>a. "select" \in DocKinds \ {"none"} /\ at \in DocStages /\ at # "operate" /\ e.id \in Docs
        /\ e \in Entries /\ at \in {"history", "answered"} /\ (at = "history" => who = "admin")
        /\ e # None
    BY DEF DocKinds, DocStages, TypeOK, Entries
  <2>b. Run("select", at, e.id)
    OBVIOUS
  <2> HIDE DEF at
  <2>1. /\ call' \in DocCall /\ call'.kind = "select" /\ call'.at = at /\ call'.target = e.id
        /\ call'.request = "none" /\ call'.entries = None /\ call'.granted = None
        /\ call'.selection = None /\ call'.history = None
        /\ busy' = (call'.kind # "none") /\ message' = "none" /\ content' = None
    BY <1>0, <2>a, <2>b, DocCallBegins
  <2>2. TypeOK'
    BY <1>0, <2>1, <2>a DEF TypeOK, Counts
  <2>3. ShownBelongs' /\ ActiveIsListed' /\ ConfirmedIsShown'
    BY <1>0, <2>1, <2>a DEF ShownBelongs, ActiveIsListed, ConfirmedIsShown, TypeOK, Entries
  <2>4. DocStaged'
    BY <1>0, <2>1, <2>a DEF DocStaged, Changes, Reloads
  <2>5. Reloading' /\ OfSelected'
    BY <1>0, <2>1, <2>a DEF Reloading, OfSelected, HistoryOf, Reloads, Changes
  <2>6. DocDated'
    BY <1>0, <2>1, <2>a DEF DocDated, Published, UpToDate, Reloads, Changes
  <2>7. QED
    BY <2>1, <2>2, <2>3, <2>4, <2>5, <2>6
<1>3. ASSUME Read PROVE RegistryIInv'
  <2> USE <1>3 DEF Read, CanReadContent
  <2>a. "read" \in DocKinds \ {"none"} /\ "text" \in DocStages /\ selected.id \in Docs
    BY DEF DocKinds, DocStages, TypeOK, Entries
  <2>1. /\ call' \in DocCall /\ call'.kind = "read" /\ call'.at = "text" /\ call'.target = selected.id
        /\ call'.request = "none" /\ call'.entries = None /\ call'.granted = None
        /\ call'.selection = None /\ call'.history = None
        /\ busy' = (call'.kind # "none") /\ message' = "none" /\ content' = None
    BY <1>0, <2>a, DocCallBegins
  <2>2. TypeOK'
    BY <1>0, <2>1, <2>a DEF TypeOK, Counts
  <2>3. ShownBelongs' /\ ActiveIsListed' /\ ConfirmedIsShown'
    BY <1>0, <2>1, <2>a DEF ShownBelongs, ActiveIsListed, ConfirmedIsShown, TypeOK, Entries
  <2>4. DocStaged'
    BY <1>0, <2>1, <2>a DEF DocStaged, Changes, Reloads
  <2>5. Reloading' /\ OfSelected'
    BY <1>0, <2>1, <2>a DEF Reloading, OfSelected, HistoryOf, Reloads, Changes
  <2>6. DocDated'
    BY <1>0, <2>1, <2>a DEF DocDated, Published, UpToDate, Reloads, Changes
  <2>7. QED
    BY <2>1, <2>2, <2>3, <2>4, <2>5, <2>6
<1>4. ASSUME NEW kind \in Changes, NEW d \in Docs, Mutate(kind, d) PROVE RegistryIInv'
  <2> USE <1>4 DEF Mutate, ClearedFirst, Clear
  <2>a. kind \in DocKinds \ {"none"} /\ "operate" \in DocStages
    BY DEF DocKinds, DocStages, Changes
  <2>1. /\ call' \in DocCall /\ call'.kind = kind /\ call'.at = "operate" /\ call'.target = d
        /\ call'.request \in {"none", "sent"} /\ call'.entries = None /\ call'.granted = None
        /\ call'.selection = None /\ call'.history = None
        /\ busy' = (call'.kind # "none") /\ message' = "none" /\ content' = None
    BY <1>0, <2>a, DocCallBegins
  <2>2. TypeOK'
    BY <1>0, <2>1, <1>a DEF TypeOK, Counts
  <2>3. ShownBelongs' /\ ActiveIsListed' /\ ConfirmedIsShown'
    BY <1>0, <2>1, <1>a DEF ShownBelongs, ActiveIsListed, ConfirmedIsShown, TypeOK, Entries
  <2>4. DocStaged'
    BY <1>0, <2>1, <1>a DEF DocStaged, Changes, Reloads
  <2>5. Reloading' /\ OfSelected'
    BY <1>0, <2>1, <1>a DEF Reloading, OfSelected, HistoryOf, Reloads, Changes
  <2>6. DocDated'
    BY <1>0, <2>1, <1>a DEF DocDated, Published, UpToDate, Reloads, Changes
  <2>7. QED
    BY <2>1, <2>2, <2>3, <2>4, <2>5, <2>6
<1>5. ASSUME CloseContent PROVE RegistryIInv'
  <2> USE <1>5 DEF CloseContent
  <2>1. /\ call' \in DocCall /\ call' = NoCall /\ call'.kind = "none" /\ call'.at = "none"
        /\ call'.request = "none"
    BY DocNoCallTyped
  <2>2. TypeOK'
    BY <1>0, <2>1, <1>a DEF TypeOK, Counts
  <2>3. ShownBelongs' /\ ActiveIsListed' /\ ConfirmedIsShown'
    BY <1>0, <2>1, <1>a DEF ShownBelongs, ActiveIsListed, ConfirmedIsShown, TypeOK, Entries
  <2>4. DocStaged'
    BY <1>0, <2>1, <1>a DEF DocStaged, Changes, Reloads
  <2>5. Reloading' /\ OfSelected'
    BY <1>0, <2>1, <1>a DEF Reloading, OfSelected, HistoryOf, Reloads, Changes
  <2>6. DocDated'
    BY <1>0, <2>1, <1>a DEF DocDated, Published, UpToDate, Reloads, Changes
  <2>7. QED
    BY <2>1, <2>2, <2>3, <2>4, <2>5, <2>6
<1>6. ASSUME SessionCleared PROVE RegistryIInv'
  <2> USE <1>6 DEF SessionCleared, Clear
  <2>1. /\ call' \in DocCall /\ call' = NoCall /\ call'.kind = "none" /\ call'.at = "none"
        /\ call'.request = "none"
    BY DocNoCallTyped
  <2>2. TypeOK'
    BY <1>0, <2>1, <1>a DEF TypeOK, Counts
  <2>3. ShownBelongs' /\ ActiveIsListed' /\ ConfirmedIsShown'
    BY <1>0, <2>1, <1>a DEF ShownBelongs, ActiveIsListed, ConfirmedIsShown, TypeOK, Entries
  <2>4. DocStaged'
    BY <1>0, <2>1, <1>a DEF DocStaged, Changes, Reloads
  <2>5. Reloading' /\ OfSelected'
    BY <1>0, <2>1, <1>a DEF Reloading, OfSelected, HistoryOf, Reloads, Changes
  <2>6. DocDated'
    BY <1>0, <2>1, <1>a DEF DocDated, Published, UpToDate, Reloads, Changes
  <2>7. QED
    BY <2>1, <2>2, <2>3, <2>4, <2>5, <2>6
<1>7. ASSUME SignedIn PROVE RegistryIInv'
  <2> USE <1>7 DEF SignedIn
  <2>1. call' = call /\ call' \in DocCall /\ call.kind = "none" /\ items = {} /\ selected = None
    BY <1>0 DEF DocStaged, ShownBelongs
  <2>2. TypeOK'
    BY <1>0, <2>1 DEF TypeOK, Counts
  <2>3. ShownBelongs' /\ ActiveIsListed' /\ ConfirmedIsShown'
    BY <1>0, <2>1 DEF ShownBelongs, ActiveIsListed, ConfirmedIsShown, TypeOK, Entries
  <2>4. DocStaged'
    BY <1>0, <2>1 DEF DocStaged, Changes, Reloads
  <2>5. Reloading' /\ OfSelected'
    BY <1>0, <2>1 DEF Reloading, OfSelected, HistoryOf, Reloads, Changes
  <2>6. DocDated'
    BY <1>0, <2>1 DEF DocDated, Published, UpToDate, Reloads, Changes
  <2>7. QED
    BY <2>1, <2>2, <2>3, <2>4, <2>5, <2>6
<1>8. QED
  BY <1>1, <1>2, <1>3, <1>4, <1>5, <1>6, <1>7 DEF Changes

LEMMA FindFinds ==
  ASSUME NEW S \in SUBSET Entries, NEW d
  PROVE  /\ Find(S, d) \in Selections
         /\ Find(S, d) # None => Find(S, d) \in S /\ Find(S, d).id = d
<1>1. CASE \E e \in S : e.id = d
  <2>1. Find(S, d) \in S /\ Find(S, d).id = d
    BY <1>1 DEF Find
  <2>2. QED
    BY <2>1 DEF Selections
<1>2. CASE ~\E e \in S : e.id = d
  BY <1>2 DEF Find, Selections
<1>3. QED
  BY <1>1, <1>2

\* The lists are taken together when both are there.
LEMMA ListsGathered ==
  ASSUME RegistryIInv, NEW g \in Lists, NEW e \in Lists, call.at = "read",
         g # None => Published(g), e # None => Published(e) /\ (who = "admin" => UpToDate(e)),
         call' = WithLists(g, e), UNCHANGED <<server, who, shown, busy, message, confirmed>>
  PROVE  RegistryIInv'
<1> USE DEF RegistryIInv, RegistryInv, server, shown
<1>0. /\ call \in DocCall /\ call.kind \in Reloads /\ call.request = "none" /\ who # "none"
      /\ call.selection = None /\ call.history = None /\ content = None
  BY DEF DocStaged, Reloading, DocCall, Reloads, Changes, DocKinds, NoCall
<1> DEFINE waits == g = None \/ (e = None /\ who = "admin")
           listed == IF who = "admin" THEN e ELSE g
           found == Find(listed, call.target)
           at == IF who = "admin" /\ found # None THEN "history" ELSE "answered"
<1>1. waits => call' = [call EXCEPT !.granted = g, !.entries = e]
  BY DEF WithLists
<1>2. ~waits => call' = [call EXCEPT !.granted = g, !.entries = listed, !.selection = found, !.at = at]
  BY <1>0 DEF WithLists
<1>3. ~waits => /\ listed \in SUBSET Entries /\ g \in SUBSET Entries /\ Published(listed) /\ Published(g)
                /\ who = "admin" => UpToDate(listed)
  BY DEF Lists
<1>4. ~waits => found \in Selections /\ (found # None => found \in listed /\ found.id = call.target)
  BY <1>3, FindFinds
<1>5. at \in {"history", "answered"} /\ (at = "history" => who = "admin" /\ found # None)
  OBVIOUS
<1> HIDE DEF waits, listed, found, at
<1>6. /\ call'.kind = call.kind /\ call'.target = call.target /\ call'.error = call.error
      /\ call'.acknowledged = call.acknowledged /\ call'.request = "none" /\ call'.granted = g
      /\ call'.history = None /\ call' \in DocCall
      /\ waits => call'.at = "read" /\ call'.selection = None /\ call'.entries = e
      /\ ~waits => call'.at = at /\ call'.selection = found /\ call'.entries = listed
  <2>1. CASE waits
    BY <1>0, <1>1, <2>1 DEF DocCall
  <2>2. CASE ~waits
    <3>1. listed \in Lists /\ at \in DocStages
      BY <1>3, <1>5, <2>2 DEF Lists, DocStages
    <3>2. QED
      BY <1>0, <1>2, <1>4, <2>2, <3>1 DEF DocCall
  <2>3. QED
    BY <2>1, <2>2
<1>7. TypeOK' /\ ShownBelongs' /\ ActiveIsListed' /\ ConfirmedIsShown'
  <2>1. call'.at \in DocStages
    BY <1>6 DEF DocCall
  <2>2. QED
    BY <1>6, <2>1 DEF TypeOK, ShownBelongs, ActiveIsListed, ConfirmedIsShown, DocStages
<1>8. DocStaged'
  BY <1>0, <1>5, <1>6 DEF DocStaged, Reloads, Changes
<1>9. Reloading' /\ OfSelected'
  BY <1>0, <1>3, <1>4, <1>5, <1>6 DEF Reloading, OfSelected, HistoryOf, Reloads, Changes
<1>10. DocDated'
  BY <1>0, <1>3, <1>6 DEF DocDated, Published, UpToDate
<1>11. QED
  BY <1>6, <1>7, <1>8, <1>9, <1>10

LEMMA RegistryAnswered ==
  ASSUME RegistryIInv
  PROVE  \/ OperationReturns \/ GetAllowed \/ GetEntries \/ GetHistory \/ GetText \/ ReadFails \/ Apply
         \/ LateArrives
         => RegistryIInv'
<1> USE DEF RegistryIInv, RegistryInv, server, shown
<1>0. busy = (call.kind # "none") /\ call \in DocCall /\ call.kind \in DocKinds
  BY DEF TypeOK, DocCall
<1>a. GivenUp \subseteq [kind : Changes, target : Docs]
  BY DEF GivenUp, DocStaged, TypeOK
<1>1. ASSUME OperationReturns PROVE RegistryIInv'
  <2> USE <1>1 DEF OperationReturns
  <2>a. PICK heard \in BOOLEAN :
          LET ok == heard /\ call.request = "done" IN
          /\ call' = [call EXCEPT !.at = "read", !.acknowledged = ok, !.error = ~ok, !.request = "none",
                                  !.target = IF call.kind = "upload" /\ ~ok THEN None ELSE call.target]
          /\ confirmed' = IF ok THEN [confirmed EXCEPT ![call.target] = call.made] ELSE confirmed
          /\ unserved' = GivenUp
    OBVIOUS
  <2> DEFINE ok == heard /\ call.request = "done"
             target == IF call.kind = "upload" /\ ~ok THEN None ELSE call.target
  <2>b. /\ call' = [call EXCEPT !.at = "read", !.acknowledged = ok, !.error = ~ok, !.request = "none",
                                !.target = target]
        /\ confirmed' = IF ok THEN [confirmed EXCEPT ![call.target] = call.made] ELSE confirmed
        /\ unserved' = GivenUp
    BY <2>a
  <2>c. ok \in BOOLEAN /\ (ok => call.request = "done") /\ target \in Targets /\ call.target \in Docs
    BY <1>0 DEF DocStaged, Targets, DocCall
  <2> HIDE DEF ok, target
  <2>d. /\ call.kind \in Changes /\ call.at = "operate" /\ who = "admin" /\ items = {} /\ selected = None
        /\ versions = None /\ content = None /\ call.granted = None /\ call.entries = None
        /\ call.selection = None /\ call.history = None
    BY DEF DocStaged, Reloading, Reloads, Changes
  <2>1. /\ call' \in DocCall /\ call'.kind = call.kind /\ call'.at = "read" /\ call'.request = "none"
        /\ call'.acknowledged = ok /\ call'.error = ~ok
        /\ call'.granted = None /\ call'.entries = None /\ call'.selection = None /\ call'.history = None
    <3>1. "read" \in DocStages /\ "none" \in Requests /\ (~ok) \in BOOLEAN
      BY DEF DocStages, Requests
    <3>2. QED
      BY <1>0, <2>b, <2>c, <2>d, <3>1 DEF DocCall
  <2>e. confirmed' \in [Docs -> Stored]
    BY <1>0, <2>b, <2>c DEF TypeOK, DocCall
  <2>f. \A d \in Docs : /\ confirmed'[d].active <= store[d].active
                        /\ confirmed'[d].versions > 0 => store[d].versions > 0
    BY <2>b, <2>c DEF TypeOK, DocDated
  <2>2. TypeOK'
    BY <1>0, <2>1, <1>a, <2>b, <2>d, <2>e DEF TypeOK, Counts
  <2>3. ShownBelongs' /\ ActiveIsListed' /\ ConfirmedIsShown'
    BY <1>0, <2>1, <1>a, <2>b, <2>d, <2>e DEF ShownBelongs, ActiveIsListed, ConfirmedIsShown, TypeOK, Entries
  <2>4. DocStaged'
    BY <1>0, <2>1, <2>c, <2>d DEF DocStaged, Changes, Reloads
  <2>5. Reloading' /\ OfSelected'
    BY <1>0, <2>1, <1>a, <2>b, <2>d, <2>e DEF Reloading, OfSelected, HistoryOf, Reloads, Changes
  <2>6. DocDated'
    BY <1>0, <2>1, <2>d, <2>e, <2>f DEF DocDated, Published, UpToDate, Reloads, Changes
  <2>7. QED
    BY <2>1, <2>2, <2>3, <2>4, <2>5, <2>6
<1>2. ASSUME GetAllowed PROVE RegistryIInv'
  <2>1. /\ Accessible \in SUBSET Entries /\ Accessible \in Lists /\ Published(Accessible)
        /\ call.entries \in Lists
    BY <1>0 DEF Accessible, Entry, Entries, Lists, Published, TypeOK, Stored, DocDated, DocCall
  <2>2. call.kind \in Reloads
    BY <1>0, <1>2 DEF GetAllowed, DocStaged, DocKinds, Reloads, NoCall
  <2>3. call.entries # None => Published(call.entries) /\ (who = "admin" => UpToDate(call.entries))
    BY <2>2 DEF DocDated
  <2>4. QED
    BY <1>2, <2>1, <2>3, ListsGathered DEF GetAllowed
<1>3. ASSUME GetEntries PROVE RegistryIInv'
  <2>1. /\ Administrative \in SUBSET Entries /\ Administrative \in Lists /\ Published(Administrative)
        /\ call.granted \in Lists
    BY <1>0 DEF Administrative, Entry, Entries, Lists, Published, TypeOK, Stored, DocDated, DocCall
  <2>2. UpToDate(Administrative)
    <3>1. ASSUME NEW d \in Docs, confirmed[d].versions > 0
          PROVE  \E e \in Administrative : e.id = d /\ e.active >= confirmed[d].active
      <4>1. Entry(d) \in Administrative
        BY <3>1 DEF Administrative, DocDated
      <4>2. /\ Entry(d).id = d /\ Entry(d).active = store[d].active
            /\ store[d].active \in Nat /\ confirmed[d].active \in Nat /\ confirmed[d].active <= store[d].active
        BY DEF Entry, TypeOK, Stored, DocDated
      <4>3. QED
        BY <4>1, <4>2
    <3>2. QED
      BY <3>1 DEF UpToDate
  <2>3. call.kind \in Reloads
    BY <1>0, <1>3 DEF GetEntries, DocStaged, DocKinds, Reloads, NoCall
  <2>4. call.granted # None => Published(call.granted)
    BY <2>3 DEF DocDated
  <2>5. QED
    BY <1>3, <2>1, <2>2, <2>4, ListsGathered DEF GetEntries
<1>4. ASSUME GetHistory PROVE RegistryIInv'
  <2> USE <1>4 DEF GetHistory, HistoryTurn
  <2> DEFINE history == [of |-> call.target, count |-> store[call.target].versions]
             entry == IF call.kind = "select" THEN selected ELSE call.selection
  <2>a. /\ call.kind \in Reloads \cup {"select"} /\ who = "admin" /\ call.request = "none" /\ content = None
        /\ call.at = "history"
    BY <1>0 DEF DocStaged, DocKinds, Reloads, NoCall
  <2>b. entry \in Entries /\ entry.id = call.target /\ entry.active <= store[call.target].versions
    <3>1. CASE call.kind = "select"
      <4>1. selected \in items /\ items \in SUBSET Entries
        BY <3>1 DEF OfSelected, ShownBelongs, TypeOK
      <4>2. QED
        BY <3>1, <4>1 DEF OfSelected, DocDated, Published
    <3>2. CASE call.kind \in Reloads
      <4>1. call.selection \in call.entries /\ call.entries \in SUBSET Entries /\ call.kind # "select"
        BY <3>2 DEF Reloading, Reloads, Changes
      <4>2. call.selection.id = call.target
        BY <3>2 DEF Reloading
      <4>3. Published(call.entries)
        <5>1. call.entries # None
          BY <4>1 DEF Entries
        <5>2. QED
          BY <3>2, <5>1 DEF DocDated
      <4>4. QED
        BY <4>1, <4>2, <4>3 DEF Published
    <3>3. QED
      BY <2>a, <3>1, <3>2
  <2>c. call.target \in Docs /\ store[call.target].versions \in 0 .. MaxVersions
    BY <2>b DEF Entries, TypeOK, Stored
  <2>d. history \in Counts /\ history \in Histories /\ history.of = entry.id /\ entry.active <= history.count
    BY <2>b, <2>c DEF Counts, Histories
  <2>e. call' = [call EXCEPT !.history = history, !.at = "answered"]
    OBVIOUS
  <2> HIDE DEF history
  <2>1. /\ call' \in DocCall /\ call'.kind = call.kind /\ call'.at = "answered" /\ call'.request = "none"
        /\ call'.target = call.target /\ call'.error = call.error /\ call'.acknowledged = call.acknowledged
        /\ call'.granted = call.granted /\ call'.entries = call.entries
        /\ call'.selection = call.selection /\ call'.history = history
    <3>1. "answered" \in DocStages
      BY DEF DocStages
    <3>2. QED
      BY <1>0, <2>a, <2>d, <2>e, <3>1 DEF DocCall
  <2>2. TypeOK'
    BY <1>0, <2>1, <2>a, <2>d DEF TypeOK, Counts
  <2>3. ShownBelongs' /\ ActiveIsListed' /\ ConfirmedIsShown'
    BY <1>0, <2>1, <2>a, <2>d DEF ShownBelongs, ActiveIsListed, ConfirmedIsShown, TypeOK, Entries
  <2>4. DocStaged'
    BY <1>0, <2>1, <2>a, <2>d DEF DocStaged, Changes, Reloads
  <2>5. Reloading' /\ OfSelected'
    BY <1>0, <2>1, <2>a, <2>d DEF Reloading, OfSelected, HistoryOf, Reloads, Changes
  <2>6. DocDated'
    BY <1>0, <2>1, <2>a, <2>d DEF DocDated, Published, UpToDate, Reloads, Changes
  <2>7. QED
    BY <2>1, <2>2, <2>3, <2>4, <2>5, <2>6
<1>5. ASSUME GetText PROVE RegistryIInv'
  <2> USE <1>5 DEF GetText
  <2> DEFINE history == [of |-> call.target, version |-> selected.active]
  <2>a. /\ call.kind = "read" /\ call.request = "none" /\ selected # None /\ call.target = selected.id
        /\ selected.active # 0 /\ who # "none" /\ content = None
    BY <1>0, DocNoCallTyped DEF DocStaged, OfSelected, DocKinds, Reloads, Changes
  <2>b. selected \in Entries /\ selected.active \in 1 .. MaxVersions /\ selected.id \in Docs
    BY <2>a DEF TypeOK, Entries
  <2>c. history \in Histories /\ history = [of |-> selected.id, version |-> selected.active]
    BY <2>a, <2>b DEF Histories
  <2>d. call' = [call EXCEPT !.at = "answered", !.history = history]
    OBVIOUS
  <2> HIDE DEF history
  <2>1. /\ call' \in DocCall /\ call'.kind = call.kind /\ call'.at = "answered" /\ call'.request = "none"
        /\ call'.target = call.target /\ call'.error = call.error /\ call'.acknowledged = call.acknowledged
        /\ call'.granted = call.granted /\ call'.entries = call.entries
        /\ call'.selection = call.selection /\ call'.history = history
    <3>1. "answered" \in DocStages
      BY DEF DocStages
    <3>2. QED
      BY <1>0, <2>a, <2>c, <2>d, <3>1 DEF DocCall
  <2>2. TypeOK'
    BY <1>0, <2>1, <2>a, <2>c DEF TypeOK, Counts
  <2>3. ShownBelongs' /\ ActiveIsListed' /\ ConfirmedIsShown'
    BY <1>0, <2>1, <2>a, <2>c DEF ShownBelongs, ActiveIsListed, ConfirmedIsShown, TypeOK, Entries
  <2>4. DocStaged'
    BY <1>0, <2>1, <2>a, <2>c DEF DocStaged, Changes, Reloads
  <2>5. Reloading' /\ OfSelected'
    BY <1>0, <2>1, <2>a, <2>c DEF Reloading, OfSelected, HistoryOf, Reloads, Changes
  <2>6. DocDated'
    BY <1>0, <2>1, <2>a, <2>c DEF DocDated, Published, UpToDate, Reloads, Changes
  <2>7. QED
    BY <2>1, <2>2, <2>3, <2>4, <2>5, <2>6
<1>6. ASSUME ReadFails PROVE RegistryIInv'
  <2> USE <1>6 DEF ReadFails, Settled
  <2>1. /\ call' \in DocCall /\ call' = NoCall /\ call'.kind = "none" /\ call'.at = "none"
        /\ call'.request = "none"
    BY DocNoCallTyped
  <2>a. call.kind # "none" /\ content = None
    BY <1>0 DEF DocStaged, NoCall
  <2>2. TypeOK'
    BY <1>0, <2>1, <2>a DEF TypeOK, Counts
  <2>3. ShownBelongs' /\ ActiveIsListed' /\ ConfirmedIsShown'
    BY <1>0, <2>1, <2>a DEF ShownBelongs, ActiveIsListed, ConfirmedIsShown, TypeOK, Entries
  <2>4. DocStaged'
    BY <1>0, <2>1, <2>a DEF DocStaged, Changes, Reloads
  <2>5. Reloading' /\ OfSelected'
    BY <1>0, <2>1, <2>a DEF Reloading, OfSelected, HistoryOf, Reloads, Changes
  <2>6. DocDated'
    BY <1>0, <2>1, <2>a DEF DocDated, Published, UpToDate, Reloads, Changes
  <2>7. QED
    BY <2>1, <2>2, <2>3, <2>4, <2>5, <2>6
<1>7. ASSUME LateArrives PROVE RegistryIInv'
  <2> USE <1>7 DEF LateArrives, ArrivesLate
  <2>1. call' = call
    OBVIOUS
  <2>2. TypeOK'
    BY <1>0, <2>1 DEF TypeOK, Counts
  <2>3. ShownBelongs' /\ ActiveIsListed' /\ ConfirmedIsShown'
    BY <1>0, <2>1 DEF ShownBelongs, ActiveIsListed, ConfirmedIsShown, TypeOK, Entries
  <2>4. DocStaged'
    BY <1>0, <2>1 DEF DocStaged, Changes, Reloads
  <2>5. Reloading' /\ OfSelected'
    BY <1>0, <2>1 DEF Reloading, OfSelected, HistoryOf, Reloads, Changes
  <2>6. DocDated'
    BY <1>0, <2>1 DEF DocDated, Published, UpToDate, Reloads, Changes
  <2>7. QED
    BY <2>1, <2>2, <2>3, <2>4, <2>5, <2>6
<1>8. ASSUME Apply PROVE RegistryIInv'
  <2> USE <1>8 DEF Apply, Settled
  <2>1. /\ call' \in DocCall /\ call' = NoCall /\ call'.kind = "none" /\ call'.at = "none"
        /\ call'.request = "none"
    BY DocNoCallTyped
  <2>a. call.kind # "none" /\ content = None /\ who # "none"
    BY <1>0 DEF DocStaged, NoCall
  <2>b. message' \in {"none", "unconfirmed"}
    BY DEF MessageOf
  <2>c. busy' = (call'.kind # "none")
    BY <2>1
  <2>2. ASSUME call.kind = "select"
        PROVE  TypeOK' /\ ShownBelongs' /\ ActiveIsListed' /\ ConfirmedIsShown' /\ DocDated'
    <3>a. /\ versions' = call.history /\ UNCHANGED <<items, allowed, selected, content>>
      BY <2>2 DEF Applied
    <3>1. TypeOK'
      BY <1>0, <2>1, <2>b, <2>c, <2>2, <3>a DEF TypeOK, Counts, OfSelected, HistoryOf
    <3>2. ShownBelongs' /\ ActiveIsListed' /\ ConfirmedIsShown'
      BY <2>1, <2>a, <2>2, <3>a DEF ShownBelongs, ActiveIsListed, ConfirmedIsShown, OfSelected, HistoryOf
    <3>3. DocDated'
      BY <2>1, <2>2, <3>a DEF DocDated, Published, Reloads, Changes
    <3>4. QED
      BY <3>1, <3>2, <3>3
  <2>3. ASSUME call.kind = "read"
        PROVE  TypeOK' /\ ShownBelongs' /\ ActiveIsListed' /\ ConfirmedIsShown' /\ DocDated'
    <3>a. /\ content' = call.history /\ UNCHANGED <<items, allowed, selected, versions>>
      BY <2>3 DEF Applied
    <3>b. selected \in Entries /\ selected # None /\ call.history = [of |-> selected.id, version |-> selected.active]
          /\ selected.active # 0
      BY <2>3 DEF OfSelected, TypeOK
    <3>c. content' \in [of : Docs, version : 1 .. MaxVersions]
      BY <3>a, <3>b DEF Entries
    <3>1. TypeOK'
      BY <1>0, <2>1, <2>b, <2>c, <2>3, <3>a, <3>c DEF TypeOK
    <3>2. ShownBelongs' /\ ActiveIsListed' /\ ConfirmedIsShown'
      BY <2>1, <2>a, <3>a, <3>b DEF ShownBelongs, ActiveIsListed, ConfirmedIsShown
    <3>3. DocDated'
      BY <2>1, <2>3, <3>a DEF DocDated, Published, Reloads, Changes
    <3>4. QED
      BY <3>1, <3>2, <3>3
  <2>4. ASSUME call.kind \in Reloads
        PROVE  TypeOK' /\ ShownBelongs' /\ ActiveIsListed' /\ ConfirmedIsShown' /\ DocDated'
    <3>a. /\ items' = call.entries /\ allowed' = call.granted /\ selected' = call.selection
          /\ versions' = call.history /\ UNCHANGED content
      BY <2>4 DEF Applied, Reloads, Changes
    <3>b. /\ call.entries \in SUBSET Entries /\ call.granted \in SUBSET Entries /\ call.entries # None
          /\ call.selection # None => call.selection \in call.entries
          /\ call.history # None => call.selection # None
          /\ HistoryOf(call.selection, call.history) /\ call.selection \in Selections
      BY <1>0, <2>4 DEF Reloading, DocCall, Entries
    <3>c. Published(call.entries) /\ (who = "admin" => UpToDate(call.entries))
      BY <2>4, <3>b DEF DocDated
    <3>1. TypeOK'
      BY <1>0, <2>1, <2>b, <2>c, <3>a, <3>b DEF TypeOK, Counts, HistoryOf, Selections
    <3>2. ShownBelongs' /\ ActiveIsListed' /\ ConfirmedIsShown'
      BY <2>1, <2>a, <3>a, <3>b, <3>c DEF ShownBelongs, ActiveIsListed, ConfirmedIsShown, HistoryOf, UpToDate
    <3>3. DocDated'
      BY <2>1, <3>a, <3>c DEF DocDated, Published, Reloads, Changes
    <3>4. QED
      BY <3>1, <3>2, <3>3
  <2>d. call.kind = "select" \/ call.kind = "read" \/ call.kind \in Reloads
    BY <1>0, <2>a DEF DocKinds, Reloads
  <2>5. TypeOK' /\ ShownBelongs' /\ ActiveIsListed' /\ ConfirmedIsShown' /\ DocDated'
    BY <2>2, <2>3, <2>4, <2>d
  <2>6. DocStaged'
    BY <2>1, <2>a DEF DocStaged, Changes, Reloads
  <2>7. Reloading' /\ OfSelected'
    BY <2>1 DEF Reloading, OfSelected, Reloads, Changes
  <2>8. QED
    BY <2>1, <2>5, <2>6, <2>7
<1>9. QED
  BY <1>1, <1>2, <1>3, <1>4, <1>5, <1>6, <1>7, <1>8

LEMMA RegistrySteps ==
  ASSUME RegistryIInv, [Next]_vars
  PROVE  RegistryIInv'
<1>1. CASE Next
  BY <1>1, RegistryServer, RegistryViewed, RegistryAnswered DEF Next
<1>2. CASE UNCHANGED vars
  BY <1>2 DEF vars, server, shown, RegistryIInv, RegistryInv, TypeOK, ShownBelongs, ActiveIsListed,
              ConfirmedIsShown, DocStaged, Reloading, OfSelected, DocDated, Published, UpToDate
<1>3. QED
  BY <1>1, <1>2

\* Only an answered call ends with documents shown.
LEMMA RegistryDone ==
  ASSUME RegistryIInv, [Next]_vars
  PROVE  call.kind \in Changes /\ call'.kind = "none" /\ items' # {} => (message' = "none") = call.acknowledged
<1> SUFFICES ASSUME call.kind \in Changes, call'.kind = "none", items' # {}
             PROVE  (message' = "none") = call.acknowledged
  OBVIOUS
<1> USE DEF server, shown
<1>1. busy /\ call \in DocCall /\ call' # call /\ items = {} /\ content = None /\ who # "none"
  BY DEF RegistryIInv, RegistryInv, TypeOK, DocStaged, Reloading, Reloads, Changes
<1>2. ~(ReadFails \/ SessionCleared \/ CloseContent)
  BY <1>1 DEF ReadFails, SessionCleared, CloseContent, Clear
<1>3. ~(OthersChange \/ ServeUnserved \/ LateArrives \/ SignedIn)
  BY <1>1 DEF OthersChange, ServeUnserved, LateArrives, SignedIn
<1>4. ~(ServeChange \/ OperationReturns)
  BY <1>1 DEF ServeChange, OperationReturns
<1>5. ~(GetAllowed \/ GetEntries \/ GetHistory \/ GetText)
  BY <1>1 DEF GetAllowed, GetEntries, GetHistory, GetText
<1>6. ~(Refresh \/ Read)
  BY <1>1 DEF Refresh, Read, Free
<1>7. ~\E e \in items : Select(e)
  BY <1>1
<1>8. ~\E kind \in Changes, d \in Docs : Mutate(kind, d)
  BY <1>1 DEF Mutate, Free
<1>9. Apply
  BY <1>1, <1>2, <1>3, <1>4, <1>5, <1>6, <1>7, <1>8 DEF Next, vars, Changes
<1>10. call.at = "answered" /\ message' = IF call.error THEN "unconfirmed" ELSE "none"
  BY <1>9 DEF Apply, MessageOf
<1>11. call.error = ~call.acknowledged /\ call.acknowledged \in BOOLEAN
  BY <1>1, <1>10 DEF RegistryIInv, DocStaged, DocCall
<1>12. CASE call.acknowledged
  BY <1>10, <1>11, <1>12
<1>13. CASE ~call.acknowledged
  BY <1>10, <1>11, <1>13
<1>14. QED
  BY <1>12, <1>13

HIDE RegistryAssumption

------------------------------------------------------------------------------
(* Grants and roles.                                                       *)

CallKinds == Access!Changes \cup {"none", "load", "grants", "members"}
Stages == {"none", "operate", "lists", "details", "answered"}
Details(subjects) == [of : subjects, at : Access!Revisions] \cup {None}
AccessCall ==
  [kind : CallKinds, at : Stages,
   doc : Docs \cup {Unknown, None}, role : Roles \cup {None},
   request : {"none", "sent", "done", "refused"}, made : Access!Revisions,
   acknowledged : BOOLEAN, lists : Access!Revisions \cup {None},
   grants : Details(Docs), members : Details(Roles)]

\* The stages of each kind of call.
AccessStaged ==
  /\ accessCall.kind = "none" => accessCall = Access!NoCall
  /\ ~admin => accessCall.kind = "none"
  /\ accessCall.request # "none" => accessCall.at = "operate"
  /\ accessCall.at = "operate" => accessCall.kind \in Access!Changes
  /\ accessCall.at = "lists" => accessCall.kind \in Access!Changes \cup {"load"}
  /\ accessCall.kind \in Access!Changes /\ accessCall.at # "operate" => accessCall.acknowledged

\* What the call has read, and against which lists it will be shown.
AccessGathered ==
  /\ accessCall.kind \in Access!Changes \cup {"load"} /\ accessCall.at \in {"details", "answered"} =>
       /\ accessCall.lists \in Access!Revisions /\ accessCall.lists <= revision
       /\ accessCall.doc \in Docs \cup {None}
       /\ accessCall.kind \in Access!Changes => lastConfirmed <= accessCall.lists
       /\ accessCall.grants # None => accessCall.grants.at >= accessCall.lists
       /\ accessCall.members # None => accessCall.members.at >= accessCall.lists
  /\ accessCall.kind \in {"grants", "members"} =>
       /\ lists \in Access!Revisions
       /\ accessCall.grants # None => accessCall.grants.at >= lists
       /\ accessCall.members # None => accessCall.members.at >= lists
  /\ accessCall.kind = "grants" => accessCall.doc = selectedDocumentId
  /\ accessCall.kind = "members" => accessCall.role = selectedRoleId
  /\ accessCall.grants # None =>
       accessCall.at \in {"details", "answered"} /\ accessCall.grants.of = accessCall.doc
  /\ accessCall.members # None =>
       accessCall.at \in {"details", "answered"} /\ accessCall.members.of = accessCall.role

\* Nothing is newer than the server.
AccessDated ==
  /\ lists # None => lists <= revision
  /\ lastConfirmed <= revision /\ accessCall.made <= revision
  /\ grants # None => lists \in Access!Revisions /\ grants.at >= lists
  /\ members # None => lists \in Access!Revisions /\ members.at >= lists

\* The inductive invariant.
AccessIInv ==
  Access!TypeOK /\ Access!ShownBelongs /\ accessCall \in AccessCall /\ AccessStaged /\ AccessGathered /\ AccessDated

USE ViewAssumption DEF Access!AccessAssumption, Access!Revisions, Access!Changes, Access!shown

LEMMA AccessInit == Access!Init => AccessIInv
<1> SUFFICES ASSUME Access!Init PROVE AccessIInv
  OBVIOUS
<1> USE DEF Access!Init, Access!NoCall, Details, CallKinds, Stages
<1>1. accessCall \in AccessCall
  BY DEF AccessCall
<1>2. Access!TypeOK
  <2>1. accessCall.kind = "none" /\ accessBusy = FALSE
    OBVIOUS
  <2>2. accessBusy = (accessCall.kind # "none")
    BY <2>1
  <2>3. revision \in Access!Revisions /\ lastConfirmed \in Access!Revisions
    OBVIOUS
  <2>4. abandoned \in BOOLEAN /\ admin \in BOOLEAN
    OBVIOUS
  <2>5. accessMessage \in {"none", "unconfirmed"}
    OBVIOUS
  <2>6. accessCall.kind \in Access!Changes \union {"none", "load", "grants", "members"}
    BY <2>1
  <2>7. QED
    BY ONLY <2>2, <2>3, <2>4, <2>5, <2>6, Access!Init DEF Access!TypeOK, Access!Init
<1>3. Access!ShownBelongs /\ AccessStaged /\ AccessGathered /\ AccessDated
  BY DEF Access!ShownBelongs, AccessStaged, AccessGathered, AccessDated
<1>4. QED
  BY <1>1, <1>2, <1>3 DEF AccessIInv

LEMMA AccessServer ==
  ASSUME AccessIInv, Access!OthersChange \/ Access!ServeChange \/ Access!ServeUnserved
  PROVE  AccessIInv'
<1> USE DEF AccessIInv
<1>1. /\ revision \in Nat /\ revision' \in Access!Revisions /\ revision' >= revision
      /\ UNCHANGED <<admin, Access!shown, accessBusy, accessMessage, lastConfirmed>>
  BY DEF Access!TypeOK, Access!OthersChange, Access!ServeChange, Access!ServeUnserved, Access!Commit
<1>2. abandoned' \in BOOLEAN
  BY DEF Access!TypeOK, Access!OthersChange, Access!ServeChange, Access!ServeUnserved
<1>3. /\ accessCall' \in AccessCall
      /\ accessCall'.kind = accessCall.kind /\ accessCall'.at = accessCall.at
      /\ accessCall'.doc = accessCall.doc /\ accessCall'.role = accessCall.role
      /\ accessCall'.lists = accessCall.lists /\ accessCall'.acknowledged = accessCall.acknowledged
      /\ accessCall'.grants = accessCall.grants /\ accessCall'.members = accessCall.members
      /\ accessCall'.made \in Access!Revisions /\ accessCall'.made <= revision'
      /\ accessCall' = accessCall \/ (accessCall.at = "operate" /\ accessCall.kind # "none")
  <2>1. accessCall \in AccessCall /\ accessCall.made \in Nat /\ accessCall.made <= revision
    BY DEF AccessCall, AccessDated
  <2>2. CASE accessCall' = accessCall
    BY <2>1, <2>2, <1>1 DEF AccessCall
  <2>3. CASE Access!ServeChange
    <3>1. accessCall.at = "operate" /\ accessCall.kind # "none"
      BY <2>3 DEF Access!ServeChange, AccessStaged
    <3>2. \/ accessCall' = [accessCall EXCEPT !.request = "done", !.made = revision']
          \/ accessCall' = [accessCall EXCEPT !.request = "refused"]
      BY <2>3 DEF Access!ServeChange
    <3>3. revision' \in 0 .. MaxRevision /\ accessCall.made <= revision'
      BY <2>1, <1>1
    <3>4. accessCall' \in AccessCall
      BY <2>1, <3>2, <3>3 DEF AccessCall
    <3>5. /\ accessCall'.kind = accessCall.kind /\ accessCall'.at = accessCall.at
          /\ accessCall'.doc = accessCall.doc /\ accessCall'.role = accessCall.role
          /\ accessCall'.lists = accessCall.lists /\ accessCall'.acknowledged = accessCall.acknowledged
          /\ accessCall'.grants = accessCall.grants /\ accessCall'.members = accessCall.members
          /\ accessCall'.made \in {accessCall.made, revision'}
      BY <2>1, <3>2 DEF AccessCall
    <3>6. accessCall'.made \in 0 .. MaxRevision /\ accessCall'.made <= revision'
      BY <2>1, <3>3, <3>4, <3>5 DEF AccessCall
    <3>7. QED
      BY <3>1, <3>4, <3>5, <3>6
  <2>4. QED
    BY <2>2, <2>3 DEF Access!OthersChange, Access!ServeUnserved
<1>4. Access!TypeOK'
  BY <1>1, <1>2, <1>3 DEF Access!TypeOK
<1>5. Access!ShownBelongs'
  BY <1>1 DEF Access!ShownBelongs
<1>6. AccessStaged'
  BY <1>3, <1>1 DEF AccessStaged
<1>7. AccessGathered'
  BY <1>1, <1>3 DEF AccessGathered
<1>8. AccessDated'
  BY <1>1, <1>3 DEF AccessDated, Access!TypeOK
<1>9. QED
  BY <1>3, <1>4, <1>5, <1>6, <1>7, <1>8

LEMMA NoCallTyped ==
  /\ Access!NoCall \in AccessCall /\ Access!NoCall.kind = "none" /\ Access!NoCall.at = "none"
  /\ Access!NoCall.request = "none" /\ Access!NoCall.made = 0
  /\ Access!NoCall.grants = None /\ Access!NoCall.members = None
<1>1. 0 \in 0 .. MaxRevision /\ None \in Details(Docs) /\ None \in Details(Roles)
      /\ "none" \in CallKinds /\ "none" \in Stages
  BY DEF Details, CallKinds, Stages
<1>2. QED
  BY <1>1 DEF Access!NoCall, AccessCall

\* What a call is when it begins.
LEMMA CallBegins ==
  ASSUME NEW kind \in Access!Changes \cup {"load", "grants", "members"},
         NEW at \in {"operate", "lists", "details"},
         NEW document \in Docs \cup {Unknown, None}, NEW role \in Roles \cup {None},
         Access!Run(kind, at, document, role)
  PROVE  /\ accessCall' \in AccessCall
         /\ accessCall'.kind = kind /\ accessCall'.at = at
         /\ accessCall'.doc = document /\ accessCall'.role = role
         /\ at # "operate" => accessCall'.request = "none"
         /\ accessCall'.made = 0 /\ accessCall'.grants = None /\ accessCall'.members = None
         /\ accessBusy' = (accessCall'.kind # "none") /\ accessMessage' = "none"
<1>1. /\ Access!NoCall \in AccessCall
      /\ Access!NoCall.made = 0 /\ Access!NoCall.grants = None /\ Access!NoCall.members = None
  BY NoCallTyped
<1> DEFINE request == IF at = "operate" THEN "sent" ELSE "none"
<1>2. kind \in CallKinds /\ at \in Stages
  BY DEF CallKinds, Stages
<1>3. /\ request \in {"none", "sent", "done", "refused"}
      /\ accessCall' = [Access!NoCall EXCEPT !.kind = kind, !.at = at, !.doc = document, !.role = role,
                                             !.request = request]
  BY DEF Access!Run
<1> HIDE DEF request
<1>4. accessCall' \in AccessCall
  BY <1>1, <1>2, <1>3 DEF AccessCall
<1>5. /\ accessCall'.kind = kind /\ accessCall'.at = at
      /\ accessCall'.doc = document /\ accessCall'.role = role /\ accessCall'.request = request
      /\ accessCall'.made = 0 /\ accessCall'.grants = None /\ accessCall'.members = None
  BY <1>1, <1>3 DEF AccessCall
<1>6. accessBusy' = TRUE /\ accessCall'.kind # "none" /\ accessMessage' = "none"
  BY <1>5 DEF Access!Run
<1>7. accessBusy' = (accessCall'.kind # "none")
  BY <1>6
<1>8. at # "operate" => accessCall'.request = "none"
  BY <1>5 DEF request
<1>9. QED
  BY <1>4, <1>5, <1>6, <1>7, <1>8

LEMMA AccessViewed ==
  ASSUME AccessIInv
  PROVE  \/ \E d \in Docs \union {Unknown, None} : Access!Load(d)
         \/ \E d \in Docs \union {None} : Access!SelectDocument(d)
         \/ \E r \in Roles \union {None} : Access!SelectRole(r)
         \/ Access!AskRevoke \/ Access!SessionCleared \/ Access!SignedIn
         \/ \E kind \in Access!Changes : Access!Mutate(kind)
         => AccessIInv'
<1> USE DEF AccessIInv, Access!Free, Access!Watched
<1>0. /\ accessBusy = (accessCall.kind # "none") /\ accessCall \in AccessCall
      /\ ~accessBusy => accessCall = Access!NoCall
      /\ revision \in Nat /\ lastConfirmed \in Nat
      /\ None \in Docs \cup {Unknown, None} /\ None \in Roles \cup {None}
      /\ selectedDocumentId \in Docs \cup {None} /\ selectedRoleId \in Roles \cup {None}
  BY DEF Access!TypeOK, AccessStaged
<1>1. ASSUME NEW d \in Docs \union {Unknown, None}, Access!Load(d) PROVE AccessIInv'
  <2> USE <1>1 DEF Access!Load, Access!Clear
  <2>1. /\ accessBusy' = (accessCall'.kind # "none") /\ accessMessage' = "none"
        /\ accessCall' \in AccessCall /\ accessCall'.kind = "load" /\ accessCall'.at = "lists"
        /\ accessCall'.request = "none" /\ accessCall'.made = 0
        /\ accessCall'.grants = None /\ accessCall'.members = None
    BY <1>0, CallBegins
  <2>a. abandoned' \in BOOLEAN
    BY DEF Access!Abandon, Access!GivenUp, Access!TypeOK
  <2>2. Access!TypeOK'
    BY <1>0, <2>1, <2>a DEF Access!TypeOK
  <2>3. Access!ShownBelongs'
    BY <1>0, <2>1 DEF Access!ShownBelongs, Access!TypeOK
  <2>4. AccessStaged'
    BY <1>0, <2>1 DEF AccessStaged
  <2>5. AccessGathered'
    BY <1>0, <2>1 DEF AccessGathered, Access!TypeOK
  <2>6. AccessDated'
    BY <1>0, <2>1 DEF AccessDated, Access!TypeOK
  <2>7. QED
    BY <2>1, <2>2, <2>3, <2>4, <2>5, <2>6
<1>2. ASSUME NEW d \in Docs, Access!SelectDocument(d) PROVE AccessIInv'
  <2> USE <1>2 DEF Access!SelectDocument
  <2>1. /\ accessBusy' = (accessCall'.kind # "none") /\ accessMessage' = "none"
        /\ accessCall' \in AccessCall /\ accessCall'.kind = "grants" /\ accessCall'.at = "details"
        /\ accessCall'.request = "none" /\ accessCall'.made = 0
        /\ accessCall'.grants = None /\ accessCall'.members = None /\ accessCall'.doc = d
    BY <1>0, CallBegins
  <2>2. Access!TypeOK'
    BY <1>0, <2>1 DEF Access!TypeOK
  <2>3. Access!ShownBelongs'
    BY <1>0, <2>1 DEF Access!ShownBelongs, Access!TypeOK
  <2>4. AccessStaged'
    BY <1>0, <2>1 DEF AccessStaged
  <2>5. AccessGathered'
    BY <1>0, <2>1 DEF AccessGathered, Access!TypeOK
  <2>6. AccessDated'
    BY <1>0, <2>1 DEF AccessDated, Access!TypeOK
  <2>7. QED
    BY <2>1, <2>2, <2>3, <2>4, <2>5, <2>6
<1>3. ASSUME NEW r \in Roles, r # None, Access!SelectRole(r) PROVE AccessIInv'
  <2> USE <1>3 DEF Access!SelectRole
  <2>1. /\ accessBusy' = (accessCall'.kind # "none") /\ accessMessage' = "none"
        /\ accessCall' \in AccessCall /\ accessCall'.kind = "members" /\ accessCall'.at = "details"
        /\ accessCall'.request = "none" /\ accessCall'.made = 0
        /\ accessCall'.grants = None /\ accessCall'.members = None /\ accessCall'.role = r
    BY <1>0, CallBegins
  <2>2. Access!TypeOK'
    BY <1>0, <2>1 DEF Access!TypeOK
  <2>3. Access!ShownBelongs'
    BY <1>0, <2>1 DEF Access!ShownBelongs, Access!TypeOK
  <2>4. AccessStaged'
    BY <1>0, <2>1 DEF AccessStaged
  <2>5. AccessGathered'
    BY <1>0, <2>1 DEF AccessGathered, Access!TypeOK
  <2>6. AccessDated'
    BY <1>0, <2>1 DEF AccessDated, Access!TypeOK
  <2>7. QED
    BY <2>1, <2>2, <2>3, <2>4, <2>5, <2>6
<1>4. ASSUME NEW kind \in Access!Changes, Access!Mutate(kind) PROVE AccessIInv'
  <2> USE <1>4 DEF Access!Mutate
  <2>1. /\ accessBusy' = (accessCall'.kind # "none") /\ accessMessage' = "none"
        /\ accessCall' \in AccessCall /\ accessCall'.kind = kind /\ accessCall'.at = "operate"
        /\ accessCall'.made = 0 /\ accessCall'.grants = None /\ accessCall'.members = None
    BY <1>0, CallBegins
  <2>2. Access!TypeOK'
    BY <1>0, <2>1 DEF Access!TypeOK
  <2>3. Access!ShownBelongs'
    BY <1>0, <2>1 DEF Access!ShownBelongs, Access!TypeOK
  <2>4. AccessStaged'
    BY <1>0, <2>1 DEF AccessStaged
  <2>5. AccessGathered'
    BY <1>0, <2>1 DEF AccessGathered, Access!TypeOK
  <2>6. AccessDated'
    BY <1>0, <2>1 DEF AccessDated, Access!TypeOK
  <2>7. QED
    BY <2>1, <2>2, <2>3, <2>4, <2>5, <2>6
<1>5. ASSUME Access!SessionCleared PROVE AccessIInv'
  <2> USE <1>5 DEF Access!SessionCleared, Access!Clear
  <2>1. /\ accessCall' = Access!NoCall /\ accessCall' \in AccessCall
        /\ accessCall'.kind = "none" /\ accessCall'.at = "none" /\ accessCall'.request = "none"
        /\ accessCall'.made = 0 /\ accessCall'.grants = None /\ accessCall'.members = None
    BY NoCallTyped
  <2>a. abandoned' \in BOOLEAN
    BY DEF Access!Abandon, Access!GivenUp, Access!TypeOK
  <2>2. Access!TypeOK'
    BY <1>0, <2>1, <2>a DEF Access!TypeOK
  <2>3. Access!ShownBelongs'
    BY <1>0, <2>1 DEF Access!ShownBelongs, Access!TypeOK
  <2>4. AccessStaged'
    BY <1>0, <2>1 DEF AccessStaged
  <2>5. AccessGathered'
    BY <1>0, <2>1 DEF AccessGathered, Access!TypeOK
  <2>6. AccessDated'
    BY <1>0, <2>1 DEF AccessDated, Access!TypeOK
  <2>7. QED
    BY <2>1, <2>2, <2>3, <2>4, <2>5, <2>6
<1>6. ASSUME Access!AskRevoke PROVE AccessIInv'
  <2> USE <1>6 DEF Access!AskRevoke
  <2>1. accessCall' = accessCall /\ accessCall' \in AccessCall
    BY <1>0 DEF AccessCall
  <2>2. Access!TypeOK'
    BY <1>0, <2>1 DEF Access!TypeOK
  <2>3. Access!ShownBelongs'
    BY <1>0, <2>1 DEF Access!ShownBelongs, Access!TypeOK
  <2>4. AccessStaged'
    BY <1>0, <2>1 DEF AccessStaged
  <2>5. AccessGathered'
    BY <1>0, <2>1 DEF AccessGathered, Access!TypeOK
  <2>6. AccessDated'
    BY <1>0, <2>1 DEF AccessDated, Access!TypeOK
  <2>7. QED
    BY <2>1, <2>2, <2>3, <2>4, <2>5, <2>6
<1>7. ASSUME Access!SignedIn PROVE AccessIInv'
  <2> USE <1>7 DEF Access!SignedIn
  <2>1. accessCall' = accessCall /\ accessCall' \in AccessCall
    BY <1>0 DEF AccessCall
  <2>2. Access!TypeOK'
    BY <1>0, <2>1 DEF Access!TypeOK
  <2>3. Access!ShownBelongs'
    BY <1>0, <2>1 DEF Access!ShownBelongs, Access!TypeOK
  <2>4. AccessStaged'
    BY <1>0, <2>1 DEF AccessStaged
  <2>5. AccessGathered'
    BY <1>0, <2>1 DEF AccessGathered, Access!TypeOK
  <2>6. AccessDated'
    BY <1>0, <2>1 DEF AccessDated, Access!TypeOK
  <2>7. QED
    BY <2>1, <2>2, <2>3, <2>4, <2>5, <2>6
<1>8. ASSUME Access!SelectDocument(None) PROVE AccessIInv'
  <2> USE <1>8 DEF Access!SelectDocument
  <2>1. accessCall' = accessCall /\ accessCall' \in AccessCall
    BY <1>0 DEF AccessCall
  <2>2. Access!TypeOK'
    BY <1>0, <2>1 DEF Access!TypeOK
  <2>3. Access!ShownBelongs'
    BY <1>0, <2>1 DEF Access!ShownBelongs, Access!TypeOK
  <2>4. AccessStaged'
    BY <1>0, <2>1 DEF AccessStaged
  <2>5. AccessGathered'
    BY <1>0, <2>1 DEF AccessGathered, Access!TypeOK
  <2>6. AccessDated'
    BY <1>0, <2>1 DEF AccessDated, Access!TypeOK
  <2>7. QED
    BY <2>1, <2>2, <2>3, <2>4, <2>5, <2>6
<1>9. ASSUME Access!SelectRole(None) PROVE AccessIInv'
  <2> USE <1>9 DEF Access!SelectRole
  <2>1. accessCall' = accessCall /\ accessCall' \in AccessCall
    BY <1>0 DEF AccessCall
  <2>2. Access!TypeOK'
    BY <1>0, <2>1 DEF Access!TypeOK
  <2>3. Access!ShownBelongs'
    BY <1>0, <2>1 DEF Access!ShownBelongs, Access!TypeOK
  <2>4. AccessStaged'
    BY <1>0, <2>1 DEF AccessStaged
  <2>5. AccessGathered'
    BY <1>0, <2>1 DEF AccessGathered, Access!TypeOK
  <2>6. AccessDated'
    BY <1>0, <2>1 DEF AccessDated, Access!TypeOK
  <2>7. QED
    BY <2>1, <2>2, <2>3, <2>4, <2>5, <2>6
<1>10. QED
  BY <1>1, <1>2, <1>3, <1>4, <1>5, <1>6, <1>7, <1>8, <1>9

LEMMA AccessAnswered ==
  ASSUME AccessIInv
  PROVE  \/ Access!OperationConfirmed \/ Access!GetLists \/ Access!GetGrants \/ Access!GetMembers
         \/ Access!CallFails \/ Access!Apply \/ Access!LateArrives
         => AccessIInv'
<1> USE DEF AccessIInv
<1>0. /\ accessBusy = (accessCall.kind # "none") /\ accessCall \in AccessCall
      /\ revision \in Nat /\ lastConfirmed \in Nat /\ accessCall.made \in Nat
      /\ accessCall.made <= revision
      /\ accessCall.kind \in CallKinds
  BY DEF Access!TypeOK, AccessCall, AccessDated
<1>1. ASSUME Access!OperationConfirmed PROVE AccessIInv'
  <2> USE <1>1 DEF Access!OperationConfirmed, Access!Heard
  <2>0. /\ "lists" \in Stages /\ (accessCall.request = "done") \in BOOLEAN
        /\ accessCall.request = "done" /\ accessCall.kind \in Access!Changes
    BY DEF Stages, AccessStaged
  <2>1. /\ accessCall' \in AccessCall /\ accessCall'.at = "lists" /\ accessCall'.request = "none"
        /\ accessCall'.acknowledged = TRUE /\ accessCall'.kind = accessCall.kind
        /\ accessCall'.made = accessCall.made
        /\ accessCall'.grants = accessCall.grants /\ accessCall'.members = accessCall.members
        /\ accessCall.grants = None /\ accessCall.members = None
        /\ lastConfirmed' \in Access!Revisions /\ accessCall.kind \in Access!Changes
    BY <1>0, <2>0 DEF AccessCall, AccessGathered
  <2>2. Access!TypeOK'
    BY <1>0, <2>1 DEF Access!TypeOK, CallKinds
  <2>3. Access!ShownBelongs'
    BY <1>0, <2>1 DEF Access!ShownBelongs, Access!TypeOK
  <2>4. AccessStaged'
    BY <1>0, <2>1 DEF AccessStaged
  <2>5. AccessGathered'
    BY <1>0, <2>1 DEF AccessGathered, AccessDated, Access!TypeOK, Details
  <2>6. AccessDated'
    BY <1>0, <2>1 DEF AccessDated, Access!TypeOK, AccessStaged, AccessGathered
  <2>7. QED
    BY <2>1, <2>2, <2>3, <2>4, <2>5, <2>6
<1>2. ASSUME Access!GetLists PROVE AccessIInv'
  <2> USE <1>2 DEF Access!GetLists
  <2>a. PICK at \in {"answered", "details"} :
           accessCall' = [accessCall EXCEPT !.lists = revision, !.doc = Access!Found(accessCall.doc), !.at = at]
    BY <1>0
  <2>b. /\ Access!Found(accessCall.doc) \in Docs \cup {None} /\ at \in Stages
        /\ revision \in Access!Revisions \cup {None} /\ accessCall.doc \in Docs \cup {Unknown, None}
    BY <1>0 DEF Access!Found, Stages, Access!TypeOK, AccessCall
  <2>1. /\ accessCall' \in AccessCall /\ accessCall'.at \in {"answered", "details"}
        /\ accessCall'.kind = accessCall.kind /\ accessCall'.request = "none"
        /\ accessCall'.acknowledged = accessCall.acknowledged
        /\ accessCall'.lists = revision /\ accessCall'.doc \in Docs \cup {None}
        /\ accessCall'.made = accessCall.made
        /\ accessCall'.grants = None /\ accessCall'.members = None
        /\ accessCall.at = "lists" /\ accessCall.kind \in Access!Changes \cup {"load"}
    BY <1>0, <2>a, <2>b DEF AccessCall, AccessGathered, AccessStaged
  <2>2. Access!TypeOK'
    BY <1>0, <2>1 DEF Access!TypeOK, CallKinds
  <2>3. Access!ShownBelongs'
    BY <1>0, <2>1 DEF Access!ShownBelongs, Access!TypeOK
  <2>4. AccessStaged'
    BY <1>0, <2>1 DEF AccessStaged
  <2>5. AccessGathered'
    BY <1>0, <2>1 DEF AccessGathered, AccessDated, Access!TypeOK, Details
  <2>6. AccessDated'
    BY <1>0, <2>1 DEF AccessDated, Access!TypeOK, AccessStaged, AccessGathered
  <2>7. QED
    BY <2>1, <2>2, <2>3, <2>4, <2>5, <2>6
<1>3. ASSUME Access!GetGrants PROVE AccessIInv'
  <2> USE <1>3 DEF Access!GetGrants, Access!DetailsTurn
  <2> DEFINE read == [of |-> accessCall.doc, at |-> revision]
  <2>a. /\ read \in Details(Docs) /\ read.of = accessCall.doc /\ read.at = revision
        /\ accessCall.at = "details" /\ accessCall.request = "none" /\ accessCall.kind # "none"
    BY <1>0 DEF Details, AccessCall, Access!TypeOK, AccessStaged, Access!NoCall
  <2>b. PICK at \in {"details", "answered"} :
           accessCall' = [accessCall EXCEPT !.grants = read, !.members = accessCall.members, !.at = at]
    BY <2>a DEF Access!WithDetails
  <2> HIDE DEF read
  <2>c. at \in Stages /\ accessCall.grants \in Details(Docs) /\ accessCall.members \in Details(Roles)
    BY <1>0 DEF Stages, AccessCall
  <2>1. /\ accessCall' \in AccessCall /\ accessCall'.at \in {"details", "answered"}
        /\ accessCall'.kind = accessCall.kind /\ accessCall'.request = "none"
        /\ accessCall'.acknowledged = accessCall.acknowledged /\ accessCall'.lists = accessCall.lists
        /\ accessCall'.doc = accessCall.doc /\ accessCall'.role = accessCall.role
        /\ accessCall'.made = accessCall.made
        /\ accessCall'.grants = read /\ accessCall'.members = accessCall.members
    BY <1>0, <2>a, <2>b, <2>c DEF AccessCall
  <2>2. Access!TypeOK'
    BY <1>0, <2>1, <2>a DEF Access!TypeOK, CallKinds
  <2>3. Access!ShownBelongs'
    BY <1>0, <2>1, <2>a DEF Access!ShownBelongs, Access!TypeOK
  <2>4. AccessStaged'
    BY <1>0, <2>1, <2>a DEF AccessStaged
  <2>5. AccessGathered'
    BY <1>0, <2>1, <2>a DEF AccessGathered, AccessDated, Access!TypeOK, Details
  <2>6. AccessDated'
    BY <1>0, <2>1, <2>a DEF AccessDated, Access!TypeOK, AccessStaged, AccessGathered
  <2>7. QED
    BY <2>1, <2>2, <2>3, <2>4, <2>5, <2>6
<1>4. ASSUME Access!GetMembers PROVE AccessIInv'
  <2> USE <1>4 DEF Access!GetMembers, Access!DetailsTurn
  <2> DEFINE read == [of |-> accessCall.role, at |-> revision]
  <2>a. /\ read \in Details(Roles) /\ read.of = accessCall.role /\ read.at = revision
        /\ accessCall.at = "details" /\ accessCall.request = "none" /\ accessCall.kind # "none"
    BY <1>0 DEF Details, AccessCall, Access!TypeOK, AccessStaged, Access!NoCall
  <2>b. PICK at \in {"details", "answered"} :
           accessCall' = [accessCall EXCEPT !.grants = accessCall.grants, !.members = read, !.at = at]
    BY <2>a DEF Access!WithDetails
  <2> HIDE DEF read
  <2>c. at \in Stages /\ accessCall.grants \in Details(Docs) /\ accessCall.members \in Details(Roles)
    BY <1>0 DEF Stages, AccessCall
  <2>1. /\ accessCall' \in AccessCall /\ accessCall'.at \in {"details", "answered"}
        /\ accessCall'.kind = accessCall.kind /\ accessCall'.request = "none"
        /\ accessCall'.acknowledged = accessCall.acknowledged /\ accessCall'.lists = accessCall.lists
        /\ accessCall'.doc = accessCall.doc /\ accessCall'.role = accessCall.role
        /\ accessCall'.made = accessCall.made
        /\ accessCall'.members = read /\ accessCall'.grants = accessCall.grants
    BY <1>0, <2>a, <2>b, <2>c DEF AccessCall
  <2>2. Access!TypeOK'
    BY <1>0, <2>1, <2>a DEF Access!TypeOK, CallKinds
  <2>3. Access!ShownBelongs'
    BY <1>0, <2>1, <2>a DEF Access!ShownBelongs, Access!TypeOK
  <2>4. AccessStaged'
    BY <1>0, <2>1, <2>a DEF AccessStaged
  <2>5. AccessGathered'
    BY <1>0, <2>1, <2>a DEF AccessGathered, AccessDated, Access!TypeOK, Details
  <2>6. AccessDated'
    BY <1>0, <2>1, <2>a DEF AccessDated, Access!TypeOK, AccessStaged, AccessGathered
  <2>7. QED
    BY <2>1, <2>2, <2>3, <2>4, <2>5, <2>6
<1>5. ASSUME Access!CallFails PROVE AccessIInv'
  <2> USE <1>5 DEF Access!CallFails, Access!Settled
  <2>1. /\ accessCall' = Access!NoCall /\ accessCall' \in AccessCall
        /\ accessCall'.kind = "none" /\ accessCall'.at = "none" /\ accessCall'.request = "none"
        /\ accessCall'.made = 0 /\ accessCall'.grants = None /\ accessCall'.members = None
    BY NoCallTyped
  <2>a. abandoned' \in BOOLEAN
    BY DEF Access!GivenUp, Access!TypeOK
  <2>2. Access!TypeOK'
    BY <1>0, <2>1, <2>a DEF Access!TypeOK, CallKinds
  <2>3. Access!ShownBelongs'
    BY <1>0, <2>1 DEF Access!ShownBelongs, Access!TypeOK
  <2>4. AccessStaged'
    BY <1>0, <2>1 DEF AccessStaged
  <2>5. AccessGathered'
    BY <1>0, <2>1 DEF AccessGathered, AccessDated, Access!TypeOK, Details
  <2>6. AccessDated'
    BY <1>0, <2>1 DEF AccessDated, Access!TypeOK, AccessStaged, AccessGathered
  <2>7. QED
    BY <2>1, <2>2, <2>3, <2>4, <2>5, <2>6
<1>6. ASSUME Access!Apply PROVE AccessIInv'
  <2> USE <1>6 DEF Access!Apply, Access!Settled, Access!Watched
  <2>1. /\ accessCall' = Access!NoCall /\ accessCall' \in AccessCall
        /\ accessCall'.kind = "none" /\ accessCall'.at = "none" /\ accessCall'.request = "none"
        /\ accessCall'.made = 0 /\ accessCall'.grants = None /\ accessCall'.members = None
        /\ admin /\ accessCall.kind # "none"
    BY NoCallTyped DEF AccessStaged, Access!NoCall
  <2>a. /\ accessCall.lists \in Access!Revisions \cup {None}
        /\ accessCall.grants \in Details(Docs) /\ accessCall.members \in Details(Roles)
        /\ accessCall.role \in Roles \cup {None}
        /\ accessCall.kind \in Access!Changes \cup {"load"} => accessCall.doc \in Docs \cup {None}
    BY <1>0 DEF AccessCall, AccessGathered
  <2>b. /\ accessCall.kind = "grants" => accessCall.doc = selectedDocumentId
        /\ accessCall.kind = "members" => accessCall.role = selectedRoleId
        /\ accessCall.grants # None => accessCall.grants.of = accessCall.doc
        /\ accessCall.members # None => accessCall.members.of = accessCall.role
    BY DEF AccessGathered
  <2>c. /\ lists' \in Access!Revisions \cup {None}
        /\ grants' \in Details(Docs) /\ members' \in Details(Roles)
        /\ selectedDocumentId' \in Docs \cup {None} /\ selectedRoleId' \in Roles \cup {None}
        /\ pendingGrant' \in Docs \cup {None}
        /\ Access!ShownBelongs'
    <3> USE <1>0, <2>1, <2>a, <2>b DEF Access!Applied, Access!ShownBelongs
    <3>0. /\ lists \in Access!Revisions \cup {None}
          /\ grants \in Details(Docs) /\ members \in Details(Roles)
          /\ selectedDocumentId \in Docs \cup {None} /\ selectedRoleId \in Roles \cup {None}
          /\ pendingGrant \in Docs \cup {None}
      BY DEF Access!TypeOK, Details
    <3>1. CASE accessCall.kind = "grants"
      BY <3>0, <3>1
    <3>2. CASE accessCall.kind = "members"
      BY <3>0, <3>2
    <3>3. CASE accessCall.kind \in Access!Changes \cup {"load"}
      BY <3>0, <3>3
    <3>4. QED
      BY <3>1, <3>2, <3>3 DEF CallKinds
  <2>2. Access!TypeOK'
    BY <1>0, <2>1, <2>c DEF Access!TypeOK, Details
  <2>3. Access!ShownBelongs'
    BY <2>c
  <2>4. AccessStaged'
    BY <1>0, <2>1 DEF Access!Applied, AccessStaged
  <2>5. AccessGathered'
    BY <1>0, <2>1 DEF Access!Applied, AccessGathered, AccessDated, Access!TypeOK, Details
  <2>6. AccessDated'
    BY <1>0, <2>1 DEF Access!Applied, AccessDated, Access!TypeOK, AccessStaged, AccessGathered
  <2>7. QED
    BY <2>1, <2>2, <2>3, <2>4, <2>5, <2>6
<1>7. ASSUME Access!LateArrives PROVE AccessIInv'
  <2> USE <1>7 DEF Access!LateArrives
  <2>1. accessCall' = accessCall /\ accessCall' \in AccessCall
    BY <1>0
  <2>2. Access!TypeOK'
    BY <1>0, <2>1 DEF Access!TypeOK, CallKinds
  <2>3. Access!ShownBelongs'
    BY <1>0, <2>1 DEF Access!ShownBelongs, Access!TypeOK
  <2>4. AccessStaged'
    BY <1>0, <2>1 DEF AccessStaged
  <2>5. AccessGathered'
    BY <1>0, <2>1 DEF AccessGathered, AccessDated, Access!TypeOK, Details
  <2>6. AccessDated'
    BY <1>0, <2>1 DEF AccessDated, Access!TypeOK, AccessStaged, AccessGathered
  <2>7. QED
    BY <2>1, <2>2, <2>3, <2>4, <2>5, <2>6
<1>8. QED
  BY <1>1, <1>2, <1>3, <1>4, <1>5, <1>6, <1>7

LEMMA AccessSteps ==
  ASSUME AccessIInv, [Access!Next]_access
  PROVE  AccessIInv'
<1>1. CASE Access!Next
  BY <1>1, AccessServer, AccessViewed, AccessAnswered DEF Access!Next
<1>2. CASE UNCHANGED access
  BY <1>2 DEF access, AccessIInv, Access!TypeOK, Access!ShownBelongs, AccessStaged, AccessGathered, AccessDated
<1>3. QED
  BY <1>1, <1>2

\* Only an answered call ends with lists shown and nothing said.
LEMMA AccessDone ==
  ASSUME AccessIInv, [Access!Next]_access
  PROVE  (/\ accessCall.kind \in Access!Changes /\ accessCall'.kind = "none"
          /\ accessMessage' = "none" /\ lists' # None)
         => accessCall.acknowledged /\ lists' >= lastConfirmed
<1> SUFFICES ASSUME accessCall.kind \in Access!Changes, accessCall'.kind = "none",
                    accessMessage' = "none", lists' # None
             PROVE  accessCall.acknowledged /\ lists' >= lastConfirmed
  OBVIOUS
<1>1. accessBusy /\ admin /\ accessCall \in AccessCall /\ accessCall' # accessCall
  BY DEF AccessIInv, Access!TypeOK, AccessStaged
<1>2. ~(Access!CallFails \/ Access!SessionCleared)
  BY DEF Access!CallFails, Access!SessionCleared, Access!Clear
<1>3. ~(Access!OthersChange \/ Access!ServeUnserved \/ Access!LateArrives \/ Access!SignedIn)
  BY <1>1 DEF Access!OthersChange, Access!ServeUnserved, Access!LateArrives, Access!SignedIn
<1>4. ~(Access!ServeChange \/ Access!OperationConfirmed)
  BY <1>1 DEF Access!ServeChange, Access!OperationConfirmed, AccessCall
<1>5. ~(Access!GetLists \/ Access!GetGrants \/ Access!GetMembers)
  BY <1>1 DEF Access!GetLists, Access!GetGrants, Access!GetMembers, Access!WithDetails, AccessCall
<1>6. ~\E d \in Docs \union {Unknown, None} : Access!Load(d) \/ Access!SelectDocument(d)
  BY <1>1 DEF Access!Load, Access!SelectDocument, Access!Free
<1>7. ~\E r \in Roles \union {None} : Access!SelectRole(r)
  BY <1>1 DEF Access!SelectRole, Access!Free
<1>8. ~(Access!AskRevoke \/ \E kind \in Access!Changes : Access!Mutate(kind))
  BY <1>1 DEF Access!AskRevoke, Access!Mutate, Access!Free
<1>9. Access!Apply
  BY <1>1, <1>2, <1>3, <1>4, <1>5, <1>6, <1>7, <1>8 DEF Access!Next, access
<1>10. lists' = accessCall.lists /\ accessCall.at = "answered"
  BY <1>9 DEF Access!Apply, Access!Applied
<1>11. QED
  BY <1>1, <1>10 DEF AccessIInv, AccessStaged, AccessGathered

HIDE ViewAssumption DEF Access!AccessAssumption, Access!Revisions, Access!Changes, Access!shown

------------------------------------------------------------------------------
(* The three views.                                                        *)

LEMMA EachViewSteps ==
  ASSUME [DocumentView \/ AccessView \/ AuditView]_<<part, vars, access, audit>>
  PROVE  [Next]_vars /\ [Access!Next]_access /\ [Audit!Next]_audit
  BY DEF DocumentView, AccessView, AuditView

LEMMA ViewsInductive == MCSpec => [](RegistryIInv /\ AccessIInv /\ AuditIInv)
<1>1. MCInit => RegistryIInv /\ AccessIInv /\ AuditIInv
  BY RegistryInit, AccessInit, AuditInit DEF MCInit
<1>2. ASSUME RegistryIInv, AccessIInv, AuditIInv,
             [DocumentView \/ AccessView \/ AuditView]_<<part, vars, access, audit>>
      PROVE  RegistryIInv' /\ AccessIInv' /\ AuditIInv'
  BY <1>2, EachViewSteps, RegistrySteps, AccessSteps, AuditSteps
<1>3. QED
  BY <1>1, <1>2, PTL DEF MCSpec

(***************************************************************************)
(* Each list of a view belongs to what is selected, those that explain     *)
(* others are no older than these, and the registry of documents misses no *)
(* confirmed change, however answers, other administrators and the end of  *)
(* a session meet.                                                         *)
(***************************************************************************)
THEOREM ViewsShowOneState == MCSpec => []ViewsBelong
<1>1. RegistryIInv /\ AccessIInv => ViewsBelong
  BY DEF RegistryIInv, AccessIInv, ViewsBelong, Access!AccessInv, Access!DetailsAreNewer, AccessDated
<1>2. QED
  BY <1>1, ViewsInductive, PTL

(***************************************************************************)
(* Every event that was there at the first page is shown once, in order,   *)
(* whatever is recorded between the pages and however long they are.       *)
(***************************************************************************)
THEOREM NoEventIsMissed == MCSpec => []PagesAreWhole
<1>1. AuditIInv => PagesAreWhole
  BY DEF AuditIInv, PagesAreWhole
<1>2. QED
  BY <1>1, ViewsInductive, PTL

(***************************************************************************)
(* Where the call of a change ends in a list, the reading that follows the *)
(* change does not hide what became of it.                                 *)
(***************************************************************************)
THEOREM OutcomesAreTold == MCSpec => ChangesAreReported
<1>1. ASSUME RegistryIInv, AccessIInv,
             [DocumentView \/ AccessView \/ AuditView]_<<part, vars, access, audit>>
      PROVE  /\ [(call.kind \in Changes /\ call'.kind = "none" /\ items' # {})
                   => (message' = "none") = call.acknowledged]_vars
             /\ [(/\ accessCall.kind \in Access!Changes /\ accessCall'.kind = "none"
                   /\ accessMessage' = "none" /\ lists' # None)
                   => accessCall.acknowledged /\ lists' >= lastConfirmed]_Access!vars
  BY <1>1, EachViewSteps, RegistryDone, AccessDone
<1>2. QED
  BY <1>1, ViewsInductive, PTL DEF MCSpec, ChangesAreReported, OutcomeIsTold, Access!DoneIsShown
===============================================================================
