------------------------------- MODULE AuditLog -------------------------------
(***************************************************************************)
(* The audit log read page by page in the browser.  An event's place is    *)
(* its time and identifier; the time is that of the start of its           *)
(* transaction, so that events need not be committed in the order of their *)
(* places, and a page is read while others are added.  A cursor is the     *)
(* place of the last event shown.  A page holds PageSize events.           *)
(***************************************************************************)
EXTENDS Naturals, FiniteSets, SequencesExt

CONSTANTS Places, \* 1 .. n, in the order of time and identifier
          Kinds, KindOf, \* the kind of the event that takes a place
          PageSize, None

AuditAssumption ==
  Places \subseteq Nat /\ PageSize \in Nat \ {0} /\ KindOf \in [Places -> Kinds] /\ None \notin Places

VARIABLES log,                \* the places of the committed events
          admin,              \* the session is an administrator's
          items, nextCursor, busy, message,
          filters,            \* the kind that was asked for, None for every kind
          call, late,         \* the current request, and the answer of one given up
          atFirst             \* the matching events there were when the first page was read

shown == <<items, nextCursor, filters>>
vars == <<log, admin, shown, busy, message, call, late, atFirst>>

NoCall == [at |-> "none", filters |-> None, cursor |-> None, page |-> <<>>, next |-> None, matching |-> {}]

Init ==
  /\ log = {} /\ admin = FALSE
  /\ items = <<>> /\ nextCursor = None /\ filters = None
  /\ busy = FALSE /\ message = "none" /\ call = NoCall /\ late = NoCall /\ atFirst = {}

------------------------------------------------------------------------------
\* The server.

Record ==
  /\ \E p \in Places \ log : log' = log \union {p}
  /\ UNCHANGED <<admin, shown, busy, message, call, late, atFirst>>

Matching(kind) == {p \in log : kind = None \/ KindOf[p] = kind}

After(places, cursor) == IF cursor = None THEN places ELSE {p \in places : p < cursor}

\* Mutant: only a page of rows is read.
OnePage == PageSize
\* One row more than the page is read, to know whether there is another page.
Limit == PageSize + 1

Descending(places) ==
  [i \in 1 .. Cardinality(places) |-> CHOOSE p \in places : Cardinality({q \in places : q >= p}) = i]
FirstOf(n, rows) == SubSeq(rows, 1, IF Len(rows) > n THEN n ELSE Len(rows))

\* read_audit: the places in descending order, from the cursor on.
Page(kind, cursor) ==
  LET rows == Descending(After(Matching(kind), cursor))
      entries == FirstOf(Limit, rows)
      page == FirstOf(PageSize, entries) IN
  [items |-> page, next |-> IF Len(entries) > PageSize THEN Last(page) ELSE None]

------------------------------------------------------------------------------
\* The view.

Given == late' = IF call.at = "answered" THEN call ELSE late

Forget == items' = <<>> /\ nextCursor' = None /\ Given

FetchPage(kind, cursor) ==
  /\ call' = [NoCall EXCEPT !.at = "asked", !.filters = kind, !.cursor = cursor]
  /\ busy' = TRUE /\ message' = "none"

\* A new question: the rows of the old one are gone before it is asked.
Load(kind) ==
  /\ admin /\ ~busy
  /\ Forget /\ filters' = kind /\ FetchPage(kind, None)
  /\ atFirst' = {}
  /\ UNCHANGED <<log, admin>>

LoadMore ==
  /\ admin /\ ~busy /\ nextCursor # None
  /\ FetchPage(filters, nextCursor)
  /\ UNCHANGED <<log, admin, shown, late, atFirst>>

SessionCleared ==
  /\ admin /\ admin' \in BOOLEAN
  /\ Forget /\ filters' = None /\ busy' = FALSE /\ message' = "none" /\ call' = NoCall
  /\ atFirst' = {}
  /\ UNCHANGED log

SignedIn ==
  /\ ~admin /\ admin' = TRUE
  /\ UNCHANGED <<log, shown, busy, message, call, late, atFirst>>

------------------------------------------------------------------------------
\* The request.  An earlier answer that is already there comes first.

Serve ==
  /\ call.at = "asked" /\ late = NoCall
  /\ LET page == Page(call.filters, call.cursor) IN
     call' = [call EXCEPT !.at = "answered", !.page = page.items, !.next = page.next,
                          !.matching = Matching(call.filters)]
  /\ UNCHANGED <<log, admin, shown, busy, message, late, atFirst>>

Settled == call' = NoCall /\ busy' = FALSE

Rows(answer) == IF answer.cursor = None THEN answer.page ELSE items \o answer.page

Arrives ==
  /\ call.at = "answered" /\ late = NoCall
  /\ items' = Rows(call) /\ nextCursor' = call.next
  /\ atFirst' = IF call.cursor = None THEN call.matching ELSE atFirst
  /\ Settled
  /\ UNCHANGED <<log, admin, filters, message, late>>

\* The rows and the cursor there are stay.
Fails ==
  /\ call.at = "asked" /\ late = NoCall
  /\ Settled /\ message' = "failed"
  /\ UNCHANGED <<log, admin, shown, late, atFirst>>

ArrivesLate == UNCHANGED <<items, nextCursor>>

LateArrives ==
  /\ late # NoCall /\ late' = NoCall /\ ArrivesLate
  /\ UNCHANGED <<log, admin, filters, busy, message, call, atFirst>>

------------------------------------------------------------------------------
Next ==
  \/ Record \/ LoadMore \/ SessionCleared \/ SignedIn
  \/ \E kind \in Kinds \union {None} : Load(kind)
  \/ Serve \/ Arrives \/ Fails \/ LateArrives

Spec == Init /\ [][Next]_vars

------------------------------------------------------------------------------
\* What has its type; the view is busy exactly while it has a request.
TypeOK ==
  /\ log \subseteq Places /\ atFirst \subseteq Places /\ admin \in BOOLEAN
  /\ items \in Seq(Places) /\ nextCursor \in Places \union {None} /\ filters \in Kinds \union {None}
  /\ busy = (call.at # "none") /\ message \in {"none", "failed"}

(***************************************************************************)
(* The rows are in strictly descending order across all pages: no event is *)
(* shown twice, though events are added between the pages.                 *)
(***************************************************************************)
RowsDescend ==
  \A i \in 1 .. Len(items) - 1 : items[i] > items[i + 1]

(***************************************************************************)
(* Every row answers the question in force: the pages of a question are    *)
(* never mixed with those of another one, and nothing is shown without an  *)
(* administrator's session.                                                *)
(***************************************************************************)
RowsMatch ==
  /\ \A i \in DOMAIN items : filters = None \/ KindOf[items[i]] = filters
  /\ ~admin => items = <<>> /\ nextCursor = None

(***************************************************************************)
(* No event is skipped: of those there were when the first page was read,  *)
(* every one above the cursor is shown, and all of them when there is no   *)
(* further page.                                                           *)
(***************************************************************************)
NoneSkipped ==
  \A p \in atFirst : (nextCursor = None \/ p >= nextCursor) => \E i \in DOMAIN items : items[i] = p

\* What the audit log never shows otherwise.
AuditInv == TypeOK /\ RowsDescend /\ RowsMatch /\ NoneSkipped
===============================================================================
