--------------------------- MODULE DocumentRegistry ---------------------------
(***************************************************************************)
(* The registry of documents in the browser: one view, one call at a time, *)
(* against a server that other administrators change.  What the view shows *)
(* is put together from several reads, each a transaction of its own, and  *)
(* a change is followed by such a reading whether or not it was confirmed. *)
(* A request the client gave up may still be served.  The epoch of the     *)
(* code is here the question which call is the current one.                *)
(***************************************************************************)
EXTENDS Naturals, FiniteSets

CONSTANTS Docs, None,
          MaxVersions, MaxUnserved \* bounds on a document's versions and on abandoned changes

ASSUME RegistryAssumption ==
  /\ MaxVersions \in Nat /\ MaxUnserved \in Nat
  /\ LET entries == [id : Docs, active : 0 .. MaxVersions] IN None \notin entries /\ \A list \in SUBSET entries : list # None

VARIABLES store,    \* the documents: their versions and the active one
          readable, \* the enabled documents whose text this user may read
          unserved, \* changes the client gave up and the server has not seen to
          who,      \* "admin", "reader", or "none" without a session
          items, allowed, selected, versions, content, busy, message,
          call,     \* the current call of the view
          late,     \* a call given up when its answers were already there
          confirmed \* what the last confirmed change of each document made it

server == <<store, readable, unserved>>
shown == <<items, allowed, selected, versions, content>>
vars == <<server, who, shown, busy, message, call, late, confirmed>>

Blank == [versions |-> 0, active |-> 0]
NoCall == [kind |-> "none", at |-> "none", target |-> None, error |-> FALSE, acknowledged |-> FALSE,
           request |-> "none", made |-> Blank,
           granted |-> None, entries |-> None, selection |-> None, history |-> None]

\* A document exists from its first version on.
Entry(d) == [id |-> d, active |-> store[d].active]
Administrative == {Entry(d) : d \in {e \in Docs : store[e].versions > 0}}
Accessible == {Entry(d) : d \in {e \in readable : store[e].active > 0}}
Find(entries, d) == IF \E e \in entries : e.id = d THEN CHOOSE e \in entries : e.id = d ELSE None

CanReadContent ==
  /\ selected # None /\ selected.active # 0
  /\ \E e \in allowed : e.id = selected.id /\ e.active = selected.active

Init ==
  /\ store = [d \in Docs |-> Blank] /\ readable = {} /\ unserved = {}
  /\ who = "none"
  /\ items = {} /\ allowed = {} /\ selected = None /\ versions = None /\ content = None
  /\ busy = FALSE /\ message = "none" /\ call = NoCall /\ late = NoCall
  /\ confirmed = [d \in Docs |-> Blank]

------------------------------------------------------------------------------
\* The server: what a change does, and what other administrators do meanwhile.

\* A new title, or the document is enabled or disabled.
Edit(d) ==
  /\ store[d].versions > 0 /\ readable' \in {readable, readable \union {d}, readable \ {d}}
  /\ UNCHANGED store

\* A version that is not indexed stays in the list and is not activated.
Store(d, indexed) ==
  /\ store[d].versions < MaxVersions
  /\ store' = [store EXCEPT ![d] = [versions |-> @.versions + 1,
                                    active |-> IF indexed THEN @.versions + 1 ELSE @.active]]
  /\ UNCHANGED readable

\* The new document and its first version are stored, activated and confirmed together.
Commit(kind, d) ==
  CASE kind = "upload" -> store[d].versions = 0 /\ Store(d, TRUE)
    [] kind = "version" -> Store(d, TRUE)
    [] kind = "update" -> Edit(d)

OthersChange ==
  /\ \E d \in Docs : Edit(d) \/ Store(d, TRUE) \/ (store[d].versions > 0 /\ Store(d, FALSE))
  /\ UNCHANGED <<unserved, who, shown, busy, message, call, late, confirmed>>

\* The request of the current change: it commits, or fails, perhaps leaving a failed version.
ServeChange ==
  /\ call.request = "sent"
  /\ \/ Commit(call.kind, call.target)
        /\ call' = [call EXCEPT !.request = "done", !.made = store'[call.target]]
     \/ /\ \/ UNCHANGED <<store, readable>>
           \/ call.kind = "version" /\ Store(call.target, FALSE)
        /\ call' = [call EXCEPT !.request = "refused"]
  /\ UNCHANGED <<unserved, who, shown, busy, message, late, confirmed>>

ServeUnserved ==
  /\ \E u \in unserved :
       /\ unserved' = unserved \ {u}
       /\ Commit(u.kind, u.target) \/ UNCHANGED <<store, readable>>
  /\ UNCHANGED <<who, shown, busy, message, call, late, confirmed>>

------------------------------------------------------------------------------
\* The view.

GivenUp == IF call.request = "sent" THEN unserved \union {[kind |-> call.kind, target |-> call.target]}
           ELSE unserved

\* A new epoch: nothing is shown, and the call in progress is no longer waited for.
Clear ==
  /\ unserved' = GivenUp
  /\ late' = IF call.at = "answered" THEN call ELSE late
  /\ items' = {} /\ allowed' = {} /\ selected' = None /\ versions' = None /\ content' = None

Run(kind, at, target) ==
  /\ call' = [NoCall EXCEPT !.kind = kind, !.at = at, !.target = target,
                            !.request = IF at = "operate" THEN "sent" ELSE "none"]
  /\ content' = None /\ busy' = TRUE /\ message' = "none"

\* The buttons of the view are disabled while a call runs.
Free == who # "none" /\ ~busy

Refresh ==
  /\ Free /\ Clear /\ Run("refresh", "read", None)
  /\ UNCHANGED <<store, readable, who, confirmed>>

Select(e) ==
  /\ Free /\ e \in items
  /\ selected' = e /\ versions' = None
  /\ Run("select", IF who = "admin" THEN "history" ELSE "answered", e.id)
  /\ UNCHANGED <<server, who, items, allowed, late, confirmed>>

Read ==
  /\ Free /\ CanReadContent
  /\ who = "admin" => versions # None /\ selected.active <= versions.count
  /\ Run("read", "text", selected.id)
  /\ UNCHANGED <<server, who, items, allowed, selected, versions, late, confirmed>>

ClearedFirst == Clear

\* upload, uploadVersion, update: the entries and the open text are gone before the request.
Mutate(kind, d) ==
  /\ Free /\ who = "admin"
  /\ kind = "upload" \/ (selected # None /\ selected.id = d)
  /\ kind = "upload" => store[d].versions = 0
  /\ Cardinality(unserved) < MaxUnserved
  /\ ClearedFirst /\ Run(kind, "operate", d)
  /\ UNCHANGED <<store, readable, who, confirmed>>

CloseContent ==
  /\ content # None
  /\ content' = None /\ busy' = FALSE /\ call' = NoCall
  /\ unserved' = GivenUp
  /\ UNCHANGED <<store, readable, who, items, allowed, selected, versions, message, late, confirmed>>

\* The session clears its views: it ended, it is checked again, or another call of it failed.
SessionCleared ==
  /\ who # "none" /\ who' \in {who, "none"}
  /\ Clear /\ busy' = FALSE /\ message' = "none" /\ call' = NoCall
  /\ UNCHANGED <<store, readable, confirmed>>

SignedIn ==
  /\ who = "none" /\ who' \in {"admin", "reader"}
  /\ UNCHANGED <<server, shown, busy, message, call, late, confirmed>>

------------------------------------------------------------------------------
\* The steps of a call.  An answer that was there before the call began is dealt with
\* before any answer to this call.

\* The reply to a change, or none: the reading follows either way.
OperationReturns ==
  /\ call.at = "operate" /\ late = NoCall
  /\ \E heard \in BOOLEAN :
       /\ heard => call.request # "sent"
       /\ LET ok == heard /\ call.request = "done" IN
          /\ call' = [call EXCEPT !.at = "read", !.acknowledged = ok, !.error = ~ok, !.request = "none",
                                  !.target = IF call.kind = "upload" /\ ~ok THEN None ELSE @]
          /\ confirmed' = IF ok THEN [confirmed EXCEPT ![call.target] = call.made] ELSE confirmed
       /\ unserved' = GivenUp
  /\ UNCHANGED <<store, readable, who, shown, busy, message, late>>

\* The two lists are asked for together; the versions of the selected one after both.
WithLists(granted, entries) ==
  IF granted = None \/ (entries = None /\ who = "admin")
  THEN [call EXCEPT !.granted = granted, !.entries = entries]
  ELSE LET listed == IF who = "admin" THEN entries ELSE granted
           found == Find(listed, call.target) IN
       [call EXCEPT !.granted = granted, !.entries = listed, !.selection = found,
                    !.at = IF who = "admin" /\ found # None /\ call.history = None THEN "history" ELSE "answered"]

GetAllowed ==
  /\ call.at = "read" /\ call.granted = None /\ late = NoCall
  /\ call' = WithLists(Accessible, call.entries)
  /\ UNCHANGED <<server, who, shown, busy, message, late, confirmed>>

GetEntries ==
  /\ call.at = "read" /\ who = "admin" /\ call.entries = None /\ late = NoCall
  /\ call' = WithLists(call.granted, Administrative)
  /\ UNCHANGED <<server, who, shown, busy, message, late, confirmed>>

\* Mutant: the versions are asked for together with the two lists.
HistoryTurnAnyTime == call.at = "history" \/ (call.at = "read" /\ who = "admin" /\ call.target # None /\ call.history = None)
HistoryTurn == call.at = "history"

GetHistory ==
  /\ HistoryTurn /\ late = NoCall
  /\ call' = [call EXCEPT !.history = [of |-> call.target, count |-> store[call.target].versions],
                          !.at = IF @ = "history" THEN "answered" ELSE @]
  /\ UNCHANGED <<server, who, shown, busy, message, late, confirmed>>

\* The text is served only of the active version of a readable document.
GetText ==
  /\ call.at = "text" /\ late = NoCall
  /\ call.target \in readable /\ store[call.target].active = selected.active
  /\ call' = [call EXCEPT !.at = "answered", !.history = [of |-> call.target, version |-> selected.active]]
  /\ UNCHANGED <<server, who, shown, busy, message, late, confirmed>>

Settled == call' = NoCall /\ busy' = FALSE

\* A read is refused, or not answered in time.
ReadFails ==
  /\ call.at \in {"read", "history", "text"} /\ late = NoCall
  /\ Settled /\ message' = "unconfirmed"
  /\ UNCHANGED <<server, who, shown, late, confirmed>>

\* Mutant: the outcome of the change is not told when the reading succeeded.
MessageOfReading(answer) == "none"
MessageOf(answer) == IF answer.error THEN "unconfirmed" ELSE "none"

Applied(answer) ==
  CASE answer.kind = "select" -> versions' = answer.history /\ UNCHANGED <<items, allowed, selected, content>>
    [] answer.kind = "read" -> content' = answer.history /\ UNCHANGED <<items, allowed, selected, versions>>
    [] OTHER -> /\ items' = answer.entries /\ allowed' = answer.granted
                /\ selected' = answer.selection /\ versions' = answer.history
                /\ UNCHANGED content

Apply ==
  /\ call.at = "answered" /\ late = NoCall /\ Applied(call)
  /\ message' = MessageOf(call) /\ Settled
  /\ UNCHANGED <<server, who, late, confirmed>>

ArrivesLate == UNCHANGED shown

\* The answer of an earlier epoch.
LateArrives ==
  /\ late # NoCall /\ late' = NoCall /\ ArrivesLate
  /\ UNCHANGED <<server, who, busy, message, call, confirmed>>

------------------------------------------------------------------------------
Next ==
  \/ OthersChange \/ ServeChange \/ ServeUnserved
  \/ Refresh \/ Read \/ CloseContent \/ SessionCleared \/ SignedIn
  \/ \E e \in items : Select(e)
  \/ \E kind \in {"upload", "version", "update"}, d \in Docs : Mutate(kind, d)
  \/ OperationReturns \/ GetAllowed \/ GetEntries \/ GetHistory \/ GetText \/ ReadFails \/ Apply
  \/ LateArrives

Spec == Init /\ [][Next]_vars

------------------------------------------------------------------------------
\* What has its type; the view is busy exactly while it has a call.
Entries == [id : Docs, active : 0 .. MaxVersions]
Stored == [versions : 0 .. MaxVersions, active : 0 .. MaxVersions]
Changes == {"upload", "version", "update"}
TypeOK ==
  /\ store \in [Docs -> Stored] /\ confirmed \in [Docs -> Stored] /\ readable \subseteq Docs
  /\ unserved \subseteq [kind : Changes, target : Docs]
  /\ who \in {"admin", "reader", "none"} /\ message \in {"none", "unconfirmed"}
  /\ items \subseteq Entries /\ allowed \subseteq Entries /\ selected \in Entries \union {None}
  /\ versions \in [of : Docs, count : 0 .. MaxVersions] \union {None}
  /\ content \in [of : Docs, version : 1 .. MaxVersions] \union {None}
  /\ busy = (call.kind # "none")
  /\ call.at \in {"none", "operate", "read", "history", "text", "answered"}

(***************************************************************************)
(* What is shown belongs together, whatever answers arrive and whenever    *)
(* the view or the session is cleared: the selected document is one of the *)
(* registry, the versions and the text are its own, the text is that of    *)
(* the version shown as active, no text stays open under a running call,   *)
(* and nothing is shown without a session.                                 *)
(***************************************************************************)
ShownBelongs ==
  /\ who = "none" => items = {} /\ allowed = {} /\ selected = None
  /\ selected # None => selected \in items
  /\ versions # None => selected # None /\ versions.of = selected.id
  /\ content # None => /\ ~busy /\ selected # None
                       /\ content = [of |-> selected.id, version |-> selected.active]

(***************************************************************************)
(* The active version of the selected document is one of the versions      *)
(* listed under it, though the list and the versions are two reads and     *)
(* others publish in between: the versions are read after the list.        *)
(***************************************************************************)
ActiveIsListed ==
  selected # None /\ versions # None => selected.active <= versions.count

(***************************************************************************)
(* A registry shown to an administrator is no older than the last change   *)
(* of each document that was confirmed to this view: the lists are dropped *)
(* before a change is sent and read again after it.                        *)
(***************************************************************************)
ConfirmedIsShown ==
  who = "admin" /\ items # {} =>
    \A d \in Docs : confirmed[d].versions > 0 =>
      \E e \in items : e.id = d /\ e.active >= confirmed[d].active

(***************************************************************************)
(* When a change of this view ends in a registry, the view says that it is *)
(* unconfirmed exactly when no confirmation came: a change that failed     *)
(* never looks like a success because the reading after it succeeded.      *)
(***************************************************************************)
OutcomeIsTold ==
  [][(call.kind \in Changes /\ call'.kind = "none" /\ items' # {})
       => (message' = "none") = call.acknowledged]_vars

\* What the registry of documents never shows otherwise.
RegistryInv == TypeOK /\ ShownBelongs /\ ActiveIsListed /\ ConfirmedIsShown
===============================================================================
