---------------------------- MODULE AccessRegistry ----------------------------
(***************************************************************************)
(* The administration of grants and roles in the browser.  A snapshot is   *)
(* five reads: users, roles and documents together, then the grants of the *)
(* selected document and the members of the selected role.  A change is    *)
(* followed by a snapshot only when it was confirmed; until then the old   *)
(* lists stay.  A list is here the revision of the policy it was read at.  *)
(***************************************************************************)
EXTENDS Naturals

CONSTANTS Docs, Roles, Unknown, \* what can be selected; Unknown comes from a link
          None, MaxRevision     \* bound on the changes committed

AccessAssumption == MaxRevision \in Nat /\ Unknown \notin Docs /\ None \notin Docs /\ None \notin Nat

VARIABLES revision, unserved,   \* the server, and changes given up it has not seen to
          admin,                \* the session is an administrator's
          lists,                \* the oldest of the three lists, None before they are read
          selectedDocumentId, selectedRoleId,
          grants, members,      \* what they are of, and the revision they were read at
          pendingGrant,         \* the document of the grant whose revocation is to be confirmed
          busy, message,
          call, late,           \* as in the registry of documents
          confirmed             \* the revision of the last change confirmed to the view

shown == <<lists, selectedDocumentId, selectedRoleId, grants, members, pendingGrant>>
vars == <<revision, unserved, admin, shown, busy, message, call, late, confirmed>>

Changes == {"revoke", "change"}
NoCall == [kind |-> "none", at |-> "none", doc |-> None, role |-> None, request |-> "none",
           made |-> 0, acknowledged |-> FALSE, lists |-> None, grants |-> None, members |-> None]

Init ==
  /\ revision = 0 /\ unserved = FALSE /\ admin = FALSE
  /\ lists = None /\ selectedDocumentId = None /\ selectedRoleId = None
  /\ grants = None /\ members = None /\ pendingGrant = None
  /\ busy = FALSE /\ message = "none" /\ call = NoCall /\ late = NoCall /\ confirmed = 0

------------------------------------------------------------------------------
\* The server.

Commit == revision < MaxRevision /\ revision' = revision + 1

OthersChange ==
  /\ Commit /\ UNCHANGED <<unserved, admin, shown, busy, message, call, late, confirmed>>

ServeChange ==
  /\ call.request = "sent"
  /\ \/ Commit /\ call' = [call EXCEPT !.request = "done", !.made = revision']
     \/ call' = [call EXCEPT !.request = "refused"] /\ UNCHANGED revision
  /\ UNCHANGED <<unserved, admin, shown, busy, message, late, confirmed>>

ServeUnserved ==
  /\ unserved /\ unserved' = FALSE /\ (Commit \/ UNCHANGED revision)
  /\ UNCHANGED <<admin, shown, busy, message, call, late, confirmed>>

------------------------------------------------------------------------------
\* The view.

GivenUp == unserved' = (unserved \/ call.request = "sent")
Abandon == late' = (IF call.at = "answered" THEN call ELSE late) /\ GivenUp

\* The question about a grant is withdrawn when the selected document changes.
Watched(document) == pendingGrant' = IF document = selectedDocumentId THEN pendingGrant ELSE None

Clear ==
  /\ Abandon
  /\ lists' = None /\ grants' = None /\ members' = None
  /\ selectedDocumentId' = None /\ selectedRoleId' = None /\ Watched(None)

Run(kind, at, document, role) ==
  /\ call' = [NoCall EXCEPT !.kind = kind, !.at = at, !.doc = document, !.role = role,
                            !.request = IF at = "operate" THEN "sent" ELSE "none"]
  /\ busy' = TRUE /\ message' = "none"

Free == admin /\ ~busy

\* The selection is kept across a reload; a link may name a document.
Load(linked) ==
  /\ Free /\ Clear
  /\ Run("load", "lists", IF linked = None THEN selectedDocumentId ELSE linked, selectedRoleId)
  /\ UNCHANGED <<revision, admin, confirmed>>

SelectDocument(d) ==
  /\ Free /\ lists # None
  /\ grants' = None /\ selectedDocumentId' = d /\ Watched(d)
  /\ IF d = None THEN UNCHANGED <<call, busy, message>> ELSE Run("grants", "details", d, None)
  /\ UNCHANGED <<revision, unserved, admin, lists, selectedRoleId, members, late, confirmed>>

SelectRole(r) ==
  /\ Free /\ lists # None
  /\ members' = None /\ selectedRoleId' = r
  /\ IF r = None THEN UNCHANGED <<call, busy, message>> ELSE Run("members", "details", None, r)
  /\ UNCHANGED <<revision, unserved, admin, lists, selectedDocumentId, grants, pendingGrant, late, confirmed>>

AskRevoke ==
  /\ Free /\ grants # None /\ pendingGrant' \in {None, selectedDocumentId}
  /\ UNCHANGED <<revision, unserved, admin, lists, selectedDocumentId, selectedRoleId, grants, members,
                 busy, message, call, late, confirmed>>

\* createGrant, revokeGrant, addMember, removeMember, updateUser, createRole, renameRole.
Mutate(kind) ==
  /\ Free /\ lists # None /\ ~unserved
  /\ kind = "revoke" => pendingGrant # None /\ grants # None
  /\ Run(kind, "operate", selectedDocumentId, selectedRoleId)
  /\ UNCHANGED <<revision, unserved, admin, shown, late, confirmed>>

SessionCleared ==
  /\ admin /\ admin' \in BOOLEAN
  /\ Clear /\ busy' = FALSE /\ message' = "none" /\ call' = NoCall
  /\ UNCHANGED <<revision, confirmed>>

SignedIn ==
  /\ ~admin /\ admin' = TRUE
  /\ UNCHANGED <<revision, unserved, shown, busy, message, call, late, confirmed>>

------------------------------------------------------------------------------
\* The steps of a call; an earlier answer that is already there comes first.

Heard == call.at = "operate" /\ call.request = "done"

OperationConfirmed ==
  /\ Heard /\ late = NoCall
  /\ call' = [call EXCEPT !.at = "lists", !.request = "none", !.acknowledged = (call.request = "done")]
  /\ confirmed' = call.made
  /\ UNCHANGED <<revision, unserved, admin, shown, busy, message, late>>

\* What was asked for, if the registry has it.
Found(document) == IF document \in Docs THEN document ELSE None

GetLists ==
  /\ call.at = "lists" /\ late = NoCall
  /\ LET next == [call EXCEPT !.lists = revision, !.doc = Found(@)] IN
     call' = [next EXCEPT !.at = IF next.doc = None /\ next.role = None THEN "answered" ELSE "details"]
  /\ UNCHANGED <<revision, unserved, admin, shown, busy, message, late, confirmed>>

DetailsTurn == call.at = "details"

\* Grants and members are asked for together.
WithDetails(g, m) ==
  [call EXCEPT !.grants = g, !.members = m,
               !.at = IF call.at = "details" /\ (call.doc = None \/ g # None) /\ (call.role = None \/ m # None)
                      THEN "answered" ELSE @]

GetGrants ==
  /\ DetailsTurn /\ call.doc \in Docs /\ call.grants = None /\ late = NoCall
  /\ call' = WithDetails([of |-> call.doc, at |-> revision], call.members)
  /\ UNCHANGED <<revision, unserved, admin, shown, busy, message, late, confirmed>>

GetMembers ==
  /\ DetailsTurn /\ call.role # None /\ call.members = None /\ late = NoCall
  /\ call' = WithDetails(call.grants, [of |-> call.role, at |-> revision])
  /\ UNCHANGED <<revision, unserved, admin, shown, busy, message, late, confirmed>>

Settled == call' = NoCall /\ busy' = FALSE

\* A change that is refused or not answered, or a read that fails: what is shown stays.
CallFails ==
  /\ call.at \in {"operate", "lists", "details"} /\ late = NoCall
  /\ Settled /\ message' = "unconfirmed" /\ GivenUp
  /\ UNCHANGED <<revision, admin, shown, late, confirmed>>

Applied(answer) ==
  CASE answer.kind = "grants" ->
         grants' = answer.grants /\ UNCHANGED <<lists, selectedDocumentId, selectedRoleId, members, pendingGrant>>
    [] answer.kind = "members" ->
         members' = answer.members /\ UNCHANGED <<lists, selectedDocumentId, selectedRoleId, grants, pendingGrant>>
    [] OTHER ->
         /\ lists' = answer.lists /\ grants' = answer.grants /\ members' = answer.members
         /\ selectedDocumentId' = answer.doc /\ selectedRoleId' = answer.role
         /\ IF answer.kind = "revoke" THEN pendingGrant' = None ELSE Watched(answer.doc)

Apply ==
  /\ call.at = "answered" /\ late = NoCall /\ Applied(call) /\ Settled
  /\ UNCHANGED <<revision, unserved, admin, message, late, confirmed>>

\* The answer of an earlier epoch is dropped.
LateArrives ==
  /\ late # NoCall /\ late' = NoCall
  /\ UNCHANGED <<shown, revision, unserved, admin, busy, message, call, confirmed>>

------------------------------------------------------------------------------
Next ==
  \/ OthersChange \/ ServeChange \/ ServeUnserved
  \/ \E d \in Docs \union {Unknown, None} : Load(d)
  \/ \E d \in Docs \union {None} : SelectDocument(d)
  \/ \E r \in Roles \union {None} : SelectRole(r)
  \/ AskRevoke \/ SessionCleared \/ SignedIn
  \/ \E kind \in Changes : Mutate(kind)
  \/ OperationConfirmed \/ GetLists \/ GetGrants \/ GetMembers \/ CallFails \/ Apply \/ LateArrives

Spec == Init /\ [][Next]_vars

------------------------------------------------------------------------------
\* What has its type; the view is busy exactly while it has a call.
Revisions == 0 .. MaxRevision
TypeOK ==
  /\ revision \in Revisions /\ confirmed \in Revisions /\ unserved \in BOOLEAN /\ admin \in BOOLEAN
  /\ lists \in Revisions \union {None}
  /\ selectedDocumentId \in Docs \union {None} /\ selectedRoleId \in Roles \union {None}
  /\ grants \in [of : Docs, at : Revisions] \union {None}
  /\ members \in [of : Roles, at : Revisions] \union {None}
  /\ pendingGrant \in Docs \union {None} /\ message \in {"none", "unconfirmed"}
  /\ busy = (call.kind # "none")
  /\ call.kind \in Changes \union {"none", "load", "grants", "members"}

(***************************************************************************)
(* What is shown belongs together whatever answers arrive: grants are those*)
(* of the selected document, members those of the selected role, the       *)
(* question about a revocation concerns the document it is shown under,    *)
(* and an account that is no administrator's sees nothing.                 *)
(***************************************************************************)
ShownBelongs ==
  /\ grants # None => grants.of = selectedDocumentId
  /\ members # None => members.of = selectedRoleId
  /\ pendingGrant # None => pendingGrant = selectedDocumentId
  /\ ~admin => lists = None /\ grants = None /\ members = None /\ selectedDocumentId = None

(***************************************************************************)
(* Grants and members are never older than the lists that name their       *)
(* recipients: a grant that is not shown was revoked, and was not merely   *)
(* overlooked by an earlier read.                                          *)
(***************************************************************************)
DetailsAreNewer ==
  /\ grants # None => grants.at >= lists
  /\ members # None => members.at >= lists

(***************************************************************************)
(* A change reported as done is one the server confirmed, and the lists    *)
(* shown with that report were all read after it was made.                 *)
(***************************************************************************)
DoneIsShown ==
  [][(call.kind \in Changes /\ call'.kind = "none" /\ message' = "none" /\ lists' # None)
       => call.acknowledged /\ lists' >= confirmed]_vars

\* What the administration of access never shows otherwise.
AccessInv == TypeOK /\ ShownBelongs /\ DetailsAreNewer
===============================================================================
