---------------------------- MODULE MCRegistries ----------------------------
(***************************************************************************)
(* The administrator's views in the browser: documents (DocumentRegistry), *)
(* grants and roles (AccessRegistry) and the audit log (AuditLog).  Each   *)
(* has its own state and reads the server for itself, so that the three    *)
(* share a run: each behaviour is about one view.                          *)
(*                                                                         *)
(* Two documents with two versions each, so that a selection can change    *)
(* under a call and a version be published between two reads; one          *)
(* abandoned change; a few revisions of the policy; and eight audit events   *)
(* of two kinds in pages of two, added above, between and below the rows.  *)
(***************************************************************************)
EXTENDS DocumentRegistry, TLC

CONSTANTS Roles, Unknown, MaxRevision, Places, Kinds, KindOf, PageSize

VARIABLES part,
          revision, abandoned, admin, lists, selectedDocumentId, selectedRoleId, grants, members,
          pendingGrant, accessBusy, accessMessage, accessCall, accessLate, lastConfirmed,
          log, reader, rows, nextCursor, pageBusy, pageMessage, filters, pageCall, pageLate, atFirst

access == <<revision, abandoned, admin, lists, selectedDocumentId, selectedRoleId, grants, members,
            pendingGrant, accessBusy, accessMessage, accessCall, accessLate, lastConfirmed>>
audit == <<log, reader, rows, nextCursor, pageBusy, pageMessage, filters, pageCall, pageLate, atFirst>>

Access == INSTANCE AccessRegistry WITH
  unserved <- abandoned, busy <- accessBusy, message <- accessMessage,
  call <- accessCall, late <- accessLate, confirmed <- lastConfirmed

Audit == INSTANCE AuditLog WITH
  admin <- reader, items <- rows, busy <- pageBusy, message <- pageMessage,
  call <- pageCall, late <- pageLate

ASSUME ViewAssumption == Access!AccessAssumption /\ Audit!AuditAssumption

MCInit == part \in {"documents", "access", "audit"} /\ Init /\ Access!Init /\ Audit!Init

DocumentView == part = "documents" /\ Next /\ UNCHANGED <<part, access, audit>>
AccessView == part = "access" /\ Access!Next /\ UNCHANGED <<part, vars, audit>>
AuditView == part = "audit" /\ Audit!Next /\ UNCHANGED <<part, vars, access>>

MCSpec == MCInit /\ [][DocumentView \/ AccessView \/ AuditView]_<<part, vars, access, audit>>

AllPlaces == 1 .. 8
TwoKinds == {"access", "change"}
KindByPlace == [p \in AllPlaces |-> IF p % 3 = 0 THEN "change" ELSE "access"]

(***************************************************************************)
(* Each list of a view belongs to what is selected there.  The lists are   *)
(* separate reads; those that explain others are no older than these, and  *)
(* the registry of documents misses no change confirmed to this view.      *)
(***************************************************************************)
ViewsBelong == RegistryInv /\ Access!AccessInv

(***************************************************************************)
(* The pages of the audit log, read while events are recorded, hold every  *)
(* event of the question once, in order, and none of another question.     *)
(***************************************************************************)
PagesAreWhole == Audit!AuditInv

(***************************************************************************)
(* A change whose call ends in a list is reported as what it was: an       *)
(* unconfirmed one of a document says so though the reading after it       *)
(* succeeded, and one of access that is reported as done was confirmed and *)
(* is in the lists shown with the report.  Of a call that the end of the   *)
(* session or a failed reading cuts short nothing is claimed.              *)
(***************************************************************************)
ChangesAreReported == OutcomeIsTold /\ Access!DoneIsShown

Symmetric == Permutations(Docs)
=============================================================================
