--------------------------- MODULE AccessPolicy ----------------------------
(***************************************************************************)
(* Who may read what: users, sessions, roles, grants, documents and their  *)
(* versions, under administrators and indexing jobs.                       *)
(*                                                                         *)
(* Every change runs in PolicyUnitOfWork.mutation, which holds the policy  *)
(* row exclusively, and is one action.  A request that changes nothing     *)
(* (the same flags, a membership that is there already) or is refused      *)
(* leaves only the session's last_seen_at and is not shown.  Indexing and  *)
(* registration are a shared transaction, a long computation without any   *)
(* lock, and a mutation; everything else may happen in between.            *)
(*                                                                         *)
(* Titles, labels, passwords, file contents and grant identifiers are      *)
(* abstracted; a version is one artifact of store_version, fresh by its    *)
(* identifier, whose chunks and vectors are complete when it is "ready".   *)
(***************************************************************************)
EXTENDS Naturals

CONSTANTS
    Users, Roles,
    Documents,
    Versions,       \* identifiers of document versions
    Sessions,       \* identifiers of sessions
    Jobs,           \* requests that register or index a document
    None,
    MaxRevision     \* bound on the changes, for model checking

ASSUME AccessAssumption ==
    /\ Users \cap Roles = {}
    /\ None \notin Users \cup Roles \cup Documents \cup Versions \cup Sessions
    /\ MaxRevision \in Nat

VARIABLES
    revision,       \* policy_state.revision
    audit,          \* the events record_change wrote with that revision
    users,          \* accounts
    enabled,        \* accounts with is_active
    admins,         \* accounts with is_admin
    roles,          \* roles created
    members,        \* user_roles
    grants,         \* document_grants
    published,      \* documents with is_active
    current,        \* documents.active_version_id, None before registration
    version,        \* document_versions
    session,        \* sessions
    job             \* local state of each indexing request

identities == <<users, enabled, admins, session>>
access == <<roles, members, grants>>
registry == <<published, current, version>>
vars == <<revision, audit, users, enabled, admins, roles, members, grants,
          published, current, version, session, job>>

Subjects == Users \cup Roles

\* AuditRecord, with the identifiers that the events of record_change name.
Events == [event: {"user_changed", "session_revoked", "role_changed",
                   "membership_added", "membership_removed",
                   "grant_added", "grant_removed", "document_changed"},
           actor: Users \cup {None}, user: Users \cup {None},
           role: Roles \cup {None}, document: Documents \cup {None}]
Event(event, actor, u, r, d) ==
    [event |-> event, actor |-> actor, user |-> u, role |-> r, document |-> d]

\* `base' is history: the version that was active when the job began.
Artifacts == [document: Documents, status: {"ready", "failed"}, base: Versions \cup {None}]
NoVersion == [document |-> None, status |-> "absent", base |-> None]

SessionRows == [user: Users, state: {"open", "revoked", "expired"}]
NoSession == [user |-> None, state |-> "absent"]

IdleJob == [stage |-> "idle", session |-> None, document |-> None,
            expected |-> None, vectors |-> FALSE]
BusyJobs == [stage: {"preparing", "prepared"}, session: Sessions,
             document: Documents \cup {None}, expected: Versions \cup {None},
             vectors: BOOLEAN]

\* The first administrator comes from the command line.
Init ==
    \E root \in Users :
        /\ revision = 1
        /\ audit = {Event("user_changed", None, root, None, None)}
        /\ users = {root}
        /\ enabled = {root}
        /\ admins = {root}
        /\ roles = {}
        /\ members = {}
        /\ grants = {}
        /\ published = {}
        /\ current = [d \in Documents |-> None]
        /\ version = [v \in Versions |-> NoVersion]
        /\ session = [s \in Sessions |-> NoSession]
        /\ job = [j \in Jobs |-> IdleJob]

----------------------------------------------------------------------------
(* What a user may read.                                                   *)

\* readable_document's grants: to the user, or to a role of the user.
Granted(u, d) ==
    \/ <<d, u>> \in grants
    \/ \E r \in Roles : <<u, r>> \in members /\ <<d, r>> \in grants

\* readable_document: published, with a complete active version, and granted.
CanRead(u, d) ==
    /\ d \in published
    /\ current[d] # None
    /\ version[current[d]].status = "ready"
    /\ Granted(u, d)

Readable(u) == {v \in Versions : \E d \in Documents : current[d] = v /\ CanRead(u, d)}

OpenSessions(u) == {s \in Sessions : session[s] = [user |-> u, state |-> "open"]}

\* The policy as the requests of one user see it.
Source(u) == INSTANCE PolicySource WITH
    Refs <- Versions,
    readable <- Readable(u),
    enabled <- u \in enabled,
    live <- OpenSessions(u)

----------------------------------------------------------------------------
(* The gate and the revision of a mutation.                                *)

\* _gate: the session is current and its user is active in this transaction.
Gate(s) == session[s].state = "open" /\ session[s].user \in enabled
Administrator(s) == Gate(s) /\ session[s].user \in admins

\* record_change: one new revision, audited with the identifiers it concerns.
Record(event) ==
    /\ revision < MaxRevision
    /\ revision' = revision + 1
    /\ audit' = {event}

By(s, event, u, r, d) == Event(event, session[s].user, u, r, d)

----------------------------------------------------------------------------
(* Accounts and sessions.                                                  *)

\* The operator's create-user command; no session is involved.
CreateUser(u, admin) ==
    /\ u \notin users
    /\ users' = users \cup {u}
    /\ enabled' = enabled \cup {u}
    /\ admins' = IF admin THEN admins \cup {u} ELSE admins
    /\ Record(Event("user_changed", None, u, None, None))
    /\ UNCHANGED <<session, access, registry, job>>

\* An administrator may demote or disable anyone, himself and the last one
\* included; sessions are kept.
UpdateUser(s, u, active, admin) ==
    /\ Administrator(s)
    /\ u \in users
    /\ <<active, admin>> # <<u \in enabled, u \in admins>>
    /\ enabled' = IF active THEN enabled \cup {u} ELSE enabled \ {u}
    /\ admins' = IF admin THEN admins \cup {u} ELSE admins \ {u}
    /\ Record(By(s, "user_changed", u, None, None))
    /\ UNCHANGED <<users, session, access, registry, job>>

Login(s, u) ==
    /\ session[s] = NoSession
    /\ u \in enabled
    /\ session' = [session EXCEPT ![s] = [user |-> u, state |-> "open"]]
    /\ UNCHANGED <<revision, audit, users, enabled, admins, access, registry, job>>

Expire(s) ==
    /\ session[s].state = "open"
    /\ session' = [session EXCEPT ![s].state = "expired"]
    /\ UNCHANGED <<revision, audit, users, enabled, admins, access, registry, job>>

RevokeBy(s, target) ==
    /\ session' = [session EXCEPT ![target].state = "revoked"]
    /\ Record(By(s, "session_revoked", session[target].user, None, None))
    /\ UNCHANGED <<users, enabled, admins, access, registry, job>>

Logout(s) == Gate(s) /\ RevokeBy(s, s)

\* An expired session can still be revoked, and counts as a change.
RevokeSession(s, target) ==
    /\ Administrator(s)
    /\ session[target].state \in {"open", "expired"}
    /\ RevokeBy(s, target)

----------------------------------------------------------------------------
(* Roles and grants.                                                       *)

CreateRole(s, r) ==
    /\ Administrator(s)
    /\ r \notin roles
    /\ roles' = roles \cup {r}
    /\ Record(By(s, "role_changed", None, r, None))
    /\ UNCHANGED <<members, grants, identities, registry, job>>

RenameRole(s, r) ==
    /\ Administrator(s)
    /\ r \in roles
    /\ Record(By(s, "role_changed", None, r, None))
    /\ UNCHANGED <<identities, access, registry, job>>

SetMembership(s, r, u, present) ==
    /\ Administrator(s)
    /\ r \in roles /\ u \in users
    /\ (<<u, r>> \in members) # present
    /\ members' = IF present THEN members \cup {<<u, r>>} ELSE members \ {<<u, r>>}
    /\ Record(By(s, IF present THEN "membership_added" ELSE "membership_removed", u, r, None))
    /\ UNCHANGED <<roles, grants, identities, registry, job>>

\* The audit names the subject of a grant as a user or as a role.
GrantEvent(s, event, d, x) ==
    By(s, event, IF x \in Users THEN x ELSE None, IF x \in Roles THEN x ELSE None, d)

\* grant_user and grant_role; a second grant to the same subject conflicts.
Grant(s, d, x) ==
    /\ Administrator(s)
    /\ current[d] # None
    /\ x \in users \cup roles
    /\ <<d, x>> \notin grants
    /\ grants' = grants \cup {<<d, x>>}
    /\ Record(GrantEvent(s, "grant_added", d, x))
    /\ UNCHANGED <<roles, members, identities, registry, job>>

\* Mutant of Without: the grants of the subject on every document go.
WithoutSubject(d, x) == {g \in grants : g[2] # x}
Without(d, x) == grants \ {<<d, x>>}

\* revoke_grant removes one grant of that document and keeps other paths.
RevokeGrant(s, d, x) ==
    /\ Administrator(s)
    /\ <<d, x>> \in grants
    /\ grants' = Without(d, x)
    /\ Record(GrantEvent(s, "grant_removed", d, x))
    /\ UNCHANGED <<roles, members, identities, registry, job>>

----------------------------------------------------------------------------
(* Documents.                                                              *)

DocumentEvent(s, d) == By(s, "document_changed", None, None, d)

\* update_document: a new title, or a change of is_active, or both.
UpdateDocument(s, d, active) ==
    /\ Administrator(s)
    /\ current[d] # None
    /\ published' = IF active THEN published \cup {d} ELSE published \ {d}
    /\ Record(DocumentEvent(s, d))
    /\ UNCHANGED <<current, version, identities, access, job>>

\* The first transaction of a job checks the authority and, unless it
\* registers a new document, notes which version is active.
Begin(j, s, d, expected) ==
    /\ job[j] = IdleJob
    /\ Administrator(s)
    /\ job' = [job EXCEPT ![j] = [IdleJob EXCEPT !.stage = "preparing", !.session = s,
                                                 !.document = d, !.expected = expected]]
    /\ UNCHANGED <<revision, audit, identities, access, registry>>

Register(j, s) == Begin(j, s, None, None)

IngestVersion(j, s, d) ==
    /\ current[d] # None
    /\ d \in published
    /\ Begin(j, s, d, current[d])

\* index_document_version and rechunk_version: the bytes of any stored
\* version of the document are processed again, superseded ones included.
Reindex(j, s, d, v) ==
    /\ version[v].document = d
    /\ IngestVersion(j, s, d)

\* prepare_index: parse, chunk and embed, without a transaction.  An embedder
\* that fails or returns a bad batch yields no vectors.
PrepareIndex(j) ==
    /\ job[j].stage = "preparing"
    /\ \E vectors \in BOOLEAN :
          job' = [job EXCEPT ![j].stage = "prepared", ![j].vectors = vectors]
    /\ UNCHANGED <<revision, audit, identities, access, registry>>

\* The request fails: a parse error, lost authority, a document taken down, a
\* rolled-back transaction, the end of the process.
Raise(j) ==
    /\ job[j] # IdleJob
    /\ job' = [job EXCEPT ![j] = IdleJob]
    /\ UNCHANGED <<revision, audit, identities, access, registry>>

\* Mutant of StoredStatus: the last status update of store_version is lost.
StatusIndexing(j) == IF job[j].vectors THEN "indexing" ELSE "failed"
StoredStatus(j) == IF job[j].vectors THEN "ready" ELSE "failed"

\* store_version in the transaction of its caller.
Store(j, v, d) ==
    /\ version[v] = NoVersion
    /\ version' = [version EXCEPT ![v] = [document |-> d, status |-> StoredStatus(j),
                                          base |-> job[j].expected]]
    /\ job' = [job EXCEPT ![j] = IdleJob]

\* Mutant of Activate: a new content of the same document is no new policy.
ActivateQuietly(j, v, d) ==
    /\ current' = [current EXCEPT ![d] = v]
    /\ UNCHANGED <<revision, audit>>

\* activate_version: the pointer, the revision and the audit move together.
Activate(j, v, d) ==
    /\ current' = [current EXCEPT ![d] = v]
    /\ Record(DocumentEvent(job[j].session, d))

\* Mutant of StillAuthorized: the first check of the job is relied upon.
AuthorizedOnce(j) == TRUE
StillAuthorized(j) == Administrator(job[j].session)

Prepared(j) == job[j].stage = "prepared" /\ StillAuthorized(j)

\* A registration without vectors rolls back: Raise.
CommitRegistration(j, d, v) ==
    /\ Prepared(j)
    /\ job[j].document = None
    /\ job[j].vectors
    /\ current[d] = None
    /\ Store(j, v, d)
    /\ Activate(j, v, d)
    /\ published' = published \cup {d}
    /\ UNCHANGED <<identities, access>>

\* Mutants of Activates: a late job overwrites a newer activation; a failed
\* artifact is activated.
ActivatesLate(j) == job[j].vectors
ActivatesIncomplete(j) == current[job[j].document] = job[j].expected
\* _publish_index: complete, and nothing was activated since the job began.
Activates(j) == job[j].vectors /\ current[job[j].document] = job[j].expected

Publish(j, v) ==
    /\ Prepared(j)
    /\ job[j].document \in published
    /\ Activates(j)
    /\ Store(j, v, job[j].document)
    /\ Activate(j, v, job[j].document)
    /\ UNCHANGED <<published, identities, access>>

\* A failed or conflicting artifact is kept, and the request answers an error.
Shelve(j, v) ==
    /\ Prepared(j)
    /\ job[j].document \in published
    /\ ~Activates(j)
    /\ Store(j, v, job[j].document)
    /\ UNCHANGED <<revision, audit, published, current, identities, access>>

----------------------------------------------------------------------------

Account(s) ==
    \/ \E u \in Users : Login(s, u)
    \/ \E u \in Users, active, admin \in BOOLEAN : UpdateUser(s, u, active, admin)
    \/ \E target \in Sessions : RevokeSession(s, target)
    \/ Logout(s) \/ Expire(s)

Administer(s) ==
    \/ \E r \in Roles : CreateRole(s, r) \/ RenameRole(s, r)
    \/ \E r \in Roles, u \in Users, present \in BOOLEAN : SetMembership(s, r, u, present)
    \/ \E d \in Documents, x \in Subjects : Grant(s, d, x) \/ RevokeGrant(s, d, x)
    \/ \E d \in Documents, active \in BOOLEAN : UpdateDocument(s, d, active)

Index(j) ==
    \/ \E s \in Sessions : Register(j, s)
    \/ \E s \in Sessions, d \in Documents : IngestVersion(j, s, d)
    \/ \E s \in Sessions, d \in Documents, v \in Versions : Reindex(j, s, d, v)
    \/ PrepareIndex(j)
    \/ Raise(j)
    \/ \E d \in Documents, v \in Versions : CommitRegistration(j, d, v)
    \/ \E v \in Versions : Publish(j, v) \/ Shelve(j, v)

Next ==
    \/ \E u \in Users, admin \in BOOLEAN : CreateUser(u, admin)
    \/ \E s \in Sessions : Account(s) \/ Administer(s)
    \/ \E j \in Jobs : Index(j)

Spec == Init /\ [][Next]_vars

----------------------------------------------------------------------------
(* Properties.                                                             *)

TypeOK ==
    /\ revision \in Nat
    /\ audit \in SUBSET Events
    /\ users \in SUBSET Users
    /\ enabled \in SUBSET users
    /\ admins \in SUBSET users
    /\ roles \in SUBSET Roles
    /\ members \in SUBSET (users \X roles)
    /\ grants \in SUBSET (Documents \X (users \cup roles))
    /\ published \in SUBSET Documents
    /\ current \in [Documents -> Versions \cup {None}]
    /\ version \in [Versions -> Artifacts \cup {NoVersion}]
    /\ session \in [Sessions -> SessionRows \cup {NoSession}]
    /\ job \in [Jobs -> BusyJobs \cup {IdleJob}]

\* For every user, administration and indexing are a source of policy as the
\* chat protocol assumes: whatever changes what the user may read, or disables
\* him, is a new revision, and nothing else touches his sessions.
ImplementsSource ==
    /\ \A u \in Users : Source(u)!Init
    /\ [][\A u \in Users : [Source(u)!Next]_(Source(u)!source)]_vars

\* fk_documents_active_version and more: what a document shows is a complete
\* version of that very document, whatever failed or was overtaken on the way.
ActiveVersionComplete ==
    \A d \in Documents : current[d] # None =>
        version[current[d]].document = d /\ version[current[d]].status = "ready"

\* A newer activation wins even if an older inference finishes afterward: a
\* version becomes active only over the version its job began from, and none
\* becomes active twice.
NewerActivationWins ==
    [][\A d \in Documents : current'[d] # current[d] =>
          /\ version[current'[d]] = NoVersion
          /\ version'[current'[d]].base = current[d]]_vars

\* Nothing is granted, published or stored unless an administrator is signed
\* in at that very moment, and what a job stores or publishes, however long
\* ago it began, only while the session that began it is still that of an
\* administrator.
AuthorityAtCommit ==
    [][/\ UNCHANGED <<access, registry>> \/ \E s \in Sessions : Administrator(s)
       /\ \A j \in Jobs :
             job'[j] # job[j] => UNCHANGED registry \/ Administrator(job[j].session)]_vars

\* What the audit gives as the reason for a change of u's access to d, when
\* grants and memberships are reported as `change', added or removed.
Explains(event, change, u, d) ==
    \/ event.event = "document_changed" /\ event.document = d
    \/ /\ event.event = (IF change = "added" THEN "grant_added" ELSE "grant_removed")
       /\ event.document = d
       /\ event.user = u \/ <<u, event.role>> \in members
    \/ /\ event.event = (IF change = "added" THEN "membership_added" ELSE "membership_removed")
       /\ event.user = u
       /\ <<d, event.role>> \in grants

\* Whenever anybody gains or loses access to a document, the audit of that
\* revision names the document, a grant on it or a membership as the reason,
\* although one grant to a role reaches many users.
AccessChangesExplained ==
    [][\A u \in Users, d \in Documents : CanRead(u, d)' # CanRead(u, d) =>
          \E event \in audit' :
              Explains(event, IF CanRead(u, d) THEN "removed" ELSE "added", u, d)]_vars
============================================================================
