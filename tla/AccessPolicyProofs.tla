------------------------ MODULE AccessPolicyProofs -------------------------
(***************************************************************************)
(* Proofs about AccessPolicy for any users, documents, sessions and jobs.  *)
(***************************************************************************)
EXTENDS AccessPolicy, TLAPS

\* A job that registers a document began from no version.
Registrations ==
    \A j \in Jobs : job[j].document = None => job[j].expected = None

\* The inductive invariant.
AccessInv == TypeOK /\ ActiveVersionComplete /\ Registrations

----------------------------------------------------------------------------
(* Types.                                                                  *)

LEMMA Initially == Init => AccessInv
BY AccessAssumption DEF Init, AccessInv, TypeOK, ActiveVersionComplete, Registrations,
                        Event, Events, NoVersion, NoSession, IdleJob

LEMMA AccountTyped ==
    ASSUME AccessInv, NEW s \in Sessions, Account(s)
    PROVE  TypeOK'
<1> USE AccessAssumption DEF AccessInv, TypeOK, access, registry, Record
<1>1. ASSUME NEW u \in Users, Login(s, u)
      PROVE  TypeOK'
  BY <1>1 DEF Login, SessionRows, NoSession
<1>2. ASSUME NEW u \in Users, NEW active \in BOOLEAN, NEW admin \in BOOLEAN,
             UpdateUser(s, u, active, admin)
      PROVE  TypeOK'
  BY <1>2 DEF UpdateUser, By, Event, Events, Administrator, Gate, SessionRows, NoSession
<1>3. ASSUME NEW target \in Sessions, session[target].state \in {"open", "expired"}, Gate(s),
             RevokeBy(s, target)
      PROVE  TypeOK'
  <2>1. session[target] \in SessionRows /\ session[s] \in SessionRows
    BY <1>3 DEF Gate, NoSession
  <2>2. QED
    BY <1>3, <2>1 DEF RevokeBy, By, Event, Events, SessionRows
<1>4. CASE \E target \in Sessions : RevokeSession(s, target)
  BY <1>3, <1>4 DEF RevokeSession, Administrator
<1>5. CASE Logout(s)
  BY <1>3, <1>5 DEF Logout, Gate
<1>6. CASE Expire(s)
  BY <1>6 DEF Expire, SessionRows, NoSession
<1>7. QED
  BY <1>1, <1>2, <1>4, <1>5, <1>6 DEF Account

LEMMA AdministerTyped ==
    ASSUME AccessInv, NEW s \in Sessions, Administer(s)
    PROVE  TypeOK'
<1> USE AccessAssumption
    DEF AccessInv, TypeOK, identities, access, registry, Record, By, Event, Events
<1>1. ASSUME Administrator(s)
      PROVE  session[s].user \in Users
  BY <1>1 DEF Administrator, Gate, SessionRows, NoSession
<1>2. ASSUME NEW r \in Roles, CreateRole(s, r) \/ RenameRole(s, r)
      PROVE  TypeOK'
  BY <1>1, <1>2 DEF CreateRole, RenameRole
<1>3. ASSUME NEW r \in Roles, NEW u \in Users, NEW present \in BOOLEAN,
             SetMembership(s, r, u, present)
      PROVE  TypeOK'
  BY <1>1, <1>3 DEF SetMembership
<1>4. ASSUME NEW d \in Documents, NEW x \in Subjects, Grant(s, d, x) \/ RevokeGrant(s, d, x)
      PROVE  TypeOK'
  BY <1>1, <1>4 DEF Grant, RevokeGrant, GrantEvent, Without, Subjects
<1>5. ASSUME NEW d \in Documents, NEW active \in BOOLEAN, UpdateDocument(s, d, active)
      PROVE  TypeOK'
  BY <1>1, <1>5 DEF UpdateDocument, DocumentEvent
<1>6. QED
  BY <1>2, <1>3, <1>4, <1>5 DEF Administer

\* What a job brings to its second transaction.
LEMMA JobTyped ==
    ASSUME TypeOK, NEW j \in Jobs, Prepared(j)
    PROVE  /\ job[j] \in BusyJobs
           /\ session[job[j].session].user \in Users
           /\ StoredStatus(j) \in {"ready", "failed"}
<1>1. job[j] \in BusyJobs
  BY DEF Prepared, TypeOK, IdleJob
<1>2. QED
  BY <1>1 DEF Prepared, StillAuthorized, Administrator, Gate, TypeOK, BusyJobs, SessionRows,
              NoSession, StoredStatus

LEMMA IndexTyped ==
    ASSUME AccessInv, NEW j \in Jobs, Index(j)
    PROVE  TypeOK'
<1> USE AccessAssumption DEF AccessInv, TypeOK, identities, access, registry
<1>1. ASSUME NEW s \in Sessions, NEW d \in Documents \cup {None},
             NEW v \in Versions \cup {None}, Begin(j, s, d, v)
      PROVE  TypeOK'
  BY <1>1 DEF Begin, IdleJob, BusyJobs
<1>2. CASE \/ \E s \in Sessions : Register(j, s)
           \/ \E s \in Sessions, d \in Documents : IngestVersion(j, s, d)
           \/ \E s \in Sessions, d \in Documents, v \in Versions : Reindex(j, s, d, v)
  BY <1>1, <1>2 DEF Register, IngestVersion, Reindex
<1>3. CASE PrepareIndex(j)
  <2>1. PICK vectors \in BOOLEAN :
           job' = [job EXCEPT ![j].stage = "prepared", ![j].vectors = vectors]
    BY <1>3 DEF PrepareIndex
  <2>2. job[j] \in BusyJobs
    BY <1>3 DEF PrepareIndex, IdleJob
  <2>3. [job[j] EXCEPT !.stage = "prepared", !.vectors = vectors] \in BusyJobs
    BY <2>2 DEF BusyJobs
  <2>4. job' \in [Jobs -> BusyJobs \cup {IdleJob}]
    BY <2>1, <2>3
  <2>5. QED
    BY <1>3, <2>4 DEF PrepareIndex
<1>4. CASE Raise(j)
  BY <1>4 DEF Raise
<1>5. ASSUME NEW v \in Versions, NEW d \in Documents, Prepared(j), Store(j, v, d)
      PROVE  /\ version' \in [Versions -> Artifacts \cup {NoVersion}]
             /\ job' \in [Jobs -> BusyJobs \cup {IdleJob}]
  BY <1>5, JobTyped DEF Store, Artifacts, BusyJobs
<1>6. ASSUME NEW v \in Versions, NEW d \in Documents, Prepared(j), Activate(j, v, d)
      PROVE  /\ current' \in [Documents -> Versions \cup {None}]
             /\ revision' \in Nat
             /\ audit' \in SUBSET Events
  BY <1>6, JobTyped DEF Activate, Record, DocumentEvent, By, Event, Events
<1>7. ASSUME NEW d \in Documents, NEW v \in Versions, CommitRegistration(j, d, v)
      PROVE  TypeOK'
  BY <1>5, <1>6, <1>7 DEF CommitRegistration
<1>8. ASSUME NEW v \in Versions, Publish(j, v)
      PROVE  TypeOK'
  BY <1>5, <1>6, <1>8 DEF Publish
<1>9. ASSUME NEW v \in Versions, Shelve(j, v)
      PROVE  TypeOK'
  BY <1>5, <1>9 DEF Shelve
<1>10. QED
  BY <1>2, <1>3, <1>4, <1>7, <1>8, <1>9 DEF Index

LEMMA Typed == AccessInv /\ [Next]_vars => TypeOK'
<1> SUFFICES ASSUME AccessInv, [Next]_vars
             PROVE  TypeOK'
  OBVIOUS
<1>1. ASSUME NEW u \in Users, NEW admin \in BOOLEAN, CreateUser(u, admin)
      PROVE  TypeOK'
  BY <1>1, AccessAssumption
  DEF AccessInv, TypeOK, CreateUser, Record, Event, Events, access, registry
<1>2. CASE UNCHANGED vars
  BY <1>2 DEF vars, AccessInv, TypeOK
<1>3. QED
  BY <1>1, <1>2, AccountTyped, AdministerTyped, IndexTyped DEF Next

----------------------------------------------------------------------------
(* Versions.                                                               *)

\* Only the second transaction of a job touches documents' versions.
LEMMA RegistryMoves ==
    ASSUME [Next]_vars, ~UNCHANGED <<current, version>>
    PROVE  \E j \in Jobs, v \in Versions :
              \/ Publish(j, v) \/ Shelve(j, v)
              \/ \E d \in Documents : CommitRegistration(j, d, v)
<1> USE DEF registry, access, identities
<1>1. ~UNCHANGED vars
  BY DEF vars
<1>2. ASSUME NEW s \in Sessions, Account(s)
      PROVE  FALSE
  BY <1>2 DEF Account, Login, UpdateUser, RevokeSession, Logout, RevokeBy, Expire
<1>3. ASSUME NEW s \in Sessions, Administer(s)
      PROVE  FALSE
  BY <1>3 DEF Administer, CreateRole, RenameRole, SetMembership, Grant, RevokeGrant, UpdateDocument
<1>4. ASSUME NEW u \in Users, NEW admin \in BOOLEAN, CreateUser(u, admin)
      PROVE  FALSE
  BY <1>4 DEF CreateUser
<1>5. PICK j \in Jobs : Index(j)
  BY <1>1, <1>2, <1>3, <1>4 DEF Next
<1>6. QED
  BY <1>5 DEF Index, Register, IngestVersion, Reindex, Begin, PrepareIndex, Raise

\* A version just stored was no document's active version.
LEMMA StoredIsFresh ==
    ASSUME AccessInv, NEW j \in Jobs, NEW v \in Versions, NEW d \in Documents,
           Prepared(j), Store(j, v, d)
    PROVE  /\ \A x \in Documents : current[x] # None =>
                 current[x] # v /\ version'[current[x]] = version[current[x]]
           /\ version'[v] = [document |-> d, status |-> StoredStatus(j), base |-> job[j].expected]
<1> USE AccessAssumption DEF AccessInv, TypeOK, ActiveVersionComplete, Store, NoVersion
<1>1. version[v].status = "absent"
  OBVIOUS
<1>2. ASSUME NEW x \in Documents, current[x] # None
      PROVE  current[x] # v /\ version'[current[x]] = version[current[x]]
  BY <1>1, <1>2
<1>3. QED
  BY <1>2

LEMMA CompleteStep == AccessInv /\ [Next]_vars => ActiveVersionComplete'
<1> SUFFICES ASSUME AccessInv, [Next]_vars, NEW x \in Documents, current'[x] # None
             PROVE  version'[current'[x]].document = x /\ version'[current'[x]].status = "ready"
  BY DEF ActiveVersionComplete
<1> USE AccessAssumption DEF AccessInv, TypeOK, ActiveVersionComplete
<1>1. CASE UNCHANGED <<current, version>>
  BY <1>1
<1>2. ASSUME NEW j \in Jobs, NEW v \in Versions, NEW d \in Documents,
             Prepared(j), Store(j, v, d), job[j].vectors, current' = [current EXCEPT ![d] = v]
      PROVE  version'[current'[x]].document = x /\ version'[current'[x]].status = "ready"
  <2>1. version'[v] = [document |-> d, status |-> StoredStatus(j), base |-> job[j].expected]
    BY <1>2, StoredIsFresh
  <2>2. \A y \in Documents : current[y] # None => version'[current[y]] = version[current[y]]
    BY <1>2, StoredIsFresh
  <2>3. CASE x = d
    BY <1>2, <2>1, <2>3 DEF StoredStatus
  <2>4. CASE x # d
    BY <1>2, <2>2, <2>4
  <2>5. QED
    BY <2>3, <2>4
<1>3. ASSUME NEW j \in Jobs, NEW v \in Versions, Shelve(j, v), job[j].document \in Documents
      PROVE  version'[current'[x]].document = x /\ version'[current'[x]].status = "ready"
  BY <1>3, StoredIsFresh DEF Shelve
<1>4. ASSUME NEW j \in Jobs, Prepared(j), job[j].document \in published
      PROVE  job[j].document \in Documents
  BY <1>4
<1>5. QED
  BY <1>1, <1>2, <1>3, <1>4, RegistryMoves
     DEF Publish, Shelve, CommitRegistration, Activate, Activates

LEMMA RegistrationsStep == AccessInv /\ [Next]_vars => Registrations'
<1> SUFFICES ASSUME AccessInv, [Next]_vars, NEW i \in Jobs, job'[i].document = None
             PROVE  job'[i].expected = None
  BY DEF Registrations
<1> USE AccessAssumption DEF AccessInv, TypeOK, Registrations, registry, access, identities
<1>1. CASE UNCHANGED job
  BY <1>1
<1>2. ASSUME NEW j \in Jobs, job' = [job EXCEPT ![j] = IdleJob]
      PROVE  job'[i].expected = None
  BY <1>2 DEF IdleJob
<1>3. ASSUME NEW j \in Jobs, NEW s \in Sessions, NEW d \in Documents \cup {None},
             NEW v \in Versions \cup {None}, Begin(j, s, d, v), d = None => v = None
      PROVE  job'[i].expected = None
  BY <1>3 DEF Begin, IdleJob
<1>4. ASSUME NEW j \in Jobs, PrepareIndex(j)
      PROVE  job'[i].expected = None
  BY <1>4 DEF PrepareIndex, IdleJob, BusyJobs
<1>5. ASSUME NEW j \in Jobs, Index(j)
      PROVE  job'[i].expected = None
  BY <1>2, <1>3, <1>4, <1>5
     DEF Index, Register, IngestVersion, Reindex, Raise, CommitRegistration, Publish, Shelve, Store
<1>6. ASSUME NEW s \in Sessions, Account(s)
      PROVE  UNCHANGED job
  BY <1>6 DEF Account, Login, UpdateUser, RevokeSession, Logout, RevokeBy, Expire
<1>7. ASSUME NEW s \in Sessions, Administer(s)
      PROVE  UNCHANGED job
  BY <1>7 DEF Administer, CreateRole, RenameRole, SetMembership, Grant, RevokeGrant, UpdateDocument
<1>8. QED
  BY <1>1, <1>5, <1>6, <1>7 DEF Next, vars, CreateUser

THEOREM Invariance == Spec => []AccessInv
<1>1. AccessInv /\ [Next]_vars => AccessInv'
  BY Typed, CompleteStep, RegistrationsStep DEF AccessInv
<1>2. QED
  BY <1>1, Initially, PTL DEF Spec

\* Every reachable state is well typed.
THEOREM TypeCorrect == Spec => []TypeOK
BY Invariance, PTL DEF AccessInv

\* Only complete versions of its own are ever a document's active version.
THEOREM CompleteVersions == Spec => []ActiveVersionComplete
BY Invariance, PTL DEF AccessInv

LEMMA NewerStep ==
    ASSUME AccessInv, [Next]_vars, NEW x \in Documents, current'[x] # current[x]
    PROVE  version[current'[x]] = NoVersion /\ version'[current'[x]].base = current[x]
<1> USE AccessAssumption DEF AccessInv, TypeOK
<1>1. ASSUME NEW j \in Jobs, NEW v \in Versions, NEW d \in Documents, Prepared(j), Store(j, v, d),
             Activate(j, v, d), job[j].expected = current[d]
      PROVE  version[current'[x]] = NoVersion /\ version'[current'[x]].base = current[x]
  <2>1. x = d /\ current'[x] = v
    BY <1>1 DEF Activate
  <2>2. QED
    BY <1>1, <2>1, StoredIsFresh DEF Store
<1>2. PICK j \in Jobs, v \in Versions :
         Publish(j, v) \/ \E d \in Documents : CommitRegistration(j, d, v)
  BY RegistryMoves DEF Shelve
<1>3. QED
  BY <1>1, <1>2 DEF Publish, CommitRegistration, Activates, Registrations

\* Whatever order jobs finish in, a version replaces the one its job saw.
THEOREM NewerWins == Spec => NewerActivationWins
<1>1. AccessInv /\ [Next]_vars =>
        [\A d \in Documents : current'[d] # current[d] =>
            /\ version[current'[d]] = NoVersion
            /\ version'[current'[d]].base = current[d]]_vars
  BY NewerStep
<1>2. QED
  BY <1>1, Invariance, PTL DEF Spec, NewerActivationWins

----------------------------------------------------------------------------
(* What one user's requests see.                                           *)

\* A step that leaves the grants, the documents shown and their active
\* versions alone changes nobody's access.
LEMMA SameReadable ==
    ASSUME NEW u \in Users, UNCHANGED <<members, grants, published, current>>,
           \A d \in Documents : current[d] # None => version'[current[d]] = version[current[d]]
    PROVE  UNCHANGED Readable(u)
BY DEF Readable, CanRead, Granted

\* Any new revision that keeps the sessions is a mutation to every user.
LEMMA RevisionIsMutation ==
    ASSUME NEW u \in Users, NEW event, Record(event), UNCHANGED session
    PROVE  Source(u)!Mutate
BY DEF Source!Mutate, Record, OpenSessions, Readable

LEMMA AccountIsSource ==
    ASSUME AccessInv, NEW u \in Users, NEW s \in Sessions, Account(s)
    PROVE  Source(u)!Next \/ UNCHANGED Source(u)!source
<1> USE AccessAssumption DEF AccessInv, TypeOK, access, registry
<1>1. ASSUME NEW x \in Users, Login(s, x)
      PROVE  Source(u)!Login(s) \/ UNCHANGED Source(u)!source
  <2>1. UNCHANGED <<Readable(u), revision, enabled>>
    BY <1>1, SameReadable DEF Login
  <2>2. CASE x = u
    <3>1. s \notin OpenSessions(u) /\ OpenSessions(u)' = OpenSessions(u) \cup {s}
      BY <1>1, <2>2 DEF Login, OpenSessions, NoSession
    <3>2. QED
      BY <1>1, <2>1, <2>2, <3>1 DEF Login, Source!Login
  <2>3. CASE x # u
    <3>1. OpenSessions(u)' = OpenSessions(u)
      BY <1>1, <2>3 DEF Login, OpenSessions, NoSession
    <3>2. QED
      BY <2>1, <3>1 DEF Source!source
  <2>4. QED
    BY <2>2, <2>3
<1>2. CASE Expire(s)
  <2>1. UNCHANGED <<Readable(u), revision, enabled>>
    BY <1>2, SameReadable DEF Expire
  <2>2. CASE s \in OpenSessions(u)
    <3>1. OpenSessions(u)' = OpenSessions(u) \ {s}
      BY <1>2, <2>2 DEF Expire, OpenSessions, SessionRows, NoSession
    <3>2. QED
      BY <2>1, <2>2, <3>1 DEF Source!Expire, Source!Next
  <2>3. CASE s \notin OpenSessions(u)
    <3>1. OpenSessions(u)' = OpenSessions(u)
      BY <1>2, <2>3 DEF Expire, OpenSessions, SessionRows, NoSession
    <3>2. QED
      BY <2>1, <3>1 DEF Source!source
  <2>4. QED
    BY <2>2, <2>3
<1>3. ASSUME NEW target \in Sessions, session[target].state \in {"open", "expired"},
             RevokeBy(s, target)
      PROVE  Source(u)!Next
  <2>1. UNCHANGED <<Readable(u), enabled>> /\ revision' = revision + 1
    BY <1>3, SameReadable DEF RevokeBy, Record
  <2>2. CASE target \in OpenSessions(u)
    <3>1. OpenSessions(u)' = OpenSessions(u) \ {target}
      BY <1>3, <2>2 DEF RevokeBy, OpenSessions, SessionRows, NoSession
    <3>2. QED
      BY <2>1, <2>2, <3>1 DEF Source!Revoke, Source!Next
  <2>3. CASE target \notin OpenSessions(u)
    <3>1. OpenSessions(u)' = OpenSessions(u)
      BY <1>3, <2>3 DEF RevokeBy, OpenSessions, SessionRows, NoSession
    <3>2. QED
      BY <2>1, <3>1 DEF Source!Mutate, Source!Next, Readable
  <2>4. QED
    BY <2>2, <2>3
<1>4. ASSUME NEW x \in Users, NEW active \in BOOLEAN, NEW admin \in BOOLEAN,
             UpdateUser(s, x, active, admin)
      PROVE  Source(u)!Mutate
  BY <1>4, RevisionIsMutation DEF UpdateUser
<1>5. CASE Logout(s)
  BY <1>3, <1>5 DEF Logout, Gate
<1>6. QED
  BY <1>1, <1>2, <1>3, <1>4, <1>5 DEF Account, RevokeSession, Source!Next

LEMMA AdministerIsSource ==
    ASSUME NEW u \in Users, NEW s \in Sessions, Administer(s)
    PROVE  Source(u)!Mutate
<1> USE RevisionIsMutation DEF identities
<1>1. ASSUME NEW r \in Roles, CreateRole(s, r) \/ RenameRole(s, r)
      PROVE  Source(u)!Mutate
  BY <1>1 DEF CreateRole, RenameRole
<1>2. ASSUME NEW r \in Roles, NEW x \in Users, NEW present \in BOOLEAN,
             SetMembership(s, r, x, present)
      PROVE  Source(u)!Mutate
  BY <1>2 DEF SetMembership
<1>3. ASSUME NEW d \in Documents, NEW x \in Subjects, Grant(s, d, x) \/ RevokeGrant(s, d, x)
      PROVE  Source(u)!Mutate
  BY <1>3 DEF Grant, RevokeGrant
<1>4. ASSUME NEW d \in Documents, NEW active \in BOOLEAN, UpdateDocument(s, d, active)
      PROVE  Source(u)!Mutate
  BY <1>4 DEF UpdateDocument
<1>5. QED
  BY <1>1, <1>2, <1>3, <1>4 DEF Administer

\* A shelved artifact is nobody's active version, so nobody sees it.
LEMMA IndexIsSource ==
    ASSUME AccessInv, NEW u \in Users, NEW j \in Jobs, Index(j)
    PROVE  Source(u)!Mutate \/ UNCHANGED Source(u)!source
<1> USE DEF identities, access, registry
<1>1. ASSUME NEW v \in Versions, Publish(j, v) \/ \E d \in Documents : CommitRegistration(j, d, v)
      PROVE  Source(u)!Mutate
  BY <1>1, RevisionIsMutation DEF Publish, CommitRegistration, Activate
<1>2. ASSUME UNCHANGED <<Readable(u), revision, enabled, session>>
      PROVE  UNCHANGED Source(u)!source
  BY <1>2 DEF Source!source, OpenSessions
<1>3. ASSUME NEW v \in Versions, Shelve(j, v)
      PROVE  UNCHANGED <<Readable(u), revision, enabled, session>>
  <2>1. \A d \in Documents : current[d] # None => version'[current[d]] = version[current[d]]
    BY <1>3, StoredIsFresh DEF Shelve, AccessInv, TypeOK
  <2>2. QED
    BY <1>3, <2>1, SameReadable DEF Shelve
<1>4. CASE UNCHANGED <<revision, audit, identities, access, registry>>
  <2>1. UNCHANGED <<Readable(u), revision, enabled, session>>
    BY <1>4, SameReadable
  <2>2. QED
    BY <1>2, <2>1
<1>5. QED
  BY <1>1, <1>2, <1>3, <1>4 DEF Index, Register, IngestVersion, Reindex, Begin, PrepareIndex, Raise

LEMMA SourceStep ==
    ASSUME AccessInv, [Next]_vars, NEW u \in Users
    PROVE  Source(u)!Next \/ UNCHANGED Source(u)!source
<1>1. ASSUME NEW x \in Users, NEW admin \in BOOLEAN, CreateUser(x, admin)
      PROVE  Source(u)!Mutate
  BY <1>1, RevisionIsMutation DEF CreateUser
<1>2. CASE UNCHANGED vars
  BY <1>2, SameReadable DEF vars, Source!source, OpenSessions
<1>3. QED
  BY <1>1, <1>2, AccountIsSource, AdministerIsSource, IndexIsSource DEF Next, Source!Next

\* The administration as a whole is the source of policy that ChatTurns
\* takes for its environment, for every user at once.
THEOREM SourceImplemented == Spec => ImplementsSource
<1>1. Init => \A u \in Users : Source(u)!Init
  BY DEF Init, Source!Init, Readable, OpenSessions
<1>2. AccessInv /\ [Next]_vars =>
        [\A u \in Users : Source(u)!Next \/ UNCHANGED Source(u)!source]_vars
  BY SourceStep
<1>3. QED
  BY <1>1, <1>2, Invariance, PTL DEF Spec, ImplementsSource

----------------------------------------------------------------------------
(* Authority, and the reasons that the audit gives.                        *)

\* What the second transaction of a job stores, an administrator stores.
LEMMA AuthorityStep ==
    ASSUME AccessInv, [Next]_vars, ~UNCHANGED <<access, registry>>
    PROVE  \E s \in Sessions : Administrator(s)
<1> USE DEF access, registry, identities
<1>1. ASSUME NEW s \in Sessions, Account(s)
      PROVE  FALSE
  BY <1>1 DEF Account, Login, UpdateUser, RevokeSession, Logout, RevokeBy, Expire
<1>2. ASSUME NEW s \in Sessions, Administer(s)
      PROVE  Administrator(s)
  BY <1>2 DEF Administer, CreateRole, RenameRole, SetMembership, Grant, RevokeGrant, UpdateDocument
<1>3. ASSUME NEW j \in Jobs, Index(j)
      PROVE  Prepared(j)
  BY <1>3 DEF Index, Register, IngestVersion, Reindex, Begin, PrepareIndex, Raise,
              CommitRegistration, Publish, Shelve
<1>4. ASSUME NEW j \in Jobs, Prepared(j)
      PROVE  job[j].session \in Sessions /\ Administrator(job[j].session)
  <2>1. job[j] \in BusyJobs
    BY <1>4 DEF Prepared, AccessInv, TypeOK, IdleJob
  <2>2. QED
    BY <1>4, <2>1 DEF Prepared, StillAuthorized, BusyJobs
<1>5. QED
  BY <1>1, <1>2, <1>3, <1>4 DEF Next, CreateUser, vars

\* A job that stores is checked in that very step; no other job moves with it.
LEMMA OwnAuthorityStep ==
    ASSUME AccessInv, [Next]_vars, NEW j \in Jobs, job'[j] # job[j], ~UNCHANGED registry
    PROVE  Administrator(job[j].session)
<1> USE DEF registry, identities, access
<1>1. ASSUME NEW s \in Sessions, Account(s)
      PROVE  FALSE
  BY <1>1 DEF Account, Login, UpdateUser, RevokeSession, Logout, RevokeBy, Expire
<1>2. ASSUME NEW s \in Sessions, Administer(s)
      PROVE  FALSE
  BY <1>2 DEF Administer, CreateRole, RenameRole, SetMembership, Grant, RevokeGrant, UpdateDocument
<1>3. ASSUME NEW k \in Jobs, Index(k)
      PROVE  Administrator(job[j].session)
  <2>1. Prepared(k) /\ job' = [job EXCEPT ![k] = IdleJob]
    BY <1>3 DEF Index, Register, IngestVersion, Reindex, Begin, PrepareIndex, Raise,
                CommitRegistration, Publish, Shelve, Store
  <2>2. job \in [Jobs -> BusyJobs \cup {IdleJob}]
    BY DEF AccessInv, TypeOK
  <2>3. j = k
    BY <2>1, <2>2
  <2>4. QED
    BY <2>1, <2>3 DEF Prepared, StillAuthorized
<1>4. QED
  BY <1>1, <1>2, <1>3 DEF Next, CreateUser, vars

\* Nothing is granted, published or stored without an administrator, and nothing a job
\* stores or publishes without the one who began it, under the session he began it with.
THEOREM AuthorityHeld == Spec => AuthorityAtCommit
<1>1. AccessInv /\ [Next]_vars =>
        [/\ UNCHANGED <<access, registry>> \/ \E s \in Sessions : Administrator(s)
         /\ \A j \in Jobs :
               job'[j] # job[j] => UNCHANGED registry \/ Administrator(job[j].session)]_vars
  <2>1. AccessInv /\ [Next]_vars => UNCHANGED <<access, registry>> \/ \E s \in Sessions : Administrator(s)
    BY AuthorityStep
  <2>2. AccessInv /\ [Next]_vars =>
          \A j \in Jobs : job'[j] # job[j] => UNCHANGED registry \/ Administrator(job[j].session)
    BY OwnAuthorityStep
  <2>3. QED
    BY <2>1, <2>2
<1>2. QED
  BY <1>1, Invariance, PTL DEF Spec, AuthorityAtCommit

LEMMA SameAccess ==
    ASSUME NEW u \in Users, NEW d \in Documents,
           Granted(u, d)' = Granted(u, d), d \in published' <=> d \in published,
           current'[d] = current[d], current[d] # None => version'[current[d]] = version[current[d]]
    PROVE  CanRead(u, d)' = CanRead(u, d)
BY DEF CanRead

\* A step that gives nothing and takes nothing away.
LEMMA NothingGiven ==
    ASSUME NEW u \in Users, NEW d \in Documents, UNCHANGED <<members, grants, published, current>>,
           current[d] # None => version'[current[d]] = version[current[d]]
    PROVE  CanRead(u, d)' = CanRead(u, d)
<1>1. Granted(u, d)' = Granted(u, d)
  BY DEF Granted
<1>2. QED
  BY <1>1, SameAccess

\* Some audit event of the new revision explains the change for this user.
Reason(u, d) ==
    \E event \in audit' : Explains(event, IF CanRead(u, d) THEN "removed" ELSE "added", u, d)

LEMMA MembershipExplains ==
    ASSUME NEW u \in Users, NEW d \in Documents, CanRead(u, d)' # CanRead(u, d),
           NEW s \in Sessions, NEW r \in Roles, NEW x \in Users, NEW present \in BOOLEAN,
           SetMembership(s, r, x, present)
    PROVE  Reason(u, d)
<1> USE DEF registry
<1>1. Granted(u, d)' # Granted(u, d)
  BY SameAccess DEF SetMembership
<1>2. x = u /\ <<d, r>> \in grants
  BY <1>1 DEF SetMembership, Granted
<1>3. IF present THEN Granted(u, d) => Granted(u, d)' ELSE Granted(u, d)' => Granted(u, d)
  BY DEF SetMembership, Granted
<1>4. present = ~CanRead(u, d)
  BY <1>3 DEF CanRead, SetMembership
<1>5. QED
  BY <1>2, <1>4 DEF Reason, Explains, SetMembership, Record, By, Event

LEMMA GrantExplains ==
    ASSUME NEW u \in Users, NEW d \in Documents, CanRead(u, d)' # CanRead(u, d),
           NEW s \in Sessions, NEW e \in Documents, NEW x \in Subjects,
           Grant(s, e, x) \/ RevokeGrant(s, e, x)
    PROVE  Reason(u, d)
<1> USE DEF registry
<1>1. UNCHANGED <<members, published, current, version>>
  BY DEF Grant, RevokeGrant
<1>2. Granted(u, d)' # Granted(u, d)
  BY <1>1, SameAccess
<1>3. e = d /\ (x = u \/ (x \in Roles /\ <<u, x>> \in members))
  BY <1>1, <1>2 DEF Grant, RevokeGrant, Without, Granted
<1>4. CASE Grant(s, e, x)
  <2>1. Granted(u, d) => Granted(u, d)'
    BY <1>1, <1>4 DEF Grant, Granted
  <2>2. ~CanRead(u, d)
    BY <1>1, <2>1 DEF CanRead
  <2>3. audit' = {GrantEvent(s, "grant_added", d, x)}
    BY <1>3, <1>4 DEF Grant, Record
  <2>4. QED
    BY <1>3, <2>2, <2>3, AccessAssumption DEF Reason, Explains, GrantEvent, By, Event
<1>5. CASE RevokeGrant(s, e, x)
  <2>1. Granted(u, d)' => Granted(u, d)
    BY <1>1, <1>5 DEF RevokeGrant, Without, Granted
  <2>2. CanRead(u, d)
    BY <1>1, <2>1 DEF CanRead
  <2>3. audit' = {GrantEvent(s, "grant_removed", d, x)}
    BY <1>3, <1>5 DEF RevokeGrant, Record
  <2>4. QED
    BY <1>3, <2>2, <2>3, AccessAssumption DEF Reason, Explains, GrantEvent, By, Event
<1>6. QED
  BY <1>4, <1>5

LEMMA DocumentExplains ==
    ASSUME NEW u \in Users, NEW d \in Documents, NEW s, audit' = {DocumentEvent(s, d)}
    PROVE  Reason(u, d)
BY DEF Reason, Explains, DocumentEvent, By, Event

LEMMA PublicationExplains ==
    ASSUME AccessInv, NEW u \in Users, NEW d \in Documents, CanRead(u, d)' # CanRead(u, d),
           NEW j \in Jobs, Index(j)
    PROVE  Reason(u, d)
<1> USE DEF access, registry, identities, AccessInv, TypeOK
<1>1. ASSUME NEW v \in Versions, NEW e \in Documents, Prepared(j), Store(j, v, e), Activate(j, v, e),
             UNCHANGED access, \A x \in Documents \ {e} : x \in published' <=> x \in published
      PROVE  Reason(u, d)
  <2>1. ASSUME e # d
        PROVE  CanRead(u, d)' = CanRead(u, d)
    <3>1. Granted(u, d)' = Granted(u, d)
      BY <1>1 DEF Granted
    <3>2. current[d] # None => version'[current[d]] = version[current[d]]
      BY <1>1, StoredIsFresh
    <3>3. QED
      BY <1>1, <2>1, <3>1, <3>2, SameAccess DEF Activate
  <2>2. QED
    BY <1>1, <2>1, DocumentExplains DEF Activate, Record
<1>2. ASSUME NEW v \in Versions, Publish(j, v)
      PROVE  Reason(u, d)
  BY <1>1, <1>2 DEF Publish
<1>3. ASSUME NEW e \in Documents, NEW v \in Versions, CommitRegistration(j, e, v)
      PROVE  Reason(u, d)
  BY <1>1, <1>3 DEF CommitRegistration
<1>4. ASSUME NEW v \in Versions, Shelve(j, v)
      PROVE  FALSE
  <2>1. current[d] # None => version'[current[d]] = version[current[d]]
    BY <1>4, StoredIsFresh DEF Shelve
  <2>2. QED
    BY <1>4, <2>1, NothingGiven DEF Shelve
<1>5. CASE UNCHANGED <<access, registry>>
  BY <1>5, NothingGiven
<1>6. QED
  BY <1>2, <1>3, <1>4, <1>5 DEF Index, Register, IngestVersion, Reindex, Begin, PrepareIndex, Raise

LEMMA ReasonStep ==
    ASSUME AccessInv, [Next]_vars, NEW u \in Users, NEW d \in Documents, CanRead(u, d)' # CanRead(u, d)
    PROVE  Reason(u, d)
<1> USE DEF access, registry, identities
<1>1. ASSUME NEW s \in Sessions, Account(s)
      PROVE  FALSE
  <2>1. UNCHANGED <<access, registry>>
    BY <1>1 DEF Account, Login, UpdateUser, RevokeSession, Logout, RevokeBy, Expire
  <2>2. QED
    BY <2>1, NothingGiven
<1>2. ASSUME NEW s \in Sessions, NEW r \in Roles, CreateRole(s, r) \/ RenameRole(s, r)
      PROVE  FALSE
  BY <1>2, NothingGiven DEF CreateRole, RenameRole
<1>3. ASSUME NEW s \in Sessions, NEW e \in Documents, NEW active \in BOOLEAN,
             UpdateDocument(s, e, active)
      PROVE  Reason(u, d)
  <2>1. Granted(u, d)' = Granted(u, d)
    BY <1>3 DEF UpdateDocument, Granted
  <2>2. e = d
    BY <1>3, <2>1, SameAccess DEF UpdateDocument
  <2>3. QED
    BY <1>3, <2>2, DocumentExplains DEF UpdateDocument, Record
<1>4. ASSUME NEW x \in Users, NEW admin \in BOOLEAN, CreateUser(x, admin)
      PROVE  FALSE
  BY <1>4, NothingGiven DEF CreateUser
<1>5. CASE UNCHANGED vars
  BY <1>5, NothingGiven DEF vars
<1>6. QED
  BY <1>1, <1>2, <1>3, <1>4, <1>5, MembershipExplains, GrantExplains, PublicationExplains
     DEF Next, Administer

\* Whoever gains or loses access, the audit says why.
THEOREM ReasonGiven == Spec => AccessChangesExplained
<1>1. AccessInv /\ [Next]_vars =>
        [\A u \in Users, d \in Documents : CanRead(u, d)' # CanRead(u, d) =>
           \E event \in audit' :
              Explains(event, IF CanRead(u, d) THEN "removed" ELSE "added", u, d)]_vars
  BY ReasonStep DEF Reason
<1>2. QED
  BY <1>1, Invariance, PTL DEF Spec, AccessChangesExplained
============================================================================
