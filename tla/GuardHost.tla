------------------------------ MODULE GuardHost ------------------------------
(***************************************************************************)
(* The standalone host of the guard: policy, thread and audit in memory,   *)
(* one lock around every operation, and a generation outside of it.  An    *)
(* operation may be suspended where it awaits the lock or the guard's      *)
(* question to the policy reader, and may be cancelled there.              *)
(***************************************************************************)
EXTENDS Naturals, Sequences, FiniteSets, SequencesExt

CONSTANTS Tasks,       \* concurrent callers
          Sources,     \* canonical rows
          DocOf,       \* the document of a row
          First,       \* the rows whose versions are active at first
          MaxRevision, \* bound on the policy's changes
          MaxPrepared, \* bound on the contexts prepared
          None

ASSUME HostAssumption ==
  /\ None \notin Tasks
  /\ First \subseteq Sources
  /\ {MaxRevision, MaxPrepared} \subseteq Nat

VARIABLES granted,  \* documents granted directly
          member, roleGrants, \* the role, and the documents it reads
          active,   \* rows of active versions
          session,  \* the owner's session is active
          expired,  \* ... and past its deadline
          revision, audit,
          lock,     \* the task in the critical section, or None
          call,     \* what each task is doing
          contexts, \* every context prepared: its sources and revision
          prepared, \* those that are still bound
          turns,    \* the thread: the context of each answer
          view      \* sources of the answer last read; none if it was hidden

policy == <<granted, member, roleGrants, active, session, expired>>
history == <<revision, audit>>
thread == <<contexts, prepared, turns, view>>
vars == <<granted, member, roleGrants, active, session, expired, revision, audit,
          lock, call, contexts, prepared, turns, view>>

Docs == {DocOf[s] : s \in Sources}
Callers == {"owner", "stranger"}
Idle == [at |-> "idle", kind |-> "none", who |-> "owner", ctx |-> 0]

Init ==
  /\ granted = {} /\ member = FALSE /\ roleGrants = {}
  /\ active = First
  /\ session = TRUE /\ expired = FALSE
  /\ revision = 0 /\ audit = <<>>
  /\ lock = None
  /\ call = [t \in Tasks |-> Idle]
  /\ contexts = <<>> /\ prepared = {} /\ turns = <<>> /\ view = {}

session_valid(who) == who = "owner" /\ session /\ ~expired

Permitted ==
  {s \in active : DocOf[s] \in granted \/ (member /\ DocOf[s] \in roleGrants)}

Free == lock = None

At(t, place, kind) == call[t].at = place /\ call[t].kind = kind

\* The operation ends and the scope with it.
Return(t) ==
  /\ call' = [call EXCEPT ![t] = Idle]
  /\ lock' = None

------------------------------------------------------------------------------
(* Calls, the lock and its loss.                                           *)

Invoke(t, kind, who, c) ==
  /\ call[t] = Idle
  /\ call' = [call EXCEPT ![t] = [at |-> "waiting", kind |-> kind, who |-> who, ctx |-> c]]
  /\ UNCHANGED <<policy, history, lock, thread>>

policy_scope(t) ==
  /\ call[t].at = "waiting" /\ Free
  /\ lock' = t
  /\ call' = [call EXCEPT ![t].at = "inside"]
  /\ UNCHANGED <<policy, history, thread>>

Left(t) == IF lock = t THEN None ELSE lock

Cancel(t) ==
  /\ call[t].at \in {"waiting", "inside", "asking"}
  /\ call' = [call EXCEPT ![t] = Idle]
  /\ lock' = Left(t)
  /\ UNCHANGED <<policy, history, thread>>

------------------------------------------------------------------------------
(* Changes of the policy.                                                  *)

Changed(event) ==
  /\ revision < MaxRevision
  /\ revision' = revision + 1
  /\ audit' = Append(audit, [revision |-> revision', event |-> event])

grant(d) == granted' = granted \cup {d} /\ UNCHANGED <<member, roleGrants, active, session, expired>>
revoke(d) == granted' = granted \ {d} /\ UNCHANGED <<member, roleGrants, active, session, expired>>
set_role(d) ==
  /\ member' \in BOOLEAN /\ roleGrants' = roleGrants \cup {d}
  /\ UNCHANGED <<granted, active, session, expired>>
set_session ==
  /\ session' \in BOOLEAN /\ expired' \in BOOLEAN
  /\ UNCHANGED <<granted, member, roleGrants, active>>
set_version(d) ==
  /\ \E v \in {{}} \cup {{s} : s \in {x \in Sources : DocOf[x] = d}} :
       active' = {s \in active : DocOf[s] # d} \cup v
  /\ UNCHANGED <<granted, member, roleGrants, session, expired>>

ChangePolicy(t) ==
  /\ At(t, "inside", "change")
  /\ \E d \in Docs :
       \/ revision = MaxRevision /\ UNCHANGED <<policy, history>>
       \/ grant(d) /\ Changed("grant")
       \/ revoke(d) /\ Changed("revoke")
       \/ set_role(d) /\ Changed("membership")
       \/ set_session /\ Changed("session")
       \/ set_version(d) /\ Changed("version")
  /\ Return(t)
  /\ UNCHANGED thread

Expire ==
  /\ session /\ ~expired /\ expired' = TRUE
  /\ UNCHANGED <<granted, member, roleGrants, active, session, history, lock, call, thread>>

------------------------------------------------------------------------------
(* prepare, release and read_saved.                                        *)

\* An answer needs a source; a context without one is not bound.
Prepare(t) ==
  /\ At(t, "inside", "prepare")
  /\ IF session_valid(call[t].who) /\ Permitted # {} /\ Len(contexts) < MaxPrepared
     THEN /\ contexts' = Append(contexts, [refs |-> Permitted, revision |-> revision])
          /\ prepared' = prepared \cup {Len(contexts) + 1}
     ELSE UNCHANGED <<contexts, prepared>>
  /\ Return(t)
  /\ UNCHANGED <<policy, history, turns, view>>

Bound(t) == call[t].ctx \in prepared /\ call[t].who = "owner"

\* Mutant: the binding is kept for another try.
KeepBinding(t) == prepared
DropBinding(t) == prepared \ {call[t].ctx}

\* The binding is used up before the guard is asked.
Bind(t) ==
  /\ At(t, "inside", "release")
  /\ IF Bound(t)
     THEN /\ prepared' = DropBinding(t)
          /\ call' = [call EXCEPT ![t].at = "asking"]
          /\ UNCHANGED lock
     ELSE Return(t) /\ UNCHANGED prepared
  /\ UNCHANGED <<policy, history, contexts, turns, view>>

\* Mutant: the session is checked when the context is prepared only.
ReleasableAlways(who, ctx) == ctx.revision = revision /\ ctx.refs \subseteq Permitted
Releasable(who, ctx) ==
  session_valid(who) /\ ctx.revision = revision /\ ctx.refs \subseteq Permitted

\* The guard's decision, and with it the answer and its audit event.
Release(t) ==
  LET ctx == contexts[call[t].ctx] IN
  /\ At(t, "asking", "release")
  /\ IF Releasable(call[t].who, ctx)
     THEN /\ turns' = Append(turns, call[t].ctx)
          /\ audit' = Append(audit, [revision |-> revision, event |-> "release"])
     ELSE UNCHANGED <<turns, audit>>
  /\ Return(t)
  /\ UNCHANGED <<policy, revision, contexts, prepared, view>>

read_saved(t) ==
  /\ At(t, "inside", "read")
  /\ IF session_valid(call[t].who) /\ turns # <<>>
     THEN call' = [call EXCEPT ![t].at = "asking", ![t].ctx = Last(turns)] /\ UNCHANGED <<lock, view>>
     ELSE view' = {} /\ Return(t)
  /\ UNCHANGED <<policy, history, contexts, prepared, turns>>

Show(t) ==
  LET refs == contexts[call[t].ctx].refs IN
  /\ At(t, "asking", "read")
  /\ view' = IF session_valid(call[t].who) /\ refs \subseteq Permitted THEN refs ELSE {}
  /\ Return(t)
  /\ UNCHANGED <<policy, history, contexts, prepared, turns>>

Start(t) ==
  \/ \E who \in Callers : \E kind \in {"prepare", "read"} : Invoke(t, kind, who, 0)
  \/ \E who \in Callers : \E c \in DOMAIN contexts : Invoke(t, "release", who, c)
  \/ revision < MaxRevision /\ Invoke(t, "change", "owner", 0)

Inside(t) ==
  ChangePolicy(t) \/ Prepare(t) \/ Bind(t) \/ Release(t) \/ read_saved(t) \/ Show(t)

Next ==
  \/ Expire
  \/ \E t \in Tasks : Start(t) \/ policy_scope(t) \/ Cancel(t) \/ Inside(t)

Spec == Init /\ [][Next]_vars

------------------------------------------------------------------------------
(* Properties.                                                             *)

Context == [refs : (SUBSET Sources) \ {{}}, revision : 0..MaxRevision]
Event == [revision : 0..MaxRevision,
          event : {"grant", "revoke", "membership", "session", "version", "release"}]
Operation == [at : {"idle", "waiting", "inside", "asking"},
              kind : {"none", "change", "prepare", "release", "read"},
              who : Callers, ctx : DOMAIN contexts \cup {0}]

TypeOK ==
  /\ granted \subseteq Docs /\ roleGrants \subseteq Docs /\ active \subseteq Sources
  /\ member \in BOOLEAN /\ session \in BOOLEAN /\ expired \in BOOLEAN
  /\ revision \in 0..MaxRevision /\ audit \in Seq(Event)
  /\ lock \in Tasks \cup {None}
  /\ contexts \in Seq(Context)
  /\ call \in [Tasks -> Operation]
  /\ prepared \subseteq DOMAIN contexts /\ turns \in Seq(DOMAIN contexts)
  /\ view \in SUBSET Sources
  /\ \A t \in Tasks : lock = t <=> call[t].at \in {"inside", "asking"}

Promised == INSTANCE GuardedThread WITH
  readable <- IF session_valid("owner") THEN Permitted ELSE {},
  log <- [i \in DOMAIN turns |-> contexts[turns[i]].refs],
  shown <- view

(* Whatever tasks wait, are cancelled or overlap, each answer enters the   *)
(* thread and is shown only while all its sources are readable.            *)
KeepsPromise == Promised!Spec

(* A prepared context becomes at most one answer, and one that was         *)
(* published is never bound again.                                         *)
OnePublication ==
  /\ \A i, j \in DOMAIN turns : turns[i] = turns[j] => i = j
  /\ prepared \cap Range(turns) = {}

(* The audit tells the whole story in order: every revision once, every    *)
(* answer once, at the revision that its context was prepared under.       *)
Changes == {i \in DOMAIN audit : audit[i].event # "release"}
Releases == {i \in DOMAIN audit : audit[i].event = "release"}
UpTo(S, i) == Cardinality({j \in S : j <= i})
AuditIsWhole ==
  /\ Cardinality(Changes) = revision
  /\ Cardinality(Releases) = Len(turns)
  /\ \A i \in Changes : audit[i].revision = UpTo(Changes, i)
  /\ \A i \in Releases : audit[i].revision = contexts[turns[UpTo(Releases, i)]].revision
  /\ \A i, j \in DOMAIN audit : i < j => audit[i].revision <= audit[j].revision

(* Every revision is a change of what a reader may have seen: two contexts *)
(* of one revision have the same sources.                                  *)
RevisionDetermines ==
  \A i, j \in DOMAIN contexts :
    contexts[i].revision = contexts[j].revision => contexts[i].refs = contexts[j].refs

\* What the critical section keeps together.
HostInv == TypeOK /\ OnePublication /\ AuditIsWhole /\ RevisionDetermines
==============================================================================
