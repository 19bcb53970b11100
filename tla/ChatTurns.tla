----------------------------- MODULE ChatTurns -----------------------------
(***************************************************************************)
(* One conversation of the chat API: reservation, generation, release and  *)
(* idempotent replay of its requests, under a changing access policy.      *)
(*                                                                         *)
(* The thread and its turns live in PostgreSQL.  Every transaction first   *)
(* takes the policy row (shared for chat, exclusive for a mutation), then  *)
(* the session row, then the thread row.  A transaction that reads the     *)
(* clock once is one action here.  The completing transaction reads the    *)
(* clock at both ends and is two actions, Authorize and Commit, between    *)
(* which `holder' owns the thread row and a share of the policy row: time  *)
(* may pass and the process may die there, the policy cannot change.       *)
(*                                                                         *)
(* Time is the remaining life of each lease, so `now < lease_expires_at'   *)
(* reads `lease > 0'.  A request of another conversation is visible only   *)
(* as a rejected admission; a foreign thread is a 404 without effect.      *)
(***************************************************************************)
EXTENDS Integers, FiniteSets

CONSTANTS
    Requests,       \* client-chosen request identifiers
    Inputs,         \* question texts
    HelpInputs,     \* the texts classify_help answers without a model
    Refs,           \* source references (document, version, chunk)
    Sessions,       \* sessions of the thread's owner
    Workers,        \* concurrent handlers of POST /messages
    None,           \* no worker
    MaxAttempts,    \* GENERATION_MAX_ATTEMPTS
    Lease,          \* pending_lease_seconds, in ticks
    Window,         \* prior turns a generation may see
    PlansRelevance, \* a relevance configuration is installed
    MaxPolicy       \* bound on policy mutations, for model checking

ASSUME ChatAssumption ==
    /\ HelpInputs \subseteq Inputs
    /\ None \notin Workers
    /\ MaxAttempts \in Nat \ {0}
    /\ Lease \in Nat \ {0}
    /\ Window \in Nat
    /\ PlansRelevance \in BOOLEAN
    /\ MaxPolicy \in Nat

VARIABLES
    policyRevision, \* policy_state.revision
    readable,       \* refs the owner may read through an active version
    enabled,        \* the owner's is_active
    live,           \* sessions neither revoked nor expired
    threadRevision, \* chat_threads.revision
    turn,           \* chat_turns, by request identifier
    worker,         \* local state of each handler
    permit,         \* the handler holding the generation permit
    holder,         \* the handler inside a completing transaction
    calls,          \* history: model calls made for each request
    taint,          \* history: every ref that influenced the stored answer
    told            \* history: outcomes clients have been shown

db == <<threadRevision, turn, taint>>
policy == <<policyRevision, readable, enabled, live>>
process == <<worker, permit, holder>>
vars == <<policyRevision, readable, enabled, live, threadRevision, turn, worker,
          permit, holder, calls, taint, told>>

NeutralReasons == {"no_context", "generation_unavailable", "policy_changed",
                   "interrupted", "assistant_help"}
TurnStates == {"absent", "pending", "available", "neutral"}
Outcomes == NeutralReasons \cup {"available"}

\* MessageRequest: equality of these records is equality of request_sha256.
Payloads == [id: Requests, input: Inputs, expected: Nat]

Turns == [state: TurnStates, input: Inputs \cup {"none"}, expected: Nat,
          lease: 0..Lease, ordinal: Nat, refs: SUBSET Refs,
          reason: NeutralReasons \cup {"none"}]

AbsentTurn == [state |-> "absent", input |-> "none", expected |-> 0,
               lease |-> 0, ordinal |-> 0, refs |-> {}, reason |-> "none"]

\* GenerationAttempt.prepared: its revision, chunks, prior turns and closure.
Contexts == [revision: Nat, chunks: SUBSET Refs, history: SUBSET Requests,
             refs: SUBSET Refs]
NoContext == [revision |-> 0, chunks |-> {}, history |-> {}, refs |-> {}]

Stages == {"idle", "resolved", "admitted", "preparing", "planning",
           "prepared", "inferring", "completing", "releasing"}
\* The stages in which a handler owns a reservation it has committed.
Reserved == Stages \ {"idle", "resolved", "admitted"}
Results == NeutralReasons \cup {"none", "generated", "released", "stale"}

IdleWorker == [stage |-> "idle", session |-> None, request |-> None,
               attempt |-> 0, context |-> NoContext, outcome |-> "none"]
BusyStates == [stage: Stages \ {"idle"}, session: Sessions, request: Payloads,
               attempt: Nat, context: Contexts, outcome: Results]

Init ==
    /\ policyRevision = 0
    /\ readable \in SUBSET Refs
    /\ enabled = TRUE
    /\ live = Sessions
    /\ threadRevision = 0
    /\ turn = [r \in Requests |-> AbsentTurn]
    /\ worker = [w \in Workers |-> IdleWorker]
    /\ permit = None
    /\ holder = None
    /\ calls = [r \in Requests |-> 0]
    /\ taint = [r \in Requests |-> {}]
    /\ told = [r \in Requests |-> {}]

----------------------------------------------------------------------------
(* Reading the thread.                                                     *)

Exists(r) == turn[r].state # "absent"
Pending(r) == turn[r].state = "pending"
\* Mutant of Running: a reservation never lapses for the resolver.
RunningForEver(r) == Pending(r)
Running(r) == Pending(r) /\ turn[r].lease > 0
Lapsed(r) == Pending(r) /\ turn[r].lease = 0
Terminal(t) == t.state \in {"available", "neutral"}

SamePayload(q) == turn[q.id].input = q.input /\ turn[q.id].expected = q.expected

\* What a projection of turn t shows: an answer only while its whole source
\* set is readable, a lapsed reservation as interrupted, nothing of a
\* running one.
Shown(t) ==
    CASE t.state = "neutral" -> {t.reason}
      [] t.state = "available" /\ t.refs # {} /\ t.refs \subseteq readable -> {"available"}
      [] t.state = "pending" /\ t.lease = 0 -> {"interrupted"}
      [] OTHER -> {}

----------------------------------------------------------------------------
(* Writing the thread.                                                     *)

Finished(t, state, reason, refs) ==
    [t EXCEPT !.state = state, !.reason = reason, !.refs = refs,
              !.lease = 0, !.ordinal = threadRevision + 1]

Refuse(t, reason) == Finished(t, "neutral", reason, {})

\* The thread once resolve_request has completed the abandoned reservation
\* (uq_chat_turns_pending leaves its loop at most one).
SettledTurn == [r \in Requests |-> IF Lapsed(r) THEN Refuse(turn[r], "interrupted") ELSE turn[r]]

\* Mutant of SettledRevision: the settlement does not advance the thread.
SettledRevisionUncounted == threadRevision

SettledRevision == threadRevision + (IF \E r \in Requests : Lapsed(r) THEN 1 ELSE 0)

\* Mutant of Proceeds: a reservation in progress is not looked for.
ProceedsRegardless(q) == ~Exists(q.id) /\ q.expected = SettledRevision

\* resolve_request returns None: a new request, nothing in progress, and the
\* client saw the revision that results from settling.
Proceeds(q) ==
    /\ ~Exists(q.id)
    /\ \A r \in Requests : ~Running(r)
    /\ q.expected = SettledRevision

\* resolve_request answers with the stored turn of the same request.
Replays(q) == Exists(q.id) /\ SamePayload(q) /\ ~Running(q.id)

\* resolve_request refuses a new request after settling an abandoned one.
Supersedes(q) ==
    /\ ~Exists(q.id)
    /\ \A r \in Requests : ~Running(r)
    /\ \E r \in Requests : Lapsed(r)
    /\ q.expected # SettledRevision

Settle == turn' = SettledTurn /\ threadRevision' = SettledRevision
Tell(r) == told' = [told EXCEPT ![r] = @ \cup Shown(turn'[r])]

ReplayStored(q) ==
    /\ Replays(q)
    /\ IF Lapsed(q.id) THEN Settle ELSE UNCHANGED <<turn, threadRevision>>
    /\ Tell(q.id)

\* insert_pending, after settling.
Insert(q) ==
    [SettledTurn EXCEPT ![q.id] =
        [AbsentTurn EXCEPT !.state = "pending", !.input = q.input,
                           !.expected = q.expected, !.lease = Lease]]

\* A live session of an enabled user passes the gate of any transaction.
Usable(s) == s \in live /\ enabled

\* The gate of a transaction that locks the thread row, which must be free.
Gate(s) == Usable(s) /\ holder = None

----------------------------------------------------------------------------
(* The first transaction of a request.                                     *)

\* A retry of a stored request, answered without a model.
Replay(s, q) ==
    /\ Gate(s)
    /\ ReplayStored(q)
    /\ UNCHANGED <<policy, process, calls, taint>>

\* A conflicting new request still settles the abandoned reservation.
Supersede(s, q) ==
    /\ Gate(s)
    /\ Supersedes(q)
    /\ Settle
    /\ UNCHANGED <<policy, process, calls, taint, told>>

\* Help is inserted and completed in one transaction, without a permit.
Help(s, q) ==
    /\ Gate(s)
    /\ Proceeds(q)
    /\ q.input \in HelpInputs
    /\ threadRevision' = SettledRevision + 1
    /\ turn' = [SettledTurn EXCEPT ![q.id] =
                   [AbsentTurn EXCEPT !.state = "neutral", !.input = q.input,
                                      !.expected = q.expected,
                                      !.ordinal = SettledRevision + 1,
                                      !.reason = "assistant_help"]]
    /\ Tell(q.id)
    /\ UNCHANGED <<policy, process, calls, taint>>

\* Anything else goes on to preflight, having committed the settlement.
Submit(w, s, q) ==
    /\ worker[w] = IdleWorker
    /\ Gate(s)
    /\ Proceeds(q)
    /\ q.input \notin HelpInputs
    /\ Settle
    /\ worker' = [worker EXCEPT ![w] =
                     [IdleWorker EXCEPT !.stage = "resolved", !.session = s, !.request = q]]
    /\ UNCHANGED <<policy, permit, holder, calls, taint, told>>

----------------------------------------------------------------------------
(* The handler, from admission to its response.                            *)

At(w, stage) == worker[w].stage = stage
Advance(w, stage) == worker' = [worker EXCEPT ![w].stage = stage]

\* Mutant of Leave: an exception leaves its transaction open.
LeaveLocked(w) ==
    /\ worker' = [worker EXCEPT ![w] = IdleWorker]
    /\ permit' = IF permit = w THEN None ELSE permit
    /\ UNCHANGED holder

\* The handler returns or raises; its permit and its transaction are released.
Leave(w) ==
    /\ worker' = [worker EXCEPT ![w] = IdleWorker]
    /\ permit' = IF permit = w THEN None ELSE permit
    /\ holder' = IF holder = w THEN None ELSE holder

\* try_acquire_generation: capacity one, no waiting.
Acquire(w) ==
    /\ At(w, "resolved")
    /\ permit = None
    /\ permit' = w
    /\ Advance(w, "admitted")
    /\ UNCHANGED <<policy, db, holder, calls, told>>

\* InferenceBusyError: the request leaves no trace beyond its settlement.
Reject(w) ==
    /\ At(w, "resolved")
    /\ permit # None
    /\ Leave(w)
    /\ UNCHANGED <<policy, db, calls, told>>

Reserve(w) ==
    /\ At(w, "admitted")
    /\ Gate(worker[w].session)
    /\ Proceeds(worker[w].request)
    /\ turn' = Insert(worker[w].request)
    /\ threadRevision' = SettledRevision
    /\ worker' = [worker EXCEPT ![w].stage = "preparing", ![w].attempt = 1]
    /\ UNCHANGED <<policy, permit, holder, calls, taint, told>>

\* Another handler got in between the two resolutions of this request.
ReserveReplay(w) ==
    /\ At(w, "admitted")
    /\ Gate(worker[w].session)
    /\ ReplayStored(worker[w].request)
    /\ Leave(w)
    /\ UNCHANGED <<policy, calls, taint>>

\* A conflict: another request runs, the identifier is taken by another
\* payload, or the thread has moved on.
ReserveConflict(w) ==
    /\ At(w, "admitted")
    /\ Gate(worker[w].session)
    /\ ~Proceeds(worker[w].request) /\ ~Replays(worker[w].request)
    /\ IF Supersedes(worker[w].request) THEN Settle ELSE UNCHANGED <<turn, threadRevision>>
    /\ Leave(w)
    /\ UNCHANGED <<policy, calls, taint, told>>

Newer(r) == {p \in Requests : turn[p].state = "available" /\ turn[p].ordinal > turn[r].ordinal}
\* load_prior_turns: the newest available turns, whoever asked for them.
PriorTurns == {r \in Requests : turn[r].state = "available" /\ Cardinality(Newer(r)) < Window}
\* filter_history: a pair survives only if its whole closure is readable.
UsableTurns(prior) == {r \in prior : turn[r].refs # {} /\ turn[r].refs \subseteq readable}

\* Mutant of Closure: the sources of the prior turns are not inherited.
ClosureOfChunks(chunks, history) == chunks
\* context_refs: what the context quotes, with everything its prior turns rest on.
Closure(chunks, history) == chunks \cup UNION {turn[r].refs : r \in history}
\* bound_context drops the oldest pairs first.
Bounded(history, usable) ==
    /\ history \subseteq usable
    /\ \A r \in history : Newer(r) \cap usable \subseteq history

\* Every ref that has influenced what the model is given.
Influence(context) == context.chunks \cup UNION {taint[r] : r \in context.history}

\* A neutral outcome of this attempt, still uncommitted.
GiveUp(w, reason) ==
    worker' = [worker EXCEPT ![w].stage = "completing", ![w].outcome = reason]

\* prepare_origin_context: what fits of chunks and history under the present
\* policy, bound to its revision, with its next stage.
Bind(w, chunks, history, stage) ==
    worker' = [worker EXCEPT
        ![w].stage = stage,
        ![w].context = [revision |-> policyRevision, chunks |-> chunks,
                        history |-> history, refs |-> Closure(chunks, history)]]

\* Retrieval, prior turns and prepare_context in one shared transaction.
Prepare(w) ==
    /\ At(w, "preparing")
    /\ Usable(worker[w].session)
    /\ \E chunks \in SUBSET readable, history \in SUBSET PriorTurns :
          /\ Bounded(history, UsableTurns(PriorTurns))
          /\ IF Closure(chunks, history) = {}
             THEN GiveUp(w, "no_context")
             ELSE Bind(w, chunks, history, IF PlansRelevance THEN "planning" ELSE "prepared")
    /\ UNCHANGED <<policy, db, permit, holder, calls, told>>

\* plan_generation prepares the same rows again under the policy of its own
\* transaction and keeps the plan only if the closure is unchanged.
Plan(w) ==
    /\ At(w, "planning")
    /\ Usable(worker[w].session)
    /\ LET old == worker[w].context IN
       \E chunks \in SUBSET (old.chunks \cap readable), history \in SUBSET old.history :
          /\ Bounded(history, UsableTurns(old.history))
          /\ IF Closure(chunks, history) = old.refs
             THEN Bind(w, chunks, history, "prepared")
             ELSE GiveUp(w, "policy_changed")
    /\ UNCHANGED <<policy, db, permit, holder, calls, told>>

\* Failures that the handler turns into a neutral outcome: no embedding or
\* search, a policy port failure, a time limit, an irrelevant context.
Fail(w) ==
    /\ \/ /\ worker[w].stage \in {"preparing", "planning"}
          /\ \E reason \in {"generation_unavailable", "policy_changed", "no_context"} :
                GiveUp(w, reason)
       \/ /\ worker[w].stage \in {"prepared", "inferring"}
          /\ GiveUp(w, "generation_unavailable")
    /\ UNCHANGED <<policy, db, permit, holder, calls, told>>

\* Mutant of Completable: only the request's revision is compared.
CompletableOnce(q) == turn[q.id].expected = q.expected

\* The reservation is still the one this handler made, on the thread it saw.
Completable(q) ==
    /\ Pending(q.id)
    /\ turn[q.id].expected = q.expected
    /\ threadRevision = q.expected

\* _active: the last check before the model sees the context.
Activate(w) ==
    /\ At(w, "prepared")
    /\ Gate(worker[w].session)
    /\ LET q == worker[w].request IN
       IF /\ Completable(q)
          /\ Running(q.id)
          /\ worker[w].context.refs \subseteq readable
       THEN /\ Advance(w, "inferring")
            /\ calls' = [calls EXCEPT ![q.id] = @ + 1]
       ELSE GiveUp(w, "interrupted") /\ UNCHANGED calls
    /\ UNCHANGED <<policy, db, permit, holder, told>>

Infer(w) ==
    /\ At(w, "inferring")
    /\ GiveUp(w, "generated")
    /\ UNCHANGED <<policy, db, permit, holder, calls, told>>

\* release_result: a stale revision is discovered before a denied source.
Release(context) ==
    CASE context.revision # policyRevision -> "stale"
      [] ~(context.refs \subseteq readable) -> "policy_changed"
      [] ~(context.history \subseteq PriorTurns) -> "policy_changed"
      [] OTHER -> "released"

\* Mutant of Verdict: an output goes to the write without release_result.
VerdictUnreleased(w) ==
    IF Lapsed(worker[w].request.id) THEN "interrupted" ELSE worker[w].outcome

\* What the first clock read and the release gate make of an outcome.
Verdict(w) ==
    IF Lapsed(worker[w].request.id) THEN "interrupted"
    ELSE IF worker[w].outcome = "generated" THEN Release(worker[w].context)
    ELSE worker[w].outcome

\* The completing transaction, up to its decision.
Authorize(w) ==
    /\ At(w, "completing")
    /\ Gate(worker[w].session)
    /\ Completable(worker[w].request)
    /\ worker' = [worker EXCEPT ![w].stage = "releasing", ![w].outcome = Verdict(w)]
    /\ holder' = w
    /\ UNCHANGED <<policy, db, permit, calls, told>>

\* The turn was finished by someone else while this handler was away: the
\* stored result is returned (a conflict if the turn is pending after all).
CompleteReplay(w) ==
    /\ At(w, "completing")
    /\ Gate(worker[w].session)
    /\ ~Completable(worker[w].request)
    /\ UNCHANGED turn
    /\ IF Pending(worker[w].request.id) THEN UNCHANGED told ELSE Tell(worker[w].request.id)
    /\ Leave(w)
    /\ UNCHANGED <<policy, threadRevision, taint, calls>>

\* Mutant of Decision: the clock is read once.
DecisionOnce(w) == worker[w].outcome

\* The second clock read of the transaction overrides whatever was decided.
Decision(w) == IF Lapsed(worker[w].request.id) THEN "interrupted" ELSE worker[w].outcome

\* Mutant of RetriesLeft: a stale attempt is always repeated.
RetriesForEver(w) == TRUE
RetriesLeft(w) == worker[w].attempt < MaxAttempts

\* Neither the discarded output nor its context outlives the attempt.
NextAttempt(state) == [state EXCEPT !.stage = "preparing", !.attempt = @ + 1,
                                    !.context = NoContext, !.outcome = "none"]
Exhausted(state) == [state EXCEPT !.stage = "completing",
                                  !.context = NoContext, !.outcome = "policy_changed"]

\* Nothing is written for a stale attempt: try again, or refuse for good.
Discard(w) ==
    /\ At(w, "releasing")
    /\ Usable(worker[w].session)
    /\ Decision(w) = "stale"
    /\ worker' = [worker EXCEPT ![w] = IF RetriesLeft(w) THEN NextAttempt(@) ELSE Exhausted(@)]
    /\ holder' = None
    /\ UNCHANGED <<policy, db, permit, calls, told>>

\* complete_turn, the projection of its result, commit, response.
Commit(w) ==
    /\ At(w, "releasing")
    /\ Usable(worker[w].session)
    /\ Decision(w) # "stale"
    /\ LET r == worker[w].request.id
           context == worker[w].context IN
          /\ IF Decision(w) = "released"
             THEN /\ turn' = [turn EXCEPT ![r] = Finished(@, "available", "none", context.refs)]
                  /\ taint' = [taint EXCEPT ![r] = Influence(context)]
             ELSE /\ turn' = [turn EXCEPT ![r] = Refuse(@, Decision(w))]
                  /\ UNCHANGED taint
          /\ threadRevision' = threadRevision + 1
          /\ Tell(r)
    /\ Leave(w)
    /\ UNCHANGED <<policy, calls>>

\* An exception leaves the handler: an open transaction rolls back, a
\* reservation already committed stays pending until its lease lapses.
Abort(w) ==
    /\ ~At(w, "idle")
    /\ Leave(w)
    /\ UNCHANGED <<policy, db, calls, told>>

\* The API process dies: handlers, permit and open transactions are gone.
Restart ==
    /\ worker # [w \in Workers |-> IdleWorker]
    /\ worker' = [w \in Workers |-> IdleWorker]
    /\ permit' = None
    /\ holder' = None
    /\ UNCHANGED <<policy, db, calls, told>>

----------------------------------------------------------------------------
(* Everyone else.                                                          *)

\* read_thread projects the owner's turns under the thread lock.
ReadThread(s) ==
    /\ Gate(s)
    /\ told' = [r \in Requests |-> told[r] \cup Shown(turn[r])]
    /\ UNCHANGED <<policy, db, process, calls>>

\* Mutant of PolicyFree: a mutation does not wait for shared holders.
PolicyShared == TRUE
\* The exclusive policy lock is available.
PolicyFree == holder = None

Source == INSTANCE PolicySource WITH revision <- policyRevision

elsewhere == <<threadRevision, turn, worker, permit, holder, calls, taint, told>>

\* A policy mutation excludes every transaction that holds a share.
Mutate ==
    /\ PolicyFree
    /\ policyRevision < MaxPolicy
    /\ Source!Mutate
    /\ UNCHANGED elsewhere

Revoke(s) ==
    /\ PolicyFree
    /\ policyRevision < MaxPolicy
    /\ Source!Revoke(s)
    /\ UNCHANGED elsewhere

\* Expiry needs no lock: it can fall inside a transaction.
Expire(s) == Source!Expire(s) /\ UNCHANGED elsewhere

\* A later login; no handler carries the new session's token yet.
Login(s) ==
    /\ \A w \in Workers : worker[w].session # s
    /\ Source!Login(s)
    /\ UNCHANGED elsewhere

Aged(t) == [t EXCEPT !.lease = IF @ > 0 THEN @ - 1 ELSE 0]

Tick ==
    /\ \E r \in Requests : turn[r].lease > 0
    /\ turn' = [r \in Requests |-> Aged(turn[r])]
    /\ UNCHANGED <<policy, threadRevision, taint, process, calls, told>>

\* Every step of a handler that its own code takes.
Handle(w) ==
    \/ Acquire(w) \/ Reject(w) \/ Reserve(w) \/ ReserveReplay(w) \/ ReserveConflict(w)
    \/ Prepare(w) \/ Plan(w) \/ Fail(w) \/ Activate(w) \/ Infer(w)
    \/ Authorize(w) \/ CompleteReplay(w) \/ Discard(w) \/ Commit(w)

\* The first transaction of a client's request.
Ask(s, q) ==
    \/ Replay(s, q) \/ Supersede(s, q) \/ Help(s, q)
    \/ \E w \in Workers : Submit(w, s, q)

\* Payloads worth asking: a revision beyond the next settlement conflicts
\* like any other wrong one.
Askable == [id: Requests, input: Inputs, expected: 0..(threadRevision + 1)]

Environment ==
    \/ \E s \in Sessions : ReadThread(s) \/ Revoke(s) \/ Expire(s) \/ Login(s)
    \/ Mutate \/ Tick \/ Restart

Next ==
    \/ \E s \in Sessions, q \in Askable : Ask(s, q)
    \/ \E w \in Workers : Handle(w) \/ Abort(w)
    \/ Environment

Spec == Init /\ [][Next]_vars

\* A handler whose session has gone raises at its next gate.
Unauthenticated(w) == ~Usable(worker[w].session) /\ Abort(w)

\* The client repeats its request unchanged while the turn is pending.
Retry(r) ==
    /\ Pending(r)
    /\ \E s \in Sessions : Replay(s, [id |-> r, input |-> turn[r].input,
                                       expected |-> turn[r].expected])

\* The event loop runs every handler that can run.
FairHandlers == \A w \in Workers : WF_vars(Handle(w) \/ Unauthenticated(w))

----------------------------------------------------------------------------
(* Properties.                                                             *)

\* ck_chat_turns_state, the trigger that keeps sources to answers, and the lease
\* that complete_turn clears: the shapes a row may have.
RowFits(t) ==
    /\ t.state = "pending" => t.ordinal = 0 /\ t.reason = "none" /\ t.refs = {}
    /\ t.state = "available" => t.ordinal > 0 /\ t.reason = "none"
    /\ t.state = "neutral" => t.ordinal > 0 /\ t.reason \in NeutralReasons /\ t.refs = {}
    /\ t.state # "pending" => t.lease = 0

Rows == {t \in Turns : RowFits(t)}

ThreadType == threadRevision \in Nat /\ turn \in [Requests -> Rows]

PolicyType ==
    /\ policyRevision \in Nat
    /\ readable \in SUBSET Refs
    /\ enabled \in BOOLEAN
    /\ live \in SUBSET Sessions

HistoryType ==
    /\ calls \in [Requests -> Nat]
    /\ taint \in [Requests -> SUBSET Refs]
    /\ told \in [Requests -> SUBSET Outcomes]

\* What a handler can be carrying at the stages that write.
OutcomeFits(state) ==
    /\ state.stage = "completing" => state.outcome \in NeutralReasons \cup {"generated"}
    /\ state.stage = "releasing" => state.outcome \in NeutralReasons \cup {"released", "stale"}

ProcessType ==
    /\ worker \in [Workers -> {IdleWorker} \cup BusyStates]
    /\ \A w \in Workers : OutcomeFits(worker[w])
    /\ permit \in Workers \cup {None}
    /\ holder \in Workers \cup {None}

\* The state has its type, and no uncommitted outcome reaches a write that
\* release_result has not turned into a decision.
TypeOK == ThreadType /\ PolicyType /\ HistoryType /\ ProcessType

\* Between its decision and its commit a handler owns the thread row, and the
\* reservation it decided about is still pending at the revision it reserved.
DecisionStillOwned ==
    \A w \in Workers : At(w, "releasing") =>
        /\ holder = w
        /\ Completable(worker[w].request)

\* At most one turn of a thread is pending, and it expects the revision the
\* thread still has: insert_pending never meets uq_chat_turns_pending and
\* the thread_conflict of ChatCompletion.complete is never returned.
OnePendingTurn ==
    \A r \in Requests : Pending(r) =>
        /\ turn[r].expected = threadRevision
        /\ \A p \in Requests : Pending(p) => p = r

\* complete_turn numbers the finished turns 1..threadRevision without a gap
\* or a repeat, whoever finishes them and in whatever order leases lapse.
OrdinalsContiguous ==
    /\ \A r \in Requests : Terminal(turn[r]) => turn[r].ordinal \in 1..threadRevision
    /\ \A n \in 1..threadRevision : \E r \in Requests :
          /\ Terminal(turn[r]) /\ turn[r].ordinal = n
          /\ \A p \in Requests : Terminal(turn[p]) /\ turn[p].ordinal = n => p = r

\* The stored sources of an answer cover everything that influenced it, the
\* sources of the earlier answers in its context and theirs included, so
\* revoking any of them hides it.
ClosureCoversInfluence ==
    \A r \in Requests : turn[r].state = "available" =>
        turn[r].refs # {} /\ taint[r] \subseteq turn[r].refs

\* However a request is retried, stolen by a lapse or restarted, the model
\* is called for it at most MaxAttempts times in all.
BoundedModelCalls == \A r \in Requests : calls[r] <= MaxAttempts

\* No two responses about a request disagree, whether they come from its
\* handler, a replay or a reading of the thread: whoever was shown
\* "interrupted" because the lease had lapsed is never shown an answer.
ResponsesAgree ==
    \A r \in Requests :
        /\ \A x, y \in told[r] : x = y
        /\ Terminal(turn[r]) =>
              told[r] \subseteq (IF turn[r].state = "available" THEN {"available"}
                                                          ELSE {turn[r].reason})

\* The thread is one story, whoever reads it when: a response once given stands,
\* and the finished turns it comes from are numbered without a gap.
OneStory == OrdinalsContiguous /\ ResponsesAgree

\* A finished turn is never rewritten: a late handler, a retry or a lapse
\* leaves it and its closure as they are.
FinishedTurnsFrozen ==
    [][\A r \in Requests : Terminal(turn[r]) => turn'[r] = turn[r] /\ taint'[r] = taint[r]]_vars

\* An answer is stored only while its lease runs and only if every source
\* that influenced it is readable at that very moment, although retrieval,
\* inference and authorization happened earlier.
AnswersReleasedFresh ==
    [][\A r \in Requests : turn[r].state # "available" /\ turn'[r].state = "available" =>
          /\ Running(r)
          /\ taint'[r] \subseteq readable'
          /\ \A p \in Requests : p # r => turn'[p] = turn[p]]_vars

\* Every handler returns to its caller, through any policy change, stale
\* attempt or loss of its session: none waits for a lock or a permit for ever.
HandlersReturn == \A w \in Workers : ~At(w, "idle") ~> At(w, "idle")

----------------------------------------------------------------------------
(* The promise.                                                            *)

\* The finished rows in the order of their numbers, as the log they make.
Stored(rows, n) == CHOOSE r \in Requests : Terminal(rows[r]) /\ rows[r].ordinal = n
Outcome(t) == IF t.state = "available" THEN "available" ELSE t.reason
Entries(rows, revision) ==
    [n \in 1..revision |-> [request |-> Stored(rows, n), outcome |-> Outcome(rows[Stored(rows, n)])]]

Log == INSTANCE ThreadLog WITH
    log <- Entries(turn, threadRevision),
    open <- {r \in Requests : Pending(r)},
    doomed <- \E r \in Requests : Lapsed(r),
    announced <- told

\* The chat protocol implements the log: exactly once, append only, one
\* request open, nothing announced that the log will not bear out.
ImplementsLog == Log!Spec
============================================================================
