-------------------------- MODULE ChatTurnsProofs --------------------------
(***************************************************************************)
(* Proofs about ChatTurns, for any number of requests, handlers, sessions, *)
(* sources, attempts and policy changes: the reservation and its history,  *)
(* then that answers are released under the policy of their commit and     *)
(* carry everything that influenced them, and at the end that the thread   *)
(* implements the log of ThreadLog.                                        *)
(***************************************************************************)
EXTENDS ChatTurns, SequenceTheorems, TLAPS

----------------------------------------------------------------------------
(* What each write of the thread leaves in a row.                          *)

LEMMA FinishedRow ==
    ASSUME ThreadType, NEW t \in Turns, NEW refs \in SUBSET Refs
    PROVE  /\ Finished(t, "available", "none", refs) \in Rows
           /\ Finished(t, "available", "none", refs).state = "available"
           /\ Finished(t, "available", "none", refs).refs = refs
           /\ Finished(t, "available", "none", refs).ordinal = threadRevision + 1
<1>1. 0 \in 0..Lease /\ threadRevision + 1 \in Nat /\ threadRevision + 1 > 0
  BY ChatAssumption DEF ThreadType, ChatAssumption
<1>2. Finished(t, "available", "none", refs) \in Turns
  BY <1>1 DEF Turns, Finished, TurnStates
<1>3. QED
  BY <1>1, <1>2 DEF Rows, RowFits, Finished, Turns

LEMMA RefusedRow ==
    ASSUME ThreadType, NEW t \in Turns, NEW reason \in NeutralReasons
    PROVE  /\ Refuse(t, reason) \in Rows
           /\ Refuse(t, reason).state = "neutral"
           /\ Refuse(t, reason).ordinal = threadRevision + 1
<1>1. 0 \in 0..Lease /\ threadRevision + 1 \in Nat /\ threadRevision + 1 > 0
  BY ChatAssumption DEF ThreadType, ChatAssumption
<1>2. Refuse(t, reason) \in Turns
  BY <1>1 DEF Turns, Refuse, Finished, TurnStates
<1>3. QED
  BY <1>1, <1>2 DEF Rows, RowFits, Refuse, Finished, Turns

LEMMA SettledRows ==
    ASSUME ThreadType
    PROVE  /\ SettledTurn \in [Requests -> Rows]
           /\ SettledRevision \in Nat
<1>1. "interrupted" \in NeutralReasons /\ Rows \subseteq Turns
  BY DEF NeutralReasons, Rows
<1>2. \A r \in Requests : Refuse(turn[r], "interrupted") \in Rows
  BY <1>1, RefusedRow DEF ThreadType
<1>3. QED
  BY <1>2 DEF SettledTurn, SettledRevision, ThreadType

\* The row insert_pending writes.
NewRow(q) == [AbsentTurn EXCEPT !.state = "pending", !.input = q.input,
                                !.expected = q.expected, !.lease = Lease]

LEMMA NewRowFits ==
    ASSUME NEW q \in Payloads
    PROVE  /\ NewRow(q) \in Rows
           /\ NewRow(q).state = "pending"
           /\ NewRow(q).expected = q.expected
<1>1. Lease \in 0..Lease /\ q.input \in Inputs /\ q.expected \in Nat
  BY ChatAssumption DEF ChatAssumption, Payloads
<1>2. NewRow(q) \in Turns
  BY <1>1 DEF NewRow, Turns, TurnStates, AbsentTurn
<1>3. QED
  BY <1>2 DEF Rows, RowFits, NewRow, AbsentTurn

LEMMA InsertRows ==
    ASSUME ThreadType, NEW q \in Payloads
    PROVE  /\ Insert(q) \in [Requests -> Rows]
           /\ Insert(q) = [SettledTurn EXCEPT ![q.id] = NewRow(q)]
BY SettledRows, NewRowFits DEF Insert, NewRow

\* The row complete_help leaves.
HelpRow(q) == [AbsentTurn EXCEPT !.state = "neutral", !.input = q.input,
                                 !.expected = q.expected,
                                 !.ordinal = SettledRevision + 1,
                                 !.reason = "assistant_help"]

LEMMA HelpRowFits ==
    ASSUME ThreadType, NEW q \in Payloads
    PROVE  /\ HelpRow(q) \in Rows
           /\ HelpRow(q).state = "neutral"
           /\ HelpRow(q).ordinal = SettledRevision + 1
<1>1. /\ 0 \in 0..Lease /\ q.input \in Inputs /\ q.expected \in Nat
      /\ SettledRevision + 1 \in Nat /\ SettledRevision + 1 > 0
  BY SettledRows, ChatAssumption DEF ChatAssumption, Payloads
<1>2. HelpRow(q) \in Turns
  BY <1>1 DEF HelpRow, Turns, TurnStates, AbsentTurn, NeutralReasons
<1>3. QED
  BY <1>1, <1>2 DEF Rows, RowFits, HelpRow, AbsentTurn, NeutralReasons

LEMMA AgedRow ==
    ASSUME NEW t \in Rows
    PROVE  /\ Aged(t) \in Rows
           /\ Aged(t).state = t.state /\ Aged(t).expected = t.expected
           /\ Aged(t).ordinal = t.ordinal /\ Aged(t).refs = t.refs
           /\ t.state # "pending" => Aged(t) = t
<1>1. t \in Turns /\ t.lease \in 0..Lease /\ Lease \in Nat
  BY ChatAssumption DEF ChatAssumption, Rows, Turns
<1>2. (IF t.lease > 0 THEN t.lease - 1 ELSE 0) \in 0..Lease
  BY <1>1
<1>3. Aged(t) = [t EXCEPT !.lease = IF t.lease > 0 THEN t.lease - 1 ELSE 0]
  BY DEF Aged
<1>4. Aged(t) \in Turns
  BY <1>1, <1>2, <1>3 DEF Turns
<1>5. t.lease = 0 => Aged(t) = t
  BY <1>1, <1>3 DEF Turns
<1>6. QED
  BY <1>1, <1>3, <1>4, <1>5 DEF Rows, RowFits, Turns

LEMMA ShownTyped ==
    ASSUME NEW t \in Rows
    PROVE  Shown(t) \in SUBSET Outcomes
BY DEF Shown, Rows, RowFits, Outcomes, NeutralReasons, Turns, TurnStates

----------------------------------------------------------------------------
(* What each effect leaves typed.                                          *)

LEMMA TellTyped ==
    ASSUME HistoryType, turn' \in [Requests -> Rows], NEW r \in Requests, Tell(r)
    PROVE  told' \in [Requests -> SUBSET Outcomes]
BY ShownTyped DEF Tell, HistoryType

LEMMA LeaveTyped ==
    ASSUME ProcessType, NEW w \in Workers, Leave(w)
    PROVE  ProcessType'
<1>1. worker'[w] = IdleWorker /\ OutcomeFits(IdleWorker)
  BY DEF Leave, ProcessType, OutcomeFits, IdleWorker
<1>2. \A v \in Workers : v # w => worker'[v] = worker[v]
  BY DEF Leave, ProcessType
<1>3. \A v \in Workers : OutcomeFits(worker'[v])
  BY <1>1, <1>2 DEF ProcessType
<1>4. QED
  BY <1>3 DEF Leave, ProcessType, OutcomeFits

LEMMA StepTyped ==
    ASSUME ProcessType, NEW w \in Workers, NEW state \in {IdleWorker} \cup BusyStates,
           OutcomeFits(state), worker' = [worker EXCEPT ![w] = state],
           permit' \in Workers \cup {None}, holder' \in Workers \cup {None}
    PROVE  ProcessType'
<1>1. \A v \in Workers : worker'[v] = IF v = w THEN state ELSE worker[v]
  BY DEF ProcessType
<1>2. \A v \in Workers : OutcomeFits(worker'[v])
  BY <1>1 DEF ProcessType
<1>3. QED
  BY <1>2 DEF ProcessType, OutcomeFits

LEMMA BusyTyped ==
    ASSUME ProcessType, NEW w \in Workers, worker[w].stage # "idle"
    PROVE  worker[w] \in BusyStates
BY DEF ProcessType, IdleWorker

LEMMA ReplayTyped ==
    ASSUME ThreadType, HistoryType, NEW q \in Payloads, ReplayStored(q)
    PROVE  ThreadType' /\ told' \in [Requests -> SUBSET Outcomes]
<1>1. q.id \in Requests
  BY DEF Payloads
<1>2. threadRevision' \in Nat /\ turn' \in [Requests -> Rows]
  BY SettledRows DEF ReplayStored, Settle, ThreadType
<1>3. QED
  BY <1>1, <1>2, TellTyped DEF ReplayStored, ThreadType

LEMMA ContextTyped ==
    ASSUME NEW revision \in Nat, NEW chunks \in SUBSET Refs, NEW history \in SUBSET Requests,
           ThreadType
    PROVE  [revision |-> revision, chunks |-> chunks, history |-> history,
            refs |-> Closure(chunks, history)] \in Contexts
<1>1. \A r \in history : turn[r].refs \in SUBSET Refs
  BY DEF ThreadType, Rows, Turns
<1>2. Closure(chunks, history) \in SUBSET Refs
  BY <1>1 DEF Closure
<1>3. QED
  BY <1>2 DEF Contexts

LEMMA GiveUpTyped ==
    ASSUME ProcessType, NEW w \in Workers, worker[w].stage # "idle",
           NEW reason \in NeutralReasons \cup {"generated"}, GiveUp(w, reason),
           UNCHANGED <<permit, holder>>
    PROVE  ProcessType'
<1> DEFINE next == [worker[w] EXCEPT !.stage = "completing", !.outcome = reason]
<1>1. worker' = [worker EXCEPT ![w] = next]
  BY DEF GiveUp
<1>2. next \in BusyStates /\ OutcomeFits(next)
  BY BusyTyped DEF BusyStates, Stages, Results, OutcomeFits
<1>3. QED
  BY <1>1, <1>2, StepTyped DEF ProcessType

LEMMA BindTyped ==
    ASSUME TypeOK, NEW w \in Workers, worker[w].stage # "idle",
           NEW chunks \in SUBSET Refs, NEW history \in SUBSET Requests,
           NEW stage \in {"planning", "prepared"}, Bind(w, chunks, history, stage),
           UNCHANGED <<permit, holder>>
    PROVE  ProcessType'
<1> DEFINE context == [revision |-> policyRevision, chunks |-> chunks, history |-> history,
                       refs |-> Closure(chunks, history)]
           next == [worker[w] EXCEPT !.stage = stage, !.context = context]
<1>1. worker' = [worker EXCEPT ![w] = next]
  BY DEF Bind
<1>2. context \in Contexts
  BY ContextTyped DEF TypeOK, PolicyType
<1>3. next \in BusyStates /\ OutcomeFits(next)
  BY <1>2, BusyTyped DEF TypeOK, BusyStates, Stages, OutcomeFits
<1>4. QED
  BY <1>1, <1>3, StepTyped DEF TypeOK, ProcessType

LEMMA AdvanceTyped ==
    ASSUME ProcessType, NEW w \in Workers, worker[w].stage # "idle",
           NEW stage \in {"admitted", "inferring"}, Advance(w, stage),
           permit' \in Workers \cup {None}, holder' \in Workers \cup {None}
    PROVE  ProcessType'
<1> DEFINE next == [worker[w] EXCEPT !.stage = stage]
<1>1. worker' = [worker EXCEPT ![w] = next]
  BY DEF Advance
<1>2. next \in BusyStates /\ OutcomeFits(next)
  BY BusyTyped DEF BusyStates, Stages, OutcomeFits
<1>3. QED
  BY <1>1, <1>2, StepTyped

LEMMA AskTyped ==
    ASSUME TypeOK, NEW s \in Sessions, NEW q \in Payloads, Ask(s, q)
    PROVE  TypeOK'
<1> USE DEF TypeOK, policy, process
<1>1. q.id \in Requests /\ q.expected \in Nat /\ q.input \in Inputs
  BY DEF Payloads
<1>2. CASE Replay(s, q)
  BY <1>2, ReplayTyped DEF Replay, HistoryType, PolicyType, ProcessType, OutcomeFits
<1>3. CASE Supersede(s, q)
  <2>1. ThreadType'
    BY <1>3, SettledRows DEF Supersede, Settle, ThreadType
  <2>2. QED
    BY <1>3, <2>1 DEF Supersede, HistoryType, PolicyType, ProcessType, OutcomeFits
<1>4. CASE Help(s, q)
  <2>1. turn' = [SettledTurn EXCEPT ![q.id] = HelpRow(q)]
    BY <1>4 DEF Help, HelpRow
  <2>2. ThreadType'
    BY <1>1, <1>4, <2>1, SettledRows, HelpRowFits DEF Help, ThreadType
  <2>3. HistoryType'
    BY <1>1, <1>4, <2>2, TellTyped DEF Help, ThreadType, HistoryType
  <2>4. QED
    BY <1>4, <2>2, <2>3 DEF Help, PolicyType, ProcessType, OutcomeFits
<1>5. CASE \E w \in Workers : Submit(w, s, q)
  <2> PICK w \in Workers : Submit(w, s, q)
    BY <1>5
  <2> DEFINE next == [IdleWorker EXCEPT !.stage = "resolved", !.session = s, !.request = q]
  <2>1. next \in BusyStates /\ OutcomeFits(next)
    BY DEF IdleWorker, BusyStates, Stages, Results, NoContext, Contexts, OutcomeFits
  <2>2. worker' = [worker EXCEPT ![w] = next]
    BY DEF Submit
  <2>3. ProcessType'
    BY <2>1, <2>2, StepTyped DEF Submit, ProcessType
  <2>4. ThreadType'
    BY SettledRows DEF Submit, Settle, ThreadType
  <2>5. QED
    BY <2>3, <2>4 DEF Submit, HistoryType, PolicyType
<1>6. QED
  BY <1>2, <1>3, <1>4, <1>5 DEF Ask

LEMMA HandleTyped ==
    ASSUME TypeOK, NEW w \in Workers, Handle(w) \/ Abort(w)
    PROVE  TypeOK'
<1> USE DEF TypeOK, policy, db
<1> DEFINE q == worker[w].request
<1>0. /\ worker[w].stage # "idle"
      /\ worker[w] \in BusyStates
      /\ q \in Payloads /\ q.id \in Requests /\ q.expected \in Nat
  <2>1. worker[w].stage # "idle"
    BY DEF Handle, Acquire, Reject, Reserve, ReserveReplay, ReserveConflict, Prepare, Plan,
           Fail, Activate, Infer, Authorize, CompleteReplay, Discard, Commit, Abort, At
  <2>2. QED
    BY <2>1, BusyTyped DEF BusyStates, Payloads
<1>1. CASE Acquire(w)
  <2>1. ProcessType'
    BY <1>0, <1>1, AdvanceTyped DEF Acquire, ProcessType
  <2>2. QED
    BY <1>1, <2>1 DEF Acquire, ThreadType, HistoryType, PolicyType
<1>2. CASE Reject(w) \/ Abort(w)
  BY <1>2, LeaveTyped DEF Reject, Abort, ThreadType, HistoryType, PolicyType
<1>3. CASE Reserve(w)
  <2> DEFINE next == [worker[w] EXCEPT !.stage = "preparing", !.attempt = 1]
  <2>1. next \in BusyStates /\ OutcomeFits(next)
    BY <1>0 DEF BusyStates, Stages, OutcomeFits
  <2>2. worker' = [worker EXCEPT ![w] = next]
    BY <1>3 DEF Reserve
  <2>3. ProcessType'
    BY <1>3, <2>1, <2>2, StepTyped DEF Reserve, ProcessType
  <2>4. ThreadType'
    BY <1>0, <1>3, SettledRows, InsertRows DEF Reserve, ThreadType
  <2>5. QED
    BY <1>3, <2>3, <2>4 DEF Reserve, HistoryType, PolicyType
<1>4. CASE ReserveReplay(w)
  BY <1>0, <1>4, ReplayTyped, LeaveTyped DEF ReserveReplay, HistoryType, PolicyType
<1>5. CASE ReserveConflict(w)
  <2>1. ThreadType'
    BY <1>5, SettledRows DEF ReserveConflict, Settle, ThreadType
  <2>2. QED
    BY <1>5, <2>1, LeaveTyped DEF ReserveConflict, HistoryType, PolicyType
<1>6. CASE Prepare(w)
  <2>1. PICK chunks \in SUBSET readable, history \in SUBSET PriorTurns :
            IF Closure(chunks, history) = {}
            THEN GiveUp(w, "no_context")
            ELSE Bind(w, chunks, history, IF PlansRelevance THEN "planning" ELSE "prepared")
    BY <1>6 DEF Prepare
  <2>2. chunks \in SUBSET Refs /\ history \in SUBSET Requests
    BY DEF PolicyType, PriorTurns
  <2>3. ProcessType'
    BY <1>0, <1>6, <2>1, <2>2, GiveUpTyped, BindTyped DEF Prepare, NeutralReasons
  <2>4. QED
    BY <1>6, <2>3 DEF Prepare, ThreadType, HistoryType, PolicyType
<1>7. CASE Plan(w)
  <2> DEFINE old == worker[w].context
  <2>1. PICK chunks \in SUBSET (old.chunks \cap readable), history \in SUBSET old.history :
            IF Closure(chunks, history) = old.refs
            THEN Bind(w, chunks, history, "prepared")
            ELSE GiveUp(w, "policy_changed")
    BY <1>7 DEF Plan
  <2>2. chunks \in SUBSET Refs /\ history \in SUBSET Requests
    BY <1>0 DEF PolicyType, BusyStates, Contexts
  <2>3. ProcessType'
    BY <1>0, <1>7, <2>1, <2>2, GiveUpTyped, BindTyped DEF Plan, NeutralReasons
  <2>4. QED
    BY <1>7, <2>3 DEF Plan, ThreadType, HistoryType, PolicyType
<1>8. CASE Fail(w) \/ Infer(w)
  <2>1. PICK reason \in NeutralReasons \cup {"generated"} : GiveUp(w, reason)
    BY <1>8 DEF Fail, Infer, NeutralReasons
  <2>2. ProcessType'
    BY <1>0, <1>8, <2>1, GiveUpTyped DEF Fail, Infer
  <2>3. QED
    BY <1>8, <2>2 DEF Fail, Infer, ThreadType, HistoryType, PolicyType
<1>9. CASE Activate(w)
  <2>1. \/ Advance(w, "inferring") /\ calls' = [calls EXCEPT ![q.id] = @ + 1]
        \/ GiveUp(w, "interrupted") /\ UNCHANGED calls
    BY <1>9 DEF Activate
  <2>2. UNCHANGED <<permit, holder>>
    BY <1>9 DEF Activate
  <2>3. ProcessType'
    BY <1>0, <2>1, <2>2, AdvanceTyped, GiveUpTyped DEF NeutralReasons, ProcessType
  <2>4. HistoryType'
    BY <1>0, <1>9, <2>1 DEF Activate, HistoryType
  <2>5. QED
    BY <1>9, <2>3, <2>4 DEF Activate, ThreadType, PolicyType
<1>10. CASE Authorize(w)
  <2> DEFINE next == [worker[w] EXCEPT !.stage = "releasing", !.outcome = Verdict(w)]
  <2>1. At(w, "completing")
    BY <1>10 DEF Authorize
  <2>2. worker[w].outcome \in NeutralReasons \cup {"generated"}
    BY <2>1 DEF ProcessType, OutcomeFits, At
  <2>3. Release(worker[w].context) \in {"stale", "policy_changed", "released"}
    BY DEF Release
  <2>4. Verdict(w) \in NeutralReasons \cup {"released", "stale"}
    BY <2>2, <2>3 DEF Verdict, NeutralReasons
  <2>6. next \in BusyStates /\ OutcomeFits(next)
    BY <1>0, <2>4 DEF BusyStates, Stages, Results, OutcomeFits
  <2>7. worker' = [worker EXCEPT ![w] = next]
    BY <1>10 DEF Authorize
  <2>8. ProcessType'
    BY <1>10, <2>6, <2>7, StepTyped DEF Authorize, ProcessType
  <2>9. QED
    BY <1>10, <2>8 DEF Authorize, ThreadType, HistoryType, PolicyType
<1>11. CASE CompleteReplay(w)
  <2>1. ThreadType'
    BY <1>11 DEF CompleteReplay, ThreadType
  <2>2. HistoryType'
    BY <1>0, <1>11, <2>1, TellTyped DEF CompleteReplay, ThreadType, HistoryType
  <2>3. QED
    BY <1>11, <2>1, <2>2, LeaveTyped DEF CompleteReplay, PolicyType
<1>12. CASE Discard(w)
  <2> DEFINE next == IF RetriesLeft(w) THEN NextAttempt(worker[w]) ELSE Exhausted(worker[w])
  <2>1. NoContext \in Contexts
    BY DEF NoContext, Contexts
  <2>2. next \in BusyStates /\ OutcomeFits(next)
    <3>1. NextAttempt(worker[w]) \in BusyStates /\ OutcomeFits(NextAttempt(worker[w]))
      <4> DEFINE state == worker[w]
                 attempt == state.attempt + 1
      <4>1. attempt \in Nat
        BY <1>0 DEF BusyStates
      <4>2. NextAttempt(state) = [state EXCEPT !.stage = "preparing", !.attempt = attempt,
                                               !.context = NoContext, !.outcome = "none"]
        BY DEF NextAttempt
      <4> HIDE DEF attempt
      <4>3. QED
        BY <1>0, <2>1, <4>1, <4>2 DEF BusyStates, Stages, Results, OutcomeFits
    <3>2. Exhausted(worker[w]) \in BusyStates /\ OutcomeFits(Exhausted(worker[w]))
      BY <1>0, <2>1 DEF Exhausted, BusyStates, Stages, Results, OutcomeFits, NeutralReasons
    <3>3. QED
      BY <3>1, <3>2
  <2>3. worker' = [worker EXCEPT ![w] = next]
    BY <1>12 DEF Discard
  <2>4. ProcessType'
    BY <1>12, <2>2, <2>3, StepTyped DEF Discard, ProcessType
  <2>5. QED
    BY <1>12, <2>4 DEF Discard, ThreadType, HistoryType, PolicyType
<1>13. CASE Commit(w)
  <2>1. Decision(w) # "stale" /\ At(w, "releasing")
    BY <1>13 DEF Commit
  <2>2. Decision(w) \in NeutralReasons \cup {"released"}
    BY <2>1 DEF Decision, ProcessType, OutcomeFits, At, NeutralReasons
  <2>3. turn[q.id] \in Turns /\ worker[w].context.refs \in SUBSET Refs
    BY <1>0 DEF ThreadType, Rows, BusyStates, Contexts
  <2>4. threadRevision' \in Nat /\ turn' \in [Requests -> Rows]
    BY <1>0, <1>13, <2>2, <2>3, FinishedRow, RefusedRow DEF Commit, ThreadType
  <2>5. told' \in [Requests -> SUBSET Outcomes]
    BY <1>0, <1>13, <2>4, TellTyped DEF Commit
  <2>6. Influence(worker[w].context) \in SUBSET Refs
    BY <1>0 DEF Influence, HistoryType, BusyStates, Contexts
  <2>7. taint' \in [Requests -> SUBSET Refs]
    BY <1>0, <1>13, <2>6 DEF Commit, HistoryType
  <2>8. QED
    BY <1>13, <2>4, <2>5, <2>7, LeaveTyped DEF Commit, ThreadType, HistoryType, PolicyType
<1>14. QED
  BY <1>1, <1>2, <1>3, <1>4, <1>5, <1>6, <1>7, <1>8, <1>9, <1>10, <1>11, <1>12, <1>13
  DEF Handle

LEMMA EnvironmentTyped ==
    ASSUME TypeOK, Environment
    PROVE  TypeOK'
<1> USE DEF TypeOK, policy, db, process
<1>1. CASE \E s \in Sessions : ReadThread(s)
  <2>1. \A r \in Requests : Shown(turn[r]) \in SUBSET Outcomes
    BY ShownTyped DEF ThreadType
  <2>2. QED
    BY <1>1, <2>1 DEF ReadThread, ThreadType, HistoryType, PolicyType, ProcessType, OutcomeFits
<1>2. CASE \E s \in Sessions : Revoke(s) \/ Expire(s) \/ Login(s)
  BY <1>2 DEF Revoke, Source!Revoke, Expire, Source!Expire, Login, Source!Login, elsewhere,
              ThreadType, HistoryType, PolicyType, ProcessType, OutcomeFits
<1>3. CASE Mutate
  BY <1>3 DEF Mutate, Source!Mutate, elsewhere,
              ThreadType, HistoryType, PolicyType, ProcessType, OutcomeFits
<1>4. CASE Tick
  <2>1. ThreadType'
    BY <1>4, AgedRow DEF Tick, ThreadType
  <2>2. QED
    BY <1>4, <2>1 DEF Tick, HistoryType, PolicyType, ProcessType, OutcomeFits
<1>5. CASE Restart
  <2>1. OutcomeFits(IdleWorker)
    BY DEF OutcomeFits, IdleWorker
  <2>2. ProcessType'
    BY <1>5, <2>1 DEF Restart, ProcessType, OutcomeFits
  <2>3. QED
    BY <1>5, <2>2 DEF Restart, ThreadType, HistoryType, PolicyType
<1>6. QED
  BY <1>1, <1>2, <1>3, <1>4, <1>5 DEF Environment

(* Every step keeps the type, so every reachable state has it: nothing a   *)
(* handler carries reaches a write undecided (ChatCompletion.complete).    *)
LEMMA NextTyped == TypeOK /\ [Next]_vars => TypeOK'
<1> SUFFICES ASSUME TypeOK, [Next]_vars
             PROVE  TypeOK'
  OBVIOUS
<1>1. CASE \E s \in Sessions, q \in Askable : Ask(s, q)
  <2>1. Askable \subseteq Payloads
    BY DEF Askable, Payloads, TypeOK, ThreadType
  <2>2. QED
    BY <1>1, <2>1, AskTyped
<1>2. CASE \E w \in Workers : Handle(w) \/ Abort(w)
  BY <1>2, HandleTyped
<1>3. CASE Environment
  BY <1>3, EnvironmentTyped
<1>4. CASE UNCHANGED vars
  BY <1>4 DEF vars, TypeOK, ThreadType, HistoryType, PolicyType, ProcessType, OutcomeFits
<1>5. QED
  BY <1>1, <1>2, <1>3, <1>4 DEF Next

LEMMA InitTyped == Init => TypeOK
<1> SUFFICES ASSUME Init
             PROVE  TypeOK
  OBVIOUS
<1>1. AbsentTurn \in Rows
  <2>1. 0 \in 0..Lease
    BY ChatAssumption DEF ChatAssumption
  <2>2. QED
    BY <2>1 DEF AbsentTurn, Rows, RowFits, Turns, TurnStates
<1>2. OutcomeFits(IdleWorker)
  BY DEF OutcomeFits, IdleWorker
<1>3. QED
  BY <1>1, <1>2 DEF Init, TypeOK, ThreadType, HistoryType, PolicyType, ProcessType, OutcomeFits

\* The state always has its type, and no uncommitted outcome reaches a write
\* that release_result has not turned into a decision.
THEOREM TypeCorrect == Spec => []TypeOK
BY InitTyped, NextTyped, PTL DEF Spec

----------------------------------------------------------------------------
(* One reservation at a time.                                              *)

LEMMA SettledPending ==
    ASSUME ThreadType, OnePendingTurn,
           NEW r \in Requests, SettledTurn[r].state = "pending"
    PROVE  /\ Running(r)
           /\ SettledTurn[r] = turn[r]
           /\ SettledRevision = threadRevision
           /\ \A p \in Requests : SettledTurn[p].state = "pending" => p = r
<1>1. \A p \in Requests : /\ turn[p] \in Turns /\ turn[p].lease \in Nat
                          /\ Lapsed(p) => SettledTurn[p].state = "neutral"
                          /\ ~Lapsed(p) => SettledTurn[p] = turn[p]
  BY RefusedRow, ChatAssumption
  DEF ThreadType, SettledTurn, Rows, Turns, NeutralReasons, ChatAssumption
<1>2. ~Lapsed(r) /\ SettledTurn[r] = turn[r] /\ Running(r)
  BY <1>1 DEF Lapsed, Running, Pending
<1>3. \A p \in Requests : Pending(p) => p = r
  BY <1>2 DEF OnePendingTurn, Running
<1>4. \A p \in Requests : ~Lapsed(p)
  BY <1>2, <1>3 DEF Lapsed
<1>5. SettledRevision = threadRevision
  BY <1>4 DEF SettledRevision, ThreadType
<1>6. QED
  BY <1>1, <1>2, <1>3, <1>4, <1>5 DEF Pending

LEMMA ProceedsSettled ==
    ASSUME ThreadType, NEW q \in Payloads, Proceeds(q), NEW r \in Requests
    PROVE  SettledTurn[r].state # "pending"
<1>1. turn[r] \in Turns /\ turn[r].lease \in Nat
  BY ChatAssumption DEF ThreadType, Rows, Turns, ChatAssumption
<1>2. CASE Lapsed(r)
  BY <1>1, <1>2, RefusedRow DEF SettledTurn, NeutralReasons
<1>3. CASE ~Lapsed(r)
  BY <1>1, <1>3 DEF SettledTurn, Proceeds, Running, Lapsed, Pending
<1>4. QED
  BY <1>2, <1>3

LEMMA SettleKeepsOnePending ==
    ASSUME ThreadType, OnePendingTurn, Settle
    PROVE  OnePendingTurn'
BY SettledPending DEF Settle, OnePendingTurn, Pending, Running

LEMMA SameThread ==
    ASSUME OnePendingTurn, UNCHANGED <<turn, threadRevision>>
    PROVE  OnePendingTurn'
BY DEF OnePendingTurn, Pending

LEMMA OnlyPending ==
    ASSUME OnePendingTurn, NEW r \in Requests, Pending(r), NEW p \in Requests, p # r
    PROVE  ~Pending(p)
BY DEF OnePendingTurn

\* The stored row of any request after a commit is its old one, except for
\* the committed request, which is finished with the next ordinal.
LEMMA CommitEffect ==
    ASSUME TypeOK, DecisionStillOwned, NEW w \in Workers, Commit(w)
    PROVE  LET r == worker[w].request.id IN
           /\ r \in Requests /\ Pending(r) /\ holder = w
           /\ Completable(worker[w].request)
           /\ threadRevision' = threadRevision + 1
           /\ Terminal(turn'[r]) /\ turn'[r].ordinal = threadRevision + 1
           /\ \A p \in Requests : p # r => turn'[p] = turn[p] /\ taint'[p] = taint[p]
           /\ turn'[r].state = "available" =>
                 /\ Decision(w) = "released"
                 /\ turn'[r].refs = worker[w].context.refs
                 /\ taint'[r] = Influence(worker[w].context)
<1> DEFINE r == worker[w].request.id
<1>1. At(w, "releasing") /\ Decision(w) # "stale"
  BY DEF Commit
<1>2. worker[w] \in BusyStates
  BY <1>1, BusyTyped DEF TypeOK, At
<1>3. r \in Requests /\ worker[w].context.refs \in SUBSET Refs
  BY <1>2 DEF BusyStates, Payloads, Contexts
<1>4. holder = w /\ Completable(worker[w].request)
  BY <1>1 DEF DecisionStillOwned
<1>5. turn[r] \in Turns /\ ThreadType
  BY <1>3 DEF TypeOK, ThreadType, Rows
<1>6. CASE Decision(w) = "released"
  BY <1>3, <1>4, <1>5, <1>6, FinishedRow
  DEF Commit, Completable, TypeOK, ThreadType, HistoryType, Terminal
<1>7. CASE Decision(w) # "released"
  <2>1. Decision(w) \in NeutralReasons
    BY <1>1, <1>7 DEF Decision, TypeOK, ProcessType, OutcomeFits, At, NeutralReasons
  <2>2. QED
    BY <1>3, <1>4, <1>5, <1>7, <2>1, RefusedRow
    DEF Commit, Completable, TypeOK, ThreadType, HistoryType, Terminal
<1>8. QED
  BY <1>6, <1>7

LEMMA OnePendingStep ==
    TypeOK /\ DecisionStillOwned /\ OnePendingTurn /\ [Next]_vars => OnePendingTurn'
<1> SUFFICES ASSUME TypeOK, DecisionStillOwned, OnePendingTurn, [Next]_vars
             PROVE  OnePendingTurn'
  OBVIOUS
<1> USE DEF TypeOK, db, policy
<1>1. ASSUME NEW s \in Sessions, NEW q \in Payloads, Ask(s, q)
      PROVE  OnePendingTurn'
  <2>1. CASE Replay(s, q)
    BY <2>1, SettleKeepsOnePending, SameThread DEF Replay, ReplayStored
  <2>2. CASE Supersede(s, q)
    BY <2>2, SettleKeepsOnePending DEF Supersede
  <2>3. CASE Help(s, q)
    <3>1. q.id \in Requests
      BY DEF Payloads
    <3>2. turn' = [SettledTurn EXCEPT ![q.id] = HelpRow(q)]
      BY <2>3 DEF Help, HelpRow
    <3>3. \A r \in Requests : turn'[r].state # "pending"
      BY <2>3, <3>1, <3>2, HelpRowFits, ProceedsSettled, SettledRows DEF Help
    <3>4. QED
      BY <3>3 DEF OnePendingTurn, Pending
  <2>4. CASE \E w \in Workers : Submit(w, s, q)
    BY <2>4, SettleKeepsOnePending DEF Submit
  <2>5. QED
    BY <1>1, <2>1, <2>2, <2>3, <2>4 DEF Ask
<1>2. ASSUME NEW w \in Workers, Handle(w) \/ Abort(w)
      PROVE  OnePendingTurn'
  <2>1. CASE Reserve(w)
    <3> DEFINE q == worker[w].request
    <3>1. q \in Payloads /\ q.id \in Requests
      <4>1. worker[w] \in BusyStates
        BY <2>1, BusyTyped DEF Reserve, At
      <4>2. QED
        BY <4>1 DEF BusyStates, Payloads
    <3>2. /\ turn' = [SettledTurn EXCEPT ![q.id] = NewRow(q)]
          /\ threadRevision' = SettledRevision /\ q.expected = SettledRevision
      BY <2>1, <3>1, InsertRows DEF Reserve, Proceeds
    <3>3. \A r \in Requests : r # q.id => turn'[r].state # "pending"
      BY <2>1, <3>1, <3>2, ProceedsSettled, SettledRows DEF Reserve
    <3>4. turn'[q.id].expected = threadRevision'
      BY <3>1, <3>2, NewRowFits, SettledRows
    <3>5. QED
      BY <3>3, <3>4 DEF OnePendingTurn, Pending
  <2>2. CASE ReserveReplay(w)
    BY <2>2, SettleKeepsOnePending, SameThread DEF ReserveReplay, ReplayStored
  <2>3. CASE ReserveConflict(w)
    BY <2>3, SettleKeepsOnePending, SameThread DEF ReserveConflict
  <2>4. CASE Commit(w)
    <3> DEFINE r == worker[w].request.id
    <3>1. \A p \in Requests : turn'[p].state # "pending"
      BY <2>4, CommitEffect, OnlyPending DEF Terminal, Pending
    <3>2. QED
      BY <3>1 DEF OnePendingTurn, Pending
  <2>5. CASE Acquire(w) \/ Reject(w) \/ Prepare(w) \/ Plan(w) \/ Fail(w) \/ Activate(w)
             \/ Infer(w) \/ Authorize(w) \/ CompleteReplay(w) \/ Discard(w) \/ Abort(w)
    BY <2>5, SameThread DEF Acquire, Reject, Prepare, Plan, Fail, Activate, Infer, Authorize,
                            CompleteReplay, Discard, Abort
  <2>6. QED
    BY <1>2, <2>1, <2>2, <2>3, <2>4, <2>5 DEF Handle
<1>3. CASE Environment
  <2>1. CASE Tick
    <3>1. \A r \in Requests : turn'[r].state = turn[r].state /\ turn'[r].expected = turn[r].expected
      BY <2>1, AgedRow DEF Tick, ThreadType
    <3>2. QED
      BY <2>1, <3>1 DEF Tick, OnePendingTurn, Pending
  <2>2. CASE ~Tick
    BY <1>3, <2>2, SameThread DEF Environment, ReadThread, Revoke, Expire, Login, Mutate,
                                  elsewhere, Restart
  <2>3. QED
    BY <2>1, <2>2
<1>4. CASE UNCHANGED vars
  BY <1>4, SameThread DEF vars
<1>5. Askable \subseteq Payloads
  BY DEF Askable, Payloads, ThreadType
<1>6. QED
  BY <1>1, <1>2, <1>3, <1>4, <1>5 DEF Next

----------------------------------------------------------------------------
(* Nobody comes between a decision and its commit.                         *)

\* A handler's step leaves the local state of every other handler alone.
LEMMA OthersUntouched ==
    ASSUME ProcessType, NEW w \in Workers, Handle(w) \/ Abort(w),
           NEW v \in Workers, v # w
    PROVE  worker'[v] = worker[v]
<1>1. CASE Acquire(w) \/ Reject(w) \/ Reserve(w) \/ ReserveReplay(w) \/ ReserveConflict(w)
  BY <1>1 DEF Acquire, Reject, Reserve, ReserveReplay, ReserveConflict, Advance, Leave, ProcessType
<1>2. CASE Prepare(w) \/ Plan(w) \/ Fail(w)
  BY <1>2 DEF Prepare, Plan, Fail, Bind, GiveUp, ProcessType
<1>3. CASE Activate(w) \/ Infer(w) \/ Authorize(w) \/ CompleteReplay(w)
  BY <1>3 DEF Activate, Infer, Authorize, CompleteReplay, Advance, GiveUp, Leave, ProcessType
<1>4. CASE Discard(w)
  <2> DEFINE next == IF RetriesLeft(w) THEN NextAttempt(worker[w]) ELSE Exhausted(worker[w])
  <2>1. worker' = [worker EXCEPT ![w] = next]
    BY <1>4 DEF Discard
  <2> HIDE DEF next
  <2>2. QED
    BY <2>1 DEF ProcessType
<1>5. CASE Commit(w) \/ Abort(w)
  BY <1>5 DEF Commit, Abort, Leave, ProcessType
<1>6. QED
  BY <1>1, <1>2, <1>3, <1>4, <1>5 DEF Handle

\* Only Authorize brings a handler to its commit.
LEMMA OnlyAuthorizeDecides ==
    ASSUME ProcessType, NEW w \in Workers, Handle(w) \/ Abort(w), ~Authorize(w)
    PROVE  worker'[w].stage # "releasing"
<1>1. \A state : worker' = [worker EXCEPT ![w] = state] => worker'[w] = state
  BY DEF ProcessType
<1>2. CASE Reject(w) \/ ReserveReplay(w) \/ ReserveConflict(w) \/ CompleteReplay(w)
           \/ Commit(w) \/ Abort(w)
  BY <1>1, <1>2 DEF Reject, ReserveReplay, ReserveConflict, CompleteReplay, Commit, Abort,
                    Leave, IdleWorker
<1>3. CASE Acquire(w) \/ Reserve(w)
  <2>1. worker[w] \in BusyStates
    BY <1>3, BusyTyped DEF Acquire, Reserve, At
  <2>2. QED
    BY <1>3, <2>1 DEF Acquire, Reserve, Advance, ProcessType, BusyStates
<1>4. ASSUME NEW reason, GiveUp(w, reason), worker[w] \in BusyStates
      PROVE  worker'[w].stage # "releasing"
  BY <1>4 DEF GiveUp, ProcessType, BusyStates
<1>5. ASSUME NEW chunks, NEW history, NEW stage \in {"planning", "prepared"},
             Bind(w, chunks, history, stage), worker[w] \in BusyStates
      PROVE  worker'[w].stage # "releasing"
  <2> DEFINE context == [revision |-> policyRevision, chunks |-> chunks, history |-> history,
                         refs |-> Closure(chunks, history)]
  <2>1. worker' = [worker EXCEPT ![w].stage = stage, ![w].context = context]
    BY <1>5 DEF Bind
  <2> HIDE DEF context
  <2>2. QED
    BY <1>5, <2>1 DEF ProcessType, BusyStates
<1>6. CASE Prepare(w) \/ Plan(w) \/ Fail(w) \/ Infer(w)
  <2>1. worker[w] \in BusyStates
    BY <1>6, BusyTyped DEF Prepare, Plan, Fail, Infer, At
  <2>2. QED
    BY <1>4, <1>5, <1>6, <2>1 DEF Prepare, Plan, Fail, Infer
<1>7. CASE Activate(w)
  <2>1. worker[w] \in BusyStates
    BY <1>7, BusyTyped DEF Activate, At
  <2>2. CASE Advance(w, "inferring")
    BY <2>1, <2>2 DEF Advance, ProcessType, BusyStates
  <2>3. QED
    BY <1>4, <1>7, <2>1, <2>2 DEF Activate
<1>8. CASE Discard(w)
  <2>1. worker[w] \in BusyStates
    BY <1>8, BusyTyped DEF Discard, At
  <2>2. NextAttempt(worker[w]).stage = "preparing" /\ Exhausted(worker[w]).stage = "completing"
    BY <2>1 DEF NextAttempt, Exhausted, BusyStates
  <2> DEFINE next == IF RetriesLeft(w) THEN NextAttempt(worker[w]) ELSE Exhausted(worker[w])
  <2>3. worker' = [worker EXCEPT ![w] = next] /\ next.stage # "releasing"
    BY <1>8, <2>2 DEF Discard
  <2> HIDE DEF next
  <2>4. QED
    BY <1>1, <2>3
<1>9. QED
  BY <1>2, <1>3, <1>6, <1>7, <1>8 DEF Handle

\* While no transaction is open, no handler is between decision and commit.
LEMMA FreeMeansUndecided ==
    ASSUME DecisionStillOwned, holder = None, NEW w \in Workers
    PROVE  worker[w].stage # "releasing"
BY ChatAssumption DEF ChatAssumption, DecisionStillOwned, At

LEMMA OwnedStep == TypeOK /\ DecisionStillOwned /\ [Next]_vars => DecisionStillOwned'
<1> SUFFICES ASSUME TypeOK, DecisionStillOwned, [Next]_vars
             PROVE  DecisionStillOwned'
  OBVIOUS
<1> USE DEF TypeOK, db, policy, process
<1>1. ASSUME NEW s \in Sessions, NEW q \in Payloads, Ask(s, q)
      PROVE  DecisionStillOwned'
  <2>1. holder = None
    BY <1>1 DEF Ask, Replay, Supersede, Help, Submit, Gate
  <2>2. CASE \E w \in Workers : Submit(w, s, q)
    <3>1. PICK w \in Workers : Submit(w, s, q)
      BY <2>2
    <3>2. \A v \in Workers : worker'[v].stage # "releasing"
      BY <2>1, <3>1, FreeMeansUndecided DEF Submit, ProcessType, IdleWorker
    <3>3. QED
      BY <3>2 DEF DecisionStillOwned, At
  <2>3. CASE Replay(s, q) \/ Supersede(s, q) \/ Help(s, q)
    BY <2>1, <2>3, FreeMeansUndecided DEF Replay, Supersede, Help, DecisionStillOwned, At
  <2>4. QED
    BY <1>1, <2>2, <2>3 DEF Ask
<1>2. ASSUME NEW w \in Workers, Handle(w) \/ Abort(w)
      PROVE  DecisionStillOwned'
  <2>1. CASE Authorize(w)
    <3>1. holder = None /\ worker[w] \in BusyStates
      BY <2>1, BusyTyped DEF Authorize, Gate, At
    <3>2. \A v \in Workers : v # w => worker'[v].stage # "releasing"
      BY <1>2, <3>1, OthersUntouched, FreeMeansUndecided
    <3>3. worker'[w].request = worker[w].request
      BY <2>1, <3>1 DEF Authorize, ProcessType, BusyStates
    <3>4. QED
      BY <2>1, <3>2, <3>3 DEF Authorize, DecisionStillOwned, At, Completable, Pending
  <2>2. CASE ~Authorize(w)
    <3>1. SUFFICES ASSUME NEW v \in Workers, worker'[v].stage = "releasing"
                   PROVE  holder' = v /\ Completable(worker[v].request)' /\ worker'[v] = worker[v]
      BY DEF DecisionStillOwned, At
    <3>2. v # w /\ worker'[v] = worker[v]
      BY <1>2, <2>2, <3>1, OnlyAuthorizeDecides, OthersUntouched
    <3>3. holder = v /\ Completable(worker[v].request)
      BY <3>1, <3>2 DEF DecisionStillOwned, At
    <3>4. holder # None /\ worker[w].stage # "releasing"
      BY <3>2, <3>3, ChatAssumption DEF ChatAssumption, DecisionStillOwned, At
    <3>5. holder' = v /\ UNCHANGED <<turn, threadRevision>>
      BY <1>2, <2>2, <3>2, <3>3, <3>4
      DEF Handle, Acquire, Reject, Reserve, ReserveReplay, ReserveConflict, Prepare, Plan, Fail,
          Activate, Infer, CompleteReplay, Discard, Commit, Abort, Gate, Leave, At
    <3>6. QED
      BY <3>2, <3>3, <3>5 DEF Completable, Pending
  <2>3. QED
    BY <2>1, <2>2
<1>3. CASE Environment
  <2>1. CASE Tick
    <3>1. \A r \in Requests : turn'[r].state = turn[r].state /\ turn'[r].expected = turn[r].expected
      BY <2>1, AgedRow DEF Tick, ThreadType
    <3>2. ASSUME NEW w \in Workers, At(w, "releasing")
          PROVE  worker[w].request.id \in Requests
      BY <3>2, BusyTyped DEF At, BusyStates, Payloads
    <3>3. QED
      BY <2>1, <3>1, <3>2 DEF Tick, DecisionStillOwned, At, Completable, Pending
  <2>2. CASE Restart
    BY <2>2 DEF Restart, DecisionStillOwned, At, IdleWorker
  <2>3. CASE ~Tick /\ ~Restart
    <3>1. UNCHANGED <<turn, threadRevision, worker, holder>>
      BY <1>3, <2>3 DEF Environment, ReadThread, Revoke, Expire, Login, Mutate, elsewhere
    <3>2. QED
      BY <3>1 DEF DecisionStillOwned, At, Completable, Pending
  <2>4. QED
    BY <2>1, <2>2, <2>3
<1>4. CASE UNCHANGED vars
  BY <1>4 DEF vars, DecisionStillOwned, At, Completable, Pending
<1>5. Askable \subseteq Payloads
  BY DEF Askable, Payloads, ThreadType
<1>6. QED
  BY <1>1, <1>2, <1>3, <1>4, <1>5 DEF Next

LEMMA InitOwnedPending == Init => DecisionStillOwned /\ OnePendingTurn
BY DEF Init, IdleWorker, AbsentTurn, DecisionStillOwned, OnePendingTurn, At, Pending

\* The inductive invariant: one reservation at a time needs to know that a
\* handler commits only what it still owns, and that needs the types.
ReservationInv == TypeOK /\ DecisionStillOwned /\ OnePendingTurn

LEMMA ReservationInvariant == Spec => []ReservationInv
<1>1. Init => ReservationInv
  BY InitTyped, InitOwnedPending DEF ReservationInv
<1>2. ReservationInv /\ [Next]_vars => ReservationInv'
  BY NextTyped, OwnedStep, OnePendingStep DEF ReservationInv
<1>3. QED
  BY <1>1, <1>2, PTL DEF Spec

\* At most one turn of a thread is pending, at the revision the thread has:
\* insert_pending never meets uq_chat_turns_pending, and the thread_conflict
\* of ChatCompletion.complete is never returned.
THEOREM OneReservation == Spec => []OnePendingTurn
BY ReservationInvariant, PTL DEF ReservationInv

\* From its decision to its commit a handler owns the thread row, and the
\* reservation it decided about is still pending at the revision it reserved.
THEOREM DecisionsOwned == Spec => []DecisionStillOwned
BY ReservationInvariant, PTL DEF ReservationInv

----------------------------------------------------------------------------
(* What is finished stays as it is.                                        *)

\* Settling an abandoned reservation touches no finished turn.
LEMMA SettledFinished ==
    ASSUME ThreadType, NEW r \in Requests, Terminal(turn[r])
    PROVE  SettledTurn[r] = turn[r]
BY DEF ThreadType, Terminal, SettledTurn, Lapsed, Pending

\* A request that may be inserted has no row yet.
LEMMA ProceedsAbsent ==
    ASSUME NEW q \in Payloads, Proceeds(q)
    PROVE  q.id \in Requests /\ ~Terminal(turn[q.id])
BY DEF Payloads, Proceeds, Exists, Terminal

FinishedKept == \A r \in Requests : Terminal(turn[r]) => turn'[r] = turn[r] /\ taint'[r] = taint[r]

LEMMA FrozenStep == ReservationInv /\ [Next]_vars => FinishedKept
<1> SUFFICES ASSUME ReservationInv, [Next]_vars, NEW r \in Requests, Terminal(turn[r])
             PROVE  turn'[r] = turn[r] /\ taint'[r] = taint[r]
  BY DEF FinishedKept
<1> USE DEF ReservationInv, TypeOK, db, policy
<1>1. SettledTurn[r] = turn[r] /\ SettledTurn \in [Requests -> Rows]
  BY SettledFinished, SettledRows
<1>2. ASSUME NEW s \in Sessions, NEW q \in Payloads, Ask(s, q)
      PROVE  turn'[r] = turn[r] /\ taint'[r] = taint[r]
  <2>1. CASE Help(s, q)
    <3>1. q.id # r /\ turn' = [SettledTurn EXCEPT ![q.id] = HelpRow(q)] /\ UNCHANGED taint
      BY <2>1, ProceedsAbsent DEF Help, HelpRow
    <3>2. QED
      BY <1>1, <3>1
  <2>2. CASE ~Help(s, q)
    BY <1>1, <1>2, <2>2 DEF Ask, Replay, ReplayStored, Supersede, Submit, Settle
  <2>3. QED
    BY <2>1, <2>2
<1>3. ASSUME NEW w \in Workers, Handle(w) \/ Abort(w)
      PROVE  turn'[r] = turn[r] /\ taint'[r] = taint[r]
  <2>1. CASE Reserve(w)
    <3> DEFINE q == worker[w].request
    <3>1. q \in Payloads /\ Proceeds(q)
      BY <2>1, BusyTyped DEF Reserve, At, BusyStates
    <3>2. q.id # r /\ turn' = [SettledTurn EXCEPT ![q.id] = NewRow(q)] /\ UNCHANGED taint
      BY <2>1, <3>1, ProceedsAbsent, InsertRows DEF Reserve
    <3>3. QED
      BY <1>1, <3>2
  <2>2. CASE Commit(w)
    <3>1. Pending(worker[w].request.id) /\ ~Pending(r)
      BY <2>2, CommitEffect DEF Terminal, Pending
    <3>2. QED
      BY <2>2, <3>1, CommitEffect
  <2>3. CASE ~Reserve(w) /\ ~Commit(w)
    BY <1>1, <1>3, <2>3 DEF Handle, Acquire, Reject, ReserveReplay, ReserveConflict, ReplayStored,
       Settle, Prepare, Plan, Fail, Activate, Infer, Authorize, CompleteReplay, Discard, Abort
  <2>4. QED
    BY <2>1, <2>2, <2>3
<1>4. CASE Environment
  <2>1. CASE Tick
    BY <2>1, AgedRow DEF Tick, ThreadType, Terminal
  <2>2. CASE ~Tick
    BY <1>4, <2>2 DEF Environment, ReadThread, Revoke, Expire, Login, Mutate, elsewhere, Restart
  <2>3. QED
    BY <2>1, <2>2
<1>5. CASE UNCHANGED vars
  BY <1>5 DEF vars
<1>6. Askable \subseteq Payloads
  BY DEF Askable, Payloads, ThreadType
<1>7. QED
  BY <1>2, <1>3, <1>4, <1>5, <1>6 DEF Next

\* A finished turn is never rewritten, by a late handler, a retry, a lapse or
\* a restart: complete_turn only ever meets a pending row.
THEOREM FinishedForGood == Spec => FinishedTurnsFrozen
<1>1. ReservationInv /\ [Next]_vars => [FinishedKept]_vars
  BY FrozenStep
<1>2. QED
  BY <1>1, ReservationInvariant, PTL DEF Spec, FinishedTurnsFrozen, FinishedKept

----------------------------------------------------------------------------
(* The model's calls for one request.                                      *)

\* A stored request stays stored.
LEMMA ExistsKept ==
    ASSUME ReservationInv, [Next]_vars, NEW r \in Requests, turn[r].state # "absent"
    PROVE  turn'[r].state # "absent"
<1> USE DEF ReservationInv, TypeOK, db, policy
<1>1. CASE Terminal(turn[r])
  BY <1>1, FrozenStep DEF FinishedKept
<1>2. CASE ~Terminal(turn[r])
  <2>1. turn[r] \in Turns /\ Pending(r)
    BY <1>2 DEF ThreadType, Rows, Turns, TurnStates, Terminal, Pending
  <2>2. SettledTurn[r].state # "absent" /\ SettledTurn \in [Requests -> Rows]
    BY <2>1, RefusedRow, SettledRows DEF SettledTurn, NeutralReasons, Pending
  <2>3. ASSUME NEW q \in Payloads, Proceeds(q)
        PROVE  q.id # r
    BY <2>1, <2>3 DEF Proceeds, Exists, Pending
  <2>4. ASSUME NEW s \in Sessions, NEW q \in Payloads, Ask(s, q)
        PROVE  turn'[r].state # "absent"
    <3>1. CASE Help(s, q)
      BY <2>2, <2>3, <3>1 DEF Help
    <3>2. CASE ~Help(s, q)
      BY <2>1, <2>2, <2>4, <3>2 DEF Ask, Replay, ReplayStored, Supersede, Submit, Settle, Pending
    <3>3. QED
      BY <3>1, <3>2
  <2>5. ASSUME NEW w \in Workers, Handle(w) \/ Abort(w)
        PROVE  turn'[r].state # "absent"
    <3>1. CASE Reserve(w)
      <4>1. worker[w].request \in Payloads /\ Proceeds(worker[w].request)
        BY <3>1, BusyTyped DEF Reserve, At, BusyStates
      <4>2. QED
        BY <2>2, <2>3, <3>1, <4>1, InsertRows DEF Reserve
    <3>2. CASE Commit(w)
      BY <2>1, <3>2, CommitEffect DEF Terminal, Pending
    <3>3. CASE ~Reserve(w) /\ ~Commit(w)
      BY <2>1, <2>2, <2>5, <3>3 DEF Handle, Acquire, Reject, ReserveReplay, ReserveConflict,
         ReplayStored, Settle, Prepare, Plan, Fail, Activate, Infer, Authorize, CompleteReplay,
         Discard, Abort, Pending
    <3>4. QED
      BY <3>1, <3>2, <3>3
  <2>6. CASE Environment
    <3>1. CASE Tick
      BY <2>1, <3>1, AgedRow DEF Tick, ThreadType, Pending
    <3>2. CASE ~Tick
      BY <2>1, <2>6, <3>2 DEF Environment, ReadThread, Revoke, Expire, Login, Mutate, elsewhere,
                              Restart, Pending
    <3>3. QED
      BY <3>1, <3>2
  <2>7. CASE UNCHANGED vars
    BY <2>1, <2>7 DEF vars, Pending
  <2>8. Askable \subseteq Payloads
    BY DEF Askable, Payloads, ThreadType
  <2>9. QED
    BY <2>4, <2>5, <2>6, <2>7, <2>8 DEF Next
<1>3. QED
  BY <1>1, <1>2

\* The attempts that handler w has begun with a call, the running one included.
Begun(state) == state.attempt - (IF state.stage \in {"preparing", "planning", "prepared"} THEN 1 ELSE 0)

\* A reservation is served by one handler, under the permit.
Served(w) ==
    LET state == worker[w] IN
    /\ permit = w
    /\ state.stage \in Reserved =>
          /\ Exists(state.request.id)
          /\ state.attempt \in 1..MaxAttempts
          /\ calls[state.request.id] <= Begun(state)

\* The inductive invariant of the model's calls.
CallsInv ==
    /\ ReservationInv
    /\ \A w \in Workers : worker[w].stage \notin {"idle", "resolved"} => Served(w)
    /\ \A r \in Requests : calls[r] <= MaxAttempts /\ (~Exists(r) => calls[r] = 0)

\* Whoever holds the permit is the only handler beyond its first transaction.
LEMMA OnlyServed ==
    ASSUME CallsInv, NEW w \in Workers, NEW v \in Workers, v # w,
           worker[v].stage \notin {"idle", "resolved"}
    PROVE  permit = v /\ worker[w].stage \in {"idle", "resolved"}
BY DEF CallsInv, Served

\* A handler that goes on within its attempt stays within its calls.
LEMMA GoesOnServed ==
    ASSUME CallsInv, TypeOK', NEW w \in Workers, worker[w].stage \in Reserved,
           worker'[w].request = worker[w].request, worker'[w].attempt = worker[w].attempt,
           worker'[w].stage \in Reserved,
           worker'[w].stage \notin {"preparing", "planning", "prepared"}
              \/ worker[w].stage \in {"preparing", "planning", "prepared"},
           UNCHANGED <<permit, calls, turn>>
    PROVE  Served(w)'
<1>1. worker[w] \in BusyStates
  BY BusyTyped DEF CallsInv, ReservationInv, TypeOK, Reserved
<1>2. worker[w].request.id \in Requests /\ worker[w].attempt \in Nat
  BY <1>1 DEF BusyStates, Payloads
<1>3. calls[worker[w].request.id] \in Nat
  BY <1>2 DEF CallsInv, ReservationInv, TypeOK, HistoryType
<1>4. Served(w)
  BY DEF CallsInv, Reserved
<1>5. calls[worker[w].request.id] <= Begun(worker'[w])
  BY <1>2, <1>3, <1>4 DEF Served, Begun
<1>6. QED
  BY <1>4, <1>5 DEF Served, Exists, Begun

\* Whatever a handler of a reservation does, it stays within its calls.
LEMMA HandlerServed ==
    ASSUME CallsInv, TypeOK', NEW w \in Workers, Handle(w) \/ Abort(w),
           worker'[w].stage \notin {"idle", "resolved"}
    PROVE  Served(w)'
<1> USE DEF CallsInv, ReservationInv, TypeOK
<1> DEFINE q == worker[w].request
<1>1. CASE Reject(w) \/ ReserveReplay(w) \/ ReserveConflict(w) \/ CompleteReplay(w)
           \/ Commit(w) \/ Abort(w)
  <2>1. worker' = [worker EXCEPT ![w] = IdleWorker]
    BY <1>1 DEF Reject, ReserveReplay, ReserveConflict, CompleteReplay, Commit, Abort, Leave
  <2>2. worker'[w] = IdleWorker
    BY <2>1 DEF ProcessType
  <2>3. QED
    BY <2>2 DEF IdleWorker
<1>2. ~At(w, "idle") => worker[w] \in BusyStates
  BY BusyTyped DEF At
<1>3. CASE Acquire(w)
  <2>1. permit' = w /\ worker'[w].stage = "admitted"
    BY <1>2, <1>3 DEF Acquire, Advance, At, ProcessType, BusyStates
  <2>2. QED
    BY <2>1 DEF Served, Reserved
<1>4. CASE Reserve(w)
  <2>1. worker[w] \in BusyStates
    BY <1>2, <1>4 DEF Reserve, At
  <2>2. q \in Payloads /\ q.id \in Requests
    BY <2>1 DEF BusyStates, Payloads
  <2>3. /\ worker'[w].stage = "preparing" /\ worker'[w].attempt = 1 /\ worker'[w].request = q
        /\ permit' = w
    BY <1>4, <2>1 DEF Reserve, At, ProcessType, BusyStates, Served
  <2>4. calls'[q.id] = 0
    BY <1>4, <2>2 DEF Reserve, Proceeds
  <2>5. turn'[q.id].state = "pending"
    BY <1>4, <2>2, InsertRows, NewRowFits, SettledRows DEF Reserve
  <2>6. 1 \in 1..MaxAttempts
    BY ChatAssumption DEF ChatAssumption
  <2>7. QED
    BY <2>3, <2>4, <2>5, <2>6 DEF Served, Begun, Exists
<1>5. ASSUME NEW reason, GiveUp(w, reason), worker[w].stage \in Reserved \ {"completing", "releasing"},
             UNCHANGED <<permit, calls, turn>>
      PROVE  Served(w)'
  <2>1. /\ worker'[w].request = q /\ worker'[w].attempt = worker[w].attempt
        /\ worker'[w].stage = "completing"
    BY <1>2, <1>5 DEF GiveUp, At, Reserved, ProcessType, BusyStates
  <2>2. QED
    BY <1>5, <2>1, GoesOnServed DEF Reserved, Stages
<1>6. ASSUME NEW chunks, NEW history, NEW stage \in {"planning", "prepared"},
             Bind(w, chunks, history, stage), worker[w].stage \in {"preparing", "planning"},
             UNCHANGED <<permit, calls, turn>>
      PROVE  Served(w)'
  <2> DEFINE context == [revision |-> policyRevision, chunks |-> chunks, history |-> history,
                         refs |-> Closure(chunks, history)]
  <2>1. worker' = [worker EXCEPT ![w].stage = stage, ![w].context = context]
    BY <1>6 DEF Bind
  <2> HIDE DEF context
  <2>2. /\ worker'[w].request = q /\ worker'[w].attempt = worker[w].attempt
        /\ worker'[w].stage = stage
    BY <1>2, <1>6, <2>1 DEF At, ProcessType, BusyStates
  <2>3. QED
    BY <1>6, <2>2, GoesOnServed DEF Reserved, Stages
<1>7. CASE Prepare(w)
  BY <1>5, <1>6, <1>7 DEF Prepare, At, db, Reserved, Stages
<1>8. CASE Plan(w)
  BY <1>5, <1>6, <1>8 DEF Plan, At, db, Reserved, Stages
<1>9. CASE Fail(w) \/ Infer(w)
  BY <1>5, <1>9 DEF Fail, Infer, At, db, Reserved, Stages
<1>10. CASE Activate(w)
  <2>1. CASE GiveUp(w, "interrupted") /\ UNCHANGED calls
    BY <1>5, <1>10, <2>1 DEF Activate, At, db, Reserved, Stages
  <2>2. CASE Advance(w, "inferring") /\ calls' = [calls EXCEPT ![q.id] = @ + 1]
    <3>1. worker[w] \in BusyStates /\ worker[w].stage = "prepared"
      BY <1>2, <1>10 DEF Activate, At
    <3>2. /\ worker'[w].request = q /\ worker'[w].attempt = worker[w].attempt
          /\ worker'[w].stage = "inferring"
      BY <2>2, <3>1 DEF Advance, ProcessType, BusyStates
    <3>3. Served(w) /\ worker[w].stage \in Reserved /\ q.id \in Requests
      BY <3>1 DEF Reserved, Stages, BusyStates, Payloads
    <3>4. calls'[q.id] = calls[q.id] + 1 /\ calls[q.id] \in Nat /\ worker[w].attempt \in Nat
      BY <2>2, <3>1, <3>3 DEF HistoryType, BusyStates
    <3>5. calls[q.id] <= worker[w].attempt - 1
      BY <3>1, <3>3 DEF Served, Begun
    <3>6. UNCHANGED <<permit, turn>>
      BY <1>10 DEF Activate, db
    <3>7. calls'[q.id] <= Begun(worker'[w])
      BY <3>2, <3>4, <3>5 DEF Begun
    <3>8. QED
      BY <3>2, <3>3, <3>6, <3>7 DEF Served, Exists, Begun
  <2>3. QED
    BY <1>10, <2>1, <2>2 DEF Activate
<1>11. CASE Authorize(w)
  <2>1. worker[w] \in BusyStates /\ worker[w].stage = "completing"
    BY <1>2, <1>11 DEF Authorize, At
  <2> DEFINE verdict == Verdict(w)
  <2>2. worker' = [worker EXCEPT ![w].stage = "releasing", ![w].outcome = verdict]
    BY <1>11 DEF Authorize
  <2> HIDE DEF verdict
  <2>3. /\ worker'[w].request = q /\ worker'[w].attempt = worker[w].attempt
        /\ worker'[w].stage = "releasing"
    BY <2>1, <2>2 DEF ProcessType, BusyStates
  <2>4. UNCHANGED <<permit, calls, turn>>
    BY <1>11 DEF Authorize, db
  <2>5. QED
    BY <2>1, <2>3, <2>4, GoesOnServed DEF Reserved, Stages
<1>12. CASE Discard(w)
  <2>1. worker[w] \in BusyStates /\ worker[w].stage = "releasing"
    BY <1>2, <1>12 DEF Discard, At
  <2>2. UNCHANGED <<permit, calls, turn>>
    BY <1>12 DEF Discard, db
  <2> DEFINE state == worker[w]
             next == IF RetriesLeft(w) THEN NextAttempt(state) ELSE Exhausted(state)
  <2>3. worker' = [worker EXCEPT ![w] = next]
    BY <1>12 DEF Discard
  <2>4. worker'[w] = next
    <3> HIDE DEF next
    <3>1. QED
      BY <2>3 DEF ProcessType
  <2>5. Served(w) /\ state.stage \in Reserved /\ q.id \in Requests /\ state.attempt \in Nat
    BY <2>1 DEF Reserved, Stages, BusyStates, Payloads
  <2>6. calls[q.id] \in Nat /\ calls[q.id] <= state.attempt
    BY <2>1, <2>5 DEF HistoryType, Served, Begun
  <2>7. CASE RetriesLeft(w)
    <3>1. /\ worker'[w].request = q /\ worker'[w].attempt = state.attempt + 1
          /\ worker'[w].stage = "preparing"
      BY <2>1, <2>4, <2>7 DEF NextAttempt, BusyStates
    <3>2. state.attempt + 1 \in 1..MaxAttempts
      BY <2>5, <2>7, ChatAssumption DEF RetriesLeft, ChatAssumption
    <3>3. calls[q.id] <= Begun(worker'[w])
      BY <2>5, <2>6, <3>1 DEF Begun
    <3>4. QED
      BY <2>2, <2>5, <3>1, <3>2, <3>3 DEF Served, Exists, Begun
  <2>8. CASE ~RetriesLeft(w)
    <3>1. /\ worker'[w].request = q /\ worker'[w].attempt = state.attempt
          /\ worker'[w].stage = "completing"
      BY <2>1, <2>4, <2>8 DEF Exhausted, BusyStates
    <3>2. QED
      BY <2>1, <2>2, <3>1, GoesOnServed DEF Reserved, Stages
  <2>9. QED
    BY <2>7, <2>8
<1>13. QED
  BY <1>1, <1>3, <1>4, <1>7, <1>8, <1>9, <1>10, <1>11, <1>12 DEF Handle

\* A handler's step leaves every other handler as served as it was.
LEMMA OthersServed ==
    ASSUME CallsInv, NEW w \in Workers, Handle(w) \/ Abort(w), NEW v \in Workers, v # w,
           worker'[v].stage \notin {"idle", "resolved"},
           \A r \in Requests : Exists(r) => turn'[r].state # "absent"
    PROVE  Served(v)'
<1> USE DEF CallsInv, ReservationInv, TypeOK
<1>1. worker'[v] = worker[v]
  BY OthersUntouched
<1>2. permit = v /\ worker[w].stage \in {"idle", "resolved"}
  BY <1>1, OnlyServed
<1>3. Reject(w) \/ Abort(w)
  BY <1>2, ChatAssumption
  DEF ChatAssumption, Handle, Acquire, Reserve, ReserveReplay, ReserveConflict, Prepare, Plan, Fail,
      Activate, Infer, Authorize, CompleteReplay, Discard, Commit, At
<1>4. permit' = v /\ UNCHANGED <<calls, turn>>
  BY <1>2, <1>3 DEF Reject, Abort, Leave, db
<1>5. Served(v)
  BY <1>1
<1>6. QED
  BY <1>1, <1>2, <1>4, <1>5 DEF Served, Exists, Begun

\* Only the last check before the model counts a call, for a stored request.
LEMMA CallsStep == CallsInv /\ [Next]_vars => CallsInv'
<1> SUFFICES ASSUME CallsInv, [Next]_vars
             PROVE  CallsInv'
  OBVIOUS
<1> USE DEF db, policy, process
<1>1. ReservationInv' /\ TypeOK'
  BY NextTyped, OwnedStep, OnePendingStep DEF CallsInv, ReservationInv
<1>2. \A r \in Requests : Exists(r) => turn'[r].state # "absent"
  BY ExistsKept DEF CallsInv, Exists
<1>3. ASSUME NEW v \in Workers, worker'[v].stage \notin {"idle", "resolved"}
      PROVE  Served(v)'
  <2>1. ASSUME worker'[v] = worker[v], UNCHANGED <<permit, calls>>
        PROVE  Served(v)'
    <3>1. Served(v)
      BY <1>3, <2>1 DEF CallsInv
    <3>2. worker[v].stage \in Reserved => worker[v].request.id \in Requests
      BY BusyTyped DEF CallsInv, ReservationInv, TypeOK, Reserved, BusyStates, Payloads
    <3>3. QED
      BY <1>2, <2>1, <3>1, <3>2 DEF Served, Exists, Begun
  <2>2. ASSUME NEW s \in Sessions, NEW q \in Askable, Ask(s, q)
        PROVE  Served(v)'
    <3>1. UNCHANGED <<permit, calls>>
      BY <2>2 DEF Ask, Replay, Supersede, Help, Submit
    <3>2. CASE \E w \in Workers : Submit(w, s, q)
      <4>1. PICK w \in Workers : Submit(w, s, q)
        BY <3>2
      <4>2. v # w
        BY <1>3, <4>1 DEF Submit, CallsInv, ReservationInv, TypeOK, ProcessType, IdleWorker
      <4>3. worker'[v] = worker[v]
        BY <4>1, <4>2 DEF Submit, CallsInv, ReservationInv, TypeOK, ProcessType
      <4>4. QED
        BY <2>1, <3>1, <4>3
    <3>3. CASE Replay(s, q) \/ Supersede(s, q) \/ Help(s, q)
      BY <2>1, <3>1, <3>3 DEF Replay, Supersede, Help
    <3>4. QED
      BY <2>2, <3>2, <3>3 DEF Ask
  <2>3. ASSUME NEW w \in Workers, Handle(w) \/ Abort(w)
        PROVE  Served(v)'
    BY <1>1, <1>2, <1>3, <2>3, HandlerServed, OthersServed
  <2>4. CASE Environment
    <3>1. CASE Restart
      BY <1>3, <3>1 DEF Restart, IdleWorker
    <3>2. CASE ~Restart
      BY <2>1, <2>4, <3>2 DEF Environment, ReadThread, Revoke, Expire, Login, Mutate, elsewhere, Tick
    <3>3. QED
      BY <3>1, <3>2
  <2>5. CASE UNCHANGED vars
    BY <2>1, <2>5 DEF vars
  <2>6. QED
    BY <2>2, <2>3, <2>4, <2>5 DEF Next
<1>4. ASSUME NEW r \in Requests
      PROVE  calls'[r] <= MaxAttempts /\ (turn'[r].state = "absent" => calls'[r] = 0)
  <2>1. ASSUME calls' = calls
        PROVE  calls'[r] <= MaxAttempts /\ (turn'[r].state = "absent" => calls'[r] = 0)
    BY <1>2, <2>1 DEF CallsInv, Exists
  <2>2. CASE \E w \in Workers : Activate(w) /\ calls' # calls
    <3>1. PICK w \in Workers : Activate(w) /\ calls' # calls
      BY <2>2
    <3> DEFINE q == worker[w].request
    <3>2. /\ At(w, "prepared") /\ Pending(q.id) /\ Advance(w, "inferring")
          /\ calls' = [calls EXCEPT ![q.id] = @ + 1]
      BY <3>1 DEF Activate, Completable
    <3>3. worker[w] \in BusyStates /\ q.id \in Requests
      BY <3>2, BusyTyped DEF CallsInv, ReservationInv, TypeOK, At, BusyStates, Payloads
    <3>4. /\ worker'[w].request = q /\ worker'[w].stage = "inferring"
          /\ worker'[w].attempt = worker[w].attempt
      BY <3>2, <3>3 DEF Advance, CallsInv, ReservationInv, TypeOK, ProcessType, BusyStates
    <3>5. CASE r = q.id
      <4>1. Served(w)'
        BY <1>3, <3>4
      <4>2. calls'[r] <= worker[w].attempt /\ worker[w].attempt <= MaxAttempts
        BY <3>3, <3>4, <3>5, <4>1, ChatAssumption DEF Served, Begun, Reserved, Stages, BusyStates, ChatAssumption
      <4>3. calls'[r] \in Nat /\ worker[w].attempt \in Nat /\ MaxAttempts \in Nat
        BY <1>1, <3>3, ChatAssumption DEF TypeOK, HistoryType, BusyStates, ChatAssumption
      <4>4. turn'[r].state # "absent"
        BY <1>2, <3>2, <3>5 DEF Exists, Pending
      <4>5. QED
        BY <4>2, <4>3, <4>4
    <3>6. CASE r # q.id
      <4>1. calls'[r] = calls[r]
        BY <3>2, <3>6 DEF CallsInv, ReservationInv, TypeOK, HistoryType
      <4>2. QED
        BY <1>2, <4>1 DEF CallsInv, Exists
    <3>7. QED
      BY <3>5, <3>6
  <2>3. CASE ~\E w \in Workers : Activate(w) /\ calls' # calls
    <3>1. calls' = calls
      BY <2>3 DEF Next, vars, Ask, Replay, Supersede, Help, Submit, Handle, Acquire, Reject, Reserve,
         ReserveReplay, ReserveConflict, Prepare, Plan, Fail, Infer, Authorize, CompleteReplay,
         Discard, Commit, Abort, Environment, ReadThread, Revoke, Expire, Login, Mutate, elsewhere,
         Tick, Restart
    <3>2. QED
      BY <2>1, <3>1
  <2>4. QED
    BY <2>2, <2>3
<1>5. QED
  BY <1>1, <1>3, <1>4 DEF CallsInv, Exists

\* However a request is retried, taken over after a lapse or cut off by a
\* restart, the model is called for it at most MaxAttempts times: one handler
\* reserves it, under the permit, and its attempts are counted
\* (_generate_prepared, GENERATION_MAX_ATTEMPTS).
THEOREM CallsBounded == Spec => []BoundedModelCalls
<1>1. Init => CallsInv
  <2>1. Init => ReservationInv
    BY InitTyped, InitOwnedPending DEF ReservationInv
  <2>2. Init => CallsInv
    BY <2>1, ChatAssumption DEF Init, CallsInv, IdleWorker, ChatAssumption
  <2>3. QED
    BY <2>2
<1>2. CallsInv => BoundedModelCalls
  BY DEF CallsInv, BoundedModelCalls
<1>3. QED
  BY <1>1, <1>2, CallsStep, PTL DEF Spec

----------------------------------------------------------------------------
(* Responses.                                                              *)

\* What is settled about a row for good: the response any client may be given.
Settled(t) ==
    CASE t.state = "neutral" -> {t.reason}
      [] t.state = "available" -> {"available"}
      [] t.state = "pending" /\ t.lease = 0 -> {"interrupted"}
      [] OTHER -> {}

\* The inductive invariant: nothing was told that is not settled.
ToldInv == ReservationInv /\ \A r \in Requests : told[r] \subseteq Settled(turn[r])

LEMMA ShownSettled ==
    ASSUME NEW t \in Rows
    PROVE  Shown(t) \subseteq Settled(t)
BY DEF Shown, Settled, Rows, Turns, TurnStates

\* Whatever happens to a row, what is settled about it stays.
LEMMA SettledKept ==
    ASSUME ReservationInv, [Next]_vars, NEW r \in Requests
    PROVE  Settled(turn[r]) \subseteq Settled(turn'[r])
<1> USE DEF ReservationInv, TypeOK, db, policy
<1>1. turn[r] \in Rows /\ turn[r] \in Turns /\ turn[r].lease \in Nat
  BY ChatAssumption DEF ThreadType, Rows, Turns, ChatAssumption
<1>2. CASE Terminal(turn[r])
  BY <1>2, FrozenStep DEF FinishedKept
<1>3. CASE ~Terminal(turn[r]) /\ ~Lapsed(r)
  BY <1>1, <1>3 DEF Settled, Terminal, Lapsed, Pending
<1>4. CASE Lapsed(r)
  <2>1. /\ SettledTurn \in [Requests -> Rows]
        /\ Settled(SettledTurn[r]) = {"interrupted"} /\ Settled(turn[r]) = {"interrupted"}
    <3>1. SettledTurn[r] = Refuse(turn[r], "interrupted")
      BY <1>4 DEF SettledTurn
    <3>2. SettledTurn[r].state = "neutral" /\ SettledTurn[r].reason = "interrupted"
      BY <1>1, <3>1 DEF Refuse, Finished, Turns
    <3>3. QED
      BY <1>4, <3>2, SettledRows DEF Settled, Lapsed, Pending
  <2>2. ASSUME NEW q \in Payloads, Proceeds(q)
        PROVE  q.id # r
    BY <1>4, <2>2 DEF Proceeds, Exists, Lapsed, Pending
  <2>3. ASSUME NEW s \in Sessions, NEW q \in Payloads, Ask(s, q)
        PROVE  Settled(turn[r]) \subseteq Settled(turn'[r])
    <3>1. CASE Help(s, q)
      BY <2>1, <2>2, <3>1 DEF Help
    <3>2. CASE ~Help(s, q)
      BY <2>1, <2>3, <3>2 DEF Ask, Replay, ReplayStored, Supersede, Submit, Settle
    <3>3. QED
      BY <3>1, <3>2
  <2>4. ASSUME NEW w \in Workers, Handle(w) \/ Abort(w)
        PROVE  Settled(turn[r]) \subseteq Settled(turn'[r])
    <3>1. CASE Reserve(w)
      <4>1. worker[w].request \in Payloads /\ Proceeds(worker[w].request)
        BY <3>1, BusyTyped DEF Reserve, At, BusyStates
      <4>2. QED
        BY <2>1, <2>2, <3>1, <4>1, InsertRows DEF Reserve
    <3>2. CASE Commit(w)
      <4>1. worker[w].request.id = r
        BY <1>4, <3>2, CommitEffect, OnlyPending DEF Lapsed
      <4>2. Decision(w) = "interrupted"
        BY <1>4, <4>1 DEF Decision
      <4>3. turn'[r] = Refuse(turn[r], "interrupted")
        BY <3>2, <4>1, <4>2 DEF Commit, ThreadType
      <4>4. turn'[r].state = "neutral" /\ turn'[r].reason = "interrupted"
        BY <1>1, <4>3 DEF Refuse, Finished, Turns
      <4>5. QED
        BY <2>1, <4>4 DEF Settled
    <3>3. CASE ~Reserve(w) /\ ~Commit(w)
      BY <2>1, <2>4, <3>3 DEF Handle, Acquire, Reject, ReserveReplay, ReserveConflict,
         ReplayStored, Settle, Prepare, Plan, Fail, Activate, Infer, Authorize, CompleteReplay,
         Discard, Abort
    <3>4. QED
      BY <3>1, <3>2, <3>3
  <2>5. CASE Environment
    <3>1. CASE Tick
      <4>1. turn'[r] = Aged(turn[r])
        BY <3>1 DEF Tick
      <4>2. Aged(turn[r]) = turn[r]
        BY <1>1, <1>4 DEF Aged, Lapsed, Turns
      <4>3. QED
        BY <4>1, <4>2
    <3>2. CASE ~Tick
      BY <2>5, <3>2 DEF Environment, ReadThread, Revoke, Expire, Login, Mutate, elsewhere, Restart
    <3>3. QED
      BY <3>1, <3>2
  <2>6. CASE UNCHANGED vars
    BY <2>6 DEF vars
  <2>7. Askable \subseteq Payloads
    BY DEF Askable, Payloads, ThreadType
  <2>8. QED
    BY <2>3, <2>4, <2>5, <2>6, <2>7 DEF Next
<1>5. QED
  BY <1>2, <1>3, <1>4 DEF Lapsed, Pending, Terminal

\* Every response shows the row as the step that gives it leaves it.
LEMMA OnlyShownTold ==
    ASSUME ReservationInv, [Next]_vars, NEW r \in Requests
    PROVE  told'[r] \subseteq told[r] \cup Shown(turn'[r])
<1> USE DEF ReservationInv, TypeOK, HistoryType, db, policy, process
<1>1. ASSUME NEW p, Tell(p)
      PROVE  told'[r] \subseteq told[r] \cup Shown(turn'[r])
  BY <1>1 DEF Tell
<1>2. ASSUME told' = told
      PROVE  told'[r] \subseteq told[r] \cup Shown(turn'[r])
  BY <1>2
<1>3. ASSUME NEW s \in Sessions, NEW q \in Askable, Ask(s, q)
      PROVE  told'[r] \subseteq told[r] \cup Shown(turn'[r])
  BY <1>1, <1>2, <1>3 DEF Ask, Replay, ReplayStored, Supersede, Help, Submit
<1>4. ASSUME NEW w \in Workers, Handle(w) \/ Abort(w)
      PROVE  told'[r] \subseteq told[r] \cup Shown(turn'[r])
  BY <1>1, <1>2, <1>4 DEF Handle, Acquire, Reject, Reserve, ReserveReplay, ReserveConflict,
     ReplayStored, Prepare, Plan, Fail, Activate, Infer, Authorize, CompleteReplay, Discard,
     Commit, Abort
<1>5. ASSUME NEW s \in Sessions, ReadThread(s)
      PROVE  told'[r] \subseteq told[r] \cup Shown(turn'[r])
  <2>1. turn' = turn /\ readable' = readable /\ told'[r] = told[r] \cup Shown(turn[r])
    BY <1>5 DEF ReadThread
  <2>2. QED
    BY <2>1 DEF Shown
<1>6. CASE Environment
  BY <1>2, <1>5, <1>6 DEF Environment, Revoke, Expire, Login, Mutate, elsewhere, Tick, Restart
<1>7. CASE UNCHANGED vars
  BY <1>2, <1>7 DEF vars
<1>8. QED
  BY <1>3, <1>4, <1>6, <1>7 DEF Next

LEMMA ToldStep == ToldInv /\ [Next]_vars => ToldInv'
<1> SUFFICES ASSUME ToldInv, [Next]_vars
             PROVE  ToldInv'
  OBVIOUS
<1>1. ReservationInv'
  BY NextTyped, OwnedStep, OnePendingStep DEF ToldInv, ReservationInv
<1>2. ASSUME NEW r \in Requests
      PROVE  told'[r] \subseteq Settled(turn'[r])
  <2>1. turn'[r] \in Rows
    BY <1>1 DEF ReservationInv, TypeOK, ThreadType
  <2>2. Shown(turn'[r]) \subseteq Settled(turn'[r])
    BY <2>1, ShownSettled
  <2>3. QED
    BY <2>2, SettledKept, OnlyShownTold DEF ToldInv
<1>3. QED
  BY <1>1, <1>2 DEF ToldInv

----------------------------------------------------------------------------
(* Numbers.                                                                *)

\* The finished rows are numbered 1..revision, each once.
Numbered(rows, revision) ==
    /\ \A r \in Requests : Terminal(rows[r]) => rows[r].ordinal \in 1..revision
    /\ \A n \in 1..revision : \E r \in Requests :
          /\ Terminal(rows[r]) /\ rows[r].ordinal = n
          /\ \A p \in Requests : Terminal(rows[p]) /\ rows[p].ordinal = n => p = r

\* A row that is not finished may change as long as it is not.
LEMMA NumberedSame ==
    ASSUME NEW rows, NEW next, NEW revision, Numbered(rows, revision),
           \A r \in Requests : \/ ~Terminal(rows[r]) /\ ~Terminal(next[r])
                               \/ next[r] = rows[r]
    PROVE  Numbered(next, revision)
BY DEF Numbered

\* The row that is finished next gets the next number.
LEMMA NumberedNext ==
    ASSUME NEW rows, NEW next, NEW revision \in Nat, Numbered(rows, revision),
           NEW r \in Requests, ~Terminal(rows[r]),
           Terminal(next[r]), next[r].ordinal = revision + 1,
           \A p \in Requests : p # r => \/ next[p] = rows[p]
                                        \/ ~Terminal(rows[p]) /\ ~Terminal(next[p])
    PROVE  Numbered(next, revision + 1)
<1>1. \A p \in Requests : p # r => (Terminal(next[p]) <=> Terminal(rows[p]))
                                    /\ (Terminal(rows[p]) => next[p].ordinal = rows[p].ordinal)
  OBVIOUS
<1>2. \A p \in Requests : p # r /\ Terminal(next[p]) => next[p].ordinal \in 1..revision
  BY <1>1 DEF Numbered
<1>3. \A p \in Requests : Terminal(next[p]) => next[p].ordinal \in 1..(revision + 1)
  BY <1>2
<1>4. ASSUME NEW n \in 1..(revision + 1)
      PROVE  \E p \in Requests :
                /\ Terminal(next[p]) /\ next[p].ordinal = n
                /\ \A v \in Requests : Terminal(next[v]) /\ next[v].ordinal = n => v = p
  <2>1. CASE n = revision + 1
    <3>1. \A v \in Requests : Terminal(next[v]) /\ next[v].ordinal = n => v = r
      BY <1>2, <2>1
    <3>2. QED
      BY <2>1, <3>1
  <2>2. CASE n # revision + 1
    <3>1. n \in 1..revision
      BY <2>2
    <3>2. PICK p \in Requests :
              /\ Terminal(rows[p]) /\ rows[p].ordinal = n
              /\ \A v \in Requests : Terminal(rows[v]) /\ rows[v].ordinal = n => v = p
      BY <3>1 DEF Numbered
    <3>3. p # r /\ Terminal(next[p]) /\ next[p].ordinal = n
      BY <1>1, <3>2
    <3>4. \A v \in Requests : Terminal(next[v]) /\ next[v].ordinal = n => v = p
      BY <1>1, <2>2, <3>2
    <3>5. QED
      BY <3>3, <3>4
  <2>3. QED
    BY <2>1, <2>2
<1>5. QED
  BY <1>3, <1>4 DEF Numbered

\* Settling finishes the abandoned reservation, if there is one.
LEMMA NumberedSettled ==
    ASSUME ReservationInv, Numbered(turn, threadRevision)
    PROVE  Numbered(SettledTurn, SettledRevision)
<1> USE DEF ReservationInv, TypeOK
<1>1. \A r \in Requests : ~Lapsed(r) => SettledTurn[r] = turn[r]
  BY DEF SettledTurn
<1>2. CASE \E r \in Requests : Lapsed(r)
  <2>1. PICK r \in Requests : Lapsed(r)
    BY <1>2
  <2>2. \A p \in Requests : p # r => ~Lapsed(p)
    BY <2>1, OnlyPending DEF Lapsed
  <2>3. SettledRevision = threadRevision + 1 /\ threadRevision \in Nat
    BY <1>2 DEF SettledRevision, ThreadType
  <2>4. SettledTurn[r] = Refuse(turn[r], "interrupted") /\ turn[r] \in Turns
    BY <2>1 DEF SettledTurn, ThreadType, Rows
  <2>5. Terminal(SettledTurn[r]) /\ SettledTurn[r].ordinal = threadRevision + 1
    BY <2>4, RefusedRow DEF NeutralReasons, Terminal
  <2>6. ~Terminal(turn[r])
    BY <2>1 DEF Lapsed, Pending, Terminal
  <2>7. QED
    BY <1>1, <2>2, <2>3, <2>5, <2>6, NumberedNext
<1>3. CASE ~\E r \in Requests : Lapsed(r)
  <2>1. SettledRevision = threadRevision
    BY <1>3 DEF SettledRevision, ThreadType
  <2>2. QED
    BY <1>1, <1>3, <2>1, NumberedSame
<1>4. QED
  BY <1>2, <1>3

LEMMA NumberedStep ==
    ASSUME ReservationInv, Numbered(turn, threadRevision), [Next]_vars
    PROVE  Numbered(turn', threadRevision')
<1> USE DEF ReservationInv, TypeOK, db, policy
<1>1. ASSUME Settle
      PROVE  Numbered(turn', threadRevision')
  BY <1>1, NumberedSettled DEF Settle
<1>2. ASSUME UNCHANGED <<turn, threadRevision>>
      PROVE  Numbered(turn', threadRevision')
  BY <1>2
<1>3. ASSUME NEW q \in Payloads, Proceeds(q)
      PROVE  ~Terminal(SettledTurn[q.id]) /\ q.id \in Requests
  BY <1>3 DEF Proceeds, Exists, SettledTurn, Lapsed, Pending, Terminal, Payloads
<1>4. SettledTurn \in [Requests -> Rows] /\ SettledRevision \in Nat
  BY SettledRows
<1>5. ASSUME NEW s \in Sessions, NEW q \in Payloads, Ask(s, q)
      PROVE  Numbered(turn', threadRevision')
  <2>1. CASE Help(s, q)
    <3>1. /\ turn' = [SettledTurn EXCEPT ![q.id] = HelpRow(q)]
          /\ threadRevision' = SettledRevision + 1 /\ Proceeds(q)
      BY <2>1 DEF Help, HelpRow
    <3>2. /\ turn'[q.id] = HelpRow(q)
          /\ \A p \in Requests : p # q.id => turn'[p] = SettledTurn[p]
      BY <1>3, <1>4, <3>1
    <3>3. Terminal(HelpRow(q)) /\ HelpRow(q).ordinal = SettledRevision + 1
      BY HelpRowFits DEF Terminal
    <3>4. QED
      BY <1>3, <1>4, <3>1, <3>2, <3>3, NumberedSettled, NumberedNext
  <2>2. CASE ~Help(s, q)
    BY <1>1, <1>2, <1>5, <2>2 DEF Ask, Replay, ReplayStored, Supersede, Submit
  <2>3. QED
    BY <2>1, <2>2
<1>6. ASSUME NEW w \in Workers, Handle(w) \/ Abort(w)
      PROVE  Numbered(turn', threadRevision')
  <2>1. CASE Reserve(w)
    <3> DEFINE q == worker[w].request
    <3>1. q \in Payloads /\ Proceeds(q)
      BY <2>1, BusyTyped DEF Reserve, At, BusyStates
    <3>2. turn' = [SettledTurn EXCEPT ![q.id] = NewRow(q)] /\ threadRevision' = SettledRevision
      BY <2>1, <3>1, InsertRows DEF Reserve
    <3>3. ~Terminal(NewRow(q))
      BY <3>1, NewRowFits DEF Terminal
    <3>4. \A p \in Requests : turn'[p] = IF p = q.id THEN NewRow(q) ELSE SettledTurn[p]
      BY <1>4, <3>2
    <3>5. ~Terminal(SettledTurn[q.id])
      BY <1>3, <3>1
    <3>6. \A p \in Requests : \/ ~Terminal(SettledTurn[p]) /\ ~Terminal(turn'[p])
                             \/ turn'[p] = SettledTurn[p]
      BY <3>3, <3>4, <3>5
    <3>7. Numbered(SettledTurn, SettledRevision)
      BY NumberedSettled
    <3>8. Numbered(turn', SettledRevision)
      BY <3>6, <3>7, NumberedSame
    <3>9. QED
      BY <3>2, <3>8
  <2>2. CASE Commit(w)
    <3> DEFINE r == worker[w].request.id
    <3>1. /\ r \in Requests /\ ~Terminal(turn[r])
          /\ threadRevision' = threadRevision + 1 /\ threadRevision \in Nat
          /\ Terminal(turn'[r]) /\ turn'[r].ordinal = threadRevision + 1
          /\ \A p \in Requests : p # r => turn'[p] = turn[p]
      BY <2>2, CommitEffect DEF Terminal, Pending, ThreadType
    <3>2. QED
      BY <3>1, NumberedNext
  <2>3. CASE ~Reserve(w) /\ ~Commit(w)
    BY <1>1, <1>2, <1>6, <2>3 DEF Handle, Acquire, Reject, ReserveReplay, ReserveConflict,
       ReplayStored, Prepare, Plan, Fail, Activate, Infer, Authorize, CompleteReplay, Discard, Abort
  <2>4. QED
    BY <2>1, <2>2, <2>3
<1>7. CASE Environment
  <2>1. CASE Tick
    <3>1. \A r \in Requests : turn'[r].state = turn[r].state /\ turn'[r].ordinal = turn[r].ordinal
      BY <2>1, AgedRow DEF Tick, ThreadType
    <3>2. QED
      BY <2>1, <3>1 DEF Tick, Numbered, Terminal
  <2>2. CASE ~Tick
    BY <1>2, <1>7, <2>2 DEF Environment, ReadThread, Revoke, Expire, Login, Mutate, elsewhere, Restart
  <2>3. QED
    BY <2>1, <2>2
<1>8. CASE UNCHANGED vars
  BY <1>2, <1>8 DEF vars
<1>9. Askable \subseteq Payloads
  BY DEF Askable, Payloads, ThreadType
<1>10. QED
  BY <1>5, <1>6, <1>7, <1>8, <1>9 DEF Next

\* The thread is one story, whoever reads it when: no two responses about a
\* request disagree, and its finished turns are numbered without a gap
\* (resolve_request, complete_turn, project_turn).
THEOREM OneStoryTold == Spec => []OneStory
<1>1. Init => ToldInv /\ Numbered(turn, threadRevision)
  <2> SUFFICES ASSUME Init
               PROVE  ToldInv /\ Numbered(turn, threadRevision)
    OBVIOUS
  <2>1. ReservationInv
    BY InitTyped, InitOwnedPending DEF ReservationInv
  <2>2. ToldInv
    BY <2>1 DEF Init, ToldInv
  <2>3. threadRevision = 0 /\ \A r \in Requests : ~Terminal(turn[r])
    BY DEF Init, AbsentTurn, Terminal
  <2>4. 1..threadRevision = {}
    BY <2>3
  <2>5. QED
    BY <2>2, <2>3, <2>4 DEF Numbered
<1>2. ToldInv /\ Numbered(turn, threadRevision) /\ [Next]_vars
        => ToldInv' /\ Numbered(turn, threadRevision)'
  <2>1. ASSUME ToldInv, Numbered(turn, threadRevision), [Next]_vars
        PROVE  Numbered(turn', threadRevision')
    BY <2>1, NumberedStep DEF ToldInv
  <2>2. QED
    BY <2>1, ToldStep DEF Numbered
<1>3. ToldInv /\ Numbered(turn, threadRevision) => OneStory
  <2> SUFFICES ASSUME ToldInv, Numbered(turn, threadRevision)
               PROVE  OneStory
    OBVIOUS
  <2>1. OrdinalsContiguous
    BY DEF Numbered, OrdinalsContiguous
  <2>2. ASSUME NEW r \in Requests
        PROVE  /\ \A x, y \in told[r] : x = y
               /\ Terminal(turn[r]) =>
                    told[r] \subseteq (IF turn[r].state = "available" THEN {"available"}
                                                                      ELSE {turn[r].reason})
    <3>1. told[r] \subseteq Settled(turn[r])
      BY DEF ToldInv
    <3>2. \A x, y \in Settled(turn[r]) : x = y
      BY DEF Settled
    <3>3. QED
      BY <3>1, <3>2 DEF Settled, Terminal
  <2>3. QED
    BY <2>1, <2>2 DEF OneStory, ResponsesAgree
<1>4. QED
  BY <1>1, <1>2, <1>3, PTL DEF Spec

----------------------------------------------------------------------------
(* Answers: what they rest on and when they are released.                  *)

\* A context rests on finished answers only, and names everything behind it.
Covers(context, rows, taints) ==
    /\ \A r \in context.history : rows[r].state = "available"
    /\ context.chunks \cup UNION {taints[r] : r \in context.history} \subseteq context.refs

\* Nothing is generated from an empty context.
Grounded(state) ==
    \/ state.stage \in {"planning", "prepared", "inferring"}
    \/ state.outcome \in {"generated", "released"}
    => state.context.refs # {}

ContextsCovered ==
    \A w \in Workers : Covers(worker[w].context, turn, taint) /\ Grounded(worker[w])

\* What is about to be released is readable, and stays so until the commit.
ReleasesReadable ==
    \A w \in Workers : At(w, "releasing") /\ worker[w].outcome = "released" =>
        worker[w].context.refs \subseteq readable

\* The inductive invariant of release.
ReleaseInv == ReservationInv /\ ClosureCoversInfluence /\ ContextsCovered /\ ReleasesReadable

----------------------------------------------------------------------------
(* Contexts.                                                               *)

\* The history of any handler's context consists of requests.
LEMMA ContextTypes ==
    ASSUME ProcessType, NEW w \in Workers
    PROVE  /\ worker[w].context.history \subseteq Requests
           /\ worker[w].context.chunks \subseteq Refs
           /\ worker[w].context.refs \subseteq Refs
<1>1. CASE worker[w] = IdleWorker
  BY <1>1 DEF IdleWorker, NoContext
<1>2. CASE worker[w] \in BusyStates
  BY <1>2 DEF BusyStates, Contexts
<1>3. QED
  BY <1>1, <1>2 DEF ProcessType

\* Finished turns being frozen, a context stays covered whatever happens.
LEMMA CoversKept ==
    ASSUME FinishedKept, NEW context, context.history \subseteq Requests,
           Covers(context, turn, taint)
    PROVE  Covers(context, turn', taint')
<1>1. \A r \in context.history : turn'[r] = turn[r] /\ taint'[r] = taint[r]
  BY DEF FinishedKept, Covers, Terminal
<1>2. QED
  BY <1>1 DEF Covers

\* The context of an idle handler is empty.
LEMMA IdleFits == Covers(IdleWorker.context, turn, taint) /\ Grounded(IdleWorker)
BY DEF Covers, Grounded, IdleWorker, NoContext

\* prepare_context and the plan inherit the sources of the turns they quote.
LEMMA BoundContext ==
    ASSUME ReleaseInv, NEW w \in Workers, worker[w] \in BusyStates,
           NEW chunks \in SUBSET Refs, NEW history \in SUBSET Requests,
           \A r \in history : turn[r].state = "available",
           Closure(chunks, history) # {},
           NEW stage, Bind(w, chunks, history, stage)
    PROVE  Covers(worker'[w].context, turn, taint) /\ Grounded(worker'[w])
<1> DEFINE context == [revision |-> policyRevision, chunks |-> chunks, history |-> history,
                       refs |-> Closure(chunks, history)]
<1>1. \A r \in history : taint[r] \subseteq turn[r].refs
  BY DEF ReleaseInv, ClosureCoversInfluence
<1>2. Covers(context, turn, taint) /\ context.refs # {}
  BY <1>1 DEF Covers, Closure
<1>3. worker' = [worker EXCEPT ![w].stage = stage, ![w].context = context]
  BY DEF Bind
<1> HIDE DEF context
<1>4. worker'[w].context = context
  BY <1>3 DEF ReleaseInv, ReservationInv, TypeOK, ProcessType, BusyStates
<1>5. QED
  BY <1>2, <1>4 DEF Grounded

\* A handler that keeps its context and claims no more about it.
LEMMA SameContext ==
    ASSUME ContextsCovered, NEW w \in Workers, NEW next,
           next.context = worker[w].context,
           \/ next.stage \in {"planning", "prepared", "inferring"}
           \/ next.outcome \in {"generated", "released"}
           => \/ worker[w].stage \in {"planning", "prepared", "inferring"}
              \/ worker[w].outcome \in {"generated", "released"}
    PROVE  Covers(next.context, turn, taint) /\ Grounded(next)
BY DEF ContextsCovered, Grounded

\* Whatever a handler does, its next context is covered by the turns it read.
LEMMA NextContext ==
    ASSUME ReleaseInv, NEW w \in Workers, Handle(w) \/ Abort(w)
    PROVE  Covers(worker'[w].context, turn, taint) /\ Grounded(worker'[w])
<1> USE DEF ReleaseInv, ReservationInv, TypeOK
<1>1. \A state : worker' = [worker EXCEPT ![w] = state] => worker'[w] = state
  BY DEF ProcessType
<1>2. CASE Reject(w) \/ ReserveReplay(w) \/ ReserveConflict(w) \/ CompleteReplay(w)
           \/ Commit(w) \/ Abort(w)
  <2>1. worker'[w] = IdleWorker
    BY <1>1, <1>2 DEF Reject, ReserveReplay, ReserveConflict, CompleteReplay, Commit, Abort, Leave
  <2>2. QED
    BY <2>1, IdleFits
<1>3. ~At(w, "idle") => worker[w] \in BusyStates
  BY BusyTyped DEF At
<1>4. CASE Acquire(w) \/ Reserve(w)
  <2>1. worker[w] \in BusyStates
    BY <1>3, <1>4 DEF Acquire, Reserve, At
  <2>2. /\ worker'[w].context = worker[w].context /\ worker'[w].outcome = worker[w].outcome
        /\ worker'[w].stage \in {"admitted", "preparing"}
    BY <1>4, <2>1 DEF Acquire, Reserve, Advance, ProcessType, BusyStates
  <2>3. QED
    BY <2>2, SameContext
<1>5. ASSUME NEW reason, GiveUp(w, reason), worker[w] \in BusyStates,
             reason \in NeutralReasons \/ worker[w].stage = "inferring"
      PROVE  Covers(worker'[w].context, turn, taint) /\ Grounded(worker'[w])
  <2>1. /\ worker'[w].context = worker[w].context /\ worker'[w].outcome = reason
        /\ worker'[w].stage = "completing"
    BY <1>5 DEF GiveUp, ProcessType, BusyStates
  <2>2. QED
    BY <1>5, <2>1, SameContext DEF NeutralReasons
<1>6. CASE Prepare(w)
  <2>1. worker[w] \in BusyStates
    BY <1>3, <1>6 DEF Prepare, At
  <2>2. PICK chunks \in SUBSET readable, history \in SUBSET PriorTurns :
            /\ Bounded(history, UsableTurns(PriorTurns))
            /\ IF Closure(chunks, history) = {}
               THEN GiveUp(w, "no_context")
               ELSE Bind(w, chunks, history, IF PlansRelevance THEN "planning" ELSE "prepared")
    BY <1>6 DEF Prepare
  <2>3. /\ chunks \in SUBSET Refs /\ history \in SUBSET Requests
        /\ \A r \in history : turn[r].state = "available"
    BY <2>2 DEF PriorTurns, PolicyType
  <2>4. CASE Closure(chunks, history) = {}
    BY <1>5, <2>1, <2>2, <2>4 DEF NeutralReasons
  <2>5. CASE Closure(chunks, history) # {}
    BY <2>1, <2>2, <2>3, <2>5, BoundContext
  <2>6. QED
    BY <2>4, <2>5
<1>7. CASE Plan(w)
  <2> DEFINE old == worker[w].context
  <2>1. worker[w] \in BusyStates /\ old.refs # {}
    BY <1>3, <1>7 DEF Plan, At, ContextsCovered, Grounded
  <2>2. PICK chunks \in SUBSET (old.chunks \cap readable), history \in SUBSET old.history :
            /\ Bounded(history, UsableTurns(old.history))
            /\ IF Closure(chunks, history) = old.refs
               THEN Bind(w, chunks, history, "prepared")
               ELSE GiveUp(w, "policy_changed")
    BY <1>7 DEF Plan
  <2>3. /\ chunks \in SUBSET Refs /\ history \in SUBSET Requests
        /\ \A r \in history : turn[r].state = "available"
    BY <2>2, ContextTypes DEF PolicyType, ContextsCovered, Covers
  <2>4. CASE Closure(chunks, history) = old.refs
    BY <2>1, <2>2, <2>3, <2>4, BoundContext
  <2>5. CASE Closure(chunks, history) # old.refs
    BY <1>5, <2>1, <2>2, <2>5 DEF NeutralReasons
  <2>6. QED
    BY <2>4, <2>5
<1>8. CASE Fail(w)
  BY <1>3, <1>5, <1>8 DEF Fail, At, NeutralReasons
<1>9. CASE Infer(w)
  BY <1>3, <1>5, <1>9 DEF Infer, At
<1>10. CASE Activate(w)
  <2>1. worker[w] \in BusyStates /\ worker[w].stage = "prepared"
    BY <1>3, <1>10 DEF Activate, At
  <2>2. CASE Advance(w, "inferring")
    <3>1. worker'[w].context = worker[w].context
      BY <2>1, <2>2 DEF Advance, ProcessType, BusyStates
    <3>2. QED
      BY <2>1, <3>1, SameContext
  <2>3. CASE GiveUp(w, "interrupted")
    BY <1>5, <2>1, <2>3 DEF NeutralReasons
  <2>4. QED
    BY <1>10, <2>2, <2>3 DEF Activate
<1>11. CASE Authorize(w)
  <2>1. worker[w] \in BusyStates /\ worker[w].stage = "completing"
    BY <1>3, <1>11 DEF Authorize, At
  <2>2. /\ worker'[w].context = worker[w].context /\ worker'[w].outcome = Verdict(w)
        /\ worker'[w].stage = "releasing"
    BY <1>11, <2>1 DEF Authorize, ProcessType, BusyStates
  <2>3. Verdict(w) \in {"generated", "released"} => worker[w].outcome \in {"generated", "released"}
    BY DEF Verdict
  <2>4. QED
    BY <2>2, <2>3, SameContext
<1>12. CASE Discard(w)
  <2>1. worker[w] \in BusyStates
    BY <1>3, <1>12 DEF Discard, At
  <2>2. /\ Covers(NextAttempt(worker[w]).context, turn, taint) /\ Grounded(NextAttempt(worker[w]))
        /\ Covers(Exhausted(worker[w]).context, turn, taint) /\ Grounded(Exhausted(worker[w]))
    <3>1. /\ NextAttempt(worker[w]).context = NoContext /\ NextAttempt(worker[w]).outcome = "none"
          /\ NextAttempt(worker[w]).stage = "preparing"
          /\ Exhausted(worker[w]).context = NoContext /\ Exhausted(worker[w]).stage = "completing"
          /\ Exhausted(worker[w]).outcome = "policy_changed"
      BY <2>1 DEF NextAttempt, Exhausted, BusyStates
    <3>2. Covers(NoContext, turn, taint)
      BY DEF Covers, NoContext
    <3>3. QED
      BY <3>1, <3>2 DEF Grounded
  <2> DEFINE next == IF RetriesLeft(w) THEN NextAttempt(worker[w]) ELSE Exhausted(worker[w])
  <2>3. worker' = [worker EXCEPT ![w] = next] /\ Covers(next.context, turn, taint) /\ Grounded(next)
    BY <1>12, <2>2 DEF Discard
  <2> HIDE DEF next
  <2>4. QED
    BY <1>1, <2>3
<1>13. QED
  BY <1>2, <1>4, <1>6, <1>7, <1>8, <1>9, <1>10, <1>11, <1>12 DEF Handle

----------------------------------------------------------------------------
(* Steps.                                                                  *)

\* Only a commit turns a request into an answer.
LEMMA NewAnswer ==
    ASSUME ReservationInv, [Next]_vars, NEW r \in Requests,
           turn[r].state # "available", turn'[r].state = "available"
    PROVE  \E w \in Workers : Commit(w) /\ r = worker[w].request.id
<1> USE DEF ReservationInv, TypeOK, db, policy
<1>1. SettledTurn[r].state # "available"
  <2>1. turn[r] \in Turns
    BY DEF ThreadType, Rows
  <2>2. Refuse(turn[r], "interrupted").state = "neutral"
    BY <2>1, RefusedRow DEF NeutralReasons
  <2>3. QED
    BY <2>2 DEF SettledTurn
<1>2. SettledTurn \in [Requests -> Rows]
  BY SettledRows
<1>3. ASSUME NEW s \in Sessions, NEW q \in Payloads, Ask(s, q)
      PROVE  FALSE
  <2>1. CASE Help(s, q)
    <3>1. turn' = [SettledTurn EXCEPT ![q.id] = HelpRow(q)] /\ HelpRow(q).state = "neutral"
      BY <2>1, HelpRowFits DEF Help, HelpRow
    <3>2. QED
      BY <1>1, <1>2, <3>1
  <2>2. CASE ~Help(s, q)
    BY <1>1, <1>3, <2>2 DEF Ask, Replay, ReplayStored, Supersede, Submit, Settle
  <2>3. QED
    BY <2>1, <2>2
<1>4. ASSUME NEW w \in Workers, Handle(w) \/ Abort(w)
      PROVE  Commit(w) /\ r = worker[w].request.id
  <2>1. CASE Reserve(w)
    <3> DEFINE q == worker[w].request
    <3>1. q \in Payloads
      BY <2>1, BusyTyped DEF Reserve, At, BusyStates
    <3>2. turn' = [SettledTurn EXCEPT ![q.id] = NewRow(q)] /\ NewRow(q).state = "pending"
      BY <2>1, <3>1, InsertRows, NewRowFits DEF Reserve
    <3>3. QED
      BY <1>1, <1>2, <3>2
  <2>2. CASE Commit(w)
    BY <2>2, CommitEffect
  <2>3. CASE ~Reserve(w) /\ ~Commit(w)
    BY <1>1, <1>4, <2>3 DEF Handle, Acquire, Reject, ReserveReplay, ReserveConflict, ReplayStored,
       Settle, Prepare, Plan, Fail, Activate, Infer, Authorize, CompleteReplay, Discard, Abort
  <2>4. QED
    BY <2>1, <2>2, <2>3
<1>5. CASE Environment
  <2>1. CASE Tick
    BY <2>1, AgedRow DEF Tick, ThreadType
  <2>2. CASE ~Tick
    BY <1>5, <2>2 DEF Environment, ReadThread, Revoke, Expire, Login, Mutate, elsewhere, Restart
  <2>3. QED
    BY <2>1, <2>2
<1>6. CASE UNCHANGED vars
  BY <1>6 DEF vars
<1>7. Askable \subseteq Payloads
  BY DEF Askable, Payloads, ThreadType
<1>8. QED
  BY <1>3, <1>4, <1>5, <1>6, <1>7 DEF Next

\* What a commit that stores an answer stores, and under which conditions.
LEMMA AnswerStored ==
    ASSUME ReleaseInv, NEW w \in Workers, Commit(w), NEW r \in Requests,
           r = worker[w].request.id, turn'[r].state = "available"
    PROVE  /\ Running(r)
           /\ turn'[r].refs = worker[w].context.refs /\ turn'[r].refs # {}
           /\ taint'[r] \subseteq turn'[r].refs
           /\ turn'[r].refs \subseteq readable'
           /\ \A p \in Requests : p # r => turn'[p] = turn[p]
<1> USE DEF ReleaseInv, ReservationInv
<1>1. /\ Pending(r) /\ Decision(w) = "released"
      /\ turn'[r].refs = worker[w].context.refs
      /\ taint'[r] = Influence(worker[w].context)
      /\ \A p \in Requests : p # r => turn'[p] = turn[p]
  BY CommitEffect
<1>2. ~Lapsed(r) /\ worker[w].outcome = "released"
  BY <1>1 DEF Decision
<1>3. turn[r].lease \in Nat
  BY ChatAssumption DEF ChatAssumption, TypeOK, ThreadType, Rows, Turns
<1>4. worker[w].context.refs # {} /\ Covers(worker[w].context, turn, taint)
  BY <1>2 DEF ContextsCovered, Grounded
<1>5. worker[w].context.refs \subseteq readable
  BY <1>2 DEF ReleasesReadable, Commit
<1>6. Influence(worker[w].context) \subseteq worker[w].context.refs
  BY <1>4 DEF Influence, Covers
<1>7. readable' = readable
  BY DEF Commit, policy
<1>8. QED
  BY <1>1, <1>2, <1>3, <1>4, <1>5, <1>6, <1>7 DEF Running, Lapsed, Pending

\* The closure of a stored answer covers what influenced it: at its commit by
\* the context, later because finished turns are frozen.
LEMMA ClosureStep == ReleaseInv /\ [Next]_vars => ClosureCoversInfluence'
<1> SUFFICES ASSUME ReleaseInv, [Next]_vars, NEW r \in Requests, turn'[r].state = "available"
             PROVE  turn'[r].refs # {} /\ taint'[r] \subseteq turn'[r].refs
  BY DEF ClosureCoversInfluence
<1>1. CASE turn[r].state = "available"
  BY <1>1, FrozenStep DEF ReleaseInv, ClosureCoversInfluence, FinishedKept, Terminal
<1>2. CASE turn[r].state # "available"
  <2>1. PICK w \in Workers : Commit(w) /\ r = worker[w].request.id
    BY <1>2, NewAnswer DEF ReleaseInv
  <2>2. QED
    BY <2>1, AnswerStored
<1>3. QED
  BY <1>1, <1>2

\* Contexts stay covered: the handler that moves by what it read, the others
\* because what they read is frozen.
LEMMA ContextsStep == ReleaseInv /\ [Next]_vars => ContextsCovered'
<1> SUFFICES ASSUME ReleaseInv, [Next]_vars, NEW v \in Workers
             PROVE  Covers(worker'[v].context, turn', taint') /\ Grounded(worker'[v])
  BY DEF ContextsCovered, Covers, Grounded
<1> USE DEF ReleaseInv, ReservationInv
<1>1. FinishedKept /\ TypeOK'
  BY FrozenStep, NextTyped
<1>2. worker'[v].context.history \subseteq Requests
  <2>1. ProcessType'
    BY <1>1 DEF TypeOK
  <2>2. CASE worker'[v] = IdleWorker
    BY <2>2 DEF IdleWorker, NoContext
  <2>3. CASE worker'[v] \in BusyStates
    BY <2>3 DEF BusyStates, Contexts
  <2>4. QED
    BY <2>1, <2>2, <2>3 DEF ProcessType
<1>3. SUFFICES Covers(worker'[v].context, turn, taint) /\ Grounded(worker'[v])
  BY <1>1, <1>2, CoversKept
<1>4. CASE worker'[v] = worker[v]
  BY <1>4 DEF ContextsCovered
<1>5. CASE worker'[v] = IdleWorker
  BY <1>5, IdleFits
<1>6. ASSUME NEW w \in Workers, Handle(w) \/ Abort(w)
      PROVE  Covers(worker'[v].context, turn, taint) /\ Grounded(worker'[v])
  BY <1>4, <1>6, NextContext, OthersUntouched DEF TypeOK
<1>7. ASSUME NEW s \in Sessions, NEW q \in Askable, Ask(s, q)
      PROVE  Covers(worker'[v].context, turn, taint) /\ Grounded(worker'[v])
  <2>1. CASE \E w \in Workers : Submit(w, s, q)
    <3>1. PICK w \in Workers : Submit(w, s, q)
      BY <2>1
    <3> DEFINE next == [IdleWorker EXCEPT !.stage = "resolved", !.session = s, !.request = q]
    <3>2. worker' = [worker EXCEPT ![w] = next]
      BY <3>1 DEF Submit
    <3>3. Covers(next.context, turn, taint) /\ Grounded(next)
      BY DEF IdleWorker, NoContext, Covers, Grounded
    <3> HIDE DEF next
    <3>4. worker'[v] = next \/ worker'[v] = worker[v]
      BY <3>2 DEF TypeOK, ProcessType
    <3>5. QED
      BY <1>4, <3>3, <3>4
  <2>2. CASE Replay(s, q) \/ Supersede(s, q) \/ Help(s, q)
    BY <1>4, <2>2 DEF Replay, Supersede, Help, process
  <2>3. QED
    BY <1>7, <2>1, <2>2 DEF Ask
<1>8. CASE Environment
  BY <1>4, <1>5, <1>8 DEF Environment, ReadThread, Revoke, Expire, Login, Mutate, elsewhere,
                               Tick, Restart, process
<1>9. CASE UNCHANGED vars
  BY <1>4, <1>9 DEF vars
<1>10. QED
  BY <1>6, <1>7, <1>8, <1>9 DEF Next

\* A decision to release is taken on readable sources, and the share of the
\* policy row that its handler holds keeps them readable until the commit.
LEMMA ReleasesStep == ReleaseInv /\ [Next]_vars => ReleasesReadable'
<1> SUFFICES ASSUME ReleaseInv, [Next]_vars, NEW v \in Workers,
                    worker'[v].stage = "releasing", worker'[v].outcome = "released"
             PROVE  worker'[v].context.refs \subseteq readable'
  BY DEF ReleasesReadable, At
<1> USE DEF ReleaseInv, ReservationInv, TypeOK
<1>1. ASSUME worker'[v] = worker[v], readable' = readable
      PROVE  worker'[v].context.refs \subseteq readable'
  BY <1>1 DEF ReleasesReadable, At
<1>2. ASSUME NEW w \in Workers, Handle(w) \/ Abort(w)
      PROVE  worker'[v].context.refs \subseteq readable'
  <2>1. readable' = readable
    BY <1>2 DEF Handle, Acquire, Reject, Reserve, ReserveReplay, ReserveConflict, Prepare, Plan,
                Fail, Activate, Infer, Authorize, CompleteReplay, Discard, Commit, Abort, policy
  <2>2. CASE v # w
    BY <1>1, <1>2, <2>1, <2>2, OthersUntouched
  <2>3. CASE v = w
    <3>1. Authorize(w)
      BY <1>2, <2>3, OnlyAuthorizeDecides
    <3>2. worker[w] \in BusyStates /\ worker[w].stage = "completing"
      BY <3>1, BusyTyped DEF Authorize, At
    <3>3. worker'[w].context = worker[w].context /\ worker'[w].outcome = Verdict(w)
      BY <3>1, <3>2 DEF Authorize, ProcessType, BusyStates
    <3>4. worker[w].outcome # "released"
      BY <3>2 DEF ProcessType, OutcomeFits, NeutralReasons
    <3>5. Release(worker[w].context) = "released"
      BY <2>3, <3>3, <3>4 DEF Verdict
    <3>6. worker[w].context.refs \subseteq readable
      BY <3>5 DEF Release
    <3>7. QED
      BY <2>1, <2>3, <3>3, <3>6
  <2>4. QED
    BY <2>2, <2>3
<1>3. ASSUME NEW s \in Sessions, NEW q \in Askable, Ask(s, q)
      PROVE  worker'[v].context.refs \subseteq readable'
  <2>1. readable' = readable
    BY <1>3 DEF Ask, Replay, Supersede, Help, Submit, policy
  <2>2. CASE \E w \in Workers : Submit(w, s, q)
    <3>1. PICK w \in Workers : Submit(w, s, q)
      BY <2>2
    <3>2. v # w => worker'[v] = worker[v]
      BY <3>1 DEF Submit, ProcessType
    <3>3. worker'[w].stage = "resolved"
      BY <3>1 DEF Submit, ProcessType, IdleWorker
    <3>4. QED
      BY <1>1, <2>1, <3>2, <3>3
  <2>3. CASE Replay(s, q) \/ Supersede(s, q) \/ Help(s, q)
    BY <1>1, <2>1, <2>3 DEF Replay, Supersede, Help, process
  <2>4. QED
    BY <1>3, <2>2, <2>3 DEF Ask
<1>4. CASE Environment
  <2>1. CASE Restart
    BY <2>1 DEF Restart, IdleWorker
  <2>2. CASE Mutate
    <3>1. holder = None /\ worker'[v] = worker[v]
      BY <2>2 DEF Mutate, PolicyFree, elsewhere
    <3>2. QED
      BY <3>1, FreeMeansUndecided
  <2>3. CASE ~Restart /\ ~Mutate
    BY <1>1, <1>4, <2>3 DEF Environment, ReadThread, Revoke, Source!Revoke, Expire, Source!Expire,
                            Login, Source!Login, Tick, process, policy, elsewhere
  <2>4. QED
    BY <2>1, <2>2, <2>3
<1>5. CASE UNCHANGED vars
  BY <1>1, <1>5 DEF vars
<1>6. QED
  BY <1>2, <1>3, <1>4, <1>5 DEF Next

LEMMA InitRelease == Init => ReleaseInv
<1> SUFFICES ASSUME Init
             PROVE  ReleaseInv
  OBVIOUS
<1>1. ReservationInv
  BY InitTyped, InitOwnedPending DEF ReservationInv
<1>2. ClosureCoversInfluence
  BY DEF Init, AbsentTurn, ClosureCoversInfluence
<1>3. ContextsCovered
  BY IdleFits DEF Init, ContextsCovered
<1>4. ReleasesReadable
  BY DEF Init, ReleasesReadable, At, IdleWorker
<1>5. QED
  BY <1>1, <1>2, <1>3, <1>4 DEF ReleaseInv

LEMMA NextRelease == ReleaseInv /\ [Next]_vars => ReleaseInv'
<1>1. ReleaseInv /\ [Next]_vars => ReservationInv'
  BY NextTyped, OwnedStep, OnePendingStep DEF ReleaseInv, ReservationInv
<1>2. QED
  BY <1>1, ClosureStep, ContextsStep, ReleasesStep DEF ReleaseInv

LEMMA ReleaseInvariant == Spec => []ReleaseInv
BY InitRelease, NextRelease, PTL DEF Spec

\* The stored sources of an answer cover everything that influenced it, the
\* sources of the earlier answers in its context and theirs included
\* (prepare_context, bound_context, complete_turn).
THEOREM ClosureTransitive == Spec => []ClosureCoversInfluence
BY ReleaseInvariant, PTL DEF ReleaseInv

FreshlyReleased ==
    \A r \in Requests : turn[r].state # "available" /\ turn'[r].state = "available" =>
        /\ Running(r)
        /\ taint'[r] \subseteq readable'
        /\ \A p \in Requests : p # r => turn'[p] = turn[p]

LEMMA FreshStep == ReleaseInv /\ [Next]_vars => FreshlyReleased
<1> SUFFICES ASSUME ReleaseInv, [Next]_vars, NEW r \in Requests,
                    turn[r].state # "available", turn'[r].state = "available"
             PROVE  /\ Running(r)
                    /\ taint'[r] \subseteq readable'
                    /\ \A p \in Requests : p # r => turn'[p] = turn[p]
  BY DEF FreshlyReleased
<1>1. PICK w \in Workers : Commit(w) /\ r = worker[w].request.id
  BY NewAnswer DEF ReleaseInv
<1>2. QED
  BY <1>1, AnswerStored

\* An answer is stored only while its lease runs and only if everything that
\* influenced it is readable at that very moment (ChatCompletion.complete,
\* release_result), however long ago it was retrieved and generated.
THEOREM ReleasedFresh == Spec => AnswersReleasedFresh
<1>1. ReleaseInv /\ [Next]_vars => [FreshlyReleased]_vars
  BY FreshStep
<1>2. QED
  BY <1>1, ReleaseInvariant, PTL DEF Spec, AnswersReleasedFresh, FreshlyReleased

----------------------------------------------------------------------------
(* The log that the numbered rows make.                                    *)

\* What stands at each place of the log.
LEMMA StoredIs ==
    ASSUME NEW rows, NEW revision, Numbered(rows, revision), NEW n \in 1..revision
    PROVE  /\ Stored(rows, n) \in Requests
           /\ Terminal(rows[Stored(rows, n)]) /\ rows[Stored(rows, n)].ordinal = n
           /\ \A r \in Requests : Terminal(rows[r]) /\ rows[r].ordinal = n => r = Stored(rows, n)
<1>1. PICK r \in Requests :
          /\ Terminal(rows[r]) /\ rows[r].ordinal = n
          /\ \A p \in Requests : Terminal(rows[p]) /\ rows[p].ordinal = n => p = r
  BY DEF Numbered
<1>2. QED
  BY <1>1 DEF Stored

Entry(rows, r) == [request |-> r, outcome |-> Outcome(rows[r])]

LEMMA EntryAt ==
    ASSUME NEW rows, NEW revision, NEW n \in 1..revision
    PROVE  Entries(rows, revision)[n] = Entry(rows, Stored(rows, n))
BY DEF Entries, Entry

LEMMA OutcomeTyped ==
    ASSUME NEW t \in Rows, Terminal(t)
    PROVE  Outcome(t) \in Outcomes
BY DEF Rows, RowFits, Terminal, Outcome, Outcomes

LogEntries == [request : Requests, outcome : Outcomes]

LEMMA EntriesTyped ==
    ASSUME NEW rows \in [Requests -> Rows], NEW revision \in Nat, Numbered(rows, revision)
    PROVE  Entries(rows, revision) \in Seq(LogEntries) /\ Len(Entries(rows, revision)) = revision
<1>1. \A n \in 1..revision : Entry(rows, Stored(rows, n)) \in LogEntries
  BY StoredIs, OutcomeTyped DEF Entry, LogEntries
<1>2. Entries(rows, revision) \in [1..revision -> LogEntries]
  BY <1>1 DEF Entries, Entry
<1>3. QED
  BY <1>2

\* The log does not change while the finished rows do not.
LEMMA EntriesSame ==
    ASSUME NEW rows, NEW next, NEW revision, Numbered(rows, revision),
           \A r \in Requests : \/ ~Terminal(rows[r]) /\ ~Terminal(next[r])
                               \/ next[r] = rows[r]
    PROVE  Entries(next, revision) = Entries(rows, revision)
<1>1. Numbered(next, revision)
  BY NumberedSame
<1>2. ASSUME NEW n \in 1..revision
      PROVE  Stored(next, n) = Stored(rows, n) /\ next[Stored(rows, n)] = rows[Stored(rows, n)]
  <2>1. Stored(rows, n) \in Requests /\ Terminal(rows[Stored(rows, n)]) /\ rows[Stored(rows, n)].ordinal = n
    BY StoredIs
  <2>2. next[Stored(rows, n)] = rows[Stored(rows, n)]
    BY <2>1
  <2>3. QED
    BY <1>1, <2>1, <2>2, StoredIs
<1>3. QED
  BY <1>2 DEF Entries

\* The row that is finished next is appended.
LEMMA EntriesNext ==
    ASSUME NEW rows \in [Requests -> Rows], NEW next \in [Requests -> Rows], NEW revision \in Nat,
           Numbered(rows, revision), NEW r \in Requests, ~Terminal(rows[r]),
           Terminal(next[r]), next[r].ordinal = revision + 1,
           \A p \in Requests : p # r => \/ next[p] = rows[p]
                                        \/ ~Terminal(rows[p]) /\ ~Terminal(next[p])
    PROVE  Entries(next, revision + 1) = Append(Entries(rows, revision), Entry(next, r))
<1> DEFINE new == Entries(next, revision + 1)
           old == Entries(rows, revision)
<1>1. Numbered(next, revision + 1)
  BY NumberedNext
<1>2. /\ new \in Seq(LogEntries) /\ Len(new) = revision + 1
      /\ old \in Seq(LogEntries) /\ Len(old) = revision
  BY <1>1, EntriesTyped
<1>3. Entry(next, r) \in LogEntries
  BY OutcomeTyped DEF Entry, LogEntries
<1>4. ASSUME NEW n \in 1..revision
      PROVE  new[n] = old[n]
  <2>1. Stored(rows, n) \in Requests /\ Terminal(rows[Stored(rows, n)]) /\ rows[Stored(rows, n)].ordinal = n
    BY StoredIs
  <2>2. next[Stored(rows, n)] = rows[Stored(rows, n)]
    BY <2>1
  <2>3. n \in 1..(revision + 1)
    OBVIOUS
  <2>4. Stored(next, n) = Stored(rows, n)
    BY <1>1, <2>1, <2>2, <2>3, StoredIs
  <2>5. new[n] = Entry(next, Stored(rows, n)) /\ old[n] = Entry(rows, Stored(rows, n))
    BY <2>3, <2>4, EntryAt
  <2>6. QED
    BY <2>2, <2>5 DEF Entry
<1>5. new[revision + 1] = Entry(next, r)
  <2>1. revision + 1 \in 1..(revision + 1)
    OBVIOUS
  <2>2. Stored(next, revision + 1) = r
    BY <1>1, <2>1, StoredIs
  <2>3. QED
    BY <2>1, <2>2, EntryAt
<1> HIDE DEF new, old
<1>6. /\ Append(old, Entry(next, r)) \in Seq(LogEntries) /\ Len(Append(old, Entry(next, r))) = revision + 1
      /\ Append(old, Entry(next, r))[revision + 1] = Entry(next, r)
      /\ \A n \in 1..revision : Append(old, Entry(next, r))[n] = old[n]
  BY <1>2, <1>3
<1>7. \A n \in 1..(revision + 1) : new[n] = Append(old, Entry(next, r))[n]
  BY <1>4, <1>5, <1>6
<1>8. new = Append(old, Entry(next, r))
  BY <1>2, <1>6, <1>7, SeqEqual
<1>9. QED
  BY <1>8 DEF new, old

\* Settling writes the abandoned reservation off.
LEMMA SettledLog ==
    ASSUME ReservationInv, Numbered(turn, threadRevision)
    PROVE  Entries(SettledTurn, SettledRevision) = Log!WrittenOff
<1> USE DEF ReservationInv, TypeOK
<1>1. \A r \in Requests : ~Lapsed(r) => SettledTurn[r] = turn[r]
  BY DEF SettledTurn
<1>2. CASE \E r \in Requests : Lapsed(r)
  <2>1. PICK r \in Requests : Lapsed(r)
    BY <1>2
  <2>2. \A p \in Requests : p # r => ~Lapsed(p) /\ ~Pending(p)
    BY <2>1, OnlyPending DEF Lapsed
  <2>3. SettledRevision = threadRevision + 1 /\ threadRevision \in Nat
    BY <1>2 DEF SettledRevision, ThreadType
  <2>4. SettledTurn[r] = Refuse(turn[r], "interrupted") /\ turn[r] \in Turns
    BY <2>1 DEF SettledTurn, ThreadType, Rows
  <2>5. Terminal(SettledTurn[r]) /\ SettledTurn[r].ordinal = threadRevision + 1
    BY <2>4, RefusedRow DEF NeutralReasons, Terminal
  <2>6. ~Terminal(turn[r])
    BY <2>1 DEF Lapsed, Pending, Terminal
  <2>7. SettledTurn \in [Requests -> Rows] /\ turn \in [Requests -> Rows]
    BY SettledRows DEF ThreadType
  <2>8. Entries(SettledTurn, SettledRevision) = Append(Entries(turn, threadRevision), Entry(SettledTurn, r))
    BY <1>1, <2>2, <2>3, <2>5, <2>6, <2>7, EntriesNext
  <2>9. Entry(SettledTurn, r) = [request |-> r, outcome |-> "interrupted"]
    BY <2>4 DEF Entry, Outcome, Refuse, Finished, Turns
  <2>10. {p \in Requests : Pending(p)} = {r}
    BY <2>1, <2>2 DEF Lapsed
  <2>11. (CHOOSE p \in {p \in Requests : Pending(p)} : TRUE) = r
    BY <2>10
  <2>12. QED
    BY <1>2, <2>8, <2>9, <2>11 DEF Log!WrittenOff, Log!Entry
<1>3. CASE ~\E r \in Requests : Lapsed(r)
  <2>1. SettledRevision = threadRevision
    BY <1>3 DEF SettledRevision, ThreadType
  <2>2. Entries(SettledTurn, SettledRevision) = Entries(turn, threadRevision)
    BY <1>1, <1>3, <2>1, EntriesSame
  <2>3. QED
    BY <1>3, <2>2 DEF Log!WrittenOff
<1>4. QED
  BY <1>2, <1>3

LEMMA EntriesNow == Entries(turn, threadRevision)' = Entries(turn', threadRevision')
BY DEF Entries, Stored, Terminal, Outcome

----------------------------------------------------------------------------
(* Each step is one of the log's, or a stutter.                            *)

LogInv == ReleaseInv /\ Numbered(turn, threadRevision)
LogStep == Log!Next \/ UNCHANGED Log!vars

\* A step that writes no row and shows nothing.
LEMMA LogStutters ==
    ASSUME UNCHANGED <<turn, threadRevision, told>>
    PROVE  LogStep
<1>1. \A r \in Requests : Pending(r)' = Pending(r) /\ Lapsed(r)' = Lapsed(r)
  BY DEF Pending, Lapsed
<1>2. UNCHANGED Log!vars
  BY <1>1, EntriesNow DEF Log!vars
<1>3. QED
  BY <1>2 DEF LogStep

LEMMA SettledRow ==
    ASSUME ReservationInv, NEW r \in Requests
    PROVE  /\ Lapsed(r) => SettledTurn[r] = Refuse(turn[r], "interrupted") /\ SettledTurn[r].state = "neutral"
                            /\ SettledTurn[r].reason = "interrupted"
           /\ ~Lapsed(r) => SettledTurn[r] = turn[r]
BY DEF SettledTurn, Refuse, Finished, ReservationInv, TypeOK, ThreadType, Rows, Turns

LEMMA LapsedAlone ==
    ASSUME ReservationInv, NEW r \in Requests, Lapsed(r)
    PROVE  {p \in Requests : Pending(p)} = {r}
BY OnlyPending DEF ReservationInv, Lapsed

\* Settling alone writes off what has lapsed.
LEMMA SettlingLog ==
    ASSUME LogInv, Settle, UNCHANGED told
    PROVE  LogStep
<1> USE DEF LogInv, ReleaseInv
<1>1. CASE \E r \in Requests : Lapsed(r)
  <2>1. PICK r \in Requests : Lapsed(r)
    BY <1>1
  <2>2. \A p \in Requests : turn'[p].state # "pending"
    BY <2>1, LapsedAlone, SettledRow DEF Settle, Pending
  <2>3. Entries(turn, threadRevision)' = Log!WrittenOff
    BY EntriesNow, SettledLog DEF Settle
  <2>4. {p \in Requests : Pending(p)}' = {} /\ ~(\E p \in Requests : Lapsed(p))'
    BY <2>2 DEF Pending, Lapsed
  <2>5. Log!WriteOff
    BY <1>1, <2>3, <2>4 DEF Log!WriteOff
  <2>6. QED
    BY <2>5 DEF LogStep, Log!Next
<1>2. CASE ~\E r \in Requests : Lapsed(r)
  <2>1. SettledTurn = turn /\ SettledRevision = threadRevision
    BY <1>2 DEF SettledTurn, SettledRevision, ReservationInv, TypeOK, ThreadType
  <2>2. QED
    BY <2>1, LogStutters DEF Settle
<1>3. QED
  BY <1>1, <1>2

\* What a projection shows of a row is what the log knows of its request.
LEMMA ShownKnown ==
    ASSUME LogInv, NEW r \in Requests
    PROVE  Shown(turn[r]) \subseteq Log!Known(r)
<1> USE DEF LogInv, ReleaseInv, ReservationInv, TypeOK
<1> DEFINE log == Entries(turn, threadRevision)
<1>1. turn[r] \in Rows /\ threadRevision \in Nat
  BY DEF ThreadType
<1>2. CASE Terminal(turn[r])
  <2> DEFINE n == turn[r].ordinal
  <2>1. n \in 1..threadRevision
    BY <1>2 DEF Numbered
  <2>2. log[n] = Entry(turn, r)
    BY <1>2, <2>1, StoredIs, EntryAt
  <2>3. Len(log) = threadRevision
    BY <1>1, EntriesTyped DEF ThreadType
  <2>4. Shown(turn[r]) \subseteq {Outcome(turn[r])}
    BY <1>1, <1>2 DEF Shown, Outcome, Terminal
  <2>5. n \in 1..Len(log) /\ log[n].request = r /\ log[n].outcome = Outcome(turn[r])
    BY <2>1, <2>2, <2>3 DEF Entry
  <2>6. Outcome(turn[r]) \in Log!Known(r)
    BY <2>5 DEF Log!Known
  <2>7. QED
    BY <2>4, <2>6
<1>3. CASE ~Terminal(turn[r])
  BY <1>3 DEF Shown, Terminal, Log!Known, Pending, Lapsed
<1>4. QED
  BY <1>2, <1>3

\* Showing what is known is a reading.
LEMMA ReadingLog ==
    ASSUME LogInv, HistoryType', UNCHANGED <<turn, threadRevision>>,
           \A r \in Requests : told[r] \subseteq told'[r] /\ told'[r] \subseteq told[r] \cup Shown(turn[r])
    PROVE  LogStep
<1>1. \A r \in Requests : Pending(r)' = Pending(r) /\ Lapsed(r)' = Lapsed(r)
  BY DEF Pending, Lapsed
<1>2. \A r \in Requests : told[r] \subseteq told'[r] /\ told'[r] \subseteq told[r] \cup Log!Known(r)
  BY ShownKnown
<1>3. Log!Read
  BY <1>1, <1>2, EntriesNow DEF Log!Read, HistoryType
<1>4. QED
  BY <1>3 DEF LogStep, Log!Next

\* The open request ends, and its client is told.
LEMMA FinishingLog ==
    ASSUME LogInv, NEW r \in Requests, Pending(r), turn' \in [Requests -> Rows],
           Terminal(turn'[r]), turn'[r].ordinal = threadRevision + 1,
           threadRevision' = threadRevision + 1,
           \A p \in Requests : p # r => turn'[p] = turn[p],
           Lapsed(r) => Outcome(turn'[r]) = "interrupted",
           Tell(r), Shown(turn'[r]) = {Outcome(turn'[r])}
    PROVE  LogStep
<1> USE DEF LogInv, ReleaseInv, ReservationInv, TypeOK
<1> DEFINE outcome == Outcome(turn'[r])
<1>1. \A p \in Requests : p # r => ~Pending(p) /\ turn'[p].state # "pending"
  BY OnlyPending DEF Pending
<1>2. turn'[r].state # "pending" /\ ~Terminal(turn[r])
  BY DEF Terminal, Pending
<1>3. {p \in Requests : Pending(p)} = {r} /\ {p \in Requests : Pending(p)}' = {}
  BY <1>1, <1>2 DEF Pending
<1>4. ~(\E p \in Requests : Lapsed(p))' /\ ((\E p \in Requests : Lapsed(p)) => Lapsed(r))
  BY <1>1, <1>2 DEF Lapsed, Pending
<1>5. Entries(turn, threadRevision)' = Append(Entries(turn, threadRevision), Entry(turn', r))
  BY <1>2, EntriesNow, EntriesNext DEF ThreadType
<1>6. outcome \in Outcomes
  BY OutcomeTyped
<1>7. told' = [told EXCEPT ![r] = @ \cup {outcome}]
  BY DEF Tell
<1>8. Entry(turn', r) = Log!Entry(r, outcome)
  BY DEF Entry, Log!Entry
<1> HIDE DEF outcome
<1>9. Log!Finish(outcome)
  BY <1>3, <1>4, <1>5, <1>7, <1>8 DEF Log!Finish, Log!Announce, outcome
<1>10. QED
  BY <1>6, <1>9 DEF LogStep, Log!Next

\* A stored request is answered: from the row, or by writing it off.
LEMMA ReplayLog ==
    ASSUME LogInv, HistoryType', turn' \in [Requests -> Rows], NEW q \in Payloads, ReplayStored(q)
    PROVE  LogStep
<1> USE DEF LogInv, ReleaseInv, ReservationInv, TypeOK
<1> DEFINE r == q.id
<1>1. r \in Requests
  BY DEF Payloads
<1>2. CASE Lapsed(r)
  <2>1. turn' = SettledTurn /\ threadRevision' = SettledRevision /\ Tell(r) /\ Pending(r)
    BY <1>2 DEF ReplayStored, Settle, Lapsed
  <2>2. SettledRevision = threadRevision + 1
    BY <1>1, <1>2 DEF SettledRevision, ThreadType
  <2>3. turn'[r] = Refuse(turn[r], "interrupted") /\ turn'[r].state = "neutral" /\ turn'[r].reason = "interrupted"
    BY <1>1, <1>2, <2>1, SettledRow
  <2>4. turn'[r].ordinal = threadRevision + 1
    BY <1>1, <2>3, RefusedRow DEF ThreadType, Rows, NeutralReasons
  <2>5. \A p \in Requests : p # r => turn'[p] = turn[p]
    BY <1>1, <2>1, OnlyPending, SettledRow DEF Lapsed
  <2>6. Outcome(turn'[r]) = "interrupted" /\ Shown(turn'[r]) = {"interrupted"} /\ Terminal(turn'[r])
    BY <2>3 DEF Outcome, Shown, Terminal
  <2>7. QED
    BY <1>1, <2>1, <2>2, <2>4, <2>5, <2>6, FinishingLog
<1>3. CASE ~Lapsed(r)
  <2>1. UNCHANGED <<turn, threadRevision>> /\ Tell(r)
    BY <1>3 DEF ReplayStored
  <2>2. \A p \in Requests : told[p] \subseteq told'[p] /\ told'[p] \subseteq told[p] \cup Shown(turn[p])
    BY <1>1, <2>1 DEF Tell, HistoryType
  <2>3. QED
    BY <2>1, <2>2, ReadingLog
<1>4. QED
  BY <1>2, <1>3

\* What proceeds finds no other request running, and is not in the log.
LEMMA ProceedsFree ==
    ASSUME LogInv, NEW q \in Payloads, Proceeds(q)
    PROVE  /\ q.id \in Requests
           /\ ({r \in Requests : Pending(r)} = {} \/ \E r \in Requests : Lapsed(r))
           /\ ~Pending(q.id) /\ ~Log!Logged(q.id) /\ ~Terminal(SettledTurn[q.id])
           /\ \A r \in Requests : SettledTurn[r].state # "pending"
           /\ SettledTurn \in [Requests -> Rows] /\ SettledRevision \in Nat
           /\ Numbered(SettledTurn, SettledRevision)
<1> USE DEF LogInv, ReleaseInv, ReservationInv, TypeOK
<1>1. q.id \in Requests /\ ~Pending(q.id) /\ ~Terminal(turn[q.id])
  BY DEF Payloads, Proceeds, Exists, Pending, Terminal
<1>2. ~Log!Logged(q.id)
  <2>1. Len(Entries(turn, threadRevision)) = threadRevision
    BY EntriesTyped DEF ThreadType
  <2>2. ASSUME NEW n \in 1..threadRevision
        PROVE  Entries(turn, threadRevision)[n].request # q.id
    <3>1. Entries(turn, threadRevision)[n] = Entry(turn, Stored(turn, n))
      BY EntryAt
    <3>2. Stored(turn, n) # q.id
      BY <1>1, StoredIs
    <3>3. QED
      BY <3>1, <3>2 DEF Entry
  <2>3. QED
    BY <2>1, <2>2 DEF Log!Logged
<1>3. \A r \in Requests : turn[r].lease \in Nat
  BY ChatAssumption DEF ThreadType, Rows, Turns, ChatAssumption
<1>4. {r \in Requests : Pending(r)} = {} \/ \E r \in Requests : Lapsed(r)
  BY <1>3 DEF Proceeds, Running, Lapsed
<1>5. ~Terminal(SettledTurn[q.id])
  BY <1>1, SettledRow DEF Lapsed
<1>6. QED
  BY <1>1, <1>2, <1>4, <1>5, ProceedsSettled, SettledRows, NumberedSettled

\* Help is logged at once.
LEMMA HelpLog ==
    ASSUME LogInv, NEW s \in Sessions, NEW q \in Payloads, Help(s, q)
    PROVE  LogStep
<1> USE DEF LogInv, ReleaseInv, ReservationInv, TypeOK
<1> DEFINE r == q.id
<1>1. /\ Proceeds(q) /\ threadRevision' = SettledRevision + 1
      /\ turn' = [SettledTurn EXCEPT ![r] = HelpRow(q)] /\ Tell(r)
  BY DEF Help, HelpRow
<1>2. /\ turn'[r] = HelpRow(q) /\ \A p \in Requests : p # r => turn'[p] = SettledTurn[p]
      /\ turn' \in [Requests -> Rows]
  BY <1>1, ProceedsFree, HelpRowFits
<1>3. /\ turn'[r].state = "neutral" /\ turn'[r].ordinal = SettledRevision + 1
      /\ turn'[r].reason = "assistant_help"
  BY <1>2, HelpRowFits DEF HelpRow, AbsentTurn
<1>4. Outcome(turn'[r]) = "assistant_help" /\ Shown(turn'[r]) = {"assistant_help"} /\ Terminal(turn'[r])
  BY <1>3 DEF Outcome, Shown, Terminal
<1>5. Entries(turn, threadRevision)' = Append(Log!WrittenOff, Entry(turn', r))
  <2>1. /\ r \in Requests /\ ~Terminal(SettledTurn[r]) /\ Numbered(SettledTurn, SettledRevision)
        /\ SettledTurn \in [Requests -> Rows] /\ SettledRevision \in Nat
    BY <1>1, ProceedsFree
  <2>2. Entries(turn', SettledRevision + 1) = Append(Entries(SettledTurn, SettledRevision), Entry(turn', r))
    BY <1>2, <1>3, <1>4, <2>1, EntriesNext
  <2>3. QED
    BY <1>1, <2>2, EntriesNow, SettledLog
<1>6. Entry(turn', r) = Log!Entry(r, "assistant_help")
  BY <1>4 DEF Entry, Log!Entry
<1>7. \A p \in Requests : turn'[p].state # "pending"
  BY <1>1, <1>2, <1>3, ProceedsFree
<1>8. {p \in Requests : Pending(p)}' = {} /\ ~(\E p \in Requests : Lapsed(p))'
  BY <1>7 DEF Pending, Lapsed
<1>9. told' = [told EXCEPT ![r] = @ \cup {"assistant_help"}]
  BY <1>1, <1>4 DEF Tell
<1>10. Log!Assist(r)
  BY <1>1, <1>5, <1>6, <1>8, <1>9, ProceedsFree
  DEF Log!Assist, Log!Free, Log!Unused, Log!Announce
<1>11. QED
  BY <1>1, <1>10, ProceedsFree DEF LogStep, Log!Next

\* A reservation opens its request.
LEMMA ReserveLog ==
    ASSUME LogInv, NEW w \in Workers, Reserve(w)
    PROVE  LogStep
<1> USE DEF LogInv, ReleaseInv, ReservationInv, TypeOK
<1> DEFINE q == worker[w].request
           r == q.id
<1>1. q \in Payloads /\ Proceeds(q)
  BY BusyTyped DEF Reserve, At, BusyStates
<1>2. /\ turn' = [SettledTurn EXCEPT ![r] = NewRow(q)] /\ threadRevision' = SettledRevision
      /\ told' = told
  BY <1>1, InsertRows DEF Reserve
<1>3. turn'[r] = NewRow(q) /\ \A p \in Requests : p # r => turn'[p] = SettledTurn[p]
  BY <1>1, <1>2, ProceedsFree
<1>4. turn'[r].state = "pending" /\ turn'[r].lease # 0
  BY <1>3, ChatAssumption DEF NewRow, AbsentTurn, ChatAssumption
<1>5. \A p \in Requests : \/ ~Terminal(SettledTurn[p]) /\ ~Terminal(turn'[p])
                          \/ turn'[p] = SettledTurn[p]
  BY <1>1, <1>3, <1>4, ProceedsFree DEF Terminal
<1>6. Entries(turn, threadRevision)' = Log!WrittenOff
  <2>1. Entries(turn', SettledRevision) = Entries(SettledTurn, SettledRevision)
    BY <1>1, <1>5, ProceedsFree, EntriesSame
  <2>2. QED
    BY <1>2, <2>1, EntriesNow, SettledLog
<1>7. \A p \in Requests : turn'[p].state = "pending" <=> p = r
  BY <1>1, <1>3, <1>4, ProceedsFree
<1>8. {p \in Requests : Pending(p)}' = {r} /\ ~(\E p \in Requests : Lapsed(p))'
  BY <1>1, <1>4, <1>7, ProceedsFree DEF Pending, Lapsed
<1>9. Log!Begin(r)
  BY <1>1, <1>2, <1>6, <1>8, ProceedsFree DEF Log!Begin, Log!Free, Log!Unused
<1>10. QED
  BY <1>1, <1>9, ProceedsFree DEF LogStep, Log!Next

\* A commit ends the open request, as what was decided at its last moment.
LEMMA CommitLog ==
    ASSUME LogInv, TypeOK', NEW w \in Workers, Commit(w)
    PROVE  LogStep
<1> USE DEF LogInv, ReleaseInv, ReservationInv, TypeOK
<1> DEFINE r == worker[w].request.id
           refs == worker[w].context.refs
<1>1. /\ r \in Requests /\ Pending(r) /\ threadRevision' = threadRevision + 1
      /\ Terminal(turn'[r]) /\ turn'[r].ordinal = threadRevision + 1
      /\ \A p \in Requests : p # r => turn'[p] = turn[p]
  BY CommitEffect
<1>2. Tell(r) /\ turn' \in [Requests -> Rows] /\ At(w, "releasing") /\ Decision(w) # "stale"
  BY DEF Commit, ThreadType
<1>3. turn[r] \in Turns
  BY <1>1 DEF ThreadType, Rows
<1>4. CASE Decision(w) = "released"
  <2>1. turn'[r] = Finished(turn[r], "available", "none", refs) /\ ~Lapsed(r)
    BY <1>1, <1>4 DEF Commit, Decision, ThreadType
  <2>2. turn'[r].state = "available" /\ turn'[r].refs = refs
    BY <1>3, <2>1 DEF Finished, Turns
  <2>3. worker[w].outcome = "released"
    BY <1>4 DEF Decision
  <2>4. refs # {} /\ refs \subseteq readable
    BY <1>2, <2>3 DEF ContextsCovered, Grounded, ReleasesReadable
  <2>5. Outcome(turn'[r]) = "available" /\ Shown(turn'[r]) = {"available"}
    BY <2>2, <2>4 DEF Outcome, Shown
  <2>6. QED
    BY <1>1, <1>2, <2>1, <2>5, FinishingLog
<1>5. CASE Decision(w) # "released"
  <2>1. turn'[r] = Refuse(turn[r], Decision(w))
    BY <1>1, <1>5 DEF Commit, ThreadType
  <2>2. turn'[r].state = "neutral" /\ turn'[r].reason = Decision(w)
    BY <1>3, <2>1 DEF Refuse, Finished, Turns
  <2>3. Outcome(turn'[r]) = Decision(w) /\ Shown(turn'[r]) = {Decision(w)}
    BY <2>2 DEF Outcome, Shown
  <2>4. Lapsed(r) => Decision(w) = "interrupted"
    BY DEF Decision
  <2>5. QED
    BY <1>1, <1>2, <2>3, <2>4, FinishingLog
<1>6. QED
  BY <1>4, <1>5

\* The clock dooms the open request, and ages nothing that is finished.
LEMMA TickLog ==
    ASSUME LogInv, Tick
    PROVE  LogStep
<1> USE DEF LogInv, ReleaseInv, ReservationInv, TypeOK
<1>1. \A r \in Requests : turn[r] \in Rows /\ turn'[r] = Aged(turn[r])
  BY DEF Tick, ThreadType
<1>2. \A r \in Requests : turn'[r].state = turn[r].state /\ (turn[r].state # "pending" => turn'[r] = turn[r])
  BY <1>1, AgedRow
<1>3. \A r \in Requests : \/ ~Terminal(turn[r]) /\ ~Terminal(turn'[r])
                          \/ turn'[r] = turn[r]
  BY <1>2 DEF Terminal
<1>4. Entries(turn, threadRevision)' = Entries(turn, threadRevision)
  BY <1>3, EntriesSame, EntriesNow DEF Tick
<1>5. {r \in Requests : Pending(r)}' = {r \in Requests : Pending(r)} /\ UNCHANGED told
  BY <1>2 DEF Pending, Tick
<1>6. PICK r \in Requests : turn[r].lease > 0
  BY DEF Tick
<1>7. Pending(r) /\ ~Lapsed(r)
  BY <1>1, <1>6 DEF Rows, RowFits, Pending, Lapsed
<1>8. \A p \in Requests : ~Lapsed(p)
  BY <1>7, OnlyPending DEF Lapsed
<1>9. CASE (\E p \in Requests : Lapsed(p))'
  <2>1. Log!Lapse
    BY <1>4, <1>5, <1>7, <1>8, <1>9 DEF Log!Lapse
  <2>2. QED
    BY <2>1 DEF LogStep, Log!Next
<1>10. CASE ~(\E p \in Requests : Lapsed(p))'
  <2>1. UNCHANGED Log!vars
    BY <1>4, <1>5, <1>8, <1>10 DEF Log!vars
  <2>2. QED
    BY <2>1 DEF LogStep
<1>11. QED
  BY <1>9, <1>10

LEMMA AskLog ==
    ASSUME LogInv, TypeOK', NEW s \in Sessions, NEW q \in Payloads, Ask(s, q)
    PROVE  LogStep
<1>1. HistoryType' /\ turn' \in [Requests -> Rows]
  BY DEF TypeOK, ThreadType
<1>2. CASE Replay(s, q)
  BY <1>1, <1>2, ReplayLog DEF Replay
<1>3. CASE Help(s, q)
  BY <1>3, HelpLog
<1>4. CASE Supersede(s, q) \/ \E w \in Workers : Submit(w, s, q)
  BY <1>4, SettlingLog DEF Supersede, Submit
<1>5. QED
  BY <1>2, <1>3, <1>4 DEF Ask

LEMMA HandleLog ==
    ASSUME LogInv, TypeOK', NEW w \in Workers, Handle(w) \/ Abort(w)
    PROVE  LogStep
<1> USE DEF db
<1>1. HistoryType' /\ turn' \in [Requests -> Rows]
  BY DEF TypeOK, ThreadType
<1>2. ASSUME At(w, "admitted") \/ At(w, "completing")
      PROVE  worker[w].request \in Payloads
  BY <1>2, BusyTyped DEF At, BusyStates, LogInv, ReleaseInv, ReservationInv, TypeOK
<1>3. CASE Reserve(w)
  BY <1>3, ReserveLog
<1>4. CASE ReserveReplay(w)
  BY <1>1, <1>2, <1>4, ReplayLog DEF ReserveReplay
<1>5. CASE ReserveConflict(w)
  BY <1>5, SettlingLog, LogStutters DEF ReserveConflict
<1>6. CASE CompleteReplay(w)
  <2> DEFINE r == worker[w].request.id
  <2>1. r \in Requests /\ UNCHANGED <<turn, threadRevision>>
    BY <1>2, <1>6 DEF CompleteReplay, Payloads
  <2>2. CASE Pending(r)
    BY <1>6, <2>1, <2>2, LogStutters DEF CompleteReplay
  <2>3. CASE ~Pending(r)
    <3>1. Tell(r)
      BY <1>6, <2>3 DEF CompleteReplay
    <3>2. \A p \in Requests : told[p] \subseteq told'[p] /\ told'[p] \subseteq told[p] \cup Shown(turn[p])
      BY <2>1, <3>1 DEF Tell, HistoryType, LogInv, ReleaseInv, ReservationInv, TypeOK
    <3>3. QED
      BY <1>1, <2>1, <3>2, ReadingLog
  <2>4. QED
    BY <2>2, <2>3
<1>7. CASE Commit(w)
  BY <1>7, CommitLog
<1>8. CASE Acquire(w) \/ Reject(w) \/ Prepare(w) \/ Plan(w) \/ Fail(w) \/ Activate(w)
           \/ Infer(w) \/ Authorize(w) \/ Discard(w) \/ Abort(w)
  BY <1>8, LogStutters DEF Acquire, Reject, Prepare, Plan, Fail, Activate, Infer, Authorize,
     Discard, Abort
<1>9. QED
  BY <1>3, <1>4, <1>5, <1>6, <1>7, <1>8 DEF Handle

LEMMA EnvironmentLog ==
    ASSUME LogInv, TypeOK', Environment
    PROVE  LogStep
<1>1. ASSUME NEW s \in Sessions, ReadThread(s)
      PROVE  LogStep
  <2>1. UNCHANGED <<turn, threadRevision>> /\ told' = [r \in Requests |-> told[r] \cup Shown(turn[r])]
    BY <1>1 DEF ReadThread, db
  <2>2. QED
    BY <2>1, ReadingLog DEF TypeOK
<1>2. CASE Tick
  BY <1>2, TickLog
<1>3. ASSUME NEW s \in Sessions, Revoke(s) \/ Expire(s) \/ Login(s)
      PROVE  LogStep
  BY <1>3, LogStutters DEF Revoke, Expire, Login, elsewhere
<1>4. CASE Mutate \/ Restart
  BY <1>4, LogStutters DEF Mutate, Restart, elsewhere, db
<1>5. QED
  BY <1>1, <1>2, <1>3, <1>4 DEF Environment

LEMMA NextLog == LogInv /\ [Next]_vars => LogInv' /\ LogStep
<1> SUFFICES ASSUME LogInv, [Next]_vars
             PROVE  LogInv' /\ LogStep
  OBVIOUS
<1>1. ReleaseInv'
  BY NextRelease DEF LogInv
<1>2. Numbered(turn, threadRevision)'
  <2>1. Numbered(turn', threadRevision')
    BY NumberedStep DEF LogInv, ReleaseInv
  <2>2. QED
    BY <2>1 DEF Numbered
<1>3. TypeOK'
  BY <1>1 DEF ReleaseInv, ReservationInv
<1>4. Askable \subseteq Payloads
  BY DEF Askable, Payloads, LogInv, ReleaseInv, ReservationInv, TypeOK, ThreadType
<1>5. LogInv'
  BY <1>1, <1>2 DEF LogInv
<1>6. UNCHANGED vars => LogStep
  BY LogStutters DEF vars
<1>7. Next => LogStep
  <2>1. ASSUME NEW s \in Sessions, NEW q \in Askable, Ask(s, q)
        PROVE  LogStep
    BY <1>3, <1>4, <2>1, AskLog
  <2>2. ASSUME NEW w \in Workers, Handle(w) \/ Abort(w)
        PROVE  LogStep
    BY <1>3, <2>2, HandleLog
  <2>3. Environment => LogStep
    BY <1>3, EnvironmentLog
  <2>4. QED
    BY <2>1, <2>2, <2>3 DEF Next
<1>8. QED
  BY <1>5, <1>6, <1>7

\* The thread is the log that ThreadLog promises: exactly once, append only,
\* one request open, and nothing announced that it will not bear out
\* (resolve_request, complete_turn, project_turn).
THEOREM LogImplemented == Spec => ImplementsLog
<1>1. Init => LogInv /\ Log!Init
  <2> SUFFICES ASSUME Init
               PROVE  LogInv /\ Log!Init
    OBVIOUS
  <2>1. threadRevision = 0 /\ told = [r \in Requests |-> {}]
        /\ \A r \in Requests : ~Terminal(turn[r]) /\ ~Pending(r) /\ ~Lapsed(r)
    BY DEF Init, AbsentTurn, Terminal, Pending, Lapsed
  <2>2. 1..threadRevision = {}
    BY <2>1
  <2>3. Numbered(turn, threadRevision)
    BY <2>1, <2>2 DEF Numbered
  <2>4. Entries(turn, threadRevision) = <<>>
    BY <2>2 DEF Entries
  <2>5. QED
    BY <2>1, <2>3, <2>4, InitRelease DEF LogInv, Log!Init
<1>2. LogInv /\ [Next]_vars => LogInv' /\ [Log!Next]_(Log!vars)
  BY NextLog DEF LogStep
<1>3. QED
  BY <1>1, <1>2, PTL DEF Spec, ImplementsLog, Log!Spec

============================================================================
