---------------------------- MODULE ArmComparison ----------------------------
(***************************************************************************)
(* One trial of the controlled comparison: a case, a list of actions, is   *)
(* run by the baseline and by the guarded host, each on its own clone of   *)
(* the seeded database.  A question is answered in transactions around the *)
(* model's call; a revocation may be set to commit at one of two of its    *)
(* boundaries, on another connection, with an event on each side.          *)
(***************************************************************************)
EXTENDS Naturals, Sequences, FiniteSets, SequencesExt

CONSTANTS Docs,  \* documents, each with a first and a replaced version
          Cases, \* the lists of actions
          None

\* An action of a case: what it does, to which document, beside which question and where.
CaseAction ==
  [kind : {"ask", "revoke", "replace", "end_session", "tamper", "outage",
           "read_thread", "read_source", "read_documents"},
   doc : Docs \union {None, <<None, 0>>}, ask : Nat, barrier : {"none", "model_generated", "release_committed"}]

ComparisonAssumption == None \notin Docs /\ Cases \subseteq Seq(CaseAction)

VARIABLES case, template, order, \* the trial: its case, first grants, order of the arms
          records,   \* how each arm ended, in the order they ran
          granted, active, session, \* policy, and the actor's session
          revision,  \* of the policy
          turns,     \* the thread: for each question its stored sources, or what ended it
          pos,       \* the action under way
          at,        \* where the host is
          attempt,   \* the question's attempt: number, context, revision, answered
          lapsed,    \* the reservation's lease
          fault, outage, \* injected at the next preparation
          ordering,  \* events of the barrier, its change and the recorded commits
          happened,  \* what committed during the question, in order
          seen,      \* observations: what was exposed
          witnesses, \* the sources first prepared for each question
          attempts   \* evidence of the attempts

trial == <<case, template, order, records>>
policy == <<granted, active, session, revision>>
asked == <<attempt, lapsed>>
faults == <<fault, outage>>
evidence == <<seen, witnesses, attempts>>
vars == <<case, template, order, records, granted, active, session, revision, turns, pos,
          at, attempt, lapsed, fault, outage, ordering, happened, seen, witnesses, attempts>>

Rows == Docs \X (0..1)
Forged == <<None, 0>>  \* a reference that names no canonical row
Readable == {<<d, active[d]>> : d \in granted}

Arm == order[Len(records) + 1]
Action == case[pos]
NoRelease == [refs |-> {}, forbidden |-> FALSE]
NoAttempt == [number |-> 0, refs |-> {}, revision |-> 0, answered |-> FALSE, live |-> TRUE,
              release |-> NoRelease]
NoOrdering == [barrier |-> "none", doc |-> None, reached |-> FALSE, committed |-> FALSE,
               change |-> "none", commits |-> <<>>]

\* Every arm begins with the same clone.
Clean(grants) ==
  /\ granted = grants /\ active = [d \in Docs |-> 0]
  /\ session = TRUE /\ revision = 0
  /\ turns = <<>> /\ pos = 1 /\ at = "next"
  /\ attempt = NoAttempt /\ lapsed = FALSE
  /\ fault = None /\ outage = FALSE
  /\ ordering = NoOrdering /\ happened = <<>>
  /\ seen = {} /\ witnesses = [i \in {} |-> {}] /\ attempts = <<>>

Init ==
  /\ case \in Cases
  /\ template \in SUBSET Docs
  /\ order \in {<<"baseline", "guarded">>, <<"guarded", "baseline">>}
  /\ records = <<>>
  /\ Clean(template)

Note(surface, refs, forbidden) ==
  seen' = seen \union {[action |-> pos, surface |-> surface, refs |-> refs,
                        forbidden |-> forbidden, valid |-> refs \subseteq Rows]}
Observe(surface, refs) == Note(surface, refs, refs \ Readable # {})

------------------------------------------------------------------------------
(* A question: its reservation, its attempts and their release.            *)

\* The change that commits during this question, if the case has one.
Concurrent ==
  {i \in DOMAIN case : case[i].kind = "revoke" /\ case[i].barrier # "none" /\ case[i].ask = pos}

Ask ==
  /\ at = "next" /\ pos <= Len(case) /\ Action.kind = "ask"
  /\ LET c == case[CHOOSE i \in Concurrent : \A j \in Concurrent : i <= j]
     IN  ordering' = IF Concurrent = {} THEN NoOrdering
                     ELSE [NoOrdering EXCEPT !.barrier = c.barrier, !.doc = c.doc,
                                             !.change = "waiting"]
  /\ happened' = <<>> /\ lapsed' = FALSE
  /\ IF session
     THEN /\ turns' = Append(turns, [state |-> "pending", ask |-> pos, refs |-> {}])
          /\ attempt' = [NoAttempt EXCEPT !.number = 1]
          /\ at' = "prepare"
     ELSE at' = "joining" /\ UNCHANGED <<turns, attempt>>
  /\ UNCHANGED <<trial, policy, pos, faults, evidence>>

LeaseLapses ==
  /\ attempt # NoAttempt /\ ~lapsed
  /\ lapsed' = TRUE
  /\ UNCHANGED <<trial, policy, turns, pos, at, attempt, faults, ordering, happened, evidence>>

Answered == {i \in DOMAIN turns : turns[i].state = "available"}

\* Only the guarded arm asks again for the sources of its history.
History == {turns[i].refs : i \in {j \in Answered : Arm = "guarded" => turns[j].refs \subseteq Readable}}

\* A damaged candidate is refused with the whole context, or left out where
\* the document that it is attached to cannot be read.
Candidates(retrieved) ==
  CASE fault = None -> {retrieved}
    [] fault \in Docs \ granted -> {{}}
    [] OTHER -> {}

Prepare ==
  /\ at = "prepare"
  /\ \E retrieved \in SUBSET Readable, quoted \in SUBSET History :
       LET fresh == IF outage THEN {} ELSE Candidates(retrieved)
           refs == IF fresh = {} THEN {} ELSE (UNION fresh) \union (UNION quoted)
       IN  /\ attempt' = [attempt EXCEPT !.refs = refs, !.revision = revision]
           /\ witnesses' = [i \in DOMAIN witnesses \union {pos} |->
                              IF i \in DOMAIN witnesses THEN witnesses[i] ELSE refs]
           /\ IF refs # {} /\ ~lapsed
              THEN Observe("model_context", refs) /\ at' = "model"
              ELSE UNCHANGED seen /\ at' = "generated"
  /\ fault' = None /\ outage' = FALSE
  /\ UNCHANGED <<trial, policy, turns, pos, lapsed, ordering, happened, attempts>>

\* Evidence of the attempt is kept however it ends.
Account(status) ==
  attempts' = Append(attempts, [action |-> pos, number |-> attempt.number, status |-> status])

Generate ==
  /\ at = "model"
  /\ attempt' = [attempt EXCEPT !.answered = TRUE]
  /\ at' = "generated"
  /\ UNCHANGED <<trial, policy, turns, pos, lapsed, faults, ordering, happened, evidence>>

\* A boundary of the question lets the change go and waits until it committed.
Reach(event, here) ==
  /\ at = here /\ ordering.barrier = event /\ ~ordering.reached
  /\ ordering' = [ordering EXCEPT !.reached = TRUE]
  /\ UNCHANGED <<trial, policy, turns, pos, at, asked, faults, happened, evidence>>

Pass(event, here, next) ==
  /\ at = here /\ (ordering.barrier = event => ordering.committed)
  /\ at' = next
  /\ UNCHANGED <<trial, policy, turns, pos, asked, faults, ordering, happened, evidence>>

Stale == Arm = "guarded" /\ attempt.answered /\ attempt.revision # revision

\* The baseline checks that the context is whole, the guarded arm also whose it is.
Allowed ==
  /\ attempt.answered /\ attempt.refs # {} /\ attempt.refs \subseteq Rows
  /\ Arm = "guarded" => ~Stale /\ attempt.refs \subseteq Readable

\* The release's transaction; the lease is read again before it ends.
OpenRelease ==
  /\ at = "releasing"
  /\ attempt' = [attempt EXCEPT !.live = ~lapsed]
  /\ at' = "gate"
  /\ UNCHANGED <<trial, policy, turns, pos, lapsed, faults, ordering, happened, evidence>>

\* A stale answer is discarded once.
Discarded == Stale /\ attempt.live /\ ~lapsed /\ attempt.number = 1

Retry ==
  /\ at = "gate" /\ Discarded
  /\ Account("stale_discarded")
  /\ attempt' = [NoAttempt EXCEPT !.number = attempt.number + 1]
  /\ at' = "prepare"
  /\ UNCHANGED <<trial, policy, turns, pos, lapsed, faults, ordering, happened, seen, witnesses>>

Complete ==
  /\ at = "gate" /\ ~Discarded
  /\ LET active_lease == attempt.live /\ ~lapsed
         refs == IF Allowed /\ active_lease THEN attempt.refs ELSE {}
     IN  /\ turns' = [turns EXCEPT ![Len(turns)] =
                        [state |-> IF refs # {} THEN "available"
                                   ELSE IF active_lease THEN "no_context" ELSE "interrupted",
                         ask |-> pos, refs |-> refs]]
         /\ attempt' = [attempt EXCEPT !.release =
                          [refs |-> refs, forbidden |-> refs \ Readable # {}]]
  /\ happened' = Append(happened, "ask")
  /\ at' = "stored"
  /\ UNCHANGED <<trial, policy, pos, lapsed, faults, ordering, evidence>>

Recorded(who) == [ordering EXCEPT !.commits = Append(@, who)]

RecordRelease ==
  /\ at = "stored"
  /\ ordering' = IF ordering.barrier = "none" THEN ordering ELSE Recorded("ask")
  /\ at' = "recorded"
  /\ UNCHANGED <<trial, policy, turns, pos, asked, faults, happened, evidence>>

Respond ==
  /\ at = "observing"
  /\ Note("release", attempt.release.refs, attempt.release.forbidden)
  /\ Account("completed")
  /\ attempt' = NoAttempt /\ lapsed' = FALSE
  /\ at' = "joining"
  /\ UNCHANGED <<trial, policy, turns, pos, faults, ordering, happened, witnesses>>

\* The question is over when its change is.
Join ==
  /\ at = "joining" /\ ordering.change \in {"none", "done"}
  /\ pos' = pos + 1 /\ at' = "next"
  /\ UNCHANGED <<trial, policy, turns, asked, faults, ordering, happened, evidence>>

------------------------------------------------------------------------------
(* Changes, injected faults and reads.                                     *)

\* The places where the host holds the policy.
Held == {"gate"}

Revoke(d) ==
  /\ d \in granted
  /\ granted' = granted \ {d} /\ revision' = revision + 1
  /\ UNCHANGED <<active, session>>

ApplyChange ==
  /\ ordering.change = "waiting" /\ ordering.reached /\ at \notin Held \union {"ended"}
  /\ Revoke(ordering.doc)
  /\ ordering' = [ordering EXCEPT !.change = "applied"]
  /\ happened' = Append(happened, "change")
  /\ UNCHANGED <<trial, turns, pos, at, asked, faults, evidence>>

TellChange ==
  /\ ordering.change = "applied" /\ at # "ended"
  /\ ordering' = [Recorded("change") EXCEPT !.change = "done", !.committed = TRUE]
  /\ UNCHANGED <<trial, policy, turns, pos, at, asked, faults, happened, evidence>>

Step(kind) ==
  /\ at = "next" /\ pos <= Len(case) /\ Action.kind = kind
  /\ pos' = pos + 1 /\ UNCHANGED at

Apply ==
  /\ \/ Step("revoke") /\ Action.barrier = "none" /\ Revoke(Action.doc)
     \/ /\ Step("replace") /\ active[Action.doc] = 0
        /\ active' = [active EXCEPT ![Action.doc] = 1]
        /\ revision' = revision + 1
        /\ UNCHANGED <<granted, session>>
     \/ /\ Step("end_session")
        /\ session' = FALSE /\ revision' = revision + 1
        /\ UNCHANGED <<granted, active>>
  /\ UNCHANGED <<trial, turns, asked, faults, ordering, happened, evidence>>

\* A change with a barrier runs beside its question, not in its own place.
Skip ==
  /\ Step("revoke") /\ Action.barrier # "none"
  /\ UNCHANGED <<trial, policy, turns, asked, faults, ordering, happened, evidence>>

Inject ==
  /\ \/ Step("tamper") /\ fault' = Action.doc /\ UNCHANGED outage
     \/ Step("outage") /\ outage' = TRUE /\ UNCHANGED fault
  /\ UNCHANGED <<trial, policy, turns, asked, ordering, happened, evidence>>

\* Mutant: a stored answer is shown as it was released.
ShownToAll(refs) == TRUE
Shown(refs) == Arm = "guarded" => refs \subseteq Readable

Read ==
  /\ \/ /\ Step("read_thread") /\ turns # <<>>
        /\ Observe("stored_read", IF ~session THEN {}
                                  ELSE UNION {turns[i].refs : i \in {j \in Answered : Shown(turns[j].refs)}})
     \/ /\ Step("read_source") /\ Action.ask \in DOMAIN witnesses
        /\ \E row \in {r \in witnesses[Action.ask] : r[1] = Action.doc} :
             Observe("source_read", IF session /\ Shown({row}) THEN {row} ELSE {})
     \/ Step("read_documents") /\ Observe("document_list", IF session THEN Readable ELSE {})
  /\ UNCHANGED <<trial, policy, turns, asked, faults, ordering, happened, witnesses, attempts>>

------------------------------------------------------------------------------
(* The end of an arm and of the trial.                                     *)

\* Nothing but the record of a failed arm survives it.
Fail(status) ==
  /\ records' = Append(records, [status |-> status, commits |-> ordering.commits])
  /\ at' = "ended"
  /\ UNCHANGED <<case, template, order, policy, turns, pos, lapsed, faults, ordering, happened,
                 seen, witnesses>>

\* A question that is cut off in the host reports an interruption, which ends
\* the schedule; one that only waits for its change does not.
CutOff ==
  /\ IF attempt = NoAttempt
     THEN UNCHANGED attempts /\ Fail("failed")
     ELSE Account("failed") /\ Fail("interrupted")
  /\ attempt' = NoAttempt

\* No handler of the transport answers for the model.
ModelFails ==
  /\ at = "model"
  /\ Account("failed") /\ Fail("failed")
  /\ attempt' = NoAttempt

\* The case asks for what the database does not have.
Impossible ==
  /\ \/ /\ at = "next" /\ pos <= Len(case)
        /\ \/ Action.kind = "revoke" /\ Action.barrier = "none" /\ Action.doc \notin granted
           \/ Action.kind = "read_thread" /\ turns = <<>>
           \/ /\ Action.kind = "read_source"
              /\ Action.ask \in DOMAIN witnesses =>
                   \A r \in witnesses[Action.ask] : r[1] # Action.doc
     \/ /\ at # "ended" /\ ordering.change = "waiting" /\ ordering.reached
        /\ ordering.doc \notin granted
  /\ CutOff

Limited == at \notin {"next", "ended"}

\* The time of a question is limited, its change included.
Timeout == Limited /\ CutOff

FinishArm ==
  /\ at = "next" /\ pos > Len(case)
  /\ records' = Append(records, [status |-> "completed", commits |-> ordering.commits])
  /\ UNCHANGED <<case, template, order>>
  /\ IF records = <<>>
     THEN /\ granted' = template /\ active' = [d \in Docs |-> 0]
          /\ session' = TRUE /\ revision' = 0
          /\ turns' = <<>> /\ pos' = 1 /\ UNCHANGED at
          /\ attempt' = NoAttempt /\ lapsed' = FALSE
          /\ fault' = None /\ outage' = FALSE
          /\ ordering' = NoOrdering /\ happened' = <<>>
          /\ seen' = {} /\ witnesses' = [i \in {} |-> {}] /\ attempts' = <<>>
     ELSE /\ at' = "ended"
          /\ UNCHANGED <<policy, turns, pos, asked, faults, ordering, happened, evidence>>

\* The inputs changed while the arm ran.
Drift ==
  /\ at = "next" /\ pos > Len(case)
  /\ Fail("failed") /\ UNCHANGED <<attempt, attempts>>

Question ==
  \/ Ask \/ Prepare \/ Generate \/ ModelFails \/ OpenRelease \/ Retry \/ Complete
  \/ RecordRelease \/ Respond \/ Join
  \/ Reach("model_generated", "generated") \/ Pass("model_generated", "generated", "releasing")
  \/ Reach("release_committed", "recorded") \/ Pass("release_committed", "recorded", "observing")
Others == Apply \/ Skip \/ Inject \/ Read \/ Impossible \/ FinishArm \/ Drift

Next == Question \/ ApplyChange \/ TellChange \/ Others \/ LeaseLapses \/ Timeout

Spec == Init /\ [][Next]_vars
------------------------------------------------------------------------------
TypeOK ==
  /\ case \in Cases /\ template \subseteq Docs
  /\ granted \subseteq template /\ active \in [Docs -> 0..1]
  /\ session \in BOOLEAN /\ lapsed \in BOOLEAN /\ outage \in BOOLEAN
  /\ revision \in Nat /\ pos \in 1..(Len(case) + 1)
  /\ at \in {"next", "prepare", "model", "generated", "releasing", "gate", "stored",
             "recorded", "observing", "joining", "ended"}
  /\ attempt.refs \subseteq Rows \union {Forged} /\ attempt.number \in 0..2
  /\ \A i \in DOMAIN turns : turns[i].refs \subseteq Rows

\* The guarded host exposes nothing its user may not read at that moment: not
\* to the model, not in a release, not in what is read again later.
GuardedExposesNothing ==
  at # "ended" /\ Arm = "guarded" => \A o \in seen : ~o.forbidden

\* Neither arm gives up the integrity of sources: only the repeated policy
\* checks are left out of the baseline.
NothingForged == \A o \in seen : o.valid

\* Once a question with a barrier is over, the recorded order of commits is the
\* one that happened, and it is the one that the barrier stands for.
OrderIsExpected ==
  at = "next" /\ ordering.committed =>
    /\ ordering.commits = happened
    /\ Contains(happened, "ask") =>
         happened = IF ordering.barrier = "model_generated" THEN <<"change", "ask">>
                    ELSE <<"ask", "change">>

\* A completed arm has evidence of everything it stored: each question that was
\* settled by an answer or without one has its release among the observations,
\* with the same sources, and a last attempt that is completed.
CompletedIsWhole ==
  at = "next" =>
    \A i \in DOMAIN turns :
      turns[i].state # "pending" =>
        /\ \E o \in seen : /\ o.surface = "release" /\ o.action = turns[i].ask
                           /\ o.refs = turns[i].refs
        /\ \E k \in DOMAIN attempts : attempts[k].action = turns[i].ask /\ attempts[k].status = "completed"

\* A question has at most two attempts; only the last may complete, and only
\* the guarded arm discards one.
AttemptsAccounted ==
  \A i, j \in DOMAIN attempts :
    /\ attempts[i].number \in 1..2
    /\ (i < j /\ attempts[i].action = attempts[j].action) =>
          attempts[i].status = "stale_discarded" /\ attempts[j].number = attempts[i].number + 1
    /\ at # "ended" /\ attempts[i].status = "stale_discarded" => Arm = "guarded"

\* What is exposed, and what the evidence says.
ArmInv ==
  /\ TypeOK /\ GuardedExposesNothing /\ NothingForged
  /\ OrderIsExpected /\ CompletedIsWhole /\ AttemptsAccounted
==============================================================================
