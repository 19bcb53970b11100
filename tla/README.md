# A TLA+ model of RAG Access Guard

RAG Access Guard answers questions from documents a user may read, and keeps
the answers under access control afterwards: an answer is stored with every
source that influenced it, and shown only while its reader may still read all
of them.  This directory models that system in TLA+, checks small instances
with TLC, and proves the main invariants with TLAPS for every size.

Paths below are relative to the repository; `API` is
`apps/api/src/rag_access_guard_api`, `GUARD` is
`packages/rag_access_guard/src/rag_access_guard`, `WEB` is `apps/web/src`.

## 1. Inventory

| part | state | operations | what makes it correct | modelled in |
|---|---|---|---|---|
| Chat request protocol, `API/services/chat*.py` | threads and turns in PostgreSQL, one generation attempt per handler | ask, replay, reserve, generate, complete, read | one pending turn; a finished turn is frozen; a gapless numbering; consistent answers; an answer only under the policy of its commit | ChatTurns |
| Lease configuration, `API/config.py` | deadlines of attempt, recovery and lease | read once, validated | a reservation outlives its own attempts | LeaseBudget |
| Request status, `API/services/chat_progress.py` | stage of a running request, in memory | set, read, discard | never ownership or completion | WebChat |
| Policy unit of work, `API/services/security.py` | policy row with its revision, session rows | protected read (shared), mutation (exclusive), revalidation | one lock order; every effective change has one new revision | ChatTurns, AccessPolicy |
| Access administration, `API/services/{access,grants,roles,users}.py` | users, roles, memberships, grants | create, change, grant, revoke | what a user may read changes only with the revision | AccessPolicy |
| Documents and indexing, `API/services/{documents,ingestion,indexing}.py` | documents, immutable versions, active pointer | register, update, index, publish | only a complete version becomes active; the newer activation wins | AccessPolicy |
| Authentication, `API/services/{auth,auth_limits,challenges}.py` | sessions, challenges, rate buckets | bootstrap, login, logout | a challenge serves once; a session only for a user active then; limits hold and a refusal costs nothing | Authentication |
| Guard package, `GUARD` | none | prepare_context, authorize_release, authorize_read | a context is of one revision; a stale one is not released | EvidenceGuard |
| Guard reference host, `scripts/demo_guard_host.py` | policy, thread, bound contexts and audit in memory, one lock | prepare, release, read, change the policy | each answer enters the thread, and is shown, only while readable | GuardHost |
| Retrieval and plan, `API/services/{search,retrieval,generation_plan}.py` | none | search, filter, plan | results are readable; the plan only narrows | ChatTurns |
| Inference runtime, `API/adapters/{inference_runtime,embeddings}.py` | permit, embedding slot, quarantine, shutdown flag | acquire, run, release, close | capacity one, never leaked, never freed early | InferenceRuntime |
| E5 worker, `API/adapters/{e5_process,e5_worker,embedding_child}.py` | one child and one watcher per batch | spawn, exchange, confirm, kill | no child outlives the computation it belongs to, or the runtime closes | InferenceRuntime |
| Model supervisor, `API/adapters/{ollama,ollama_supervisor}.py` | ownership file, claim, child process | start, begin, complete, stop, recover | no running engine without an owner; no working engine that looks free | ModelSupervisor |
| System status, `API/services/system_status.py` | cached readiness | snapshot | physical state overrides the cache | SystemReadiness |
| Document parsers, `API/adapters/{docx,pdf}_process.py` | process tree, two pipe threads, deadline | run_worker | a whole answer or none; nothing left behind | ParserSupervision |
| Web session, `WEB/composables/useSession.ts` | identity, token, epochs, cookie jar | refresh, sign in and out, protected calls | no response is applied to another session | WebSession |
| Web chat, `WEB/composables/{useChat,chatSubmission}.ts` | open thread, submission, progress | send, poll, retry, recover, switch | an open question is not forgotten; turns in the server's order | WebChat |
| Web registries, `WEB/composables/{useDocuments,useAccess}.ts` | lists and selection | load, select, mutate | what is shown belongs together; a change is reported as what it was | DocumentRegistry, AccessRegistry |
| Audit log view, `WEB/composables/useAudit.ts`, `API/services/audit_read.py` | rows, cursor, filters | first page, next page | no event twice, none skipped | AuditLog |
| Demo seeding, `API/demo` | credential journal, ledger, rows, lock | apply | each object once; nothing taken away is given back | DemoSeed |
| Demo evaluation runs, `experiments/demo_*.py` | rows, manifest, marker, owner lock | start, resume, finish, summarise | a unit is asked once and not forgotten | RunLifecycle |
| Controlled comparison, `experiments/{harness,host*,ordering}.py` | two arms over cloned databases, a barrier | run a case on both arms | the evidence says what happened, in which order | ArmComparison |
| Parsing and chunking algorithms, text model and evidence selection, statistics, HTTP schemas, release checks, migrations, views | - | - | - | not modelled, section 13 |

How they interact.  A browser posts `{request_id, user_input,
expected_revision}`.  The route calls `ChatService.generate_turn`, which runs a
sequence of short PostgreSQL transactions with the long steps (retrieval
embedding, inference) outside them.  Every transaction is opened by
`PolicyUnitOfWork.protected_read`: the policy row in share mode, the session row
exclusively, then, where turns are written or projected, the thread row.  Every
administrative change is a `mutation`, with the policy row in exclusive mode and
the revision incremented in the same transaction.  So a policy change falls
between two transactions of a handler or waits; it never falls inside one.  The
inference permit is a process-wide resource that a handler holds across its
transactions.  The guard package is called inside the transactions and again
before release.

What is hard here: the handler's transactions interleave with other handlers,
with policy changes and with the clock; leases lapse while a handler works; the
process may die anywhere; responses are lost and requests repeated; one of two
attempts is thrown away when the policy changed under it.

## 2. The chat protocol: `ChatTurns`

One conversation, with any number of requests, handlers, sessions and sources.

State.  `threadRevision`, `turn` are the rows of `chat_threads` and
`chat_turns`; `policyRevision`, `readable`, `enabled`, `live` the policy
revision, the sources the owner may read, whether the owner is active and the
owner's current sessions; `worker` the local
state of each handler of `POST /messages`, whose `stage` names the transaction
it will run next; `permit` the generation permit; `holder` the handler inside a
completing transaction.  `calls`, `taint` and `told` are history variables: the
model calls made for a request, the true set of sources behind a stored answer,
computed independently of the stored one, and what clients have been shown.

Steps.  A transaction whose outcome depends on one moment is one action.  The
completing transaction reads the clock at its beginning and again after
`release_result`, so it is two actions, `Authorize` and then `Commit` or
`Discard`; between them the lease may lapse, the session may expire and the
process may die, but the policy and the thread cannot change.

| code | action |
|---|---|
| `generate_turn`, first transaction | `Replay`, `Supersede`, `Help`, `Submit` |
| `try_acquire_generation` | `Acquire`, `Reject` |
| `reserve` | `Reserve`, `ReserveReplay`, `ReserveConflict` |
| `_generate`, `plan_generation` | `Prepare`, `Plan`, `Fail` |
| `_active`, the model call | `Activate`, `Infer` |
| `ChatCompletion.complete` | `Authorize`, `CompleteReplay`, `Discard`, `Commit` |
| an exception, cancellation or lost session | `Abort` |
| the process | `Restart` |
| `read_thread` | `ReadThread` |
| mutations, logout, expiry, login, the clock | `Mutate`, `Revoke`, `Expire`, `Login`, `Tick` |

`resolve_request` appears in three places in the code and once here: `Replays`,
`Supersedes` and `Proceeds` are its three results, `SettledTurn` and
`SettledRevision` the abandoned reservation it completes on the way.

Abstractions.  Question texts, answers and identifiers are model values;
equality of payload records stands for equality of request digests.  Retrieval
and the relevance plan pick any readable sources.  A lease is its remaining life
in ticks.  A thread of somebody else is a 404 without effect and is left out; a
generation of another conversation is visible only through the permit, which
`Reject` and the second handler already exercise.

## 3. The promise: `ThreadLog`

What a client may rely on, without leases, handlers or policies: a conversation
is an append-only log of finished requests, each in it at most once, at most one
more open, and nothing is announced about a request that the log does not bear
out.  `ChatTurns!Log` maps the rows to that log (turns by ordinal; a lapsed
reservation is `doomed`: it can only be logged as interrupted, so readers may be
told so before anyone writes it).  `ImplementsLog` says that ChatTurns
implements it.

## 4. The policy: `AccessPolicy` and `PolicySource`

`PolicySource` is the interface between the two large models: what one user's
requests can see of the access policy.  ChatTurns takes its actions `Mutate`,
`Revoke`, `Expire` and `Login` for its environment (adding only when the policy
lock is free).  AccessPolicy models the administration itself and is shown to
implement PolicySource for every user at once, so the assumption that ChatTurns
rests on, *no change of what a user may read without a new revision*, is itself
checked and proved.

State of AccessPolicy: the tables of users (`users`, `enabled`, `admins`),
`session`, `roles`, `members`, `grants`, documents (`published`, `current`) and
`version`, with `revision` and the `audit` events of the latest revision; `job`
is the local state of a request that registers or indexes a document.

| code | action |
|---|---|
| `insert_user_record`, `update_user_security`, `revoke_user_session` | `CreateUser`, `UpdateUser`, `RevokeSession` |
| `login`, `logout`, expiry | `Login`, `Logout`, `Expire` |
| `create_role`, `update_role`, `set_membership` | `CreateRole`, `RenameRole`, `SetMembership` |
| `grant_user`, `grant_role`, `revoke_grant` | `Grant`, `RevokeGrant` |
| `update_document` | `UpdateDocument` |
| first transaction of an upload, `ingest_text_version`, `index_document_version`, `rechunk_version` | `Register`, `IngestVersion`, `Reindex` |
| `prepare_index` | `PrepareIndex` |
| `register_text_document` | `CommitRegistration` |
| `_publish_index` | `Publish`, `Shelve` (failed or conflicting) |
| any exception | `Raise` |

Administrative changes hold the policy row exclusively for their whole
transaction and are atomic here.  Requests that change nothing are stuttering
steps.  A version is fresh by its identifier; grants are identified by their
document and subject, which are unique in the table.

## 5. The local model and the child processes

### `ModelSupervisor`

The engine is a process outside of every API process, and outlives them.  State:
the ownership `file` (the engine it names, and whether its state is uncertain),
the file `lock`, every physical `engine` with its `parent` and the processes it is
`busy` for; of each API process or operator's command the supervisor object
(`owner`) and its threads (`thread`), and of each API process the one admitted
`request` and the `admission` of its runtime.

| code | action |
|---|---|
| `OllamaAdapter.generate`, `begin_inference`, dispatch, answer, `complete_inference` | `Enter`, `Begin` / `BeginFails`, `Send` / `Unsent`, `Answered`, `Complete`, `Fail` |
| `OllamaAdapter._recover` | `Restart`, `Check`, `Reopen`, `GiveUp`; its thread: `Stop`, `Confirm` / `ConfirmTimeout`, `Start`, `Started`, `CloseChild` |
| `OllamaSupervisor._start` | `Spawn`, `Write`, `Resume`, `StartFails`: the three writes between which a process may die |
| `InferenceRuntime.aclose` | `Close` |
| `serve_demo_ollama.py`, `provision_text_model.py` | `Operate`, `Provision` |
| engines and processes (external) | `Answer`, `Die`, `Crash` |

A cancelled request leaves its thread behind: the thread goes on, which is what
makes a recovery race with a shutdown.  The lock is never waited for: a
procedure that finds it taken fails.

### `SystemReadiness`

The cache of the status page (`ready`, `accepted`, `age`) behind one lock, and
the reads of a probe as steps of their own, because each is an await:
`ReadActive`, `ReadStatus`, `Recheck`, `ReadClaim`, `Accept`, `Verify`, `Publish`,
with `TimeOut` and `Leave` anywhere.  Beside it chat requests that recheck an
offline model and take the permit (`Ensure`, `InitStatus`, `InitVerify`, `InitDone`,
`Acquire`, `Release`).  The supervisor's claim has the states in which its writes leave it:
`begin_inference` marks itself failed, writes the file and then remembers the claim (`MarkFailed`,
`Write`, `Remember`), `complete_inference` clears the file and then the mark (`Unwrite`, `Unmark`); in between
both `status` and `has_live_inference_claim` deny the model.  A probe may therefore fail although the model
works.  `FailsForCause` says that it fails for no other reason: the model was down, a generation
ended during the probe, the claim was between two of its states (`Unsettled`), or a cancelled
generation left its claim behind.

### `InferenceRuntime`

`slot` is `_embedding_busy`; `waiter`, `future`, `worker` are the coroutine, the
`concurrent.futures` Future and the executor's one thread; `child` and `watcher`
belong to the batch in hand.  `Submit`, `Refuse`, `Cancel`, `Return` are
`run_embedding`; `Work` is the thread: `Take`, `StartBatch`, `Resume`, `Exchange`,
`Confirm`, `Doubt`, `Completed`; `Expire` and `Terminate` are the watcher, `Exit` the child.
`Again` lets a coroutine ask once more.

### `ParserSupervision`

One supervisor, two pipe threads, a parser and its descendants.  `contained`, chosen
at the start and never changed, tells the DOCX path (process group or job) from the PDF path
(a tree known only by sampling).  `Start`, `Poll`, `Collect`, `Kill`, `Check`, `Join`
are the steps of `Supervise`; `Fork`, `Write`, `ExitRoot`, `ExitKid` the parser, which
may do anything.  A round of `Poll` asks four things one after another, `AskOutput`, `AskStatus`, `AskEnd`
and `AskMemory`, and the threads run on in between: a reader may fail (`BreakOff`, or a chunk too many)
after the first question and be done at the third.  So what is handed on is final, but whole only
unless the reader failed.  Where the job, the monitor or a thread cannot be had, `Start` fails, and where the
tree cannot be listed or killed, `Collect` and `GiveUp`: a DOCX parser is killed all the same, a PDF parser
is left to end by itself and awaited (`Await`).  For PDF a child that no sample saw may keep the pipe
open and `reader.join` waiting; hence termination is claimed for the contained
tree only.

## 6. Who is let in, and for how long

### `Authentication`

The five transactions of a login (`Login`, `Reserve`, `Consume`, `Verify`, `Open`), of
which the password check lies between two, and those of `bootstrap` (`Bootstrap`,
`Reserve`, `Create`), with the clean-up of old rate buckets inside `Reserve`.  A user may
be switched off between any two (`SetActive`), a request may `Break` off.  The last transaction compares the
password's hash again; as nothing in the repository replaces the hash of an account, that comparison never
fails, and the model has no step that would make it.  Time has
several ticks per second, because `Retry-After` is rounded.  Passwords, digests and
cookies are what they identify.

### `LeaseBudget`

The clock of one reservation.  Each tick is charged to the attempt (`spent`, up to
`generation_timeout_seconds`), to its recovery, which is shielded from that
timeout, or to the transactions around (`outside`).  The condition that
`Settings.validate_generation_budget` enforces at start-up is the assumption
`BudgetValid`.  One clock stands for the process's and the database's.  The lease is read before the
call (`_active`) and the model called later (`_infer`), with awaits in between: a call may
begin after the lapse, which is why nothing is claimed of its moment, only of who has lapsed at the end.

## 7. The guard as a package

`EvidenceGuard` models the package by itself.  The port's answers are read one call after
another, `policy` is the list of what each revision allowed and may grow between any
two reads (`Change`), the principal may lose ownership or standing (`LoseStanding`), the port
may fail.  `Call`, `Prepare` (`prepare_context`), `AskTurn` (one snapshot of
`filter_history`), `Bind` (`bound_context` and the fingerprint), `Release`
(`authorize_release`), `Read` (`authorize_read`); `Tamper` is what a host may do to a
prepared context in between.

`GuardHost` models the in-memory reference host: one asyncio lock (first in, first out), and an
operation that can be suspended, or cancelled, at its two kinds of awaits, the
lock and the policy reader.  `Prepare`, `Bind`, `Release`, `read_saved` and the
changes of policy are the operations; decision and publication are one step, as there is
no await between them.  `GuardedThread` is its promise: *an answer enters the log,
and is shown, only in an instant in which its owner may read every source of it*;
`KeepsPromise` says that the host implements it.

## 8. The browser

In all five modules the network is one reply per call that may come late, be lost, or belong to
a call that the tab has given up.  An epoch counter of the code is the question whether a
call is still the current one.

* `WebChat`: one tab's open thread and submission against the turns of the server.
  `Send`, `Retry`, `Reconcile`, `Cancel`, `Select`, `NewThread` are the user, `PostArrives`,
  `PollArrives`, `LoadArrives` (of `Arrive`) the replies, `ServePost`, `ServeGhost` (a post that was given up),
  `Finish`, `Lapse`, `OtherSession` the server, whose part is `resolve_request` once more.  The
  creation of a thread and the first post are one step.  Any call may be answered that its thread is missing
(404): a post, a poll or a recovery then resets the view and lets go of the pending question (`Missing`).
* `WebSession`: identity, token and epoch of a tab, with one cookie jar for all tabs.
  `Refresh`, `SignIn`, `SignOut`, `Run` (a protected call), `CallArrives`, `Arrive`;
  `OtherTab` and `ExpireSession` are the world outside.
* `DocumentRegistry`, `AccessRegistry`: one call at a time, composed of several reads, each a
  transaction of its own, with other administrators between them.  A change is followed by a
  reading whether or not it was confirmed.  Titles and forms carry no value; at most one
  abandoned change is in the server at a time; the three lists of the access
  view are represented by the oldest read.
* `AuditLog`: an event's place is its time and identifier, and the time is that of its transaction's
  start, so that `Record` may add below the cursor as well as above.

## 9. The demonstration and its evaluation

* `RunLifecycle`: a run's four files (`rows`, `manifest`, `marker`, `owner`) and the commands over
  them.  Every write is a step, and a command may die between any two (`Crash`).
  `Reserve`, `Lock`, the `Load*` steps, `Reconcile`, `Recover` and `ClearRecovered` are a start or
  resumption; `Begin`, `Verify`, `Ask`, `Answer`, `Check`, `Record`, `WriteRows`, `WriteManifest`, `Unmark` a unit;
  `Finish` and `Leave` the end and the summary.  `Drift` changes runtime, policy or inputs.
  `SummaryApart` is an assumption of the passing run, see section 12.
* `DemoSeed`: the advisory lock, the marker of the instance, the credential journal, the ledger and one
  transaction per object; `Edit` is an administrator, `ChangeInput` the operator, `LoseLock` a
  broken connection, after which two commands overlap.
* `ArmComparison`: one case on both arms, with the transactions of a question, the change
  that the barrier places beside it (`Reach`, `ApplyChange`, `TellChange`, `Pass`), faults, time limits, and the
  observations with which the arms are compared.
* `Evaluation`: the three of them as one specification over a run's parameters, for the proofs and for the
  instance `MCEvaluation`.  A behaviour in which administrators edit keeps its lock (`Seed!Steps`); one in
  which the lock breaks (`Seed!Next`) has overlapping commands and no edits.

## 10. Runs

| run | question | instance |
|---|---|---|
| `chat_races` | does the turn protocol hold under races, lapses, crashes, help and policy changes, and does the thread implement `ThreadLog`? | 2 requests, 2 texts (one of them help), 2 handlers, 1 source, 1 session, a lease of 2 ticks, the plan installed, 2 policy changes |
| `chat_history` | are closures transitive, ordinals gapless, responses consistent? | 3 requests, 1 handler, 2 sources, a lease of 1, no plan, 2 policy changes |
| `chat_ends` | does every handler return, and is every reservation settled? | 2 handlers on 1 request; 1 handler, 2 requests and a client that comes back |
| `access_policy` | does the administration implement `PolicySource` for every user; has every change of access its reason; is publication right when jobs overlap? | 2 users, 1 role, 2 documents, 3 versions, 1 session, 2 jobs, 6 revisions |
| `model` | does the ownership file never lose an engine or its work, and does every failed probe of the page have its cause? | 2 API processes, one of which may crash, or 1 beside an operator, 3 engines; the page with 2 callers beside one generation at a time, or one request at a time beside 2 generations |
| `children` | are slots freed once, does a parser's return leave nothing it knew of, do calls and shutdowns end, does the page recover? | 2 waiters, 2 batches, 3 jobs; a parser, contained or not, with 2 children and 3 chunks; 1 API process, 3 engines; 1 caller, 1 chat |
| `admission` | does a lease outlive its attempts; do rate limits, challenges and the two-phase login hold under races? | 2 attempts of 3, recovery 2, lease 9, at most 4 outside; 3 users and 1 peer at limits of 2 per peer and 1 per account, a window of 2 ticks, a clock of 5; 2 requests over 2 challenges, one login at a time, or both at once, up to tick 3, beside a user who is switched off |
| `guard` | is a context of one revision and its release current; does the host keep the promise of `GuardedThread`? | 2 chunks, 3 turns, 1 change; 2 tasks, 3 rows of 2 documents, 2 changes, 2 contexts |
| `web` | does a tab show only what belongs to its session and thread, and give up nothing before the server has? | 2 threads, 1 request of its own and one of another session, 2 turns; 1 user with 2 sessions, 2 targets, 2 calls, 3 tokens |
| `views` | are the administrator's views consistent and their changes reported as what they were? | 2 documents of 2 versions, 1 abandoned change; 2 documents, 2 roles, 5 revisions; 8 events in pages of 2 |
| `evaluation` | is a run resumable, its rows true; is seeding repeatable; do both arms tell the truth? | 2 commands, 2 units, 2 drifts; 2 commands, 3 objects, 1 edit, 1 change of input; all cases of up to 3 actions |
| `run_summary` | does the code keep the words "never replay"? It does not: see section 12 | 2 commands, 2 units |

Shared runs.  A run answers for one area.  Where an area has parts without
common state (`MCModel`, `MCChildren`, `MCAdmission`, `MCGuard`, `MCWeb`, `MCRegistries`,
`Evaluation`, `MCChatEnds`), that module is their disjoint union: a variable
`part` is chosen at the beginning, only the chosen part takes steps, and the
others keep an initial state.  So the number of states is the sum, never the product.
Several invariants of one question are one named conjunction (`SlotInv`, `HostInv`,
`ChatInv`, `SessionInv`, `RegistryInv`, `RunInv`, `SeedInv`, `ArmInv`), whose parts are stated and
explained where they are defined.

Why the bounds are enough.  Two handlers and two requests give every pair of
roles the protocol knows: the same request twice, two new requests, a late
handler and its successor.  A lease of two ticks separates "running", "about to
lapse" and "lapsed" within one transaction; one tick is enough where only the
order matters.  Two policy changes make both attempts stale; with
`MaxAttempts = 2`, as in the code, a third could not be noticed.  Three requests
in `chat_history` are the shortest chain in which a source is inherited through
an answer that did not quote it, and two policy changes there revoke a source and grant it again.  In `access_policy` two jobs are every order of two
activations of one document, the third version the one to lose or to fail;
six revisions are two users, a document, a role with a member and a grant, or
fewer of these and a revocation.  In `model` three engines are the one found, the
one a recovery starts and the one a second process starts beside it; one crash
is one more owner.  In `children` two waiters are the holder and the one that
queues, three jobs let either ask again, two children are one that was sampled
and one that was not.  `admission` scales the settings 60, 20 and 180 seconds to 3, 2 and 9
ticks, with one tick of slack more than the condition asks for; three
accounts at a limit of 1 are one more attempt than the peer's limit of 2 lets through, so each limit refuses
where the other would not, and a clock of 5 ticks sees a window of 2 end twice, after which the
clean-up deletes the first.  In `guard` three turns are one more than the window
and two chunks make the context overflow.  In `web` two threads are a selection to leave
and one to come back to, three tokens one of each session and one stale.
`views` puts an event above, between and below two pages.  `evaluation` has a command that dies
and one that resumes, a unit that is the last and one that is not; its cases of
three actions are a change, a question and a second look.  Longest cases begin with the
baseline arm; shorter ones are run in both orders.

`ContestEnds`, `MaxPolicy`, `MaxRevision`, `MaxCrashes`, `MaxJobs`, `MaxWritten`, `MaxOutside`, `MaxNow`,
`MaxTurns`, `MaxVersions`, `MaxUnserved`, `MaxSessions`, `MaxTokens`, `MaxPrepared`, `MaxChanges`,
`MaxEdits`, `MaxInputs` and `MaxActions` are bounds of the models, not of the code.

Fairness.  None of the specifications is fair by itself; fairness is stated where a liveness
property is checked.

* `MCChatEnds`: weak fairness of each handler's own next step (the event loop runs
  it; a handler whose session is gone raises).  For `ReservationsSettle` also that
  time passes, the owner can log in, and strong fairness of the client's retry: the code
  settles abandoned reservations only when a client comes back, so without it
  the property is simply false, as it is for an owner who is disabled for good.
* `MCChildren`: threads run; the watcher's minute and the parser's deadline pass; what was killed
  dies; engines answer or exit, since every request to them has a timeout; for the page, that it polls,
  that generations end and that the cache's lock, which asyncio grants in turn, is granted (strong
  fairness of `Begin` and `Fresh`).  A child that was not killed owes nothing.

Crashes, cancellations, expiry, mutations and losses are never fair.

Deadlock is not checked: bounded inputs are used up, an owner may be disabled for good, an
administrator may disable the last administrator, a tab may be left alone.  That components do
not wait for each other for ever is stated as `HandlersReturn`, `CallsEnd` and `ShutdownEnds`.

## 11. Proofs

Eight modules prove what the runs check, for every value of the constants: any number of requests,
handlers, users, sources, processes, tasks and callers, and any bound.  Each theorem of an
invariant has an inductive one behind it, named below, with what must be added to the claim
for a step to preserve it.

**Chat protocol, `ChatTurnsProofs`**, from `ChatAssumption`.

| theorem | claim | argument |
|---|---|---|
| `TypeCorrect`, `OneReservation`, `DecisionsOwned` | `TypeOK`, `OnePendingTurn` | `ReservationInv`.  `OnePendingTurn` is not inductive: a commit advances the revision that another pending turn would expect.  It needs `DecisionStillOwned`, a handler between decision and commit holds the thread and its reservation is still there; only `Authorize` brings a handler to its commit, and every step that writes the thread needs `holder = None` |
| `FinishedForGood` | `FinishedTurnsFrozen` | settling touches pending rows, inserting absent ones, a commit the row its handler still owns |
| `ClosureTransitive`, `ReleasedFresh` | `ClosureCoversInfluence`, `AnswersReleasedFresh` | `ReleaseInv`: every context in a handler's hands rests on finished, hence frozen, answers and names every source behind them (`ContextsCovered`); what was decided to be released stays readable until the commit (`ReleasesReadable`), as a mutation needs the policy row the handler holds |
| `CallsBounded` | `BoundedModelCalls` | `CallsInv`: whoever serves a reservation holds the permit, and the request has had no more calls than this handler has begun attempts (`Served`); a reservation whose handler is gone is served by nobody again |
| `OneStoryTold` | `OneStory` | `ToldInv`: what a client was told of a request is what its row can only become (`Settled`): a lapsed reservation is interrupted before anyone writes it |
| `LogImplemented` | `ImplementsLog` | refinement: the numbered rows are the log (`Entries`, by `Numbered`), settling is `WriteOff` or the first half of `Begin` and `Assist`, a commit or a replay that settles is `Finish`, any other reading is `Read`; a commit tells its client what it stored because `ReleaseInv` has its sources readable |

**Administration, `AccessPolicyProofs`**, from `AccessAssumption`.

| theorem | claim | argument |
|---|---|---|
| `TypeCorrect`, `CompleteVersions` | `TypeOK`, `ActiveVersionComplete` | `AccessInv` adds that a registration begins from no version (`Registrations`) |
| `NewerWins` | `NewerActivationWins` | only the second transaction of a job touches versions, and the version it stores was nobody's active one |
| `AuthorityHeld` | `AuthorityAtCommit` | by cases: each action that writes policy or registry has an administrator's live session as its guard, in that very step, and a job's step that stores or publishes has that of the session it began with (`OwnAuthorityStep`) |
| `ReasonGiven` | `AccessChangesExplained` | what a user may read depends on memberships, grants and published versions only (`SameAccess`); one lemma for each of the actions that change one of them finds the event it leaves |
| `SourceImplemented` | `ImplementsSource` | refinement: recorded changes map to `Mutate` or `Revoke`, logins and expiries to their own, a shelved artifact to a stutter |

**Admission, `AdmissionProofs`**, from `BudgetAssumption`, `BudgetValid` (the condition `validate_generation_budget`
refuses settings without) and `LoginAssumption`.

| theorem | claim | argument |
|---|---|---|
| `TypeCorrect`, `LeaseOutlives` | `LapsesOutside` | `BudgetInv` keeps an account of time: what the clock shows was spent by earlier attempts, this one, its recovery and the transactions around (`TimeBounded`); only the last attempt can have a recovery (`KeptCompletes`), which is why the condition counts it once |
| `LoginCounted`, `PasswordsCounted` | `AttemptsCounted` | `LoginInv`: a login goes on with the user, peer and challenge it began with (`Underway`), nothing is counted ahead of time (`Ahead`), a challenge that is still fresh was never used (`FreshUnused`) |
| `AdmitsTheActive` | `SessionsOfActive` | the last transaction reads the user again under the lock |

**Guard, `GuardProofs`**, from `ContextAssumption` and `HostAssumption`.

| theorem | claim | argument |
|---|---|---|
| `BoundContextIs` | - | the recursive `bound_context` equals a closed form, for every context: the chunks there is room for and the end of the history.  By least counterexample in the cost of a context (`LeastOf`) |
| `GuardKeepsRevision` | `ContextIsOfOneRevision` | `GuardIInv`: what has passed so far was allowed at the revision of the first snapshot (`Gathered`), which stays the prepared context's although the policy moves; the binding is what `bound_context` computes and a tampered one shows (`Sealed`) |
| `GuardReleasesCurrent` | `ReleaseIsCurrent` | only `Release` allows, and a context whose fingerprint still fits is the prepared one |
| `HostSafe` | `HostInv` | `HostIInv`: contexts are of known revisions (`RevisionKnown`), what a suspended task holds is still there and nobody else's (`CallsKept`), the audit is of the past (`AuditBounded`) |
| `HostKeepsPromise` | `KeepsPromise` | refinement of `GuardedThread`: publication, reading and the revocation in between each map to its one step, everything else stutters |

**Local model, `ModelProofs`**, from the assumptions of both modules.

| theorem | claim | argument |
|---|---|---|
| `EngineSupervised` | `Supervised` | `OwnerInv`: while the file's lock is held no engine runs and the file says how far its holder is with a new one (`Locking`); no procedure is begun in place of one that still runs (`Admitted`); a shutdown only closes (`Closing`).  `ChargeInv`: at most one API process is charged with work it may have sent, the file marks it, and the running engine is busy for nobody else.  It is claimed until an operator interferes (`Untouched`), as `BusyIsQuarantined` is, see section 12 |
| `PageTellsTruth`, `WorkingNotMissing`, `ReadySeen` | `WorkingIsNotMissing`, `ReadyIsRecent` | `ReadinessInv`: the permit and the claim are their holder's (`Permit`); a probe that saw the model gone did so for one of the causes that `FailsForCause` allows (`Found`); the cached flag is no older than the last sight of the model (`Dated`) |

**Child processes, also in `ModelProofs`**, from the assumptions of both modules, about `ChildrenSpec`, which runs
them beside the model and the status page.

| theorem | claim | argument |
|---|---|---|
| `RuntimeBounded`, `SlotBoundsWork` | `SlotInv` | `RuntimeInv`: the thread works for the holder of the slot (`Held`), a computation that waits for the thread holds it (`PendingHolds`), and a child lives only where the thread looks after it or admission is closed (`ChildWatched`) |
| `ParserReaped`, `ParserLeavesNothing` | `NothingIsLeft` | `SupervisionInv`: from the kill on nobody is born, and after the check a survivor is told of (`Reaped`); a response read to its end without a failure is all its parser will ever have written (`ReadToEnd`), and nobody reads on after it (`Settled`) |

**Web registries, `RegistryProofs`**, from the modules' assumptions, among them that `None` is no value of theirs.

| theorem | claim | argument |
|---|---|---|
| `ViewsShowOneState`, `OutcomesAreTold` | `ViewsBelong`, `ChangesAreReported` | `RegistryIInv` and `AccessIInv`: what a call has read at each of its stages (`DocStaged`, `Reloading`, `AccessStaged`), that it belongs to the selection (`OfSelected`, `AccessGathered`), and that every reading is as young as the beginning of its call (`DocDated`, `AccessDated`) |
| `NoEventIsMissed` | `PagesAreWhole` | `AuditIInv`: a request asks for what follows the rows that are shown (`PageStaged`), the cursor is the last row (`PageKept`), and an answer holds, in order, every event that was due at the first page from its cursor to its next (`PageGathered`, `Whole`) |

**Browser, `WebProofs`**, from `ChatAssumption` and `WebAssumption`, about `MCSpec`, which joins both parts.

| theorem | claim | argument |
|---|---|---|
| `SessionHeld` | `OnlyForSession` | `SessionIInv`: a request of the session is under way only while nobody is confirmed, and knows for whom it will confirm (`Asking`); a view's latest call is one of its session's, for what is selected (`LatestCalls`) |
| `ChatHeld` | `ChatInv` | `ChatIInv`: a request of the tab has one turn in its thread (`OneTurnEach`); what a post or a reading on its way will say is true of the thread now and stays true (`PostKnows`, `LoadKnows`), as turns are only added and finished; and the shown turns are the first of the thread's.  That the filter of `chatSubmission.ts` leaves a history without the request as it is (`WithoutNone`) is shown by least counterexample |
| `ServerEnds` | `OnlyServerEnds` | each way in which the waiting request is forgotten is a refusal, an answer that the thread is missing, a history that has it or the user's choice, by `ChatIInv`; a logout that was answered did end the session (`EndedThen`) |

**Evaluation, `EvaluationProofs`**, from `RunAssumption`, `SeedAssumption` and `ComparisonAssumption`, about
`EvaluationSpec`: any number of commands, units, seeded objects and edits, any documents and any list of actions as a case.

| theorem | claim | argument |
|---|---|---|
| `RecordsTold` | `RecordsAreTrue` | `RunHolds`, `SeedHolds` and `TrialHolds`, the invariants of the parts, below |
| - its run | `RunInv` | `RunIInv`: one command at a time owns the files (`Alone`); what is on disk is one of the few states that a death between two writes leaves, each of which `Reconcile` accepts (`Disk`); and what the owner has in memory fits them, place by place (`Place`): its rows are the file's or one more, its marker names the next unit |
| - its seeding | `SeedInv`, `ReportedIsApplied` | `SeedBase`: every tracked object is registered as it was made (`Registered`), and a plan holds only what was new, changed and accepted (`Plans`).  `Secrets`: a command that creates accounts has their filed passwords (`Known`); this rests on the journal being made before any account, which follows from the lock where there are edits (`Exclusive`, `Sure`) and from the order of a command's own steps where the lock breaks and nobody edits (`JournalFirst`).  With both, an operator who deletes the journal between two overlapping commands would lose passwords, so neither the run nor the theorem has both |
| - its trial | `ArmInv` | `ArmIInv`: a question has an attempt from its reservation to its response (`Attempted`); nothing forged is seen or about to be released, and by the guarded arm nothing hidden from its user (`Released`); what the barrier's flags, the commits and the record say together is one of the moments its order allows (`Ordered`); a settled question has its release and its last attempt in the evidence, one that is being settled has them in hand (`Whole`, `Accounted`) |
| `RowsOnlyGrow` | `RowsKept` | by `RunIInv`, every write of the rows appends to the file's |
| `SeededOnce` | `SeedsOnce` | by `SeedBase`, whatever happens to the lock: a transaction compares ledger and row with what its command expected |
| `NothingGivenBack` | - | the same of the seeding alone, with edits and broken locks in one behaviour, which no run has: what an administrator took away stays away, objects are made once, content changes as accepted |

`RecordsTold` and `RowsOnlyGrow` have `SummaryApart` for a hypothesis, as the passing run has: without it both are
false: `run_summary` shows that a unit may be asked twice (section 12), and TLC refutes `RowsKept` on that instance too.  `SeededOnce` needs no such thing.

Where a run joins parts without common state, the theorem is about the joined specification (`MCSpec`, `ChildrenSpec`, `EvaluationSpec`), and
the invariant of a part is kept by the steps of the others because they leave its variables alone.

Only model-checked, and why.  Liveness (`HandlersReturn`, `ReservationsSettle`, `CallsEnd`, `ShutdownEnds`, `Recovers`) and
everything with ENABLED are out of the prover's reach.  Every other property of a passing run is a theorem.  `AtMostOnce`
without `SummaryApart` is false, so it has a counterexample and no proof.

## 12. Where the code and its words disagree

`run_summary` is a run: `experiments/demo_lifecycle.py:38` says "Reserve once; never replay an
active, successful, or failed unit."  `write_demo_summary` calls `DemoRunStore.load` after the
owner lock is given back (`demo_quality.py` 163-166), and `load` repairs the files: it writes
an active unit off and removes its marker (`demo_run_storage.py` 175-184).  If a resumed command
holds the lock meanwhile and dies, the next one asks the unit again.  The passing run assumes `SummaryApart`:
no command takes the lock during another's summary.

Seen while modelling, and described here only:

* A resumption of a fully recorded run whose admission fails is called "completed" without comparing its inputs
  (`demo_lifecycle.py:98`), against `demo_inputs.py:98`; and a resumption may return the old
  "failed" of a run whose units are all recorded (`demo_lifecycle.py:86`).
* A refresh that starts while another waits loses the message about a lost session
  (`useSession.ts:41`); the user and the token of one refresh come from two requests and may belong to two
  sessions when another tab changes the cookies between them (`useSession.ts:51`).
* After a confirmed change whose rereading failed, the next selection clears the message and leaves
  the old lists (`useAccess.ts:93`), against `README.md:513`.
* While `begin_inference` or `complete_inference` is between its writes (`ollama_supervisor.py` 133-144,
  159-161) the page can call a working model missing, for one cache time; a claim whose
  request was cancelled before it was sent does so until a recovery or a new engine.
* The reader of a parser's output may fail between the questions of one round (`docx_process.py` 145-148,
  `pdf_process.py` 107-110): cut-off bytes are then handed on, and only the validation of the JSON in
  `docx_parser.py` and `pdf_parser.py` is left to reject them.  When a thread of the PDF supervision cannot be
  started, the error escapes as a 500 and the parser is left to end by itself.
* A post or poll that is told 404 discards the pending question while its thread stays selected
  (`useRequestProgress.ts:41`, `chatSubmission.ts:101`); `useChat.progress.spec.ts:107` expects this.
* The comparison of the password's hash in the last transaction of a login (`auth.py:119`) cannot fail:
  nothing in the repository replaces a stored hash.
* Beside the operator's command line a request may reach an engine that was started after its
  claim was written (`ollama_supervisor.py:131`): `BusyIsQuarantined` is therefore
  claimed for API processes only.

## 13. Not modelled

* Parsing and chunking, prompts and evidence selection, vector ranking and thresholds, experiment
  statistics: pure functions; their results appear as arbitrary choices.
* HTTP schemas, Vue views, assets, migrations, release checks: no state that
  the properties depend on; the constraints of the tables are modelled where they matter.
* Of modelled parts: the queue of PostgreSQL's row locks and the encoding of audit rows; the
  cache of query vectors, which changes no outcome; suggestions and the inspector of sources in the chat view;
  the pending member of the role editor and the `is_active` guard on new versions;
  dry runs and initialization without apply in the seeding, where one step adds all missing users, all
  documents are taken to be needed by suggestions, and, in the part with overlapping commands, new content is the only input change;
  `plan.json` and the owner-only mode of the run's files, and calibration scoring; in the comparison the
  reader other than the actor, grants by role, titles, markers and timing.  A question that is cut
  off by a time limit is an interruption there, and ends the schedule.
* A crash before a run's first manifest leaves a directory no command accepts: this is in the model,
  and no property asks for more.

## 14. Plan

1. `ChatTurns`, `ThreadLog`: modelled, checked and proved, the refinement included.
2. `PolicySource`, `AccessPolicy`: modelled, checked and proved, the refinement included.
3. `ModelSupervisor`, `SystemReadiness`, `InferenceRuntime`, `ParserSupervision`: modelled, checked, safety proved.
4. `EvidenceGuard`, `GuardHost`, `GuardedThread`: modelled, checked and proved, the refinement included.
5. `Authentication`, `LeaseBudget`: modelled, checked and proved.
6. `DocumentRegistry`, `AccessRegistry`, `AuditLog`, `WebChat`, `WebSession`: modelled, checked and proved.
7. `RunLifecycle`, `DemoSeed`, `ArmComparison`, `Evaluation`: modelled, checked and proved.
8. What is left would be the parts that section 13 leaves out, first the row locks' queue and the suggestions of the chat.
