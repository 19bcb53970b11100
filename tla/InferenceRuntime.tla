--------------------------- MODULE InferenceRuntime ---------------------------
(***************************************************************************)
(* Native inference on the CPU.  Requests hand a computation to the one    *)
(* thread of an executor and wait for it; a waiter may be cancelled at any *)
(* time, the computation may not.  One slot bounds the physical work: it   *)
(* is taken when a computation is submitted and freed by the completion of *)
(* its Future.  The computation runs batch after batch in short-lived      *)
(* child processes, each watched by a thread of its own, and when an exit  *)
(* cannot be proved the whole runtime closes.                              *)
(***************************************************************************)
EXTENDS Naturals

CONSTANTS Waiters,    \* coroutines that ask for a computation
          MaxBatches, \* bound on the batches of one computation
          MaxJobs,    \* bound on the computations of a behaviour
          None

RuntimeAssumption ==
  None \notin Waiters /\ MaxBatches \in Nat \ {0} /\ MaxJobs \in Nat

VARIABLES closed,  \* the runtime admits nothing more
          slot,    \* whose computation holds the slot (_embedding_busy)
          waiter,  \* where each coroutine is
          future,  \* state of the computation each coroutine submitted last
          worker,  \* the executor's thread: whose computation, where, batches left
          child,   \* the child process of the current batch
          watcher, \* the thread that watches it
          jobs

vars == <<closed, slot, waiter, future, worker, child, watcher, jobs>>

Free == [job |-> None, at |-> "idle", left |-> 0]

Init ==
  /\ closed = FALSE
  /\ slot = None
  /\ waiter = [w \in Waiters |-> "idle"]
  /\ future = [w \in Waiters |-> "none"]
  /\ worker = Free
  /\ child = "none"
  /\ watcher = "off"
  /\ jobs = 0

Alive == child \in {"suspended", "running", "stuck"}
Goes(at) == worker' = [worker EXCEPT !.at = at]

------------------------------------------------------------------------------
(* run_embedding, on the event loop.                                       *)

Submit(w) ==
  /\ waiter[w] = "idle"
  /\ jobs < MaxJobs
  /\ ~closed /\ slot = None
  /\ slot' = w
  /\ future' = [future EXCEPT ![w] = "pending"]
  /\ waiter' = [waiter EXCEPT ![w] = "waiting"]
  /\ jobs' = jobs + 1
  /\ UNCHANGED <<closed, worker, child, watcher>>

\* Closed or busy: refused without a queue.
Refuse(w) ==
  /\ waiter[w] = "idle"
  /\ closed \/ slot # None
  /\ waiter' = [waiter EXCEPT ![w] = "refused"]
  /\ UNCHANGED <<closed, slot, future, worker, child, watcher, jobs>>

\* future.cancel() succeeds only before the thread took the computation.
FreedByCancel(w) == future[w] = "pending"

Cancel(w) ==
  /\ waiter[w] = "waiting"
  /\ waiter' = [waiter EXCEPT ![w] = "detached"]
  /\ IF slot = w /\ FreedByCancel(w)
     THEN /\ future' = [future EXCEPT ![w] = IF @ = "pending" THEN "cancelled" ELSE @]
          /\ slot' = None
     ELSE UNCHANGED <<future, slot>>
  /\ UNCHANGED <<closed, worker, child, watcher, jobs>>

\* The observer waits for the Future and then for its completion callback.
\* Mutant: it does not wait for the callback.
ObservedAtOnce(w) == future[w] \in {"ok", "error", "cancelled"}
Observed(w) == future[w] \in {"ok", "error", "cancelled"} /\ slot # w

Return(w) ==
  /\ waiter[w] = "waiting"
  /\ Observed(w)
  /\ waiter' = [waiter EXCEPT ![w] = IF future[w] = "ok" THEN "answered" ELSE "failed"]
  /\ UNCHANGED <<closed, slot, future, worker, child, watcher, jobs>>

\* The coroutine comes back with another request.
Again(w) ==
  /\ waiter[w] \notin {"idle", "waiting"}
  /\ slot # w /\ worker.job # w
  /\ jobs < MaxJobs
  /\ waiter' = [waiter EXCEPT ![w] = "idle"]
  /\ future' = [future EXCEPT ![w] = "none"]
  /\ UNCHANGED <<closed, slot, worker, child, watcher, jobs>>

\* close(): a pending computation is cancelled, a running one is not.
Close ==
  /\ ~closed
  /\ closed' = TRUE
  /\ future' = [w \in Waiters |-> IF future[w] = "pending" THEN "cancelled" ELSE future[w]]
  /\ slot' = IF slot # None /\ future[slot] = "pending" THEN None ELSE slot
  /\ UNCHANGED <<waiter, worker, child, watcher, jobs>>

------------------------------------------------------------------------------
(* The executor's thread: encode_isolated and score_relevance_isolated.    *)

Take ==
  /\ worker = Free
  /\ \E w \in Waiters, n \in 1..MaxBatches :
       /\ future[w] = "pending"
       /\ future' = [future EXCEPT ![w] = "running"]
       /\ worker' = [job |-> w, at |-> "batch", left |-> n]
  /\ UNCHANGED <<closed, slot, waiter, child, watcher, jobs>>

\* A closed runtime, an oversized request or no job object: nothing was spawned.
StartBatch ==
  /\ worker.at = "batch"
  /\ \/ /\ ~closed
        /\ child' = "suspended"
        /\ Goes("spawned")
     \/ /\ UNCHANGED child
        /\ Goes("error")
  /\ UNCHANGED <<closed, slot, waiter, future, watcher, jobs>>

\* The identity is checked, the child resumed and watched; or cleaned up at once.
Resume ==
  /\ worker.at = "spawned"
  /\ \/ /\ child' = "running"
        /\ watcher' = "on"
        /\ Goes("exchange")
     \/ Goes("confirm-error") /\ UNCHANGED <<child, watcher>>
  /\ UNCHANGED <<closed, slot, waiter, future, jobs>>

\* The child answers and exits, breaks off, or does neither.
Exit ==
  /\ child \in {"running", "stuck"}
  /\ child' \in IF child = "running" THEN {"replied", "broken"} ELSE {"broken"}
  /\ UNCHANGED <<closed, slot, waiter, future, worker, watcher, jobs>>

\* The watcher: admission closes first, then the job is terminated.
Expire ==
  /\ watcher = "on"
  /\ watcher' = "expired"
  /\ closed' = TRUE
  /\ UNCHANGED <<slot, waiter, future, worker, child, jobs>>

Kill == child' \in IF Alive THEN {"broken", "stuck"} ELSE {child}

TerminateJob == Kill

Terminate ==
  /\ watcher = "expired"
  /\ watcher' = "over"
  /\ TerminateJob
  /\ UNCHANGED <<closed, slot, waiter, future, worker, jobs>>

\* The pipe was read to its end; a late answer is not one.
Good == child = "replied" /\ watcher = "on"

Exchange ==
  /\ worker.at = "exchange"
  /\ child \in {"replied", "broken"}
  /\ \/ Goes(IF Good THEN "confirm" ELSE "confirm-error") /\ watcher' = "off"
     \/ watcher = "expired" /\ Goes("confirm-uncertain") /\ watcher' = "off"
  /\ UNCHANGED <<closed, slot, waiter, future, child, jobs>>

LastBatch == worker.left = 1

\* confirm_worker_exit: no member is left, or nobody knows.
Confirm ==
  /\ worker.at \in {"confirm", "confirm-error", "confirm-uncertain"}
  /\ Kill
  /\ \/ /\ child' \notin {"stuck"}
        /\ CASE worker.at = "confirm" /\ ~LastBatch ->
                  worker' = [worker EXCEPT !.at = "batch", !.left = @ - 1]
             [] worker.at = "confirm" /\ LastBatch -> Goes("ok")
             [] worker.at = "confirm-error" -> Goes("error")
             [] worker.at = "confirm-uncertain" -> Goes("uncertain")
     \/ Goes("uncertain")
  /\ UNCHANGED <<closed, slot, waiter, future, watcher, jobs>>

Doubt == TRUE

\* EmbeddingProcessUncertainError: the runtime closes before the Future completes.
Doubted ==
  /\ worker.at = "uncertain"
  /\ closed' = Doubt
  /\ Goes("error")
  /\ UNCHANGED <<slot, waiter, future, child, watcher, jobs>>

\* The Future has its result; its waiters are notified.
Finish ==
  /\ worker.at \in {"ok", "error"}
  /\ future' = [future EXCEPT ![worker.job] = worker.at]
  /\ Goes("callback")
  /\ UNCHANGED <<closed, slot, waiter, child, watcher, jobs>>

\* Mutant: a closed runtime leaves its slot taken.
FreedIfRunning == IF closed THEN slot ELSE None
Freed == None

\* _embedding_completed frees whatever holds the slot.
Completed ==
  /\ worker.at = "callback"
  /\ slot' = Freed
  /\ worker' = Free
  /\ UNCHANGED <<closed, waiter, future, child, watcher, jobs>>

Work ==
  \/ Take \/ StartBatch \/ Resume \/ Exchange \/ Confirm \/ Doubted \/ Finish \/ Completed

Next ==
  \/ \E w \in Waiters : Submit(w) \/ Refuse(w) \/ Cancel(w) \/ Return(w) \/ Again(w)
  \/ Close \/ Work \/ Exit \/ Expire \/ Terminate

Spec == Init /\ [][Next]_vars
------------------------------------------------------------------------------
TypeOK ==
  /\ closed \in BOOLEAN
  /\ slot \in Waiters \union {None}
  /\ waiter \in [Waiters -> {"idle", "waiting", "answered", "failed", "detached", "refused"}]
  /\ future \in [Waiters -> {"none", "pending", "running", "ok", "error", "cancelled"}]
  /\ \/ worker = Free
     \/ worker \in [job : Waiters, left : 1..MaxBatches,
                    at : {"batch", "spawned", "exchange", "confirm", "confirm-error",
                          "confirm-uncertain", "uncertain", "ok", "error", "callback"}]
  /\ child \in {"none", "suspended", "running", "replied", "broken", "stuck"}
  /\ watcher \in {"off", "on", "expired", "over"}
  /\ jobs \in 0..MaxJobs

(***************************************************************************)
(* The slot belongs to the computation the thread is busy with, however    *)
(* many waiters gave up, and a child that may still be alive is inside     *)
(* such a computation or the runtime is closed for good: capacity is       *)
(* never given away under running work (inference_runtime.py 151-186,      *)
(* e5_process.py 39-69, embeddings.py 141-146).                            *)
(***************************************************************************)
PhysicalBound ==
  /\ worker.job # None => slot = worker.job
  /\ Alive => worker.job # None \/ closed

(***************************************************************************)
(* Who has been answered can ask again at once: its own computation holds  *)
(* the slot no more (observe waits for the callback).                      *)
(***************************************************************************)
AnsweredIsFree ==
  \A w \in Waiters : waiter[w] \in {"answered", "failed"} => slot # w

\* What the runtime owes to admission: one computation at a time, and a free
\* slot for who has been answered.
SlotInv == TypeOK /\ PhysicalBound /\ AnsweredIsFree

(***************************************************************************)
(* A waiter returns, also when its child hangs or will not die; and a      *)
(* closed runtime does not go on computing: its children end, and no batch *)
(* is started after the one that was running.                              *)
(***************************************************************************)
WaitersReturn == \A w \in Waiters : waiter[w] = "waiting" ~> waiter[w] # "waiting"
CloseEndsWork == closed ~> ~Alive /\ worker = Free
WorkEnds == WaitersReturn /\ CloseEndsWork
==============================================================================
