--------------------------- MODULE ModelSupervisor ---------------------------
(***************************************************************************)
(* The language model runs in an external engine process that API          *)
(* processes share with an operator's command line.  Whoever acts on the   *)
(* engine proves ownership by a private file, under a file lock that is    *)
(* never waited for.  A generation first writes into that file that the    *)
(* engine's state is uncertain, then sends its request, and clears the     *)
(* mark only after a complete answer; a generation that ends otherwise     *)
(* stops the engine and starts another one.  The work on the engine is     *)
(* done by threads that a cancelled request or a shutdown leaves behind.   *)
(***************************************************************************)
EXTENDS Naturals

CONSTANTS Apis,       \* API processes, each with one runtime and one supervisor
          Operators,  \* runs of the operator's command line
          Engines,    \* engine processes
          MaxCrashes, \* bound on crashes of API processes
          None

ASSUME SupervisorAssumption ==
  /\ Apis \intersect Operators = {}
  /\ MaxCrashes \in Nat
  /\ None \notin Engines
  /\ None \notin (Apis \union Operators) \X {"work", "close"}

Processes == Apis \union Operators
Threads == Processes \X {"work", "close"}

VARIABLES file,      \* the ownership file: the engine it names, quarantined or not
          lock,      \* the thread inside a locked start or stop
          engine,    \* physical state of every engine process
          parent,    \* the process that spawned an engine, None for the first
          busy,      \* the API processes whose requests an engine is working on
          owner,     \* of each process: the supervisor object
          thread,    \* of each thread: the supervisor procedure it runs
          request,   \* of each API process: its one admitted generation
          admission, \* of each API process: its runtime
          crashes

vars == <<file, lock, engine, parent, busy, owner, thread, request, admission, crashes>>
engines == <<engine, parent, busy>>

NoFile == [root |-> None, quarantined |-> FALSE]
Fresh == [claim |-> None, spawned |-> None, failed |-> FALSE]
Idle == [at |-> "idle", child |-> None, then |-> "done"]
NoRequest == [at |-> "none", root |-> None]

\* The operator may have started an engine before.
Init ==
  /\ \/ /\ file = NoFile
        /\ engine = [e \in Engines |-> "unborn"]
     \/ \E first \in Engines :
          /\ file = [root |-> first, quarantined |-> FALSE]
          /\ engine = [e \in Engines |-> IF e = first THEN "running" ELSE "unborn"]
  /\ lock = None
  /\ parent = [e \in Engines |-> None]
  /\ busy = [e \in Engines |-> {}]
  /\ owner = [p \in Processes |-> Fresh]
  /\ thread = [t \in Threads |-> Idle]
  /\ request = [p \in Apis |-> NoRequest]
  /\ admission = [p \in Apis |-> "open"]
  /\ crashes = 0

Exists(e) == e # None /\ engine[e] \in {"suspended", "running", "dying"}
Usable == Exists(file.root) /\ ~file.quarantined

\* A named job can be opened while a member or a generation holds a handle.
JobOpens(e) == Exists(e) \/ \E p \in Apis : request[p].root = e

\* The file lock is tried, never waited for.
LockFree == lock = None

\* The uncertainty may be claimed once.
Claimable == Usable

\* How a child is created: it does not run before it is recorded.
Born == "suspended"

Recovering == {"stopping", "restarting", "checking", "verified"}

------------------------------------------------------------------------------
(* The locked procedures, run by a thread t of process t[1].               *)

Goes(t, next) == thread' = [thread EXCEPT ![t] = next]
At(t, at) == Goes(t, [thread[t] EXCEPT !.at = at])
Owns(p, record) == owner' = [owner EXCEPT ![p] = record]
Returns(t) == At(t, "done")
Raises(t) == At(t, "failed")

Terminate(t, e) ==
  /\ JobOpens(e)
  /\ engine' = [engine EXCEPT ![e] = IF Exists(e) THEN "dying" ELSE @]
  /\ lock' = t
  /\ At(t, "terminating")
  /\ UNCHANGED <<file, parent, busy, owner, request, admission, crashes>>

Quit(t) ==
  /\ Raises(t)
  /\ UNCHANGED <<file, lock, engines, owner, request, admission, crashes>>

ClaimLost(p) ==
  /\ owner[p].claim # None
  /\ file # [root |-> owner[p].claim, quarantined |-> TRUE]

\* stop() up to the termination it requests, or the early return without a file.
Stop(t) ==
  /\ thread[t].at = "stop"
  /\ \/ /\ LockFree
        /\ ~ClaimLost(t[1])
        /\ \/ /\ file = NoFile
              /\ Returns(t)
              /\ UNCHANGED <<file, lock, engines, owner, request, admission, crashes>>
           \/ file # NoFile /\ Terminate(t, file.root)
     \/ /\ ~LockFree \/ ClaimLost(t[1]) \/ (file # NoFile /\ ~JobOpens(file.root))
        /\ Quit(t)

\* Only when every member has exited is the ownership given up.
Confirm(t) ==
  /\ thread[t].at = "terminating"
  /\ ~Exists(file.root)
  /\ file' = NoFile
  /\ Owns(t[1], Fresh)
  /\ Returns(t)
  /\ lock' = None
  /\ UNCHANGED <<engines, request, admission, crashes>>

ConfirmTimeout(t) ==
  /\ thread[t].at = "terminating"
  /\ Exists(file.root)
  /\ Raises(t)
  /\ lock' = None
  /\ UNCHANGED <<file, engines, owner, request, admission, crashes>>

\* start() up to its decision: refuse, find it running, or make room for a new one.
Start(t) ==
  /\ thread[t].at = "start"
  /\ \/ /\ \/ ~LockFree
           \/ file.quarantined
           \/ thread[t].then = "close" /\ file # NoFile
           \/ file # NoFile /\ ~JobOpens(file.root)
        /\ Quit(t)
     \/ /\ LockFree /\ Usable /\ thread[t].then # "close"
        /\ At(t, "started")
        /\ UNCHANGED <<file, lock, engines, owner, request, admission, crashes>>
     \/ /\ LockFree /\ file = NoFile
        /\ lock' = t
        /\ At(t, "spawn")
        /\ UNCHANGED <<file, engines, owner, request, admission, crashes>>
     \/ /\ LockFree /\ file # NoFile /\ ~file.quarantined /\ thread[t].then # "close"
        /\ ~Exists(file.root) /\ JobOpens(file.root)
        /\ file' = NoFile
        /\ Owns(t[1], Fresh)
        /\ lock' = t
        /\ At(t, "spawn")
        /\ UNCHANGED <<engines, request, admission, crashes>>

\* The child is created suspended and contained before it can run.
Spawn(t) ==
  /\ thread[t].at = "spawn"
  /\ \A e \in Engines : engine[e] # "running"
  /\ \E e \in Engines :
       /\ engine[e] = "unborn"
       /\ engine' = [engine EXCEPT ![e] = Born]
       /\ parent' = [parent EXCEPT ![e] = t[1]]
       /\ Goes(t, [thread[t] EXCEPT !.at = "spawned", !.child = e])
  /\ UNCHANGED <<file, lock, busy, owner, request, admission, crashes>>

Write(t) ==
  /\ thread[t].at = "spawned"
  /\ file' = [root |-> thread[t].child, quarantined |-> FALSE]
  /\ At(t, "written")
  /\ UNCHANGED <<lock, engines, owner, request, admission, crashes>>

Resume(t) ==
  /\ thread[t].at = "written"
  /\ engine' = [engine EXCEPT ![thread[t].child] = IF @ = "suspended" THEN "running" ELSE @]
  /\ Owns(t[1], [owner[t[1]] EXCEPT !.spawned = thread[t].child, !.failed = FALSE])
  /\ lock' = None
  /\ Goes(t, [thread[t] EXCEPT !.at = "started", !.child = None])
  /\ UNCHANGED <<file, parent, busy, request, admission, crashes>>

\* A start that fails kills what it spawned; the file may already name it.
StartFails(t) ==
  /\ thread[t].at \in {"spawn", "spawned", "written"}
  /\ engine' = [e \in Engines |-> IF e = thread[t].child THEN "dead" ELSE engine[e]]
  /\ lock' = None
  /\ Goes(t, [thread[t] EXCEPT !.at = "failed", !.child = None])
  /\ UNCHANGED <<file, parent, busy, owner, request, admission, crashes>>

\* What a restart finds.
Closed(p) == admission[p] = "closed"

\* After start(): a restart looks whether the application closed meanwhile,
\* provisioning uses the engine and closes it.
Started(t) ==
  /\ thread[t].at = "started"
  /\ At(t, IF \/ thread[t].then = "close"
              \/ thread[t].then = "recheck" /\ Closed(t[1])
           THEN "close" ELSE "done")
  /\ UNCHANGED <<file, lock, engines, owner, request, admission, crashes>>

\* Mutant: a claimed engine is left alone even when the claim is this owner's.
OursUnclaimed(p) == file.root = owner[p].spawned /\ ~file.quarantined
Ours(p) ==
  /\ file.root = owner[p].spawned
  /\ file.quarantined => owner[p].claim = file.root

\* close_recovery_child(): only what this owner spawned, never another's claim.
CloseChild(t) ==
  LET p == t[1]
  IN /\ thread[t].at = "close"
     /\ \/ /\ LockFree
           /\ owner[p].spawned = None \/ file = NoFile
           /\ Owns(p, [owner[p] EXCEPT !.spawned = None])
           /\ Returns(t)
           /\ UNCHANGED <<file, lock, engines, request, admission, crashes>>
        \/ /\ LockFree /\ owner[p].spawned # None /\ file # NoFile /\ Ours(p)
           /\ Terminate(t, file.root)
        \/ /\ ~LockFree \/ (owner[p].spawned # None /\ file # NoFile
                              /\ (~Ours(p) \/ ~JobOpens(file.root)))
           /\ Quit(t)

ThreadStep(t) ==
  \/ Stop(t) \/ Confirm(t) \/ ConfirmTimeout(t) \/ Start(t) \/ Spawn(t) \/ Write(t)
  \/ Resume(t) \/ StartFails(t) \/ Started(t) \/ CloseChild(t)

------------------------------------------------------------------------------
(* A generation of process p, admitted by the permit of its runtime.       *)

Work(p) == <<p, "work">>
Stage(p, at) == request' = [request EXCEPT ![p].at = at]
Ends(p) == request' = [request EXCEPT ![p] = NoRequest]
Admission(p, state) == admission' = [admission EXCEPT ![p] = state]
\* set_generation_available; a closed runtime stays closed.
Quarantine(p) == Admission(p, IF admission[p] = "open" THEN "unavailable" ELSE admission[p])
\* The whole answer is there.  Mutant: the claim is cleared once the request is sent.
AnsweredBySending(p) == TRUE
Answered(p) == \A e \in Engines : p \notin busy[e]

\* generate(): hold_containment, then the model is verified.
Enter(p) ==
  /\ admission[p] = "open"
  /\ request[p] = NoRequest
  /\ \/ /\ Usable
        /\ request' = [request EXCEPT ![p] = [at |-> "held", root |-> file.root]]
        /\ UNCHANGED admission
     \/ /\ ~Usable
        /\ Quarantine(p)
        /\ UNCHANGED request
  /\ UNCHANGED <<file, lock, engines, owner, thread, crashes>>

\* begin_inference(): the uncertainty is on disk before anything is sent.
Begin(p) ==
  /\ request[p].at = "held"
  /\ LockFree
  /\ Claimable
  /\ file' = [file EXCEPT !.quarantined = TRUE]
  /\ Owns(p, [owner[p] EXCEPT !.claim = file.root, !.failed = TRUE])
  /\ request' = [request EXCEPT ![p] = [at |-> "claimed", root |-> file.root]]
  /\ UNCHANGED <<lock, engines, thread, admission, crashes>>

\* begin_inference() refused or failing before it wrote the claim.
BeginFails(p) ==
  /\ request[p].at = "held"
  /\ Owns(p, [owner[p] EXCEPT !.failed = TRUE])
  /\ Ends(p)
  /\ Quarantine(p)
  /\ UNCHANGED <<file, lock, engines, thread, crashes>>

\* The payload goes to whatever engine listens on the port.
Send(p) ==
  /\ request[p].at = "claimed"
  /\ \E e \in Engines :
       /\ engine[e] = "running"
       /\ busy' = [busy EXCEPT ![e] = @ \union {p}]
  /\ Stage(p, "sent")
  /\ UNCHANGED <<file, lock, engine, parent, owner, thread, admission, crashes>>

\* A timeout, an error or a cancellation with nothing sent: the claim stays.
Unsent(p) ==
  /\ request[p].at \in {"held", "claimed"}
  /\ Ends(p)
  /\ Quarantine(p) \/ UNCHANGED admission
  /\ UNCHANGED <<file, lock, engines, owner, thread, crashes>>

\* A complete answer, then complete_inference().
Complete(p) ==
  /\ request[p].at = "sent"
  /\ Answered(p)
  /\ LockFree
  /\ file = [root |-> request[p].root, quarantined |-> TRUE]
  /\ owner[p].claim = request[p].root
  /\ Exists(file.root)
  /\ file' = [file EXCEPT !.quarantined = FALSE]
  /\ Owns(p, [owner[p] EXCEPT !.claim = None, !.failed = FALSE])
  /\ Ends(p)
  /\ UNCHANGED <<lock, engines, thread, admission, crashes>>

\* Anything else once the payload may have been sent: quarantine, then _recover().
Fail(p) ==
  /\ request[p].at = "sent"
  /\ Stage(p, "stopping")
  /\ Quarantine(p)
  /\ thread' = [thread EXCEPT ![Work(p)] = [Idle EXCEPT !.at = "stop"]]
  /\ UNCHANGED <<file, lock, engines, owner, crashes>>

Restart(p) ==
  /\ request[p].at = "stopping"
  /\ thread[Work(p)].at = "done"
  /\ Stage(p, "restarting")
  /\ thread' = [thread EXCEPT ![Work(p)] = [Idle EXCEPT !.at = "start", !.then = "recheck"]]
  /\ UNCHANGED <<file, lock, engines, owner, admission, crashes>>

\* status() is ready, then verify_model, then admission opens again.
Check(p) ==
  /\ request[p].at = "restarting" /\ thread[Work(p)].at = "done"
  /\ Usable /\ ~owner[p].failed
  /\ engine[file.root] = "running"
  /\ Stage(p, "verified")
  /\ UNCHANGED <<file, lock, engines, owner, thread, admission, crashes>>

Reopen(p) ==
  /\ request[p].at = "verified"
  /\ Admission(p, IF admission[p] = "closed" THEN "closed" ELSE "open")
  /\ Ends(p)
  /\ UNCHANGED <<file, lock, engines, owner, thread, crashes>>

\* A step of the recovery raised, or its time is over: the thread runs on alone.
GiveUp(p) ==
  /\ request[p].at \in Recovering
  /\ Ends(p)
  /\ UNCHANGED <<file, lock, engines, owner, thread, admission, crashes>>

RequestStep(p) ==
  \/ Enter(p) \/ Begin(p) \/ BeginFails(p) \/ Send(p) \/ Unsent(p) \/ Complete(p)
  \/ Fail(p) \/ Restart(p) \/ Check(p) \/ Reopen(p) \/ GiveUp(p)

------------------------------------------------------------------------------
(* Processes.                                                              *)

\* aclose(): admission closes first, then a thread looks for the child.
Close(p) ==
  /\ admission[p] \in {"open", "unavailable"}
  /\ Admission(p, "closed")
  /\ thread' = [thread EXCEPT ![<<p, "close">>] = [Idle EXCEPT !.at = "close"]]
  /\ UNCHANGED <<file, lock, engines, owner, request, crashes>>

\* A crash at any point; what the process started or sent stays behind.
Crash(p) ==
  /\ crashes < MaxCrashes
  /\ crashes' = crashes + 1
  /\ thread' = [t \in Threads |-> IF t[1] = p THEN Idle ELSE thread[t]]
  /\ lock' = IF lock # None /\ lock[1] = p THEN None ELSE lock
  /\ Owns(p, Fresh)
  /\ Ends(p)
  /\ Admission(p, "open")
  /\ UNCHANGED <<file, engines>>

\* One command line of the operator after another, each with a supervisor of its own.
Commands(o, at, then) ==
  /\ thread[Work(o)].at \in {"idle", "done", "failed"}
  /\ thread' = [thread EXCEPT ![Work(o)] = [Idle EXCEPT !.at = at, !.then = then]]
  /\ Owns(o, Fresh)
  /\ UNCHANGED <<file, lock, engines, request, admission, crashes>>

Operate(o) == \E at \in {"start", "stop"} : Commands(o, at, "done")
Provision(o) == Commands(o, "start", "close")

\* The engine: an answer, an exit after a termination, a failure of its own.
Answer(e) ==
  /\ engine[e] = "running"
  /\ \E p \in busy[e] : busy' = [busy EXCEPT ![e] = @ \ {p}]
  /\ UNCHANGED <<file, lock, engine, parent, owner, thread, request, admission, crashes>>

Die(e) ==
  /\ engine[e] \in {"running", "dying"}
  /\ engine' = [engine EXCEPT ![e] = "dead"]
  /\ busy' = [busy EXCEPT ![e] = {}]
  /\ UNCHANGED <<file, lock, parent, owner, thread, request, admission, crashes>>

Next ==
  \/ \E t \in Threads : ThreadStep(t)
  \/ \E p \in Apis : RequestStep(p) \/ Close(p) \/ Crash(p)
  \/ \E o \in Operators : Operate(o) \/ Provision(o)
  \/ \E e \in Engines : Answer(e) \/ Die(e)

Spec == Init /\ [][Next]_vars
------------------------------------------------------------------------------
TypeOK ==
  /\ file \in [root : Engines \union {None}, quarantined : BOOLEAN]
  /\ lock \in {None} \union {t \in Threads :
                  thread[t].at \in {"terminating", "spawn", "spawned", "written"}}
  /\ engine \in [Engines -> {"unborn", "suspended", "running", "dying", "dead"}]
  /\ parent \in [Engines -> Processes \union {None}]
  /\ busy \in [Engines -> SUBSET Apis]
  /\ owner \in [Processes -> [claim : Engines \union {None}, spawned : Engines \union {None},
                              failed : BOOLEAN]]
  /\ thread \in [Threads -> [at : {"idle", "stop", "terminating", "start", "spawn", "spawned",
                                   "written", "started", "close", "done", "failed"},
                             child : Engines \union {None},
                             then : {"done", "recheck", "close"}]]
  /\ request \in [Apis -> [at : {"none", "held", "claimed", "sent"} \union Recovering,
                           root : Engines \union {None}]]
  /\ admission \in [Apis -> {"open", "unavailable", "closed"}]
  /\ crashes \in 0..MaxCrashes

(***************************************************************************)
(* An engine that runs is the one the ownership file names, whoever        *)
(* crashed between spawning it, recording it and letting it run, and       *)
(* whoever gave up stopping it (ollama_supervisor.py 269-298, 360-388).    *)
(***************************************************************************)
RunningIsOwned == \A e \in Engines : engine[e] = "running" => file.root = e

(***************************************************************************)
(* An engine that still works on a request, waited for or abandoned, is    *)
(* marked as uncertain in the file, where every process that might use it  *)
(* next looks first (begin_inference, complete_inference).                 *)
(***************************************************************************)
BusyIsQuarantined ==
  \A e \in Engines :
    engine[e] = "running" /\ busy[e] # {} => file = [root |-> e, quarantined |-> TRUE]

\* An operator may replace an engine under a claim, whose request then goes to the new one.
Untouched == \A o \in Operators : thread[Work(o)].at = "idle"

(***************************************************************************)
(* What whoever uses the model next relies on: an engine that runs is the  *)
(* one the file names, and until an operator's command interferes one that *)
(* still works on a request is marked there (ollama_supervisor.py).        *)
(***************************************************************************)
Supervised ==
  /\ TypeOK
  /\ RunningIsOwned
  /\ Untouched => BusyIsQuarantined

(***************************************************************************)
(* A shutdown ends: every engine the process ever spawned exits, also one  *)
(* that an abandoned recovery starts after the shutdown, although neither  *)
(* the file lock nor a refused termination is retried: whichever of the    *)
(* two comes second sees the other (ollama.py 249-252, inference_runtime.py*)
(* 206-221).                                                               *)
(***************************************************************************)
ShutdownEnds ==
  \A p \in Apis, e \in Engines :
    admission[p] = "closed" /\ parent[e] = p ~> engine[e] = "dead"
==============================================================================
