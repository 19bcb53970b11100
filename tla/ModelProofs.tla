----------------------------- MODULE ModelProofs -----------------------------
(***************************************************************************)
(* Proofs about the language model: who owns its engine (ModelSupervisor), *)
(* for any number of API processes, command lines, engines and crashes;    *)
(* and what the status page says of it (SystemReadiness), for any number   *)
(* of requests, generations and times to live.  And about two kinds of     *)
(* child processes of the API: that the slot of the inference runtime      *)
(* bounds its physical work, for any number of waiters, batches and        *)
(* computations; and that the supervision of a parser hands on whole       *)
(* answers only and leaves no process of its tree behind, contained or     *)
(* not, for any number of children and chunks.                             *)
(***************************************************************************)
EXTENDS MCChildren, TLAPS

\* Stages in which a procedure is over or was never begun, and in which it is locked.
Resting == {"idle", "done", "failed"}
Locked == {"terminating", "spawn", "spawned", "written"}

\* Who is in a locked stage holds the lock; while it is held no engine runs,
\* and the file says how far its holder is with a new one.
Locking ==
  /\ \A t \in Threads : thread[t].at \in Locked => lock = t
  /\ lock # None => \A e \in Engines : engine[e] # "running"
  /\ \A t \in Threads :
       /\ thread[t].at \in {"spawn", "spawned"} => file = NoFile
       /\ thread[t].at = "written" => file = [root |-> thread[t].child, quarantined |-> FALSE]

\* A procedure is never begun in place of one that still runs: a recovery that
\* was given up keeps admission closed, and a shutdown looks once.
Admitted ==
  \A p \in Apis :
    /\ admission[p] = "open" \/ request[p].at \in {"held", "claimed", "sent", "verified"}
         => thread[Work(p)].at \in Resting
    /\ request[p].at \in Recovering => admission[p] # "open"
    /\ admission[p] # "closed" => thread[<<p, "close">>].at = "idle"

\* A shutdown only closes.
Closing == \A p \in Processes : thread[<<p, "close">>].at \in Resting \union {"close", "terminating"}

\* The inductive invariant of ownership.
OwnerInv == TypeOK /\ RunningIsOwned /\ Locking /\ Admitted /\ Closing

Procedures == [at : {"idle", "stop", "terminating", "start", "spawn", "spawned",
                     "written", "started", "close", "done", "failed"},
               child : Engines \union {None},
               then : {"done", "recheck", "close"}]
Owners == [claim : Engines \union {None}, spawned : Engines \union {None}, failed : BOOLEAN]
Files == [root : Engines \union {None}, quarantined : BOOLEAN]
Generations == [at : {"none", "held", "claimed", "sent"} \union Recovering,
                root : Engines \union {None}]

------------------------------------------------------------------------------
(* Types.                                                                  *)

LEMMA Constants ==
  /\ NoFile \in Files /\ Fresh \in Owners /\ Idle \in Procedures /\ NoRequest \in Generations
  /\ Fresh.claim = None /\ Fresh.spawned = None
  /\ Idle.at = "idle" /\ NoRequest.at = "none" /\ NoFile.root = None /\ ~NoFile.quarantined
BY DEF NoFile, Fresh, Idle, NoRequest, Files, Owners, Procedures, Generations

\* The threads of a process, and whose a thread is.
LEMMA ThreadOf ==
  /\ \A p \in Processes : Work(p) \in Threads /\ <<p, "close">> \in Threads
  /\ \A t \in Threads : /\ t[1] \in Processes
                        /\ t = Work(t[1]) \/ t = <<t[1], "close">>
  /\ \A p, q \in Processes : Work(p) # <<q, "close">> /\ (Work(p) = Work(q) => p = q)
  /\ \A p \in Processes : Work(p)[1] = p
  /\ Apis \subseteq Processes /\ Operators \subseteq Processes
BY DEF Threads, Work, Processes

LEMMA NoneIsNobody ==
  ASSUME SupervisorAssumption
  PROVE  None \notin Engines /\ None \notin Threads
BY DEF SupervisorAssumption, Threads, Processes

\* What a thread step leaves of the other threads.
LEMMA Gone ==
  ASSUME TypeOK, NEW t \in Threads, NEW next, Goes(t, next)
  PROVE  thread'[t] = next /\ \A u \in Threads : u # t => thread'[u] = thread[u]
BY DEF Goes, TypeOK

LEMMA AtTyped ==
  ASSUME NEW r \in Procedures,
         NEW stage \in {"idle", "stop", "terminating", "start", "spawn", "spawned",
                     "written", "started", "close", "done", "failed"}
  PROVE  /\ [r EXCEPT !.at = stage] \in Procedures
         /\ [r EXCEPT !.at = stage].at = stage
         /\ [r EXCEPT !.at = stage].child = r.child
         /\ [r EXCEPT !.at = stage].then = r.then
BY DEF Procedures

\* A step of one thread that ends up within its kind keeps admission in order.
LEMMA ThreadAdmitted ==
  ASSUME OwnerInv, NEW t \in Threads, thread[t].at \notin Resting,
         NEW next, Goes(t, next), UNCHANGED <<request, admission>>,
         t[2] = "close" => next.at \in Resting \union {"close", "terminating"}
  PROVE  Admitted' /\ Closing'
<1>1. thread'[t] = next /\ \A u \in Threads : u # t => thread'[u] = thread[u]
  BY Gone DEF OwnerInv
<1>2. ASSUME NEW p \in Apis
      PROVE  /\ thread[Work(p)].at \in Resting => thread'[Work(p)] = thread[Work(p)]
             /\ thread[<<p, "close">>].at = "idle" => thread'[<<p, "close">>] = thread[<<p, "close">>]
  BY <1>1, ThreadOf DEF Resting
<1>3. Admitted'
  BY <1>2 DEF OwnerInv, Admitted, Work
<1>4. ASSUME NEW p \in Processes
      PROVE  thread'[<<p, "close">>].at \in Resting \union {"close", "terminating"}
  <2>1. CASE t = <<p, "close">>
    BY <1>1, <2>1
  <2>2. CASE t # <<p, "close">>
    BY <1>1, <2>2, ThreadOf DEF OwnerInv, Closing
  <2>3. QED
    BY <2>1, <2>2
<1>5. QED
  BY <1>3, <1>4 DEF Closing

\* A thread that goes on outside of the lock, with nothing else moved.
LEMMA GoesFree ==
  ASSUME SupervisorAssumption, OwnerInv, NEW t \in Threads, thread[t].at \notin Resting \union Locked,
         NEW next \in Procedures, Goes(t, next), next.at \notin Locked,
         t[2] = "close" => next.at \in Resting \union {"close"},
         UNCHANGED <<file, lock, engine, parent, busy, request, admission, crashes>>,
         owner' \in [Processes -> Owners]
  PROVE  OwnerInv'
<1> USE DEF OwnerInv
<1>1. thread'[t] = next /\ \A u \in Threads : u # t => thread'[u] = thread[u]
  BY Gone
<1>2. Admitted' /\ Closing'
  BY ThreadAdmitted
<1>3. lock # t
  BY NoneIsNobody DEF TypeOK, Locked
<1>4. Locking'
  BY <1>1 DEF Locking, Locked
<1>5. thread' \in [Threads -> Procedures]
  BY DEF TypeOK, Goes, Procedures
<1>6. lock \in {None} \union {u \in Threads : thread'[u].at \in Locked}
  BY <1>1, <1>3 DEF TypeOK, Locked
<1>7. TypeOK'
  BY <1>5, <1>6 DEF TypeOK, Procedures, Owners, Locked
<1>8. RunningIsOwned'
  BY DEF RunningIsOwned
<1>9. QED
  BY <1>2, <1>4, <1>7, <1>8

------------------------------------------------------------------------------
(* The locked procedures.                                                  *)

\* A thread that takes the lock, keeps it or gives it up; nothing is taken from
\* another one.
LEMMA GoesLocked ==
  ASSUME SupervisorAssumption, OwnerInv, NEW t \in Threads, thread[t].at \notin Resting,
         lock \in {None, t}, NEW next \in Procedures, Goes(t, next),
         lock' = IF next.at \in Locked THEN t ELSE None,
         t[2] = "close" => next.at \in Resting \union {"close", "terminating"},
         file' \in Files, engine' \in [Engines -> {"unborn", "suspended", "running", "dying", "dead"}],
         parent' \in [Engines -> Processes \union {None}], owner' \in [Processes -> Owners],
         UNCHANGED <<busy, request, admission, crashes>>,
         RunningIsOwned',
         next.at \in Locked => \A e \in Engines : engine'[e] # "running",
         next.at \in {"spawn", "spawned"} => file' = NoFile,
         next.at = "written" => file' = [root |-> next.child, quarantined |-> FALSE]
  PROVE  OwnerInv'
<1> USE DEF OwnerInv
<1>1. thread'[t] = next /\ \A u \in Threads : u # t => thread'[u] = thread[u]
  BY Gone
<1>2. Admitted' /\ Closing'
  BY ThreadAdmitted
<1>3. \A u \in Threads : u # t => thread'[u].at \notin Locked
  BY <1>1, NoneIsNobody DEF Locking
<1>4. Locking'
  BY <1>1, <1>3, NoneIsNobody DEF Locking, Locked
<1>5. thread' \in [Threads -> Procedures]
  BY DEF TypeOK, Goes, Procedures
<1>6. lock' \in {None} \union {u \in Threads : thread'[u].at \in Locked}
  BY <1>1
<1>7. TypeOK'
  BY <1>5, <1>6 DEF TypeOK, Procedures, Owners, Files, Locked
<1>8. QED
  BY <1>2, <1>4, <1>7

\* A termination is asked for under the lock.
LEMMA TerminateKeeps ==
  ASSUME SupervisorAssumption, OwnerInv, NEW t \in Threads, thread[t].at \in {"stop", "close"},
         lock = None, Terminate(t, file.root)
  PROVE  OwnerInv'
<1> DEFINE next == [thread[t] EXCEPT !.at = "terminating"]
<1>1. thread[t] \in Procedures
  BY DEF OwnerInv, TypeOK, Procedures
<1>2. next \in Procedures /\ next.at = "terminating"
  BY <1>1, AtTyped
<1>3. Goes(t, next)
  BY DEF Terminate, At
<1>4. \A e \in Engines : engine'[e] # "running"
  <2>1. engine' = [engine EXCEPT ![file.root] = IF Exists(file.root) THEN "dying" ELSE engine[file.root]]
    BY DEF Terminate
  <2>2. engine \in [Engines -> {"unborn", "suspended", "running", "dying", "dead"}]
    BY DEF OwnerInv, TypeOK
  <2>3. ASSUME NEW e \in Engines, e # file.root
        PROVE  engine'[e] # "running"
    BY <2>1, <2>2, <2>3 DEF OwnerInv, RunningIsOwned
  <2>4. ASSUME file.root \in Engines
        PROVE  engine'[file.root] # "running"
    <3>1. engine'[file.root] = IF Exists(file.root) THEN "dying" ELSE engine[file.root]
      BY <2>1, <2>2, <2>4
    <3>2. engine[file.root] = "running" => Exists(file.root)
      BY <2>4, NoneIsNobody DEF Exists
    <3>3. QED
      BY <3>1, <3>2
  <2>5. QED
    BY <2>3, <2>4
<1>5. engine' \in [Engines -> {"unborn", "suspended", "running", "dying", "dead"}]
  BY DEF Terminate, OwnerInv, TypeOK
<1>6. UNCHANGED <<file, parent, busy, owner, request, admission, crashes>> /\ lock' = t
  BY DEF Terminate
<1>7. file' \in Files /\ parent' \in [Engines -> Processes \union {None}] /\ owner' \in [Processes -> Owners]
  BY <1>6 DEF OwnerInv, TypeOK, Files, Owners
<1>8. thread[t].at \notin Resting
  BY DEF Resting
<1> HIDE DEF next
<1>9. QED
  BY <1>2, <1>3, <1>4, <1>5, <1>6, <1>7, <1>8, GoesLocked DEF RunningIsOwned, Locked

LEMMA Procedure ==
  ASSUME OwnerInv, NEW t \in Threads
  PROVE  thread[t] \in Procedures
BY DEF OwnerInv, TypeOK, Procedures

LEMMA StateTyped ==
  ASSUME OwnerInv
  PROVE  /\ file \in Files
         /\ engine \in [Engines -> {"unborn", "suspended", "running", "dying", "dead"}]
         /\ parent \in [Engines -> Processes \union {None}]
         /\ owner \in [Processes -> Owners]
BY DEF OwnerInv, TypeOK, Files, Owners

\* A procedure that ends without having moved anything else.
LEMMA EndKeeps ==
  ASSUME SupervisorAssumption, OwnerInv, NEW t \in Threads, thread[t].at \in {"stop", "start", "started", "close"},
         NEW stage \in {"done", "failed", "started", "close"}, At(t, stage),
         t[2] = "close" => stage # "started",
         UNCHANGED <<file, lock, engine, parent, busy, request, admission, crashes>>,
         owner' \in [Processes -> Owners]
  PROVE  OwnerInv'
<1> DEFINE next == [thread[t] EXCEPT !.at = stage]
<1>1. next \in Procedures /\ next.at = stage
  <2>1. thread[t] \in Procedures
    BY Procedure
  <2>2. stage \in {"idle", "stop", "terminating", "start", "spawn", "spawned",
                "written", "started", "close", "done", "failed"}
    OBVIOUS
  <2>3. QED
    BY <2>1, <2>2, AtTyped
<1>2. Goes(t, next)
  BY DEF At
<1>3. thread[t].at \notin Resting \union Locked
  BY DEF Resting, Locked
<1>4. next.at \notin Locked /\ (t[2] = "close" => next.at \in Resting \union {"close"})
  BY <1>1 DEF Resting, Locked
<1> HIDE DEF next
<1>5. QED
  BY <1>1, <1>2, <1>3, <1>4, GoesFree

LEMMA StopKeeps ==
  ASSUME SupervisorAssumption, OwnerInv, NEW t \in Threads, Stop(t)
  PROVE  OwnerInv'
<1>1. thread[t].at = "stop"
  BY DEF Stop
<1>2. CASE lock = None /\ Terminate(t, file.root)
  BY <1>1, <1>2, TerminateKeeps
<1>3. CASE Returns(t) /\ UNCHANGED <<file, lock, engines, owner, request, admission, crashes>>
  BY <1>1, <1>3, EndKeeps, StateTyped DEF Returns, engines
<1>4. CASE Quit(t)
  BY <1>1, <1>4, EndKeeps, StateTyped DEF Quit, Raises, engines
<1>5. QED
  BY <1>2, <1>3, <1>4 DEF Stop, LockFree

LEMMA StartedKeeps ==
  ASSUME SupervisorAssumption, OwnerInv, NEW t \in Threads, Started(t)
  PROVE  OwnerInv'
<1>1. thread[t].at = "started"
  BY DEF Started
<1>2. At(t, "close") \/ At(t, "done")
  BY DEF Started
<1>3. UNCHANGED <<file, lock, engine, parent, busy, owner, request, admission, crashes>>
  BY DEF Started, engines
<1>4. QED
  BY <1>1, <1>2, <1>3, EndKeeps, StateTyped

LEMMA CloseChildKeeps ==
  ASSUME SupervisorAssumption, OwnerInv, NEW t \in Threads, CloseChild(t)
  PROVE  OwnerInv'
<1>1. thread[t].at = "close"
  BY DEF CloseChild
<1>2. CASE lock = None /\ Terminate(t, file.root)
  BY <1>1, <1>2, TerminateKeeps
<1>3. CASE /\ Owns(t[1], [owner[t[1]] EXCEPT !.spawned = None])
           /\ Returns(t)
           /\ UNCHANGED <<file, lock, engines, request, admission, crashes>>
  <2>1. owner' \in [Processes -> Owners]
    BY <1>3, StateTyped, ThreadOf DEF Owns, Owners
  <2>2. QED
    BY <1>1, <1>3, <2>1, EndKeeps DEF Returns, engines
<1>4. CASE Quit(t)
  BY <1>1, <1>4, EndKeeps, StateTyped DEF Quit, Raises, engines
<1>5. QED
  BY <1>2, <1>3, <1>4 DEF CloseChild, LockFree

\* A shutdown's thread never starts anything.
LEMMA NotClosing ==
  ASSUME OwnerInv, NEW t \in Threads, thread[t].at \notin Resting \union {"close", "terminating"}
  PROVE  t[2] # "close"
<1>1. ASSUME t[2] = "close"
      PROVE  thread[t].at \in Resting \union {"close", "terminating"}
  BY <1>1, ThreadOf DEF OwnerInv, Closing, Work
<1>2. QED
  BY <1>1

\* The step a locked thread takes.
LEMMA Holder ==
  ASSUME SupervisorAssumption, OwnerInv, NEW t \in Threads, thread[t].at \in Locked
  PROVE  /\ lock = t /\ t # None /\ \A e \in Engines : engine[e] # "running"
         /\ thread[t].at \notin Resting
BY NoneIsNobody DEF OwnerInv, Locking, Locked, Resting

\* The thread that holds the lock gives it up, and no engine runs.
LEMMA ReleaseKeeps ==
  ASSUME SupervisorAssumption, OwnerInv, NEW t \in Threads, thread[t].at \in Locked,
         NEW next \in Procedures, next.at \in {"started", "done", "failed"}, Goes(t, next), lock' = None,
         t[2] = "close" => next.at # "started",
         file' \in Files, engine' \in [Engines -> {"unborn", "suspended", "running", "dying", "dead"}],
         owner' \in [Processes -> Owners],
         UNCHANGED <<parent, busy, request, admission, crashes>>,
         RunningIsOwned'
  PROVE  OwnerInv'
<1>1. lock \in {None, t} /\ thread[t].at \notin Resting
  BY Holder
<1>2. next.at \notin Locked /\ (t[2] = "close" => next.at \in Resting \union {"close", "terminating"})
  BY DEF Locked, Resting
<1>3. lock' = IF next.at \in Locked THEN t ELSE None
  BY <1>2
<1>4. parent' \in [Engines -> Processes \union {None}]
  BY StateTyped
<1>5. /\ next.at \in Locked => \A e \in Engines : engine'[e] # "running"
      /\ next.at \in {"spawn", "spawned"} => file' = NoFile
      /\ next.at = "written" => file' = [root |-> next.child, quarantined |-> FALSE]
  BY <1>2 DEF Locked
<1>6. QED
  BY <1>1, <1>2, <1>3, <1>4, <1>5, GoesLocked

LEMMA ConfirmKeeps ==
  ASSUME SupervisorAssumption, OwnerInv, NEW t \in Threads, Confirm(t)
  PROVE  OwnerInv'
<1> DEFINE next == [thread[t] EXCEPT !.at = "done"]
<1>1. thread[t] \in Procedures /\ thread[t].at \in Locked
  BY Procedure DEF Confirm, Locked
<1>2. next \in Procedures /\ next.at = "done"
  BY <1>1, AtTyped
<1>3. Goes(t, next) /\ lock' = None
  BY DEF Confirm, Returns, At
<1>4. file' \in Files
  BY Constants DEF Confirm
<1>5. owner' \in [Processes -> Owners]
  BY StateTyped, Constants, ThreadOf DEF Confirm, Owns
<1>6. UNCHANGED <<engine, parent, busy, request, admission, crashes>>
  BY DEF Confirm, engines
<1>7. RunningIsOwned'
  BY <1>1, <1>6, Holder DEF RunningIsOwned
<1>8. engine' \in [Engines -> {"unborn", "suspended", "running", "dying", "dead"}]
  BY <1>6, StateTyped
<1> HIDE DEF next
<1>9. QED
  BY <1>1, <1>2, <1>3, <1>4, <1>5, <1>6, <1>7, <1>8, ReleaseKeeps

LEMMA ConfirmTimeoutKeeps ==
  ASSUME SupervisorAssumption, OwnerInv, NEW t \in Threads, ConfirmTimeout(t)
  PROVE  OwnerInv'
<1> DEFINE next == [thread[t] EXCEPT !.at = "failed"]
<1>1. thread[t] \in Procedures /\ thread[t].at \in Locked
  BY Procedure DEF ConfirmTimeout, Locked
<1>2. next \in Procedures /\ next.at = "failed"
  BY <1>1, AtTyped
<1>3. Goes(t, next) /\ lock' = None
  BY DEF ConfirmTimeout, Raises, At
<1>4. UNCHANGED <<file, engine, parent, busy, owner, request, admission, crashes>>
  BY DEF ConfirmTimeout, engines
<1>5. /\ file' \in Files /\ owner' \in [Processes -> Owners]
      /\ engine' \in [Engines -> {"unborn", "suspended", "running", "dying", "dead"}]
  BY <1>4, StateTyped
<1>6. RunningIsOwned'
  BY <1>4 DEF RunningIsOwned, OwnerInv
<1> HIDE DEF next
<1>7. QED
  BY <1>1, <1>2, <1>3, <1>4, <1>5, <1>6, ReleaseKeeps

LEMMA StartFailsKeeps ==
  ASSUME SupervisorAssumption, OwnerInv, NEW t \in Threads, StartFails(t)
  PROVE  OwnerInv'
<1> DEFINE next == [thread[t] EXCEPT !.at = "failed", !.child = None]
<1>1. thread[t] \in Procedures /\ thread[t].at \in Locked
  BY Procedure DEF StartFails, Locked
<1>2. next \in Procedures /\ next.at = "failed"
  BY <1>1 DEF Procedures
<1>3. Goes(t, next) /\ lock' = None
  BY DEF StartFails
<1>4. UNCHANGED <<file, parent, busy, owner, request, admission, crashes>>
  BY DEF StartFails
<1>5. file' \in Files /\ owner' \in [Processes -> Owners]
  BY <1>4, StateTyped
<1>6. engine' \in [Engines -> {"unborn", "suspended", "running", "dying", "dead"}]
  BY StateTyped DEF StartFails
<1>7. \A e \in Engines : engine'[e] # "running"
  BY <1>1, Holder DEF StartFails
<1>8. RunningIsOwned'
  BY <1>7 DEF RunningIsOwned
<1> HIDE DEF next
<1>9. QED
  BY <1>1, <1>2, <1>3, <1>4, <1>5, <1>6, <1>8, ReleaseKeeps

\* Only the engine the file names begins to run.
LEMMA ResumeKeeps ==
  ASSUME SupervisorAssumption, OwnerInv, NEW t \in Threads, Resume(t)
  PROVE  OwnerInv'
<1> DEFINE next == [thread[t] EXCEPT !.at = "started", !.child = None]
<1>1. thread[t] \in Procedures /\ thread[t].at \in Locked
  BY Procedure DEF Resume, Locked
<1>2. next \in Procedures /\ next.at = "started"
  BY <1>1 DEF Procedures
<1>3. Goes(t, next) /\ lock' = None
  BY DEF Resume
<1>4. UNCHANGED <<file, parent, busy, request, admission, crashes>>
  BY DEF Resume
<1>5. owner' \in [Processes -> Owners]
  <2>1. [owner[t[1]] EXCEPT !.spawned = thread[t].child, !.failed = FALSE] \in Owners
    <3>1. owner[t[1]] \in Owners
      BY StateTyped, ThreadOf
    <3>2. thread[t].child \in Engines \union {None}
      BY <1>1 DEF Procedures
    <3>3. QED
      BY <3>1, <3>2 DEF Owners
  <2>2. QED
    BY <2>1, StateTyped, ThreadOf DEF Resume, Owns
<1>6. engine' \in [Engines -> {"unborn", "suspended", "running", "dying", "dead"}]
  BY StateTyped DEF Resume
<1>7. file.root = thread[t].child
  BY DEF OwnerInv, Locking, Resume
<1>8. RunningIsOwned'
  BY <1>1, <1>4, <1>7, Holder, StateTyped DEF Resume, RunningIsOwned
<1>9. t[2] # "close"
  BY NotClosing DEF Resume, Resting
<1>10. file' \in Files
  BY <1>4, StateTyped
<1> HIDE DEF next
<1>11. QED
  BY <1>1, <1>2, <1>3, <1>4, <1>5, <1>6, <1>8, <1>9, <1>10, ReleaseKeeps

\* A thread that goes on under the lock, no engine running.
LEMMA HoldKeeps ==
  ASSUME SupervisorAssumption, OwnerInv, NEW t \in Threads,
         thread[t].at \notin Resting \union {"close", "terminating"}, lock \in {None, t},
         NEW next \in Procedures, next.at \in {"spawn", "spawned", "written"}, Goes(t, next), lock' = t,
         file' \in Files, engine' \in [Engines -> {"unborn", "suspended", "running", "dying", "dead"}],
         parent' \in [Engines -> Processes \union {None}], owner' \in [Processes -> Owners],
         UNCHANGED <<busy, request, admission, crashes>>,
         \A e \in Engines : engine'[e] # "running",
         next.at \in {"spawn", "spawned"} => file' = NoFile,
         next.at = "written" => file' = [root |-> next.child, quarantined |-> FALSE]
  PROVE  OwnerInv'
<1>1. t[2] # "close" /\ thread[t].at \notin Resting
  BY NotClosing
<1>2. next.at \in Locked
  BY DEF Locked
<1>3. lock' = IF next.at \in Locked THEN t ELSE None
  BY <1>2
<1>4. RunningIsOwned'
  BY DEF RunningIsOwned
<1>5. QED
  BY <1>1, <1>3, <1>4, GoesLocked

\* The way into the lock that leads to a new engine.
LEMMA MakesRoom ==
  ASSUME SupervisorAssumption, OwnerInv, NEW t \in Threads, thread[t].at = "start", lock = None,
         At(t, "spawn"), lock' = t, file' = NoFile, owner' \in [Processes -> Owners],
         UNCHANGED <<engine, parent, busy, request, admission, crashes>>,
         \A e \in Engines : engine[e] # "running"
  PROVE  OwnerInv'
<1> DEFINE next == [thread[t] EXCEPT !.at = "spawn"]
<1>1. thread[t] \in Procedures
  BY Procedure
<1>2. next \in Procedures /\ next.at = "spawn"
  BY <1>1, AtTyped
<1>3. Goes(t, next)
  BY DEF At
<1>4. thread[t].at \notin Resting \union {"close", "terminating"}
  BY DEF Resting
<1>5. file' \in Files
  BY Constants
<1>6. /\ engine' \in [Engines -> {"unborn", "suspended", "running", "dying", "dead"}]
      /\ parent' \in [Engines -> Processes \union {None}]
  BY StateTyped
<1>7. \A e \in Engines : engine'[e] # "running"
  OBVIOUS
<1> HIDE DEF next
<1>8. QED
  BY <1>2, <1>3, <1>4, <1>5, <1>6, <1>7, HoldKeeps

LEMMA StartKeeps ==
  ASSUME SupervisorAssumption, OwnerInv, NEW t \in Threads, Start(t)
  PROVE  OwnerInv'
<1>1. thread[t].at = "start" /\ t[2] # "close"
  BY NotClosing DEF Start, Resting
<1>2. CASE Quit(t)
  BY <1>1, <1>2, EndKeeps, StateTyped DEF Quit, Raises, engines
<1>3. CASE At(t, "started") /\ UNCHANGED <<file, lock, engines, owner, request, admission, crashes>>
  BY <1>1, <1>3, EndKeeps, StateTyped DEF engines
<1>4. CASE /\ lock = None /\ file = NoFile /\ lock' = t /\ At(t, "spawn")
           /\ UNCHANGED <<file, engines, owner, request, admission, crashes>>
  <2>1. \A e \in Engines : engine[e] # "running"
    BY <1>4, NoneIsNobody, Constants DEF OwnerInv, RunningIsOwned
  <2>2. QED
    BY <1>1, <1>4, <2>1, MakesRoom, StateTyped DEF engines
<1>5. CASE /\ lock = None /\ ~Exists(file.root) /\ file' = NoFile /\ Owns(t[1], Fresh)
           /\ lock' = t /\ At(t, "spawn") /\ UNCHANGED <<engines, request, admission, crashes>>
  <2>1. \A e \in Engines : engine[e] # "running"
    BY <1>5, NoneIsNobody DEF OwnerInv, RunningIsOwned, Exists
  <2>2. owner' \in [Processes -> Owners]
    BY <1>5, StateTyped, Constants, ThreadOf DEF Owns
  <2>3. QED
    BY <1>1, <1>5, <2>1, <2>2, MakesRoom DEF engines
<1>6. QED
  BY <1>2, <1>3, <1>4, <1>5 DEF Start, LockFree

LEMMA SpawnKeeps ==
  ASSUME SupervisorAssumption, OwnerInv, NEW t \in Threads, Spawn(t)
  PROVE  OwnerInv'
<1>1. PICK e \in Engines :
        /\ engine[e] = "unborn"
        /\ engine' = [engine EXCEPT ![e] = Born]
        /\ parent' = [parent EXCEPT ![e] = t[1]]
        /\ Goes(t, [thread[t] EXCEPT !.at = "spawned", !.child = e])
  BY DEF Spawn
<1> DEFINE next == [thread[t] EXCEPT !.at = "spawned", !.child = e]
<1>2. thread[t] \in Procedures /\ thread[t].at = "spawn"
  BY Procedure DEF Spawn
<1>3. next \in Procedures /\ next.at = "spawned" /\ Goes(t, next)
  BY <1>1, <1>2 DEF Procedures
<1>4. lock = t /\ lock' = t /\ thread[t].at \notin Resting \union {"close", "terminating"}
  BY <1>2, Holder DEF Spawn, Locked, Resting
<1>5. UNCHANGED <<file, busy, owner, request, admission, crashes>>
  BY DEF Spawn
<1>6. file' = NoFile /\ file' \in Files
  BY <1>2, <1>5, Constants DEF OwnerInv, Locking
<1>7. engine' \in [Engines -> {"unborn", "suspended", "running", "dying", "dead"}]
  BY <1>1, StateTyped DEF Born
<1>8. parent' \in [Engines -> Processes \union {None}]
  BY <1>1, StateTyped, ThreadOf
<1>9. owner' \in [Processes -> Owners]
  BY <1>5, StateTyped
<1>10. \A d \in Engines : engine'[d] # "running"
  BY <1>1, StateTyped DEF Born, Spawn
<1> HIDE DEF next
<1>11. QED
  BY <1>3, <1>4, <1>5, <1>6, <1>7, <1>8, <1>9, <1>10, HoldKeeps

LEMMA WriteKeeps ==
  ASSUME SupervisorAssumption, OwnerInv, NEW t \in Threads, Write(t)
  PROVE  OwnerInv'
<1> DEFINE next == [thread[t] EXCEPT !.at = "written"]
<1>1. thread[t] \in Procedures /\ thread[t].at = "spawned"
  BY Procedure DEF Write
<1>2. next \in Procedures /\ next.at = "written" /\ next.child = thread[t].child
  BY <1>1, AtTyped
<1>3. Goes(t, next)
  BY DEF Write, At
<1>4. lock = t /\ lock' = t /\ thread[t].at \notin Resting \union {"close", "terminating"}
  BY <1>1, Holder DEF Write, Locked, Resting
<1>5. UNCHANGED <<engine, parent, busy, owner, request, admission, crashes>>
  BY DEF Write, engines
<1>6. file' = [root |-> next.child, quarantined |-> FALSE]
  BY <1>2 DEF Write
<1>7. file' \in Files
  BY <1>2, <1>6 DEF Files, Procedures
<1>8. /\ engine' \in [Engines -> {"unborn", "suspended", "running", "dying", "dead"}]
      /\ parent' \in [Engines -> Processes \union {None}] /\ owner' \in [Processes -> Owners]
  BY <1>5, StateTyped
<1>9. \A d \in Engines : engine'[d] # "running"
  BY <1>1, <1>5, Holder DEF Locked
<1> HIDE DEF next
<1>10. QED
  BY <1>2, <1>3, <1>4, <1>5, <1>6, <1>7, <1>8, <1>9, HoldKeeps

LEMMA ThreadKeeps ==
  ASSUME SupervisorAssumption, OwnerInv, NEW t \in Threads, ThreadStep(t)
  PROVE  OwnerInv'
BY StopKeeps, ConfirmKeeps, ConfirmTimeoutKeeps, StartKeeps, SpawnKeeps, WriteKeeps, ResumeKeeps,
   StartFailsKeeps, StartedKeeps, CloseChildKeeps DEF ThreadStep

------------------------------------------------------------------------------
(* Generations.                                                            *)

LEMMA RequestTyped ==
  ASSUME OwnerInv
  PROVE  /\ busy \in [Engines -> SUBSET Apis]
         /\ request \in [Apis -> Generations]
         /\ admission \in [Apis -> {"open", "unavailable", "closed"}]
         /\ thread \in [Threads -> Procedures]
BY DEF OwnerInv, TypeOK, Generations, Procedures

\* A process that moves its generation to stage `next' and its runtime to `state',
\* with the threads where they are.
LEMMA StaysAdmitted ==
  ASSUME OwnerInv, NEW p \in Apis, NEW next \in Generations, NEW state \in {"open", "unavailable", "closed"},
         request' = [request EXCEPT ![p] = next], admission' = [admission EXCEPT ![p] = state],
         UNCHANGED thread,
         state = "open" \/ next.at \in {"held", "claimed", "sent", "verified"} => thread[Work(p)].at \in Resting,
         next.at \in Recovering => state # "open",
         admission[p] = "closed" => state = "closed"
  PROVE  /\ request' \in [Apis -> Generations]
         /\ admission' \in [Apis -> {"open", "unavailable", "closed"}]
         /\ Admitted'
<1>1. /\ request' \in [Apis -> Generations] /\ request'[p] = next
      /\ \A q \in Apis : q # p => request'[q] = request[q]
  BY RequestTyped
<1>2. /\ admission' \in [Apis -> {"open", "unavailable", "closed"}] /\ admission'[p] = state
      /\ \A q \in Apis : q # p => admission'[q] = admission[q]
  BY RequestTyped
<1>3. ASSUME NEW q \in Apis
      PROVE  /\ admission'[q] = "open" \/ request'[q].at \in {"held", "claimed", "sent", "verified"}
                   => thread[Work(q)].at \in Resting
             /\ request'[q].at \in Recovering => admission'[q] # "open"
             /\ admission'[q] # "closed" => thread[<<q, "close">>].at = "idle"
  <2>1. CASE q = p
    BY <1>1, <1>2, <2>1 DEF OwnerInv, Admitted
  <2>2. CASE q # p
    BY <1>1, <1>2, <2>2 DEF OwnerInv, Admitted
  <2>3. QED
    BY <2>1, <2>2
<1>4. Admitted'
  BY <1>3 DEF Admitted, Work
<1>5. QED
  BY <1>1, <1>2, <1>4

\* A step of a generation, or of an engine, that leaves the threads where they are.
LEMMA CallKeeps ==
  ASSUME SupervisorAssumption, OwnerInv,
         UNCHANGED <<lock, parent, thread, crashes>>,
         file' \in Files, file'.root = file.root, lock # None => file' = file,
         engine' \in [Engines -> {"unborn", "suspended", "running", "dying", "dead"}],
         \A e \in Engines : engine'[e] = "running" => engine[e] = "running",
         owner' \in [Processes -> Owners], busy' \in [Engines -> SUBSET Apis],
         request' \in [Apis -> Generations], admission' \in [Apis -> {"open", "unavailable", "closed"}],
         Admitted'
  PROVE  OwnerInv'
<1>1. Locking'
  <2>1. CASE lock = None
    <3>1. \A t \in Threads : thread[t].at \notin Locked
      BY <2>1, NoneIsNobody DEF OwnerInv, Locking
    <3>2. QED
      BY <2>1, <3>1 DEF Locking, Locked
  <2>2. CASE lock # None
    BY <2>2 DEF OwnerInv, Locking
  <2>3. QED
    BY <2>1, <2>2
<1>2. lock' \in {None} \union {t \in Threads : thread'[t].at \in Locked}
  BY DEF OwnerInv, TypeOK, Locked
<1>3. TypeOK'
  BY <1>2 DEF OwnerInv, TypeOK, Files, Owners, Generations, Locked
<1>4. RunningIsOwned'
  BY DEF OwnerInv, RunningIsOwned
<1>5. Closing'
  BY DEF OwnerInv, Closing
<1>6. QED
  BY <1>1, <1>3, <1>4, <1>5 DEF OwnerInv

\* A quarantined runtime takes no more generations.
LEMMA Quarantines ==
  ASSUME OwnerInv, NEW p \in Apis, Quarantine(p)
  PROVE  \E state \in {"unavailable", "closed"} :
           /\ admission' = [admission EXCEPT ![p] = state]
           /\ admission[p] = "closed" => state = "closed"
BY RequestTyped DEF Quarantine, Admission

\* The stages of a generation and the thread that may not run beside it.
LEMMA Staged ==
  ASSUME OwnerInv, NEW p \in Apis
  PROVE  /\ request[p] \in Generations /\ admission[p] \in {"open", "unavailable", "closed"}
         /\ admission = [admission EXCEPT ![p] = admission[p]]
         /\ request = [request EXCEPT ![p] = request[p]]
         /\ admission[p] = "open" \/ request[p].at \in {"held", "claimed", "sent", "verified"}
              => thread[Work(p)].at \in Resting
         /\ request[p].at \in Recovering => admission[p] # "open"
<1>1. request[p] \in Generations /\ admission[p] \in {"open", "unavailable", "closed"}
  BY RequestTyped
<1>2. admission = [admission EXCEPT ![p] = admission[p]] /\ request = [request EXCEPT ![p] = request[p]]
  BY RequestTyped
<1>3. QED
  BY <1>1, <1>2 DEF OwnerInv, Admitted

LEMMA StageTyped ==
  ASSUME NEW r \in Generations, NEW stage \in {"none", "held", "claimed", "sent"} \union Recovering
  PROVE  [r EXCEPT !.at = stage] \in Generations /\ [r EXCEPT !.at = stage].at = stage
BY DEF Generations

LEMMA EnterKeeps ==
  ASSUME SupervisorAssumption, OwnerInv, NEW p \in Apis, Enter(p)
  PROVE  OwnerInv'
<1>1. UNCHANGED <<file, lock, engine, parent, busy, owner, thread, crashes>>
  BY DEF Enter, engines
<1>2. /\ request' \in [Apis -> Generations]
      /\ admission' \in [Apis -> {"open", "unavailable", "closed"}]
      /\ Admitted'
  <2>1. CASE request' = [request EXCEPT ![p] = [at |-> "held", root |-> file.root]] /\ UNCHANGED admission
    <3>1. [at |-> "held", root |-> file.root] \in Generations
      BY StateTyped DEF Files, Generations
    <3>2. admission[p] = "open" /\ thread[Work(p)].at \in Resting
      BY Staged DEF Enter
    <3>3. [at |-> "held", root |-> file.root].at \notin Recovering
      BY DEF Recovering
    <3>4. QED
      BY <1>1, <2>1, <3>1, <3>2, <3>3, Staged, StaysAdmitted
  <2>2. CASE Quarantine(p) /\ UNCHANGED request
    <3>1. PICK state \in {"unavailable", "closed"} :
            /\ admission' = [admission EXCEPT ![p] = state]
            /\ admission[p] = "closed" => state = "closed"
      BY <2>2, Quarantines
    <3>2. QED
      BY <1>1, <2>2, <3>1, Staged, StaysAdmitted
  <2>3. QED
    BY <2>1, <2>2 DEF Enter
<1>3. QED
  BY <1>1, <1>2, CallKeeps, StateTyped, RequestTyped

LEMMA BeginKeeps ==
  ASSUME SupervisorAssumption, OwnerInv, NEW p \in Apis, Begin(p)
  PROVE  OwnerInv'
<1>1. UNCHANGED <<lock, engine, parent, busy, thread, admission, crashes>> /\ lock = None
  BY DEF Begin, engines, LockFree
<1>2. file' \in Files /\ file'.root = file.root
  BY StateTyped DEF Begin, Files
<1>3. owner' \in [Processes -> Owners]
  <2>1. owner[p] \in Owners /\ file.root \in Engines \union {None}
    BY StateTyped, ThreadOf DEF Files
  <2>2. [owner[p] EXCEPT !.claim = file.root, !.failed = TRUE] \in Owners
    BY <2>1 DEF Owners
  <2>3. QED
    BY <2>2, StateTyped, ThreadOf DEF Begin, Owns
<1>4. /\ request' \in [Apis -> Generations]
      /\ admission' \in [Apis -> {"open", "unavailable", "closed"}]
      /\ Admitted'
  <2>1. [at |-> "claimed", root |-> file.root] \in Generations
    BY StateTyped DEF Files, Generations
  <2>2. request[p].at = "held" /\ request' = [request EXCEPT ![p] = [at |-> "claimed", root |-> file.root]]
    BY DEF Begin
  <2>3. [at |-> "claimed", root |-> file.root].at \notin Recovering
    BY DEF Recovering
  <2>4. QED
    BY <1>1, <2>1, <2>2, <2>3, Staged, StaysAdmitted
<1>5. QED
  BY <1>1, <1>2, <1>3, <1>4, CallKeeps, StateTyped, RequestTyped

\* A generation that ends.
LEMMA EndsAdmitted ==
  ASSUME OwnerInv, NEW p \in Apis, Ends(p), Quarantine(p) \/ UNCHANGED admission, UNCHANGED thread
  PROVE  /\ request' \in [Apis -> Generations]
         /\ admission' \in [Apis -> {"open", "unavailable", "closed"}]
         /\ Admitted'
<1>1. NoRequest.at \notin Recovering \union {"held", "claimed", "sent", "verified"}
  BY Constants DEF Recovering
<1>2. request' = [request EXCEPT ![p] = NoRequest]
  BY DEF Ends
<1>3. CASE UNCHANGED admission
  BY <1>1, <1>2, <1>3, Staged, StaysAdmitted, Constants
<1>4. CASE Quarantine(p)
  <2>1. PICK state \in {"unavailable", "closed"} :
          /\ admission' = [admission EXCEPT ![p] = state]
          /\ admission[p] = "closed" => state = "closed"
    BY <1>4, Quarantines
  <2>2. QED
    BY <1>1, <1>2, <2>1, StaysAdmitted, Constants
<1>5. QED
  BY <1>3, <1>4

LEMMA BeginFailsKeeps ==
  ASSUME SupervisorAssumption, OwnerInv, NEW p \in Apis, BeginFails(p)
  PROVE  OwnerInv'
<1>1. UNCHANGED <<file, lock, engine, parent, busy, thread, crashes>>
  BY DEF BeginFails, engines
<1>2. owner' \in [Processes -> Owners]
  <2>1. owner[p] \in Owners
    BY StateTyped, ThreadOf
  <2>2. [owner[p] EXCEPT !.failed = TRUE] \in Owners
    BY <2>1 DEF Owners
  <2>3. QED
    BY <2>2, StateTyped, ThreadOf DEF BeginFails, Owns
<1>3. QED
  BY <1>1, <1>2, EndsAdmitted, CallKeeps, StateTyped, RequestTyped DEF BeginFails

LEMMA SendKeeps ==
  ASSUME SupervisorAssumption, OwnerInv, NEW p \in Apis, Send(p)
  PROVE  OwnerInv'
<1>1. UNCHANGED <<file, lock, engine, parent, owner, thread, admission, crashes>>
  BY DEF Send
<1>2. busy' \in [Engines -> SUBSET Apis]
  BY RequestTyped DEF Send
<1>3. /\ request' \in [Apis -> Generations]
      /\ admission' \in [Apis -> {"open", "unavailable", "closed"}]
      /\ Admitted'
  <2>1. [request[p] EXCEPT !.at = "sent"] \in Generations /\ [request[p] EXCEPT !.at = "sent"].at = "sent"
    BY Staged, StageTyped
  <2>2. request[p].at = "claimed" /\ request' = [request EXCEPT ![p] = [request[p] EXCEPT !.at = "sent"]]
    BY DEF Send, Stage
  <2>3. "sent" \notin Recovering
    BY DEF Recovering
  <2>4. QED
    BY <1>1, <2>1, <2>2, <2>3, Staged, StaysAdmitted
<1>4. QED
  BY <1>1, <1>2, <1>3, CallKeeps, StateTyped

LEMMA UnsentKeeps ==
  ASSUME SupervisorAssumption, OwnerInv, NEW p \in Apis, Unsent(p) \/ GiveUp(p)
  PROVE  OwnerInv'
<1>1. UNCHANGED <<file, lock, engine, parent, busy, owner, thread, crashes>>
  BY DEF Unsent, GiveUp, engines
<1>2. Ends(p) /\ (Quarantine(p) \/ UNCHANGED admission)
  BY DEF Unsent, GiveUp
<1>3. QED
  BY <1>1, <1>2, EndsAdmitted, CallKeeps, StateTyped, RequestTyped

LEMMA CompleteKeeps ==
  ASSUME SupervisorAssumption, OwnerInv, NEW p \in Apis, Complete(p)
  PROVE  OwnerInv'
<1>1. UNCHANGED <<lock, engine, parent, busy, thread, admission, crashes>> /\ lock = None
  BY DEF Complete, engines, LockFree
<1>2. file' \in Files /\ file'.root = file.root
  BY StateTyped DEF Complete, Files
<1>3. owner' \in [Processes -> Owners]
  <2>1. owner[p] \in Owners
    BY StateTyped, ThreadOf
  <2>2. [owner[p] EXCEPT !.claim = None, !.failed = FALSE] \in Owners
    BY <2>1 DEF Owners
  <2>3. QED
    BY <2>2, StateTyped, ThreadOf DEF Complete, Owns
<1>4. QED
  BY <1>1, <1>2, <1>3, EndsAdmitted, CallKeeps, StateTyped, RequestTyped DEF Complete

LEMMA CheckKeeps ==
  ASSUME SupervisorAssumption, OwnerInv, NEW p \in Apis, Check(p)
  PROVE  OwnerInv'
<1>1. UNCHANGED <<file, lock, engine, parent, busy, owner, thread, admission, crashes>>
  BY DEF Check, engines
<1>2. /\ request' \in [Apis -> Generations]
      /\ admission' \in [Apis -> {"open", "unavailable", "closed"}]
      /\ Admitted'
  <2>1. "verified" \in Recovering /\ "restarting" \in Recovering
    BY DEF Recovering
  <2>2. /\ [request[p] EXCEPT !.at = "verified"] \in Generations
        /\ [request[p] EXCEPT !.at = "verified"].at = "verified"
    BY <2>1, Staged, StageTyped
  <2>3. request[p].at = "restarting" /\ request' = [request EXCEPT ![p] = [request[p] EXCEPT !.at = "verified"]]
    BY DEF Check, Stage
  <2>4. thread[Work(p)].at \in Resting
    BY DEF Check, Resting
  <2>5. QED
    BY <1>1, <2>1, <2>2, <2>3, <2>4, Staged, StaysAdmitted
<1>3. QED
  BY <1>1, <1>2, CallKeeps, StateTyped, RequestTyped

LEMMA ReopenKeeps ==
  ASSUME SupervisorAssumption, OwnerInv, NEW p \in Apis, Reopen(p)
  PROVE  OwnerInv'
<1>1. UNCHANGED <<file, lock, engine, parent, busy, owner, thread, crashes>>
  BY DEF Reopen, engines
<1>2. /\ request' \in [Apis -> Generations]
      /\ admission' \in [Apis -> {"open", "unavailable", "closed"}]
      /\ Admitted'
  <2>1. NoRequest.at \notin Recovering \union {"held", "claimed", "sent", "verified"}
    BY Constants DEF Recovering
  <2>2. thread[Work(p)].at \in Resting /\ request' = [request EXCEPT ![p] = NoRequest]
    BY Staged DEF Reopen, Ends
  <2>3. PICK state \in {"open", "closed"} :
          admission' = [admission EXCEPT ![p] = state] /\ (admission[p] = "closed" => state = "closed")
    BY DEF Reopen, Admission
  <2>4. QED
    BY <1>1, <2>1, <2>2, <2>3, StaysAdmitted, Constants
<1>3. QED
  BY <1>1, <1>2, CallKeeps, StateTyped, RequestTyped

\* A thread that begins a procedure, outside of the lock.
LEMMA BeginsKeeps ==
  ASSUME SupervisorAssumption, OwnerInv, NEW t \in Threads, thread[t].at \in Resting,
         NEW next \in Procedures, next.at \in {"stop", "start", "close"}, Goes(t, next),
         UNCHANGED <<file, lock, engine, parent, busy, crashes>>,
         owner' \in [Processes -> Owners],
         request' \in [Apis -> Generations], admission' \in [Apis -> {"open", "unavailable", "closed"}],
         t[2] = "close" => next.at = "close",
         Admitted'
  PROVE  OwnerInv'
<1>1. thread'[t] = next /\ \A u \in Threads : u # t => thread'[u] = thread[u]
  BY Gone DEF OwnerInv
<1>2. next.at \notin Locked /\ thread[t].at \notin Locked
  BY DEF Locked, Resting
<1>3. lock # t
  BY <1>2, NoneIsNobody DEF OwnerInv, TypeOK, Locked
<1>4. Locking'
  BY <1>1, <1>2 DEF OwnerInv, Locking, Locked
<1>5. ASSUME NEW p \in Processes
      PROVE  thread'[<<p, "close">>].at \in Resting \union {"close", "terminating"}
  <2>1. CASE t = <<p, "close">>
    BY <1>1, <2>1
  <2>2. CASE t # <<p, "close">>
    BY <1>1, <2>2, ThreadOf DEF OwnerInv, Closing
  <2>3. QED
    BY <2>1, <2>2
<1>6. Closing'
  BY <1>5 DEF Closing
<1>7. thread' \in [Threads -> Procedures]
  BY RequestTyped DEF Goes
<1>8. lock \in {None} \union {u \in Threads : thread'[u].at \in Locked}
  BY <1>1, <1>3 DEF OwnerInv, TypeOK, Locked
<1>9. TypeOK'
  BY <1>7, <1>8 DEF OwnerInv, TypeOK, Procedures, Owners, Generations, Locked
<1>10. RunningIsOwned'
  BY DEF OwnerInv, RunningIsOwned
<1>11. QED
  BY <1>4, <1>6, <1>9, <1>10, Constants DEF OwnerInv

\* A recovery begins its next procedure, with admission not open.
LEMMA RecoveryAdmitted ==
  ASSUME OwnerInv, NEW p \in Apis, NEW stage \in {"stopping", "restarting"}, NEW next, Goes(Work(p), next),
         Stage(p, stage), NEW state \in {"unavailable", "closed"},
         admission' = [admission EXCEPT ![p] = state], admission[p] = "closed" => state = "closed"
  PROVE  /\ request' \in [Apis -> Generations]
         /\ admission' \in [Apis -> {"open", "unavailable", "closed"}]
         /\ Admitted'
<1>1. \A u \in Threads : u # Work(p) => thread'[u] = thread[u]
  BY Gone, ThreadOf DEF OwnerInv
<1>2. stage \in Recovering \ {"verified"} /\ stage \notin {"held", "claimed", "sent", "verified"}
  BY DEF Recovering
<1>3. [request[p] EXCEPT !.at = stage] \in Generations /\ [request[p] EXCEPT !.at = stage].at = stage
  BY <1>2, Staged, StageTyped
<1>4. /\ request' \in [Apis -> Generations] /\ request'[p].at = stage
      /\ \A q \in Apis : q # p => request'[q] = request[q]
  BY <1>3, RequestTyped DEF Stage
<1>5. /\ admission' \in [Apis -> {"open", "unavailable", "closed"}] /\ admission'[p] = state
      /\ \A q \in Apis : q # p => admission'[q] = admission[q]
  BY RequestTyped
<1>6. ASSUME NEW q \in Apis
      PROVE  /\ admission'[q] = "open" \/ request'[q].at \in {"held", "claimed", "sent", "verified"}
                   => thread'[Work(q)].at \in Resting
             /\ request'[q].at \in Recovering => admission'[q] # "open"
             /\ admission'[q] # "closed" => thread'[<<q, "close">>].at = "idle"
  <2>1. thread'[<<q, "close">>] = thread[<<q, "close">>]
    BY <1>1, ThreadOf
  <2>2. CASE q = p
    BY <1>2, <1>4, <1>5, <2>1, <2>2 DEF OwnerInv, Admitted
  <2>3. CASE q # p
    <3>1. thread'[Work(q)] = thread[Work(q)]
      BY <1>1, <2>3, ThreadOf
    <3>2. QED
      BY <1>4, <1>5, <2>1, <2>3, <3>1 DEF OwnerInv, Admitted
  <2>4. QED
    BY <2>2, <2>3
<1>7. Admitted'
  BY <1>6 DEF Admitted, Work
<1>8. QED
  BY <1>4, <1>5, <1>7

LEMMA FailKeeps ==
  ASSUME SupervisorAssumption, OwnerInv, NEW p \in Apis, Fail(p)
  PROVE  OwnerInv'
<1> DEFINE next == [Idle EXCEPT !.at = "stop"]
<1>1. next \in Procedures /\ next.at = "stop"
  BY Constants, AtTyped
<1>2. Goes(Work(p), next) /\ Stage(p, "stopping")
  BY DEF Fail, Goes
<1>3. Work(p) \in Threads /\ Work(p)[2] # "close"
  BY ThreadOf DEF Work
<1>4. thread[Work(p)].at \in Resting
  BY Staged DEF Fail
<1>5. PICK state \in {"unavailable", "closed"} :
        /\ admission' = [admission EXCEPT ![p] = state]
        /\ admission[p] = "closed" => state = "closed"
  BY Quarantines DEF Fail
<1>6. UNCHANGED <<file, lock, engine, parent, busy, owner, crashes>>
  BY DEF Fail, engines
<1> HIDE DEF next
<1>7. QED
  BY <1>1, <1>2, <1>3, <1>4, <1>5, <1>6, RecoveryAdmitted, BeginsKeeps, StateTyped

LEMMA RestartKeeps ==
  ASSUME SupervisorAssumption, OwnerInv, NEW p \in Apis, Restart(p)
  PROVE  OwnerInv'
<1> DEFINE next == [Idle EXCEPT !.at = "start", !.then = "recheck"]
<1>1. next \in Procedures /\ next.at = "start"
  BY Constants DEF Procedures
<1>2. Goes(Work(p), next) /\ Stage(p, "restarting")
  BY DEF Restart, Goes
<1>3. Work(p) \in Threads /\ Work(p)[2] # "close"
  BY ThreadOf DEF Work
<1>4. thread[Work(p)].at \in Resting
  BY DEF Restart, Resting
<1>5. admission[p] \in {"unavailable", "closed"}
  <2>1. request[p].at \in Recovering
    BY DEF Restart, Recovering
  <2>2. QED
    BY <2>1, Staged
<1>6. admission' = [admission EXCEPT ![p] = admission[p]]
  BY Staged DEF Restart
<1>7. UNCHANGED <<file, lock, engine, parent, busy, owner, crashes>>
  BY DEF Restart, engines
<1> HIDE DEF next
<1>8. QED
  BY <1>1, <1>2, <1>3, <1>4, <1>5, <1>6, <1>7, RecoveryAdmitted, BeginsKeeps, StateTyped

------------------------------------------------------------------------------
(* Processes and engines.                                                  *)

LEMMA CloseKeeps ==
  ASSUME SupervisorAssumption, OwnerInv, NEW p \in Apis, Close(p)
  PROVE  OwnerInv'
<1> DEFINE next == [Idle EXCEPT !.at = "close"]
           t == <<p, "close">>
<1>1. next \in Procedures /\ next.at = "close"
  BY Constants, AtTyped
<1>2. Goes(t, next) /\ t \in Threads /\ t[2] = "close"
  BY ThreadOf DEF Close, Goes
<1>3. thread[t].at \in Resting
  BY DEF Close, OwnerInv, Admitted, Resting
<1>4. UNCHANGED <<file, lock, engine, parent, busy, owner, request, crashes>>
  BY DEF Close, engines
<1>5. /\ admission' \in [Apis -> {"open", "unavailable", "closed"}] /\ admission'[p] = "closed"
      /\ \A q \in Apis : q # p => admission'[q] = admission[q]
  BY RequestTyped DEF Close, Admission
<1>6. ASSUME NEW q \in Apis
      PROVE  /\ admission'[q] = "open" \/ request'[q].at \in {"held", "claimed", "sent", "verified"}
                   => thread'[Work(q)].at \in Resting
             /\ request'[q].at \in Recovering => admission'[q] # "open"
             /\ admission'[q] # "closed" => thread'[<<q, "close">>].at = "idle"
  <2>1. thread'[Work(q)] = thread[Work(q)]
    <3>1. Work(q) \in Threads /\ Work(q) # t
      BY ThreadOf
    <3>2. QED
      BY <1>2, <3>1, Gone DEF OwnerInv
  <2>2. CASE q = p
    BY <1>4, <1>5, <2>1, <2>2 DEF OwnerInv, Admitted
  <2>3. CASE q # p
    <3>1. thread'[<<q, "close">>] = thread[<<q, "close">>]
      BY <1>2, <2>3, Gone, ThreadOf DEF OwnerInv
    <3>2. QED
      BY <1>4, <1>5, <2>1, <2>3, <3>1 DEF OwnerInv, Admitted
  <2>4. QED
    BY <2>2, <2>3
<1>7. Admitted'
  BY <1>6 DEF Admitted, Work
<1> HIDE DEF next, t
<1>8. QED
  BY <1>1, <1>2, <1>3, <1>4, <1>5, <1>7, BeginsKeeps, StateTyped, RequestTyped

LEMMA CommandsKeep ==
  ASSUME SupervisorAssumption, OwnerInv, NEW o \in Operators, NEW stage \in {"start", "stop"},
         NEW then \in {"done", "recheck", "close"}, Commands(o, stage, then)
  PROVE  OwnerInv'
<1> DEFINE next == [Idle EXCEPT !.at = stage, !.then = then]
<1>1. next \in Procedures /\ next.at = stage
  BY Constants DEF Procedures
<1>2. Goes(Work(o), next)
  BY DEF Commands, Goes
<1>3. Work(o) \in Threads /\ Work(o)[2] # "close"
  BY ThreadOf DEF Work
<1>4. thread[Work(o)].at \in Resting
  BY DEF Commands, Resting
<1>5. UNCHANGED <<file, lock, engine, parent, busy, request, admission, crashes>>
  BY DEF Commands, engines
<1>6. owner' \in [Processes -> Owners]
  BY StateTyped, Constants, ThreadOf DEF Commands, Owns
<1>7. \A p \in Apis : /\ thread'[Work(p)] = thread[Work(p)]
                       /\ thread'[<<p, "close">>] = thread[<<p, "close">>]
  <2>1. \A p \in Apis : p # o
    BY DEF SupervisorAssumption
  <2>2. \A u \in Threads : u # Work(o) => thread'[u] = thread[u]
    BY <1>2, <1>3, Gone DEF OwnerInv
  <2>3. \A p \in Apis : /\ Work(p) \in Threads /\ Work(p) # Work(o)
                        /\ <<p, "close">> \in Threads /\ <<p, "close">> # Work(o)
    BY <2>1, ThreadOf
  <2>4. QED
    BY <2>2, <2>3
<1>8. Admitted'
  BY <1>5, <1>7 DEF OwnerInv, Admitted, Work
<1> HIDE DEF next
<1>9. QED
  BY <1>1, <1>2, <1>3, <1>4, <1>5, <1>6, <1>8, BeginsKeeps, RequestTyped

\* A crash releases the lock and forgets every thread of the process.
LEMMA CrashKeeps ==
  ASSUME SupervisorAssumption, OwnerInv, NEW p \in Apis, Crash(p)
  PROVE  OwnerInv'
<1>1. UNCHANGED <<file, engine, parent, busy>>
  BY DEF Crash, engines
<1>2. thread' = [t \in Threads |-> IF t[1] = p THEN Idle ELSE thread[t]]
  BY DEF Crash
<1>3. \A t \in Threads : thread'[t].at \in Locked => thread'[t] = thread[t] /\ t[1] # p
  BY <1>2, Constants DEF Locked
<1>4. lock' = IF lock # None /\ lock[1] = p THEN None ELSE lock
  BY DEF Crash
<1>5. /\ request' \in [Apis -> Generations] /\ request'[p] = NoRequest
      /\ \A q \in Apis : q # p => request'[q] = request[q]
  BY RequestTyped, Constants DEF Crash, Ends
<1>6. /\ admission' \in [Apis -> {"open", "unavailable", "closed"}] /\ admission'[p] = "open"
      /\ \A q \in Apis : q # p => admission'[q] = admission[q]
  BY RequestTyped DEF Crash, Admission
<1>7. Locking'
  <2>1. \A t \in Threads : thread'[t].at \in Locked => lock' = t
    BY <1>3, <1>4, NoneIsNobody DEF OwnerInv, Locking
  <2>2. lock' # None => \A e \in Engines : engine'[e] # "running"
    BY <1>1, <1>4 DEF OwnerInv, Locking
  <2>3. \A t \in Threads : /\ thread'[t].at \in {"spawn", "spawned"} => file' = NoFile
                           /\ thread'[t].at = "written" => file' = [root |-> thread'[t].child, quarantined |-> FALSE]
    BY <1>1, <1>3 DEF OwnerInv, Locking, Locked
  <2>4. QED
    BY <2>1, <2>2, <2>3 DEF Locking
<1>8. ASSUME NEW q \in Apis
      PROVE  /\ admission'[q] = "open" \/ request'[q].at \in {"held", "claimed", "sent", "verified"}
                   => thread'[Work(q)].at \in Resting
             /\ request'[q].at \in Recovering => admission'[q] # "open"
             /\ admission'[q] # "closed" => thread'[<<q, "close">>].at = "idle"
  <2>1. CASE q = p
    <3>1. thread'[Work(q)] = Idle /\ thread'[<<q, "close">>] = Idle
      BY <1>2, <2>1, ThreadOf
    <3>2. NoRequest.at \notin Recovering
      BY Constants DEF Recovering
    <3>3. QED
      BY <1>5, <2>1, <3>1, <3>2, Constants DEF Resting
  <2>2. CASE q # p
    <3>1. thread'[Work(q)] = thread[Work(q)] /\ thread'[<<q, "close">>] = thread[<<q, "close">>]
      BY <1>2, <2>2, ThreadOf
    <3>2. QED
      BY <1>5, <1>6, <2>2, <3>1 DEF OwnerInv, Admitted
  <2>3. QED
    BY <2>1, <2>2
<1>9. Admitted'
  BY <1>8 DEF Admitted, Work
<1>10. Closing'
  <2>1. ASSUME NEW q \in Processes
        PROVE  thread'[<<q, "close">>] \in {Idle, thread[<<q, "close">>]}
    BY <1>2, ThreadOf
  <2>2. QED
    BY <2>1, Constants DEF OwnerInv, Closing, Resting
<1>11. thread' \in [Threads -> Procedures]
  BY <1>2, RequestTyped, Constants
<1>12. owner' \in [Processes -> Owners]
  BY StateTyped, Constants, ThreadOf DEF Crash, Owns
<1>13. crashes' \in 0..MaxCrashes
  BY DEF Crash, OwnerInv, TypeOK, SupervisorAssumption
<1>14. lock' \in {None} \union {t \in Threads : thread'[t].at \in Locked}
  <2>1. lock \in {None} \union {t \in Threads : thread[t].at \in Locked}
    BY DEF OwnerInv, TypeOK, Locked
  <2>2. QED
    BY <1>2, <1>4, <2>1
<1>15. TypeOK'
  BY <1>1, <1>5, <1>6, <1>11, <1>12, <1>13, <1>14
  DEF OwnerInv, TypeOK, Procedures, Owners, Generations, Locked
<1>16. RunningIsOwned'
  BY <1>1 DEF OwnerInv, RunningIsOwned
<1>17. QED
  BY <1>7, <1>9, <1>10, <1>15, <1>16 DEF OwnerInv

LEMMA EngineKeeps ==
  ASSUME SupervisorAssumption, OwnerInv, NEW e \in Engines, Answer(e) \/ Die(e)
  PROVE  OwnerInv'
<1>1. UNCHANGED <<file, lock, parent, owner, thread, request, admission, crashes>>
  BY DEF Answer, Die
<1>2. /\ engine' \in [Engines -> {"unborn", "suspended", "running", "dying", "dead"}]
      /\ \A d \in Engines : engine'[d] = "running" => engine[d] = "running"
  BY StateTyped DEF Answer, Die
<1>3. busy' \in [Engines -> SUBSET Apis]
  BY RequestTyped DEF Answer, Die
<1>4. Admitted'
  BY <1>1 DEF OwnerInv, Admitted, Work
<1>5. QED
  BY <1>1, <1>2, <1>3, <1>4, CallKeeps, StateTyped, RequestTyped

LEMMA OwnerInit == SupervisorAssumption /\ Init => OwnerInv
<1> SUFFICES ASSUME SupervisorAssumption, Init PROVE OwnerInv
  OBVIOUS
<1>1. file \in Files /\ RunningIsOwned
  <2>1. CASE file = NoFile /\ engine = [e \in Engines |-> "unborn"]
    BY <2>1, Constants DEF RunningIsOwned
  <2>2. ASSUME NEW first \in Engines, file = [root |-> first, quarantined |-> FALSE],
               engine = [e \in Engines |-> IF e = first THEN "running" ELSE "unborn"]
        PROVE  file \in Files /\ RunningIsOwned
    BY <2>2 DEF Files, RunningIsOwned
  <2>3. QED
    BY <2>1, <2>2 DEF Init
<1>2. engine \in [Engines -> {"unborn", "suspended", "running", "dying", "dead"}]
  BY DEF Init
<1>3. /\ parent \in [Engines -> Processes \union {None}] /\ busy \in [Engines -> SUBSET Apis]
      /\ owner \in [Processes -> Owners] /\ thread \in [Threads -> Procedures]
      /\ request \in [Apis -> Generations] /\ admission \in [Apis -> {"open", "unavailable", "closed"}]
  BY Constants DEF Init
<1>4. crashes \in 0..MaxCrashes /\ lock = None
  BY DEF Init, SupervisorAssumption
<1>5. TypeOK
  BY <1>1, <1>2, <1>3, <1>4 DEF TypeOK, Files, Owners, Procedures, Generations
<1>6. \A t \in Threads : thread[t].at = "idle"
  BY Constants DEF Init
<1>7. Locking
  BY <1>4, <1>6 DEF Locking, Locked
<1>8. Admitted
  <2>1. \A p \in Apis : request[p].at \notin Recovering
    BY Constants DEF Init, Recovering
  <2>2. QED
    BY <1>6, <2>1, ThreadOf DEF Admitted, Resting
<1>9. Closing
  BY <1>6, ThreadOf DEF Closing, Resting
<1>10. QED
  BY <1>1, <1>5, <1>7, <1>8, <1>9 DEF OwnerInv

LEMMA OwnerStep == SupervisorAssumption /\ OwnerInv /\ [Next]_vars => OwnerInv'
<1> SUFFICES ASSUME SupervisorAssumption, OwnerInv, [Next]_vars PROVE OwnerInv'
  OBVIOUS
<1>1. CASE \E t \in Threads : ThreadStep(t)
  BY <1>1, ThreadKeeps
<1>2. ASSUME NEW p \in Apis, RequestStep(p)
      PROVE  OwnerInv'
  BY <1>2, EnterKeeps, BeginKeeps, BeginFailsKeeps, SendKeeps, UnsentKeeps, CompleteKeeps,
     FailKeeps, RestartKeeps, CheckKeeps, ReopenKeeps DEF RequestStep
<1>3. CASE \E p \in Apis : Close(p) \/ Crash(p)
  BY <1>3, CloseKeeps, CrashKeeps
<1>4. CASE \E o \in Operators : Operate(o) \/ Provision(o)
  BY <1>4, CommandsKeep DEF Operate, Provision
<1>5. CASE \E e \in Engines : Answer(e) \/ Die(e)
  BY <1>5, EngineKeeps
<1>6. CASE UNCHANGED vars
  BY <1>6 DEF vars, OwnerInv, TypeOK, RunningIsOwned, Locking, Admitted, Closing, Work
<1>7. QED
  BY <1>1, <1>2, <1>3, <1>4, <1>5, <1>6 DEF Next

------------------------------------------------------------------------------
(* Until an operator interferes: who may still be working on what.         *)

\* A generation that may have sent something, or the recovery after it.
Charged(p) ==
  \/ request[p].at \in {"claimed", "sent", "stopping"}
  \/ thread[Work(p)].at \in {"stop", "start", "spawn", "spawned", "written"}

OneCharge == \A p, q \in Apis : Charged(p) /\ Charged(q) => p = q
ChargeMarked ==
  \A p \in Apis :
    Charged(p) => file.quarantined \/ file.root = None \/ thread[Work(p)].at = "written"
BusyCharged == \A p \in Apis, e \in Engines : Charged(p) /\ engine[e] = "running" => busy[e] \subseteq {p}
NewIsIdle == \A e \in Engines : engine[e] \in {"unborn", "suspended"} => busy[e] = {}
Ending == {"stop", "terminating", "done", "failed"}
StoppingFirst == \A p \in Apis : request[p].at = "stopping" => thread[Work(p)].at \in Ending

ChargeInv == OneCharge /\ ChargeMarked /\ BusyCharged /\ NewIsIdle /\ StoppingFirst /\ BusyIsQuarantined

\* Most steps end charges, or move them on, and let nothing new run.
LEMMA LessCharged ==
  ASSUME ChargeInv, StoppingFirst',
         \A p \in Apis :
           Charged(p)' => /\ Charged(p)
                          /\ file'.quarantined \/ file'.root = None \/ thread'[Work(p)].at = "written",
         \A e \in Engines :
           /\ busy'[e] \subseteq busy[e]
           /\ engine'[e] = "running" => engine[e] = "running" /\ file' = file
           /\ engine'[e] \in {"unborn", "suspended"} => engine[e] \in {"unborn", "suspended"}
  PROVE  ChargeInv'
<1>1. OneCharge'
  BY DEF ChargeInv, OneCharge
<1>2. ChargeMarked'
  BY DEF ChargeMarked, Work
<1>3. BusyCharged'
  BY DEF ChargeInv, BusyCharged
<1>4. NewIsIdle'
  BY DEF ChargeInv, NewIsIdle
<1>5. BusyIsQuarantined'
  BY DEF ChargeInv, BusyIsQuarantined
<1>6. QED
  BY <1>1, <1>2, <1>3, <1>4, <1>5 DEF ChargeInv

\* The stages of a thread on whose behalf something may still happen to an engine.
Charging == {"stop", "start", "spawn", "spawned", "written"}

\* Whoever starts an engine has no generation of its own under way.
LEMMA StartsAlone ==
  ASSUME OwnerInv, ChargeInv, NEW p \in Apis, thread[Work(p)].at \in {"start", "spawn", "spawned", "written"}
  PROVE  request[p].at \notin {"claimed", "sent", "stopping"}
BY DEF OwnerInv, Admitted, ChargeInv, StoppingFirst, Resting, Ending

\* Until then only API processes have anything to do.
LEMMA NoOperator ==
  ASSUME Untouched, NEW t \in Threads, t[2] # "close", thread[t].at # "idle"
  PROVE  t[1] \in Apis /\ t = Work(t[1])
BY ThreadOf DEF Untouched, Processes

\* A thread that goes on towards an end, or on the way to a new engine.
LEMMA ThreadDischarges ==
  ASSUME OwnerInv, ChargeInv, Untouched, NEW t \in Threads, NEW next, Goes(t, next), UNCHANGED request,
         thread[t].at \notin Resting,
         thread[t].at \in {"stop", "terminating"} => next.at \in Ending,
         next.at \in Charging => thread[t].at \in Charging,
         \/ file' = file /\ (thread[t].at = "written" => next.at \notin Charging)
         \/ file'.root = None
         \/ next.at = "written",
         \A e \in Engines :
           /\ busy'[e] \subseteq busy[e]
           /\ engine'[e] = "running" => engine[e] = "running" /\ file' = file
           /\ engine'[e] \in {"unborn", "suspended"} => engine[e] \in {"unborn", "suspended"}
  PROVE  ChargeInv'
<1>1. thread'[t] = next /\ \A u \in Threads : u # t => thread'[u] = thread[u]
  BY Gone DEF OwnerInv
<1>2. StoppingFirst'
  <2>1. ASSUME NEW p \in Apis, request[p].at = "stopping"
        PROVE  thread'[Work(p)].at \in Ending
    <3>1. Work(p) \in Threads /\ thread[Work(p)].at \in Ending
      BY <2>1, ThreadOf DEF ChargeInv, StoppingFirst
    <3>2. QED
      BY <1>1, <3>1 DEF Ending, Resting
  <2>2. QED
    BY <2>1 DEF StoppingFirst, Work
<1>3. ASSUME NEW p \in Apis, Charged(p)'
      PROVE  /\ Charged(p)
             /\ file'.quarantined \/ file'.root = None \/ thread'[Work(p)].at = "written"
  <2>1. Work(p) \in Threads
    BY ThreadOf
  <2>2. request[p].at \in {"claimed", "sent", "stopping"} \/ thread'[Work(p)].at \in Charging
    BY <1>3 DEF Charged, Charging, Work
  <2>3. Charged(p)
    BY <1>1, <2>1, <2>2 DEF Charged, Charging
  <2>4. file.quarantined \/ file.root = None \/ thread[Work(p)].at = "written"
    BY <2>3 DEF ChargeInv, ChargeMarked
  <2>5. CASE file' = file /\ (thread[t].at = "written" => next.at \notin Charging)
    <3>1. CASE t = Work(p) /\ thread[t].at = "written"
      <4>1. request[p].at \in {"claimed", "sent", "stopping"}
        BY <1>1, <2>2, <2>5, <3>1
      <4>2. request[p].at \notin {"claimed", "sent", "stopping"}
        BY <3>1, StartsAlone
      <4>3. QED
        BY <4>1, <4>2
    <3>2. CASE t = Work(p) /\ thread[t].at # "written"
      BY <2>3, <2>4, <2>5, <3>2
    <3>3. CASE t # Work(p)
      BY <1>1, <2>1, <2>3, <2>4, <2>5, <3>3
    <3>4. QED
      BY <3>1, <3>2, <3>3
  <2>6. CASE next.at = "written"
    <3>1. thread[t].at \in Charging
      BY <2>6 DEF Charging
    <3>2. t[2] # "close"
      BY <3>1, NotClosing DEF Charging, Resting
    <3>3. t[1] \in Apis /\ t = Work(t[1])
      BY <3>1, <3>2, NoOperator DEF Charging
    <3>4. Charged(t[1])
      BY <3>1, <3>3 DEF Charged, Charging
    <3>5. p = t[1]
      BY <2>3, <3>3, <3>4 DEF ChargeInv, OneCharge
    <3>6. QED
      BY <1>1, <2>3, <2>6, <3>3, <3>5
  <2>7. QED
    BY <2>3, <2>5, <2>6
<1>4. QED
  BY <1>2, <1>3, LessCharged DEF Work

\* A thread step that moves no engine and leaves the file.
LEMMA QuietDischarges ==
  ASSUME OwnerInv, ChargeInv, Untouched, NEW t \in Threads, NEW stage, At(t, stage),
         UNCHANGED <<file, engine, busy, request>>,
         \/ thread[t].at \in {"stop", "terminating"} /\ stage \in {"done", "failed"}
         \/ thread[t].at = "start" /\ stage \in {"failed", "started", "spawn"}
         \/ thread[t].at \in {"started", "close"} /\ stage \in {"close", "done", "failed"}
  PROVE  ChargeInv'
<1> DEFINE next == [thread[t] EXCEPT !.at = stage]
<1>1. thread[t] \in Procedures
  BY Procedure
<1>2. next.at = stage
  BY <1>1 DEF Procedures
<1>3. Goes(t, next)
  BY DEF At
<1>4. /\ thread[t].at \notin Resting
      /\ thread[t].at \in {"stop", "terminating"} => next.at \in Ending
      /\ next.at \in Charging => thread[t].at \in Charging
      /\ thread[t].at # "written"
  <2>1. CASE thread[t].at \in {"stop", "terminating"} /\ stage \in {"done", "failed"}
    BY <1>2, <2>1 DEF Resting, Ending, Charging
  <2>2. CASE thread[t].at = "start" /\ stage \in {"failed", "started", "spawn"}
    BY <1>2, <2>2 DEF Resting, Ending, Charging
  <2>3. CASE thread[t].at \in {"started", "close"} /\ stage \in {"close", "done", "failed"}
    BY <1>2, <2>3 DEF Resting, Ending, Charging
  <2>4. QED
    BY <2>1, <2>2, <2>3
<1> HIDE DEF next
<1>5. QED
  BY <1>3, <1>4, ThreadDischarges

\* A termination ends the engine the file names.
LEMMA TerminateDischarges ==
  ASSUME SupervisorAssumption, OwnerInv, ChargeInv, Untouched, NEW t \in Threads,
         thread[t].at \in {"stop", "close"}, Terminate(t, file.root)
  PROVE  ChargeInv'
<1> DEFINE next == [thread[t] EXCEPT !.at = "terminating"]
<1>1. thread[t] \in Procedures
  BY Procedure
<1>2. next.at = "terminating" /\ Goes(t, next)
  BY <1>1, AtTyped DEF Terminate, At
<1>3. engine' = [engine EXCEPT ![file.root] = IF Exists(file.root) THEN "dying" ELSE engine[file.root]]
  BY DEF Terminate
<1>4. UNCHANGED <<file, busy, request>>
  BY DEF Terminate
<1>5. ASSUME NEW e \in Engines
      PROVE  /\ engine'[e] = "running" => engine[e] = "running" /\ file' = file
             /\ engine'[e] \in {"unborn", "suspended"} => engine[e] \in {"unborn", "suspended"}
             /\ busy'[e] \subseteq busy[e]
  <2>1. engine'[e] = engine[e] \/ engine'[e] = "dying"
    BY <1>3, StateTyped
  <2>2. QED
    BY <1>4, <2>1
<1>6. /\ thread[t].at \notin Resting
      /\ thread[t].at \in {"stop", "terminating"} => next.at \in Ending
      /\ next.at \in Charging => thread[t].at \in Charging
      /\ thread[t].at # "written"
  BY <1>2 DEF Resting, Ending, Charging
<1> HIDE DEF next
<1>7. QED
  BY <1>2, <1>4, <1>5, <1>6, ThreadDischarges

\* A thread under the lock, while no engine runs.
LEMMA LockedDischarges ==
  ASSUME OwnerInv, ChargeInv, Untouched, NEW t \in Threads, NEW next, Goes(t, next),
         UNCHANGED <<busy, request>>, \A e \in Engines : engine[e] # "running",
         \/ thread[t].at = "terminating" /\ next.at = "done" /\ file'.root = None
         \/ thread[t].at \in {"start", "spawn"} /\ next.at \in {"spawn", "spawned"} /\ file'.root = None
         \/ thread[t].at = "spawned" /\ next.at = "written"
         \/ thread[t].at \in {"spawn", "spawned", "written"} /\ next.at = "failed" /\ file' = file,
         \A e \in Engines : engine'[e] = engine[e] \/ engine'[e] = "dead"
                               \/ (engine[e] = "unborn" /\ engine'[e] = "suspended")
  PROVE  ChargeInv'
<1>1. /\ thread[t].at \notin Resting
      /\ thread[t].at \in {"stop", "terminating"} => next.at \in Ending
      /\ next.at \in Charging => thread[t].at \in Charging
      /\ \/ file' = file /\ (thread[t].at = "written" => next.at \notin Charging)
         \/ file'.root = None
         \/ next.at = "written"
  BY DEF Resting, Ending, Charging
<1>2. ASSUME NEW e \in Engines
      PROVE  /\ engine'[e] = "running" => engine[e] = "running" /\ file' = file
             /\ engine'[e] \in {"unborn", "suspended"} => engine[e] \in {"unborn", "suspended"}
             /\ busy'[e] \subseteq busy[e]
  <2>1. engine'[e] = engine[e] \/ engine'[e] = "dead" \/ (engine[e] = "unborn" /\ engine'[e] = "suspended")
    OBVIOUS
  <2>2. engine[e] # "running"
    OBVIOUS
  <2>3. QED
    BY <2>1, <2>2
<1>3. QED
  BY <1>1, <1>2, ThreadDischarges

\* The engine that begins to run has worked on nothing, and nobody waits for it.
LEMMA ResumeDischarges ==
  ASSUME SupervisorAssumption, OwnerInv, ChargeInv, Untouched, NEW t \in Threads, Resume(t)
  PROVE  ChargeInv'
<1> DEFINE next == [thread[t] EXCEPT !.at = "started", !.child = None]
           p == t[1]
<1>1. thread[t] \in Procedures /\ thread[t].at = "written"
  BY Procedure DEF Resume
<1>2. next.at = "started" /\ Goes(t, next)
  BY <1>1 DEF Procedures, Resume
<1>3. thread'[t] = next /\ \A u \in Threads : u # t => thread'[u] = thread[u]
  BY <1>2, Gone DEF OwnerInv
<1>4. UNCHANGED <<file, busy, request>>
  BY DEF Resume
<1>5. t = Work(p) /\ p \in Apis
  <2>1. t[2] # "close"
    BY <1>1, NotClosing DEF Resting
  <2>2. QED
    BY <1>1, <2>1, NoOperator
<1>6. request[p].at \notin {"claimed", "sent", "stopping"} /\ Charged(p)
  BY <1>1, <1>5, StartsAlone DEF Charged
<1>7. ASSUME NEW q \in Apis
      PROVE  ~Charged(q)'
  <2>1. CASE q = p
    BY <1>2, <1>3, <1>4, <1>5, <1>6, <2>1 DEF Charged, Work
  <2>2. CASE q # p
    <3>1. ~Charged(q)
      BY <1>5, <1>6, <2>2 DEF ChargeInv, OneCharge
    <3>2. thread'[Work(q)] = thread[Work(q)]
      BY <1>3, <1>5, <2>2, ThreadOf
    <3>3. QED
      BY <1>4, <3>1, <3>2 DEF Charged, Work
  <2>3. QED
    BY <2>1, <2>2
<1>8. OneCharge' /\ ChargeMarked' /\ BusyCharged'
  BY <1>7 DEF OneCharge, ChargeMarked, BusyCharged
<1>9. ASSUME NEW e \in Engines
      PROVE  /\ engine'[e] = "running" => engine[e] = "suspended"
             /\ engine'[e] \in {"unborn", "suspended"} => engine[e] \in {"unborn", "suspended"}
  <2>1. engine[e] # "running"
    BY <1>1, Holder DEF Locked
  <2>2. engine' = [engine EXCEPT ![thread[t].child] = IF engine[thread[t].child] = "suspended" THEN "running"
                                                       ELSE engine[thread[t].child]]
    BY DEF Resume
  <2>3. CASE e = thread[t].child
    BY <2>1, <2>2, <2>3, StateTyped
  <2>4. CASE e # thread[t].child
    BY <2>1, <2>2, <2>4, StateTyped
  <2>5. QED
    BY <2>3, <2>4
<1>10. NewIsIdle' /\ BusyIsQuarantined'
  BY <1>4, <1>9 DEF ChargeInv, NewIsIdle, BusyIsQuarantined
<1>11. ASSUME NEW q \in Apis, request'[q].at = "stopping"
       PROVE  thread'[Work(q)].at \in Ending
  <2>1. q # p
    BY <1>4, <1>6, <1>11
  <2>2. thread'[Work(q)] = thread[Work(q)]
    BY <1>3, <1>5, <2>1, ThreadOf
  <2>3. QED
    BY <1>4, <1>11, <2>2 DEF ChargeInv, StoppingFirst
<1>12. StoppingFirst'
  BY <1>11 DEF StoppingFirst, Work
<1>13. QED
  BY <1>8, <1>10, <1>12 DEF ChargeInv

LEMMA ThreadCharges ==
  ASSUME SupervisorAssumption, OwnerInv, ChargeInv, Untouched, NEW t \in Threads, ThreadStep(t)
  PROVE  ChargeInv'
<1>1. thread[t] \in Procedures
  BY Procedure
<1>2. CASE Stop(t)
  <2>1. thread[t].at = "stop"
    BY <1>2 DEF Stop
  <2>2. CASE Terminate(t, file.root)
    BY <2>1, <2>2, TerminateDischarges
  <2>3. CASE Returns(t) /\ UNCHANGED <<file, lock, engines, owner, request, admission, crashes>>
    BY <2>1, <2>3, QuietDischarges DEF Returns, engines
  <2>4. CASE Quit(t)
    BY <2>1, <2>4, QuietDischarges DEF Quit, Raises, engines
  <2>5. QED
    BY <1>2, <2>2, <2>3, <2>4 DEF Stop
<1>3. CASE Confirm(t)
  <2>1. thread[t].at = "terminating" /\ \A e \in Engines : engine[e] # "running"
    BY <1>3, Holder DEF Confirm, Locked
  <2>2. Goes(t, [thread[t] EXCEPT !.at = "done"]) /\ [thread[t] EXCEPT !.at = "done"].at = "done"
    BY <1>1, <1>3, AtTyped DEF Confirm, Returns, At
  <2>3. file'.root = None /\ UNCHANGED <<engine, busy, request>>
    BY <1>3, Constants DEF Confirm, engines
  <2>4. QED
    BY <2>1, <2>2, <2>3, LockedDischarges
<1>4. CASE ConfirmTimeout(t)
  BY <1>4, QuietDischarges DEF ConfirmTimeout, Raises, engines, Ending
<1>5. CASE Start(t)
  <2>1. thread[t].at = "start"
    BY <1>5 DEF Start
  <2>2. CASE Quit(t)
    BY <2>1, <2>2, QuietDischarges DEF Quit, Raises, engines
  <2>3. CASE (At(t, "started") \/ At(t, "spawn")) /\ UNCHANGED <<file, engine, busy, request>>
    BY <2>1, <2>3, QuietDischarges
  <2>4. CASE At(t, "spawn") /\ file' = NoFile /\ ~Exists(file.root) /\ UNCHANGED <<engine, busy, request>>
    <3>1. \A e \in Engines : engine[e] # "running"
      BY <2>4, NoneIsNobody DEF OwnerInv, RunningIsOwned, Exists
    <3>2. Goes(t, [thread[t] EXCEPT !.at = "spawn"]) /\ [thread[t] EXCEPT !.at = "spawn"].at = "spawn"
      BY <1>1, <2>4, AtTyped DEF At
    <3>3. file'.root = None
      BY <2>4, Constants
    <3>4. QED
      BY <2>1, <2>4, <3>1, <3>2, <3>3, LockedDischarges
  <2>5. QED
    BY <1>5, <2>2, <2>3, <2>4 DEF Start, engines
<1>6. CASE Spawn(t)
  <2>1. thread[t].at = "spawn" /\ \A e \in Engines : engine[e] # "running"
    BY <1>6 DEF Spawn
  <2>2. PICK e \in Engines : /\ engine[e] = "unborn"
                             /\ engine' = [engine EXCEPT ![e] = "suspended"]
                             /\ Goes(t, [thread[t] EXCEPT !.at = "spawned", !.child = e])
    BY <1>6 DEF Spawn, Born
  <2>3. [thread[t] EXCEPT !.at = "spawned", !.child = e].at = "spawned"
    BY <1>1 DEF Procedures
  <2>4. file'.root = None /\ UNCHANGED <<busy, request>>
    BY <1>6, <2>1, Constants DEF Spawn, OwnerInv, Locking
  <2>5. \A d \in Engines : engine'[d] = engine[d] \/ (engine[d] = "unborn" /\ engine'[d] = "suspended")
    BY <2>2, StateTyped
  <2>6. QED
    BY <2>1, <2>2, <2>3, <2>4, <2>5, LockedDischarges
<1>7. CASE Write(t)
  <2>1. thread[t].at = "spawned" /\ \A e \in Engines : engine[e] # "running"
    BY <1>7, Holder DEF Write, Locked
  <2>2. Goes(t, [thread[t] EXCEPT !.at = "written"]) /\ [thread[t] EXCEPT !.at = "written"].at = "written"
    BY <1>1, <1>7, AtTyped DEF Write, At
  <2>3. UNCHANGED <<engine, busy, request>>
    BY <1>7 DEF Write, engines
  <2>4. QED
    BY <2>1, <2>2, <2>3, LockedDischarges
<1>8. CASE Resume(t)
  BY <1>8, ResumeDischarges
<1>9. CASE StartFails(t)
  <2>1. thread[t].at \in {"spawn", "spawned", "written"} /\ \A e \in Engines : engine[e] # "running"
    BY <1>9, Holder DEF StartFails, Locked
  <2>2. /\ Goes(t, [thread[t] EXCEPT !.at = "failed", !.child = None])
        /\ [thread[t] EXCEPT !.at = "failed", !.child = None].at = "failed"
    BY <1>1, <1>9 DEF StartFails, Procedures
  <2>3. UNCHANGED <<file, busy, request>> /\ \A e \in Engines : engine'[e] = engine[e] \/ engine'[e] = "dead"
    BY <1>9 DEF StartFails
  <2>4. QED
    BY <2>1, <2>2, <2>3, LockedDischarges
<1>10. CASE Started(t)
  <2>1. thread[t].at = "started" /\ (At(t, "close") \/ At(t, "done")) /\ UNCHANGED <<file, engine, busy, request>>
    BY <1>10 DEF Started, engines
  <2>2. QED
    BY <2>1, QuietDischarges
<1>11. CASE CloseChild(t)
  <2>1. thread[t].at = "close"
    BY <1>11 DEF CloseChild
  <2>2. CASE Terminate(t, file.root)
    BY <2>1, <2>2, TerminateDischarges
  <2>3. CASE Returns(t) /\ UNCHANGED <<file, lock, engines, request, admission, crashes>>
    BY <2>1, <2>3, QuietDischarges DEF Returns, engines
  <2>4. CASE Quit(t)
    BY <2>1, <2>4, QuietDischarges DEF Quit, Raises, engines
  <2>5. QED
    BY <1>11, <2>2, <2>3, <2>4 DEF CloseChild
<1>12. QED
  BY <1>2, <1>3, <1>4, <1>5, <1>6, <1>7, <1>8, <1>9, <1>10, <1>11 DEF ThreadStep

\* A generation that moves on to where nothing of it can be under way.
LEMMA RequestDischarges ==
  ASSUME ChargeInv, NEW p \in Apis, request \in [Apis -> Generations], NEW next,
         request' = [request EXCEPT ![p] = next], next.at \notin {"claimed", "sent", "stopping"},
         UNCHANGED <<file, engine, busy, thread>>
  PROVE  ChargeInv'
<1>1. request'[p] = next /\ \A q \in Apis : q # p => request'[q] = request[q]
  OBVIOUS
<1>2. \A q \in Apis : Charged(q)' => Charged(q)
  BY <1>1 DEF Charged, Work
<1>3. StoppingFirst'
  BY <1>1 DEF ChargeInv, StoppingFirst, Work
<1>4. QED
  BY <1>2, <1>3, LessCharged DEF ChargeInv, ChargeMarked, Work

\* Nobody claims while somebody else may still be at work.
LEMMA BeginCharges ==
  ASSUME SupervisorAssumption, OwnerInv, ChargeInv, NEW p \in Apis, Begin(p)
  PROVE  ChargeInv'
<1>1. UNCHANGED <<engine, busy, thread>> /\ lock = None /\ Usable
  BY DEF Begin, engines, LockFree, Claimable
<1>2. ~file.quarantined /\ file.root # None
  BY <1>1 DEF Usable, Exists
<1>3. \A t \in Threads : thread[t].at \notin Locked
  BY <1>1, NoneIsNobody DEF OwnerInv, Locking
<1>4. ASSUME NEW q \in Apis
      PROVE  ~Charged(q)
  BY <1>2, <1>3, ThreadOf DEF ChargeInv, ChargeMarked, Locked
<1>5. request' = [request EXCEPT ![p] = [at |-> "claimed", root |-> file.root]]
  BY DEF Begin
<1>6. \A q \in Apis : q # p => request'[q] = request[q]
  BY <1>5, RequestTyped
<1>7. \A q \in Apis : Charged(q)' => q = p
  BY <1>1, <1>4, <1>6 DEF Charged, Work
<1>8. file'.quarantined /\ file'.root = file.root
  BY StateTyped DEF Begin, Files
<1>9. \A e \in Engines : engine[e] = "running" => busy[e] = {}
  BY <1>2 DEF ChargeInv, BusyIsQuarantined
<1>10. OneCharge' /\ ChargeMarked'
  BY <1>7, <1>8 DEF OneCharge, ChargeMarked
<1>11. BusyCharged' /\ BusyIsQuarantined' /\ NewIsIdle'
  BY <1>1, <1>9 DEF BusyCharged, BusyIsQuarantined, NewIsIdle, ChargeInv
<1>12. StoppingFirst'
  <2>1. request'[p].at = "claimed"
    BY <1>5, RequestTyped
  <2>2. QED
    BY <1>1, <1>6, <2>1 DEF ChargeInv, StoppingFirst, Work
<1>13. QED
  BY <1>10, <1>11, <1>12 DEF ChargeInv

\* What a request is sent to was marked before.
LEMMA SendCharges ==
  ASSUME SupervisorAssumption, OwnerInv, ChargeInv, NEW p \in Apis, Send(p)
  PROVE  ChargeInv'
<1>1. UNCHANGED <<file, engine, thread>> /\ request[p].at = "claimed"
  BY DEF Send
<1>2. PICK e \in Engines : engine[e] = "running" /\ busy' = [busy EXCEPT ![e] = busy[e] \union {p}]
  BY DEF Send
<1>3. /\ busy'[e] = busy[e] \union {p}
      /\ \A d \in Engines : d # e => busy'[d] = busy[d]
  BY <1>2, RequestTyped
<1>4. request'[p].at = "sent" /\ \A q \in Apis : q # p => request'[q] = request[q]
  <2>1. [request[p] EXCEPT !.at = "sent"].at = "sent"
    BY Staged DEF Generations
  <2>2. QED
    BY <2>1, RequestTyped DEF Send, Stage
<1>5. Charged(p) /\ \A q \in Apis : Charged(q)' => Charged(q)
  BY <1>1, <1>4 DEF Charged, Work
<1>6. thread[Work(p)].at # "written"
  BY <1>1, Staged DEF Resting
<1>7. file = [root |-> e, quarantined |-> TRUE]
  <2>1. file.root = e /\ e # None
    BY <1>2, NoneIsNobody DEF OwnerInv, RunningIsOwned
  <2>2. file.quarantined
    BY <1>5, <1>6, <2>1 DEF ChargeInv, ChargeMarked
  <2>3. QED
    BY <2>1, <2>2, StateTyped DEF Files
<1>8. OneCharge' /\ ChargeMarked'
  BY <1>1, <1>5 DEF ChargeInv, OneCharge, ChargeMarked, Work
<1>9. ASSUME NEW q \in Apis, NEW d \in Engines, Charged(q)', engine[d] = "running"
      PROVE  busy'[d] \subseteq {q}
  <2>1. q = p /\ busy[d] \subseteq {p}
    BY <1>5, <1>9 DEF ChargeInv, OneCharge, BusyCharged
  <2>2. QED
    BY <1>3, <2>1
<1>10. BusyCharged'
  BY <1>1, <1>9 DEF BusyCharged
<1>11. NewIsIdle'
  BY <1>1, <1>2, <1>3 DEF ChargeInv, NewIsIdle
<1>12. BusyIsQuarantined'
  BY <1>1, <1>3, <1>7 DEF ChargeInv, BusyIsQuarantined
<1>13. StoppingFirst'
  BY <1>1, <1>4 DEF ChargeInv, StoppingFirst, Work
<1>14. QED
  BY <1>8, <1>10, <1>11, <1>12, <1>13 DEF ChargeInv

\* The mark is cleared when the only one who could be served has been served.
LEMMA CompleteCharges ==
  ASSUME SupervisorAssumption, OwnerInv, ChargeInv, NEW p \in Apis, Complete(p)
  PROVE  ChargeInv'
<1>1. UNCHANGED <<engine, busy, thread>> /\ request[p].at = "sent" /\ Answered(p)
  BY DEF Complete, engines
<1>2. request' = [request EXCEPT ![p] = NoRequest]
  BY DEF Complete, Ends
<1>3. request'[p].at = "none" /\ \A q \in Apis : q # p => request'[q] = request[q]
  BY <1>2, RequestTyped, Constants
<1>4. Charged(p) /\ thread[Work(p)].at \in Resting
  BY <1>1, Staged DEF Charged
<1>5. ASSUME NEW q \in Apis
      PROVE  ~Charged(q)'
  <2>1. CASE q = p
    BY <1>1, <1>3, <1>4, <2>1 DEF Charged, Work, Resting
  <2>2. CASE q # p
    BY <1>1, <1>3, <1>4, <2>2 DEF Charged, Work, ChargeInv, OneCharge
  <2>3. QED
    BY <2>1, <2>2
<1>6. \A e \in Engines : engine[e] = "running" => busy[e] = {}
  BY <1>1, <1>4 DEF ChargeInv, BusyCharged, Answered
<1>7. OneCharge' /\ ChargeMarked' /\ BusyCharged'
  BY <1>5 DEF OneCharge, ChargeMarked, BusyCharged
<1>8. NewIsIdle' /\ BusyIsQuarantined'
  BY <1>1, <1>6 DEF ChargeInv, NewIsIdle, BusyIsQuarantined
<1>9. StoppingFirst'
  BY <1>1, <1>3 DEF ChargeInv, StoppingFirst, Work
<1>10. QED
  BY <1>7, <1>8, <1>9 DEF ChargeInv

\* The recovery takes over the charge of its generation.
LEMMA RecoveryCharges ==
  ASSUME SupervisorAssumption, OwnerInv, ChargeInv, NEW p \in Apis, Fail(p) \/ Restart(p)
  PROVE  ChargeInv'
<1>1. UNCHANGED <<file, engine, busy>>
  BY DEF Fail, Restart, engines
<1>2. PICK stage, next :
        /\ stage \in {"stopping", "restarting"} /\ Stage(p, stage) /\ Goes(Work(p), next)
        /\ stage = "stopping" => next.at = "stop"
        /\ next.at \in {"stop", "start"}
  <2>1. CASE Fail(p)
    <3>1. [Idle EXCEPT !.at = "stop"].at = "stop"
      BY DEF Idle
    <3>2. QED
      BY <2>1, <3>1 DEF Fail, Goes
  <2>2. CASE Restart(p)
    <3>1. [Idle EXCEPT !.at = "start", !.then = "recheck"].at = "start"
      BY DEF Idle
    <3>2. QED
      BY <2>2, <3>1 DEF Restart, Goes
  <2>3. QED
    BY <2>1, <2>2
<1>3. thread'[Work(p)] = next /\ \A q \in Apis : q # p => thread'[Work(q)] = thread[Work(q)]
  <2>1. Work(p) \in Threads /\ \A q \in Apis : q # p => Work(q) \in Threads /\ Work(q) # Work(p)
    BY ThreadOf
  <2>2. thread'[Work(p)] = next /\ \A u \in Threads : u # Work(p) => thread'[u] = thread[u]
    BY <1>2, <2>1, Gone DEF OwnerInv
  <2>3. QED
    BY <2>1, <2>2
<1>4. request'[p].at = stage /\ \A q \in Apis : q # p => request'[q] = request[q]
  <2>1. [request[p] EXCEPT !.at = stage].at = stage
    BY Staged DEF Generations
  <2>2. QED
    BY <1>2, <2>1, RequestTyped DEF Stage
<1>5. Charged(p) /\ thread[Work(p)].at # "written"
  BY DEF Charged, Fail, Restart, OwnerInv, Admitted, Resting
<1>6. file.quarantined \/ file.root = None
  BY <1>5 DEF ChargeInv, ChargeMarked
<1>7. ASSUME NEW q \in Apis, Charged(q)'
      PROVE  Charged(q) /\ (file'.quarantined \/ file'.root = None \/ thread'[Work(q)].at = "written")
  <2>1. CASE q = p
    BY <1>1, <1>5, <1>6, <2>1
  <2>2. CASE q # p
    <3>1. Charged(q)
      BY <1>3, <1>4, <1>7, <2>2 DEF Charged, Work
    <3>2. QED
      BY <1>5, <2>2, <3>1 DEF ChargeInv, OneCharge
  <2>3. QED
    BY <2>1, <2>2
<1>8. ASSUME NEW q \in Apis, request'[q].at = "stopping"
      PROVE  thread'[Work(q)].at \in Ending
  <2>1. CASE q = p
    BY <1>2, <1>3, <1>4, <1>8, <2>1 DEF Ending
  <2>2. CASE q # p
    BY <1>3, <1>4, <1>8, <2>2 DEF ChargeInv, StoppingFirst
  <2>3. QED
    BY <2>1, <2>2
<1>9. StoppingFirst'
  BY <1>8 DEF StoppingFirst, Work
<1>10. QED
  BY <1>1, <1>7, <1>9, LessCharged DEF Work

LEMMA RequestCharges ==
  ASSUME SupervisorAssumption, OwnerInv, ChargeInv, NEW p \in Apis, RequestStep(p)
  PROVE  ChargeInv'
<1>1. CASE Begin(p)
  BY <1>1, BeginCharges
<1>2. CASE Send(p)
  BY <1>2, SendCharges
<1>3. CASE Complete(p)
  BY <1>3, CompleteCharges
<1>4. CASE Fail(p) \/ Restart(p)
  BY <1>4, RecoveryCharges
<1>5. CASE Enter(p)
  <2>1. request' = [request EXCEPT ![p] = [at |-> "held", root |-> file.root]] \/ UNCHANGED request
    BY <1>5 DEF Enter
  <2>2. request[p] = NoRequest /\ UNCHANGED <<file, engine, busy, thread>>
    BY <1>5 DEF Enter, engines
  <2>3. \E next : /\ request' = [request EXCEPT ![p] = next]
                  /\ next.at \notin {"claimed", "sent", "stopping"}
    <3>1. [at |-> "held", root |-> file.root].at \notin {"claimed", "sent", "stopping"}
      OBVIOUS
    <3>2. request = [request EXCEPT ![p] = NoRequest]
      BY <2>2, RequestTyped
    <3>3. NoRequest.at \notin {"claimed", "sent", "stopping"}
      BY Constants
    <3>4. QED
      BY <2>1, <3>1, <3>2, <3>3
  <2>4. QED
    BY <2>2, <2>3, RequestDischarges, RequestTyped
<1>6. CASE BeginFails(p) \/ Unsent(p) \/ Reopen(p) \/ GiveUp(p)
  <2>1. request' = [request EXCEPT ![p] = NoRequest] /\ UNCHANGED <<file, engine, busy, thread>>
    BY <1>6 DEF BeginFails, Unsent, Reopen, GiveUp, Ends, engines
  <2>2. NoRequest.at \notin {"claimed", "sent", "stopping"}
    BY Constants
  <2>3. QED
    BY <2>1, <2>2, RequestDischarges, RequestTyped
<1>7. CASE Check(p)
  <2>1. [request[p] EXCEPT !.at = "verified"].at = "verified"
    BY Staged DEF Generations
  <2>2. /\ request' = [request EXCEPT ![p] = [request[p] EXCEPT !.at = "verified"]]
        /\ UNCHANGED <<file, engine, busy, thread>>
    BY <1>7 DEF Check, Stage, engines
  <2>3. QED
    BY <2>1, <2>2, RequestDischarges, RequestTyped
<1>8. QED
  BY <1>1, <1>2, <1>3, <1>4, <1>5, <1>6, <1>7 DEF RequestStep

LEMMA ProcessCharges ==
  ASSUME SupervisorAssumption, OwnerInv, ChargeInv, NEW p \in Apis, Close(p) \/ Crash(p)
  PROVE  ChargeInv'
<1>1. UNCHANGED <<file, engine, busy>>
  BY DEF Close, Crash, engines
<1>2. ASSUME NEW q \in Apis
      PROVE  \/ request'[q] = request[q] /\ thread'[Work(q)] = thread[Work(q)]
             \/ request'[q] = NoRequest /\ thread'[Work(q)] = Idle
  <2>1. CASE Close(p)
    BY <2>1, ThreadOf, RequestTyped DEF Close
  <2>2. CASE Crash(p)
    BY <2>2, ThreadOf, RequestTyped DEF Crash, Ends
  <2>3. QED
    BY <2>1, <2>2
<1>3. ASSUME NEW q \in Apis, Charged(q)'
      PROVE  Charged(q) /\ thread'[Work(q)] = thread[Work(q)]
  BY <1>2, <1>3, Constants DEF Charged, Work
<1>4. StoppingFirst'
  <2>1. ASSUME NEW q \in Apis, request'[q].at = "stopping"
        PROVE  thread'[Work(q)].at \in Ending
    BY <1>2, <2>1, Constants DEF ChargeInv, StoppingFirst
  <2>2. QED
    BY <2>1 DEF StoppingFirst, Work
<1>5. QED
  BY <1>1, <1>3, <1>4, LessCharged DEF ChargeInv, ChargeMarked, Work

LEMMA EngineCharges ==
  ASSUME ChargeInv, OwnerInv, NEW e \in Engines, Answer(e) \/ Die(e)
  PROVE  ChargeInv'
<1>1. UNCHANGED <<file, request, thread>>
  BY DEF Answer, Die
<1>2. \A d \in Engines : /\ busy'[d] \subseteq busy[d]
                         /\ engine'[d] \in {engine[d], "dead"}
  BY StateTyped, RequestTyped DEF Answer, Die
<1>3. \A q \in Apis : Charged(q)' => Charged(q)
  BY <1>1 DEF Charged, Work
<1>4. StoppingFirst'
  BY <1>1 DEF ChargeInv, StoppingFirst, Work
<1>5. QED
  BY <1>1, <1>2, <1>3, <1>4, LessCharged DEF ChargeInv, ChargeMarked, Work

LEMMA ChargeInit == Init => ChargeInv
<1> SUFFICES ASSUME Init PROVE ChargeInv
  OBVIOUS
<1>1. \A e \in Engines : busy[e] = {}
  BY DEF Init
<1>2. ASSUME NEW p \in Apis
      PROVE  ~Charged(p) /\ request[p].at # "stopping"
  <2>1. request[p].at = "none" /\ thread[Work(p)].at = "idle"
    BY Constants, ThreadOf DEF Init
  <2>2. QED
    BY <2>1 DEF Charged
<1>3. QED
  BY <1>1, <1>2 DEF ChargeInv, OneCharge, ChargeMarked, BusyCharged, NewIsIdle, StoppingFirst, BusyIsQuarantined

\* No step makes an operator's command unsaid.
LEMMA TouchedStays ==
  ASSUME OwnerInv, NEW o \in Operators, thread[Work(o)].at # "idle", [Next]_vars,
         SupervisorAssumption
  PROVE  thread'[Work(o)].at # "idle"
<1> DEFINE r == thread[Work(o)]
<1>1. Work(o) \in Threads /\ Work(o)[1] = o /\ o \notin Apis
  BY ThreadOf DEF SupervisorAssumption
<1>2. r \in Procedures
  BY <1>1, Procedure
<1>3. ASSUME NEW t \in Threads, NEW next, next.at # "idle", Goes(t, next)
      PROVE  thread'[Work(o)].at # "idle"
  BY <1>1, <1>3, Gone DEF OwnerInv
<1>4. ASSUME NEW t \in Threads, ThreadStep(t)
      PROVE  \E next : next.at # "idle" /\ Goes(t, next)
  <2>1. thread[t] \in Procedures
    BY Procedure
  <2>2. /\ \A stage : [thread[t] EXCEPT !.at = stage].at = stage
        /\ \A stage, e : /\ [thread[t] EXCEPT !.at = stage, !.child = e].at = stage
    BY <2>1 DEF Procedures
  <2>3. \A stage : At(t, stage) => \E next : next.at = stage /\ Goes(t, next)
    BY <2>2 DEF At
  <2>4. CASE Stop(t) \/ CloseChild(t)
    <3>1. At(t, "done") \/ At(t, "failed") \/ At(t, "terminating")
      BY <2>4 DEF Stop, CloseChild, Returns, Quit, Raises, Terminate
    <3>2. QED
      BY <2>3, <3>1
  <2>5. CASE Confirm(t) \/ ConfirmTimeout(t) \/ Write(t) \/ Started(t)
    <3>1. At(t, "done") \/ At(t, "failed") \/ At(t, "written") \/ At(t, "close")
      BY <2>5 DEF Confirm, ConfirmTimeout, Write, Started, Returns, Raises
    <3>2. QED
      BY <2>3, <3>1
  <2>6. CASE Start(t)
    <3>1. At(t, "failed") \/ At(t, "started") \/ At(t, "spawn")
      BY <2>6 DEF Start, Quit, Raises
    <3>2. QED
      BY <2>3, <3>1
  <2>7. CASE Spawn(t) \/ Resume(t) \/ StartFails(t)
    <3>1. \E e : \/ Goes(t, [thread[t] EXCEPT !.at = "spawned", !.child = e])
                 \/ Goes(t, [thread[t] EXCEPT !.at = "started", !.child = e])
                 \/ Goes(t, [thread[t] EXCEPT !.at = "failed", !.child = e])
      BY <2>7 DEF Spawn, Resume, StartFails
    <3>2. QED
      BY <2>2, <3>1
  <2>8. QED
    BY <1>4, <2>4, <2>5, <2>6, <2>7 DEF ThreadStep
<1>5. CASE \E t \in Threads : ThreadStep(t)
  BY <1>3, <1>4, <1>5
<1>6. ASSUME NEW p \in Apis, RequestStep(p)
      PROVE  thread'[Work(o)] = r
  <2>1. Work(p) # Work(o)
    BY <1>1, ThreadOf
  <2>2. CASE Fail(p) \/ Restart(p)
    <3>1. \E next : thread' = [thread EXCEPT ![Work(p)] = next]
      BY <2>2 DEF Fail, Restart
    <3>2. QED
      BY <1>1, <2>1, <3>1, StateTyped
  <2>3. CASE UNCHANGED thread
    BY <2>3
  <2>4. QED
    BY <1>6, <2>2, <2>3
    DEF RequestStep, Enter, Begin, BeginFails, Send, Unsent, Complete, Check, Reopen, GiveUp
<1>7. ASSUME NEW p \in Apis, Close(p) \/ Crash(p)
      PROVE  thread'[Work(o)] = r
  <2>1. CASE Close(p)
    BY <1>1, <2>1, ThreadOf DEF Close
  <2>2. CASE Crash(p)
    BY <1>1, <2>2 DEF Crash
  <2>3. QED
    BY <1>7, <2>1, <2>2
<1>8. ASSUME NEW q \in Operators, Operate(q) \/ Provision(q)
      PROVE  thread'[Work(o)].at # "idle"
  <2>1. PICK stage \in {"start", "stop"}, then \in {"done", "close"} : Commands(q, stage, then)
    BY <1>8 DEF Operate, Provision
  <2>2. [Idle EXCEPT !.at = stage, !.then = then].at = stage
    BY DEF Idle
  <2>3. Goes(Work(q), [Idle EXCEPT !.at = stage, !.then = then]) /\ Work(q) \in Threads
    BY <2>1, ThreadOf DEF Commands, Goes
  <2>4. QED
    BY <1>3, <2>2, <2>3
<1>9. CASE (\E e \in Engines : Answer(e) \/ Die(e)) \/ UNCHANGED vars
  BY <1>9 DEF Answer, Die, vars
<1>10. QED
  BY <1>5, <1>6, <1>7, <1>8, <1>9 DEF Next

LEMMA ChargeStep ==
  ASSUME SupervisorAssumption, OwnerInv, ChargeInv, Untouched, [Next]_vars, Untouched'
  PROVE  ChargeInv'
<1>1. CASE \E t \in Threads : ThreadStep(t)
  BY <1>1, ThreadCharges
<1>2. CASE \E p \in Apis : RequestStep(p) \/ Close(p) \/ Crash(p)
  BY <1>2, RequestCharges, ProcessCharges
<1>3. CASE \E e \in Engines : Answer(e) \/ Die(e)
  BY <1>3, EngineCharges
<1>4. ASSUME NEW o \in Operators, Operate(o) \/ Provision(o)
      PROVE  FALSE
  <2>1. PICK stage \in {"start", "stop"}, then \in {"done", "close"} : Commands(o, stage, then)
    BY <1>4 DEF Operate, Provision
  <2>2. [Idle EXCEPT !.at = stage, !.then = then].at = stage
    BY DEF Idle
  <2>3. Goes(Work(o), [Idle EXCEPT !.at = stage, !.then = then]) /\ Work(o) \in Threads
    BY <2>1, ThreadOf DEF Commands, Goes
  <2>4. thread'[Work(o)].at = stage
    BY <2>2, <2>3, Gone DEF OwnerInv
  <2>5. QED
    BY <2>4 DEF Untouched, Work
<1>5. CASE UNCHANGED vars
  BY <1>5 DEF vars, ChargeInv, OneCharge, ChargeMarked, BusyCharged, NewIsIdle, StoppingFirst,
     BusyIsQuarantined, Charged, Work
<1>6. QED
  BY <1>1, <1>2, <1>3, <1>4, <1>5 DEF Next

------------------------------------------------------------------------------
(***************************************************************************)
(* Whoever starts, stops, uses, replaces or abandons the engine, in any    *)
(* order and through any crash: an engine that runs is the one the         *)
(* ownership file names; and until an operator's command interferes one    *)
(* that still works on a request is marked there as uncertain              *)
(* (ollama_supervisor.py, ollama.py).                                      *)
(***************************************************************************)
THEOREM EngineSupervised == Spec => []Supervised
<1> DEFINE Inv == OwnerInv /\ (Untouched => ChargeInv)
<1>1. Init => Inv
  BY SupervisorAssumption, OwnerInit, ChargeInit
<1>2. Inv /\ [Next]_vars => Inv'
  <2> SUFFICES ASSUME Inv, [Next]_vars PROVE Inv'
    OBVIOUS
  <2>1. OwnerInv'
    BY SupervisorAssumption, OwnerStep
  <2>2. Untouched' => Untouched
    BY SupervisorAssumption, TouchedStays DEF Untouched, Work
  <2>3. QED
    BY <2>1, <2>2, SupervisorAssumption, ChargeStep
<1>3. Inv => Supervised
  BY DEF OwnerInv, ChargeInv, Supervised
<1>4. QED
  BY <1>1, <1>2, <1>3, PTL DEF Spec

------------------------------------------------------------------------------
(* What the status page says.                                              *)

\* Where a caller holds the cache's lock.
Probing == {"active", "status", "recheck", "reclaim", "accept", "verify", "failed", "search"}
Claims == {"none", "failed", "written", "live"}

\* What a probe can have seen: while nothing went down the model is there, and a
\* status that was not ready has found a claim that lasts as long as its generation.
Found ==
  /\ holder # None => probe.down \/ (online /\ ~quarantined)
  /\ \A c \in Callers :
       at[c] \in {"recheck", "reclaim"} => probe.down \/ probe.ended \/ claim # "none"

\* The cached flag is no older than the last sight of the model.
Dated ==
  /\ ready => seen <= age
  /\ holder # None => age <= PROBE

\* The inductive invariant.
ReadinessInv == Page!TypeOK /\ Found /\ Dated

Stages == {"idle", "waiting", "active", "status", "recheck", "reclaim", "accept",
           "verify", "failed", "search", "ready", "unavailable"}
Phases == {"idle", "status", "verify", "verified", "admit", "busy", "claiming", "claimed",
           "completing", "over"}
Probes == [down : BOOLEAN, ended : BOOLEAN]

LEMMA PageConstants == None \notin Callers \union Chats /\ TTL \in Nat /\ PROBE \in 1..(TTL - 1)
BY PageAssumption DEF Page!ReadinessAssumption

LEMMA InitReadiness == ASSUME Page!Init PROVE ReadinessInv
<1> USE PageConstants DEF Page!Init
<1>1. Page!TypeOK
  <2>1. age \in 0..TTL /\ seen \in 0..TTL
    OBVIOUS
  <2>2. probe \in [down : BOOLEAN, ended : BOOLEAN]
    BY DEF Page!Quiet
  <2>3. \A c \in Callers : at[c] = "idle" /\ holder # c
    OBVIOUS
  <2>4. QED
    BY <2>1, <2>2, <2>3 DEF Page!TypeOK
<1>2. Found /\ Dated
  BY DEF Found, Dated
<1>3. QED
  BY <1>1, <1>2 DEF ReadinessInv

\* A caller that goes on.
LEMMA Went ==
  ASSUME Page!TypeOK, NEW c \in Callers, NEW where \in Stages, Page!Goes(c, where)
  PROVE  /\ at' \in [Callers -> Stages] /\ at'[c] = where
         /\ \A d \in Callers : d # c => at'[d] = at[d]
BY DEF Page!Goes, Page!TypeOK, Stages

\* A caller that holds the lock goes on with it, and nothing but the cache moves.
LEMMA ProbeGoes ==
  ASSUME ReadinessInv, NEW c \in Callers, at[c] \in Probing,
         NEW where \in Probing, Page!Goes(c, where),
         UNCHANGED <<Page!world, working, claim, available, age, holder, chat, probe>>,
         ready' \in BOOLEAN, accepted' \in BOOLEAN, seen' \in {0, seen},
         ready' => seen' = 0 \/ (seen' = seen /\ ready),
         where \in {"recheck", "reclaim"} => probe.down \/ probe.ended \/ claim # "none"
  PROVE  ReadinessInv'
<1> USE DEF ReadinessInv
<1>0. where \in Stages
  BY DEF Stages, Probing
<1>1. /\ at' \in [Callers -> Stages] /\ at'[c] = where
      /\ \A d \in Callers : d # c => at'[d] = at[d]
  BY <1>0, Went
<1>2. Page!TypeOK'
  <2>1. \A d \in Callers : at'[d] \in Probing <=> holder' = d
    BY <1>1 DEF Page!TypeOK, Probing
  <2>2. seen' \in 0..TTL
    BY PageConstants DEF Page!TypeOK
  <2>3. {online, quarantined, available, ready, accepted, calm}' \subseteq BOOLEAN /\ claim' \in Claims
    BY DEF Claims, Page!TypeOK, Page!world
  <2>4. QED
    BY <1>1, <2>1, <2>2, <2>3 DEF Page!TypeOK, Claims, Probing, Stages, Page!world
<1>4. Found'
  BY <1>1 DEF Found, Page!world
<1>5. Dated'
  BY DEF Dated, Page!TypeOK
<1>6. QED
  BY <1>2, <1>4, <1>5

\* A caller that enters no probe, or leaves its probe.
LEMMA CallerGoes ==
  ASSUME ReadinessInv, NEW c \in Callers,
         NEW where \in Stages \ Probing, Page!Goes(c, where),
         UNCHANGED <<Page!world, working, claim, ready, accepted, age, chat, seen, probe>>,
         available' \in BOOLEAN,
         holder' = Page!Released(c)
  PROVE  ReadinessInv'
<1> USE DEF ReadinessInv
<1>1. /\ at' \in [Callers -> Stages] /\ at'[c] = where
      /\ \A d \in Callers : d # c => at'[d] = at[d]
  BY Went
<1>2. Page!TypeOK'
  <2>1. \A d \in Callers : at'[d] \in Probing <=> holder' = d
    BY <1>1, PageConstants DEF Page!TypeOK, Probing, Page!Released
  <2>2. {online, quarantined, available, ready, accepted, calm}' \subseteq BOOLEAN /\ claim' \in Claims
    BY DEF Claims, Page!TypeOK, Page!world
  <2>3. holder' \in Callers \union {None}
    BY DEF Page!TypeOK, Page!Released
  <2>4. QED
    BY <1>1, <2>1, <2>2, <2>3 DEF Page!TypeOK, Claims, Probing, Stages, Page!world
<1>4. Found'
  BY <1>1 DEF Found, Page!world, Page!Released, Probing
<1>5. Dated'
  BY DEF Dated, Page!Released
<1>6. QED
  BY <1>2, <1>4, <1>5

LEMMA ProbeBegins ==
  ASSUME ReadinessInv, NEW c \in Callers, Page!Begin(c)
  PROVE  ReadinessInv'
<1> USE DEF ReadinessInv
<1>1. PICK where \in {"failed", "active", "status"} :
        Page!Goes(c, where) /\ (where = "failed" => quarantined)
  BY DEF Page!Begin
<1>2. /\ at' \in [Callers -> Stages] /\ at'[c] = where
      /\ \A d \in Callers : d # c => at'[d] = at[d]
  BY <1>1, Went DEF Stages
<1>3. /\ age' = 0 /\ ~ready' /\ ~accepted' /\ holder = None /\ holder' = c
      /\ probe' = [down |-> ~online \/ quarantined, ended |-> FALSE]
      /\ UNCHANGED <<Page!world, working, claim, available, chat, seen>>
  BY DEF Page!Begin, Page!Cleared
<1>4. \A d \in Callers : at[d] \notin Probing
  BY <1>3, PageConstants DEF Page!TypeOK, Probing
<1>5. Page!TypeOK'
  <2>1. \A d \in Callers : at'[d] \in Probing <=> holder' = d
    BY <1>1, <1>2, <1>3, <1>4 DEF Probing
  <2>2. {online, quarantined, available, ready, accepted, calm}' \subseteq BOOLEAN /\ claim' \in Claims
    BY <1>3 DEF Claims, Page!TypeOK, Page!world, Page!Begin, Page!Cleared
  <2>3. probe' \in Probes
    BY <1>3 DEF Page!TypeOK, Probes
  <2>4. age' \in 0..TTL
    BY <1>3, PageConstants
  <2>5. QED
    BY <1>2, <1>3, <2>1, <2>2, <2>3, <2>4 DEF Page!TypeOK, Claims, Probing, Probes, Stages
<1>7. Found'
  BY <1>1, <1>2, <1>3, <1>4 DEF Found, Page!world, Probing, Page!TypeOK
<1>8. Dated'
  BY <1>3, PageConstants DEF Dated
<1>9. QED
  BY <1>5, <1>7, <1>8

\* A request for the status.
LEMMA CallerKeeps ==
  ASSUME ReadinessInv, NEW c \in Callers,
         Page!Ask(c) \/ Page!Probe(c) \/ Page!TimeOut(c) \/ Page!Leave(c)
  PROVE  ReadinessInv'
<1> USE DEF ReadinessInv
<1>1. CASE Page!Ask(c) \/ Page!Fresh(c)
  <2>1. \E where \in Stages \ Probing : Page!Goes(c, where)
    BY <1>1 DEF Page!Ask, Page!Fresh, Page!Says, Stages, Probing
  <2>2. holder' = Page!Released(c)
    BY <1>1 DEF Page!Ask, Page!Fresh, Page!Released, Page!TypeOK, Page!cache
  <2>3. QED
    BY <1>1, <2>1, <2>2, CallerGoes DEF Page!Ask, Page!Fresh, Page!cache, Page!TypeOK
<1>2. CASE Page!TimeOut(c) \/ Page!Leave(c)
  <2>1. \E where \in Stages \ Probing : Page!Goes(c, where)
    BY <1>2 DEF Page!TimeOut, Page!Leave, Stages, Probing
  <2>2. QED
    BY <1>2, <2>1, CallerGoes DEF Page!TimeOut, Page!Leave, Page!TypeOK
<1>3. CASE Page!Publish(c)
  <2>1. \E where \in Stages \ Probing : Page!Goes(c, where)
    BY <1>3 DEF Page!Publish, Stages, Probing
  <2>2. holder' = Page!Released(c)
    BY <1>3 DEF Page!Publish, Page!Released, Page!TypeOK
  <2>3. QED
    BY <1>3, <2>1, <2>2, CallerGoes DEF Page!Publish, Page!TypeOK
<1>4. CASE Page!Begin(c)
  BY <1>4, ProbeBegins
<1>5. CASE Page!ReadActive(c) \/ Page!ReadStatus(c) \/ Page!Recheck(c) \/ Page!ReadClaim(c)
  <2>1. at[c] \in Probing /\ holder = c /\ holder # None
    BY <1>5, PageConstants
    DEF Page!ReadActive, Page!ReadStatus, Page!Recheck, Page!ReadClaim, Page!TypeOK, Probing
  <2>2. \E where \in Probing :
          /\ Page!Goes(c, where)
          /\ where \in {"recheck", "reclaim"} => probe.down \/ probe.ended \/ claim # "none"
    <3>1. CASE Page!ReadActive(c)
      BY <3>1 DEF Page!ReadActive, Probing
    <3>2. CASE Page!ReadStatus(c)
      BY <2>1, <3>2 DEF Page!ReadStatus, Page!Rechecked, Page!StatusReady, Found, Probing
    <3>3. CASE Page!Recheck(c)
      BY <2>1, <3>3 DEF Page!Recheck, Found, Probing
    <3>4. CASE Page!ReadClaim(c)
      BY <2>1, <3>4 DEF Page!ReadClaim, Page!LiveClaim, Found, Probing
    <3>5. QED
      BY <1>5, <3>1, <3>2, <3>3, <3>4
  <2>3. UNCHANGED <<Page!world, working, claim, available, Page!cache, chat, seen, probe>>
    BY <1>5 DEF Page!ReadActive, Page!ReadStatus, Page!Recheck, Page!ReadClaim
  <2>4. QED
    BY <2>1, <2>2, <2>3, ProbeGoes DEF Page!cache, Page!TypeOK
<1>6. CASE Page!Accept(c) \/ Page!Verify(c) \/ Page!Fail(c)
  <2>1. at[c] \in Probing
    BY <1>6 DEF Page!Accept, Page!Verify, Page!Fail, Probing
  <2>2. PICK where \in {"verify", "search"} : Page!Goes(c, where)
    BY <1>6 DEF Page!Accept, Page!Verify, Page!Fail
  <2>3. /\ UNCHANGED <<Page!world, working, claim, available, age, holder, chat, probe>>
        /\ ready' \in BOOLEAN /\ accepted' \in BOOLEAN /\ seen' \in {0, seen}
        /\ ready' => seen' = 0 \/ (seen' = seen /\ ready)
    <3>1. CASE Page!Accept(c)
      <4>1. accepted' \in BOOLEAN
        BY <3>1 DEF Page!Accept
      <4>2. QED
        BY <3>1, <4>1 DEF Page!Accept, Page!TypeOK
    <3>2. CASE Page!Verify(c)
      BY <3>2 DEF Page!Verify, Page!TypeOK
    <3>3. CASE Page!Fail(c)
      BY <3>3 DEF Page!Fail, Page!TypeOK
    <3>4. QED
      BY <1>6, <3>1, <3>2, <3>3
  <2>4. where \in Probing /\ where \notin {"recheck", "reclaim", "failed"}
    BY DEF Probing
  <2>5. QED
    BY <2>1, <2>2, <2>3, <2>4, ProbeGoes
<1>7. QED
  BY <1>1, <1>2, <1>3, <1>4, <1>5, <1>6 DEF Page!Probe

------------------------------------------------------------------------------
(* Generations, and the world.                                             *)

\* A generation that goes on.
LEMMA ChatKeeps ==
  ASSUME ReadinessInv, NEW g \in Chats, NEW where \in Phases,
         Page!ChatGoes(g, where) \/ UNCHANGED chat,
         UNCHANGED <<online, calm, Page!cache, at>>,
         quarantined' \in BOOLEAN, available' \in BOOLEAN, seen' \in {0, seen},
         probe' \in Probes, probe.down => probe'.down, probe.ended => probe'.ended,
         quarantined' => quarantined \/ probe'.down,
         claim # "none" => claim' # "none" \/ probe'.ended,
         claim' \in Claims, working' \in Chats \union {None}
  PROVE  ReadinessInv'
<1> USE DEF ReadinessInv
<1>1. chat' \in [Chats -> Phases]
  BY DEF Page!ChatGoes, Page!TypeOK, Phases
<1>2. Page!TypeOK'
  <2>1. seen' \in 0..TTL
    BY PageConstants DEF Page!TypeOK
  <2>2. {online, quarantined, available, ready, accepted, calm}' \subseteq BOOLEAN
    BY DEF Page!TypeOK, Page!cache
  <2>3. QED
    BY <1>1, <2>1, <2>2 DEF Page!TypeOK, Claims, Phases, Probes, Page!cache
<1>3. Found'
  BY DEF Found, Page!cache, Probes, Page!TypeOK
<1>4. Dated'
  BY DEF Dated, Page!cache, Page!TypeOK
<1>5. QED
  BY <1>2, <1>3, <1>4

LEMMA GenerationKeeps ==
  ASSUME ReadinessInv, NEW g \in Chats, Page!Generate(g)
  PROVE  ReadinessInv'
<1>0. /\ probe \in Probes /\ claim \in Claims /\ working \in Chats \union {None}
      /\ quarantined \in BOOLEAN /\ available \in BOOLEAN
  BY DEF ReadinessInv, Page!TypeOK, Probes, Claims
<1>1. CASE Page!Ensure(g) \/ Page!InitStatus(g) \/ Page!InitVerify(g) \/ Page!InitDone(g)
  <2>1. PICK where \in {"admit", "status", "verify", "idle", "verified"} : Page!ChatGoes(g, where)
    BY <1>1 DEF Page!Ensure, Page!InitStatus, Page!InitVerify, Page!InitDone
  <2>2. /\ UNCHANGED <<Page!world, working, claim, Page!cache, at, probe>>
        /\ available' \in BOOLEAN /\ seen' \in {0, seen}
    BY <1>0, <1>1 DEF Page!Ensure, Page!InitStatus, Page!InitVerify, Page!InitDone
  <2>3. QED
    BY <1>0, <2>1, <2>2, ChatKeeps DEF Phases, Page!world
<1>2. CASE Page!Acquire(g) \/ Page!Release(g)
  <2>1. PICK where \in {"busy", "idle"} : Page!ChatGoes(g, where)
    BY <1>2 DEF Page!Acquire, Page!Release
  <2>2. /\ UNCHANGED <<Page!world, claim, available, Page!cache, at, seen>>
        /\ working' \in Chats \union {None}
    BY <1>0, <1>2 DEF Page!Acquire, Page!Release
  <2>3. probe' \in Probes /\ probe'.down = probe.down /\ (probe.ended => probe'.ended)
    BY <1>0, <1>2 DEF Page!Acquire, Page!Release, Probes
  <2>4. QED
    BY <1>0, <2>1, <2>2, <2>3, ChatKeeps DEF Phases, Page!world
<1>3. CASE Page!MarkFailed(g) \/ Page!Write(g) \/ Page!Remember(g)
  <2>1. \/ \E where \in {"claiming", "claimed"} : Page!ChatGoes(g, where)
        \/ UNCHANGED chat
    BY <1>3 DEF Page!MarkFailed, Page!Write, Page!Remember
  <2>2. /\ UNCHANGED <<Page!world, working, available, Page!cache, at, seen, probe>>
        /\ claim' \in Claims \ {"none"}
    BY <1>3 DEF Page!MarkFailed, Page!Write, Page!Remember, Claims
  <2>3. {"claiming", "claimed"} \subseteq Phases
    BY DEF Phases
  <2>4. QED
    BY <1>0, <2>1, <2>2, <2>3, ChatKeeps DEF Page!world
<1>4. CASE Page!Refused(g) \/ Page!Abandon(g)
  <2>1. Page!ChatGoes(g, "over")
    BY <1>4 DEF Page!Refused, Page!Abandon
  <2>2. /\ UNCHANGED <<online, calm, working, claim, available, Page!cache, at, seen>>
        /\ quarantined' \in BOOLEAN
    BY <1>0, <1>4 DEF Page!Refused, Page!Abandon
  <2>3. /\ probe' \in Probes /\ (probe.down => probe'.down) /\ probe'.ended
        /\ quarantined' => quarantined \/ probe'.down
    <3>1. CASE Page!Refused(g)
      BY <3>1 DEF Page!Refused, Probes
    <3>2. CASE Page!Abandon(g)
      <4>1. /\ probe' = [down |-> probe.down \/ quarantined', ended |-> TRUE]
            /\ probe.down \in BOOLEAN
        BY <1>0, <3>2 DEF Page!Abandon, Probes
      <4>2. (probe.down \/ quarantined') \in BOOLEAN
        OBVIOUS
      <4>3. probe' \in Probes
        BY <4>1, <4>2 DEF Probes
      <4>4. probe'.ended /\ probe'.down = (probe.down \/ quarantined')
        BY <4>1
      <4>5. QED
        BY <4>3, <4>4
    <3>3. QED
      BY <1>4, <3>1, <3>2
  <2>4. QED
    BY <1>0, <2>1, <2>2, <2>3, ChatKeeps DEF Phases
<1>5. CASE Page!Unwrite(g) \/ Page!Unmark(g)
  <2>1. PICK where \in {"completing", "over"} : Page!ChatGoes(g, where)
    BY <1>5 DEF Page!Unwrite, Page!Unmark
  <2>2. /\ UNCHANGED <<Page!world, working, available, Page!cache, at, seen>>
        /\ claim' \in Claims
    BY <1>5 DEF Page!Unwrite, Page!Unmark, Claims
  <2>3. probe' \in Probes /\ probe'.down = probe.down /\ probe'.ended
    BY <1>0, <1>5 DEF Page!Unwrite, Page!Unmark, Probes
  <2>4. QED
    BY <1>0, <2>1, <2>2, <2>3, ChatKeeps DEF Phases, Page!world
<1>6. QED
  BY <1>1, <1>2, <1>3, <1>4, <1>5 DEF Page!Generate

LEMMA WorldKeeps ==
  ASSUME ReadinessInv, Page!Flip \/ Page!Tick
  PROVE  ReadinessInv'
<1> USE DEF ReadinessInv
<1>1. CASE Page!Flip
  <2>1. probe' \in Probes /\ probe'.down
    BY <1>1 DEF Page!Flip, Page!TypeOK, Probes
  <2>2. online' \in BOOLEAN /\ quarantined' \in BOOLEAN /\ calm' \in BOOLEAN
    BY <1>1 DEF Page!Flip, Page!TypeOK
  <2>3. UNCHANGED <<working, available, Page!cache, at, chat, seen>> /\ claim' \in Claims
    BY <1>1 DEF Page!Flip, Page!Reset, Page!TypeOK, Claims
  <2>4. Page!TypeOK'
    BY <2>1, <2>2, <2>3 DEF Page!TypeOK, Claims, Probes, Page!cache
  <2>5. Found' /\ Dated'
    BY <2>1, <2>3 DEF Found, Dated, Page!cache
  <2>6. QED
    BY <2>4, <2>5
<1>2. CASE Page!Tick
  <2>1. age' = Page!AtMost(age + 1, TTL) /\ seen' = Page!AtMost(seen + 1, TTL) /\ (holder # None => age < PROBE)
    BY <1>2 DEF Page!Tick
  <2>2. UNCHANGED <<Page!world, working, claim, available, ready, accepted, holder, at, chat, probe>>
    BY <1>2 DEF Page!Tick
  <2>3. age \in 0..TTL /\ seen \in 0..TTL /\ TTL \in Nat /\ PROBE \in 1..(TTL - 1)
    BY PageConstants DEF Page!TypeOK
  <2>4. age' \in 0..TTL /\ seen' \in 0..TTL
    BY <2>1, <2>3 DEF Page!AtMost
  <2>5. Page!TypeOK'
    BY <2>2, <2>4 DEF Page!TypeOK, Page!world
  <2>6. Dated'
    BY <2>1, <2>2, <2>3 DEF Dated, Page!AtMost
  <2>7. Found'
    BY <2>2 DEF Found, Page!world
  <2>8. QED
    BY <2>5, <2>6, <2>7
<1>3. QED
  BY <1>1, <1>2

LEMMA ReadinessStep == ReadinessInv /\ [Page!Next]_(Page!vars) => ReadinessInv'
<1> SUFFICES ASSUME ReadinessInv, [Page!Next]_(Page!vars) PROVE ReadinessInv'
  OBVIOUS
<1>1. CASE UNCHANGED Page!vars
  BY <1>1 DEF ReadinessInv, Page!TypeOK, Found, Dated, Page!vars
<1>2. QED
  BY <1>1, CallerKeeps, GenerationKeeps, WorldKeeps DEF Page!Next

\* Ready is said of what was seen, or of what works.
LEMMA SaidReady ==
  ASSUME ReadinessInv, [Page!Next]_(Page!vars)
  PROVE  Page!SaysRecent
<1> SUFFICES ASSUME NEW c \in Callers, at[c] # "ready", at'[c] = "ready"
             PROVE  seen < TTL \/ working # None
  BY DEF Page!SaysRecent
<1>1. /\ ready => seen <= age
      /\ holder # None => age < TTL
      /\ age \in Nat /\ seen \in Nat /\ TTL \in Nat /\ PROBE \in Nat
  BY PageConstants DEF ReadinessInv, Page!TypeOK, Dated
<1>2. at' # at
  OBVIOUS
<1>3. PICK d \in Callers : Page!Ask(d) \/ Page!Probe(d) \/ Page!TimeOut(d) \/ Page!Leave(d)
  BY <1>2
  DEF Page!Next, Page!vars, Page!Generate, Page!Ensure, Page!InitStatus, Page!InitVerify,
      Page!InitDone, Page!Acquire, Page!MarkFailed, Page!Write, Page!Remember, Page!Refused,
      Page!Abandon, Page!Unwrite, Page!Unmark, Page!Release, Page!Flip, Page!Tick
<1>4. \A where : Page!Goes(d, where) => c = d /\ where = "ready"
  BY DEF Page!Goes, ReadinessInv, Page!TypeOK
<1>5. CASE Page!Fresh(d)
  <2>1. Page!Says(Page!Cached) = "ready" /\ age < TTL
    BY <1>4, <1>5 DEF Page!Fresh
  <2>2. QED
    BY <1>1, <2>1 DEF Page!Says, Page!Cached, Page!Generation
<1>6. CASE Page!Publish(d)
  <2>1. holder = d /\ d # None
    BY <1>6, PageConstants DEF Page!Publish, ReadinessInv, Page!TypeOK
  <2>2. ready \/ working # None
    BY <1>4, <1>6 DEF Page!Publish
  <2>3. QED
    BY <1>1, <2>1, <2>2
<1>7. CASE Page!TimeOut(d)
  BY <1>4, <1>7 DEF Page!TimeOut
<1>8. CASE Page!Ask(d) \/ Page!Leave(d)
  BY <1>4, <1>8 DEF Page!Ask, Page!Leave
<1>9. CASE Page!Begin(d) \/ Page!ReadActive(d) \/ Page!ReadStatus(d) \/ Page!Recheck(d) \/ Page!ReadClaim(d)
  BY <1>4, <1>9
  DEF Page!Begin, Page!ReadActive, Page!ReadStatus, Page!Recheck, Page!ReadClaim, Page!Rechecked
<1>10. CASE Page!Accept(d) \/ Page!Verify(d) \/ Page!Fail(d)
  BY <1>4, <1>10 DEF Page!Accept, Page!Verify, Page!Fail
<1>11. QED
  BY <1>3, <1>5, <1>6, <1>7, <1>8, <1>9, <1>10 DEF Page!Probe

\* A probe fails for a cause.
LEMMA FailedForCause ==
  ASSUME ReadinessInv, [Page!Next]_(Page!vars)
  PROVE  Page!FailsForCause
<1> SUFFICES ASSUME NEW c \in Callers, at[c] # "failed", at'[c] = "failed"
             PROVE  probe'.down \/ probe'.ended \/ Page!Unsettled
  BY DEF Page!FailsForCause
<1>1. at' # at
  OBVIOUS
<1>2. PICK d \in Callers : Page!Ask(d) \/ Page!Probe(d) \/ Page!TimeOut(d) \/ Page!Leave(d)
  BY <1>1
  DEF Page!Next, Page!vars, Page!Generate, Page!Ensure, Page!InitStatus, Page!InitVerify,
      Page!InitDone, Page!Acquire, Page!MarkFailed, Page!Write, Page!Remember, Page!Refused,
      Page!Abandon, Page!Unwrite, Page!Unmark, Page!Release, Page!Flip, Page!Tick
<1>3. \A where : Page!Goes(d, where) => c = d /\ where = "failed"
  BY DEF Page!Goes, ReadinessInv, Page!TypeOK
<1>4. /\ \A e \in Callers :
           at[e] \in {"recheck", "reclaim"} => probe.down \/ probe.ended \/ claim # "none"
      /\ holder # None => probe.down \/ (online /\ ~quarantined)
      /\ claim \in {"none", "failed", "written", "live"}
  BY DEF ReadinessInv, Found, Page!TypeOK
<1>5. CASE Page!Begin(d)
  <2>1. quarantined /\ probe' = [down |-> ~online \/ quarantined, ended |-> FALSE]
    BY <1>3, <1>5 DEF Page!Begin
  <2>2. QED
    BY <2>1
<1>6. CASE Page!ReadActive(d) \/ Page!ReadStatus(d)
  BY <1>3, <1>6 DEF Page!ReadActive, Page!ReadStatus, Page!Rechecked
<1>7. CASE Page!Recheck(d) \/ Page!ReadClaim(d)
  <2>1. /\ holder # None /\ probe' = probe
        /\ at[d] \in {"recheck", "reclaim"}
    BY <1>7, PageConstants DEF Page!Recheck, Page!ReadClaim, ReadinessInv, Page!TypeOK
  <2>2. (quarantined \/ working = None) \/ ~online \/ claim # "live"
    BY <1>3, <1>7 DEF Page!Recheck, Page!ReadClaim, Page!LiveClaim
  <2>3. QED
    BY <1>4, <2>1, <2>2 DEF Page!Unsettled
<1>8. CASE Page!Fresh(d) \/ Page!Publish(d) \/ Page!TimeOut(d)
  BY <1>3, <1>8 DEF Page!Fresh, Page!Says, Page!Publish, Page!TimeOut
<1>9. CASE Page!Ask(d) \/ Page!Leave(d)
  BY <1>3, <1>9 DEF Page!Ask, Page!Leave
<1>10. CASE Page!Accept(d) \/ Page!Verify(d) \/ Page!Fail(d)
  BY <1>3, <1>10 DEF Page!Accept, Page!Verify, Page!Fail
<1>11. QED
  BY <1>2, <1>5, <1>6, <1>7, <1>8, <1>9, <1>10 DEF Page!Probe

------------------------------------------------------------------------------
(***************************************************************************)
(* Whatever falls between the reads of a probe: a probe during which the   *)
(* model stayed online and no generation ended fails only while the        *)
(* supervisor is between two states of its claim, or holds one whose       *)
(* generation is gone (system_status.py 109-120); and the page says ready  *)
(* only of a model seen less than TTL ago, or that works (system_status.py *)
(* 55-83).                                                                 *)
(***************************************************************************)
THEOREM PageTellsTruth ==
  Page!Spec => /\ []Page!TypeOK
               /\ [][Page!FailsForCause]_(Page!vars)
               /\ [][Page!SaysRecent]_(Page!vars)
<1>1. ReadinessInv => Page!TypeOK
  BY DEF ReadinessInv
<1>2. QED
  BY InitReadiness, ReadinessStep, FailedForCause, SaidReady, <1>1, PTL DEF Page!Spec

\* What a run of the page beside the supervisor does is what the page does.
LEMMA PageRuns ==
  ASSUME [Crashes \/ Operates \/ Shows]_<<part, vars, readiness>>
  PROVE  [Page!Next]_(Page!vars)
BY DEF Crashes, Operates, Shows, readiness, Page!vars

\* The two promises of the page in the run about the model.
THEOREM WorkingNotMissing == MCSpec => WorkingIsNotMissing
<1>1. MCInit => ReadinessInv
  BY InitReadiness DEF MCInit
<1>2. ReadinessInv /\ [Crashes \/ Operates \/ Shows]_<<part, vars, readiness>>
        => ReadinessInv' /\ [Page!FailsForCause]_readiness
  BY PageRuns, ReadinessStep, FailedForCause
<1>3. QED
  BY <1>1, <1>2, PTL DEF MCSpec, WorkingIsNotMissing

THEOREM ReadySeen == MCSpec => ReadyIsRecent
<1>1. MCInit => ReadinessInv
  BY InitReadiness DEF MCInit
<1>2. ReadinessInv /\ [Crashes \/ Operates \/ Shows]_<<part, vars, readiness>>
        => ReadinessInv' /\ [Page!SaysRecent]_readiness
  BY PageRuns, ReadinessStep, SaidReady
<1>3. QED
  BY <1>1, <1>2, PTL DEF MCSpec, ReadyIsRecent

------------------------------------------------------------------------------
(* The inference runtime.                                                  *)

\* The thread works for whoever holds the slot, on a Future it has started.
Held ==
  worker.job # None => slot = worker.job /\ future[worker.job] # "pending"

\* A computation that waits for the thread holds the slot.
PendingHolds == \A w \in Waiters : future[w] = "pending" => slot = w

\* A child is alive where the thread looks after it, or admission is closed.
ChildWatched ==
  Slot!Alive =>
    \/ closed
    \/ worker.at \in {"spawned", "exchange", "confirm", "confirm-error",
                      "confirm-uncertain", "uncertain"}

\* The inductive invariant.
RuntimeInv == Slot!TypeOK /\ Held /\ PendingHolds /\ ChildWatched /\ Slot!AnsweredIsFree

Places == {"batch", "spawned", "exchange", "confirm", "confirm-error",
           "confirm-uncertain", "uncertain", "ok", "error", "callback"}
Holding == [job : Waiters, left : 1..MaxBatches, at : Places]

USE SlotAssumption DEF Slot!RuntimeAssumption

LEMMA InitRuntime == Slot!Init => RuntimeInv
<1> SUFFICES ASSUME Slot!Init PROVE RuntimeInv
  OBVIOUS
<1>1. Slot!TypeOK
  <2>1. closed \in BOOLEAN
    BY DEF Slot!Init
  <2>2. 0 \in 0..MaxJobs
    OBVIOUS
  <2>3. QED
    BY <2>1, <2>2 DEF Slot!Init, Slot!TypeOK
<1>2. Held /\ PendingHolds /\ ChildWatched /\ Slot!AnsweredIsFree
  BY DEF Slot!Init, Held, PendingHolds, ChildWatched, Slot!AnsweredIsFree, Slot!Alive, Slot!Free
<1>3. QED
  BY <1>1, <1>2 DEF RuntimeInv

\* The thread is free, or it is somewhere with a job.
LEMMA WorkerTyped ==
  ASSUME Slot!TypeOK
  PROVE  /\ worker = Slot!Free \/ worker \in Holding
         /\ worker.job = None <=> worker = Slot!Free
         /\ worker.at \in Places => worker \in Holding
         /\ worker \in Holding => \A place \in Places : [worker EXCEPT !.at = place] \in Holding
<1>1. worker = Slot!Free \/ worker \in Holding
  BY DEF Slot!TypeOK, Holding, Places
<1>2. worker \in Holding => worker.job \in Waiters
  BY DEF Holding
<1>3. Slot!Free.job = None /\ Slot!Free.at = "idle"
  BY DEF Slot!Free
<1>4. worker \in Holding => \A place \in Places : [worker EXCEPT !.at = place] \in Holding
  BY DEF Holding
<1>5. worker.at \in Places => worker \in Holding
  BY <1>1, <1>3 DEF Places
<1>6. QED
  BY <1>1, <1>2, <1>3, <1>4, <1>5

------------------------------------------------------------------------------
(* The event loop.                                                         *)

LEMMA LoopStep ==
  ASSUME RuntimeInv,
         \/ \E w \in Waiters : Slot!Submit(w) \/ Slot!Refuse(w) \/ Slot!Cancel(w) \/ Slot!Return(w) \/ Slot!Again(w)
         \/ Slot!Close
  PROVE  RuntimeInv'
<1> USE DEF RuntimeInv, Held, PendingHolds, Slot!AnsweredIsFree
<1>t. /\ slot \in Waiters \union {None} /\ jobs \in 0..MaxJobs
      /\ waiter \in [Waiters -> {"idle", "waiting", "answered", "failed", "detached", "refused"}]
      /\ future \in [Waiters -> {"none", "pending", "running", "ok", "error", "cancelled"}]
  BY DEF Slot!TypeOK
<1>1. ASSUME NEW w \in Waiters, Slot!Submit(w)
      PROVE  RuntimeInv'
  <2>1. Slot!TypeOK'
    BY <1>1 DEF Slot!Submit, Slot!TypeOK
  <2>2. Held' /\ PendingHolds' /\ Slot!AnsweredIsFree'
    BY <1>t, <1>1 DEF Slot!Submit
  <2>3. ChildWatched'
    BY <1>1 DEF Slot!Submit, ChildWatched, Slot!Alive
  <2>4. QED
    BY <2>1, <2>2, <2>3
<1>2. ASSUME NEW w \in Waiters, Slot!Refuse(w)
      PROVE  RuntimeInv'
  BY <1>t, <1>2 DEF Slot!Refuse, Slot!TypeOK, ChildWatched, Slot!Alive
<1>3. ASSUME NEW w \in Waiters, Slot!Cancel(w)
      PROVE  RuntimeInv'
  <2>1. Slot!TypeOK'
    BY <1>3 DEF Slot!Cancel, Slot!TypeOK
  <2>2. Held' /\ PendingHolds' /\ Slot!AnsweredIsFree'
    BY <1>t, <1>3, WorkerTyped DEF Slot!Cancel, Slot!FreedByCancel, Holding
  <2>3. ChildWatched'
    BY <1>3 DEF Slot!Cancel, ChildWatched, Slot!Alive
  <2>4. QED
    BY <2>1, <2>2, <2>3
<1>4. ASSUME NEW w \in Waiters, Slot!Return(w)
      PROVE  RuntimeInv'
  BY <1>t, <1>4 DEF Slot!Return, Slot!Observed, Slot!TypeOK, ChildWatched, Slot!Alive
<1>5. ASSUME NEW w \in Waiters, Slot!Again(w)
      PROVE  RuntimeInv'
  <2>1. Slot!TypeOK'
    BY <1>5 DEF Slot!Again, Slot!TypeOK
  <2>2. Held' /\ PendingHolds' /\ Slot!AnsweredIsFree'
    BY <1>t, <1>5 DEF Slot!Again
  <2>3. ChildWatched'
    BY <1>5 DEF Slot!Again, ChildWatched, Slot!Alive
  <2>4. QED
    BY <2>1, <2>2, <2>3
<1>6. CASE Slot!Close
  <2>1. Slot!TypeOK'
    BY <1>6 DEF Slot!Close, Slot!TypeOK
  <2>2. Held' /\ PendingHolds' /\ Slot!AnsweredIsFree'
    BY <1>t, <1>6 DEF Slot!Close
  <2>3. ChildWatched'
    BY <1>6 DEF Slot!Close, ChildWatched
  <2>4. QED
    BY <2>1, <2>2, <2>3
<1>7. QED
  BY <1>1, <1>2, <1>3, <1>4, <1>5, <1>6

------------------------------------------------------------------------------
(* The executor's thread.                                                  *)

\* A move of the thread within its computation keeps the slot where it is.
LEMMA Moved ==
  ASSUME RuntimeInv, worker \in Holding, worker' \in Holding, worker'.job = worker.job,
         UNCHANGED <<slot, waiter, jobs>>,
         \A w \in Waiters : future'[w] = "pending" <=> future[w] = "pending",
         future' \in [Waiters -> {"none", "pending", "running", "ok", "error", "cancelled"}],
         closed' \in BOOLEAN, closed => closed',
         child' \in {"none", "suspended", "running", "replied", "broken", "stuck"},
         watcher' \in {"off", "on", "expired", "over"},
         ChildWatched'
  PROVE  RuntimeInv'
<1>1. worker.job \in Waiters
  BY DEF Holding
<1>2. Slot!TypeOK'
  BY DEF RuntimeInv, Slot!TypeOK, Holding, Places
<1>3. Held' /\ PendingHolds' /\ Slot!AnsweredIsFree'
  BY <1>1 DEF RuntimeInv, Held, PendingHolds, Slot!AnsweredIsFree
<1>4. QED
  BY <1>2, <1>3 DEF RuntimeInv

LEMMA WorkStep == ASSUME RuntimeInv, Slot!Work PROVE RuntimeInv'
<1>0. Slot!TypeOK /\ ChildWatched
  BY DEF RuntimeInv
<1>t. /\ closed \in BOOLEAN /\ watcher \in {"off", "on", "expired", "over"}
      /\ child \in {"none", "suspended", "running", "replied", "broken", "stuck"}
      /\ future \in [Waiters -> {"none", "pending", "running", "ok", "error", "cancelled"}]
  BY DEF RuntimeInv, Slot!TypeOK
<1>b. ASSUME worker.at \in Places
      PROVE  /\ worker \in Holding
             /\ \A place \in Places :
                  Slot!Goes(place) => worker' \in Holding /\ worker'.job = worker.job /\ worker'.at = place
  <2>1. worker \in Holding
    BY <1>0, <1>b, WorkerTyped
  <2>2. QED
    BY <2>1 DEF Slot!Goes, Holding
<1>1. CASE Slot!Take
  <2>1. PICK w \in Waiters, n \in 1..MaxBatches :
          /\ future[w] = "pending"
          /\ future' = [future EXCEPT ![w] = "running"]
          /\ worker' = [job |-> w, at |-> "batch", left |-> n]
    BY <1>1 DEF Slot!Take
  <2>2. worker' \in Holding /\ worker'.job = w
    BY <2>1 DEF Holding, Places
  <2>3. Slot!TypeOK'
    BY <1>0, <1>1, <2>1, <2>2 DEF Slot!Take, Slot!TypeOK, Holding, Places
  <2>4. Held' /\ PendingHolds' /\ Slot!AnsweredIsFree'
    BY <1>t, <1>1, <2>1, <2>2 DEF Slot!Take, RuntimeInv, Held, PendingHolds, Slot!AnsweredIsFree
  <2>5. ChildWatched'
    BY <1>0, <1>1 DEF Slot!Take, ChildWatched, Slot!Alive, Slot!Free
  <2>6. QED
    BY <2>3, <2>4, <2>5 DEF RuntimeInv
<1>2. CASE Slot!StartBatch
  <2>1. worker.at = "batch" /\ worker \in Holding
    BY <1>2, <1>b DEF Slot!StartBatch, Places
  <2>2. CASE ~closed /\ child' = "suspended" /\ Slot!Goes("spawned")
    BY <1>2, <1>t, <1>b, <2>1, <2>2, Moved DEF Slot!StartBatch, ChildWatched, Places
  <2>3. CASE UNCHANGED child /\ Slot!Goes("error")
    BY <1>2, <1>0, <1>t, <1>b, <2>1, <2>3, Moved DEF Slot!StartBatch, ChildWatched, Slot!Alive, Places
  <2>4. QED
    BY <1>2, <2>2, <2>3 DEF Slot!StartBatch
<1>3. CASE Slot!Resume
  <2>1. worker.at = "spawned" /\ worker \in Holding
    BY <1>3, <1>b DEF Slot!Resume, Places
  <2>2. CASE child' = "running" /\ watcher' = "on" /\ Slot!Goes("exchange")
    BY <1>3, <1>t, <1>b, <2>1, <2>2, Moved DEF Slot!Resume, ChildWatched, Places
  <2>3. CASE Slot!Goes("confirm-error") /\ UNCHANGED <<child, watcher>>
    BY <1>3, <1>t, <1>b, <2>1, <2>3, Moved DEF Slot!Resume, ChildWatched, Places
  <2>4. QED
    BY <1>3, <2>2, <2>3 DEF Slot!Resume
<1>4. CASE Slot!Exchange
  <2>1. worker.at = "exchange" /\ worker \in Holding /\ ~Slot!Alive
    BY <1>4, <1>b DEF Slot!Exchange, Places, Slot!Alive
  <2>2. ChildWatched'
    BY <1>4, <2>1 DEF Slot!Exchange, ChildWatched, Slot!Alive
  <2>3. \E place \in Places : Slot!Goes(place)
    BY <1>4 DEF Slot!Exchange, Places
  <2>4. QED
    BY <1>4, <1>t, <1>b, <2>1, <2>2, <2>3, Moved DEF Slot!Exchange, Places
<1>5. CASE Slot!Confirm
  <2>1. worker.at \in {"confirm", "confirm-error", "confirm-uncertain"} /\ worker \in Holding
    BY <1>5, <1>b DEF Slot!Confirm, Places
  <2>2. child' \in {"none", "suspended", "running", "replied", "broken", "stuck"}
    BY <1>5, <1>t DEF Slot!Confirm, Slot!Kill
  <2>3. CASE Slot!Goes("uncertain")
    BY <1>5, <1>t, <1>b, <2>1, <2>2, <2>3, Moved DEF Slot!Confirm, ChildWatched, Places
  <2>4. CASE child' \notin {"stuck"} /\ ~Slot!Goes("uncertain")
    <3>1. ~Slot!Alive'
      BY <1>5, <2>4 DEF Slot!Confirm, Slot!Kill, Slot!Alive
    <3>2. worker' \in Holding /\ worker'.job = worker.job
      <4>1. CASE worker.at = "confirm" /\ ~Slot!LastBatch
        <5>1. worker' = [worker EXCEPT !.at = "batch", !.left = @ - 1]
          BY <1>5, <2>4, <4>1 DEF Slot!Confirm
        <5>2. worker.left \in 1..MaxBatches /\ worker.left # 1
          BY <2>1, <4>1 DEF Holding, Slot!LastBatch
        <5>3. worker.left - 1 \in 1..MaxBatches
          BY <5>2
        <5>4. QED
          BY <2>1, <5>1, <5>3 DEF Holding, Places
      <4>2. CASE ~(worker.at = "confirm" /\ ~Slot!LastBatch)
        <5>1. Slot!Goes("ok") \/ Slot!Goes("error")
          BY <1>5, <2>1, <2>4, <4>2 DEF Slot!Confirm
        <5>2. QED
          BY <1>b, <2>1, <5>1 DEF Places
      <4>3. QED
        BY <4>1, <4>2
    <3>3. QED
      BY <1>5, <1>t, <2>1, <2>2, <3>1, <3>2, Moved DEF Slot!Confirm, ChildWatched
  <2>5. QED
    BY <1>5, <2>3, <2>4 DEF Slot!Confirm
<1>6. CASE Slot!Doubted
  <2>1. worker.at = "uncertain" /\ worker \in Holding /\ closed' = TRUE
    BY <1>6, <1>b DEF Slot!Doubted, Slot!Doubt, Places
  <2>2. QED
    BY <1>6, <1>t, <1>b, <2>1, Moved DEF Slot!Doubted, ChildWatched, Places
<1>7. CASE Slot!Finish
  <2>1. worker.at \in {"ok", "error"} /\ worker \in Holding /\ worker.job \in Waiters
    BY <1>7, <1>b DEF Slot!Finish, Places, Holding
  <2>2. future[worker.job] # "pending"
    BY <2>1 DEF RuntimeInv, Held
  <2>3. /\ future' \in [Waiters -> {"none", "pending", "running", "ok", "error", "cancelled"}]
        /\ \A w \in Waiters : future'[w] = "pending" <=> future[w] = "pending"
    BY <1>7, <1>t, <2>1, <2>2 DEF Slot!Finish
  <2>4. ChildWatched'
    BY <1>0, <1>7, <2>1 DEF Slot!Finish, ChildWatched, Slot!Alive
  <2>5. QED
    BY <1>7, <1>t, <1>b, <2>1, <2>3, <2>4, Moved DEF Slot!Finish, Places
<1>8. CASE Slot!Completed
  <2>1. worker.at = "callback" /\ worker \in Holding /\ worker.job \in Waiters
    BY <1>8, <1>b DEF Slot!Completed, Places, Holding
  <2>2. slot = worker.job /\ future[worker.job] # "pending"
    BY <2>1 DEF RuntimeInv, Held
  <2>3. Slot!TypeOK'
    BY <1>0, <1>8 DEF Slot!Completed, Slot!Freed, Slot!TypeOK
  <2>4. Held' /\ PendingHolds' /\ Slot!AnsweredIsFree'
    BY <1>8, <2>2 DEF Slot!Completed, Slot!Freed, Slot!Free, RuntimeInv, Held, PendingHolds, Slot!AnsweredIsFree
  <2>5. ChildWatched'
    BY <1>0, <1>8, <2>1 DEF Slot!Completed, ChildWatched, Slot!Alive
  <2>6. QED
    BY <2>3, <2>4, <2>5 DEF RuntimeInv
<1>9. QED
  BY <1>1, <1>2, <1>3, <1>4, <1>5, <1>6, <1>7, <1>8 DEF Slot!Work

------------------------------------------------------------------------------
(* The child and its watcher.                                              *)

LEMMA ChildStep == ASSUME RuntimeInv, Slot!Exit \/ Slot!Expire \/ Slot!Terminate PROVE RuntimeInv'
<1> USE DEF RuntimeInv
<1>1. CASE Slot!Exit
  BY <1>1 DEF Slot!Exit, Slot!TypeOK, Held, PendingHolds, Slot!AnsweredIsFree, ChildWatched, Slot!Alive
<1>2. CASE Slot!Expire
  BY <1>2 DEF Slot!Expire, Slot!TypeOK, Held, PendingHolds, Slot!AnsweredIsFree, ChildWatched, Slot!Alive
<1>3. CASE Slot!Terminate
  BY <1>3 DEF Slot!Terminate, Slot!TerminateJob, Slot!Kill, Slot!TypeOK, Held, PendingHolds, Slot!AnsweredIsFree,
              ChildWatched, Slot!Alive
<1>4. QED
  BY <1>1, <1>2, <1>3

LEMMA NextRuntime == RuntimeInv /\ [Slot!Next]_(Slot!vars) => RuntimeInv'
<1>1. ASSUME RuntimeInv, UNCHANGED Slot!vars
      PROVE  RuntimeInv'
  BY <1>1 DEF Slot!vars, RuntimeInv, Slot!TypeOK, Held, PendingHolds, Slot!AnsweredIsFree, ChildWatched, Slot!Alive
<1>2. QED
  BY <1>1, LoopStep, WorkStep, ChildStep DEF Slot!Next

\* What the invariant says of the slot.
LEMMA RuntimeTold == RuntimeInv => Slot!SlotInv
<1> SUFFICES ASSUME RuntimeInv PROVE Slot!SlotInv
  OBVIOUS
<1>1. Slot!TypeOK /\ Held /\ ChildWatched /\ Slot!AnsweredIsFree
  BY DEF RuntimeInv
<1>2. Slot!Alive => worker.job # None \/ closed
  BY <1>1, WorkerTyped DEF ChildWatched, Slot!Free
<1>3. QED
  BY <1>1, <1>2 DEF Slot!SlotInv, Slot!PhysicalBound, Held

\* However many waiters give up, time out or come back: one computation at a
\* time, capacity never given away under running work, and a free slot for who
\* has been answered (inference_runtime.py 151-186, e5_process.py 39-69).
THEOREM RuntimeBounded == Slot!Spec => []Slot!SlotInv
BY InitRuntime, NextRuntime, RuntimeTold, PTL DEF Slot!Spec

\* The same of the runtime among the children of the API.
THEOREM SlotBoundsWork == ChildrenSpec => []SlotInv
<1>1. ChildrenInit => RuntimeInv
  BY InitRuntime DEF ChildrenInit
<1>2. ASSUME RuntimeInv, [Embeds \/ Parses \/ Supervises \/ Polls]_children
      PROVE  RuntimeInv'
  <2>1. Slot!Next \/ UNCHANGED Slot!vars
    BY <1>2 DEF Embeds, Parses, Supervises, Polls, children, inference, Slot!vars
  <2>2. QED
    BY <1>2, <2>1, NextRuntime
<1>3. RuntimeInv => SlotInv
  BY RuntimeTold DEF SlotInv
<1>4. QED
  BY <1>1, <1>2, <1>3, PTL DEF ChildrenSpec

------------------------------------------------------------------------------
(* The supervision of a parser.                                            *)

\* A response read to its end is all that its parser will ever have written.
ReadToEnd ==
  reader.at = "done" /\ ~reader.failed => reader.data = written /\ root # "running"

\* The end is asked for only of a parser that is over, nobody reads on after it was
\* found, and none is found before the start.
Settled ==
  /\ sup = "end" => root # "running"
  /\ outcome \in {"answer", "failure"} => reader.at = "done" /\ root # "running"
  /\ sup = "start" => outcome = "none" /\ sampled = {}
  /\ outcome = "500" => ~contained /\ sampled = {} /\ sup \in {"abandoned", "returned"}

\* From the kill on nobody is born, and after the check a survivor is told of.
Reaped ==
  /\ sup \in {"check", "join", "returned"} => root # "running"
  /\ sup \in {"join", "returned"} /\ outcome # "503" => Parser!Living \intersect Parser!Owned = {}
  /\ sup = "abandoned" => outcome \in {"500", "503"}

\* The inductive invariant.
SupervisionInv == Parser!TypeOK /\ ReadToEnd /\ Settled /\ Reaped

Readers == [at : {"off", "reading", "done"}, data : 0..MaxChunks, failed : BOOLEAN]

LEMMA InitSupervision == ASSUME Parser!Init PROVE SupervisionInv
<1> USE ParserAssumption DEF Parser!Init, Parser!SupervisionAssumption
<1>1. reader \in Readers
  BY DEF Readers
<1>0. 0 \in 0..MaxWritten
  OBVIOUS
<1>e. expired \in BOOLEAN
  OBVIOUS
<1>2. Parser!TypeOK
  BY <1>0, <1>e, <1>1 DEF Parser!TypeOK, Readers
<1>3. ReadToEnd /\ Settled /\ Reaped
  BY DEF ReadToEnd, Settled, Reaped
<1>4. QED
  BY <1>2, <1>3 DEF SupervisionInv

------------------------------------------------------------------------------
(* The parser and the threads.                                             *)

\* Children only die once their parser is over.
LEMMA TreeStep ==
  ASSUME SupervisionInv,
         Parser!Write \/ Parser!ExitRoot \/ \E k \in Kids : Parser!Fork(k) \/ Parser!ExitKid(k)
  PROVE  SupervisionInv'
<1> USE DEF SupervisionInv, ReadToEnd, Settled
<1>0. UNCHANGED <<contained, sampled, writer, reader, expired, sup, outcome>>
  BY DEF Parser!Write, Parser!ExitRoot, Parser!Fork, Parser!ExitKid
<1>1. Parser!TypeOK'
  <2>1. root' \in {"running", "answered", "failed", "killed"}
    BY DEF Parser!Write, Parser!ExitRoot, Parser!Fork, Parser!ExitKid, Parser!TypeOK
  <2>2. kid' \in [Kids -> {"none", "alive", "dead"}]
    BY DEF Parser!Write, Parser!ExitRoot, Parser!Fork, Parser!ExitKid, Parser!TypeOK
  <2>3. written' \in 0..MaxWritten
    BY ParserAssumption
    DEF Parser!Write, Parser!ExitRoot, Parser!Fork, Parser!ExitKid, Parser!TypeOK,
        Parser!SupervisionAssumption
  <2>4. QED
    BY <1>0, <2>1, <2>2, <2>3 DEF Parser!TypeOK
<1>2. ReadToEnd' /\ Settled'
  BY DEF Parser!Write, Parser!ExitRoot, Parser!Fork, Parser!ExitKid
<1>3. Reaped'
  BY DEF Parser!Write, Parser!ExitRoot, Parser!Fork, Parser!ExitKid, Reaped, Parser!Living,
     Parser!Owned, Parser!TypeOK
<1>4. QED
  BY <1>1, <1>2, <1>3

LEMMA PipeStep ==
  ASSUME SupervisionInv,
         Parser!WriterDone \/ Parser!Read \/ Parser!BreakOff \/ Parser!EndOfFile \/ Parser!Expire
  PROVE  SupervisionInv'
<1> USE DEF SupervisionInv, ReadToEnd, Settled
<1>1. UNCHANGED <<Parser!parser, sampled, sup, outcome>>
  BY DEF Parser!WriterDone, Parser!Read, Parser!BreakOff, Parser!EndOfFile, Parser!Expire
<1>2. Reaped'
  BY <1>1 DEF Reaped, Parser!Living, Parser!Owned, Parser!parser
<1>3. reader \in Readers /\ MaxChunks \in Nat /\ written \in Nat
  BY ParserAssumption DEF Parser!TypeOK, Readers, Parser!SupervisionAssumption
<1>4. reader' \in Readers /\ ReadToEnd' /\ Settled'
  <2>1. CASE Parser!WriterDone \/ Parser!Expire
    BY <1>3, <2>1 DEF Parser!WriterDone, Parser!Expire, Parser!parser
  <2>2. CASE Parser!Read
    <3>1. CASE Parser!TooMuch(reader.data + 1)
      BY <1>3, <2>2, <3>1 DEF Parser!Read, Readers, Parser!parser
    <3>2. CASE ~Parser!TooMuch(reader.data + 1)
      BY <1>3, <2>2, <3>2 DEF Parser!Read, Parser!TooMuch, Readers, Parser!parser
    <3>3. QED
      BY <3>1, <3>2
  <2>3. CASE Parser!EndOfFile
    BY <1>3, <2>3 DEF Parser!EndOfFile, Parser!PipeOpen, Readers, Parser!parser
  <2>4. CASE Parser!BreakOff
    BY <1>3, <2>4 DEF Parser!BreakOff, Readers, Parser!parser
  <2>5. QED
    BY <2>1, <2>2, <2>3, <2>4
<1>5. writer' \in {"off", "writing", "done"} /\ expired' \in BOOLEAN
  BY DEF Parser!WriterDone, Parser!Read, Parser!BreakOff, Parser!EndOfFile, Parser!Expire,
     Parser!TypeOK
<1>6. Parser!TypeOK'
  BY <1>1, <1>4, <1>5 DEF Parser!TypeOK, Readers, Parser!parser
<1>7. QED
  BY <1>2, <1>4, <1>6

------------------------------------------------------------------------------
(* The supervisor.                                                         *)

LEMMA SuperviseStep == ASSUME SupervisionInv, Parser!Supervise PROVE SupervisionInv'
<1> USE DEF SupervisionInv, ReadToEnd, Settled, Reaped
<1>0. reader \in Readers
  BY DEF Parser!TypeOK, Readers
<1>1. CASE Parser!Start
  <2>1. (reader' \in Readers /\ reader'.at # "done") \/ reader' = reader
    BY <1>0, <1>1 DEF Parser!Start, Readers
  <2>2. Parser!TypeOK'
    BY <1>0, <1>1 DEF Parser!Start, Parser!TypeOK, Parser!parser, Readers
  <2>3. QED
    BY <1>1, <2>1, <2>2 DEF Parser!Start, Parser!parser
<1>2. CASE Parser!Poll
  <2>0. UNCHANGED <<Parser!parser, writer, reader, expired>>
    BY <1>2 DEF Parser!Poll, Parser!AskOutput, Parser!AskStatus, Parser!AskEnd, Parser!AskMemory
  <2>1. sampled' \subseteq Kids
    BY <1>2 DEF Parser!Poll, Parser!AskOutput, Parser!AskStatus, Parser!AskEnd, Parser!AskMemory,
                Parser!Seen, Parser!Living, Parser!TypeOK
  <2>2. /\ sup \in {"poll", "status", "end", "memory"}
        /\ sup' \in {"poll", "status", "end", "memory", "collect"}
        /\ sup' = "end" => root # "running"
        /\ outcome' \in {"answer", "failure", "422", "503"} \/ outcome' = outcome
        /\ \/ outcome' \notin {"answer", "failure"} \/ outcome' = outcome
           \/ reader.at = "done" /\ root # "running"
    BY <1>2 DEF Parser!Poll, Parser!AskOutput, Parser!AskStatus, Parser!AskEnd, Parser!AskMemory,
                Parser!Ended
  <2>3. Parser!TypeOK'
    BY <2>0, <2>1, <2>2 DEF Parser!TypeOK, Parser!parser
  <2>4. QED
    BY <2>0, <2>2, <2>3 DEF Parser!parser
<1>3. CASE Parser!Collect
  BY <1>3 DEF Parser!Collect, Parser!Seen, Parser!Living, Parser!TypeOK, Parser!parser
<1>4. CASE Parser!Kill
  BY <1>4 DEF Parser!Kill, Parser!TypeOK
<1>5. CASE Parser!GiveUp
  BY <1>5 DEF Parser!GiveUp, Parser!TypeOK
<1>6. CASE Parser!Await
  BY <1>6 DEF Parser!Await, Parser!TypeOK, Parser!parser, Parser!Living, Parser!Owned
<1>7. CASE Parser!Check
  BY <1>7 DEF Parser!Check, Parser!Alive, Parser!Living, Parser!Owned, Parser!TypeOK, Parser!parser
<1>8. CASE Parser!Join
  BY <1>8 DEF Parser!Join, Parser!Living, Parser!Owned, Parser!TypeOK, Parser!parser
<1>9. QED
  BY <1>1, <1>2, <1>3, <1>4, <1>5, <1>6, <1>7, <1>8 DEF Parser!Supervise

LEMMA NextSupervision == SupervisionInv /\ [Parser!Next]_(Parser!vars) => SupervisionInv'
<1>1. ASSUME SupervisionInv, UNCHANGED Parser!vars
      PROVE  SupervisionInv'
  BY <1>1 DEF Parser!vars, SupervisionInv, Parser!TypeOK, ReadToEnd, Settled, Reaped,
     Parser!Living, Parser!Owned
<1>2. QED
  BY <1>1, TreeStep, PipeStep, SuperviseStep DEF Parser!Next

\* A response handed on is final, and all that the parser wrote unless the reader
\* failed.  The parser outlives no return, and no process of its tree, as far as the
\* supervisor can know it, one that does not say 503 (docx_process.py 144-217,
\* pdf_process.py 100-129).
THEOREM ParserReaped == Parser!Spec => []Parser!NothingIsLeft
<1>1. SupervisionInv => Parser!NothingIsLeft
  BY DEF SupervisionInv, ReadToEnd, Settled, Reaped, Parser!NothingIsLeft, Parser!WholeAnswer,
     Parser!NoSurvivor, Parser!Owned
<1>2. QED
  BY InitSupervision, NextSupervision, <1>1, PTL DEF Parser!Spec

------------------------------------------------------------------------------
(* Both among the children of the API.                                     *)

\* The same of the parser among the other children of the API.
THEOREM ParserLeavesNothing == ChildrenSpec => []NothingIsLeft
<1>1. ChildrenInit => SupervisionInv
  BY InitSupervision DEF ChildrenInit
<1>2. ASSUME SupervisionInv, [Embeds \/ Parses \/ Supervises \/ Polls]_children
      PROVE  SupervisionInv'
  <2>1. Parser!Next \/ UNCHANGED Parser!vars
    BY <1>2 DEF Embeds, Parses, Supervises, Polls, children, parser, Parser!vars
  <2>2. QED
    BY <1>2, <2>1, NextSupervision
<1>3. SupervisionInv => NothingIsLeft
  BY DEF SupervisionInv, ReadToEnd, Settled, Reaped, NothingIsLeft, Parser!NothingIsLeft,
     Parser!WholeAnswer, Parser!NoSurvivor, Parser!Owned
<1>4. QED
  BY <1>1, <1>2, <1>3, PTL DEF ChildrenSpec
==============================================================================
