----------------------------- MODULE RunLifecycle -----------------------------
(***************************************************************************)
(* The durable life of a demo evaluation run.  A command reserves the      *)
(* directory, takes the owner lock of the operating system, asks the       *)
(* scheduled units one after the other and writes, for each, a marker      *)
(* before the question and the rows and the manifest after it.  It may die *)
(* between any two writes; a resuming command loads the files, proves      *)
(* which write was the last one and goes on.  After the lock is given back *)
(* a command loads the files once more, for its summary.                   *)
(***************************************************************************)
EXTENDS Naturals, Sequences, SequencesExt

CONSTANTS Commands,     \* commands over one output directory
          Units,        \* number of scheduled units
          Drifts,       \* what may change during the run
          None,
          SummaryApart  \* no command takes the lock during another's summary

Unit == 1..Units
Row == {"success", "error", "drift", "interrupted"}

\* The contents of manifest.json (a hash of rows is the rows; the counts follow
\* from them) and of active.json.
Envelopes ==
  [of : BoundedSeq(Row, Units), status : {"running", "completed", "failed", "invalid"},
   finished : BOOLEAN]
Markers == [unit : Unit, preceding : BoundedSeq(Row, Units)]

ASSUME RunAssumption ==
  /\ Units \in Nat /\ SummaryApart \in BOOLEAN
  /\ Drifts \subseteq {"runtime", "policy", "inputs"}
  /\ None \notin Commands \cup Envelopes \cup Markers

VARIABLES dir,      \* the directory exists
          rows,     \* records.jsonl
          manifest, \* manifest.json, or None
          marker,   \* active.json, or None
          owner,    \* who holds owner.lock, or None
          cmd,      \* the commands
          drift,    \* what is no longer as it was when the run was planned
          sent,     \* history: how often a unit's question was sent
          asked     \* history: what had drifted then

files == <<rows, manifest, marker>>
world == <<drift, sent, asked>>
vars == <<dir, rows, manifest, marker, owner, cmd, drift, sent, asked>>

Envelope(of, status) == [of |-> of, status |-> status, finished |-> FALSE]

Idle == [at |-> "idle", resume |-> FALSE, planned |-> TRUE, summing |-> FALSE,
         run |-> Envelope(<<>>, "running"), rows |-> <<>>, saw |-> None,
         then |-> "none"]

Init ==
  /\ dir = FALSE /\ rows = <<>> /\ manifest = None /\ marker = None
  /\ owner = None
  /\ cmd = [p \in Commands |-> Idle]
  /\ drift = {}
  /\ sent = [u \in Unit |-> 0] /\ asked = [u \in Unit |-> {}]

At(p, place) == cmd[p].at = place
Go(p, place) == cmd' = [cmd EXCEPT ![p].at = place]

\* An error or a death ends the command, and the system takes its lock back.
End(p) ==
  /\ cmd' = [cmd EXCEPT ![p] = Idle]
  /\ owner' = IF owner = p THEN None ELSE owner

\* The rows and then the manifest are written, and the command goes on there.
Checkpointing(p, run, all, there) ==
  cmd' = [cmd EXCEPT ![p].at = "rows", ![p].rows = all, ![p].then = there,
                     ![p].run = [run EXCEPT !.of = all]]

AllSuccess(all) == Len(all) = Units /\ \A u \in Unit : all[u] = "success"

StatusOf(all) == IF AllSuccess(all) THEN "completed" ELSE "failed"

finish_run(run, comparable) ==
  [run EXCEPT !.status = IF comparable THEN StatusOf(run.of) ELSE "invalid", !.finished = TRUE]

\* Nothing is compared with the plan but what each check reads.
unchanged == "inputs" \notin drift
RuntimeAsPlanned == drift \cap {"runtime", "policy"} = {}
GoldAsFrozen == drift \cap {"inputs", "policy"} = {}

------------------------------------------------------------------------------
(* Reservation and the lock.                                               *)

\* A command plans from the inputs it finds; the new run sets what is planned.
Start(p) ==
  /\ At(p, "idle")
  /\ \E resume \in BOOLEAN :
       /\ ~resume => drift = {}
       /\ cmd' = [cmd EXCEPT ![p] = [Idle EXCEPT !.at = "reserve", !.resume = resume,
                                                 !.planned = unchanged]]
  /\ UNCHANGED <<dir, files, owner, world>>

\* The directory is made by a new run only, and found by a resumed one.
Reserve(p) ==
  /\ At(p, "reserve")
  /\ IF cmd[p].resume = dir
     THEN dir' = TRUE /\ Go(p, "lock") /\ UNCHANGED owner
     ELSE End(p) /\ UNCHANGED dir
  /\ UNCHANGED <<files, world>>

\* A new run writes its first files, a resumed one loads the saved ones.
Enter(p) ==
  /\ owner' = p
  /\ IF cmd[p].resume
     THEN Go(p, "saved")
     ELSE Checkpointing(p, cmd[p].run, <<>>, "admit")

Quiet == SummaryApart => \A q \in Commands : ~cmd[q].summing

Lock(p) ==
  /\ At(p, "lock") /\ Quiet
  /\ IF owner = None THEN Enter(p) ELSE End(p)
  /\ UNCHANGED <<dir, files, world>>

------------------------------------------------------------------------------
(* The files.                                                              *)

WriteRows(p) ==
  /\ At(p, "rows")
  /\ rows' = cmd[p].rows
  /\ Go(p, "manifest")
  /\ UNCHANGED <<dir, manifest, marker, owner, world>>

WriteManifest(p) ==
  /\ At(p, "manifest")
  /\ manifest' = cmd[p].run
  /\ Go(p, cmd[p].then)
  /\ UNCHANGED <<dir, rows, marker, owner, world>>

LoadManifest(p) ==
  /\ At(p, "saved")
  /\ IF manifest = None \/ ~cmd[p].planned
     THEN End(p)
     ELSE /\ cmd' = [cmd EXCEPT ![p].at = "load", ![p].run = manifest]
          /\ UNCHANGED owner
  /\ UNCHANGED <<dir, files, world>>

LoadRows(p) ==
  /\ At(p, "load")
  /\ cmd' = [cmd EXCEPT ![p].at = "marker", ![p].rows = rows]
  /\ UNCHANGED <<dir, files, owner, world>>

\* The one window that explains rows that the manifest does not have.
Window(run, all, active) ==
  /\ active # None
  /\ Len(all) = Len(run.of) + 1
  /\ active.unit = Len(all) /\ active.preceding = run.of
  /\ Front(all) = run.of

\* load: the marker is read.
LoadMarker(p) ==
  /\ At(p, "marker")
  /\ cmd' = [cmd EXCEPT ![p].at = "reconcile", ![p].saw = marker]
  /\ UNCHANGED <<dir, files, owner, world>>

\* Mutant: the rows are taken back to what the manifest has.
RowsOfManifest(p) == cmd[p].run.of
RowsToKeep(p) == cmd[p].rows

\* load: the manifest is repaired, or the run refused.
Reconcile(p) ==
  /\ At(p, "reconcile")
  /\ CASE cmd[p].rows = cmd[p].run.of -> Go(p, "recover") /\ UNCHANGED owner
       [] cmd[p].rows # cmd[p].run.of /\ Window(cmd[p].run, cmd[p].rows, cmd[p].saw) ->
            Checkpointing(p, cmd[p].run, RowsToKeep(p), "recover") /\ UNCHANGED owner
       [] OTHER -> End(p)
  /\ UNCHANGED <<dir, files, world>>

WriteOff(p) == Checkpointing(p, cmd[p].run, Append(cmd[p].rows, "interrupted"), "clear")

\* _recover_active: a unit that may have been sent is never sent again.
Recover(p) ==
  LET all == cmd[p].rows
      saw == cmd[p].saw IN
  /\ At(p, "recover")
  /\ CASE saw = None -> Go(p, "loaded") /\ UNCHANGED owner
       [] saw # None /\ saw.unit = Len(all) + 1 /\ saw.preceding = cmd[p].run.of ->
            WriteOff(p) /\ UNCHANGED owner
       [] saw # None /\ saw.unit = Len(all) -> Go(p, "clear") /\ UNCHANGED owner
       [] OTHER -> End(p)
  /\ UNCHANGED <<dir, files, world>>

\* A marker that is gone is an error of unlink.
ClearRecovered(p) ==
  /\ At(p, "clear")
  /\ marker' = None
  /\ IF marker = None THEN End(p) ELSE Go(p, "loaded") /\ UNCHANGED owner
  /\ UNCHANGED <<dir, rows, manifest, world>>

\* A finished run is given back as it is; a summary needs no more.
Loaded(p) ==
  /\ At(p, "loaded")
  /\ CASE cmd[p].summing -> End(p)
       [] ~cmd[p].summing /\ cmd[p].run.finished /\ Len(cmd[p].rows) = Units ->
            Go(p, "leave") /\ UNCHANGED owner
       [] OTHER -> Go(p, "admit") /\ UNCHANGED owner
  /\ UNCHANGED <<dir, files, world>>

------------------------------------------------------------------------------
(* The schedule.                                                           *)

\* The target, its actors and every unit's evidence, before the first question.
Preflight == GoldAsFrozen

Admit(p) ==
  /\ At(p, "admit")
  /\ \/ Preflight /\ Go(p, "next")
     \/ cmd' = [cmd EXCEPT ![p].at = "manifest", ![p].run = finish_run(@, TRUE),
                           ![p].then = "leave"]
  /\ UNCHANGED <<dir, files, owner, world>>

NextUnit(p) == Len(cmd[p].rows) + 1

Begin(p) ==
  /\ At(p, "next") /\ NextUnit(p) \in Unit
  /\ marker' = [unit |-> NextUnit(p), preceding |-> cmd[p].rows]
  /\ Go(p, "verify")
  /\ UNCHANGED <<dir, rows, manifest, owner, world>>

\* The row of the unit is terminal, whatever it says.
Record(p, row) == Checkpointing(p, cmd[p].run, Append(cmd[p].rows, row), "unmark")

\* Before the question the runtime answers to its identity ...
Verify(p) ==
  /\ At(p, "verify")
  /\ \/ RuntimeAsPlanned /\ Go(p, "gold")
     \/ \E row \in {"error", "drift"} : Record(p, row)
  /\ UNCHANGED <<dir, files, owner, world>>

\* ... and the unit's evidence is what its actor can read in one snapshot.
CheckGold(p) ==
  /\ At(p, "gold")
  /\ \/ GoldAsFrozen /\ Go(p, "ask")
     \/ \E row \in {"error", "drift"} : Record(p, row)
  /\ UNCHANGED <<dir, files, owner, world>>

Ask(p) ==
  LET u == NextUnit(p) IN
  /\ At(p, "ask")
  /\ sent' = [sent EXCEPT ![u] = IF @ = 2 THEN 2 ELSE @ + 1]
  /\ asked' = [asked EXCEPT ![u] = drift]
  /\ Go(p, "asked")
  /\ UNCHANGED <<dir, files, owner, drift>>

Answer(p) ==
  /\ At(p, "asked")
  /\ Go(p, "check") \/ Record(p, "error")
  /\ UNCHANGED <<dir, files, owner, world>>

Check(p) ==
  /\ At(p, "check")
  /\ \E row \in {"success", "error", "drift"} : (row = "success" => RuntimeAsPlanned) /\ Record(p, row)
  /\ UNCHANGED <<dir, files, owner, world>>

\* A drift stops the schedule.
Unmark(p) ==
  /\ At(p, "unmark")
  /\ marker' = None
  /\ CASE marker = None -> End(p)
       [] marker # None /\ Last(cmd[p].rows) = "drift" -> Go(p, "finish") /\ UNCHANGED owner
       [] OTHER -> Go(p, "next") /\ UNCHANGED owner
  /\ UNCHANGED <<dir, rows, manifest, world>>

Finish(p) ==
  /\ At(p, "finish") \/ (At(p, "next") /\ NextUnit(p) \notin Unit)
  /\ cmd' = [cmd EXCEPT ![p].at = "manifest", ![p].run = finish_run(@, unchanged),
                        ![p].then = "leave"]
  /\ UNCHANGED <<dir, files, owner, world>>

\* The lock is given back; write_demo_summary loads the files without it.
Leave(p) ==
  /\ At(p, "leave")
  /\ owner' = None
  /\ cmd' = [cmd EXCEPT ![p] = [Idle EXCEPT !.at = "saved", !.summing = TRUE,
                                            !.planned = cmd[p].planned]]
  /\ UNCHANGED <<dir, files, world>>

------------------------------------------------------------------------------
(* The environment.                                                        *)

Crash(p) ==
  /\ ~At(p, "idle")
  /\ End(p)
  /\ UNCHANGED <<dir, files, world>>

Drift ==
  /\ \E d \in Drifts \ drift : drift' = drift \cup {d}
  /\ UNCHANGED <<dir, files, owner, cmd, sent, asked>>

Work(p) ==
  \/ Reserve(p) \/ Lock(p) \/ WriteRows(p) \/ WriteManifest(p)
  \/ LoadManifest(p) \/ LoadRows(p) \/ LoadMarker(p) \/ Reconcile(p) \/ Recover(p) \/ ClearRecovered(p)
  \/ Loaded(p) \/ Admit(p) \/ Begin(p) \/ Verify(p) \/ CheckGold(p) \/ Ask(p) \/ Answer(p) \/ Check(p)
  \/ Unmark(p) \/ Finish(p) \/ Leave(p)

Next == Drift \/ \E p \in Commands : Start(p) \/ Crash(p) \/ Work(p)

Spec == Init /\ [][Next]_vars

------------------------------------------------------------------------------
(* Properties.                                                             *)

TypeOK ==
  /\ dir \in BOOLEAN /\ drift \subseteq Drifts
  /\ rows \in BoundedSeq(Row, Units)
  /\ manifest \in Envelopes \cup {None}
  /\ marker \in Markers \cup {None}
  /\ owner \in Commands \cup {None}
  /\ sent \in [Unit -> 0..2] /\ asked \in [Unit -> SUBSET Drifts]
  /\ \A p \in Commands :
       cmd[p].run \in Envelopes /\ cmd[p].rows \in BoundedSeq(Row, Units)

(* A unit's question is sent at most once, over every command, death and   *)
(* resumption ("never replay an active, successful, or failed unit").      *)
AtMostOnce == \A u \in Unit : sent[u] <= 1

(* What was sent is never forgotten: the files hold its row or its marker, *)
(* wherever the commands died.                                             *)
SentIsOnDisk ==
  \A u \in Unit : sent[u] > 0 => u <= Len(rows) \/ (marker # None /\ marker.unit = u)

(* A row that counts as a success was asked of the runtime and the policy  *)
(* of the plan, and a unit is written off only when nobody asks it.        *)
RowsAreTrue ==
  \A u \in DOMAIN rows :
    /\ rows[u] = "success" => sent[u] > 0 /\ asked[u] \subseteq {"inputs"}
    /\ rows[u] = "interrupted" =>
         \A p \in Commands :
           cmd[p].at \in {"verify", "gold", "ask", "asked", "check"} => NextUnit(p) # u

(* Terminal rows are only added to.                                        *)
RowsKept == [][IsPrefix(rows, rows')]_vars

(* From the first manifest on, a run that nobody owns can be resumed:      *)
(* whichever write was the last one, load finds its window.                *)
Resumable ==
  (owner = None /\ manifest # None) =>
    /\ rows = manifest.of \/ Window(manifest, rows, marker)
    /\ marker # None =>
         marker.unit = Len(rows) \/ (marker.unit = Len(rows) + 1 /\ marker.preceding = rows)

(* A completed manifest is the manifest of a whole and successful run.     *)
CompletedIsWhole ==
  (manifest # None /\ manifest.status = "completed") => manifest.of = rows /\ AllSuccess(rows)

\* What the files and the commands never say otherwise.
RunInv == TypeOK /\ AtMostOnce /\ SentIsOnDisk /\ RowsAreTrue /\ Resumable /\ CompletedIsWhole
===============================================================================
