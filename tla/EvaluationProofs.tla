--------------------------- MODULE EvaluationProofs ---------------------------
(***************************************************************************)
(* Proofs about preparing and measuring the demonstration, for any number  *)
(* of commands, units, seeded objects and edits, any documents and any     *)
(* list of actions as a case.  First the files of a run, then the seeding, *)
(* then the trial of a case, and at the end what they show together.       *)
(***************************************************************************)
EXTENDS Evaluation, SequenceTheorems, TLAPS

----------------------------------------------------------------------------
(* The files of a run.                                                     *)

\* A command that has the files before it: behind the lock, or in its summary.
Active(p) == cmd[p].at \notin {"idle", "reserve", "lock"}

\* The command that made the directory.
Maker(p) == ~cmd[p].resume /\ ~cmd[p].summing /\ cmd[p].at \notin {"idle", "reserve"}

\* One command at a time has the files, one made the directory, and there is no
\* manifest before it wrote one.
Alone ==
  /\ \A p \in Commands : Active(p) => owner = IF cmd[p].summing THEN None ELSE p
  /\ \A p \in Commands : cmd[p].summing => Active(p)
  /\ \A p, q \in Commands : (cmd[p].summing /\ cmd[q].summing) => p = q
  /\ \A p, q \in Commands : (Maker(p) /\ Maker(q)) => p = q
  /\ ~dir => manifest = None /\ \A p \in Commands : cmd[p].at \in {"idle", "reserve"}
  /\ \A p \in Commands : (Maker(p) /\ cmd[p].at = "lock") => manifest = None

\* What load finds after any write: nothing, or its window.
Disk ==
  /\ manifest = None => rows = <<>> /\ marker = None /\ \A u \in Unit : sent[u] = 0
  /\ manifest # None =>
       /\ rows = manifest.of \/ Window(manifest, rows, marker)
       /\ marker # None => \/ marker.unit = Len(rows)
                           \/ marker.unit = Len(rows) + 1 /\ marker.preceding = rows

\* A success was asked, of the runtime and the policy of the plan.
Asked(all) == \A u \in DOMAIN all : all[u] = "success" => sent[u] > 0 /\ asked[u] \subseteq {"inputs"}

\* What a command has in its memory, and how far the files are.
HasRun(p) == manifest # None /\ cmd[p].run = manifest
Settled(p) == HasRun(p) /\ cmd[p].rows = rows /\ manifest.of = rows
Marked == marker # None /\ marker.unit = Len(rows) + 1 /\ marker.preceding = rows
Recorded == marker # None /\ marker.unit = Len(rows)
Growing(p) ==
  /\ manifest # None /\ manifest.of = rows /\ Marked
  /\ \E row \in Row : cmd[p].rows = Append(rows, row)

Asking == {"verify", "gold", "ask", "asked", "check"}
Between == {"loaded", "admit", "next", "finish", "leave"}

\* Where the checkpoint is, and what follows it.
Writing(p) ==
  /\ cmd[p].at \in {"rows", "manifest"} =>
       /\ cmd[p].run.of = cmd[p].rows /\ Asked(cmd[p].rows)
       /\ cmd[p].run.status = "completed" => AllSuccess(cmd[p].rows)
       /\ cmd[p].then = "admit" => Maker(p) /\ manifest = None /\ cmd[p].rows = <<>>
       /\ cmd[p].then = "recover" => cmd[p].saw = marker
       /\ cmd[p].then # "admit" => manifest # None
  /\ cmd[p].at = "rows" =>
       /\ cmd[p].then \in {"admit", "recover", "clear", "unmark"}
       /\ cmd[p].then = "recover" => cmd[p].rows = rows /\ Window(manifest, rows, marker)
       /\ cmd[p].then \in {"clear", "unmark"} => Growing(p)
  /\ cmd[p].at = "manifest" =>
       /\ cmd[p].then \in {"admit", "recover", "clear", "unmark", "leave"}
       /\ cmd[p].rows = rows
       /\ cmd[p].then \in {"recover", "clear", "unmark"} => Window(manifest, rows, marker)
       /\ cmd[p].then = "leave" => marker = None /\ manifest.of = rows

Place(p) ==
  /\ cmd[p].at \in {"reserve", "lock"} => cmd[p].run.status = "running"
  /\ cmd[p].at = "load" => HasRun(p)
  /\ cmd[p].at \in {"marker", "reconcile"} => HasRun(p) /\ cmd[p].rows = rows
  /\ cmd[p].at \in {"reconcile", "recover"} => cmd[p].saw = marker
  /\ cmd[p].at \in {"recover", "clear", "unmark"} \cup Between \cup Asking => Settled(p)
  /\ cmd[p].at \in Between => marker = None
  /\ cmd[p].at \in {"clear", "unmark"} => Recorded
  /\ cmd[p].at \in Asking => Marked
  /\ cmd[p].at \in {"verify", "gold", "ask"} => sent[Len(rows) + 1] = 0
  /\ cmd[p].at \in {"asked", "check"} => sent[Len(rows) + 1] = 1 /\ asked[Len(rows) + 1] \subseteq drift
  /\ Writing(p)

Stations ==
  {"idle", "reserve", "lock", "saved", "load", "marker", "reconcile", "recover", "rows", "manifest",
   "clear", "unmark"} \cup Between \cup Asking

Command ==
  [at : Stations, resume : BOOLEAN, planned : BOOLEAN, summing : BOOLEAN, run : Envelopes,
   rows : BoundedSeq(Row, Units), saw : Markers \cup {None}, 
   then : {"none", "admit", "recover", "clear", "unmark", "leave"}]

RunTypes == TypeOK /\ cmd \in [Commands -> Command]

\* What a client of the files is told.
Story == AtMostOnce /\ SentIsOnDisk /\ Asked(rows) /\ CompletedIsWhole

\* The inductive invariant.
RunIInv == RunTypes /\ Alone /\ Disk /\ Story /\ \A p \in Commands : Place(p)

\* Sequences of rows, and one more.
LEMMA RowsAre ==
  ASSUME NEW s
  PROVE  s \in BoundedSeq(Row, Units) <=> s \in Seq(Row) /\ Len(s) <= Units
<1> USE RunAssumption
<1>1. ASSUME s \in BoundedSeq(Row, Units) PROVE s \in Seq(Row) /\ Len(s) <= Units
  <2>1. PICK m \in 0..Units : s \in [1..m -> Row]
    BY <1>1 DEF BoundedSeq, SeqOf
  <2>2. QED
    BY <2>1
<1>2. ASSUME s \in Seq(Row), Len(s) <= Units PROVE s \in BoundedSeq(Row, Units)
  <2>1. s \in [1..Len(s) -> Row] /\ Len(s) \in 0..Units
    BY <1>2
  <2>2. QED
    BY <2>1 DEF BoundedSeq, SeqOf
<1>3. QED
  BY <1>1, <1>2

LEMMA OneMore ==
  ASSUME NEW s \in BoundedSeq(Row, Units), NEW e \in Row, Len(s) + 1 \in Unit
  PROVE  /\ Append(s, e) \in BoundedSeq(Row, Units)
         /\ Len(Append(s, e)) = Len(s) + 1
         /\ Front(Append(s, e)) = s
         /\ Append(s, e) # s
         /\ IsPrefix(s, Append(s, e))
         /\ \A u \in 1..Len(s) : Append(s, e)[u] = s[u]
         /\ Append(s, e)[Len(s) + 1] = e
<1>1. s \in Seq(Row) /\ Len(s) \in Nat
  BY RowsAre
<1>2. /\ Append(s, e) \in Seq(Row)
      /\ Len(Append(s, e)) = Len(s) + 1
      /\ \A u \in 1..Len(s) : Append(s, e)[u] = s[u]
      /\ Append(s, e)[Len(s) + 1] = e
  BY <1>1, AppendProperties
<1>3. SubSeq(Append(s, e), 1, Len(s)) = s /\ SubSeq(s, 1, Len(s)) = s
  <2>1. SubSeq(s, 1, Len(s)) = s
    BY <1>1, SubSeqFull
  <2>2. SubSeq(Append(s, e), 1, Len(s)) = s
    BY <1>1, <1>2
  <2>3. QED
    BY <2>1, <2>2
<1>4. Len(s) + 1 <= Units
  BY <1>1, RunAssumption DEF Unit
<1>5. Append(s, e) \in BoundedSeq(Row, Units)
  BY <1>2, <1>4, RowsAre
<1>6. Front(Append(s, e)) = s
  BY <1>1, <1>2, <1>3 DEF Front
<1>7. IsPrefix(s, Append(s, e))
  BY <1>1, <1>2, <1>3 DEF IsPrefix
<1>8. Append(s, e) # s
  BY <1>1, <1>2
<1>9. QED
  BY <1>2, <1>5, <1>6, <1>7, <1>8

LEMMA OnlyOne ==
  ASSUME Alone, NEW p \in Commands, NEW q \in Commands, Active(p), Active(q)
  PROVE  p = q
BY RunAssumption DEF Alone

\* A command that has the files goes on, and what it wrote is in order.
LEMMA GoesOn ==
  ASSUME RunIInv, NEW p \in Commands, Active(p), NEW r \in Command,
         cmd' = [cmd EXCEPT ![p] = r], UNCHANGED <<dir, owner>>,
         r.at \notin {"idle", "reserve", "lock"},
         r.resume = cmd[p].resume, r.summing = cmd[p].summing,
         manifest' = manifest \/ manifest # None \/ Maker(p),
         TypeOK', Disk', Story', Place(p)'
  PROVE  RunIInv'
<1>1. cmd'[p] = r /\ \A q \in Commands \ {p} : cmd'[q] = cmd[q]
  BY DEF RunIInv, RunTypes
<1>2. cmd' \in [Commands -> Command]
  BY DEF RunIInv, RunTypes
<1>3. dir
  BY DEF RunIInv, Alone, Active
<1>4. Alone'
  BY <1>1, <1>3 DEF RunIInv, Alone, Active, Maker
<1>5. ASSUME NEW q \in Commands PROVE Place(q)'
  <2>1. CASE q = p
    BY <2>1
  <2>2. CASE q # p
    <3>1. ~Active(q)
      BY <2>2, OnlyOne DEF RunIInv
    <3>2. cmd'[q] = cmd[q] /\ Place(q)
      BY <1>1, <2>2 DEF RunIInv
    <3>3. QED
      BY <3>1, <3>2 DEF Active, Place, Writing, Between, Asking
  <2>3. QED
    BY <2>1, <2>2
<1>6. QED
  BY <1>2, <1>4, <1>5 DEF RunIInv, RunTypes

\* Where the files and the world stay as they are.
LEMMA Goes ==
  ASSUME RunIInv, NEW p \in Commands, Active(p), NEW r \in Command,
         cmd' = [cmd EXCEPT ![p] = r], UNCHANGED <<dir, files, owner, world>>,
         r.at \notin {"idle", "reserve", "lock"},
         r.resume = cmd[p].resume, r.summing = cmd[p].summing, Place(p)'
  PROVE  RunIInv'
<1>1. cmd' \in [Commands -> Command]
  BY DEF RunIInv, RunTypes
<1>2. TypeOK'
  BY <1>1 DEF RunIInv, RunTypes, TypeOK, Command, files, world
<1>3. Disk'
  BY DEF RunIInv, Disk, files, world, Window
<1>4. Story'
  BY DEF RunIInv, Story, AtMostOnce, SentIsOnDisk, Asked, CompletedIsWhole, AllSuccess, files, world
<1>5. QED
  BY <1>2, <1>3, <1>4, GoesOn DEF files

\* A command that ends, or has not got the files yet, leaves what is on the disk.
LEMMA Lets ==
  ASSUME RunIInv, NEW p \in Commands, NEW r \in Command,
         cmd' = [cmd EXCEPT ![p] = r], UNCHANGED <<files, world>>,
         r.at \in {"idle", "reserve", "lock"}, r.run.status = "running", dir' \in BOOLEAN, owner' \in Commands \cup {None},
         Alone'
  PROVE  RunIInv'
<1>1. cmd'[p] = r /\ \A q \in Commands \ {p} : cmd'[q] = cmd[q]
  BY DEF RunIInv, RunTypes
<1>2. cmd' \in [Commands -> Command]
  BY DEF RunIInv, RunTypes
<1>3. TypeOK'
  BY <1>2 DEF RunIInv, RunTypes, TypeOK, Command, files, world
<1>4. Disk'
  BY DEF RunIInv, Disk, files, world, Window
<1>5. Story'
  BY DEF RunIInv, Story, AtMostOnce, SentIsOnDisk, Asked, CompletedIsWhole, AllSuccess, files, world
<1>6. ASSUME NEW q \in Commands PROVE Place(q)'
  <2>1. CASE q = p
    BY <1>1, <2>1 DEF Place, Writing, Between, Asking
  <2>2. CASE q # p
    <3>1. cmd'[q] = cmd[q] /\ Place(q)
      BY <1>1, <2>2 DEF RunIInv
    <3>2. QED
      BY <3>1 DEF Place, Writing, HasRun, Settled, Marked, Recorded,
                  Growing, Asked, AllSuccess, Maker, Window, files, world
  <2>3. QED
    BY <2>1, <2>2
<1>7. QED
  BY <1>2, <1>3, <1>4, <1>5, <1>6 DEF RunIInv, RunTypes

LEMMA NoRows == <<>> \in BoundedSeq(Row, Units)
<1>1. <<>> \in Seq(Row) /\ Len(<<>>) = 0
  BY EmptySeq
<1>2. 0 <= Units
  BY RunAssumption
<1>3. QED
  BY <1>1, <1>2, RowsAre

LEMMA IdleTyped == Idle \in Command
<1>1. <<>> \in BoundedSeq(Row, Units)
  BY NoRows
<1>2. Envelope(<<>>, "running") \in Envelopes
  BY <1>1 DEF Envelope, Envelopes
<1>3. QED
  BY <1>1, <1>2 DEF Idle, Command, Stations

LEMMA RunInit == Init => RunIInv
<1> SUFFICES ASSUME Init PROVE RunIInv
  OBVIOUS
<1>1. cmd \in [Commands -> Command] /\ \A p \in Commands : cmd[p] = Idle
  BY IdleTyped DEF Init
<1>2. <<>> \in BoundedSeq(Row, Units)
  BY NoRows
<1>3. RunTypes
  <2>1. dir \in BOOLEAN /\ drift \subseteq Drifts
    BY DEF Init
  <2>2. sent \in [Unit -> 0..2] /\ asked \in [Unit -> SUBSET Drifts]
    BY DEF Init
  <2>3. \A p \in Commands : cmd[p].run \in Envelopes /\ cmd[p].rows \in BoundedSeq(Row, Units)
    BY <1>1 DEF Command
  <2>4. QED
    BY <1>1, <1>2, <2>1, <2>2, <2>3 DEF Init, RunTypes, TypeOK
<1>4. Alone
  BY <1>1 DEF Init, Alone, Idle, Active, Maker
<1>5. Disk /\ Story
  BY DEF Init, Disk, Story, AtMostOnce, SentIsOnDisk, Asked, CompletedIsWhole
<1>6. \A p \in Commands : Place(p)
  BY <1>1 DEF Idle, Place, Writing, Between, Asking
<1>7. QED
  BY <1>3, <1>4, <1>5, <1>6 DEF RunIInv

LEMMA Ends ==
  ASSUME RunIInv, NEW p \in Commands, End(p), UNCHANGED <<dir, files, world>>
  PROVE  RunIInv'
<1>1. cmd'[p] = Idle /\ \A q \in Commands \ {p} : cmd'[q] = cmd[q]
  BY DEF RunIInv, RunTypes, End
<1>2. owner' \in Commands \cup {None} /\ dir' \in BOOLEAN
  BY DEF RunIInv, RunTypes, TypeOK, End
<1>3. Alone'
  <2>1. \A q \in Commands : Active(q)' => q # p /\ Active(q)
    BY <1>1 DEF Active, Idle
  <2>2. \A q \in Commands : cmd'[q].summing => q # p /\ cmd[q].summing
    BY <1>1 DEF Idle
  <2>3. \A q \in Commands : Maker(q)' => q # p /\ Maker(q)
    BY <1>1 DEF Maker, Idle
  <2>4. \A q \in Commands : cmd'[q].at = "idle" \/ cmd'[q] = cmd[q]
    BY <1>1 DEF Idle
  <2>5. \A q \in Commands : Active(q)' => owner' = IF cmd'[q].summing THEN None ELSE q
    BY <1>1, <2>1, RunAssumption DEF RunIInv, Alone, End
  <2>6. \A q \in Commands : cmd'[q].summing => Active(q)'
    BY <1>1, <2>2 DEF RunIInv, Alone, Active
  <2>7. ~dir' => manifest' = None /\ \A q \in Commands : cmd'[q].at \in {"idle", "reserve"}
    BY <1>1, <2>4 DEF RunIInv, Alone, files
  <2>8. \A q \in Commands : (Maker(q)' /\ cmd'[q].at = "lock") => manifest' = None
    BY <1>1, <2>3, <2>4 DEF RunIInv, Alone, files
  <2>9. QED
    BY <2>2, <2>3, <2>5, <2>6, <2>7, <2>8 DEF RunIInv, Alone
<1>4. QED
  BY <1>2, <1>3, IdleTyped, Lets DEF End, Idle, Envelope

\* A place that a command goes to.
LEMMA GoTyped ==
  ASSUME RunTypes, NEW p \in Commands, NEW place \in Stations
  PROVE  /\ [cmd[p] EXCEPT !.at = place] \in Command
         /\ [cmd EXCEPT ![p].at = place] = [cmd EXCEPT ![p] = [cmd[p] EXCEPT !.at = place]]
BY DEF RunTypes, Command

LEMMA StartKeeps ==
  ASSUME RunIInv, NEW p \in Commands, Start(p)
  PROVE  RunIInv'
<1>1. PICK resume \in BOOLEAN :
        cmd' = [cmd EXCEPT ![p] = [Idle EXCEPT !.at = "reserve", !.resume = resume, !.planned = unchanged]]
  BY DEF Start
<1> DEFINE r == [Idle EXCEPT !.at = "reserve", !.resume = resume, !.planned = unchanged]
<1>2. r \in Command /\ r.at = "reserve" /\ ~r.summing /\ r.run.status = "running"
  <2>1. unchanged \in BOOLEAN
    BY DEF unchanged
  <2>2. Idle \in Command /\ ~Idle.summing /\ Idle.run.status = "running"
    BY IdleTyped DEF Idle, Envelope
  <2>3. QED
    BY <2>1, <2>2 DEF Command, Stations
<1>3. cmd'[p] = r /\ \A q \in Commands \ {p} : cmd'[q] = cmd[q]
  BY <1>1 DEF RunIInv, RunTypes
<1> HIDE DEF r
<1>4. Alone'
  BY <1>2, <1>3 DEF RunIInv, Alone, Active, Maker, Start, files
<1>5. QED
  BY <1>1, <1>2, <1>4, Lets DEF Start, RunIInv, RunTypes, TypeOK, r

LEMMA ReserveKeeps ==
  ASSUME RunIInv, NEW p \in Commands, Reserve(p)
  PROVE  RunIInv'
<1>1. CASE cmd[p].resume = dir
  <2> DEFINE r == [cmd[p] EXCEPT !.at = "lock"]
  <2>1. r \in Command /\ cmd' = [cmd EXCEPT ![p] = r]
    <3>1. "lock" \in Stations
      BY DEF Stations
    <3>2. QED
      BY <1>1, <3>1, GoTyped DEF RunIInv, Reserve, Go
  <2>2. r.at = "lock" /\ r.resume = cmd[p].resume /\ r.summing = cmd[p].summing /\ r.run = cmd[p].run
    BY DEF RunIInv, RunTypes, Command
  <2>3. cmd'[p] = r /\ \A q \in Commands \ {p} : cmd'[q] = cmd[q]
    BY <2>1 DEF RunIInv, RunTypes
  <2>4. ~cmd[p].summing
    BY DEF RunIInv, Alone, Active, Reserve, At
  <2> HIDE DEF r
  <2>5. dir' = TRUE
    BY <1>1 DEF Reserve
  <2>6. ASSUME ~cmd[p].resume
        PROVE  manifest = None /\ \A q \in Commands : cmd[q].at \in {"idle", "reserve"}
    BY <1>1, <2>6 DEF RunIInv, Alone, RunTypes, TypeOK
  <2>7. Alone'
    <3>1. UNCHANGED <<owner, manifest>>
      BY <1>1 DEF Reserve, files
    <3>2. \A q \in Commands : Active(q)' => q # p /\ Active(q)
      BY <2>2, <2>3 DEF Active
    <3>3. \A q \in Commands : cmd'[q].summing => q # p /\ cmd[q].summing
      BY <2>2, <2>3, <2>4
    <3>4. \A q \in Commands : Maker(q)' => IF q = p THEN ~cmd[p].resume ELSE Maker(q)
      BY <2>2, <2>3 DEF Maker
    <3>5. \A q \in Commands : Active(q)' => owner' = IF cmd'[q].summing THEN None ELSE q
      BY <2>3, <3>1, <3>2 DEF RunIInv, Alone
    <3>6. \A q \in Commands : cmd'[q].summing => Active(q)'
      BY <2>3, <3>3 DEF RunIInv, Alone, Active
    <3>7. ASSUME NEW q \in Commands, NEW o \in Commands, Maker(q)', Maker(o)'
          PROVE  q = o
      BY <2>6, <3>4, <3>7 DEF RunIInv, Alone, Maker
    <3>8. ASSUME NEW q \in Commands, Maker(q)', cmd'[q].at = "lock"
          PROVE  manifest' = None
      BY <2>3, <2>6, <3>1, <3>4, <3>8 DEF RunIInv, Alone
    <3>9. QED
      BY <2>5, <3>3, <3>5, <3>6, <3>7, <3>8 DEF RunIInv, Alone
  <2>8. cmd[p].run.status = "running"
    BY DEF RunIInv, Place, Reserve, At
  <2>9. owner' \in Commands \cup {None} /\ dir' \in BOOLEAN
    BY <1>1, <2>5 DEF Reserve, RunIInv, RunTypes, TypeOK
  <2>10. QED
    BY <2>1, <2>2, <2>7, <2>8, <2>9, Lets DEF Reserve
<1>2. CASE cmd[p].resume # dir
  BY <1>2, Ends DEF Reserve
<1>3. QED
  BY <1>1, <1>2

\* What is where: the facts of one command's place.
LEMMA Memory ==
  ASSUME RunIInv, NEW p \in Commands
  PROVE  /\ cmd[p] \in Command /\ Place(p)
         /\ cmd[p].rows \in BoundedSeq(Row, Units) /\ cmd[p].run \in Envelopes
         /\ cmd[p].saw \in Markers \cup {None}
         /\ rows \in BoundedSeq(Row, Units) /\ manifest \in Envelopes \cup {None}
         /\ marker \in Markers \cup {None}
         /\ Len(rows) \in Nat
<1>1. cmd[p] \in Command /\ Place(p)
  BY DEF RunIInv, RunTypes
<1>2. /\ rows \in BoundedSeq(Row, Units) /\ manifest \in Envelopes \cup {None}
      /\ marker \in Markers \cup {None}
  BY DEF RunIInv, RunTypes, TypeOK
<1>3. Len(rows) \in Nat
  BY <1>2, RowsAre
<1>4. QED
  BY <1>1, <1>2, <1>3 DEF Command

\* The command goes to a place, with nothing else changed in it.
LEMMA GoKeeps ==
  ASSUME RunIInv, NEW p \in Commands, Active(p), NEW place \in Stations, Go(p, place),
         UNCHANGED <<dir, files, owner, world>>,
         place \notin {"idle", "reserve", "lock", "rows", "manifest"},
         place = "load" => HasRun(p),
         place \in {"marker", "reconcile"} => HasRun(p) /\ cmd[p].rows = rows,
         place \in {"reconcile", "recover"} => cmd[p].saw = marker,
         place \in {"recover", "clear", "unmark"} \cup Between \cup Asking => Settled(p),
         place \in Between => marker = None,
         place \in {"clear", "unmark"} => Recorded,
         place \in Asking => Marked,
         place \in {"verify", "gold", "ask"} => sent[Len(rows) + 1] = 0,
         place \in {"asked", "check"} =>
           sent[Len(rows) + 1] = 1 /\ asked[Len(rows) + 1] \subseteq drift
  PROVE  RunIInv'
<1> DEFINE r == [cmd[p] EXCEPT !.at = place]
<1>1. r \in Command /\ cmd' = [cmd EXCEPT ![p] = r]
  BY GoTyped DEF RunIInv, Go
<1>2. /\ r.at = place /\ r.resume = cmd[p].resume /\ r.summing = cmd[p].summing
      /\ r.run = cmd[p].run /\ r.rows = cmd[p].rows /\ r.saw = cmd[p].saw
  BY Memory DEF Command
<1>3. cmd'[p] = r
  BY <1>1 DEF RunIInv, RunTypes
<1> HIDE DEF r
<1>4. Place(p)'
  <2>1. Writing(p)'
    BY <1>2, <1>3 DEF Writing
  <2>2. HasRun(p)' = HasRun(p) /\ Settled(p)' = Settled(p) /\ Marked' = Marked /\ Recorded' = Recorded
    BY <1>2, <1>3 DEF HasRun, Settled, Marked, Recorded, files
  <2>3. QED
    BY <1>2, <1>3, <2>1, <2>2 DEF Place, files, world
<1>5. QED
  BY <1>1, <1>2, <1>4, Goes

\* Rows are to be written, and then the manifest.
LEMMA CheckpointKeeps ==
  ASSUME RunIInv, NEW p \in Commands, Active(p),
         NEW all \in BoundedSeq(Row, Units), NEW there \in {"admit", "recover", "clear", "unmark"},
         Checkpointing(p, cmd[p].run, all, there),
         UNCHANGED <<dir, files, owner, world>>,
         Asked(all), cmd[p].run.status = "completed" => AllSuccess(all),
         there = "admit" => Maker(p) /\ manifest = None /\ all = <<>>,
         there = "recover" => cmd[p].saw = marker /\ all = rows /\ Window(manifest, rows, marker),
         there # "admit" => manifest # None,
         there \in {"clear", "unmark"} =>
           manifest.of = rows /\ Marked /\ \E row \in Row : all = Append(rows, row)
  PROVE  RunIInv'
<1> DEFINE new == [cmd[p].run EXCEPT !.of = all]
           r == [cmd[p] EXCEPT !.at = "rows", !.rows = all, !.then = there, !.run = new]
<1>1. /\ new \in Envelopes /\ new.of = all /\ new.status = cmd[p].run.status
  BY Memory DEF Envelopes
<1>2. /\ r \in Command /\ r.at = "rows" /\ r.resume = cmd[p].resume /\ r.summing = cmd[p].summing
      /\ r.run = new /\ r.rows = all /\ r.then = there /\ r.saw = cmd[p].saw
  <2> HIDE DEF new
  <2>1. QED
    BY <1>1, Memory DEF Command, Stations
<1>3. cmd' = [cmd EXCEPT ![p] = r] /\ cmd'[p] = r
  BY DEF Checkpointing, RunIInv, RunTypes, Command
<1> HIDE DEF r, new
<1>4. Maker(p)' = Maker(p)
  BY <1>2, <1>3 DEF Maker, Active
<1>5. Growing(p)' = (manifest # None /\ manifest.of = rows /\ Marked /\ \E row \in Row : all = Append(rows, row))
  BY <1>2, <1>3 DEF Growing, Marked, files
<1>6. Asked(all)' = Asked(all) /\ AllSuccess(all)' = AllSuccess(all)
      /\ Window(manifest, rows, marker)' = Window(manifest, rows, marker)
  BY DEF Asked, AllSuccess, Window, files, world
<1>7. Writing(p)'
  <2>1. /\ cmd'[p].at = "rows" /\ cmd'[p].run.of = all /\ cmd'[p].rows = all /\ cmd'[p].then = there
        /\ cmd'[p].run.status = cmd[p].run.status /\ cmd'[p].saw = cmd[p].saw
    BY <1>1, <1>2, <1>3
  <2>2. UNCHANGED <<rows, manifest, marker, sent, asked>>
    BY DEF files, world
  <2>3. Asked(cmd[p].rows)'
    BY <2>1, <2>2 DEF Asked
  <2>4. cmd'[p].run.status = "completed" => AllSuccess(cmd[p].rows)'
    BY <2>1 DEF AllSuccess
  <2>5. there \in {"clear", "unmark"} => Growing(p)'
    BY <1>5
  <2>6. there = "recover" => cmd'[p].saw = marker' /\ all = rows' /\ Window(manifest, rows, marker)'
    BY <1>6, <2>1, <2>2
  <2>7. there = "admit" => Maker(p)' /\ manifest' = None /\ all = <<>>
    BY <1>4, <2>2
  <2>8. there # "admit" => manifest' # None
    BY <2>2
  <2>9. QED
    BY <2>1, <2>3, <2>4, <2>5, <2>6, <2>7, <2>8 DEF Writing
<1>8. Place(p)'
  BY <1>2, <1>3, <1>7 DEF Place, Between, Asking
<1>9. QED
  BY <1>2, <1>3, <1>8, Goes

\* The rows grow by the unit that the marker names.
LEMMA GrowthKeeps ==
  ASSUME RunIInv, NEW p \in Commands, Active(p), Settled(p), Marked,
         NEW row \in Row, NEW there \in {"clear", "unmark"},
         row = "success" =>
           sent[Len(rows) + 1] > 0 /\ asked[Len(rows) + 1] \subseteq {"inputs"},
         Checkpointing(p, cmd[p].run, Append(cmd[p].rows, row), there),
         UNCHANGED <<dir, files, owner, world>>
  PROVE  RunIInv'
<1> DEFINE all == Append(rows, row)
<1>1. Len(rows) + 1 \in Unit
  BY Memory DEF Marked, Markers
<1>2. /\ all \in BoundedSeq(Row, Units) /\ Len(all) = Len(rows) + 1
      /\ \A u \in 1..Len(rows) : all[u] = rows[u]
      /\ all[Len(rows) + 1] = row
  BY <1>1, Memory, OneMore
<1>3. DOMAIN all = 1..(Len(rows) + 1) /\ DOMAIN rows = 1..Len(rows)
  BY <1>2, Memory, RowsAre
<1>4. all = Append(cmd[p].rows, row)
  BY DEF Settled
<1> HIDE DEF all
<1>5. Asked(all)
  BY <1>2, <1>3, Memory DEF RunIInv, Story, Asked
<1>6. cmd[p].run.status # "completed"
  BY <1>1, RunAssumption DEF Settled, HasRun, RunIInv, Story, CompletedIsWhole, AllSuccess, Unit
<1>7. \E e \in Row : all = Append(rows, e)
  BY DEF all
<1>8. QED
  BY <1>2, <1>4, <1>5, <1>6, <1>7, CheckpointKeeps DEF Settled, HasRun

\* The run is finished, and its manifest is to be written.
LEMMA FinishKeeps ==
  ASSUME RunIInv, NEW p \in Commands, Active(p), Settled(p), marker = None, NEW comparable \in BOOLEAN,
         cmd' = [cmd EXCEPT ![p].at = "manifest", ![p].run = finish_run(@, comparable),
                            ![p].then = "leave"],
         UNCHANGED <<dir, files, owner, world>>
  PROVE  RunIInv'
<1> DEFINE new == finish_run(cmd[p].run, comparable)
           r == [cmd[p] EXCEPT !.at = "manifest", !.run = new, !.then = "leave"]
<1>1. /\ new \in Envelopes /\ new.of = rows
      /\ new.status = "completed" => AllSuccess(rows)
  BY Memory DEF Envelopes, finish_run, StatusOf, Settled, HasRun
<1>2. cmd' = [cmd EXCEPT ![p] = r] /\ cmd'[p] = r
  BY DEF RunIInv, RunTypes, Command
<1> HIDE DEF new
<1>3. /\ r \in Command /\ r.at = "manifest" /\ r.resume = cmd[p].resume /\ r.summing = cmd[p].summing
      /\ r.run = new /\ r.rows = cmd[p].rows /\ r.then = "leave"
  BY <1>1, Memory DEF Command, Stations
<1> HIDE DEF r
<1>4. Writing(p)'
  <2>1. cmd'[p].rows = rows /\ cmd'[p].run.of = rows /\ rows' = rows /\ manifest' = manifest /\ marker' = None
    BY <1>1, <1>2, <1>3 DEF Settled, files
  <2>2. Asked(rows)' /\ AllSuccess(rows)' = AllSuccess(rows)
    BY DEF RunIInv, Story, Asked, AllSuccess, files, world
  <2>3. Asked(cmd[p].rows)' /\ (cmd'[p].run.status = "completed" => AllSuccess(cmd[p].rows)')
    BY <1>1, <1>2, <1>3, <2>1, <2>2
  <2>4. QED
    BY <1>2, <1>3, <2>1, <2>3 DEF Writing, Settled, HasRun
<1>5. Place(p)'
  BY <1>2, <1>3, <1>4 DEF Place, Between, Asking
<1>6. QED
  BY <1>2, <1>3, <1>5, Goes

----------------------------------------------------------------------------
(* Each step of a command.                                                 *)

LEMMA LockKeeps ==
  ASSUME SummaryApart, RunIInv, NEW p \in Commands, Lock(p)
  PROVE  RunIInv'
<1>1. CASE owner # None
  BY <1>1, Ends DEF Lock
<1>2. CASE owner = None
  <2>1. \A q \in Commands : ~Active(q) /\ ~cmd[q].summing
    BY <1>2, RunAssumption DEF Lock, Quiet, RunIInv, Alone
  <2>2. /\ cmd[p].at = "lock" /\ Enter(p) /\ owner' = p /\ UNCHANGED <<dir, files, world>>
    BY <1>2 DEF Lock, At, Enter
  <2>3. ASSUME NEW r \in Command, cmd' = [cmd EXCEPT ![p] = r],
               r.at \notin {"idle", "reserve", "lock"}, r.resume = cmd[p].resume, ~r.summing, Place(p)'
        PROVE  RunIInv'
    <3>1. cmd'[p] = r /\ \A q \in Commands \ {p} : cmd'[q] = cmd[q]
      BY <2>3 DEF RunIInv, RunTypes
    <3>2. cmd' \in [Commands -> Command]
      BY <2>3 DEF RunIInv, RunTypes
    <3>3. TypeOK'
      BY <2>2, <3>2 DEF RunIInv, RunTypes, TypeOK, Command, files, world
    <3>4. Disk'
      BY <2>2 DEF RunIInv, Disk, files, world, Window
    <3>5. Story'
      BY <2>2 DEF RunIInv, Story, AtMostOnce, SentIsOnDisk, Asked, CompletedIsWhole, AllSuccess, files, world
    <3>6. Alone'
      <4>1. \A q \in Commands : Active(q)' => q = p
        BY <2>1, <3>1 DEF Active
      <4>2. \A q \in Commands : Maker(q)' => Maker(q)
        BY <2>1, <2>2, <2>3, <3>1 DEF Maker
      <4>3. \A q \in Commands : ~cmd'[q].summing
        BY <2>1, <2>3, <3>1
      <4>4. dir
        BY <2>2 DEF RunIInv, Alone
      <4>5. \A q \in Commands : (Maker(q)' /\ cmd'[q].at = "lock") => manifest' = None
        BY <2>2, <2>3, <3>1, <4>2 DEF RunIInv, Alone, files
      <4>6. QED
        BY <2>2, <4>1, <4>2, <4>3, <4>4, <4>5 DEF RunIInv, Alone
    <3>7. ASSUME NEW q \in Commands PROVE Place(q)'
      <4>1. CASE q = p
        BY <2>3, <4>1
      <4>2. CASE q # p
        BY <2>1, <3>1, <4>2 DEF RunIInv, Active, Place, Writing, Between, Asking
      <4>3. QED
        BY <4>1, <4>2
    <3>8. QED
      BY <3>2, <3>3, <3>4, <3>5, <3>6, <3>7 DEF RunIInv, RunTypes
  <2>4. CASE cmd[p].resume
    <3> DEFINE r == [cmd[p] EXCEPT !.at = "saved"]
    <3>1. r \in Command /\ cmd' = [cmd EXCEPT ![p] = r]
      <4>1. "saved" \in Stations
        BY DEF Stations
      <4>2. QED
        BY <2>2, <2>4, <4>1, GoTyped DEF RunIInv, Enter, Go
    <3>2. r.at = "saved" /\ r.resume = cmd[p].resume /\ r.summing = cmd[p].summing /\ cmd'[p] = r
      BY <3>1 DEF RunIInv, RunTypes, Command
    <3> HIDE DEF r
    <3>3. Place(p)'
      BY <3>2 DEF Place, Writing, Between, Asking
    <3>4. QED
      BY <2>1, <2>3, <3>1, <3>2, <3>3
  <2>5. CASE ~cmd[p].resume
    <3> DEFINE new == [cmd[p].run EXCEPT !.of = <<>>]
               r == [cmd[p] EXCEPT !.at = "rows", !.rows = <<>>, !.then = "admit", !.run = new]
    <3>1. /\ new \in Envelopes /\ new.of = <<>> /\ new.status = cmd[p].run.status
      BY NoRows, Memory DEF Envelopes
    <3>2. cmd' = [cmd EXCEPT ![p] = r] /\ cmd'[p] = r
      BY <2>2, <2>5 DEF Enter, Checkpointing, RunIInv, RunTypes, Command
    <3> HIDE DEF new
    <3>3. /\ r \in Command /\ r.at = "rows" /\ r.resume = cmd[p].resume /\ r.summing = cmd[p].summing
          /\ r.run = new /\ r.rows = <<>> /\ r.then = "admit"
      BY <3>1, NoRows, Memory DEF Command, Stations
    <3> HIDE DEF r
    <3>4. Maker(p) /\ manifest = None
      BY <2>1, <2>2, <2>5 DEF Maker, RunIInv, Alone
    <3>5. cmd[p].run.status = "running"
      BY <2>2 DEF RunIInv, Place
    <3>6. Maker(p)' /\ manifest' = None
      BY <2>1, <2>2, <2>5, <3>2, <3>3, <3>4 DEF Maker, files
    <3>7. Asked(<<>>)'
      BY DEF Asked
    <3>8. Writing(p)'
      BY <3>1, <3>2, <3>3, <3>5, <3>6, <3>7 DEF Writing
    <3>9. Place(p)'
      BY <3>2, <3>3, <3>8 DEF Place, Between, Asking
    <3>10. QED
      BY <2>1, <2>3, <3>2, <3>3, <3>9
  <2>6. QED
    BY <2>4, <2>5
<1>3. QED
  BY <1>1, <1>2

\* What one place says of the files.
LEMMA SettledAt ==
  ASSUME RunIInv, NEW p \in Commands,
         cmd[p].at \in {"recover", "clear", "unmark"} \cup Between \cup Asking
  PROVE  /\ Settled(p) /\ Active(p)
         /\ cmd[p].at \in Between => marker = None
         /\ cmd[p].at \in {"clear", "unmark"} => Recorded
         /\ cmd[p].at \in Asking => Marked
BY DEF RunIInv, Place, Active, Between, Asking

LEMMA LoadKeeps ==
  ASSUME RunIInv, NEW p \in Commands, LoadManifest(p) \/ LoadRows(p) \/ LoadMarker(p)
  PROVE  RunIInv'
<1>1. Active(p)
  BY DEF Active, LoadManifest, LoadRows, LoadMarker, At
<1>2. CASE LoadManifest(p)
  <2>1. CASE manifest = None \/ ~cmd[p].planned
    BY <1>2, <2>1, Ends DEF LoadManifest
  <2>2. CASE ~(manifest = None \/ ~cmd[p].planned)
    <3> DEFINE r == [cmd[p] EXCEPT !.at = "load", !.run = manifest]
    <3>1. cmd' = [cmd EXCEPT ![p] = r] /\ cmd'[p] = r /\ UNCHANGED <<dir, files, owner, world>>
      BY <1>2, <2>2 DEF LoadManifest, RunIInv, RunTypes, Command
    <3>2. /\ r \in Command /\ r.at = "load" /\ r.resume = cmd[p].resume
          /\ r.summing = cmd[p].summing /\ r.run = manifest
      BY <2>2, Memory DEF Command, Stations
    <3> HIDE DEF r
    <3>3. Place(p)'
      BY <2>2, <3>1, <3>2 DEF Place, Writing, Between, Asking, HasRun, files
    <3>4. QED
      BY <1>1, <3>1, <3>2, <3>3, Goes
  <2>3. QED
    BY <2>1, <2>2
<1>3. CASE LoadRows(p)
  <2> DEFINE r == [cmd[p] EXCEPT !.at = "marker", !.rows = rows]
  <2>1. cmd' = [cmd EXCEPT ![p] = r] /\ cmd'[p] = r /\ UNCHANGED <<dir, files, owner, world>>
    BY <1>3 DEF LoadRows, RunIInv, RunTypes, Command
  <2>2. /\ r \in Command /\ r.at = "marker" /\ r.resume = cmd[p].resume
        /\ r.summing = cmd[p].summing /\ r.run = cmd[p].run /\ r.rows = rows
    BY Memory DEF Command, Stations
  <2>3. HasRun(p)
    BY <1>3 DEF RunIInv, Place, LoadRows, At
  <2> HIDE DEF r
  <2>4. Place(p)'
    BY <2>1, <2>2, <2>3 DEF Place, Writing, Between, Asking, HasRun, files
  <2>5. QED
    BY <1>1, <2>1, <2>2, <2>4, Goes
<1>4. CASE LoadMarker(p)
  <2> DEFINE r == [cmd[p] EXCEPT !.at = "reconcile", !.saw = marker]
  <2>1. cmd' = [cmd EXCEPT ![p] = r] /\ cmd'[p] = r /\ UNCHANGED <<dir, files, owner, world>>
    BY <1>4 DEF LoadMarker, RunIInv, RunTypes, Command
  <2>2. /\ r \in Command /\ r.at = "reconcile" /\ r.resume = cmd[p].resume
        /\ r.summing = cmd[p].summing /\ r.run = cmd[p].run /\ r.rows = cmd[p].rows /\ r.saw = marker
    BY Memory DEF Command, Stations
  <2>3. HasRun(p) /\ cmd[p].rows = rows
    BY <1>4 DEF RunIInv, Place, LoadMarker, At
  <2> HIDE DEF r
  <2>4. Place(p)'
    BY <2>1, <2>2, <2>3 DEF Place, Writing, Between, Asking, HasRun, files
  <2>5. QED
    BY <1>1, <2>1, <2>2, <2>4, Goes
<1>5. QED
  BY <1>2, <1>3, <1>4

\* Whatever place of its way a command goes on to.
LEMMA StationsAre ==
  /\ Between \cup Asking \cup {"load", "marker", "reconcile", "recover", "clear", "unmark"} \subseteq Stations
  /\ \A place \in Between \cup Asking \cup {"load", "marker", "reconcile", "recover", "clear", "unmark"} :
       place \notin {"idle", "reserve", "lock", "rows", "manifest"}
BY DEF Stations, Between, Asking

LEMMA ReconcileKeeps ==
  ASSUME RunIInv, NEW p \in Commands, Reconcile(p)
  PROVE  RunIInv'
<1>1. /\ cmd[p].at = "reconcile" /\ Active(p)
      /\ HasRun(p) /\ cmd[p].rows = rows /\ cmd[p].saw = marker /\ UNCHANGED <<dir, files, world>>
  BY DEF Reconcile, At, Active, RunIInv, Place
<1>2. CASE cmd[p].rows = cmd[p].run.of
  <2>1. Go(p, "recover") /\ UNCHANGED <<dir, files, owner, world>>
    BY <1>2 DEF Reconcile
  <2>2. Settled(p)
    BY <1>1, <1>2 DEF Settled, HasRun
  <2>3. "recover" \in Stations
    BY DEF Stations
  <2>4. QED
    BY <1>1, <2>1, <2>2, <2>3, GoKeeps DEF Between, Asking
<1>3. CASE cmd[p].rows # cmd[p].run.of /\ Window(cmd[p].run, cmd[p].rows, cmd[p].saw)
  <2>1. /\ Checkpointing(p, cmd[p].run, rows, "recover")
        /\ UNCHANGED <<dir, files, owner, world>>
    BY <1>1, <1>3 DEF Reconcile, RowsToKeep
  <2>2. Window(manifest, rows, marker)
    BY <1>1, <1>3 DEF HasRun
  <2>3. cmd[p].run.status # "completed"
    BY <1>1, <1>3 DEF HasRun, RunIInv, Story, CompletedIsWhole
  <2>4. Asked(rows)
    BY DEF RunIInv, Story
  <2>5. manifest # None
    BY <1>1 DEF HasRun
  <2>6. QED
    BY <1>1, <2>1, <2>2, <2>3, <2>4, <2>5, Memory, CheckpointKeeps
<1>4. CASE /\ cmd[p].rows # cmd[p].run.of
           /\ ~(cmd[p].rows # cmd[p].run.of /\ Window(cmd[p].run, cmd[p].rows, cmd[p].saw))
  BY <1>4, Ends DEF Reconcile
<1>5. QED
  BY <1>2, <1>3, <1>4

LEMMA RecoverKeeps ==
  ASSUME RunIInv, NEW p \in Commands, Recover(p)
  PROVE  RunIInv'
<1>1. cmd[p].at = "recover" /\ cmd[p].saw = marker /\ UNCHANGED <<dir, files, world>>
  BY DEF Recover, At, RunIInv, Place
<1>2. Settled(p) /\ Active(p)
  BY <1>1, SettledAt
<1>3. CASE cmd[p].saw = None
  <2>1. Go(p, "loaded") /\ UNCHANGED owner
    BY <1>3 DEF Recover
  <2>2. "loaded" \in Stations
    BY DEF Stations, Between
  <2>3. QED
    BY <1>1, <1>2, <1>3, <2>1, <2>2, GoKeeps DEF Between, Asking
<1>4. CASE cmd[p].saw # None /\ cmd[p].saw.unit = Len(cmd[p].rows) + 1 /\ cmd[p].saw.preceding = cmd[p].run.of
  <2>1. Checkpointing(p, cmd[p].run, Append(cmd[p].rows, "interrupted"), "clear") /\ UNCHANGED owner
    BY <1>4 DEF Recover, WriteOff
  <2>2. Marked
    BY <1>1, <1>2, <1>4 DEF Marked, Settled, HasRun
  <2>3. "interrupted" \in Row /\ "interrupted" # "success"
    BY DEF Row
  <2>4. QED
    BY <1>1, <1>2, <2>1, <2>2, <2>3, GrowthKeeps
<1>5. CASE cmd[p].saw # None /\ cmd[p].saw.unit = Len(cmd[p].rows)
  <2>1. Go(p, "clear") /\ UNCHANGED owner
    BY <1>2, <1>5, Memory DEF Recover, Settled
  <2>2. "clear" \in Stations /\ Recorded
    BY <1>1, <1>2, <1>5 DEF Stations, Recorded, Settled
  <2>3. QED
    BY <1>1, <1>2, <2>1, <2>2, GoKeeps DEF Between, Asking
<1>6. ASSUME cmd[p].saw # None,
             ~(cmd[p].saw # None /\ cmd[p].saw.unit = Len(cmd[p].rows) + 1 /\ cmd[p].saw.preceding = cmd[p].run.of),
             ~(cmd[p].saw # None /\ cmd[p].saw.unit = Len(cmd[p].rows))
      PROVE  RunIInv'
  <2>1. End(p)
    BY <1>6 DEF Recover
  <2>2. QED
    BY <1>1, <2>1, Ends
<1>7. QED
  BY <1>3, <1>4, <1>5, <1>6

LEMMA WriteRowsKeeps ==
  ASSUME RunIInv, NEW p \in Commands, WriteRows(p)
  PROVE  RunIInv' /\ IsPrefix(rows, rows')
<1> DEFINE r == [cmd[p] EXCEPT !.at = "manifest"]
<1>1. /\ cmd[p].at = "rows" /\ Active(p) /\ rows' = cmd[p].rows
      /\ UNCHANGED <<dir, manifest, marker, owner, drift, sent, asked>>
  BY DEF WriteRows, At, Active, world
<1>2. r \in Command /\ cmd' = [cmd EXCEPT ![p] = r]
  <2>1. "manifest" \in Stations
    BY DEF Stations
  <2>2. QED
    BY <2>1, GoTyped DEF RunIInv, WriteRows, Go
<1>3. /\ r.at = "manifest" /\ r.resume = cmd[p].resume /\ r.summing = cmd[p].summing
      /\ r.run = cmd[p].run /\ r.rows = cmd[p].rows /\ r.saw = cmd[p].saw /\ r.then = cmd[p].then
  BY Memory DEF Command
<1>4. cmd'[p] = r /\ cmd' \in [Commands -> Command]
  BY <1>2 DEF RunIInv, RunTypes
<1> HIDE DEF r
<1>5. Writing(p) /\ rows' \in BoundedSeq(Row, Units)
  BY <1>1, Memory DEF Place
<1>6. TypeOK'
  BY <1>1, <1>4, <1>5 DEF RunIInv, RunTypes, TypeOK, Command
<1>7. Asked(rows)'
  BY <1>1, <1>5 DEF Writing, Asked
<1>8. CASE cmd[p].then \in {"admit", "recover"}
  <2>1. rows' = rows
    BY <1>1, <1>5, <1>8 DEF Writing, RunIInv, Disk
  <2>2. Disk'
    BY <1>1, <2>1 DEF RunIInv, Disk, Window
  <2>3. Story'
    BY <1>1, <2>1 DEF RunIInv, Story, AtMostOnce, SentIsOnDisk, Asked, CompletedIsWhole, AllSuccess
  <2>4. Writing(p)'
    BY <1>1, <1>3, <1>4, <1>5, <1>8, <2>1 DEF Writing, Asked, AllSuccess, Maker, Window
  <2>5. Place(p)'
    BY <1>3, <1>4, <2>4 DEF Place, Between, Asking
  <2>6. IsPrefix(rows, rows')
    BY <2>1, Memory, RowsAre, SubSeqFull DEF IsPrefix
  <2>7. QED
    BY <1>1, <1>2, <1>3, <1>6, <2>2, <2>3, <2>5, <2>6, GoesOn
<1>9. CASE cmd[p].then \in {"clear", "unmark"}
  <2>1. Growing(p)
    BY <1>1, <1>5, <1>9 DEF Writing
  <2>2. PICK row \in Row : rows' = Append(rows, row)
    BY <1>1, <2>1 DEF Growing
  <2>3. /\ manifest # None /\ manifest.of = rows /\ marker # None
        /\ marker.unit = Len(rows) + 1 /\ marker.preceding = rows /\ Len(rows) + 1 \in Unit
    BY <2>1, Memory DEF Growing, Marked, Markers
  <2>4. /\ Len(rows') = Len(rows) + 1 /\ Front(rows') = rows /\ IsPrefix(rows, rows') /\ rows' # rows
    BY <2>2, <2>3, Memory, OneMore
  <2>5. Window(manifest, rows, marker)'
    BY <1>1, <2>3, <2>4 DEF Window
  <2>6. Disk'
    BY <1>1, <2>3, <2>4, <2>5 DEF Disk
  <2>7. AtMostOnce' /\ SentIsOnDisk'
    BY <1>1, <2>3, <2>4, Memory DEF RunIInv, Story, AtMostOnce, SentIsOnDisk, Unit
  <2>8. CompletedIsWhole'
    BY <1>1, <2>3, RunAssumption DEF RunIInv, Story, CompletedIsWhole, AllSuccess, Unit
  <2>9. Writing(p)'
    BY <1>1, <1>3, <1>4, <1>5, <1>7, <1>9, <2>5 DEF Writing, AllSuccess
  <2>10. Place(p)'
    BY <1>3, <1>4, <2>9 DEF Place, Between, Asking
  <2>11. Story'
    BY <1>7, <2>7, <2>8 DEF Story
  <2>12. QED
    BY <1>1, <1>2, <1>3, <1>6, <2>4, <2>6, <2>10, <2>11, GoesOn
<1>10. QED
  BY <1>1, <1>5, <1>8, <1>9 DEF Writing

LEMMA WriteManifestKeeps ==
  ASSUME RunIInv, NEW p \in Commands, WriteManifest(p)
  PROVE  RunIInv'
<1> DEFINE there == cmd[p].then
           r == [cmd[p] EXCEPT !.at = there]
<1>1. /\ cmd[p].at = "manifest" /\ Active(p) /\ manifest' = cmd[p].run
      /\ UNCHANGED <<dir, rows, marker, owner, drift, sent, asked>>
  BY DEF WriteManifest, At, Active, world
<1>2. Writing(p)
  BY Memory DEF Place
<1>3. there \in {"admit", "recover", "clear", "unmark", "leave"}
  BY <1>1, <1>2 DEF Writing
<1>4. there \in Stations
  BY <1>3 DEF Stations, Between
<1>5. r \in Command /\ cmd' = [cmd EXCEPT ![p] = r]
  BY <1>4, GoTyped DEF RunIInv, WriteManifest, Go
<1>6. /\ r.at = there /\ r.resume = cmd[p].resume /\ r.summing = cmd[p].summing
      /\ r.run = cmd[p].run /\ r.rows = cmd[p].rows /\ r.saw = cmd[p].saw
  BY Memory DEF Command
<1>7. cmd'[p] = r /\ cmd' \in [Commands -> Command]
  BY <1>5 DEF RunIInv, RunTypes
<1> HIDE DEF r, there
<1>8. /\ cmd[p].run.of = rows /\ cmd[p].rows = rows
      /\ cmd[p].run.status = "completed" => AllSuccess(rows)
  BY <1>1, <1>2 DEF Writing
<1>9. manifest' \in Envelopes /\ manifest' # None /\ manifest'.of = rows
  BY <1>1, <1>8, Memory, RunAssumption
<1>10. TypeOK'
  BY <1>1, <1>7, <1>9 DEF RunIInv, RunTypes, TypeOK, Command
<1>11. /\ there \in {"admit", "leave"} => marker = None
       /\ there \in {"recover", "clear", "unmark"} => marker # None /\ marker.unit = Len(rows)
       /\ there = "recover" => cmd[p].saw = marker
  BY <1>1, <1>2, <1>3 DEF Writing, Window, RunIInv, Disk, there
<1>12. Disk'
  BY <1>1, <1>3, <1>9, <1>11 DEF Disk
<1>13. CompletedIsWhole'
  BY <1>1, <1>8 DEF CompletedIsWhole, AllSuccess
<1>14. Story'
  BY <1>1, <1>13 DEF RunIInv, Story, AtMostOnce, SentIsOnDisk, Asked
<1>15. Settled(p)'
  BY <1>1, <1>6, <1>7, <1>8, <1>9 DEF Settled, HasRun
<1>16. Writing(p)'
  BY <1>3, <1>6, <1>7 DEF Writing
<1>17. Place(p)'
  BY <1>1, <1>3, <1>6, <1>7, <1>11, <1>15, <1>16 DEF Place, Between, Asking, Recorded
<1>18. manifest # None \/ Maker(p)
  BY <1>1, <1>2 DEF Writing
<1>19. QED
  BY <1>1, <1>3, <1>5, <1>6, <1>10, <1>12, <1>14, <1>17, <1>18, GoesOn

\* The marker of a recorded unit is taken away.
LEMMA UnmarkKeeps ==
  ASSUME RunIInv, NEW p \in Commands, cmd[p].at \in {"clear", "unmark"},
         NEW place \in Between, Go(p, place), marker' = None,
         UNCHANGED <<dir, rows, manifest, owner, world>>
  PROVE  RunIInv'
<1> DEFINE r == [cmd[p] EXCEPT !.at = place]
<1>1. Settled(p) /\ Active(p) /\ Recorded
  BY SettledAt
<1>2. place \in Stations /\ place \notin {"idle", "reserve", "lock", "rows", "manifest"}
  BY StationsAre
<1>3. r \in Command /\ cmd' = [cmd EXCEPT ![p] = r]
  BY <1>2, GoTyped DEF RunIInv, Go
<1>4. /\ r.at = place /\ r.resume = cmd[p].resume /\ r.summing = cmd[p].summing
      /\ r.run = cmd[p].run /\ r.rows = cmd[p].rows
  BY Memory DEF Command
<1>5. cmd'[p] = r /\ cmd' \in [Commands -> Command]
  BY <1>3 DEF RunIInv, RunTypes
<1> HIDE DEF r
<1>6. TypeOK'
  BY <1>5 DEF RunIInv, RunTypes, TypeOK, Command, world
<1>7. Disk'
  BY <1>1 DEF Disk, Settled, HasRun
<1>8. SentIsOnDisk'
  BY <1>1, Memory DEF RunIInv, Story, SentIsOnDisk, Recorded, Unit, world
<1>9. Story'
  BY <1>8 DEF RunIInv, Story, AtMostOnce, Asked, CompletedIsWhole, AllSuccess, world
<1>10. Settled(p)'
  BY <1>1, <1>4, <1>5 DEF Settled, HasRun
<1>11. Place(p)'
  BY <1>4, <1>5, <1>10 DEF Place, Writing, Between, Asking
<1>12. QED
  BY <1>1, <1>2, <1>3, <1>4, <1>6, <1>7, <1>9, <1>11, GoesOn

LEMMA ClearKeeps ==
  ASSUME RunIInv, NEW p \in Commands, ClearRecovered(p) \/ Unmark(p)
  PROVE  RunIInv'
<1>1. cmd[p].at \in {"clear", "unmark"}
  BY DEF ClearRecovered, Unmark, At
<1>2. marker # None
  BY <1>1, SettledAt DEF Recorded
<1>3. \E place \in Between : Go(p, place) /\ UNCHANGED owner
  BY <1>2 DEF ClearRecovered, Unmark, Between
<1>4. marker' = None /\ UNCHANGED <<dir, rows, manifest, world>>
  BY DEF ClearRecovered, Unmark
<1>5. QED
  BY <1>1, <1>3, <1>4, UnmarkKeeps

\* Between two units a command goes on as it is.
LEMMA RestKeeps ==
  ASSUME RunIInv, NEW p \in Commands, cmd[p].at \in Between, NEW place \in Between, Go(p, place),
         UNCHANGED <<dir, files, owner, world>>
  PROVE  RunIInv'
<1>1. Settled(p) /\ Active(p) /\ marker = None
  BY SettledAt
<1>2. place \in Stations /\ place \notin {"idle", "reserve", "lock", "rows", "manifest"}
  BY StationsAre
<1>3. /\ place \notin {"load", "marker", "reconcile", "recover", "clear", "unmark"} /\ place \notin Asking
      /\ place \notin {"verify", "gold", "ask"} /\ place \notin {"asked", "check"}
  BY DEF Between, Asking
<1>4. QED
  BY <1>1, <1>2, <1>3, GoKeeps

LEMMA LoadedKeeps ==
  ASSUME RunIInv, NEW p \in Commands, Loaded(p)
  PROVE  RunIInv'
<1>1. cmd[p].at = "loaded" /\ UNCHANGED <<dir, files, world>>
  BY DEF Loaded, At
<1>2. \/ End(p)
      \/ (Go(p, "leave") \/ Go(p, "admit")) /\ UNCHANGED owner
  BY DEF Loaded
<1>3. {"loaded", "leave", "admit"} \subseteq Between
  BY DEF Between
<1>4. QED
  BY <1>1, <1>2, <1>3, Ends, RestKeeps

LEMMA AdmitKeeps ==
  ASSUME RunIInv, NEW p \in Commands, Admit(p) \/ Finish(p)
  PROVE  RunIInv'
<1>1. cmd[p].at \in {"admit", "next", "finish"} /\ UNCHANGED <<dir, files, owner, world>>
  BY DEF Admit, Finish, At
<1>2. {"admit", "next", "finish"} \subseteq Between
  BY DEF Between
<1>3. Settled(p) /\ Active(p) /\ marker = None
  BY <1>1, <1>2, SettledAt
<1>4. \/ Go(p, "next")
      \/ \E comparable \in BOOLEAN :
           cmd' = [cmd EXCEPT ![p].at = "manifest", ![p].run = finish_run(@, comparable),
                              ![p].then = "leave"]
  <2>1. TRUE \in BOOLEAN /\ unchanged \in BOOLEAN
    BY DEF unchanged
  <2>2. QED
    BY <2>1 DEF Admit, Finish
<1>5. CASE Go(p, "next")
  BY <1>1, <1>2, <1>5, RestKeeps
<1>6. QED
  BY <1>1, <1>3, <1>4, <1>5, FinishKeeps

LEMMA BeginKeeps ==
  ASSUME RunIInv, NEW p \in Commands, Begin(p)
  PROVE  RunIInv'
<1> DEFINE r == [cmd[p] EXCEPT !.at = "verify"]
<1>1. /\ cmd[p].at = "next" /\ UNCHANGED <<dir, rows, manifest, owner, drift, sent, asked>>
      /\ NextUnit(p) \in Unit /\ marker' = [unit |-> NextUnit(p), preceding |-> cmd[p].rows]
  BY DEF Begin, At, world
<1>2. Settled(p) /\ Active(p) /\ marker = None
  BY <1>1, SettledAt DEF Between
<1>3. "verify" \in Stations
  BY DEF Stations, Asking
<1>4. r \in Command /\ cmd' = [cmd EXCEPT ![p] = r]
  BY <1>3, GoTyped DEF RunIInv, Begin, Go
<1>5. /\ r.at = "verify" /\ r.resume = cmd[p].resume /\ r.summing = cmd[p].summing
      /\ r.run = cmd[p].run /\ r.rows = cmd[p].rows
  BY Memory DEF Command
<1>6. cmd'[p] = r /\ cmd' \in [Commands -> Command]
  BY <1>4 DEF RunIInv, RunTypes
<1> HIDE DEF r
<1>7. marker' \in Markers /\ marker'.unit = Len(rows) + 1 /\ marker'.preceding = rows
  BY <1>1, <1>2, Memory DEF Markers, NextUnit, Settled
<1>8. marker' # None
  BY <1>7, RunAssumption
<1>9. TypeOK'
  BY <1>1, <1>6, <1>7 DEF RunIInv, RunTypes, TypeOK, Command
<1>10. Disk'
  BY <1>1, <1>2, <1>7 DEF Disk, Settled, HasRun
<1>11. Story'
  BY <1>1, <1>2 DEF RunIInv, Story, AtMostOnce, SentIsOnDisk, Asked, CompletedIsWhole, AllSuccess
<1>12. Settled(p)' /\ Marked'
  BY <1>1, <1>2, <1>5, <1>6, <1>7, <1>8 DEF Settled, HasRun, Marked
<1>13. sent[Len(rows) + 1] = 0
  <2>1. Len(rows) + 1 \in Unit /\ sent[Len(rows) + 1] \in 0..2
    BY <1>1, <1>2 DEF NextUnit, Settled, RunIInv, RunTypes, TypeOK
  <2>2. QED
    BY <1>2, <2>1, Memory DEF RunIInv, Story, SentIsOnDisk
<1>14. Place(p)'
  BY <1>1, <1>5, <1>6, <1>12, <1>13 DEF Place, Writing, Between, Asking
<1>15. QED
  BY <1>1, <1>2, <1>4, <1>5, <1>9, <1>10, <1>11, <1>14, GoesOn

\* A check before or after the question goes on or records the unit.
LEMMA CheckKeeps ==
  ASSUME RunIInv, NEW p \in Commands, Verify(p) \/ CheckGold(p) \/ Answer(p) \/ Check(p)
  PROVE  RunIInv'
<1>1. cmd[p].at \in {"verify", "gold", "asked", "check"} /\ UNCHANGED <<dir, files, owner, world>>
  BY DEF Verify, CheckGold, Answer, Check, At
<1>2. Settled(p) /\ Active(p) /\ Marked
  BY <1>1, SettledAt DEF Asking
<1>3. CASE \/ cmd[p].at = "verify" /\ Go(p, "gold")
           \/ cmd[p].at = "gold" /\ Go(p, "ask")
           \/ cmd[p].at = "asked" /\ Go(p, "check")
  <2>1. PICK place \in {"gold", "ask", "check"} : Go(p, place) /\ (place = "check" <=> cmd[p].at = "asked")
    BY <1>3
  <2>2. place \in Stations
    BY DEF Stations, Asking
  <2>3. /\ place \in {"gold", "ask"} => sent[Len(rows) + 1] = 0
        /\ place = "check" => sent[Len(rows) + 1] = 1 /\ asked[Len(rows) + 1] \subseteq drift
    BY <1>1, <2>1, <1>3 DEF RunIInv, Place
  <2>4. QED
    BY <1>1, <1>2, <2>1, <2>2, <2>3, GoKeeps DEF Between
<1>4. CASE \E row \in Row : /\ Record(p, row)
                            /\ row = "success" => cmd[p].at = "check" /\ RuntimeAsPlanned
  <2>1. PICK row \in Row : /\ Record(p, row)
                           /\ row = "success" => cmd[p].at = "check" /\ RuntimeAsPlanned
    BY <1>4
  <2>2. row = "success" => sent[Len(rows) + 1] > 0 /\ asked[Len(rows) + 1] \subseteq {"inputs"}
    <3> SUFFICES ASSUME row = "success"
                 PROVE  sent[Len(rows) + 1] > 0 /\ asked[Len(rows) + 1] \subseteq {"inputs"}
      OBVIOUS
    <3>1. sent[Len(rows) + 1] = 1 /\ asked[Len(rows) + 1] \subseteq drift
      BY <2>1 DEF RunIInv, Place
    <3>2. drift \subseteq {"inputs"}
      BY <2>1, RunAssumption DEF RuntimeAsPlanned, RunIInv, RunTypes, TypeOK
    <3>3. asked[Len(rows) + 1] \subseteq {"inputs"}
      BY <3>1, <3>2, Zenon
    <3>4. QED
      BY <3>1, <3>3
  <2>3. Checkpointing(p, cmd[p].run, Append(cmd[p].rows, row), "unmark")
    BY <2>1 DEF Record
  <2>4. QED
    BY <1>1, <1>2, <2>2, <2>3, GrowthKeeps
<1>5. {"error", "drift", "success"} \subseteq Row /\ "error" # "success" /\ "drift" # "success"
  BY DEF Row
<1>6. CASE Verify(p) \/ CheckGold(p)
  <2>1. \/ cmd[p].at = "verify" /\ Go(p, "gold")
        \/ cmd[p].at = "gold" /\ Go(p, "ask")
        \/ \E row \in {"error", "drift"} : Record(p, row)
    BY <1>6 DEF Verify, CheckGold, At
  <2>2. QED
    BY <1>3, <1>4, <1>5, <2>1
<1>7. CASE Answer(p)
  BY <1>3, <1>4, <1>5, <1>7 DEF Answer, At
<1>8. CASE Check(p)
  BY <1>4, <1>5, <1>8 DEF Check, At
<1>9. QED
  BY <1>6, <1>7, <1>8

LEMMA AskKeeps ==
  ASSUME RunIInv, NEW p \in Commands, Ask(p)
  PROVE  RunIInv'
<1> DEFINE r == [cmd[p] EXCEPT !.at = "asked"]
           u == Len(rows) + 1
<1>1. cmd[p].at = "ask" /\ UNCHANGED <<dir, rows, manifest, marker, owner, drift>>
  BY DEF Ask, At, files
<1>2. Settled(p) /\ Active(p) /\ Marked
  BY <1>1, SettledAt DEF Asking
<1>3. "asked" \in Stations
  BY DEF Stations, Asking
<1>4. r \in Command /\ cmd' = [cmd EXCEPT ![p] = r]
  BY <1>3, GoTyped DEF RunIInv, Ask, Go
<1>5. /\ r.at = "asked" /\ r.resume = cmd[p].resume /\ r.summing = cmd[p].summing
      /\ r.run = cmd[p].run /\ r.rows = cmd[p].rows
  BY Memory DEF Command
<1>6. cmd'[p] = r /\ cmd' \in [Commands -> Command]
  BY <1>4 DEF RunIInv, RunTypes
<1> HIDE DEF r
<1>7. u \in Unit /\ NextUnit(p) = u
  BY <1>2, Memory DEF Marked, Markers, NextUnit, Settled
<1>8. sent[u] = 0 /\ sent \in [Unit -> 0..2] /\ asked \in [Unit -> SUBSET Drifts] /\ drift \in SUBSET Drifts
  BY <1>1 DEF RunIInv, Place, RunTypes, TypeOK
<1>9. sent' = [sent EXCEPT ![u] = 1] /\ asked' = [asked EXCEPT ![u] = drift]
  BY <1>7, <1>8 DEF Ask
<1>10. sent' \in [Unit -> 0..2] /\ asked' \in [Unit -> SUBSET Drifts] /\ sent'[u] = 1 /\ asked'[u] = drift
  BY <1>7, <1>8, <1>9
<1>11. \A v \in Unit \ {u} : sent'[v] = sent[v] /\ asked'[v] = asked[v]
  BY <1>7, <1>8, <1>9
<1> HIDE DEF u
<1>12. TypeOK'
  BY <1>1, <1>6, <1>10 DEF RunIInv, RunTypes, TypeOK, Command
<1>13. Disk'
  BY <1>1, <1>2 DEF RunIInv, Disk, Window, Settled, HasRun
<1>14. AtMostOnce' /\ SentIsOnDisk'
  BY <1>1, <1>2, <1>10, <1>11 DEF RunIInv, Story, AtMostOnce, SentIsOnDisk, Marked, u
<1>15. Asked(rows)'
  <2>1. DOMAIN rows = 1..Len(rows) /\ Len(rows) \in Nat
    BY Memory, RowsAre
  <2>2. \A v \in DOMAIN rows : v \in Unit \ {u}
    BY <1>7, <2>1, RunAssumption DEF Unit, u
  <2>3. QED
    BY <1>1, <1>11, <2>2 DEF RunIInv, Story, Asked
<1>16. Story'
  BY <1>1, <1>14, <1>15 DEF RunIInv, Story, CompletedIsWhole, AllSuccess
<1>17. Settled(p)' /\ Marked'
  BY <1>1, <1>2, <1>5, <1>6 DEF Settled, HasRun, Marked
<1>18. Place(p)'
  BY <1>1, <1>5, <1>6, <1>10, <1>17 DEF Place, Writing, Between, Asking, u
<1>19. QED
  BY <1>1, <1>2, <1>4, <1>5, <1>12, <1>13, <1>16, <1>18, GoesOn

\* The lock is given back, and the command loads the files for its summary.
LEMMA LeaveKeeps ==
  ASSUME RunIInv, NEW p \in Commands, Leave(p)
  PROVE  RunIInv'
<1> DEFINE r == [Idle EXCEPT !.at = "saved", !.summing = TRUE, !.planned = cmd[p].planned]
<1>1. /\ cmd[p].at = "leave" /\ Active(p) /\ owner' = None /\ cmd' = [cmd EXCEPT ![p] = r]
      /\ UNCHANGED <<dir, files, world>>
  BY DEF Leave, At, Active
<1>2. r \in Command /\ r.at = "saved" /\ r.summing
  <2>1. Idle \in Command /\ cmd[p].planned \in BOOLEAN
    BY IdleTyped, Memory DEF Command
  <2>2. QED
    BY <2>1 DEF Command, Stations
<1>3. cmd'[p] = r /\ \A q \in Commands \ {p} : cmd'[q] = cmd[q]
  BY <1>1 DEF RunIInv, RunTypes
<1>4. cmd' \in [Commands -> Command]
  BY <1>1, <1>2 DEF RunIInv, RunTypes
<1> HIDE DEF r
<1>5. \A q \in Commands \ {p} : ~Active(q) /\ ~cmd[q].summing
  BY <1>1, OnlyOne DEF RunIInv, Alone
<1>6. TypeOK'
  BY <1>1, <1>4 DEF RunIInv, RunTypes, TypeOK, Command, files, world
<1>7. Disk'
  BY <1>1 DEF RunIInv, Disk, files, world, Window
<1>8. Story'
  BY <1>1 DEF RunIInv, Story, AtMostOnce, SentIsOnDisk, Asked, CompletedIsWhole, AllSuccess, files, world
<1>9. Alone'
  <2>1. dir /\ dir' /\ manifest' = manifest
    BY <1>1 DEF RunIInv, Alone, Active, files
  <2>2. \A q \in Commands : Active(q)' => q = p
    BY <1>3, <1>5 DEF Active
  <2>3. \A q \in Commands : Maker(q)' => q # p /\ Maker(q) /\ cmd'[q] = cmd[q]
    BY <1>2, <1>3 DEF Maker
  <2>4. \A q \in Commands : cmd'[q].summing => q = p
    BY <1>3, <1>5
  <2>5. \A q \in Commands : Active(q)' => owner' = IF cmd'[q].summing THEN None ELSE q
    BY <1>1, <1>2, <1>3, <2>2
  <2>6. \A q \in Commands : cmd'[q].summing => Active(q)'
    BY <1>2, <1>3, <2>4 DEF Active
  <2>7. \A q \in Commands : (Maker(q)' /\ cmd'[q].at = "lock") => manifest' = None
    BY <2>1, <2>3 DEF RunIInv, Alone
  <2>8. QED
    BY <2>1, <2>3, <2>4, <2>5, <2>6, <2>7 DEF RunIInv, Alone
<1>10. ASSUME NEW q \in Commands PROVE Place(q)'
  <2>1. CASE q = p
    BY <1>2, <1>3, <2>1 DEF Place, Writing, Between, Asking
  <2>2. CASE q # p
    <3>1. cmd'[q] = cmd[q] /\ ~Active(q) /\ Place(q)
      BY <1>3, <1>5, <2>2 DEF RunIInv
    <3>2. QED
      BY <3>1 DEF Active, Place, Writing, Between, Asking
  <2>3. QED
    BY <2>1, <2>2
<1>11. QED
  BY <1>4, <1>6, <1>7, <1>8, <1>9, <1>10 DEF RunIInv, RunTypes

LEMMA DriftKeeps ==
  ASSUME RunIInv, Drift
  PROVE  RunIInv'
<1>1. UNCHANGED <<dir, rows, manifest, marker, owner, cmd, sent, asked>>
  BY DEF Drift, files
<1>2. drift \subseteq drift' /\ drift' \subseteq Drifts
  BY DEF Drift, RunIInv, RunTypes, TypeOK
<1>3. RunTypes'
  BY <1>1, <1>2 DEF RunIInv, RunTypes, TypeOK
<1>4. Alone' /\ Disk'
  BY <1>1 DEF RunIInv, Alone, Active, Maker, Disk, Window
<1>5. Story'
  BY <1>1 DEF RunIInv, Story, AtMostOnce, SentIsOnDisk, Asked, CompletedIsWhole, AllSuccess
<1>6. ASSUME NEW p \in Commands PROVE Place(p)'
  <2>1. Place(p)
    BY DEF RunIInv
  <2>2. Writing(p)'
    BY <1>1, <2>1 DEF Place, Writing, Asked, AllSuccess, Maker, Window, Growing, Marked
  <2>3. HasRun(p)' = HasRun(p) /\ Settled(p)' = Settled(p) /\ Marked' = Marked /\ Recorded' = Recorded
    BY <1>1 DEF HasRun, Settled, Marked, Recorded
  <2>4. \A s : s \subseteq drift => s \subseteq drift'
    BY <1>2
  <2>5. QED
    BY <1>1, <2>1, <2>2, <2>3, <2>4 DEF Place
<1>7. QED
  BY <1>3, <1>4, <1>5, <1>6 DEF RunIInv

LEMMA RunStep ==
  ASSUME SummaryApart, RunIInv, [Next]_vars
  PROVE  RunIInv'
<1>1. CASE UNCHANGED vars
  <2>1. UNCHANGED <<dir, rows, manifest, marker, owner, cmd, drift, sent, asked>>
    BY <1>1 DEF vars
  <2>2. RunTypes' /\ Alone' /\ Disk' /\ Story'
    BY <2>1 DEF RunIInv, RunTypes, TypeOK, Alone, Active, Maker, Disk, Window, Story, AtMostOnce,
                SentIsOnDisk, Asked, CompletedIsWhole, AllSuccess
  <2>3. \A p \in Commands : Place(p)'
    BY <2>1 DEF RunIInv, Place, Writing, Asked, AllSuccess, Maker, Window, Growing, Marked,
                HasRun, Settled, Recorded
  <2>4. QED
    BY <2>2, <2>3 DEF RunIInv
<1>2. CASE Drift
  BY <1>2, DriftKeeps
<1>3. ASSUME NEW p \in Commands, Start(p) \/ Crash(p) \/ Work(p)
      PROVE  RunIInv'
  <2>1. CASE Start(p) \/ Crash(p) \/ Reserve(p) \/ Lock(p) \/ WriteRows(p) \/ WriteManifest(p)
    BY <2>1, StartKeeps, Ends, ReserveKeeps, LockKeeps, WriteRowsKeeps, WriteManifestKeeps DEF Crash
  <2>2. CASE \/ LoadManifest(p) \/ LoadRows(p) \/ LoadMarker(p) \/ Reconcile(p) \/ Recover(p)
             \/ ClearRecovered(p) \/ Loaded(p)
    BY <2>2, LoadKeeps, ReconcileKeeps, RecoverKeeps, ClearKeeps, LoadedKeeps
  <2>3. CASE \/ Admit(p) \/ Begin(p) \/ Verify(p) \/ CheckGold(p) \/ Ask(p) \/ Answer(p) \/ Check(p)
             \/ Unmark(p) \/ Finish(p) \/ Leave(p)
    BY <2>3, AdmitKeeps, BeginKeeps, CheckKeeps, AskKeeps, ClearKeeps, LeaveKeeps
  <2>4. QED
    BY <1>3, <2>1, <2>2, <2>3 DEF Work
<1>4. QED
  BY <1>1, <1>2, <1>3 DEF Next

\* Terminal rows are only added to.
LEMMA RowsStep ==
  ASSUME RunIInv, [Next]_vars
  PROVE  [IsPrefix(rows, rows')]_vars
<1>1. CASE rows' = rows
  BY <1>1, Memory, RowsAre, SubSeqFull DEF IsPrefix, RunIInv, RunTypes, TypeOK
<1>2. CASE \E p \in Commands : WriteRows(p)
  BY <1>2, WriteRowsKeeps
<1>3. rows' = rows \/ \E p \in Commands : WriteRows(p)
  <2>1. ASSUME NEW p \in Commands, Start(p) \/ Crash(p) \/ Work(p)
        PROVE  rows' = rows \/ WriteRows(p)
    BY <2>1 DEF Start, Crash, Work, Reserve, Lock, WriteManifest, LoadManifest, LoadRows, LoadMarker,
         Reconcile, Recover, ClearRecovered, Loaded, Admit, Begin, Verify, CheckGold, Ask, Answer,
         Check, Unmark, Finish, Leave, files
  <2>2. Drift => rows' = rows
    BY DEF Drift, files
  <2>3. UNCHANGED vars => rows' = rows
    BY DEF vars
  <2>4. QED
    BY <2>1, <2>2, <2>3 DEF Next
<1>4. QED
  BY <1>1, <1>2, <1>3

LEMMA RunTold == RunIInv => RunInv
<1> SUFFICES ASSUME RunIInv PROVE RunInv
  OBVIOUS
<1>1. TypeOK /\ AtMostOnce /\ SentIsOnDisk /\ CompletedIsWhole
  BY DEF RunIInv, RunTypes, Story
<1>2. ASSUME NEW u \in DOMAIN rows, rows[u] = "interrupted", NEW p \in Commands,
             cmd[p].at \in {"verify", "gold", "ask", "asked", "check"}
      PROVE  NextUnit(p) # u
  <2>1. cmd[p].rows = rows
    BY <1>2, SettledAt DEF Asking, Settled
  <2>2. u \in 1..Len(rows) /\ Len(rows) \in Nat
    BY <1>2, Memory, RowsAre
  <2>3. QED
    BY <2>1, <2>2 DEF NextUnit
<1>3. RowsAreTrue
  BY <1>2 DEF RunIInv, Story, Asked, RowsAreTrue
<1>4. Resumable
  BY DEF RunIInv, Disk, Resumable
<1>5. QED
  BY <1>1, <1>3, <1>4 DEF RunInv

----------------------------------------------------------------------------
(* The seeded database.                                                    *)

Bindings == [id : Nat, version : Nat, digest : Nat]
Objects == [id : Nat, version : Nat, digest : Nat, live : BOOLEAN, original : BOOLEAN]
Inputs == [keys : SUBSET Keys, digest : [Seed!Documents -> 1 .. MaxInputs + 1]]

\* Where a command is, with and without the lock in its hand.
Locked == {"migrate", "mark", "credentials", "publish", "extend", "step", "export", "reported"}
Planned == {"credentials", "publish", "extend", "step"}
SeedPlaces == {"idle", "inspect", "prepare", "coordinate"} \cup Locked

Seeding ==
  [at : SeedPlaces, initialize : BOOLEAN, accepted : SUBSET Seed!Documents, input : Inputs \cup {None},
   seen : {None, Own, Foreign}, expected : [Keys -> Bindings], secrets : [Seed!Users -> Nat],
   steps : SUBSET Keys, session : BOOLEAN, reads : Nat]

\* A command works on its own inputs, replaces what it was told to, has read what it
\* is about to write, and knows passwords that were given out.
Works(r) ==
  /\ r.at # "idle" => r.input \in Inputs /\ Admin \in r.input.keys
  /\ r.at \notin Planned => r.steps = {}
  /\ r.steps \subseteq r.input.keys
  /\ \A d \in r.steps \intersect Seed!Documents : r.expected[d] # Seed!NoBinding => d \in r.accepted
  /\ r.reads # 0 =>
        /\ r.at = "step" /\ r.steps # {}
        /\ Kind[Seed!First(r.steps)] = "document" /\ r.reads = r.input.digest[Seed!First(r.steps)]
Plans(r) == Works(r) /\ r.secrets \in [Seed!Users -> 0 .. ids]

\* Accounts and documents are registered with their entry; access is missing where
\* somebody took it away; a membership has one identity.
Registered ==
  /\ \A k \in Seed!Users \union Seed!Documents : objects[k] # Seed!NoRow <=> Seed!Tracked(k)
  /\ \A k \in Seed!Access : Seed!Tracked(k) => (objects[k] = Seed!NoRow <=> k \in removed)
  /\ \A k \in removed : Seed!Tracked(k)
  /\ \A k \in Keys : objects[k] # Seed!NoRow => objects[k].id # 0
  /\ \A k \in Keys : (Kind[k] = "membership" /\ objects[k] # Seed!NoRow) => objects[k].id = 1

SeedTypes ==
  /\ Seed!TypeOK /\ ids \in Nat
  /\ run \in [Commands -> Seeding]
  /\ Admin \in input.keys
  /\ \A c \in Commands : Seed!At(c, "mark") => schema

\* What holds whatever happens to the lock.
SeedBase == SeedTypes /\ Registered /\ \A c \in Commands : Plans(run[c])

LEMMA FirstIs ==
  ASSUME NEW s \in SUBSET Keys, s # {}
  PROVE  Seed!First(s) \in s
<1>1. \A k \in s : Seed!Rank(k) \in {0, 1, 2, 3, 4, 5}
  BY SeedIsPossible DEF Seed!SeedAssumption, Seed!Rank
<1>2. \E k \in s : \A j \in s : Seed!Rank(k) <= Seed!Rank(j)
  <2>1. CASE \E k \in s : Seed!Rank(k) = 0
    BY <1>1, <2>1
  <2>2. CASE (\A k \in s : Seed!Rank(k) # 0) /\ \E k \in s : Seed!Rank(k) = 1
    BY <1>1, <2>2
  <2>3. CASE (\A k \in s : Seed!Rank(k) \notin {0, 1}) /\ \E k \in s : Seed!Rank(k) = 2
    BY <1>1, <2>3
  <2>4. CASE (\A k \in s : Seed!Rank(k) \notin {0, 1, 2}) /\ \E k \in s : Seed!Rank(k) = 3
    BY <1>1, <2>4
  <2>5. CASE (\A k \in s : Seed!Rank(k) \notin {0, 1, 2, 3}) /\ \E k \in s : Seed!Rank(k) = 4
    BY <1>1, <2>5
  <2>6. CASE \A k \in s : Seed!Rank(k) \notin {0, 1, 2, 3, 4}
    BY <1>1, <2>6
  <2>7. QED
    BY <2>1, <2>2, <2>3, <2>4, <2>5, <2>6
<1>3. QED
  BY <1>2 DEF Seed!First

LEMMA KindsApart ==
  /\ Seed!Users \subseteq Keys /\ Seed!Documents \subseteq Keys /\ Seed!Access \subseteq Keys
  /\ Seed!Users \intersect Seed!Documents = {} /\ Seed!Users \intersect Seed!Access = {} /\ Seed!Documents \intersect Seed!Access = {}
  /\ \A k \in Keys : /\ k \in Seed!Users <=> Kind[k] = "user"
                     /\ k \in Seed!Documents <=> Kind[k] = "document"
                     /\ k \in Seed!Access <=> Kind[k] \in {"membership", "grant"}
                     /\ Kind[k] \in {"user", "role", "document", "membership", "grant"}
BY SeedIsPossible DEF Seed!SeedAssumption, Seed!Users, Seed!Documents, Seed!Access, Seed!KindOf

LEMMA IdleSeeding == ids \in Nat => Seed!Idle \in Seeding /\ Plans(Seed!Idle)
<1> SUFFICES ASSUME ids \in Nat PROVE Seed!Idle \in Seeding /\ Plans(Seed!Idle)
  OBVIOUS
<1>1. Seed!NoFile \in [Seed!Users -> Nat] /\ Seed!NoFile \in [Seed!Users -> 0 .. ids]
  BY DEF Seed!NoFile
<1>2. [k \in Keys |-> Seed!NoBinding] \in [Keys -> Bindings]
  BY DEF Seed!NoBinding, Bindings
<1>3. Seed!Idle \in Seeding
  BY <1>1, <1>2 DEF Seed!Idle, Seeding, SeedPlaces
<1>4. Plans(Seed!Idle)
  BY <1>1 DEF Plans, Works, Seed!Idle, Planned
<1>5. QED
  BY <1>3, <1>4

LEMMA SeedInit == Seed!Init => SeedBase
<1> SUFFICES ASSUME Seed!Init PROVE SeedBase
  OBVIOUS
<1> USE SeedIsPossible DEF Seed!SeedAssumption
<1>1. Seed!NoRow \in Objects /\ Seed!NoBinding \in Bindings
  BY DEF Seed!NoRow, Objects, Seed!NoBinding, Bindings
<1>2. objects \in [Keys -> Objects] /\ ledger \in [Keys -> Bindings]
  BY <1>1 DEF Seed!Init
<1>3. {accounts, journal, additions} \subseteq [Seed!Users -> 0 .. ids]
  BY DEF Seed!Init, Seed!NoFile
<1>4. input \in Inputs /\ Admin \in input.keys
  BY DEF Seed!Init, Inputs
<1>5. ids \in Nat /\ run \in [Commands -> Seeding] /\ \A c \in Commands : run[c] = Seed!Idle
  BY IdleSeeding DEF Seed!Init
<1>6. Seed!TypeOK
  BY <1>2, <1>3, <1>4 DEF Seed!Init, Seed!TypeOK, Objects, Bindings, Inputs
<1>7. SeedTypes
  BY <1>4, <1>5, <1>6 DEF SeedTypes, Seed!Init, Seed!At, Seed!Idle
<1>8. Registered
  <2>1. \A k \in Keys : ~Seed!Tracked(k) /\ objects[k] = Seed!NoRow
    BY DEF Seed!Init, Seed!Tracked
  <2>2. QED
    BY <2>1, KindsApart DEF Seed!Init, Registered
<1>9. QED
  BY <1>5, <1>7, <1>8, IdleSeeding DEF SeedBase

\* A command goes on; the database stays as it is but for its migration and its marker.
LEMMA MovesOn ==
  ASSUME SeedBase, NEW c \in Commands, NEW r \in Seeding, Seed!Goes(c, r), Plans(r),
         UNCHANGED <<objects, ledger, ids, accounts, Seed!files, input, Seed!trouble>>,
         lock' \in Commands \union {None}, schema' \in BOOLEAN, schema => schema',
         ownedBy' \in {None, Own, Foreign}, ownedBy' # ownedBy => schema,
         r.at = "mark" => schema'
  PROVE  SeedBase'
<1>1. run' \in [Commands -> Seeding] /\ run'[c] = r /\ \A q \in Commands \ {c} : run'[q] = run[q]
  BY DEF SeedBase, SeedTypes, Seed!Goes
<1>2. Seed!TypeOK'
  BY DEF SeedBase, SeedTypes, Seed!TypeOK, Seed!files, Seed!trouble
<1>3. SeedTypes'
  BY <1>1, <1>2 DEF SeedBase, SeedTypes, Seed!At
<1>4. Registered'
  BY DEF SeedBase, Registered, Seed!Tracked, Seed!trouble
<1>5. \A q \in Commands : Plans(run[q])'
  BY <1>1 DEF SeedBase, Plans, Works
<1>6. QED
  BY <1>3, <1>4, <1>5 DEF SeedBase

\* Nothing but the command itself changes, and the lock.
LEMMA MovesAlone ==
  ASSUME SeedBase, NEW c \in Commands, NEW r \in Seeding, Seed!Goes(c, r), Plans(r),
         UNCHANGED <<Seed!database, Seed!files, input, Seed!trouble>>,
         lock' \in Commands \union {None}, r.at = "mark" => schema
  PROVE  SeedBase'
<1>1. UNCHANGED <<schema, ownedBy, objects, ledger, ids, accounts, Seed!files, input, Seed!trouble>>
  BY DEF Seed!database
<1>2. schema \in BOOLEAN /\ ownedBy \in {None, Own, Foreign}
  BY DEF SeedBase, SeedTypes, Seed!TypeOK
<1>3. QED
  BY <1>1, <1>2, MovesOn

LEMMA LockTyped ==
  ASSUME SeedBase, NEW c \in Commands
  PROVE  /\ lock \in Commands \union {None} /\ Seed!Unlocked(c) \in Commands \union {None}
         /\ run[c] \in Seeding /\ Plans(run[c]) /\ ids \in Nat
BY DEF SeedBase, SeedTypes, Seed!TypeOK, Seed!Unlocked

LEMMA FailKeeps ==
  ASSUME SeedBase, NEW c \in Commands, Seed!Fail(c)
  PROVE  SeedBase'
BY IdleSeeding, LockTyped, MovesAlone DEF Seed!Fail, Seed!Idle

LEMMA StartSeeding ==
  ASSUME SeedBase, NEW c \in Commands, Seed!Start(c)
  PROVE  SeedBase'
<1>1. PICK initialize \in BOOLEAN, accepted \in SUBSET (Seed!Documents \intersect input.keys) :
        Seed!Goes(c, [Seed!Idle EXCEPT !.at = "inspect", !.initialize = initialize,
                             !.accepted = accepted, !.input = input])
  BY DEF Seed!Start
<1> DEFINE r == [Seed!Idle EXCEPT !.at = "inspect", !.initialize = initialize,
                             !.accepted = accepted, !.input = input]
<1>2. input \in Inputs /\ Admin \in input.keys
  BY DEF SeedBase, SeedTypes, Seed!TypeOK, Inputs
<1>3. r \in Seeding
  BY <1>2, LockTyped, IdleSeeding DEF Seeding, SeedPlaces
<1>4. r.at = "inspect" /\ r.input = input /\ r.steps = {} /\ r.reads = 0 /\ r.secrets = Seed!Idle.secrets
  BY DEF Seed!Idle
<1>5. Plans(r)
  BY <1>2, <1>4, LockTyped, IdleSeeding DEF Plans, Works, Planned
<1>6. QED
  BY <1>1, <1>3, <1>4, <1>5, LockTyped, MovesAlone DEF Seed!Start

LEMMA BeforeKeeps ==
  ASSUME SeedBase, NEW c \in Commands, Seed!Inspect(c) \/ Seed!Prepare(c) \/ Seed!Migrate(c) \/ Seed!Mark(c)
  PROVE  SeedBase'
<1>1. CASE Seed!Fail(c)
  BY <1>1, FailKeeps
<1>2. CASE Seed!Inspect(c) /\ ~Seed!Fail(c)
  <2>1. Seed!Goes(c, [run[c] EXCEPT !.at = "prepare"]) /\ UNCHANGED <<Seed!database, Seed!files, input, lock, Seed!trouble>>
    BY <1>2 DEF Seed!Inspect
  <2>2. [run[c] EXCEPT !.at = "prepare"] \in Seeding /\ Plans([run[c] EXCEPT !.at = "prepare"])
    BY <1>2, LockTyped DEF Seed!Inspect, Seed!At, Seeding, Plans, Works, Planned, SeedPlaces
  <2>3. [run[c] EXCEPT !.at = "prepare"].at # "mark"
    BY LockTyped DEF Seeding
  <2>4. QED
    BY <2>1, <2>2, <2>3, LockTyped, MovesAlone
<1>3. CASE Seed!Prepare(c) /\ ~Seed!Fail(c)
  <2> DEFINE r == [run[c] EXCEPT !.at = "migrate", !.initialize = FALSE, !.seen = ownedBy]
  <2>1. Seed!Goes(c, r) /\ lock' = c /\ UNCHANGED <<Seed!database, Seed!files, input, Seed!trouble>>
    BY <1>3 DEF Seed!Prepare
  <2>2. ownedBy \in {None, Own, Foreign}
    BY DEF SeedBase, SeedTypes, Seed!TypeOK
  <2>3. r \in Seeding /\ Plans(r) /\ r.at # "mark"
    BY <1>3, <2>2, LockTyped DEF Seed!Prepare, Seed!At, Seeding, Plans, Works, Planned, SeedPlaces, Locked
  <2> HIDE DEF r
  <2>4. QED
    BY <2>1, <2>3, LockTyped, MovesAlone
<1>4. CASE Seed!Migrate(c)
  <2> DEFINE r == [run[c] EXCEPT !.at = "mark"]
  <2>1. /\ Seed!Goes(c, r) /\ schema' = TRUE
        /\ UNCHANGED <<ownedBy, objects, ledger, ids, accounts, Seed!files, input, lock, Seed!trouble>>
    BY <1>4 DEF Seed!Migrate, Seed!Migrated
  <2>2. r \in Seeding /\ Plans(r)
    BY <1>4, LockTyped DEF Seed!Migrate, Seed!At, Seeding, Plans, Works, Planned, SeedPlaces, Locked
  <2>3. ownedBy \in {None, Own, Foreign}
    BY DEF SeedBase, SeedTypes, Seed!TypeOK
  <2> HIDE DEF r
  <2>4. QED
    BY <2>1, <2>2, <2>3, LockTyped, MovesOn
<1>5. CASE Seed!Mark(c) /\ ~Seed!Fail(c)
  <2> DEFINE r == [run[c] EXCEPT !.at = "coordinate", !.seen = None]
  <2>1. /\ Seed!Goes(c, r) /\ lock' = Seed!Unlocked(c) /\ ownedBy' \in {ownedBy, Own}
        /\ UNCHANGED <<schema, objects, ledger, ids, accounts, Seed!files, input, Seed!trouble>>
    BY <1>5 DEF Seed!Mark
  <2>2. r \in Seeding /\ Plans(r) /\ r.at # "mark"
    BY <1>5, LockTyped DEF Seed!Mark, Seed!At, Seeding, Plans, Works, Planned, SeedPlaces
  <2>3. ownedBy \in {None, Own, Foreign} /\ schema
    BY <1>5 DEF SeedBase, SeedTypes, Seed!TypeOK, Seed!Mark
  <2> HIDE DEF r
  <2>4. QED
    BY <2>1, <2>2, <2>3, LockTyped, MovesOn
<1>6. QED
  BY <1>1, <1>2, <1>3, <1>4, <1>5

\* What is left to do is in the plan: new, accepted, or access.
LEMMA WorkIs ==
  ASSUME SeedBase, NEW r \in Seeding, r.input \in Inputs, Seed!Valid(r, Seed!plan_seed(r.input))
  PROVE  /\ Seed!Work(r.input, Seed!plan_seed(r.input)) \subseteq r.input.keys
         /\ \A d \in Seed!Work(r.input, Seed!plan_seed(r.input)) \intersect Seed!Documents :
              ledger[d] # Seed!NoBinding => d \in r.accepted
         /\ \A k \in r.input.keys :
              \/ k \in Seed!Work(r.input, Seed!plan_seed(r.input))
              \/ Seed!Tracked(k) /\ (k \in Seed!Documents => ledger[k].digest = r.input.digest[k])
<1> DEFINE plan == Seed!plan_seed(r.input)
<1>1. r.input.keys \subseteq Keys
  BY DEF Inputs
<1>2. /\ \A k \in Keys : k \in plan.new <=> k \in r.input.keys /\ ~Seed!Tracked(k) /\ Seed!Seen(k) = Seed!NoRow
      /\ \A k \in Keys : k \in plan.changes <=> /\ k \in r.input.keys \intersect Seed!Documents
                                               /\ Seed!Tracked(k) /\ ~Seed!Drifted(k) /\ ledger[k].digest # r.input.digest[k]
      /\ \A k \in r.input.keys : k \in plan.drift <=> Seed!Drifted(k)
      /\ plan.new \subseteq r.input.keys /\ plan.changes \subseteq r.input.keys
  BY <1>1 DEF Seed!plan_seed
<1>3. plan.drift = {} /\ plan.changes \subseteq r.accepted
  BY DEF Seed!Valid
<1>4. Seed!Work(r.input, plan) = plan.new \union plan.changes \union
                            {k \in r.input.keys : k \notin Seed!Users \union Seed!Documents}
  BY DEF Seed!Work
<1> HIDE DEF plan
<1>5. \A k \in r.input.keys : ~Seed!Drifted(k)
  BY <1>2, <1>3
<1>6. Seed!Work(r.input, plan) \subseteq r.input.keys
  BY <1>2, <1>4
<1>7. ASSUME NEW d \in Seed!Work(r.input, plan) \intersect Seed!Documents, ledger[d] # Seed!NoBinding
      PROVE  d \in r.accepted
  BY <1>1, <1>2, <1>3, <1>4, <1>6, <1>7 DEF Seed!Tracked
<1>8. ASSUME NEW k \in r.input.keys
      PROVE  \/ k \in Seed!Work(r.input, plan)
             \/ Seed!Tracked(k) /\ (k \in Seed!Documents => ledger[k].digest = r.input.digest[k])
  <2>1. CASE ~Seed!Tracked(k)
    BY <1>1, <1>2, <1>4, <1>5, <2>1 DEF Seed!Drifted
  <2>2. CASE Seed!Tracked(k) /\ k \in Seed!Documents
    BY <1>1, <1>2, <1>4, <1>5, <2>2
  <2>3. CASE k \notin Seed!Documents
    BY <1>1, <1>4, <2>1, <2>3
  <2>4. QED
    BY <2>1, <2>2, <2>3
<1>9. QED
  BY <1>6, <1>7, <1>8 DEF plan

LEMMA CoordinateKeeps ==
  ASSUME SeedBase, NEW c \in Commands, Seed!Coordinate(c)
  PROVE  SeedBase'
<1> DEFINE plan == Seed!plan_seed(run[c].input)
           r == [run[c] EXCEPT !.at = "credentials", !.expected = ledger,
                               !.steps = Seed!Work(run[c].input, plan)]
<1>1. CASE Seed!Fail(c)
  BY <1>1, FailKeeps
<1>2. CASE ownedBy = Own /\ Seed!Valid(run[c], plan)
  <2>1. Seed!Goes(c, r) /\ lock' = c /\ UNCHANGED <<Seed!database, Seed!files, input, Seed!trouble>>
    BY <1>2 DEF Seed!Coordinate
  <2>2. run[c].at = "coordinate" /\ run[c].input \in Inputs /\ run[c].reads = 0 /\ run[c].steps = {}
    BY LockTyped DEF Seed!Coordinate, Seed!At, Plans, Works, Planned
  <2>3. /\ Seed!Work(run[c].input, plan) \subseteq run[c].input.keys
        /\ \A d \in Seed!Work(run[c].input, plan) \intersect Seed!Documents :
             ledger[d] # Seed!NoBinding => d \in run[c].accepted
    BY <1>2, <2>2, WorkIs, LockTyped
  <2>4. ledger \in [Keys -> Bindings] /\ run[c].input.keys \subseteq Keys
    BY <2>2 DEF SeedBase, SeedTypes, Seed!TypeOK, Bindings, Inputs
  <2> HIDE DEF plan
  <2>5. /\ r \in Seeding /\ r.at = "credentials" /\ r.expected = ledger /\ r.reads = 0
        /\ r.steps = Seed!Work(run[c].input, plan) /\ r.input = run[c].input /\ r.accepted = run[c].accepted
        /\ r.secrets = run[c].secrets
    BY <2>2, <2>3, <2>4, LockTyped DEF Seeding, SeedPlaces, Locked
  <2>6. Admin \in run[c].input.keys
    BY <2>2, LockTyped DEF Plans, Works
  <2> HIDE DEF r
  <2>7. Plans(r)
    BY <2>2, <2>3, <2>5, <2>6, LockTyped DEF Plans, Works, Planned
  <2>8. QED
    BY <2>1, <2>5, <2>7, MovesAlone
<1>3. QED
  BY <1>1, <1>2 DEF Seed!Coordinate

LEMMA SignedKeeps ==
  ASSUME SeedBase, NEW c \in Commands,
         Seed!LookForJournal(c) \/ Seed!SignIn(c) \/ Seed!Reread(c) \/ Seed!Export(c) \/ Seed!Close(c) \/ Seed!Crash(c)
  PROVE  SeedBase'
<1>1. CASE Seed!Fail(c)
  BY <1>1, FailKeeps
<1>2. /\ run[c] \in Seeding /\ Plans(run[c])
      /\ run[c].expected \in [Keys -> Bindings] /\ run[c].secrets \in [Seed!Users -> Nat]
      /\ run[c].session \in BOOLEAN /\ run[c].reads \in Nat
  BY LockTyped DEF Seeding
<1>3. CASE Seed!LookForJournal(c) /\ ~Seed!Fail(c)
  <2>1. PICK place \in {"publish", "extend"} :
          Seed!Goes(c, [run[c] EXCEPT !.at = place]) /\ UNCHANGED <<Seed!database, Seed!files, input, lock, Seed!trouble>>
    BY <1>3 DEF Seed!LookForJournal
  <2> DEFINE r == [run[c] EXCEPT !.at = place]
  <2>2. r \in Seeding /\ Plans(r) /\ r.at = place
    BY <1>2, <1>3 DEF Seed!LookForJournal, Seed!At, Plans, Works, Seeding, Planned, SeedPlaces, Locked
  <2> HIDE DEF r
  <2>3. QED
    BY <2>1, <2>2, LockTyped, MovesAlone DEF r
<1>4. CASE Seed!SignIn(c) /\ ~Seed!Fail(c)
  <2> DEFINE r == [run[c] EXCEPT !.session = TRUE]
  <2>1. Seed!Goes(c, r) /\ UNCHANGED <<Seed!database, Seed!files, input, lock, Seed!trouble>>
    BY <1>4 DEF Seed!SignIn
  <2>2. r \in Seeding /\ Plans(r) /\ r.at = "step"
    BY <1>2, <1>4 DEF Seed!SignIn, Seed!At, Plans, Works, Seeding, Planned
  <2> HIDE DEF r
  <2>3. QED
    BY <2>1, <2>2, LockTyped, MovesAlone
<1>5. CASE Seed!Reread(c) /\ ~Seed!Fail(c)
  <2> DEFINE r == [run[c] EXCEPT !.at = "export", !.expected = ledger]
  <2>1. Seed!Goes(c, r) /\ UNCHANGED <<Seed!database, Seed!files, input, lock, Seed!trouble>>
    BY <1>5 DEF Seed!Reread
  <2>2. run[c].at = "step" /\ run[c].steps = {} /\ run[c].reads = 0
    BY <1>2, <1>5 DEF Seed!Reread, Seed!At, Plans, Works
  <2>3. ledger \in [Keys -> Bindings]
    BY DEF SeedBase, SeedTypes, Seed!TypeOK, Bindings
  <2>4. r \in Seeding /\ Plans(r) /\ r.at = "export"
    BY <1>2, <2>2, <2>3 DEF Plans, Works, Seeding, Planned, SeedPlaces, Locked
  <2> HIDE DEF r
  <2>5. QED
    BY <2>1, <2>4, LockTyped, MovesAlone
<1>6. CASE Seed!Export(c) /\ ~Seed!Fail(c)
  <2> DEFINE r == [run[c] EXCEPT !.at = "reported"]
  <2>1. Seed!Goes(c, r) /\ UNCHANGED <<Seed!database, Seed!files, input, lock, Seed!trouble>>
    BY <1>6 DEF Seed!Export
  <2>2. r \in Seeding /\ Plans(r) /\ r.at = "reported"
    BY <1>2, <1>6 DEF Seed!Export, Seed!At, Plans, Works, Seeding, Planned, SeedPlaces, Locked
  <2> HIDE DEF r
  <2>3. QED
    BY <2>1, <2>2, LockTyped, MovesAlone
<1>7. CASE Seed!Crash(c)
  BY <1>7, IdleSeeding, LockTyped, MovesAlone DEF Seed!Crash, Seed!Idle, Seed!Unlocked
<1>8. QED
  BY <1>1, <1>3, <1>4, <1>5, <1>6, <1>7 DEF Seed!Close

LEMMA FilesKeep ==
  ASSUME SeedBase, NEW c \in Commands, Seed!PublishJournal(c) \/ Seed!Extend(c)
  PROVE  SeedBase'
<1>1. CASE Seed!Fail(c)
  BY <1>1, FailKeeps
<1>2. /\ run[c] \in Seeding /\ Plans(run[c]) /\ ids \in Nat
      /\ accounts \in [Seed!Users -> 0..ids] /\ journal \in [Seed!Users -> 0..ids] /\ additions \in [Seed!Users -> 0..ids]
  BY LockTyped DEF SeedBase, SeedTypes, Seed!TypeOK
<1>3. ASSUME NEW r \in Seeding, Works(r), r.at # "mark", Seed!Goes(c, r), ids' \in {ids, ids + 1},
             r.secrets \in [Seed!Users -> 0 .. ids'],
             journal' \in [Seed!Users -> 0..ids'], additions' \in [Seed!Users -> 0..ids'],
             UNCHANGED <<schema, ownedBy, objects, ledger, accounts, input, lock, Seed!trouble>>
      PROVE  SeedBase'
  <2>1. run' \in [Commands -> Seeding] /\ run'[c] = r /\ \A q \in Commands \ {c} : run'[q] = run[q]
    BY <1>3 DEF SeedBase, SeedTypes, Seed!Goes
  <2>2. ids' \in Nat /\ accounts' \in [Seed!Users -> 0..ids']
    BY <1>2, <1>3
  <2>3. Seed!TypeOK'
    BY <1>3, <2>2 DEF SeedBase, SeedTypes, Seed!TypeOK, Seed!trouble
  <2>4. SeedTypes'
    BY <1>3, <2>1, <2>2, <2>3 DEF SeedBase, SeedTypes, Seed!At
  <2>5. Registered'
    BY <1>3 DEF SeedBase, Registered, Seed!Tracked, Seed!trouble
  <2>6. \A q \in Commands : Plans(run[q])'
    <3>1. \A q \in Commands : Works(run'[q])
      BY <1>3, <2>1 DEF SeedBase, Plans
    <3>2. \A q \in Commands : run'[q].secrets \in [Seed!Users -> 0 .. ids']
      <4>1. 0 .. ids \subseteq 0 .. ids'
        BY <1>2, <1>3
      <4>2. \A q \in Commands : run[q].secrets \in [Seed!Users -> 0 .. ids]
        BY DEF SeedBase, Plans
      <4>3. QED
        BY <1>3, <2>1, <4>1, <4>2
    <3>3. QED
      BY <3>1, <3>2 DEF Plans
  <2>7. QED
    BY <2>4, <2>5, <2>6 DEF SeedBase
<1>4. CASE Seed!PublishJournal(c)
  <2> DEFINE r == [run[c] EXCEPT !.at = "extend"]
  <2>1. r \in Seeding /\ Works(r) /\ r.at = "extend" /\ r.secrets \in [Seed!Users -> 0 .. ids]
    BY <1>2, <1>4 DEF Seed!PublishJournal, Seed!At, Plans, Works, Seeding, Planned, SeedPlaces, Locked
  <2>2. /\ Seed!Goes(c, r) /\ ids' = ids + 1 /\ additions' = additions
        /\ UNCHANGED <<schema, ownedBy, objects, ledger, accounts, input, lock, Seed!trouble>>
    BY <1>4 DEF Seed!PublishJournal
  <2>3. journal' \in [Seed!Users -> 0..ids'] /\ additions' \in [Seed!Users -> 0..ids']
    <3>1. ids' \in 0..ids' /\ 0 \in 0..ids' /\ 0..ids \subseteq 0..ids'
      BY <1>2, <2>2
    <3>2. [u \in Seed!Users |-> IF u \in run[c].input.keys THEN ids' ELSE 0] \in [Seed!Users -> 0..ids']
      BY <3>1
    <3>3. journal \in [Seed!Users -> 0..ids'] /\ additions' \in [Seed!Users -> 0..ids']
      BY <1>2, <2>2, <3>1
    <3>4. QED
      BY <1>4, <3>2, <3>3 DEF Seed!PublishJournal, Seed!Published
  <2> HIDE DEF r
  <2>4. r.secrets \in [Seed!Users -> 0 .. ids']
    BY <1>2, <2>1, <2>2
  <2>5. QED
    BY <1>3, <2>1, <2>2, <2>3, <2>4
<1>5. CASE Seed!Extend(c) /\ ~Seed!Fail(c)
  <2> DEFINE missing == {u \in Seed!Users \intersect run[c].input.keys : journal[u] = 0 /\ additions[u] = 0}
             secrets == [u \in Seed!Users |-> IF journal[u] # 0 THEN journal[u] ELSE additions'[u]]
             r == [run[c] EXCEPT !.at = "step", !.secrets = secrets]
  <2>1. /\ Seed!Goes(c, r) /\ journal' = journal /\ ids' = IF missing = {} THEN ids ELSE ids + 1
        /\ additions' = [u \in Seed!Users |-> IF u \in missing THEN ids' ELSE additions[u]]
        /\ UNCHANGED <<schema, ownedBy, objects, ledger, accounts, input, lock, Seed!trouble>>
    BY <1>5 DEF Seed!Extend
  <2> HIDE DEF missing
  <2>2. ids' \in Nat /\ ids' \in 0..ids' /\ 0..ids \subseteq 0..ids' /\ ids' \in {ids, ids + 1}
    BY <1>2, <2>1
  <2>3. journal' \in [Seed!Users -> 0..ids'] /\ additions' \in [Seed!Users -> 0..ids']
    <3>1. journal \in [Seed!Users -> 0..ids'] /\ additions \in [Seed!Users -> 0..ids']
      BY <1>2, <2>2
    <3>2. QED
      BY <2>1, <2>2, <3>1
  <2>4. secrets \in [Seed!Users -> Nat] /\ secrets \in [Seed!Users -> 0 .. ids']
    BY <2>1, <2>2, <2>3
  <2> HIDE DEF secrets
  <2>5. r \in Seeding /\ Works(r) /\ r.at = "step" /\ r.secrets = secrets
    BY <1>2, <1>5, <2>4 DEF Seed!Extend, Seed!At, Plans, Works, Seeding, Planned, SeedPlaces, Locked
  <2> HIDE DEF r
  <2>6. QED
    BY <1>3, <2>1, <2>2, <2>3, <2>4, <2>5
<1>6. QED
  BY <1>1, <1>4, <1>5

\* What is done is struck off the plan.
LEMMA OnwardTyped ==
  ASSUME SeedBase, NEW c \in Commands, Seed!At(c, "step"), run[c].steps # {}
  PROVE  /\ Seed!Onward(c) \in Seeding /\ Plans(Seed!Onward(c))
         /\ Seed!Onward(c).at = "step" /\ Seed!Onward(c).steps = run[c].steps \ {Seed!First(run[c].steps)}
         /\ Seed!Onward(c).input = run[c].input /\ Seed!Onward(c).secrets = run[c].secrets
         /\ Seed!First(run[c].steps) \in run[c].steps /\ Seed!First(run[c].steps) \in Keys
<1>1. run[c] \in Seeding /\ Plans(run[c]) /\ run[c].steps \in SUBSET Keys
  BY LockTyped DEF Seeding
<1>2. Seed!First(run[c].steps) \in run[c].steps
  BY <1>1, FirstIs
<1>3. /\ Seed!Onward(c) \in Seeding /\ Seed!Onward(c).at = "step" /\ Seed!Onward(c).reads = 0
      /\ Seed!Onward(c).steps = run[c].steps \ {Seed!First(run[c].steps)}
      /\ Seed!Onward(c).input = run[c].input /\ Seed!Onward(c).expected = run[c].expected
      /\ Seed!Onward(c).accepted = run[c].accepted /\ Seed!Onward(c).secrets = run[c].secrets
  BY <1>1 DEF Seed!Onward, Seeding, Seed!At
<1>4. Plans(Seed!Onward(c))
  BY <1>1, <1>3 DEF Plans, Works, Seed!At, Planned
<1>5. QED
  BY <1>1, <1>2, <1>3, <1>4

\* An object and its entry are written.
LEMMA WriteKeeps ==
  ASSUME SeedBase, NEW c \in Commands, Seed!At(c, "step"), run[c].steps # {},
         NEW k \in Keys, NEW row \in Objects, row # Seed!NoRow, row.id # 0,
         Kind[k] = "membership" => row.id = 1, k \notin removed,
         Seed!Write(k, row), ids' = ids + 1, Seed!Goes(c, Seed!Onward(c)),
         accounts' = accounts \/ accounts' \in [Seed!Users -> 0..ids],
         UNCHANGED <<schema, ownedBy, Seed!files, input, lock, Seed!trouble>>
  PROVE  SeedBase'
<1>1. run' \in [Commands -> Seeding] /\ run'[c] = Seed!Onward(c) /\ \A q \in Commands \ {c} : run'[q] = run[q]
  BY OnwardTyped DEF SeedBase, SeedTypes, Seed!Goes
<1>2. /\ objects \in [Keys -> Objects] /\ ledger \in [Keys -> Bindings] /\ ids \in Nat
      /\ accounts \in [Seed!Users -> 0..ids] /\ journal \in [Seed!Users -> 0..ids] /\ additions \in [Seed!Users -> 0..ids]
  BY DEF SeedBase, SeedTypes, Seed!TypeOK, Objects, Bindings
<1>3. Seed!BindingOf(row) \in Bindings
  BY DEF Seed!BindingOf, Objects, Bindings
<1>4. /\ objects' \in [Keys -> Objects] /\ ledger' \in [Keys -> Bindings]
      /\ objects'[k] = row /\ ledger'[k] = Seed!BindingOf(row)
      /\ \A j \in Keys \ {k} : objects'[j] = objects[j] /\ ledger'[j] = ledger[j]
  BY <1>2, <1>3 DEF Seed!Write
<1>5. {accounts', journal', additions'} \subseteq [Seed!Users -> 0..ids'] /\ ids' \in Nat
  <2>1. 0..ids \subseteq 0..ids' /\ ids' \in Nat
    BY <1>2
  <2>2. accounts' \in [Seed!Users -> 0..ids'] /\ journal' \in [Seed!Users -> 0..ids'] /\ additions' \in [Seed!Users -> 0..ids']
    BY <1>2, <2>1 DEF Seed!files
  <2>3. QED
    BY <2>1, <2>2
<1>6. Seed!TypeOK'
  BY <1>4, <1>5 DEF SeedBase, SeedTypes, Seed!TypeOK, Seed!trouble, Objects, Bindings
<1>7. SeedTypes'
  BY <1>1, <1>5, <1>6, OnwardTyped DEF SeedBase, SeedTypes, Seed!At
<1>8. Registered'
  <2>1. Seed!BindingOf(row) # Seed!NoBinding
    BY DEF Seed!BindingOf, Seed!NoBinding
  <2>2. Seed!Tracked(k)' /\ objects'[k] # Seed!NoRow /\ \A j \in Keys \ {k} : Seed!Tracked(j)' = Seed!Tracked(j)
    BY <1>4, <2>1 DEF Seed!Tracked
  <2>3. removed' = removed /\ removed \subseteq Seed!Access
    BY DEF Seed!trouble, SeedBase, SeedTypes, Seed!TypeOK
  <2>4. QED
    BY <1>4, <2>2, <2>3, KindsApart DEF SeedBase, Registered
<1>9. \A q \in Commands : Plans(run[q])'
  <2>1. 0 .. ids \subseteq 0 .. ids'
    BY <1>2
  <2>2. \A q \in Commands : Plans(run'[q])
    BY <1>1, OnwardTyped DEF SeedBase
  <2>3. \A q \in Commands : Works(run'[q]) /\ run'[q].secrets \in [Seed!Users -> 0 .. ids']
    BY <2>1, <2>2 DEF Plans
  <2>4. QED
    BY <2>3 DEF Plans
<1>10. QED
  BY <1>7, <1>8, <1>9 DEF SeedBase

\* A step that is complete is struck off and nothing else happens.
LEMMA SkipKeeps ==
  ASSUME SeedBase, NEW c \in Commands, Seed!At(c, "step"), run[c].steps # {}, Seed!Skip(c)
  PROVE  SeedBase'
BY OnwardTyped, LockTyped, MovesAlone DEF Seed!Skip

\* The object of the step, by its kind.
LEMMA DoingIs ==
  ASSUME SeedBase, NEW c \in Commands, NEW kinds, Seed!Doing(c, kinds)
  PROVE  /\ Seed!At(c, "step") /\ run[c].steps # {}
         /\ Seed!First(run[c].steps) \in run[c].steps /\ Seed!First(run[c].steps) \in Keys
         /\ Seed!First(run[c].steps) \in run[c].input.keys
         /\ Kind[Seed!First(run[c].steps)] \in kinds
BY OnwardTyped, LockTyped DEF Seed!Doing, Plans, Works

LEMMA CreateUserKeeps ==
  ASSUME SeedBase, NEW c \in Commands, Seed!CreateUser(c)
  PROVE  SeedBase'
<1> DEFINE u == Seed!First(run[c].steps)
           row == [id |-> ids + 1, version |-> 0, digest |-> 0, live |-> TRUE, original |-> TRUE]
<1>1. /\ Seed!At(c, "step") /\ run[c].steps # {} /\ u \in Keys /\ Kind[u] = "user"
  BY DoingIs DEF Seed!CreateUser
<1>2. CASE Seed!Fail(c)
  BY <1>2, FailKeeps
<1>3. CASE Seed!Skip(c)
  BY <1>1, <1>3, SkipKeeps
<1>4. CASE ~Seed!Fail(c) /\ ~Seed!Skip(c)
  <2>1. /\ ids' = ids + 1 /\ Seed!Write(u, row) /\ accounts' = [accounts EXCEPT ![u] = run[c].secrets[u]]
        /\ Seed!Goes(c, Seed!Onward(c)) /\ UNCHANGED <<schema, ownedBy, Seed!files, input, lock, Seed!trouble>>
    BY <1>4 DEF Seed!CreateUser
  <2>2. u \in Seed!Users /\ u \notin Seed!Access
    BY <1>1, KindsApart
  <2>3. u \notin removed
    BY <2>2 DEF SeedBase, SeedTypes, Seed!TypeOK
  <2>4. ids \in Nat /\ accounts \in [Seed!Users -> 0 .. ids] /\ run[c].secrets \in [Seed!Users -> 0 .. ids]
    BY LockTyped DEF SeedBase, SeedTypes, Seed!TypeOK, Plans
  <2>5. accounts' \in [Seed!Users -> 0 .. ids]
    BY <2>1, <2>2, <2>4
  <2>6. row \in Objects /\ row # Seed!NoRow /\ row.id # 0
    BY <2>4 DEF Objects, Seed!NoRow, Seed!BindingOf, Seed!NoBinding
  <2> HIDE DEF u, row
  <2>7. QED
    BY <1>1, <2>1, <2>3, <2>5, <2>6, WriteKeeps
<1>5. QED
  BY <1>2, <1>3, <1>4

LEMMA ReadKeeps ==
  ASSUME SeedBase, NEW c \in Commands, Seed!ReadDocument(c)
  PROVE  SeedBase'
<1> DEFINE d == Seed!First(run[c].steps)
           r == [run[c] EXCEPT !.reads = input.digest[d]]
<1>1. /\ Seed!At(c, "step") /\ run[c].steps # {} /\ d \in Keys /\ Kind[d] = "document"
  BY DoingIs DEF Seed!ReadDocument
<1>2. CASE Seed!Fail(c)
  BY <1>2, FailKeeps
<1>3. CASE ~Seed!Fail(c)
  <2>1. /\ Seed!Goes(c, r) /\ input.digest[d] = run[c].input.digest[d]
        /\ UNCHANGED <<Seed!database, Seed!files, input, lock, Seed!trouble>>
    BY <1>3 DEF Seed!ReadDocument
  <2>2. d \in Seed!Documents /\ input \in Inputs
    BY <1>1, KindsApart DEF SeedBase, SeedTypes, Seed!TypeOK, Inputs
  <2>3. input.digest[d] \in Nat
    BY <2>2 DEF Inputs
  <2>4. /\ r \in Seeding /\ r.at = "step" /\ r.reads = run[c].input.digest[d] /\ r.steps = run[c].steps
        /\ r.input = run[c].input /\ r.expected = run[c].expected /\ r.accepted = run[c].accepted
        /\ r.secrets = run[c].secrets
    BY <1>1, <2>1, <2>3, LockTyped DEF Seeding, Seed!At
  <2>5. Plans(r)
    BY <1>1, <2>4, LockTyped DEF Plans, Works, Seed!At, Planned
  <2> HIDE DEF r
  <2>6. QED
    BY <2>1, <2>4, <2>5, LockTyped, MovesAlone
<1>4. QED
  BY <1>2, <1>3

LEMMA CommitKeeps ==
  ASSUME SeedBase, NEW c \in Commands, Seed!CommitDocument(c)
  PROVE  SeedBase'
<1> DEFINE d == Seed!First(run[c].steps)
           new == run[c].expected[d] = Seed!NoBinding
           row == [id |-> IF new THEN ids + 1 ELSE objects[d].id, version |-> ids + 1,
                   digest |-> run[c].reads, live |-> TRUE, original |-> TRUE]
<1>1. /\ Seed!At(c, "step") /\ run[c].steps # {} /\ d \in Keys /\ Kind[d] = "document"
  BY DoingIs DEF Seed!CommitDocument
<1>2. CASE Seed!Fail(c)
  BY <1>2, FailKeeps
<1>3. CASE Seed!Skip(c)
  BY <1>1, <1>3, SkipKeeps
<1>4. CASE ~Seed!Fail(c) /\ ~Seed!Skip(c)
  <2>1. /\ ids' = ids + 1 /\ Seed!Write(d, row) /\ accounts' = accounts
        /\ Seed!Goes(c, Seed!Onward(c)) /\ UNCHANGED <<schema, ownedBy, Seed!files, input, lock, Seed!trouble>>
    BY <1>4 DEF Seed!CommitDocument
  <2>2. d \notin Seed!Access
    BY <1>1, KindsApart
  <2>3. d \notin removed
    BY <2>2 DEF SeedBase, SeedTypes, Seed!TypeOK
  <2>4. ids \in Nat /\ objects \in [Keys -> Objects] /\ run[c].reads \in Nat
    BY LockTyped DEF SeedBase, SeedTypes, Seed!TypeOK, Objects, Seeding
  <2>5. objects[d].id \in Nat /\ (~new => objects[d].id # 0)
    <3>1. ~new => objects[d] # Seed!NoRow
      BY <1>4 DEF Seed!CommitDocument, Seed!Unedited, Seed!NoRow
    <3>2. QED
      BY <1>1, <2>4, <3>1 DEF Objects, SeedBase, Registered
  <2>6. row \in Objects /\ row # Seed!NoRow /\ row.id # 0
    BY <2>4, <2>5 DEF Objects, Seed!NoRow, Seed!BindingOf, Seed!NoBinding
  <2> HIDE DEF d, row
  <2>7. QED
    BY <1>1, <2>1, <2>3, <2>6, WriteKeeps
<1>5. QED
  BY <1>2, <1>3, <1>4

LEMMA GiveKeeps ==
  ASSUME SeedBase, NEW c \in Commands, Seed!GiveAccess(c)
  PROVE  SeedBase'
<1> DEFINE k == Seed!First(run[c].steps)
           row == Seed!AccessRow(k, ids + 1)
<1>1. /\ Seed!At(c, "step") /\ run[c].steps # {} /\ k \in Keys /\ Kind[k] \in {"role", "membership", "grant"}
  BY DoingIs DEF Seed!GiveAccess
<1>2. CASE Seed!Fail(c)
  BY <1>2, FailKeeps
<1>3. CASE Seed!Skip(c)
  BY <1>1, <1>3, SkipKeeps
<1>4. CASE ~Seed!Fail(c) /\ ~Seed!Skip(c)
  <2>1. /\ ids' = ids + 1 /\ Seed!Write(k, row) /\ accounts' = accounts /\ ~Seed!Tracked(k)
        /\ Seed!Goes(c, Seed!Onward(c)) /\ UNCHANGED <<schema, ownedBy, Seed!files, input, lock, Seed!trouble>>
    BY <1>4 DEF Seed!GiveAccess, Seed!Completed
  <2>2. k \notin removed
    BY <2>1 DEF SeedBase, Registered
  <2>3. ids \in Nat
    BY LockTyped
  <2>4. /\ row \in Objects /\ row # Seed!NoRow /\ row.id # 0
        /\ Kind[k] = "membership" => row.id = 1
    BY <2>3 DEF Seed!AccessRow, Objects, Seed!NoRow, Seed!BindingOf, Seed!NoBinding
  <2> HIDE DEF k, row
  <2>5. QED
    BY <1>1, <2>1, <2>2, <2>4, WriteKeeps
<1>5. QED
  BY <1>2, <1>3, <1>4

\* The objects, the files and the inputs change, and no command does.
LEMMA BesideKeeps ==
  ASSUME SeedBase, UNCHANGED <<lock, run>>, ids' \in {ids, ids + 1},
         Seed!TypeOK', Registered', Admin \in input'.keys, schema' = schema
  PROVE  SeedBase'
<1>1. ids \in Nat /\ ids' \in Nat /\ 0 .. ids \subseteq 0 .. ids'
  BY DEF SeedBase, SeedTypes
<1>2. SeedTypes'
  BY <1>1 DEF SeedBase, SeedTypes, Seed!At
<1>3. \A c \in Commands : Works(run'[c]) /\ run'[c].secrets \in [Seed!Users -> 0 .. ids']
  BY <1>1 DEF SeedBase, Plans
<1>4. QED
  BY <1>2, <1>3 DEF SeedBase, Plans

LEMMA EditKeeps ==
  ASSUME SeedBase, Seed!Edit
  PROVE  SeedBase'
<1>1. /\ objects \in [Keys -> Objects] /\ ledger \in [Keys -> Bindings] /\ ids \in Nat
      /\ {accounts, journal, additions} \subseteq [Seed!Users -> 0 .. ids] /\ removed \subseteq Seed!Access
      /\ input \in Inputs /\ Admin \in input.keys /\ lock \in Commands \union {None}
      /\ schema \in BOOLEAN /\ ownedBy \in {None, Own, Foreign} /\ (ownedBy # None => schema)
  BY DEF SeedBase, SeedTypes, Seed!TypeOK, Objects, Bindings, Inputs
<1>2. UNCHANGED <<input, lock, run>>
  BY DEF Seed!Edit
<1>3. ASSUME ids' \in {ids, ids + 1}, objects' \in [Keys -> Objects], removed' \subseteq Seed!Access,
             schema' = schema, ownedBy' \in {ownedBy, Foreign}, ownedBy' # ownedBy => schema,
             UNCHANGED <<ledger, accounts, additions>>, journal' \in {journal, Seed!NoFile}, Registered'
      PROVE  SeedBase'
  <2>1. 0 .. ids \subseteq 0 .. ids' /\ 0 \in 0 .. ids'
    BY <1>1, <1>3
  <2>2. {accounts', journal', additions'} \subseteq [Seed!Users -> 0 .. ids']
    BY <1>1, <1>3, <2>1 DEF Seed!NoFile
  <2>3. Seed!TypeOK'
    BY <1>1, <1>2, <1>3, <2>2 DEF Seed!TypeOK, Objects, Bindings, Inputs
  <2>4. QED
    BY <1>1, <1>2, <1>3, <2>3, BesideKeeps
<1>4. ASSUME NEW k \in Keys, NEW row \in Objects, objects[k] # Seed!NoRow, row.id = objects[k].id, k \notin Seed!Access,
             objects' = [objects EXCEPT ![k] = row], ledger' = ledger, removed' = removed
      PROVE  objects' \in [Keys -> Objects] /\ Registered'
  <2>1. objects' \in [Keys -> Objects] /\ objects'[k] = row /\ \A j \in Keys \ {k} : objects'[j] = objects[j]
    BY <1>1, <1>4
  <2>2. row.id # 0 /\ row # Seed!NoRow
    BY <1>4 DEF SeedBase, Registered, Seed!NoRow
  <2>3. \A j \in Keys : Seed!Tracked(j)' = Seed!Tracked(j)
    BY <1>4 DEF Seed!Tracked
  <2>4. QED
    BY <1>1, <1>4, <2>1, <2>2, <2>3, KindsApart DEF SeedBase, Registered
<1>5. ASSUME NEW k \in Keys, Seed!Alter(k)
      PROVE  SeedBase'
  <2>1. /\ objects[k] # Seed!NoRow /\ ids' = ids /\ removed' = removed /\ objects[k] \in Objects
        /\ UNCHANGED <<schema, ownedBy, ledger, accounts, additions, journal>>
    BY <1>1, <1>5 DEF Seed!Alter, Seed!files
  <2>2. CASE Kind[k] \in {"user", "document"} /\ objects' = [objects EXCEPT ![k].live = FALSE]
    <3> DEFINE row == [objects[k] EXCEPT !.live = FALSE]
    <3>1. row \in Objects /\ row.id = objects[k].id /\ objects' = [objects EXCEPT ![k] = row] /\ k \notin Seed!Access
      BY <1>1, <2>1, <2>2, KindsApart DEF Objects
    <3> HIDE DEF row
    <3>2. QED
      BY <1>3, <1>4, <1>1, <2>1, <3>1
  <2>3. CASE Kind[k] \in {"user", "role"} /\ objects' = [objects EXCEPT ![k].original = FALSE]
    <3> DEFINE row == [objects[k] EXCEPT !.original = FALSE]
    <3>1. row \in Objects /\ row.id = objects[k].id /\ objects' = [objects EXCEPT ![k] = row] /\ k \notin Seed!Access
      BY <1>1, <2>1, <2>3, KindsApart DEF Objects
    <3> HIDE DEF row
    <3>2. QED
      BY <1>3, <1>4, <1>1, <2>1, <3>1
  <2>4. QED
    BY <1>5, <2>2, <2>3 DEF Seed!Alter
<1>6. ASSUME NEW d \in Keys, Seed!Revise(d)
      PROVE  SeedBase'
  <2>1. /\ objects[d] # Seed!NoRow /\ ids' = ids + 1 /\ removed' = removed /\ objects[d] \in Objects
        /\ UNCHANGED <<schema, ownedBy, ledger, accounts, additions, journal>>
    BY <1>1, <1>6 DEF Seed!Revise, Seed!files
  <2> DEFINE row == [objects[d] EXCEPT !.version = ids', !.digest = 0]
  <2>2. row \in Objects /\ row.id = objects[d].id /\ d \notin Seed!Access
    <3>1. d \notin Seed!Access
      BY <1>6, KindsApart DEF Seed!Revise
    <3>2. row \in Objects /\ row.id = objects[d].id
      <4>1. ids' \in Nat /\ objects[d] \in Objects
        BY <1>1, <2>1
      <4>2. QED
        BY <4>1 DEF Objects
    <3>3. QED
      BY <3>1, <3>2
  <2>3. objects' = [objects EXCEPT ![d] = row]
    BY <1>6 DEF Seed!Revise
  <2> HIDE DEF row
  <2>4. objects' \in [Keys -> Objects] /\ Registered'
    BY <1>4, <2>1, <2>2, <2>3
  <2>5. QED
    BY <1>1, <1>3, <2>1, <2>4
<1>7. ASSUME NEW k \in Keys, Seed!TakeAway(k)
      PROVE  SeedBase'
  <2>1. /\ k \in Seed!Access /\ objects' = [objects EXCEPT ![k] = Seed!NoRow] /\ ids' = ids
        /\ removed' = IF Seed!Tracked(k) THEN removed \union {k} ELSE removed
        /\ UNCHANGED <<schema, ownedBy, ledger, accounts, additions, journal>>
    BY <1>7 DEF Seed!TakeAway, Seed!files
  <2>2. Seed!NoRow \in Objects
    BY DEF Seed!NoRow, Objects
  <2>3. objects' \in [Keys -> Objects] /\ objects'[k] = Seed!NoRow /\ \A j \in Keys \ {k} : objects'[j] = objects[j]
    BY <1>1, <2>1, <2>2
  <2>4. removed' \subseteq Seed!Access /\ \A j \in Keys : Seed!Tracked(j)' = Seed!Tracked(j)
    BY <1>1, <2>1 DEF Seed!Tracked
  <2>5. Registered'
    BY <1>1, <2>1, <2>3, <2>4, KindsApart DEF SeedBase, Registered
  <2>6. QED
    BY <1>3, <1>1, <2>1, <2>3, <2>4, <2>5
<1>8. ASSUME NEW k \in Keys, Seed!GiveBack(k)
      PROVE  SeedBase'
  <2>1. /\ k \in Seed!Access /\ objects' = [objects EXCEPT ![k] = Seed!AccessRow(k, ids + 1)] /\ ids' = ids + 1
        /\ removed' = removed \ {k}
        /\ UNCHANGED <<schema, ownedBy, ledger, accounts, additions, journal>>
    BY <1>8 DEF Seed!GiveBack, Seed!files
  <2>2. /\ Seed!AccessRow(k, ids + 1) \in Objects /\ Seed!AccessRow(k, ids + 1) # Seed!NoRow /\ Seed!AccessRow(k, ids + 1).id # 0
        /\ Kind[k] = "membership" => Seed!AccessRow(k, ids + 1).id = 1
    BY <1>1 DEF Seed!NoRow, Objects, Seed!AccessRow
  <2>3. /\ objects' \in [Keys -> Objects] /\ objects'[k] = Seed!AccessRow(k, ids + 1)
        /\ \A j \in Keys \ {k} : objects'[j] = objects[j]
    BY <1>1, <2>1, <2>2
  <2>4. removed' \subseteq Seed!Access /\ \A j \in Keys : Seed!Tracked(j)' = Seed!Tracked(j)
    BY <1>1, <2>1 DEF Seed!Tracked
  <2>5. Registered'
    BY <1>1, <2>1, <2>2, <2>3, <2>4, KindsApart DEF SeedBase, Registered
  <2>6. QED
    BY <1>3, <1>1, <2>1, <2>3, <2>4, <2>5
<1>9. CASE Seed!DeleteJournal
  <2>1. journal' = Seed!NoFile /\ UNCHANGED <<Seed!database, additions, removed>>
    BY <1>9 DEF Seed!DeleteJournal
  <2>2. Registered'
    BY <2>1 DEF Seed!database, SeedBase, Registered, Seed!Tracked
  <2>3. QED
    BY <1>1, <1>3, <2>1, <2>2 DEF Seed!database
<1>10. CASE Seed!ReplaceMarker
  <2>1. /\ ownedBy = Own /\ ownedBy' = Foreign
        /\ UNCHANGED <<schema, objects, ledger, ids, accounts, Seed!files, removed>>
    BY <1>10 DEF Seed!ReplaceMarker
  <2>2. Registered'
    BY <2>1 DEF SeedBase, Registered, Seed!Tracked
  <2>3. schema
    BY <1>1, <2>1, SeedIsPossible DEF Seed!SeedAssumption
  <2>4. QED
    BY <1>1, <1>3, <2>1, <2>2, <2>3 DEF Seed!files
<1>11. QED
  BY <1>5, <1>6, <1>7, <1>8, <1>9, <1>10 DEF Seed!Edit

LEMMA InputKeeps ==
  ASSUME SeedBase, Seed!ChangeInput
  PROVE  SeedBase'
<1>1. UNCHANGED <<Seed!database, Seed!files, lock, run, Seed!trouble>>
  BY DEF Seed!ChangeInput
<1>2. input \in Inputs /\ Admin \in input.keys /\ MaxInputs \in Nat
  BY SeedIsPossible DEF SeedBase, SeedTypes, Seed!TypeOK, Inputs, Seed!SeedAssumption
<1>3. input' \in Inputs /\ Admin \in input'.keys
  <2>1. ASSUME NEW d \in Seed!Documents, input.digest[d] <= MaxInputs, input' = [input EXCEPT !.digest[d] = @ + 1]
        PROVE  input' \in Inputs /\ Admin \in input'.keys
    <3>1. input.digest[d] + 1 \in 1 .. MaxInputs + 1
      BY <1>2, <2>1 DEF Inputs
    <3>2. [input.digest EXCEPT ![d] = @ + 1] \in [Seed!Documents -> 1 .. MaxInputs + 1]
      BY <1>2, <3>1 DEF Inputs
    <3>3. QED
      BY <1>2, <2>1, <3>2 DEF Inputs
  <2>2. ASSUME NEW k \in Keys, input' = [input EXCEPT !.keys = @ \union {k}]
        PROVE  input' \in Inputs /\ Admin \in input'.keys
    BY <1>2, <2>2 DEF Inputs
  <2>3. QED
    BY <2>1, <2>2 DEF Seed!ChangeInput
<1>4. Seed!TypeOK'
  BY <1>1, <1>3 DEF SeedBase, SeedTypes, Seed!TypeOK, Seed!database, Seed!files, Seed!trouble, Inputs
<1>5. Registered'
  BY <1>1 DEF SeedBase, Registered, Seed!Tracked, Seed!database, Seed!trouble
<1>6. QED
  BY <1>1, <1>3, <1>4, <1>5, BesideKeeps DEF Seed!database

LEMMA LoseKeeps ==
  ASSUME SeedBase, NEW c \in Commands, Seed!LoseLock(c)
  PROVE  SeedBase'
<1>1. UNCHANGED <<Seed!database, Seed!files, input, run, Seed!trouble>> /\ lock' = None
  BY DEF Seed!LoseLock
<1>2. SeedTypes'
  BY <1>1 DEF SeedBase, SeedTypes, Seed!TypeOK, Seed!database, Seed!files, Seed!trouble, Seed!At
<1>3. Registered' /\ \A q \in Commands : Plans(run[q])'
  BY <1>1 DEF SeedBase, Registered, Seed!Tracked, Seed!database, Seed!trouble, Plans
<1>4. QED
  BY <1>2, <1>3 DEF SeedBase

LEMMA BaseStep ==
  ASSUME SeedBase, [Seed!Next]_Seed!vars
  PROVE  SeedBase'
<1>1. CASE UNCHANGED Seed!vars
  <2>1. UNCHANGED <<Seed!database, Seed!files, input, lock, run, Seed!trouble>>
    BY <1>1 DEF Seed!vars
  <2>2. Seed!TypeOK' /\ Registered'
    BY <2>1 DEF SeedBase, SeedTypes, Seed!TypeOK, Registered, Seed!Tracked, Seed!database, Seed!files, Seed!trouble
  <2>3. QED
    BY <2>1, <2>2, BesideKeeps DEF Seed!database, SeedBase, SeedTypes
<1>2. ASSUME NEW c \in Commands, Seed!Start(c) \/ Seed!Wait(c) \/ Seed!Advance(c) \/ Seed!Crash(c)
      PROVE  SeedBase'
  BY <1>2, StartSeeding, BeforeKeeps, CoordinateKeeps, SignedKeeps, FilesKeep, CreateUserKeeps,
     ReadKeeps, CommitKeeps, GiveKeeps DEF Seed!Wait, Seed!Advance
<1>3. QED
  BY <1>1, <1>2, EditKeeps, InputKeeps, LoseKeeps DEF Seed!Next, Seed!Steps

----------------------------------------------------------------------------
(* What is written, and when.                                              *)

\* A step writes nothing; or an administrator edits the objects; or a command
\* writes one object with its entry.
LEMMA StepsAre ==
  ASSUME [Seed!Next]_Seed!vars
  PROVE  \/ UNCHANGED <<objects, ledger>>
         \/ Seed!Edit
         \/ \E c \in Commands : /\ Seed!CreateUser(c) \/ Seed!CommitDocument(c) \/ Seed!GiveAccess(c)
                                /\ ~Seed!Fail(c) /\ ~Seed!Skip(c)
<1>1. CASE UNCHANGED Seed!vars
  BY <1>1 DEF Seed!vars, Seed!database
<1>2. ASSUME NEW c \in Commands, Seed!Fail(c) \/ Seed!Skip(c) \/ Seed!Start(c) \/ Seed!Crash(c) \/ Seed!LoseLock(c)
      PROVE  UNCHANGED <<objects, ledger>>
  BY <1>2 DEF Seed!Fail, Seed!Skip, Seed!Start, Seed!Crash, Seed!LoseLock, Seed!database
<1>3. ASSUME NEW c \in Commands, Seed!Wait(c)
      PROVE  UNCHANGED <<objects, ledger>>
  BY <1>3 DEF Seed!Wait, Seed!Inspect, Seed!Prepare, Seed!Coordinate, Seed!database
<1>4. ASSUME NEW c \in Commands, Seed!Migrate(c) \/ Seed!Mark(c) \/ Seed!LookForJournal(c) \/ Seed!PublishJournal(c) \/ Seed!Extend(c)
      PROVE  UNCHANGED <<objects, ledger>>
  BY <1>2, <1>4 DEF Seed!Migrate, Seed!Mark, Seed!LookForJournal, Seed!PublishJournal, Seed!Extend, Seed!database
<1>5. ASSUME NEW c \in Commands, Seed!SignIn(c) \/ Seed!ReadDocument(c) \/ Seed!Reread(c) \/ Seed!Export(c) \/ Seed!Close(c)
      PROVE  UNCHANGED <<objects, ledger>>
  BY <1>2, <1>5 DEF Seed!SignIn, Seed!ReadDocument, Seed!Reread, Seed!Export, Seed!Close, Seed!database
<1>6. CASE Seed!ChangeInput
  BY <1>6 DEF Seed!ChangeInput, Seed!database
<1>7. QED
  BY <1>1, <1>2, <1>3, <1>4, <1>5, <1>6 DEF Seed!Next, Seed!Steps, Seed!Advance

\* What a command writes: an object that was not there, a membership as it was, or the
\* accepted content of a document that is as it was planned.
LEMMA WritesAre ==
  ASSUME SeedBase, NEW c \in Commands, ~Seed!Fail(c), ~Seed!Skip(c),
         Seed!CreateUser(c) \/ Seed!CommitDocument(c) \/ Seed!GiveAccess(c)
  PROVE  \E k \in run[c].steps, row \in Objects :
           /\ k = Seed!First(run[c].steps) /\ k \in run[c].input.keys /\ Seed!At(c, "step") /\ k \in Keys
           /\ Seed!Write(k, row) /\ row.id # 0 /\ Seed!Goes(c, Seed!Onward(c))
           /\ UNCHANGED <<ownedBy, Seed!files, input, lock, Seed!trouble>>
           /\ objects[k].live => objects[k].id = row.id
           /\ Seed!Tracked(k) =>
                 /\ k \in run[c].accepted /\ run[c].expected[k] = ledger[k]
                 /\ objects[k].version = ledger[k].version
           /\ k \in Seed!Documents => row.digest = run[c].input.digest[k]
           /\ accounts' = IF k \in Seed!Users THEN [accounts EXCEPT ![k] = run[c].secrets[k]] ELSE accounts
           /\ k \in Seed!Users => objects[k] = Seed!NoRow
<1> DEFINE k == Seed!First(run[c].steps)
<1>1. ids \in Nat /\ objects \in [Keys -> Objects]
  BY LockTyped DEF SeedBase, SeedTypes, Seed!TypeOK, Objects
<1>2. CASE Seed!CreateUser(c)
  <2> DEFINE row == [id |-> ids + 1, version |-> 0, digest |-> 0, live |-> TRUE, original |-> TRUE]
  <2>1. /\ Seed!At(c, "step") /\ k \in run[c].steps /\ k \in run[c].input.keys /\ k \in Keys /\ Kind[k] = "user"
    BY <1>2, DoingIs DEF Seed!CreateUser
  <2>2. /\ Seed!Fits(k) /\ ~Seed!Completed(k) /\ Seed!Write(k, row) /\ accounts' = [accounts EXCEPT ![k] = run[c].secrets[k]]
        /\ Seed!Goes(c, Seed!Onward(c)) /\ UNCHANGED <<schema, ownedBy, Seed!files, input, lock, Seed!trouble>>
    BY <1>2 DEF Seed!CreateUser
  <2>3. row \in Objects /\ row.id # 0
    BY <1>1 DEF Objects
  <2>4. objects[k] = Seed!NoRow /\ ~Seed!Tracked(k)
    BY <2>2 DEF Seed!Fits, Seed!Completed
  <2>5. k \in Seed!Users /\ k \notin Seed!Documents /\ ~objects[k].live
    BY <2>1, <2>4, KindsApart DEF Seed!NoRow
  <2> HIDE DEF k, row
  <2>6. QED
    BY <2>1, <2>2, <2>3, <2>4, <2>5 DEF k
<1>3. CASE Seed!CommitDocument(c)
  <2> DEFINE new == run[c].expected[k] = Seed!NoBinding
             row == [id |-> IF new THEN ids + 1 ELSE objects[k].id, version |-> ids + 1,
                     digest |-> run[c].reads, live |-> TRUE, original |-> TRUE]
  <2>1. /\ Seed!At(c, "step") /\ k \in run[c].steps /\ k \in run[c].input.keys /\ k \in Keys
        /\ Kind[k] = "document" /\ run[c].reads # 0
    BY <1>3, DoingIs DEF Seed!CommitDocument
  <2>2. /\ Seed!AsExpected(c, k) /\ (new \/ Seed!Unedited(k)) /\ Seed!Write(k, row) /\ accounts' = accounts
        /\ Seed!Goes(c, Seed!Onward(c)) /\ UNCHANGED <<schema, ownedBy, Seed!files, input, lock, Seed!trouble>>
    BY <1>3 DEF Seed!CommitDocument
  <2>3. k \in Seed!Documents /\ k \notin Seed!Users
    BY <2>1, KindsApart
  <2>4. /\ Works(run[c]) /\ run[c].reads \in Nat
    BY LockTyped DEF Plans, Seeding
  <2>5. run[c].reads = run[c].input.digest[k] /\ (~new => k \in run[c].accepted)
    BY <2>1, <2>3, <2>4 DEF Works
  <2>6. ~new => objects[k].id # 0 /\ objects[k].version = ledger[k].version
    BY <2>1, <2>2 DEF Seed!Unedited, Seed!NoRow, SeedBase, Registered
  <2>7. new => ~Seed!Tracked(k) /\ objects[k] = Seed!NoRow
    BY <2>2, <2>3 DEF Seed!AsExpected, Seed!Tracked, SeedBase, Registered
  <2>8. row \in Objects /\ row.id # 0 /\ row.digest = run[c].reads
    BY <1>1, <2>1, <2>4, <2>6 DEF Objects
  <2>9. objects[k].live => objects[k].id = row.id
    BY <2>7 DEF Seed!NoRow
  <2>10. Seed!Tracked(k) => ~new /\ run[c].expected[k] = ledger[k]
    BY <2>2, <2>7 DEF Seed!AsExpected
  <2> HIDE DEF k, row, new
  <2>11. QED
    BY <2>1, <2>2, <2>3, <2>5, <2>6, <2>8, <2>9, <2>10 DEF k
<1>4. CASE Seed!GiveAccess(c)
  <2> DEFINE row == Seed!AccessRow(k, ids + 1)
  <2>1. /\ Seed!At(c, "step") /\ k \in run[c].steps /\ k \in run[c].input.keys /\ k \in Keys
        /\ Kind[k] \in {"role", "membership", "grant"}
    BY <1>4, DoingIs DEF Seed!GiveAccess
  <2>2. /\ ~Seed!Completed(k) /\ (objects[k] = Seed!NoRow \/ Kind[k] = "membership") /\ Seed!Write(k, row) /\ accounts' = accounts
        /\ Seed!Goes(c, Seed!Onward(c)) /\ UNCHANGED <<schema, ownedBy, Seed!files, input, lock, Seed!trouble>>
    BY <1>4 DEF Seed!GiveAccess
  <2>3. k \notin Seed!Documents /\ k \notin Seed!Users /\ ~Seed!Tracked(k)
    BY <2>1, <2>2, KindsApart DEF Seed!Completed
  <2>4. row \in Objects /\ row.id # 0
    BY <1>1 DEF Objects, Seed!AccessRow
  <2>5. objects[k].live => objects[k].id = row.id
    BY <2>1, <2>2 DEF Seed!NoRow, Seed!AccessRow, SeedBase, Registered
  <2> HIDE DEF k, row
  <2>6. QED
    BY <2>1, <2>2, <2>3, <2>4, <2>5 DEF k
<1>5. QED
  BY <1>2, <1>3, <1>4

\* One object stands for a key, whatever a step does.
LEMMA OneStep ==
  ASSUME SeedBase, [Seed!Next]_Seed!vars, NEW k \in Keys, objects[k].live, objects'[k].id # objects[k].id
  PROVE  k \in Seed!Access /\ objects'[k] = Seed!NoRow
<1>1. objects \in [Keys -> Objects] /\ objects[k] # Seed!NoRow
  BY DEF SeedBase, SeedTypes, Seed!TypeOK, Objects, Seed!NoRow
<1>2. CASE Seed!Edit
  <2>1. PICK j \in Keys : Seed!Alter(j) \/ Seed!Revise(j) \/ Seed!TakeAway(j) \/ Seed!GiveBack(j)
    BY <1>2 DEF Seed!Edit, Seed!DeleteJournal, Seed!ReplaceMarker, Seed!database
  <2>2. ~Seed!Alter(j)
    BY <1>1 DEF Seed!Alter, Objects
  <2>3. ~Seed!Revise(j)
    BY <1>1 DEF Seed!Revise, Objects
  <2>4. ~Seed!GiveBack(j)
    BY <1>1 DEF Seed!GiveBack
  <2>5. QED
    BY <1>1, <2>1, <2>2, <2>3, <2>4 DEF Seed!TakeAway
<1>3. CASE \E c \in Commands : /\ Seed!CreateUser(c) \/ Seed!CommitDocument(c) \/ Seed!GiveAccess(c)
                               /\ ~Seed!Fail(c) /\ ~Seed!Skip(c)
  <2>1. PICK c \in Commands : /\ Seed!CreateUser(c) \/ Seed!CommitDocument(c) \/ Seed!GiveAccess(c)
                              /\ ~Seed!Fail(c) /\ ~Seed!Skip(c)
    BY <1>3
  <2>2. PICK j \in Keys, row \in Objects : Seed!Write(j, row) /\ (objects[j].live => objects[j].id = row.id)
    BY <2>1, WritesAre
  <2>3. QED
    BY <1>1, <2>2 DEF Seed!Write
<1>4. QED
  BY <1>2, <1>3, StepsAre

\* Content changes as it was accepted, whatever a step does.
LEMMA ContentStep ==
  ASSUME SeedBase, [Seed!Next]_Seed!vars, NEW d \in Seed!Documents, Seed!Tracked(d), ledger'[d] # ledger[d]
  PROVE  \E c \in Commands : /\ d \in run[c].accepted /\ run[c].expected[d] = ledger[d]
                             /\ objects[d].version = ledger[d].version
                             /\ ledger'[d].digest = run[c].input.digest[d]
<1>1. ledger \in [Keys -> Bindings] /\ d \in Keys
  BY KindsApart DEF SeedBase, SeedTypes, Seed!TypeOK, Bindings
<1>2. ~Seed!Edit
  BY DEF Seed!Edit, Seed!Alter, Seed!Revise, Seed!TakeAway, Seed!GiveBack, Seed!DeleteJournal, Seed!ReplaceMarker, Seed!database
<1>3. PICK c \in Commands : /\ Seed!CreateUser(c) \/ Seed!CommitDocument(c) \/ Seed!GiveAccess(c)
                            /\ ~Seed!Fail(c) /\ ~Seed!Skip(c)
  BY <1>2, StepsAre
<1>4. PICK k \in Keys, row \in Objects :
        /\ Seed!Write(k, row)
        /\ Seed!Tracked(k) =>
              /\ k \in run[c].accepted /\ run[c].expected[k] = ledger[k]
              /\ objects[k].version = ledger[k].version
        /\ k \in Seed!Documents => row.digest = run[c].input.digest[k]
  BY <1>3, WritesAre
<1>5. k = d /\ ledger'[d] = Seed!BindingOf(row)
  BY <1>1, <1>4 DEF Seed!Write
<1>6. QED
  BY <1>4, <1>5 DEF Seed!BindingOf

----------------------------------------------------------------------------
(* Passwords.                                                              *)

\* The password in the private files.
Filed(j, a, u) == IF j[u] # 0 THEN j[u] ELSE a[u]

\* While there is a journal, a command that creates accounts has their filed passwords.
Known ==
  \A c \in Commands : (Seed!At(c, "step") /\ journal # Seed!NoFile) =>
    \A u \in Seed!Users \intersect run[c].input.keys : Filed(journal, additions, u) # 0 /\ run[c].secrets[u] = Filed(journal, additions, u)
Secrets == Seed!SecretsKept /\ Known

\* A journal is only made where there is no account, and nobody creates one.
MadeFresh(c) ==
  journal = Seed!NoFile =>
      /\ \A u \in Seed!Users : objects[u] = Seed!NoRow
      /\ \A q \in Commands : ~Seed!At(q, "step")

LEMMA InitSecrets == Seed!Init => Secrets
<1> SUFFICES ASSUME Seed!Init PROVE Secrets
  OBVIOUS
<1>1. Seed!SecretsKept
  BY DEF Seed!Init, Seed!SecretsKept
<1>2. Known
  BY DEF Seed!Init, Known
<1>3. QED
  BY <1>1, <1>2 DEF Secrets

\* Nothing of what the passwords depend on changes.
LEMMA SecretsStay ==
  ASSUME SeedBase, Secrets, NEW c \in Commands, NEW r,
         Seed!Goes(c, r), r.at # "step" \/ (Seed!At(c, "step") /\ r.input = run[c].input /\ r.secrets = run[c].secrets),
         UNCHANGED <<objects, accounts, journal, additions>>
  PROVE  Secrets'
<1>1. run'[c] = r /\ \A q \in Commands \ {c} : run'[q] = run[q]
  BY DEF SeedBase, SeedTypes, Seed!Goes
<1>2. Seed!SecretsKept'
  BY DEF Secrets, Seed!SecretsKept
<1>3. Known'
  BY <1>1 DEF Secrets, Known, Seed!At, Filed
<1>4. QED
  BY <1>2, <1>3 DEF Secrets

\* Users come and go as they are; their passwords too.
LEMMA SecretsBeside ==
  ASSUME Secrets, UNCHANGED <<run, accounts, additions>>, journal' \in {journal, Seed!NoFile},
         \A u \in Seed!Users : objects'[u] # Seed!NoRow => objects[u] # Seed!NoRow
  PROVE  Secrets'
<1>1. Seed!SecretsKept'
  BY DEF Secrets, Seed!SecretsKept
<1>2. Known'
  BY DEF Secrets, Known, Seed!At, Filed
<1>3. QED
  BY <1>1, <1>2 DEF Secrets

LEMMA EditSecrets ==
  ASSUME SeedBase, Secrets, Seed!Edit
  PROVE  Secrets'
<1>1. /\ UNCHANGED <<run, accounts, additions>> /\ journal' \in {journal, Seed!NoFile}
      /\ \/ objects' = objects
         \/ \E k \in Keys : Seed!Alter(k) \/ Seed!Revise(k) \/ Seed!TakeAway(k) \/ Seed!GiveBack(k)
  BY DEF Seed!Edit, Seed!Alter, Seed!Revise, Seed!TakeAway, Seed!GiveBack, Seed!DeleteJournal, Seed!ReplaceMarker, Seed!database, Seed!files
<1>2. objects \in [Keys -> Objects]
  BY DEF SeedBase, SeedTypes, Seed!TypeOK, Objects
<1>3. ASSUME NEW k \in Keys, Seed!Alter(k) \/ Seed!Revise(k) \/ Seed!TakeAway(k) \/ Seed!GiveBack(k)
      PROVE  \A u \in Seed!Users : objects'[u] # Seed!NoRow => objects[u] # Seed!NoRow
  <2>1. \A j \in Keys \ {k} : objects'[j] = objects[j]
    BY <1>2, <1>3 DEF Seed!Alter, Seed!Revise, Seed!TakeAway, Seed!GiveBack
  <2>2. objects[k] # Seed!NoRow \/ k \in Seed!Access
    BY <1>3 DEF Seed!Alter, Seed!Revise, Seed!TakeAway, Seed!GiveBack
  <2>3. QED
    BY <2>1, <2>2, KindsApart
<1>4. QED
  BY <1>1, <1>3, SecretsBeside

\* The journal is made before there is any account.
LEMMA PublishSecrets ==
  ASSUME SeedBase, Secrets, NEW c \in Commands, Seed!PublishJournal(c), MadeFresh(c)
  PROVE  Secrets'
<1> DEFINE r == [run[c] EXCEPT !.at = "extend"]
<1>1. Seed!Goes(c, r) /\ UNCHANGED <<objects, accounts, additions>>
  BY DEF Seed!PublishJournal
<1>2. r.at = "extend"
  BY LockTyped DEF Seeding
<1> HIDE DEF r
<1>3. CASE journal # Seed!NoFile
  <2>1. journal' = journal
    BY <1>3 DEF Seed!PublishJournal, Seed!Published
  <2>2. QED
    BY <1>1, <1>2, <2>1, SecretsStay
<1>4. CASE journal = Seed!NoFile
  <2>1. \A q \in Commands : ~Seed!At(q, "step")'
    BY <1>1, <1>2, <1>4 DEF MadeFresh, Seed!Goes, Seed!At, SeedBase, SeedTypes
  <2>2. \A u \in Seed!Users : objects'[u] = Seed!NoRow
    BY <1>1, <1>4 DEF MadeFresh
  <2>3. QED
    BY <2>1, <2>2 DEF Secrets, Seed!SecretsKept, Known
<1>5. QED
  BY <1>3, <1>4

\* New files are only made for users who have none, and no account.
LEMMA ExtendSecrets ==
  ASSUME SeedBase, Secrets, NEW c \in Commands, Seed!Extend(c), ~Seed!Fail(c)
  PROVE  Secrets'
<1> DEFINE missing == {u \in Seed!Users \intersect run[c].input.keys : journal[u] = 0 /\ additions[u] = 0}
           secrets == [u \in Seed!Users |-> IF journal[u] # 0 THEN journal[u] ELSE additions'[u]]
           r == [run[c] EXCEPT !.at = "step", !.secrets = secrets]
<1>1. /\ Seed!Goes(c, r) /\ journal' = journal /\ journal # Seed!NoFile
      /\ ids' = IF missing = {} THEN ids ELSE ids + 1
      /\ additions' = [u \in Seed!Users |-> IF u \in missing THEN ids' ELSE additions[u]]
      /\ UNCHANGED <<objects, accounts>>
  BY DEF Seed!Extend
<1>2. \A u \in Seed!Users : u \in missing <=> u \in run[c].input.keys /\ journal[u] = 0 /\ additions[u] = 0
  OBVIOUS
<1> HIDE DEF missing
<1>3. ids \in Nat /\ ids' \in Nat /\ (missing # {} => ids' # 0)
  BY <1>1, LockTyped
<1>4. \A u \in Seed!Users :
        /\ Filed(journal, additions, u) # 0 => Filed(journal', additions', u) = Filed(journal, additions, u)
        /\ u \in run[c].input.keys => Filed(journal', additions', u) # 0
        /\ secrets[u] = Filed(journal', additions', u)
  BY <1>1, <1>2, <1>3 DEF Filed
<1>5. r.secrets = secrets /\ r.input = run[c].input
  BY LockTyped DEF Seeding
<1> HIDE DEF r, secrets
<1>6. run'[c] = r /\ \A q \in Commands \ {c} : run'[q] = run[q]
  BY <1>1 DEF SeedBase, SeedTypes, Seed!Goes
<1>7. Seed!SecretsKept'
  <2>1. \A u \in Seed!Users : objects[u] # Seed!NoRow => accounts[u] # 0 /\ accounts[u] = Filed(journal, additions, u)
    BY <1>1 DEF Secrets, Seed!SecretsKept, Filed
  <2>2. \A u \in Seed!Users : objects'[u] # Seed!NoRow => accounts'[u] # 0 /\ accounts'[u] = Filed(journal', additions', u)
    <3>1. ASSUME NEW u \in Seed!Users, objects'[u] # Seed!NoRow
          PROVE  accounts'[u] # 0 /\ accounts'[u] = Filed(journal', additions', u)
      <4>1. objects[u] # Seed!NoRow /\ accounts'[u] = accounts[u]
        BY <1>1, <3>1
      <4>2. accounts[u] # 0 /\ accounts[u] = Filed(journal, additions, u)
        BY <2>1, <4>1
      <4>3. Filed(journal', additions', u) = Filed(journal, additions, u)
        BY <1>4, <4>2 DEF Filed
      <4>4. QED
        BY <4>1, <4>2, <4>3
    <3>2. QED
      BY <3>1
  <2>3. QED
    BY <2>2 DEF Seed!SecretsKept, Filed
<1>8. Known'
  <2>1. ASSUME NEW q \in Commands, Seed!At(q, "step")', NEW u \in Seed!Users \intersect run'[q].input.keys
        PROVE  Filed(journal', additions', u) # 0 /\ run'[q].secrets[u] = Filed(journal', additions', u)
    <3>1. CASE q = c
      <4>1. run'[q] = r /\ u \in Seed!Users /\ u \in run[c].input.keys
        BY <1>5, <1>6, <2>1, <3>1
      <4>2. Filed(journal', additions', u) # 0 /\ secrets[u] = Filed(journal', additions', u)
        BY <1>4, <4>1 DEF Filed
      <4>3. QED
        BY <1>5, <4>1, <4>2
    <3>2. CASE q # c
      <4>1. run'[q] = run[q] /\ u \in Seed!Users /\ u \in run[q].input.keys /\ Seed!At(q, "step")
        BY <1>6, <2>1, <3>2 DEF Seed!At
      <4>2. Filed(journal, additions, u) # 0 /\ run[q].secrets[u] = Filed(journal, additions, u)
        BY <1>1, <4>1 DEF Secrets, Known
      <4>3. Filed(journal', additions', u) = Filed(journal, additions, u)
        BY <1>4, <4>1, <4>2 DEF Filed
      <4>4. QED
        BY <4>1, <4>2, <4>3
    <3>3. QED
      BY <3>1, <3>2
  <2>2. QED
    BY <2>1 DEF Known
<1>9. QED
  BY <1>7, <1>8 DEF Secrets

\* A new account has its filed password.
LEMMA WriteSecrets ==
  ASSUME SeedBase, Secrets, NEW c \in Commands, ~Seed!Fail(c), ~Seed!Skip(c),
         Seed!CreateUser(c) \/ Seed!CommitDocument(c) \/ Seed!GiveAccess(c)
  PROVE  Secrets'
<1>1. PICK k \in Keys, row \in Objects :
        /\ k \in run[c].input.keys /\ Seed!At(c, "step") /\ run[c].steps # {}
        /\ Seed!Write(k, row) /\ Seed!Goes(c, Seed!Onward(c)) /\ UNCHANGED Seed!files
        /\ accounts' = IF k \in Seed!Users THEN [accounts EXCEPT ![k] = run[c].secrets[k]] ELSE accounts
  BY WritesAre
<1>2. run'[c] = Seed!Onward(c) /\ \A q \in Commands \ {c} : run'[q] = run[q]
  BY <1>1 DEF SeedBase, SeedTypes, Seed!Goes
<1>3. /\ objects \in [Keys -> Objects] /\ accounts \in [Seed!Users -> 0 .. ids]
      /\ \A q \in Commands : run[q].input = run'[q].input /\ run[q].secrets = run'[q].secrets
      /\ \A q \in Commands : Seed!At(q, "step")' => Seed!At(q, "step")
  BY <1>1, <1>2, OnwardTyped DEF SeedBase, SeedTypes, Seed!TypeOK, Objects, Seed!At
<1>4. UNCHANGED <<journal, additions>> /\ \A u \in Seed!Users : Filed(journal', additions', u) = Filed(journal, additions, u)
  BY <1>1 DEF Seed!files, Filed
<1>5. Seed!SecretsKept'
  <2>1. ASSUME journal # Seed!NoFile, NEW u \in Seed!Users, objects'[u] # Seed!NoRow
        PROVE  accounts'[u] # 0 /\ accounts'[u] = Filed(journal, additions, u)
    <3>1. CASE u = k
      <4>1. Filed(journal, additions, u) # 0 /\ run[c].secrets[u] = Filed(journal, additions, u)
        BY <1>1, <2>1, <3>1 DEF Secrets, Known
      <4>2. accounts'[u] = run[c].secrets[u]
        BY <1>1, <1>3, <2>1, <3>1
      <4>3. QED
        BY <4>1, <4>2
    <3>2. CASE u # k
      <4>1. objects'[u] = objects[u] /\ accounts'[u] = accounts[u]
        BY <1>1, <1>3, <2>1, <3>2, KindsApart DEF Seed!Write
      <4>2. QED
        BY <2>1, <4>1 DEF Secrets, Seed!SecretsKept, Filed
    <3>3. QED
      BY <3>1, <3>2
  <2>2. QED
    BY <1>4, <2>1 DEF Seed!SecretsKept, Filed
<1>6. Known'
  BY <1>3, <1>4 DEF Secrets, Known
<1>7. QED
  BY <1>5, <1>6 DEF Secrets

LEMMA SecretsStep ==
  ASSUME SeedBase, Secrets, [Seed!Next]_Seed!vars, \A c \in Commands : Seed!PublishJournal(c) => MadeFresh(c)
  PROVE  Secrets'
<1>1. CASE UNCHANGED Seed!vars
  BY <1>1, SecretsBeside DEF Seed!vars, Seed!database, Seed!files
<1>2. CASE Seed!ChangeInput
  BY <1>2, SecretsBeside DEF Seed!ChangeInput, Seed!database, Seed!files
<1>3. ASSUME NEW c \in Commands, Seed!LoseLock(c)
      PROVE  Secrets'
  BY <1>3, SecretsBeside DEF Seed!LoseLock, Seed!database, Seed!files
<1>4. ASSUME NEW c \in Commands, Seed!Fail(c) \/ Seed!Crash(c)
      PROVE  Secrets'
  BY <1>4, SecretsStay DEF Seed!Fail, Seed!Crash, Seed!database, Seed!files, Seed!Idle
<1>5. ASSUME NEW c \in Commands, ~Seed!Fail(c), NEW r, Seed!Goes(c, r),
             r.at # "step" \/ (Seed!At(c, "step") /\ r.input = run[c].input /\ r.secrets = run[c].secrets),
             UNCHANGED <<objects, accounts, journal, additions>>
      PROVE  Secrets'
  BY <1>5, SecretsStay
<1>6. ASSUME NEW c \in Commands, ~Seed!Fail(c), Seed!Start(c)
      PROVE  Secrets'
  <2>1. PICK initialize \in BOOLEAN, accepted \in SUBSET (Seed!Documents \intersect input.keys) :
          Seed!Goes(c, [Seed!Idle EXCEPT !.at = "inspect", !.initialize = initialize,
                               !.accepted = accepted, !.input = input])
    BY <1>6 DEF Seed!Start
  <2>2. QED
    BY <1>5, <1>6, <2>1 DEF Seed!Start, Seed!Idle, Seed!database, Seed!files
<1>7. ASSUME NEW c \in Commands, ~Seed!Fail(c), Seed!Wait(c) \/ Seed!Migrate(c) \/ Seed!Mark(c) \/ Seed!LookForJournal(c)
      PROVE  Secrets'
  <2>1. run[c] \in Seeding
    BY LockTyped
  <2>2. CASE Seed!Inspect(c)
    BY <1>5, <1>7, <2>1, <2>2 DEF Seed!Inspect, Seed!database, Seed!files, Seeding
  <2>3. CASE Seed!Prepare(c)
    BY <1>5, <1>7, <2>1, <2>3 DEF Seed!Prepare, Seed!database, Seed!files, Seeding
  <2>4. CASE Seed!Coordinate(c)
    BY <1>5, <1>7, <2>1, <2>4 DEF Seed!Coordinate, Seed!database, Seed!files, Seeding
  <2>5. CASE Seed!Migrate(c)
    BY <1>5, <1>7, <2>1, <2>5 DEF Seed!Migrate, Seed!files, Seeding
  <2>6. CASE Seed!Mark(c)
    BY <1>5, <1>7, <2>1, <2>6 DEF Seed!Mark, Seed!files, Seeding
  <2>7. CASE Seed!LookForJournal(c)
    BY <1>5, <1>7, <2>1, <2>7 DEF Seed!LookForJournal, Seed!database, Seed!files, Seeding
  <2>8. QED
    BY <1>7, <2>2, <2>3, <2>4, <2>5, <2>6, <2>7 DEF Seed!Wait
<1>8. ASSUME NEW c \in Commands, ~Seed!Fail(c), Seed!SignIn(c) \/ Seed!ReadDocument(c) \/ Seed!Reread(c) \/ Seed!Export(c)
      PROVE  Secrets'
  <2>1. run[c] \in Seeding
    BY LockTyped
  <2>2. CASE Seed!SignIn(c)
    BY <1>5, <1>8, <2>1, <2>2 DEF Seed!SignIn, Seed!At, Seed!database, Seed!files, Seeding
  <2>3. CASE Seed!ReadDocument(c)
    BY <1>5, <1>8, <2>1, <2>3, DoingIs DEF Seed!ReadDocument, Seed!At, Seed!database, Seed!files, Seeding
  <2>4. CASE Seed!Reread(c)
    BY <1>5, <1>8, <2>1, <2>4 DEF Seed!Reread, Seed!database, Seed!files, Seeding
  <2>5. CASE Seed!Export(c)
    BY <1>5, <1>8, <2>1, <2>5 DEF Seed!Export, Seed!database, Seed!files, Seeding
  <2>6. QED
    BY <1>8, <2>2, <2>3, <2>4, <2>5
<1>9. ASSUME NEW c \in Commands, ~Seed!Fail(c), Seed!CreateUser(c) \/ Seed!CommitDocument(c) \/ Seed!GiveAccess(c)
      PROVE  Secrets'
  <2>1. CASE Seed!Skip(c)
    <3>1. Seed!At(c, "step") /\ run[c].steps # {}
      BY <1>9, DoingIs DEF Seed!CreateUser, Seed!CommitDocument, Seed!GiveAccess
    <3>2. QED
      BY <1>5, <1>9, <2>1, <3>1, OnwardTyped DEF Seed!Skip, Seed!database, Seed!files
  <2>2. QED
    BY <1>9, <2>1, WriteSecrets
<1>10. QED
  BY <1>1, <1>2, <1>3, <1>4, <1>6, <1>7, <1>8, <1>9, EditSecrets, PublishSecrets, ExtendSecrets
     DEF Seed!Next, Seed!Steps, Seed!Advance, Seed!Close

----------------------------------------------------------------------------
(* Commands that hold their lock.                                          *)

\* A key is done when it has its entry, a document the one that was asked for.
Done(r, l, k) == l[k] # Seed!NoBinding /\ (k \in Seed!Documents => l[k].digest = r.input.digest[k])

\* What a command knows of the ledger l, and what it has left to do.
Sure(r, l) ==
  /\ r.at \in {"credentials", "publish", "extend"} => r.expected = l
  /\ r.at = "publish" => \A u \in Seed!Users : r.expected[u] = Seed!NoBinding
  /\ r.at \in Locked \ {"migrate", "mark"} => \A k \in r.input.keys : k \in r.steps \/ Done(r, l, k)

Exclusive ==
  \A c \in Commands : (run[c].at \in Locked => lock = c) /\ Sure(run[c], ledger)

LEMMA InitExclusive == Seed!Init => Exclusive
<1>1. Seed!Idle.at = "idle"
  BY DEF Seed!Idle
<1>2. \A l : Sure(Seed!Idle, l)
  BY <1>1 DEF Sure, Locked
<1>3. QED
  BY <1>1, <1>2 DEF Seed!Init, Exclusive, Locked

\* One command goes on, and writes only with the lock in its hand.
LEMMA ExclusiveMoves ==
  ASSUME SeedBase, Exclusive, NEW c \in Commands, NEW r, Seed!Goes(c, r),
         lock' \in {lock, Seed!Unlocked(c)} \/ (lock = None /\ lock' = c),
         r.at \in Locked => lock' = c,
         ledger' = ledger \/ Seed!At(c, "step"), Sure(r, ledger')
  PROVE  Exclusive'
<1>1. run'[c] = r /\ \A q \in Commands \ {c} : run'[q] = run[q]
  BY DEF SeedBase, SeedTypes, Seed!Goes
<1>2. ASSUME NEW q \in Commands \ {c}
      PROVE  (run[q].at \in Locked => lock' = q) /\ Sure(run[q], ledger')
  <2>1. CASE run[q].at \in Locked
    <3>1. lock = q /\ lock # c /\ lock # None
      BY <2>1, SeedIsPossible DEF Exclusive, Seed!SeedAssumption
    <3>2. lock' = q
      BY <3>1 DEF Seed!Unlocked
    <3>3. ~Seed!At(c, "step")
      BY <3>1 DEF Exclusive, Seed!At, Locked
    <3>4. QED
      BY <3>2, <3>3 DEF Exclusive
  <2>2. CASE run[q].at \notin Locked
    BY <2>2 DEF Sure, Locked
  <2>3. QED
    BY <2>1, <2>2
<1>3. QED
  BY <1>1, <1>2 DEF Exclusive

\* Nobody but administrators and the private inputs.
LEMMA ExclusiveBeside ==
  ASSUME Exclusive, UNCHANGED <<ledger, lock, run>>
  PROVE  Exclusive'
BY DEF Exclusive

LEMMA WriteExclusive ==
  ASSUME SeedBase, Exclusive, NEW c \in Commands, ~Seed!Fail(c),
         Seed!CreateUser(c) \/ Seed!CommitDocument(c) \/ Seed!GiveAccess(c)
  PROVE  Exclusive'
<1>1. /\ Seed!At(c, "step") /\ run[c].steps # {}
  BY DoingIs DEF Seed!CreateUser, Seed!CommitDocument, Seed!GiveAccess
<1> DEFINE k == Seed!First(run[c].steps)
<1>2. /\ Seed!Onward(c).at = "step" /\ Seed!Onward(c).steps = run[c].steps \ {k} /\ Seed!Onward(c).input = run[c].input
      /\ k \in Keys /\ k \in run[c].steps /\ k \in run[c].input.keys
  BY <1>1, OnwardTyped, LockTyped DEF Plans, Works
<1>3. lock = c /\ \A j \in run[c].input.keys : j \in run[c].steps \/ Done(run[c], ledger, j)
  BY <1>1 DEF Exclusive, Seed!At, Sure, Locked
<1>4. ASSUME Seed!Goes(c, Seed!Onward(c)), lock' = lock, Done(run[c], ledger', k),
             \A j \in Keys \ {k} : ledger'[j] = ledger[j]
      PROVE  Exclusive'
  <2>1. run[c].input.keys \subseteq Keys
    BY <1>1, LockTyped DEF Plans, Works, Seed!At, Inputs
  <2>2. \A j \in run[c].input.keys : j \in Seed!Onward(c).steps \/ Done(Seed!Onward(c), ledger', j)
    BY <1>2, <1>3, <1>4, <2>1 DEF Done
  <2> HIDE DEF k
  <2>3. Sure(Seed!Onward(c), ledger')
    BY <1>2, <2>2 DEF Sure
  <2>4. QED
    BY <1>1, <1>2, <1>3, <1>4, <2>3, ExclusiveMoves
<1>5. CASE Seed!Skip(c)
  <2>1. Done(run[c], ledger, k)
    <3>1. CASE Seed!CreateUser(c)
      <4>1. k \notin Seed!Documents
        BY <3>1, DoingIs, KindsApart DEF Seed!CreateUser
      <4>2. Seed!Completed(k)
        <5>1. CASE Seed!Completed(k)
          BY <5>1
        <5>2. CASE ~Seed!Completed(k)
          <6>1. ids' = ids + 1
            BY <1>5, <3>1, <5>2 DEF Seed!CreateUser, Seed!Fail, Seed!Skip
          <6>2. QED
            BY <1>5, <6>1, LockTyped DEF Seed!Skip, Seed!database
        <5>3. QED
          BY <5>1, <5>2
      <4>3. QED
        BY <4>1, <4>2 DEF Done, Seed!Completed, Seed!Tracked
    <3>2. CASE Seed!CommitDocument(c)
      <4>1. ids' = ids
        BY <1>5 DEF Seed!Skip, Seed!database
      <4>2. Seed!Tracked(k) /\ ledger[k].digest = run[c].input.digest[k]
        BY <3>2, <4>1, LockTyped DEF Seed!CommitDocument
      <4>3. QED
        BY <4>2 DEF Done, Seed!Tracked
    <3>3. CASE Seed!GiveAccess(c)
      <4>1. ids' = ids
        BY <1>5 DEF Seed!Skip, Seed!database
      <4>2. Seed!Completed(k) /\ k \notin Seed!Documents
        BY <3>3, <4>1, LockTyped, DoingIs, KindsApart DEF Seed!GiveAccess
      <4>3. QED
        BY <4>2 DEF Done, Seed!Completed, Seed!Tracked
    <3>4. QED
      BY <3>1, <3>2, <3>3
  <2>2. ledger' = ledger /\ lock' = lock /\ Seed!Goes(c, Seed!Onward(c))
    BY <1>5 DEF Seed!Skip, Seed!database
  <2>3. QED
    BY <1>4, <2>1, <2>2
<1>6. CASE ~Seed!Skip(c)
  <2>1. PICK row \in Objects :
          /\ Seed!Write(k, row) /\ row.id # 0 /\ Seed!Goes(c, Seed!Onward(c)) /\ UNCHANGED lock
          /\ k \in Seed!Documents => row.digest = run[c].input.digest[k]
    BY <1>6, WritesAre
  <2>2. ledger'[k] = Seed!BindingOf(row) /\ \A j \in Keys \ {k} : ledger'[j] = ledger[j]
    BY <1>2, <2>1 DEF Seed!Write, SeedBase, SeedTypes, Seed!TypeOK
  <2>3. Done(run[c], ledger', k)
    BY <2>1, <2>2 DEF Done, Seed!BindingOf, Seed!NoBinding
  <2>4. QED
    BY <1>4, <2>1, <2>2, <2>3
<1>7. QED
  BY <1>5, <1>6

LEMMA ExclusiveStep ==
  ASSUME SeedBase, Exclusive, [Seed!Steps]_Seed!vars
  PROVE  Exclusive'
<1>1. CASE UNCHANGED Seed!vars
  BY <1>1, ExclusiveBeside DEF Seed!vars, Seed!database
<1>2. CASE Seed!Edit
  BY <1>2, ExclusiveBeside DEF Seed!Edit, Seed!Alter, Seed!Revise, Seed!TakeAway, Seed!GiveBack, Seed!DeleteJournal, Seed!ReplaceMarker, Seed!database
<1>3. CASE Seed!ChangeInput
  BY <1>3, ExclusiveBeside DEF Seed!ChangeInput, Seed!database
<1>4. ASSUME NEW c \in Commands, Seed!Fail(c) \/ Seed!Crash(c)
      PROVE  Exclusive'
  <2>1. Seed!Goes(c, Seed!Idle) /\ lock' = Seed!Unlocked(c) /\ ledger' = ledger
    BY <1>4 DEF Seed!Fail, Seed!Crash, Seed!Unlocked, Seed!database
  <2>2. Seed!Idle.at \notin Locked /\ Sure(Seed!Idle, ledger')
    BY DEF Seed!Idle, Locked, Sure
  <2>3. QED
    BY <2>1, <2>2, ExclusiveMoves
<1>5. ASSUME NEW c \in Commands, ~Seed!Fail(c), Seed!Start(c)
      PROVE  Exclusive'
  <2>1. PICK initialize \in BOOLEAN, accepted \in SUBSET (Seed!Documents \intersect input.keys) :
          Seed!Goes(c, [Seed!Idle EXCEPT !.at = "inspect", !.initialize = initialize,
                               !.accepted = accepted, !.input = input])
    BY <1>5 DEF Seed!Start
  <2> DEFINE r == [Seed!Idle EXCEPT !.at = "inspect", !.initialize = initialize,
                               !.accepted = accepted, !.input = input]
  <2>2. r.at = "inspect"
    BY DEF Seed!Idle
  <2>3. Sure(r, ledger') /\ r.at \notin Locked
    BY <2>2 DEF Sure, Locked
  <2> HIDE DEF r
  <2>4. QED
    BY <1>5, <2>1, <2>3, ExclusiveMoves DEF Seed!Start, Seed!database, r
<1>6. ASSUME NEW c \in Commands, ~Seed!Fail(c), Seed!Inspect(c) \/ Seed!Prepare(c) \/ Seed!Migrate(c) \/ Seed!Mark(c)
      PROVE  Exclusive'
  <2>1. run[c] \in Seeding
    BY LockTyped
  <2>2. CASE Seed!Inspect(c)
    <3> DEFINE r == [run[c] EXCEPT !.at = "prepare"]
    <3>1. Seed!Goes(c, r) /\ lock' = lock /\ ledger' = ledger /\ r.at = "prepare"
      BY <1>6, <2>1, <2>2 DEF Seed!Inspect, Seed!database, Seeding
    <3> HIDE DEF r
    <3>2. QED
      BY <3>1, ExclusiveMoves DEF Sure, Locked
  <2>3. CASE Seed!Prepare(c)
    <3> DEFINE r == [run[c] EXCEPT !.at = "migrate", !.initialize = FALSE, !.seen = ownedBy]
    <3>1. Seed!Goes(c, r) /\ lock = None /\ lock' = c /\ ledger' = ledger /\ r.at = "migrate"
      BY <1>6, <2>1, <2>3 DEF Seed!Prepare, Seed!database, Seeding
    <3> HIDE DEF r
    <3>2. QED
      BY <3>1, ExclusiveMoves DEF Sure, Locked
  <2>4. CASE Seed!Migrate(c)
    <3> DEFINE r == [run[c] EXCEPT !.at = "mark"]
    <3>1. Seed!Goes(c, r) /\ lock = c /\ lock' = lock /\ ledger' = ledger /\ r.at = "mark"
      BY <1>6, <2>1, <2>4 DEF Seed!Migrate, Seed!At, Seeding, Exclusive, Locked
    <3> HIDE DEF r
    <3>2. QED
      BY <3>1, ExclusiveMoves DEF Sure, Locked
  <2>5. CASE Seed!Mark(c)
    <3> DEFINE r == [run[c] EXCEPT !.at = "coordinate", !.seen = None]
    <3>1. Seed!Goes(c, r) /\ lock' = Seed!Unlocked(c) /\ ledger' = ledger /\ r.at = "coordinate"
      BY <1>6, <2>1, <2>5 DEF Seed!Mark, Seeding
    <3> HIDE DEF r
    <3>2. QED
      BY <3>1, ExclusiveMoves DEF Sure, Locked
  <2>6. QED
    BY <1>6, <2>2, <2>3, <2>4, <2>5
<1>7. ASSUME NEW c \in Commands, ~Seed!Fail(c), Seed!Coordinate(c)
      PROVE  Exclusive'
  <2> DEFINE work == Seed!Work(run[c].input, Seed!plan_seed(run[c].input))
             r == [run[c] EXCEPT !.at = "credentials", !.expected = ledger, !.steps = work]
  <2>1. /\ Seed!Goes(c, r) /\ lock = None /\ lock' = c /\ ledger' = ledger
        /\ Seed!Valid(run[c], Seed!plan_seed(run[c].input)) /\ run[c].at = "coordinate"
    BY <1>7 DEF Seed!Coordinate, Seed!database, Seed!At
  <2>2. run[c] \in Seeding /\ run[c].input \in Inputs
    BY <2>1, LockTyped DEF Plans, Works
  <2>3. \A k \in run[c].input.keys : k \in work \/ Done(run[c], ledger, k)
    BY <2>1, <2>2, WorkIs DEF Done, Seed!Tracked
  <2> HIDE DEF work
  <2>4. r.at = "credentials" /\ r.expected = ledger /\ r.steps = work /\ r.input = run[c].input
    BY <2>2 DEF Seeding
  <2> HIDE DEF r
  <2>5. Sure(r, ledger')
    BY <2>1, <2>3, <2>4 DEF Sure, Done
  <2>6. QED
    BY <2>1, <2>5, ExclusiveMoves
<1>8. ASSUME NEW c \in Commands, run[c].at \in Locked \ {"migrate", "mark"}, NEW r, Seed!Goes(c, r),
             lock' = lock, ledger' = ledger, r.at \in Locked \ {"migrate", "mark", "credentials"},
             r.input = run[c].input, r.steps = run[c].steps,
             r.at \in {"publish", "extend"} =>
                 /\ run[c].at \in {"credentials", "publish", "extend"}
                 /\ r.expected = run[c].expected,
             r.at = "publish" => Seed!NoneCompleted(c)
      PROVE  Exclusive'
  <2>1. lock = c /\ Sure(run[c], ledger)
    BY <1>8 DEF Exclusive
  <2>2. r.at \in {"publish", "extend"} => r.expected = ledger
    BY <1>8, <2>1 DEF Sure
  <2>3. \A k \in r.input.keys : k \in r.steps \/ Done(r, ledger, k)
    BY <1>8, <2>1 DEF Sure, Done
  <2>4. r.at = "publish" => \A u \in Seed!Users : r.expected[u] = Seed!NoBinding
    BY <1>8 DEF Seed!NoneCompleted
  <2>5. Sure(r, ledger')
    BY <1>8, <2>2, <2>3, <2>4 DEF Sure
  <2>6. QED
    BY <1>8, <2>1, <2>5, ExclusiveMoves
<1>9. ASSUME NEW c \in Commands, ~Seed!Fail(c),
             Seed!LookForJournal(c) \/ Seed!PublishJournal(c) \/ Seed!Extend(c) \/ Seed!SignIn(c) \/ Seed!ReadDocument(c)
               \/ Seed!Reread(c) \/ Seed!Export(c)
      PROVE  Exclusive'
  <2>1. run[c] \in Seeding
    BY LockTyped
  <2>2. CASE Seed!LookForJournal(c)
    <3>1. PICK place \in {"publish", "extend"} :
            /\ Seed!Goes(c, [run[c] EXCEPT !.at = place]) /\ run[c].at = "credentials"
            /\ lock' = lock /\ ledger' = ledger /\ (place = "publish" => Seed!NoneCompleted(c))
      BY <1>9, <2>2 DEF Seed!LookForJournal, Seed!At, Seed!database
    <3> DEFINE r == [run[c] EXCEPT !.at = place]
    <3>2. r.at = place /\ r.input = run[c].input /\ r.steps = run[c].steps /\ r.expected = run[c].expected
      BY <2>1 DEF Seeding
    <3>3. Seed!Goes(c, r)
      BY <3>1
    <3> HIDE DEF r
    <3>4. QED
      BY <1>8, <3>1, <3>2, <3>3 DEF Locked
  <2>3. CASE Seed!PublishJournal(c)
    <3> DEFINE r == [run[c] EXCEPT !.at = "extend"]
    <3>1. Seed!Goes(c, r) /\ lock' = lock /\ ledger' = ledger /\ run[c].at = "publish"
      BY <2>3 DEF Seed!PublishJournal, Seed!At
    <3>2. r.at = "extend" /\ r.input = run[c].input /\ r.steps = run[c].steps /\ r.expected = run[c].expected
      BY <2>1 DEF Seeding
    <3> HIDE DEF r
    <3>3. QED
      BY <1>8, <3>1, <3>2 DEF Locked
  <2>4. CASE Seed!Extend(c)
    <3>1. PICK secrets : Seed!Goes(c, [run[c] EXCEPT !.at = "step", !.secrets = secrets])
      BY <1>9, <2>4 DEF Seed!Extend
    <3> DEFINE r == [run[c] EXCEPT !.at = "step", !.secrets = secrets]
    <3>2. Seed!Goes(c, r) /\ lock' = lock /\ ledger' = ledger /\ run[c].at = "extend"
      BY <1>9, <2>4, <3>1 DEF Seed!Extend, Seed!At
    <3>3. r.at = "step" /\ r.input = run[c].input /\ r.steps = run[c].steps
      BY <2>1 DEF Seeding
    <3> HIDE DEF r
    <3>4. QED
      BY <1>8, <3>2, <3>3 DEF Locked
  <2>5. CASE Seed!SignIn(c)
    <3> DEFINE r == [run[c] EXCEPT !.session = TRUE]
    <3>1. Seed!Goes(c, r) /\ lock' = lock /\ ledger' = ledger /\ run[c].at = "step"
      BY <1>9, <2>5 DEF Seed!SignIn, Seed!At, Seed!database
    <3>2. r.at = "step" /\ r.input = run[c].input /\ r.steps = run[c].steps
      BY <2>1, <3>1 DEF Seeding
    <3> HIDE DEF r
    <3>3. QED
      BY <1>8, <3>1, <3>2 DEF Locked
  <2>6. CASE Seed!ReadDocument(c)
    <3> DEFINE r == [run[c] EXCEPT !.reads = input.digest[Seed!First(run[c].steps)]]
    <3>1. Seed!Goes(c, r) /\ lock' = lock /\ ledger' = ledger /\ run[c].at = "step"
      BY <1>9, <2>6, DoingIs DEF Seed!ReadDocument, Seed!At, Seed!database
    <3>2. r.at = "step" /\ r.input = run[c].input /\ r.steps = run[c].steps
      BY <2>1, <3>1 DEF Seeding
    <3> HIDE DEF r
    <3>3. QED
      BY <1>8, <3>1, <3>2 DEF Locked
  <2>7. CASE Seed!Reread(c)
    <3> DEFINE r == [run[c] EXCEPT !.at = "export", !.expected = ledger]
    <3>1. Seed!Goes(c, r) /\ lock' = lock /\ ledger' = ledger /\ run[c].at = "step"
      BY <1>9, <2>7 DEF Seed!Reread, Seed!At, Seed!database
    <3>2. r.at = "export" /\ r.input = run[c].input /\ r.steps = run[c].steps
      BY <2>1, <3>1 DEF Seeding
    <3> HIDE DEF r
    <3>3. QED
      BY <1>8, <3>1, <3>2 DEF Locked
  <2>8. CASE Seed!Export(c)
    <3> DEFINE r == [run[c] EXCEPT !.at = "reported"]
    <3>1. Seed!Goes(c, r) /\ lock' = lock /\ ledger' = ledger /\ run[c].at = "export"
      BY <1>9, <2>8 DEF Seed!Export, Seed!At, Seed!database
    <3>2. r.at = "reported" /\ r.input = run[c].input /\ r.steps = run[c].steps
      BY <2>1, <3>1 DEF Seeding
    <3> HIDE DEF r
    <3>3. QED
      BY <1>8, <3>1, <3>2 DEF Locked
  <2>9. QED
    BY <1>9, <2>2, <2>3, <2>4, <2>5, <2>6, <2>7, <2>8
<1>10. QED
  BY <1>1, <1>2, <1>3, <1>4, <1>5, <1>6, <1>7, <1>9, WriteExclusive DEF Seed!Steps, Seed!Wait, Seed!Advance, Seed!Close

\* A journal is made by the command that holds the lock, where there is no account.
LEMMA ExclusiveFresh ==
  ASSUME SeedBase, Exclusive, NEW c \in Commands, Seed!PublishJournal(c)
  PROVE  MadeFresh(c)
<1>1. run[c].at = "publish" /\ lock = c
  BY DEF Seed!PublishJournal, Seed!At, Exclusive, Locked
<1>2. \A u \in Seed!Users : ledger[u] = Seed!NoBinding
  BY <1>1 DEF Exclusive, Sure
<1>3. \A u \in Seed!Users : objects[u] = Seed!NoRow
  BY <1>2 DEF SeedBase, Registered, Seed!Tracked
<1>4. \A q \in Commands : ~Seed!At(q, "step")
  BY <1>1 DEF Exclusive, Seed!At, Locked
<1>5. QED
  BY <1>3, <1>4 DEF MadeFresh

LEMMA ReportsApplied ==
  ASSUME SeedBase, Exclusive
  PROVE  Seed!ReportedIsApplied
<1>1. ASSUME NEW c \in Commands, Seed!At(c, "reported")
      PROVE  /\ \A k \in run[c].input.keys : Seed!Tracked(k)
             /\ \A d \in Seed!Documents \intersect run[c].input.keys : ledger[d].digest = run[c].input.digest[d]
             /\ \A k \in Seed!Access \intersect run[c].input.keys : objects[k] = Seed!NoRow => k \in removed
  <2>1. run[c].steps = {} /\ run[c].at = "reported"
    BY <1>1, LockTyped DEF Seed!At, Plans, Works, Planned
  <2>2. \A k \in run[c].input.keys : Done(run[c], ledger, k)
    BY <2>1 DEF Exclusive, Sure, Locked
  <2>3. QED
    BY <2>2 DEF Done, Seed!Tracked, SeedBase, Registered
<1>2. QED
  BY <1>1 DEF Seed!ReportedIsApplied

----------------------------------------------------------------------------
(* Commands whose lock breaks, where nobody edits.                         *)

\* There is a journal before there is an account or a command that creates one.
JournalFirst ==
  journal = Seed!NoFile =>
      /\ \A u \in Seed!Users : objects[u] = Seed!NoRow
      /\ \A c \in Commands : run[c].at \notin {"extend", "step"}

LEMMA InitJournal == Seed!Init => JournalFirst
BY KindsApart DEF Seed!Init, JournalFirst, Seed!Idle

LEMMA JournalStep ==
  ASSUME SeedBase, JournalFirst, [Seed!Next]_Seed!vars, edits \in Nat, edits' = edits
  PROVE  JournalFirst'
<1>1. ~Seed!Edit
  BY DEF Seed!Edit
<1>2. ASSUME NEW c \in Commands, Seed!PublishJournal(c)
      PROVE  journal' # Seed!NoFile
  <2>1. CASE journal # Seed!NoFile
    BY <1>2, <2>1 DEF Seed!PublishJournal, Seed!Published
  <2>2. CASE journal = Seed!NoFile
    <3>1. journal' = [u \in Seed!Users |-> IF u \in run[c].input.keys THEN ids' ELSE 0] /\ ids' = ids + 1
      BY <1>2, <2>2 DEF Seed!PublishJournal, Seed!Published
    <3>2. Admin \in run[c].input.keys /\ Admin \in Seed!Users /\ ids' # 0
      BY <1>2, <3>1, LockTyped, KindsApart, SeedIsPossible
         DEF Seed!PublishJournal, Seed!At, Plans, Works, Seed!SeedAssumption
    <3>3. journal'[Admin] # 0 /\ Seed!NoFile[Admin] = 0
      BY <3>1, <3>2 DEF Seed!NoFile
    <3>4. QED
      BY <3>3
  <2>3. QED
    BY <2>1, <2>2
<1>3. CASE journal # Seed!NoFile
  <2>1. journal' # Seed!NoFile
    <3>1. journal' = journal \/ \E c \in Commands : Seed!PublishJournal(c)
      BY <1>1 DEF Seed!Next, Seed!Steps, Seed!vars, Seed!Start, Seed!Wait, Seed!Advance, Seed!Crash, Seed!LoseLock, Seed!ChangeInput, Seed!files, Seed!Inspect, Seed!Prepare,
         Seed!Coordinate, Seed!Migrate, Seed!Mark, Seed!LookForJournal, Seed!Extend, Seed!CreateUser, Seed!SignIn, Seed!ReadDocument, Seed!CommitDocument,
         Seed!GiveAccess, Seed!Reread, Seed!Export, Seed!Close, Seed!Fail, Seed!Skip
    <3>2. QED
      BY <1>2, <1>3, <3>1
  <2>2. QED
    BY <2>1 DEF JournalFirst
<1>4. CASE journal = Seed!NoFile
  <2>1. /\ \A u \in Seed!Users : objects[u] = Seed!NoRow
        /\ \A c \in Commands : run[c].at \notin {"extend", "step"}
    BY <1>4 DEF JournalFirst
  <2>2. \A c \in Commands : ~Seed!At(c, "extend") /\ ~Seed!At(c, "step")
    BY <2>1 DEF Seed!At
  <2>3. objects' = objects
    BY <1>1, <2>2, StepsAre, DoingIs DEF Seed!CreateUser, Seed!CommitDocument, Seed!GiveAccess
  <2>4. ASSUME NEW c \in Commands, NEW r, Seed!Goes(c, r), r.at \notin {"extend", "step"}
        PROVE  JournalFirst'
    BY <2>1, <2>3, <2>4 DEF Seed!Goes, JournalFirst, SeedBase, SeedTypes
  <2>5. ASSUME UNCHANGED run
        PROVE  JournalFirst'
    BY <2>1, <2>3, <2>5 DEF JournalFirst
  <2>6. ASSUME NEW c \in Commands, Seed!Fail(c) \/ Seed!Crash(c)
        PROVE  JournalFirst'
    BY <2>4, <2>6 DEF Seed!Fail, Seed!Crash, Seed!Idle
  <2>7. ASSUME NEW c \in Commands, ~Seed!Fail(c), Seed!Start(c)
        PROVE  JournalFirst'
    BY <2>4, <2>7 DEF Seed!Start, Seed!Idle
  <2>8. ASSUME NEW c \in Commands, ~Seed!Fail(c), Seed!Inspect(c) \/ Seed!Prepare(c) \/ Seed!Migrate(c) \/ Seed!Mark(c) \/ Seed!Coordinate(c)
        PROVE  JournalFirst'
    <3>1. run[c] \in Seeding
      BY LockTyped
    <3>2. CASE Seed!Inspect(c)
      BY <2>4, <2>8, <3>1, <3>2 DEF Seed!Inspect, Seeding
    <3>3. CASE Seed!Prepare(c)
      BY <2>4, <2>8, <3>1, <3>3 DEF Seed!Prepare, Seeding
    <3>4. CASE Seed!Migrate(c)
      BY <2>4, <2>8, <3>1, <3>4 DEF Seed!Migrate, Seeding
    <3>5. CASE Seed!Mark(c)
      BY <2>4, <2>8, <3>1, <3>5 DEF Seed!Mark, Seeding
    <3>6. CASE Seed!Coordinate(c)
      BY <2>4, <2>8, <3>1, <3>6 DEF Seed!Coordinate, Seeding
    <3>7. QED
      BY <2>8, <3>2, <3>3, <3>4, <3>5, <3>6
  <2>9. ASSUME NEW c \in Commands, ~Seed!Fail(c), Seed!LookForJournal(c) \/ Seed!Export(c)
        PROVE  JournalFirst'
    BY <1>4, <2>4, <2>9, LockTyped DEF Seed!LookForJournal, Seed!Export, Seeding
  <2>10. ASSUME NEW c \in Commands
         PROVE  /\ ~Seed!Extend(c) /\ ~Seed!SignIn(c) /\ ~Seed!Reread(c) /\ ~Seed!ReadDocument(c)
                /\ ~Seed!CreateUser(c) /\ ~Seed!CommitDocument(c) /\ ~Seed!GiveAccess(c)
    BY <2>2 DEF Seed!Extend, Seed!SignIn, Seed!Reread, Seed!ReadDocument, Seed!CreateUser, Seed!CommitDocument, Seed!GiveAccess, Seed!Doing
  <2>11. ASSUME NEW c \in Commands, Seed!PublishJournal(c)
         PROVE  JournalFirst'
    BY <1>2, <2>11 DEF JournalFirst
  <2>12. UNCHANGED Seed!vars \/ Seed!ChangeInput \/ (\E c \in Commands : Seed!LoseLock(c)) => UNCHANGED run
    BY DEF Seed!vars, Seed!ChangeInput, Seed!LoseLock
  <2>13. QED
    BY <1>1, <2>5, <2>6, <2>7, <2>8, <2>9, <2>10, <2>11, <2>12 DEF Seed!Next, Seed!Steps, Seed!Wait, Seed!Advance, Seed!Close
<1>5. QED
  BY <1>3, <1>4

LEMMA JournalFresh ==
  ASSUME SeedBase, JournalFirst, NEW c \in Commands
  PROVE  MadeFresh(c)
BY DEF JournalFirst, MadeFresh, Seed!At

LEMMA SeedTold ==
  ASSUME SeedBase, Secrets
  PROVE  Seed!SeedInv
<1>1. Seed!NeverGivenBack
  BY DEF SeedBase, SeedTypes, Seed!TypeOK, Registered, Seed!NeverGivenBack
<1>2. QED
  BY <1>1 DEF SeedBase, SeedTypes, Secrets, Seed!SeedInv

----------------------------------------------------------------------------
(* The trial of a case.                                                    *)

\* Where a question is under way, and where it has not been settled.
Unsettled == {"prepare", "model", "generated", "releasing", "gate"}
Settling == {"stored", "recorded", "observing"}
Busy == Unsettled \cup Settling

Releases == [refs : SUBSET Trial!Rows, forbidden : BOOLEAN]
Turns == [state : {"pending", "available", "no_context", "interrupted"}, ask : Nat, refs : SUBSET Trial!Rows]
Observations == [action : Nat, surface : {"model_context", "release", "stored_read", "source_read", "document_list"},
                 refs : SUBSET Trial!Rows, forbidden : BOOLEAN, valid : BOOLEAN]
Accounts == [action : Nat, number : 1 .. 2, status : {"stale_discarded", "completed", "failed"}]
Outcomes == [status : {"completed", "interrupted", "failed"}, commits : Seq({"ask", "change"})]

TrialTypes ==
  /\ Trial!TypeOK /\ order \in {<<"baseline", "guarded">>, <<"guarded", "baseline">>}
  /\ records \in Seq(Outcomes) /\ (at # "ended" => Len(records) <= 1)
  /\ turns \in Seq(Turns) /\ attempts \in Seq(Accounts) /\ seen \subseteq Observations
  /\ attempt \in [number : 0 .. 2, refs : SUBSET Trial!Rows, revision : Nat, answered : BOOLEAN,
                  live : BOOLEAN, release : Releases]
  /\ \A i \in DOMAIN witnesses : witnesses[i] \subseteq Trial!Rows
  /\ ordering = [barrier |-> ordering.barrier, doc |-> ordering.doc, reached |-> ordering.reached,
                 committed |-> ordering.committed, change |-> ordering.change, commits |-> ordering.commits]
  /\ ordering.commits \in Seq({"ask", "change"})

\* A question has an attempt from its reservation to its response, and its place in the case.
Attempted ==
  /\ at \in Busy => attempt.number # 0
  /\ at \notin Busy => attempt = Trial!NoAttempt
  /\ at \notin {"next", "ended"} => pos <= Len(case)

\* Nothing forged, and by the guarded arm nothing hidden from its user.
Released ==
  /\ \A o \in seen : o.valid
  /\ at # "ended" /\ Trial!Arm = "guarded" => ~attempt.release.forbidden /\ \A o \in seen : ~o.forbidden

\* The events of the barrier: what has been reached and committed, and what of it was recorded.
Moment(reached, change, done, told) ==
  /\ ordering.reached = reached /\ ordering.committed = (change = "done")
  /\ ordering.change = change /\ happened = done /\ ordering.commits = told

ChangedFirst ==
  \/ at \in {"prepare", "model", "generated", "joining"} /\ Moment(FALSE, "waiting", <<>>, <<>>)
  \/ at = "generated" /\ Moment(TRUE, "waiting", <<>>, <<>>)
  \/ at = "generated" /\ Moment(TRUE, "applied", <<"change">>, <<>>)
  \/ at \in Unsettled /\ Moment(TRUE, "done", <<"change">>, <<"change">>)
  \/ at = "stored" /\ Moment(TRUE, "done", <<"change", "ask">>, <<"change">>)
  \/ at \in {"recorded", "observing", "joining", "next"} /\ Moment(TRUE, "done", <<"change", "ask">>, <<"change", "ask">>)

AnsweredFirst ==
  \/ at \in Unsettled \cup {"joining"} /\ Moment(FALSE, "waiting", <<>>, <<>>)
  \/ at = "stored" /\ Moment(FALSE, "waiting", <<"ask">>, <<>>)
  \/ at = "recorded" /\ \E reached \in BOOLEAN : Moment(reached, "waiting", <<"ask">>, <<"ask">>)
  \/ at = "recorded" /\ Moment(TRUE, "applied", <<"ask", "change">>, <<"ask">>)
  \/ at \in {"recorded", "observing", "joining", "next"} /\ Moment(TRUE, "done", <<"ask", "change">>, <<"ask", "change">>)

Ordered ==
  at # "ended" =>
    \/ ordering.barrier = "model_generated" /\ ChangedFirst
    \/ ordering.barrier = "release_committed" /\ AnsweredFirst
    \/ /\ ordering.barrier \notin {"model_generated", "release_committed"}
       /\ ~ordering.reached /\ ~ordering.committed /\ ordering.change # "applied"

\* A settled question has its release and its last attempt in the evidence, or is being settled.
Witnessed(turn) ==
  /\ \E o \in seen : o.surface = "release" /\ o.action = turn.ask /\ o.refs = turn.refs
  /\ \E k \in DOMAIN attempts : attempts[k].action = turn.ask /\ attempts[k].status = "completed"
Whole ==
  at # "ended" =>
    /\ at \in Unsettled => turns # <<>>
    /\ \A i \in DOMAIN turns :
         \/ turns[i].state = "pending" \/ Witnessed(turns[i])
         \/ i = Len(turns) /\ at \in Settling /\ turns[i].ask = pos /\ turns[i].refs = attempt.release.refs

\* The attempts that the evidence has already.
Accounted ==
  /\ Trial!AttemptsAccounted
  /\ at # "ended" => \A i \in DOMAIN attempts : attempts[i].action <= pos
  /\ at = "next" => \A i \in DOMAIN attempts : attempts[i].action < pos
  /\ at \in Busy => \A i \in DOMAIN attempts : attempts[i].action = pos =>
                      attempt.number = 2 /\ attempts[i].number = 1 /\ attempts[i].status = "stale_discarded"

ArmIInv == TrialTypes /\ Attempted /\ Released /\ Ordered /\ Whole /\ Accounted


LEMMA AnAttempt ==
  Trial!NoAttempt \in [number : 0 .. 2, refs : SUBSET Trial!Rows, revision : Nat, answered : BOOLEAN,
                 live : BOOLEAN, release : Releases]
BY DEF Trial!NoAttempt, Trial!NoRelease, Releases

LEMMA TrialBounds ==
  ASSUME ArmIInv
  PROVE  /\ case \in Seq(Trial!CaseAction) /\ Len(case) \in Nat /\ pos \in Nat /\ pos >= 1
         /\ Trial!Readable \subseteq Trial!Rows /\ granted \subseteq Docs
         /\ turns \in Seq(Turns) /\ \A i \in DOMAIN turns : turns[i] \in Turns
         /\ attempts \in Seq(Accounts)
         /\ \A i \in DOMAIN attempts : /\ attempts[i] \in Accounts /\ attempts[i].action \in Nat
                                       /\ attempts[i].number \in {1, 2}
<1>1. case \in Seq(Trial!CaseAction) /\ Len(case) \in Nat /\ pos \in Nat /\ pos >= 1
  BY TrialIsPossible DEF ArmIInv, TrialTypes, Trial!TypeOK, Trial!ComparisonAssumption
<1>2. granted \subseteq Docs /\ active \in [Docs -> 0 .. 1]
  BY DEF ArmIInv, TrialTypes, Trial!TypeOK
<1>3. Trial!Readable \subseteq Trial!Rows
  BY <1>2 DEF Trial!Readable, Trial!Rows
<1>4. turns \in Seq(Turns) /\ \A i \in DOMAIN turns : turns[i] \in Turns
  BY DEF ArmIInv, TrialTypes
<1>5. attempts \in Seq(Accounts) /\ \A i \in DOMAIN attempts : attempts[i] \in Accounts
  BY DEF ArmIInv, TrialTypes
<1>6. \A i \in DOMAIN attempts : attempts[i].action \in Nat /\ attempts[i].number \in {1, 2}
  BY <1>5 DEF Accounts
<1>7. QED
  BY <1>1, <1>2, <1>3, <1>4, <1>5, <1>6

LEMMA SameArm ==
  ASSUME UNCHANGED Trial!trial
  PROVE  Trial!Arm' = Trial!Arm /\ case' = case /\ template' = template /\ order' = order /\ records' = records
BY DEF Trial!trial, Trial!Arm

\* The evidence of an attempt is added to that of the ones before it.
LEMMA AccountKeeps ==
  ASSUME ArmIInv, at \in Busy, NEW status \in {"stale_discarded", "completed", "failed"}, Trial!Account(status)
  PROVE  /\ attempts' \in Seq(Accounts) /\ DOMAIN attempts' = 1 .. Len(attempts) + 1
         /\ \A i \in 1 .. Len(attempts) : attempts'[i] = attempts[i]
         /\ attempts'[Len(attempts) + 1] = [action |-> pos, number |-> attempt.number, status |-> status]
         /\ \A i \in DOMAIN attempts' : attempts'[i].number \in 1 .. 2 /\ attempts'[i].action <= pos
         /\ \A i, j \in DOMAIN attempts' : (i < j /\ attempts'[i].action = attempts'[j].action) =>
              attempts'[i].status = "stale_discarded" /\ attempts'[j].number = attempts'[i].number + 1
<1> DEFINE new == [action |-> pos, number |-> attempt.number, status |-> status]
<1>1. attempt.number \in 1 .. 2 /\ at # "ended"
  BY DEF ArmIInv, Attempted, TrialTypes, Busy, Unsettled, Settling
<1>2. new \in Accounts
  BY <1>1, TrialBounds DEF Accounts
<1>3. new.action = pos /\ new.number = attempt.number
  OBVIOUS
<1>4. attempts' = Append(attempts, new)
  BY DEF Trial!Account
<1> HIDE DEF new
<1>5. /\ attempts' \in Seq(Accounts) /\ DOMAIN attempts' = 1 .. Len(attempts) + 1 /\ Len(attempts) \in Nat
      /\ \A i \in 1 .. Len(attempts) : attempts'[i] = attempts[i]
      /\ attempts'[Len(attempts) + 1] = new
  BY <1>2, <1>4, TrialBounds
<1>6. DOMAIN attempts = 1 .. Len(attempts)
  BY TrialBounds
<1>7. \A i \in DOMAIN attempts : /\ attempts[i].number \in 1 .. 2 /\ attempts[i].action <= pos
                                 /\ attempts[i].action = pos =>
                                      /\ attempt.number = 2 /\ attempts[i].number = 1
                                      /\ attempts[i].status = "stale_discarded"
  BY <1>1, TrialBounds DEF ArmIInv, Accounted
<1>8. \A i, j \in DOMAIN attempts : (i < j /\ attempts[i].action = attempts[j].action) =>
        attempts[i].status = "stale_discarded" /\ attempts[j].number = attempts[i].number + 1
  BY DEF ArmIInv, Accounted, Trial!AttemptsAccounted
<1>9. \A i \in DOMAIN attempts' : attempts'[i].number \in 1 .. 2 /\ attempts'[i].action <= pos
  BY <1>1, <1>3, <1>5, <1>6, <1>7, TrialBounds
<1>10. ASSUME NEW i \in DOMAIN attempts', NEW j \in DOMAIN attempts', i < j, attempts'[i].action = attempts'[j].action
       PROVE  attempts'[i].status = "stale_discarded" /\ attempts'[j].number = attempts'[i].number + 1
  <2>1. i \in DOMAIN attempts /\ attempts'[i] = attempts[i]
    BY <1>5, <1>6, <1>10
  <2>2. CASE j \in DOMAIN attempts
    BY <1>5, <1>6, <1>8, <1>10, <2>1, <2>2
  <2>3. CASE j = Len(attempts) + 1
    BY <1>3, <1>5, <1>7, <1>10, <2>1, <2>3
  <2>4. QED
    BY <1>5, <1>6, <2>2, <2>3
<1>11. QED
  BY <1>5, <1>9, <1>10 DEF new

\* An arm that fails leaves its record, and the evidence of an attempt.
LEMMA EndKeeps ==
  ASSUME ArmIInv, at # "ended", NEW status \in {"interrupted", "failed"}, Trial!Fail(status), attempt' = Trial!NoAttempt,
         attempts' = attempts \/ (at \in Busy /\ Trial!Account("failed"))
  PROVE  ArmIInv'
<1>1. /\ at' = "ended" /\ records' = Append(records, [status |-> status, commits |-> ordering.commits])
      /\ UNCHANGED <<case, template, order, Trial!policy, turns, pos, lapsed, Trial!faults, ordering, happened, seen, witnesses>>
  BY DEF Trial!Fail
<1>2. records' \in Seq(Outcomes)
  BY <1>1 DEF ArmIInv, TrialTypes, Outcomes
<1>3. /\ attempts' \in Seq(Accounts)
      /\ \A i \in DOMAIN attempts' : attempts'[i].number \in 1 .. 2
      /\ \A i, j \in DOMAIN attempts' : (i < j /\ attempts'[i].action = attempts'[j].action) =>
           attempts'[i].status = "stale_discarded" /\ attempts'[j].number = attempts'[i].number + 1
  <2>1. CASE attempts' = attempts
    BY <2>1, TrialBounds DEF ArmIInv, Accounted, Trial!AttemptsAccounted
  <2>2. CASE at \in Busy /\ Trial!Account("failed")
    BY <2>2, AccountKeeps
  <2>3. QED
    BY <2>1, <2>2
<1>4. TrialTypes'
  <2>1. Trial!TypeOK'
    BY <1>1, AnAttempt DEF ArmIInv, TrialTypes, Trial!TypeOK, Trial!policy, Trial!faults
  <2>2. QED
    BY <1>1, <1>2, <1>3, <2>1, AnAttempt DEF ArmIInv, TrialTypes
<1>5. Attempted' /\ Released' /\ Ordered' /\ Whole'
  BY <1>1 DEF ArmIInv, Attempted, Released, Ordered, Whole, Busy, Unsettled, Settling
<1>6. Accounted'
  BY <1>1, <1>3 DEF Accounted, Trial!AttemptsAccounted, Busy, Unsettled, Settling
<1>7. QED
  BY <1>4, <1>5, <1>6 DEF ArmIInv

LEMMA Events ==
  /\ Append(<<>>, "ask") = <<"ask">> /\ Append(<<>>, "change") = <<"change">>
  /\ Append(<<"change">>, "ask") = <<"change", "ask">> /\ Append(<<"ask">>, "change") = <<"ask", "change">>
<1>1. ASSUME NEW S, NEW s \in Seq(S), NEW t \in Seq(S), NEW e \in S, Len(t) = Len(s) + 1,
             \A i \in 1 .. Len(s) : t[i] = s[i], t[Len(t)] = e
      PROVE  Append(s, e) = t
  BY <1>1, AppendProperties, SeqEqual
<1> DEFINE S == {"ask", "change"}
<1>2. <<>> \in Seq(S) /\ Len(<<>>) = 0
  BY EmptySeq
<1>3. <<"ask">> \in Seq(S) /\ <<"change">> \in Seq(S) /\ <<"change", "ask">> \in Seq(S) /\ <<"ask", "change">> \in Seq(S)
  OBVIOUS
<1>4. Append(<<>>, "ask") = <<"ask">> /\ Append(<<>>, "change") = <<"change">>
  BY <1>1, <1>2, <1>3
<1>5. Append(<<"change">>, "ask") = <<"change", "ask">> /\ Append(<<"ask">>, "change") = <<"ask", "change">>
  <2>1. ASSUME NEW d \in S, NEW e \in S
        PROVE  Append(<<d>>, e) = <<d, e>>
    <3>1. <<d>> \in Seq(S) /\ <<d, e>> \in Seq(S) /\ Len(<<d>>) = 1 /\ Len(<<d, e>>) = 2
      OBVIOUS
    <3>2. (\A i \in 1 .. 1 : <<d, e>>[i] = <<d>>[i]) /\ <<d, e>>[2] = e
      OBVIOUS
    <3>3. /\ Append(<<d>>, e) \in Seq(S) /\ Len(Append(<<d>>, e)) = 2
          /\ Append(<<d>>, e)[1] = d /\ Append(<<d>>, e)[2] = e
      BY <3>1, AppendProperties
    <3> DEFINE long == Append(<<d>>, e)
               pair == <<d, e>>
    <3>4. /\ long \in Seq(S) /\ pair \in Seq(S) /\ Len(long) = 2 /\ Len(pair) = 2
          /\ long[1] = d /\ long[2] = e /\ pair[1] = d /\ pair[2] = e
      BY <3>1, <3>3
    <3> HIDE DEF long, pair
    <3>5. \A i \in 1 .. Len(long) : long[i] = pair[i]
      BY <3>4
    <3>6. long = pair
      BY <3>4, <3>5, SeqEqual
    <3>7. QED
      BY <3>6 DEF long, pair
  <2>2. QED
    BY <2>1
<1>6. QED
  BY <1>4, <1>5

\* The parts of an attempt and of the ordering.
LEMMA Parts ==
  ASSUME ArmIInv
  PROVE  /\ attempt.number \in 0 .. 2 /\ attempt.refs \subseteq Trial!Rows /\ attempt.revision \in Nat
         /\ attempt.answered \in BOOLEAN /\ attempt.live \in BOOLEAN /\ attempt.release \in Releases
         /\ attempt = [number |-> attempt.number, refs |-> attempt.refs, revision |-> attempt.revision,
                       answered |-> attempt.answered, live |-> attempt.live, release |-> attempt.release]
         /\ ordering.commits \in Seq({"ask", "change"})
         /\ ordering = [barrier |-> ordering.barrier, doc |-> ordering.doc, reached |-> ordering.reached,
                        committed |-> ordering.committed, change |-> ordering.change, commits |-> ordering.commits]
BY DEF ArmIInv, TrialTypes

LEMMA ArmAskKeeps ==
  ASSUME ArmIInv, Trial!Ask
  PROVE  ArmIInv'
<1>1. /\ at = "next" /\ pos <= Len(case) /\ attempt = Trial!NoAttempt
      /\ UNCHANGED <<Trial!trial, Trial!policy, pos, Trial!faults, Trial!evidence>> /\ happened' = <<>> /\ lapsed' = FALSE
  BY DEF Trial!Ask, ArmIInv, Attempted, Busy, Unsettled, Settling
<1>2. \/ ordering' = Trial!NoOrdering
      \/ \E b, d : ordering' = [Trial!NoOrdering EXCEPT !.barrier = b, !.doc = d, !.change = "waiting"]
  BY DEF Trial!Ask
<1>3. /\ ordering'.commits = <<>> /\ ordering'.reached = FALSE /\ ordering'.committed = FALSE
      /\ ordering'.change \in {"none", "waiting"}
      /\ ordering'.barrier # "none" => ordering'.change = "waiting"
      /\ ordering' = [barrier |-> ordering'.barrier, doc |-> ordering'.doc, reached |-> ordering'.reached,
                      committed |-> ordering'.committed, change |-> ordering'.change, commits |-> ordering'.commits]
  <2>1. ASSUME NEW b, NEW d, NEW w,
               ordering' = [barrier |-> b, doc |-> d, reached |-> FALSE, committed |-> FALSE,
                            change |-> w, commits |-> <<>>]
        PROVE  /\ ordering'.commits = <<>> /\ ordering'.reached = FALSE /\ ordering'.committed = FALSE
               /\ ordering'.change = w /\ ordering'.barrier = b
               /\ ordering' = [barrier |-> ordering'.barrier, doc |-> ordering'.doc,
                               reached |-> ordering'.reached, committed |-> ordering'.committed,
                               change |-> ordering'.change, commits |-> ordering'.commits]
    BY <2>1
  <2>2. \E b, d, w : /\ ordering' = [barrier |-> b, doc |-> d, reached |-> FALSE, committed |-> FALSE,
                                     change |-> w, commits |-> <<>>]
                     /\ w = "waiting" \/ (w = "none" /\ b = "none")
    BY <1>2 DEF Trial!NoOrdering
  <2>3. QED
    BY <2>1, <2>2
<1> DEFINE turn == [state |-> "pending", ask |-> pos, refs |-> {}]
<1>4. \/ /\ turns' = Append(turns, turn) /\ attempt' = [Trial!NoAttempt EXCEPT !.number = 1] /\ at' = "prepare"
      \/ at' = "joining" /\ UNCHANGED <<turns, attempt>>
  BY DEF Trial!Ask
<1>5. turn \in Turns /\ turn.state = "pending"
  BY TrialBounds DEF Turns
<1> HIDE DEF turn
<1>6. /\ attempt' \in [number : 0 .. 2, refs : SUBSET Trial!Rows, revision : Nat, answered : BOOLEAN,
                       live : BOOLEAN, release : Releases]
      /\ ~attempt'.release.forbidden /\ attempt'.refs = {}
      /\ at' = "prepare" => attempt'.number = 1
      /\ at' # "prepare" => attempt' = Trial!NoAttempt
  <2>1. Trial!NoAttempt.release.forbidden = FALSE /\ Trial!NoAttempt.refs = {}
    BY DEF Trial!NoAttempt, Trial!NoRelease
  <2>2. CASE at' # "prepare"
    BY <1>1, <1>4, <2>1, <2>2, AnAttempt
  <2>3. CASE at' = "prepare"
    <3>1. attempt' = [number |-> 1, refs |-> {}, revision |-> 0, answered |-> FALSE, live |-> TRUE,
                      release |-> Trial!NoRelease]
      BY <1>4, <2>3 DEF Trial!NoAttempt
    <3>2. Trial!NoRelease \in Releases /\ ~Trial!NoRelease.forbidden
      BY DEF Trial!NoRelease, Releases
    <3>3. QED
      BY <2>3, <3>1, <3>2
  <2>4. QED
    BY <2>2, <2>3
<1>7. /\ turns' \in Seq(Turns) /\ Len(turns) \in Nat
      /\ \/ turns' = turns /\ at' # "prepare"
         \/ /\ Len(turns') = Len(turns) + 1 /\ turns'[Len(turns')].state = "pending"
            /\ \A i \in 1 .. Len(turns) : turns'[i] = turns[i]
  <2>1. turns \in Seq(Turns)
    BY TrialBounds
  <2>2. CASE turns' = Append(turns, turn)
    BY <1>5, <2>1, <2>2
  <2>3. CASE turns' # Append(turns, turn)
    BY <1>4, <2>1, <2>3
  <2>4. QED
    BY <2>2, <2>3
<1>8. /\ UNCHANGED <<template, granted, active, session, revision, fault, outage, seen, witnesses, attempts>>
      /\ Trial!Arm' = Trial!Arm /\ case' = case /\ order' = order /\ records' = records /\ pos' = pos
  BY <1>1, SameArm DEF Trial!trial, Trial!policy, Trial!faults, Trial!evidence
<1>9. TrialTypes'
  <2>1. at' \in {"prepare", "joining"} /\ \A i \in DOMAIN turns' : turns'[i].refs \subseteq Trial!Rows
    <3>1. at' \in {"prepare", "joining"}
      BY <1>4
    <3>2. \A i \in DOMAIN turns' : turns'[i] \in Turns
      BY <1>7
    <3>3. QED
      BY <3>1, <3>2 DEF Turns
  <2>2. attempt'.number \in 0 .. 2
    BY <1>6
  <2>3. Trial!TypeOK'
    BY <1>1, <1>6, <1>8, <2>1, <2>2 DEF ArmIInv, TrialTypes, Trial!TypeOK
  <2>4. ordering'.commits \in Seq({"ask", "change"})
    BY <1>3
  <2>5. at # "ended" /\ Len(records') <= 1
    BY <1>1, <1>8 DEF ArmIInv, TrialTypes
  <2>6. QED
    BY <1>3, <1>6, <1>7, <1>8, <2>3, <2>4, <2>5 DEF ArmIInv, TrialTypes
<1>10. Attempted'
  BY <1>1, <1>4, <1>6, <1>8 DEF Attempted, Busy, Unsettled, Settling
<1>11. Released'
  BY <1>1, <1>6, <1>8 DEF ArmIInv, Released
<1>12. Ordered'
  <2>1. at' \in {"prepare", "joining"} /\ happened' = <<>>
    BY <1>1, <1>4
  <2>2. ordering'.change = "waiting" => Moment(FALSE, "waiting", <<>>, <<>>)'
    BY <1>3, <2>1 DEF Moment
  <2>3. QED
    BY <1>3, <2>1, <2>2 DEF Ordered, ChangedFirst, AnsweredFirst, Unsettled
<1>13. Whole'
  <2>1. at' \in Unsettled => turns' # <<>>
    BY <1>4, <1>7 DEF Unsettled
  <2>2. ASSUME NEW i \in DOMAIN turns'
        PROVE  turns'[i].state = "pending" \/ Witnessed(turns[i])'
    <3>1. CASE i \in DOMAIN turns
      <4>1. turns'[i] = turns[i]
        BY <1>7, <3>1, TrialBounds
      <4>2. turns[i].state = "pending" \/ Witnessed(turns[i])
        BY <1>1, <3>1 DEF ArmIInv, Whole, Settling
      <4>3. QED
        BY <1>8, <4>1, <4>2 DEF Witnessed
    <3>2. CASE i \notin DOMAIN turns
      BY <1>7, <2>2, <3>2, TrialBounds
    <3>3. QED
      BY <3>1, <3>2
  <2>3. QED
    BY <2>1, <2>2 DEF Whole
<1>14. Accounted'
  BY <1>1, <1>4, <1>8, TrialBounds DEF ArmIInv, Accounted, Trial!AttemptsAccounted, Busy, Unsettled, Settling
<1>15. QED
  BY <1>9, <1>10, <1>11, <1>12, <1>13, <1>14 DEF ArmIInv

LEMMA ArmPrepareKeeps ==
  ASSUME ArmIInv, Trial!Prepare
  PROVE  ArmIInv'
<1> USE TrialBounds, SameArm DEF Unsettled, Settling, Busy
<1>a. PICK refs : /\ attempt' = [attempt EXCEPT !.refs = refs, !.revision = revision]
                  /\ witnesses' = [i \in DOMAIN witnesses \union {pos} |->
                                     IF i \in DOMAIN witnesses THEN witnesses[i] ELSE refs]
                  /\ \/ Trial!Observe("model_context", refs) /\ at' = "model"
                     \/ seen' = seen /\ at' = "generated"
                  /\ refs \subseteq Trial!Rows /\ (Trial!Arm = "guarded" => refs \subseteq Trial!Readable)
  <2>1. PICK retrieved \in SUBSET Trial!Readable, quoted \in SUBSET Trial!History :
          LET fresh == IF outage THEN {} ELSE Trial!Candidates(retrieved)
              refs == IF fresh = {} THEN {} ELSE (UNION fresh) \union (UNION quoted)
          IN  /\ attempt' = [attempt EXCEPT !.refs = refs, !.revision = revision]
              /\ witnesses' = [i \in DOMAIN witnesses \union {pos} |->
                                 IF i \in DOMAIN witnesses THEN witnesses[i] ELSE refs]
              /\ IF refs # {} /\ ~lapsed
                 THEN Trial!Observe("model_context", refs) /\ at' = "model"
                 ELSE UNCHANGED seen /\ at' = "generated"
    BY DEF Trial!Prepare
  <2> DEFINE fresh == IF outage THEN {} ELSE Trial!Candidates(retrieved)
             refs == IF fresh = {} THEN {} ELSE (UNION fresh) \union (UNION quoted)
  <2>2. UNION fresh \subseteq Trial!Readable
    BY DEF Trial!Candidates
  <2>3. UNION quoted \subseteq Trial!Rows /\ (Trial!Arm = "guarded" => UNION quoted \subseteq Trial!Readable)
    <3>1. \A i \in Trial!Answered : i \in DOMAIN turns /\ turns[i].refs \subseteq Trial!Rows
      BY DEF Trial!Answered, Turns
    <3>2. \A h \in Trial!History : h \subseteq Trial!Rows /\ (Trial!Arm = "guarded" => h \subseteq Trial!Readable)
      BY <3>1 DEF Trial!History
    <3>3. QED
      BY <3>2
  <2>4. /\ attempt' = [attempt EXCEPT !.refs = refs, !.revision = revision]
        /\ witnesses' = [i \in DOMAIN witnesses \union {pos} |->
                           IF i \in DOMAIN witnesses THEN witnesses[i] ELSE refs]
        /\ \/ Trial!Observe("model_context", refs) /\ at' = "model"
           \/ seen' = seen /\ at' = "generated"
    BY <2>1
  <2> HIDE DEF fresh
  <2>5. refs \subseteq Trial!Rows /\ (Trial!Arm = "guarded" => refs \subseteq Trial!Readable)
    <3>1. Trial!Readable \subseteq Trial!Rows
      BY TrialBounds
    <3>2. UNION fresh \subseteq Trial!Rows
      BY <2>2, <3>1
    <3>3. QED
      BY <2>2, <2>3, <3>2
  <2> HIDE DEF refs
  <2>6. QED
    BY <2>4, <2>5
<1>b. /\ at = "prepare" /\ fault' = None /\ outage' = FALSE /\ Trial!Arm' = Trial!Arm
      /\ UNCHANGED <<case, template, order, records, granted, active, session, revision, turns, pos, lapsed,
                     ordering, happened, attempts>>
  BY DEF Trial!Prepare, Trial!trial, Trial!policy
<1>c. /\ attempt' = [number |-> attempt.number, refs |-> refs, revision |-> revision,
                     answered |-> attempt.answered, live |-> attempt.live, release |-> attempt.release]
      /\ attempt'.number = attempt.number /\ attempt'.release = attempt.release
      /\ attempt' \in [number : 0 .. 2, refs : SUBSET Trial!Rows, revision : Nat, answered : BOOLEAN,
                       live : BOOLEAN, release : Releases]
  <2>1. revision \in Nat
    BY DEF ArmIInv, TrialTypes, Trial!TypeOK
  <2>2. QED
    BY <1>a, <2>1, Parts
<1>d. \/ seen' = seen
      \/ \E o \in Observations : /\ seen' = seen \union {o} /\ o.valid /\ o.surface = "model_context"
                                 /\ Trial!Arm = "guarded" => ~o.forbidden
  <2> DEFINE o == [action |-> pos, surface |-> "model_context", refs |-> refs,
                   forbidden |-> refs \ Trial!Readable # {}, valid |-> refs \subseteq Trial!Rows]
  <2>1. o \in Observations
    BY <1>a DEF Observations
  <2>2. o.valid /\ o.surface = "model_context" /\ (Trial!Arm = "guarded" => ~o.forbidden)
    BY <1>a
  <2>3. seen' = seen \/ seen' = seen \union {o}
    BY <1>a DEF Trial!Observe, Trial!Note
  <2>4. QED
    BY <2>1, <2>2, <2>3
<1>1. TrialTypes'
  <2>1. \A i \in DOMAIN witnesses' : witnesses'[i] \subseteq Trial!Rows
    BY <1>a DEF ArmIInv, TrialTypes
  <2>2. seen' \subseteq Observations
    BY <1>d DEF ArmIInv, TrialTypes
  <2>3. at' \in {"model", "generated"} /\ attempt'.refs \subseteq Trial!Rows /\ attempt'.number \in 0 .. 2
    BY <1>a, <1>c
  <2>4. Trial!TypeOK'
    BY <1>b, <2>3 DEF ArmIInv, TrialTypes, Trial!TypeOK
  <2>5. QED
    BY <1>b, <1>c, <2>1, <2>2, <2>3, <2>4 DEF ArmIInv, TrialTypes
<1>2. Attempted'
  BY <1>a, <1>b, <1>c DEF ArmIInv, Attempted
<1>3. Released'
  BY <1>b, <1>c, <1>d DEF ArmIInv, Released
<1>4. Ordered'
  BY <1>a, <1>b DEF ArmIInv, Ordered, ChangedFirst, AnsweredFirst, Moment
<1>5. Whole'
  BY <1>a, <1>b, <1>d DEF ArmIInv, Whole, Witnessed
<1>6. Accounted'
  BY <1>a, <1>b, <1>c DEF ArmIInv, Accounted, Trial!AttemptsAccounted
<1>7. QED
  BY <1>1, <1>2, <1>3, <1>4, <1>5, <1>6 DEF ArmIInv

LEMMA ArmGenerateKeeps ==
  ASSUME ArmIInv, Trial!Generate
  PROVE  ArmIInv'
<1> USE TrialBounds, SameArm DEF Unsettled, Settling, Busy
<1>1. TrialTypes'
  BY DEF Trial!Generate, Trial!trial, Trial!policy, Trial!asked, Trial!faults, Trial!evidence, ArmIInv, TrialTypes, Trial!TypeOK, Attempted
<1>2. Attempted'
  BY DEF Trial!Generate, Trial!trial, Trial!policy, Trial!asked, Trial!faults, Trial!evidence, ArmIInv, TrialTypes, Trial!TypeOK, Attempted
<1>3. Released'
  BY DEF Trial!Generate, Trial!trial, Trial!policy, Trial!asked, Trial!faults, Trial!evidence, ArmIInv, TrialTypes, Released
<1>4. Ordered'
  BY DEF Trial!Generate, Trial!trial, Trial!policy, Trial!asked, Trial!faults, Trial!evidence, ArmIInv, TrialTypes, Ordered, ChangedFirst, AnsweredFirst, Moment
<1>5. Whole'
  BY DEF Trial!Generate, Trial!trial, Trial!policy, Trial!asked, Trial!faults, Trial!evidence, ArmIInv, TrialTypes, Whole, Witnessed
<1>6. Accounted'
  BY DEF Trial!Generate, Trial!trial, Trial!policy, Trial!asked, Trial!faults, Trial!evidence, ArmIInv, TrialTypes, Accounted, Trial!AttemptsAccounted
<1>7. QED
  BY <1>1, <1>2, <1>3, <1>4, <1>5, <1>6 DEF ArmIInv

LEMMA ArmModelFailsKeeps ==
  ASSUME ArmIInv, Trial!ModelFails
  PROVE  ArmIInv'
BY EndKeeps DEF Trial!ModelFails, Busy, Unsettled

LEMMA ArmOpenKeeps ==
  ASSUME ArmIInv, Trial!OpenRelease
  PROVE  ArmIInv'
<1> USE TrialBounds, SameArm DEF Unsettled, Settling, Busy
<1>1. TrialTypes'
  BY DEF Trial!OpenRelease, Trial!trial, Trial!policy, Trial!asked, Trial!faults, Trial!evidence, ArmIInv, TrialTypes, Trial!TypeOK, Attempted
<1>2. Attempted'
  BY DEF Trial!OpenRelease, Trial!trial, Trial!policy, Trial!asked, Trial!faults, Trial!evidence, ArmIInv, TrialTypes, Trial!TypeOK, Attempted
<1>3. Released'
  BY DEF Trial!OpenRelease, Trial!trial, Trial!policy, Trial!asked, Trial!faults, Trial!evidence, ArmIInv, TrialTypes, Released
<1>4. Ordered'
  BY DEF Trial!OpenRelease, Trial!trial, Trial!policy, Trial!asked, Trial!faults, Trial!evidence, ArmIInv, TrialTypes, Ordered, ChangedFirst, AnsweredFirst, Moment
<1>5. Whole'
  BY DEF Trial!OpenRelease, Trial!trial, Trial!policy, Trial!asked, Trial!faults, Trial!evidence, ArmIInv, TrialTypes, Whole, Witnessed
<1>6. Accounted'
  BY DEF Trial!OpenRelease, Trial!trial, Trial!policy, Trial!asked, Trial!faults, Trial!evidence, ArmIInv, TrialTypes, Accounted, Trial!AttemptsAccounted
<1>7. QED
  BY <1>1, <1>2, <1>3, <1>4, <1>5, <1>6 DEF ArmIInv

LEMMA ArmRetryKeeps ==
  ASSUME ArmIInv, Trial!Retry
  PROVE  ArmIInv'
<1> USE TrialBounds, SameArm DEF Unsettled, Settling, Busy
<1>a. /\ at = "gate" /\ at' = "prepare" /\ attempt.number = 1 /\ Trial!Arm = "guarded" /\ Trial!Arm' = Trial!Arm
      /\ attempt' = [Trial!NoAttempt EXCEPT !.number = attempt.number + 1] /\ Trial!Account("stale_discarded")
      /\ UNCHANGED <<case, template, order, records, granted, active, session, revision, turns, pos, lapsed,
                     fault, outage, ordering, happened, seen, witnesses>>
  BY DEF Trial!Retry, Trial!Discarded, Trial!Stale, Trial!trial, Trial!policy, Trial!faults
<1>b. /\ attempt' \in [number : 0 .. 2, refs : SUBSET Trial!Rows, revision : Nat, answered : BOOLEAN,
                       live : BOOLEAN, release : Releases]
      /\ attempt'.number = 2 /\ ~attempt'.release.forbidden /\ attempt'.refs = {}
  <2>1. attempt' = [number |-> 2, refs |-> {}, revision |-> 0, answered |-> FALSE, live |-> TRUE,
                    release |-> Trial!NoRelease]
    <3>1. attempt.number + 1 = 2
      BY <1>a
    <3>2. attempt' = [Trial!NoAttempt EXCEPT !.number = 2]
      BY <1>a, <3>1
    <3>3. QED
      BY <3>2 DEF Trial!NoAttempt
  <2>2. Trial!NoRelease \in Releases /\ ~Trial!NoRelease.forbidden
    BY DEF Trial!NoRelease, Releases
  <2>3. QED
    BY <2>1, <2>2
<1>c. /\ attempts' \in Seq(Accounts) /\ DOMAIN attempts' = 1 .. Len(attempts) + 1 /\ Len(attempts) \in Nat
      /\ DOMAIN attempts = 1 .. Len(attempts) /\ \A i \in DOMAIN attempts : attempts'[i] = attempts[i]
      /\ attempts'[Len(attempts) + 1] = [action |-> pos, number |-> 1, status |-> "stale_discarded"]
      /\ \A i \in DOMAIN attempts' : attempts'[i].number \in 1 .. 2 /\ attempts'[i].action <= pos
      /\ \A i, j \in DOMAIN attempts' : (i < j /\ attempts'[i].action = attempts'[j].action) =>
           attempts'[i].status = "stale_discarded" /\ attempts'[j].number = attempts'[i].number + 1
  <2>1. /\ attempts' \in Seq(Accounts) /\ DOMAIN attempts' = 1 .. Len(attempts) + 1
        /\ \A i \in 1 .. Len(attempts) : attempts'[i] = attempts[i]
        /\ attempts'[Len(attempts) + 1] = [action |-> pos, number |-> attempt.number, status |-> "stale_discarded"]
        /\ \A i \in DOMAIN attempts' : attempts'[i].number \in 1 .. 2 /\ attempts'[i].action <= pos
        /\ \A i, j \in DOMAIN attempts' : (i < j /\ attempts'[i].action = attempts'[j].action) =>
             attempts'[i].status = "stale_discarded" /\ attempts'[j].number = attempts'[i].number + 1
    BY <1>a, AccountKeeps
  <2>2. Len(attempts) \in Nat /\ DOMAIN attempts = 1 .. Len(attempts)
    OBVIOUS
  <2>3. QED
    BY <1>a, <2>1, <2>2
<1>1. TrialTypes'
  <2>1. Trial!TypeOK'
    BY <1>a, <1>b DEF ArmIInv, TrialTypes, Trial!TypeOK
  <2>2. QED
    BY <1>a, <1>b, <1>c, <2>1 DEF ArmIInv, TrialTypes
<1>2. Attempted'
  BY <1>a, <1>b DEF ArmIInv, Attempted
<1>3. Released'
  BY <1>a, <1>b DEF ArmIInv, Released
<1>4. Ordered'
  BY <1>a DEF ArmIInv, Ordered, ChangedFirst, AnsweredFirst, Moment
<1>5. Whole'
  <2>1. \A i \in DOMAIN turns : turns[i].state = "pending" \/ Witnessed(turns[i])
    BY <1>a DEF ArmIInv, Whole
  <2>2. \A i \in DOMAIN turns : Witnessed(turns[i]) => Witnessed(turns[i])'
    BY <1>a, <1>c DEF Witnessed
  <2>3. turns # <<>>
    BY <1>a DEF ArmIInv, Whole
  <2>4. QED
    BY <1>a, <2>1, <2>2, <2>3 DEF Whole
<1>6. Accounted'
  <2>1. \A i \in DOMAIN attempts : attempts[i].action # pos
    BY <1>a DEF ArmIInv, Accounted
  <2>2. \A i \in DOMAIN attempts' : attempts'[i].action = pos =>
          attempts'[i].number = 1 /\ attempts'[i].status = "stale_discarded"
    BY <1>c, <2>1
  <2>3. QED
    BY <1>a, <1>b, <1>c, <2>2 DEF Accounted, Trial!AttemptsAccounted
<1>7. QED
  BY <1>1, <1>2, <1>3, <1>4, <1>5, <1>6 DEF ArmIInv

LEMMA ArmCompleteKeeps ==
  ASSUME ArmIInv, Trial!Complete
  PROVE  ArmIInv'
<1> USE TrialBounds, SameArm DEF Unsettled, Settling, Busy
<1>a. /\ at = "gate" /\ at' = "stored" /\ happened' = Append(happened, "ask") /\ Trial!Arm' = Trial!Arm
      /\ UNCHANGED <<case, template, order, records, granted, active, session, revision, pos, lapsed,
                     fault, outage, ordering, seen, witnesses, attempts>>
  BY DEF Trial!Complete, Trial!trial, Trial!policy, Trial!faults, Trial!evidence
<1>b. PICK refs, state :
        /\ turns' = [turns EXCEPT ![Len(turns)] = [state |-> state, ask |-> pos, refs |-> refs]]
        /\ attempt' = [attempt EXCEPT !.release = [refs |-> refs, forbidden |-> refs \ Trial!Readable # {}]]
        /\ state \in {"available", "no_context", "interrupted"}
        /\ refs \subseteq Trial!Rows /\ (Trial!Arm = "guarded" => refs \subseteq Trial!Readable)
  <2> DEFINE live == attempt.live /\ ~lapsed
             refs == IF Trial!Allowed /\ live THEN attempt.refs ELSE {}
             state == IF refs # {} THEN "available" ELSE IF live THEN "no_context" ELSE "interrupted"
  <2>1. /\ turns' = [turns EXCEPT ![Len(turns)] = [state |-> state, ask |-> pos, refs |-> refs]]
        /\ attempt' = [attempt EXCEPT !.release = [refs |-> refs, forbidden |-> refs \ Trial!Readable # {}]]
    BY DEF Trial!Complete
  <2>2. refs = {} \/ (refs = attempt.refs /\ Trial!Allowed)
    OBVIOUS
  <2>3. state \in {"available", "no_context", "interrupted"}
    OBVIOUS
  <2> HIDE DEF refs, state, live
  <2>4. refs \subseteq Trial!Rows /\ (Trial!Arm = "guarded" => refs \subseteq Trial!Readable)
    BY <2>2 DEF Trial!Allowed
  <2>5. QED
    BY <2>1, <2>3, <2>4
<1> DEFINE release == [refs |-> refs, forbidden |-> refs \ Trial!Readable # {}]
           turn == [state |-> state, ask |-> pos, refs |-> refs]
<1>c. turn \in Turns /\ turn.refs = refs /\ turn.ask = pos
  BY <1>b DEF Turns
<1>d. release \in Releases /\ release.refs = refs /\ (Trial!Arm = "guarded" => ~release.forbidden)
  BY <1>b DEF Releases
<1>e. attempt' = [attempt EXCEPT !.release = release] /\ turns' = [turns EXCEPT ![Len(turns)] = turn]
  BY <1>b
<1> HIDE DEF release, turn
<1>f. /\ attempt' \in [number : 0 .. 2, refs : SUBSET Trial!Rows, revision : Nat, answered : BOOLEAN,
                       live : BOOLEAN, release : Releases]
      /\ attempt'.release = release /\ attempt'.number = attempt.number /\ attempt'.refs = attempt.refs
  BY <1>d, <1>e, Parts
<1>g. turns # <<>>
  BY <1>a DEF ArmIInv, Whole
<1>h. /\ turns' \in Seq(Turns) /\ DOMAIN turns' = DOMAIN turns /\ Len(turns') = Len(turns) /\ turns' # <<>>
      /\ turns'[Len(turns)] = turn /\ \A i \in DOMAIN turns : i # Len(turns) => turns'[i] = turns[i]
  <2>1. turns \in Seq(Turns) /\ Len(turns) \in DOMAIN turns
    BY <1>g
  <2>2. QED
    BY <1>c, <1>e, <2>1
<1>1. TrialTypes'
  <2>1. \A i \in DOMAIN turns' : turns'[i].refs \subseteq Trial!Rows
    <3>1. \A i \in DOMAIN turns' : turns'[i] \in Turns
      BY <1>h
    <3>2. QED
      BY <3>1 DEF Turns
  <2>2. Trial!TypeOK'
    BY <1>a, <1>f, <2>1, Parts DEF ArmIInv, TrialTypes, Trial!TypeOK
  <2>3. QED
    BY <1>a, <1>f, <1>h, <2>2 DEF ArmIInv, TrialTypes
<1>2. Attempted'
  BY <1>a, <1>f DEF ArmIInv, Attempted
<1>3. Released'
  BY <1>a, <1>d, <1>f DEF ArmIInv, Released
<1>4. Ordered'
  <2>1. CASE ordering.barrier = "model_generated"
    <3>1. Moment(TRUE, "done", <<"change">>, <<"change">>)
      BY <1>a, <2>1 DEF ArmIInv, Ordered, ChangedFirst
    <3>2. Moment(TRUE, "done", <<"change", "ask">>, <<"change">>)'
      BY <1>a, <3>1, Events DEF Moment
    <3>3. QED
      BY <1>a, <2>1, <3>2 DEF Ordered, ChangedFirst
  <2>2. CASE ordering.barrier = "release_committed"
    <3>1. Moment(FALSE, "waiting", <<>>, <<>>)
      BY <1>a, <2>2 DEF ArmIInv, Ordered, AnsweredFirst
    <3>2. Moment(FALSE, "waiting", <<"ask">>, <<>>)'
      BY <1>a, <3>1, Events DEF Moment
    <3>3. QED
      BY <1>a, <2>2, <3>2 DEF Ordered, AnsweredFirst
  <2>3. CASE ordering.barrier \notin {"model_generated", "release_committed"}
    BY <1>a, <2>3 DEF ArmIInv, Ordered
  <2>4. QED
    BY <2>1, <2>2, <2>3
<1>5. Whole'
  <2>1. ASSUME NEW i \in DOMAIN turns', i # Len(turns)
        PROVE  turns'[i].state = "pending" \/ Witnessed(turns[i])'
    <3>1. turns'[i] = turns[i] /\ (turns[i].state = "pending" \/ Witnessed(turns[i]))
      BY <1>a, <1>h, <2>1 DEF ArmIInv, Whole
    <3>2. QED
      BY <1>a, <3>1 DEF Witnessed
  <2>2. turns'[Len(turns')].ask = pos' /\ turns'[Len(turns')].refs = attempt'.release.refs
    BY <1>a, <1>c, <1>d, <1>f, <1>h
  <2>3. QED
    BY <1>a, <1>h, <2>1, <2>2 DEF Whole
<1>6. Accounted'
  BY <1>a, <1>f DEF ArmIInv, Accounted, Trial!AttemptsAccounted
<1>7. QED
  BY <1>1, <1>2, <1>3, <1>4, <1>5, <1>6 DEF ArmIInv

LEMMA ArmRecordKeeps ==
  ASSUME ArmIInv, Trial!RecordRelease
  PROVE  ArmIInv'
<1> USE TrialBounds, SameArm DEF Unsettled, Settling, Busy
<1>a. /\ at = "stored" /\ at' = "recorded" /\ Trial!Arm' = Trial!Arm
      /\ UNCHANGED <<case, template, order, records, granted, active, session, revision, turns, pos, attempt,
                     lapsed, fault, outage, happened, seen, witnesses, attempts>>
  BY DEF Trial!RecordRelease, Trial!trial, Trial!policy, Trial!asked, Trial!faults, Trial!evidence
<1>b. /\ ordering'.barrier = ordering.barrier /\ ordering'.reached = ordering.reached
      /\ ordering'.committed = ordering.committed /\ ordering'.change = ordering.change
      /\ ordering'.commits \in Seq({"ask", "change"})
      /\ ordering.barrier # "none" => ordering'.commits = Append(ordering.commits, "ask")
      /\ ordering' = [barrier |-> ordering'.barrier, doc |-> ordering'.doc, reached |-> ordering'.reached,
                      committed |-> ordering'.committed, change |-> ordering'.change, commits |-> ordering'.commits]
  <2>1. CASE ordering.barrier = "none"
    <3>1. ordering' = ordering
      BY <2>1 DEF Trial!RecordRelease
    <3>2. QED
      BY <2>1, <3>1, Parts
  <2>2. CASE ordering.barrier # "none"
    <3>1. ordering' = [barrier |-> ordering.barrier, doc |-> ordering.doc, reached |-> ordering.reached,
                       committed |-> ordering.committed, change |-> ordering.change,
                       commits |-> Append(ordering.commits, "ask")]
      BY <2>2, Parts DEF Trial!RecordRelease, Trial!Recorded
    <3>2. Append(ordering.commits, "ask") \in Seq({"ask", "change"})
      BY Parts
    <3>3. QED
      BY <3>1, <3>2
  <2>3. QED
    BY <2>1, <2>2
<1>1. TrialTypes'
  <2>1. Trial!TypeOK'
    BY <1>a DEF ArmIInv, TrialTypes, Trial!TypeOK
  <2>2. QED
    BY <1>a, <1>b, <2>1 DEF ArmIInv, TrialTypes
<1>2. Attempted'
  BY <1>a DEF ArmIInv, Attempted
<1>3. Released'
  BY <1>a DEF ArmIInv, Released
<1>4. Ordered'
  <2>1. CASE ordering.barrier = "model_generated"
    <3>1. Moment(TRUE, "done", <<"change", "ask">>, <<"change">>)
      BY <1>a, <2>1 DEF ArmIInv, Ordered, ChangedFirst
    <3>2. Moment(TRUE, "done", <<"change", "ask">>, <<"change", "ask">>)'
      BY <1>a, <1>b, <2>1, <3>1, Events DEF Moment
    <3>3. QED
      BY <1>a, <1>b, <2>1, <3>2 DEF Ordered, ChangedFirst
  <2>2. CASE ordering.barrier = "release_committed"
    <3>1. Moment(FALSE, "waiting", <<"ask">>, <<>>)
      BY <1>a, <2>2 DEF ArmIInv, Ordered, AnsweredFirst
    <3>2. Moment(FALSE, "waiting", <<"ask">>, <<"ask">>)'
      BY <1>a, <1>b, <2>2, <3>1, Events DEF Moment
    <3>3. QED
      BY <1>a, <1>b, <2>2, <3>2 DEF Ordered, AnsweredFirst
  <2>3. CASE ordering.barrier \notin {"model_generated", "release_committed"}
    BY <1>a, <1>b, <2>3 DEF ArmIInv, Ordered
  <2>4. QED
    BY <2>1, <2>2, <2>3
<1>5. Whole'
  BY <1>a DEF ArmIInv, Whole, Witnessed
<1>6. Accounted'
  BY <1>a DEF ArmIInv, Accounted, Trial!AttemptsAccounted
<1>7. QED
  BY <1>1, <1>2, <1>3, <1>4, <1>5, <1>6 DEF ArmIInv

LEMMA ArmRespondKeeps ==
  ASSUME ArmIInv, Trial!Respond
  PROVE  ArmIInv'
<1> USE TrialBounds, SameArm DEF Unsettled, Settling, Busy
<1>a. /\ at = "observing" /\ at' = "joining" /\ Trial!Arm' = Trial!Arm /\ attempt' = Trial!NoAttempt /\ lapsed' = FALSE
      /\ Trial!Account("completed")
      /\ UNCHANGED <<case, template, order, records, granted, active, session, revision, turns, pos,
                     fault, outage, ordering, happened, witnesses>>
  BY DEF Trial!Respond, Trial!trial, Trial!policy, Trial!faults
<1>b. PICK o \in Observations :
        /\ seen' = seen \union {o} /\ o.valid /\ o.surface = "release" /\ o.action = pos
        /\ o.refs = attempt.release.refs /\ o.forbidden = attempt.release.forbidden
  <2> DEFINE o == [action |-> pos, surface |-> "release", refs |-> attempt.release.refs,
                   forbidden |-> attempt.release.forbidden, valid |-> attempt.release.refs \subseteq Trial!Rows]
  <2>1. attempt.release.refs \subseteq Trial!Rows /\ attempt.release.forbidden \in BOOLEAN
    BY Parts DEF Releases
  <2>2. o \in Observations
    BY <2>1 DEF Observations
  <2>3. o.valid
    BY <2>1
  <2>4. o.surface = "release" /\ o.action = pos /\ o.refs = attempt.release.refs
        /\ o.forbidden = attempt.release.forbidden
    OBVIOUS
  <2>5. seen' = seen \union {o}
    BY DEF Trial!Respond, Trial!Note
  <2>6. QED
    BY <2>2, <2>3, <2>4, <2>5
<1>c. /\ attempts' \in Seq(Accounts) /\ DOMAIN attempts' = 1 .. Len(attempts) + 1 /\ Len(attempts) \in Nat
      /\ DOMAIN attempts = 1 .. Len(attempts) /\ \A i \in DOMAIN attempts : attempts'[i] = attempts[i]
      /\ attempts'[Len(attempts) + 1].action = pos /\ attempts'[Len(attempts) + 1].status = "completed"
      /\ \A i \in DOMAIN attempts' : attempts'[i].number \in 1 .. 2 /\ attempts'[i].action <= pos
      /\ \A i, j \in DOMAIN attempts' : (i < j /\ attempts'[i].action = attempts'[j].action) =>
           attempts'[i].status = "stale_discarded" /\ attempts'[j].number = attempts'[i].number + 1
  <2>1. /\ attempts' \in Seq(Accounts) /\ DOMAIN attempts' = 1 .. Len(attempts) + 1
        /\ \A i \in 1 .. Len(attempts) : attempts'[i] = attempts[i]
        /\ attempts'[Len(attempts) + 1] = [action |-> pos, number |-> attempt.number, status |-> "completed"]
        /\ \A i \in DOMAIN attempts' : attempts'[i].number \in 1 .. 2 /\ attempts'[i].action <= pos
        /\ \A i, j \in DOMAIN attempts' : (i < j /\ attempts'[i].action = attempts'[j].action) =>
             attempts'[i].status = "stale_discarded" /\ attempts'[j].number = attempts'[i].number + 1
    BY <1>a, AccountKeeps
  <2>2. Len(attempts) \in Nat /\ DOMAIN attempts = 1 .. Len(attempts)
    OBVIOUS
  <2>3. QED
    BY <2>1, <2>2
<1>1. TrialTypes'
  <2>1. Trial!TypeOK'
    BY <1>a, AnAttempt DEF ArmIInv, TrialTypes, Trial!TypeOK
  <2>2. seen' \subseteq Observations
    BY <1>b DEF ArmIInv, TrialTypes
  <2>3. QED
    BY <1>a, <1>c, <2>1, <2>2, AnAttempt DEF ArmIInv, TrialTypes
<1>2. Attempted'
  BY <1>a DEF ArmIInv, Attempted
<1>3. Released'
  <2>1. ~Trial!NoAttempt.release.forbidden
    BY DEF Trial!NoAttempt, Trial!NoRelease
  <2>2. \A x \in seen' : x.valid
    BY <1>b DEF ArmIInv, Released
  <2>3. Trial!Arm = "guarded" => \A x \in seen' : ~x.forbidden
    BY <1>a, <1>b DEF ArmIInv, Released
  <2>4. QED
    BY <1>a, <2>1, <2>2, <2>3 DEF Released
<1>4. Ordered'
  BY <1>a DEF ArmIInv, Ordered, ChangedFirst, AnsweredFirst, Moment
<1>5. Whole'
  <2>1. \A i \in DOMAIN turns : Witnessed(turns[i]) => Witnessed(turns[i])'
    BY <1>a, <1>b, <1>c DEF Witnessed
  <2>2. ASSUME NEW i \in DOMAIN turns, turns[i].ask = pos, turns[i].refs = attempt.release.refs
        PROVE  Witnessed(turns[i])'
    BY <1>a, <1>b, <1>c, <2>2 DEF Witnessed
  <2>3. \A i \in DOMAIN turns : turns[i].state = "pending" \/ Witnessed(turns[i])'
    BY <1>a, <2>1, <2>2 DEF ArmIInv, Whole
  <2>4. QED
    BY <1>a, <2>3 DEF Whole
<1>6. Accounted'
  <2>1. \A i \in DOMAIN attempts : attempts[i].status = "stale_discarded" => Trial!Arm = "guarded"
    BY <1>a DEF ArmIInv, Accounted, Trial!AttemptsAccounted
  <2>2. \A i \in DOMAIN attempts' : attempts'[i].status = "stale_discarded" => Trial!Arm = "guarded"
    BY <1>c, <2>1
  <2>3. Trial!AttemptsAccounted'
    BY <1>a, <1>c, <2>2 DEF Trial!AttemptsAccounted
  <2>4. QED
    BY <1>a, <1>c, <2>3 DEF Accounted
<1>7. QED
  BY <1>1, <1>2, <1>3, <1>4, <1>5, <1>6 DEF ArmIInv

LEMMA ArmJoinKeeps ==
  ASSUME ArmIInv, Trial!Join
  PROVE  ArmIInv'
<1> USE TrialBounds, SameArm DEF Unsettled, Settling, Busy
<1>1. TrialTypes'
  BY DEF Trial!Join, Trial!trial, Trial!policy, Trial!asked, Trial!faults, Trial!evidence, ArmIInv, TrialTypes, Trial!TypeOK, Attempted
<1>2. Attempted'
  BY DEF Trial!Join, Trial!trial, Trial!policy, Trial!asked, Trial!faults, Trial!evidence, ArmIInv, TrialTypes, Trial!TypeOK, Attempted
<1>3. Released'
  BY DEF Trial!Join, Trial!trial, Trial!policy, Trial!asked, Trial!faults, Trial!evidence, ArmIInv, TrialTypes, Released
<1>4. Ordered'
  BY DEF Trial!Join, Trial!trial, Trial!policy, Trial!asked, Trial!faults, Trial!evidence, ArmIInv, TrialTypes, Ordered, ChangedFirst, AnsweredFirst, Moment
<1>5. Whole'
  BY DEF Trial!Join, Trial!trial, Trial!policy, Trial!asked, Trial!faults, Trial!evidence, ArmIInv, TrialTypes, Whole, Witnessed
<1>6. Accounted'
  BY DEF Trial!Join, Trial!trial, Trial!policy, Trial!asked, Trial!faults, Trial!evidence, ArmIInv, TrialTypes, Accounted, Trial!AttemptsAccounted
<1>7. QED
  BY <1>1, <1>2, <1>3, <1>4, <1>5, <1>6 DEF ArmIInv

LEMMA ArmReachKeeps ==
  ASSUME ArmIInv, Trial!Reach("model_generated", "generated") \/ Trial!Reach("release_committed", "recorded")
  PROVE  ArmIInv'
<1> USE TrialBounds, SameArm DEF Unsettled, Settling, Busy
<1>a. /\ \/ at = "generated" /\ ordering.barrier = "model_generated"
         \/ at = "recorded" /\ ordering.barrier = "release_committed"
      /\ ordering' = [ordering EXCEPT !.reached = TRUE] /\ ~ordering.reached /\ Trial!Arm' = Trial!Arm
      /\ UNCHANGED <<case, template, order, records, granted, active, session, revision, turns, pos, at, attempt,
                     lapsed, fault, outage, happened, seen, witnesses, attempts>>
  BY DEF Trial!Reach, Trial!trial, Trial!policy, Trial!asked, Trial!faults, Trial!evidence
<1>b. /\ ordering' = [barrier |-> ordering.barrier, doc |-> ordering.doc, reached |-> TRUE,
                      committed |-> ordering.committed, change |-> ordering.change, commits |-> ordering.commits]
      /\ ordering'.barrier = ordering.barrier /\ ordering'.reached = TRUE /\ ordering'.committed = ordering.committed
      /\ ordering'.change = ordering.change /\ ordering'.commits = ordering.commits
  BY <1>a, Parts
<1>1. TrialTypes'
  <2>1. Trial!TypeOK'
    BY <1>a DEF ArmIInv, TrialTypes, Trial!TypeOK
  <2>2. QED
    BY <1>a, <1>b, <2>1, Parts DEF ArmIInv, TrialTypes
<1>2. Attempted'
  BY <1>a DEF ArmIInv, Attempted
<1>3. Released'
  BY <1>a DEF ArmIInv, Released
<1>4. Ordered'
  <2>1. CASE ordering.barrier = "model_generated"
    <3>1. Moment(FALSE, "waiting", <<>>, <<>>)
      BY <1>a, <2>1 DEF ArmIInv, Ordered, ChangedFirst, Moment
    <3>2. Moment(TRUE, "waiting", <<>>, <<>>)'
      BY <1>a, <1>b, <3>1 DEF Moment
    <3>3. QED
      BY <1>a, <1>b, <2>1, <3>2 DEF Ordered, ChangedFirst
  <2>2. CASE ordering.barrier = "release_committed"
    <3>1. Moment(FALSE, "waiting", <<"ask">>, <<"ask">>)
      BY <1>a, <2>2 DEF ArmIInv, Ordered, AnsweredFirst, Moment
    <3>2. Moment(TRUE, "waiting", <<"ask">>, <<"ask">>)'
      BY <1>a, <1>b, <3>1 DEF Moment
    <3>3. QED
      BY <1>a, <1>b, <2>2, <3>2 DEF Ordered, AnsweredFirst
  <2>3. QED
    BY <1>a, <2>1, <2>2
<1>5. Whole'
  BY <1>a DEF ArmIInv, Whole, Witnessed
<1>6. Accounted'
  BY <1>a DEF ArmIInv, Accounted, Trial!AttemptsAccounted
<1>7. QED
  BY <1>1, <1>2, <1>3, <1>4, <1>5, <1>6 DEF ArmIInv

LEMMA ArmPassKeeps ==
  ASSUME ArmIInv, Trial!Pass("model_generated", "generated", "releasing") \/ Trial!Pass("release_committed", "recorded", "observing")
  PROVE  ArmIInv'
<1> USE TrialBounds, SameArm DEF Unsettled, Settling, Busy
<1>a. /\ \/ /\ at = "generated" /\ at' = "releasing"
            /\ ordering.barrier = "model_generated" => ordering.committed
         \/ /\ at = "recorded" /\ at' = "observing"
            /\ ordering.barrier = "release_committed" => ordering.committed
      /\ Trial!Arm' = Trial!Arm
      /\ UNCHANGED <<case, template, order, records, granted, active, session, revision, turns, pos, attempt,
                     lapsed, fault, outage, ordering, happened, seen, witnesses, attempts>>
  BY DEF Trial!Pass, Trial!trial, Trial!policy, Trial!asked, Trial!faults, Trial!evidence
<1>1. TrialTypes'
  <2>1. Trial!TypeOK'
    BY <1>a DEF ArmIInv, TrialTypes, Trial!TypeOK
  <2>2. QED
    BY <1>a, <2>1 DEF ArmIInv, TrialTypes
<1>2. Attempted'
  BY <1>a DEF ArmIInv, Attempted
<1>3. Released'
  BY <1>a DEF ArmIInv, Released
<1>4. Ordered'
  BY <1>a DEF ArmIInv, Ordered, ChangedFirst, AnsweredFirst, Moment
<1>5. Whole'
  <2>1. \A i \in DOMAIN turns : Witnessed(turns[i]) => Witnessed(turns[i])'
    BY <1>a DEF Witnessed
  <2>2. QED
    BY <1>a, <2>1 DEF ArmIInv, Whole
<1>6. Accounted'
  BY <1>a DEF ArmIInv, Accounted, Trial!AttemptsAccounted
<1>7. QED
  BY <1>1, <1>2, <1>3, <1>4, <1>5, <1>6 DEF ArmIInv

LEMMA ArmChangeKeeps ==
  ASSUME ArmIInv, Trial!ApplyChange
  PROVE  ArmIInv'
<1> USE TrialBounds, SameArm DEF Unsettled, Settling, Busy
<1>a. /\ ordering.change = "waiting" /\ ordering.reached /\ at \notin {"gate", "ended"}
      /\ ordering' = [ordering EXCEPT !.change = "applied"] /\ happened' = Append(happened, "change")
      /\ Trial!Arm' = Trial!Arm
      /\ UNCHANGED <<case, template, order, records, active, session, turns, pos, at, attempt, lapsed,
                     fault, outage, seen, witnesses, attempts>>
  BY DEF Trial!ApplyChange, Trial!Revoke, Trial!Held, Trial!trial, Trial!asked, Trial!faults, Trial!evidence
<1>b. /\ ordering' = [barrier |-> ordering.barrier, doc |-> ordering.doc, reached |-> ordering.reached,
                      committed |-> ordering.committed, change |-> "applied", commits |-> ordering.commits]
      /\ ordering'.barrier = ordering.barrier /\ ordering'.reached = ordering.reached
      /\ ordering'.committed = ordering.committed /\ ordering'.change = "applied"
      /\ ordering'.commits = ordering.commits
  BY <1>a, Parts
<1>c. granted' \subseteq template /\ revision' \in Nat
  BY DEF Trial!ApplyChange, Trial!Revoke, ArmIInv, TrialTypes, Trial!TypeOK
<1>1. TrialTypes'
  <2>1. Trial!TypeOK'
    BY <1>a, <1>c DEF ArmIInv, TrialTypes, Trial!TypeOK
  <2>2. QED
    BY <1>a, <1>b, <2>1, Parts DEF ArmIInv, TrialTypes
<1>2. Attempted'
  BY <1>a DEF ArmIInv, Attempted
<1>3. Released'
  BY <1>a DEF ArmIInv, Released
<1>4. Ordered'
  <2>1. CASE ordering.barrier = "model_generated"
    <3>1. at = "generated" /\ Moment(TRUE, "waiting", <<>>, <<>>)
      BY <1>a, <2>1 DEF ArmIInv, Ordered, ChangedFirst, Moment
    <3>2. Moment(TRUE, "applied", <<"change">>, <<>>)'
      BY <1>a, <1>b, <3>1, Events DEF Moment
    <3>3. QED
      BY <1>a, <1>b, <2>1, <3>1, <3>2 DEF Ordered, ChangedFirst
  <2>2. CASE ordering.barrier = "release_committed"
    <3>1. at = "recorded" /\ Moment(TRUE, "waiting", <<"ask">>, <<"ask">>)
      BY <1>a, <2>2 DEF ArmIInv, Ordered, AnsweredFirst, Moment
    <3>2. Moment(TRUE, "applied", <<"ask", "change">>, <<"ask">>)'
      BY <1>a, <1>b, <3>1, Events DEF Moment
    <3>3. QED
      BY <1>a, <1>b, <2>2, <3>1, <3>2 DEF Ordered, AnsweredFirst
  <2>3. ordering.barrier \in {"model_generated", "release_committed"}
    BY <1>a DEF ArmIInv, Ordered
  <2>4. QED
    BY <2>1, <2>2, <2>3
<1>5. Whole'
  BY <1>a DEF ArmIInv, Whole, Witnessed
<1>6. Accounted'
  BY <1>a DEF ArmIInv, Accounted, Trial!AttemptsAccounted
<1>7. QED
  BY <1>1, <1>2, <1>3, <1>4, <1>5, <1>6 DEF ArmIInv

LEMMA ArmTellKeeps ==
  ASSUME ArmIInv, Trial!TellChange
  PROVE  ArmIInv'
<1> USE TrialBounds, SameArm DEF Unsettled, Settling, Busy
<1>a. /\ ordering.change = "applied" /\ at # "ended" /\ Trial!Arm' = Trial!Arm
      /\ ordering' = [Trial!Recorded("change") EXCEPT !.change = "done", !.committed = TRUE]
      /\ UNCHANGED <<case, template, order, records, granted, active, session, revision, turns, pos, at, attempt,
                     lapsed, fault, outage, happened, seen, witnesses, attempts>>
  BY DEF Trial!TellChange, Trial!trial, Trial!policy, Trial!asked, Trial!faults, Trial!evidence
<1>b. /\ ordering' = [barrier |-> ordering.barrier, doc |-> ordering.doc, reached |-> ordering.reached,
                      committed |-> TRUE, change |-> "done", commits |-> Append(ordering.commits, "change")]
      /\ ordering'.barrier = ordering.barrier /\ ordering'.reached = ordering.reached
      /\ ordering'.committed = TRUE /\ ordering'.change = "done"
      /\ ordering'.commits = Append(ordering.commits, "change")
      /\ Append(ordering.commits, "change") \in Seq({"ask", "change"})
  <2>1. Append(ordering.commits, "change") \in Seq({"ask", "change"})
    BY Parts
  <2> DEFINE told == Append(ordering.commits, "change")
  <2>2. Trial!Recorded("change") = [ordering EXCEPT !.commits = told]
    BY DEF Trial!Recorded
  <2> HIDE DEF told
  <2>3. Trial!Recorded("change") = [barrier |-> ordering.barrier, doc |-> ordering.doc, reached |-> ordering.reached,
                              committed |-> ordering.committed, change |-> ordering.change, commits |-> told]
    BY <2>2, Parts
  <2>4. ordering' = [barrier |-> ordering.barrier, doc |-> ordering.doc, reached |-> ordering.reached,
                     committed |-> TRUE, change |-> "done", commits |-> told]
    <3> DEFINE r == Trial!Recorded("change")
    <3>1. r = [barrier |-> ordering.barrier, doc |-> ordering.doc, reached |-> ordering.reached,
               committed |-> ordering.committed, change |-> ordering.change, commits |-> told]
      BY <2>3
    <3>2. ordering' = [r EXCEPT !.change = "done", !.committed = TRUE]
      BY <1>a
    <3> HIDE DEF r
    <3>3. QED
      BY ONLY <3>1, <3>2
  <2>5. QED
    BY <2>1, <2>4 DEF told
<1>1. TrialTypes'
  <2>1. Trial!TypeOK'
    BY <1>a DEF ArmIInv, TrialTypes, Trial!TypeOK
  <2>2. QED
    BY <1>a, <1>b, <2>1, Parts DEF ArmIInv, TrialTypes
<1>2. Attempted'
  BY <1>a DEF ArmIInv, Attempted
<1>3. Released'
  BY <1>a DEF ArmIInv, Released
<1>4. Ordered'
  <2>1. CASE ordering.barrier = "model_generated"
    <3>1. at = "generated" /\ Moment(TRUE, "applied", <<"change">>, <<>>)
      BY <1>a, <2>1 DEF ArmIInv, Ordered, ChangedFirst, Moment
    <3>2. Moment(TRUE, "done", <<"change">>, <<"change">>)'
      BY <1>a, <1>b, <3>1, Events DEF Moment
    <3>3. QED
      BY <1>a, <1>b, <2>1, <3>1, <3>2 DEF Ordered, ChangedFirst
  <2>2. CASE ordering.barrier = "release_committed"
    <3>1. at = "recorded" /\ Moment(TRUE, "applied", <<"ask", "change">>, <<"ask">>)
      BY <1>a, <2>2 DEF ArmIInv, Ordered, AnsweredFirst, Moment
    <3>2. Moment(TRUE, "done", <<"ask", "change">>, <<"ask", "change">>)'
      BY <1>a, <1>b, <3>1, Events DEF Moment
    <3>3. QED
      BY <1>a, <1>b, <2>2, <3>1, <3>2 DEF Ordered, AnsweredFirst
  <2>3. ordering.barrier \in {"model_generated", "release_committed"}
    BY <1>a DEF ArmIInv, Ordered
  <2>4. QED
    BY <2>1, <2>2, <2>3
<1>5. Whole'
  BY <1>a DEF ArmIInv, Whole, Witnessed
<1>6. Accounted'
  BY <1>a DEF ArmIInv, Accounted, Trial!AttemptsAccounted
<1>7. QED
  BY <1>1, <1>2, <1>3, <1>4, <1>5, <1>6 DEF ArmIInv

LEMMA ArmApplyKeeps ==
  ASSUME ArmIInv, Trial!Apply
  PROVE  ArmIInv'
<1> USE TrialBounds, SameArm DEF Unsettled, Settling, Busy
<1>a. /\ at = "next" /\ at' = "next" /\ pos <= Len(case) /\ pos' = pos + 1 /\ Trial!Arm' = Trial!Arm
      /\ UNCHANGED <<case, template, order, records, turns, attempt, lapsed, fault, outage, ordering, happened,
                     seen, witnesses, attempts>>
  BY DEF Trial!Apply, Trial!Step, Trial!trial, Trial!asked, Trial!faults, Trial!evidence
<1>b. granted' \subseteq template /\ active' \in [Docs -> 0 .. 1] /\ session' \in BOOLEAN /\ revision' \in Nat
  <2>1. granted \subseteq template /\ active \in [Docs -> 0 .. 1] /\ session \in BOOLEAN /\ revision \in Nat
    BY DEF ArmIInv, TrialTypes, Trial!TypeOK
  <2>2. CASE Trial!Revoke(Trial!Action.doc)
    BY <2>1, <2>2 DEF Trial!Revoke
  <2>3. CASE /\ active' = [active EXCEPT ![Trial!Action.doc] = 1] /\ revision' = revision + 1
             /\ UNCHANGED <<granted, session>>
    <3>1. session' \in BOOLEAN
      BY <2>1, <2>3
    <3> DEFINE d == Trial!Action.doc
    <3>2. active' = [active EXCEPT ![d] = 1] /\ granted' = granted /\ revision' = revision + 1
      BY <2>3
    <3> HIDE DEF d
    <3>3. active' \in [Docs -> 0 .. 1] /\ revision' \in Nat
      <4> DEFINE V == 0 .. 1
      <4>1. 1 \in V /\ active \in [Docs -> V] /\ revision \in Nat
        BY <2>1
      <4> HIDE DEF V
      <4>2. active' \in [Docs -> V]
        BY ONLY <3>2, <4>1
      <4>3. revision' \in Nat
        BY ONLY <3>2, <4>1
      <4>4. QED
        BY <4>2, <4>3 DEF V
    <3>4. QED
      BY <2>1, <3>1, <3>2, <3>3
  <2>4. CASE session' = FALSE /\ revision' = revision + 1 /\ UNCHANGED <<granted, active>>
    <3>1. session' \in BOOLEAN
      BY <2>4
    <3>2. granted' = granted /\ active' = active /\ revision' \in Nat
      BY <2>1, <2>4
    <3>3. QED
      BY <2>1, <3>1, <3>2
  <2>5. QED
    BY <2>2, <2>3, <2>4 DEF Trial!Apply
<1>1. TrialTypes'
  <2>1. Trial!TypeOK'
    BY <1>a, <1>b DEF ArmIInv, TrialTypes, Trial!TypeOK
  <2>2. QED
    BY <1>a, <2>1 DEF ArmIInv, TrialTypes
<1>2. Attempted'
  BY <1>a DEF ArmIInv, Attempted
<1>3. Released'
  BY <1>a DEF ArmIInv, Released
<1>4. Ordered'
  BY <1>a DEF ArmIInv, Ordered, ChangedFirst, AnsweredFirst, Moment
<1>5. Whole'
  BY <1>a DEF ArmIInv, Whole, Witnessed
<1>6. Accounted'
  BY <1>a DEF ArmIInv, Accounted, Trial!AttemptsAccounted
<1>7. QED
  BY <1>1, <1>2, <1>3, <1>4, <1>5, <1>6 DEF ArmIInv

LEMMA ArmSkipKeeps ==
  ASSUME ArmIInv, Trial!Skip
  PROVE  ArmIInv'
<1> USE TrialBounds, SameArm DEF Unsettled, Settling, Busy
<1>1. TrialTypes'
  BY DEF Trial!Skip, Trial!Step, Trial!Action, Trial!trial, Trial!policy, Trial!asked, Trial!faults, Trial!evidence, ArmIInv, TrialTypes, Trial!TypeOK, Attempted
<1>2. Attempted'
  BY DEF Trial!Skip, Trial!Step, Trial!Action, Trial!trial, Trial!policy, Trial!asked, Trial!faults, Trial!evidence, ArmIInv, TrialTypes, Trial!TypeOK, Attempted
<1>3. Released'
  BY DEF Trial!Skip, Trial!Step, Trial!Action, Trial!trial, Trial!policy, Trial!asked, Trial!faults, Trial!evidence, ArmIInv, TrialTypes, Released
<1>4. Ordered'
  BY DEF Trial!Skip, Trial!Step, Trial!Action, Trial!trial, Trial!policy, Trial!asked, Trial!faults, Trial!evidence, ArmIInv, TrialTypes, Ordered, ChangedFirst, AnsweredFirst, Moment
<1>5. Whole'
  BY DEF Trial!Skip, Trial!Step, Trial!Action, Trial!trial, Trial!policy, Trial!asked, Trial!faults, Trial!evidence, ArmIInv, TrialTypes, Whole, Witnessed
<1>6. Accounted'
  BY DEF Trial!Skip, Trial!Step, Trial!Action, Trial!trial, Trial!policy, Trial!asked, Trial!faults, Trial!evidence, ArmIInv, TrialTypes, Accounted, Trial!AttemptsAccounted
<1>7. QED
  BY <1>1, <1>2, <1>3, <1>4, <1>5, <1>6 DEF ArmIInv

LEMMA ArmInjectKeeps ==
  ASSUME ArmIInv, Trial!Inject
  PROVE  ArmIInv'
<1> USE TrialBounds, SameArm DEF Unsettled, Settling, Busy
<1>a. /\ at = "next" /\ at' = "next" /\ pos <= Len(case) /\ pos' = pos + 1 /\ Trial!Arm' = Trial!Arm
      /\ outage' \in {TRUE, outage}
      /\ UNCHANGED <<case, template, order, records, granted, active, session, revision, turns, attempt, lapsed,
                     ordering, happened, seen, witnesses, attempts>>
  BY DEF Trial!Inject, Trial!Step, Trial!trial, Trial!policy, Trial!asked, Trial!evidence
<1>1. TrialTypes'
  <2>1. outage' \in BOOLEAN
    BY <1>a DEF ArmIInv, TrialTypes, Trial!TypeOK
  <2>2. Trial!TypeOK'
    BY <1>a, <2>1 DEF ArmIInv, TrialTypes, Trial!TypeOK
  <2>3. QED
    BY <1>a, <2>2 DEF ArmIInv, TrialTypes
<1>2. Attempted'
  BY <1>a DEF ArmIInv, Attempted
<1>3. Released'
  BY <1>a DEF ArmIInv, Released
<1>4. Ordered'
  BY <1>a DEF ArmIInv, Ordered, ChangedFirst, AnsweredFirst, Moment
<1>5. Whole'
  BY <1>a DEF ArmIInv, Whole, Witnessed
<1>6. Accounted'
  BY <1>a DEF ArmIInv, Accounted, Trial!AttemptsAccounted
<1>7. QED
  BY <1>1, <1>2, <1>3, <1>4, <1>5, <1>6 DEF ArmIInv

LEMMA ArmReadKeeps ==
  ASSUME ArmIInv, Trial!Read
  PROVE  ArmIInv'
<1> USE TrialBounds, SameArm DEF Unsettled, Settling, Busy
<1>a. /\ at = "next" /\ at' = "next" /\ pos <= Len(case) /\ pos' = pos + 1 /\ Trial!Arm' = Trial!Arm
      /\ UNCHANGED <<case, template, order, records, granted, active, session, revision, turns, attempt, lapsed,
                     fault, outage, ordering, happened, witnesses, attempts>>
  BY DEF Trial!Read, Trial!Step, Trial!trial, Trial!policy, Trial!asked, Trial!faults
<1>b. PICK surface, refs :
        /\ surface \in {"stored_read", "source_read", "document_list"} /\ Trial!Observe(surface, refs)
        /\ refs \subseteq Trial!Rows /\ (Trial!Arm = "guarded" => refs \subseteq Trial!Readable)
  <2>1. CASE Trial!Observe("stored_read", IF ~session THEN {}
                                    ELSE UNION {turns[i].refs : i \in {j \in Trial!Answered : Trial!Shown(turns[j].refs)}})
    <3> DEFINE shown == UNION {turns[i].refs : i \in {j \in Trial!Answered : Trial!Shown(turns[j].refs)}}
               refs == IF ~session THEN {} ELSE shown
    <3>1. \A i \in Trial!Answered : turns[i].refs \subseteq Trial!Rows
      BY DEF Trial!Answered, Turns
    <3>2. shown \subseteq Trial!Rows /\ (Trial!Arm = "guarded" => shown \subseteq Trial!Readable)
      BY <3>1 DEF Trial!Shown
    <3> HIDE DEF shown
    <3>3. refs \subseteq Trial!Rows /\ (Trial!Arm = "guarded" => refs \subseteq Trial!Readable)
      BY <3>2
    <3>4. Trial!Observe("stored_read", refs)
      BY <2>1 DEF shown
    <3>5. QED
      BY <3>3, <3>4
  <2>2. CASE \E row \in {r \in witnesses[Trial!Action.ask] : r[1] = Trial!Action.doc} :
               Trial!Action.ask \in DOMAIN witnesses /\ Trial!Observe("source_read", IF session /\ Trial!Shown({row}) THEN {row} ELSE {})
    <3>1. PICK row \in witnesses[Trial!Action.ask] :
            Trial!Action.ask \in DOMAIN witnesses /\ Trial!Observe("source_read", IF session /\ Trial!Shown({row}) THEN {row} ELSE {})
      BY <2>2
    <3> DEFINE refs == IF session /\ Trial!Shown({row}) THEN {row} ELSE {}
    <3>2. row \in Trial!Rows
      BY <3>1 DEF ArmIInv, TrialTypes
    <3>3. refs \subseteq Trial!Rows /\ (Trial!Arm = "guarded" => refs \subseteq Trial!Readable)
      BY <3>2 DEF Trial!Shown
    <3>4. Trial!Observe("source_read", refs)
      BY <3>1
    <3> HIDE DEF refs
    <3>5. QED
      BY <3>3, <3>4
  <2>3. CASE Trial!Observe("document_list", IF session THEN Trial!Readable ELSE {})
    <3> DEFINE refs == IF session THEN Trial!Readable ELSE {}
    <3>1. refs \subseteq Trial!Rows /\ refs \subseteq Trial!Readable
      OBVIOUS
    <3>2. QED
      BY <2>3, <3>1
  <2>4. QED
    BY <2>1, <2>2, <2>3 DEF Trial!Read
<1>c. PICK o \in Observations : seen' = seen \union {o} /\ o.valid /\ (Trial!Arm = "guarded" => ~o.forbidden)
  <2> DEFINE o == [action |-> pos, surface |-> surface, refs |-> refs,
                   forbidden |-> refs \ Trial!Readable # {}, valid |-> refs \subseteq Trial!Rows]
  <2>1. o \in Observations
    BY <1>b DEF Observations
  <2>2. o.valid /\ (Trial!Arm = "guarded" => ~o.forbidden)
    BY <1>b
  <2>3. seen' = seen \union {o}
    BY <1>b DEF Trial!Observe, Trial!Note
  <2>4. QED
    BY <2>1, <2>2, <2>3
<1>1. TrialTypes'
  <2>1. Trial!TypeOK'
    BY <1>a DEF ArmIInv, TrialTypes, Trial!TypeOK
  <2>2. seen' \subseteq Observations
    BY <1>c DEF ArmIInv, TrialTypes
  <2>3. QED
    BY <1>a, <2>1, <2>2 DEF ArmIInv, TrialTypes
<1>2. Attempted'
  BY <1>a DEF ArmIInv, Attempted
<1>3. Released'
  BY <1>a, <1>c DEF ArmIInv, Released
<1>4. Ordered'
  BY <1>a DEF ArmIInv, Ordered, ChangedFirst, AnsweredFirst, Moment
<1>5. Whole'
  <2>1. \A i \in DOMAIN turns : Witnessed(turns[i]) => Witnessed(turns[i])'
    BY <1>a, <1>c DEF Witnessed
  <2>2. QED
    BY <1>a, <2>1 DEF ArmIInv, Whole
<1>6. Accounted'
  BY <1>a DEF ArmIInv, Accounted, Trial!AttemptsAccounted
<1>7. QED
  BY <1>1, <1>2, <1>3, <1>4, <1>5, <1>6 DEF ArmIInv

LEMMA ArmCutOffKeeps ==
  ASSUME ArmIInv, Trial!Impossible \/ Trial!Timeout
  PROVE  ArmIInv'
<1>1. Trial!CutOff /\ at # "ended"
  BY DEF Trial!Impossible, Trial!Timeout, Trial!Limited
<1>2. CASE attempt = Trial!NoAttempt
  BY <1>1, <1>2, EndKeeps DEF Trial!CutOff
<1>3. CASE attempt # Trial!NoAttempt
  <2>1. at \in Busy
    BY <1>3 DEF ArmIInv, Attempted
  <2>2. QED
    BY <1>1, <1>3, <2>1, EndKeeps DEF Trial!CutOff
<1>4. QED
  BY <1>2, <1>3

LEMMA ArmFinishKeeps ==
  ASSUME ArmIInv, Trial!FinishArm
  PROVE  ArmIInv'
<1> USE TrialBounds DEF Unsettled, Settling, Busy
<1>a. /\ at = "next" /\ records' = Append(records, [status |-> "completed", commits |-> ordering.commits])
      /\ UNCHANGED <<case, template, order>> /\ records \in Seq(Outcomes) /\ Len(records) <= 1
  BY DEF Trial!FinishArm, ArmIInv, TrialTypes
<1>b. records' \in Seq(Outcomes) /\ Len(records') = Len(records) + 1
  BY <1>a, Parts DEF Outcomes
<1>c. CASE records = <<>>
  <2>1. /\ granted' = template /\ active' = [d \in Docs |-> 0] /\ session' = TRUE /\ revision' = 0
        /\ turns' = <<>> /\ pos' = 1 /\ at' = "next" /\ attempt' = Trial!NoAttempt /\ lapsed' = FALSE
        /\ outage' = FALSE /\ ordering' = Trial!NoOrdering /\ happened' = <<>>
        /\ seen' = {} /\ witnesses' = [i \in {} |-> {}] /\ attempts' = <<>>
    BY <1>a, <1>c DEF Trial!FinishArm
  <2>2. Len(records') = 1
    BY <1>b, <1>c
  <2>3. DOMAIN turns' = {} /\ DOMAIN attempts' = {} /\ DOMAIN witnesses' = {}
    BY <2>1
  <2>4. turns' \in Seq(Turns) /\ attempts' \in Seq(Accounts)
    BY <2>1, EmptySeq
  <2>5. Trial!NoAttempt.release.forbidden = FALSE /\ Trial!NoAttempt.refs = {} /\ Trial!NoAttempt.number = 0
    BY DEF Trial!NoAttempt, Trial!NoRelease
  <2>6. /\ ordering' = [barrier |-> "none", doc |-> None, reached |-> FALSE, committed |-> FALSE,
                        change |-> "none", commits |-> <<>>]
        /\ ordering'.commits \in Seq({"ask", "change"})
    BY <2>1, EmptySeq DEF Trial!NoOrdering
  <2>7. Trial!TypeOK'
    <3>1. active' \in [Docs -> 0 .. 1] /\ pos' \in 1 .. (Len(case') + 1)
      BY <1>a, <2>1
    <3>2. case' \in Cases /\ template' \subseteq Docs
      BY <1>a DEF ArmIInv, TrialTypes, Trial!TypeOK
    <3>3. session' \in BOOLEAN /\ lapsed' \in BOOLEAN
      BY <2>1
    <3>4. outage' \in BOOLEAN /\ revision' \in Nat
      BY <2>1
    <3>5. granted' \subseteq template' /\ attempt'.refs \subseteq Trial!Rows /\ attempt'.number \in 0 .. 2
      BY <1>a, <2>1, <2>5
    <3>6. \A i \in DOMAIN turns' : turns'[i].refs \subseteq Trial!Rows
      BY <2>3
    <3> HIDE DEF Unsettled, Settling, Busy
    <3>7. at' \in {"next", "prepare", "model", "generated", "releasing", "gate", "stored",
                   "recorded", "observing", "joining", "ended"}
      BY <2>1
    <3>8. QED
      BY <3>1, <3>2, <3>3, <3>4, <3>5, <3>6, <3>7 DEF Trial!TypeOK
  <2>8. TrialTypes'
    <3>1. order' \in {<<"baseline", "guarded">>, <<"guarded", "baseline">>}
      BY <1>a DEF ArmIInv, TrialTypes
    <3>2. /\ ordering' = [barrier |-> ordering'.barrier, doc |-> ordering'.doc, reached |-> ordering'.reached,
                          committed |-> ordering'.committed, change |-> ordering'.change,
                          commits |-> ordering'.commits]
      BY <2>6
    <3>3. /\ attempt' \in [number : 0 .. 2, refs : SUBSET Trial!Rows, revision : Nat, answered : BOOLEAN,
                           live : BOOLEAN, release : Releases]
      BY <2>1, AnAttempt
    <3>4. seen' \subseteq Observations /\ \A i \in DOMAIN witnesses' : witnesses'[i] \subseteq Trial!Rows
      BY <2>1, <2>3
    <3>5. records' \in Seq(Outcomes) /\ Len(records') <= 1
      <4>1. Len(records') <= 1
        BY ONLY <2>2
      <4>2. QED
        BY <1>b, <4>1, Zenon
    <3>6. ordering'.commits \in Seq({"ask", "change"})
      BY <2>6
    <3>7. QED
      BY <2>4, <2>7, <3>1, <3>2, <3>3, <3>4, <3>5, <3>6, Zenon DEF TrialTypes
  <2>9. Attempted' /\ Released'
    BY <2>1, <2>5 DEF Attempted, Released
  <2>10. Ordered'
    BY <2>6 DEF Ordered
  <2>11. Whole' /\ Accounted'
    BY <2>1, <2>3 DEF Whole, Accounted, Trial!AttemptsAccounted
  <2>12. QED
    BY <2>8, <2>9, <2>10, <2>11 DEF ArmIInv
<1>d. CASE records # <<>>
  <2>1. /\ at' = "ended"
        /\ UNCHANGED <<granted, active, session, revision, turns, pos, attempt, lapsed, fault, outage, ordering,
                       happened, seen, witnesses, attempts>>
    BY <1>d DEF Trial!FinishArm, Trial!policy, Trial!asked, Trial!faults, Trial!evidence
  <2>2. Trial!TypeOK'
    BY <1>a, <2>1 DEF ArmIInv, TrialTypes, Trial!TypeOK
  <2>3. TrialTypes'
    BY <1>a, <1>b, <2>1, <2>2 DEF ArmIInv, TrialTypes
  <2>4. Attempted' /\ Released' /\ Ordered' /\ Whole'
    BY <1>a, <2>1 DEF ArmIInv, Attempted, Released, Ordered, Whole
  <2>5. Accounted'
    BY <1>a, <2>1 DEF ArmIInv, Accounted, Trial!AttemptsAccounted
  <2>6. QED
    BY <2>3, <2>4, <2>5 DEF ArmIInv
<1>e. QED
  BY <1>c, <1>d

LEMMA ArmDriftKeeps ==
  ASSUME ArmIInv, Trial!Drift
  PROVE  ArmIInv'
<1>1. at = "next" /\ Trial!Fail("failed") /\ attempt' = attempt /\ attempts' = attempts
  BY DEF Trial!Drift
<1>2. attempt' = Trial!NoAttempt
  BY <1>1 DEF ArmIInv, Attempted, Busy, Unsettled, Settling
<1>3. QED
  BY <1>1, <1>2, EndKeeps

LEMMA ArmLapseKeeps ==
  ASSUME ArmIInv, Trial!LeaseLapses
  PROVE  ArmIInv'
<1> USE TrialBounds, SameArm DEF Unsettled, Settling, Busy
<1>1. TrialTypes'
  BY DEF Trial!LeaseLapses, Trial!trial, Trial!policy, Trial!asked, Trial!faults, Trial!evidence, ArmIInv, TrialTypes, Trial!TypeOK, Attempted
<1>2. Attempted'
  BY DEF Trial!LeaseLapses, Trial!trial, Trial!policy, Trial!asked, Trial!faults, Trial!evidence, ArmIInv, TrialTypes, Trial!TypeOK, Attempted
<1>3. Released'
  BY DEF Trial!LeaseLapses, Trial!trial, Trial!policy, Trial!asked, Trial!faults, Trial!evidence, ArmIInv, TrialTypes, Released
<1>4. Ordered'
  BY DEF Trial!LeaseLapses, Trial!trial, Trial!policy, Trial!asked, Trial!faults, Trial!evidence, ArmIInv, TrialTypes, Ordered, ChangedFirst, AnsweredFirst, Moment
<1>5. Whole'
  BY DEF Trial!LeaseLapses, Trial!trial, Trial!policy, Trial!asked, Trial!faults, Trial!evidence, ArmIInv, TrialTypes, Whole, Witnessed
<1>6. Accounted'
  BY DEF Trial!LeaseLapses, Trial!trial, Trial!policy, Trial!asked, Trial!faults, Trial!evidence, ArmIInv, TrialTypes, Accounted, Trial!AttemptsAccounted
<1>7. QED
  BY <1>1, <1>2, <1>3, <1>4, <1>5, <1>6 DEF ArmIInv

LEMMA ArmInit ==
  ASSUME Trial!Init
  PROVE  ArmIInv
<1>1. /\ case \in Cases /\ template \subseteq Docs /\ records = <<>>
      /\ order \in {<<"baseline", "guarded">>, <<"guarded", "baseline">>}
      /\ granted = template /\ active = [d \in Docs |-> 0] /\ session = TRUE /\ revision = 0
      /\ turns = <<>> /\ pos = 1 /\ at = "next" /\ attempt = Trial!NoAttempt /\ lapsed = FALSE
      /\ fault = None /\ outage = FALSE /\ ordering = Trial!NoOrdering /\ happened = <<>>
      /\ seen = {} /\ witnesses = [i \in {} |-> {}] /\ attempts = <<>>
  BY DEF Trial!Init, Trial!Clean
<1>2. DOMAIN turns = {} /\ DOMAIN attempts = {} /\ DOMAIN witnesses = {}
  BY <1>1
<1>3. turns \in Seq(Turns) /\ attempts \in Seq(Accounts) /\ records \in Seq(Outcomes)
  BY <1>1, EmptySeq
<1>4. Trial!NoAttempt.release.forbidden = FALSE /\ Trial!NoAttempt.refs = {} /\ Trial!NoAttempt.number = 0
  BY DEF Trial!NoAttempt, Trial!NoRelease
<1>5. /\ ordering = [barrier |-> "none", doc |-> None, reached |-> FALSE, committed |-> FALSE,
                     change |-> "none", commits |-> <<>>]
      /\ ordering.commits \in Seq({"ask", "change"})
  BY <1>1, EmptySeq DEF Trial!NoOrdering
<1>6. Trial!TypeOK
  <2>1. active \in [Docs -> 0 .. 1]
    BY <1>1
  <2>2. pos \in 1 .. (Len(case) + 1)
    BY <1>1, TrialIsPossible DEF Trial!ComparisonAssumption
  <2>3. session \in BOOLEAN /\ lapsed \in BOOLEAN /\ outage \in BOOLEAN /\ revision \in Nat
    BY <1>1
  <2>4. granted \subseteq template /\ attempt.refs \subseteq Trial!Rows \union {Trial!Forged} /\ attempt.number \in 0 .. 2
    BY <1>1, <1>4
  <2>5. \A i \in DOMAIN turns : turns[i].refs \subseteq Trial!Rows
    BY <1>2
  <2>6. at \in {"next", "prepare", "model", "generated", "releasing", "gate", "stored",
                "recorded", "observing", "joining", "ended"}
    BY <1>1
  <2>7. QED
    BY <1>1, <2>1, <2>2, <2>3, <2>4, <2>5, <2>6 DEF Trial!TypeOK
<1>7. TrialTypes
  <2>1. /\ ordering = [barrier |-> ordering.barrier, doc |-> ordering.doc, reached |-> ordering.reached,
                       committed |-> ordering.committed, change |-> ordering.change,
                       commits |-> ordering.commits]
    BY <1>5
  <2>2. /\ attempt \in [number : 0 .. 2, refs : SUBSET Trial!Rows, revision : Nat, answered : BOOLEAN,
                        live : BOOLEAN, release : Releases]
    BY <1>1, AnAttempt
  <2>3. seen \subseteq Observations /\ \A i \in DOMAIN witnesses : witnesses[i] \subseteq Trial!Rows
    BY <1>1, <1>2
  <2>4. Len(records) <= 1
    BY <1>1
  <2>5. ordering.commits \in Seq({"ask", "change"})
    BY <1>5
  <2>6. order \in {<<"baseline", "guarded">>, <<"guarded", "baseline">>}
    BY <1>1
  <2>7. QED
    BY <1>3, <1>6, <2>1, <2>2, <2>3, <2>4, <2>5, <2>6, Zenon DEF TrialTypes
<1>8. Attempted /\ Released
  BY <1>1, <1>4 DEF Attempted, Released, Busy, Unsettled, Settling
<1>9. Ordered
  BY <1>5 DEF Ordered
<1>10. Whole /\ Accounted
  BY <1>1, <1>2 DEF Whole, Accounted, Trial!AttemptsAccounted, Busy, Unsettled, Settling
<1>11. QED
  BY <1>7, <1>8, <1>9, <1>10 DEF ArmIInv

LEMMA ArmStep ==
  ASSUME ArmIInv, [Trial!Next]_Trial!vars
  PROVE  ArmIInv'
<1>1. CASE Trial!Ask
  BY <1>1, ArmAskKeeps
<1>2. CASE Trial!Prepare
  BY <1>2, ArmPrepareKeeps
<1>3. CASE Trial!Generate
  BY <1>3, ArmGenerateKeeps
<1>4. CASE Trial!ModelFails
  BY <1>4, ArmModelFailsKeeps
<1>5. CASE Trial!OpenRelease
  BY <1>5, ArmOpenKeeps
<1>6. CASE Trial!Retry
  BY <1>6, ArmRetryKeeps
<1>7. CASE Trial!Complete
  BY <1>7, ArmCompleteKeeps
<1>8. CASE Trial!RecordRelease
  BY <1>8, ArmRecordKeeps
<1>9. CASE Trial!Respond
  BY <1>9, ArmRespondKeeps
<1>10. CASE Trial!Join
  BY <1>10, ArmJoinKeeps
<1>11. CASE Trial!Reach("model_generated", "generated") \/ Trial!Reach("release_committed", "recorded")
  BY <1>11, ArmReachKeeps
<1>12. CASE Trial!Pass("model_generated", "generated", "releasing") \/ Trial!Pass("release_committed", "recorded", "observing")
  BY <1>12, ArmPassKeeps
<1>13. CASE Trial!ApplyChange
  BY <1>13, ArmChangeKeeps
<1>14. CASE Trial!TellChange
  BY <1>14, ArmTellKeeps
<1>15. CASE Trial!Apply
  BY <1>15, ArmApplyKeeps
<1>16. CASE Trial!Skip
  BY <1>16, ArmSkipKeeps
<1>17. CASE Trial!Inject
  BY <1>17, ArmInjectKeeps
<1>18. CASE Trial!Read
  BY <1>18, ArmReadKeeps
<1>19. CASE Trial!Impossible \/ Trial!Timeout
  BY <1>19, ArmCutOffKeeps
<1>20. CASE Trial!FinishArm
  BY <1>20, ArmFinishKeeps
<1>21. CASE Trial!Drift
  BY <1>21, ArmDriftKeeps
<1>22. CASE Trial!LeaseLapses
  BY <1>22, ArmLapseKeeps
<1>23. CASE UNCHANGED Trial!vars
  <2>1. /\ UNCHANGED <<case, template, order, records, granted, active, session, revision, turns, pos,
                       at, attempt, lapsed, fault, outage, ordering, happened, seen, witnesses, attempts>>
        /\ Trial!Arm' = Trial!Arm
    BY <1>23 DEF Trial!vars, Trial!Arm
  <2>2. Trial!TypeOK'
    BY <2>1 DEF ArmIInv, TrialTypes, Trial!TypeOK
  <2>3. TrialTypes' /\ Attempted' /\ Released'
    BY <2>1, <2>2 DEF ArmIInv, TrialTypes, Attempted, Released, Busy, Unsettled, Settling
  <2>4. Ordered'
    BY <2>1 DEF ArmIInv, Ordered, ChangedFirst, AnsweredFirst, Moment, Unsettled
  <2>5. Whole'
    <3>1. \A i \in DOMAIN turns : Witnessed(turns[i]) => Witnessed(turns[i])'
      BY <2>1 DEF Witnessed
    <3>2. QED
      BY <2>1, <3>1 DEF ArmIInv, Whole, Unsettled, Settling
  <2>6. Accounted'
    BY <2>1 DEF ArmIInv, Accounted, Trial!AttemptsAccounted, Busy, Unsettled, Settling
  <2>7. QED
    BY <2>3, <2>4, <2>5, <2>6 DEF ArmIInv
<1>24. CASE Trial!Question
  BY <1>1, <1>2, <1>3, <1>4, <1>5, <1>6, <1>7, <1>8, <1>9, <1>10, <1>11, <1>12, <1>24 DEF Trial!Question
<1>25. CASE Trial!Others
  BY <1>15, <1>16, <1>17, <1>18, <1>19, <1>20, <1>21, <1>25 DEF Trial!Others
<1>26. QED
  BY <1>13, <1>14, <1>19, <1>22, <1>23, <1>24, <1>25 DEF Trial!Next

LEMMA ArmTold ==
  ASSUME ArmIInv
  PROVE  Trial!ArmInv
<1>1. Trial!TypeOK /\ Trial!AttemptsAccounted
  BY DEF ArmIInv, TrialTypes, Accounted
<1>2. Trial!GuardedExposesNothing /\ Trial!NothingForged
  BY DEF ArmIInv, Released, Trial!GuardedExposesNothing, Trial!NothingForged
<1>3. Trial!OrderIsExpected
  <2>1. SUFFICES ASSUME at = "next", ordering.committed
                 PROVE  /\ ordering.commits = happened
                        /\ happened = IF ordering.barrier = "model_generated" THEN <<"change", "ask">>
                                      ELSE <<"ask", "change">>
    BY DEF Trial!OrderIsExpected
  <2>2. CASE ordering.barrier = "model_generated"
    <3>1. Moment(TRUE, "done", <<"change", "ask">>, <<"change", "ask">>)
      BY <2>1, <2>2 DEF ArmIInv, Ordered, ChangedFirst, Unsettled
    <3>2. QED
      BY <2>2, <3>1 DEF Moment
  <2>3. CASE ordering.barrier = "release_committed"
    <3>1. Moment(TRUE, "done", <<"ask", "change">>, <<"ask", "change">>)
      BY <2>1, <2>3 DEF ArmIInv, Ordered, AnsweredFirst, Unsettled
    <3>2. QED
      BY <2>3, <3>1 DEF Moment
  <2>4. ordering.barrier \in {"model_generated", "release_committed"}
    BY <2>1 DEF ArmIInv, Ordered
  <2>5. QED
    BY <2>2, <2>3, <2>4
<1>4. Trial!CompletedIsWhole
  <2>1. SUFFICES ASSUME at = "next", NEW i \in DOMAIN turns, turns[i].state # "pending"
                 PROVE  Witnessed(turns[i])
    BY DEF Trial!CompletedIsWhole, Witnessed
  <2>2. QED
    BY <2>1 DEF ArmIInv, Whole, Settling
<1>5. QED
  BY <1>1, <1>2, <1>3, <1>4 DEF Trial!ArmInv

----------------------------------------------------------------------------
(* The parts together.                                                     *)

\* The inductive invariants: each part's own, where a behaviour is about that part.
RunHolds == part = "run" => RunIInv

\* A command that creates the journal relies on its lock, or on nobody who edits.
SeedHolds ==
  /\ part \in {"edited", "overlapping"} => SeedBase /\ Secrets
  /\ part = "edited" => Exclusive
  /\ part = "overlapping" => JournalFirst /\ edits \in Nat

TrialHolds == part = "trial" => ArmIInv

\* A step is one of the part that the behaviour is about.
LEMMA PartSteps ==
  ASSUME [EvaluationNext]_everything
  PROVE  /\ part' = part /\ [Next]_vars
         /\ [Seed!Next]_Seed!vars
         /\ part = "edited" => [Seed!Steps]_Seed!vars
         /\ part = "overlapping" => edits' = edits
         /\ part = "trial" => [Trial!Next]_Trial!vars
<1>1. CASE Runs
  <2>1. UNCHANGED Seed!vars
    BY <1>1 DEF Runs, seeding, Seed!vars, Seed!database, Seed!files, Seed!trouble
  <2>2. QED
    BY <1>1, <2>1 DEF Runs
<1>2. CASE Seeds
  <2>1. Seed!Steps \/ Seed!Next
    BY <1>2 DEF Seeds
  <2>2. Seed!Next
    BY <2>1 DEF Seed!Next
  <2>3. QED
    BY <1>2, <2>2 DEF Seeds
<1>3. CASE Tries
  <2>1. UNCHANGED Seed!vars
    BY <1>3 DEF Tries, seeding, Seed!vars, Seed!database, Seed!files, Seed!trouble
  <2>2. QED
    BY <1>3, <2>1 DEF Tries
<1>4. CASE UNCHANGED everything
  <2>1. UNCHANGED Seed!vars /\ edits' = edits
    BY <1>4 DEF everything, seeding, Seed!vars, Seed!database, Seed!files, Seed!trouble
  <2>2. UNCHANGED Trial!vars
    BY <1>4 DEF everything, trying, Trial!vars
  <2>3. QED
    BY <1>4, <2>1, <2>2 DEF everything
<1>5. QED
  BY <1>1, <1>2, <1>3, <1>4 DEF EvaluationNext

LEMMA PartsInit ==
  ASSUME EvaluationInit
  PROVE  RunHolds /\ SeedHolds /\ TrialHolds
<1>1. RunHolds
  BY RunInit DEF EvaluationInit, RunHolds
<1>2. Seed!Init
  BY DEF EvaluationInit
<1>3. edits \in Nat
  BY <1>2 DEF Seed!Init
<1>4. SeedHolds
  BY <1>2, <1>3, SeedInit, InitSecrets, InitExclusive, InitJournal DEF SeedHolds
<1>5. TrialHolds
  BY ArmInit DEF EvaluationInit, TrialHolds
<1>6. QED
  BY <1>1, <1>4, <1>5

LEMMA SeedHoldsOn ==
  ASSUME SeedHolds, [EvaluationNext]_everything
  PROVE  SeedHolds'
<1>1. /\ part' = part /\ [Seed!Next]_Seed!vars
      /\ part = "edited" => [Seed!Steps]_Seed!vars
      /\ part = "overlapping" => edits' = edits
  BY PartSteps
<1>2. CASE part = "edited"
  <2>1. SeedBase /\ Secrets /\ Exclusive
    BY <1>2 DEF SeedHolds
  <2>2. SeedBase' /\ Exclusive'
    BY <1>1, <1>2, <2>1, BaseStep, ExclusiveStep
  <2>3. Secrets'
    BY <1>1, <2>1, ExclusiveFresh, SecretsStep
  <2>4. QED
    BY <1>1, <1>2, <2>2, <2>3 DEF SeedHolds
<1>3. CASE part = "overlapping"
  <2>1. SeedBase /\ Secrets /\ JournalFirst /\ edits \in Nat /\ edits' = edits
    BY <1>1, <1>3 DEF SeedHolds
  <2>2. SeedBase' /\ JournalFirst'
    BY <1>1, <2>1, BaseStep, JournalStep
  <2>3. Secrets'
    BY <1>1, <2>1, JournalFresh, SecretsStep
  <2>4. QED
    BY <1>1, <1>3, <2>1, <2>2, <2>3 DEF SeedHolds
<1>4. CASE part \notin {"edited", "overlapping"}
  BY <1>1, <1>4 DEF SeedHolds
<1>5. QED
  BY <1>2, <1>3, <1>4

LEMMA RunHoldsOn ==
  ASSUME SummaryApart, RunHolds, [EvaluationNext]_everything
  PROVE  RunHolds'
BY PartSteps, RunStep DEF RunHolds

LEMMA TrialHoldsOn ==
  ASSUME TrialHolds, [EvaluationNext]_everything
  PROVE  TrialHolds'
BY PartSteps, ArmStep DEF TrialHolds

\* Whatever dies, is resumed, overlaps or commits in between: no unit of a run is asked twice
\* or forgotten and its files can be resumed from; seeding keeps its secrets, gives nothing back
\* and reports what is there; the guarded arm exposes nothing its user may not read, and the
\* evidence of a trial says what happened (demo_run_storage.py 86-220, seed.py 95-214,
\* host_release.py 38-122).  The files of the run need that no command
\* takes the lock while another reads them for its summary (demo_quality.py 99-138).
THEOREM RecordsTold == SummaryApart => (EvaluationSpec => []RecordsAreTrue)
<1> SUFFICES ASSUME SummaryApart
             PROVE  EvaluationSpec => []RecordsAreTrue
  OBVIOUS
<1> DEFINE Holds == RunHolds /\ SeedHolds /\ TrialHolds
<1>1. EvaluationInit => Holds
  BY PartsInit
<1>2. Holds /\ [EvaluationNext]_everything => Holds'
  BY RunHoldsOn, SeedHoldsOn, TrialHoldsOn
<1>3. Holds => RecordsAreTrue
  BY RunTold, SeedTold, ReportsApplied, ArmTold DEF RunHolds, SeedHolds, TrialHolds, RecordsAreTrue
<1>4. QED
  BY <1>1, <1>2, <1>3, PTL DEF EvaluationSpec

\* The rows of a run are only added to, over every command that dies and is resumed
\* (demo_run_storage.py 86-185), unless one takes the lock while another reads the files for its summary.
THEOREM RowsOnlyGrow == SummaryApart => (EvaluationSpec => RowsKept)
<1> SUFFICES ASSUME SummaryApart
             PROVE  EvaluationSpec => RowsKept
  OBVIOUS
<1> DEFINE Grows == IsPrefix(rows, rows')
<1>1. EvaluationInit => RunHolds
  BY PartsInit
<1>2. RunHolds /\ [EvaluationNext]_everything => RunHolds'
  BY RunHoldsOn
<1>3. RunHolds /\ [EvaluationNext]_everything => [Grows]_vars
  <2> SUFFICES ASSUME RunHolds, [EvaluationNext]_everything
               PROVE  [Grows]_vars
    OBVIOUS
  <2>1. CASE part = "run"
    BY <2>1, PartSteps, RowsStep DEF RunHolds
  <2>2. CASE part # "run"
    BY <2>2 DEF EvaluationNext, Runs, Seeds, Tries, everything
  <2>3. QED
    BY <2>1, <2>2
<1>4. QED
  BY <1>1, <1>2, <1>3, PTL DEF EvaluationSpec, RowsKept

\* Commands that crash, are resumed and overlap: an object that is there is never made again
\* with another identity, and completed content changes only to what a command was told to
\* accept, from what it had planned with (mutations.py 28-95, documents.py 39-101).
THEOREM SeededOnce == EvaluationSpec => SeedsOnce
<1>1. EvaluationInit => SeedHolds
  BY PartsInit
<1>2. SeedHolds /\ [EvaluationNext]_everything => SeedHolds'
  BY SeedHoldsOn
<1>3. SeedHolds /\ [EvaluationNext]_everything => [Seed!SameObjects]_Seed!vars /\ [Seed!OnlyAccepted]_Seed!vars
  <2> SUFFICES ASSUME SeedHolds, [EvaluationNext]_everything
               PROVE  [Seed!SameObjects]_Seed!vars /\ [Seed!OnlyAccepted]_Seed!vars
    OBVIOUS
  <2>1. CASE part \in {"edited", "overlapping"}
    <3>1. SeedBase /\ [Seed!Next]_Seed!vars
      BY <2>1, PartSteps DEF SeedHolds
    <3>2. Seed!SameObjects
      BY <3>1, OneStep DEF Seed!SameObjects
    <3>3. Seed!OnlyAccepted
      BY <3>1, ContentStep DEF Seed!OnlyAccepted
    <3>4. QED
      BY <3>2, <3>3
  <2>2. CASE part \notin {"edited", "overlapping"}
    <3>1. UNCHANGED seeding
      BY <2>2 DEF EvaluationNext, Runs, Seeds, Tries, everything
    <3>2. UNCHANGED Seed!vars
      BY <3>1 DEF seeding, Seed!vars, Seed!database, Seed!files, Seed!trouble
    <3>3. QED
      BY <3>2
  <2>3. QED
    BY <2>1, <2>2
<1>4. QED
  BY <1>1, <1>2, <1>3, PTL DEF EvaluationSpec, SeedsOnce, Seed!OneObject, Seed!ContentAccepted

\* Seeding by itself, with administrators who edit and locks that break in one behaviour: what an
\* administrator took away stays away, and objects and content are as above.  (Only the secrets
\* need one or the other to be absent; ledger.py, mutations.py 28-95, documents.py 39-101.)
THEOREM NothingGivenBack ==
  Seed!Spec => [](Seed!TypeOK /\ Seed!NeverGivenBack) /\ Seed!OneObject /\ Seed!ContentAccepted
<1>1. Seed!Init => SeedBase
  BY SeedInit
<1>2. SeedBase /\ [Seed!Next]_Seed!vars => SeedBase'
  BY BaseStep
<1>3. SeedBase => Seed!TypeOK /\ Seed!NeverGivenBack
  <2> SUFFICES ASSUME SeedBase PROVE Seed!TypeOK /\ Seed!NeverGivenBack
    OBVIOUS
  <2>1. Seed!TypeOK
    BY DEF SeedBase, SeedTypes
  <2>2. Seed!NeverGivenBack
    BY <2>1 DEF SeedBase, Seed!TypeOK, Registered, Seed!NeverGivenBack
  <2>3. QED
    BY <2>1, <2>2
<1>4. SeedBase /\ [Seed!Next]_Seed!vars => [Seed!SameObjects]_Seed!vars /\ [Seed!OnlyAccepted]_Seed!vars
  <2> SUFFICES ASSUME SeedBase, [Seed!Next]_Seed!vars
               PROVE  Seed!SameObjects /\ Seed!OnlyAccepted
    OBVIOUS
  <2>1. Seed!SameObjects
    BY OneStep DEF Seed!SameObjects
  <2>2. Seed!OnlyAccepted
    BY ContentStep DEF Seed!OnlyAccepted
  <2>3. QED
    BY <2>1, <2>2
<1>5. QED
  BY <1>1, <1>2, <1>3, <1>4, PTL DEF Seed!Spec, Seed!OneObject, Seed!ContentAccepted
=============================================================================
