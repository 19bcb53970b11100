----------------------------- MODULE Evaluation -----------------------------
(***************************************************************************)
(* Preparing and measuring the demonstration: commands that own a run's    *)
(* files (RunLifecycle), commands that seed the database (DemoSeed), and   *)
(* the trial of a case on both arms (ArmComparison).  They have no state   *)
(* in common: each behaviour is about one part.                            *)
(***************************************************************************)
EXTENDS RunLifecycle

CONSTANTS Keys, Kind, Admin, Needs, FirstKeys, Own, Foreign, MaxEdits, MaxInputs, \* of the seeding
          Docs, Cases                                                             \* of the comparison

VARIABLES part,
          schema, ownedBy, objects, ledger, ids, journal, additions, accounts, input, lock, run,
          edits, removed,
          case, template, order, records, granted, active, session, revision, turns, pos, at,
          attempt, lapsed, fault, outage, ordering, happened, seen, witnesses, attempts

seeding == <<schema, ownedBy, objects, ledger, ids, journal, additions, accounts, input, lock, run,
             edits, removed>>
trying == <<case, template, order, records, granted, active, session, revision, turns, pos, at,
            attempt, lapsed, fault, outage, ordering, happened, seen, witnesses, attempts>>
everything == <<part, vars, seeding, trying>>

Seed == INSTANCE DemoSeed WITH marker <- ownedBy, rows <- objects
Trial == INSTANCE ArmComparison

ASSUME SeedIsPossible == Seed!SeedAssumption
ASSUME TrialIsPossible == Trial!ComparisonAssumption

------------------------------------------------------------------------------
\* A trial that is not run.
NoTrial ==
  /\ case = <<>> /\ template = {} /\ order = <<"baseline", "guarded">>
  /\ records = <<>> /\ Trial!Clean({})

EvaluationInit ==
  /\ part \in {"run", "edited", "overlapping", "trial"}
  /\ Init /\ Seed!Init
  /\ IF part = "trial" THEN Trial!Init ELSE NoTrial

Runs == part = "run" /\ Next /\ UNCHANGED <<part, seeding, trying>>
\* Commands that hold their lock, beside administrators who edit; or commands whose
\* lock breaks, so that two overlap: here new content is all that is put in.
Seeds ==
  /\ UNCHANGED <<part, vars, trying>>
  /\ \/ part = "edited" /\ Seed!Steps
     \/ part = "overlapping" /\ Seed!Next /\ input'.keys = input.keys /\ edits' = edits
Tries == part = "trial" /\ Trial!Next /\ UNCHANGED <<part, vars, seeding>>

EvaluationNext == Runs \/ Seeds \/ Tries

EvaluationSpec == EvaluationInit /\ [][EvaluationNext]_everything

(***************************************************************************)
(* What the files, the database and the evidence say is true.  A unit of a *)
(* run is asked at most once and never forgotten over every command that   *)
(* dies and is resumed, and whichever write was the last one, the run can  *)
(* be resumed.  Seeding loses no secret, gives back nothing that an        *)
(* administrator took away, and reports what is there, unless its lock     *)
(* broke and another command wrote in between.  The guarded arm exposes    *)
(* nothing its user may not read, neither arm anything forged, and the     *)
(* evidence says what happened in which order.                             *)
(***************************************************************************)
RecordsAreTrue ==
  /\ part = "run" => RunInv
  /\ part \in {"edited", "overlapping"} => Seed!SeedInv
  /\ part = "edited" => Seed!ReportedIsApplied
  /\ part = "trial" => Trial!ArmInv

(***************************************************************************)
(* Commands that crash, are resumed and overlap seed each object once, and *)
(* replace content only by what was accepted.                              *)
(***************************************************************************)
SeedsOnce == Seed!OneObject /\ Seed!ContentAccepted
=============================================================================
