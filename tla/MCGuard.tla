------------------------------- MODULE MCGuard -------------------------------
(***************************************************************************)
(* The guard package (EvidenceGuard) and the standalone host that shows it *)
(* (GuardHost, whose reader and guard answer in one step).  The two have   *)
(* no state in common and share a run: each behaviour is about one part.   *)
(***************************************************************************)
EXTENDS GuardHost, TLC

CONSTANTS old, new, other,    \* rows: two versions of one document, and another document
          Refs, MaxChunks, MaxTurns, max_context_tokens, max_prior_turns, MaxChanges

VARIABLES part, allowed, standing, chunks, pairs, window, at, expected, bound, answer

guard == <<allowed, standing, chunks, pairs, window, at, expected, bound, answer>>

TwoVersions == [s \in {old, new, other} |-> IF s = other THEN "other" ELSE "demo"]

Guard == INSTANCE EvidenceGuard WITH
  MaxRevision <- MaxChanges, policy <- allowed, turns <- pairs, prepared <- bound

ASSUME ContextAssumption == Guard!GuardAssumption

MCInit ==
  /\ part \in {"host", "guard"}
  /\ Init /\ Guard!Init
  /\ part = "host" => allowed = <<{}>>

Hosts == part = "host" /\ Next /\ UNCHANGED <<part, guard>>
Guards == part = "guard" /\ Guard!Next /\ UNCHANGED <<part, vars>>

MCSpec == MCInit /\ [][Hosts \/ Guards]_<<part, vars, guard>>

(***************************************************************************)
(* A prepared context is of one revision: all its chunks and all sources   *)
(* of its history were allowed then, although each was asked about at a    *)
(* time of its own; and the history kept is the newest part of what        *)
(* passed, in order, with no pair dropped that fits.                       *)
(***************************************************************************)
ContextIsOfOneRevision == Guard!GuardInv

(***************************************************************************)
(* An answer is released only to an owner whose access, at the revision it *)
(* was prepared under and still in force, covers every source of the       *)
(* unaltered and canonical context.                                        *)
(***************************************************************************)
ReleaseIsCurrent == Guard!ReleaseIsCurrent

Symmetric == Permutations(Tasks) \union Permutations(Refs)
==============================================================================
