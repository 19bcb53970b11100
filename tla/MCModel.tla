------------------------------- MODULE MCModel -------------------------------
(***************************************************************************)
(* The language model: who owns its process (ModelSupervisor) and what the *)
(* status page says of it (SystemReadiness).  The two have no state in     *)
(* common and share a run: each behaviour is about one part.               *)
(***************************************************************************)
EXTENDS ModelSupervisor, FiniteSets, TLC

CONSTANTS First,                     \* the API process that may crash, of two alike
          Callers, Chats, TTL, PROBE \* of the status page

VARIABLES part,
          online, quarantined, working, claim, available, ready, accepted, age, holder,
          at, chat, calm, seen, probe

readiness == <<online, quarantined, working, claim, available, ready, accepted, age, holder,
               at, chat, calm, seen, probe>>

Page == INSTANCE SystemReadiness WITH busy <- working

ASSUME PageAssumption == Page!ReadinessAssumption

MCInit ==
  /\ part \in {"crashes", "operator", "asked", "used"}
  /\ Init /\ Page!Init
  /\ part \in {"asked", "used"} => file = NoFile
  /\ part \notin {"asked", "used"} => online

Rests(p) ==
  /\ owner'[p] = owner[p]
  /\ \A kind \in {"work", "close"} : thread'[<<p, kind>>] = thread[<<p, kind>>]
  /\ p \in Apis => request'[p] = request[p] /\ admission'[p] = admission[p]

\* Two API processes, one after a crash of the other or beside it.
Crashes ==
  /\ part = "crashes" /\ Next
  /\ \A o \in Operators : Rests(o)
  /\ crashes' # crashes => \A p \in Apis \ {First} : Rests(p)
  /\ UNCHANGED <<part, readiness>>

\* One API process beside the operator's command lines.
Operates ==
  /\ part = "operator" /\ Next
  /\ \A p \in Apis \ {First} : Rests(p)
  /\ UNCHANGED <<part, readiness>>

\* Several requests for the status beside one generation after another, and one
\* request after another beside several generations.  The troubles may go on: that
\* they end matters to Recovers only.
Shows ==
  /\ part \in {"asked", "used"} /\ Page!Next
  /\ part = "asked" => Cardinality({g \in Chats : chat'[g] # "idle"}) <= 1
  /\ part = "used" => Cardinality({c \in Callers : at'[c] # "idle"}) <= 1
  /\ ~calm'
  /\ UNCHANGED <<part, vars>>

MCSpec == MCInit /\ [][Crashes \/ Operates \/ Shows]_<<part, vars, readiness>>

(***************************************************************************)
(* A working model is not a missing one: a probe during which the model    *)
(* stayed online and no generation ended does not end in failure when no   *)
(* claim is there or a working generation's is, however its reads fall     *)
(* around the beginning of a generation (system_status.py 109-120).        *)
(***************************************************************************)
WorkingIsNotMissing == [][Page!FailsForCause]_readiness

(***************************************************************************)
(* The page says ready only of a model that some probe saw less than TTL   *)
(* ago, or that works on an admitted generation: a probe that timed out or *)
(* was abandoned halfway leaves no old answer behind for the next one.     *)
(***************************************************************************)
ReadyIsRecent == [][Page!SaysRecent]_readiness

Symmetric == Permutations(Engines) \union Permutations(Callers) \union Permutations(Chats)
==============================================================================
