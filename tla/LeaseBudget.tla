----------------------------- MODULE LeaseBudget -----------------------------
(***************************************************************************)
(* The time of one reserved question.  Its lease is not renewed: it has to *)
(* outlive every attempt, each under its own deadline, and the recovery of *)
(* the model's server, which is shielded from that deadline.               *)
(***************************************************************************)
EXTENDS Naturals

CONSTANTS Attempts,   \* GENERATION_MAX_ATTEMPTS
          Generation, \* generation_timeout_seconds
          Recovery,   \* INFERENCE_RECOVERY_SECONDS
          Lease,      \* pending_lease_seconds
          MaxOutside  \* bound on the time spent outside of the attempts

ASSUME BudgetAssumption ==
  /\ Attempts \in Nat \ {0} /\ Generation \in Nat /\ Recovery \in Nat /\ MaxOutside \in Nat
  /\ Lease \in Nat

validate_generation_budget == Lease > Attempts * Generation + Recovery

ASSUME BudgetValid == validate_generation_budget

VARIABLES stage,   \* what the handler is doing
          attempt, \* the number of the attempt, the first is 1
          sent,    \* the request may have reached the model's server
          kept,    \* the attempt has an answer to release
          spent, recovering, \* time in this attempt; in the recovery after it
          outside, \* time in the transactions around the attempts
          clock,   \* time since the reservation
          outcome

steps == <<attempt, sent, kept, outcome>>
vars == <<stage, attempt, sent, kept, spent, recovering, outside, clock, outcome>>

Init ==
  /\ stage = "preparing" /\ attempt = 1 /\ sent = FALSE /\ kept = FALSE
  /\ spent = 0 /\ recovering = 0 /\ outside = 0 /\ clock = 0
  /\ outcome = "pending"

Lapsed == clock >= Lease

\* Mutant: the deadline is that of the model's adapter alone.
InferenceDeadline == stage = "inferring" => spent < Generation
WithinDeadline == spent < Generation

Tick ==
  /\ clock' = clock + 1
  /\ \/ /\ stage \in {"preparing", "active", "inferring"} /\ WithinDeadline
        /\ spent' = spent + 1 /\ UNCHANGED <<recovering, outside>>
     \/ /\ stage = "recovering" /\ recovering < Recovery
        /\ recovering' = recovering + 1 /\ UNCHANGED <<spent, outside>>
     \/ /\ stage = "completing" /\ outside < MaxOutside
        /\ outside' = outside + 1 /\ UNCHANGED <<spent, recovering>>
  /\ UNCHANGED <<stage, steps>>

LeaseActive == ~Lapsed

\* The lease and the sources are read for the last time before the model is called.
_active ==
  /\ stage = "preparing" /\ LeaseActive
  /\ stage' = "active"
  /\ UNCHANGED <<steps, spent, recovering, outside, clock>>

\* The transaction ends and the model is called, by when the lease may have lapsed.
_infer ==
  /\ stage = "active"
  /\ stage' = "inferring"
  /\ UNCHANGED <<steps, spent, recovering, outside, clock>>

Dispatch ==
  /\ stage = "inferring" /\ ~sent
  /\ sent' = TRUE
  /\ UNCHANGED <<stage, attempt, kept, spent, recovering, outside, clock, outcome>>

Answer ==
  /\ stage = "inferring" /\ sent
  /\ kept' = TRUE /\ stage' = "completing"
  /\ UNCHANGED <<attempt, sent, spent, recovering, outside, clock, outcome>>

\* Nothing to ask, an error, or the deadline.  What may have been sent is
\* recovered, in time of its own.
Fail ==
  /\ stage \in {"preparing", "active", "inferring"}
  /\ stage' = IF sent THEN "recovering" ELSE "completing"
  /\ UNCHANGED <<steps, spent, recovering, outside, clock>>

Recovered ==
  /\ stage = "recovering"
  /\ stage' = "completing"
  /\ UNCHANGED <<steps, spent, recovering, outside, clock>>

Again == kept /\ attempt < Attempts

\* Only an answer found stale is discarded for another attempt.
Stale ==
  /\ stage = "completing" /\ Again /\ ~Lapsed
  /\ attempt' = attempt + 1 /\ stage' = "preparing"
  /\ sent' = FALSE /\ kept' = FALSE /\ spent' = 0 /\ recovering' = 0
  /\ UNCHANGED <<outside, clock, outcome>>

Complete ==
  /\ stage = "completing"
  /\ outcome' = IF Lapsed THEN "interrupted" ELSE IF kept THEN "answered" ELSE "neutral"
  /\ stage' = "done"
  /\ UNCHANGED <<attempt, sent, kept, spent, recovering, outside, clock>>

Next == Tick \/ _active \/ _infer \/ Dispatch \/ Answer \/ Fail \/ Recovered \/ Stale \/ Complete

Spec == Init /\ [][Next]_vars
------------------------------------------------------------------------------
TypeOK ==
  /\ stage \in {"preparing", "active", "inferring", "recovering", "completing", "done"}
  /\ attempt \in 1..Attempts
  /\ sent \in BOOLEAN /\ kept \in BOOLEAN
  /\ spent \in 0..Generation /\ recovering \in 0..Recovery /\ outside \in 0..MaxOutside
  /\ clock \in Nat
  /\ outcome \in {"pending", "answered", "neutral", "interrupted"}

(***************************************************************************)
(* A reservation never lapses because of its own attempts and their        *)
(* recovery: when it has, what is missing was spent in the transactions    *)
(* around them (config.py 76-84, ollama.py 228-247).                       *)
(***************************************************************************)
LapsesOutside ==
  Lapsed => outside > 0 /\ outside >= Lease - (Attempts * Generation + Recovery)
==============================================================================
