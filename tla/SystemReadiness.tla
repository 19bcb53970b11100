--------------------------- MODULE SystemReadiness ---------------------------
(***************************************************************************)
(* What the status page says about the local model, and what admission     *)
(* believes.  A metadata probe is cached for a while behind one lock; each *)
(* of its reads is an await at which the model, the generations and the    *)
(* callers go on.  Chat requests recheck an offline model by a probe of    *)
(* their own before they acquire the one generation permit.                *)
(***************************************************************************)
EXTENDS Naturals

CONSTANTS Callers, \* requests for the system status
          Chats,   \* requests that generate
          TTL,     \* READINESS_TTL_SECONDS in ticks
          PROBE,   \* PROBE_SECONDS in ticks
          None

ReadinessAssumption ==
  None \notin Callers \union Chats /\ TTL \in Nat /\ PROBE \in 1..(TTL - 1)

VARIABLES online,      \* the model's server answers
          quarantined, \* the runtime is closed or its model uncertain
          busy,        \* holder of the generation permit
          claim,       \* of the supervisor: "none"; "failed", its flag alone; "written",
                       \* in the ownership file too; "live", and remembered as its own
          available,   \* the runtime's _model_available
          ready, accepted, age, \* the cache: its flags, and ticks since _checked_at
          holder,      \* who holds the cache's lock
          at,          \* where each caller is
          chat,        \* where each generation is
          calm,        \* the environment's troubles are over and nobody generates anew
          seen,        \* ticks since a probe last saw the model
          probe        \* what happened during the current probe

cache == <<ready, accepted, age, holder>>
world == <<online, quarantined, calm>>
vars == <<online, quarantined, busy, claim, available, ready, accepted, age, holder,
          at, chat, calm, seen, probe>>

Quiet == [down |-> FALSE, ended |-> FALSE]
AtMost(a, b) == IF a < b THEN a ELSE b
Goes(c, where) == at' = [at EXCEPT ![c] = where]
ChatGoes(g, where) == chat' = [chat EXCEPT ![g] = where]

Init ==
  /\ online \in BOOLEAN
  /\ quarantined = FALSE /\ busy = None /\ claim = "none"
  /\ available = online
  /\ ready = FALSE /\ accepted = FALSE /\ age = TTL /\ holder = None
  /\ at = [c \in Callers |-> "idle"]
  /\ chat = [g \in Chats |-> "idle"]
  /\ calm = FALSE
  /\ seen = IF online THEN 0 ELSE TTL
  /\ probe = Quiet

\* InferenceRuntime.snapshot().generation, with busy before unavailable metadata.
Generation ==
  IF quarantined THEN "unavailable"
  ELSE IF busy # None THEN "busy"
  ELSE IF ~available THEN "unavailable" ELSE "ready"

\* OllamaSupervisor.status and has_live_inference_claim.
StatusReady == online /\ claim = "none"
LiveClaim == online /\ claim = "live"

------------------------------------------------------------------------------
(* SystemReadiness.snapshot and _probe_model.                              *)

Ask(c) ==
  /\ at[c] \in {"idle", "ready", "unavailable"}
  /\ Goes(c, "waiting")
  /\ UNCHANGED <<world, busy, claim, available, cache, chat, seen, probe>>

Says(model) == IF model /\ Generation # "unavailable" THEN "ready" ELSE "unavailable"
Cached == ready \/ (accepted /\ Generation = "busy")

\* A fresh cache is projected without an await in between.
Fresh(c) ==
  /\ at[c] = "waiting" /\ holder = None /\ age < TTL
  /\ Goes(c, Says(Cached))
  /\ UNCHANGED <<world, busy, claim, available, cache, chat, seen, probe>>

\* Mutant: the flags stay until the probe has replaced them.
Kept(flag) == flag
Cleared(flag) == FALSE

\* The age and the flags are set before the first await.
Begin(c) ==
  /\ at[c] = "waiting" /\ holder = None /\ age >= TTL
  /\ age' = 0 /\ ready' = Cleared(ready) /\ accepted' = Cleared(accepted)
  /\ probe' = [down |-> ~online \/ quarantined, ended |-> FALSE]
  /\ IF quarantined
     THEN Goes(c, "failed")
     ELSE Goes(c, IF busy # None THEN "active" ELSE "status")
  /\ holder' = c
  /\ UNCHANGED <<world, busy, claim, available, chat, seen>>

ReadActive(c) ==
  /\ at[c] = "active"
  /\ Goes(c, IF LiveClaim THEN "accept" ELSE "status")
  /\ UNCHANGED <<world, busy, claim, available, cache, chat, seen, probe>>

\* Mutant: a status that is not ready is final.
RecheckNothing == "failed"
Rechecked == "recheck"

ReadStatus(c) ==
  /\ at[c] = "status"
  /\ Goes(c, IF StatusReady THEN "accept" ELSE Rechecked)
  /\ UNCHANGED <<world, busy, claim, available, cache, chat, seen, probe>>

\* A generation may have claimed the model since: that is no failure.
Recheck(c) ==
  /\ at[c] = "recheck"
  /\ Goes(c, IF ~quarantined /\ busy # None THEN "reclaim" ELSE "failed")
  /\ UNCHANGED <<world, busy, claim, available, cache, chat, seen, probe>>

ReadClaim(c) ==
  /\ at[c] = "reclaim"
  /\ Goes(c, IF LiveClaim THEN "accept" ELSE "failed")
  /\ UNCHANGED <<world, busy, claim, available, cache, chat, seen, probe>>

Accept(c) ==
  /\ at[c] = "accept"
  /\ accepted' = (busy # None)
  /\ Goes(c, "verify")
  /\ UNCHANGED <<world, busy, claim, available, ready, age, holder, chat, seen, probe>>

Verify(c) ==
  /\ at[c] = "verify"
  /\ ready' = online
  /\ seen' = IF online THEN 0 ELSE seen
  /\ Goes(c, "search")
  /\ UNCHANGED <<world, busy, claim, available, accepted, age, holder, chat, probe>>

Fail(c) ==
  /\ at[c] = "failed"
  /\ ready' = FALSE
  /\ Goes(c, "search")
  /\ UNCHANGED <<world, busy, claim, available, accepted, age, holder, chat, seen, probe>>

\* Search is probed last; only then does admission learn of the model.
Publish(c) ==
  /\ at[c] = "search"
  /\ available' = ready
  /\ holder' = None
  /\ LET generation == IF quarantined THEN "unavailable" ELSE IF busy # None THEN "busy"
                       ELSE IF ready THEN "ready" ELSE "unavailable" IN
     Goes(c, IF (ready \/ (accepted /\ generation = "busy")) /\ generation # "unavailable"
             THEN "ready" ELSE "unavailable")
  /\ UNCHANGED <<world, busy, claim, ready, accepted, age, chat, seen, probe>>

Inside(c) == at[c] \notin {"idle", "ready", "unavailable"}

\* Five seconds are over, in the queue for the lock or in the probe.
\* Mutant: the lock is not given back.
KeptLock(c) == holder
Released(c) == IF holder = c THEN None ELSE holder

TimeOut(c) ==
  /\ ~calm /\ Inside(c)
  /\ holder' = Released(c)
  /\ available' = FALSE
  /\ Goes(c, IF accepted /\ ~quarantined /\ busy # None THEN "ready" ELSE "unavailable")
  /\ UNCHANGED <<world, busy, claim, ready, accepted, age, chat, seen, probe>>

\* The client went away.
Leave(c) ==
  /\ ~calm /\ Inside(c)
  /\ holder' = Released(c)
  /\ Goes(c, "idle")
  /\ UNCHANGED <<world, busy, claim, available, ready, accepted, age, chat, seen, probe>>

------------------------------------------------------------------------------
(* ensure_llm_available, initialize_llm and the permit.                    *)

Ensure(g) ==
  /\ chat[g] = "idle" /\ ~quarantined /\ busy = None
  /\ ~calm
  /\ ChatGoes(g, IF available THEN "admit" ELSE "status")
  /\ UNCHANGED <<world, busy, claim, available, cache, at, seen, probe>>

\* Its own probe, without the cache's lock and without its flags.
InitStatus(g) ==
  /\ chat[g] = "status"
  /\ \/ /\ StatusReady
        /\ ChatGoes(g, "verify") /\ UNCHANGED available
     \/ /\ ~StatusReady \/ ~calm
        /\ ChatGoes(g, "idle") /\ available' = FALSE
  /\ UNCHANGED <<world, busy, claim, cache, at, seen, probe>>

InitVerify(g) ==
  /\ chat[g] = "verify"
  /\ \/ /\ online
        /\ ChatGoes(g, "verified") /\ seen' = 0 /\ UNCHANGED available
     \/ /\ ~online \/ ~calm
        /\ ChatGoes(g, "idle") /\ available' = FALSE /\ UNCHANGED seen
  /\ UNCHANGED <<world, busy, claim, cache, at, probe>>

InitDone(g) ==
  /\ chat[g] = "verified"
  /\ available' = TRUE
  /\ ChatGoes(g, "admit")
  /\ UNCHANGED <<world, busy, claim, cache, at, seen, probe>>

Acquire(g) ==
  /\ chat[g] = "admit"
  /\ IF Generation = "ready"
     THEN busy' = g /\ ChatGoes(g, "busy")
     ELSE ChatGoes(g, "idle") /\ UNCHANGED busy
  /\ UNCHANGED <<world, claim, available, cache, at, seen, probe>>

(* begin_inference marks itself, writes, and remembers, in a thread of its own.     *)

MarkFailed(g) ==
  /\ chat[g] = "busy" /\ claim \in {"none", "failed"}
  /\ claim' = "failed"
  /\ ChatGoes(g, "claiming")
  /\ UNCHANGED <<world, busy, available, cache, at, seen, probe>>

Write(g) ==
  /\ chat[g] = "claiming" /\ claim = "failed" /\ online
  /\ claim' = "written"
  /\ UNCHANGED <<world, busy, available, cache, at, chat, seen, probe>>

Remember(g) ==
  /\ chat[g] = "claiming" /\ claim = "written"
  /\ claim' = "live"
  /\ ChatGoes(g, "claimed")
  /\ UNCHANGED <<world, busy, available, cache, at, seen, probe>>

\* It raises, on a claim that somebody left as well, and the runtime is closed to others.
Refused(g) ==
  /\ ~calm
  /\ chat[g] = "claiming" \/ (chat[g] = "busy" /\ claim \in {"written", "live"})
  /\ ChatGoes(g, "over")
  /\ quarantined' = TRUE /\ probe' = [down |-> TRUE, ended |-> TRUE]
  /\ UNCHANGED <<online, calm, busy, claim, available, cache, at, seen>>

\* A request cancelled before anything was sent keeps its claim; one that failed
\* after that closes the runtime and leaves the claim to the recovery.
Abandon(g) ==
  /\ ~calm
  /\ chat[g] = "claimed"
  /\ ChatGoes(g, "over")
  /\ quarantined' \in {quarantined, TRUE}
  /\ probe' = [down |-> probe.down \/ quarantined', ended |-> TRUE]
  /\ UNCHANGED <<online, calm, busy, claim, available, cache, at, seen>>

\* complete_inference, or the stop of a recovery: the file first, then the flag.
Unwrite(g) ==
  /\ chat[g] = "claimed"
  /\ claim' = "failed"
  /\ ChatGoes(g, "completing")
  /\ probe' = [probe EXCEPT !.ended = TRUE]
  /\ UNCHANGED <<world, busy, available, cache, at, seen>>

Unmark(g) ==
  /\ chat[g] = "completing"
  /\ claim' = "none"
  /\ ChatGoes(g, "over")
  /\ probe' = [probe EXCEPT !.ended = TRUE]
  /\ UNCHANGED <<world, busy, available, cache, at, seen>>

\* A generation that failed before it asked for its claim gives back the permit too.
Release(g) ==
  /\ chat[g] \in {"busy", "over"}
  /\ busy' = None
  /\ ChatGoes(g, "idle")
  /\ probe' = [probe EXCEPT !.ended = TRUE]
  /\ UNCHANGED <<world, claim, available, cache, at, seen>>

------------------------------------------------------------------------------
\* A quarantine ends with a recovery or a new engine, which has no claims.
Reset == IF \E g \in Chats : chat[g] \in {"claiming", "claimed", "completing"}
         THEN claim ELSE "none"

Flip ==
  /\ ~calm
  /\ \/ online' = ~online /\ UNCHANGED <<quarantined, calm, claim>>
     \/ ~quarantined /\ quarantined' = TRUE /\ UNCHANGED <<online, calm, claim>>
     \/ quarantined' = FALSE /\ claim' = Reset
        /\ \/ quarantined /\ UNCHANGED <<online, calm>>
           \/ online' = TRUE /\ calm' = TRUE
  /\ probe' = [probe EXCEPT !.down = TRUE]
  /\ UNCHANGED <<busy, available, cache, at, chat, seen>>

\* No probe outlives its five seconds.
Tick ==
  /\ holder # None => age < PROBE
  /\ age' = AtMost(age + 1, TTL)
  /\ seen' = AtMost(seen + 1, TTL)
  /\ <<age, seen>> # <<TTL, TTL>>
  /\ UNCHANGED <<world, busy, claim, available, ready, accepted, holder, at, chat, probe>>

Probe(c) ==
  \/ Fresh(c) \/ Begin(c) \/ ReadActive(c) \/ ReadStatus(c) \/ Recheck(c) \/ ReadClaim(c)
  \/ Accept(c) \/ Verify(c) \/ Fail(c) \/ Publish(c)

Generate(g) ==
  \/ Ensure(g) \/ InitStatus(g) \/ InitVerify(g) \/ InitDone(g) \/ Acquire(g)
  \/ MarkFailed(g) \/ Write(g) \/ Remember(g) \/ Refused(g) \/ Abandon(g)
  \/ Unwrite(g) \/ Unmark(g) \/ Release(g)

Next ==
  \/ \E c \in Callers : Ask(c) \/ Probe(c) \/ TimeOut(c) \/ Leave(c)
  \/ \E g \in Chats : Generate(g)
  \/ Flip \/ Tick

Spec == Init /\ [][Next]_vars
------------------------------------------------------------------------------
TypeOK ==
  /\ {online, quarantined, available, ready, accepted, calm} \subseteq BOOLEAN
  /\ claim \in {"none", "failed", "written", "live"}
  /\ busy \in Chats \union {None}
  /\ holder \in Callers \union {None}
  /\ age \in 0..TTL /\ seen \in 0..TTL
  /\ at \in [Callers -> {"idle", "waiting", "active", "status", "recheck", "reclaim", "accept",
                         "verify", "failed", "search", "ready", "unavailable"}]
  /\ chat \in [Chats -> {"idle", "status", "verify", "verified", "admit", "busy",
                         "claiming", "claimed", "completing", "over"}]
  /\ probe \in [down : BOOLEAN, ended : BOOLEAN]
  /\ \A c \in Callers :
       at[c] \in {"active", "status", "recheck", "reclaim", "accept", "verify", "failed", "search"}
         <=> holder = c

(***************************************************************************)
(* The page says ready only of a model that some probe saw less than TTL   *)
(* ago, or that works on an admitted generation: a probe that timed out or *)
(* was abandoned halfway leaves no old answer behind (system_status.py     *)
(* 55-83).                                                                 *)
(***************************************************************************)
SaysRecent ==
  \A c \in Callers : (at[c] # "ready" /\ at'[c] = "ready") => seen < TTL \/ busy # None

\* Between two states of its claim, or with one whose generation is gone, the
\* supervisor's status and its live claim are both denied.
Unsettled == claim \in {"failed", "written"} \/ (claim = "live" /\ busy = None)

(***************************************************************************)
(* A working model is not a missing one: a probe during which the model    *)
(* stayed online and no generation ended does not end in failure when no   *)
(* claim is there or a working generation's is, however its reads fall     *)
(* around the beginning of a generation (system_status.py 109-120).        *)
(***************************************************************************)
FailsForCause ==
  \A c \in Callers :
    at[c] # "failed" /\ at'[c] = "failed" => probe'.down \/ probe'.ended \/ Unsettled

(***************************************************************************)
(* When the troubles end the page says ready again, whichever probes were  *)
(* cut short and whatever they left in the cache.                          *)
(***************************************************************************)
Recovers == \A c \in Callers : calm ~> at[c] = "ready"
==============================================================================
