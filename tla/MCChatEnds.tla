----------------------------- MODULE MCChatEnds -----------------------------
(***************************************************************************)
(* What ends in ChatTurns: with fair handlers alone, and with one handler  *)
(* and an owner who keeps retrying.  Nothing passes from one part to the   *)
(* other: they share a run.                                                *)
(***************************************************************************)
EXTENDS ChatTurns

CONSTANTS Contested, \* the requests of the part about several handlers
          Survivor   \* the handler of the part about the owner

VARIABLE part        \* the part this behaviour is about

MCInit == part \in {"handlers", "owner"} /\ Init

Handlers ==
    /\ part = "handlers"
    /\ Next
    /\ \A r \in Requests \ Contested : turn'[r] = turn[r]
    /\ UNCHANGED part

Owner ==
    /\ part = "owner"
    /\ Next
    /\ \A w \in Workers \ {Survivor} : worker'[w] = worker[w]
    /\ UNCHANGED part

\* Only the second part has somebody act who need not: time passes, and the
\* owner logs in again and keeps retrying.
ByOwner(A) == part = "owner" /\ A

MCSpec ==
    /\ MCInit /\ [][Handlers \/ Owner]_<<part, vars>>
    /\ FairHandlers
    /\ WF_vars(ByOwner(Tick))
    /\ \A s \in Sessions : WF_vars(ByOwner(Login(s)))
    /\ \A r \in Requests : SF_vars(ByOwner(Retry(r)))

\* A reservation whose handler died is settled by its owner's retries: no
\* crash blocks a conversation for ever, although nothing runs in the
\* background to expire leases.  An owner disabled for good never comes back.
ReservationsSettle ==
    \A r \in Requests : ByOwner(Pending(r)) ~> Terminal(turn[r]) \/ ~enabled
=============================================================================
