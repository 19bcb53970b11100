----------------------------- MODULE MCAdmission -----------------------------
(***************************************************************************)
(* Who is let in and for how long: the time of a reservation (LeaseBudget) *)
(* and logging in (Authentication), once with the rate limits tight and    *)
(* once with the challenges and the user contested.  The parts have no     *)
(* state in common and share a run: each behaviour is about one of them.   *)
(***************************************************************************)
EXTENDS LeaseBudget, FiniteSets, TLC

CONSTANTS Users, Volatile, User, Peers, Requests, Challenges,
          PeerLimit, AccountLimit, CHALLENGE_CAP, Window, Second, MaxNow, None

VARIABLES part, now, active, attempts, challenge, request, sessions, passes, used

login == <<now, active, attempts, challenge, request, sessions, passes, used>>

Login == INSTANCE Authentication WITH spent <- used

ASSUME LoginAssumption == Login!AuthAssumption

MCInit ==
  /\ part \in {"lease", "limits", "contest"}
  /\ Init /\ Login!Init

Leases == part = "lease" /\ Next /\ UNCHANGED <<part, login>>

\* One login after another, of any user.
Limited ==
  /\ part = "limits" /\ Login!Next
  /\ Cardinality({r \in Requests : request'[r].at # "idle"}) <= 1
  /\ Cardinality({k \in Challenges : challenge'[k].state # "absent"}) <= 1
  /\ active' = active
  /\ UNCHANGED <<part, vars>>

\* Bound on the clock of a contest: the end of a challenge and of a window.
ContestEnds == 3

\* Several logins of one user.
Contested ==
  /\ part = "contest" /\ Login!Next
  /\ now' <= ContestEnds
  /\ \A r \in Requests : request'[r].user \in {User, None}
  /\ UNCHANGED <<part, vars>>

MCSpec == MCInit /\ [][Leases \/ Limited \/ Contested]_<<part, vars, login>>

(***************************************************************************)
(* However many requests race, and whatever the clean-up deletes, no more  *)
(* passwords are tried in a window than the limits say, per peer and per   *)
(* account; and a refused attempt uses up nothing of its peer's.           *)
(***************************************************************************)
LimitsHold == Login!AttemptsBounded /\ Login!RefusalsCostNothing

(***************************************************************************)
(* A challenge lets one password check through, whichever requests present *)
(* it and however they fail; who waits as long as Retry-After says meets a *)
(* fresh window.                                                           *)
(***************************************************************************)
ChallengesHold == Login!TypeOK /\ Login!OneUse /\ Login!RetryIsEnough

(***************************************************************************)
(* Attempts at a password are counted before they are made: those of the   *)
(* window against the limits, and each against its one-time challenge.     *)
(***************************************************************************)
AttemptsCounted == LimitsHold /\ ChallengesHold

(***************************************************************************)
(* A session is created only for a user who is active at that moment,      *)
(* whatever was read before the password was checked.                      *)
(***************************************************************************)
SessionsOfActive == Login!SessionsOfActive

Symmetric ==
  Permutations(Users \ Volatile) \union Permutations(Requests) \union Permutations(Challenges)
==============================================================================
