--------------------------- MODULE PolicySource ----------------------------
(***************************************************************************)
(* What one user's requests can see of the access policy: its revision,    *)
(* the sources the user may read and the sessions the user may use.        *)
(*                                                                         *)
(* ChatTurns takes these actions as its environment; AccessPolicy shows    *)
(* that the administration of users, grants and documents is one.          *)
(***************************************************************************)
EXTENDS Naturals

CONSTANTS
    Refs,     \* sources
    Sessions  \* sessions of the user

VARIABLES
    revision, \* policy_state.revision
    readable, \* the sources the user may read
    enabled,  \* the user's is_active
    live      \* the user's sessions, neither revoked nor expired

source == <<revision, readable, enabled, live>>

Init ==
    /\ revision \in Nat
    /\ readable \in SUBSET Refs
    /\ enabled \in BOOLEAN
    /\ live \in SUBSET Sessions

\* Whatever an administrator does, it is one new revision.  A disabled user's
\* sessions are kept and serve again once the user is enabled.
Mutate ==
    /\ revision' = revision + 1
    /\ readable' \in SUBSET Refs
    /\ enabled' \in BOOLEAN
    /\ UNCHANGED live

\* Logout, or revocation by an administrator.
Revoke(s) ==
    /\ s \in live
    /\ revision' = revision + 1
    /\ live' = live \ {s}
    /\ UNCHANGED <<readable, enabled>>

\* Idle or absolute expiry is not a change of policy.
Expire(s) ==
    /\ s \in live
    /\ live' = live \ {s}
    /\ UNCHANGED <<revision, readable, enabled>>

\* Only a user enabled at that moment can log in.
Login(s) ==
    /\ enabled
    /\ s \notin live
    /\ live' = live \cup {s}
    /\ UNCHANGED <<revision, readable, enabled>>

Next == Mutate \/ \E s \in Sessions : Revoke(s) \/ Expire(s) \/ Login(s)

Spec == Init /\ [][Next]_source
============================================================================
