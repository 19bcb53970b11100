---------------------------- MODULE Authentication ----------------------------
(***************************************************************************)
(* Logging in.  A login passes five transactions with an expensive         *)
(* password check between the last two: no session yet, room in two rate   *)
(* buckets, a one-use challenge, the stored hash, and the user once more.  *)
(* Time is counted in ticks, several to a second, so that rounding shows.  *)
(***************************************************************************)
EXTENDS Naturals, FiniteSets

CONSTANTS Users, Peers, Requests, Challenges,
          Volatile, \* users that an administrator switches on and off
          PeerLimit, AccountLimit, \* attempts per window: 20 and 5
          CHALLENGE_CAP,
          Window,   \* ten minutes, in ticks
          Second,   \* one second, in ticks
          MaxNow,   \* bound on the clock
          None

AuthAssumption ==
  /\ Volatile \subseteq Users
  /\ Window \in Nat \ {0} /\ Second \in Nat \ {0} /\ Window % Second = 0
  /\ Peers \intersect (Peers \X Users) = {}
  /\ {PeerLimit, AccountLimit, CHALLENGE_CAP, MaxNow} \subseteq Nat

VARIABLES now,
          active,    \* users that are active
          attempts,  \* auth_rate_buckets: the windows' counts by key
          challenge, \* auth_challenges
          request,   \* the requests in flight
          sessions,  \* sessions were created for these: [user, at]
          passes,    \* logins let through in this window, by peer and by peer and user
          spent      \* logins that each challenge let through

vars == <<now, active, attempts, challenge, request, sessions, passes, spent>>

Windows == 0..(MaxNow \div Window)
PeerKeys == {"bootstrap_ip", "login_ip"} \X Peers
AccountKeys == {"login_account_ip"} \X Peers \X Users
Keys == PeerKeys \union AccountKeys

Counted == Peers \union (Peers \X Users)

NoChallenge == [state |-> "absent", expires |-> 0]
Idle == [at |-> "idle", peer |-> None, user |-> None, key |-> None, verified |-> FALSE]

Init ==
  /\ now = 0
  /\ active = Users
  /\ attempts = [k \in Keys \X Windows |-> 0]
  /\ challenge = [k \in Challenges |-> NoChallenge]
  /\ request = [r \in Requests |-> Idle]
  /\ sessions = {}
  /\ passes = [l \in Counted |-> 0]
  /\ spent = [k \in Challenges |-> 0]

window == now \div Window

------------------------------------------------------------------------------
(* AuthLimits.reserve: clean-up and all buckets in one transaction.        *)

Stale(w) == w * Window + 2 * Window < now

Cleaned == [k \in DOMAIN attempts |-> IF Stale(k[2]) THEN 0 ELSE attempts[k]]

Full(old, buckets) == {b \in buckets : old[<<b[1], window>>] >= b[2]}

\* Each bucket that has room counts one more, and a full one undoes them all.
\* Mutant: the buckets before the full one keep their count.
ReservedPiecemeal(old, buckets) ==
  [k \in DOMAIN old |->
     IF k[2] = window /\ \E b \in buckets \ Full(old, buckets) : b[1] = k[1]
     THEN old[k] + 1 ELSE old[k]]
Reserved(old, buckets) ==
  IF Full(old, buckets) # {} THEN attempts
  ELSE [k \in DOMAIN old |->
          IF k[2] = window /\ \E b \in buckets : b[1] = k[1] THEN old[k] + 1 ELSE old[k]]

LoginBuckets(p, u) ==
  {<< <<"login_ip", p>>, PeerLimit>>, << <<"login_account_ip", p, u>>, AccountLimit>>}

\* Seconds to the end of the window, rounded up.
Retry(t) == (Window - (t % Window) + Second - 1) \div Second

Reserve(r) ==
  /\ request[r].at = "limits"
  /\ LET p == request[r].peer
         u == request[r].user
         buckets == LoginBuckets(p, u) IN
     /\ attempts' = Reserved(Cleaned, buckets)
     /\ IF Full(Cleaned, buckets) = {}
        THEN /\ request' = [request EXCEPT ![r].at = "challenge"]
             /\ passes' = [passes EXCEPT ![p] = @ + 1, ![<<p, u>>] = @ + 1]
        ELSE /\ request' = [request EXCEPT ![r] = Idle]
             /\ UNCHANGED passes
  /\ UNCHANGED <<now, active, challenge, sessions, spent>>

------------------------------------------------------------------------------
(* bootstrap and login.                                                    *)

\* A peer without a session: one bucket, then a challenge if the cap allows.
Bootstrap(r, p) ==
  /\ request[r] = Idle
  /\ LET bucket == {<< <<"bootstrap_ip", p>>, PeerLimit>>} IN
     /\ attempts' = Reserved(Cleaned, bucket)
     /\ IF Full(Cleaned, bucket) = {}
        THEN request' = [request EXCEPT ![r] = [Idle EXCEPT !.at = "create"]]
        ELSE UNCHANGED request
  /\ UNCHANGED <<now, active, challenge, sessions, passes, spent>>

\* A bounded batch of the expired challenges goes; the consumed ones still count.
Create(r) ==
  /\ request[r].at = "create"
  /\ \E gone \in SUBSET {k \in Challenges : challenge[k].expires <= now} :
       LET left == [k \in Challenges |-> IF k \in gone THEN NoChallenge ELSE challenge[k]] IN
       IF Cardinality({k \in Challenges : left[k].expires > now}) >= CHALLENGE_CAP
       THEN UNCHANGED <<challenge, spent>>
       ELSE \E k \in Challenges :
              /\ left[k] = NoChallenge
              /\ challenge' = [left EXCEPT ![k] = [state |-> "fresh", expires |-> now + Window]]
              /\ spent' = [spent EXCEPT ![k] = 0]
  /\ request' = [request EXCEPT ![r] = Idle]
  /\ UNCHANGED <<now, active, attempts, sessions, passes>>

\* A browser without a valid session sends some challenge it was given.
Login(r, p, u, k) ==
  /\ request[r] = Idle
  /\ challenge[k] # NoChallenge
  /\ request' = [request EXCEPT ![r] =
                   [at |-> "limits", peer |-> p, user |-> u, key |-> k, verified |-> FALSE]]
  /\ UNCHANGED <<now, active, attempts, challenge, sessions, passes, spent>>

\* The row is locked, checked by the clock read after the wait, and consumed.
Consumable(c) == c.state = "fresh" /\ now < c.expires

Consume(r) ==
  /\ request[r].at = "challenge"
  /\ LET k == request[r].key IN
     IF Consumable(challenge[k])
     THEN /\ challenge' = [challenge EXCEPT ![k].state = "consumed"]
          /\ spent' = [spent EXCEPT ![k] = @ + 1]
          /\ request' = [request EXCEPT ![r].at = "password"]
     ELSE request' = [request EXCEPT ![r] = Idle] /\ UNCHANGED <<challenge, spent>>
  /\ UNCHANGED <<now, active, attempts, sessions, passes>>

\* The stored hash is read and verified outside of any transaction.
Verify(r) ==
  /\ request[r].at = "password"
  /\ \E ok \in BOOLEAN :
       request' = [request EXCEPT ![r].verified = ok, ![r].at = "session"]
  /\ UNCHANGED <<now, active, attempts, challenge, sessions, passes, spent>>

\* Mutant: the user is not read again.
AdmittedUnread(r) == request[r].verified
Admitted(r) == request[r].verified /\ request[r].user \in active

\* One transaction reads the user again and creates the session.
Open(r) ==
  /\ request[r].at = "session"
  /\ sessions' = IF Admitted(r) THEN sessions \union {[user |-> request[r].user, at |-> now]}
                 ELSE sessions
  /\ request' = [request EXCEPT ![r] = Idle]
  /\ UNCHANGED <<now, active, attempts, challenge, passes, spent>>

\* The request breaks off between two transactions.
Break(r) ==
  /\ request[r] # Idle
  /\ request' = [request EXCEPT ![r] = Idle]
  /\ UNCHANGED <<now, active, attempts, challenge, sessions, passes, spent>>

\* update_user_security.
SetActive(u) ==
  /\ active' = IF u \in active THEN active \ {u} ELSE active \union {u}
  /\ UNCHANGED <<now, attempts, challenge, request, sessions, passes, spent>>

Tick ==
  /\ now < MaxNow
  /\ now' = now + 1
  /\ sessions' = {}
  /\ passes' = IF now' % Window = 0 THEN [l \in Counted |-> 0] ELSE passes
  /\ UNCHANGED <<active, attempts, challenge, request, spent>>

Next ==
  \/ \E r \in Requests :
       \/ \E p \in Peers : Bootstrap(r, p) \/ \E u \in Users, k \in Challenges : Login(r, p, u, k)
       \/ Create(r) \/ Reserve(r) \/ Consume(r) \/ Verify(r) \/ Open(r) \/ Break(r)
  \/ \E u \in Volatile : SetActive(u)
  \/ Tick

Spec == Init /\ [][Next]_vars
------------------------------------------------------------------------------
TypeOK ==
  /\ now \in 0..MaxNow
  /\ active \subseteq Users
  /\ attempts \in [Keys \X Windows -> Nat]
  /\ \A w \in Windows : /\ \A k \in PeerKeys : attempts[<<k, w>>] <= PeerLimit
                        /\ \A k \in AccountKeys : attempts[<<k, w>>] <= AccountLimit
  /\ challenge \in [Challenges -> [state : {"absent", "fresh", "consumed"},
                                   expires : 0..(MaxNow + Window)]]
  /\ passes \in [Counted -> Nat] /\ spent \in [Challenges -> Nat]
  /\ request \in [Requests -> [at : {"idle", "create", "limits", "challenge", "password",
                                     "session"},
                               peer : Peers \union {None}, user : Users \union {None},
                               key : Challenges \union {None}, verified : BOOLEAN]]
  /\ sessions \subseteq [user : Users, at : {now}]

(***************************************************************************)
(* However many requests race, and whatever the clean-up deletes, no more  *)
(* passwords are tried in a window than the limits say: per peer, and per  *)
(* peer and account (auth_limits.py 28-63).                                *)
(***************************************************************************)
AttemptsBounded ==
  \A p \in Peers :
    /\ passes[p] <= PeerLimit
    /\ \A u \in Users : passes[<<p, u>>] <= AccountLimit

(***************************************************************************)
(* A refused attempt costs nothing: the buckets of the window count what   *)
(* they let through, so that an account at its limit does not use up its   *)
(* peer's (auth_limits.py 35, 44-63).                                      *)
(***************************************************************************)
RefusalsCostNothing ==
  \A p \in Peers :
    /\ attempts[<< <<"login_ip", p>>, window>>] = passes[p]
    /\ \A u \in Users : attempts[<< <<"login_account_ip", p, u>>, window>>] = passes[<<p, u>>]

(***************************************************************************)
(* A challenge lets one password check through, whichever requests present *)
(* it and however they fail (challenges.py 47-81).                         *)
(***************************************************************************)
OneUse == \A k \in Challenges : spent[k] <= 1

(***************************************************************************)
(* A session is created only for a user who is active at that moment,      *)
(* whatever was read before the password was checked (auth.py 88-127).     *)
(***************************************************************************)
SessionsOfActive ==
  [][\A u \in Users : [user |-> u, at |-> now] \in sessions' \ sessions => u \in active]_vars

(***************************************************************************)
(* Who waits as long as Retry-After says meets a fresh window, and does    *)
(* not wait a whole second too long (auth_limits.py 36-38).                *)
(***************************************************************************)
RetryIsEnough ==
  LET later == now + Retry(now) * Second IN
  /\ later \div Window > window
  /\ (later - Second) \div Window = window
==============================================================================
