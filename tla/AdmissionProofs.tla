--------------------------- MODULE AdmissionProofs ---------------------------
(***************************************************************************)
(* Proofs about who is let in and for how long: that the reservations of   *)
(* LeaseBudget outlive their attempts, whatever the durations that the     *)
(* settings allow, and that the rate limits, the challenges and the        *)
(* sessions of Authentication hold, for every number of peers, accounts    *)
(* and requests and whatever the limits and the length of the window.      *)
(***************************************************************************)
EXTENDS MCAdmission, Integers, TLAPS

------------------------------------------------------------------------------
(* The time of a reservation.                                              *)

\* Every tick is accounted for: the attempts before, this one, its recovery,
\* and the transactions around them.
Before(n) == (n - 1) * Generation
TimeBounded == clock <= Before(attempt) + spent + recovering + outside

\* An answer is kept only by an attempt that is being completed, and which
\* needed no recovery.
KeptCompletes ==
  /\ stage \in {"preparing", "active", "inferring"} => ~kept /\ recovering = 0
  /\ stage = "recovering" => ~kept
  /\ kept => recovering = 0

\* The inductive invariant.
BudgetInv == TypeOK /\ TimeBounded /\ KeptCompletes

\* One more attempt costs one more Generation.
LEMMA AttemptCost ==
  /\ Before(1) = 0
  /\ \A n \in Nat : Before(n) \in Int /\ Before(n + 1) = Before(n) + Generation
<1>1. Generation \in Int
  BY BudgetAssumption
<1>2. ASSUME NEW n \in Nat
      PROVE  Before(n) \in Int /\ Before(n + 1) = Before(n) + Generation
  <2>1. (n + 1) - 1 = (n - 1) + 1
    OBVIOUS
  <2>2. ((n - 1) + 1) * Generation = (n - 1) * Generation + Generation
    BY <1>1
  <2>3. QED
    BY <1>1, <2>1, <2>2 DEF Before
<1>3. QED
  BY <1>1, <1>2 DEF Before

\* Fewer attempts cost no more.
LEMMA CostMonotone ==
  ASSUME NEW a \in Nat, NEW b \in Nat, a <= b, NEW g \in Nat
  PROVE  (a - 1) * g + g <= b * g
<1>1. PICK k \in Nat : b = a + k
  <2>1. b - a \in Nat /\ b = a + (b - a)
    OBVIOUS
  <2>2. QED
    BY <2>1
<1>2. b * g = a * g + k * g
  BY <1>1
<1>3. k * g \in Nat /\ a * g \in Nat
  BY <1>1
<1>4. (a - 1) * g + g = a * g
  OBVIOUS
<1>5. QED
  BY <1>2, <1>3, <1>4

\* The clock starts with the reservation.
LEMMA InitBudget == Init => BudgetInv
<1> SUFFICES ASSUME Init PROVE BudgetInv
  OBVIOUS
<1>1. TypeOK
  <2>1. 1 \in 1..Attempts /\ 0 \in 0..Generation /\ 0 \in 0..Recovery /\ 0 \in 0..MaxOutside
    BY BudgetAssumption
  <2>2. QED
    BY <2>1 DEF Init, TypeOK
<1>2. TimeBounded
  BY AttemptCost DEF Init, TimeBounded
<1>3. KeptCompletes
  BY DEF Init, KeptCompletes
<1>4. QED
  BY <1>1, <1>2, <1>3 DEF BudgetInv

\* Each action keeps the account.
LEMMA NextBudget == BudgetInv /\ [Next]_vars => BudgetInv'
<1> SUFFICES ASSUME BudgetInv, [Next]_vars PROVE BudgetInv'
  OBVIOUS
<1> USE BudgetAssumption
<1> USE DEF BudgetInv, TypeOK, TimeBounded, KeptCompletes
<1>0. Before(attempt) \in Int /\ Before(attempt + 1) = Before(attempt) + Generation
  BY AttemptCost
<1>1. CASE Tick
  BY <1>0, <1>1 DEF Tick, WithinDeadline, steps
<1>2. CASE _active \/ _infer
  BY <1>0, <1>2 DEF _active, _infer, steps
<1>3. CASE Dispatch
  BY <1>3 DEF Dispatch
<1>4. CASE Answer
  BY <1>4 DEF Answer
<1>5. CASE Fail
  BY <1>5 DEF Fail, steps
<1>6. CASE Recovered
  BY <1>6 DEF Recovered, steps
<1>7. CASE Stale
  <2>1. attempt + 1 \in 1..Attempts /\ 0 \in 0..Generation /\ 0 \in 0..Recovery
    BY <1>7 DEF Stale, Again
  <2>2. TypeOK'
    BY <1>7, <2>1 DEF Stale
  <2>3. TimeBounded'
    <3>1. clock <= Before(attempt) + spent + 0 + outside
      BY <1>7 DEF Stale, Again
    <3>2. Before(attempt') = Before(attempt) + Generation
      BY <1>0, <1>7 DEF Stale
    <3>3. spent <= Generation /\ spent \in Nat /\ outside \in Nat
      OBVIOUS
    <3>4. clock <= Before(attempt') + 0 + 0 + outside
      BY <1>0, <3>1, <3>2, <3>3
    <3>5. QED
      BY <1>7, <3>4 DEF Stale
  <2>4. KeptCompletes'
    BY <1>7 DEF Stale
  <2>5. QED
    BY <2>2, <2>3, <2>4
<1>8. CASE Complete
  BY <1>8 DEF Complete
<1>9. CASE UNCHANGED vars
  BY <1>9 DEF vars
<1>10. QED
  BY <1>1, <1>2, <1>3, <1>4, <1>5, <1>6, <1>7, <1>8, <1>9 DEF Next

\* The setting's condition is what a lapse has to exceed.
LEMMA BudgetSuffices == BudgetInv => LapsesOutside
<1> SUFFICES ASSUME BudgetInv, Lapsed
             PROVE  outside > 0 /\ outside >= Lease - (Attempts * Generation + Recovery)
  BY DEF LapsesOutside
<1>1. Before(attempt) + Generation <= Attempts * Generation
  BY CostMonotone, BudgetAssumption DEF BudgetInv, TypeOK, Before
<1>2. Attempts * Generation \in Int /\ Before(attempt) \in Int
  BY AttemptCost, BudgetAssumption DEF BudgetInv, TypeOK
<1>3. outside \in Int /\ outside >= Lease - (Attempts * Generation + Recovery)
  BY <1>1, <1>2, BudgetAssumption DEF BudgetInv, TypeOK, TimeBounded, Lapsed
<1>4. QED
  BY <1>2, <1>3, BudgetAssumption, BudgetValid DEF validate_generation_budget

\* Type correctness, for every setting of attempts and durations.
THEOREM TypeCorrect == Spec => []TypeOK
<1>1. BudgetInv => TypeOK
  BY DEF BudgetInv
<1>2. QED
  BY InitBudget, NextBudget, <1>1, PTL DEF Spec

\* The lease outlives the attempts and their recovery: the condition that
\* validate_generation_budget puts on the settings is enough.
THEOREM LeaseOutlives == Spec => []LapsesOutside
BY InitBudget, NextBudget, BudgetSuffices, PTL DEF Spec

------------------------------------------------------------------------------
(* Logging in.                                                             *)

Logins == [at : {"limits", "challenge", "password", "session"}, peer : Peers, user : Users,
           key : Challenges, verified : BOOLEAN]
Calls == [at : {"idle", "create", "limits", "challenge", "password", "session"},
          peer : Peers \union {None}, user : Users \union {None},
          key : Challenges \union {None}, verified : BOOLEAN]
Rows == [state : {"absent", "fresh", "consumed"}, expires : 0..(MaxNow + Window)]

\* A login knows for whom, from where and with which challenge it goes on.
Underway == \A r \in Requests : request[r].at \notin {"idle", "create"} => request[r] \in Logins

\* Nothing is counted ahead of time.
Ahead == \A k \in Login!Keys, w \in Login!Windows : w > Login!window => attempts[<<k, w>>] = 0

\* A challenge that may be used was not used yet.
FreshUnused == \A k \in Challenges : challenge[k].state = "fresh" => used[k] = 0

\* The inductive invariant.
LoginInv ==
  /\ Login!TypeOK /\ Underway /\ Ahead /\ FreshUnused
  /\ Login!OneUse /\ Login!RefusalsCostNothing

LEMMA Limits ==
  ASSUME Login!AuthAssumption
  PROVE  /\ Window \in Nat \ {0} /\ Second \in Nat \ {0} /\ Window % Second = 0
         /\ PeerLimit \in Nat /\ AccountLimit \in Nat /\ MaxNow \in Nat
         /\ Peers \intersect (Peers \X Users) = {}
BY DEF Login!AuthAssumption

\* Division with remainder.
LEMMA Division ==
  ASSUME NEW n \in Nat, NEW w \in Nat \ {0}
  PROVE  /\ n \div w \in Nat /\ n % w \in 0..(w - 1)
         /\ n = w * (n \div w) + (n % w)
OBVIOUS

\* The clock's windows.
LEMMA InWindow ==
  ASSUME Login!AuthAssumption, now \in 0..MaxNow
  PROVE  /\ Login!window \in Login!Windows /\ Login!window \in Nat
         /\ now = Window * Login!window + (now % Window) /\ now % Window \in 0..(Window - 1)
         /\ ~Login!Stale(Login!window)
<1>1. /\ now = Window * Login!window + (now % Window) /\ now % Window \in 0..(Window - 1)
      /\ Login!window \in Nat
  <2>1. now \in Nat /\ Window \in Nat \ {0} /\ Login!window = now \div Window
    BY Limits DEF Login!window
  <2>2. QED
    BY <2>1, Division
<1>2. now \div Window <= MaxNow \div Window /\ MaxNow \div Window \in Nat
  BY Limits
<1>3. Login!window \in Login!Windows
  BY <1>1, <1>2 DEF Login!window, Login!Windows
<1>4. ~(Login!window * Window + 2 * Window < now)
  <2>1. Login!window * Window = Window * Login!window /\ Login!window * Window \in Nat
    BY <1>1, Limits
  <2>2. QED
    BY <1>1, <2>1, Limits
<1>5. QED
  BY <1>1, <1>3, <1>4 DEF Login!Stale

LEMMA InitLogin == ASSUME Login!AuthAssumption, Login!Init PROVE LoginInv
<1> USE DEF Login!Init
<1>1. 0 \in 0..MaxNow /\ 0 \in 0..(MaxNow + Window)
  BY Limits
<1>2. Login!NoChallenge \in Rows /\ Login!NoChallenge.state = "absent"
  BY <1>1 DEF Login!NoChallenge, Rows
<1>3. Login!Idle \in Calls /\ Login!Idle.at = "idle"
  BY DEF Login!Idle, Calls
<1>4. Login!TypeOK
  <2>1. attempts \in [Login!Keys \X Login!Windows -> Nat]
    OBVIOUS
  <2>2. \A w \in Login!Windows : /\ \A k \in Login!PeerKeys : attempts[<<k, w>>] <= PeerLimit
                                 /\ \A k \in Login!AccountKeys : attempts[<<k, w>>] <= AccountLimit
    BY Limits DEF Login!Keys
  <2>3. passes \in [Login!Counted -> Nat] /\ used \in [Challenges -> Nat]
    OBVIOUS
  <2>4. challenge \in [Challenges -> Rows] /\ request \in [Requests -> Calls]
    BY <1>2, <1>3
  <2>5. QED
    BY <1>1, <2>1, <2>2, <2>3, <2>4 DEF Login!TypeOK, Rows, Calls
<1>5. Underway /\ FreshUnused /\ Login!OneUse
  BY <1>2, <1>3 DEF Underway, FreshUnused, Login!OneUse
<1>6. Ahead
  BY DEF Ahead
<1>7. Login!RefusalsCostNothing
  <2>1. Login!window \in Login!Windows
    BY <1>1, InWindow
  <2>2. ASSUME NEW p \in Peers
        PROVE  /\ <<"login_ip", p>> \in Login!Keys /\ p \in Login!Counted
               /\ \A u \in Users : <<"login_account_ip", p, u>> \in Login!Keys /\ <<p, u>> \in Login!Counted
    BY DEF Login!Keys, Login!PeerKeys, Login!AccountKeys, Login!Counted
  <2>3. QED
    BY <2>1, <2>2 DEF Login!RefusalsCostNothing
<1>8. QED
  BY <1>4, <1>5, <1>6, <1>7 DEF LoginInv

------------------------------------------------------------------------------
(* The buckets.                                                            *)

\* The clean-up only forgets, and nothing of the present window.
LEMMA CleanUp ==
  ASSUME Login!AuthAssumption, LoginInv
  PROVE  /\ DOMAIN Login!Cleaned = Login!Keys \X Login!Windows
         /\ \A k \in Login!Keys, w \in Login!Windows :
              Login!Cleaned[<<k, w>>] \in {0, attempts[<<k, w>>]}
         /\ \A k \in Login!Keys : Login!Cleaned[<<k, Login!window>>] = attempts[<<k, Login!window>>]
<1>1. /\ attempts \in [Login!Keys \X Login!Windows -> Nat]
      /\ Login!window \in Login!Windows /\ ~Login!Stale(Login!window)
  BY InWindow DEF LoginInv, Login!TypeOK
<1>2. QED
  BY <1>1 DEF Login!Cleaned

\* A reservation that has room in all its buckets counts one in each.
LEMMA Counting ==
  ASSUME Login!AuthAssumption, LoginInv, NEW buckets, \A b \in buckets : b[2] \in Nat,
         Login!Full(Login!Cleaned, buckets) = {},
         attempts' = Login!Reserved(Login!Cleaned, buckets)
  PROVE  /\ attempts' \in [Login!Keys \X Login!Windows -> Nat]
         /\ \A k \in Login!Keys, w \in Login!Windows :
              w # Login!window => attempts'[<<k, w>>] \in {0, attempts[<<k, w>>]}
         /\ \A k \in Login!Keys :
              IF \E b \in buckets : b[1] = k
              THEN /\ attempts'[<<k, Login!window>>] = attempts[<<k, Login!window>>] + 1
                   /\ \A b \in buckets : b[1] = k => attempts'[<<k, Login!window>>] <= b[2]
              ELSE attempts'[<<k, Login!window>>] = attempts[<<k, Login!window>>]
<1>1. attempts \in [Login!Keys \X Login!Windows -> Nat] /\ Login!window \in Login!Windows
  BY InWindow DEF LoginInv, Login!TypeOK
<1>2. attempts' = [k \in Login!Keys \X Login!Windows |->
                     IF k[2] = Login!window /\ \E b \in buckets : b[1] = k[1]
                     THEN Login!Cleaned[k] + 1 ELSE Login!Cleaned[k]]
  BY CleanUp DEF Login!Reserved
<1>3. ASSUME NEW k \in Login!Keys, NEW w \in Login!Windows
      PROVE  attempts'[<<k, w>>] = IF w = Login!window /\ \E b \in buckets : b[1] = k
                                   THEN Login!Cleaned[<<k, w>>] + 1 ELSE Login!Cleaned[<<k, w>>]
  BY <1>2
<1>4. ASSUME NEW k \in Login!Keys, NEW w \in Login!Windows
      PROVE  Login!Cleaned[<<k, w>>] \in Nat
  BY <1>1, CleanUp
<1>5. \A x \in Login!Keys \X Login!Windows : attempts'[x] \in Nat
  <2>1. ASSUME NEW x \in Login!Keys \X Login!Windows
        PROVE  attempts'[x] \in Nat
    <3>1. Login!Cleaned[x] \in Nat
      BY <1>4
    <3>2. QED
      BY <1>2, <3>1
  <2>2. QED
    BY <2>1
<1>6. attempts' \in [Login!Keys \X Login!Windows -> Nat]
  BY <1>2, <1>5
<1>7. ASSUME NEW k \in Login!Keys, NEW b \in buckets, b[1] = k
      PROVE  attempts[<<k, Login!window>>] < b[2]
  <2>1. ~(Login!Cleaned[<<b[1], Login!window>>] >= b[2])
    BY DEF Login!Full
  <2>2. QED
    BY <1>1, <1>7, <2>1, CleanUp
<1>8. ASSUME NEW k \in Login!Keys, NEW w \in Login!Windows, w # Login!window
      PROVE  attempts'[<<k, w>>] \in {0, attempts[<<k, w>>]}
  BY <1>3, <1>8, CleanUp
<1>9. ASSUME NEW k \in Login!Keys
      PROVE  IF \E b \in buckets : b[1] = k
             THEN /\ attempts'[<<k, Login!window>>] = attempts[<<k, Login!window>>] + 1
                  /\ \A b \in buckets : b[1] = k => attempts'[<<k, Login!window>>] <= b[2]
             ELSE attempts'[<<k, Login!window>>] = attempts[<<k, Login!window>>]
  <2>1. attempts[<<k, Login!window>>] \in Nat /\ Login!Cleaned[<<k, Login!window>>] = attempts[<<k, Login!window>>]
    BY <1>1, CleanUp
  <2>2. QED
    BY <1>1, <1>3, <1>7, <2>1
<1>10. QED
  BY <1>6, <1>8, <1>9

\* What the buckets of a request are.
LEMMA KeysOf ==
  ASSUME NEW p \in Peers
  PROVE  /\ <<"bootstrap_ip", p>> \in Login!PeerKeys /\ <<"login_ip", p>> \in Login!PeerKeys
         /\ \A u \in Users : <<"login_account_ip", p, u>> \in Login!AccountKeys
         /\ Login!PeerKeys \subseteq Login!Keys /\ Login!AccountKeys \subseteq Login!Keys
         /\ \A k \in Login!PeerKeys : k[1] \in {"bootstrap_ip", "login_ip"}
         /\ \A k \in Login!AccountKeys : k[1] = "login_account_ip"
BY DEF Login!PeerKeys, Login!AccountKeys, Login!Keys

\* Counted attempts stay within the limits, and nothing is counted ahead.
LEMMA BucketsKeep ==
  ASSUME Login!AuthAssumption, LoginInv, NEW buckets,
         \A b \in buckets : \/ b[1] \in Login!PeerKeys /\ b[2] = PeerLimit
                            \/ b[1] \in Login!AccountKeys /\ b[2] = AccountLimit,
         attempts' = Login!Reserved(Login!Cleaned, buckets), UNCHANGED now
  PROVE  /\ attempts' \in [Login!Keys \X Login!Windows -> Nat]
         /\ \A w \in Login!Windows : /\ \A k \in Login!PeerKeys : attempts'[<<k, w>>] <= PeerLimit
                                     /\ \A k \in Login!AccountKeys : attempts'[<<k, w>>] <= AccountLimit
         /\ Ahead'
         /\ Login!window' = Login!window /\ Login!window \in Login!Windows
<1>0. /\ attempts \in [Login!Keys \X Login!Windows -> Nat]
      /\ Login!window \in Login!Windows /\ Login!window \in Nat
      /\ PeerLimit \in Nat /\ AccountLimit \in Nat
  BY InWindow, Limits DEF LoginInv, Login!TypeOK
<1>1. Login!window' = Login!window
  BY DEF Login!window
<1>2. CASE Login!Full(Login!Cleaned, buckets) # {}
  <2>1. attempts' = attempts
    BY <1>2 DEF Login!Reserved
  <2>2. QED
    BY <1>0, <1>1, <2>1 DEF LoginInv, Login!TypeOK, Ahead
<1>3. CASE Login!Full(Login!Cleaned, buckets) = {}
  <2>0. \A b \in buckets : b[2] \in Nat
    BY <1>0
  <2>1. /\ attempts' \in [Login!Keys \X Login!Windows -> Nat]
        /\ \A k \in Login!Keys, w \in Login!Windows :
             w # Login!window => attempts'[<<k, w>>] \in {0, attempts[<<k, w>>]}
        /\ \A k \in Login!Keys :
             IF \E b \in buckets : b[1] = k
             THEN \A b \in buckets : b[1] = k => attempts'[<<k, Login!window>>] <= b[2]
             ELSE attempts'[<<k, Login!window>>] = attempts[<<k, Login!window>>]
    <3>1. /\ attempts' \in [Login!Keys \X Login!Windows -> Nat]
          /\ \A k \in Login!Keys, w \in Login!Windows :
               w # Login!window => attempts'[<<k, w>>] \in {0, attempts[<<k, w>>]}
          /\ \A k \in Login!Keys :
               IF \E b \in buckets : b[1] = k
               THEN /\ attempts'[<<k, Login!window>>] = attempts[<<k, Login!window>>] + 1
                    /\ \A b \in buckets : b[1] = k => attempts'[<<k, Login!window>>] <= b[2]
               ELSE attempts'[<<k, Login!window>>] = attempts[<<k, Login!window>>]
      BY <1>3, <2>0, Counting
    <3>2. QED
      BY <3>1
  <2>2. Ahead'
    BY <1>0, <1>1, <2>1 DEF Ahead, LoginInv, Login!Windows
  <2>3. ASSUME NEW k \in Login!Keys, NEW w \in Login!Windows, NEW limit \in Nat, attempts[<<k, w>>] <= limit,
               \A b \in buckets : b[1] = k => b[2] = limit
        PROVE  attempts'[<<k, w>>] <= limit
    <3>1. CASE w = Login!window
      BY <1>0, <2>1, <2>3, <3>1
    <3>2. CASE w # Login!window
      BY <1>0, <2>1, <2>3, <3>2
    <3>3. QED
      BY <3>1, <3>2
  <2>4. ASSUME NEW k \in Login!PeerKeys
        PROVE  k \in Login!Keys /\ \A b \in buckets : b[1] = k => b[2] = PeerLimit
    <3>1. k \notin Login!AccountKeys
      BY DEF Login!PeerKeys, Login!AccountKeys
    <3>2. QED
      BY <3>1 DEF Login!Keys
  <2>5. ASSUME NEW k \in Login!AccountKeys
        PROVE  k \in Login!Keys /\ \A b \in buckets : b[1] = k => b[2] = AccountLimit
    <3>1. k \notin Login!PeerKeys
      BY DEF Login!PeerKeys, Login!AccountKeys
    <3>2. QED
      BY <3>1 DEF Login!Keys
  <2>6. \A w \in Login!Windows : /\ \A k \in Login!PeerKeys : attempts'[<<k, w>>] <= PeerLimit
                                 /\ \A k \in Login!AccountKeys : attempts'[<<k, w>>] <= AccountLimit
    BY <1>0, <2>3, <2>4, <2>5 DEF LoginInv, Login!TypeOK
  <2>7. QED
    BY <1>0, <1>1, <2>1, <2>2, <2>6
<1>4. QED
  BY <1>2, <1>3

------------------------------------------------------------------------------
(* Requests.                                                               *)

\* What a step of one request makes of it.
LEMMA Called ==
  ASSUME LoginInv, NEW r \in Requests, NEW next \in Calls, request' = [request EXCEPT ![r] = next],
         next.at \notin {"idle", "create"} => next \in Logins
  PROVE  request' \in [Requests -> Calls] /\ Underway'
<1>1. request \in [Requests -> Calls]
  BY DEF LoginInv, Login!TypeOK, Calls
<1>2. QED
  BY <1>1 DEF LoginInv, Underway

LEMMA IdleTyped ==
  /\ Login!Idle \in Calls /\ Login!Idle.at = "idle"
  /\ [Login!Idle EXCEPT !.at = "create"] \in Calls
  /\ [Login!Idle EXCEPT !.at = "create"].at = "create"
BY DEF Login!Idle, Calls

\* A login in progress.
LEMMA LoginOf ==
  ASSUME LoginInv, NEW r \in Requests, request[r].at \in {"limits", "challenge", "password", "session"}
  PROVE  /\ request[r] \in Logins /\ request[r] \in Calls
         /\ request[r].peer \in Peers /\ request[r].user \in Users /\ request[r].key \in Challenges
         /\ \A at \in {"challenge", "password"} : [request[r] EXCEPT !.at = at] \in Logins
         /\ \A ok \in BOOLEAN : [request[r] EXCEPT !.verified = ok, !.at = "session"] \in Logins
         /\ Logins \subseteq Calls
<1>1. request[r] \in Logins
  BY DEF LoginInv, Underway
<1>2. Logins \subseteq Calls
  BY DEF Logins, Calls
<1>3. QED
  BY <1>1, <1>2 DEF Logins

\* A step that leaves the buckets and the counts alone.
LEMMA UncountedKeeps ==
  ASSUME Login!AuthAssumption, LoginInv, UNCHANGED <<now, attempts, passes>>,
         active' \subseteq Users, sessions' \subseteq [user : Users, at : {now}],
         request' \in [Requests -> Calls], Underway',
         challenge' \in [Challenges -> Rows], used' \in [Challenges -> Nat],
         FreshUnused', Login!OneUse'
  PROVE  LoginInv'
<1>1. Login!window' = Login!window
  BY DEF Login!window
<1>2. Login!TypeOK'
  BY DEF LoginInv, Login!TypeOK, Rows, Calls
<1>3. Ahead' /\ Login!RefusalsCostNothing'
  BY <1>1 DEF LoginInv, Ahead, Login!RefusalsCostNothing
<1>4. QED
  BY <1>2, <1>3 DEF LoginInv

LEMMA ReserveKeeps ==
  ASSUME Login!AuthAssumption, LoginInv, NEW r \in Requests, Login!Reserve(r)
  PROVE  LoginInv'
<1> DEFINE p == request[r].peer
           u == request[r].user
           buckets == Login!LoginBuckets(p, u)
           mine == <<"login_ip", p>>
           account == <<"login_account_ip", p, u>>
<1>1. /\ request[r] \in Logins /\ p \in Peers /\ u \in Users
      /\ [request[r] EXCEPT !.at = "challenge"] \in Logins /\ Logins \subseteq Calls
  BY LoginOf DEF Login!Reserve
<1>2. /\ mine \in Login!PeerKeys /\ account \in Login!AccountKeys
      /\ \A b \in buckets : \/ b[1] = mine /\ b[2] = PeerLimit
                            \/ b[1] = account /\ b[2] = AccountLimit
      /\ \A k : (\E b \in buckets : b[1] = k) <=> k \in {mine, account}
  <2>1. mine \in Login!PeerKeys /\ account \in Login!AccountKeys
    BY <1>1, KeysOf
  <2>2. buckets = {<<mine, PeerLimit>>, <<account, AccountLimit>>}
    BY DEF Login!LoginBuckets
  <2>3. QED
    BY <2>1, <2>2
<1>3. UNCHANGED <<now, active, challenge, sessions, used>> /\ attempts' = Login!Reserved(Login!Cleaned, buckets)
  BY DEF Login!Reserve
<1> HIDE DEF buckets
<1>4. /\ attempts' \in [Login!Keys \X Login!Windows -> Nat]
      /\ \A w \in Login!Windows : /\ \A k \in Login!PeerKeys : attempts'[<<k, w>>] <= PeerLimit
                                  /\ \A k \in Login!AccountKeys : attempts'[<<k, w>>] <= AccountLimit
      /\ Ahead' /\ Login!window' = Login!window /\ Login!window \in Login!Windows
  <2>1. \A b \in buckets : \/ b[1] \in Login!PeerKeys /\ b[2] = PeerLimit
                           \/ b[1] \in Login!AccountKeys /\ b[2] = AccountLimit
    BY <1>2
  <2>2. QED
    BY <1>3, <2>1, BucketsKeep
<1>5. request' \in [Requests -> Calls] /\ Underway'
  <2>1. \/ request' = [request EXCEPT ![r] = [request[r] EXCEPT !.at = "challenge"]]
        \/ request' = [request EXCEPT ![r] = Login!Idle]
    BY DEF Login!Reserve
  <2>2. QED
    BY <1>1, <2>1, Called, IdleTyped
<1>6. passes \in [Login!Counted -> Nat] /\ p \in Login!Counted /\ <<p, u>> \in Login!Counted /\ p # <<p, u>>
  <2>1. Peers \intersect (Peers \X Users) = {} /\ <<p, u>> \in Peers \X Users
    BY <1>1, Limits
  <2>2. QED
    BY <1>1, <2>1 DEF LoginInv, Login!TypeOK, Login!Counted
<1>7. passes' \in [Login!Counted -> Nat] /\ Login!RefusalsCostNothing'
  <2>1. CASE Login!Full(Login!Cleaned, buckets) # {}
    <3>1. UNCHANGED <<attempts, passes>>
      BY <1>3, <2>1 DEF Login!Reserve, Login!Reserved, buckets
    <3>2. QED
      BY <1>4, <1>6, <3>1 DEF LoginInv, Login!RefusalsCostNothing
  <2>2. CASE Login!Full(Login!Cleaned, buckets) = {}
    <3>1. passes' = [passes EXCEPT ![p] = passes[p] + 1, ![<<p, u>>] = passes[<<p, u>>] + 1]
      BY <2>2, <1>6 DEF Login!Reserve, buckets
    <3>2. /\ passes' \in [Login!Counted -> Nat]
          /\ passes'[p] = passes[p] + 1 /\ passes'[<<p, u>>] = passes[<<p, u>>] + 1
          /\ \A l \in Login!Counted : l # p /\ l # <<p, u>> => passes'[l] = passes[l]
      BY <1>6, <3>1
    <3>3. \A b \in buckets : b[2] \in Nat
      BY <1>2, Limits
    <3>4. \A k \in Login!Keys : attempts'[<<k, Login!window>>] = IF k \in {mine, account}
                                                                 THEN attempts[<<k, Login!window>>] + 1
                                                                 ELSE attempts[<<k, Login!window>>]
      BY <1>2, <1>3, <2>2, <3>3, Counting
    <3>5. ASSUME NEW q \in Peers
          PROVE  attempts'[<< <<"login_ip", q>>, Login!window>>] = passes'[q]
      <4>1. <<"login_ip", q>> \in Login!Keys /\ <<"login_ip", q>> # account
        BY KeysOf
      <4>2. attempts[<< <<"login_ip", q>>, Login!window>>] = passes[q] /\ q \in Login!Counted /\ q # <<p, u>>
        <5>1. <<p, u>> \in Peers \X Users /\ <<p, u>> \notin Peers
          BY <1>1, Limits
        <5>2. q # <<p, u>> /\ q \in Login!Counted
          BY <5>1 DEF Login!Counted
        <5>3. attempts[<< <<"login_ip", q>>, Login!window>>] = passes[q]
          BY DEF LoginInv, Login!RefusalsCostNothing
        <5>4. QED
          BY <5>2, <5>3
      <4>3. QED
        BY <3>2, <3>4, <4>1, <4>2
    <3>6. ASSUME NEW q \in Peers, NEW v \in Users
          PROVE  attempts'[<< <<"login_account_ip", q, v>>, Login!window>>] = passes'[<<q, v>>]
      <4>1. <<"login_account_ip", q, v>> \in Login!Keys /\ <<"login_account_ip", q, v>> # mine
        BY KeysOf
      <4>2. /\ attempts[<< <<"login_account_ip", q, v>>, Login!window>>] = passes[<<q, v>>]
            /\ <<q, v>> \in Login!Counted /\ <<q, v>> # p
        <5>1. <<q, v>> \in Peers \X Users
          OBVIOUS
        <5>2. QED
          BY <1>1, <5>1, Limits DEF LoginInv, Login!RefusalsCostNothing, Login!Counted
      <4>3. <<"login_account_ip", q, v>> = account <=> <<q, v>> = <<p, u>>
        OBVIOUS
      <4>4. QED
        BY <3>2, <3>4, <4>1, <4>2, <4>3
    <3>7. QED
      BY <1>4, <3>2, <3>5, <3>6 DEF Login!RefusalsCostNothing
  <2>3. QED
    BY <2>1, <2>2
<1>8. Login!TypeOK'
  BY <1>3, <1>4, <1>5, <1>7 DEF LoginInv, Login!TypeOK, Calls
<1>9. FreshUnused' /\ Login!OneUse'
  BY <1>3 DEF LoginInv, FreshUnused, Login!OneUse
<1>10. QED
  BY <1>4, <1>5, <1>7, <1>8, <1>9 DEF LoginInv

LEMMA BootstrapKeeps ==
  ASSUME Login!AuthAssumption, LoginInv, NEW r \in Requests, NEW p \in Peers, Login!Bootstrap(r, p)
  PROVE  LoginInv'
<1> DEFINE bucket == {<< <<"bootstrap_ip", p>>, PeerLimit>>}
<1>1. /\ UNCHANGED <<now, active, challenge, sessions, passes, used>>
      /\ attempts' = Login!Reserved(Login!Cleaned, bucket)
  BY DEF Login!Bootstrap
<1>2. \A b \in bucket : b[1] = <<"bootstrap_ip", p>> /\ b[1] \in Login!PeerKeys /\ b[2] = PeerLimit
  <2>1. <<"bootstrap_ip", p>> \in Login!PeerKeys
    BY KeysOf
  <2>2. QED
    BY <2>1
<1>3. \E b \in bucket : b[1] = <<"bootstrap_ip", p>>
  OBVIOUS
<1> HIDE DEF bucket
<1>4. /\ attempts' \in [Login!Keys \X Login!Windows -> Nat]
      /\ \A w \in Login!Windows : /\ \A k \in Login!PeerKeys : attempts'[<<k, w>>] <= PeerLimit
                                  /\ \A k \in Login!AccountKeys : attempts'[<<k, w>>] <= AccountLimit
      /\ Ahead' /\ Login!window' = Login!window /\ Login!window \in Login!Windows
  BY <1>1, <1>2, BucketsKeep
<1>5. request' \in [Requests -> Calls] /\ Underway'
  <2>1. \/ request' = [request EXCEPT ![r] = [Login!Idle EXCEPT !.at = "create"]]
        \/ request' = request
    BY DEF Login!Bootstrap
  <2>2. CASE request' = request
    BY <2>2 DEF LoginInv, Login!TypeOK, Calls, Underway
  <2>3. QED
    BY <2>1, <2>2, Called, IdleTyped
<1>6. \A k \in Login!Keys : k # <<"bootstrap_ip", p>> => attempts'[<<k, Login!window>>] = attempts[<<k, Login!window>>]
  <2>1. CASE Login!Full(Login!Cleaned, bucket) # {}
    BY <1>1, <2>1 DEF Login!Reserved
  <2>2. CASE Login!Full(Login!Cleaned, bucket) = {}
    <3>1. \A b \in bucket : b[2] \in Nat
      BY <1>2, Limits
    <3>2. QED
      BY <1>1, <1>2, <2>2, <3>1, Counting
  <2>3. QED
    BY <2>1, <2>2
<1>7. Login!RefusalsCostNothing'
  <2>1. ASSUME NEW q \in Peers
        PROVE  <<"login_ip", q>> \in Login!Keys /\ <<"login_ip", q>> # <<"bootstrap_ip", p>>
    BY KeysOf
  <2>2. ASSUME NEW q \in Peers, NEW u \in Users
        PROVE  /\ <<"login_account_ip", q, u>> \in Login!Keys
               /\ <<"login_account_ip", q, u>> # <<"bootstrap_ip", p>>
    BY KeysOf
  <2>3. QED
    BY <1>1, <1>4, <1>6, <2>1, <2>2 DEF LoginInv, Login!RefusalsCostNothing
<1>8. Login!TypeOK'
  BY <1>1, <1>4, <1>5 DEF LoginInv, Login!TypeOK, Calls
<1>9. FreshUnused' /\ Login!OneUse'
  BY <1>1 DEF LoginInv, FreshUnused, Login!OneUse
<1>10. QED
  BY <1>4, <1>5, <1>7, <1>8, <1>9 DEF LoginInv

LEMMA CreateKeeps ==
  ASSUME Login!AuthAssumption, LoginInv, NEW r \in Requests, Login!Create(r)
  PROVE  LoginInv'
<1>1. UNCHANGED <<now, active, attempts, sessions, passes>> /\ request' = [request EXCEPT ![r] = Login!Idle]
  BY DEF Login!Create
<1>2. request' \in [Requests -> Calls] /\ Underway'
  BY <1>1, Called, IdleTyped
<1>3. /\ challenge \in [Challenges -> Rows] /\ used \in [Challenges -> Nat]
      /\ Login!NoChallenge \in Rows /\ Login!NoChallenge.state # "fresh"
      /\ [state |-> "fresh", expires |-> now + Window] \in Rows
  BY Limits DEF LoginInv, Login!TypeOK, Rows, Login!NoChallenge
<1>4. /\ challenge' \in [Challenges -> Rows] /\ used' \in [Challenges -> Nat]
      /\ FreshUnused' /\ Login!OneUse'
  <2>1. CASE UNCHANGED <<challenge, used>>
    BY <1>3, <2>1 DEF LoginInv, FreshUnused, Login!OneUse
  <2>2. ASSUME NEW gone \in SUBSET Challenges, NEW k \in Challenges,
               challenge' = [[j \in Challenges |-> IF j \in gone THEN Login!NoChallenge ELSE challenge[j]]
                               EXCEPT ![k] = [state |-> "fresh", expires |-> now + Window]],
               used' = [used EXCEPT ![k] = 0]
        PROVE  /\ challenge' \in [Challenges -> Rows] /\ used' \in [Challenges -> Nat]
               /\ FreshUnused' /\ Login!OneUse'
    <3>1. /\ \A j \in Challenges : challenge'[j] = IF j = k THEN [state |-> "fresh", expires |-> now + Window]
                                                  ELSE IF j \in gone THEN Login!NoChallenge ELSE challenge[j]
          /\ challenge' \in [Challenges -> Rows]
      BY <1>3, <2>2
    <3>2. used' \in [Challenges -> Nat] /\ used'[k] = 0 /\ \A j \in Challenges : j # k => used'[j] = used[j]
      BY <1>3, <2>2
    <3>3. QED
      BY <1>3, <3>1, <3>2 DEF LoginInv, FreshUnused, Login!OneUse
  <2>3. \/ UNCHANGED <<challenge, used>>
        \/ \E gone \in SUBSET Challenges, k \in Challenges :
             /\ challenge' = [[j \in Challenges |-> IF j \in gone THEN Login!NoChallenge ELSE challenge[j]]
                                EXCEPT ![k] = [state |-> "fresh", expires |-> now + Window]]
             /\ used' = [used EXCEPT ![k] = 0]
    <3>1. PICK gone \in SUBSET {k \in Challenges : challenge[k].expires <= now} :
             LET left == [k \in Challenges |-> IF k \in gone THEN Login!NoChallenge ELSE challenge[k]] IN
             \/ UNCHANGED <<challenge, used>>
             \/ \E k \in Challenges :
                  /\ challenge' = [left EXCEPT ![k] = [state |-> "fresh", expires |-> now + Window]]
                  /\ used' = [used EXCEPT ![k] = 0]
      BY DEF Login!Create
    <3>2. gone \in SUBSET Challenges
      OBVIOUS
    <3>3. QED
      BY <3>1, <3>2
  <2>4. QED
    BY <2>1, <2>2, <2>3
<1>5. QED
  BY <1>1, <1>2, <1>4, UncountedKeeps DEF LoginInv, Login!TypeOK

LEMMA ConsumeKeeps ==
  ASSUME Login!AuthAssumption, LoginInv, NEW r \in Requests, Login!Consume(r)
  PROVE  LoginInv'
<1> DEFINE k == request[r].key
<1>1. /\ k \in Challenges /\ [request[r] EXCEPT !.at = "password"] \in Logins /\ Logins \subseteq Calls
  BY LoginOf DEF Login!Consume
<1>2. UNCHANGED <<now, active, attempts, sessions, passes>>
  BY DEF Login!Consume
<1>3. request' \in [Requests -> Calls] /\ Underway'
  <2>1. \/ request' = [request EXCEPT ![r] = [request[r] EXCEPT !.at = "password"]]
        \/ request' = [request EXCEPT ![r] = Login!Idle]
    BY DEF Login!Consume
  <2>2. QED
    BY <1>1, <2>1, Called, IdleTyped
<1>4. challenge \in [Challenges -> Rows] /\ used \in [Challenges -> Nat]
  BY DEF LoginInv, Login!TypeOK, Rows
<1>5. /\ challenge' \in [Challenges -> Rows] /\ used' \in [Challenges -> Nat]
      /\ FreshUnused' /\ Login!OneUse'
  <2>1. CASE Login!Consumable(challenge[k])
    <3>1. /\ challenge' = [challenge EXCEPT ![k] = [challenge[k] EXCEPT !.state = "consumed"]]
          /\ used' = [used EXCEPT ![k] = used[k] + 1]
      BY <2>1 DEF Login!Consume
    <3>2. [challenge[k] EXCEPT !.state = "consumed"] \in Rows /\ [challenge[k] EXCEPT !.state = "consumed"].state = "consumed"
      BY <1>1, <1>4 DEF Rows
    <3>3. used[k] = 0
      BY <1>1, <2>1 DEF Login!Consumable, LoginInv, FreshUnused
    <3>4. QED
      BY <1>1, <1>4, <3>1, <3>2, <3>3 DEF LoginInv, FreshUnused, Login!OneUse
  <2>2. CASE ~Login!Consumable(challenge[k])
    <3>1. UNCHANGED <<challenge, used>>
      BY <2>2 DEF Login!Consume
    <3>2. QED
      BY <1>4, <3>1 DEF LoginInv, FreshUnused, Login!OneUse
  <2>3. QED
    BY <2>1, <2>2
<1>6. QED
  BY <1>2, <1>3, <1>5, UncountedKeeps DEF LoginInv, Login!TypeOK

LEMMA OthersKeep ==
  ASSUME Login!AuthAssumption, LoginInv, NEW r \in Requests,
         \/ \E p \in Peers, u \in Users, k \in Challenges : Login!Login(r, p, u, k)
         \/ Login!Verify(r) \/ Login!Open(r) \/ Login!Break(r)
  PROVE  LoginInv'
<1>1. UNCHANGED <<now, active, attempts, challenge, passes, used>>
  BY DEF Login!Login, Login!Verify, Login!Open, Login!Break
<1>2. request' \in [Requests -> Calls] /\ Underway'
  <2>1. CASE \E p \in Peers, u \in Users, k \in Challenges : Login!Login(r, p, u, k)
    <3>1. PICK p \in Peers, u \in Users, k \in Challenges : Login!Login(r, p, u, k)
      BY <2>1
    <3>2. [at |-> "limits", peer |-> p, user |-> u, key |-> k, verified |-> FALSE] \in Logins
      BY DEF Logins
    <3>3. Logins \subseteq Calls
      BY DEF Logins, Calls
    <3>4. QED
      BY <3>1, <3>2, <3>3, Called DEF Login!Login
  <2>2. CASE Login!Verify(r)
    <3>1. PICK ok \in BOOLEAN : request' = [request EXCEPT ![r].verified = ok, ![r].at = "session"]
      BY <2>2 DEF Login!Verify
    <3>2. [request[r] EXCEPT !.verified = ok, !.at = "session"] \in Logins /\ Logins \subseteq Calls
      BY <2>2, LoginOf DEF Login!Verify
    <3>3. request' = [request EXCEPT ![r] = [request[r] EXCEPT !.verified = ok, !.at = "session"]]
      BY <3>1 DEF LoginInv, Login!TypeOK
    <3>4. QED
      BY <3>2, <3>3, Called
  <2>3. CASE Login!Open(r) \/ Login!Break(r)
    BY <2>3, Called, IdleTyped DEF Login!Open, Login!Break
  <2>4. QED
    BY <2>1, <2>2, <2>3
<1>3. sessions' \subseteq [user : Users, at : {now}]
  <2>1. CASE Login!Open(r)
    <3>1. request[r].user \in Users
      BY <2>1, LoginOf DEF Login!Open
    <3>2. sessions' \subseteq sessions \union {[user |-> request[r].user, at |-> now]}
      BY <2>1 DEF Login!Open
    <3>3. QED
      BY <3>1, <3>2 DEF LoginInv, Login!TypeOK
  <2>2. CASE UNCHANGED sessions
    BY <2>2 DEF LoginInv, Login!TypeOK
  <2>3. QED
    BY <2>1, <2>2 DEF Login!Login, Login!Verify, Login!Break
<1>4. QED
  BY <1>1, <1>2, <1>3, UncountedKeeps DEF LoginInv, Login!TypeOK, FreshUnused, Login!OneUse, Rows

\* Time passes: a new window begins with nothing in it.
LEMMA TickKeeps == ASSUME Login!AuthAssumption, LoginInv, Login!Tick PROVE LoginInv'
<1>1. /\ now \in Nat /\ now' = now + 1 /\ now' \in 0..MaxNow /\ sessions' = {}
      /\ UNCHANGED <<active, attempts, challenge, request, used>>
  BY Limits DEF Login!Tick, LoginInv, Login!TypeOK
<1>2. Login!window \in Login!Windows /\ Login!window \in Nat /\ Login!window' \in Login!Windows
  <2>1. Login!window' \in Nat /\ now' \div Window <= MaxNow \div Window
    BY <1>1, Limits DEF Login!window
  <2>2. QED
    BY <1>1, <2>1, InWindow, Limits DEF LoginInv, Login!TypeOK, Login!window, Login!Windows
<1>3. /\ now' % Window = 0 => Login!window' = Login!window + 1
      /\ now' % Window # 0 => Login!window' = Login!window
  BY <1>1, Limits DEF Login!window
<1>4. passes \in [Login!Counted -> Nat] /\ passes' \in [Login!Counted -> Nat]
  BY DEF LoginInv, Login!TypeOK, Login!Tick
<1>5. Login!TypeOK'
  BY <1>1, <1>4 DEF LoginInv, Login!TypeOK
<1>6. Ahead'
  BY <1>1, <1>2, <1>3 DEF LoginInv, Ahead, Login!Windows
<1>7. Login!RefusalsCostNothing'
  <2>1. CASE now' % Window = 0
    <3>1. passes' = [l \in Login!Counted |-> 0] /\ Login!window' = Login!window + 1 /\ Login!window' > Login!window
      BY <1>2, <1>3, <2>1 DEF Login!Tick
    <3>2. ASSUME NEW p \in Peers
          PROVE  attempts'[<< <<"login_ip", p>>, Login!window'>>] = passes'[p]
      <4>1. <<"login_ip", p>> \in Login!Keys /\ p \in Login!Counted
        BY KeysOf DEF Login!Counted
      <4>2. QED
        BY <1>1, <1>2, <3>1, <4>1 DEF LoginInv, Ahead
    <3>3. ASSUME NEW p \in Peers, NEW u \in Users
          PROVE  attempts'[<< <<"login_account_ip", p, u>>, Login!window'>>] = passes'[<<p, u>>]
      <4>1. <<"login_account_ip", p, u>> \in Login!Keys /\ <<p, u>> \in Login!Counted
        BY KeysOf DEF Login!Counted
      <4>2. QED
        BY <1>1, <1>2, <3>1, <4>1 DEF LoginInv, Ahead
    <3>4. QED
      BY <3>2, <3>3 DEF Login!RefusalsCostNothing
  <2>2. CASE now' % Window # 0
    BY <1>1, <1>3, <2>2 DEF Login!Tick, LoginInv, Login!RefusalsCostNothing
  <2>3. QED
    BY <2>1, <2>2
<1>8. Underway' /\ FreshUnused' /\ Login!OneUse'
  BY <1>1 DEF LoginInv, Underway, FreshUnused, Login!OneUse
<1>9. QED
  BY <1>5, <1>6, <1>7, <1>8 DEF LoginInv

LEMMA LoginStep == ASSUME Login!AuthAssumption, LoginInv, [Login!Next]_(Login!vars) PROVE LoginInv'
<1>1. CASE \E r \in Requests :
             \/ \E p \in Peers : \/ Login!Bootstrap(r, p)
                               \/ \E u \in Users, k \in Challenges : Login!Login(r, p, u, k)
             \/ Login!Create(r) \/ Login!Reserve(r) \/ Login!Consume(r)
             \/ Login!Verify(r) \/ Login!Open(r) \/ Login!Break(r)
  BY <1>1, BootstrapKeeps, CreateKeeps, ReserveKeeps, ConsumeKeeps, OthersKeep
<1>2. CASE \E u \in Volatile : Login!SetActive(u)
  <2>1. /\ UNCHANGED <<now, attempts, challenge, request, sessions, passes, used>>
        /\ active' \subseteq Users
    BY <1>2 DEF Login!SetActive, LoginInv, Login!TypeOK, Login!AuthAssumption
  <2>2. Underway' /\ FreshUnused' /\ Login!OneUse'
    BY <2>1 DEF LoginInv, Underway, FreshUnused, Login!OneUse
  <2>3. QED
    BY <2>1, <2>2, UncountedKeeps DEF LoginInv, Login!TypeOK, Rows, Calls
<1>3. CASE Login!Tick
  BY <1>3, TickKeeps
<1>4. CASE UNCHANGED Login!vars
  BY <1>4 DEF Login!vars, LoginInv, Login!TypeOK, Underway, Ahead, FreshUnused, Login!OneUse,
              Login!RefusalsCostNothing, Login!window
<1>5. QED
  BY <1>1, <1>2, <1>3, <1>4 DEF Login!Next

\* What the limits promise follows from the counts.
LEMMA LimitsBound ==
  ASSUME Login!AuthAssumption, LoginInv
  PROVE  Login!AttemptsBounded
<1>1. Login!window \in Login!Windows
  BY InWindow DEF LoginInv, Login!TypeOK
<1>2. ASSUME NEW p \in Peers
      PROVE  /\ attempts[<< <<"login_ip", p>>, Login!window>>] <= PeerLimit
             /\ \A u \in Users : attempts[<< <<"login_account_ip", p, u>>, Login!window>>] <= AccountLimit
  BY <1>1, KeysOf DEF LoginInv, Login!TypeOK
<1>3. QED
  BY <1>2 DEF LoginInv, Login!RefusalsCostNothing, Login!AttemptsBounded

\* The rounding of Retry-After.
LEMMA RetryRounds ==
  ASSUME Login!AuthAssumption, LoginInv
  PROVE  Login!RetryIsEnough
<1> DEFINE rest == Window - (now % Window)
           seconds == Login!Retry(now)
           next == Window * (Login!window + 1)
<1>1. /\ Login!window \in Nat /\ now \in Nat /\ rest \in 1..Window /\ now + rest = next
  <2>1. /\ Login!window \in Nat /\ now \in Nat
        /\ now = Window * Login!window + (now % Window) /\ now % Window \in 0..(Window - 1)
    BY InWindow, Limits DEF LoginInv, Login!TypeOK
  <2>2. Window * (Login!window + 1) = Window * Login!window + Window /\ Window * Login!window \in Nat
    BY <2>1, Limits
  <2>3. QED
    BY <2>1, <2>2, Limits
<1>2. Second \in Nat \ {0} /\ Window \in Nat \ {0} /\ Second <= Window
  BY Limits
<1>3. seconds \in Nat /\ seconds * Second >= rest /\ seconds * Second <= rest + Second - 1
  <2>1. rest + Second - 1 \in Nat /\ seconds = (rest + Second - 1) \div Second
    BY <1>1, <1>2 DEF Login!Retry
  <2>2. /\ seconds \in Nat /\ (rest + Second - 1) % Second \in 0..(Second - 1)
        /\ rest + Second - 1 = Second * seconds + ((rest + Second - 1) % Second)
    <3> HIDE DEF rest, seconds
    <3>1. QED
      BY <1>2, <2>1, Division
  <2>3. seconds * Second = Second * seconds /\ seconds * Second \in Nat
    BY <1>2, <2>2
  <2>4. QED
    BY <1>1, <1>2, <2>2, <2>3
<1> DEFINE later == now + seconds * Second
<1>4. later \in Nat /\ later >= next
  BY <1>1, <1>2, <1>3
<1>5. later - Second \in Nat /\ later - Second < next /\ later - Second >= Window * Login!window
  <2>1. next = Window * Login!window + Window /\ Window * Login!window \in Nat
    BY <1>1, <1>2
  <2>2. seconds * Second \in Nat
    BY <1>2, <1>3
  <2>3. QED
    BY <1>1, <1>2, <1>3, <2>1, <2>2
<1> HIDE DEF later, seconds
<1>6. later \div Window >= Login!window + 1
  BY <1>1, <1>2, <1>4
<1>7. (later - Second) \div Window = Login!window
  BY <1>1, <1>2, <1>5
<1>8. QED
  BY <1>1, <1>2, <1>4, <1>6, <1>7 DEF Login!RetryIsEnough, later, seconds

\* The user is read again in the transaction that creates the session.
LEMMA OpenAdmits ==
  ASSUME LoginInv, [Login!Next]_(Login!vars)
  PROVE  \A u \in Users : [user |-> u, at |-> now] \in sessions' \ sessions => u \in active
<1> SUFFICES ASSUME NEW u \in Users, [user |-> u, at |-> now] \in sessions' \ sessions
             PROVE  u \in active
  OBVIOUS
<1>1. PICK r \in Requests : Login!Open(r)
  BY DEF Login!Next, Login!vars, Login!Bootstrap, Login!Login, Login!Create, Login!Reserve,
         Login!Consume, Login!Verify, Login!Break, Login!SetActive, Login!Tick
<1>2. Login!Admitted(r) /\ [user |-> u, at |-> now] = [user |-> request[r].user, at |-> now]
  BY <1>1 DEF Login!Open
<1>3. QED
  BY <1>2 DEF Login!Admitted

------------------------------------------------------------------------------
(* The promises.                                                           *)

\* A step of the run is a step of the logins, or leaves them alone.
LEMMA LoginMoves ==
  ASSUME [Leases \/ Limited \/ Contested]_<<part, vars, login>>
  PROVE  [Login!Next]_(Login!vars)
BY DEF Leases, Limited, Contested, login, Login!vars

LEMMA InvPromises == LoginInv => AttemptsCounted
<1>1. Login!AuthAssumption
  BY LoginAssumption
<1>2. QED
  BY <1>1, LimitsBound, RetryRounds DEF AttemptsCounted, LimitsHold, ChallengesHold, LoginInv

\* The counts of the buckets, the one use of a challenge and the waiting time
\* of Retry-After, for every Authentication.
THEOREM LoginCounted == Login!Spec => []LoginInv
<1>1. Login!Init => LoginInv
  BY LoginAssumption, InitLogin
<1>2. LoginInv /\ [Login!Next]_(Login!vars) => LoginInv'
  BY LoginAssumption, LoginStep
<1>3. QED
  BY <1>1, <1>2, PTL DEF Login!Spec

\* Attempts at a password are counted before they are made, and a refused one
\* costs nothing: auth_limits.py and challenges.py.
THEOREM PasswordsCounted == MCSpec => []AttemptsCounted
<1>1. MCInit => LoginInv
  BY LoginAssumption, InitLogin DEF MCInit
<1>2. LoginInv /\ [Leases \/ Limited \/ Contested]_<<part, vars, login>> => LoginInv'
  BY LoginAssumption, LoginMoves, LoginStep
<1>3. QED
  BY <1>1, <1>2, InvPromises, PTL DEF MCSpec

\* A session is created only for a user who is active at that moment: the
\* transaction of AuthService.login reads the user again.
THEOREM AdmitsTheActive == MCSpec => SessionsOfActive
<1>1. MCInit => LoginInv
  BY LoginAssumption, InitLogin DEF MCInit
<1>2. LoginInv /\ [Leases \/ Limited \/ Contested]_<<part, vars, login>> => LoginInv'
  BY LoginAssumption, LoginMoves, LoginStep
<1>3. LoginInv /\ [Leases \/ Limited \/ Contested]_<<part, vars, login>>
        => [\A u \in Users : [user |-> u, at |-> now] \in sessions' \ sessions => u \in active]_(Login!vars)
  BY LoginMoves, OpenAdmits
<1>4. QED
  BY <1>1, <1>2, <1>3, PTL DEF MCSpec, SessionsOfActive, Login!SessionsOfActive
==============================================================================
