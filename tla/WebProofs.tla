------------------------------- MODULE WebProofs -------------------------------
(***************************************************************************)
(* Proofs about the browser client, for any number of threads, requests,   *)
(* accounts and calls: what a tab shows belongs to its session, what the   *)
(* chat shows is the server's, and neither gives up a question or a        *)
(* session on its own.  The two parts share no variable, so each has an    *)
(* invariant of its own, and a step of one leaves the other's alone.       *)
(***************************************************************************)
EXTENDS MCWeb, FiniteSetTheorems, SequenceTheorems, WellFoundedInduction, TLAPS

------------------------------------------------------------------------------
(* The session.                                                            *)

Tasks == {"none", "refresh", "signIn", "signOut", "suspend"}
Places == {"none", "me", "csrf", "login", "logout"}
Replies == {"none", "lost", "ok", "401", "403", "409"}
CallReplies == {"none", "401", "403", "failed", "ok"}
Accounts == [user : Users, csrf : 1..MaxTokens, live : BOOLEAN]
Ops == [task : Tasks, at : Places, prev : Users \union {None}, who : Users \union {None},
        session : Nat, token : Nat, reply : Replies]
ProtectedCalls == [target : Targets \union {None}, mutation : BOOLEAN, token : Nat,
                   fresh : BOOLEAN, latest : BOOLEAN, reply : CallReplies]
Views == [selected : Targets \union {None}, shown : Targets \union {None}]

ServerTyped ==
  /\ sessions \in Seq(Accounts)
  /\ tokens \in 0..MaxTokens
  /\ jar \in [session : Nat, csrf : Nat] /\ jar.session <= Len(sessions) /\ jar.csrf <= tokens

TabTyped ==
  /\ status \in {"loading", "anonymous", "authenticated", "unavailable"}
  /\ user \in Users \union {None} /\ (status = "authenticated") = (user # None)
  /\ csrfToken \in 0..tokens
  /\ busy = (op.task \in {"signIn", "signOut"}) /\ logoutPending \in BOOLEAN /\ protectedBlocked \in BOOLEAN
  /\ message \in {"none", "expired", "failed", "forbidden"}
  /\ op \in Ops /\ op.session <= Len(sessions) /\ op.token <= tokens

ViewTyped ==
  /\ view \in Views
  /\ protected \in [Calls -> ProtectedCalls]
  /\ \A c \in Calls : protected[c].token <= tokens

SessionTyped == ServerTyped /\ TabTyped /\ ViewTyped

\* A request of the session is under way only while nobody is confirmed, and knows
\* for whom it will confirm.
Asking ==
  /\ IF op.task = "none" THEN op.at = "none" ELSE user = None
  /\ op.task = "signOut" => status = "loading" /\ op.at \in {"csrf", "logout"}
  /\ op.task = "signIn" => op.who # None /\ op.at \in {"csrf", "login"}
  /\ op.task = "refresh" => op.at \in {"me", "csrf"} /\ (op.at = "csrf" => op.who # None)
  /\ op.task = "suspend" => op.at = "me"
  /\ op.at = "me" /\ op.reply = "ok" => op.who # None
  /\ op.at \in {"me", "csrf"} => op.reply \in {"none", "lost", "ok", "401"}
  /\ op.at = "csrf" => op.reply # "401"

\* What a reply of a logout says of the session that was to be ended.
EndedThen ==
  op.at = "logout" /\ op.reply \in {"ok", "401"} => ~Session!Live(op.session)

\* A view's latest call is one of its session's, for what is selected.
LatestCalls ==
  /\ \A c, d \in Calls : protected[c].latest /\ protected[d].latest => c = d
  /\ \A c \in Calls : protected[c].latest => protected[c].fresh /\ protected[c].target = view.selected

SessionIInv ==
  SessionTyped /\ Asking /\ EndedThen /\ LatestCalls /\ Session!ShownIsSelected /\ Session!CallsNeedSession

------------------------------------------------------------------------------
(* The server only adds sessions and tokens, and a session that has ended  *)
(* is never live again.                                                    *)

Jars == [session : Nat, csrf : Nat]

Grown ==
  /\ sessions' \in Seq(Accounts) /\ Len(sessions) <= Len(sessions')
  /\ tokens' \in 0..MaxTokens /\ tokens <= tokens'
  /\ jar' \in Jars /\ jar'.session <= Len(sessions') /\ jar'.csrf <= tokens'
  /\ \A s \in 0..Len(sessions) : ~Session!Live(s) => ~(Session!Live(s)')

LEMMA BoundsOfWeb == MaxSessions \in Nat /\ MaxTokens \in Nat /\ None \notin Users
  BY SessionAssumption DEF Session!WebAssumption

LEMMA LengthNat == ASSUME ServerTyped PROVE Len(sessions) \in Nat
  BY LenProperties DEF ServerTyped

LEMMA IssueGrows ==
  ASSUME ServerTyped, NEW u \in Users, Session!Issue(u)
  PROVE  Grown /\ jar'.csrf <= tokens'
<1> DEFINE a == [user |-> u, csrf |-> tokens', live |-> TRUE]
           n == Len(sessions)
<1>1. /\ tokens < MaxTokens /\ tokens' = tokens + 1
      /\ sessions' = Append(sessions, a)
      /\ jar' = [session |-> Len(sessions'), csrf |-> tokens']
  BY DEF Session!Issue
<1>2. tokens' \in 1..MaxTokens /\ tokens <= tokens'
  BY <1>1, BoundsOfWeb DEF ServerTyped
<1>3. a \in Accounts
  BY <1>2 DEF Accounts
<1>4. sessions \in Seq(Accounts) /\ n \in Nat
  BY LengthNat DEF ServerTyped
<1> HIDE DEF a
<1>5. /\ sessions' \in Seq(Accounts) /\ Len(sessions') = n + 1
      /\ \A s \in 1..n : sessions'[s] = sessions[s]
  BY <1>1, <1>3, <1>4, AppendProperties
<1> HIDE DEF n
<1>6. jar' \in Jars /\ jar'.session <= Len(sessions') /\ jar'.csrf <= tokens' /\ n <= Len(sessions')
  BY <1>1, <1>2, <1>4, <1>5 DEF Jars
<1>7. ASSUME NEW s \in 0..n, ~Session!Live(s) PROVE ~(Session!Live(s)')
  BY <1>4, <1>5, <1>7 DEF Session!Live
<1>8. tokens' \in 0..MaxTokens
  BY <1>2
<1>9. QED
  BY <1>2, <1>5, <1>6, <1>7, <1>8 DEF Grown, n

LEMMA EndGrows ==
  ASSUME ServerTyped, NEW s \in 1..Len(sessions), Session!End(s), UNCHANGED tokens,
         jar' = jar \/ jar' = [session |-> 0, csrf |-> 0]
  PROVE  Grown /\ ~(Session!Live(s)')
<1> DEFINE a == [sessions[s] EXCEPT !.live = FALSE]
           n == Len(sessions)
<1>1. sessions' = [sessions EXCEPT ![s] = a]
  BY DEF Session!End
<1>2. sessions \in Seq(Accounts) /\ n \in Nat /\ sessions[s] \in Accounts
  BY LengthNat, ElementOfSeq DEF ServerTyped
<1>3. a \in Accounts /\ a.live = FALSE
  BY <1>2 DEF Accounts
<1> HIDE DEF a
<1>4. /\ sessions' \in Seq(Accounts) /\ Len(sessions') = n
      /\ \A j \in 1..n : sessions'[j] = IF j = s THEN a ELSE sessions[j]
  BY <1>1, <1>2, <1>3, ExceptSeq
<1>5. ASSUME NEW j \in 0..n, ~Session!Live(j) PROVE ~(Session!Live(j)')
  BY <1>2, <1>3, <1>4, <1>5 DEF Session!Live
<1>6. ~(Session!Live(s)')
  BY <1>3, <1>4 DEF Session!Live
<1>7. jar' \in Jars /\ jar'.session <= n /\ jar'.csrf <= tokens
  BY <1>2 DEF ServerTyped, Jars
<1>8. QED
  BY <1>2, <1>4, <1>5, <1>6, <1>7 DEF Grown, ServerTyped

LEMMA StillGrows == ASSUME ServerTyped, UNCHANGED Session!server PROVE Grown
<1>1. UNCHANGED <<sessions, tokens, jar>>
  BY DEF Session!server
<1>2. \A s : Session!Live(s)' = Session!Live(s)
  BY <1>1 DEF Session!Live
<1>3. QED
  BY <1>1, <1>2, LengthNat DEF Grown, ServerTyped, Jars

LEMMA BootstrapGrows == ASSUME ServerTyped, Session!Bootstrap PROVE Grown
<1>1. CASE UNCHANGED Session!server
  BY <1>1, StillGrows
<1>2. CASE /\ tokens < MaxTokens /\ tokens' = tokens + 1
           /\ jar' = [jar EXCEPT !.csrf = tokens']
           /\ sessions' = IF Session!Live(jar.session)
                          THEN [sessions EXCEPT ![jar.session].csrf = tokens'] ELSE sessions
  <2> DEFINE n == Len(sessions)
             k == jar.session
  <2>1. tokens' \in 1..MaxTokens /\ tokens' \in Nat /\ tokens <= tokens'
    BY <1>2, BoundsOfWeb DEF ServerTyped
  <2>2. sessions \in Seq(Accounts) /\ n \in Nat /\ jar \in Jars /\ k <= n
    BY LengthNat DEF ServerTyped, Jars
  <2>3. jar' \in Jars /\ jar'.session = k /\ jar'.csrf = tokens'
    BY <1>2, <2>1, <2>2 DEF Jars
  <2>4. CASE Session!Live(k)
    <3> DEFINE a == [sessions[k] EXCEPT !.csrf = tokens']
    <3>1. k \in 1..n
      BY <2>2, <2>4 DEF Session!Live, Jars
    <3>2. sessions[k] \in Accounts
      BY <2>2, <3>1, ElementOfSeq
    <3>3. a \in Accounts
      BY <2>1, <3>2 DEF Accounts
    <3>4. sessions' = [sessions EXCEPT ![k] = a]
      BY <1>2, <2>4
    <3> HIDE DEF a, k
    <3>5. /\ sessions' \in Seq(Accounts) /\ Len(sessions') = n
          /\ \A j \in 1..n : sessions'[j] = IF j = k THEN a ELSE sessions[j]
      BY <2>2, <3>1, <3>3, <3>4, ExceptSeq
    <3>6. ASSUME NEW j \in 0..n, ~Session!Live(j) PROVE ~(Session!Live(j)')
      BY <2>2, <2>4, <3>1, <3>5, <3>6 DEF Session!Live
    <3>7. QED
      BY <2>1, <2>2, <2>3, <3>5, <3>6 DEF Grown, k
  <2>5. CASE ~Session!Live(k)
    <3>1. sessions' = sessions
      BY <1>2, <2>5
    <3>2. \A s : Session!Live(s)' = Session!Live(s)
      BY <3>1 DEF Session!Live
    <3>3. QED
      BY <2>1, <2>2, <2>3, <3>1, <3>2 DEF Grown
  <2>6. QED
    BY <2>4, <2>5
<1>3. QED
  BY <1>1, <1>2 DEF Session!Bootstrap

------------------------------------------------------------------------------
(* Steps of the server and of other tabs.                                  *)

LEMMA ServedKeeps ==
  ASSUME SessionIInv, Grown, UNCHANGED <<Session!tab, view, protected>>,
         op' \in Ops, op'.session <= Len(sessions'), op'.token <= tokens',
         op'.task = op.task, op'.at = op.at,
         op.who # None => op'.who # None,
         op'.reply # op.reply =>
           /\ op.at = "me" /\ op'.reply = "ok" => op'.who # None
           /\ op.at \in {"me", "csrf"} => op'.reply \in {"none", "lost", "ok", "401"}
           /\ op.at = "csrf" => op'.reply # "401",
         EndedThen'
  PROVE  SessionIInv'
<1>1. UNCHANGED <<status, user, csrfToken, busy, logoutPending, protectedBlocked, message>>
  BY DEF Session!tab, Session!flags
<1>2. SessionTyped'
  <2>1. csrfToken \in 0..tokens' /\ \A c \in Calls : protected[c].token <= tokens'
    <3>1. tokens \in Nat /\ tokens' \in Nat /\ tokens <= tokens'
      BY DEF SessionIInv, SessionTyped, ServerTyped, TabTyped, ViewTyped, Grown
    <3>2. csrfToken \in 0..tokens /\ \A c \in Calls : protected[c].token <= tokens /\ protected[c].token \in Nat
      BY DEF SessionIInv, SessionTyped, ServerTyped, TabTyped, ViewTyped, ProtectedCalls
    <3>3. QED
      BY <3>1, <3>2
  <2>2. QED
    BY <1>1, <2>1 DEF SessionIInv, SessionTyped, ServerTyped, TabTyped, ViewTyped, Grown, Jars
<1>3. Asking'
  BY <1>1 DEF SessionIInv, Asking
<1>4. LatestCalls'
  BY DEF SessionIInv, LatestCalls
<1>5. Session!ShownIsSelected' /\ Session!CallsNeedSession'
  BY <1>1 DEF SessionIInv, Session!ShownIsSelected, Session!CallsNeedSession
<1>6. QED
  BY <1>2, <1>3, <1>4, <1>5 DEF SessionIInv

LEMMA OutsideKeeps ==
  ASSUME SessionIInv, Grown, UNCHANGED <<Session!tab, op, view, protected>>
  PROVE  SessionIInv'
<1>1. op \in Ops /\ op.session <= Len(sessions') /\ op.token <= tokens'
  <2>1. /\ op \in Ops /\ op.session \in Nat /\ op.token \in Nat
        /\ op.session <= Len(sessions) /\ op.token <= tokens /\ tokens \in Nat
    BY DEF SessionIInv, SessionTyped, ServerTyped, TabTyped, ViewTyped, Ops
  <2>2. Len(sessions) \in Nat /\ Len(sessions') \in Nat /\ tokens' \in Nat
    BY LengthNat, LenProperties DEF SessionIInv, SessionTyped, Grown
  <2>3. QED
    BY <2>1, <2>2 DEF Grown
<1>2. EndedThen'
  <2>1. op.session \in 0..Len(sessions)
    BY LengthNat DEF SessionIInv, SessionTyped, ServerTyped, TabTyped, ViewTyped, Ops
  <2>2. ~Session!Live(op.session) => ~(Session!Live(op.session)')
    BY <2>1 DEF Grown
  <2>3. QED
    BY <2>2 DEF SessionIInv, EndedThen, Session!Live
<1>3. QED
  BY <1>1, <1>2, ServedKeeps

\* A reply says what the server knew when it answered, and for which session it answered.
LEMMA ReplyKeeps ==
  ASSUME SessionIInv, Grown, UNCHANGED <<Session!tab, view, protected>>,
         NEW r \in Replies, NEW u \in Users \union {None}, NEW t \in Nat, t <= tokens',
         NEW s \in Nat, s = jar.session, Session!Reply(r, u, t),
         op.who # None => u # None,
         op.at = "me" /\ r = "ok" => u # None,
         op.at \in {"me", "csrf"} => r \in {"none", "lost", "ok", "401"},
         op.at = "csrf" => r # "401",
         op.at = "logout" /\ r \in {"ok", "401"} => ~(Session!Live(s)')
  PROVE  SessionIInv'
<1>1. op' = [op EXCEPT !.reply = r, !.who = u, !.token = t, !.session = s]
  BY DEF Session!Reply
<1>2. op \in Ops /\ s <= Len(sessions)
  BY DEF SessionIInv, SessionTyped, ServerTyped, TabTyped, ViewTyped
<1>3. /\ op' \in Ops /\ op'.session = s /\ op'.token = t /\ op'.who = u /\ op'.reply = r
      /\ op'.task = op.task /\ op'.at = op.at
  BY <1>1, <1>2 DEF Ops
<1>4. s <= Len(sessions')
  <2>1. Len(sessions) \in Nat /\ Len(sessions') \in Nat
    BY LengthNat, LenProperties DEF SessionIInv, SessionTyped, Grown
  <2>2. QED
    BY <1>2, <2>1 DEF Grown
<1>5. EndedThen'
  BY <1>3 DEF EndedThen, Session!Live
<1>6. QED
  BY <1>3, <1>4, <1>5, ServedKeeps

LEMMA ServeKeeps == ASSUME SessionIInv, Session!Serve PROVE SessionIInv'
<1> DEFINE s == jar.session
<1>1. UNCHANGED <<Session!tab, view, protected>> /\ op.at # "none" /\ op.reply = "none"
  BY DEF Session!Serve
<1>2. ServerTyped /\ op \in Ops /\ op.who \in Users \union {None} /\ s \in Nat /\ s <= Len(sessions)
  BY DEF SessionIInv, SessionTyped, ServerTyped, TabTyped, ViewTyped, Ops
<1>3. sessions \in Seq(Accounts) /\ Len(sessions) \in Nat
  BY <1>2, LengthNat DEF SessionTyped, ServerTyped, TabTyped, ViewTyped
<1>4. Session!Live(s) => s \in 1..Len(sessions)
  BY <1>2, <1>3 DEF Session!Live
<1>5. UNCHANGED Session!server => Grown /\ (\A x : Session!Live(x)' = Session!Live(x)) /\ tokens' = tokens
  BY <1>2, StillGrows DEF Session!server, Session!Live
<1>6. tokens \in Nat /\ 0 \in Nat /\ 0 <= tokens
  BY <1>2 DEF SessionTyped, ServerTyped, TabTyped, ViewTyped
<1>7. Replies = {"none", "lost", "ok", "401", "403", "409"}
  BY DEF Replies
<1>8. ASSUME Session!Reply("lost", op.who, 0), UNCHANGED Session!server PROVE SessionIInv'
  BY <1>1, <1>2, <1>5, <1>6, <1>7, <1>8, ReplyKeeps
<1>9. ASSUME op.at = "me", UNCHANGED Session!server,
             IF Session!Live(s) THEN Session!Reply("ok", sessions[s].user, 0)
             ELSE Session!Reply("401", op.who, 0)
      PROVE  SessionIInv'
  <2>1. CASE Session!Live(s)
    <3>1. sessions[s] \in Accounts
      BY <1>3, <1>4, <2>1, ElementOfSeq
    <3>2. sessions[s].user \in Users /\ sessions[s].user # None
      BY <3>1, BoundsOfWeb DEF Accounts
    <3>3. sessions[s].user \in Users \union {None}
      BY <3>2
    <3>4. Session!Reply("ok", sessions[s].user, 0)
      BY <1>9, <2>1
    <3> DEFINE u == sessions[s].user
    <3> HIDE DEF u
    <3>5. u \in Users \union {None} /\ u # None /\ Session!Reply("ok", u, 0)
      BY <3>2, <3>3, <3>4 DEF u
    <3>6. QED
      BY <1>1, <1>2, <1>5, <1>6, <1>7, <1>9, <3>5, ReplyKeeps
  <2>2. CASE ~Session!Live(s)
    BY <1>1, <1>2, <1>5, <1>6, <1>7, <1>9, <2>2, ReplyKeeps
  <2>3. QED
    BY <2>1, <2>2
<1>10. ASSUME op.at = "csrf", Session!Bootstrap, Session!Reply("ok", op.who, jar'.csrf)
       PROVE  SessionIInv'
  <2>1. Grown
    BY <1>2, <1>10, BootstrapGrows
  <2>2. jar'.csrf \in Nat /\ jar'.csrf <= tokens'
    BY <2>1 DEF Grown, Jars
  <2>3. QED
    BY <1>1, <1>2, <1>7, <1>10, <2>1, <2>2, ReplyKeeps
<1>11. ASSUME op.at = "login", UNCHANGED Session!server, NEW r \in {"409", "401"},
              Session!Reply(r, op.who, 0)
       PROVE  SessionIInv'
  BY <1>1, <1>2, <1>5, <1>6, <1>7, <1>11, ReplyKeeps
<1>12. ASSUME op.at = "login", Session!Issue(op.who), op.who \in Users, NEW r \in {"ok", "lost"},
              Session!Reply(r, op.who, jar'.csrf)
       PROVE  SessionIInv'
  <2>1. Grown
    BY <1>2, <1>12, IssueGrows
  <2>2. jar'.csrf \in Nat /\ jar'.csrf <= tokens'
    BY <2>1 DEF Grown, Jars
  <2>3. QED
    BY <1>1, <1>2, <1>7, <1>12, <2>1, <2>2, ReplyKeeps
<1>13. ASSUME op.at = "logout", UNCHANGED Session!server,
              \/ ~Session!Live(s) /\ Session!Reply("401", op.who, 0)
              \/ Session!Reply("403", op.who, 0)
       PROVE  SessionIInv'
  BY <1>1, <1>2, <1>5, <1>6, <1>7, <1>13, ReplyKeeps
<1>14. ASSUME op.at = "logout", Session!Live(s), Session!End(s), UNCHANGED tokens,
              jar' = [session |-> 0, csrf |-> 0], NEW r \in {"ok", "lost"},
              Session!Reply(r, op.who, 0)
       PROVE  SessionIInv'
  <2>1. PICK k \in 1..Len(sessions) : k = s
    BY <1>4, <1>14
  <2>2. Session!End(k)
    BY <1>14, <2>1 DEF Session!End
  <2>3. Grown /\ ~(Session!Live(k)')
    BY <1>2, <1>14, <2>2, EndGrows
  <2>4. tokens' = tokens /\ k \in Nat
    BY <1>3, <1>14
  <2>5. QED
    BY <1>1, <1>2, <1>6, <1>7, <1>14, <2>1, <2>3, <2>4, ReplyKeeps
<1>15. op.at = "login" => op.who \in Users
  BY <1>1, <1>2 DEF SessionIInv, Asking, Ops, Tasks
<1>16. QED
  BY <1>8, <1>9, <1>10, <1>11, <1>12, <1>13, <1>14, <1>15 DEF Session!Serve

------------------------------------------------------------------------------
(* Steps of the tab.                                                       *)

LEMMA SameServer ==
  ASSUME SessionIInv, UNCHANGED Session!server
  PROVE  ServerTyped' /\ tokens' = tokens /\ sessions' = sessions
         /\ \A s : Session!Live(s)' = Session!Live(s)
BY DEF SessionIInv, SessionTyped, ServerTyped, Session!server, Session!Live

\* A new epoch of the session leaves no content and no current call.
LEMMA ClearedKeeps ==
  ASSUME SessionIInv, UNCHANGED Session!server, Session!Cleared, TabTyped', Asking', EndedThen'
  PROVE  SessionIInv'
<1>1. ServerTyped' /\ tokens' = tokens
  BY SameServer
<1>2. /\ view' = [selected |-> None, shown |-> None]
      /\ protected' = [c \in Calls |-> [protected[c] EXCEPT !.fresh = FALSE, !.latest = FALSE]]
  BY DEF Session!Cleared
<1>3. protected \in [Calls -> ProtectedCalls] /\ \A c \in Calls : protected[c].token <= tokens
  BY DEF SessionIInv, SessionTyped, ViewTyped
<1>4. \A c \in Calls :
        /\ protected'[c] \in ProtectedCalls /\ protected'[c].token = protected[c].token
        /\ protected'[c].fresh = FALSE /\ protected'[c].latest = FALSE
  BY <1>2, <1>3 DEF ProtectedCalls
<1>5. protected' \in [Calls -> ProtectedCalls]
  BY <1>2, <1>4
<1>6. view' \in Views /\ view'.shown = None
  BY <1>2 DEF Views
<1>7. ViewTyped'
  BY <1>1, <1>3, <1>4, <1>5, <1>6 DEF ViewTyped
<1>8. LatestCalls' /\ Session!ShownIsSelected' /\ Session!CallsNeedSession'
  BY <1>4, <1>6 DEF LatestCalls, Session!ShownIsSelected, Session!CallsNeedSession
<1>9. QED
  BY <1>1, <1>7, <1>8 DEF SessionIInv, SessionTyped

\* A step that leaves the views alone may not take a confirmation away.
LEMMA ViewsStay ==
  ASSUME SessionIInv, UNCHANGED Session!server, UNCHANGED <<view, protected>>,
         TabTyped', Asking', EndedThen',
         status = "authenticated" => status' = "authenticated",
         protectedBlocked' => protectedBlocked
  PROVE  SessionIInv'
<1>1. ServerTyped' /\ tokens' = tokens
  BY SameServer
<1>2. ViewTyped' /\ LatestCalls'
  BY <1>1 DEF SessionIInv, SessionTyped, ViewTyped, LatestCalls
<1>3. Session!ShownIsSelected' /\ Session!CallsNeedSession'
  BY DEF SessionIInv, Session!ShownIsSelected, Session!CallsNeedSession
<1>4. QED
  BY <1>1, <1>2, <1>3 DEF SessionIInv, SessionTyped

\* The session's request over, or one just asked.
LEMMA OverOps ==
  ASSUME SessionIInv, UNCHANGED Session!server, op' = Session!Idle
  PROVE  /\ op' \in Ops /\ op'.session <= Len(sessions') /\ op'.token <= tokens'
         /\ (op'.task \in {"signIn", "signOut"}) = FALSE
         /\ Asking' /\ EndedThen'
<1>1. Len(sessions) \in Nat /\ tokens \in Nat /\ tokens' = tokens /\ sessions' = sessions
  BY LengthNat, SameServer DEF SessionIInv, SessionTyped, ServerTyped
<1>2. op' = [task |-> "none", at |-> "none", prev |-> None, who |-> None,
             session |-> 0, token |-> 0, reply |-> "none"]
  BY DEF Session!Idle
<1>3. op' \in Ops
  BY <1>2 DEF Ops, Tasks, Places, Replies
<1>4. op'.session = 0 /\ op'.token = 0 /\ op'.task = "none" /\ op'.at = "none"
  BY <1>2
<1>5. Asking' /\ EndedThen' /\ op'.task \notin {"signIn", "signOut"}
  BY <1>4 DEF Asking, EndedThen
<1>6. QED
  BY <1>1, <1>3, <1>4, <1>5

LEMMA AskOps ==
  ASSUME SessionIInv, UNCHANGED Session!server,
         NEW task \in Tasks, NEW at \in Places, NEW prev \in Users \union {None},
         NEW who \in Users \union {None}, NEW token \in Nat, token <= tokens,
         op' = [task |-> task, at |-> at, prev |-> prev, who |-> who,
                session |-> 0, token |-> token, reply |-> "none"]
  PROVE  /\ op' \in Ops /\ op'.session <= Len(sessions') /\ op'.token <= tokens'
         /\ op'.task = task /\ op'.at = at /\ op'.who = who /\ op'.reply = "none" /\ op'.token = token
<1>1. Len(sessions) \in Nat /\ tokens \in Nat /\ tokens' = tokens /\ sessions' = sessions
  BY LengthNat, SameServer DEF SessionIInv, SessionTyped, ServerTyped
<1>2. "none" \in Replies /\ 0 \in Nat
  BY DEF Replies
<1>3. op' \in Ops
  BY <1>2 DEF Ops
<1>4. op'.session = 0 /\ op'.token = token
  OBVIOUS
<1>5. QED
  BY <1>1, <1>3, <1>4

LEMMA RefreshKeeps == ASSUME SessionIInv, Session!Refresh PROVE SessionIInv'
<1>1. /\ Session!Free /\ Session!Cleared /\ UNCHANGED Session!server
      /\ status' = "loading" /\ user' = None /\ message' = "none" /\ csrfToken' = csrfToken
      /\ busy' = busy /\ logoutPending' = logoutPending /\ protectedBlocked' = protectedBlocked
  BY DEF Session!Refresh, Session!flags
<1>2. TabTyped
  BY DEF SessionIInv, SessionTyped
<1>3. 0 \in Nat /\ 0 <= tokens /\ tokens' = tokens
  BY <1>1, SameServer DEF SessionIInv, SessionTyped, ServerTyped
<1>4. op' = [task |-> "refresh", at |-> "me", prev |-> user, who |-> None,
             session |-> 0, token |-> 0, reply |-> "none"]
  BY DEF Session!Refresh, Session!Ask, Session!Idle
<1>5. "refresh" \in Tasks /\ "me" \in Places /\ user \in Users \union {None}
  BY <1>2 DEF Tasks, Places, TabTyped
<1>6. /\ op' \in Ops /\ op'.session <= Len(sessions') /\ op'.token <= tokens'
      /\ op'.task = "refresh" /\ op'.at = "me" /\ op'.reply = "none"
  BY <1>1, <1>3, <1>4, <1>5, AskOps
<1>7. busy' = FALSE /\ (op'.task \in {"signIn", "signOut"}) = FALSE
  BY <1>1, <1>2, <1>6 DEF TabTyped, Session!Free
<1>8. TabTyped'
  BY <1>1, <1>2, <1>3, <1>6, <1>7 DEF TabTyped
<1>9. Asking' /\ EndedThen'
  BY <1>1, <1>6 DEF Asking, EndedThen
<1>10. QED
  BY <1>1, <1>8, <1>9, ClearedKeeps

LEMMA SignInKeeps == ASSUME SessionIInv, NEW u \in Users, Session!SignIn(u) PROVE SessionIInv'
<1>1. /\ Session!Cleared /\ UNCHANGED Session!server
      /\ status = "anonymous" /\ status' = status /\ user' = user /\ message' = "none" /\ csrfToken' = csrfToken
      /\ busy' = TRUE /\ logoutPending' = logoutPending /\ protectedBlocked' = protectedBlocked
  BY DEF Session!SignIn
<1>2. TabTyped
  BY DEF SessionIInv, SessionTyped
<1>3. 0 \in Nat /\ 0 <= tokens /\ tokens' = tokens
  BY <1>1, SameServer DEF SessionIInv, SessionTyped, ServerTyped
<1>4. op' = [task |-> "signIn", at |-> "csrf", prev |-> None, who |-> u,
             session |-> 0, token |-> 0, reply |-> "none"]
  BY DEF Session!SignIn, Session!Ask, Session!Idle
<1>5. "signIn" \in Tasks /\ "csrf" \in Places /\ u \in Users \union {None} /\ None \in Users \union {None}
      /\ u # None
  BY BoundsOfWeb DEF Tasks, Places
<1>6. /\ op' \in Ops /\ op'.session <= Len(sessions') /\ op'.token <= tokens'
      /\ op'.task = "signIn" /\ op'.at = "csrf" /\ op'.who = u /\ op'.reply = "none"
  BY <1>1, <1>3, <1>4, <1>5, AskOps
<1>7. (op'.task \in {"signIn", "signOut"}) = TRUE
  BY <1>6
<1>8. TabTyped'
  BY <1>1, <1>2, <1>3, <1>6, <1>7 DEF TabTyped
<1>9. user' = None
  BY <1>1, <1>2 DEF TabTyped
<1>10. Asking' /\ EndedThen'
  BY <1>5, <1>6, <1>9 DEF Asking, EndedThen
<1>11. QED
  BY <1>1, <1>8, <1>10, ClearedKeeps

LEMMA SignOutKeeps == ASSUME SessionIInv, Session!SignOut PROVE SessionIInv'
<1> DEFINE at == IF csrfToken = 0 THEN "csrf" ELSE "logout"
<1>1. /\ Session!Cleared /\ UNCHANGED Session!server
      /\ status' = "loading" /\ user' = None /\ message' = "none" /\ csrfToken' = 0
      /\ busy' = TRUE /\ logoutPending' = TRUE /\ protectedBlocked' = protectedBlocked
  BY DEF Session!SignOut
<1>2. TabTyped
  BY DEF SessionIInv, SessionTyped
<1>3. tokens \in Nat /\ tokens' = tokens
  BY <1>1, SameServer DEF SessionIInv, SessionTyped, ServerTyped
<1>4. op' = [task |-> "signOut", at |-> at, prev |-> None, who |-> None,
             session |-> 0, token |-> csrfToken, reply |-> "none"]
  BY DEF Session!SignOut, Session!Idle
<1>5. "signOut" \in Tasks /\ at \in Places /\ None \in Users \union {None}
  BY DEF Tasks, Places
<1>6. csrfToken \in Nat /\ csrfToken <= tokens
  BY <1>2, <1>3 DEF TabTyped
<1> HIDE DEF at
<1>7. /\ op' \in Ops /\ op'.session <= Len(sessions') /\ op'.token <= tokens'
      /\ op'.task = "signOut" /\ op'.at = at /\ op'.reply = "none"
  BY <1>1, <1>4, <1>5, <1>6, AskOps
<1>8. (op'.task \in {"signIn", "signOut"}) = TRUE
  BY <1>7
<1>9. TabTyped'
  <2>1. (status' = "authenticated") = (user' # None) /\ csrfToken' \in 0..tokens'
    BY <1>1, <1>3
  <2>2. QED
    BY <1>1, <1>2, <1>3, <1>7, <1>8, <2>1 DEF TabTyped
<1>10. at \in {"csrf", "logout"}
  BY DEF at
<1>11. Asking' /\ EndedThen'
  BY <1>1, <1>7, <1>10 DEF Asking, EndedThen
<1>12. QED
  BY <1>1, <1>9, <1>11, ClearedKeeps

LEMMA ExpireKeeps ==
  ASSUME SessionIInv, UNCHANGED Session!server, NEW reportExpiry, Session!expire(reportExpiry),
         UNCHANGED <<busy, logoutPending>>, op.task \notin {"signIn", "signOut"}
  PROVE  SessionIInv'
<1>1. /\ Session!Cleared /\ op' = Session!Idle
      /\ status' = "anonymous" /\ user' = None /\ csrfToken' = 0 /\ protectedBlocked' = FALSE
      /\ message' \in {"none", "expired"}
  BY DEF Session!expire
<1>2. TabTyped
  BY DEF SessionIInv, SessionTyped
<1>3. tokens \in Nat /\ tokens' = tokens
  BY SameServer DEF SessionIInv, SessionTyped, ServerTyped
<1>4. busy' = FALSE
  <2>1. busy = (op.task \in {"signIn", "signOut"}) /\ busy' = busy
    BY <1>2 DEF TabTyped
  <2>2. (op.task \in {"signIn", "signOut"}) = FALSE
    OBVIOUS
  <2>3. QED
    BY <2>1, <2>2
<1>5. TabTyped'
  <2>1. (status' = "authenticated") = (user' # None) /\ csrfToken' \in 0..tokens'
    BY <1>1, <1>3
  <2>2. QED
    BY <1>1, <1>2, <1>3, <1>4, <2>1, OverOps DEF TabTyped
<1>6. QED
  BY <1>1, <1>5, OverOps, ClearedKeeps

LEMMA ConfirmKeeps ==
  ASSUME SessionIInv, UNCHANGED Session!server, NEW u \in Users, NEW t \in Nat, t <= tokens,
         Session!Authenticate(u, t), UNCHANGED <<view, protected>>,
         busy' = FALSE, logoutPending' = logoutPending, message' = message
  PROVE  SessionIInv'
<1>1. /\ op' = Session!Idle /\ status' = "authenticated" /\ user' = u /\ csrfToken' = t
      /\ protectedBlocked' = FALSE
  BY DEF Session!Authenticate
<1>2. TabTyped
  BY DEF SessionIInv, SessionTyped
<1>3. tokens \in Nat /\ tokens' = tokens /\ u # None
  BY SameServer, BoundsOfWeb DEF SessionIInv, SessionTyped, ServerTyped
<1>4. TabTyped'
  <2>1. (status' = "authenticated") = (user' # None) /\ csrfToken' \in 0..tokens'
    BY <1>1, <1>3
  <2>2. QED
    BY <1>1, <1>2, <2>1, OverOps DEF TabTyped
<1>5. QED
  BY <1>1, <1>4, OverOps, ViewsStay

\* The request gave no answer: nobody is confirmed, and the tab says so.
LEMMA UnavailableKeeps ==
  ASSUME SessionIInv, UNCHANGED Session!server, op.task # "none", Session!Unavailable,
         UNCHANGED <<user, view, protected, protectedBlocked, logoutPending>>,
         csrfToken' = csrfToken, busy' = FALSE
  PROVE  SessionIInv'
<1>1. op' = Session!Idle /\ status' = "unavailable" /\ message' = "failed"
  BY DEF Session!Unavailable
<1>2. TabTyped /\ user = None
  BY DEF SessionIInv, SessionTyped, Asking
<1>3. tokens' = tokens
  BY SameServer
<1>4. TabTyped'
  <2>1. (status' = "authenticated") = (user' # None)
    BY <1>1, <1>2
  <2>2. QED
    BY <1>1, <1>2, <1>3, <2>1, OverOps DEF TabTyped
<1>5. status # "authenticated"
  BY <1>2 DEF TabTyped
<1>6. QED
  BY <1>1, <1>4, <1>5, OverOps, ViewsStay

\* The request goes on to its next place.
LEMMA AskAgainKeeps ==
  ASSUME SessionIInv, UNCHANGED Session!server, op.task \in {"refresh", "signIn", "signOut"},
         UNCHANGED <<Session!tab, view, protected>>,
         NEW at \in Places, NEW token \in Nat, token <= tokens, NEW prev \in Users \union {None},
         NEW who \in Users \union {None},
         op' = [task |-> op.task, at |-> at, prev |-> prev, who |-> who,
                session |-> 0, token |-> token, reply |-> "none"],
         op.task = "signOut" => at \in {"csrf", "logout"},
         op.task = "signIn" => who # None /\ at \in {"csrf", "login"},
         op.task = "refresh" => at \in {"me", "csrf"} /\ (at = "csrf" => who # None)
  PROVE  SessionIInv'
<1>1. op.task \in Tasks
  BY DEF Tasks
<1>2. /\ op' \in Ops /\ op'.session <= Len(sessions') /\ op'.token <= tokens'
      /\ op'.task = op.task /\ op'.at = at /\ op'.who = who /\ op'.reply = "none"
  BY <1>1, AskOps
<1>3. UNCHANGED <<status, user, csrfToken, busy, logoutPending, protectedBlocked, message>>
  BY DEF Session!tab, Session!flags
<1>4. TabTyped /\ Asking /\ tokens' = tokens
  BY SameServer DEF SessionIInv, SessionTyped
<1>5. TabTyped'
  BY <1>2, <1>3, <1>4 DEF TabTyped
<1>6. Asking' /\ EndedThen'
  BY <1>2, <1>3, <1>4 DEF Asking, EndedThen
<1>7. QED
  BY <1>3, <1>5, <1>6, ViewsStay

LEMMA RefreshArrivesKeeps == ASSUME SessionIInv, Session!RefreshArrives PROVE SessionIInv'
<1>1. /\ op.task = "refresh" /\ op.reply # "none" /\ UNCHANGED Session!server
  BY DEF Session!RefreshArrives
<1>2. TabTyped /\ Asking /\ op \in Ops /\ tokens \in Nat
  BY DEF SessionIInv, SessionTyped, TabTyped, ServerTyped
<1>3. op.who \in Users \union {None} /\ op.prev \in Users \union {None} /\ op.token \in Nat /\ op.token <= tokens
  BY <1>2 DEF Ops, TabTyped
<1>4. busy = FALSE /\ csrfToken \in Nat /\ csrfToken <= tokens
  <2>1. (op.task \in {"signIn", "signOut"}) = FALSE
    BY <1>1
  <2>2. busy = FALSE
    BY <1>2, <2>1 DEF TabTyped
  <2>3. csrfToken \in 0..tokens
    BY <1>2 DEF TabTyped
  <2>4. QED
    BY <1>2, <2>2, <2>3
<1>5. ASSUME op.at = "me", op.reply = "ok", Session!Ask("refresh", "csrf", op.prev, op.who),
             UNCHANGED <<Session!tab, view, protected>>
      PROVE  SessionIInv'
  <2>1. op' = [task |-> op.task, at |-> "csrf", prev |-> op.prev, who |-> op.who,
               session |-> 0, token |-> 0, reply |-> "none"]
    BY <1>1, <1>5 DEF Session!Ask, Session!Idle
  <2>2. "csrf" \in Places /\ 0 \in Nat /\ 0 <= tokens /\ op.who # None
    BY <1>2, <1>5 DEF Places, Asking
  <2>3. QED
    BY <1>1, <1>3, <1>5, <2>1, <2>2, AskAgainKeeps
<1>6. ASSUME NEW t \in Nat, t <= tokens, op.who # None, Session!Authenticate(op.who, t),
             UNCHANGED <<busy, logoutPending, message, view, protected>>
      PROVE  SessionIInv'
  BY <1>1, <1>3, <1>4, <1>6, ConfirmKeeps
<1>7. ASSUME Session!expire(op.prev # None), UNCHANGED <<busy, logoutPending>>
      PROVE  SessionIInv'
  <2>1. op.task \notin {"signIn", "signOut"}
    BY <1>1
  <2>2. PICK r : r = (op.prev # None)
    OBVIOUS
  <2>3. Session!expire(r)
    BY <1>7, <2>2
  <2>4. QED
    BY <1>1, <1>7, <2>1, <2>3, ExpireKeeps
<1>8. ASSUME Session!Unavailable, UNCHANGED <<user, csrfToken, Session!flags, view, protected>>
      PROVE  SessionIInv'
  BY <1>1, <1>4, <1>8, UnavailableKeeps DEF Session!flags
<1>9. op.reply = "ok" => op.who # None
  BY <1>1, <1>2 DEF Asking
<1>10. QED
  BY <1>1, <1>3, <1>4, <1>5, <1>6, <1>7, <1>8, <1>9 DEF Session!RefreshArrives

LEMMA SuspendArrivesKeeps == ASSUME SessionIInv, Session!SuspendArrives PROVE SessionIInv'
<1>1. /\ op.task = "suspend" /\ op.reply # "none" /\ UNCHANGED Session!server
  BY DEF Session!SuspendArrives
<1>2. TabTyped /\ Asking /\ op \in Ops
  BY DEF SessionIInv, SessionTyped, TabTyped
<1>3. busy = FALSE /\ op.task \notin {"signIn", "signOut"} /\ op.who \in Users \union {None}
  <2>1. (op.task \in {"signIn", "signOut"}) = FALSE
    BY <1>1
  <2>2. QED
    BY <1>2, <2>1 DEF TabTyped, Ops
<1>4. ASSUME op.reply = "ok", user' = op.who, status' = "authenticated", message' = "forbidden",
             op' = Session!Idle, UNCHANGED <<csrfToken, Session!flags, view, protected>>
      PROVE  SessionIInv'
  <2>1. op.who # None /\ tokens' = tokens
    BY <1>1, <1>2, <1>4, SameServer DEF Asking
  <2>2. (status' = "authenticated") = (user' # None)
    BY <1>4, <2>1
  <2>3. UNCHANGED <<busy, logoutPending, protectedBlocked>>
    BY <1>4 DEF Session!flags
  <2>4. TabTyped'
    BY <1>1, <1>2, <1>3, <1>4, <2>1, <2>2, <2>3, OverOps DEF TabTyped
  <2>5. QED
    BY <1>1, <1>4, <2>3, <2>4, OverOps, ViewsStay
<1>5. ASSUME Session!expire(TRUE), UNCHANGED <<busy, logoutPending>> PROVE SessionIInv'
  BY <1>1, <1>3, <1>5, ExpireKeeps
<1>6. ASSUME Session!Unavailable, UNCHANGED <<user, csrfToken, Session!flags, view, protected>>
      PROVE  SessionIInv'
  BY <1>1, <1>3, <1>6, UnavailableKeeps DEF Session!flags
<1>7. QED
  BY <1>1, <1>4, <1>5, <1>6 DEF Session!SuspendArrives

LEMMA SignInArrivesKeeps == ASSUME SessionIInv, Session!SignInArrives PROVE SessionIInv'
<1>1. /\ op.task = "signIn" /\ op.reply # "none" /\ UNCHANGED Session!server
      /\ UNCHANGED <<view, protected>>
  BY DEF Session!SignInArrives
<1>2. TabTyped /\ Asking /\ op \in Ops /\ tokens \in Nat
  BY DEF SessionIInv, SessionTyped, TabTyped, ServerTyped
<1>3. /\ op.who \in Users \union {None} /\ op.who # None /\ op.token \in Nat /\ op.token <= tokens
      /\ user = None
  BY <1>1, <1>2 DEF Ops, TabTyped, Asking
<1>4. ASSUME op' = [Session!Idle EXCEPT !.task = "signIn", !.at = "login", !.who = op.who, !.token = op.token],
             UNCHANGED Session!tab
      PROVE  SessionIInv'
  <2>1. op' = [task |-> op.task, at |-> "login", prev |-> None, who |-> op.who,
               session |-> 0, token |-> op.token, reply |-> "none"]
    BY <1>1, <1>4 DEF Session!Idle
  <2>2. "login" \in Places /\ None \in Users \union {None}
    BY DEF Places
  <2>3. QED
    BY <1>1, <1>2, <1>3, <1>4, <2>1, <2>2, AskAgainKeeps
<1>5. ASSUME Session!Authenticate(op.who, op.token), busy' = FALSE, UNCHANGED <<logoutPending, message>>
      PROVE  SessionIInv'
  BY <1>1, <1>2, <1>3, <1>5, ConfirmKeeps
<1>6. ASSUME csrfToken' = 0, status' = IF op.reply = "401" THEN "anonymous" ELSE "unavailable",
             logoutPending' = (op.reply = "409"), message' = "failed", busy' = FALSE,
             op' = Session!Idle, UNCHANGED <<user, protectedBlocked>>
      PROVE  SessionIInv'
  <2>1. status' \in {"anonymous", "unavailable"} /\ logoutPending' \in BOOLEAN
    BY <1>6
  <2>2. (status' = "authenticated") = (user' # None)
    BY <1>3, <1>6, <2>1
  <2>3. csrfToken' \in 0..tokens' /\ tokens' = tokens
    BY <1>1, <1>2, <1>6, SameServer
  <2>4. TabTyped'
    BY <1>1, <1>2, <1>6, <2>1, <2>2, <2>3, OverOps DEF TabTyped
  <2>5. status # "authenticated"
    BY <1>2, <1>3 DEF TabTyped
  <2>6. QED
    BY <1>1, <1>6, <2>4, <2>5, OverOps, ViewsStay
<1>7. QED
  BY <1>4, <1>5, <1>6 DEF Session!SignInArrives

LEMMA SignOutArrivesKeeps == ASSUME SessionIInv, Session!SignOutArrives PROVE SessionIInv'
<1>1. /\ op.task = "signOut" /\ op.reply # "none" /\ UNCHANGED Session!server
      /\ UNCHANGED <<view, protected>>
  BY DEF Session!SignOutArrives
<1>2. TabTyped /\ Asking /\ op \in Ops /\ tokens \in Nat
  BY DEF SessionIInv, SessionTyped, TabTyped, ServerTyped
<1>3. op.token \in Nat /\ op.token <= tokens /\ user = None /\ status = "loading"
  BY <1>1, <1>2 DEF Ops, TabTyped, Asking
<1>4. ASSUME op' = [Session!Idle EXCEPT !.task = "signOut", !.at = "logout", !.token = op.token],
             UNCHANGED Session!tab
      PROVE  SessionIInv'
  <2>1. op' = [task |-> op.task, at |-> "logout", prev |-> None, who |-> None,
               session |-> 0, token |-> op.token, reply |-> "none"]
    BY <1>1, <1>4 DEF Session!Idle
  <2>2. "logout" \in Places /\ None \in Users \union {None}
    BY DEF Places
  <2>3. QED
    BY <1>1, <1>2, <1>3, <1>4, <2>1, <2>2, AskAgainKeeps
<1>5. ASSUME status' = "anonymous", logoutPending' = FALSE, busy' = FALSE, op' = Session!Idle,
             UNCHANGED <<user, csrfToken, protectedBlocked, message>>
      PROVE  SessionIInv'
  <2>1. (status' = "authenticated") = (user' # None) /\ tokens' = tokens
    BY <1>1, <1>3, <1>5, SameServer
  <2>2. TabTyped'
    BY <1>1, <1>2, <1>5, <2>1, OverOps DEF TabTyped
  <2>3. QED
    BY <1>1, <1>3, <1>5, <2>2, OverOps, ViewsStay
<1>6. ASSUME Session!Unavailable, busy' = FALSE, UNCHANGED <<user, csrfToken, logoutPending, protectedBlocked>>
      PROVE  SessionIInv'
  BY <1>1, <1>6, UnavailableKeeps
<1>7. QED
  BY <1>4, <1>5, <1>6 DEF Session!SignOutArrives

------------------------------------------------------------------------------
(* Steps of the views and their calls.                                     *)

\* The session does not move: what is typed stays so.
LEMMA TabStays ==
  ASSUME SessionIInv, UNCHANGED <<Session!server, Session!tab, op>>, ViewTyped', LatestCalls',
         Session!ShownIsSelected', Session!CallsNeedSession'
  PROVE  SessionIInv'
<1>1. ServerTyped' /\ tokens' = tokens /\ sessions' = sessions /\ \A s : Session!Live(s)' = Session!Live(s)
  BY SameServer
<1>2. UNCHANGED <<status, user, csrfToken, busy, logoutPending, protectedBlocked, message>>
  BY DEF Session!tab, Session!flags
<1>3. TabTyped' /\ Asking'
  BY <1>1, <1>2 DEF SessionIInv, SessionTyped, TabTyped, Asking
<1>4. EndedThen'
  BY <1>1 DEF SessionIInv, EndedThen, Session!Live
<1>5. QED
  BY <1>1, <1>3, <1>4 DEF SessionIInv, SessionTyped

\* A call that is replaced by a harmless one.
LEMMA CallBecomes ==
  ASSUME SessionIInv, UNCHANGED <<Session!server, Session!tab, op>>,
         NEW c \in Calls, NEW d \in ProtectedCalls, d.token <= tokens,
         protected' = [protected EXCEPT ![c] = d],
         d.fresh => protected[c].fresh,
         d.latest => protected[c].latest /\ d.fresh /\ d.target = protected[c].target,
         view' \in Views, view'.selected = view.selected, Session!ShownIsSelected'
  PROVE  SessionIInv'
<1>1. tokens' = tokens
  BY SameServer
<1>2. protected \in [Calls -> ProtectedCalls] /\ \A e \in Calls : protected[e].token <= tokens
  BY DEF SessionIInv, SessionTyped, ViewTyped
<1>3. protected' \in [Calls -> ProtectedCalls] /\ \A e \in Calls : protected'[e] = IF e = c THEN d ELSE protected[e]
  BY <1>2
<1>4. ViewTyped'
  BY <1>1, <1>2, <1>3 DEF ViewTyped
<1>5. LatestCalls'
  BY <1>3 DEF SessionIInv, LatestCalls
<1>6. status' = status /\ protectedBlocked' = protectedBlocked
  BY DEF Session!tab, Session!flags
<1>7. Session!CallsNeedSession'
  BY <1>3, <1>6 DEF SessionIInv, Session!CallsNeedSession
<1>8. QED
  BY <1>4, <1>5, <1>7, TabStays

LEMMA NoCallTyped ==
  ASSUME SessionIInv
  PROVE  /\ Session!NoCall \in ProtectedCalls /\ Session!NoCall.token <= tokens
         /\ Session!NoCall.fresh = FALSE /\ Session!NoCall.latest = FALSE
BY DEF SessionIInv, SessionTyped, ServerTyped, Session!NoCall, ProtectedCalls, CallReplies

LEMMA ServeCallKeeps == ASSUME SessionIInv, NEW c \in Calls, Session!ServeCall(c) PROVE SessionIInv'
<1>1. PICK r \in {"401", "403", "failed", "ok"} : protected' = [protected EXCEPT ![c].reply = r]
  BY DEF Session!ServeCall
<1>2. UNCHANGED <<Session!server, Session!tab, op, view>>
  BY DEF Session!ServeCall
<1> DEFINE d == [protected[c] EXCEPT !.reply = r]
<1>3. protected \in [Calls -> ProtectedCalls] /\ protected[c].token <= tokens
  BY DEF SessionIInv, SessionTyped, ViewTyped
<1>4. r \in CallReplies
  BY <1>1 DEF CallReplies
<1>5. /\ d \in ProtectedCalls /\ d.token = protected[c].token /\ d.fresh = protected[c].fresh
      /\ d.latest = protected[c].latest /\ d.target = protected[c].target
  BY <1>3, <1>4 DEF ProtectedCalls
<1>6. protected' = [protected EXCEPT ![c] = d]
  BY <1>1
<1> HIDE DEF d
<1>7. d.latest => d.fresh
  BY <1>5 DEF SessionIInv, LatestCalls
<1>8. view' \in Views /\ view'.selected = view.selected
  BY <1>2 DEF SessionIInv, SessionTyped, ViewTyped
<1>9. Session!ShownIsSelected'
  BY <1>2 DEF SessionIInv, Session!ShownIsSelected, Session!tab, Session!flags
<1>10. QED
  BY <1>2, <1>3, <1>5, <1>6, <1>7, <1>8, <1>9, CallBecomes

LEMMA CloseViewKeeps == ASSUME SessionIInv, Session!CloseView PROVE SessionIInv'
<1>1. /\ UNCHANGED <<Session!server, Session!tab, op>>
      /\ view' = [selected |-> None, shown |-> None]
      /\ protected' = [c \in Calls |-> [protected[c] EXCEPT !.latest = FALSE]]
  BY DEF Session!CloseView
<1>2. protected \in [Calls -> ProtectedCalls] /\ \A c \in Calls : protected[c].token <= tokens
  BY DEF SessionIInv, SessionTyped, ViewTyped
<1>3. \A c \in Calls :
        /\ protected'[c] \in ProtectedCalls /\ protected'[c].token = protected[c].token
        /\ protected'[c].fresh = protected[c].fresh /\ protected'[c].latest = FALSE
  BY <1>1, <1>2 DEF ProtectedCalls
<1>4. protected' \in [Calls -> ProtectedCalls]
  BY <1>1, <1>3
<1>5. view' \in Views /\ view'.shown = None
  BY <1>1 DEF Views
<1>6. ViewTyped'
  BY <1>1, <1>2, <1>3, <1>4, <1>5, SameServer DEF ViewTyped
<1>7. status' = status /\ protectedBlocked' = protectedBlocked
  BY <1>1 DEF Session!tab, Session!flags
<1>8. LatestCalls' /\ Session!ShownIsSelected' /\ Session!CallsNeedSession'
  BY <1>3, <1>5, <1>7 DEF SessionIInv, LatestCalls, Session!ShownIsSelected, Session!CallsNeedSession
<1>9. QED
  BY <1>1, <1>6, <1>8, TabStays

LEMMA RunKeeps ==
  ASSUME SessionIInv, NEW c \in Calls, NEW t \in Targets, NEW m \in BOOLEAN, Session!Run(c, t, m)
  PROVE  SessionIInv'
<1> DEFINE a == [target |-> t, mutation |-> m, token |-> csrfToken, fresh |-> TRUE, latest |-> TRUE, reply |-> "none"]
           b(d) == [protected[d] EXCEPT !.latest = FALSE]
<1>1. /\ UNCHANGED <<Session!server, Session!tab, op>>
      /\ status = "authenticated" /\ ~protectedBlocked
      /\ view' = [selected |-> t, shown |-> None]
      /\ protected' = [d \in Calls |-> IF d = c THEN a ELSE b(d)]
  BY DEF Session!Run, Session!MayCall
<1>2. protected \in [Calls -> ProtectedCalls] /\ \A d \in Calls : protected[d].token <= tokens
  BY DEF SessionIInv, SessionTyped, ViewTyped
<1>3. csrfToken \in Nat /\ csrfToken <= tokens
  BY DEF SessionIInv, SessionTyped, TabTyped, ServerTyped
<1>4. /\ a \in ProtectedCalls /\ a.token <= tokens /\ a.fresh = TRUE /\ a.latest = TRUE /\ a.target = t
  BY <1>3 DEF ProtectedCalls, CallReplies
<1>5. \A d \in Calls :
        /\ b(d) \in ProtectedCalls /\ b(d).token = protected[d].token
        /\ b(d).fresh = protected[d].fresh /\ b(d).latest = FALSE
  BY <1>2 DEF ProtectedCalls
<1> HIDE DEF a, b
<1>6. /\ protected' \in [Calls -> ProtectedCalls]
      /\ \A d \in Calls : protected'[d] = IF d = c THEN a ELSE b(d)
  BY <1>1, <1>4, <1>5
<1>7. view' \in Views /\ view'.shown = None /\ view'.selected = t
  BY <1>1 DEF Views
<1>8. tokens' = tokens
  BY <1>1, SameServer
<1>9. ViewTyped'
  BY <1>2, <1>4, <1>5, <1>6, <1>7, <1>8 DEF ViewTyped
<1>10. status' = status /\ protectedBlocked' = protectedBlocked
  BY <1>1 DEF Session!tab, Session!flags
<1>11. LatestCalls' /\ Session!ShownIsSelected' /\ Session!CallsNeedSession'
  BY <1>1, <1>4, <1>5, <1>6, <1>7, <1>10 DEF LatestCalls, Session!ShownIsSelected, Session!CallsNeedSession
<1>12. QED
  BY <1>1, <1>9, <1>11, TabStays

LEMMA CallArrivesKeeps == ASSUME SessionIInv, NEW c \in Calls, Session!CallArrives(c) PROVE SessionIInv'
<1>1. UNCHANGED Session!server /\ TabTyped /\ ViewTyped /\ Asking
  BY DEF Session!CallArrives, SessionIInv, SessionTyped
<1>2. ASSUME protected' = [protected EXCEPT ![c] = Session!NoCall], UNCHANGED <<Session!tab, op, view>>
      PROVE  SessionIInv'
  <2>1. view' \in Views /\ view'.selected = view.selected
    BY <1>1, <1>2 DEF ViewTyped
  <2>2. Session!ShownIsSelected'
    BY <1>2 DEF SessionIInv, Session!ShownIsSelected, Session!tab, Session!flags
  <2>3. QED
    BY <1>1, <1>2, <2>1, <2>2, NoCallTyped, CallBecomes
<1>3. ASSUME Session!Current(c), view' = [view EXCEPT !.shown = protected[c].target],
             protected' = [protected EXCEPT ![c] = Session!NoCall], UNCHANGED <<Session!tab, op>>
      PROVE  SessionIInv'
  <2>1. protected[c] \in ProtectedCalls /\ view \in Views
    BY <1>1 DEF ViewTyped
  <2>2. /\ view' \in Views /\ view'.selected = view.selected /\ view'.shown = protected[c].target
    BY <1>3, <2>1 DEF Views, ProtectedCalls
  <2>3. protected[c].latest
    BY <1>3 DEF Session!Current
  <2>4. protected[c].fresh /\ protected[c].target = view.selected
    BY <2>3 DEF SessionIInv, LatestCalls
  <2>5. status = "authenticated" /\ ~protectedBlocked
    BY <2>4 DEF SessionIInv, Session!CallsNeedSession
  <2>6. Session!ShownIsSelected'
    BY <1>3, <2>2, <2>4, <2>5 DEF Session!ShownIsSelected, Session!tab, Session!flags
  <2>7. QED
    BY <1>1, <1>3, <2>2, <2>6, NoCallTyped, CallBecomes
<1>4. protected[c].fresh => op.task = "none" /\ busy = FALSE /\ status = "authenticated"
  <2>1. protected[c].fresh => status = "authenticated"
    BY DEF SessionIInv, Session!CallsNeedSession
  <2>2. status = "authenticated" => user # None
    BY <1>1 DEF TabTyped
  <2>3. user # None => op.task = "none"
    BY <1>1 DEF Asking
  <2>4. op.task = "none" => (op.task \in {"signIn", "signOut"}) = FALSE
    OBVIOUS
  <2>5. busy = (op.task \in {"signIn", "signOut"})
    BY <1>1 DEF TabTyped
  <2>6. QED
    BY <2>1, <2>2, <2>3, <2>4, <2>5
<1>5. ASSUME protected[c].fresh, Session!expire(TRUE), UNCHANGED <<busy, logoutPending>>
      PROVE  SessionIInv'
  BY <1>1, <1>4, <1>5, ExpireKeeps
<1>6. ASSUME protected[c].fresh, protectedBlocked' = TRUE, csrfToken' = 0, user' = None, status' = "loading",
             Session!Cleared, Session!Ask("suspend", "me", None, None),
             UNCHANGED <<busy, logoutPending, message>>
      PROVE  SessionIInv'
  <2>1. op' = [task |-> "suspend", at |-> "me", prev |-> None, who |-> None,
               session |-> 0, token |-> 0, reply |-> "none"]
    BY <1>6 DEF Session!Ask, Session!Idle
  <2>2. 0 \in Nat /\ 0 <= tokens /\ tokens \in Nat /\ tokens' = tokens
    BY <1>1, SameServer DEF SessionIInv, SessionTyped, ServerTyped
  <2>3. "suspend" \in Tasks /\ "me" \in Places /\ None \in Users \union {None}
    BY DEF Tasks, Places
  <2>4. /\ op' \in Ops /\ op'.session <= Len(sessions') /\ op'.token <= tokens'
        /\ op'.task = "suspend" /\ op'.at = "me" /\ op'.reply = "none"
    BY <1>1, <2>1, <2>2, <2>3, AskOps
  <2>5. /\ (status' = "authenticated") = (user' # None) /\ csrfToken' \in 0..tokens'
        /\ (op'.task \in {"signIn", "signOut"}) = FALSE
    BY <1>6, <2>2, <2>4
  <2>6. TabTyped'
    BY <1>1, <1>4, <1>6, <2>4, <2>5 DEF TabTyped
  <2>7. Asking' /\ EndedThen'
    BY <1>6, <2>4 DEF Asking, EndedThen
  <2>8. QED
    BY <1>1, <1>6, <2>6, <2>7, ClearedKeeps
<1>7. QED
  BY <1>2, <1>3, <1>5, <1>6 DEF Session!CallArrives

LEMMA ExpireSessionKeeps == ASSUME SessionIInv, Session!ExpireSession PROVE SessionIInv'
<1>1. PICK s \in DOMAIN sessions : Session!End(s)
  BY DEF Session!ExpireSession
<1>2. UNCHANGED <<tokens, jar, Session!tab, op, view, protected>>
  BY DEF Session!ExpireSession
<1>3. ServerTyped /\ sessions \in Seq(Accounts)
  BY DEF SessionIInv, SessionTyped, ServerTyped
<1>4. s \in 1..Len(sessions)
  BY <1>1, <1>3, LenProperties
<1>5. Grown
  BY <1>1, <1>2, <1>3, <1>4, EndGrows
<1>6. QED
  BY <1>2, <1>5, OutsideKeeps

LEMMA OtherTabKeeps == ASSUME SessionIInv, Session!OtherTab PROVE SessionIInv'
<1>1. UNCHANGED <<Session!tab, op, view, protected>> /\ ServerTyped
  BY DEF Session!OtherTab, SessionIInv, SessionTyped
<1>2. ASSUME NEW u \in Users, Session!Issue(u) PROVE Grown
  BY <1>1, <1>2, IssueGrows
<1>3. ASSUME Session!Live(jar.session), Session!End(jar.session), jar' = [session |-> 0, csrf |-> 0],
             UNCHANGED tokens
      PROVE  Grown
  <2>1. jar.session \in 1..Len(sessions)
    <3>1. jar.session \in Nat /\ jar.session <= Len(sessions) /\ Len(sessions) \in Nat
      BY <1>1, LengthNat DEF ServerTyped
    <3>2. QED
      BY <1>3, <3>1 DEF Session!Live
  <2>2. PICK k \in 1..Len(sessions) : k = jar.session
    BY <2>1
  <2>3. Session!End(k)
    BY <1>3, <2>2 DEF Session!End
  <2>4. QED
    BY <1>1, <1>3, <2>3, EndGrows
<1>4. Session!Bootstrap => Grown
  BY <1>1, BootstrapGrows
<1>5. Grown
  BY <1>2, <1>3, <1>4 DEF Session!OtherTab
<1>6. QED
  BY <1>1, <1>5, OutsideKeeps

LEMMA SessionStarts == ASSUME Session!Init PROVE SessionIInv
<1>1. /\ sessions = <<>> /\ tokens = 0 /\ jar = [session |-> 0, csrf |-> 0]
      /\ status = "loading" /\ user = None /\ csrfToken = 0
      /\ busy = FALSE /\ logoutPending = FALSE /\ protectedBlocked = FALSE /\ message = "none"
      /\ op = Session!Idle /\ view = [selected |-> None, shown |-> None]
      /\ protected = [c \in Calls |-> Session!NoCall]
  BY DEF Session!Init
<1>2. sessions \in Seq(Accounts) /\ Len(sessions) = 0 /\ tokens \in 0..MaxTokens
  BY <1>1, BoundsOfWeb, EmptySeq
<1>3. op = [task |-> "none", at |-> "none", prev |-> None, who |-> None,
            session |-> 0, token |-> 0, reply |-> "none"]
  BY <1>1 DEF Session!Idle
<1>4. /\ op \in Ops /\ op.session = 0 /\ op.token = 0 /\ op.task = "none" /\ op.at = "none"
  BY <1>3 DEF Ops, Tasks, Places, Replies
<1>5. \A c \in Calls : protected[c] = [target |-> None, mutation |-> FALSE, token |-> 0,
                                       fresh |-> FALSE, latest |-> FALSE, reply |-> "none"]
  BY <1>1 DEF Session!NoCall
<1>6. \A c \in Calls : /\ protected[c] \in ProtectedCalls /\ protected[c].token = 0
                        /\ protected[c].fresh = FALSE /\ protected[c].latest = FALSE
  <2>1. [target |-> None, mutation |-> FALSE, token |-> 0,
         fresh |-> FALSE, latest |-> FALSE, reply |-> "none"] \in ProtectedCalls
    BY DEF ProtectedCalls, CallReplies
  <2>2. QED
    BY <1>5, <2>1
<1>7. protected \in [Calls -> ProtectedCalls]
  BY <1>1, <1>6
<1>8. view \in Views /\ view.shown = None
  BY <1>1 DEF Views
<1>9. ServerTyped /\ ViewTyped
  BY <1>1, <1>2, <1>6, <1>7, <1>8 DEF ServerTyped, ViewTyped
<1>10. TabTyped
  <2>1. (status = "authenticated") = (user # None) /\ (op.task \in {"signIn", "signOut"}) = FALSE
    BY <1>1, <1>4
  <2>2. csrfToken \in 0..tokens /\ op.session <= Len(sessions) /\ op.token <= tokens
    BY <1>1, <1>2, <1>4
  <2>3. user \in Users \union {None} /\ op \in Ops /\ busy = FALSE
        /\ logoutPending \in BOOLEAN /\ protectedBlocked \in BOOLEAN
    BY <1>1, <1>4
  <2>4. status \in {"loading", "anonymous", "authenticated", "unavailable"}
        /\ message \in {"none", "expired", "failed", "forbidden"}
    BY <1>1
  <2>5. QED
    BY <2>1, <2>2, <2>3, <2>4 DEF TabTyped
<1>11. /\ Asking /\ EndedThen /\ LatestCalls
       /\ Session!ShownIsSelected /\ Session!CallsNeedSession
  BY <1>4, <1>6, <1>8 DEF Asking, EndedThen, LatestCalls, Session!ShownIsSelected, Session!CallsNeedSession
<1>12. QED
  BY <1>9, <1>10, <1>11 DEF SessionIInv, SessionTyped

LEMMA SessionSteps == ASSUME SessionIInv, Session!Next PROVE SessionIInv'
BY ExpireSessionKeeps, OtherTabKeeps, ServeKeeps, RefreshArrivesKeeps, SignInArrivesKeeps,
   SignOutArrivesKeeps, SuspendArrivesKeeps, RefreshKeeps, SignOutKeeps, SignInKeeps,
   CloseViewKeeps, ServeCallKeeps, CallArrivesKeeps, RunKeeps
DEF Session!Next, Session!Arrive

LEMMA SessionStays == ASSUME SessionIInv, UNCHANGED session PROVE SessionIInv'
<1>1. /\ UNCHANGED <<Session!server, Session!tab, op, view, protected>>
  BY DEF session, Session!server, Session!tab, Session!flags
<1>2. Grown
  BY <1>1, StillGrows DEF SessionIInv, SessionTyped
<1>3. QED
  BY <1>1, <1>2, OutsideKeeps

\* The promises the runs check.
LEMMA SessionPromised == ASSUME SessionIInv PROVE Session!SessionInv
<1> DEFINE L == {c \in Calls : protected[c].latest}
<1>1. Session!Cardinality(L) <= 1
  <2>1. Session!Cardinality(L) = Cardinality(L)
    BY DEF Session!Cardinality, Cardinality
  <2>2. CASE L = {}
    BY <2>1, <2>2, FS_EmptySet
  <2>3. CASE L # {}
    <3>1. PICK c \in L : TRUE
      BY <2>3
    <3>2. L = {c}
      BY <3>1 DEF SessionIInv, LatestCalls
    <3> HIDE DEF L
    <3>3. Cardinality(L) = 1
      BY <3>2, FS_Singleton
    <3>4. QED
      BY <2>1, <3>3
  <2>4. QED
    BY <2>2, <2>3
<1>2. sessions \in Seq([user : Users, csrf : 1..MaxTokens, live : BOOLEAN])
  BY DEF SessionIInv, SessionTyped, ServerTyped, Accounts
<1>3. jar.session \in 0..Len(sessions) /\ jar.csrf \in 0..tokens
  BY LengthNat DEF SessionIInv, SessionTyped, ServerTyped
<1>4. view.shown \in Targets \union {None} /\ \A c \in Calls : protected[c].token \in 0..tokens
  <2>1. \A c \in Calls : protected[c].token \in Nat /\ protected[c].token <= tokens
    BY DEF SessionIInv, SessionTyped, ViewTyped, ProtectedCalls
  <2>2. view.shown \in Targets \union {None} /\ tokens \in Nat
    BY DEF SessionIInv, SessionTyped, ViewTyped, ServerTyped, Views
  <2>3. QED
    BY <2>1, <2>2
<1>5. TabTyped
  BY DEF SessionIInv, SessionTyped
<1> HIDE DEF L
<1>6. Session!TypeOK
  BY <1>1, <1>2, <1>3, <1>4, <1>5 DEF Session!TypeOK, TabTyped, L
<1>7. QED
  BY <1>6 DEF SessionIInv, Session!SessionInv

\* An anonymous tab that was signing out has no live session behind it.
LEMMA SignedOutIs ==
  ASSUME SessionIInv, Session!Next, op.task = "signOut", status' = "anonymous"
  PROVE  ~Session!Live(op.session)
<1>1. status = "loading" /\ EndedThen /\ Session!CallsNeedSession
  BY DEF SessionIInv, Asking
<1>2. UNCHANGED Session!tab => status' = status
  BY DEF Session!tab
<1>3. ~(Session!ExpireSession \/ Session!OtherTab \/ Session!Serve \/ Session!CloseView)
  BY <1>1, <1>2 DEF Session!ExpireSession, Session!OtherTab, Session!Serve, Session!CloseView
<1>4. ~(Session!Refresh \/ Session!SignOut \/ \E u \in Users : Session!SignIn(u))
  BY <1>1 DEF Session!Refresh, Session!SignOut, Session!SignIn
<1>5. \A c \in Calls : ~Session!ServeCall(c) /\ \A t \in Targets, m \in BOOLEAN : ~Session!Run(c, t, m)
  BY <1>1, <1>2 DEF Session!ServeCall, Session!Run
<1>6. \A c \in Calls : ~protected[c].fresh
  BY <1>1 DEF Session!CallsNeedSession
<1>7. \A c \in Calls : ~Session!CallArrives(c)
  BY <1>1, <1>2, <1>6 DEF Session!CallArrives
<1>8. ~(Session!RefreshArrives \/ Session!SignInArrives \/ Session!SuspendArrives)
  BY DEF Session!RefreshArrives, Session!SignInArrives, Session!SuspendArrives
<1>9. Session!SignOutArrives => op.at = "logout" /\ op.reply \in {"ok", "401"}
  BY <1>1, <1>2 DEF Session!SignOutArrives, Session!SignedOut, Session!Unavailable
<1>10. QED
  BY <1>1, <1>3, <1>4, <1>5, <1>7, <1>8, <1>9 DEF Session!Next, Session!Arrive, EndedThen

LEMMA SessionAlways == MCSpec => []SessionIInv
<1>1. MCInit => SessionIInv
  BY SessionStarts DEF MCInit
<1>2. SessionIInv /\ [Chats \/ Sessions]_<<part, vars, session>> => SessionIInv'
  BY SessionSteps, SessionStays DEF Chats, Sessions
<1>3. QED
  BY <1>1, <1>2, PTL DEF MCSpec

\* Content is shown, and calls are made, only for a confirmed session and of what is
\* selected, whatever arrives of an earlier one (useSession.ts, useDocuments.ts).
THEOREM SessionHeld == MCSpec => []OnlyForSession
<1>1. SessionIInv => OnlyForSession
  BY SessionPromised DEF OnlyForSession
<1>2. QED
  BY <1>1, SessionAlways, PTL

\* A tab says that it is signed out only when the session has ended (useSession.ts).
LEMMA LogoutIsReal == MCSpec => Session!LogoutConfirmed
<1>1. SessionIInv /\ [Chats \/ Sessions]_<<part, vars, session>>
        => [(op.task = "signOut" /\ status' = "anonymous") => ~Session!Live(op.session)]_(Session!vars)
  BY SignedOutIs DEF Chats, Sessions, session, Session!vars, Session!server, Session!tab, Session!flags
<1>2. QED
  BY <1>1, SessionAlways, PTL DEF MCSpec, Session!LogoutConfirmed

------------------------------------------------------------------------------
(* The chat.                                                               *)

TurnSet == [req : Requests \union {Other}, state : {"pending", "answered", "interrupted", "lapsed"}]
PostSet == [saved : Submission \union {None},
            reply : {"none", "sent", "wait", "ok", "409", "replayed", "refused", "missing", "lost"}]
LoadSet == [for : {"none", "view", "discard", "complete", "retry", "recover"},
            reply : {"none", "asked", "lost", "ok"}, body : Seq(TurnSet)]

ServerTurns ==
  /\ turns \in [Threads -> Seq(TurnSet)] /\ \A t \in Threads : Len(turns[t]) <= MaxTurns
  /\ ghosts \subseteq Submission

\* A request of a session has one turn.
OneTurnEach ==
  \A t \in Threads : \A i, j \in DOMAIN turns[t] :
    turns[t][i].req = turns[t][j].req /\ turns[t][i].req # Other => i = j

ChatTyped ==
  /\ currentId \in Threads \union {None}
  /\ Shown => currentId \in Threads /\ thread \in Seq(TurnSet)
  /\ retryRequest \in Submission \union {None} /\ pending \in Submission \union {None}
  /\ completed \in Submission \union {None}
  /\ sending \in BOOLEAN /\ postLost \in BOOLEAN
  /\ poll \in {"none", "idle", "asked", "lost", "missing", "absent", "running", "terminal", "expired"}
  /\ post \in PostSet /\ (post.reply = "none" => post = NoPost)
  /\ load \in LoadSet /\ (load.for = "none" \/ load.reply = "none" => load = NoLoad)
  /\ loading = (load.for \notin {"none", "recover"})

FirstOf(body, s) == Len(body) <= Len(s) /\ \A i \in 1..Len(body) : body[i].req = s[i].req

\* The request that can be repeated belongs to the open thread.
OpenRequest ==
  /\ retryRequest # None =>
       /\ currentId = retryRequest.thread
       /\ retryRequest.expected <= Len(turns[currentId])
       /\ Shown => retryRequest.expected <= Len(thread)
  /\ pending # None => retryRequest = pending
  /\ poll # "none" => retryRequest # None
  /\ postLost => post.reply = "none"

\* What a post knows.
PostKnows ==
  post.reply # "none" =>
    /\ sending /\ post.saved = retryRequest /\ post.saved # None
    /\ post.reply \in {"wait", "ok"} =>
         /\ post.saved.expected < Len(turns[post.saved.thread])
         /\ turns[post.saved.thread][post.saved.expected + 1].req = post.saved.req
         /\ Shown => Len(thread) = post.saved.expected /\ \A i \in 1..Len(thread) : thread[i].req # post.saved.req
    /\ post.reply \in {"ok", "replayed"} => Found(turns[post.saved.thread], post.saved.req)

\* What a load knows: nothing is shown meanwhile, and the body is that of the open thread.
LoadKnows ==
  load.for # "none" =>
    /\ post.reply = "none" /\ ~Shown /\ currentId # None
    /\ load.for # "recover" => pending = None /\ poll = "none"
    /\ load.for \in {"complete", "retry", "recover"} => retryRequest # None
    /\ load.for = "complete" => Found(turns[currentId], retryRequest.req)
    /\ load.reply # "ok" => load.body = <<>>
    /\ load.reply = "ok" =>
         /\ FirstOf(load.body, turns[currentId])
         /\ retryRequest # None => retryRequest.expected <= Len(load.body)
         /\ load.for = "complete" => Found(load.body, retryRequest.req)
         /\ \A r \in Requests : Found(load.body, r) => Found(turns[currentId], r)
         /\ completed # None /\ completed.thread = currentId => Found(load.body, completed.req)

CompletedTrue ==
  completed # None =>
    /\ Found(turns[completed.thread], completed.req)
    /\ Shown /\ currentId = completed.thread => Found(thread, completed.req)

ChatIInv ==
  /\ ServerTurns /\ OneTurnEach /\ ChatTyped /\ OpenRequest /\ PostKnows /\ LoadKnows
  /\ CompletedTrue /\ (Shown => FirstOf(thread, turns[currentId]))

LEMMA ChatBounds == MaxTurns \in Nat /\ None \notin Threads /\ None \notin Submission /\ Other \notin Requests
  BY ChatAssumption

\* A thread's turns are only added to and finished.
Grows(s, z) ==
  /\ Len(s) <= Len(z)
  /\ \A i \in 1..Len(s) : z[i].req = s[i].req /\ (Finished(s[i].state) => Finished(z[i].state))

Distinct(z) == \A i, j \in 1..Len(z) : z[i].req = z[j].req /\ z[i].req # Other => i = j

TurnsGrow ==
  /\ turns' \in [Threads -> Seq(TurnSet)] /\ \A t \in Threads : Len(turns'[t]) <= MaxTurns
  /\ \A t \in Threads : Distinct(turns'[t])
  /\ \A t \in Threads : Grows(turns[t], turns'[t])

LEMMA SeqParts ==
  ASSUME NEW z \in Seq(TurnSet)
  PROVE  /\ Len(z) \in Nat /\ DOMAIN z = 1..Len(z)
         /\ \A i \in 1..Len(z) : z[i] \in TurnSet
BY LenProperties, ElementOfSeq

LEMMA FoundIn ==
  ASSUME NEW z \in Seq(TurnSet), NEW r
  PROVE  Found(z, r) <=> \E i \in 1..Len(z) : z[i].req = r /\ Finished(z[i].state)
BY SeqParts DEF Found

LEMMA FoundGrows ==
  ASSUME NEW s \in Seq(TurnSet), NEW z \in Seq(TurnSet), Grows(s, z), NEW r, Found(s, r)
  PROVE  Found(z, r)
<1>1. PICK i \in 1..Len(s) : s[i].req = r /\ Finished(s[i].state)
  BY FoundIn
<1>2. i \in 1..Len(z)
  BY SeqParts DEF Grows
<1>3. QED
  BY <1>1, <1>2, FoundIn DEF Grows

LEMMA FirstGrows ==
  ASSUME NEW b \in Seq(TurnSet), NEW s \in Seq(TurnSet), NEW z \in Seq(TurnSet), FirstOf(b, s), Grows(s, z)
  PROVE  FirstOf(b, z)
<1>1. Len(b) \in Nat /\ Len(s) \in Nat /\ Len(z) \in Nat
  BY SeqParts
<1>2. QED
  BY <1>1 DEF FirstOf, Grows

LEMMA GrowsSelf == ASSUME NEW s \in Seq(TurnSet) PROVE Grows(s, s)
  BY SeqParts DEF Grows

LEMMA OneTurnIs ==
  ASSUME ServerTurns
  PROVE  OneTurnEach <=> \A t \in Threads : Distinct(turns[t])
<1>1. \A t \in Threads : DOMAIN turns[t] = 1..Len(turns[t])
  BY SeqParts DEF ServerTurns
<1>2. QED
  BY <1>1 DEF OneTurnEach, Distinct

LEMMA ReplaceTurns ==
  ASSUME ServerTurns, OneTurnEach, NEW t \in Threads, NEW z \in Seq(TurnSet), Len(z) <= MaxTurns,
         Grows(turns[t], z), Distinct(z), turns' = [turns EXCEPT ![t] = z]
  PROVE  TurnsGrow
<1>1. turns' \in [Threads -> Seq(TurnSet)] /\ \A u \in Threads : turns'[u] = IF u = t THEN z ELSE turns[u]
  BY DEF ServerTurns
<1>2. \A u \in Threads : turns[u] \in Seq(TurnSet) /\ Distinct(turns[u]) /\ Len(turns[u]) <= MaxTurns
  BY OneTurnIs DEF ServerTurns
<1>3. \A u \in Threads : Grows(turns[u], turns'[u])
  BY <1>1, <1>2, GrowsSelf
<1>4. QED
  BY <1>1, <1>2, <1>3 DEF TurnsGrow

LEMMA StillTurns == ASSUME ServerTurns, OneTurnEach, turns' = turns PROVE TurnsGrow
  BY OneTurnIs, GrowsSelf DEF ServerTurns, TurnsGrow

LEMMA SettleGrows ==
  ASSUME NEW s \in Seq(TurnSet), Distinct(s)
  PROVE  /\ Settle(s) \in Seq(TurnSet) /\ Len(Settle(s)) = Len(s)
         /\ Grows(s, Settle(s)) /\ Distinct(Settle(s))
         /\ \A i \in 1..Len(s) : Settle(s)[i].req = s[i].req /\ Settle(s)[i].state # "lapsed"
                                 /\ (s[i].state # "lapsed" => Settle(s)[i] = s[i])
<1> DEFINE a(i) == IF s[i].state = "lapsed" THEN [s[i] EXCEPT !.state = "interrupted"] ELSE s[i]
           n == Len(s)
<1>1. n \in Nat /\ DOMAIN s = 1..n /\ \A i \in 1..n : s[i] \in TurnSet
  BY SeqParts
<1>2. \A i \in 1..n : /\ a(i) \in TurnSet /\ a(i).req = s[i].req /\ a(i).state # "lapsed"
                      /\ (s[i].state # "lapsed" => a(i) = s[i])
                      /\ (Finished(s[i].state) => Finished(a(i).state))
  BY <1>1 DEF TurnSet, Finished
<1>3. Settle(s) = [i \in 1..n |-> a(i)]
  BY <1>1 DEF Settle
<1> HIDE DEF a, n
<1>4. Settle(s) \in Seq(TurnSet) /\ Len(Settle(s)) = n /\ \A i \in 1..n : Settle(s)[i] = a(i)
  BY <1>1, <1>2, <1>3, SeqDef, LenProperties
<1>5. QED
  BY <1>1, <1>2, <1>4 DEF Grows, Distinct, n

LEMMA AppendTurn ==
  ASSUME NEW s \in Seq(TurnSet), Distinct(s), NEW a \in TurnSet,
         a.req # Other => \A i \in 1..Len(s) : s[i].req # a.req
  PROVE  /\ Append(s, a) \in Seq(TurnSet) /\ Len(Append(s, a)) = Len(s) + 1
         /\ Append(s, a)[Len(s) + 1] = a
         /\ Grows(s, Append(s, a)) /\ Distinct(Append(s, a))
<1> DEFINE z == Append(s, a)
           n == Len(s)
<1>1. n \in Nat
  BY SeqParts
<1>2. z \in Seq(TurnSet) /\ Len(z) = n + 1 /\ z[n + 1] = a /\ \A i \in 1..n : z[i] = s[i]
  BY AppendProperties
<1> HIDE DEF z
<1>3. Grows(s, z)
  <2> HIDE DEF n
  <2>1. Len(s) = n
    BY DEF n
  <2>2. QED
    BY <1>1, <1>2, <2>1 DEF Grows
<1>4. ASSUME NEW i \in 1..Len(z), NEW j \in 1..Len(z), z[i].req = z[j].req, z[i].req # Other PROVE i = j
  <2>1. n = Len(s)
    OBVIOUS
  <2> HIDE DEF n
  <2>2. (i \in 1..n \/ i = n + 1) /\ (j \in 1..n \/ j = n + 1)
    BY <1>1, <1>2
  <2>3. \A k \in 1..n : z[k] = s[k]
    BY <1>2
  <2>4. QED
    BY <1>2, <1>4, <2>1, <2>2, <2>3 DEF Distinct
<1>5. QED
  BY <1>2, <1>3, <1>4 DEF Distinct, z

LEMMA ServedGrows ==
  ASSUME ServerTurns, OneTurnEach, NEW s \in Submission, NEW reply, Served(s, reply)
  PROVE  /\ TurnsGrow
         /\ reply = "replayed" => Found(turns'[s.thread], s.req)
         /\ reply = "wait" =>
              /\ s.expected = Len(turns[s.thread])
              /\ Len(turns'[s.thread]) = s.expected + 1 /\ turns'[s.thread][s.expected + 1].req = s.req
              /\ \A i \in 1..Len(turns[s.thread]) : turns[s.thread][i].req # s.req
<1> DEFINE t == s.thread
           q == turns[t]
           a == [req |-> s.req, state |-> "pending"]
           here == Index(t, s.req)
           states == {q[i].state : i \in here}
<1>1. t \in Threads /\ s.req \in Requests /\ s.req # Other
  BY ChatBounds DEF Submission
<1>2. q \in Seq(TurnSet) /\ Len(q) <= MaxTurns /\ Distinct(q) /\ turns \in [Threads -> Seq(TurnSet)]
  BY <1>1, OneTurnIs DEF ServerTurns
<1>3. DOMAIN q = 1..Len(q) /\ \A i \in 1..Len(q) : q[i] \in TurnSet
  BY <1>2, SeqParts
<1>4. here = {i \in 1..Len(q) : q[i].req = s.req}
  BY <1>3 DEF Index
<1>5. /\ Settle(q) \in Seq(TurnSet) /\ Len(Settle(q)) = Len(q) /\ Grows(q, Settle(q)) /\ Distinct(Settle(q))
      /\ \A i \in 1..Len(q) : Settle(q)[i].req = q[i].req /\ Settle(q)[i].state # "lapsed"
                              /\ (q[i].state # "lapsed" => Settle(q)[i] = q[i])
  BY <1>2, SettleGrows
<1>6. ASSUME turns' = [turns EXCEPT ![t] = Settle(q)] PROVE TurnsGrow
  BY <1>1, <1>2, <1>5, <1>6, ReplaceTurns
<1>7. ASSUME turns' = turns PROVE TurnsGrow
  BY <1>7, StillTurns
<1>8. CASE reply = "missing" /\ UNCHANGED turns
  BY <1>7, <1>8
<1>9. CASE here # {} /\ ~(reply = "missing" /\ UNCHANGED turns)
  <2>1. /\ reply = IF StillRuns(states) THEN "409" ELSE "replayed"
        /\ turns' = [turns EXCEPT ![t] = IF StillRuns(states) THEN q ELSE Settle(q)]
    BY <1>9 DEF Served
  <2>2. CASE StillRuns(states)
    <3>1. turns' = turns /\ reply = "409"
      BY <1>1, <1>2, <2>1, <2>2
    <3>2. QED
      BY <1>7, <3>1
  <2>3. CASE ~StillRuns(states)
    <3>1. turns' = [turns EXCEPT ![t] = Settle(q)] /\ reply = "replayed"
      BY <2>1, <2>3
    <3>2. PICK i \in 1..Len(q) : q[i].req = s.req
      BY <1>4, <1>9
    <3>3. q[i].state # "pending" /\ q[i] \in TurnSet
      BY <1>3, <1>4, <2>3, <3>2 DEF StillRuns
    <3>4. Settle(q)[i].state # "lapsed" /\ Settle(q)[i].req = s.req
      BY <1>5, <3>2
    <3>5. Settle(q)[i] \in TurnSet
      BY <1>5, SeqParts
    <3>6. Settle(q)[i].state # "pending"
      <4>1. CASE q[i].state = "lapsed"
        BY <1>3, <4>1 DEF Settle
      <4>2. CASE q[i].state # "lapsed"
        BY <1>5, <3>3, <4>2
      <4>3. QED
        BY <4>1, <4>2
    <3>7. Finished(Settle(q)[i].state)
      BY <3>4, <3>5, <3>6 DEF Finished, TurnSet
    <3>8. Found(Settle(q), s.req)
      BY <1>5, <3>4, <3>7, FoundIn
    <3>9. turns'[t] = Settle(q)
      BY <1>1, <1>2, <3>1
    <3>10. QED
      BY <1>6, <3>1, <3>8, <3>9
  <2>4. QED
    BY <2>2, <2>3
<1>10. CASE here = {} /\ ~(reply = "missing" /\ UNCHANGED turns)
  <2>1. CASE reply = "refused" /\ UNCHANGED turns
    BY <1>7, <2>1
  <2>2. CASE /\ Acceptable(t, s.expected) /\ Len(q) < MaxTurns /\ reply = "wait"
             /\ turns' = [turns EXCEPT ![t] = Append(Settle(q), a)]
    <3> DEFINE z == Append(Settle(q), a)
    <3>1. a \in TurnSet /\ a.req = s.req
      BY <1>1 DEF TurnSet
    <3>2. \A i \in 1..Len(q) : q[i].req # s.req
      BY <1>4, <1>10
    <3>3. \A i \in 1..Len(Settle(q)) : Settle(q)[i].req # a.req
      BY <1>5, <3>1, <3>2
    <3> HIDE DEF a
    <3>4. /\ z \in Seq(TurnSet) /\ Len(z) = Len(Settle(q)) + 1 /\ z[Len(Settle(q)) + 1] = a
          /\ Grows(Settle(q), z) /\ Distinct(z)
      BY <1>5, <3>1, <3>3, AppendTurn
    <3>5. Len(q) \in Nat /\ s.expected = Len(q)
      BY <1>2, <2>2, SeqParts DEF Acceptable
    <3>6. Len(z) = Len(q) + 1 /\ z[Len(q) + 1].req = s.req /\ Len(z) <= MaxTurns
      BY <1>5, <2>2, <3>1, <3>4, <3>5, ChatBounds
    <3> HIDE DEF z
    <3>7. Grows(q, z)
      <4>1. \A i \in 1..Len(q) : z[i].req = Settle(q)[i].req /\ (Finished(Settle(q)[i].state) => Finished(z[i].state))
        BY <1>5, <3>4 DEF Grows
      <4>2. Len(q) <= Len(z)
        BY <3>5, <3>6
      <4>3. QED
        BY <1>5, <4>1, <4>2 DEF Grows
    <3>8. turns' = [turns EXCEPT ![t] = z]
      BY <2>2 DEF z
    <3>9. TurnsGrow
      BY <1>1, <3>4, <3>6, <3>7, <3>8, ReplaceTurns
    <3>10. turns'[t] = z
      BY <1>1, <1>2, <3>8
    <3>11. QED
      BY <2>2, <3>2, <3>5, <3>6, <3>9, <3>10
  <2>3. CASE reply = "409" /\ turns' = [turns EXCEPT ![t] = Settle(q)]
    BY <1>6, <2>3
  <2>4. QED
    BY <1>10, <2>1, <2>2, <2>3 DEF Served
<1>11. QED
  BY <1>8, <1>9, <1>10

LEMMA TabParts ==
  ASSUME UNCHANGED tab
  PROVE  UNCHANGED <<used, currentId, thread, loading, retryRequest, pending, completed, sending,
                     postLost, recovering, phase>>
BY DEF tab, submission

\* What the tab knows of the server stays true when turns are added and finished.
LEMMA ServerKeeps ==
  ASSUME ChatIInv, TurnsGrow, ghosts' \subseteq Submission, UNCHANGED <<tab, poll, load>>,
         post' \in PostSet, (post'.reply = "none") = (post.reply = "none"),
         post'.reply = "none" => post' = NoPost, PostKnows'
  PROVE  ChatIInv'
<1>1. /\ currentId' = currentId /\ thread' = thread /\ loading' = loading /\ retryRequest' = retryRequest
      /\ pending' = pending /\ completed' = completed /\ sending' = sending /\ postLost' = postLost
      /\ poll' = poll /\ load' = load
  BY TabParts
<1>2. ServerTurns /\ OneTurnEach /\ ChatTyped
  BY DEF ChatIInv
<1>3. ServerTurns' /\ OneTurnEach'
  <2>1. ServerTurns'
    BY DEF TurnsGrow, ServerTurns
  <2>2. \A t \in Threads : DOMAIN turns'[t] = 1..Len(turns'[t])
    BY <2>1, SeqParts DEF ServerTurns
  <2>3. QED
    BY <2>1, <2>2 DEF TurnsGrow, Distinct, OneTurnEach
<1>4. Shown' = Shown
  BY <1>1 DEF Shown
<1>5. ChatTyped'
  BY <1>1, <1>2, <1>4 DEF ChatTyped
<1>6. \A t \in Threads : turns[t] \in Seq(TurnSet) /\ turns'[t] \in Seq(TurnSet) /\ Grows(turns[t], turns'[t])
  BY <1>2, <1>3 DEF ServerTurns, TurnsGrow
<1>7. \A t \in Threads : \A r : Found(turns[t], r) => Found(turns'[t], r)
  BY <1>6, FoundGrows
<1>8. \A t \in Threads : \A b \in Seq(TurnSet) : FirstOf(b, turns[t]) => FirstOf(b, turns'[t])
  BY <1>6, FirstGrows
<1>9. OpenRequest'
  <2>1. retryRequest # None =>
          currentId \in Threads /\ retryRequest.expected \in Nat /\ retryRequest.expected <= Len(turns'[currentId])
    <3>1. SUFFICES ASSUME retryRequest # None
                   PROVE  currentId \in Threads /\ retryRequest.expected \in Nat
                          /\ retryRequest.expected <= Len(turns'[currentId])
      OBVIOUS
    <3>2. /\ currentId = retryRequest.thread /\ retryRequest.expected <= Len(turns[currentId])
          /\ retryRequest \in Submission
      BY <1>2, <3>1 DEF ChatIInv, OpenRequest, ChatTyped
    <3>3. currentId \in Threads /\ retryRequest.expected \in Nat
      BY <3>2, ChatBounds DEF Submission
    <3>4. Len(turns[currentId]) \in Nat /\ Len(turns'[currentId]) \in Nat
          /\ Len(turns[currentId]) <= Len(turns'[currentId])
      BY <1>6, <3>3, SeqParts DEF Grows
    <3>5. QED
      BY <3>2, <3>3, <3>4
  <2>2. ChatIInv /\ OpenRequest
    BY DEF ChatIInv
  <2>3. QED
    BY <1>1, <1>4, <2>1, <2>2 DEF OpenRequest
<1>10. LoadKnows'
  <2>1. LoadKnows
    BY DEF ChatIInv
  <2>2. load.for # "none" => currentId \in Threads
    BY <1>2, <2>1 DEF LoadKnows, ChatTyped
  <2>3. load.body \in Seq(TurnSet)
    BY <1>2 DEF ChatTyped, LoadSet
  <2>4. QED
    BY <1>1, <1>4, <1>7, <1>8, <2>1, <2>2, <2>3 DEF LoadKnows
<1>11. CompletedTrue'
  <2>1. completed # None => completed.thread \in Threads
    BY <1>2 DEF ChatTyped, Submission
  <2>2. QED
    BY <1>1, <1>4, <1>7, <2>1 DEF ChatIInv, CompletedTrue
<1>12. Shown' => FirstOf(thread', turns'[currentId'])
  BY <1>1, <1>2, <1>4, <1>8 DEF ChatIInv, ChatTyped
<1>13. QED
  BY <1>3, <1>5, <1>9, <1>10, <1>11, <1>12 DEF ChatIInv

\* A post that stays as it is.
LEMMA PostStays ==
  ASSUME ChatIInv, TurnsGrow, UNCHANGED <<tab, post>>
  PROVE  /\ post' \in PostSet /\ (post'.reply = "none") = (post.reply = "none")
         /\ (post'.reply = "none" => post' = NoPost) /\ PostKnows'
<1>1. ChatTyped /\ PostKnows /\ ServerTurns
  BY DEF ChatIInv
<1>2. /\ thread' = thread /\ retryRequest' = retryRequest /\ sending' = sending /\ Shown' = Shown /\ post' = post
  BY TabParts DEF Shown
<1>3. PostKnows'
  <2>1. SUFFICES ASSUME post.reply # "none" PROVE PostKnows'
    BY <1>2 DEF PostKnows
  <2> DEFINE s == post.saved
             t == s.thread
  <2>2. s \in Submission /\ sending /\ s = retryRequest /\ s # None
    BY <1>1, <2>1 DEF PostKnows, ChatTyped, PostSet
  <2>3. t \in Threads /\ s.expected \in Nat
    BY <2>2, ChatBounds DEF Submission
  <2>4. turns[t] \in Seq(TurnSet) /\ turns'[t] \in Seq(TurnSet) /\ Grows(turns[t], turns'[t])
    BY <1>1, <2>3 DEF TurnsGrow, ServerTurns
  <2>5. Found(turns[t], s.req) => Found(turns'[t], s.req)
    BY <2>4, FoundGrows
  <2>6. s.expected < Len(turns[t]) => s.expected < Len(turns'[t])
                                      /\ turns'[t][s.expected + 1].req = turns[t][s.expected + 1].req
    <3>1. Len(turns[t]) \in Nat /\ Len(turns'[t]) \in Nat
      BY <2>4, SeqParts
    <3>2. \A i \in 1..Len(turns[t]) : turns'[t][i].req = turns[t][i].req
      BY <2>4 DEF Grows
    <3>3. s.expected < Len(turns[t]) => s.expected + 1 \in 1..Len(turns[t])
      BY <2>3, <3>1
    <3>4. Len(turns[t]) <= Len(turns'[t])
      BY <2>4 DEF Grows
    <3> HIDE DEF s, t
    <3>5. QED
      BY <2>3, <3>1, <3>2, <3>3, <3>4
  <2>7. QED
    BY <1>1, <1>2, <2>1, <2>2, <2>5, <2>6 DEF PostKnows
<1>4. QED
  BY <1>1, <1>2, <1>3 DEF ChatTyped

LEMMA ServePostKeeps == ASSUME ChatIInv, ServePost PROVE ChatIInv'
<1> DEFINE s == post.saved
           t == s.thread
<1>1. post.reply = "sent" /\ UNCHANGED <<ghosts, tab, poll, load>>
  BY DEF ServePost
<1>2. PICK reply \in {"wait", "409", "replayed", "refused", "missing"} :
             Served(s, reply) /\ post' = [post EXCEPT !.reply = reply]
  BY DEF ServePost, AtOnce
<1>3. ServerTurns /\ OneTurnEach /\ ChatTyped /\ PostKnows /\ OpenRequest
  BY DEF ChatIInv
<1>4. s \in Submission /\ sending /\ s = retryRequest /\ s # None /\ post \in PostSet
  BY <1>1, <1>3 DEF PostKnows, ChatTyped, PostSet
<1>5. /\ TurnsGrow
      /\ reply = "replayed" => Found(turns'[t], s.req)
      /\ reply = "wait" =>
           /\ s.expected = Len(turns[t])
           /\ Len(turns'[t]) = s.expected + 1 /\ turns'[t][s.expected + 1].req = s.req
           /\ \A i \in 1..Len(turns[t]) : turns[t][i].req # s.req
  BY <1>2, <1>3, <1>4, ServedGrows
<1>6. post' \in PostSet /\ post'.reply = reply /\ post'.saved = s
  BY <1>2, <1>4 DEF PostSet
<1>7. /\ thread' = thread /\ retryRequest' = retryRequest /\ sending' = sending /\ Shown' = Shown
  BY <1>1, TabParts DEF Shown
<1>8. ASSUME reply = "wait", Shown
      PROVE  Len(thread) = s.expected /\ \A i \in 1..Len(thread) : thread[i].req # s.req
  <2>1. t = currentId /\ s.expected <= Len(thread)
    BY <1>3, <1>4, <1>8 DEF OpenRequest
  <2>2. FirstOf(thread, turns[t]) /\ thread \in Seq(TurnSet)
    BY <1>3, <1>8, <2>1 DEF ChatIInv, ChatTyped
  <2>3. Len(thread) \in Nat /\ s.expected \in Nat
    BY <1>4, <2>2, SeqParts, ChatBounds DEF Submission
  <2>4. Len(thread) <= s.expected /\ s.expected = Len(turns[t])
    BY <1>5, <1>8, <2>2 DEF FirstOf
  <2>5. Len(thread) = s.expected
    BY <2>1, <2>3, <2>4
  <2>6. \A i \in 1..Len(thread) : thread[i].req = turns[t][i].req
    BY <2>2 DEF FirstOf
  <2>7. QED
    BY <1>5, <1>8, <2>4, <2>5, <2>6
<1>9. s.expected \in Nat
  BY <1>4, ChatBounds DEF Submission
<1>10. PostKnows'
  <2>1. reply = "wait" => s.expected < Len(turns'[t])
    BY <1>5, <1>9
  <2>2. reply # "none" /\ reply # "ok"
    OBVIOUS
  <2>3. QED
    BY <1>4, <1>5, <1>6, <1>7, <1>8, <2>1, <2>2 DEF PostKnows
<1>11. ghosts' \subseteq Submission
  BY <1>1, <1>3 DEF ServerTurns
<1>12. (post'.reply = "none") = (post.reply = "none") /\ post'.reply # "none"
  BY <1>1, <1>6
<1>13. QED
  BY <1>1, <1>5, <1>6, <1>10, <1>11, <1>12, ServerKeeps

LEMMA ServeGhostKeeps == ASSUME ChatIInv, ServeGhost PROVE ChatIInv'
<1>1. UNCHANGED <<tab, post, poll, load>>
  BY DEF ServeGhost, calls
<1>2. PICK s \in ghosts : ghosts' = ghosts \ {s} /\ \E reply \in AtOnce : Served(s, reply)
  BY DEF ServeGhost
<1>3. ServerTurns /\ OneTurnEach
  BY DEF ChatIInv
<1>4. s \in Submission /\ ghosts' \subseteq Submission
  BY <1>2, <1>3 DEF ServerTurns
<1>5. PICK reply : Served(s, reply)
  BY <1>2
<1>6. TurnsGrow
  BY <1>3, <1>4, <1>5, ServedGrows
<1>7. QED
  BY <1>1, <1>4, <1>6, PostStays, ServerKeeps

LEMMA ChangeGrows ==
  ASSUME ServerTurns, OneTurnEach, NEW t \in Threads, NEW i \in DOMAIN turns[t],
         NEW state \in {"pending", "answered", "interrupted", "lapsed"}, Change(t, i, state),
         Finished(turns[t][i].state) => Finished(state)
  PROVE  TurnsGrow /\ (Finished(state) => Found(turns'[t], turns[t][i].req))
<1> DEFINE q == turns[t]
           a == [q[i] EXCEPT !.state = state]
           z == [q EXCEPT ![i] = a]
<1>1. q \in Seq(TurnSet) /\ Len(q) <= MaxTurns /\ Distinct(q) /\ turns \in [Threads -> Seq(TurnSet)]
  BY OneTurnIs DEF ServerTurns
<1>2. i \in 1..Len(q) /\ q[i] \in TurnSet /\ Len(q) \in Nat
  BY <1>1, SeqParts
<1>3. a \in TurnSet /\ a.req = q[i].req /\ a.state = state
  BY <1>2 DEF TurnSet
<1>4. turns' = [turns EXCEPT ![t] = z]
  BY DEF Change
<1> HIDE DEF a
<1>5. z \in Seq(TurnSet) /\ Len(z) = Len(q) /\ \A j \in 1..Len(q) : z[j] = IF j = i THEN a ELSE q[j]
  BY <1>1, <1>2, <1>3, ExceptSeq
<1> HIDE DEF z
<1>6. Grows(q, z) /\ Distinct(z)
  BY <1>1, <1>2, <1>3, <1>5 DEF Grows, Distinct
<1>7. TurnsGrow
  BY <1>1, <1>4, <1>5, <1>6, ReplaceTurns
<1>8. turns'[t] = z
  BY <1>1, <1>4
<1>9. Finished(state) => Found(z, q[i].req)
  BY <1>2, <1>3, <1>5, FoundIn
<1>10. QED
  BY <1>7, <1>8, <1>9

LEMMA LapseKeeps == ASSUME ChatIInv, Lapse PROVE ChatIInv'
<1>1. UNCHANGED <<ghosts, tab, post, poll, load>>
  BY DEF Lapse, calls
<1>2. PICK t \in Threads : \E i \in DOMAIN turns[t] : turns[t][i].state = "pending" /\ Change(t, i, "lapsed")
  BY DEF Lapse
<1>3. PICK i \in DOMAIN turns[t] : turns[t][i].state = "pending" /\ Change(t, i, "lapsed")
  BY <1>2
<1>4. ServerTurns /\ OneTurnEach
  BY DEF ChatIInv
<1>5. TurnsGrow
  BY <1>3, <1>4, ChangeGrows DEF Finished
<1>6. ghosts' \subseteq Submission
  BY <1>1, <1>4 DEF ServerTurns
<1>7. QED
  BY <1>1, <1>5, <1>6, PostStays, ServerKeeps

LEMMA OtherSessionKeeps == ASSUME ChatIInv, OtherSession PROVE ChatIInv'
<1>1. UNCHANGED <<ghosts, tab, post, poll, load>>
  BY DEF OtherSession, calls
<1> DEFINE a == [req |-> Other, state |-> "pending"]
<1>2. PICK t \in Threads : Len(turns[t]) < MaxTurns /\ turns' = [turns EXCEPT ![t] = Append(turns[t], a)]
  BY DEF OtherSession
<1>3. ServerTurns /\ OneTurnEach
  BY DEF ChatIInv
<1>4. turns[t] \in Seq(TurnSet) /\ Distinct(turns[t])
  BY <1>3, OneTurnIs DEF ServerTurns
<1>5. a \in TurnSet /\ a.req = Other
  BY DEF TurnSet
<1> HIDE DEF a
<1> DEFINE z == Append(turns[t], a)
<1>6. z \in Seq(TurnSet) /\ Len(z) = Len(turns[t]) + 1 /\ Grows(turns[t], z) /\ Distinct(z)
  BY <1>4, <1>5, AppendTurn
<1>7. Len(z) <= MaxTurns
  BY <1>2, <1>4, <1>6, SeqParts, ChatBounds
<1>8. TurnsGrow
  BY <1>2, <1>3, <1>6, <1>7, ReplaceTurns
<1>9. ghosts' \subseteq Submission
  BY <1>1, <1>3 DEF ServerTurns
<1>10. QED
  BY <1>1, <1>8, <1>9, PostStays, ServerKeeps

LEMMA FinishKeeps == ASSUME ChatIInv, Finish PROVE ChatIInv'
<1>1. UNCHANGED <<ghosts, tab, poll, load>>
  BY DEF Finish
<1>2. PICK t \in Threads : \E i \in DOMAIN turns[t] :
        /\ turns[t][i].state \in {"pending", "lapsed"}
        /\ Change(t, i, IF turns[t][i].state = "pending" THEN "answered" ELSE "interrupted")
        /\ post' = IF post.reply = "wait" /\ post.saved.thread = t /\ post.saved.req = turns[t][i].req
                   THEN [post EXCEPT !.reply = "ok"] ELSE post
  BY DEF Finish
<1>3. PICK i \in DOMAIN turns[t] :
        /\ turns[t][i].state \in {"pending", "lapsed"}
        /\ Change(t, i, IF turns[t][i].state = "pending" THEN "answered" ELSE "interrupted")
        /\ post' = IF post.reply = "wait" /\ post.saved.thread = t /\ post.saved.req = turns[t][i].req
                   THEN [post EXCEPT !.reply = "ok"] ELSE post
  BY <1>2
<1>4. ServerTurns /\ OneTurnEach /\ ChatTyped /\ PostKnows
  BY DEF ChatIInv
<1>5. PICK state \in {"answered", "interrupted"} : Change(t, i, state)
  BY <1>3
<1>6. TurnsGrow /\ Found(turns'[t], turns[t][i].req)
  BY <1>4, <1>5, ChangeGrows DEF Finished
<1>7. ghosts' \subseteq Submission
  BY <1>1, <1>4 DEF ServerTurns
<1>8. CASE UNCHANGED post
  BY <1>1, <1>6, <1>7, <1>8, PostStays, ServerKeeps
<1>9. CASE /\ post.reply = "wait" /\ post.saved.thread = t /\ post.saved.req = turns[t][i].req
           /\ post' = [post EXCEPT !.reply = "ok"]
  <2> DEFINE s == post.saved
  <2>1. s \in Submission /\ sending /\ s = retryRequest /\ s # None /\ post \in PostSet
    BY <1>4, <1>9 DEF PostKnows, ChatTyped, PostSet
  <2>2. post' \in PostSet /\ post'.reply = "ok" /\ post'.saved = s
    BY <1>9, <2>1 DEF PostSet
  <2>3. /\ thread' = thread /\ retryRequest' = retryRequest /\ sending' = sending /\ Shown' = Shown
    BY <1>1, TabParts DEF Shown
  <2>4. s.expected < Len(turns[t]) /\ turns[t][s.expected + 1].req = s.req
        /\ (Shown => Len(thread) = s.expected /\ \A k \in 1..Len(thread) : thread[k].req # s.req)
    BY <1>4, <1>9 DEF PostKnows
  <2>5. s.expected < Len(turns'[t]) /\ turns'[t][s.expected + 1].req = s.req
    <3>1. s.expected \in Nat
      BY <2>1, ChatBounds DEF Submission
    <3>2. Len(turns[t]) \in Nat /\ Len(turns'[t]) \in Nat /\ Grows(turns[t], turns'[t])
      BY <1>4, <1>6, SeqParts DEF ServerTurns, TurnsGrow
    <3>3. \A k \in 1..Len(turns[t]) : turns'[t][k].req = turns[t][k].req
      BY <3>2 DEF Grows
    <3>4. Len(turns[t]) <= Len(turns'[t])
      BY <3>2 DEF Grows
    <3> HIDE DEF s
    <3>5. s.expected + 1 \in 1..Len(turns[t])
      BY <2>4, <3>1, <3>2
    <3>6. QED
      BY <2>4, <3>1, <3>2, <3>3, <3>4, <3>5
  <2>6. PostKnows'
    BY <1>6, <1>9, <2>1, <2>2, <2>3, <2>4, <2>5 DEF PostKnows
  <2>7. (post'.reply = "none") = (post.reply = "none") /\ post'.reply # "none"
    BY <1>9, <2>2
  <2>8. QED
    BY <1>1, <1>6, <1>7, <2>2, <2>6, <2>7, ServerKeeps
<1>10. QED
  BY <1>3, <1>8, <1>9

Polls == {"none", "idle", "asked", "lost", "missing", "absent", "running", "terminal", "expired"}

LEMMA TurnsStay ==
  ASSUME ChatIInv, UNCHANGED turns, ghosts' \subseteq Submission
  PROVE  ServerTurns' /\ OneTurnEach'
BY DEF ChatIInv, ServerTurns, OneTurnEach

\* A poll that moves on, for the request it was started for.
LEMMA PollMoves ==
  ASSUME ChatIInv, UNCHANGED <<server, tab, post, load>>, poll # "none", poll' \in Polls, poll' # "none"
  PROVE  ChatIInv'
<1>1. /\ turns' = turns /\ ghosts' = ghosts
      /\ currentId' = currentId /\ thread' = thread /\ loading' = loading /\ retryRequest' = retryRequest
      /\ pending' = pending /\ completed' = completed /\ sending' = sending /\ postLost' = postLost
      /\ post' = post /\ load' = load /\ Shown' = Shown
  BY TabParts DEF server, Shown
<1>2. ServerTurns' /\ OneTurnEach'
  BY <1>1, TurnsStay DEF ChatIInv, ServerTurns
<1>3. ChatTyped'
  BY <1>1 DEF ChatIInv, ChatTyped, Polls
<1>4. OpenRequest' /\ PostKnows' /\ LoadKnows' /\ CompletedTrue'
  BY <1>1 DEF ChatIInv, OpenRequest, PostKnows, LoadKnows, CompletedTrue
<1>5. QED
  BY <1>1, <1>2, <1>3, <1>4 DEF ChatIInv

LEMMA PollKeeps == ASSUME ChatIInv, Poll \/ LosePoll \/ ServePoll PROVE ChatIInv'
<1>1. UNCHANGED <<server, tab, post, load>> /\ poll # "none"
  BY DEF Poll, LosePoll, ServePoll
<1>2. Status(retryRequest) \in Polls /\ Status(retryRequest) # "none"
  BY DEF Status, Polls
<1>3. poll' \in Polls /\ poll' # "none"
  BY <1>2 DEF Poll, LosePoll, ServePoll, Polls
<1>4. QED
  BY <1>1, <1>3, PollMoves

LEMMA LosePostKeeps == ASSUME ChatIInv, LosePost PROVE ChatIInv'
<1>1. /\ post.reply \in {"sent", "wait"} /\ post' = [post EXCEPT !.reply = "lost"]
      /\ ghosts' = IF post.reply = "sent" THEN ghosts \union {post.saved} ELSE ghosts
      /\ UNCHANGED <<turns, tab, poll, load>>
  BY DEF LosePost
<1>2. ServerTurns /\ OneTurnEach /\ ChatTyped /\ PostKnows
  BY DEF ChatIInv
<1>3. /\ post.saved \in Submission /\ sending /\ post.saved = retryRequest /\ post.saved # None
      /\ post \in PostSet
  BY <1>1, <1>2 DEF PostKnows, ChatTyped, PostSet
<1>4. TurnsGrow /\ ghosts' \subseteq Submission
  BY <1>1, <1>2, <1>3, StillTurns DEF ServerTurns
<1>5. post' \in PostSet /\ post'.reply = "lost" /\ post'.saved = post.saved
  BY <1>1, <1>3 DEF PostSet
<1>6. sending' = sending /\ retryRequest' = retryRequest
  BY <1>1, TabParts
<1>7. PostKnows'
  BY <1>3, <1>5, <1>6 DEF PostKnows
<1>8. (post'.reply = "none") = (post.reply = "none") /\ post'.reply # "none"
  BY <1>1, <1>5
<1>9. QED
  BY <1>1, <1>4, <1>5, <1>7, <1>8, ServerKeeps

\* A load under way moves on.
LEMMA LoadMoves ==
  ASSUME ChatIInv, UNCHANGED <<server, tab, post, poll>>, load' \in LoadSet, load'.for = load.for,
         load.for # "none", load'.reply # "none",
         LoadKnows'
  PROVE  ChatIInv'
<1>1. /\ turns' = turns /\ ghosts' = ghosts
      /\ currentId' = currentId /\ thread' = thread /\ loading' = loading /\ retryRequest' = retryRequest
      /\ pending' = pending /\ completed' = completed /\ sending' = sending /\ postLost' = postLost
      /\ post' = post /\ poll' = poll /\ Shown' = Shown
  BY TabParts DEF server, Shown
<1>2. ServerTurns' /\ OneTurnEach'
  BY <1>1, TurnsStay DEF ChatIInv, ServerTurns
<1>3. ChatTyped'
  BY <1>1 DEF ChatIInv, ChatTyped
<1>4. OpenRequest' /\ PostKnows' /\ CompletedTrue'
  BY <1>1 DEF ChatIInv, OpenRequest, PostKnows, CompletedTrue
<1>5. QED
  BY <1>1, <1>2, <1>3, <1>4 DEF ChatIInv

LEMMA LoadAsked ==
  ASSUME ChatIInv, load.reply # "none"
  PROVE  /\ load.for # "none" /\ load \in LoadSet /\ post.reply = "none" /\ ~Shown /\ currentId \in Threads
<1>1. ChatTyped /\ LoadKnows
  BY DEF ChatIInv
<1>2. load.for # "none" /\ load \in LoadSet
  BY <1>1 DEF ChatTyped, NoLoad
<1>3. QED
  BY <1>1, <1>2 DEF LoadKnows, ChatTyped

LEMMA LoseLoadKeeps == ASSUME ChatIInv, LoseLoad PROVE ChatIInv'
<1>1. /\ load.reply = "asked" /\ load' = [load EXCEPT !.reply = "lost"] /\ UNCHANGED <<server, tab, post, poll>>
  BY DEF LoseLoad
<1>2. load.for # "none" /\ load \in LoadSet /\ ChatTyped /\ LoadKnows
  BY <1>1, LoadAsked DEF ChatIInv
<1>3. load' \in LoadSet /\ load'.for = load.for /\ load'.reply = "lost" /\ load'.body = load.body
  BY <1>1, <1>2 DEF LoadSet
<1>4. LoadKnows'
  <2>1. /\ turns' = turns /\ currentId' = currentId /\ retryRequest' = retryRequest /\ pending' = pending
        /\ post' = post /\ poll' = poll /\ Shown' = Shown
    BY <1>1, TabParts DEF server, Shown
  <2>2. QED
    BY <1>1, <1>2, <1>3, <2>1 DEF LoadKnows
<1>5. QED
  BY <1>1, <1>2, <1>3, <1>4, LoadMoves

LEMMA ServeLoadKeeps == ASSUME ChatIInv, ServeLoad PROVE ChatIInv'
<1> DEFINE q == turns[currentId]
<1>1. /\ load.reply = "asked" /\ UNCHANGED <<server, tab, post, poll>>
      /\ load' = [load EXCEPT !.reply = "ok",
                              !.body = turns[IF load.for = "recover" THEN retryRequest.thread ELSE currentId]]
  BY DEF ServeLoad
<1>2. load.for # "none" /\ load \in LoadSet /\ currentId \in Threads /\ ChatTyped /\ LoadKnows /\ OpenRequest
      /\ ServerTurns /\ CompletedTrue
  BY <1>1, LoadAsked DEF ChatIInv
<1>3. load.for = "recover" => retryRequest.thread = currentId
  BY <1>2 DEF LoadKnows, OpenRequest
<1>4. q \in Seq(TurnSet)
  BY <1>2 DEF ServerTurns
<1>5. load' = [load EXCEPT !.reply = "ok", !.body = q]
  BY <1>1, <1>3
<1>6. load' \in LoadSet /\ load'.for = load.for /\ load'.reply = "ok" /\ load'.body = q
  BY <1>2, <1>4, <1>5 DEF LoadSet
<1>7. FirstOf(q, q)
  BY <1>4, SeqParts DEF FirstOf
<1>8. LoadKnows'
  <2>1. /\ turns' = turns /\ currentId' = currentId /\ retryRequest' = retryRequest /\ pending' = pending
        /\ completed' = completed /\ post' = post /\ poll' = poll /\ Shown' = Shown
    BY <1>1, TabParts DEF server, Shown
  <2>2. retryRequest # None => retryRequest.expected <= Len(q)
    BY <1>2 DEF OpenRequest
  <2>3. completed # None /\ completed.thread = currentId => Found(q, completed.req)
    BY <1>2 DEF CompletedTrue
  <2>4. QED
    BY <1>1, <1>2, <1>6, <1>7, <2>1, <2>2, <2>3 DEF LoadKnows
<1>9. QED
  BY <1>1, <1>2, <1>6, <1>8, LoadMoves

------------------------------------------------------------------------------
LEMMA GivenUp == ASSUME ChatIInv, GiveUp PROVE ghosts' \subseteq Submission
<1>1. post.reply = "sent" => post.saved \in Submission
  BY DEF ChatIInv, PostKnows, ChatTyped, PostSet
<1>2. QED
  BY <1>1 DEF ChatIInv, ServerTurns, GiveUp

LEMMA NothingTyped ==
  /\ NoPost \in PostSet /\ NoPost.reply = "none"
  /\ NoLoad \in LoadSet /\ NoLoad.for = "none" /\ NoLoad.reply = "none" /\ NoLoad.body = <<>>
<1>1. <<>> \in Seq(TurnSet)
  BY EmptySeq
<1>2. QED
  BY <1>1 DEF NoPost, NoLoad, PostSet, LoadSet

\* What a new view of thread t knows.
LEMMA ResetParts ==
  ASSUME ChatIInv, UNCHANGED turns, ResetView
  PROVE  /\ ServerTurns' /\ OneTurnEach'
         /\ post' = NoPost /\ poll' = "none" /\ thread' = None /\ sending' = FALSE /\ pending' = None
         /\ completed' = None /\ postLost' = FALSE /\ ~Shown'
         /\ PostKnows' /\ CompletedTrue'
<1>1. /\ GiveUp /\ post' = NoPost /\ poll' = "none" /\ thread' = None /\ sending' = FALSE /\ pending' = None
      /\ completed' = None /\ postLost' = FALSE
  BY DEF ResetView, NoPoll, PendingAfterReset
<1>2. ServerTurns' /\ OneTurnEach'
  BY <1>1, GivenUp, TurnsStay
<1>3. ~Shown'
  BY <1>1 DEF Shown
<1>4. PostKnows' /\ CompletedTrue'
  BY <1>1, NothingTyped DEF PostKnows, CompletedTrue
<1>5. QED
  BY <1>1, <1>2, <1>3, <1>4

LEMMA LoadThreadKeeps ==
  ASSUME ChatIInv, UNCHANGED turns, NEW t \in Threads, NEW for \in {"view", "discard", "complete", "retry"},
         LoadThread(t, for), retryRequest' = Kept(t),
         for \in {"complete", "retry"} => retryRequest' # None,
         for = "complete" => Found(turns[t], retryRequest.req)
  PROVE  ChatIInv'
<1>1. /\ ServerTurns' /\ OneTurnEach'
      /\ post' = NoPost /\ poll' = "none" /\ sending' = FALSE /\ pending' = None
      /\ completed' = None /\ postLost' = FALSE /\ ~Shown'
      /\ PostKnows' /\ CompletedTrue'
  BY ResetParts DEF LoadThread
<1>2. currentId' = t /\ loading' = TRUE /\ load' = [for |-> for, reply |-> "asked", body |-> <<>>]
  BY DEF LoadThread, NoLoad
<1>3. load' \in LoadSet /\ load'.for = for /\ load'.reply = "asked" /\ load'.body = <<>>
  <2>1. <<>> \in Seq(TurnSet)
    BY EmptySeq
  <2>2. QED
    BY <1>2, <2>1 DEF LoadSet
<1>4. ChatTyped /\ OpenRequest
  BY DEF ChatIInv
<1>5. retryRequest' # None => retryRequest' = retryRequest /\ currentId = t
  BY DEF Kept
<1>6. retryRequest' \in Submission \union {None}
  BY <1>4 DEF Kept, ChatTyped
<1>7. loading' = (for \notin {"none", "recover"})
  BY <1>2
<1>8. ChatTyped'
  BY <1>1, <1>2, <1>3, <1>6, <1>7, NothingTyped DEF ChatTyped
<1>9. OpenRequest'
  BY <1>1, <1>2, <1>4, <1>5, NothingTyped DEF OpenRequest
<1>10. LoadKnows'
  BY <1>1, <1>2, <1>3, <1>5, NothingTyped, ChatBounds DEF LoadKnows
<1>11. QED
  BY <1>1, <1>8, <1>9, <1>10 DEF ChatIInv

LEMMA EmptiedKeeps ==
  ASSUME ChatIInv, UNCHANGED turns, ResetView, retryRequest' = None, loading' = FALSE, load' = NoLoad,
         currentId' \in Threads \union {None}
  PROVE  ChatIInv'
<1>1. /\ ServerTurns' /\ OneTurnEach'
      /\ post' = NoPost /\ poll' = "none" /\ sending' = FALSE /\ pending' = None
      /\ completed' = None /\ postLost' = FALSE /\ ~Shown'
      /\ PostKnows' /\ CompletedTrue'
  BY ResetParts
<1>2. loading' = (load'.for \notin {"none", "recover"})
  BY NothingTyped
<1>3. ChatTyped'
  BY <1>1, <1>2, NothingTyped DEF ChatTyped
<1>4. OpenRequest' /\ LoadKnows'
  BY <1>1, NothingTyped DEF OpenRequest, LoadKnows
<1>5. QED
  BY <1>1, <1>3, <1>4 DEF ChatIInv

LEMMA SelectKeeps == ASSUME ChatIInv, NEW t \in Threads, Select(t) PROVE ChatIInv'
  BY LoadThreadKeeps DEF Select

LEMMA NewThreadKeeps == ASSUME ChatIInv, NewThread PROVE ChatIInv'
  BY EmptiedKeeps DEF NewThread

LEMMA ReconcileKeeps == ASSUME ChatIInv, Reconcile PROVE ChatIInv'
<1>1. retryRequest.thread \in Threads
  BY DEF Reconcile, ChatIInv, ChatTyped, Submission
<1>2. QED
  BY <1>1, LoadThreadKeeps DEF Reconcile

LEMMA CancelKeeps == ASSUME ChatIInv, Cancel PROVE ChatIInv'
<1>1. /\ GiveUp /\ post' = NoPost /\ poll' = "none" /\ sending' = FALSE /\ completed' = None /\ postLost' = FALSE
      /\ loading' = FALSE /\ load' = NoLoad
      /\ turns' = turns /\ currentId' = currentId /\ thread' = thread /\ retryRequest' = retryRequest
      /\ pending' = pending
  BY DEF Cancel, StopWaiting, NoPoll
<1>2. ServerTurns' /\ OneTurnEach'
  BY <1>1, GivenUp, TurnsStay
<1>3. Shown' = Shown
  BY <1>1 DEF Shown
<1>4. loading' = (load'.for \notin {"none", "recover"})
  BY <1>1, NothingTyped
<1>5. ChatTyped'
  BY <1>1, <1>3, <1>4, NothingTyped DEF ChatIInv, ChatTyped
<1>6. OpenRequest' /\ PostKnows' /\ LoadKnows' /\ CompletedTrue'
  BY <1>1, <1>3, NothingTyped DEF ChatIInv, OpenRequest, PostKnows, LoadKnows, CompletedTrue
<1>7. QED
  BY <1>1, <1>2, <1>3, <1>5, <1>6 DEF ChatIInv

\* However the tab is told that the thread is not there.
LEMMA MissingKeeps == ASSUME ChatIInv, UNCHANGED turns, Missing PROVE ChatIInv'
<1>1. currentId \in Threads \union {None}
  BY DEF ChatIInv, ChatTyped
<1>2. QED
  BY <1>1, EmptiedKeeps DEF Missing

LEMMA LoadFailsKeeps == ASSUME ChatIInv, LoadFails PROVE ChatIInv'
<1>1. load.reply = "lost" /\ turns' = turns /\ ChatTyped
  BY DEF LoadFails, ChatIInv
<1>2. CASE Missing
  BY <1>1, <1>2, MissingKeeps
<1>3. CASE /\ loading' = FALSE /\ load' = NoLoad /\ sending' = FALSE
           /\ UNCHANGED <<ghosts, currentId, thread, retryRequest, pending, completed, postLost,
                           recovering, phase, post, poll>>
  <2>1. ServerTurns' /\ OneTurnEach'
    BY <1>1, <1>3, TurnsStay DEF ChatIInv, ServerTurns
  <2>2. Shown' = Shown /\ post.reply = "none"
    BY <1>1, <1>3, LoadAsked DEF Shown
  <2>3. loading' = (load'.for \notin {"none", "recover"})
    BY <1>3, NothingTyped
  <2>4. ChatTyped'
    BY <1>3, <2>2, <2>3, NothingTyped DEF ChatIInv, ChatTyped
  <2>5. OpenRequest' /\ PostKnows' /\ LoadKnows' /\ CompletedTrue'
    BY <1>1, <1>3, <2>2, NothingTyped DEF ChatIInv, OpenRequest, PostKnows, LoadKnows, CompletedTrue
  <2>6. QED
    BY <1>1, <1>3, <2>1, <2>2, <2>4, <2>5 DEF ChatIInv
<1>4. QED
  BY <1>2, <1>3 DEF LoadFails

------------------------------------------------------------------------------
LEMMA TransmitKeeps ==
  ASSUME ChatIInv, UNCHANGED turns, ghosts' \subseteq Submission, NEW s \in Submission, Transmit(s),
         currentId' = s.thread, thread' \in Seq(TurnSet), FirstOf(thread', turns[s.thread]),
         s.expected <= Len(thread'), load' = NoLoad, loading' = FALSE,
         completed' \in Submission \union {None}, CompletedTrue'
  PROVE  ChatIInv'
<1>1. /\ sending' = TRUE /\ postLost' = FALSE /\ retryRequest' = s /\ pending' = s
      /\ post' = [saved |-> s, reply |-> "sent"] /\ poll' = "idle"
  BY DEF Transmit
<1>2. ServerTurns' /\ OneTurnEach'
  BY TurnsStay
<1>3. post' \in PostSet /\ post'.reply = "sent" /\ post'.saved = s /\ s # None
  BY <1>1, ChatBounds DEF PostSet
<1>4. loading' = (load'.for \notin {"none", "recover"})
  BY NothingTyped
<1>5. s.thread \in Threads /\ s.expected \in Nat
  BY ChatBounds DEF Submission
<1>6. ChatTyped'
  BY <1>1, <1>3, <1>4, <1>5, NothingTyped DEF ChatTyped
<1>7. s.expected <= Len(turns[s.thread])
  <2>1. Len(thread') \in Nat /\ Len(turns[s.thread]) \in Nat
    BY <1>5, SeqParts DEF ChatIInv, ServerTurns
  <2>2. QED
    BY <1>5, <2>1 DEF FirstOf
<1>8. OpenRequest' /\ PostKnows' /\ LoadKnows'
  BY <1>1, <1>3, <1>7, NothingTyped DEF OpenRequest, PostKnows, LoadKnows
<1>9. QED
  BY <1>2, <1>6, <1>8 DEF ChatIInv

LEMMA ShownParts ==
  ASSUME ChatIInv, Shown
  PROVE  /\ thread \in Seq(TurnSet) /\ currentId \in Threads /\ FirstOf(thread, turns[currentId])
         /\ load = NoLoad /\ loading = FALSE
<1>1. ChatTyped /\ LoadKnows
  BY DEF ChatIInv
<1>2. load.for = "none" /\ load = NoLoad
  BY <1>1 DEF LoadKnows, ChatTyped
<1>3. loading = (load.for \notin {"none", "recover"})
  BY <1>1 DEF ChatTyped
<1>4. (load.for \notin {"none", "recover"}) = FALSE
  BY <1>2
<1>5. QED
  BY <1>1, <1>2, <1>3, <1>4 DEF ChatIInv, ChatTyped

LEMMA CompletedStays ==
  ASSUME ChatIInv, UNCHANGED <<turns, completed>>, completed # None,
         Shown' /\ currentId' = completed.thread => Found(thread', completed.req)
  PROVE  CompletedTrue'
BY DEF ChatIInv, CompletedTrue

LEMMA RetryKeeps == ASSUME ChatIInv, Retry PROVE ChatIInv'
<1>1. retryRequest # None /\ currentId = retryRequest.thread /\ turns' = turns
  BY DEF Retry
<1>2. ChatTyped /\ OpenRequest /\ retryRequest \in Submission
  BY <1>1 DEF ChatIInv, ChatTyped
<1>3. CASE Shown
  <2>1. /\ Transmit(retryRequest) /\ GiveUp
        /\ currentId' = currentId /\ thread' = thread /\ loading' = loading /\ load' = load /\ completed' = completed
    BY <1>3 DEF Retry
  <2>2. CompletedTrue'
    BY <1>1, <1>3, <2>1 DEF ChatIInv, CompletedTrue, Shown
  <2>3. completed' \in Submission \union {None}
    BY <1>2, <2>1 DEF ChatTyped
  <2>4. retryRequest.expected <= Len(thread)
    BY <1>1, <1>2, <1>3 DEF OpenRequest
  <2>5. ghosts' \subseteq Submission
    BY <2>1, GivenUp
  <2>6. thread' \in Seq(TurnSet) /\ FirstOf(thread', turns[retryRequest.thread]) /\ load' = NoLoad /\ loading' = FALSE
    BY <1>1, <1>3, <2>1, ShownParts
  <2>7. QED
    BY <1>1, <1>2, <2>1, <2>2, <2>3, <2>4, <2>5, <2>6, TransmitKeeps
<1>4. CASE ~Shown
  <2>1. LoadThread(currentId, "retry") /\ retryRequest' = Kept(currentId)
    BY <1>4 DEF Retry
  <2>2. Kept(currentId) = retryRequest /\ currentId \in Threads
    BY <1>1, <1>2 DEF Kept, Submission
  <2>3. QED
    BY <1>1, <2>1, <2>2, LoadThreadKeeps
<1>5. QED
  BY <1>3, <1>4

LEMMA RevisionBound ==
  ASSUME NEW s \in Seq(TurnSet)
  PROVE  revision(s) \in Nat /\ revision(s) <= Len(s)
<1> DEFINE F == {i \in DOMAIN s : Finished(s[i].state)}
<1>1. Len(s) \in Nat /\ DOMAIN s = 1..Len(s)
  BY SeqParts
<1>2. IsFiniteSet(1..Len(s)) /\ Cardinality(1..Len(s)) = Len(s)
  BY <1>1, FS_Interval
<1>3. F \subseteq 1..Len(s)
  BY <1>1
<1>4. Cardinality(F) <= Len(s) /\ IsFiniteSet(F)
  BY <1>2, <1>3, FS_Subset
<1>5. Cardinality(F) \in Nat
  BY <1>4, FS_CardinalityType
<1>6. QED
  BY <1>4, <1>5 DEF revision

LEMMA SendKeeps == ASSUME ChatIInv, NEW r \in Requests, Send(r) PROVE ChatIInv'
<1>1. turns' = turns /\ ghosts' = ghosts /\ loading' = loading /\ load' = load /\ completed' = completed
      /\ retryRequest = None /\ ~loading
  BY DEF Send, server
<1>2. ServerTurns /\ ChatTyped /\ LoadKnows /\ CompletedTrue
  BY DEF ChatIInv
<1>3. ghosts' \subseteq Submission /\ completed' \in Submission \union {None}
  BY <1>1, <1>2 DEF ServerTurns, ChatTyped
<1>4. CASE /\ Shown
           /\ Transmit([thread |-> currentId, req |-> r, expected |-> revision(thread)])
           /\ UNCHANGED <<currentId, thread>>
  <2> DEFINE s == [thread |-> currentId, req |-> r, expected |-> revision(thread)]
  <2>1. thread \in Seq(TurnSet) /\ currentId \in Threads /\ FirstOf(thread, turns[currentId])
        /\ load = NoLoad /\ loading = FALSE
    BY <1>4, ShownParts
  <2>2. revision(thread) \in Nat /\ revision(thread) <= Len(thread)
    BY <2>1, RevisionBound
  <2>3. revision(thread) \in 0..MaxTurns
    <3>1. Len(thread) \in Nat /\ Len(turns[currentId]) \in Nat /\ Len(thread) <= Len(turns[currentId])
          /\ Len(turns[currentId]) <= MaxTurns
      BY <1>2, <2>1, SeqParts DEF ServerTurns, FirstOf
    <3>2. QED
      BY <2>2, <3>1, ChatBounds
  <2>4. s \in Submission /\ s.thread = currentId /\ s.expected = revision(thread)
    BY <2>1, <2>3 DEF Submission
  <2>5. Transmit(s)
    BY <1>4
  <2> HIDE DEF s
  <2>6. CompletedTrue'
    BY <1>1, <1>2, <1>4 DEF CompletedTrue, Shown
  <2>7. QED
    BY <1>1, <1>3, <1>4, <2>1, <2>2, <2>4, <2>5, <2>6, TransmitKeeps
<1>5. CASE /\ currentId = None
           /\ \E t \in Threads :
                /\ turns[t] = <<>> /\ currentId' = t /\ thread' = <<>>
                /\ Transmit([thread |-> t, req |-> r, expected |-> 0])
  <2>1. PICK t \in Threads :
                /\ turns[t] = <<>> /\ currentId' = t /\ thread' = <<>>
                /\ Transmit([thread |-> t, req |-> r, expected |-> 0])
    BY <1>5
  <2> DEFINE s == [thread |-> t, req |-> r, expected |-> 0]
  <2>2. s \in Submission /\ s.thread = t /\ s.expected = 0
    BY ChatBounds DEF Submission
  <2>3. thread' \in Seq(TurnSet) /\ Len(thread') = 0
    BY <2>1, EmptySeq
  <2>4. FirstOf(thread', turns[t])
    BY <2>1, <2>3 DEF FirstOf
  <2>5. load = NoLoad /\ loading = FALSE
    <3>1. load.for = "none"
      BY <1>2, <1>5 DEF LoadKnows
    <3>2. loading = (load.for \notin {"none", "recover"}) /\ load = NoLoad
      BY <1>2, <3>1 DEF ChatTyped
    <3>3. QED
      BY <3>1, <3>2
  <2>6. CompletedTrue'
    <3>1. completed # None => completed.thread \in Threads /\ Found(turns[completed.thread], completed.req)
      BY <1>2 DEF CompletedTrue, ChatTyped, Submission
    <3>2. \A q : ~Found(turns[t], q)
      <4>1. turns[t] \in Seq(TurnSet) /\ Len(turns[t]) = 0
        BY <2>1, EmptySeq
      <4>2. QED
        BY <4>1, FoundIn
    <3>3. QED
      BY <1>1, <2>1, <3>1, <3>2 DEF CompletedTrue
  <2>7. Transmit(s)
    BY <2>1
  <2> HIDE DEF s
  <2>8. s.expected <= Len(thread')
    BY <2>2, <2>3
  <2>9. QED
    BY <1>1, <1>3, <2>1, <2>2, <2>3, <2>4, <2>5, <2>6, <2>7, <2>8, TransmitKeeps
<1>6. QED
  BY <1>4, <1>5 DEF Send

\* The history is asked for once the reply is lost and the turn is over.
LEMMA RecoverKeeps ==
  ASSUME ChatIInv, UNCHANGED <<turns, ghosts, currentId, loading, retryRequest, pending, completed>>,
         retryRequest # None, load.for \in {"none", "recover"},
         thread' = None, load' = [NoLoad EXCEPT !.for = "recover", !.reply = "asked"],
         post' = NoPost, poll' \in Polls, sending' \in BOOLEAN, postLost' \in BOOLEAN
  PROVE  ChatIInv'
<1>1. ServerTurns' /\ OneTurnEach'
  BY TurnsStay DEF ChatIInv, ServerTurns
<1> DEFINE asked == [for |-> "recover", reply |-> "asked", body |-> <<>>]
<1>2. load' = asked /\ ~Shown'
  BY DEF NoLoad, Shown
<1>3. load' \in LoadSet /\ load'.for = "recover" /\ load'.reply = "asked" /\ load'.body = <<>>
  <2>1. <<>> \in Seq(TurnSet)
    BY EmptySeq
  <2>2. asked \in LoadSet
    BY <2>1 DEF LoadSet
  <2>3. asked.for = "recover" /\ asked.reply = "asked" /\ asked.body = <<>>
    OBVIOUS
  <2> HIDE DEF asked
  <2>4. QED
    BY <1>2, <2>2, <2>3
<1> HIDE DEF asked
<1>4. ChatTyped /\ OpenRequest
  BY DEF ChatIInv
<1>5. loading' = (load'.for \notin {"none", "recover"})
  <2>1. loading = (load.for \notin {"none", "recover"})
    BY <1>4 DEF ChatTyped
  <2>2. (load.for \notin {"none", "recover"}) = FALSE /\ (load'.for \notin {"none", "recover"}) = FALSE
    BY <1>3
  <2>3. QED
    BY <2>1, <2>2
<1>6. ChatTyped'
  BY <1>2, <1>3, <1>4, <1>5, NothingTyped DEF ChatTyped, Polls
<1>7. OpenRequest' /\ PostKnows'
  BY <1>2, <1>4, NothingTyped DEF OpenRequest, PostKnows
<1>8. currentId # None
  BY <1>4, ChatBounds DEF OpenRequest, ChatTyped, Submission
<1>9. LoadKnows' /\ CompletedTrue'
  BY <1>2, <1>3, <1>8, NothingTyped DEF ChatIInv, LoadKnows, CompletedTrue
<1>10. QED
  BY <1>1, <1>2, <1>6, <1>7, <1>9 DEF ChatIInv

LEMMA PollStops ==
  ASSUME ChatIInv, UNCHANGED <<turns, ghosts, currentId, thread, loading, retryRequest, pending, completed,
                               sending, postLost, post, load>>,
         poll' \in Polls, poll # "none"
  PROVE  ChatIInv'
<1>1. ServerTurns' /\ OneTurnEach' /\ Shown' = Shown
  BY TurnsStay DEF ChatIInv, ServerTurns, Shown
<1>2. ChatTyped'
  BY <1>1 DEF ChatIInv, ChatTyped, Polls
<1>3. OpenRequest' /\ PostKnows' /\ LoadKnows' /\ CompletedTrue'
  BY <1>1 DEF ChatIInv, OpenRequest, PostKnows, LoadKnows, CompletedTrue
<1>4. QED
  BY <1>1, <1>2, <1>3 DEF ChatIInv

LEMMA PollArrivesKeeps == ASSUME ChatIInv, PollArrives PROVE ChatIInv'
<1>1. poll \notin {"none", "idle", "asked"} /\ turns' = turns
  BY DEF PollArrives
<1>2. ChatTyped /\ OpenRequest /\ LoadKnows /\ poll \in Polls
  BY DEF ChatIInv, ChatTyped, Polls
<1>3. retryRequest # None
  BY <1>1, <1>2 DEF OpenRequest
<1>4. CASE poll \in {"absent", "running"}
  <2>1. poll' = "idle"
        /\ UNCHANGED <<ghosts, currentId, thread, loading, submission, post, load>>
    BY <1>4 DEF PollArrives
  <2>2. QED
    BY <1>1, <2>1, PollStops DEF submission, Polls
<1>5. CASE poll = "lost"
  <2>1. poll' = NoPoll
        /\ UNCHANGED <<ghosts, currentId, thread, loading, submission, post, load>>
    BY <1>5 DEF PollArrives
  <2>2. QED
    BY <1>1, <2>1, PollStops DEF submission, Polls, NoPoll
<1>6. CASE poll = "expired"
  <2>1. StopWaiting("expired") /\ UNCHANGED <<currentId, thread, loading, retryRequest, pending, load>>
    BY <1>6 DEF PollArrives
  <2>2. /\ GiveUp /\ post' = NoPost /\ poll' = "none" /\ sending' = FALSE /\ completed' = None /\ postLost' = FALSE
    BY <2>1 DEF StopWaiting, NoPoll
  <2>3. ServerTurns' /\ OneTurnEach' /\ Shown' = Shown
    BY <1>1, <2>1, <2>2, GivenUp, TurnsStay DEF Shown
  <2>4. ChatTyped'
    BY <1>2, <2>1, <2>2, <2>3, NothingTyped DEF ChatTyped
  <2>5. OpenRequest' /\ PostKnows' /\ LoadKnows' /\ CompletedTrue'
    BY <1>1, <2>1, <2>2, <2>3, NothingTyped DEF ChatIInv, OpenRequest, PostKnows, LoadKnows, CompletedTrue
  <2>6. QED
    BY <1>1, <2>1, <2>3, <2>4, <2>5 DEF ChatIInv
<1>7. CASE poll = "terminal"
  <2>1. /\ poll' = NoPoll
        /\ IF Recoverable(postLost, "terminal")
           THEN /\ recovering' = TRUE /\ thread' = None
                /\ load' = [NoLoad EXCEPT !.for = "recover", !.reply = "asked"]
           ELSE UNCHANGED <<recovering, thread, load>>
        /\ UNCHANGED <<ghosts, currentId, loading, retryRequest, pending, completed, sending, postLost, post>>
    BY <1>7 DEF PollArrives
  <2>2. poll' \in Polls
    BY <2>1 DEF NoPoll, Polls
  <2>3. CASE ~Recoverable(postLost, "terminal")
    BY <1>1, <2>1, <2>2, <2>3, PollStops
  <2>4. CASE Recoverable(postLost, "terminal")
    <3>1. post.reply = "none" /\ post = NoPost
      BY <1>2, <2>4 DEF Recoverable, OpenRequest, ChatTyped
    <3>2. load.for \in {"none", "recover"}
      BY <1>1, <1>2 DEF LoadKnows
    <3>3. sending' \in BOOLEAN /\ postLost' \in BOOLEAN
      BY <1>2, <2>1 DEF ChatTyped
    <3>4. QED
      BY <1>1, <1>3, <2>1, <2>2, <2>4, <3>1, <3>2, <3>3, RecoverKeeps
  <2>5. QED
    BY <2>3, <2>4
<1>8. CASE poll = "missing"
  <2>1. Missing
    BY <1>8 DEF PollArrives
  <2>2. QED
    BY <1>1, <2>1, MissingKeeps
<1>9. QED
  BY <1>1, <1>2, <1>4, <1>5, <1>6, <1>7, <1>8 DEF Polls

\* What a history that has arrived says, and what it leaves of the request.
LEMMA LoadTells ==
  ASSUME ChatIInv, load.reply = "ok"
  PROVE  /\ load.for # "none" /\ post.reply = "none" /\ post = NoPost /\ currentId \in Threads
         /\ load.body \in Seq(TurnSet) /\ FirstOf(load.body, turns[currentId])
         /\ retryRequest # None => retryRequest \in Submission /\ currentId = retryRequest.thread
                                  /\ retryRequest.expected <= Len(load.body)
         /\ completed # None /\ completed.thread = currentId => Found(load.body, completed.req)
<1>1. ChatTyped /\ LoadKnows /\ OpenRequest
  BY DEF ChatIInv
<1>2. load.for # "none" /\ load \in LoadSet /\ post.reply = "none" /\ currentId \in Threads
  BY LoadAsked
<1>3. post = NoPost /\ load.body \in Seq(TurnSet)
  BY <1>1, <1>2 DEF ChatTyped, LoadSet
<1>4. QED
  BY <1>1, <1>2, <1>3 DEF ChatTyped, LoadKnows, OpenRequest

LEMMA LoadShows ==
  ASSUME ChatIInv, load.reply = "ok", UNCHANGED <<turns, ghosts, currentId, postLost, post>>,
         thread' = load.body, load' = NoLoad, loading' = FALSE,
         sending' \in BOOLEAN, poll' \in Polls, retryRequest' \in {retryRequest, None},
         pending' \in Submission \union {None}, pending' # None => retryRequest' = pending',
         poll' # "none" => retryRequest' # None,
         completed' \in Submission \union {None}, CompletedTrue'
  PROVE  ChatIInv'
<1>1. ServerTurns' /\ OneTurnEach'
  BY TurnsStay DEF ChatIInv, ServerTurns
<1>2. /\ post.reply = "none" /\ post = NoPost /\ currentId \in Threads
      /\ load.body \in Seq(TurnSet) /\ FirstOf(load.body, turns[currentId])
      /\ retryRequest # None => currentId = retryRequest.thread /\ retryRequest.expected <= Len(load.body)
  BY LoadTells
<1>3. ChatTyped /\ OpenRequest
  BY DEF ChatIInv
<1>4. loading' = (load'.for \notin {"none", "recover"})
  BY NothingTyped
<1>5. ChatTyped'
  BY <1>2, <1>3, <1>4, NothingTyped DEF ChatTyped, Polls
<1>6. OpenRequest' /\ PostKnows' /\ LoadKnows'
  BY <1>2, <1>3, NothingTyped DEF OpenRequest, PostKnows, LoadKnows
<1>7. QED
  BY <1>1, <1>2, <1>5, <1>6 DEF ChatIInv

LEMMA LoadArrivesKeeps == ASSUME ChatIInv, LoadArrives PROVE ChatIInv'
<1>1. /\ load.reply = "ok" /\ thread' = load.body /\ loading' = FALSE /\ load' = NoLoad
      /\ turns' = turns /\ ghosts' = ghosts /\ currentId' = currentId
  BY DEF LoadArrives, server
<1>2. ChatTyped /\ OpenRequest /\ LoadKnows /\ CompletedTrue /\ ServerTurns
  BY DEF ChatIInv
<1>3. /\ load.for # "none" /\ post.reply = "none" /\ post = NoPost /\ currentId \in Threads
      /\ load.body \in Seq(TurnSet) /\ FirstOf(load.body, turns[currentId])
      /\ retryRequest # None => retryRequest \in Submission /\ currentId = retryRequest.thread
                               /\ retryRequest.expected <= Len(load.body)
      /\ completed # None /\ completed.thread = currentId => Found(load.body, completed.req)
  BY <1>1, LoadTells
<1>4. completed' = completed => CompletedTrue'
  BY <1>1, <1>2, <1>3 DEF CompletedTrue
<1>5. load.for # "none" /\ load \in LoadSet /\ sending \in BOOLEAN /\ poll \in Polls
      /\ completed \in Submission \union {None} /\ pending \in Submission \union {None}
  BY <1>1, <1>2, LoadAsked DEF ChatTyped, Polls
<1>6. ASSUME Complete(retryRequest), retryRequest # None, Found(load.body, retryRequest.req),
             sending' \in BOOLEAN, UNCHANGED <<postLost, post>>
      PROVE  ChatIInv'
  <2>1. pending' = None /\ retryRequest' = None /\ completed' = retryRequest /\ poll' = "none"
    BY <1>6 DEF Complete, NoPoll
  <2>2. Found(turns[currentId], retryRequest.req)
    BY <1>1, <1>2, <1>3, <1>5, <1>6 DEF LoadKnows, Submission
  <2>3. CompletedTrue'
    BY <1>1, <1>3, <1>6, <2>1, <2>2 DEF CompletedTrue
  <2>4. poll' \in Polls
    BY <2>1 DEF Polls
  <2>5. QED
    BY <1>1, <1>3, <1>6, <2>1, <2>3, <2>4, LoadShows
<1>7. CASE load.for \in {"view", "discard"}
  <2>1. /\ retryRequest' \in {retryRequest, None}
        /\ UNCHANGED <<pending, completed, sending, postLost, post, poll>>
    BY <1>1, <1>7 DEF LoadArrives
  <2>2. pending = None /\ poll = "none"
    BY <1>2, <1>7 DEF LoadKnows
  <2>3. QED
    BY <1>1, <1>4, <1>5, <2>1, <2>2, LoadShows
<1>8. CASE load.for = "complete"
  <2>1. Complete(retryRequest) /\ UNCHANGED <<sending, postLost, post>>
    BY <1>1, <1>8 DEF LoadArrives
  <2>2. retryRequest # None /\ Found(load.body, retryRequest.req)
    BY <1>1, <1>2, <1>8 DEF LoadKnows
  <2>3. QED
    BY <1>5, <1>6, <2>1, <2>2
<1>9. CASE load.for = "retry"
  <2>1. Transmit(retryRequest) /\ completed' = completed
    BY <1>1, <1>9 DEF LoadArrives
  <2>2. retryRequest # None
    BY <1>1, <1>2, <1>9 DEF LoadKnows
  <2>3. ghosts' \subseteq Submission
    BY <1>1, <1>2 DEF ServerTurns
  <2>4. QED
    BY <1>1, <1>3, <1>4, <1>5, <2>1, <2>2, <2>3, TransmitKeeps
<1>10. CASE load.for = "recover"
  <2>1. /\ IF Found(load.body, retryRequest.req) THEN Complete(retryRequest)
            ELSE UNCHANGED <<pending, retryRequest, completed, poll, phase>>
        /\ sending' = FALSE /\ UNCHANGED <<postLost, post>>
    BY <1>1, <1>10 DEF LoadArrives
  <2>2. retryRequest # None
    BY <1>1, <1>2, <1>10 DEF LoadKnows
  <2>3. CASE Found(load.body, retryRequest.req)
    BY <1>6, <2>1, <2>2, <2>3
  <2>4. CASE ~Found(load.body, retryRequest.req)
    <3>1. UNCHANGED <<pending, retryRequest, completed, poll>> /\ sending' \in BOOLEAN
      BY <2>1, <2>4
    <3>2. pending # None => retryRequest = pending
      BY <1>2 DEF OpenRequest
    <3>3. QED
      BY <1>1, <1>4, <1>5, <2>1, <2>2, <3>1, <3>2, LoadShows
  <2>5. QED
    BY <2>3, <2>4
<1>11. QED
  BY <1>5, <1>7, <1>8, <1>9, <1>10 DEF LoadSet

------------------------------------------------------------------------------
LEMMA LeastOf ==
  ASSUME NEW T \in SUBSET Nat, T # {}
  PROVE  \E n \in T : \A m \in T : n <= m
<1> DEFINE R == {ss \in Nat \X Nat : ss[1] < ss[2]}
<1>1. IsWellFoundedOn(R, Nat)
    BY NatLessThanWellFounded DEF OpToRel
<1>2. \A m, n \in Nat : <<m, n>> \in R <=> m < n
  OBVIOUS
<1> HIDE DEF R
<1>3. \E n \in T : \A m \in T : ~(<<m, n>> \in R)
    BY <1>1, WFMin
<1>4. \A n \in T : n \in Nat
  OBVIOUS
<1>5. PICK n \in T : \A m \in T : ~(<<m, n>> \in R)
  BY <1>3
<1>6. \A m \in T : ~(m < n)
  BY <1>5, <1>4, <1>2
<1>7. QED
  BY <1>4, <1>6

LEMMA SeqSnoc ==
  ASSUME NEW s \in Seq(TurnSet), NEW n \in 1..Len(s)
  PROVE  SubSeq(s, 1, n) = Append(SubSeq(s, 1, n - 1), s[n])
<1>1. Len(s) \in Nat /\ n \in Int /\ n - 1 \in Int /\ n - 1 \in Nat /\ n \in Nat
  BY SeqParts
<1>2. \A i \in 1..n : s[i] \in TurnSet
  BY <1>1, SeqParts
<1>3. \A i \in 1..(n - 1) : s[i] \in TurnSet
  BY <1>1, <1>2
<1>4. SubSeq(s, 1, n) \in Seq(TurnSet) /\ Len(SubSeq(s, 1, n)) = n /\ \A i \in 1..n : SubSeq(s, 1, n)[i] = s[i]
  BY <1>1, <1>2, SubSeqProperties
<1>5. /\ SubSeq(s, 1, n - 1) \in Seq(TurnSet) /\ Len(SubSeq(s, 1, n - 1)) = n - 1
      /\ \A i \in 1..(n - 1) : SubSeq(s, 1, n - 1)[i] = s[i]
  BY <1>1, <1>3, SubSeqProperties
<1> DEFINE a == SubSeq(s, 1, n)
           b == SubSeq(s, 1, n - 1)
           c == Append(b, s[n])
<1>6. /\ c \in Seq(TurnSet) /\ Len(c) = Len(b) + 1 /\ c[Len(b) + 1] = s[n]
      /\ \A i \in 1..Len(b) : c[i] = b[i]
  BY <1>1, <1>2, <1>5, AppendProperties
<1> HIDE DEF a, b, c
<1>7. Len(c) = n /\ c[n] = s[n] /\ \A i \in 1..(n - 1) : c[i] = s[i]
  BY <1>1, <1>5, <1>6 DEF b
<1>8. Len(a) = n /\ \A i \in 1..n : a[i] = s[i]
  BY <1>4 DEF a
<1>9. \A i \in 1..n : a[i] = c[i]
  BY <1>1, <1>7, <1>8
<1>10. a = c
  BY <1>4, <1>6, <1>7, <1>8, <1>9, SeqEqual DEF a
<1>11. QED
  BY <1>10 DEF a, b, c

\* The filter leaves a sequence alone that has nothing to leave out.
LEMMA WithoutNone ==
  ASSUME NEW s \in Seq(TurnSet), NEW r, \A i \in 1..Len(s) : s[i].req # r
  PROVE  Without(s, r) = s
<1> DEFINE Unrolls(f) == f = [n \in 0..Len(s) |->
                               IF n = 0 THEN <<>> ELSE IF s[n].req = r THEN f[n - 1] ELSE Append(f[n - 1], s[n])]
           f == [n \in 0..Len(s) |-> SubSeq(s, 1, n)]
           g == CHOOSE x : Unrolls(x)
<1>1. Len(s) \in Nat
  BY SeqParts
<1>2. f[0] = <<>>
  BY <1>1, SubSeqEmpty
<1>3. \A n \in 1..Len(s) : f[n] = Append(f[n - 1], s[n])
  BY <1>1, SeqSnoc
<1>4. \A n \in 0..Len(s) :
        f[n] = IF n = 0 THEN <<>> ELSE IF s[n].req = r THEN f[n - 1] ELSE Append(f[n - 1], s[n])
  <2> HIDE DEF f
  <2>1. SUFFICES ASSUME NEW n \in 0..Len(s), n # 0
                 PROVE  f[n] = IF s[n].req = r THEN f[n - 1] ELSE Append(f[n - 1], s[n])
    BY <1>2
  <2>2. n \in 1..Len(s)
    BY <1>1, <2>1
  <2>3. QED
    BY <1>3, <2>2
<1>5. Unrolls(f)
  BY <1>4
<1>6. Unrolls(g)
  <2> HIDE DEF Unrolls, f
  <2>1. QED
    BY <1>5
<1>7. Without(s, r) = g[Len(s)]
  BY DEF Without
<1> HIDE DEF g
<1>8. g[0] = <<>> /\ \A n \in 1..Len(s) : g[n] = Append(g[n - 1], s[n])
  <2>1. \A n \in 0..Len(s) :
          g[n] = IF n = 0 THEN <<>> ELSE IF s[n].req = r THEN g[n - 1] ELSE Append(g[n - 1], s[n])
    BY <1>6
  <2>2. 0 \in 0..Len(s)
    BY <1>1
  <2>3. g[0] = <<>>
    BY <2>1, <2>2
  <2>4. ASSUME NEW n \in 1..Len(s) PROVE g[n] = Append(g[n - 1], s[n])
    <3>1. n \in 0..Len(s) /\ n # 0 /\ s[n].req # r
      BY <1>1
    <3>2. QED
      BY <2>1, <3>1
  <2>5. QED
    BY <2>3, <2>4
<1> DEFINE Bad == {n \in 0..Len(s) : g[n] # f[n]}
<1>9. Bad = {}
  <2>1. SUFFICES ASSUME Bad # {} PROVE FALSE
    OBVIOUS
  <2>2. Bad \in SUBSET Nat
    BY <1>1
  <2>3. PICK n \in Bad : \A m \in Bad : n <= m
    BY <2>1, <2>2, LeastOf
  <2> HIDE DEF f
  <2>4. n # 0
    BY <1>2, <1>8, <2>3
  <2>5. n \in 1..Len(s) /\ n - 1 \in 0..Len(s) /\ ~(n <= n - 1)
    BY <1>1, <2>3, <2>4
  <2>6. g[n - 1] = f[n - 1]
    BY <2>3, <2>5
  <2>7. QED
    BY <1>3, <1>8, <2>3, <2>5, <2>6
<1>10. Len(s) \in 0..Len(s)
  BY <1>1
<1>11. g[Len(s)] = f[Len(s)]
  BY <1>9, <1>10
<1>12. f[Len(s)] = s
  BY <1>10, SubSeqFull
<1>13. QED
  BY <1>7, <1>11, <1>12

\* The turn that an answer brings is the next of the thread shown.
LEMMA AnswerIsNext ==
  ASSUME ChatIInv, post.reply = "ok", Shown,
         NEW k, k = CHOOSE i \in {i \in DOMAIN turns[post.saved.thread] :
                                  turns[post.saved.thread][i].req = post.saved.req} : TRUE
  PROVE  LET z == Append(Without(thread, post.saved.req), turns[post.saved.thread][k]) IN
         /\ z \in Seq(TurnSet) /\ FirstOf(z, turns[post.saved.thread]) /\ Found(z, post.saved.req)
<1> DEFINE s == post.saved
           q == turns[s.thread]
           a == q[k]
           z == Append(Without(thread, s.req), a)
<1>1. ChatTyped /\ PostKnows /\ ServerTurns /\ OneTurnEach
  BY DEF ChatIInv
<1>2. s \in Submission /\ s.thread \in Threads /\ s.expected \in Nat /\ s.req # Other
  BY <1>1, ChatBounds DEF PostKnows, ChatTyped, PostSet, Submission
<1>3. q \in Seq(TurnSet) /\ Distinct(q)
  BY <1>1, <1>2, OneTurnIs DEF ServerTurns
<1>4. /\ s.expected < Len(q) /\ q[s.expected + 1].req = s.req
      /\ Len(thread) = s.expected /\ \A i \in 1..Len(thread) : thread[i].req # s.req
      /\ Found(q, s.req)
  BY <1>1 DEF PostKnows
<1>5. Len(q) \in Nat /\ DOMAIN q = 1..Len(q) /\ \A i \in 1..Len(q) : q[i] \in TurnSet
  BY <1>3, SeqParts
<1>6. k \in 1..Len(q) /\ q[k].req = s.req
  <2> DEFINE mine == {i \in DOMAIN q : q[i].req = s.req}
  <2>1. mine # {}
    BY <1>2, <1>4, <1>5
  <2>2. k \in mine
    <3> HIDE DEF mine
    <3>1. k = CHOOSE i \in mine : TRUE
      BY DEF mine
    <3>2. QED
      BY <2>1, <3>1
  <2>3. QED
    BY <1>5, <2>2
<1>7. Finished(a.state)
  <2>1. PICK j \in 1..Len(q) : q[j].req = s.req /\ Finished(q[j].state)
    BY <1>3, <1>4, FoundIn
  <2>2. j = k
    BY <1>2, <1>3, <1>6, <2>1 DEF Distinct
  <2>3. QED
    BY <2>1, <2>2
<1>8. /\ thread \in Seq(TurnSet) /\ FirstOf(thread, q)
  <2>1. s.thread = currentId
    BY <1>1, <1>2 DEF PostKnows, ChatIInv, OpenRequest
  <2>2. QED
    BY <2>1, ShownParts
<1>9. z = Append(thread, a)
  BY <1>4, <1>8, WithoutNone
<1>10. a \in TurnSet /\ a.req = s.req
  BY <1>5, <1>6
<1> HIDE DEF a
<1>11. z \in Seq(TurnSet) /\ Len(z) = Len(thread) + 1 /\ z[Len(thread) + 1] = a
       /\ \A i \in 1..Len(thread) : z[i] = thread[i]
  BY <1>8, <1>9, <1>10, AppendProperties
<1> HIDE DEF z
<1>12. FirstOf(z, q)
  <2>1. Len(z) = s.expected + 1 /\ Len(z) <= Len(q)
    BY <1>2, <1>4, <1>5, <1>11
  <2>2. ASSUME NEW i \in 1..Len(z) PROVE z[i].req = q[i].req
    <3>1. CASE i = s.expected + 1
      BY <1>4, <1>10, <1>11, <3>1
    <3>2. CASE i # s.expected + 1
      <4>1. i \in 1..Len(thread)
        BY <1>2, <1>4, <2>1, <3>2
      <4>2. QED
        BY <1>8, <1>11, <4>1 DEF FirstOf
    <3>3. QED
      BY <3>1, <3>2
  <2>3. QED
    BY <2>1, <2>2 DEF FirstOf
<1>13. Found(z, s.req)
  <2>1. Len(thread) + 1 \in 1..Len(z)
    BY <1>2, <1>4, <1>11
  <2>2. QED
    BY <1>7, <1>10, <1>11, <2>1, FoundIn
<1>14. QED
  BY <1>11, <1>12, <1>13 DEF z, a

\* A post that is over leaves the views as they are.
LEMMA PostEnds ==
  ASSUME ChatIInv, UNCHANGED <<turns, ghosts, currentId, loading, load>>, post.reply # "none",
         post' = NoPost, sending' \in BOOLEAN, postLost' \in BOOLEAN, poll' \in Polls,
         retryRequest' \in {retryRequest, None}, pending' \in Submission \union {None},
         pending' # None => retryRequest' = pending', poll' # "none" => retryRequest' # None,
         completed' \in Submission \union {None}, CompletedTrue',
         Shown' => thread' \in Seq(TurnSet) /\ FirstOf(thread', turns[currentId]) /\ currentId \in Threads,
         retryRequest' # None => thread' = thread
  PROVE  ChatIInv'
<1>1. ServerTurns' /\ OneTurnEach'
  BY TurnsStay DEF ChatIInv, ServerTurns
<1>2. ChatTyped /\ OpenRequest /\ LoadKnows
  BY DEF ChatIInv
<1>3. load.for = "none"
  BY <1>2 DEF LoadKnows
<1>4. ChatTyped'
  BY <1>2, NothingTyped DEF ChatTyped, Polls
<1>5. OpenRequest' /\ PostKnows' /\ LoadKnows'
  BY <1>2, <1>3, NothingTyped DEF OpenRequest, PostKnows, LoadKnows, Shown
<1>6. QED
  BY <1>1, <1>4, <1>5 DEF ChatIInv

LEMMA PostArrivesKeeps == ASSUME ChatIInv, PostArrives PROVE ChatIInv'
<1> DEFINE s == post.saved
           mine == {i \in DOMAIN turns[s.thread] : turns[s.thread][i].req = s.req}
<1>1. post.reply \notin {"none", "sent", "wait"} /\ turns' = turns
  BY DEF PostArrives
<1>2. ChatTyped /\ PostKnows /\ OpenRequest /\ LoadKnows /\ CompletedTrue
  BY DEF ChatIInv
<1>3. /\ s \in Submission /\ s.thread \in Threads /\ s = retryRequest /\ s # None /\ currentId = s.thread
      /\ post.reply \in {"ok", "409", "replayed", "refused", "missing", "lost"}
  BY <1>1, <1>2 DEF PostKnows, ChatTyped, PostSet, OpenRequest, Submission
<1>4. /\ Shown => thread \in Seq(TurnSet) /\ FirstOf(thread, turns[currentId]) /\ currentId \in Threads
      /\ sending \in BOOLEAN /\ postLost \in BOOLEAN /\ poll \in Polls
      /\ completed \in Submission \union {None} /\ pending \in Submission \union {None}
      /\ pending # None => retryRequest = pending
      /\ poll # "none" => retryRequest # None
  BY <1>2, ShownParts DEF ChatTyped, OpenRequest, Polls
<1>5. CASE post.reply = "ok"
  <2>1. /\ IF Shown THEN
              /\ thread' = Append(Without(thread, s.req), turns[s.thread][CHOOSE i \in mine : TRUE])
              /\ Complete(s)
            ELSE UNCHANGED <<thread, pending, retryRequest, completed, poll, phase>>
        /\ sending' = FALSE /\ post' = NoPost
        /\ UNCHANGED <<ghosts, currentId, loading, postLost, recovering, load>>
    BY <1>5 DEF PostArrives, NewlyAnswered
  <2>2. CASE Shown
    <3>1. /\ thread' \in Seq(TurnSet) /\ FirstOf(thread', turns[s.thread]) /\ Found(thread', s.req)
      BY <1>5, <2>1, <2>2, AnswerIsNext
    <3>2. pending' = None /\ retryRequest' = None /\ completed' = s /\ poll' = "none"
      BY <2>1, <2>2 DEF Complete, NoPoll
    <3>3. Found(turns[s.thread], s.req)
      BY <1>2, <1>5 DEF PostKnows
    <3>4. CompletedTrue'
      BY <1>1, <3>1, <3>2, <3>3 DEF CompletedTrue
    <3>5. poll' \in Polls /\ postLost' \in BOOLEAN /\ sending' \in BOOLEAN
      BY <1>4, <2>1, <3>2 DEF Polls
    <3>6. QED
      BY <1>1, <1>3, <2>1, <3>1, <3>2, <3>4, <3>5, PostEnds
  <2>3. CASE ~Shown
    <3>1. UNCHANGED <<thread, pending, retryRequest, completed, poll>> /\ ~Shown'
      BY <2>1, <2>3 DEF Shown
    <3>2. CompletedTrue'
      BY <1>1, <1>2, <2>1, <3>1 DEF CompletedTrue
    <3>3. sending' \in BOOLEAN
      BY <2>1
    <3>4. QED
      BY <1>1, <1>4, <2>1, <3>1, <3>2, <3>3, PostEnds
  <2>4. QED
    BY <2>2, <2>3
<1>6. CASE post.reply \in {"replayed", "409"}
  <2> DEFINE for == IF post.reply = "409" THEN "view" ELSE "complete"
  <2>1. LoadThread(s.thread, for) /\ retryRequest' = Kept(s.thread)
    BY <1>6 DEF PostArrives, NewlyAnswered
  <2>2. Kept(s.thread) = retryRequest
    BY <1>3 DEF Kept
  <2>3. for \in {"view", "discard", "complete", "retry"}
    OBVIOUS
  <2>4. for = "complete" => Found(turns[s.thread], retryRequest.req)
    BY <1>2, <1>3, <1>6 DEF PostKnows
  <2> HIDE DEF for
  <2>5. QED
    BY <1>1, <1>3, <2>1, <2>2, <2>3, <2>4, LoadThreadKeeps
<1>7. CASE post.reply = "refused"
  <2>1. /\ pending' = None /\ retryRequest' = None /\ sending' = FALSE
        /\ post' = NoPost /\ poll' = NoPoll
        /\ UNCHANGED <<ghosts, currentId, thread, loading, completed, postLost, recovering, load>>
    BY <1>7 DEF PostArrives, NewlyAnswered
  <2>2. CompletedTrue' /\ Shown' = Shown
    BY <1>1, <1>2, <2>1 DEF CompletedTrue, Shown
  <2>3. poll' \in Polls /\ poll' = "none" /\ sending' \in BOOLEAN
    BY <2>1 DEF NoPoll, Polls
  <2>4. QED
    BY <1>1, <1>4, <2>1, <2>2, <2>3, PostEnds
<1>8. CASE post.reply = "lost"
  <2>1. /\ postLost' = TRUE /\ post' = NoPost
        /\ IF Recoverable(TRUE, phase)
           THEN /\ recovering' = TRUE /\ thread' = None
                /\ load' = [NoLoad EXCEPT !.for = "recover", !.reply = "asked"]
                /\ UNCHANGED sending
           ELSE sending' = FALSE /\ UNCHANGED <<recovering, thread, load>>
        /\ UNCHANGED <<ghosts, currentId, loading, retryRequest, pending, completed, poll, phase>>
    BY <1>8 DEF PostArrives, NewlyAnswered
  <2>2. CASE Recoverable(TRUE, phase)
    <3>1. load.for = "none"
      BY <1>1, <1>2 DEF LoadKnows
    <3>2. QED
      BY <1>1, <1>3, <1>4, <2>1, <2>2, <3>1, RecoverKeeps
  <2>3. CASE ~Recoverable(TRUE, phase)
    <3>1. CompletedTrue' /\ Shown' = Shown
      BY <1>1, <1>2, <2>1, <2>3 DEF CompletedTrue, Shown
    <3>2. postLost' \in BOOLEAN /\ sending' \in BOOLEAN
      BY <2>1, <2>3
    <3>3. QED
      BY <1>1, <1>4, <2>1, <2>3, <3>1, <3>2, PostEnds
  <2>4. QED
    BY <2>2, <2>3
<1>9. CASE post.reply = "missing"
  <2>1. Missing
    BY <1>9 DEF PostArrives, NewlyAnswered
  <2>2. QED
    BY <1>1, <2>1, MissingKeeps
<1>10. QED
  BY <1>3, <1>5, <1>6, <1>7, <1>8, <1>9

LEMMA ChatStarts == ASSUME Init PROVE ChatIInv
<1>1. /\ turns = [t \in Threads |-> <<>>] /\ ghosts = {}
      /\ currentId = None /\ thread = None /\ loading = FALSE
      /\ retryRequest = None /\ pending = None /\ completed = None
      /\ sending = FALSE /\ postLost = FALSE
      /\ post = NoPost /\ poll = "none" /\ load = NoLoad
  BY DEF Init, NoPoll
<1>2. <<>> \in Seq(TurnSet) /\ Len(<<>>) = 0
  BY EmptySeq
<1>3. ServerTurns
  BY <1>1, <1>2, ChatBounds DEF ServerTurns
<1>4. OneTurnEach
  <2>1. \A t \in Threads : turns[t] \in Seq(TurnSet) /\ Len(turns[t]) = 0
    BY <1>1, <1>2
  <2>2. \A t \in Threads : Distinct(turns[t])
    BY <2>1 DEF Distinct
  <2>3. QED
    BY <1>3, <2>2, OneTurnIs
<1>5. ~Shown
  BY <1>1 DEF Shown
<1>6. loading = (load.for \notin {"none", "recover"})
  BY <1>1, NothingTyped
<1>7. ChatTyped
  BY <1>1, <1>5, <1>6, NothingTyped DEF ChatTyped
<1>8. OpenRequest /\ PostKnows /\ LoadKnows /\ CompletedTrue
  BY <1>1, <1>5, NothingTyped DEF OpenRequest, PostKnows, LoadKnows, CompletedTrue
<1>9. QED
  BY <1>3, <1>4, <1>5, <1>7, <1>8 DEF ChatIInv

LEMMA ChatSteps == ASSUME ChatIInv, Next PROVE ChatIInv'
BY ServePostKeeps, ServeGhostKeeps, FinishKeeps, LapseKeeps, OtherSessionKeeps, LosePostKeeps,
   LoseLoadKeeps, ServeLoadKeeps, PollKeeps, SelectKeeps, SendKeeps, NewThreadKeeps, RetryKeeps,
   ReconcileKeeps, CancelKeeps, PostArrivesKeeps, PollArrivesKeeps, LoadFailsKeeps, LoadArrivesKeeps
DEF Next, Arrive

LEMMA ChatStays == ASSUME ChatIInv, UNCHANGED vars PROVE ChatIInv'
BY StillTurns, PostStays, ServerKeeps DEF ChatIInv, ServerTurns, ChatTyped, vars, server, calls

LEMMA ChatPromised == ASSUME ChatIInv PROVE ChatInv
<1>1. ServerTurns /\ ChatTyped /\ OpenRequest /\ PostKnows /\ CompletedTrue
  BY DEF ChatIInv
<1>2. TypeOK
  <2>1. post # NoPost => sending /\ post.saved = retryRequest
    BY <1>1 DEF ChatTyped, PostKnows
  <2>2. poll \notin {"none"} => retryRequest # None
    BY <1>1 DEF OpenRequest
  <2>3. load.for \in {"none", "view", "discard", "complete", "retry", "recover"}
    BY <1>1 DEF ChatTyped, LoadSet
  <2>4. Shown => currentId # None
    BY <1>1, ChatBounds DEF ChatTyped
  <2>5. QED
    BY <1>1, <2>1, <2>2, <2>3, <2>4 DEF TypeOK, ChatTyped, ServerTurns
<1>3. ShownInOrder
  BY SeqParts, ShownParts DEF FirstOf, ShownInOrder
<1>4. PendingCanRetry /\ CompletedIsShown
  BY <1>1 DEF OpenRequest, CompletedTrue, PendingCanRetry, CompletedIsShown
<1>5. QED
  BY <1>2, <1>3, <1>4 DEF ChatInv

LEMMA ChatAlways == MCSpec => []ChatIInv
<1>1. MCInit => ChatIInv
  BY ChatStarts DEF MCInit
<1>2. ChatIInv /\ [Chats \/ Sessions]_<<part, vars, session>> => ChatIInv'
  BY ChatSteps, ChatStays DEF Chats, Sessions
<1>3. QED
  BY <1>1, <1>2, PTL DEF MCSpec

\* The chat shows the server's turns in order, calls a question completed only when its
\* turn is shown and finished, and can repeat what it shows as waiting (chatSubmission.ts).
THEOREM ChatHeld == MCSpec => []ChatInv
<1>1. ChatIInv => ChatInv
  BY ChatPromised
<1>2. QED
  BY <1>1, ChatAlways, PTL

\* What is known of a question when its request is forgotten.
Known ==
  \/ post.reply \in {"refused", "missing"} \/ poll = "missing"
  \/ load.for = "discard" \/ load = [NoLoad EXCEPT !.for = "recover", !.reply = "lost"]
  \/ Found(turns[retryRequest.thread], retryRequest.req)

LEMMA RequestForgotten ==
  ASSUME ChatIInv, Next, retryRequest # None, retryRequest' = None, currentId' = retryRequest.thread
  PROVE  Known
<1>1. ChatTyped /\ OpenRequest /\ PostKnows /\ LoadKnows
  BY DEF ChatIInv
<1>2. /\ retryRequest \in Submission /\ retryRequest.thread \in Threads /\ retryRequest.req \in Requests
      /\ currentId = retryRequest.thread /\ retryRequest.thread # None
  BY <1>1, ChatBounds DEF ChatTyped, OpenRequest, Submission
<1>3. Kept(currentId) = retryRequest
  BY DEF Kept
<1>4. UNCHANGED tab => retryRequest' = retryRequest
  BY TabParts
<1>5. ~(ServePost \/ ServeGhost \/ Finish \/ Lapse \/ OtherSession \/ LosePost \/ LosePoll \/ LoseLoad
        \/ ServeLoad \/ ServePoll \/ Poll)
  BY <1>4 DEF ServePost, ServeGhost, Finish, Lapse, OtherSession, LosePost, LosePoll, LoseLoad,
              ServeLoad, ServePoll, Poll
<1>6. ~(\E t \in Threads : Select(t))
  BY <1>2, <1>3 DEF Select, LoadThread
<1>7. ~(\E r \in Requests : Send(r))
  BY DEF Send
<1>8. ~NewThread
  BY <1>2 DEF NewThread
<1>9. ~Retry
  BY <1>2, <1>3 DEF Retry, Transmit
<1>10. ~Reconcile
  BY <1>2, <1>3 DEF Reconcile
<1>11. ~Cancel
  BY DEF Cancel
<1>12. ASSUME PostArrives PROVE Known
  <2>1. post.reply \notin {"none", "sent", "wait"}
    BY <1>12 DEF PostArrives
  <2>2. post.saved = retryRequest
    BY <1>1, <2>1 DEF PostKnows
  <2>3. post.reply \in {"ok", "409", "replayed", "refused", "missing", "lost"}
    BY <1>1, <2>1 DEF ChatTyped, PostSet
  <2>4. CASE post.reply = "ok"
    BY <1>1, <2>2, <2>4 DEF PostKnows, Known
  <2>5. CASE post.reply \in {"replayed", "409"}
    <3>1. retryRequest' = Kept(post.saved.thread)
      BY <1>12, <2>5 DEF PostArrives, NewlyAnswered
    <3>2. QED
      BY <1>2, <1>3, <2>2, <3>1
  <2>6. CASE post.reply = "refused"
    BY <2>6 DEF Known
  <2>7. CASE post.reply = "lost"
    BY <1>12, <2>7 DEF PostArrives, NewlyAnswered
  <2>8. CASE post.reply = "missing"
    BY <2>8 DEF Known
  <2>9. QED
    BY <2>3, <2>4, <2>5, <2>6, <2>7, <2>8
<1>13. ASSUME PollArrives PROVE Known
  <2>1. SUFFICES ASSUME poll # "missing" PROVE FALSE
    BY DEF Known
  <2>2. poll \in {"absent", "running", "lost", "expired", "terminal"}
    BY <1>1, <1>13, <2>1 DEF PollArrives, ChatTyped
  <2>3. retryRequest' = retryRequest
    BY <1>13, <2>2 DEF PollArrives, submission
  <2>4. QED
    BY <2>3
<1>14. ASSUME LoadFails PROVE Known
  <2>1. load.reply = "lost" /\ (load.for = "recover" \/ retryRequest' = retryRequest)
    BY <1>14 DEF LoadFails
  <2>2. load \in LoadSet /\ load.body = <<>>
    BY <1>1, <2>1, LoadAsked DEF LoadKnows
  <2>3. load = [for |-> "recover", reply |-> "lost", body |-> <<>>]
    BY <2>1, <2>2 DEF LoadSet
  <2>4. PICK lost : lost = [NoLoad EXCEPT !.for = "recover", !.reply = "lost"]
    OBVIOUS
  <2>5. lost = [for |-> "recover", reply |-> "lost", body |-> <<>>]
    BY <2>4 DEF NoLoad
  <2>6. QED
    BY <2>3, <2>4, <2>5 DEF Known
<1>15. ASSUME LoadArrives PROVE Known
  <2>1. load.reply = "ok" /\ load.for # "none" /\ load \in LoadSet
    BY <1>15, LoadAsked DEF LoadArrives
  <2>2. load.for \in {"view", "discard", "complete", "retry", "recover"}
    BY <2>1 DEF LoadSet
  <2>3. CASE load.for = "view"
    BY <1>15, <2>3 DEF LoadArrives
  <2>4. CASE load.for = "discard"
    BY <2>4 DEF Known
  <2>5. CASE load.for = "complete"
    BY <1>1, <1>2, <2>5 DEF LoadKnows, Known
  <2>6. CASE load.for = "retry"
    BY <1>15, <2>6 DEF LoadArrives, Transmit
  <2>7. CASE load.for = "recover"
    <3>1. Found(load.body, retryRequest.req)
      BY <1>15, <2>7 DEF LoadArrives
    <3>2. QED
      BY <1>1, <1>2, <2>1, <3>1 DEF LoadKnows, Known
  <2>8. QED
    BY <2>2, <2>3, <2>4, <2>5, <2>6, <2>7
<1>16. QED
  BY <1>5, <1>6, <1>7, <1>8, <1>9, <1>10, <1>11, <1>12, <1>13, <1>14, <1>15 DEF Next, Arrive

LEMMA QuestionKept == MCSpec => OpenQuestionKept
<1>1. ChatIInv /\ [Chats \/ Sessions]_<<part, vars, session>>
        => [(retryRequest # None /\ retryRequest' = None /\ currentId' = retryRequest.thread) => Known]_vars
  BY RequestForgotten DEF Chats, Sessions
<1>2. QED
  BY <1>1, ChatAlways, PTL DEF MCSpec, OpenQuestionKept, Known

\* The tab gives up nothing on its own: a question whose fate is unknown is forgotten only
\* when the server refuses it or calls its thread missing, or the user lets go of it, and a
\* session ends only when its logout is confirmed (useChat.ts, useSession.ts).
THEOREM ServerEnds == MCSpec => OnlyServerEnds
BY QuestionKept, LogoutIsReal DEF OnlyServerEnds
==============================================================================
