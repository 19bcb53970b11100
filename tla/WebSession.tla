------------------------------ MODULE WebSession ------------------------------
(***************************************************************************)
(* One tab of the browser client: the session it believes in, the views    *)
(* whose content it shows, and its requests in flight.  The cookies belong *)
(* to all tabs of the browser: another tab may sign out and in, and the    *)
(* server may end a session, at any time.  A request is served once and    *)
(* its reply arrives later; a reply may say less than what was done.       *)
(*                                                                         *)
(* An epoch counter of the code is here the question whether a request is  *)
(* still current: a new session epoch drops the session's own request and  *)
(* the flag "fresh" of its calls, a new view epoch their flag "latest".    *)
(***************************************************************************)
EXTENDS Naturals, Sequences, FiniteSets

CONSTANTS Users, Targets, \* accounts, and what a view can be asked to show
          None,
          MaxSessions, MaxTokens, \* bounds on what the server issues
          Calls \* identities of protected calls in flight

WebAssumption == {MaxSessions, MaxTokens} \subseteq Nat /\ None \notin Users

VARIABLES sessions, tokens, \* the server's sessions, and how many tokens it issued
          jar,              \* the cookies: session and csrf token, 0 for none
          status, user, csrfToken, busy, logoutPending, protectedBlocked, message,
          op,               \* the session's current request
          view, calls       \* a view's selection and content, and the protected calls

server == <<sessions, tokens, jar>>
flags == <<busy, logoutPending, protectedBlocked>>
tab == <<status, user, csrfToken, flags, message>>
vars == <<server, tab, op, view, calls>>

NoCall == [target |-> None, mutation |-> FALSE, token |-> 0,
           fresh |-> FALSE, latest |-> FALSE, reply |-> "none"]
Idle == [task |-> "none", at |-> "none", prev |-> None, who |-> None, session |-> 0, token |-> 0, reply |-> "none"]
Live(s) == s # 0 /\ sessions[s].live

Init ==
  /\ sessions = <<>> /\ tokens = 0
  /\ jar = [session |-> 0, csrf |-> 0]
  /\ status = "loading" /\ user = None /\ csrfToken = 0
  /\ busy = FALSE /\ logoutPending = FALSE /\ protectedBlocked = FALSE
  /\ message = "none"
  /\ op = Idle
  /\ view = [selected |-> None, shown |-> None]
  /\ calls = [c \in Calls |-> NoCall]

\* clearProtectedState is a new epoch; its listeners make every view forget its content.
Cleared ==
  /\ view' = [selected |-> None, shown |-> None]
  /\ calls' = [c \in Calls |-> [calls[c] EXCEPT !.fresh = FALSE, !.latest = FALSE]]

Ask(task, at, prev, who) == op' = [Idle EXCEPT !.task = task, !.at = at, !.prev = prev, !.who = who]

------------------------------------------------------------------------------
(* The server and the other tabs.                                          *)

Issue(u) ==
  /\ Len(sessions) < MaxSessions /\ tokens < MaxTokens
  /\ tokens' = tokens + 1
  /\ sessions' = Append(sessions, [user |-> u, csrf |-> tokens', live |-> TRUE])
  /\ jar' = [session |-> Len(sessions'), csrf |-> tokens']

End(s) == sessions' = [sessions EXCEPT ![s].live = FALSE]

\* A healthy token is kept; otherwise a session gets a new one, and anyone else a challenge.
Bootstrap ==
  IF Live(jar.session) /\ sessions[jar.session].csrf = jar.csrf
  THEN UNCHANGED server
  ELSE /\ tokens < MaxTokens /\ tokens' = tokens + 1
       /\ jar' = [jar EXCEPT !.csrf = tokens']
       /\ sessions' = IF Live(jar.session) THEN [sessions EXCEPT ![jar.session].csrf = tokens'] ELSE sessions

ExpireSession ==
  /\ \E s \in DOMAIN sessions : sessions[s].live /\ End(s)
  /\ UNCHANGED <<tokens, jar, tab, op, view, calls>>

OtherTab ==
  /\ \/ ~Live(jar.session) /\ \E u \in Users : Issue(u)
     \/ /\ Live(jar.session) /\ End(jar.session)
        /\ jar' = [session |-> 0, csrf |-> 0] /\ UNCHANGED tokens
     \/ Bootstrap
  /\ UNCHANGED <<tab, op, view, calls>>

Reply(r, u, t) == op' = [op EXCEPT !.reply = r, !.who = u, !.token = t, !.session = jar.session]

\* The reply to a login or logout that was carried out may be lost.
Serve ==
  /\ op.at # "none" /\ op.reply = "none"
  /\ \/ Reply("lost", op.who, 0) /\ UNCHANGED server
     \/ /\ op.at = "me" /\ UNCHANGED server
        /\ IF Live(jar.session) THEN Reply("ok", sessions[jar.session].user, 0)
           ELSE Reply("401", op.who, 0)
     \/ /\ op.at = "csrf"
        /\ Bootstrap /\ Reply("ok", op.who, jar'.csrf)
     \/ /\ op.at = "login"
        /\ \/ Live(jar.session) /\ Reply("409", op.who, 0) /\ UNCHANGED server
           \/ ~Live(jar.session) /\ Reply("401", op.who, 0) /\ UNCHANGED server
           \/ /\ ~Live(jar.session) /\ Issue(op.who)
              /\ \E r \in {"ok", "lost"} : Reply(r, op.who, jar'.csrf)
     \/ /\ op.at = "logout"
        /\ \/ ~Live(jar.session) /\ Reply("401", op.who, 0) /\ UNCHANGED server
           \/ /\ Live(jar.session) /\ sessions[jar.session].csrf # op.token
              /\ Reply("403", op.who, 0) /\ UNCHANGED server
           \/ /\ Live(jar.session) /\ sessions[jar.session].csrf = op.token
              /\ End(jar.session) /\ jar' = [session |-> 0, csrf |-> 0] /\ UNCHANGED tokens
              /\ \E r \in {"ok", "lost"} : Reply(r, op.who, 0)
  /\ UNCHANGED <<tab, view, calls>>

\* A call is refused without a session, and a mutation also without its token;
\* any call may be refused for want of rights, or fail.
ServeCall(c) ==
  /\ calls[c].target # None /\ calls[c].reply = "none"
  /\ \E r \in IF ~Live(jar.session) THEN {"401", "failed"}
              ELSE IF calls[c].mutation /\ calls[c].token # sessions[jar.session].csrf
              THEN {"403", "failed"} ELSE {"ok", "403", "failed"} :
       calls' = [calls EXCEPT ![c].reply = r]
  /\ UNCHANGED <<server, tab, op, view>>

------------------------------------------------------------------------------
(* refresh.                                                                *)

\* Mutant: a sign-in in progress is no reason to wait.
FreeToAsk == ~logoutPending
Free == ~busy /\ ~logoutPending

\* On every navigation, when the tab becomes visible, and on demand.
Refresh ==
  /\ Free
  /\ Cleared
  /\ status' = "loading" /\ user' = None /\ message' = "none"
  /\ Ask("refresh", "me", user, None)
  /\ UNCHANGED <<server, csrfToken, flags>>

Authenticate(u, t) ==
  /\ status' = "authenticated" /\ user' = u /\ csrfToken' = t
  /\ protectedBlocked' = FALSE
  /\ op' = Idle

expire(reportExpiry) ==
  /\ status' = "anonymous" /\ user' = None /\ csrfToken' = 0
  /\ protectedBlocked' = FALSE
  /\ message' = IF reportExpiry THEN "expired" ELSE "none"
  /\ Cleared
  /\ op' = Idle

Unavailable ==
  /\ status' = "unavailable" /\ message' = "failed"
  /\ op' = Idle

RefreshArrives ==
  /\ op.task = "refresh" /\ op.reply # "none"
  /\ \/ /\ op.at = "me" /\ op.reply = "ok"
        /\ IF csrfToken = 0 \/ op.prev # op.who
           THEN Ask("refresh", "csrf", op.prev, op.who) /\ UNCHANGED tab
           ELSE Authenticate(op.who, csrfToken) /\ UNCHANGED <<busy, logoutPending, message>>
        /\ UNCHANGED <<view, calls>>
     \/ /\ op.at = "csrf" /\ op.reply = "ok"
        /\ Authenticate(op.who, op.token)
        /\ UNCHANGED <<busy, logoutPending, message, view, calls>>
     \/ /\ op.reply = "401"
        /\ expire(op.prev # None)
        /\ UNCHANGED <<busy, logoutPending>>
     \/ /\ op.reply = "lost"
        /\ Unavailable
        /\ UNCHANGED <<user, csrfToken, flags, view, calls>>
  /\ UNCHANGED server

------------------------------------------------------------------------------
(* signIn and signOut.                                                     *)

\* The form is there for an anonymous tab only.
SignIn(u) ==
  /\ status = "anonymous" /\ Free
  /\ Cleared
  /\ busy' = TRUE /\ message' = "none"
  /\ Ask("signIn", "csrf", None, u)
  /\ UNCHANGED <<server, status, user, csrfToken, logoutPending, protectedBlocked>>

Refused(reply) == reply \in {"401", "409", "lost"}

SignInArrives ==
  /\ op.task = "signIn" /\ op.reply # "none"
  /\ \/ /\ op.at = "csrf" /\ op.reply = "ok"
        /\ op' = [Idle EXCEPT !.task = "signIn", !.at = "login", !.who = op.who, !.token = op.token]
        /\ UNCHANGED tab
     \/ /\ op.at = "login" /\ op.reply = "ok"
        /\ Authenticate(op.who, op.token)
        /\ busy' = FALSE /\ UNCHANGED <<logoutPending, message>>
     \/ /\ Refused(op.reply)
        /\ csrfToken' = 0
        /\ status' = IF op.reply = "401" THEN "anonymous" ELSE "unavailable"
        /\ logoutPending' = (op.reply = "409")
        /\ message' = "failed"
        /\ busy' = FALSE
        /\ op' = Idle
        /\ UNCHANGED <<user, protectedBlocked>>
  /\ UNCHANGED <<server, view, calls>>

SignOut ==
  /\ ~busy
  /\ status \in {"authenticated", "loading"} \/ logoutPending
  /\ Cleared
  /\ csrfToken' = 0 /\ user' = None /\ status' = "loading"
  /\ busy' = TRUE /\ logoutPending' = TRUE /\ message' = "none"
  /\ op' = [Idle EXCEPT !.task = "signOut", !.at = IF csrfToken = 0 THEN "csrf" ELSE "logout", !.token = csrfToken]
  /\ UNCHANGED <<server, protectedBlocked>>

SignedOut(reply) == reply \in {"ok", "401"}

SignOutArrives ==
  /\ op.task = "signOut" /\ op.reply # "none"
  /\ \/ /\ op.at = "csrf" /\ op.reply = "ok"
        /\ op' = [Idle EXCEPT !.task = "signOut", !.at = "logout", !.token = op.token]
        /\ UNCHANGED tab
     \/ /\ op.at = "logout" /\ SignedOut(op.reply)
        /\ status' = "anonymous" /\ logoutPending' = FALSE
        /\ busy' = FALSE /\ op' = Idle
        /\ UNCHANGED <<user, csrfToken, protectedBlocked, message>>
     \/ /\ ~(op.at = "csrf" /\ op.reply = "ok") /\ ~(op.at = "logout" /\ SignedOut(op.reply))
        /\ Unavailable
        /\ busy' = FALSE
        /\ UNCHANGED <<user, csrfToken, logoutPending, protectedBlocked>>
  /\ UNCHANGED <<server, view, calls>>

------------------------------------------------------------------------------
(* runProtected, and the views that call it.                               *)

MayCall == status = "authenticated" /\ ~protectedBlocked

\* A view's run: a new epoch, the old content gone, the selection its target.
Run(c, target, mutation) ==
  /\ MayCall /\ calls[c] = NoCall
  /\ view' = [selected |-> target, shown |-> None]
  /\ calls' = [d \in Calls |->
       IF d = c THEN [target |-> target, mutation |-> mutation, token |-> csrfToken,
                      fresh |-> TRUE, latest |-> TRUE, reply |-> "none"]
       ELSE [calls[d] EXCEPT !.latest = FALSE]]
  /\ UNCHANGED <<server, tab, op>>

\* Closing a view, and leaving it, is a new epoch of the view only.
CloseView ==
  /\ view.selected # None
  /\ view' = [selected |-> None, shown |-> None]
  /\ calls' = [c \in Calls |-> [calls[c] EXCEPT !.latest = FALSE]]
  /\ UNCHANGED <<server, tab, op>>

Current(c) == calls[c].latest

\* A call of an earlier session epoch ends without a trace. The others tell the session
\* of a 401 or 403, even when the view has moved on; other failures are the view's.
CallArrives(c) ==
  /\ calls[c].reply # "none"
  /\ \/ /\ ~calls[c].fresh \/ calls[c].reply = "failed" \/ (calls[c].reply = "ok" /\ ~Current(c))
        /\ calls' = [calls EXCEPT ![c] = NoCall]
        /\ UNCHANGED <<tab, op, view>>
     \/ /\ calls[c].reply = "ok" /\ Current(c)
        /\ view' = [view EXCEPT !.shown = calls[c].target]
        /\ calls' = [calls EXCEPT ![c] = NoCall]
        /\ UNCHANGED <<tab, op>>
     \/ /\ calls[c].fresh /\ calls[c].reply = "401"
        /\ expire(TRUE)
        /\ UNCHANGED <<busy, logoutPending>>
     \/ /\ calls[c].fresh /\ calls[c].reply = "403"
        /\ protectedBlocked' = TRUE /\ csrfToken' = 0
        /\ user' = None /\ status' = "loading"
        /\ Cleared
        /\ Ask("suspend", "me", None, None)
        /\ UNCHANGED <<busy, logoutPending, message>>
  /\ UNCHANGED server

SuspendArrives ==
  /\ op.task = "suspend" /\ op.reply # "none"
  /\ \/ /\ op.reply = "ok"
        /\ user' = op.who /\ status' = "authenticated"
        /\ message' = "forbidden" /\ op' = Idle
        /\ UNCHANGED <<csrfToken, flags, view, calls>>
     \/ /\ op.reply = "401"
        /\ expire(TRUE)
        /\ UNCHANGED <<busy, logoutPending>>
     \/ /\ op.reply = "lost"
        /\ Unavailable
        /\ UNCHANGED <<user, csrfToken, flags, view, calls>>
  /\ UNCHANGED server

Arrive == RefreshArrives \/ SignInArrives \/ SignOutArrives \/ SuspendArrives

Next ==
  \/ ExpireSession \/ OtherTab \/ Serve \/ Arrive
  \/ Refresh \/ SignOut \/ \E u \in Users : SignIn(u)
  \/ CloseView
  \/ \E c \in Calls :
       \/ ServeCall(c) \/ CallArrives(c)
       \/ \E t \in Targets, m \in BOOLEAN : Run(c, t, m)

Spec == Init /\ [][Next]_vars
------------------------------------------------------------------------------
TypeOK ==
  /\ sessions \in Seq([user : Users, csrf : 1..MaxTokens, live : BOOLEAN])
  /\ jar.session \in 0..Len(sessions) /\ jar.csrf \in 0..tokens
  /\ status \in {"loading", "anonymous", "authenticated", "unavailable"}
  /\ user \in Users \union {None} /\ (status = "authenticated") = (user # None)
  /\ csrfToken \in 0..tokens
  /\ busy = (op.task \in {"signIn", "signOut"})
  /\ message \in {"none", "expired", "failed", "forbidden"}
  /\ view.shown \in Targets \union {None}
  /\ \A c \in Calls : calls[c].token \in 0..tokens
  /\ Cardinality({c \in Calls : calls[c].latest}) <= 1

(***************************************************************************)
(* Content is shown only to a confirmed session, and only of what is       *)
(* selected: no reply of an earlier session or selection brings anything   *)
(* back (useDocuments.ts 45-62, useSourceInspector.ts 24-45 and the like). *)
(***************************************************************************)
ShownIsSelected ==
  view.shown # None =>
    /\ status = "authenticated" /\ ~protectedBlocked
    /\ view.shown = view.selected

(***************************************************************************)
(* No protected call is started, and none of the tab's current ones is     *)
(* left, while the session is not confirmed (useSession.ts 155-174).       *)
(***************************************************************************)
CallsNeedSession ==
  \A c \in Calls : calls[c].fresh => status = "authenticated" /\ ~protectedBlocked

\* What the tab shows and does in the name of a session.
SessionInv == TypeOK /\ ShownIsSelected /\ CallsNeedSession

(***************************************************************************)
(* A tab that has been signed out says so only when the server's session   *)
(* has really ended: a lost or refused logout is not taken for one         *)
(* (useSession.ts 99-132).                                                 *)
(***************************************************************************)
LogoutConfirmed ==
  [][(op.task = "signOut" /\ status' = "anonymous") => ~Live(op.session)]_vars
==============================================================================
