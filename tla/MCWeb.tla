-------------------------------- MODULE MCWeb --------------------------------
(***************************************************************************)
(* The browser client: the chat of one tab (WebChat) and its session       *)
(* (WebSession).  What the chat needs of the session is that its calls may *)
(* fail, so the two have no state in common and share a run: each          *)
(* behaviour is about one part.                                            *)
(***************************************************************************)
EXTENDS WebChat, TLC

CONSTANTS Users, Targets, Calls, MaxSessions, MaxTokens

VARIABLES part,
          sessions, tokens, jar, status, user, csrfToken, busy, logoutPending,
          protectedBlocked, message, op, view, protected

session == <<sessions, tokens, jar, status, user, csrfToken, busy, logoutPending,
             protectedBlocked, message, op, view, protected>>

Session == INSTANCE WebSession WITH calls <- protected

ASSUME SessionAssumption == Session!WebAssumption

MCInit == part \in {"chat", "session"} /\ Init /\ Session!Init

Chats == part = "chat" /\ Next /\ UNCHANGED <<part, session>>
Sessions == part = "session" /\ Session!Next /\ UNCHANGED <<part, vars>>

MCSpec == MCInit /\ [][Chats \/ Sessions]_<<part, vars, session>>

(***************************************************************************)
(* Content is shown only to a confirmed session, and only of what is       *)
(* selected; no protected call is started, and none of the tab's current   *)
(* ones is left, while the session is not confirmed.                       *)
(***************************************************************************)
OnlyForSession == Session!SessionInv

(***************************************************************************)
(* The tab gives up nothing on its own: a question of the open thread      *)
(* whose fate is unknown is forgotten only when the server refuses it or   *)
(* calls the thread missing, or the user lets go of it, and a lost or      *)
(* refused logout is not taken for an ended session.                       *)
(***************************************************************************)
OnlyServerEnds == OpenQuestionKept /\ Session!LogoutConfirmed

Symmetric ==
  Permutations(Threads) \union Permutations(Requests)
    \union Permutations(Users) \union Permutations(Targets) \union Permutations(Calls)
==============================================================================
