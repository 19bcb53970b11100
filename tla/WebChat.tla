-------------------------------- MODULE WebChat --------------------------------
(***************************************************************************)
(* The chat of one browser tab against the server's threads: a question is *)
(* posted, its progress is polled beside it, and a reply that was lost is  *)
(* recovered from the history once the poll says that the turn is over.    *)
(* The user may switch threads, stop waiting and repeat the request; other *)
(* sessions of the same owner ask in the same threads.                     *)
(*                                                                         *)
(* A call that the tab has given up is no longer in post, poll or load: an *)
(* epoch of the code changed.  Its request may still reach the server.     *)
(***************************************************************************)
EXTENDS Naturals, Sequences, FiniteSets

CONSTANTS Threads, Requests, \* Requests: crypto.randomUUID(), each used for one question
          None, Other,       \* Other: a request of another session
          MaxTurns           \* bound on the turns of a thread

VARIABLES turns,     \* the server's turns of each thread, in order
          ghosts,    \* posts given up by the tab and not yet served
          used,      \* requests the tab has made up
          currentId, thread, loading,     \* thread: the turns shown, or None
          retryRequest, pending, completed, sending, postLost, recovering,
          phase,     \* of the progress
          post, poll, load \* the current calls

server == <<turns, ghosts>>
submission == <<retryRequest, pending, completed, sending, postLost, recovering>>
tab == <<used, currentId, thread, loading, submission, phase>>
calls == <<post, poll, load>>
vars == <<server, tab, calls>>

Submission == [thread : Threads, req : Requests, expected : 0..MaxTurns]

ASSUME ChatAssumption == MaxTurns \in Nat /\ None \notin Threads \union Submission /\ Other \notin Requests

NoPost == [saved |-> None, reply |-> "none"]
NoPoll == "none"
NoLoad == [for |-> "none", reply |-> "none", body |-> <<>>]

Finished(s) == s \in {"answered", "interrupted"}
revision(s) == Cardinality({i \in DOMAIN s : Finished(s[i].state)})
Shown == thread # None

Init ==
  /\ turns = [t \in Threads |-> <<>>] /\ ghosts = {}
  /\ used = {} /\ currentId = None /\ thread = None /\ loading = FALSE
  /\ retryRequest = None /\ pending = None /\ completed = None
  /\ sending = FALSE /\ postLost = FALSE /\ recovering = FALSE
  /\ phase = "sending"
  /\ post = NoPost /\ poll = NoPoll /\ load = NoLoad

------------------------------------------------------------------------------
(* The server.                                                             *)

Index(t, r) == {i \in DOMAIN turns[t] : turns[t][i].req = r}
Settle(s) == [i \in DOMAIN s |-> IF s[i].state = "lapsed" THEN [s[i] EXCEPT !.state = "interrupted"] ELSE s[i]]

\* Mutant: a question is taken whatever the tab has seen of the thread.
AcceptAny(t, expected) == TRUE
Acceptable(t, expected) == expected = Len(turns[t])

StillRuns(states) == "pending" \in states

\* What a post is told at once.  "missing" is a 404: the thread is not this account's, or
\* is no longer there; "wait" says nothing yet, the answer is being made.
AtOnce == {"wait", "409", "replayed", "refused", "missing"}

\* What the server does with a post at once.
Served(s, reply) ==
  LET here == Index(s.thread, s.req)
      states == {turns[s.thread][i].state : i \in here} IN
  \/ reply = "missing" /\ UNCHANGED turns
  \/ /\ here # {} /\ reply = IF StillRuns(states) THEN "409" ELSE "replayed"
     /\ turns' = [turns EXCEPT ![s.thread] = IF StillRuns(states) THEN @ ELSE Settle(@)]
  \/ /\ here = {}
     /\ \/ reply = "refused" /\ UNCHANGED turns
        \/ /\ \A i \in DOMAIN turns[s.thread] : turns[s.thread][i].state # "pending"
           /\ Acceptable(s.thread, s.expected) /\ Len(turns[s.thread]) < MaxTurns
           /\ reply = "wait"
           /\ turns' = [turns EXCEPT ![s.thread] = Append(Settle(@), [req |-> s.req, state |-> "pending"])]
        \/ /\ ~Acceptable(s.thread, s.expected)
              \/ \E i \in DOMAIN turns[s.thread] : turns[s.thread][i].state = "pending"
           /\ reply = "409"
           /\ turns' = [turns EXCEPT ![s.thread] = Settle(@)]

ServePost ==
  /\ post.reply = "sent"
  /\ \E reply \in AtOnce :
       Served(post.saved, reply) /\ post' = [post EXCEPT !.reply = reply]
  /\ UNCHANGED <<ghosts, tab, poll, load>>

ServeGhost ==
  /\ \E s \in ghosts :
       /\ ghosts' = ghosts \ {s}
       /\ \E reply \in AtOnce : Served(s, reply)
  /\ UNCHANGED <<tab, calls>>

Change(t, i, state) == turns' = [turns EXCEPT ![t][i].state = state]

\* The handler of a turn finishes it; the tab that waits for it is told, unless that is lost.
Finish ==
  /\ \E t \in Threads : \E i \in DOMAIN turns[t] :
       /\ turns[t][i].state \in {"pending", "lapsed"}
       /\ Change(t, i, IF turns[t][i].state = "pending" THEN "answered" ELSE "interrupted")
       /\ post' = IF post.reply = "wait" /\ post.saved.thread = t /\ post.saved.req = turns[t][i].req
                  THEN [post EXCEPT !.reply = "ok"] ELSE post
  /\ UNCHANGED <<ghosts, tab, poll, load>>

Lapse ==
  /\ \E t \in Threads : \E i \in DOMAIN turns[t] :
       turns[t][i].state = "pending" /\ Change(t, i, "lapsed")
  /\ UNCHANGED <<ghosts, tab, calls>>

OtherSession ==
  /\ \E t \in Threads :
       /\ Len(turns[t]) < MaxTurns
       /\ \A i \in DOMAIN turns[t] : Finished(turns[t][i].state)
       /\ turns' = [turns EXCEPT ![t] = Append(@, [req |-> Other, state |-> "pending"])]
  /\ UNCHANGED <<ghosts, tab, calls>>

\* The client's own timeout, a lost connection, or a failure of the server.
LosePost ==
  /\ post.reply \in {"sent", "wait"} /\ post' = [post EXCEPT !.reply = "lost"]
  /\ ghosts' = IF post.reply = "sent" THEN ghosts \union {post.saved} ELSE ghosts
  /\ UNCHANGED <<turns, tab, poll, load>>

LosePoll == poll = "asked" /\ poll' = "lost" /\ UNCHANGED <<server, tab, post, load>>

LoseLoad ==
  /\ load.reply = "asked" /\ load' = [load EXCEPT !.reply = "lost"]
  /\ UNCHANGED <<server, tab, post, poll>>

ServeLoad ==
  /\ load.reply = "asked"
  /\ load' = [load EXCEPT !.reply = "ok", !.body = turns[IF load.for = "recover" THEN retryRequest.thread ELSE currentId]]
  /\ UNCHANGED <<server, tab, post, poll>>

\* project_request_status: what is stored decides, not what was observed.
Status(s) ==
  LET here == Index(s.thread, s.req) IN
  IF here = {} THEN "absent"
  ELSE LET state == turns[s.thread][CHOOSE i \in here : TRUE].state IN
       IF Finished(state) THEN "terminal" ELSE IF state = "lapsed" THEN "expired" ELSE "running"

ServePoll ==
  /\ poll = "asked"
  /\ poll' \in {Status(retryRequest), "missing"}
  /\ UNCHANGED <<server, tab, post, load>>

------------------------------------------------------------------------------
(* The tab: what its handlers have in common.                              *)

\* The post is given up; unless it was served already, the server may still get it.
GiveUp == ghosts' = IF post.reply = "sent" THEN ghosts \union {post.saved} ELSE ghosts

PendingAfterReset == None

\* resetView, with the reset of the submission and the progress.
ResetView ==
  /\ GiveUp
  /\ post' = NoPost /\ poll' = NoPoll
  /\ thread' = None
  /\ sending' = FALSE /\ pending' = PendingAfterReset /\ completed' = None
  /\ postLost' = FALSE /\ recovering' = FALSE
  /\ phase' = "sending"

\* Mutant: a question that is still open is forgotten with the view.
KeptNever(t) == None
\* loadThread forgets the request of another thread.
Kept(t) == IF currentId = t THEN retryRequest ELSE None

LoadThread(t, for) ==
  /\ ResetView
  /\ currentId' = t /\ loading' = TRUE
  /\ load' = [NoLoad EXCEPT !.for = for, !.reply = "asked"]

\* A thread that is not there is not shown, and its question is discarded; it stays selected.
Missing ==
  /\ ResetView
  /\ retryRequest' = None
  /\ loading' = FALSE /\ load' = NoLoad
  /\ UNCHANGED currentId

Complete(s) ==
  /\ pending' = None /\ retryRequest' = None /\ completed' = s
  /\ poll' = NoPoll /\ phase' = "sending"

Transmit(s) ==
  /\ sending' = TRUE /\ postLost' = FALSE /\ recovering' = FALSE
  /\ retryRequest' = s /\ pending' = s
  /\ post' = [saved |-> s, reply |-> "sent"]
  /\ poll' = "idle" /\ phase' = "sending"

StopWaiting(next) ==
  /\ GiveUp
  /\ post' = NoPost /\ poll' = NoPoll
  /\ sending' = FALSE /\ completed' = None /\ postLost' = FALSE /\ recovering' = FALSE
  /\ phase' = next

\* recover reads the history when both the reply is lost and the turn is over.
Recoverable(lost, now) == lost /\ ~recovering /\ retryRequest # None /\ now = "terminal"

------------------------------------------------------------------------------
(* What the user does.                                                     *)

Select(t) ==
  /\ LoadThread(t, "view")
  /\ retryRequest' = Kept(t)
  /\ UNCHANGED <<turns, used>>

NewThread ==
  /\ ResetView
  /\ currentId' = None /\ retryRequest' = None
  /\ loading' = FALSE /\ load' = NoLoad
  /\ UNCHANGED <<turns, used>>

\* A question in the thread shown, or in a new one that nobody has used.
Send(r) ==
  /\ ~sending /\ ~loading /\ retryRequest = None /\ r \notin used
  /\ used' = used \union {r}
  /\ \/ /\ Shown
        /\ Transmit([thread |-> currentId, req |-> r,
                     expected |-> revision(thread)])
        /\ UNCHANGED <<currentId, thread>>
     \/ /\ currentId = None
        /\ \E t \in Threads :
             /\ turns[t] = <<>> /\ \A s \in ghosts : s.thread # t
             /\ currentId' = t /\ thread' = <<>>
             /\ Transmit([thread |-> t, req |-> r, expected |-> 0])
  /\ UNCHANGED <<server, loading, load, completed>>

Retry ==
  /\ retryRequest # None /\ ~sending /\ ~loading /\ currentId = retryRequest.thread
  /\ IF Shown
     THEN Transmit(retryRequest) /\ GiveUp /\ UNCHANGED <<currentId, thread, loading, load, completed>>
     ELSE LoadThread(currentId, "retry") /\ retryRequest' = Kept(currentId)
  /\ UNCHANGED <<turns, used>>

\* The other way out of an open question: look at the history and let go of it.
Reconcile ==
  /\ retryRequest # None /\ ~sending /\ ~loading
  /\ LoadThread(retryRequest.thread, "discard")
  /\ retryRequest' = Kept(retryRequest.thread)
  /\ UNCHANGED <<turns, used>>

Cancel ==
  /\ sending
  /\ StopWaiting("stopped")
  /\ loading' = FALSE /\ load' = NoLoad
  /\ UNCHANGED <<turns, used, currentId, thread, retryRequest, pending>>

------------------------------------------------------------------------------
(* What arrives.                                                           *)

NewlyAnswered(reply) == reply = "ok"

\* The turns shown, but r's.
Without(s, r) ==
  LET kept[n \in 0..Len(s)] ==
        IF n = 0 THEN <<>> ELSE IF s[n].req = r THEN kept[n - 1] ELSE Append(kept[n - 1], s[n])
  IN kept[Len(s)]

PostArrives ==
  /\ post.reply \notin {"none", "sent", "wait"}
  /\ LET s == post.saved
         mine == {i \in DOMAIN turns[s.thread] : turns[s.thread][i].req = s.req} IN
     CASE NewlyAnswered(post.reply) ->
            /\ IF Shown THEN
                 /\ thread' = Append(Without(thread, s.req), turns[s.thread][CHOOSE i \in mine : TRUE])
                 /\ Complete(s)
               ELSE UNCHANGED <<thread, pending, retryRequest, completed, poll, phase>>
            /\ sending' = FALSE /\ post' = NoPost
            /\ UNCHANGED <<ghosts, currentId, loading, postLost, recovering, load>>
       [] post.reply \in {"replayed", "409"} /\ ~NewlyAnswered(post.reply) ->
            /\ LoadThread(s.thread, IF post.reply = "409" THEN "view" ELSE "complete")
            /\ retryRequest' = Kept(s.thread)
       [] post.reply = "refused" ->
            /\ pending' = None /\ retryRequest' = None /\ sending' = FALSE
            /\ post' = NoPost /\ poll' = NoPoll /\ phase' = "sending"
            /\ UNCHANGED <<ghosts, currentId, thread, loading, completed, postLost, recovering, load>>
       [] post.reply = "lost" ->
            /\ postLost' = TRUE /\ post' = NoPost
            /\ IF Recoverable(TRUE, phase)
               THEN /\ recovering' = TRUE /\ thread' = None
                    /\ load' = [NoLoad EXCEPT !.for = "recover", !.reply = "asked"]
                    /\ UNCHANGED sending
               ELSE sending' = FALSE /\ UNCHANGED <<recovering, thread, load>>
            /\ UNCHANGED <<ghosts, currentId, loading, retryRequest, pending, completed, poll, phase>>
       [] post.reply = "missing" -> Missing
  /\ UNCHANGED <<turns, used>>

\* A second after the last answer.
Poll ==
  /\ poll = "idle"
  /\ poll' = "asked"
  /\ UNCHANGED <<server, tab, post, load>>

PollArrives ==
  /\ poll \notin {"none", "idle", "asked"}
  /\ CASE poll \in {"absent", "running"} ->
            /\ poll' = "idle" /\ phase' = IF poll = "absent" THEN "sending" ELSE "running"
            /\ UNCHANGED <<ghosts, currentId, thread, loading, submission, post, load>>
       [] poll = "lost" ->
            /\ poll' = NoPoll /\ phase' = "unavailable"
            /\ UNCHANGED <<ghosts, currentId, thread, loading, submission, post, load>>
       [] poll = "expired" ->
            /\ StopWaiting("expired")
            /\ UNCHANGED <<currentId, thread, loading, retryRequest, pending, load>>
       [] poll = "terminal" ->
            /\ poll' = NoPoll /\ phase' = "terminal"
            /\ IF Recoverable(postLost, "terminal")
               THEN /\ recovering' = TRUE /\ thread' = None
                    /\ load' = [NoLoad EXCEPT !.for = "recover", !.reply = "asked"]
               ELSE UNCHANGED <<recovering, thread, load>>
            /\ UNCHANGED <<ghosts, currentId, loading, retryRequest, pending, completed, sending, postLost, post>>
       [] poll = "missing" -> Missing
  /\ UNCHANGED <<turns, used>>

\* Not available, whether the tab has lost it or the thread is not its user's.
LoadFails ==
  /\ load.reply = "lost"
  /\ \/ load.for = "recover" /\ Missing
     \/ /\ loading' = FALSE /\ load' = NoLoad
        /\ sending' = FALSE
        /\ UNCHANGED <<ghosts, currentId, thread, retryRequest, pending, completed, postLost,
                       recovering, phase, post, poll>>
  /\ UNCHANGED <<turns, used>>

Found(body, r) == \E i \in DOMAIN body : body[i].req = r /\ Finished(body[i].state)

LoadArrives ==
  /\ load.reply = "ok"
  /\ thread' = load.body /\ loading' = FALSE /\ load' = NoLoad
  /\ CASE load.for \in {"view", "discard"} ->
            /\ retryRequest' = IF load.for = "view" THEN retryRequest ELSE None
            /\ UNCHANGED <<pending, completed, sending, postLost, recovering, phase, post, poll>>
       [] load.for = "complete" ->
            /\ Complete(retryRequest)
            /\ UNCHANGED <<sending, postLost, recovering, post>>
       [] load.for = "retry" ->
            /\ Transmit(retryRequest)
            /\ UNCHANGED completed
       [] load.for = "recover" ->
            /\ IF Found(load.body, retryRequest.req) THEN Complete(retryRequest)
               ELSE UNCHANGED <<pending, retryRequest, completed, poll, phase>>
            /\ sending' = FALSE
            /\ UNCHANGED <<postLost, recovering, post>>
  /\ UNCHANGED <<server, used, currentId>>

Arrive == PostArrives \/ PollArrives \/ LoadFails \/ LoadArrives

Next ==
  \/ ServePost \/ ServeGhost \/ Finish \/ Lapse \/ OtherSession
  \/ LosePost \/ LosePoll \/ LoseLoad \/ ServeLoad \/ ServePoll
  \/ \E t \in Threads : Select(t)
  \/ \E r \in Requests : Send(r)
  \/ NewThread \/ Retry \/ Reconcile \/ Cancel
  \/ Poll \/ Arrive

Spec == Init /\ [][Next]_vars
------------------------------------------------------------------------------
TypeOK ==
  /\ \A t \in Threads : Len(turns[t]) <= MaxTurns
  /\ ghosts \subseteq Submission
  /\ currentId \in Threads \union {None} /\ (Shown => currentId # None)
  /\ {retryRequest, pending, completed} \subseteq Submission \union {None}
  /\ poll \in {"none", "idle", "asked", "lost", "missing", "absent", "running", "terminal", "expired"}
  /\ load.for \in {"none", "view", "discard", "complete", "retry", "recover"}
  /\ loading = (load.for \notin {"none", "recover"})
  /\ post # NoPost => sending /\ post.saved = retryRequest
  /\ poll \notin {"none"} => retryRequest # None

(***************************************************************************)
(* The turns shown are the first turns of the thread, each once and in the *)
(* order of the server, however answers, replays, recoveries and switches  *)
(* of the thread interleave (chatSubmission.ts 77-89; the claims of        *)
(* useChat.spec.ts 23 and 172).                                            *)
(***************************************************************************)
ShownInOrder ==
  Shown => /\ Len(thread) <= Len(turns[currentId])
           /\ \A i \in DOMAIN thread : thread[i].req = turns[currentId][i].req

(***************************************************************************)
(* A question shown as waiting can always be repeated as it was: nothing   *)
(* forgets its identifier while it is on the screen (useChat.spec.ts 57).  *)
(***************************************************************************)
PendingCanRetry == pending # None => retryRequest = pending

(***************************************************************************)
(* A question is called completed only when the server has finished it,    *)
(* and its turn is then shown (chatSubmission.ts 39-64, 77-89).            *)
(***************************************************************************)
CompletedIsShown ==
  completed # None /\ Shown /\ currentId = completed.thread =>
    /\ Found(thread, completed.req)
    /\ Found(turns[currentId], completed.req)

\* What the tab shows of its questions.
ChatInv == TypeOK /\ ShownInOrder /\ PendingCanRetry /\ CompletedIsShown

(***************************************************************************)
(* While its thread is open, a question whose fate is unknown can be       *)
(* repeated with the same identifier: conflicts, reloads, expired leases   *)
(* and lost replies do not forget it.  It goes when it was refused, when   *)
(* it is in the history, when the user lets go of it, or when a post, a    *)
(* poll or a recovery is told that the thread is not there (useChat.ts     *)
(* 24, 65-87, useChat.spec.ts 57, useChat.progress.spec.ts 107).           *)
(***************************************************************************)
OpenQuestionKept ==
  [][ (retryRequest # None /\ retryRequest' = None /\ currentId' = retryRequest.thread) =>
        \/ post.reply \in {"refused", "missing"} \/ poll = "missing"
        \/ load.for = "discard" \/ load = [NoLoad EXCEPT !.for = "recover", !.reply = "lost"]
        \/ Found(turns[retryRequest.thread], retryRequest.req) ]_vars
==============================================================================
