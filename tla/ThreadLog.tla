----------------------------- MODULE ThreadLog -----------------------------
(***************************************************************************)
(* What a conversation promises its clients: an append-only log of finished*)
(* requests, each in it at most once, at most one more request open, and   *)
(* no announcement the log does not bear out.  An open request whose lease *)
(* has lapsed is doomed: it can only be logged as interrupted, so it may   *)
(* be announced as such before anyone logs it.                             *)
(***************************************************************************)
EXTENDS Integers, Sequences

CONSTANTS Requests, Outcomes

VARIABLES
    log,        \* finished requests with their outcomes, oldest first
    open,       \* the request being worked on, if any
    doomed,     \* its lease has lapsed
    announced   \* outcomes clients have been shown

vars == <<log, open, doomed, announced>>

Entry(r, outcome) == [request |-> r, outcome |-> outcome]
Logged(r) == \E n \in 1..Len(log) : log[n].request = r

Init ==
    /\ log = <<>>
    /\ open = {}
    /\ doomed = FALSE
    /\ announced = [r \in Requests |-> {}]

\* The log once the doomed request, if any, is written off.
WrittenOff == IF doomed THEN Append(log, Entry(CHOOSE r \in open : TRUE, "interrupted")) ELSE log
Free == open = {} \/ doomed
Unused(r) == r \notin open /\ ~Logged(r)

WriteOff ==
    /\ doomed
    /\ log' = WrittenOff
    /\ open' = {}
    /\ doomed' = FALSE
    /\ UNCHANGED announced

Begin(r) ==
    /\ Free /\ Unused(r)
    /\ log' = WrittenOff
    /\ open' = {r}
    /\ doomed' = FALSE
    /\ UNCHANGED announced

Lapse == open # {} /\ ~doomed /\ doomed' = TRUE /\ UNCHANGED <<log, open, announced>>

Announce(r, outcome) == announced' = [announced EXCEPT ![r] = @ \cup {outcome}]

\* The open request ends, and its handler tells the client.
Finish(outcome) ==
    \E r \in open :
        /\ doomed => outcome = "interrupted"
        /\ log' = Append(log, Entry(r, outcome))
        /\ open' = {}
        /\ doomed' = FALSE
        /\ Announce(r, outcome)

\* Help is logged at once.
Assist(r) ==
    /\ Free /\ Unused(r)
    /\ log' = Append(WrittenOff, Entry(r, "assistant_help"))
    /\ open' = {}
    /\ doomed' = FALSE
    /\ Announce(r, "assistant_help")

Known(r) == {log[n].outcome : n \in {m \in 1..Len(log) : log[m].request = r}}
                \cup (IF r \in open /\ doomed THEN {"interrupted"} ELSE {})

\* Readers learn only what is settled.
Read ==
    /\ \A r \in Requests : announced[r] \subseteq announced'[r]
                            /\ announced'[r] \subseteq announced[r] \cup Known(r)
    /\ announced' \in [Requests -> SUBSET Outcomes]
    /\ UNCHANGED <<log, open, doomed>>

Next ==
    \/ WriteOff \/ Lapse \/ Read
    \/ \E r \in Requests : Begin(r) \/ Assist(r)
    \/ \E outcome \in Outcomes : Finish(outcome)

Spec == Init /\ [][Next]_vars
============================================================================
