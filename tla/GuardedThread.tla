---------------------------- MODULE GuardedThread ----------------------------
(***************************************************************************)
(* What a host of the guard promises about one thread: an answer enters    *)
(* the log, and is shown, only in an instant in which its owner may read   *)
(* every source of it.                                                     *)
(***************************************************************************)
EXTENDS Sequences

CONSTANT Sources

VARIABLES readable, \* what the owner may read now
          log,      \* the sources of each published answer
          shown     \* the sources of the answer shown last; none if it was hidden

vars == <<readable, log, shown>>

Init == readable = {} /\ log = <<>> /\ shown = {}

Policy == readable' \in SUBSET Sources /\ UNCHANGED <<log, shown>>

Publish ==
  /\ \E refs \in (SUBSET readable) \ {{}} : log' = Append(log, refs)
  /\ UNCHANGED <<readable, shown>>

Show ==
  /\ log # <<>> /\ log[Len(log)] \subseteq readable
  /\ shown' = log[Len(log)]
  /\ UNCHANGED <<readable, log>>

Hide == shown' = {} /\ UNCHANGED <<readable, log>>

Next == Policy \/ Publish \/ Show \/ Hide

Spec == Init /\ [][Next]_vars
==============================================================================
