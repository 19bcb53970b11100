----------------------------- MODULE EvidenceGuard -----------------------------
(***************************************************************************)
(* The guard package: it prepares a model's context from candidate chunks  *)
(* and prior turns, and authorizes the release of an answer made from it.  *)
(* Each question to the policy port is an await: access may change between *)
(* any two, the port may fail or answer inconsistently, and the host holds *)
(* the prepared context in the meantime.                                   *)
(***************************************************************************)
EXTENDS Naturals, Sequences, SequencesExt

CONSTANTS Refs,                \* sources
          MaxChunks, MaxTurns, \* bounds on the inputs
          max_context_tokens, max_prior_turns,
          MaxRevision          \* bound on the policy's changes

GuardAssumption ==
  {MaxChunks, MaxTurns, max_context_tokens, max_prior_turns, MaxRevision} \subseteq Nat

VARIABLES policy,   \* what each revision allowed the principal; the last is current
          standing, \* of the principal: owner of the thread, active, or signed out
          chunks, turns, \* the candidates, then those chosen of them
          window,   \* turns still to ask about
          at,       \* where the guard is
          expected, \* revision of the first snapshot
          prepared, \* the context: chunks, history, revision and fingerprint
          answer    \* the last decision

world == <<policy, standing>>
vars == <<policy, standing, chunks, turns, window, at, expected, prepared, answer>>

Chunks == [ref : Refs, genuine : BOOLEAN]
Turns == SUBSET Refs   \* the sources of a turn; none when its provenance is incomplete
revision == Len(policy)
Allowed == policy[revision]
Active == standing # "gone"
Body(c, h) == [chunks |-> c, history |-> h]
Empty == Body(<<>>, <<>>)
Nothing == [body |-> Empty, revision |-> 0, fingerprint |-> Empty]

Init ==
  /\ policy \in [1..1 -> SUBSET Refs]
  /\ standing = "owner"
  /\ chunks = <<>> /\ turns = <<>> /\ window = <<>>
  /\ at = "idle" /\ expected = 0
  /\ prepared = Nothing /\ answer = "none"

ChunkRefs(c) == {x.ref : x \in Range(c)}
HistoryRefs(h) == UNION Range(h)
BodyRefs(b) == ChunkRefs(b.chunks) \union HistoryRefs(b.history)

------------------------------------------------------------------------------
(* The host's policy.                                                      *)

Change ==
  /\ at # "idle" /\ revision <= MaxRevision
  /\ \E allowed \in SUBSET Refs : policy' = Append(policy, allowed)
  /\ UNCHANGED <<standing, chunks, turns, window, at, expected, prepared, answer>>

LoseStanding ==
  /\ standing' \in {"active", "gone"} /\ standing = "owner"
  /\ UNCHANGED <<policy, chunks, turns, window, at, expected, prepared, answer>>

Decide(reason) ==
  /\ answer' = reason
  /\ at' = "decided"

------------------------------------------------------------------------------
(* prepare_context.                                                        *)

Call(c, t) ==
  /\ chunks' = c /\ turns' = t
  /\ at' = "prepare"
  /\ UNCHANGED <<world, window, expected, prepared, answer>>

\* Allowed candidates, each source once, in rank order.
Kept == {i \in DOMAIN chunks : chunks[i].ref \in Allowed \ {chunks[j].ref : j \in 1..(i - 1)}}
Rank(i) == Cardinality({j \in Kept : j <= i})
Chosen == [n \in 1..Cardinality(Kept) |-> chunks[CHOOSE i \in Kept : Rank(i) = n]]

Newest(t) == SubSeq(t, IF Len(t) > max_prior_turns THEN Len(t) - max_prior_turns + 1 ELSE 1, Len(t))

Prepare ==
  /\ at = "prepare"
  /\ \/ /\ Decide("policy_unavailable")
        /\ UNCHANGED <<chunks, turns, window, expected>>
     \/ /\ ~Active /\ Decide("denied")
        /\ UNCHANGED <<chunks, turns, window, expected>>
     \/ /\ Active /\ Decide("invalid_provenance")
        /\ UNCHANGED <<chunks, turns, window, expected>>
     \/ /\ Active
        /\ \A x \in Range(chunks) : x.ref \in Allowed => x.genuine
        /\ expected' = revision
        /\ chunks' = Chosen
        /\ window' = Newest(turns)
        /\ turns' = <<>>
        /\ at' = "history" /\ UNCHANGED answer
  /\ UNCHANGED <<world, prepared>>

\* Mutant: a later revision will do for the history.
CurrentAnyway == TRUE
Current == revision = expected

Keep(chosen) ==
  /\ turns' = chosen
  /\ window' = Tail(window)
  /\ UNCHANGED <<at, answer>>

\* filter_history asks about one turn after the other.
AskTurn ==
  /\ at = "history" /\ window # <<>>
  /\ \/ Head(window) = {} /\ Keep(turns)
     \/ /\ Head(window) # {}
        /\ \/ Decide("policy_unavailable")
           \/ ~Active /\ Decide("denied")
           \/ Active /\ ~Current /\ Decide("policy_unavailable")
        /\ UNCHANGED <<turns, window>>
     \/ /\ Head(window) # {} /\ Active /\ Current
        /\ \/ Keep(turns)  \* denied, or no valid partition
           \/ Head(window) \subseteq Allowed /\ Keep(Append(turns, Head(window)))
  /\ UNCHANGED <<world, chunks, expected, prepared>>

\* A chunk and a pair cost one token each; whole pairs go first, the oldest of them first.
Cost(b) == Len(b.chunks) + Len(b.history)

Shorter(b) == IF b.history # <<>> THEN Body(b.chunks, Tail(b.history))
              ELSE Body(Front(b.chunks), <<>>)

Bodies == [chunks : Seq(Chunks), history : Seq(Turns)]
bound_context[b \in Bodies] ==
  IF Cost(b) <= max_context_tokens THEN b ELSE bound_context[Shorter(b)]

Bind ==
  /\ at = "history" /\ window = <<>>
  /\ LET body == bound_context[Body(chunks, turns)] IN
     prepared' = [body |-> body, revision |-> expected, fingerprint |-> body]
  /\ Decide("prepared")
  /\ UNCHANGED <<world, chunks, turns, window, expected>>

------------------------------------------------------------------------------
(* authorize_release.                                                      *)

\* What the host hands back is not what it was given.
Tamper ==
  /\ answer = "prepared"
  /\ \E r \in Refs :
       prepared' = [prepared EXCEPT !.body.chunks = Append(@, [ref |-> r, genuine |-> FALSE])]
  /\ answer' = "tampered"
  /\ UNCHANGED <<world, chunks, turns, window, at, expected>>

Genuine(b) == \A x \in Range(b.chunks) : x.genuine

\* Mutant: a context that is still allowed may be of an older revision.
FreshEnough == TRUE
Fresh == prepared.revision = revision

Releasable ==
  /\ BodyRefs(prepared.body) # {}
  /\ prepared.fingerprint = prepared.body

Release ==
  /\ answer \in {"prepared", "tampered"}
  /\ IF ~Releasable THEN answer' = "invalid_provenance"
     ELSE \/ answer' = "policy_unavailable"
          \/ standing # "owner" /\ answer' = "denied"
          \/ /\ standing = "owner"
             /\ \/ answer' = "invalid_provenance"
                \/ ~Fresh /\ answer' = "stale_revision"
                \/ /\ Fresh /\ BodyRefs(prepared.body) \subseteq Allowed
                   /\ Genuine(prepared.body)
                   /\ answer' = "allowed"
                \/ /\ Fresh /\ ~(BodyRefs(prepared.body) \subseteq Allowed)
                   /\ answer' = "denied"
  /\ UNCHANGED <<world, chunks, turns, window, at, expected, prepared>>

\* authorize_read: all or nothing.
Read(refs) ==
  /\ at = "idle"
  /\ \/ refs # {} /\ Decide("policy_unavailable")
     \/ (refs = {} \/ Active) /\ Decide("invalid_provenance")
     \/ refs # {} /\ ~(Active /\ refs \subseteq Allowed) /\ Decide("denied")
     \/ refs # {} /\ Active /\ refs \subseteq Allowed /\ Decide("readable")
  /\ UNCHANGED <<world, chunks, turns, window, expected, prepared>>

Next ==
  \/ Change \/ LoseStanding
  \/ /\ at = "idle"
     /\ \E c \in BoundedSeq(Chunks, MaxChunks), t \in BoundedSeq(Turns, MaxTurns) : Call(c, t)
  \/ Prepare \/ AskTurn \/ Bind \/ Tamper \/ Release
  \/ \E refs \in SUBSET Refs : Read(refs)

Spec == Init /\ [][Next]_vars
------------------------------------------------------------------------------
TypeOK ==
  /\ policy \in Seq(SUBSET Refs) /\ revision <= MaxRevision + 1
  /\ standing \in {"owner", "active", "gone"}
  /\ chunks \in Seq(Chunks) /\ Len(chunks) <= MaxChunks
  /\ answer = "prepared" => Cardinality(ChunkRefs(prepared.body.chunks)) = Len(prepared.body.chunks)
  /\ {turns, window} \subseteq Seq(Turns) /\ Len(turns) + Len(window) <= MaxTurns
  /\ at \in {"idle", "prepare", "history", "decided"}
  /\ expected \in 0..revision
  /\ prepared.revision \in 0..revision
  /\ answer \in {"none", "prepared", "tampered", "readable", "denied", "policy_unavailable",
                 "invalid_provenance", "stale_revision", "allowed"}

(***************************************************************************)
(* A prepared context is of one revision: all its chunks and all sources   *)
(* of its history were allowed then, although each was asked about at a    *)
(* time of its own (guard.py 38-88, history.py 10-40).                     *)
(***************************************************************************)
OneRevision ==
  answer = "prepared" => BodyRefs(prepared.body) \subseteq policy[prepared.revision]

(***************************************************************************)
(* The history kept is the newest part of what passed, in order, never     *)
(* filled up from outside the window, and no pair is dropped that fits     *)
(* (context.py 86-110, history.py 20).                                     *)
(***************************************************************************)
NewestHistory ==
  answer = "prepared" =>
    LET h == prepared.body.history IN
    /\ IsSuffix(h, turns) /\ Len(h) <= max_prior_turns
    /\ IsPrefix(prepared.body.chunks, chunks)
    /\ h # turns => /\ prepared.body.chunks = chunks \/ h = <<>>
                    /\ Cost(prepared.body) = max_context_tokens

\* What the guard hands out for a model to read.
GuardInv == TypeOK /\ OneRevision /\ NewestHistory

(***************************************************************************)
(* An answer is released only to an owner whose access, at the revision it *)
(* was prepared under and still in force, covers every source of the       *)
(* unaltered and canonical context (guard.py 90-142).                      *)
(***************************************************************************)
ReleaseIsCurrent ==
  [][(answer # "allowed" /\ answer' = "allowed") =>
       /\ standing = "owner" /\ BodyRefs(prepared.body) \subseteq Allowed
       /\ prepared.revision = revision
       /\ Genuine(prepared.body) /\ answer = "prepared"]_vars
==============================================================================
