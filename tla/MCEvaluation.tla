---------------------------- MODULE MCEvaluation ----------------------------
(***************************************************************************)
(* An instance of the evaluation: three seeded objects, and the cases of   *)
(* at most MaxActions actions over two documents.                          *)
(***************************************************************************)
EXTENDS Evaluation, FiniteSets, TLC

CONSTANTS root, document, grant,  \* an administrator, a document, and the access to it
          d1, d2,                 \* the documents of the cases
          MaxActions

ThreeKinds == [k \in Keys |-> CASE k = root -> "user" [] k = document -> "document" [] k = grant -> "grant"]
ThreeNeeds == [k \in Keys |-> IF k = grant THEN {root, document} ELSE {}]

------------------------------------------------------------------------------
Plain(kind) == [kind |-> kind, doc |-> None, ask |-> 0, barrier |-> "none"]
On(kind, d) == [Plain(kind) EXCEPT !.doc = d]

\* What a case may contain: changes and faults of the first document; a change
\* beside the first question, at either boundary.
Actions ==
  {Plain(k) : k \in {"ask", "end_session", "outage", "read_thread", "read_documents"}}
  \union {On("revoke", d1), On("replace", d1), On("tamper", d2)}
  \union {On("tamper", <<None, 0>>)}
  \union {[On("read_source", d1) EXCEPT !.ask = 1]}
  \union {[On("revoke", d1) EXCEPT !.ask = 1, !.barrier = b] :
            b \in {"model_generated", "release_committed"}}

Valid(c) ==
  /\ \A i \in DOMAIN c : c[i].ask # 0 => c[1].kind = "ask" /\ i > 1
  /\ Cardinality({i \in DOMAIN c : c[i].kind \in {"revoke", "replace"}}) <= 1
  /\ Cardinality({i \in DOMAIN c : c[i].kind = "ask"}) <= 2
TrialCases == {c \in UNION {[1..n -> Actions] : n \in 1..MaxActions} : Valid(c)}

------------------------------------------------------------------------------
\* Either arm may be the first; the longest cases begin with the baseline.
MCInit == EvaluationInit /\ (Len(case) = MaxActions => order = <<"baseline", "guarded">>)

MCSpec == MCInit /\ [][EvaluationNext]_everything

Symmetric == Permutations(Commands)
=============================================================================
