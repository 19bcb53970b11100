------------------------------ MODULE MCChildren ------------------------------
(***************************************************************************)
(* The child processes of the API and what ends them: the embedding worker *)
(* (InferenceRuntime), the document parsers (ParserSupervision), the model *)
(* at a shutdown (ModelSupervisor) and the status page once the troubles   *)
(* are over (SystemReadiness).  They have no state in common and share a   *)
(* run: each behaviour is about one part.                                  *)
(***************************************************************************)
EXTENDS MCModel

CONSTANTS Waiters, MaxBatches, MaxJobs, \* of the inference runtime
          Kids, MaxChunks, MaxWritten   \* of the parsers

VARIABLES closed, slot, waiter, future, worker, child, watcher, jobs,
          contained, root, kid, sampled, written, writer, reader, expired, sup, outcome

inference == <<closed, slot, waiter, future, worker, child, watcher, jobs>>
parser == <<contained, root, kid, sampled, written, writer, reader, expired, sup, outcome>>
children == <<part, inference, parser, vars, readiness>>

Slot == INSTANCE InferenceRuntime
Parser == INSTANCE ParserSupervision

ASSUME SlotAssumption == Slot!RuntimeAssumption
ASSUME ParserAssumption == Parser!SupervisionAssumption

On(name) == part = name

ChildrenInit ==
  /\ part \in {"embedding", "parser", "model", "page"}
  /\ Slot!Init /\ Parser!Init /\ Init /\ Page!Init
  /\ ~On("model") => file = NoFile
  /\ ~On("page") => online
  /\ ~On("parser") => contained

Embeds == On("embedding") /\ Slot!Next /\ UNCHANGED <<part, parser, vars, readiness>>
Parses == On("parser") /\ Parser!Next /\ UNCHANGED <<part, inference, vars, readiness>>
Supervises == On("model") /\ Next /\ UNCHANGED <<part, inference, parser, readiness>>
Polls == On("page") /\ Page!Next /\ UNCHANGED <<part, inference, parser, vars>>

\* Threads run; the watcher's minute passes; Windows ends a terminated process at last.
EmbeddingRuns ==
  /\ WF_inference(On("embedding") /\ Slot!Work)
  /\ WF_inference(On("embedding") /\ Slot!Expire)
  /\ WF_inference(On("embedding") /\ Slot!Terminate)
  /\ WF_inference(On("embedding") /\ child = "stuck" /\ Slot!Exit)
  /\ \A w \in Waiters : WF_inference(On("embedding") /\ Slot!Return(w))

Docx == On("parser") /\ contained

\* Threads run, the deadline passes; a thread's write ends when its reader is gone;
\* what was killed dies.
ParserRuns ==
  /\ WF_parser(Docx /\ Parser!Supervise)
  /\ WF_parser(Docx /\ Parser!Read)
  /\ WF_parser(Docx /\ Parser!EndOfFile)
  /\ WF_parser(Docx /\ Parser!Expire)
  /\ WF_parser(Docx /\ ~Parser!PipeOpen /\ Parser!WriterDone)
  /\ \A k \in Kids :
       WF_parser(Docx /\ sup \in {"check", "join"} /\ k \in Parser!Owned /\ Parser!ExitKid(k))

\* The threads and the event loop of a live process run on; engines answer or exit.
ModelRuns ==
  /\ \A t \in Threads : WF_vars(On("model") /\ ThreadStep(t))
  /\ \A p \in Apis : WF_vars(On("model") /\ RequestStep(p))
  /\ \A e \in Engines :
       /\ WF_vars(On("model") /\ Answer(e))
       /\ WF_vars(On("model") /\ engine[e] = "dying" /\ Die(e))

\* The page polls, awaits end, generations end, time passes.
StatusRuns ==
  /\ WF_readiness(On("page") /\ Page!Tick)
  /\ \A c \in Callers :
       /\ WF_readiness(On("page") /\ Page!Ask(c))
       /\ SF_readiness(On("page") /\ Page!Begin(c))
       /\ SF_readiness(On("page") /\ Page!Fresh(c))
       /\ WF_readiness(On("page") /\ at[c] # "waiting" /\ Page!Probe(c))
  /\ \A g \in Chats : WF_readiness(On("page") /\ chat[g] # "idle" /\ Page!Generate(g))

ChildrenSpec ==
  /\ ChildrenInit
  /\ [][Embeds \/ Parses \/ Supervises \/ Polls]_children
  /\ EmbeddingRuns /\ ParserRuns /\ ModelRuns /\ StatusRuns

(***************************************************************************)
(* At most one computation does physical work, with at most one child, a   *)
(* thread that survives its waiter keeps the slot, and whoever has been    *)
(* answered has freed it: capacity is never given to a second computation  *)
(* under the first.                                                        *)
(***************************************************************************)
SlotInv == Slot!SlotInv

(***************************************************************************)
(* A parser's response that is handed on is final and all that the parser  *)
(* wrote, unless the reader failed; the parser outlives no return, and     *)
(* nothing of its own tree one that does not say 503: with a group or job  *)
(* the children that no sample ever saw included (DOCX), otherwise those   *)
(* that one did (PDF).                                                     *)
(***************************************************************************)
NothingIsLeft == Parser!NothingIsLeft

(***************************************************************************)
(* Supervision of a contained tree ends, whatever the parser does with its *)
(* pipes: a parser blocked on its output, one that never reads, one that   *)
(* never exits, children that hold on to the pipe.                         *)
(***************************************************************************)
ParsingEnds == Docx ~> sup = "returned"

(***************************************************************************)
(* No call for a child process waits for good: neither one that queues for *)
(* the embedding slot while others are cancelled and workers die, nor the  *)
(* supervision of a parser.                                                *)
(***************************************************************************)
CallsEnd == Slot!WorkEnds /\ ParsingEnds

(***************************************************************************)
(* When the troubles end the page says ready again, whichever probes were  *)
(* cut short and whatever they left in the cache.                          *)
(***************************************************************************)
Recovers == Page!Recovers
===============================================================================
