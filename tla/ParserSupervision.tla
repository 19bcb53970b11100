-------------------------- MODULE ParserSupervision --------------------------
(***************************************************************************)
(* The supervision of a parser process: a writer and a reader thread move  *)
(* the document in and the response out, while the supervisor polls for    *)
(* the end, the deadline and the memory of the process tree, and reaps     *)
(* the tree before it returns.  The parser may crash, loop, stop reading,  *)
(* answer without end, and leave children behind that keep its pipe open.  *)
(***************************************************************************)
EXTENDS Naturals, FiniteSets

CONSTANTS Kids,      \* processes that the parser may start
          MaxChunks, \* MAX_RESPONSE_BYTES in chunks
          MaxWritten \* bound on what the parser writes, in chunks

SupervisionAssumption == {MaxChunks, MaxWritten} \subseteq Nat

VARIABLES contained, \* which parser: DOCX, whose tree is one group or job, or PDF; never changes
          root,    \* the parser: "running", "exited" with a status, or "killed"
          kid,     \* its children
          sampled, \* children that the supervisor has seen
          written, \* chunks the parser has written
          writer,  \* the input thread: "off", "writing", "done"
          reader,  \* the output thread: [at, data, failed]
          expired, \* the deadline has passed
          sup,     \* where the supervisor is
          outcome  \* what it returns

vars == <<contained, root, kid, sampled, written, writer, reader, expired, sup, outcome>>
parser == <<contained, root, kid, written>>

Init ==
  /\ contained \in BOOLEAN
  /\ root = "running" /\ kid = [k \in Kids |-> "none"] /\ written = 0
  /\ sampled = {}
  /\ writer = "off" /\ reader = [at |-> "off", data |-> 0, failed |-> FALSE]
  /\ expired = FALSE
  /\ sup = "start" /\ outcome = "none"

Living == {k \in Kids : kid[k] = "alive"}
PipeOpen == root = "running" \/ Living # {}

------------------------------------------------------------------------------
(* The parser and its tree.                                                *)

Fork(k) ==
  /\ root = "running" /\ kid[k] = "none"
  /\ kid' = [kid EXCEPT ![k] = "alive"]
  /\ UNCHANGED <<contained, root, written, sampled, writer, reader, expired, sup, outcome>>

\* A full pipe blocks the parser until the reader takes a chunk.
Write ==
  /\ root = "running" /\ written < MaxWritten
  /\ written <= reader.data
  /\ written' = written + 1
  /\ UNCHANGED <<contained, root, kid, sampled, writer, reader, expired, sup, outcome>>

\* An answer is complete when its parser says so by its status.
ExitRoot ==
  /\ root = "running"
  /\ root' \in {"answered", "failed"}
  /\ UNCHANGED <<contained, kid, written, sampled, writer, reader, expired, sup, outcome>>

ExitKid(k) ==
  /\ kid[k] = "alive"
  /\ kid' = [kid EXCEPT ![k] = "dead"]
  /\ UNCHANGED <<contained, root, written, sampled, writer, reader, expired, sup, outcome>>

------------------------------------------------------------------------------
(* The two threads.                                                        *)

\* The input is taken, or the pipe breaks because nobody is left to read it.
WriterDone ==
  /\ writer = "writing"
  /\ writer' = "done"
  /\ UNCHANGED <<parser, sampled, reader, expired, sup, outcome>>

TooMuch(chunks) == chunks > MaxChunks

\* A chunk too many fails the output and ends the thread.
Read ==
  /\ reader.at = "reading" /\ reader.data < written
  /\ reader' = IF TooMuch(reader.data + 1)
               THEN [reader EXCEPT !.failed = TRUE, !.at = "done"]
               ELSE [reader EXCEPT !.data = @ + 1]
  /\ UNCHANGED <<parser, sampled, writer, expired, sup, outcome>>

\* The pipe cannot be read.
BreakOff ==
  /\ reader.at = "reading"
  /\ reader' = [reader EXCEPT !.failed = TRUE, !.at = "done"]
  /\ UNCHANGED <<parser, sampled, writer, expired, sup, outcome>>

EndOfFile ==
  /\ reader.at = "reading" /\ reader.data = written /\ ~PipeOpen
  /\ reader' = [reader EXCEPT !.at = "done"]
  /\ UNCHANGED <<parser, sampled, writer, expired, sup, outcome>>

------------------------------------------------------------------------------
(* run_worker and _supervise.                                              *)

\* The job, the monitor or a thread could not be had.  A DOCX parser is reaped anyway;
\* a PDF parser is left to end by itself, its pipes closed.
Start ==
  /\ sup = "start"
  /\ \/ /\ writer' = "writing" /\ reader' = [reader EXCEPT !.at = "reading"]
        /\ sup' = "poll" /\ UNCHANGED outcome
     \/ /\ reader' \in {reader, [reader EXCEPT !.at = "reading"]}
        /\ IF contained
           THEN sup' = "collect" /\ outcome' = "503"
           ELSE sup' = "abandoned" /\ outcome' \in {"503", "500"}
        /\ UNCHANGED writer
  /\ UNCHANGED <<parser, sampled, expired>>

\* Only a living parser leads to its children.
Seen == IF root = "running" THEN sampled \union Living ELSE sampled

(* A round asks four things in turn, and the threads run on in between.    *)

AskOutput ==
  /\ sup = "poll"
  /\ IF reader.failed \/ expired
     THEN sup' = "collect" /\ outcome' = "422"
     ELSE sup' = "status" /\ UNCHANGED outcome
  /\ UNCHANGED <<parser, sampled, writer, reader, expired>>

AskStatus ==
  /\ sup = "status"
  /\ sup' = IF root = "running" THEN "memory" ELSE "end"
  /\ UNCHANGED <<parser, sampled, writer, reader, expired, outcome>>

\* Mutant: the parser's exit is enough.
EndedByExit == TRUE
Ended == reader.at = "done"

AskEnd ==
  /\ sup = "end"
  /\ IF Ended
     THEN sup' = "collect" /\ outcome' = IF root = "answered" THEN "answer" ELSE "failure"
     ELSE sup' = "memory" /\ UNCHANGED outcome
  /\ UNCHANGED <<parser, sampled, writer, reader, expired>>

\* Too much of it, or it could not be measured.
AskMemory ==
  /\ sup = "memory"
  /\ sampled' = Seen
  /\ \/ sup' = "poll" /\ UNCHANGED outcome
     \/ sup' = "collect" /\ outcome' \in {"422", "503"}
  /\ UNCHANGED <<parser, writer, reader, expired>>

Poll == AskOutput \/ AskStatus \/ AskEnd \/ AskMemory

\* The last look at the tree can fail: a DOCX parser is stopped all the same.
Collect ==
  /\ sup = "collect"
  /\ \/ sampled' = Seen /\ sup' = "kill" /\ outcome' = outcome
     \/ /\ sampled' \in {sampled, Seen} /\ outcome' = "503"
        /\ sup' = IF contained THEN "kill" ELSE "abandoned"
  /\ UNCHANGED <<parser, writer, reader, expired>>

Owned == IF contained THEN Kids ELSE sampled

\* A killed process dies at once, or when the system lets it.
Kill ==
  /\ sup = "kill"
  /\ root' = IF root = "running" THEN "killed" ELSE root
  /\ \E late \in SUBSET (Living \intersect Owned) :
       kid' = [k \in Kids |-> IF k \in Owned /\ kid[k] = "none" THEN "dead"
                              ELSE IF k \in (Living \intersect Owned) \ late THEN "dead" ELSE kid[k]]
  /\ sup' = "check"
  /\ UNCHANGED <<contained, written, sampled, writer, reader, expired, outcome>>

\* A child of a PDF parser that may not be killed ends its clean-up there.
GiveUp ==
  /\ sup = "kill" /\ ~contained /\ Living \intersect sampled # {}
  /\ \E killed \in SUBSET (Living \intersect sampled) :
       kid' = [k \in Kids |-> IF k \in killed THEN "dead" ELSE kid[k]]
  /\ sup' = "abandoned" /\ outcome' = "503"
  /\ UNCHANGED <<contained, root, written, sampled, writer, reader, expired>>

\* An abandoned parser is awaited, not killed, and the threads are not joined.
Await ==
  /\ sup = "abandoned" /\ root # "running"
  /\ sup' = "returned"
  /\ UNCHANGED <<parser, sampled, writer, reader, expired, outcome>>

\* Three seconds for the tree to disappear, or for what was seen of it.
Alive == IF contained THEN Living ELSE Living \intersect sampled

Check ==
  /\ sup = "check"
  /\ outcome' = IF Alive # {} THEN "503" ELSE outcome
  /\ sup' = "join"
  /\ UNCHANGED <<parser, sampled, writer, reader, expired>>

\* Both threads are joined before anything is returned.
Join ==
  /\ sup = "join"
  /\ writer \in {"off", "done"} /\ reader.at \in {"off", "done"}
  /\ sup' = "returned"
  /\ UNCHANGED <<parser, sampled, writer, reader, expired, outcome>>

Expire ==
  /\ ~expired
  /\ expired' = TRUE
  /\ UNCHANGED <<parser, sampled, writer, reader, sup, outcome>>

Supervise ==
  Start \/ Poll \/ Collect \/ Kill \/ GiveUp \/ Await \/ Check \/ Join

Next ==
  \/ \E k \in Kids : Fork(k) \/ ExitKid(k)
  \/ Write \/ ExitRoot
  \/ WriterDone \/ Read \/ BreakOff \/ EndOfFile
  \/ Supervise \/ Expire

Spec == Init /\ [][Next]_vars
------------------------------------------------------------------------------
TypeOK ==
  /\ contained \in BOOLEAN
  /\ root \in {"running", "answered", "failed", "killed"}
  /\ kid \in [Kids -> {"none", "alive", "dead"}]
  /\ sampled \subseteq Kids
  /\ written \in 0..MaxWritten
  /\ writer \in {"off", "writing", "done"}
  /\ reader \in [at : {"off", "reading", "done"}, data : 0..MaxChunks, failed : BOOLEAN]
  /\ expired \in BOOLEAN
  /\ sup \in {"start", "poll", "status", "end", "memory", "collect", "kill", "abandoned",
             "check", "join", "returned"}
  /\ outcome \in {"none", "answer", "failure", "422", "500", "503"}

(***************************************************************************)
(* A response that is handed on is final: the process is over and nobody   *)
(* reads on.  It is all that the parser wrote, unless the reader failed,   *)
(* which a round notices only if it comes before the round does            *)
(* (docx_process.py 144-149, pdf_process.py 106-111).                      *)
(***************************************************************************)
WholeAnswer ==
  outcome \in {"answer", "failure"} =>
    /\ root # "running" /\ reader.at = "done"
    /\ reader.data = written \/ reader.failed

(***************************************************************************)
(* Nothing of the parser's own tree outlives a return that does not say    *)
(* 503: with a group or job the children that no sample ever saw included  *)
(* (docx_process.py 163-217), otherwise those that one did                 *)
(* (pdf_process.py 115-129).  The parser itself outlives no return.        *)
(***************************************************************************)
NoSurvivor ==
  sup = "returned" =>
    /\ root # "running"
    /\ outcome # "503" => Living \intersect (IF contained THEN Kids ELSE sampled) = {}

\* What a caller of the supervision relies on.
NothingIsLeft == TypeOK /\ WholeAnswer /\ NoSurvivor

(***************************************************************************)
(* Supervision of a contained tree ends, whatever the parser does with its *)
(* pipes: a parser blocked on its output, one that never reads, one that   *)
(* never exits, children that hold on to the pipe.                         *)
(***************************************************************************)
Ends == <>(sup = "returned")
==============================================================================
