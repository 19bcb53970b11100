-------------------------------- MODULE DemoSeed --------------------------------
(***************************************************************************)
(* Seeding the demonstration database: an operator's command creates       *)
(* accounts, documents and access in steps, each of which commits together *)
(* with its entry in a ledger, so that an interrupted command is resumed   *)
(* by the next one.  Commands may overlap, crash between any two steps,    *)
(* and lose the connection that holds their advisory lock; meanwhile the   *)
(* administrators edit what was seeded and the private inputs change.      *)
(*                                                                         *)
(* A dry run reads and reports only; the commands here are applies.        *)
(***************************************************************************)
EXTENDS Naturals

CONSTANTS Commands, Keys, Kind, Admin, \* Kind[k]: "user", "role", "document", "membership" or "grant"
          Needs,                        \* Needs[k]: the keys whose objects k connects
          FirstKeys,                    \* the keys of the first inputs
          None, Own, Foreign,           \* instances
          MaxEdits, MaxInputs           \* bounds

SeedAssumption ==
  /\ Kind \in [Keys -> {"user", "role", "document", "membership", "grant"}]
  /\ Admin \in Keys /\ Kind[Admin] = "user"
  /\ Needs \in [Keys -> SUBSET Keys]
  /\ Admin \in FirstKeys /\ FirstKeys \subseteq Keys /\ \A k \in FirstKeys : Needs[k] \subseteq FirstKeys
  /\ {MaxEdits, MaxInputs} \subseteq Nat /\ None \notin Commands \union {Own, Foreign}

VARIABLES schema, marker,       \* of the database: migrated, and whose it is
          rows, ledger, ids,    \* the objects, the completed steps, identities given out
          journal, additions,   \* the private credentials: a first file, and one for each later user
          accounts,             \* the password of each account
          input,                \* the private inputs now: keys, and the digest of each document
          lock,                 \* who holds SEED_LOCK
          run,                  \* the commands
          edits,                \* how often an administrator or the operator changed something
          removed               \* seeded access that an administrator took away

database == <<schema, marker, rows, ledger, ids, accounts>>
files == <<journal, additions>>
trouble == <<edits, removed>>
vars == <<database, files, input, lock, run, trouble>>

KindOf(s) == {k \in Keys : Kind[k] \in s}
Users == KindOf({"user"})
Documents == KindOf({"document"})
Access == KindOf({"membership", "grant"})

NoRow == [id |-> 0, version |-> 0, digest |-> 0, live |-> FALSE, original |-> FALSE]
NoBinding == [id |-> 0, version |-> 0, digest |-> 0]
BindingOf(row) == [id |-> row.id, version |-> row.version, digest |-> row.digest]
NoFile == [u \in Users |-> 0]
Idle == [at |-> "idle", initialize |-> FALSE, accepted |-> {}, input |-> None, seen |-> None,
         expected |-> [k \in Keys |-> NoBinding], secrets |-> NoFile, steps |-> {}, session |-> FALSE, reads |-> 0]

Init ==
  /\ schema = FALSE /\ marker = None
  /\ rows = [k \in Keys |-> NoRow] /\ ledger = [k \in Keys |-> NoBinding] /\ ids = 0
  /\ accounts = NoFile /\ journal = NoFile /\ additions = NoFile
  /\ input = [keys |-> FirstKeys, digest |-> [d \in Documents |-> 1]]
  /\ lock = None
  /\ run = [c \in Commands |-> Idle]
  /\ edits = 0 /\ removed = {}

Tracked(k) == ledger[k] # NoBinding
\* What the snapshot finds: active rows, and access between objects that are found.
Resource(k) ==
  IF ~rows[k].live THEN NoRow
  ELSE IF Kind[k] = "document" /\ ledger[k].id # rows[k].id THEN NoRow ELSE rows[k]
Seen(k) ==
  IF k \in Access /\ \E n \in Needs[k] : Resource(n) = NoRow THEN NoRow ELSE Resource(k)

\* plan_seed: what is missing, what has new content, and what is not as it was left.
Drifted(k) ==
  \/ ~Tracked(k) /\ Seen(k) # NoRow
  \/ Tracked(k) /\ Seen(k) = NoRow /\ k \notin Access
  \/ Tracked(k) /\ Seen(k) # NoRow /\ (BindingOf(Seen(k)) # ledger[k] \/ ~rows[k].original)

plan_seed(in) ==
  [new |-> {k \in in.keys : ~Tracked(k) /\ Seen(k) = NoRow},
   changes |-> {k \in in.keys \intersect Documents :
                  Tracked(k) /\ ~Drifted(k) /\ ledger[k].digest # in.digest[k]},
   drift |-> {k \in in.keys : Drifted(k)} \union {k \in Keys \ in.keys : Tracked(k)}]

\* Unapproved content, drift and a lost journal end the command.
Valid(r, plan) ==
  /\ plan.drift = {}
  /\ plan.changes \subseteq r.accepted
  /\ (\E u \in Users : Tracked(u)) => journal # NoFile

------------------------------------------------------------------------------
(* A command.                                                              *)

Goes(c, r) == run' = [run EXCEPT ![c] = r]
At(c, at) == run[c].at = at

\* The lock belongs to a connection, and every way out ends with it.
Unlocked(c) == IF lock = c THEN None ELSE lock

Fail(c) ==
  /\ lock' = Unlocked(c)
  /\ Goes(c, Idle)
  /\ UNCHANGED <<database, files, input, trouble>>

Start(c) ==
  /\ At(c, "idle")
  /\ \E initialize \in BOOLEAN, accepted \in SUBSET (Documents \intersect input.keys) :
       Goes(c, [Idle EXCEPT !.at = "inspect", !.initialize = initialize,
                            !.accepted = accepted, !.input = input])
  /\ UNCHANGED <<database, files, input, lock, trouble>>

\* prepare_owned_database: a foreign marker, or data without one, is not ours.
Empty == \A k \in Keys : rows[k] = NoRow
Ours == marker = Own \/ (marker = None /\ Empty)

\* The inspection waits for the lock of others, and the first plan is made without it.
Inspect(c) ==
  /\ At(c, "inspect") /\ lock = None
  /\ IF /\ Ours
        /\ Valid(run[c], plan_seed(run[c].input))
        /\ marker = Own \/ run[c].initialize
     THEN Goes(c, [run[c] EXCEPT !.at = "prepare"]) /\ UNCHANGED lock
     ELSE Fail(c)
  /\ UNCHANGED <<database, files, input, trouble>>

Prepare(c) ==
  /\ At(c, "prepare") /\ lock = None
  /\ IF Ours /\ (marker = Own \/ run[c].initialize)
     THEN Goes(c, [run[c] EXCEPT !.at = "migrate", !.initialize = FALSE, !.seen = marker]) /\ lock' = c
     ELSE Fail(c)
  /\ UNCHANGED <<database, files, input, trouble>>

Migrated(c) == TRUE

Migrate(c) ==
  /\ At(c, "migrate")
  /\ schema' = Migrated(c)
  /\ Goes(c, [run[c] EXCEPT !.at = "mark"])
  /\ UNCHANGED <<marker, rows, ledger, ids, accounts, files, input, lock, trouble>>

\* The marker is written only into a database that is still empty, on the lock's connection.
Mark(c) ==
  /\ At(c, "mark")
  /\ IF lock # c \/ (run[c].seen = None /\ (marker # None \/ ~Empty))
     THEN Fail(c)
     ELSE /\ marker' = IF run[c].seen = None THEN Own ELSE marker
          /\ lock' = Unlocked(c)
          /\ Goes(c, [run[c] EXCEPT !.at = "coordinate", !.seen = None])
          /\ UNCHANGED <<schema, rows, ledger, ids, accounts, files, input, trouble>>

\* The steps in their order: the administrator, other users, documents, roles, memberships, grants.
Rank(k) ==
  IF k = Admin THEN 0
  ELSE CASE Kind[k] = "user" -> 1 [] Kind[k] = "document" -> 2 [] Kind[k] = "role" -> 3
         [] Kind[k] = "membership" -> 4 [] OTHER -> 5
First(steps) == CHOOSE k \in steps : \A j \in steps : Rank(k) <= Rank(j)

\* New accounts and documents, accepted content, and all access: a step skips what is complete.
Work(in, plan) == plan.new \union plan.changes \union {k \in in.keys : k \notin Users \union Documents}

\* From here on the lock is held to the end, and the plan is made again.
Coordinate(c) ==
  /\ At(c, "coordinate") /\ lock = None
  /\ LET r == run[c]
         plan == plan_seed(r.input) IN
     IF marker = Own /\ Valid(r, plan)
     THEN /\ lock' = c
          /\ Goes(c, [r EXCEPT !.at = "credentials", !.expected = ledger,
                               !.steps = Work(r.input, plan)])
     ELSE Fail(c)
  /\ UNCHANGED <<database, files, input, trouble>>

\* exclusive_private_write never replaces a file; the loser reads the winner's.
Published(old, new) == IF old = NoFile THEN new ELSE old

NoneCompleted(c) == \A u \in Users : run[c].expected[u] = NoBinding

\* The file is looked for, and written later; a lost one is never made again.
LookForJournal(c) ==
  /\ At(c, "credentials")
  /\ IF journal = NoFile /\ ~NoneCompleted(c) THEN Fail(c)
     ELSE /\ Goes(c, [run[c] EXCEPT !.at = IF journal = NoFile THEN "publish" ELSE "extend"])
          /\ UNCHANGED <<database, files, input, lock, trouble>>

PublishJournal(c) ==
  /\ At(c, "publish")
  /\ ids' = ids + 1
  /\ journal' = Published(journal, [u \in Users |-> IF u \in run[c].input.keys THEN ids' ELSE 0])
  /\ Goes(c, [run[c] EXCEPT !.at = "extend"])
  /\ UNCHANGED <<schema, marker, rows, ledger, accounts, additions, input, lock, trouble>>

\* Later users get a file of their own; a completed account's file is not made again.
Extend(c) ==
  /\ At(c, "extend")
  /\ LET missing == {u \in Users \intersect run[c].input.keys : journal[u] = 0 /\ additions[u] = 0} IN
     IF journal = NoFile \/ \E u \in missing : run[c].expected[u] # NoBinding THEN Fail(c)
     ELSE /\ ids' = IF missing = {} THEN ids ELSE ids + 1
          /\ additions' = [u \in Users |-> IF u \in missing THEN ids' ELSE additions[u]]
          /\ Goes(c, [run[c] EXCEPT !.at = "step",
                        !.secrets = [u \in Users |-> IF journal[u] # 0 THEN journal[u] ELSE additions'[u]]])
          /\ UNCHANGED <<schema, marker, rows, ledger, accounts, journal, input, lock, trouble>>

------------------------------------------------------------------------------
(* The steps.  Each is one transaction that locks the policy and then the  *)
(* marker, reads the ledger again, and writes the object with its entry.   *)

Onward(c) == [run[c] EXCEPT !.steps = @ \ {First(@)}, !.reads = 0]
Doing(c, kinds) == At(c, "step") /\ run[c].steps # {} /\ Kind[First(run[c].steps)] \in kinds

\* A membership is the pair of a user and a role; a grant and a role have identities.
AccessRow(k, id) == [id |-> IF Kind[k] = "membership" THEN 1 ELSE id, version |-> 0, digest |-> 0,
                     live |-> TRUE, original |-> TRUE]

Write(k, row) ==
  /\ rows' = [rows EXCEPT ![k] = row]
  /\ ledger' = [ledger EXCEPT ![k] = BindingOf(row)]

Completed(k) == Tracked(k)

Skip(c) == Goes(c, Onward(c)) /\ UNCHANGED <<database, files, input, lock, trouble>>

\* A completed account must still be the one that was created; another needs a free login.
Fits(u) == IF Completed(u) THEN rows[u].id = ledger[u].id ELSE rows[u] = NoRow

CreateUser(c) ==
  /\ Doing(c, {"user"})
  /\ LET u == First(run[c].steps) IN
     \/ /\ marker # Own \/ ~Fits(u)
        /\ Fail(c)
     \/ /\ marker = Own /\ Fits(u) /\ Completed(u)
        /\ Skip(c)
     \/ /\ marker = Own /\ Fits(u) /\ ~Completed(u)
        /\ ids' = ids + 1
        /\ Write(u, [id |-> ids', version |-> 0, digest |-> 0, live |-> TRUE, original |-> TRUE])
        /\ accounts' = [accounts EXCEPT ![u] = run[c].secrets[u]]
        /\ Goes(c, Onward(c))
        /\ UNCHANGED <<schema, marker, files, input, lock, trouble>>

\* After the accounts the administrator signs in with the journal's password.
SignIn(c) ==
  /\ At(c, "step") /\ ~Doing(c, {"user"}) /\ ~run[c].session
  /\ IF rows[Admin].live /\ accounts[Admin] = run[c].secrets[Admin]
     THEN Goes(c, [run[c] EXCEPT !.session = TRUE]) /\ UNCHANGED lock
     ELSE Fail(c)
  /\ UNCHANGED <<database, files, input, trouble>>

\* What follows runs in that session, on our database.
Authorized(c) == run[c].session /\ rows[Admin].live /\ marker = Own

\* A document is read and indexed before the transaction; its digest must be the manifest's.
ReadDocument(c) ==
  /\ Doing(c, {"document"}) /\ run[c].session /\ run[c].reads = 0
  /\ LET d == First(run[c].steps) IN
     \/ /\ input.digest[d] = run[c].input.digest[d]
        /\ Goes(c, [run[c] EXCEPT !.reads = input.digest[d]])
        /\ UNCHANGED <<database, files, input, lock, trouble>>
     \/ Fail(c)                \* another digest, or the parser or the model failed

\* Mutant: the entry is compared only when there was one.
AsExpectedIfOld(c, d) == run[c].expected[d] # NoBinding => ledger[d] = run[c].expected[d]
AsExpected(c, d) == ledger[d] = run[c].expected[d]

\* The document is active and has the version that was completed.
Unedited(d) == rows[d].live /\ rows[d].version = ledger[d].version

CommitDocument(c) ==
  /\ Doing(c, {"document"}) /\ run[c].reads # 0
  /\ LET d == First(run[c].steps)
         new == run[c].expected[d] = NoBinding
         writes == Authorized(c) /\ AsExpected(c, d) /\ (new \/ Unedited(d))
         skips == Authorized(c) /\ ~AsExpected(c, d) /\ Tracked(d) /\ ledger[d].digest = run[c].input.digest[d] IN
     \/ /\ writes
        /\ ids' = ids + 1
        /\ Write(d, [id |-> IF new THEN ids' ELSE rows[d].id, version |-> ids',
                     digest |-> run[c].reads, live |-> TRUE, original |-> TRUE])
        /\ Goes(c, Onward(c))
        /\ UNCHANGED <<schema, marker, accounts, files, input, lock, trouble>>
     \/ skips /\ Skip(c)
     \/ ~writes /\ ~skips /\ Fail(c)

\* Roles, memberships and grants: a completed one is left alone even when it was taken away.
GiveAccess(c) ==
  /\ Doing(c, {"role", "membership", "grant"}) /\ run[c].session
  /\ LET k == First(run[c].steps)
         gives == /\ Authorized(c) /\ ~Completed(k) /\ \A n \in Needs[k] : Tracked(n)
                  /\ rows[k] = NoRow \/ Kind[k] = "membership"
     IN
     \/ Authorized(c) /\ Completed(k) /\ Skip(c)
     \/ /\ gives
        /\ ids' = ids + 1
        /\ Write(k, AccessRow(k, ids'))
        /\ Goes(c, Onward(c))
        /\ UNCHANGED <<schema, marker, accounts, files, input, lock, trouble>>
     \/ ~gives /\ ~(Authorized(c) /\ Completed(k)) /\ Fail(c)

\* The final state is read again.
Reread(c) ==
  /\ At(c, "step") /\ run[c].steps = {} /\ run[c].session
  /\ IF marker = Own /\ plan_seed(run[c].input).drift = {}
     THEN Goes(c, [run[c] EXCEPT !.at = "export", !.expected = ledger]) /\ UNCHANGED lock
     ELSE Fail(c)
  /\ UNCHANGED <<database, files, input, trouble>>

\* The suggestions need every document active and as the ledger had it.
Export(c) ==
  /\ At(c, "export")
  /\ IF /\ run[c].session /\ rows[Admin].live
        /\ \A d \in Documents \intersect run[c].input.keys :
             rows[d].live /\ rows[d].version = run[c].expected[d].version
     THEN Goes(c, [run[c] EXCEPT !.at = "reported"]) /\ UNCHANGED lock
     ELSE Fail(c)
  /\ UNCHANGED <<database, files, input, trouble>>

\* The report is out; the lock goes with the connection.
Close(c) == At(c, "reported") /\ Fail(c)

Advance(c) ==
  \/ Migrate(c) \/ Mark(c) \/ LookForJournal(c) \/ PublishJournal(c) \/ Extend(c)
  \/ CreateUser(c) \/ SignIn(c) \/ ReadDocument(c) \/ CommitDocument(c) \/ GiveAccess(c)
  \/ Reread(c) \/ Export(c) \/ Close(c)
Wait(c) == Inspect(c) \/ Prepare(c) \/ Coordinate(c)

------------------------------------------------------------------------------
(* What else happens.                                                      *)

Crash(c) ==
  /\ ~At(c, "idle")
  /\ lock' = IF lock = c THEN None ELSE lock
  /\ Goes(c, Idle)
  /\ UNCHANGED <<database, files, input, trouble>>

\* The connection that holds the lock breaks; the command goes on with its others.
LoseLock(c) ==
  /\ lock = c
  /\ lock' = None
  /\ UNCHANGED <<database, files, input, run, trouble>>

\* An administrator disables an account or a document, or renames an account or a role.
Alter(k) ==
  /\ rows[k] # NoRow
  /\ \/ Kind[k] \in {"user", "document"} /\ rows' = [rows EXCEPT ![k].live = FALSE]
     \/ Kind[k] \in {"user", "role"} /\ rows' = [rows EXCEPT ![k].original = FALSE]
  /\ UNCHANGED <<schema, marker, ledger, ids, accounts, files, removed>>

\* An administrator's own version of a document.
Revise(d) ==
  /\ d \in Documents /\ rows[d] # NoRow
  /\ ids' = ids + 1
  /\ rows' = [rows EXCEPT ![d].version = ids', ![d].digest = 0]
  /\ UNCHANGED <<schema, marker, ledger, accounts, files, removed>>

TakeAway(k) ==
  /\ k \in Access /\ rows[k] # NoRow
  /\ rows' = [rows EXCEPT ![k] = NoRow]
  /\ removed' = IF Tracked(k) THEN removed \union {k} ELSE removed
  /\ UNCHANGED <<schema, marker, ledger, ids, accounts, files>>

GiveBack(k) ==
  /\ k \in Access /\ rows[k] = NoRow /\ \A n \in Needs[k] : rows[n] # NoRow
  /\ ids' = ids + 1
  /\ rows' = [rows EXCEPT ![k] = AccessRow(k, ids')]
  /\ removed' = removed \ {k}
  /\ UNCHANGED <<schema, marker, ledger, accounts, files>>

DeleteJournal ==
  /\ journal # NoFile
  /\ journal' = NoFile
  /\ UNCHANGED <<database, additions, removed>>

\* Somebody else's instance takes the database over.
ReplaceMarker ==
  /\ marker = Own
  /\ marker' = Foreign
  /\ UNCHANGED <<schema, rows, ledger, ids, accounts, files, removed>>

Edit ==
  /\ edits < MaxEdits /\ edits' = edits + 1
  /\ \/ \E k \in Keys : Alter(k) \/ Revise(k) \/ TakeAway(k) \/ GiveBack(k)
     \/ DeleteJournal \/ ReplaceMarker
  /\ UNCHANGED <<input, lock, run>>

\* The private inputs: new content of a document, or more keys.
ChangeInput ==
  /\ \/ \E d \in Documents : /\ input.digest[d] <= MaxInputs
                             /\ input' = [input EXCEPT !.digest[d] = @ + 1]
     \/ \E k \in Keys : /\ k \notin input.keys /\ Needs[k] \subseteq input.keys
                        /\ input' = [input EXCEPT !.keys = @ \union {k}]
  /\ UNCHANGED <<database, files, lock, run, trouble>>

Steps ==
  \/ \E c \in Commands : Start(c) \/ Wait(c) \/ Advance(c) \/ Crash(c)
  \/ Edit \/ ChangeInput

Next == Steps \/ \E c \in Commands : LoseLock(c)

Spec == Init /\ [][Next]_vars

------------------------------------------------------------------------------
(* Properties.                                                             *)

TypeOK ==
  /\ schema \in BOOLEAN /\ marker \in {None, Own, Foreign} /\ (marker # None => schema)
  /\ rows \in [Keys -> [id : Nat, version : Nat, digest : Nat, live : BOOLEAN, original : BOOLEAN]]
  /\ ledger \in [Keys -> [id : Nat, version : Nat, digest : Nat]]
  /\ {accounts, journal, additions} \subseteq [Users -> 0 .. ids]
  /\ input \in [keys : SUBSET Keys, digest : [Documents -> 1 .. MaxInputs + 1]]
  /\ lock \in Commands \union {None}
  /\ removed \subseteq Access

\* Access that was seeded and then taken away by an administrator stays away, whatever commands
\* run, crash or overlap afterwards, until an administrator gives it back.
NeverGivenBack == \A k \in removed : rows[k] = NoRow

\* While there is a journal, the password of every account that exists can be read from the
\* private files: no interrupted or overlapping command loses or replaces one, and none makes a
\* new journal in the place of one that was deleted.
SecretsKept ==
  journal # NoFile => \A u \in Users : rows[u] # NoRow =>
    accounts[u] # 0 /\ accounts[u] = (IF journal[u] # 0 THEN journal[u] ELSE additions[u])

\* One object stands for a key: no command registers a second account, document or role
\* beside the one that exists, and none writes without a marker that is ours.
SameObjects ==
  \A k \in Keys : (rows[k].live /\ rows'[k].id # rows[k].id) => (k \in Access /\ rows'[k] = NoRow)
OneObject == [][SameObjects]_vars

\* Content that was completed changes only by a command that was told to accept it, from the
\* version that command planned with and no administrator has replaced, to its manifest's.
OnlyAccepted ==
  \A d \in Documents : (Tracked(d) /\ ledger'[d] # ledger[d]) =>
    \E c \in Commands : /\ d \in run[c].accepted /\ run[c].expected[d] = ledger[d]
                        /\ rows[d].version = ledger[d].version
                        /\ ledger'[d].digest = run[c].input.digest[d]
ContentAccepted == [][OnlyAccepted]_vars

\* A report says what is there: every key of its inputs is complete, with the content they name,
\* and access is missing only where an administrator took it away.
ReportedIsApplied ==
  \A c \in Commands : At(c, "reported") =>
    /\ \A k \in run[c].input.keys : Tracked(k)
    /\ \A d \in Documents \intersect run[c].input.keys : ledger[d].digest = run[c].input.digest[d]
    /\ \A k \in Access \intersect run[c].input.keys : rows[k] = NoRow => k \in removed

\* What the database and the private files never say otherwise.
SeedInv == TypeOK /\ NeverGivenBack /\ SecretsKept
==============================================================================
