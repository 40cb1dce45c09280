---------------------------- MODULE CommandFerry ----------------------------
(***************************************************************************)
(* The owner's self-test button. The dashboard queues a command; a worker  *)
(* runs one probe for it, which spends gas; the answer finds its way back. *)
(*                                                                         *)
(* Hosted, the command is a row of the shared table agent_commands, the    *)
(* orchestrator carries it as a file into the child's home and carries the *)
(* result file back. Self-hosted, the web process writes the file itself.  *)
(* File operations are synchronous in the code, hence part of the step     *)
(* they occur in; every await of the database or of the probe is a point   *)
(* where another process may act.                                          *)
(***************************************************************************)
EXTENDS Integers, FiniteSets

CONSTANTS
  Cmds,       \* command ids (a fresh UUID each)
  Tenants,    \* the wallets the grant store is keyed by
  Accounts,   \* smart accounts
  AccountOf,  \* the smart account of each tenant's current grant
  At,         \* created_at of each command
  Limit,      \* the ferry's LIMIT (5 in the code)
  Faults,     \* which of FaultKinds may happen
  MaxFaults,  \* how many of them may happen
  NoOne       \* no command, no tenant, no agent

FaultKinds == {"worker", "orchestrator", "select", "disk", "mark", "record", "probe", "silent"}

ASSUME FerryConstants ==
  /\ AccountOf \in [Tenants -> Accounts]
  /\ At \in [Cmds -> Nat]
  /\ Limit \in Nat \ {0}
  /\ Faults \subseteq FaultKinds
  /\ MaxFaults \in Nat
  /\ NoOne \notin Cmds \cup Tenants \cup Accounts
  /\ Tenants \cap Accounts = {}

VARIABLES
  hosted,   \* isHostedMode(), fixed by the deployment
  posted,   \* ids handed out so far
  rows,     \* agent_commands: agent_id, claimed_at set, done_at set, result is PASSED
  home,     \* <home>/commands/<id>.json, per tenant
  answers,  \* <home>/commands/<id>.done.json, per tenant
  worker,   \* where each worker is, and the command it holds
  ferry,    \* where the orchestrator is in ferryCommands, and its locals
  runs,     \* how often each command's probe went through the pipeline
  landed,   \* commands whose probe was concluded: its own operation landed
  stale,    \* commands whose verdict was the outcome of an earlier intent
  faults    \* faults so far

verdictVars == <<landed, stale>>
vars == <<hosted, posted, rows, home, answers, worker, ferry, runs, landed, stale, faults>>

\* a worker holds a command from its claim to its answer
WorkerStates ==
  [at : {"down", "booting", "idle"}, cmd : {NoOne}]
    \cup [at : {"took", "passed", "failed"}, cmd : Cmds]

\* what a result file says of a command: PASSED, or one of the other lines
Results == [cmd : Cmds, passed : BOOLEAN]

FerryStates ==
  [at : {"rest"}, tenant : {NoOne}, batch : {{}}, cmd : {NoOne}, got : {{}}]
    \cup [at : {"write", "drain"}, tenant : Tenants, batch : SUBSET Cmds, cmd : {NoOne}, got : {{}}]
    \cup [at : {"mark"}, tenant : Tenants, batch : SUBSET Cmds, cmd : Cmds, got : {{}}]
    \cup [at : {"record"}, tenant : Tenants, batch : {{}}, cmd : {NoOne}, got : SUBSET Results]

Fault(kind) == kind \in Faults /\ faults < MaxFaults /\ faults' = faults + 1

\* children.keys(): the exit handler removes a dead child's entry
Registered(t) == worker[t].at # "down"

Resting == [at |-> "rest", tenant |-> NoOne, batch |-> {}, cmd |-> NoOne, got |-> {}]

\* the members of S with the earliest created_at: ties may go either way
OldestOf(S) == {c \in S : \A d \in S : At[c] <= At[d]}

\* ORDER BY created_at ASC LIMIT n
OldestBatches(S, n) ==
  {B \in SUBSET S :
     /\ Cardinality(B) = IF Cardinality(S) < n THEN Cardinality(S) ELSE n
     /\ \A c \in B, d \in S \ B : At[c] <= At[d]}

-----------------------------------------------------------------------------
(* The dashboard *)

NewRow(c, agent) ==
  /\ c \notin posted
  /\ posted' = posted \cup {c}
  /\ rows' = [rows EXCEPT ![c].agent = agent]
  /\ UNCHANGED <<hosted, home, answers, worker, ferry, runs, verdictVars, faults>>

\* POST hosted: the row is keyed by the smart account of the session's grant
PostHosted(c, t) == hosted /\ NewRow(c, AccountOf[t])

\* store.enqueueCommand: the row is keyed by whatever id its caller passes
Enqueue(c, agent) == hosted /\ NewRow(c, agent)

\* POST self-hosted: one OATHWALL_HOME for the web and the worker
PostLocal(c, t) ==
  /\ ~hosted
  /\ c \notin posted
  /\ posted' = posted \cup {c}
  /\ home' = [home EXCEPT ![t] = @ \cup {c}]
  /\ UNCHANGED <<hosted, rows, answers, worker, ferry, runs, verdictVars, faults>>

\* what GET reports of command c; self-hosted the table has no row
PageState(c) ==
  IF rows[c].agent = NoOne THEN "none"
  ELSE IF rows[c].done THEN "done"
  ELSE IF rows[c].claimed THEN "running" ELSE "queued"

-----------------------------------------------------------------------------
(* The orchestrator's ferry: one child after the other, down then up *)

(* Mutant: the SELECT without its claimed_at condition.                    *)
AllRows(t) == {c \in Cmds : rows[c].agent = t}

Unclaimed(t) == {c \in Cmds : rows[c].agent = t /\ ~rows[c].claimed}

FerryVisit(t) ==
  /\ hosted
  /\ ferry.at = "rest"
  /\ Registered(t)
  /\ \/ /\ \E B \in OldestBatches(Unclaimed(t), Limit) :
             ferry' = [Resting EXCEPT !.at = "write", !.tenant = t, !.batch = B]
        /\ UNCHANGED faults
     \/ /\ Fault("select")
        /\ ferry' = [Resting EXCEPT !.at = "drain", !.tenant = t]
  /\ UNCHANGED <<hosted, posted, rows, home, answers, worker, runs, verdictVars>>

\* writeCommand, and the UPDATE that marks the row is sent
FerryWrite ==
  /\ ferry.at = "write"
  /\ ferry.batch # {}
  /\ \/ /\ \E c \in OldestOf(ferry.batch) :
             /\ home' = [home EXCEPT ![ferry.tenant] = @ \cup {c}]
             /\ ferry' = [ferry EXCEPT !.at = "mark", !.cmd = c]
        /\ UNCHANGED faults
     \/ /\ Fault("disk")
        /\ ferry' = [ferry EXCEPT !.at = "drain", !.batch = {}]
        /\ UNCHANGED home
  /\ UNCHANGED <<hosted, posted, rows, answers, worker, runs, verdictVars>>

(* Mutant: an UPDATE by agent, which marks what was not delivered yet.     *)
FerryMarkAll ==
  /\ ferry.at = "mark"
  /\ rows' = [c \in Cmds |-> [rows[c] EXCEPT !.claimed = @ \/ rows[c].agent = ferry.tenant]]
  /\ ferry' = [ferry EXCEPT !.at = "write", !.cmd = NoOne, !.batch = {}]
  /\ UNCHANGED <<hosted, posted, home, answers, worker, runs, verdictVars, faults>>

\* the UPDATE settles; when it throws, the rest of the batch is skipped
FerryMark ==
  /\ ferry.at = "mark"
  /\ \/ /\ rows' = [rows EXCEPT ![ferry.cmd].claimed = TRUE]
        /\ ferry' = [ferry EXCEPT !.at = "write", !.cmd = NoOne, !.batch = @ \ {ferry.cmd}]
        /\ UNCHANGED faults
     \/ /\ Fault("mark")
        /\ ferry' = [ferry EXCEPT !.at = "drain", !.cmd = NoOne, !.batch = {}]
        /\ UNCHANGED rows
  /\ UNCHANGED <<hosted, posted, home, answers, worker, runs, verdictVars>>

\* drainCommandResults reads and removes every result file at once
FerryDrain ==
  /\ \/ ferry.at = "write" /\ ferry.batch = {}
     \/ ferry.at = "drain"
  /\ ferry' = [ferry EXCEPT !.at = "record", !.batch = {}, !.got = answers[ferry.tenant]]
  /\ answers' = [answers EXCEPT ![ferry.tenant] = {}]
  /\ UNCHANGED <<hosted, posted, rows, home, worker, runs, verdictVars, faults>>

\* one UPDATE done_at per result; when it throws, the others are dropped
FerryRecord ==
  /\ ferry.at = "record"
  /\ \/ /\ \E r \in ferry.got :
             /\ rows' = [rows EXCEPT ![r.cmd].done = TRUE, ![r.cmd].passed = r.passed]
             /\ ferry' = [ferry EXCEPT !.got = @ \ {r}]
        /\ UNCHANGED faults
     \/ /\ ferry.got # {}
        /\ Fault("record")
        /\ ferry' = Resting
        /\ UNCHANGED rows
     \/ /\ ferry.got = {}
        /\ ferry' = Resting
        /\ UNCHANGED <<rows, faults>>
  /\ UNCHANGED <<hosted, posted, home, answers, worker, runs, verdictVars>>

-----------------------------------------------------------------------------
(* The worker *)

Stays(t, at, c) == worker' = [worker EXCEPT ![t] = [at |-> at, cmd |-> c]]

Spawn(t) ==
  /\ worker[t].at = "down"
  /\ Stays(t, "booting", NoOne)
  /\ UNCHANGED <<hosted, posted, rows, home, answers, ferry, runs, verdictVars, faults>>

Arm(t) ==
  /\ worker[t].at = "booting"
  /\ Stays(t, "idle", NoOne)
  /\ UNCHANGED <<hosted, posted, rows, home, answers, ferry, runs, verdictVars, faults>>

(* Mutant: read and act, and leave the unlink for later.                   *)
ClaimUnlinked(t) ==
  /\ worker[t].at = "idle"
  /\ \E c \in OldestOf(home[t]) : Stays(t, "took", c)
  /\ UNCHANGED <<hosted, posted, rows, home, answers, ferry, runs, verdictVars, faults>>

\* claimCommandFile: the unlink is the claim, and comes before the probe
Claim(t) ==
  /\ worker[t].at = "idle"
  /\ \E c \in OldestOf(home[t]) :
       /\ home' = [home EXCEPT ![t] = @ \ {c}]
       /\ Stays(t, "took", c)
  /\ UNCHANGED <<hosted, posted, rows, answers, ferry, runs, verdictVars, faults>>

(* Mutant: a pipeline that did not throw is taken for one that worked.     *)
SaysUnread(outcome) == "passed"
\* the verdict on a probe that came back from the pipeline
Says(outcome) == IF outcome = "landed" THEN "passed" ELSE "failed"

\* one answer without an operation: not armed, no bundler key, another
\* chain, or a kind of command this worker does not know
Declines(t) ==
  /\ Stays(t, "failed", worker[t].cmd)
  /\ UNCHANGED <<runs, verdictVars, faults>>

Enters(c) == runs' = [runs EXCEPT ![c] = @ + 1]

\* the pipeline leaves the outcome of the probe's own operation in lastTradeOutcome
Concludes(t, outcome) ==
  /\ Enters(worker[t].cmd)
  /\ landed' = IF outcome = "landed" THEN landed \cup {worker[t].cmd} ELSE landed
  /\ Stays(t, Says(outcome), worker[t].cmd)
  /\ UNCHANGED <<stale, faults>>

\* a pipeline that did not conclude may have got as far as the operation
Reaches(c) == Enters(c) \/ UNCHANGED runs

\* the pipeline returns and leaves lastTradeOutcome as an earlier intent of the
\* worker set it: the worker was disarmed in the queue, or something failed
\* after the send, be it only that the operation reverted
ConcludesNothing(t) ==
  /\ Fault("silent")
  /\ Reaches(worker[t].cmd)
  /\ stale' = stale \cup {worker[t].cmd}
  /\ \E earlier \in {"landed", "other"} : Stays(t, Says(earlier), worker[t].cmd)
  /\ UNCHANGED landed

\* a throw ends in the catch of runQueuedCommand, and there is no answer
Throws(t) ==
  /\ Fault("probe")
  /\ Reaches(worker[t].cmd)
  /\ Stays(t, "idle", NoOne)
  /\ UNCHANGED verdictVars

\* runSelftestProbe
Probe(t) ==
  /\ worker[t].at = "took"
  /\ \/ Declines(t)
     \/ \E outcome \in {"landed", "other"} : Concludes(t, outcome)
     \/ ConcludesNothing(t)
     \/ Throws(t)
  /\ UNCHANGED <<hosted, posted, rows, home, answers, ferry>>

\* writeCommandResult replaces a file of the same name; a throw leaves the
\* catch with no answer
Answer(t) ==
  /\ worker[t].at \in {"passed", "failed"}
  /\ \/ /\ answers' = [answers EXCEPT ![t] =
            {r \in @ : r.cmd # worker[t].cmd}
              \cup {[cmd |-> worker[t].cmd, passed |-> worker[t].at = "passed"]}]
        /\ UNCHANGED faults
     \/ /\ Fault("disk")
        /\ UNCHANGED answers
  /\ Stays(t, "idle", NoOne)
  /\ UNCHANGED <<hosted, posted, rows, home, ferry, runs, verdictVars>>

-----------------------------------------------------------------------------
(* Deaths: files and rows stay, whatever a process held is gone *)

WorkerDies(t) ==
  /\ worker[t].at # "down"
  /\ Fault("worker")
  /\ Stays(t, "down", NoOne)
  /\ UNCHANGED <<hosted, posted, rows, home, answers, ferry, runs, verdictVars>>

\* the container of the replica takes its children with it
OrchestratorDies ==
  /\ hosted
  /\ Fault("orchestrator")
  /\ ferry' = Resting
  /\ worker' = [t \in Tenants |-> [at |-> "down", cmd |-> NoOne]]
  /\ UNCHANGED <<hosted, posted, rows, home, answers, runs, verdictVars>>

Init ==
  /\ hosted \in BOOLEAN
  /\ posted = {}
  /\ rows = [c \in Cmds |-> [agent |-> NoOne, claimed |-> FALSE, done |-> FALSE, passed |-> FALSE]]
  /\ home = [t \in Tenants |-> {}]
  /\ answers = [t \in Tenants |-> {}]
  /\ worker = [t \in Tenants |-> [at |-> "down", cmd |-> NoOne]]
  /\ ferry = Resting
  /\ runs = [c \in Cmds |-> 0]
  /\ landed = {} /\ stale = {}
  /\ faults = 0

Ferry == FerryWrite \/ FerryMark \/ FerryDrain \/ FerryRecord

Worker(t) == Spawn(t) \/ Arm(t) \/ Claim(t) \/ Probe(t) \/ Answer(t)

Next ==
  \/ \E c \in Cmds, t \in Tenants : PostHosted(c, t) \/ PostLocal(c, t)
  \/ \E c \in Cmds, a \in Tenants \cup Accounts : Enqueue(c, a)
  \/ \E t \in Tenants : FerryVisit(t)
  \/ FerryWrite
  \/ FerryMark
  \/ FerryDrain
  \/ FerryRecord
  \/ \E t \in Tenants : Spawn(t) \/ Arm(t) \/ Claim(t) \/ Probe(t) \/ Answer(t) \/ WorkerDies(t)
  \/ OrchestratorDies

Spec == Init /\ [][Next]_vars

\* Every pass of the ferry visits every child, the reconcile respawns dead
\* ones, and a tick claims a command whenever the last one is done.
FairSpec ==
  /\ Spec
  /\ WF_vars(Ferry)
  /\ \A t \in Tenants : SF_vars(FerryVisit(t)) /\ WF_vars(Worker(t))

-----------------------------------------------------------------------------

TypeOK ==
  /\ hosted \in BOOLEAN
  /\ posted \subseteq Cmds
  /\ rows \in [Cmds -> [agent : Tenants \cup Accounts \cup {NoOne}, claimed : BOOLEAN,
                        done : BOOLEAN, passed : BOOLEAN]]
  /\ home \in [Tenants -> SUBSET Cmds]
  /\ answers \in [Tenants -> SUBSET Results]
  /\ worker \in [Tenants -> WorkerStates]
  /\ ferry \in FerryStates
  /\ runs \in [Cmds -> Nat]
  /\ landed \subseteq Cmds /\ stale \subseteq Cmds
  /\ faults \in 0..MaxFaults

\* A probe spends gas. The unlink before the probe and the mark on delivery
\* make it run at most once; only a fault in the ferry can add a run, and each
\* one adds at most one. Self-hosted there is no ferry, and no exception.
RunsBounded == \A c \in Cmds : runs[c] <= IF hosted THEN 1 + faults ELSE 1

\* The promise of the schema and of the ferry: no command's probe runs twice.
RunsAtMostOnce == \A c \in Cmds : runs[c] <= 1

\* c left the table and the disk for good: nobody holds it any more.
Consumed(c) ==
  /\ c \in posted
  /\ hosted => rows[c].claimed
  /\ \A t \in Tenants : c \notin home[t] /\ worker[t].cmd # c

\* A command that was marked and taken never comes back, under every fault: a
\* lost probe stays lost, however the ferry and the worker are interrupted.
NeverRevived == [][\A c \in Cmds : Consumed(c) => Consumed(c)' /\ runs'[c] = runs[c]]_vars

\* "PASSED - a signed UserOperation reached the chain": the page says so only
\* of a command whose own operation landed, however often the answer and its
\* ferry were interrupted.  (The pipeline must have recorded how the probe
\* ended: where it did not, the verdict is that of an earlier trade.)
PassWasEarned == \A c \in Cmds \ stale : rows[c].done /\ rows[c].passed => c \in landed

\* The same without the exception, which the code does not keep.
PassIsOwn == \A c \in Cmds : rows[c].done /\ rows[c].passed => c \in landed

Waiting(c) ==
  \/ \E t \in Tenants : c \in home[t]
  \/ hosted /\ rows[c].agent \in Tenants /\ ~rows[c].claimed /\ ferry.cmd # c

\* A command in a home, or in a row the ferry reads, gets into a worker's
\* hands, however often its delivery is interrupted.
WaitingIsTaken == \A c \in Cmds : Waiting(c) ~> \E t \in Tenants : worker[t].cmd = c

\* "A worker that is not draining at all" is what the route calls a command
\* queued for ever: with a worker that drains, "queued" is a state that ends.
QueuedEnds == \A c \in Cmds : (PageState(c) = "queued") ~> (PageState(c) # "queued")
=============================================================================
