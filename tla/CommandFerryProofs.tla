------------------------- MODULE CommandFerryProofs -------------------------
(***************************************************************************)
(* Theorems of CommandFerry for every set of commands, tenants, accounts   *)
(* and time stamps, every LIMIT, every kind and number of faults.          *)
(***************************************************************************)
EXTENDS CommandFerry, TLAPS

-----------------------------------------------------------------------------
(* Types.                                                                  *)

Row == [agent : Tenants \cup Accounts \cup {NoOne}, claimed : BOOLEAN, done : BOOLEAN,
        passed : BOOLEAN]
RowTable == [Cmds -> Row]

LEMMA FaultType == ASSUME TypeOK, NEW k, Fault(k) PROVE faults' \in 0..MaxFaults
BY FerryConstants DEF TypeOK, Fault

(* Either UPDATE leaves a table of rows.                                   *)
LEMMA UpdateType ==
  ASSUME TypeOK, NEW c \in Cmds, NEW p \in BOOLEAN
  PROVE  /\ [rows EXCEPT ![c].claimed = TRUE] \in RowTable
         /\ [rows EXCEPT ![c].done = TRUE, ![c].passed = p] \in RowTable
<1>1. rows \in RowTable BY DEF TypeOK, RowTable, Row
<1>2. /\ [rows[c] EXCEPT !.claimed = TRUE] \in Row
      /\ [rows[c] EXCEPT !.done = TRUE, !.passed = p] \in Row
  BY <1>1 DEF RowTable, Row
<1> QED BY <1>1, <1>2 DEF RowTable

(* What recording one result does to the table.                            *)
LEMMA Recorded ==
  ASSUME TypeOK, FerryRecord
  PROVE  \/ UNCHANGED rows
         \/ \E r \in ferry.got :
              /\ r \in Results
              /\ rows' = [rows EXCEPT ![r.cmd].done = TRUE, ![r.cmd].passed = r.passed]
<1>1. ferry.got \subseteq Results BY DEF TypeOK, FerryStates
<1> QED BY <1>1 DEF FerryRecord

LEMMA TypeInit == Init => TypeOK
BY FerryConstants DEF Init, TypeOK, Resting, WorkerStates, FerryStates

LEMMA TypePost ==
  ASSUME TypeOK, NEW c \in Cmds, NEW a \in Tenants \cup Accounts, NewRow(c, a) PROVE TypeOK'
<1> USE DEF TypeOK, verdictVars
<1>1. rows' \in [Cmds -> [agent : Tenants \cup Accounts \cup {NoOne}, claimed : BOOLEAN,
                          done : BOOLEAN, passed : BOOLEAN]]
  BY DEF NewRow
<1> QED BY <1>1 DEF NewRow

(* What the ferry holds at each of its stages.                             *)
LEMMA FerryShape ==
  ASSUME TypeOK
  PROVE  /\ ferry.at \in {"write", "drain"} =>
              ferry \in [at : {"write", "drain"}, tenant : Tenants, batch : SUBSET Cmds,
                        cmd : {NoOne}, got : {{}}]
         /\ ferry.at = "mark" =>
              ferry \in [at : {"mark"}, tenant : Tenants, batch : SUBSET Cmds, cmd : Cmds,
                        got : {{}}]
         /\ ferry.at = "record" =>
              ferry \in [at : {"record"}, tenant : Tenants, batch : {{}}, cmd : {NoOne},
                        got : SUBSET Results]
         /\ ferry.at = "rest" => ferry = Resting
BY DEF TypeOK, FerryStates, Resting

LEMMA TypeWrite == ASSUME TypeOK, FerryWrite PROVE TypeOK'
<1> USE DEF TypeOK, verdictVars
<1>1. ferry \in [at : {"write", "drain"}, tenant : Tenants, batch : SUBSET Cmds,
                 cmd : {NoOne}, got : {{}}]
  BY FerryShape DEF FerryWrite
<1>2. faults' \in 0..MaxFaults BY FaultType DEF FerryWrite
<1>3. CASE \E c \in OldestOf(ferry.batch) :
             /\ home' = [home EXCEPT ![ferry.tenant] = @ \cup {c}]
             /\ ferry' = [ferry EXCEPT !.at = "mark", !.cmd = c]
  <2>1. PICK c \in Cmds :
             /\ home' = [home EXCEPT ![ferry.tenant] = @ \cup {c}]
             /\ ferry' = [ferry EXCEPT !.at = "mark", !.cmd = c]
    BY <1>1, <1>3 DEF OldestOf
  <2>2. ferry' \in FerryStates BY <1>1, <2>1 DEF FerryStates
  <2>3. home' \in [Tenants -> SUBSET Cmds] BY <1>1, <2>1
  <2> QED BY <1>2, <2>2, <2>3 DEF FerryWrite
<1>4. CASE UNCHANGED home /\ ferry' = [ferry EXCEPT !.at = "drain", !.batch = {}]
  <2>1. ferry' \in FerryStates BY <1>1, <1>4 DEF FerryStates
  <2> QED BY <1>2, <1>4, <2>1 DEF FerryWrite
<1> QED BY <1>3, <1>4 DEF FerryWrite

LEMMA TypeMark == ASSUME TypeOK, FerryMark PROVE TypeOK'
<1> USE DEF TypeOK, verdictVars
<1>1. ferry \in [at : {"mark"}, tenant : Tenants, batch : SUBSET Cmds, cmd : Cmds, got : {{}}]
  BY FerryShape DEF FerryMark
<1>2. faults' \in 0..MaxFaults BY FaultType DEF FerryMark
<1>3. \/ ferry' = [ferry EXCEPT !.at = "write", !.cmd = NoOne, !.batch = @ \ {ferry.cmd}]
      \/ ferry' = [ferry EXCEPT !.at = "drain", !.cmd = NoOne, !.batch = {}]
  BY DEF FerryMark
<1>4. ferry' \in FerryStates
  <2>1. CASE ferry' = [ferry EXCEPT !.at = "write", !.cmd = NoOne, !.batch = @ \ {ferry.cmd}]
    <3>1. ferry.batch \ {ferry.cmd} \in SUBSET Cmds BY <1>1
    <3>2. ferry' \in [at : {"write", "drain"}, tenant : Tenants, batch : SUBSET Cmds,
                      cmd : {NoOne}, got : {{}}]
      BY <1>1, <2>1, <3>1
    <3> QED BY <3>2 DEF FerryStates
  <2>2. CASE ferry' = [ferry EXCEPT !.at = "drain", !.cmd = NoOne, !.batch = {}]
    BY <1>1, <2>2 DEF FerryStates
  <2> QED BY <1>3, <2>1, <2>2
<1>5. rows' \in RowTable
  <2>1. rows \in RowTable BY DEF RowTable, Row
  <2>2. rows' = [rows EXCEPT ![ferry.cmd].claimed = TRUE] \/ rows' = rows BY DEF FerryMark
  <2> QED BY <1>1, <2>1, <2>2, UpdateType
<1> QED BY <1>2, <1>4, <1>5 DEF FerryMark, RowTable, Row

LEMMA TypeDrain == ASSUME TypeOK, FerryDrain PROVE TypeOK'
<1> USE DEF TypeOK, verdictVars
<1>1. ferry \in [at : {"write", "drain"}, tenant : Tenants, batch : SUBSET Cmds,
                 cmd : {NoOne}, got : {{}}]
  BY FerryShape DEF FerryDrain
<1>2. answers[ferry.tenant] \in SUBSET Results BY <1>1
<1>3. ferry' = [ferry EXCEPT !.at = "record", !.batch = {}, !.got = answers[ferry.tenant]]
  BY DEF FerryDrain
<1>4. ferry' \in FerryStates BY <1>1, <1>2, <1>3 DEF FerryStates
<1> QED BY <1>4 DEF FerryDrain

LEMMA TypeRecord == ASSUME TypeOK, FerryRecord PROVE TypeOK'
<1> USE DEF TypeOK, verdictVars
<1>1. ferry \in [at : {"record"}, tenant : Tenants, batch : {{}}, cmd : {NoOne},
                 got : SUBSET Results]
  BY FerryShape DEF FerryRecord
<1>2. faults' \in 0..MaxFaults BY FaultType DEF FerryRecord
<1>3. ferry' = Resting \/ \E r \in ferry.got : ferry' = [ferry EXCEPT !.got = @ \ {r}]
  BY DEF FerryRecord
<1>4. ferry' \in FerryStates BY <1>1, <1>3 DEF FerryStates, Resting
<1>5. rows' \in RowTable
  <2>1. rows \in RowTable BY DEF RowTable, Row
  <2>2. CASE UNCHANGED rows BY <2>1, <2>2
  <2>3. ASSUME NEW r \in Results,
               rows' = [rows EXCEPT ![r.cmd].done = TRUE, ![r.cmd].passed = r.passed]
        PROVE  rows' \in RowTable
    <3>1. r.cmd \in Cmds /\ r.passed \in BOOLEAN BY DEF Results
    <3> QED BY <2>3, <3>1, UpdateType
  <2> QED BY <2>2, <2>3, Recorded
<1> QED BY <1>2, <1>4, <1>5 DEF FerryRecord, RowTable, Row

LEMMA TypeVisit == ASSUME TypeOK, NEW t \in Tenants, FerryVisit(t) PROVE TypeOK'
<1>1. ferry' \in FerryStates
  <2>1. CASE ferry' = [Resting EXCEPT !.at = "drain", !.tenant = t]
    BY <2>1 DEF FerryStates, Resting
  <2>2. ASSUME NEW B \in OldestBatches(Unclaimed(t), Limit),
               ferry' = [Resting EXCEPT !.at = "write", !.tenant = t, !.batch = B]
        PROVE  ferry' \in FerryStates
    <3>1. B \subseteq Cmds BY DEF OldestBatches, Unclaimed
    <3>2. ferry' = [at |-> "write", tenant |-> t, batch |-> B, cmd |-> NoOne, got |-> {}]
      BY <2>2 DEF Resting
    <3> QED BY <3>1, <3>2 DEF FerryStates
  <2> QED BY <2>1, <2>2 DEF FerryVisit
<1>2. faults' \in 0..MaxFaults BY FaultType DEF FerryVisit, TypeOK
<1> QED BY <1>1, <1>2 DEF FerryVisit, TypeOK, verdictVars

(* However a probe ends, it lets go of its command or holds an answer, and *)
(* ran it once more or not; what landed or was misread stays so.           *)
LEMMA ProbeEnds ==
  ASSUME TypeOK, NEW t \in Tenants, Probe(t)
  PROVE  /\ worker[t].at = "took" /\ worker[t].cmd \in Cmds
         /\ \E at \in {"passed", "failed", "idle"} :
              Stays(t, at, IF at = "idle" THEN NoOne ELSE worker[t].cmd)
         /\ UNCHANGED runs \/ runs' = [runs EXCEPT ![worker[t].cmd] = @ + 1]
         /\ runs' \in [Cmds -> Nat]
         /\ landed' \in {landed, landed \cup {worker[t].cmd}} /\ landed' \subseteq Cmds
         /\ stale' \in {stale, stale \cup {worker[t].cmd}} /\ stale' \subseteq Cmds
         /\ (UNCHANGED faults) \/ \E k \in FaultKinds : Fault(k)
         /\ UNCHANGED <<hosted, posted, rows, home, answers, ferry>>
<1> USE DEF Probe, Declines, Concludes, ConcludesNothing, Throws, Reaches, Enters, verdictVars
<1>1. worker[t].at = "took" OBVIOUS
<1>2. worker[t].cmd \in Cmds BY <1>1 DEF TypeOK, WorkerStates
<1>3. \E at \in {"passed", "failed", "idle"} :
         Stays(t, at, IF at = "idle" THEN NoOne ELSE worker[t].cmd)
  <2>1. \A o : Says(o) \in {"passed", "failed"} BY DEF Says
  <2>2. CASE Throws(t) BY <2>2
  <2>3. CASE Declines(t) BY <2>3
  <2>4. ASSUME NEW o, Stays(t, Says(o), worker[t].cmd)
        PROVE  \E at \in {"passed", "failed", "idle"} :
                  Stays(t, at, IF at = "idle" THEN NoOne ELSE worker[t].cmd)
    BY <2>1, <2>4
  <2> QED BY <2>2, <2>3, <2>4
<1>4. UNCHANGED runs \/ runs' = [runs EXCEPT ![worker[t].cmd] = @ + 1] OBVIOUS
<1>5. runs' \in [Cmds -> Nat] BY <1>2, <1>4 DEF TypeOK
<1>6. /\ landed' \in {landed, landed \cup {worker[t].cmd}}
      /\ stale' \in {stale, stale \cup {worker[t].cmd}}
  OBVIOUS
<1>7. landed' \subseteq Cmds /\ stale' \subseteq Cmds BY <1>2, <1>6 DEF TypeOK
<1>8. (UNCHANGED faults) \/ \E k \in FaultKinds : Fault(k) BY DEF FaultKinds
<1> QED BY <1>1, <1>2, <1>3, <1>4, <1>5, <1>6, <1>7, <1>8

LEMMA TypeWorker ==
  ASSUME TypeOK, NEW t \in Tenants, Worker(t) \/ WorkerDies(t) PROVE TypeOK'
<1> USE DEF TypeOK, Stays, verdictVars
<1>1. CASE Spawn(t) BY <1>1 DEF Spawn, WorkerStates
<1>2. CASE Arm(t) BY <1>2 DEF Arm, WorkerStates
<1>3. CASE Claim(t) BY <1>3 DEF Claim, WorkerStates, OldestOf
<1>4. CASE Probe(t)
  <2>1. worker[t].cmd \in Cmds BY <1>4 DEF Probe, WorkerStates
  <2>2. faults' \in 0..MaxFaults
    BY <1>4, FaultType DEF Probe, Declines, Concludes, ConcludesNothing, Throws
  <2>3. PICK at \in {"passed", "failed", "idle"} :
             Stays(t, at, IF at = "idle" THEN NoOne ELSE worker[t].cmd)
    BY <1>4, ProbeEnds
  <2>4. worker' \in [Tenants -> WorkerStates] BY <2>1, <2>3 DEF WorkerStates
  <2>5. runs' \in [Cmds -> Nat] /\ landed' \subseteq Cmds /\ stale' \subseteq Cmds
    BY <1>4, <2>1, ProbeEnds
  <2> QED BY <1>4, <2>2, <2>4, <2>5 DEF Probe
<1>5. CASE Answer(t)
  <2>1. worker[t].cmd \in Cmds BY <1>5 DEF Answer, WorkerStates
  <2>2. faults' \in 0..MaxFaults BY <1>5, FaultType DEF Answer
  <2>3. worker' \in [Tenants -> WorkerStates] BY <1>5 DEF Answer, WorkerStates
  <2>4. [cmd |-> worker[t].cmd, passed |-> worker[t].at = "passed"] \in Results
    BY <2>1 DEF Results
  <2>5. answers' \in [Tenants -> SUBSET Results] BY <1>5, <2>4 DEF Answer
  <2> QED BY <1>5, <2>2, <2>3, <2>5 DEF Answer
<1>6. CASE WorkerDies(t) BY <1>6, FaultType DEF WorkerDies, WorkerStates
<1> QED BY <1>1, <1>2, <1>3, <1>4, <1>5, <1>6 DEF Worker

LEMMA TypeStep == TypeOK /\ [Next]_vars => TypeOK'
<1> SUFFICES ASSUME TypeOK, [Next]_vars PROVE TypeOK' OBVIOUS
<1>1. ASSUME NEW c \in Cmds, NEW t \in Tenants, PostHosted(c, t) PROVE TypeOK'
  BY <1>1, TypePost, FerryConstants DEF PostHosted
<1>2. ASSUME NEW c \in Cmds, NEW t \in Tenants, PostLocal(c, t) PROVE TypeOK'
  BY <1>2 DEF PostLocal, TypeOK, verdictVars
<1>3. ASSUME NEW c \in Cmds, NEW a \in Tenants \cup Accounts, Enqueue(c, a) PROVE TypeOK'
  BY <1>3, TypePost DEF Enqueue
<1>4. CASE OrchestratorDies
  BY <1>4, FaultType DEF OrchestratorDies, TypeOK, FerryStates, WorkerStates, Resting, verdictVars
<1>5. CASE UNCHANGED vars BY <1>5 DEF vars, verdictVars, TypeOK
<1> QED BY <1>1, <1>2, <1>3, <1>4, <1>5, TypeWrite, TypeMark, TypeDrain, TypeRecord, TypeVisit,
           TypeWorker DEF Next, Worker

(* Every variable keeps its type: what the ferry and the workers hold are  *)
(* commands, in the states where they hold any, and nothing else.          *)
THEOREM TypeCorrect == Spec => []TypeOK
<1>1. Init => TypeOK BY TypeInit
<1>2. TypeOK /\ [Next]_vars => TypeOK' BY TypeStep
<1> QED BY <1>1, <1>2, PTL DEF Spec

-----------------------------------------------------------------------------
(* At most once.                                                           *)

(* A command was handed to tenant t's worker and not answered yet.         *)
Holds(t, c) == worker[t].cmd = c

(* Where a further run of command c can still come from: a file in a home, *)
(* a worker that took it and has not probed, a row the ferry will deliver. *)
OnDisk(c) == IF \E t \in Tenants : c \in home[t] THEN 1 ELSE 0
Taken(c) == IF \E t \in Tenants : worker[t].at = "took" /\ Holds(t, c) THEN 1 ELSE 0
ToDeliver(c) == IF hosted /\ ~rows[c].claimed /\ ferry.cmd # c THEN 1 ELSE 0

Bound == IF hosted THEN 1 + faults ELSE 1

(* Self-hosted the ferry never leaves its rest.                            *)
FerryInv ==
  /\ ~hosted => ferry = Resting
  /\ \A c \in ferry.batch : rows[c].agent = ferry.tenant /\ ~rows[c].claimed
  /\ ferry.at = "mark" => ferry.cmd \in ferry.batch

(* A command nobody posted is nowhere.                                     *)
FreshInv ==
  \A c \in Cmds \ posted :
    /\ rows[c].agent = NoOne /\ ~rows[c].claimed
    /\ runs[c] = 0
    /\ \A t \in Tenants : c \notin home[t] /\ ~Holds(t, c)

(* Hosted, a command is only with the tenant its row names; self-hosted,   *)
(* it is in one place.                                                     *)
PlaceInv ==
  \A c \in Cmds, t \in Tenants :
    /\ hosted /\ (c \in home[t] \/ Holds(t, c)) => rows[c].agent = t
    /\ ~hosted /\ c \in home[t] => \A u \in Tenants : (c \in home[u] => u = t) /\ ~Holds(u, c)
    /\ ~hosted /\ Holds(t, c) => \A u \in Tenants : Holds(u, c) => u = t

CountInv == \A c \in Cmds : runs[c] + OnDisk(c) + Taken(c) + ToDeliver(c) <= Bound

OnceInv == TypeOK /\ FerryInv /\ FreshInv /\ PlaceInv /\ CountInv

LEMMA OnceInit == Init => OnceInv
<1> SUFFICES ASSUME Init PROVE OnceInv OBVIOUS
<1>1. TypeOK BY TypeInit
<1>2. FerryInv BY FerryConstants DEF Init, FerryInv, Resting
<1>3. FreshInv BY FerryConstants DEF Init, FreshInv, Holds
<1>4. PlaceInv BY FerryConstants DEF Init, PlaceInv, Holds
<1>5. CountInv BY FerryConstants DEF Init, CountInv, OnDisk, Taken, ToDeliver, Bound, Holds
<1> QED BY <1>1, <1>2, <1>3, <1>4, <1>5 DEF OnceInv

(* A step that opens no further source of a run keeps the count.           *)
LEMMA NoNewSource ==
  ASSUME OnceInv, TypeOK', runs' = runs, Bound <= Bound', Bound' \in Nat,
         NEW c \in Cmds,
         OnDisk(c)' <= OnDisk(c), Taken(c)' <= Taken(c), ToDeliver(c)' <= ToDeliver(c)
  PROVE  (runs[c] + OnDisk(c) + Taken(c) + ToDeliver(c) <= Bound)'
<1>1. runs[c] \in Nat /\ faults \in Nat /\ faults' \in Nat
  BY FerryConstants DEF OnceInv, TypeOK
<1>2. runs[c] + OnDisk(c) + Taken(c) + ToDeliver(c) <= Bound BY DEF OnceInv, CountInv
<1>3. OnDisk(c) \in Nat /\ Taken(c) \in Nat /\ ToDeliver(c) \in Nat /\ Bound \in Nat
  BY <1>1 DEF OnDisk, Taken, ToDeliver, Bound
<1>4. OnDisk(c)' \in Nat /\ Taken(c)' \in Nat
  BY DEF OnDisk, Taken
<1>5. ToDeliver(c)' \in Nat
  <2>1. CASE (hosted /\ ~rows[c].claimed /\ ferry.cmd # c)' BY <2>1 DEF ToDeliver
  <2>2. CASE ~(hosted /\ ~rows[c].claimed /\ ferry.cmd # c)' BY <2>2 DEF ToDeliver
  <2> QED BY <2>1, <2>2
<1> QED BY <1>1, <1>2, <1>3, <1>4, <1>5

(* The bound only grows: faults are counted, never forgotten.              *)
LEMMA BoundGrows ==
  ASSUME TypeOK, hosted' = hosted, (UNCHANGED faults) \/ (\E k \in FaultKinds : Fault(k))
  PROVE  Bound <= Bound' /\ Bound \in Nat /\ Bound' \in Nat
<1>1. faults \in Nat BY FerryConstants DEF TypeOK
<1>2. faults' = faults \/ faults' = faults + 1 BY DEF Fault
<1>3. CASE faults' = faults BY <1>1, <1>3 DEF Bound
<1>4. CASE faults' = faults + 1
  <2>1. faults + 1 \in Nat /\ faults <= faults + 1 BY <1>1
  <2> QED BY <1>1, <1>4, <2>1 DEF Bound
<1> QED BY <1>2, <1>3, <1>4

(* An interrupted delivery reopens one row, and is paid for by one fault.   *)
LEMMA RedeliveryCosts ==
  ASSUME OnceInv, TypeOK', hosted, UNCHANGED <<hosted, home, runs>>,
         NEW k \in FaultKinds, Fault(k), rows' = rows,
         NEW c \in Cmds, Taken(c)' <= Taken(c)
  PROVE  (runs[c] + OnDisk(c) + Taken(c) + ToDeliver(c) <= Bound)'
<1>1. runs[c] \in Nat /\ faults \in Nat BY FerryConstants DEF OnceInv, TypeOK
<1>2. Bound = 1 + faults /\ Bound' = 2 + faults BY <1>1 DEF Bound, Fault
<1>3. OnDisk(c)' = OnDisk(c) /\ OnDisk(c) \in Nat BY DEF OnDisk
<1>4. Taken(c) \in Nat /\ Taken(c)' \in Nat BY DEF Taken
<1>5. ToDeliver(c) \in Nat /\ ToDeliver(c)' <= 1 /\ ToDeliver(c)' \in Nat
  <2>1. ToDeliver(c) = 1 \/ ToDeliver(c) = 0 BY DEF ToDeliver
  <2>2. ToDeliver(c)' = 1 \/ ToDeliver(c)' = 0 BY DEF ToDeliver
  <2> QED BY <2>1, <2>2
<1>6. runs[c] + OnDisk(c) + Taken(c) + ToDeliver(c) <= Bound BY DEF OnceInv, CountInv
<1>7. runs[c]' = runs[c] OBVIOUS
<1> QED BY <1>1, <1>2, <1>3, <1>4, <1>5, <1>6, <1>7

LEMMA OncePost ==
  ASSUME OnceInv, TypeOK', hosted, NEW c \in Cmds, NEW a \in Tenants \cup Accounts, NewRow(c, a)
  PROVE  OnceInv'
<1> USE DEF OnceInv
<1>1. /\ c \notin posted /\ posted' = posted \cup {c}
      /\ \A d \in Cmds : rows'[d].claimed = rows[d].claimed
      /\ \A d \in Cmds : d # c => rows'[d].agent = rows[d].agent
      /\ UNCHANGED <<hosted, home, answers, worker, ferry, runs, faults>>
  BY DEF NewRow, TypeOK
<1>2. FerryInv'
  <2>1. ferry.batch \subseteq Cmds BY DEF TypeOK, FerryStates
  <2>2. c \notin ferry.batch \/ ferry = Resting
    <3>1. ASSUME c \in ferry.batch PROVE FALSE
      <4>1. rows[c].agent = NoOne BY <1>1 DEF FreshInv
      <4>2. ferry.tenant \in Tenants BY <3>1 DEF TypeOK, FerryStates
      <4> QED BY <3>1, <4>1, <4>2, FerryConstants DEF FerryInv
    <3> QED BY <3>1
  <2> QED BY <1>1, <2>1, <2>2 DEF FerryInv, Resting
<1>3. FreshInv' BY <1>1 DEF FreshInv, Holds
<1>4. PlaceInv' BY <1>1 DEF PlaceInv, Holds, FreshInv
<1>5. CountInv' BY <1>1 DEF CountInv, OnDisk, Taken, ToDeliver, Bound, Holds
<1> QED BY <1>2, <1>3, <1>4, <1>5

LEMMA OncePostLocal ==
  ASSUME OnceInv, TypeOK', NEW c \in Cmds, NEW t \in Tenants, PostLocal(c, t)
  PROVE  OnceInv'
<1> USE DEF OnceInv
<1>1. /\ ~hosted /\ c \notin posted /\ posted' = posted \cup {c}
      /\ \A d \in Cmds, u \in Tenants : d \in home'[u] <=> d \in home[u] \/ (d = c /\ u = t)
      /\ UNCHANGED <<hosted, rows, answers, worker, ferry, runs, faults>>
  BY DEF PostLocal, TypeOK
<1>2. FerryInv' BY <1>1 DEF FerryInv
<1>3. FreshInv' BY <1>1 DEF FreshInv, Holds
<1>4. PlaceInv' BY <1>1 DEF PlaceInv, Holds, FreshInv
<1>5. CountInv'
  <2>1. SUFFICES ASSUME NEW d \in Cmds
                 PROVE  (runs[d] + OnDisk(d) + Taken(d) + ToDeliver(d) <= Bound)'
    BY DEF CountInv
  <2>2. CASE d = c
    <3>1. runs'[c] = 0 /\ Taken(c)' = 0 /\ ToDeliver(c)' = 0 /\ Bound' = 1
      BY <1>1 DEF FreshInv, Holds, Taken, ToDeliver, Bound
    <3>2. OnDisk(c)' \in 0..1 BY DEF OnDisk
    <3> QED BY <2>2, <3>1, <3>2
  <2>3. CASE d # c
    BY <1>1, <2>3 DEF CountInv, OnDisk, Taken, ToDeliver, Bound, Holds
  <2> QED BY <2>2, <2>3
<1> QED BY <1>2, <1>3, <1>4, <1>5

LEMMA OnceVisit ==
  ASSUME OnceInv, TypeOK', NEW t \in Tenants, FerryVisit(t) PROVE OnceInv'
<1> USE DEF OnceInv
<1>1. /\ hosted /\ ferry = Resting
      /\ ferry'.cmd = NoOne /\ ferry'.at # "mark" /\ ferry'.tenant = t
      /\ ferry'.batch \subseteq Unclaimed(t)
      /\ UNCHANGED <<hosted, posted, rows, home, answers, worker, runs>>
  <2>1. ferry = Resting BY FerryShape DEF FerryVisit
  <2>2. CASE \E B \in OldestBatches(Unclaimed(t), Limit) :
               ferry' = [Resting EXCEPT !.at = "write", !.tenant = t, !.batch = B]
    BY <2>1, <2>2 DEF FerryVisit, Resting, OldestBatches
  <2>3. CASE ferry' = [Resting EXCEPT !.at = "drain", !.tenant = t]
    BY <2>1, <2>3 DEF FerryVisit, Resting
  <2> QED BY <2>2, <2>3 DEF FerryVisit
<1>2. FerryInv' BY <1>1 DEF FerryInv, Unclaimed
<1>3. FreshInv' BY <1>1 DEF FreshInv, Holds
<1>4. PlaceInv' BY <1>1 DEF PlaceInv, Holds
<1>5. CountInv'
  <2>1. SUFFICES ASSUME NEW d \in Cmds
                 PROVE  (runs[d] + OnDisk(d) + Taken(d) + ToDeliver(d) <= Bound)'
    BY DEF CountInv
  <2>2. Bound <= Bound' /\ Bound' \in Nat BY <1>1, BoundGrows DEF FerryVisit, FaultKinds
  <2>3. OnDisk(d)' <= OnDisk(d) /\ Taken(d)' <= Taken(d) /\ ToDeliver(d)' <= ToDeliver(d)
    BY <1>1 DEF OnDisk, Taken, ToDeliver, Holds, Resting
  <2> QED BY <1>1, <2>2, <2>3, NoNewSource
<1> QED BY <1>2, <1>3, <1>4, <1>5

LEMMA OnceWrite == ASSUME OnceInv, TypeOK', FerryWrite PROVE OnceInv'
<1> USE DEF OnceInv
<1>0. hosted
  <2>1. ferry.at = "write" /\ Resting.at = "rest" BY DEF FerryWrite, Resting
  <2> QED BY <2>1 DEF FerryInv
<1>1. ferry \in [at : {"write", "drain"}, tenant : Tenants, batch : SUBSET Cmds,
                 cmd : {NoOne}, got : {{}}]
  BY FerryShape DEF FerryWrite
<1>2. UNCHANGED <<hosted, posted, rows, answers, worker, runs>> BY DEF FerryWrite
<1>3. CASE \E c \in OldestOf(ferry.batch) :
             /\ home' = [home EXCEPT ![ferry.tenant] = @ \cup {c}]
             /\ ferry' = [ferry EXCEPT !.at = "mark", !.cmd = c]
             /\ UNCHANGED faults
  <2>1. PICK c \in ferry.batch :
             /\ home' = [home EXCEPT ![ferry.tenant] = @ \cup {c}]
             /\ ferry' = [ferry EXCEPT !.at = "mark", !.cmd = c]
             /\ UNCHANGED faults
    BY <1>3 DEF OldestOf
  <2>c. c \in ferry.batch OBVIOUS
  <2>2. c \in Cmds /\ rows[c].agent = ferry.tenant /\ ~rows[c].claimed /\ ferry.tenant \in Tenants
    BY <1>1 DEF FerryInv
  <2>3. \A d \in Cmds, u \in Tenants :
           d \in home'[u] <=> d \in home[u] \/ (d = c /\ u = ferry.tenant)
    BY <2>1, <2>2 DEF TypeOK
  <2>4. ferry'.at = "mark" /\ ferry'.cmd = c /\ ferry'.batch = ferry.batch
        /\ ferry'.tenant = ferry.tenant
    BY <1>1, <2>1
  <2>5. c \in posted
    BY <2>2, FerryConstants DEF FreshInv
  <2>6. FerryInv' BY <1>0, <1>2, <2>1, <2>4 DEF FerryInv
  <2>7. FreshInv' BY <1>2, <2>3, <2>5 DEF FreshInv, Holds
  <2>8. PlaceInv' BY <1>0, <1>2, <2>2, <2>3 DEF PlaceInv, Holds
  <2>9. CountInv'
    <3>1. SUFFICES ASSUME NEW d \in Cmds
                   PROVE  (runs[d] + OnDisk(d) + Taken(d) + ToDeliver(d) <= Bound)'
      BY DEF CountInv
    <3>2. CASE d = c
      <4>1. ToDeliver(c) = 1 /\ ToDeliver(c)' = 0
        BY <1>0, <1>1, <1>2, <2>2, <2>4, FerryConstants DEF ToDeliver
      <4>2. OnDisk(c)' <= 1 /\ OnDisk(c) >= 0 /\ OnDisk(c)' \in Nat /\ OnDisk(c) \in Nat
        BY DEF OnDisk
      <4>3. Taken(c)' = Taken(c) /\ Taken(c) \in Nat BY <1>2 DEF Taken, Holds
      <4>4. Bound' = Bound /\ Bound \in Nat /\ runs[c] \in Nat
        BY <1>2, <2>1, <2>2, FerryConstants DEF Bound, TypeOK
      <4>5. runs[c] + OnDisk(c) + Taken(c) + ToDeliver(c) <= Bound BY <2>2 DEF CountInv
      <4> QED BY <1>2, <3>2, <4>1, <4>2, <4>3, <4>4, <4>5
    <3>3. CASE d # c
      <4>1. OnDisk(d)' <= OnDisk(d) /\ Taken(d)' <= Taken(d)
        BY <1>2, <2>3, <3>3 DEF OnDisk, Taken, Holds
      <4>2. ToDeliver(d)' <= ToDeliver(d)
        BY <1>1, <1>2, <2>4, <3>3, FerryConstants DEF ToDeliver
      <4>3. Bound <= Bound' /\ Bound' \in Nat BY <1>2, <2>1, BoundGrows
      <4> QED BY <1>2, <4>1, <4>2, <4>3, NoNewSource
    <3> QED BY <3>2, <3>3
  <2> QED BY <2>6, <2>7, <2>8, <2>9
<1>4. CASE Fault("disk") /\ UNCHANGED home /\ ferry' = [ferry EXCEPT !.at = "drain", !.batch = {}]
  <2>1. ferry'.at = "drain" /\ ferry'.batch = {} /\ ferry'.cmd = NoOne BY <1>1, <1>4
  <2>2. FerryInv' BY <1>0, <1>2, <2>1 DEF FerryInv
  <2>3. FreshInv' BY <1>2, <1>4 DEF FreshInv, Holds
  <2>4. PlaceInv' BY <1>2, <1>4 DEF PlaceInv, Holds
  <2>5. CountInv'
    <3>1. SUFFICES ASSUME NEW d \in Cmds
                   PROVE  (runs[d] + OnDisk(d) + Taken(d) + ToDeliver(d) <= Bound)'
      BY DEF CountInv
    <3>2. Bound <= Bound' /\ Bound' \in Nat BY <1>2, <1>4, BoundGrows DEF FaultKinds
    <3>3. OnDisk(d)' <= OnDisk(d) /\ Taken(d)' <= Taken(d) /\ ToDeliver(d)' <= ToDeliver(d)
      BY <1>1, <1>2, <1>4, <2>1 DEF OnDisk, Taken, ToDeliver, Holds
    <3> QED BY <1>2, <3>2, <3>3, NoNewSource
  <2> QED BY <2>2, <2>3, <2>4, <2>5
<1> QED BY <1>3, <1>4 DEF FerryWrite

LEMMA OnceMark == ASSUME OnceInv, TypeOK', FerryMark PROVE OnceInv'
<1> USE DEF OnceInv
<1>0. hosted
  <2>1. ferry.at = "mark" /\ Resting.at = "rest" BY DEF FerryMark, Resting
  <2> QED BY <2>1 DEF FerryInv
<1>1. ferry \in [at : {"mark"}, tenant : Tenants, batch : SUBSET Cmds, cmd : Cmds, got : {{}}]
  BY FerryShape DEF FerryMark
<1>2. UNCHANGED <<hosted, posted, home, answers, worker, runs>> BY DEF FerryMark
<1>c. ferry.cmd \in Cmds /\ rows[ferry.cmd].agent = ferry.tenant /\ ferry.tenant \in Tenants
  BY <1>1 DEF FerryInv
<1>p. ferry.cmd \in posted BY <1>c, FerryConstants DEF FreshInv
<1>3. CASE /\ rows' = [rows EXCEPT ![ferry.cmd].claimed = TRUE]
           /\ ferry' = [ferry EXCEPT !.at = "write", !.cmd = NoOne, !.batch = @ \ {ferry.cmd}]
           /\ UNCHANGED faults
  <2>1. ferry'.at = "write" /\ ferry'.cmd = NoOne /\ ferry'.batch = ferry.batch \ {ferry.cmd}
        /\ ferry'.tenant = ferry.tenant
    BY <1>1, <1>3
  <2>2. /\ \A d \in Cmds : rows'[d].agent = rows[d].agent
        /\ \A d \in Cmds : d # ferry.cmd => rows'[d].claimed = rows[d].claimed
        /\ rows'[ferry.cmd].claimed
    BY <1>3, <1>c DEF TypeOK
  <2>3. FerryInv' BY <1>0, <1>1, <1>2, <2>1, <2>2 DEF FerryInv
  <2>4. FreshInv' BY <1>2, <1>p, <2>2 DEF FreshInv, Holds
  <2>5. PlaceInv' BY <1>2, <2>2 DEF PlaceInv, Holds
  <2>6. CountInv'
    <3>1. SUFFICES ASSUME NEW d \in Cmds
                   PROVE  (runs[d] + OnDisk(d) + Taken(d) + ToDeliver(d) <= Bound)'
      BY DEF CountInv
    <3>2. Bound <= Bound' /\ Bound' \in Nat BY <1>2, <1>3, BoundGrows
    <3>3. OnDisk(d)' <= OnDisk(d) /\ Taken(d)' <= Taken(d) BY <1>2 DEF OnDisk, Taken, Holds
    <3>4. ToDeliver(d)' <= ToDeliver(d) BY <1>2, <2>1, <2>2 DEF ToDeliver
    <3> QED BY <1>2, <3>2, <3>3, <3>4, NoNewSource
  <2> QED BY <2>3, <2>4, <2>5, <2>6
<1>4. CASE Fault("mark") /\ UNCHANGED rows
           /\ ferry' = [ferry EXCEPT !.at = "drain", !.cmd = NoOne, !.batch = {}]
  <2>1. ferry'.at = "drain" /\ ferry'.cmd = NoOne /\ ferry'.batch = {} BY <1>1, <1>4
  <2>2. FerryInv' BY <1>0, <1>2, <2>1 DEF FerryInv
  <2>3. FreshInv' BY <1>2, <1>4 DEF FreshInv, Holds
  <2>4. PlaceInv' BY <1>2, <1>4 DEF PlaceInv, Holds
  <2>5. CountInv'
    <3>1. SUFFICES ASSUME NEW d \in Cmds
                   PROVE  (runs[d] + OnDisk(d) + Taken(d) + ToDeliver(d) <= Bound)'
      BY DEF CountInv
    <3>2. Taken(d)' <= Taken(d) BY <1>2 DEF Taken, Holds
    <3> QED BY <1>0, <1>2, <1>4, <3>2, RedeliveryCosts DEF FaultKinds
  <2> QED BY <2>2, <2>3, <2>4, <2>5
<1> QED BY <1>3, <1>4 DEF FerryMark

LEMMA OnceDrain == ASSUME OnceInv, TypeOK', FerryDrain PROVE OnceInv'
<1> USE DEF OnceInv
<1>0. hosted
  <2>1. ferry.at \in {"write", "drain"} /\ Resting.at = "rest" BY DEF FerryDrain, Resting
  <2> QED BY <2>1 DEF FerryInv
<1>1. ferry \in [at : {"write", "drain"}, tenant : Tenants, batch : SUBSET Cmds,
                 cmd : {NoOne}, got : {{}}]
  BY FerryShape DEF FerryDrain
<1>2. ferry'.at = "record" /\ ferry'.cmd = NoOne /\ ferry'.batch = {} BY <1>1 DEF FerryDrain
<1>3. UNCHANGED <<hosted, posted, rows, home, worker, runs, faults>> BY DEF FerryDrain
<1>4. FerryInv' BY <1>0, <1>2, <1>3 DEF FerryInv
<1>5. FreshInv' BY <1>3 DEF FreshInv, Holds
<1>6. PlaceInv' BY <1>3 DEF PlaceInv, Holds
<1>7. CountInv'
  <2>1. SUFFICES ASSUME NEW d \in Cmds
                 PROVE  (runs[d] + OnDisk(d) + Taken(d) + ToDeliver(d) <= Bound)'
    BY DEF CountInv
  <2>2. Bound <= Bound' /\ Bound' \in Nat BY <1>3, BoundGrows
  <2>3. OnDisk(d)' <= OnDisk(d) /\ Taken(d)' <= Taken(d) BY <1>3 DEF OnDisk, Taken, Holds
  <2>4. ToDeliver(d)' <= ToDeliver(d) BY <1>1, <1>2, <1>3, FerryConstants DEF ToDeliver
  <2> QED BY <1>3, <2>2, <2>3, <2>4, NoNewSource
<1> QED BY <1>4, <1>5, <1>6, <1>7

(* Recording a result leaves the ferry at rest or at the results left.     *)
LEMMA RecordShrinks ==
  ASSUME TypeOK, FerryRecord
  PROVE  /\ ferry'.at # "mark" /\ ferry'.cmd = NoOne /\ ferry'.batch = {}
         /\ ferry'.got \subseteq ferry.got
<1>1. ferry \in [at : {"record"}, tenant : Tenants, batch : {{}}, cmd : {NoOne},
                 got : SUBSET Results]
  BY FerryShape DEF FerryRecord
<1>2. CASE ferry' = Resting BY <1>2 DEF Resting
<1>3. ASSUME NEW r \in ferry.got, ferry' = [ferry EXCEPT !.got = @ \ {r}]
      PROVE  /\ ferry'.at # "mark" /\ ferry'.cmd = NoOne /\ ferry'.batch = {}
             /\ ferry'.got \subseteq ferry.got
  BY <1>1, <1>3
<1>4. ferry' = Resting \/ \E r \in ferry.got : ferry' = [ferry EXCEPT !.got = @ \ {r}]
  BY DEF FerryRecord
<1> QED BY <1>2, <1>3, <1>4

LEMMA OnceRecord == ASSUME OnceInv, TypeOK', FerryRecord PROVE OnceInv'
<1> USE DEF OnceInv
<1>0. hosted
  <2>1. ferry.at = "record" /\ Resting.at = "rest" BY DEF FerryRecord, Resting
  <2> QED BY <2>1 DEF FerryInv
<1>1. ferry \in [at : {"record"}, tenant : Tenants, batch : {{}}, cmd : {NoOne},
                 got : SUBSET Results]
  BY FerryShape DEF FerryRecord
<1>2. UNCHANGED <<hosted, posted, home, worker, runs>>
      /\ (UNCHANGED faults \/ Fault("record"))
  BY DEF FerryRecord
<1>3. ferry'.at # "mark" /\ ferry'.cmd = NoOne /\ ferry'.batch = {}
  BY <1>1, RecordShrinks
<1>4. \A d \in Cmds : rows'[d].agent = rows[d].agent /\ rows'[d].claimed = rows[d].claimed
  <2>1. ASSUME NEW r \in Results,
               rows' = [rows EXCEPT ![r.cmd].done = TRUE, ![r.cmd].passed = r.passed]
        PROVE  \A d \in Cmds :
                  rows'[d].agent = rows[d].agent /\ rows'[d].claimed = rows[d].claimed
    <3>1. r.cmd \in Cmds BY DEF Results
    <3> QED BY <2>1, <3>1 DEF TypeOK
  <2>2. CASE UNCHANGED rows BY <2>2
  <2> QED BY <2>1, <2>2, Recorded
<1>5. FerryInv' BY <1>0, <1>2, <1>3 DEF FerryInv
<1>6. FreshInv' BY <1>2, <1>4 DEF FreshInv, Holds
<1>7. PlaceInv' BY <1>2, <1>4 DEF PlaceInv, Holds
<1>8. CountInv'
  <2>1. SUFFICES ASSUME NEW d \in Cmds
                 PROVE  (runs[d] + OnDisk(d) + Taken(d) + ToDeliver(d) <= Bound)'
    BY DEF CountInv
  <2>2. Bound <= Bound' /\ Bound' \in Nat BY <1>2, BoundGrows DEF FaultKinds
  <2>3. OnDisk(d)' <= OnDisk(d) /\ Taken(d)' <= Taken(d) BY <1>2 DEF OnDisk, Taken, Holds
  <2>4. ToDeliver(d)' <= ToDeliver(d) BY <1>1, <1>2, <1>3, <1>4, FerryConstants DEF ToDeliver
  <2> QED BY <1>2, <2>2, <2>3, <2>4, NoNewSource
<1> QED BY <1>5, <1>6, <1>7, <1>8

(* A worker that gets into a state where it holds nothing.                 *)
LEMMA OnceLetsGo ==
  ASSUME OnceInv, TypeOK', NEW t \in Tenants, NEW at \in {"down", "booting", "idle"},
         worker' = [worker EXCEPT ![t] = [at |-> at, cmd |-> NoOne]],
         UNCHANGED <<hosted, posted, rows, home, ferry, runs>>,
         (UNCHANGED faults) \/ (\E k \in FaultKinds : Fault(k))
  PROVE  OnceInv'
<1> USE DEF OnceInv
<1>1. \A c \in Cmds, u \in Tenants :
         /\ Holds(u, c)' => Holds(u, c)
         /\ (worker[u].at = "took" /\ Holds(u, c))' => worker[u].at = "took" /\ Holds(u, c)
  BY FerryConstants DEF Holds, TypeOK
<1>2. FerryInv' BY DEF FerryInv
<1>3. FreshInv' BY <1>1 DEF FreshInv
<1>4. PlaceInv' BY <1>1 DEF PlaceInv
<1>5. CountInv'
  <2>1. SUFFICES ASSUME NEW d \in Cmds
                 PROVE  (runs[d] + OnDisk(d) + Taken(d) + ToDeliver(d) <= Bound)'
    BY DEF CountInv
  <2>2. Bound <= Bound' /\ Bound' \in Nat BY BoundGrows
  <2>3. OnDisk(d)' <= OnDisk(d) /\ ToDeliver(d)' <= ToDeliver(d) BY DEF OnDisk, ToDeliver
  <2>4. Taken(d)' <= Taken(d) BY <1>1 DEF Taken
  <2> QED BY <2>2, <2>3, <2>4, NoNewSource
<1> QED BY <1>2, <1>3, <1>4, <1>5

LEMMA OnceClaim ==
  ASSUME OnceInv, TypeOK', NEW t \in Tenants, Claim(t) PROVE OnceInv'
<1> USE DEF OnceInv
<1>1. PICK c \in home[t] : /\ home' = [home EXCEPT ![t] = @ \ {c}]
                           /\ worker' = [worker EXCEPT ![t] = [at |-> "took", cmd |-> c]]
  BY DEF Claim, OldestOf, Stays
<1>2. c \in Cmds /\ worker[t].at = "idle" BY <1>1 DEF TypeOK, Claim
<1>3. UNCHANGED <<hosted, posted, rows, ferry, runs, faults>> BY DEF Claim
<1>4. \A d \in Cmds, u \in Tenants :
         /\ d \in home'[u] <=> d \in home[u] /\ ~(d = c /\ u = t)
         /\ Holds(u, d)' <=> IF u = t THEN d = c ELSE Holds(u, d)
         /\ u # t => worker'[u] = worker[u]
  BY <1>1, <1>2 DEF TypeOK, Holds
<1>5. \A d \in Cmds : ~Holds(t, d)
  <2>1. worker[t].cmd = NoOne BY <1>2 DEF TypeOK, WorkerStates
  <2> QED BY <2>1, FerryConstants DEF Holds
<1>6. c \in posted BY <1>1, <1>2 DEF FreshInv
<1>7. FerryInv' BY <1>3 DEF FerryInv
<1>8. FreshInv' BY <1>3, <1>4, <1>6 DEF FreshInv
<1>9. \A u \in Tenants : c \notin home'[u] /\ (Holds(u, c)' => u = t \/ Holds(u, c))
  BY <1>1, <1>2, <1>4 DEF PlaceInv
<1>10. PlaceInv'
  <2>1. CASE hosted BY <1>1, <1>2, <1>3, <1>4, <2>1 DEF PlaceInv
  <2>2. CASE ~hosted BY <1>1, <1>2, <1>3, <1>4, <1>9, <2>2 DEF PlaceInv
  <2> QED BY <2>1, <2>2
<1>11. CountInv'
  <2>1. SUFFICES ASSUME NEW d \in Cmds
                 PROVE  (runs[d] + OnDisk(d) + Taken(d) + ToDeliver(d) <= Bound)'
    BY DEF CountInv
  <2>2. Bound <= Bound' /\ Bound \in Nat /\ Bound' \in Nat BY <1>3, BoundGrows
  <2>3. ToDeliver(d)' = ToDeliver(d) /\ ToDeliver(d) \in Nat BY <1>3 DEF ToDeliver
  <2>4. CASE d = c
    <3>1. OnDisk(c) = 1 /\ OnDisk(c)' = 0 BY <1>1, <1>9 DEF OnDisk
    <3>2. Taken(c)' <= 1 /\ Taken(c)' \in Nat /\ Taken(c) \in Nat BY DEF Taken
    <3>3. runs[c] \in Nat /\ runs'[c] = runs[c] BY <1>2, <1>3 DEF TypeOK
    <3>4. runs[c] + OnDisk(c) + Taken(c) + ToDeliver(c) <= Bound BY <1>2 DEF CountInv
    <3>5. Taken(c) = 0 \/ Taken(c) >= 1 BY <3>2
    <3> QED BY <2>2, <2>3, <2>4, <3>1, <3>2, <3>3, <3>4, <3>5
  <2>5. CASE d # c
    <3>1. OnDisk(d)' <= OnDisk(d) BY <1>4, <2>5 DEF OnDisk
    <3>2. Taken(d)' <= Taken(d) BY <1>4, <1>5, <2>5 DEF Taken, Holds
    <3> QED BY <1>3, <2>2, <2>3, <3>1, <3>2, NoNewSource
  <2> QED BY <2>4, <2>5
<1> QED BY <1>7, <1>8, <1>10, <1>11

(* The command is not taken any more, and was run at most once more.       *)
LEMMA OnceProbe ==
  ASSUME OnceInv, TypeOK', NEW t \in Tenants, NEW c \in Cmds,
         worker[t].at = "took", worker[t].cmd = c,
         UNCHANGED runs \/ runs' = [runs EXCEPT ![c] = @ + 1],
         NEW at \in {"passed", "failed", "idle"},
         worker' = [worker EXCEPT ![t] = [at |-> at, cmd |-> IF at = "idle" THEN NoOne ELSE c]],
         UNCHANGED <<hosted, posted, rows, home, ferry>>,
         (UNCHANGED faults) \/ (\E k \in FaultKinds : Fault(k))
  PROVE  OnceInv'
<1> USE DEF OnceInv
<1>1. \A d \in Cmds, u \in Tenants :
         /\ Holds(u, d)' => Holds(u, d)
         /\ worker'[u].at = "took" => u # t /\ worker[u].at = "took"
  BY FerryConstants DEF Holds, TypeOK
<1>2. FerryInv' BY DEF FerryInv
<1>3. c \in posted BY DEF FreshInv, Holds
<1>4. \A d \in Cmds : runs'[d] = runs[d] \/ (d = c /\ runs'[d] = runs[d] + 1) BY DEF TypeOK
<1>5. FreshInv' BY <1>1, <1>3, <1>4 DEF FreshInv
<1>6. PlaceInv' BY <1>1 DEF PlaceInv
<1>7. CountInv'
  <2>1. SUFFICES ASSUME NEW d \in Cmds
                 PROVE  (runs[d] + OnDisk(d) + Taken(d) + ToDeliver(d) <= Bound)'
    BY DEF CountInv
  <2>2. Bound <= Bound' /\ Bound \in Nat /\ Bound' \in Nat BY BoundGrows
  <2>3. ToDeliver(d)' = ToDeliver(d) /\ ToDeliver(d) \in Nat BY DEF ToDeliver
  <2>4. OnDisk(d)' = OnDisk(d) /\ OnDisk(d) \in Nat BY DEF OnDisk
  <2>5. runs[d] \in Nat /\ runs[d] + OnDisk(d) + Taken(d) + ToDeliver(d) <= Bound
    BY DEF CountInv, TypeOK
  <2>6. CASE d = c
    <3>1. Taken(c) = 1 BY DEF Taken, Holds
    <3>2. Taken(c)' = 0
      <4>1. \A u \in Tenants : Holds(u, c) => u = t
        <5>1. CASE hosted BY <5>1 DEF PlaceInv, Holds
        <5>2. CASE ~hosted BY <5>2 DEF PlaceInv, Holds
        <5> QED BY <5>1, <5>2
      <4>2. ~\E u \in Tenants : (worker[u].at = "took" /\ Holds(u, c))' BY <1>1, <4>1
      <4> QED BY <4>2 DEF Taken
    <3> QED BY <1>4, <2>2, <2>3, <2>4, <2>5, <2>6, <3>1, <3>2
  <2>7. CASE d # c
    <3>1. Taken(d)' <= Taken(d) /\ Taken(d) \in Nat /\ Taken(d)' \in Nat BY <1>1 DEF Taken
    <3> QED BY <1>4, <2>2, <2>3, <2>4, <2>5, <2>7, <3>1
  <2> QED BY <2>6, <2>7
<1> QED BY <1>2, <1>5, <1>6, <1>7

LEMMA OnceWorker ==
  ASSUME OnceInv, TypeOK', NEW t \in Tenants, Worker(t) \/ WorkerDies(t) PROVE OnceInv'
<1>1. CASE Spawn(t) BY <1>1, OnceLetsGo DEF Spawn, Stays
<1>2. CASE Arm(t) BY <1>2, OnceLetsGo DEF Arm, Stays
<1>3. CASE Claim(t) BY <1>3, OnceClaim
<1>4. CASE Probe(t)
  <2>0. TypeOK BY DEF OnceInv
  <2>1. PICK at \in {"passed", "failed", "idle"} :
             Stays(t, at, IF at = "idle" THEN NoOne ELSE worker[t].cmd)
    BY <1>4, <2>0, ProbeEnds
  <2>2. /\ worker[t].at = "took" /\ worker[t].cmd \in Cmds
        /\ UNCHANGED runs \/ runs' = [runs EXCEPT ![worker[t].cmd] = @ + 1]
        /\ (UNCHANGED faults) \/ \E k \in FaultKinds : Fault(k)
        /\ UNCHANGED <<hosted, posted, rows, home, ferry>>
    BY <1>4, <2>0, ProbeEnds
  <2> QED BY <2>1, <2>2, OnceProbe DEF Stays
<1>5. CASE Answer(t) BY <1>5, OnceLetsGo DEF Answer, Stays, FaultKinds
<1>6. CASE WorkerDies(t) BY <1>6, OnceLetsGo DEF WorkerDies, Stays, FaultKinds
<1> QED BY <1>1, <1>2, <1>3, <1>4, <1>5, <1>6 DEF Worker

LEMMA OnceOrchestrator == ASSUME OnceInv, TypeOK', OrchestratorDies PROVE OnceInv'
<1> USE DEF OnceInv
<1>1. hosted /\ ferry' = Resting /\ Fault("orchestrator")
      /\ UNCHANGED <<hosted, posted, rows, home, runs>>
  BY DEF OrchestratorDies
<1>2. \A c \in Cmds, u \in Tenants : ~Holds(u, c)'
  BY FerryConstants DEF OrchestratorDies, Holds
<1>3. FerryInv' BY <1>1 DEF FerryInv, Resting
<1>4. FreshInv' BY <1>1, <1>2 DEF FreshInv
<1>5. PlaceInv' BY <1>1, <1>2 DEF PlaceInv
<1>6. CountInv'
  <2>1. SUFFICES ASSUME NEW d \in Cmds
                 PROVE  (runs[d] + OnDisk(d) + Taken(d) + ToDeliver(d) <= Bound)'
    BY DEF CountInv
  <2>2. Taken(d)' = 0 BY <1>2 DEF Taken
  <2>3. Taken(d)' <= Taken(d) BY <2>2 DEF Taken
  <2> QED BY <1>1, <2>3, RedeliveryCosts DEF FaultKinds
<1> QED BY <1>3, <1>4, <1>5, <1>6

LEMMA OnceStep == OnceInv /\ [Next]_vars => OnceInv'
<1> SUFFICES ASSUME OnceInv, [Next]_vars PROVE OnceInv' OBVIOUS
<1>t. TypeOK' BY TypeStep DEF OnceInv
<1>1. ASSUME NEW c \in Cmds, NEW t \in Tenants, PostHosted(c, t) PROVE OnceInv'
  BY <1>1, <1>t, OncePost, FerryConstants DEF PostHosted
<1>2. ASSUME NEW c \in Cmds, NEW t \in Tenants, PostLocal(c, t) PROVE OnceInv'
  BY <1>2, <1>t, OncePostLocal
<1>3. ASSUME NEW c \in Cmds, NEW a \in Tenants \cup Accounts, Enqueue(c, a) PROVE OnceInv'
  BY <1>3, <1>t, OncePost DEF Enqueue
<1>4. CASE OrchestratorDies BY <1>4, <1>t, OnceOrchestrator
<1>5. CASE UNCHANGED vars
  BY <1>5 DEF vars, OnceInv, TypeOK, FerryInv, FreshInv, PlaceInv, CountInv, OnDisk, Taken,
              ToDeliver, Bound, Holds
<1> QED BY <1>1, <1>2, <1>3, <1>4, <1>5, <1>t, OnceWrite, OnceMark, OnceDrain, OnceRecord,
           OnceVisit, OnceWorker DEF Next, Worker

LEMMA OnceAlways == Spec => []OnceInv
<1>1. Init => OnceInv BY OnceInit
<1>2. OnceInv /\ [Next]_vars => OnceInv' BY OnceStep
<1> QED BY <1>1, <1>2, PTL DEF Spec

(* A command's probe runs once, plus at most once for each fault of a      *)
(* hosted deployment; self-hosted it never runs twice.                     *)
THEOREM ProbesAreBounded == Spec => []RunsBounded
<1>1. OnceInv => RunsBounded
  <2> SUFFICES ASSUME OnceInv, NEW c \in Cmds PROVE runs[c] <= IF hosted THEN 1 + faults ELSE 1
    BY DEF RunsBounded
  <2>1. runs[c] + OnDisk(c) + Taken(c) + ToDeliver(c) <= Bound BY DEF OnceInv, CountInv
  <2>2. runs[c] \in Nat /\ faults \in Nat BY FerryConstants DEF OnceInv, TypeOK
  <2>3. OnDisk(c) \in Nat /\ Taken(c) \in Nat BY DEF OnDisk, Taken
  <2>4. ToDeliver(c) \in Nat
    <3>1. ToDeliver(c) = 0 \/ ToDeliver(c) = 1 BY DEF ToDeliver
    <3> QED BY <3>1
  <2>5. Bound \in Nat
    <3>1. CASE hosted BY <2>2, <3>1 DEF Bound
    <3>2. CASE ~hosted BY <3>2 DEF Bound
    <3> QED BY <3>1, <3>2
  <2>6. runs[c] <= Bound BY <2>1, <2>2, <2>3, <2>4, <2>5
  <2> QED BY <2>6 DEF Bound
<1> QED BY <1>1, OnceAlways, PTL

(* What the worker took and the table has marked is over: no interleaving  *)
(* and no fault brings the command back or runs its probe again.           *)
THEOREM NothingIsRevived == Spec => NeverRevived
<1>1. OnceInv /\ [Next]_vars => \A c \in Cmds : Consumed(c) => Consumed(c)' /\ runs'[c] = runs[c]
  <2> SUFFICES ASSUME OnceInv, [Next]_vars, NEW c \in Cmds, Consumed(c)
               PROVE  Consumed(c)' /\ runs'[c] = runs[c]
    OBVIOUS
  <2> USE DEF Consumed, OnceInv
  <2>1. ASSUME NEW d \in Cmds, NEW a \in Tenants \cup Accounts, NewRow(d, a)
        PROVE  Consumed(c)' /\ runs'[c] = runs[c]
    BY <2>1 DEF NewRow, TypeOK
  <2>2. ASSUME NEW d \in Cmds, NEW t \in Tenants, PostLocal(d, t)
        PROVE  Consumed(c)' /\ runs'[c] = runs[c]
    BY <2>2 DEF PostLocal, TypeOK
  <2>3. ASSUME NEW t \in Tenants, FerryVisit(t) PROVE Consumed(c)' /\ runs'[c] = runs[c]
    BY <2>3 DEF FerryVisit
  <2>4. CASE FerryWrite
    <3>1. ferry.at = "write" /\ Resting.at = "rest" BY <2>4 DEF FerryWrite, Resting
    <3>2. hosted BY <3>1 DEF FerryInv
    <3>3. c \notin ferry.batch BY <3>2 DEF FerryInv
    <3>4. ferry.tenant \in Tenants BY <3>1, FerryShape
    <3>5. \/ UNCHANGED home
          \/ \E d \in ferry.batch : home' = [home EXCEPT ![ferry.tenant] = @ \cup {d}]
      BY <2>4 DEF FerryWrite, OldestOf
    <3>6. \A t \in Tenants : c \notin home'[t] BY <3>3, <3>4, <3>5 DEF TypeOK
    <3> QED BY <2>4, <3>6 DEF FerryWrite
  <2>5. CASE FerryMark
    <3>1. hosted => rows'[c].claimed BY <2>5 DEF FerryMark, TypeOK
    <3> QED BY <2>5, <3>1 DEF FerryMark
  <2>6. CASE FerryDrain BY <2>6 DEF FerryDrain
  <2>7. CASE FerryRecord
    <3>1. hosted => rows'[c].claimed
      <4>1. ASSUME NEW r \in Results,
                   rows' = [rows EXCEPT ![r.cmd].done = TRUE, ![r.cmd].passed = r.passed]
            PROVE  rows'[c].claimed = rows[c].claimed
        <5>1. r.cmd \in Cmds BY DEF Results
        <5> QED BY <4>1, <5>1 DEF TypeOK
      <4> QED BY <2>7, <4>1, Recorded
    <3> QED BY <2>7, <3>1 DEF FerryRecord
  <2>8. ASSUME NEW t \in Tenants, Worker(t) \/ WorkerDies(t)
        PROVE  Consumed(c)' /\ runs'[c] = runs[c]
    <3> USE FerryConstants DEF Stays, TypeOK
    <3>1. CASE Spawn(t) BY <2>8, <3>1 DEF Spawn
    <3>2. CASE Arm(t) BY <2>8, <3>2 DEF Arm
    <3>3. CASE Claim(t) BY <2>8, <3>3 DEF Claim, OldestOf
    <3>4. CASE Probe(t)
      <4>1. PICK at \in {"passed", "failed", "idle"} :
                 Stays(t, at, IF at = "idle" THEN NoOne ELSE worker[t].cmd)
        BY <3>4, ProbeEnds
      <4>2. /\ worker[t].cmd \in Cmds
            /\ UNCHANGED runs \/ runs' = [runs EXCEPT ![worker[t].cmd] = @ + 1]
            /\ UNCHANGED <<hosted, posted, rows, home>>
        BY <3>4, ProbeEnds
      <4>3. worker[t].cmd # c OBVIOUS
      <4>4. \A u \in Tenants : worker'[u].cmd # c BY <4>1, <4>3
      <4> QED BY <4>2, <4>3, <4>4
    <3>5. CASE Answer(t) BY <2>8, <3>5 DEF Answer
    <3>6. CASE WorkerDies(t) BY <2>8, <3>6 DEF WorkerDies
    <3> QED BY <2>8, <3>1, <3>2, <3>3, <3>4, <3>5, <3>6 DEF Worker
  <2>9. CASE OrchestratorDies BY <2>9, FerryConstants DEF OrchestratorDies
  <2>10. CASE UNCHANGED vars BY <2>10 DEF vars
  <2> QED BY <2>1, <2>2, <2>3, <2>4, <2>5, <2>6, <2>7, <2>8, <2>9, <2>10, FerryConstants
          DEF Next, PostHosted, Enqueue, Worker
<1> QED BY <1>1, OnceAlways, PTL DEF Spec, NeverRevived

-----------------------------------------------------------------------------
(* What the page reports.                                                  *)

(* Commands the page may call PASSED.                                      *)
Explained == landed \cup stale

(* A PASSED is born with an operation that landed, and only travels from   *)
(* there: from the worker to its home, with the ferry, into the row.       *)
PassInv ==
  /\ TypeOK
  /\ \A t \in Tenants : worker[t].at = "passed" => worker[t].cmd \in Explained
  /\ \A t \in Tenants : \A r \in answers[t] : r.passed => r.cmd \in Explained
  /\ \A r \in ferry.got : r.passed => r.cmd \in Explained
  /\ \A c \in Cmds : rows[c].done /\ rows[c].passed => c \in Explained

(* A worker says so of its own landing, or because nothing was recorded.   *)
LEMMA PassProbe ==
  ASSUME TypeOK, NEW t \in Tenants, Probe(t), worker'[t].at = "passed"
  PROVE  worker'[t].cmd = worker[t].cmd /\ worker[t].cmd \in Explained'
<1> USE DEF Probe, Stays, TypeOK
<1>1. ~Declines(t) BY DEF Declines
<1>2. CASE ConcludesNothing(t) BY <1>2 DEF ConcludesNothing, Explained
<1>3. ~Throws(t) BY DEF Throws
<1>4. ASSUME NEW outcome \in {"landed", "other"}, Concludes(t, outcome)
      PROVE  worker'[t].cmd = worker[t].cmd /\ worker[t].cmd \in Explained'
  <2>1. outcome = "landed" BY <1>4 DEF Concludes, Says
  <2> QED BY <1>4, <2>1 DEF Concludes, Says, Explained
<1> QED BY <1>1, <1>2, <1>3, <1>4

LEMMA PassStep ==
  PassInv /\ [Next]_vars => PassInv'
<1> SUFFICES ASSUME PassInv, [Next]_vars PROVE PassInv' OBVIOUS
<1> USE DEF PassInv, Explained, verdictVars
<1>t. TypeOK' BY TypeStep
<1>1. ASSUME NEW d \in Cmds, NEW a \in Tenants \cup Accounts, NewRow(d, a) PROVE PassInv'
  <2>1. \A c \in Cmds : rows'[c].done = rows[c].done /\ rows'[c].passed = rows[c].passed
    BY <1>1 DEF NewRow, TypeOK
  <2> QED BY <1>1, <1>t, <2>1 DEF NewRow
<1>2. ASSUME NEW d \in Cmds, NEW t \in Tenants, PostLocal(d, t) PROVE PassInv'
  BY <1>2, <1>t DEF PostLocal
<1>3. ASSUME NEW t \in Tenants, FerryVisit(t) PROVE PassInv'
  <2>1. ferry'.got = {} BY <1>3 DEF FerryVisit, Resting
  <2> QED BY <1>3, <1>t, <2>1 DEF FerryVisit
<1>4. CASE FerryWrite
  <2>1. ferry'.got = ferry.got BY <1>4, FerryShape DEF FerryWrite
  <2> QED BY <1>4, <1>t, <2>1 DEF FerryWrite
<1>5. CASE FerryMark
  <2>1. ferry'.got = ferry.got BY <1>5, FerryShape DEF FerryMark
  <2>2. \A c \in Cmds : rows'[c].done = rows[c].done /\ rows'[c].passed = rows[c].passed
    BY <1>5 DEF FerryMark, TypeOK
  <2> QED BY <1>5, <1>t, <2>1, <2>2 DEF FerryMark
<1>6. CASE FerryDrain
  <2>1. ferry.tenant \in Tenants BY <1>6, FerryShape DEF FerryDrain
  <2>2. ferry'.got = answers[ferry.tenant] BY <1>6, FerryShape DEF FerryDrain
  <2>3. \A t \in Tenants : answers'[t] \subseteq answers[t] BY <1>6, <2>1 DEF FerryDrain, TypeOK
  <2> QED BY <1>6, <1>t, <2>1, <2>2, <2>3 DEF FerryDrain
<1>7. CASE FerryRecord
  <2>1. ferry \in [at : {"record"}, tenant : Tenants, batch : {{}}, cmd : {NoOne},
                   got : SUBSET Results]
    BY <1>7, FerryShape DEF FerryRecord
  <2>2. ferry'.got \subseteq ferry.got BY <1>7, RecordShrinks
  <2>3. \A c \in Cmds : rows'[c].done /\ rows'[c].passed => c \in Explained
    <3>1. CASE UNCHANGED rows BY <3>1
    <3>2. ASSUME NEW r \in ferry.got, r \in Results,
                 rows' = [rows EXCEPT ![r.cmd].done = TRUE, ![r.cmd].passed = r.passed]
          PROVE  \A c \in Cmds : rows'[c].done /\ rows'[c].passed => c \in Explained
      <4>1. r.cmd \in Cmds BY <3>2 DEF Results
      <4>2. rows'[r.cmd].passed = r.passed BY <3>2, <4>1 DEF TypeOK
      <4>3. \A c \in Cmds : c # r.cmd => rows'[c] = rows[c] BY <3>2 DEF TypeOK
      <4>4. r.passed => r.cmd \in Explained OBVIOUS
      <4> QED BY <4>2, <4>3, <4>4
    <3> QED BY <1>7, <3>1, <3>2, Recorded
  <2> QED BY <1>7, <1>t, <2>1, <2>2, <2>3 DEF FerryRecord
<1>8. ASSUME NEW t \in Tenants, Worker(t) \/ WorkerDies(t) PROVE PassInv'
  <2> USE <1>t DEF Stays, TypeOK
  <2>1. CASE Spawn(t) BY <2>1 DEF Spawn
  <2>2. CASE Arm(t) BY <2>2 DEF Arm
  <2>3. CASE Claim(t) BY <2>3 DEF Claim
  <2>4. CASE Probe(t)
    <3>1. Explained \subseteq Explained' /\ UNCHANGED <<rows, answers, ferry>>
      BY <2>4, ProbeEnds
    <3>2. \A u \in Tenants : u # t => worker'[u] = worker[u]
      BY <2>4, ProbeEnds
    <3>3. \A u \in Tenants : worker'[u].at = "passed" => worker'[u].cmd \in Explained'
      BY <2>4, <3>1, <3>2, PassProbe
    <3> QED BY <3>1, <3>3
  <2>5. CASE Answer(t)
    <3>1. \A u \in Tenants : \A r \in answers'[u] :
             r \in answers[u] \/ (r.passed => worker[t].at = "passed" /\ r.cmd = worker[t].cmd)
      <4>1. CASE UNCHANGED answers BY <4>1
      <4>2. CASE answers' = [answers EXCEPT ![t] = {r \in @ : r.cmd # worker[t].cmd}
                               \cup {[cmd |-> worker[t].cmd, passed |-> worker[t].at = "passed"]}]
        <5>1. \A u \in Tenants : u # t => answers'[u] = answers[u] BY <4>2
        <5>2. answers'[t] = {r \in answers[t] : r.cmd # worker[t].cmd}
                \cup {[cmd |-> worker[t].cmd, passed |-> worker[t].at = "passed"]}
          BY <4>2, <1>8
        <5>3. \A r \in answers'[t] :
                 r \in answers[t] \/ (r.passed => worker[t].at = "passed" /\ r.cmd = worker[t].cmd)
          <6> DEFINE own == [cmd |-> worker[t].cmd, passed |-> worker[t].at = "passed"]
          <6>1. own.cmd = worker[t].cmd /\ (own.passed => worker[t].at = "passed") OBVIOUS
          <6>2. \A r \in answers'[t] : r \in answers[t] \/ r = own BY <5>2
          <6> QED BY <6>1, <6>2
        <5> QED BY <5>1, <5>3
      <4> QED BY <2>5, <4>1, <4>2 DEF Answer
    <3>2. UNCHANGED <<landed, stale, rows, ferry>> BY <2>5 DEF Answer
    <3>3. \A u \in Tenants : worker'[u].at = "passed" => worker'[u] = worker[u]
      BY <2>5 DEF Answer
    <3> QED BY <3>1, <3>2, <3>3
  <2>6. CASE WorkerDies(t) BY <2>6 DEF WorkerDies
  <2> QED BY <1>8, <2>1, <2>2, <2>3, <2>4, <2>5, <2>6 DEF Worker
<1>9. CASE OrchestratorDies BY <1>9, <1>t DEF OrchestratorDies, Resting
<1>10. CASE UNCHANGED vars BY <1>10, <1>t DEF vars
<1> QED BY <1>1, <1>2, <1>3, <1>4, <1>5, <1>6, <1>7, <1>8, <1>9, <1>10, FerryConstants
        DEF Next, PostHosted, Enqueue, Worker

(* Where the pipeline recorded how a probe ended, the page says PASSED     *)
(* only of a command whose own operation landed, however results and their *)
(* transport are lost, repeated or interrupted: no fault makes one up.     *)
THEOREM PassesAreEarned ==
  Spec => []PassWasEarned
<1>1. Init => PassInv BY TypeInit DEF Init, PassInv, Resting
<1>2. PassInv /\ [Next]_vars => PassInv' BY PassStep
<1>3. PassInv => PassWasEarned BY DEF PassInv, PassWasEarned, Explained
<1> QED BY <1>1, <1>2, <1>3, PTL DEF Spec
=============================================================================
