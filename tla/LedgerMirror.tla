---------------------------- MODULE LedgerMirror ----------------------------
(***************************************************************************)
(* How one tenant's trades reach the shared database (ledger-mirror.ts).   *)
(* The worker writes SQLite in its container; the orchestrator reads that  *)
(* file every pass and copies what is new, up to a watermark it keeps in   *)
(* the shared database, then chases the rows that resolved after they were *)
(* copied.  The other append-only tables go through the same loop.         *)
(*                                                                         *)
(* Two processes interleave here: the worker inserts and resolves rows     *)
(* between any two awaits of the pass.  A ledger dies with its container,  *)
(* or with the home that a revocation removes; the watermark does not.     *)
(***************************************************************************)
EXTENDS Integers, FiniteSets

CONSTANTS
  Rows,         \* trades the worker may write, numbered in that order
  Homes,        \* containers that may hold a ledger of this tenant
  FirstHome,    \* the one that holds the tenant first
  Batch,        \* MIRROR_BATCH
  ResyncLimit,  \* RESYNC_LIMIT
  MirrorFaults, MaxMirrorFaults

(* store: a statement of the shared database fails; crash: the pass dies   *)
(* with the orchestrator; rebuild: the ledger is lost and starts again at  *)
(* id 1; regrow: it may reach the old watermark before a pass has noticed; *)
(* handover: another replica, with its own home, takes the tenant over;    *)
(* return: its home may still hold the ledger it left behind; late: a row  *)
(* gets older than RESYNC_WINDOW_SEC.                                      *)
AllMirrorFaults == {"store", "crash", "rebuild", "regrow", "handover", "return", "late"}

ASSUME MirrorAssumption ==
  /\ IsFiniteSet(Rows) /\ Rows \subseteq Nat
  /\ FirstHome \in Homes
  /\ Batch \in Nat \ {0} /\ ResyncLimit \in Nat \ {0}
  /\ MirrorFaults \subseteq AllMirrorFaults /\ MaxMirrorFaults \in Nat

VARIABLES
  status,   \* what the worker last wrote of a row
  id,       \* [Homes \X Rows -> Nat], its id in a ledger, 0 when not there
  size,     \* [Homes -> Nat], rows in a ledger: AUTOINCREMENT ids are 1..size
  holder,   \* the ledger the tenant's worker writes and the pass reads
  reborn,   \* the ledger is younger than the watermark
  aged,     \* rows older than the resync window
  tape,     \* [Rows \X Statuses -> Nat], copies in the shared table, by status
  mark,     \* mirror_state.last_id
  pass,     \* where mirrorTenant is
  from, batch, top,  \* the watermark it read, the rows it read, the last id
  resolved, \* outcomes it read for the resync
  failures

ledgerVars == <<status, id, size, holder, reborn, aged>>
sharedVars == <<tape, mark>>
passVars   == <<pass, from, batch, top, resolved>>
mirrorVars == <<ledgerVars, sharedVars, passVars, failures>>

Outcomes == {"landed", "reverted"}
Statuses == {"submitted"} \cup Outcomes
NoBatch  == [r \in Rows |-> "absent"]

MayFail(f) == f \in MirrorFaults /\ failures < MaxMirrorFaults /\ failures' = failures + 1

-----------------------------------------------------------------------------
(* The worker.                                                             *)

(* addTrade's INSERT: a fresh id, submitted or settled at once.            *)
Insert(r) ==
  /\ status[r] = "absent" /\ \A q \in Rows : q < r => status[q] # "absent"
  /\ reborn => "regrow" \in MirrorFaults \/ size[holder] + 1 < mark
  /\ \E st \in Statuses : status' = [status EXCEPT ![r] = st]
  /\ size' = [size EXCEPT ![holder] = @ + 1]
  /\ id' = [id EXCEPT ![<<holder, r>>] = size[holder] + 1]
  /\ UNCHANGED <<holder, reborn, aged, sharedVars, passVars, failures>>

(* addTrade's UPDATE of the submitted row, in place: the id stays.         *)
Resolve(r) ==
  /\ status[r] = "submitted" /\ id[<<holder, r>>] > 0
  /\ \E st \in Outcomes : status' = [status EXCEPT ![r] = st]
  /\ UNCHANGED <<id, size, holder, reborn, aged, sharedVars, passVars, failures>>

Age(r) ==
  /\ status[r] # "absent" /\ r \notin aged /\ MayFail("late")
  /\ aged' = aged \cup {r}
  /\ UNCHANGED <<status, id, size, holder, reborn, sharedVars, passVars>>

-----------------------------------------------------------------------------
(* mirrorTenant.                                                           *)

Idle == pass' = "idle" /\ from' = 0 /\ batch' = NoBatch /\ top' = 0 /\ resolved' = NoBatch
ToResync == pass' = "resync" /\ from' = 0 /\ batch' = NoBatch /\ top' = 0 /\ UNCHANGED resolved

ReadMark ==
  /\ pass = "idle" /\ pass' = "marked" /\ from' = mark
  /\ UNCHANGED <<ledgerVars, sharedVars, batch, top, resolved, failures>>

HasRow(n) == \E r \in Rows : id[<<holder, r>>] = n

(* Mutant: the reborn ledger is recognised by nothing.                     *)
StartTrusting == from

(* "IS THE ROW WE LAST COPIED STILL THERE": if not, from the beginning.    *)
Start == IF from > 0 /\ ~HasRow(from) THEN 0 ELSE from

(* Mutant: >= for >, so the last copied row is read again.                 *)
FreshInclusive(first, last) == {r \in Rows : id[<<holder, r>>] > 0 /\ id[<<holder, r>>] \in first - 1 .. last}

Fresh(first, last) == {r \in Rows : id[<<holder, r>>] \in first .. last}

ReadRows ==
  /\ pass = "marked"
  /\ LET last == IF Start + Batch < size[holder] THEN Start + Batch ELSE size[holder]
         rows == Fresh(Start + 1, last) IN
       IF last = Start
         THEN ToResync
         ELSE /\ pass' = "rows" /\ top' = last
              /\ batch' = [r \in Rows |-> IF r \in rows THEN status[r] ELSE "absent"]
              /\ UNCHANGED <<from, resolved>>
  /\ UNCHANGED <<ledgerVars, sharedVars, failures>>

Inserted == [p \in Rows \X Statuses |-> tape[p] + IF batch[p[1]] = p[2] THEN 1 ELSE 0]

(* One transaction: the rows and the watermark.                            *)
CommitRows ==
  /\ pass = "rows"
  /\ tape' = Inserted /\ mark' = top
  /\ reborn' = FALSE
  /\ ToResync
  /\ UNCHANGED <<status, id, size, holder, aged, failures>>

(* Mutant: the watermark is saved in a statement of its own, first.        *)
LogFailsSplit ==
  /\ pass \in {"marked", "rows"} /\ MayFail("store")
  /\ mark' = IF pass = "rows" THEN top ELSE mark
  /\ ToResync
  /\ UNCHANGED <<ledgerVars, tape>>

(* "one table failing is one table's worth of lag": the watermark did not  *)
(* move, so the next pass retries.                                         *)
LogFails ==
  /\ pass \in {"marked", "rows"} /\ MayFail("store")
  /\ ToResync
  /\ UNCHANGED <<ledgerVars, sharedVars>>

(* Mutant: only rows above the watermark are read again.                   *)
SettledAboveMark == {r \in Rows : id[<<holder, r>>] > mark /\ status[r] \in Outcomes /\ r \notin aged}

Settled == {r \in Rows : id[<<holder, r>>] > 0 /\ status[r] \in Outcomes /\ r \notin aged}

(* ORDER BY id DESC LIMIT.                                                 *)
Newest(rows) ==
  {r \in rows : Cardinality({q \in rows : id[<<holder, q>>] > id[<<holder, r>>]}) < ResyncLimit}

ReadResolved ==
  /\ pass = "resync"
  /\ pass' = "resolved"
  /\ resolved' = [r \in Rows |-> IF r \in Newest(Settled) THEN status[r] ELSE "absent"]
  /\ UNCHANGED <<ledgerVars, sharedVars, from, batch, top, failures>>

(* Mutant: the placeholder is deleted, for the log to copy the row again.  *)
UpdatedDeletes ==
  [p \in Rows \X Statuses |->
     IF resolved[p[1]] # "absent" /\ p[2] = "submitted" THEN 0 ELSE tape[p]]

(* UPDATE ... WHERE user_op_hash = ? AND status = 'submitted'.             *)
Updated ==
  [p \in Rows \X Statuses |->
     IF resolved[p[1]] = "absent" THEN tape[p]
     ELSE IF p[2] = "submitted" THEN 0
     ELSE IF p[2] = resolved[p[1]] THEN tape[p] + tape[<<p[1], "submitted">>]
     ELSE tape[p]]

CommitResolved ==
  /\ pass = "resolved"
  /\ tape' = Updated
  /\ Idle
  /\ UNCHANGED <<ledgerVars, mark, failures>>

ResyncFails ==
  /\ pass \in {"resync", "resolved"} /\ MayFail("store")
  /\ Idle
  /\ UNCHANGED <<ledgerVars, sharedVars>>

-----------------------------------------------------------------------------
(* The environment.                                                        *)

Crash ==
  /\ pass # "idle" /\ MayFail("crash")
  /\ Idle
  /\ UNCHANGED <<ledgerVars, sharedVars>>

(* A redeploy discards the container; a revocation removes the home, and   *)
(* the next grant starts a new ledger in it.                               *)
Rebuild ==
  /\ MayFail("rebuild")
  /\ size[holder] > 0
  /\ size' = [size EXCEPT ![holder] = 0]
  /\ id' = [p \in Homes \X Rows |-> IF p[1] = holder THEN 0 ELSE id[p]]
  /\ reborn' = (mark > 0)
  /\ Idle
  /\ UNCHANGED <<status, holder, aged, sharedVars>>

(* The lease moves; childHome is a directory of each replica's container.  *)
Handover(h) ==
  /\ h # holder /\ MayFail("handover")
  /\ size[h] > 0 => "return" \in MirrorFaults
  /\ holder' = h /\ reborn' = (mark > 0)
  /\ Idle
  /\ UNCHANGED <<status, id, size, aged, sharedVars>>

MirrorInit ==
  /\ status = [r \in Rows |-> "absent"] /\ aged = {}
  /\ id = [p \in Homes \X Rows |-> 0] /\ size = [h \in Homes |-> 0]
  /\ holder = FirstHome /\ reborn = FALSE
  /\ tape = [p \in Rows \X Statuses |-> 0] /\ mark = 0
  /\ pass = "idle" /\ from = 0 /\ batch = NoBatch /\ top = 0 /\ resolved = NoBatch
  /\ failures = 0

PassStep == ReadMark \/ ReadRows \/ CommitRows \/ ReadResolved \/ CommitResolved

MirrorNext ==
  \/ \E r \in Rows : Insert(r) \/ Resolve(r) \/ Age(r)
  \/ PassStep \/ LogFails \/ ResyncFails \/ Crash \/ Rebuild
  \/ \E h \in Homes : Handover(h)

MirrorSpec == MirrorInit /\ [][MirrorNext]_mirrorVars

-----------------------------------------------------------------------------
(* Properties.                                                             *)

MirrorTypeOK ==
  /\ status \in [Rows -> Statuses \cup {"absent"}] /\ aged \subseteq Rows
  /\ id \in [Homes \X Rows -> Nat] /\ size \in [Homes -> Nat]
  /\ holder \in Homes /\ reborn \in BOOLEAN
  /\ tape \in [Rows \X Statuses -> Nat] /\ mark \in Nat
  /\ pass \in {"idle", "marked", "rows", "resync", "resolved"}
  /\ from \in Nat /\ top \in Nat
  /\ batch \in [Rows -> Statuses \cup {"absent"}]
  /\ resolved \in [Rows -> Outcomes \cup {"absent"}]
  /\ failures \in Nat

Copies(r) == tape[<<r, "submitted">>] + tape[<<r, "landed">>] + tape[<<r, "reverted">>]

(* The tape shows an outcome only of a trade that had it.                  *)
TapeTruthful ==
  \A r \in Rows, st \in Outcomes : tape[<<r, st>>] > 0 => status[r] = st

(* "EXACTLY-ONCE, BY TRANSACTION": no trade is on the tape twice, or with  *)
(* an outcome it did not have, whatever fails, dies or is rebuilt between  *)
(* two steps of a pass.                                                    *)
TapeExact == TapeTruthful /\ \A r \in Rows : Copies(r) <= 1

(* A watermark that moves has carried every row it moves past: a row below *)
(* it is never looked at again.                                            *)
NothingSkipped ==
  [][mark' # mark => \A r \in Rows : id[<<holder, r>>] \in 1 .. mark' => Copies(r)' > 0]_mirrorVars

View(r) ==
  IF tape[<<r, "landed">>] > 0 THEN "landed"
  ELSE IF tape[<<r, "reverted">>] > 0 THEN "reverted"
  ELSE IF tape[<<r, "submitted">>] > 0 THEN "submitted"
  ELSE "absent"

Tape == INSTANCE TradeTape WITH shown <- [r \in Rows |-> View(r)]

(* What the readers of the shared table see is a TradeTape: a shown row    *)
(* stays, and a settled one is never rewritten.                            *)
ImplementsTape == Tape!Spec

(* Fairness: the orchestrator runs a pass every RECONCILE_MS.              *)
MirrorFairSpec == MirrorSpec /\ WF_mirrorVars(PassStep)

(* Every row the worker wrote reaches the tape, unless its ledger is lost. *)
EveryRowShown ==
  \A r \in Rows : id[<<holder, r>>] > 0 ~> (Copies(r) > 0 \/ id[<<holder, r>>] = 0)

(* "A LIVE FILL DOES NOT FREEZE AT 'submitted'": the outcome of a row that *)
(* was copied too early follows it, while the row is in the window.        *)
OutcomeFollows ==
  \A r \in Rows :
    (status[r] \in Outcomes /\ tape[<<r, "submitted">>] > 0)
      ~> (tape[<<r, "submitted">>] = 0 \/ r \in aged \/ id[<<holder, r>>] = 0)

=============================================================================
