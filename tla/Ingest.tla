-------------------------------- MODULE Ingest --------------------------------
(***************************************************************************)
(* The backend process: cmd/kril creates the two Elasticsearch indices,    *)
(* serves PushMetric, and stops on a signal; pkg/telemetry acknowledges a  *)
(* report and stores it in the background, in three steps: the service     *)
(* log, the telemetry log, and the time series in VictoriaMetrics.         *)
(*                                                                         *)
(* A write to a store is answered, or fails for the process (an error      *)
(* status, a refused connection, the client's timeout) and may even then   *)
(* be applied later, when the request was on its way.                      *)
(***************************************************************************)
EXTENDS Naturals

CONSTANTS
  Reports,   \* the PushMetric calls; each gets a request_id of its own
  MaxBoots   \* bound: how often the process is started

ASSUME BootsAssumption == MaxBoots \in Nat \ {0}

VARIABLES
  proc,       \* the backend process
  boots,      \* how often it has been started
  creating,   \* the index that EnsureIndices creates, while it boots
  index,      \* Elasticsearch: the mapping each index has
  lateIndex,  \* index creations given up by the process, still on their way
  skipped,    \* ghost: the indices that a boot went on without ensuring
  rpc,        \* each PushMetric call
  stage,      \* the next write of each report's goroutine; 0: not started
  killed,     \* reports whose goroutine died with the process
  stored,     \* the writes that took effect
  late,       \* writes given up by the process, still on their way
  logged      \* the writes whose failure is in the process' log

procVars == <<proc, boots, creating>>
indexVars == <<index, lateIndex, skipped>>
jobVars == <<stage, killed, stored, late, logged>>
vars == <<procVars, indexVars, rpc, jobVars>>

ServiceLog == 1
TelemetryLog == 2
Metrics == 3
Done == 4
Indices == {ServiceLog, TelemetryLog}
Writes == Reports \X {ServiceLog, TelemetryLog, Metrics}

TypeOK ==
  /\ proc \in {"boot", "serving", "stopping", "exited", "crashed"}
  /\ boots \in 1..MaxBoots
  /\ creating \in Indices
  /\ index \in [Indices -> {"absent", "declared", "dynamic"}]
  /\ lateIndex \in SUBSET Indices
  /\ skipped \in SUBSET Indices
  /\ rpc \in [Reports -> {"idle", "handling", "replying", "acked", "failed"}]
  /\ stage \in [Reports -> 0..Done]
  /\ killed \in SUBSET Reports
  /\ stored \in SUBSET Writes
  /\ late \in SUBSET Writes
  /\ logged \in SUBSET Writes

Init ==
  /\ proc = "boot" /\ boots = 1 /\ creating = ServiceLog
  /\ index = [i \in Indices |-> "absent"] /\ lateIndex = {} /\ skipped = {}
  /\ rpc = [r \in Reports |-> "idle"]
  /\ stage = [r \in Reports |-> 0]
  /\ killed = {} /\ stored = {} /\ late = {} /\ logged = {}

-----------------------------------------------------------------------------
(* main: EnsureIndices, then serve. *)

Created(i) == [index EXCEPT ![i] = IF @ = "absent" THEN "declared" ELSE @]

(* Elasticsearch answers a creation 200, or 400: the index exists, or is   *)
(* refused, as by the limit of shards, and stays absent.  createIndex      *)
(* takes each of these answers for success.                                *)
CreationAnswered(i) ==
  \/ index' = Created(i) /\ UNCHANGED skipped
  \/ index[i] = "absent" /\ skipped' = skipped \union {i} /\ UNCHANGED index

(* Mutant: the process serves while it creates the second index. *)
CreateServiceIndexOnly ==
  /\ proc = "boot"
  /\ CreationAnswered(creating)
  /\ proc' = "serving"
  /\ UNCHANGED <<boots, creating, lateIndex, rpc, jobVars>>

CreateIndex ==
  /\ proc = "boot"
  /\ CreationAnswered(creating)
  /\ IF creating = ServiceLog
     THEN creating' = TelemetryLog /\ proc' = "boot"
     ELSE creating' = creating /\ proc' = "serving"
  /\ UNCHANGED <<boots, lateIndex, rpc, jobVars>>

(* EnsureIndices returns at the first error and leaves the indices after   *)
(* it; main warns and goes on.                                             *)
CreateIndexFails ==
  /\ proc = "boot"
  /\ proc' = "serving"
  /\ skipped' = skipped \union {i \in Indices : creating <= i}
  /\ lateIndex' \in {lateIndex, lateIndex \union {creating}}
  /\ UNCHANGED <<boots, creating, index, rpc, jobVars>>

-----------------------------------------------------------------------------
(* PushMetric. *)

Serving == proc \in {"serving", "stopping"}

Receive(r) ==
  /\ proc = "serving"
  /\ rpc[r] = "idle"
  /\ rpc' = [rpc EXCEPT ![r] = "handling"]
  /\ UNCHANGED <<procVars, indexVars, jobVars>>

(* Mutant: a handler that finds the server stopping waits. *)
HandleUntilStop(r) ==
  /\ proc = "serving"
  /\ rpc[r] = "handling"
  /\ rpc' = [rpc EXCEPT ![r] = "replying"]
  /\ stage' = [stage EXCEPT ![r] = ServiceLog]
  /\ UNCHANGED <<procVars, indexVars, killed, stored, late, logged>>

(* Mutant: the telemetry log is stored first. *)
HandleTelemetryFirst(r) ==
  /\ Serving
  /\ rpc[r] = "handling"
  /\ rpc' = [rpc EXCEPT ![r] = "replying"]
  /\ stage' = [stage EXCEPT ![r] = TelemetryLog]
  /\ UNCHANGED <<procVars, indexVars, killed, stored, late, logged>>

(* The handler builds both logs and starts the goroutine that stores them. *)
Handle(r) ==
  /\ Serving
  /\ rpc[r] = "handling"
  /\ rpc' = [rpc EXCEPT ![r] = "replying"]
  /\ stage' = [stage EXCEPT ![r] = ServiceLog]
  /\ UNCHANGED <<procVars, indexVars, killed, stored, late, logged>>

(* "metric received" reaches the service, or its 5 s have passed. *)
Reply(r) ==
  /\ Serving
  /\ rpc[r] = "replying"
  /\ rpc' \in {[rpc EXCEPT ![r] = "acked"], [rpc EXCEPT ![r] = "failed"]}
  /\ UNCHANGED <<procVars, indexVars, jobVars>>

-----------------------------------------------------------------------------
(* The goroutine of a report. *)

Storing(r) == stage[r] \in ServiceLog..Metrics /\ r \notin killed

Running == {r \in Reports : Storing(r)}

(* Elasticsearch creates an index it does not have when a document comes. *)
IndexAfter(i) ==
  [j \in Indices |-> IF j = i /\ index[j] = "absent" THEN "dynamic"
                     ELSE index[j]]

Put(r) ==
  /\ Storing(r)
  /\ stored' = stored \union {<<r, stage[r]>>}
  /\ index' = IndexAfter(stage[r])
  /\ stage' = [stage EXCEPT ![r] = @ + 1]
  /\ UNCHANGED <<procVars, lateIndex, skipped, rpc, killed, late, logged>>

(* Mutant: the goroutine returns at the first error. *)
PutFailsAndReturns(r) ==
  /\ Storing(r)
  /\ logged' = logged \union {<<r, stage[r]>>}
  /\ late' \in {late, late \union {<<r, stage[r]>>}}
  /\ stage' = [stage EXCEPT ![r] = Done]
  /\ UNCHANGED <<procVars, indexVars, rpc, killed, stored>>

(* Mutant: the goroutine tries again until the write is answered. *)
PutFailsAndRetries(r) ==
  /\ Storing(r)
  /\ logged' = logged \union {<<r, stage[r]>>}
  /\ late' \in {late, late \union {<<r, stage[r]>>}}
  /\ UNCHANGED <<procVars, indexVars, rpc, stage, killed, stored>>

(* Mutant: a failed write is counted twice over, the next one skipped. *)
PutFailsAndSkips(r) ==
  /\ Storing(r)
  /\ logged' = logged \union {<<r, stage[r]>>}
  /\ late' \in {late, late \union {<<r, stage[r]>>}}
  /\ stage' = [stage EXCEPT ![r] = @ + 2]
  /\ UNCHANGED <<procVars, indexVars, rpc, killed, stored>>

(* The error is logged and the goroutine goes on with the next write. *)
PutFails(r) ==
  /\ Storing(r)
  /\ logged' = logged \union {<<r, stage[r]>>}
  /\ late' \in {late, late \union {<<r, stage[r]>>}}
  /\ stage' = [stage EXCEPT ![r] = @ + 1]
  /\ UNCHANGED <<procVars, indexVars, rpc, killed, stored>>

-----------------------------------------------------------------------------
(* The stores: requests that nobody waits for any more are applied. *)

LatePut(w) ==
  /\ w \in late
  /\ late' = late \ {w}
  /\ stored' = stored \union {w}
  /\ index' = IndexAfter(w[2])
  /\ UNCHANGED <<procVars, lateIndex, skipped, rpc, stage, killed, logged>>

LateCreate(i) ==
  /\ i \in lateIndex
  /\ lateIndex' = lateIndex \ {i}
  /\ index' = Created(i)
  /\ UNCHANGED <<procVars, skipped, rpc, jobVars>>

-----------------------------------------------------------------------------
(* Shutdown, crash, restart. *)

(* SIGINT or SIGTERM: GracefulStop accepts no more calls. *)
Signal ==
  /\ proc = "serving"
  /\ proc' = "stopping"
  /\ UNCHANGED <<boots, creating, indexVars, rpc, jobVars>>

InCall(r) == rpc[r] \in {"handling", "replying"}

(* The process ends: its goroutines die, each with its write on its way or *)
(* not.                                                                    *)
KillGoroutines ==
  /\ killed' = killed \union Running
  /\ \E sent \in SUBSET Running : late' = late \union {<<r, stage[r]>> : r \in sent}
  /\ UNCHANGED <<stage, stored, logged>>

(* GracefulStop has waited for the calls in progress; main returns. *)
Exit ==
  /\ proc = "stopping"
  /\ \A r \in Reports : ~InCall(r)
  /\ proc' = "exited"
  /\ KillGoroutines
  /\ UNCHANGED <<boots, creating, indexVars, rpc>>

(* A crash, a kill, or log.Fatalf. *)
Crash ==
  /\ proc \in {"boot", "serving", "stopping"}
  /\ proc' = "crashed"
  /\ KillGoroutines
  /\ rpc' = [r \in Reports |-> IF InCall(r) THEN "failed" ELSE rpc[r]]
  /\ IF proc = "boot" THEN lateIndex' \in {lateIndex, lateIndex \union {creating}}
     ELSE lateIndex' = lateIndex
  /\ UNCHANGED <<boots, creating, index, skipped>>

Restart ==
  /\ proc \in {"exited", "crashed"}
  /\ boots < MaxBoots
  /\ boots' = boots + 1
  /\ proc' = "boot"
  /\ creating' = ServiceLog
  /\ UNCHANGED <<indexVars, rpc, jobVars>>

-----------------------------------------------------------------------------
Next ==
  \/ CreateIndex
  \/ CreateIndexFails
  \/ \E r \in Reports : \/ Receive(r) \/ Handle(r) \/ Reply(r)
                        \/ Put(r) \/ PutFails(r)
  \/ \E w \in Writes : LatePut(w)
  \/ \E i \in Indices : LateCreate(i)
  \/ Signal
  \/ Exit
  \/ Crash
  \/ Restart

Spec == Init /\ [][Next]_vars

(* The process is scheduled and its HTTP clients time out (10 s and 5 s);  *)
(* the stores need never answer.                                           *)
Fairness ==
  /\ WF_vars(CreateIndexFails)
  /\ \A r \in Reports : /\ WF_vars(Handle(r))
                       /\ WF_vars(Reply(r))
                       /\ WF_vars(PutFails(r))
  /\ WF_vars(Exit)

FairSpec == Spec /\ Fairness

-----------------------------------------------------------------------------
(* Properties. *)

(* However late the stores apply what they were sent, and whatever died,   *)
(* a report's write is in a store only if each of its earlier writes is    *)
(* there too or its failure is in the log.                                 *)
StoredInOrder == \A w \in stored : \A i \in ServiceLog..Metrics :
  i < w[2] => <<w[1], i>> \in stored \union logged

(* An acknowledged report ends with every write done or logged, unless the *)
(* process ended under it: a failed write skips no other.                  *)
NoSilentLoss == \A r \in Reports : rpc[r] = "acked" =>
  \/ r \in killed
  \/ Storing(r)
  \/ \A i \in ServiceLog..Metrics : <<r, i>> \in stored \union logged

(* Elasticsearch guesses the mapping of an index only when a boot went on  *)
(* without that index: after an error of it or of the one before it, which *)
(* is logged, or after a refusal that looked like success, which is not.   *)
(* However late creations and documents come, over restarts, no document   *)
(* meets an index unmade that every boot has ensured.                      *)
GuessExplained == \A i \in Indices : index[i] = "dynamic" => i \in skipped

(* What has become of write i of report r. *)
Fate(r, i) ==
  IF stage[r] = 0 THEN "none"
  ELSE IF <<r, i>> \in stored THEN "stored"
  ELSE IF <<r, i>> \in logged THEN "failed"
  ELSE IF Storing(r) /\ i >= stage[r] THEN "due"
  ELSE IF i = stage[r] THEN "doubtful" ELSE "lost"

Fates == [r \in Reports |-> [i \in ServiceLog..Metrics |-> Fate(r, i)]]

Acked == {r \in Reports : rpc[r] = "acked"}

Ledger == INSTANCE WriteLedger WITH fate <- Fates, acked <- Acked

(* Through failures, crashes and restarts, whatever comes late, the writes *)
(* of each report are settled once, in order, until the process ends; what *)
(* the end found in hand is the only other write that can still be stored, *)
(* and no report is acknowledged whose writing it has cut off.             *)
KeepsLedger == Ledger!Spec

(* With both stores silent for ever the goroutine of a report still ends.  *)
JobsEnd == \A r \in Reports : Storing(r) ~> ~Storing(r)

(* GracefulStop returns: the calls in progress end.                        *)
StopEnds == proc = "stopping" ~> proc \in {"exited", "crashed"}

-----------------------------------------------------------------------------
(* The inductive invariant behind them. *)

(* A goroutine starts in its handler, and leaves no write unaccounted.     *)
StagesInOrder == \A r \in Reports :
  /\ rpc[r] \in {"idle", "handling"} => stage[r] = 0
  /\ rpc[r] \in {"replying", "acked"} => stage[r] # 0
  /\ \A i \in ServiceLog..Metrics :
       i < stage[r] => <<r, i>> \in stored \union logged

(* Only writes that a goroutine has left, or died in, are anywhere.        *)
WritesReached == \A r \in Reports, i \in ServiceLog..Metrics :
  <<r, i>> \in stored \union late =>
    i < stage[r] \/ (i = stage[r] /\ r \in killed)

(* Only a write that a goroutine has left is in the log. *)
FailuresReached == \A r \in Reports, i \in ServiceLog..Metrics :
  <<r, i>> \in logged => i < stage[r]

(* A goroutine dies in its writing, after its call has ended. *)
KilledAnswered == \A r \in killed :
  rpc[r] \in {"acked", "failed"} /\ stage[r] \in ServiceLog..Metrics

(* An index that every boot has ensured exists before anything writes to it. *)
IndicesFirst == \A i \in Indices \ skipped :
  /\ index[i] # "dynamic"
  /\ proc = "boot" /\ creating = TelemetryLog /\ i = ServiceLog => index[i] # "absent"
  /\ proc \in {"serving", "stopping"} \/ (\E r \in Reports : stage[r] # 0) =>
       index[i] # "absent"

(* It holds in every reachable state, and every step keeps it. *)
IInv == TypeOK /\ StagesInOrder /\ WritesReached /\ IndicesFirst

(* And with these, every step is one of the ledger's. *)
LedgerInv == IInv /\ FailuresReached /\ KilledAnswered

-----------------------------------------------------------------------------
(* Documented, and not so. *)

(* The shutdown is called graceful; it ends the goroutines of reports it   *)
(* has acknowledged.                                                       *)
GracefulStopStores == proc = "exited" =>
  \A r \in Reports : rpc[r] = "acked" => ~(r \in killed)
=============================================================================
