------------------------------ MODULE ServiceMap ------------------------------
(***************************************************************************)
(* What becomes of a report's execution flow: PushMetric derives the       *)
(* telemetry log from it, PushMetrics of pkg/storage/victoria the samples  *)
(* of the time series, and getExecutionMap of pkg/analytics overlays the   *)
(* execution maps of the telemetry logs it finds into one graph of         *)
(* functions, while further reports are stored.                            *)
(*                                                                         *)
(* One service and one endpoint; latencies, inputs, outputs, log lines,    *)
(* external calls and the size of the search (10,000 logs) are left out.   *)
(***************************************************************************)
EXTENDS Naturals, FiniteSets, SequencesExt

CONSTANTS
  Reports,    \* the PushMetric calls
  Functions,  \* names of traced functions
  NoName,     \* the empty parent_function
  MaxFlow     \* bound: the longest execution flow

ASSUME NamesAssumption ==
  /\ IsFiniteSet(Reports)
  /\ NoName \notin Functions
  /\ MaxFlow \in Nat

VARIABLES
  flow,       \* execution_flow of each report
  step,       \* progress of the goroutine that stores the report
  es,         \* the reports whose telemetry log is in Elasticsearch
  series,     \* the last sample of each series; 0: there is none
  query,      \* progress of getExecutionMap
  hits,       \* the telemetry logs its search returned
  rest,       \* those it has not begun
  cur,        \* the log it is in, and the entry it comes to
  calls,      \* nodeMap[fn].TotalCalls; 0: no node
  errors,     \* nodeMap[fn].ErrorCount
  entry,      \* the functions with nodeMap[fn].IsEntryPoint
  edges       \* edgeMap[parent -> fn].Count; 0: no edge

storeVars == <<flow, step, es, series>>
mapVars == <<query, hits, rest, cur, calls, errors, entry, edges>>
vars == <<storeVars, mapVars>>

Names == Functions \union {NoName}

(* One call in an execution flow; the telemetry log keeps all three. *)
Call == [fn: Functions, parent: Names, haveError: BOOLEAN]

Series == {<<"request_total", "success">>, <<"request_total", "failure">>,
           <<"method_failure_total">>}
          \union {<<"function_error_total", f>> : f \in Functions}

Count == 0..(MaxFlow * Cardinality(Reports))

TypeOK ==
  /\ flow \in [Reports -> SeqOf(Call, MaxFlow)]
  /\ step \in [Reports -> {"none", "received", "telemetry", "done"}]
  /\ es \in SUBSET Reports
  /\ series \in [Series -> {0, 1}]
  /\ query \in {"idle", "aggregating", "answered"}
  /\ hits \in SUBSET Reports
  /\ rest \in SUBSET hits
  /\ cur = <<>> \/ cur \in hits \X (1..(MaxFlow + 1))
  /\ calls \in [Functions -> Count]
  /\ errors \in [Functions -> Count]
  /\ entry \in SUBSET Functions
  /\ edges \in [Functions \X Functions -> Count]

EmptyMap ==
  /\ calls = [f \in Functions |-> 0]
  /\ errors = [f \in Functions |-> 0]
  /\ entry = {}
  /\ edges = [e \in Functions \X Functions |-> 0]

Init ==
  /\ flow = [r \in Reports |-> <<>>]
  /\ step = [r \in Reports |-> "none"]
  /\ es = {}
  /\ series = [s \in Series |-> 0]
  /\ query = "idle" /\ hits = {} /\ rest = {} /\ cur = <<>>
  /\ EmptyMap

-----------------------------------------------------------------------------
(* PushMetric and the goroutine it starts. *)

Receive(r) ==
  /\ step[r] = "none"
  /\ \E fl \in SeqOf(Call, MaxFlow) : flow' = [flow EXCEPT ![r] = fl]
  /\ step' = [step EXCEPT ![r] = "received"]
  /\ UNCHANGED <<es, series, mapVars>>

(* Mutant: the flag is set by the last call only. *)
MethodFailureOfLast(r) ==
  flow[r] # <<>> /\ flow[r][Len(flow[r])].haveError

(* method_failure of the telemetry log *)
MethodFailure(r) == \E i \in DOMAIN flow[r] : flow[r][i].haveError

StoreTelemetryLog(r) ==
  /\ step[r] = "received"
  /\ step' = [step EXCEPT ![r] = "telemetry"]
  /\ es' \in {es, es \union {r}}
  /\ UNCHANGED <<flow, series, mapVars>>

(* Mutant: the method counter follows the verdict of the request. *)
SeriesOfVerdict(r, processFailure) ==
  {<<"request_total", IF processFailure THEN "failure" ELSE "success">>}
  \union {s \in {<<"method_failure_total">>} : processFailure}
  \union {<<"function_error_total", flow[r][i].fn>> :
            i \in {j \in DOMAIN flow[r] : flow[r][j].haveError}}

(* The series PushMetrics writes a sample of for the telemetry log of r. *)
SeriesOf(r, processFailure) ==
  {<<"request_total", IF processFailure THEN "failure" ELSE "success">>}
  \union {s \in {<<"method_failure_total">>} : MethodFailure(r)}
  \union {<<"function_error_total", flow[r][i].fn>> :
            i \in {j \in DOMAIN flow[r] : flow[r][j].haveError}}

(* Each sample of a counter is 1.  Whether the request failed, which says  *)
(* nothing about its calls, shows nowhere else.                            *)
PushMetrics(r) ==
  /\ step[r] = "telemetry"
  /\ step' = [step EXCEPT ![r] = "done"]
  /\ \/ \E processFailure \in BOOLEAN :
          series' = [s \in Series |-> IF s \in SeriesOf(r, processFailure) THEN 1
                                      ELSE series[s]]
     \/ UNCHANGED series
  /\ UNCHANGED <<flow, es, mapVars>>

-----------------------------------------------------------------------------
(* getExecutionMap *)

(* Mutant: the aggregation goes over more than the search returned. *)
SearchAndMore ==
  /\ query = "idle"
  /\ query' = "aggregating"
  /\ hits' = es
  /\ rest' = {r \in Reports : step[r] # "none"}
  /\ UNCHANGED <<storeVars, cur, calls, errors, entry, edges>>

(* The search; what it returns no longer follows the store. *)
Search ==
  /\ query = "idle"
  /\ query' = "aggregating"
  /\ hits' = es
  /\ rest' = es
  /\ UNCHANGED <<storeVars, cur, calls, errors, entry, edges>>

InEntries == cur # <<>> /\ cur[2] <= Len(flow[cur[1]])

(* The hits come in no order the code asks for. *)
NextLog(r) ==
  /\ query = "aggregating"
  /\ ~InEntries
  /\ r \in rest
  /\ rest' = rest \ {r}
  /\ cur' = <<r, 1>>
  /\ UNCHANGED <<storeVars, query, hits, calls, errors, entry, edges>>

(* Mutant: the edge points from the call to its parent. *)
EdgeOfTurned(c) == <<c.fn, c.parent>>

(* The key is the text "parent->fn" in the code; names that contain "->"   *)
(* can share one there, and are taken not to.                              *)
EdgeOf(c) == <<c.parent, c.fn>>

(* Mutant: a call with a parent makes an edge and no node. *)
VisitEdgeOrNode ==
  /\ query = "aggregating"
  /\ InEntries
  /\ LET c == flow[cur[1]][cur[2]]
         root == c.parent = NoName
     IN /\ calls' = IF root THEN [calls EXCEPT ![c.fn] = @ + 1] ELSE calls
        /\ errors' = IF c.haveError THEN [errors EXCEPT ![c.fn] = @ + 1]
                     ELSE errors
        /\ entry' = IF root THEN entry \union {c.fn} ELSE entry
        /\ edges' = IF root THEN edges ELSE [edges EXCEPT ![EdgeOf(c)] = @ + 1]
  /\ cur' = <<cur[1], cur[2] + 1>>
  /\ UNCHANGED <<storeVars, query, hits, rest>>

VisitEntry ==
  /\ query = "aggregating"
  /\ InEntries
  /\ LET c == flow[cur[1]][cur[2]]
         root == c.parent = NoName
     IN /\ calls' = [calls EXCEPT ![c.fn] = @ + 1]
        /\ errors' = IF c.haveError THEN [errors EXCEPT ![c.fn] = @ + 1]
                     ELSE errors
        /\ entry' = IF root THEN entry \union {c.fn} ELSE entry
        /\ edges' = IF root THEN edges ELSE [edges EXCEPT ![EdgeOf(c)] = @ + 1]
  /\ cur' = <<cur[1], cur[2] + 1>>
  /\ UNCHANGED <<storeVars, query, hits, rest>>

Answer ==
  /\ query = "aggregating"
  /\ ~InEntries /\ rest = {}
  /\ query' = "answered"
  /\ UNCHANGED <<storeVars, hits, rest, cur, calls, errors, entry, edges>>

-----------------------------------------------------------------------------
Next ==
  \/ \E r \in Reports : \/ Receive(r) \/ StoreTelemetryLog(r) \/ PushMetrics(r)
                        \/ NextLog(r)
  \/ Search
  \/ VisitEntry
  \/ Answer

Spec == Init /\ [][Next]_vars

-----------------------------------------------------------------------------
(* Properties. *)

(* The entries the aggregation has counted, over all logs. *)
Visited == {v \in (hits \ rest) \X (1..MaxFlow) :
  v[2] <= Len(flow[v[1]]) /\ (cur # <<>> /\ cur[1] = v[1] => v[2] < cur[2])}

Counted(C) == Cardinality({v \in Visited : flow[v[1]][v[2]] \in C})

(* In whatever order the logs come and however flows overlap, every node   *)
(* and edge of the map stands for the calls counted so far, each once.     *)
MapExact ==
  /\ \A f \in Functions :
       /\ calls[f] = Counted({c \in Call : c.fn = f})
       /\ errors[f] = Counted({c \in Call : c.fn = f /\ c.haveError})
       /\ f \in entry <=> Counted({c \in Call : c.fn = f /\ c.parent = NoName}) > 0
  /\ \A f, p \in Functions :
       edges[<<p, f>>] = Counted({c \in Call : c.fn = f /\ c.parent = p})

(* The map answered shows a function with an error exactly when one of the *)
(* telemetry logs it was made of is flagged method_failure: the two are    *)
(* derived from the flow in different places.                              *)
FailuresAgree == query = "answered" =>
  ((\E f \in Functions : errors[f] > 0) <=> (\E r \in hits : MethodFailure(r)))

(* In VictoriaMetrics the endpoint has a method failure exactly when some  *)
(* function of it has an error, and a request is counted as a success or a *)
(* failure when anything is there.                                         *)
SeriesAgree ==
  /\ series[<<"method_failure_total">>] = 1 <=>
       \E f \in Functions : series[<<"function_error_total", f>>] = 1
  /\ (\E s \in Series : series[s] = 1) =>
       \E o \in {"success", "failure"} : series[<<"request_total", o>>] = 1

(* The parents a flow names are calls of the same flow. *)
ParentsKnown(r) == \A i \in DOMAIN flow[r] :
  flow[r][i].parent = NoName \/ \E j \in DOMAIN flow[r] : flow[r][j].fn = flow[r][i].parent

(* Both ends of every edge are nodes. *)
EdgesJoinNodes == \A e \in Functions \X Functions :
  edges[e] > 0 => calls[e[1]] > 0 /\ calls[e[2]] > 0

(* When every flow holds the parents it names, the answer is a graph: the  *)
(* dashboard's force layout throws on an edge with an end that is no node. *)
KnownParentsMakeGraph ==
  query = "answered" /\ (\A r \in hits : ParentsKnown(r)) => EdgesJoinNodes

(* Documented, and not so: getExecutionMap says it builds a graph of nodes *)
(* and edges; a parent that was never recorded (it panicked, or was only   *)
(* named) has edges and no node.                                           *)
AnswerIsGraph == query = "answered" => EdgesJoinNodes
=============================================================================
