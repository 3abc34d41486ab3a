---------------------------- MODULE ServiceMapProofs ----------------------------
(***************************************************************************)
(* Proofs about ServiceMap, for any finite set of reports, any functions   *)
(* and flows of any bounded length.                                        *)
(***************************************************************************)
EXTENDS ServiceMap, FiniteSetTheorems, TLAPS

(* Where the aggregation may be. *)
Progress ==
  /\ \A r \in Reports : step[r] = "none" => r \notin es /\ r \notin hits
  /\ query = "idle" => hits = {} /\ cur = <<>>
  /\ cur # <<>> => cur[1] \notin rest
  /\ query = "answered" => rest = {} /\ ~InEntries

(* TypeOK without the bounds of the counters, which rest on MapExact. *)
Shape ==
  /\ flow \in [Reports -> SeqOf(Call, MaxFlow)]
  /\ step \in [Reports -> {"none", "received", "telemetry", "done"}]
  /\ es \in SUBSET Reports
  /\ series \in [Series -> {0, 1}]
  /\ query \in {"idle", "aggregating", "answered"}
  /\ hits \in SUBSET Reports
  /\ rest \in SUBSET hits
  /\ cur = <<>> \/ cur \in hits \X (1..(MaxFlow + 1))
  /\ calls \in [Functions -> Nat]
  /\ errors \in [Functions -> Nat]
  /\ entry \in SUBSET Functions
  /\ edges \in [Functions \X Functions -> Nat]

IInv == Shape /\ Progress /\ MapExact /\ SeriesAgree

-----------------------------------------------------------------------------
(* Counting. *)

LEMMA FlowShape ==
  ASSUME NEW fl \in SeqOf(Call, MaxFlow)
  PROVE  /\ Len(fl) \in 0..MaxFlow
         /\ DOMAIN fl = 1..Len(fl)
         /\ \A i \in DOMAIN fl : fl[i] \in Call
<1>1. PICK m \in 0..MaxFlow : fl \in [1..m -> Call]
  BY NamesAssumption DEF SeqOf
<1>2. fl \in Seq(Call) /\ Len(fl) = m
  BY <1>1, NamesAssumption
<1> QED BY <1>1, <1>2

(* There are never more entries counted than reports have room for. *)
LEMMA VisitedIsFinite ==
  ASSUME Shape
  PROVE  /\ IsFiniteSet(Visited)
         /\ Cardinality(Visited) <= MaxFlow * Cardinality(Reports)
<1>1. IsFiniteSet(Reports) /\ MaxFlow \in Nat
  BY NamesAssumption
<1>2. IsFiniteSet(1..MaxFlow) /\ Cardinality(1..MaxFlow) = MaxFlow
  BY <1>1, FS_Interval
<1>3. /\ IsFiniteSet(Reports \X (1..MaxFlow))
      /\ Cardinality(Reports \X (1..MaxFlow)) = Cardinality(Reports) * MaxFlow
  BY <1>1, <1>2, FS_Product
<1>4. Visited \subseteq Reports \X (1..MaxFlow)
  BY DEF Shape, Visited
<1>5. IsFiniteSet(Visited) /\ Cardinality(Visited) <= Cardinality(Reports) * MaxFlow
  BY <1>3, <1>4, FS_Subset
<1>6. Cardinality(Reports) * MaxFlow = MaxFlow * Cardinality(Reports)
  BY <1>1, FS_CardinalityType
<1> QED BY <1>5, <1>6

(* A count is of a finite set, and positive when something is in it. *)
LEMMA CountedIsNumber ==
  ASSUME Shape, NEW C
  PROVE  /\ Counted(C) \in 0..(MaxFlow * Cardinality(Reports))
         /\ Counted(C) > 0 <=> \E v \in Visited : flow[v[1]][v[2]] \in C
<1> DEFINE Of == {v \in Visited : flow[v[1]][v[2]] \in C}
<1>1. IsFiniteSet(Of) /\ Cardinality(Of) <= Cardinality(Visited)
  BY VisitedIsFinite, FS_Subset
<1>2. Cardinality(Of) \in Nat /\ Cardinality(Visited) \in Nat
  BY <1>1, VisitedIsFinite, FS_CardinalityType
<1>3. Cardinality(Of) = 0 <=> Of = {}
  BY <1>1, FS_EmptySet
<1>4. MaxFlow * Cardinality(Reports) \in Nat
  BY NamesAssumption, FS_CardinalityType
<1>5. Cardinality(Of) \in 0..(MaxFlow * Cardinality(Reports))
  BY <1>1, <1>2, <1>4, VisitedIsFinite
<1>6. Cardinality(Of) > 0 <=> Of # {}
  BY <1>2, <1>3
<1> QED BY <1>5, <1>6 DEF Counted

(* Nothing is counted while the entries counted stay what they are. *)
LEMMA CountedStays ==
  ASSUME Visited' = Visited,
         \A v \in Visited : flow'[v[1]][v[2]] = flow[v[1]][v[2]], NEW C
  PROVE  Counted(C)' = Counted(C)
<1>1. {v \in Visited' : flow'[v[1]][v[2]] \in C} = {v \in Visited : flow[v[1]][v[2]] \in C}
  OBVIOUS
<1> QED BY <1>1 DEF Counted

(* The entry the aggregation is at, and that no other step has counted. *)
LEMMA EntryIsNew ==
  ASSUME Shape, Progress, VisitEntry
  PROVE  /\ cur[1] \in hits \ rest /\ cur[2] \in 1..Len(flow[cur[1]])
         /\ flow[cur[1]][cur[2]] \in Call
         /\ <<cur[1], cur[2]>> \notin Visited
         /\ Visited' = Visited \union {<<cur[1], cur[2]>>}
<1>1. /\ cur \in hits \X (1..(MaxFlow + 1)) /\ cur # <<>>
      /\ cur[1] \in hits \ rest
      /\ cur[2] \in 1..(MaxFlow + 1) /\ cur[2] <= Len(flow[cur[1]])
  BY DEF Shape, Progress, VisitEntry, InEntries
<1>2. /\ Len(flow[cur[1]]) \in 0..MaxFlow
      /\ DOMAIN flow[cur[1]] = 1..Len(flow[cur[1]])
      /\ \A i \in DOMAIN flow[cur[1]] : flow[cur[1]][i] \in Call
  BY <1>1, FlowShape DEF Shape
<1>3. MaxFlow \in Nat
  BY NamesAssumption
<1>4. cur[2] \in 1..Len(flow[cur[1]]) /\ cur[2] \in 1..MaxFlow
  BY <1>1, <1>2, <1>3
<1>5. <<cur[1], cur[2]>> \notin Visited
  BY <1>1, <1>4 DEF Visited
<1>6. /\ cur' = <<cur[1], cur[2] + 1>> /\ cur' # <<>>
      /\ UNCHANGED <<flow, hits, rest>>
  BY DEF VisitEntry, storeVars
<1>7. ASSUME NEW v \in (hits \ rest) \X (1..MaxFlow)
      PROVE  v \in Visited' <=> v \in Visited \/ v = <<cur[1], cur[2]>>
  <2>1. v[1] \in hits \ rest /\ v[2] \in 1..MaxFlow /\ v = <<v[1], v[2]>>
    OBVIOUS
  <2>2. v \in Visited <=> v[2] <= Len(flow[v[1]]) /\ (cur[1] = v[1] => v[2] < cur[2])
    BY <1>1 DEF Visited
  <2>3. v \in Visited' <=> v[2] <= Len(flow[v[1]]) /\ (cur[1] = v[1] => v[2] < cur[2] + 1)
    BY <1>6 DEF Visited
  <2>4. CASE v[1] # cur[1]
    BY <2>1, <2>2, <2>3, <2>4
  <2>5. CASE v[1] = cur[1]
    <3>1. v[2] < cur[2] + 1 <=> v[2] < cur[2] \/ v[2] = cur[2]
      BY <1>4, <2>1
    <3> QED BY <1>4, <2>1, <2>2, <2>3, <2>5, <3>1
  <2> QED BY <2>4, <2>5
<1>8. Visited' \subseteq (hits \ rest) \X (1..MaxFlow)
  BY <1>6 DEF Visited
<1>9. Visited \subseteq (hits \ rest) \X (1..MaxFlow)
  BY DEF Visited
<1>10. <<cur[1], cur[2]>> \in (hits \ rest) \X (1..MaxFlow)
  BY <1>1, <1>4
<1>11. Visited' = Visited \union {<<cur[1], cur[2]>>}
  BY <1>7, <1>8, <1>9, <1>10
<1> QED BY <1>1, <1>2, <1>4, <1>5, <1>11

(* Visiting an entry counts it, once, wherever it belongs. *)
LEMMA CountedGrows ==
  ASSUME Shape, Progress, VisitEntry, NEW C
  PROVE  Counted(C)' = IF flow[cur[1]][cur[2]] \in C THEN Counted(C) + 1 ELSE Counted(C)
<1> DEFINE at == <<cur[1], cur[2]>>
           Of == {v \in Visited : flow[v[1]][v[2]] \in C}
           Now == {v \in Visited' : flow'[v[1]][v[2]] \in C}
<1>1. at \notin Visited /\ Visited' = Visited \union {at} /\ flow' = flow
  BY EntryIsNew DEF VisitEntry, storeVars
<1>2. IsFiniteSet(Of)
  BY VisitedIsFinite, FS_Subset
<1>3. CASE flow[cur[1]][cur[2]] \in C
  <2>1. Now = Of \union {at} /\ at \notin Of
    BY <1>1, <1>3
  <2>2. Cardinality(Of \union {at}) = Cardinality(Of) + 1
    BY <1>2, <2>1, FS_AddElement
  <2>3. Counted(C) = Cardinality(Of) /\ Counted(C)' = Cardinality(Now)
    BY DEF Counted
  <2> QED BY <1>3, <2>1, <2>2, <2>3
<1>4. CASE flow[cur[1]][cur[2]] \notin C
  <2>1. Now = Of
    BY <1>1, <1>4
  <2> QED BY <1>4, <2>1 DEF Counted
<1> QED BY <1>3, <1>4

-----------------------------------------------------------------------------
(* The aggregation. *)

(* What MapExact says of one function and of one edge. *)
CallsOf(f) == {c \in Call : c.fn = f}
ErrorsOf(f) == {c \in Call : c.fn = f /\ c.haveError}
RootsOf(f) == {c \in Call : c.fn = f /\ c.parent = NoName}
EdgeCalls(p, f) == {c \in Call : c.fn = f /\ c.parent = p}

(* Every counter that VisitEntry moves moves with the calls counted. *)
LEMMA VisitKeepsMap ==
  ASSUME Shape, Progress, MapExact, VisitEntry
  PROVE  MapExact'
<1> DEFINE c == flow[cur[1]][cur[2]]
<1>1. /\ c \in Call /\ c.fn \in Functions /\ c.parent \in Names
      /\ c.haveError \in BOOLEAN
  BY EntryIsNew DEF Call
<1>2. /\ calls' = [calls EXCEPT ![c.fn] = @ + 1]
      /\ errors' = IF c.haveError THEN [errors EXCEPT ![c.fn] = @ + 1] ELSE errors
      /\ entry' = IF c.parent = NoName THEN entry \union {c.fn} ELSE entry
      /\ edges' = IF c.parent = NoName THEN edges
                  ELSE [edges EXCEPT ![<<c.parent, c.fn>>] = @ + 1]
  BY DEF VisitEntry, EdgeOf
<1>3. \A C : Counted(C)' = IF c \in C THEN Counted(C) + 1 ELSE Counted(C)
  BY CountedGrows
<1>4. \A C : Counted(C) \in Nat
  <2> SUFFICES ASSUME NEW C PROVE Counted(C) \in Nat
    OBVIOUS
  <2> QED BY CountedIsNumber
<1> HIDE DEF c
<1>5. ASSUME NEW f \in Functions
      PROVE  /\ calls'[f] = Counted(CallsOf(f))'
             /\ errors'[f] = Counted(ErrorsOf(f))'
             /\ f \in entry' <=> Counted(RootsOf(f))' > 0
  <2>1. /\ calls[f] = Counted(CallsOf(f))
        /\ errors[f] = Counted(ErrorsOf(f))
        /\ f \in entry <=> Counted(RootsOf(f)) > 0
    BY DEF MapExact, CallsOf, ErrorsOf, RootsOf
  <2>2. /\ c \in CallsOf(f) <=> c.fn = f
        /\ c \in ErrorsOf(f) <=> c.fn = f /\ c.haveError
        /\ c \in RootsOf(f) <=> c.fn = f /\ c.parent = NoName
    BY <1>1 DEF CallsOf, ErrorsOf, RootsOf
  <2>3. calls'[f] = Counted(CallsOf(f))'
    BY <1>2, <1>3, <2>1, <2>2 DEF Shape
  <2>4. errors'[f] = Counted(ErrorsOf(f))'
    BY <1>2, <1>3, <2>1, <2>2 DEF Shape
  <2>5. f \in entry' <=> Counted(RootsOf(f))' > 0
    BY <1>2, <1>3, <1>4, <2>1, <2>2
  <2> QED BY <2>3, <2>4, <2>5
<1>6. ASSUME NEW f \in Functions, NEW p \in Functions
      PROVE  edges'[<<p, f>>] = Counted(EdgeCalls(p, f))'
  <2>1. edges[<<p, f>>] = Counted(EdgeCalls(p, f))
    BY DEF MapExact, EdgeCalls
  <2>2. c \in EdgeCalls(p, f) <=> c.fn = f /\ c.parent = p
    BY <1>1 DEF EdgeCalls
  <2>3. p # NoName
    BY NamesAssumption
  <2>4. <<p, f>> = <<c.parent, c.fn>> <=> c.fn = f /\ c.parent = p
    OBVIOUS
  <2> QED BY <1>2, <1>3, <2>1, <2>2, <2>3, <2>4 DEF Shape
<1> QED BY <1>5, <1>6 DEF MapExact, CallsOf, ErrorsOf, RootsOf, EdgeCalls

(* The map stays exact while neither it nor what is counted changes. *)
LEMMA MapStays ==
  ASSUME MapExact, UNCHANGED <<calls, errors, entry, edges>>, Visited' = Visited,
         \A v \in Visited : flow'[v[1]][v[2]] = flow[v[1]][v[2]]
  PROVE  MapExact'
<1>1. \A C : Counted(C)' = Counted(C)
  BY CountedStays
<1> QED BY <1>1 DEF MapExact

(* A log that is begun has nothing counted, the one before it everything. *)
LEMMA NextLogKeepsVisited ==
  ASSUME Shape, Progress, NEW r \in Reports, NextLog(r)
  PROVE  Visited' = Visited
<1>1. /\ r \in rest /\ rest' = rest \ {r} /\ cur' = <<r, 1>> /\ ~InEntries
      /\ UNCHANGED <<flow, hits>>
  BY DEF NextLog, storeVars
<1>2. ASSUME NEW v \in hits \X (1..MaxFlow)
      PROVE  v \in Visited' <=> v \in Visited
  <2>1. v[1] \in hits /\ v[2] \in 1..MaxFlow
    OBVIOUS
  <2>2. v \in Visited' <=> /\ v[1] \notin rest \/ v[1] = r
                           /\ v[2] <= Len(flow[v[1]])
                           /\ r = v[1] => v[2] < 1
    BY <1>1, <2>1 DEF Visited
  <2>3. v \in Visited <=> /\ v[1] \notin rest
                          /\ v[2] <= Len(flow[v[1]])
                          /\ cur # <<>> /\ cur[1] = v[1] => v[2] < cur[2]
    BY <2>1 DEF Visited
  <2>4. ASSUME cur # <<>>, cur[1] = v[1], v[2] <= Len(flow[v[1]])
        PROVE  v[2] < cur[2]
    <3>1. cur[2] \in 1..(MaxFlow + 1) /\ ~(cur[2] <= Len(flow[v[1]]))
      BY <1>1, <2>4 DEF Shape, InEntries
    <3>2. Len(flow[v[1]]) \in 0..MaxFlow
      BY <2>1, FlowShape DEF Shape
    <3> QED BY <2>1, <2>4, <3>1, <3>2, NamesAssumption
  <2>5. ~(v[2] < 1)
    BY <2>1
  <2> QED BY <1>1, <2>2, <2>3, <2>4, <2>5
<1>3. Visited' \subseteq hits \X (1..MaxFlow) /\ Visited \subseteq hits \X (1..MaxFlow)
  BY <1>1 DEF Visited
<1> QED BY <1>2, <1>3

(* Reports that are received meanwhile are not among the logs found. *)
LEMMA FoundLogsStay ==
  ASSUME Shape, UNCHANGED <<hits, rest, cur>>, \A x \in hits : flow'[x] = flow[x]
  PROVE  /\ Visited' = Visited
         /\ InEntries' <=> InEntries
         /\ \A v \in Visited : flow'[v[1]][v[2]] = flow[v[1]][v[2]]
<1>1. \A v \in (hits \ rest) \X (1..MaxFlow) : v[1] \in hits
  OBVIOUS
<1>2. Visited' = Visited
  BY <1>1 DEF Visited
<1>3. \A v \in Visited : v[1] \in hits
  BY DEF Visited
<1>4. InEntries' <=> InEntries
  BY DEF InEntries, Shape
<1> QED BY <1>2, <1>3, <1>4

-----------------------------------------------------------------------------
(* The series. *)

LEMMA SeriesSet ==
  /\ <<"method_failure_total">> \in Series
  /\ \A o \in {"success", "failure"} : <<"request_total", o>> \in Series
  /\ \A f \in Functions : <<"function_error_total", f>> \in Series
  BY DEF Series

(* The samples of a report agree with each other, so with those that are   *)
(* there they do, too.                                                     *)
LEMMA SamplesKeepSeries ==
  ASSUME Shape, SeriesAgree, NEW r \in Reports, NEW processFailure \in BOOLEAN,
         series' = [s \in Series |-> IF s \in SeriesOf(r, processFailure) THEN 1
                                     ELSE series[s]]
  PROVE  SeriesAgree'
<1> DEFINE Of == SeriesOf(r, processFailure)
<1>1. <<"method_failure_total">> \in Of <=> MethodFailure(r)
  BY DEF SeriesOf
<1>2. ASSUME NEW f \in Functions
      PROVE  <<"function_error_total", f>> \in Of
               <=> \E i \in DOMAIN flow[r] : flow[r][i].haveError /\ flow[r][i].fn = f
  BY DEF SeriesOf
<1>3. MethodFailure(r) <=> \E f \in Functions : <<"function_error_total", f>> \in Of
  <2>1. \A i \in DOMAIN flow[r] : flow[r][i].fn \in Functions
    BY FlowShape DEF Shape, Call
  <2> QED BY <1>2, <2>1 DEF MethodFailure
<1>4. \E o \in {"success", "failure"} : <<"request_total", o>> \in Of
  BY DEF SeriesOf
<1> HIDE DEF Of
<1>5. \A s \in Series : series'[s] = IF s \in Of THEN 1 ELSE series[s]
  BY DEF Of
<1>6. series'[<<"method_failure_total">>] = 1 <=>
        \E f \in Functions : series'[<<"function_error_total", f>>] = 1
  BY <1>1, <1>3, <1>5, SeriesSet DEF SeriesAgree
<1>7. \E o \in {"success", "failure"} : series'[<<"request_total", o>>] = 1
  BY <1>4, <1>5, SeriesSet
<1> QED BY <1>6, <1>7 DEF SeriesAgree

-----------------------------------------------------------------------------
(* Every step keeps the invariant. *)

LEMMA StoringKeepsInvariant ==
  ASSUME IInv, NEW r \in Reports, Receive(r) \/ StoreTelemetryLog(r) \/ PushMetrics(r)
  PROVE  IInv'
<1>1. Shape /\ Progress /\ MapExact /\ SeriesAgree
  BY DEF IInv
<1>2. /\ UNCHANGED mapVars
      /\ \A x \in hits : flow'[x] = flow[x]
  BY <1>1 DEF Receive, StoreTelemetryLog, PushMetrics, Progress, Shape
<1>3. MapExact'
  BY <1>1, <1>2, FoundLogsStay, MapStays DEF mapVars
<1>4. /\ flow' \in [Reports -> SeqOf(Call, MaxFlow)]
      /\ step' \in [Reports -> {"none", "received", "telemetry", "done"}]
      /\ es' \in SUBSET Reports
      /\ series' \in [Series -> {0, 1}]
  <2>1. CASE Receive(r)
    BY <1>1, <2>1 DEF Receive, Shape
  <2>2. CASE StoreTelemetryLog(r)
    BY <1>1, <2>2 DEF StoreTelemetryLog, Shape
  <2>3. CASE PushMetrics(r)
    <3>1. step' = [step EXCEPT ![r] = "done"] /\ UNCHANGED <<flow, es>>
      BY <2>3 DEF PushMetrics
    <3>2. series' \in [Series -> {0, 1}]
      BY <1>1, <2>3 DEF PushMetrics, Shape
    <3> QED BY <1>1, <3>1, <3>2 DEF Shape
  <2> QED BY <2>1, <2>2, <2>3
<1>5. Shape'
  BY <1>1, <1>2, <1>4 DEF Shape, mapVars
<1>6. \A x \in Reports : step'[x] = "none" => x \notin es' /\ x \notin hits'
  BY <1>1, <1>2 DEF Receive, StoreTelemetryLog, PushMetrics, Progress, Shape, mapVars
<1>7. Progress'
  BY <1>1, <1>2, <1>6, FoundLogsStay DEF Progress, mapVars
<1>8. SeriesAgree'
  <2>1. CASE UNCHANGED series
    BY <1>1, <2>1 DEF SeriesAgree
  <2>2. ASSUME NEW processFailure \in BOOLEAN,
               series' = [s \in Series |-> IF s \in SeriesOf(r, processFailure) THEN 1
                                           ELSE series[s]]
        PROVE  SeriesAgree'
    BY <1>1, <2>2, SamplesKeepSeries
  <2> QED BY <2>1, <2>2 DEF Receive, StoreTelemetryLog, PushMetrics
<1> QED BY <1>3, <1>5, <1>7, <1>8 DEF IInv

(* The steps of the query leave the stores alone and the counts exact. *)
LEMMA QueryKeepsInvariant ==
  ASSUME IInv, Search \/ Answer \/ VisitEntry \/ (\E r \in Reports : NextLog(r))
  PROVE  IInv'
<1>1. Shape /\ Progress /\ MapExact /\ SeriesAgree /\ UNCHANGED storeVars
  BY DEF IInv, Search, Answer, VisitEntry, NextLog
<1>2. SeriesAgree'
  BY <1>1 DEF SeriesAgree, storeVars
<1>3. CASE Search
  <2>1. Visited = {} /\ Visited' = {}
    BY <1>1, <1>3 DEF Search, Visited, Progress, Shape
  <2>2. MapExact'
    BY <1>1, <1>3, <2>1, MapStays DEF Search
  <2>3. Shape'
    BY <1>1, <1>3 DEF Search, Shape, Progress, storeVars
  <2>4. Progress'
    BY <1>1, <1>3 DEF Search, Shape, Progress, storeVars
  <2> QED BY <1>2, <2>2, <2>3, <2>4 DEF IInv
<1>4. CASE Answer
  <2>1. UNCHANGED <<flow, hits, rest, cur, calls, errors, entry, edges>>
    BY <1>4 DEF Answer, storeVars
  <2>2. MapExact' /\ (InEntries' <=> InEntries)
    BY <1>1, <2>1, FoundLogsStay, MapStays
  <2>3. Shape' /\ Progress'
    BY <1>1, <1>4, <2>2 DEF Answer, Shape, Progress, storeVars
  <2> QED BY <1>2, <2>2, <2>3 DEF IInv
<1>5. CASE VisitEntry
  <2>1. MapExact'
    BY <1>1, <1>5, VisitKeepsMap
  <2>2. cur' \in hits' \X (1..(MaxFlow + 1)) /\ cur'[1] \notin rest' /\ query' = "aggregating"
    <3>1. cur[1] \in hits \ rest /\ cur[2] \in 1..Len(flow[cur[1]])
      BY <1>1, <1>5, EntryIsNew
    <3>2. Len(flow[cur[1]]) \in 0..MaxFlow
      BY <1>1, <3>1, FlowShape DEF Shape
    <3>3. cur[2] + 1 \in 1..(MaxFlow + 1)
      BY <3>1, <3>2, NamesAssumption
    <3> QED BY <1>5, <3>1, <3>3 DEF VisitEntry
  <2>3. /\ calls' \in [Functions -> Nat] /\ errors' \in [Functions -> Nat]
        /\ entry' \in SUBSET Functions /\ edges' \in [Functions \X Functions -> Nat]
    <3>1. /\ flow[cur[1]][cur[2]].fn \in Functions
          /\ flow[cur[1]][cur[2]].parent \in Names
      BY <1>1, <1>5, EntryIsNew DEF Call
    <3>2. calls' \in [Functions -> Nat] /\ errors' \in [Functions -> Nat]
      <4> DEFINE g == flow[cur[1]][cur[2]].fn
      <4>1. /\ g \in Functions
            /\ calls' = [calls EXCEPT ![g] = @ + 1]
            /\ errors' = [errors EXCEPT ![g] = @ + 1] \/ errors' = errors
        BY <1>5, <3>1 DEF VisitEntry
      <4> HIDE DEF g
      <4>2. \A h \in [Functions -> Nat] : [h EXCEPT ![g] = @ + 1] \in [Functions -> Nat]
        BY <4>1
      <4> QED BY <1>1, <4>1, <4>2 DEF Shape
    <3>3. entry' \in SUBSET Functions
      BY <1>1, <1>5, <3>1 DEF VisitEntry, Shape
    <3>4. edges' \in [Functions \X Functions -> Nat]
      <4> DEFINE e == <<flow[cur[1]][cur[2]].parent, flow[cur[1]][cur[2]].fn>>
      <4>1. edges' = edges \/ (e \in Functions \X Functions
                               /\ edges' = [edges EXCEPT ![e] = @ + 1])
        BY <1>5, <3>1 DEF VisitEntry, EdgeOf, Names
      <4> DEFINE Pairs == Functions \X Functions
      <4>2. edges \in [Pairs -> Nat]
        BY <1>1 DEF Shape
      <4>3. edges' = edges \/ (e \in Pairs /\ edges' = [edges EXCEPT ![e] = @ + 1])
        BY <4>1
      <4> HIDE DEF e, Pairs
      <4>4. edges' \in [Pairs -> Nat]
        BY <4>2, <4>3
      <4> QED BY <4>4 DEF Pairs
    <3> QED BY <3>2, <3>3, <3>4
  <2>4. Shape'
    BY <1>1, <1>5, <2>2, <2>3 DEF VisitEntry, Shape, storeVars
  <2>5. Progress'
    BY <1>1, <1>5, <2>2 DEF VisitEntry, Progress, storeVars
  <2> QED BY <1>2, <2>1, <2>4, <2>5 DEF IInv
<1>6. ASSUME NEW r \in Reports, NextLog(r) PROVE IInv'
  <2>1. Visited' = Visited
    BY <1>1, <1>6, NextLogKeepsVisited
  <2>2. MapExact'
    BY <1>1, <1>6, <2>1, MapStays DEF NextLog, storeVars
  <2>3. cur' \in hits' \X (1..(MaxFlow + 1)) /\ cur'[1] \notin rest'
    BY <1>1, <1>6, NamesAssumption DEF NextLog, Shape
  <2>4. Shape'
    BY <1>1, <1>6, <2>3 DEF NextLog, Shape, storeVars
  <2>5. Progress'
    BY <1>1, <1>6, <2>3 DEF NextLog, Progress, storeVars
  <2> QED BY <1>2, <2>2, <2>4, <2>5 DEF IInv
<1> QED BY <1>3, <1>4, <1>5, <1>6

(* The loop invariant holds in every reachable state. *)
LEMMA MapInvariant == Spec => []IInv
<1>1. Init => IInv
  <2> SUFFICES ASSUME Init PROVE IInv
    OBVIOUS
  <2>1. <<>> \in SeqOf(Call, MaxFlow)
    BY NamesAssumption DEF SeqOf
  <2>2. Shape
    BY <2>1 DEF Init, EmptyMap, Shape
  <2>3. Progress
    BY DEF Init, Progress
  <2>4. SeriesAgree
    <3>1. \A s \in Series : series[s] = 0
      BY DEF Init
    <3>2. /\ series[<<"method_failure_total">>] = 0
          /\ \A g \in Functions : series[<<"function_error_total", g>>] = 0
      BY <3>1, SeriesSet
    <3>3. ~\E s \in Series : series[s] = 1
      BY <3>1
    <3>4. 0 # 1
      OBVIOUS
    <3> QED BY <3>2, <3>3, <3>4 DEF SeriesAgree
  <2>5. MapExact
    <3>1. Visited = {}
      BY DEF Init, Visited
    <3>2. ASSUME NEW C PROVE Counted(C) = 0
      <4>1. {v \in Visited : flow[v[1]][v[2]] \in C} = {}
        BY <3>1
      <4> QED BY <4>1, FS_EmptySet DEF Counted
    <3> QED BY <3>2 DEF Init, EmptyMap, MapExact
  <2> QED BY <2>2, <2>3, <2>4, <2>5 DEF IInv
<1>2. IInv /\ [Next]_vars => IInv'
  <2> SUFFICES ASSUME IInv, [Next]_vars PROVE IInv'
    OBVIOUS
  <2>1. CASE Next
    BY <2>1, StoringKeepsInvariant, QueryKeepsInvariant DEF Next
  <2>2. CASE UNCHANGED vars
    <3>1. UNCHANGED storeVars /\ UNCHANGED mapVars /\ Shape /\ Progress /\ MapExact /\ SeriesAgree
      BY <2>2 DEF vars, IInv
    <3>2. MapExact' /\ (InEntries' <=> InEntries)
      BY <3>1, FoundLogsStay, MapStays DEF storeVars, mapVars
    <3> QED BY <3>1, <3>2 DEF IInv, Shape, Progress, SeriesAgree, storeVars, mapVars
  <2> QED BY <2>1, <2>2
<1> QED BY <1>1, <1>2, PTL DEF Spec

-----------------------------------------------------------------------------
(* Theorems. *)

(* The state of the aggregation and of the stores is well formed; no       *)
(* counter exceeds what the reports together have room for.                *)
THEOREM MapTypeCorrect == Spec => []TypeOK
<1>1. IInv => TypeOK
  <2> SUFFICES ASSUME IInv PROVE TypeOK
    OBVIOUS
  <2>1. Shape /\ MapExact
    BY DEF IInv
  <2>2. \A C : Counted(C) \in Count
    <3> SUFFICES ASSUME NEW C PROVE Counted(C) \in Count
      OBVIOUS
    <3> QED BY <2>1, CountedIsNumber DEF Count
  <2>3. \A f \in Functions : calls[f] \in Count /\ errors[f] \in Count
    BY <2>1, <2>2 DEF MapExact
  <2>4. calls \in [Functions -> Count] /\ errors \in [Functions -> Count]
    BY <2>1, <2>3 DEF Shape
  <2>5. edges \in [Functions \X Functions -> Count]
    <3>1. \A e \in Functions \X Functions : edges[e] \in Count
      <4> SUFFICES ASSUME NEW e \in Functions \X Functions PROVE edges[e] \in Count
        OBVIOUS
      <4>1. e[1] \in Functions /\ e[2] \in Functions /\ e = <<e[1], e[2]>>
        OBVIOUS
      <4>2. edges[<<e[1], e[2]>>] \in Count
        BY <2>1, <2>2, <4>1 DEF MapExact
      <4> QED BY <4>1, <4>2
    <3> QED BY <2>1, <3>1 DEF Shape
  <2> QED BY <2>1, <2>4, <2>5 DEF Shape, TypeOK
<1> QED BY <1>1, MapInvariant, PTL

(* In whatever order the logs come, every node and edge stands for the     *)
(* calls counted so far, each once.                                        *)
THEOREM MapIsExact == Spec => []MapExact
<1>1. IInv => MapExact
  BY DEF IInv
<1> QED BY <1>1, MapInvariant, PTL

(* The counters in VictoriaMetrics agree on whether anything failed,       *)
(* whichever reports' samples were lost.                                   *)
THEOREM SeriesAreConsistent == Spec => []SeriesAgree
<1>1. IInv => SeriesAgree
  BY DEF IInv
<1> QED BY <1>1, MapInvariant, PTL

(* What is counted when the query is answered: every call of every log.    *)
LEMMA AllIsCounted ==
  ASSUME IInv, query = "answered"
  PROVE  /\ \A v \in Visited : v[1] \in hits /\ v[2] \in DOMAIN flow[v[1]]
         /\ \A r \in hits : \A i \in DOMAIN flow[r] : <<r, i>> \in Visited
<1>1. Shape /\ rest = {} /\ ~InEntries
  BY DEF IInv, Progress
<1>2. \A r \in hits : /\ Len(flow[r]) \in 0..MaxFlow
                      /\ DOMAIN flow[r] = 1..Len(flow[r])
  BY <1>1, FlowShape DEF Shape
<1>3. ASSUME NEW v \in Visited PROVE v[1] \in hits /\ v[2] \in DOMAIN flow[v[1]]
  BY <1>2, NamesAssumption DEF Visited
<1>4. ASSUME NEW r \in hits, NEW i \in DOMAIN flow[r] PROVE <<r, i>> \in Visited
  <2>1. i \in 1..Len(flow[r]) /\ i \in 1..MaxFlow
    BY <1>2, NamesAssumption
  <2>2. ASSUME cur # <<>>, cur[1] = r PROVE i < cur[2]
    <3>1. cur[2] \in 1..(MaxFlow + 1) /\ ~(cur[2] <= Len(flow[r]))
      BY <1>1, <2>2 DEF Shape, InEntries
    <3> QED BY <1>2, <2>1, <3>1, NamesAssumption
  <2> QED BY <1>1, <1>2, <2>1, <2>2 DEF Visited
<1> QED BY <1>3, <1>4

(* A map with an error is made of a log that is flagged, and the other way *)
(* round, for any logs.                                                    *)
THEOREM FlagsAgree == Spec => []FailuresAgree
<1>1. IInv => FailuresAgree
  <2> SUFFICES ASSUME IInv, query = "answered"
               PROVE  (\E f \in Functions : errors[f] > 0) <=> (\E r \in hits : MethodFailure(r))
    BY DEF FailuresAgree
  <2>1. Shape /\ MapExact
    BY DEF IInv
  <2>2. ASSUME NEW f \in Functions
        PROVE  errors[f] > 0 <=>
                 \E v \in Visited : flow[v[1]][v[2]] \in ErrorsOf(f)
    <3>1. errors[f] = Counted(ErrorsOf(f))
      BY <2>1 DEF MapExact, ErrorsOf
    <3> QED BY <2>1, <3>1, CountedIsNumber
  <2>3. ASSUME NEW f \in Functions, errors[f] > 0 PROVE \E r \in hits : MethodFailure(r)
    BY <2>2, <2>3, AllIsCounted DEF ErrorsOf, MethodFailure
  <2>4. ASSUME NEW r \in hits, MethodFailure(r) PROVE \E f \in Functions : errors[f] > 0
    <3>1. PICK i \in DOMAIN flow[r] : flow[r][i].haveError
      BY <2>4 DEF MethodFailure
    <3>2. flow[r][i] \in Call
      BY <2>1, FlowShape DEF Shape
    <3>3. flow[r][i].fn \in Functions /\ flow[r][i] \in ErrorsOf(flow[r][i].fn)
      BY <3>1, <3>2 DEF Call, ErrorsOf
    <3>4. <<r, i>> \in Visited
      BY AllIsCounted
    <3>5. \E v \in Visited : flow[v[1]][v[2]] \in ErrorsOf(flow[r][i].fn)
      BY <3>3, <3>4
    <3> QED BY <2>2, <3>3, <3>5
  <2> QED BY <2>3, <2>4
<1> QED BY <1>1, MapInvariant, PTL

(* The answer is a graph whenever every flow holds the parents it names.   *)
THEOREM KnownParentsGiveGraph == Spec => []KnownParentsMakeGraph
<1>1. IInv => KnownParentsMakeGraph
  <2> SUFFICES ASSUME IInv, query = "answered", \A r \in hits : ParentsKnown(r),
                      NEW e \in Functions \X Functions, edges[e] > 0
               PROVE  calls[e[1]] > 0 /\ calls[e[2]] > 0
    BY DEF KnownParentsMakeGraph, EdgesJoinNodes
  <2> DEFINE p == e[1]
             f == e[2]
  <2>1. Shape /\ MapExact /\ p \in Functions /\ f \in Functions /\ e = <<p, f>>
    BY DEF IInv
  <2>2. ASSUME NEW g \in Functions, NEW r \in hits, NEW i \in DOMAIN flow[r],
               flow[r][i].fn = g
        PROVE  calls[g] > 0
    <3>1. flow[r][i] \in CallsOf(g)
      BY <2>1, <2>2, FlowShape DEF Shape, CallsOf
    <3>2. \E v \in Visited : flow[v[1]][v[2]] \in CallsOf(g)
      BY <3>1, AllIsCounted
    <3>3. calls[g] = Counted(CallsOf(g))
      BY <2>1 DEF MapExact, CallsOf
    <3> QED BY <2>1, <3>2, <3>3, CountedIsNumber
  <2> HIDE DEF p, f
  <2>3. edges[<<p, f>>] = Counted(EdgeCalls(p, f))
    BY <2>1 DEF MapExact, EdgeCalls
  <2>4. PICK v \in Visited : flow[v[1]][v[2]] \in EdgeCalls(p, f)
    BY <2>1, <2>3, CountedIsNumber
  <2>5. v[1] \in hits /\ v[2] \in DOMAIN flow[v[1]]
    BY AllIsCounted
  <2>6. flow[v[1]][v[2]].fn = f /\ flow[v[1]][v[2]].parent = p
    BY <2>4 DEF EdgeCalls
  <2>7. p # NoName
    BY <2>1, NamesAssumption
  <2>8. PICK j \in DOMAIN flow[v[1]] : flow[v[1]][j].fn = p
    BY <2>5, <2>6, <2>7 DEF ParentsKnown
  <2>9. calls[f] > 0 /\ calls[p] > 0
    BY <2>1, <2>2, <2>5, <2>6, <2>8
  <2> QED BY <2>9 DEF p, f
<1> QED BY <1>1, MapInvariant, PTL
=============================================================================
