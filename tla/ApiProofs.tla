------------------------------- MODULE ApiProofs -------------------------------
(***************************************************************************)
(* Proofs about Api, for any reports, services and number of restarts:     *)
(* what the reads answer follows from the invariant of the ingest.         *)
(***************************************************************************)
EXTENDS Api, IngestProofs

(* Whatever is read beside it, the ingest goes its way: every invariant    *)
(* proved of it holds with the API, too.                                   *)
THEOREM ApiLeavesIngest == ApiSpec => Spec
<1>1. ApiInit => Init
  BY DEF ApiInit
<1>2. ApiNext => [Next]_vars
  BY DEF ApiNext, Reads, Refresh, ListServices, QueryTelemetryLogs, GetLog
<1>3. UNCHANGED apiVars => UNCHANGED vars
  BY DEF apiVars
<1>4. [ApiNext]_apiVars => [Next]_vars
  BY <1>2, <1>3
<1> QED BY <1>1, <1>4, PTL DEF ApiSpec, Spec

(* Searches see only what is stored. *)
VisibleStored == visible \subseteq {r \in Reports : <<r, TelemetryLog>> \in stored}

(* No step of the ingest takes a document away. *)
LEMMA StoredStays == [Next]_vars => stored \subseteq stored'
<1> SUFFICES ASSUME [Next]_vars PROVE stored \subseteq stored'
  OBVIOUS
<1> USE DEF procVars, indexVars, jobVars
<1>1. CASE CreateIndex \/ CreateIndexFails \/ Signal \/ Restart
  BY <1>1 DEF CreateIndex, CreateIndexFails, Signal, Restart
<1>2. CASE Exit \/ Crash
  BY <1>2 DEF Exit, Crash, KillGoroutines
<1>3. ASSUME NEW r \in Reports, Receive(r) \/ Handle(r) \/ Reply(r)
      PROVE  stored \subseteq stored'
  BY <1>3 DEF Receive, Handle, Reply
<1>4. ASSUME NEW r \in Reports, Put(r) \/ PutFails(r)
      PROVE  stored \subseteq stored'
  BY <1>4 DEF Put, PutFails
<1>5. ASSUME NEW w \in Writes, LatePut(w) PROVE stored \subseteq stored'
  BY <1>5 DEF LatePut
<1>6. ASSUME NEW i \in Indices, LateCreate(i) PROVE stored \subseteq stored'
  BY <1>6 DEF LateCreate
<1>7. CASE UNCHANGED vars
  BY <1>7 DEF vars
<1> QED BY <1>1, <1>2, <1>3, <1>4, <1>5, <1>6, <1>7 DEF Next

(* What a search has seen stays stored. *)
LEMMA VisibleKept == VisibleStored /\ [ApiNext]_apiVars => VisibleStored'
<1> SUFFICES ASSUME VisibleStored, [ApiNext]_apiVars PROVE VisibleStored'
  OBVIOUS
<1>1. CASE Next /\ UNCHANGED <<visible, answer>>
  <2>1. stored \subseteq stored'
    BY <1>1, StoredStays
  <2> QED BY <1>1, <2>1 DEF VisibleStored
<1>2. CASE Refresh
  BY <1>2 DEF Refresh, VisibleStored, vars, jobVars
<1>3. CASE Reads
  <2>1. visible' = visible /\ stored' = stored
    BY <1>3 DEF Reads, ListServices, QueryTelemetryLogs, GetLog, vars, jobVars
  <2> QED BY <2>1 DEF VisibleStored
<1>4. CASE UNCHANGED apiVars
  BY <1>4 DEF apiVars, vars, jobVars, VisibleStored
<1> QED BY <1>1, <1>2, <1>3, <1>4 DEF ApiNext

(* Where a document is stored there is an index. *)
DocumentsIndexed == \A i \in Indices :
  (\E r \in Reports : <<r, i>> \in stored) => index[i] # "absent"

(* A document that comes finds an index or makes one, and no step of the   *)
(* ingest takes an index away.                                             *)
LEMMA DocumentsStayIndexed ==
  TypeOK /\ DocumentsIndexed /\ [Next]_vars => DocumentsIndexed'
<1> SUFFICES ASSUME TypeOK, DocumentsIndexed, [Next]_vars PROVE DocumentsIndexed'
  OBVIOUS
<1> USE DEF procVars, indexVars, jobVars
<1>1. ASSUME stored' = stored,
             \A i \in Indices : index[i] # "absent" => index'[i] # "absent"
      PROVE  DocumentsIndexed'
  BY <1>1 DEF DocumentsIndexed
<1>2. ASSUME NEW w \in Writes, stored' = stored \union {w}, index' = IndexAfter(w[2])
      PROVE  DocumentsIndexed'
  <2>1. \A i \in Indices : /\ index[i] # "absent" => index'[i] # "absent"
                           /\ i = w[2] => index'[i] # "absent"
    BY <1>2 DEF IndexAfter
  <2>2. \A r \in Reports, i \in Indices :
          <<r, i>> \in stored' => <<r, i>> \in stored \/ i = w[2]
    BY <1>2
  <2> QED BY <2>1, <2>2 DEF DocumentsIndexed
<1>3. CASE CreateIndex
  <2>1. \A i \in Indices : index[i] # "absent" => index'[i] # "absent"
    BY <1>3 DEF CreateIndex, CreationAnswered, Created, TypeOK
  <2> QED BY <1>1, <1>3, <2>1 DEF CreateIndex
<1>4. ASSUME NEW i \in Indices, LateCreate(i) PROVE DocumentsIndexed'
  <2>1. \A j \in Indices : index[j] # "absent" => index'[j] # "absent"
    BY <1>4 DEF LateCreate, Created, TypeOK
  <2> QED BY <1>1, <1>4, <2>1 DEF LateCreate
<1>5. ASSUME NEW r \in Reports, Put(r) PROVE DocumentsIndexed'
  <2>1. <<r, stage[r]>> \in Writes
    BY <1>5, Numbers DEF Put, Storing
  <2> QED BY <1>2, <1>5, <2>1 DEF Put
<1>6. ASSUME NEW w \in Writes, LatePut(w) PROVE DocumentsIndexed'
  BY <1>2, <1>6 DEF LatePut
<1>7. ASSUME NEW r \in Reports, Receive(r) \/ Handle(r) \/ Reply(r) \/ PutFails(r)
      PROVE  UNCHANGED <<stored, index>>
  BY <1>7 DEF Receive, Handle, Reply, PutFails
<1>8. CreateIndexFails \/ Signal \/ Exit \/ Crash \/ Restart => UNCHANGED <<stored, index>>
  BY DEF CreateIndexFails, Signal, Exit, Crash, Restart, KillGoroutines
<1>9. CASE UNCHANGED <<stored, index>>
  BY <1>1, <1>9
<1> QED BY <1>3, <1>4, <1>5, <1>6, <1>7, <1>8, <1>9 DEF Next, vars

(* In every reachable state the ingest is in its invariant, stored         *)
(* documents have an index, and searches see only what is stored.          *)
LEMMA ApiInvariant == ApiSpec => [](IInv /\ DocumentsIndexed /\ VisibleStored)
<1>1. ApiInit => VisibleStored
  BY DEF ApiInit, VisibleStored
<1>2. ApiSpec => []VisibleStored
  BY <1>1, VisibleKept, PTL DEF ApiSpec
<1>3. Init => DocumentsIndexed
  BY DEF Init, DocumentsIndexed
<1>4. Spec => []DocumentsIndexed
  BY <1>3, DocumentsStayIndexed, IngestTypeCorrect, PTL DEF Spec
<1> QED BY <1>2, <1>4, ApiLeavesIngest, IngestInvariant, PTL

(* A search sees logs in a declared index, or in one that a boot went on   *)
(* without and whose mapping was guessed.                                  *)
LEMMA SeenInDeclared ==
  ASSUME IInv, DocumentsIndexed, VisibleStored, NEW r \in visible
  PROVE  \/ index[TelemetryLog] = "declared"
         \/ index[TelemetryLog] = "dynamic" /\ TelemetryLog \in skipped
<1>1. TypeOK /\ IndicesFirst
  BY DEF IInv
<1>2. index[TelemetryLog] # "absent" /\ TelemetryLog \in Indices
  BY Numbers DEF VisibleStored, DocumentsIndexed
<1> QED BY <1>1, <1>2 DEF IndicesFirst, TypeOK

-----------------------------------------------------------------------------
(* A 404 tells that Elasticsearch has failed, or that the log is on its    *)
(* way, logged as lost, or died with the process.                          *)
THEOREM NotFoundIsExplained == ApiSpec => NotFoundExplained
<1> DEFINE Explained == \A es \in Outcomes, i \in Indices, r \in Reports :
      GetLog(i, r, es) /\ answer'.status = 404 /\ rpc[r] = "acked" =>
        \/ es # "answer"
        \/ Storing(r) /\ stage[r] <= i
        \/ <<r, i>> \in logged
        \/ r \in killed
<1>1. IInv => Explained
  <2> SUFFICES ASSUME IInv, NEW i \in Indices, NEW r \in Reports,
                      GetLog(i, r, "answer"), answer'.status = 404,
                      rpc[r] = "acked", <<r, i>> \notin logged, r \notin killed
               PROVE  Storing(r) /\ stage[r] <= i
    OBVIOUS
  <2>1. <<r, i>> \notin stored
    BY DEF GetLog, LogAnswers, Got
  <2>2. TypeOK /\ StagesInOrder
    BY DEF IInv
  <2>3. i \in {1, 2} /\ i \in ServiceLog..Metrics
    BY Numbers
  <2>4. stage[r] # 0 /\ ~(i < stage[r])
    BY <2>1, <2>2, <2>3 DEF StagesInOrder
  <2>5. stage[r] \in {0, 1, 2, 3, 4}
    BY <2>2, Numbers DEF TypeOK
  <2> QED BY <2>3, <2>4, <2>5, Numbers DEF Storing
<1>2. IInv => [Explained]_apiVars
  BY <1>1
<1> QED BY <1>2, ApiInvariant, PTL DEF NotFoundExplained

(* A service whose log searches see is listed, unless Elasticsearch has    *)
(* answered with an error or a boot went on without the index.             *)
THEOREM ServicesAreListed == ApiSpec => ServicesListed
<1> DEFINE Listed == \A es \in Outcomes :
      ListServices(es) /\ answer'.status = 200 =>
        \/ {Service[r] : r \in visible} \subseteq answer'.body
        \/ es = "error"
        \/ index[TelemetryLog] = "dynamic" /\ TelemetryLog \in skipped
<1>1. IInv /\ DocumentsIndexed /\ VisibleStored => Listed
  <2> SUFFICES ASSUME IInv, DocumentsIndexed, VisibleStored, NEW es \in Outcomes,
                      ListServices(es), answer'.status = 200, es # "error",
                      ~(index[TelemetryLog] = "dynamic" /\ TelemetryLog \in skipped),
                      NEW r \in visible
               PROVE  Service[r] \in answer'.body
    OBVIOUS
  <2>1. es = "answer"
    BY DEF Outcomes, ListServices, SearchAnswers
  <2>2. index[TelemetryLog] = "declared"
    BY SeenInDeclared
  <2>3. answer' = [status |-> 200, body |-> {Service[x] : x \in visible}]
    BY <2>1, <2>2 DEF ListServices, SearchAnswers, Found, Buckets
  <2> QED BY <2>3
<1>2. IInv /\ DocumentsIndexed /\ VisibleStored => [Listed]_apiVars
  BY <1>1
<1> QED BY <1>2, ApiInvariant, PTL DEF ServicesListed

(* What is listed has its service log stored, or the failure logged.       *)
THEOREM ListedHaveServiceLogs == ApiSpec => ListedHasServiceLog
<1> DEFINE Had == \A s \in Services \union {NoService} :
      QueryTelemetryLogs(s, "answer") =>
        \A r \in answer'.body :
          /\ s # NoService /\ TelemetryLog \notin skipped => Service[r] = s
          /\ <<r, ServiceLog>> \in stored \union logged
<1>1. IInv /\ DocumentsIndexed /\ VisibleStored => Had
  <2> SUFFICES ASSUME IInv, DocumentsIndexed, VisibleStored, NEW s \in Services \union {NoService},
                      QueryTelemetryLogs(s, "answer"), NEW r \in answer'.body
               PROVE  /\ s # NoService /\ TelemetryLog \notin skipped => Service[r] = s
                      /\ <<r, ServiceLog>> \in stored \union logged
    OBVIOUS
  <2>1. PICK hits \in Matching(s) : SearchAnswers("answer", hits)
    BY DEF QueryTelemetryLogs
  <2>1a. r \in hits /\ r \in visible
    BY <2>1 DEF SearchAnswers, Found, Matching
  <2>1b. s # NoService /\ TelemetryLog \notin skipped => Service[r] = s
    BY <2>1a, SeenInDeclared DEF Matching
  <2>2. TypeOK /\ StagesInOrder /\ WritesReached
    BY DEF IInv
  <2>3. r \in Reports /\ <<r, 2>> \in stored
    BY <2>1a, Numbers DEF VisibleStored
  <2>4. 1 < stage[r]
    <3>1. 2 < stage[r] \/ 2 = stage[r]
      BY <2>2, <2>3, Numbers DEF WritesReached
    <3>2. stage[r] \in {0, 1, 2, 3, 4}
      BY <2>2, <2>3, Numbers DEF TypeOK
    <3> QED BY <3>1, <3>2
  <2>5. <<r, 1>> \in stored \union logged
    BY <2>2, <2>3, <2>4, Numbers DEF StagesInOrder
  <2> QED BY <2>1b, <2>5, Numbers
<1>2. IInv /\ DocumentsIndexed /\ VisibleStored => [Had]_apiVars
  BY <1>1
<1> QED BY <1>2, ApiInvariant, PTL DEF ListedHasServiceLog
=============================================================================
