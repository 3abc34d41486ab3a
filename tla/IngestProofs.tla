----------------------------- MODULE IngestProofs -----------------------------
(***************************************************************************)
(* Proofs about Ingest, for any reports and any number of restarts.        *)
(***************************************************************************)
EXTENDS Ingest, TLAPS

(* The writes of a report are numbered 1 to 3. *)
LEMMA Numbers ==
  /\ ServiceLog = 1 /\ TelemetryLog = 2 /\ Metrics = 3 /\ Done = 4
  /\ ServiceLog..Metrics = {1, 2, 3} /\ 0..Done = {0, 1, 2, 3, 4}
  /\ Indices = {1, 2} /\ Writes = Reports \X {1, 2, 3}
<1>1. ServiceLog = 1 /\ TelemetryLog = 2 /\ Metrics = 3 /\ Done = 4
  BY DEF ServiceLog, TelemetryLog, Metrics, Done
<1>2. 1..3 = {1, 2, 3} /\ 0..4 = {0, 1, 2, 3, 4}
  OBVIOUS
<1>3. Indices = {1, 2} /\ Writes = Reports \X {1, 2, 3}
  BY <1>1 DEF Indices, Writes
<1> QED BY <1>1, <1>2, <1>3

(* The process starts in the invariant. *)
LEMMA InitInvariant == Init => IInv
<1> SUFFICES ASSUME Init PROVE IInv
  OBVIOUS
<1>1. TypeOK
  <2>1. boots \in 1..MaxBoots
    BY BootsAssumption DEF Init
  <2>2. creating \in Indices /\ stage \in [Reports -> 0..Done]
    BY Numbers DEF Init
  <2>3. index \in [Indices -> {"absent", "declared", "dynamic"}]
    BY DEF Init
  <2> QED BY <2>1, <2>2, <2>3 DEF Init, TypeOK
<1>2. StagesInOrder /\ WritesReached
  BY DEF Init, StagesInOrder, WritesReached, ServiceLog, Metrics
<1>3. IndicesFirst
  BY DEF Init, IndicesFirst, ServiceLog, TelemetryLog
<1> QED BY <1>1, <1>2, <1>3 DEF IInv

(* Every step keeps every variable in its type. *)
LEMMA NextKeepsType == TypeOK /\ [Next]_vars => TypeOK'
<1> SUFFICES ASSUME TypeOK, [Next]_vars PROVE TypeOK'
  OBVIOUS
<1> USE DEF procVars, indexVars, jobVars
<1>1. CASE CreateIndex
  BY <1>1 DEF CreateIndex, CreationAnswered, Created, TypeOK, Indices
<1>2. CASE CreateIndexFails
  BY <1>2 DEF CreateIndexFails, TypeOK
<1>3. ASSUME NEW r \in Reports, Receive(r) \/ Handle(r) \/ Reply(r)
      PROVE  TypeOK'
  <2>1. CASE Receive(r)
    BY <2>1 DEF Receive, TypeOK
  <2>2. CASE Handle(r)
    <3>1. stage' \in [Reports -> 0..Done]
      BY <2>2, Numbers DEF Handle, TypeOK
    <3> QED BY <2>2, <3>1 DEF Handle, TypeOK
  <2>3. CASE Reply(r)
    BY <2>3 DEF Reply, TypeOK
  <2> QED BY <1>3, <2>1, <2>2, <2>3
<1>4. ASSUME NEW r \in Reports, Put(r) PROVE TypeOK'
  <2>1. stage[r] \in {1, 2, 3} /\ stage[r] + 1 \in 0..Done
    BY <1>4, Numbers DEF Put, Storing, TypeOK
  <2>2. <<r, stage[r]>> \in Writes
    BY <2>1, Numbers
  <2>3. index' \in [Indices -> {"absent", "declared", "dynamic"}]
    BY <1>4 DEF Put, IndexAfter, TypeOK
  <2> QED BY <1>4, <2>1, <2>2, <2>3 DEF Put, TypeOK
<1>5. ASSUME NEW r \in Reports, PutFails(r) PROVE TypeOK'
  <2>1. stage[r] \in {1, 2, 3} /\ stage[r] + 1 \in 0..Done
    BY <1>5, Numbers DEF PutFails, Storing, TypeOK
  <2>2. <<r, stage[r]>> \in Writes
    BY <2>1, Numbers
  <2> QED BY <1>5, <2>1, <2>2 DEF PutFails, TypeOK
<1>6. ASSUME NEW w \in Writes, LatePut(w) PROVE TypeOK'
  BY <1>6 DEF LatePut, IndexAfter, TypeOK
<1>7. ASSUME NEW i \in Indices, LateCreate(i) PROVE TypeOK'
  BY <1>7 DEF LateCreate, Created, TypeOK
<1>8. CASE Signal
  BY <1>8 DEF Signal, TypeOK
<1>9. ASSUME KillGoroutines
      PROVE  /\ killed' \in SUBSET Reports /\ late' \in SUBSET Writes
             /\ UNCHANGED <<stage, stored, logged>>
  <2>1. \A r \in Running : <<r, stage[r]>> \in Writes
    BY Numbers DEF Running, Storing, TypeOK
  <2> QED BY <1>9, <2>1 DEF KillGoroutines, Running, TypeOK
<1>10. CASE Exit
  BY <1>9, <1>10 DEF Exit, TypeOK
<1>11. CASE Crash
  BY <1>9, <1>11 DEF Crash, TypeOK
<1>12. CASE Restart
  BY <1>12, Numbers, BootsAssumption DEF Restart, TypeOK
<1>13. CASE UNCHANGED vars
  BY <1>13 DEF vars, TypeOK
<1> QED
  BY <1>1, <1>2, <1>3, <1>4, <1>5, <1>6, <1>7, <1>8, <1>10, <1>11, <1>12,
     <1>13 DEF Next

(* Every variable of the backend keeps its type. *)
THEOREM IngestTypeCorrect == Spec => []TypeOK
<1>1. Init => TypeOK
  BY InitInvariant DEF IInv
<1> QED BY <1>1, NextKeepsType, PTL DEF Spec

-----------------------------------------------------------------------------
(* The inductive invariant. *)

(* What only depends on the goroutines and their writes. *)
LEMMA WritesKept ==
  ASSUME StagesInOrder, WritesReached, UNCHANGED <<rpc, jobVars>>
  PROVE  StagesInOrder' /\ WritesReached'
BY DEF StagesInOrder, WritesReached, jobVars

(* main has each index before it serves, or goes on without it. *)
LEMMA BootKeepsInvariant ==
  ASSUME IInv, TypeOK', CreateIndex \/ CreateIndexFails \/ Signal \/ Restart
  PROVE  IInv'
<1> USE DEF procVars, indexVars
<1>1. UNCHANGED <<rpc, jobVars>>
  BY DEF CreateIndex, CreateIndexFails, Signal, Restart
<1>2. StagesInOrder' /\ WritesReached'
  BY <1>1, WritesKept DEF IInv
<1>3. IndicesFirst'
  <2>1. CASE CreateIndex
    <3>1. /\ proc = "boot" /\ CreationAnswered(creating)
          /\ IF creating = ServiceLog
             THEN creating' = TelemetryLog /\ proc' = "boot"
             ELSE creating' = creating /\ proc' = "serving"
      BY <2>1 DEF CreateIndex
    <3>2. /\ creating \in {1, 2} /\ stage' = stage
          /\ IndicesFirst /\ skipped \subseteq Indices
      BY <1>1, Numbers DEF IInv, TypeOK, jobVars
    <3>3. CASE index' = Created(creating) /\ UNCHANGED skipped
      <4>1. \A i \in Indices :
              index'[i] = IF i = creating /\ index[i] = "absent" THEN "declared"
                          ELSE index[i]
        BY <3>3 DEF Created, IInv, TypeOK
      <4> QED BY <3>1, <3>2, <3>3, <4>1, Numbers DEF IndicesFirst
    <3>4. CASE skipped' = skipped \union {creating} /\ UNCHANGED index
      BY <3>1, <3>2, <3>4, Numbers DEF IndicesFirst
    <3> QED BY <3>1, <3>3, <3>4 DEF CreationAnswered
  <2>2. CASE CreateIndexFails
    <3>1. /\ proc = "boot" /\ proc' = "serving" /\ UNCHANGED <<creating, index, stage>>
          /\ skipped' = skipped \union {i \in Indices : creating <= i}
      BY <2>2 DEF CreateIndexFails, jobVars
    <3>2. creating \in {1, 2} /\ IndicesFirst
      BY Numbers DEF IInv, TypeOK
    <3> QED BY <3>1, <3>2, Numbers DEF IndicesFirst
  <2>3. CASE Signal
    BY <1>1, <2>3 DEF Signal, IInv, IndicesFirst, jobVars
  <2>4. CASE Restart
    BY <1>1, <2>4, Numbers DEF Restart, IInv, IndicesFirst, jobVars
  <2> QED BY <2>1, <2>2, <2>3, <2>4
<1> QED BY <1>2, <1>3 DEF IInv

(* A call starts its goroutine once, while the process serves. *)
LEMMA CallKeepsInvariant ==
  ASSUME IInv, TypeOK', NEW r \in Reports, Receive(r) \/ Handle(r) \/ Reply(r)
  PROVE  IInv'
<1> USE DEF procVars, indexVars, jobVars
<1>0. TypeOK /\ StagesInOrder /\ WritesReached /\ IndicesFirst
  BY DEF IInv
<1>1. CASE Receive(r) \/ Reply(r)
  <2>1. UNCHANGED <<procVars, indexVars, jobVars>>
    BY <1>1 DEF Receive, Reply
  <2>2. WritesReached' /\ IndicesFirst'
    BY <2>1, <1>0 DEF WritesReached, IndicesFirst
  <2>3. \A q \in Reports : q # r => rpc'[q] = rpc[q]
    BY <1>0, <1>1 DEF Receive, Reply, TypeOK
  <2>4. \/ rpc[r] = "idle" /\ rpc'[r] = "handling"
        \/ rpc[r] = "replying" /\ rpc'[r] \in {"acked", "failed"}
    BY <1>0, <1>1 DEF Receive, Reply, TypeOK
  <2>5. StagesInOrder'
    BY <2>1, <2>3, <2>4, <1>0 DEF StagesInOrder
  <2> QED BY <2>2, <2>5 DEF IInv
<1>2. CASE Handle(r)
  <2>1. /\ Serving /\ rpc[r] = "handling" /\ rpc'[r] = "replying"
        /\ stage'[r] = 1 /\ stage[r] = 0
        /\ \A q \in Reports : q # r => rpc'[q] = rpc[q] /\ stage'[q] = stage[q]
        /\ UNCHANGED <<procVars, indexVars, killed, stored, late, logged>>
    BY <1>0, <1>2, Numbers DEF Handle, TypeOK, StagesInOrder
  <2>2. StagesInOrder'
    <3>1. ASSUME NEW q \in Reports, NEW i \in {1, 2, 3}, i < stage'[q]
          PROVE  <<q, i>> \in stored \union logged
      <4>1. q # r
        BY <2>1, <3>1
      <4> QED BY <2>1, <3>1, <4>1, <1>0, Numbers DEF StagesInOrder
    <3>2. \A q \in Reports :
            /\ rpc'[q] \in {"idle", "handling"} => stage'[q] = 0
            /\ rpc'[q] \in {"replying", "acked"} => stage'[q] # 0
      BY <2>1, <1>0 DEF StagesInOrder
    <3> QED BY <2>1, <3>1, <3>2, Numbers DEF StagesInOrder
  <2>3. WritesReached'
    <3>1. ASSUME NEW q \in Reports, NEW i \in {1, 2, 3},
                 <<q, i>> \in stored \union late
          PROVE  i < stage'[q] \/ (i = stage'[q] /\ q \in killed)
      <4>1. i < stage[q] \/ (i = stage[q] /\ q \in killed)
        BY <3>1, <1>0, Numbers DEF WritesReached
      <4>2. q # r
        BY <2>1, <4>1
      <4> QED BY <2>1, <4>1, <4>2
    <3> QED BY <2>1, <3>1, Numbers DEF WritesReached
  <2>4. IndicesFirst'
    BY <2>1, <1>0 DEF IndicesFirst, Serving
  <2> QED BY <2>2, <2>3, <2>4 DEF IInv
<1> QED BY <1>1, <1>2

(* A goroutine leaves a write when it is stored or its failure logged.     *)
LEMMA WriteKeepsInvariant ==
  ASSUME IInv, TypeOK', NEW r \in Reports, Put(r) \/ PutFails(r)
  PROVE  IInv'
<1> USE DEF procVars, indexVars
<1>0. TypeOK /\ StagesInOrder /\ WritesReached /\ IndicesFirst
  BY DEF IInv
<1>1. /\ stage[r] \in {1, 2, 3} /\ stage'[r] = stage[r] + 1 /\ r \notin killed
      /\ \A q \in Reports : q # r => stage'[q] = stage[q]
      /\ \A q \in Reports : stage[q] \in Nat
      /\ UNCHANGED <<procVars, rpc, killed>>
  BY <1>0, Numbers DEF Put, PutFails, Storing, TypeOK
<1>2. \/ /\ stored' = stored \union {<<r, stage[r]>>}
         /\ UNCHANGED <<late, logged>>
      \/ /\ logged' = logged \union {<<r, stage[r]>>}
         /\ late' \subseteq late \union {<<r, stage[r]>>}
         /\ UNCHANGED stored
  BY DEF Put, PutFails
<1>3. StagesInOrder'
  <2>1. ASSUME NEW q \in Reports, NEW i \in ServiceLog..Metrics, i < stage'[q]
        PROVE  <<q, i>> \in stored' \union logged'
    <3>1. i < stage[q] \/ (q = r /\ i = stage[r])
      BY <1>1, <2>1, Numbers
    <3> QED BY <3>1, <1>0, <1>2 DEF StagesInOrder
  <2> QED BY <2>1, <1>0, <1>1 DEF StagesInOrder
<1>4. WritesReached'
  <2> SUFFICES ASSUME NEW q \in Reports, NEW i \in ServiceLog..Metrics,
                      <<q, i>> \in stored' \union late'
               PROVE  i < stage'[q] \/ (i = stage'[q] /\ q \in killed)
    BY <1>1 DEF WritesReached
  <2>1. <<q, i>> \in stored \union late \/ (q = r /\ i = stage[r])
    BY <1>2
  <2>2. CASE <<q, i>> \in stored \union late
    <3>1. i < stage[q] \/ (i = stage[q] /\ q \in killed)
      BY <2>2, <1>0 DEF WritesReached
    <3> QED BY <3>1, <1>1, Numbers
  <2>3. CASE q = r /\ i = stage[r]
    BY <2>3, <1>1
  <2> QED BY <2>1, <2>2, <2>3
<1>5. IndicesFirst'
  <2>1. \A i \in Indices \ skipped : index[i] # "absent"
    BY <1>0, <1>1 DEF IndicesFirst
  <2>2. skipped' = skipped /\ \A i \in Indices \ skipped : index'[i] = index[i]
    <3>1. CASE Put(r)
      BY <2>1, <3>1, <1>0 DEF Put, IndexAfter, TypeOK
    <3>2. CASE PutFails(r)
      BY <3>2 DEF PutFails
    <3> QED BY <3>1, <3>2
  <2> QED BY <2>1, <2>2, <1>0, <1>1 DEF IndicesFirst
<1> QED BY <1>3, <1>4, <1>5 DEF IInv

(* Nothing arrives late that was not written by a goroutine, and an index  *)
(* that comes late is declared.                                            *)
LEMMA LateKeepsInvariant ==
  ASSUME IInv, TypeOK',
         (\E w \in Writes : LatePut(w)) \/ (\E i \in Indices : LateCreate(i))
  PROVE  IInv'
<1> USE DEF procVars, indexVars, jobVars
<1>0. TypeOK /\ StagesInOrder /\ WritesReached /\ IndicesFirst
  BY DEF IInv
<1>1. ASSUME NEW w \in Writes, LatePut(w) PROVE IInv'
  <2>1. /\ w \in late /\ stored' = stored \union {w} /\ late' = late \ {w}
        /\ index' = IndexAfter(w[2])
        /\ UNCHANGED <<procVars, skipped, rpc, stage, killed, logged>>
    BY <1>1 DEF LatePut
  <2>2. PICK r \in Reports, i \in {1, 2, 3} : w = <<r, i>>
    BY Numbers
  <2>3. i < stage[r] \/ i = stage[r]
    BY <2>1, <2>2, <1>0, Numbers DEF WritesReached
  <2>4. stage[r] # 0
    BY <2>3, <1>0 DEF TypeOK
  <2>5. \A j \in Indices \ skipped : index'[j] = index[j]
    BY <2>1, <2>4, <1>0 DEF IndicesFirst, IndexAfter, TypeOK
  <2>6. StagesInOrder' /\ WritesReached'
    BY <2>1, <1>0 DEF StagesInOrder, WritesReached
  <2>7. IndicesFirst'
    BY <2>1, <2>5, <1>0 DEF IndicesFirst
  <2> QED BY <2>6, <2>7 DEF IInv
<1>2. ASSUME NEW i \in Indices, LateCreate(i) PROVE IInv'
  <2>1. UNCHANGED <<procVars, skipped, rpc, jobVars>> /\ index' = Created(i)
    BY <1>2 DEF LateCreate
  <2>2. StagesInOrder' /\ WritesReached'
    BY <2>1, <1>0, WritesKept
  <2>3. \A j \in Indices :
          index'[j] = IF j = i /\ index[j] = "absent" THEN "declared"
                      ELSE index[j]
    BY <2>1, <1>0 DEF Created, TypeOK
  <2>4. IndicesFirst'
    BY <2>1, <2>3, <1>0, Numbers DEF IndicesFirst
  <2> QED BY <2>2, <2>4 DEF IInv
<1> QED BY <1>1, <1>2

(* The end of the process leaves no goroutine alive. *)
LEMMA EndKeepsInvariant ==
  ASSUME IInv, TypeOK', Exit \/ Crash
  PROVE  IInv'
<1> USE DEF procVars, indexVars
<1>0. TypeOK /\ StagesInOrder /\ WritesReached /\ IndicesFirst
  BY DEF IInv
<1>1. /\ killed' = killed \union Running
      /\ UNCHANGED <<stage, stored, logged, skipped, creating, index>>
      /\ proc' \in {"exited", "crashed"}
  BY DEF Exit, Crash, KillGoroutines
<1>2. PICK sent \in SUBSET Running :
        late' = late \union {<<r, stage[r]>> : r \in sent}
  BY DEF Exit, Crash, KillGoroutines
<1>3. \A r \in Reports : rpc'[r] = rpc[r] \/ rpc'[r] = "failed"
  BY <1>0 DEF Exit, Crash, TypeOK
<1>4. StagesInOrder'
  BY <1>0, <1>1, <1>3 DEF StagesInOrder
<1>5. WritesReached'
  <2> SUFFICES ASSUME NEW r \in Reports, NEW i \in ServiceLog..Metrics,
                      <<r, i>> \in stored \union late'
               PROVE  i < stage[r] \/ (i = stage[r] /\ r \in killed')
    BY <1>1 DEF WritesReached
  <2>1. CASE <<r, i>> \in stored \union late
    BY <2>1, <1>0, <1>1 DEF WritesReached
  <2>2. CASE r \in sent /\ i = stage[r]
    BY <2>2, <1>1
  <2> QED BY <2>1, <2>2, <1>2
<1>6. IndicesFirst'
  BY <1>0, <1>1 DEF IndicesFirst
<1> QED BY <1>4, <1>5, <1>6 DEF IInv

(* Every step keeps the invariant. *)
LEMMA NextKeepsInvariant == IInv /\ [Next]_vars => IInv'
<1> SUFFICES ASSUME IInv, [Next]_vars PROVE IInv'
  OBVIOUS
<1>types. TypeOK'
  BY NextKeepsType DEF IInv
<1>1. CASE CreateIndex \/ CreateIndexFails \/ Signal \/ Restart
  BY <1>1, <1>types, BootKeepsInvariant
<1>2. ASSUME NEW r \in Reports, Receive(r) \/ Handle(r) \/ Reply(r)
      PROVE  IInv'
  BY <1>2, <1>types, CallKeepsInvariant
<1>3. ASSUME NEW r \in Reports, Put(r) \/ PutFails(r) PROVE IInv'
  BY <1>3, <1>types, WriteKeepsInvariant
<1>4. ASSUME NEW w \in Writes, LatePut(w) PROVE IInv'
  BY <1>4, <1>types, LateKeepsInvariant
<1>5. ASSUME NEW i \in Indices, LateCreate(i) PROVE IInv'
  BY <1>5, <1>types, LateKeepsInvariant
<1>6. CASE Exit \/ Crash
  BY <1>6, <1>types, EndKeepsInvariant
<1>7. CASE UNCHANGED vars
  BY <1>7, <1>types, WritesKept
     DEF vars, procVars, indexVars, jobVars, IInv, IndicesFirst
<1> QED BY <1>1, <1>2, <1>3, <1>4, <1>5, <1>6, <1>7 DEF Next

(* The invariant holds of every reachable state. *)
THEOREM IngestInvariant == Spec => []IInv
BY InitInvariant, NextKeepsInvariant, PTL DEF Spec

-----------------------------------------------------------------------------
(* The properties. *)

(* No store holds a write whose predecessors are unaccounted for. *)
THEOREM WritesStoredInOrder == Spec => []StoredInOrder
<1>1. IInv => StoredInOrder
  <2> SUFFICES ASSUME IInv, NEW w \in stored, NEW i \in ServiceLog..Metrics,
                      i < w[2]
               PROVE  <<w[1], i>> \in stored \union logged
    BY DEF StoredInOrder
  <2>0. TypeOK /\ StagesInOrder /\ WritesReached
    BY DEF IInv
  <2>1. PICK r \in Reports, j \in {1, 2, 3} : w = <<r, j>>
    BY <2>0, Numbers DEF TypeOK
  <2>2. j < stage[r] \/ j = stage[r]
    BY <2>0, <2>1, Numbers DEF WritesReached
  <2>3. i < stage[r]
    BY <2>0, <2>1, <2>2, Numbers DEF TypeOK
  <2> QED BY <2>0, <2>1, <2>3 DEF StagesInOrder
<1> QED BY <1>1, IngestInvariant, PTL

(* An acknowledged report is stored, or its loss is in the log, or the     *)
(* process ended.                                                          *)
THEOREM AcknowledgedIsAccounted == Spec => []NoSilentLoss
<1>1. IInv => NoSilentLoss
  <2> SUFFICES ASSUME IInv, NEW r \in Reports, rpc[r] = "acked",
                      r \notin killed, ~Storing(r),
                      NEW i \in ServiceLog..Metrics
               PROVE  <<r, i>> \in stored \union logged
    BY DEF NoSilentLoss
  <2>0. TypeOK /\ StagesInOrder
    BY DEF IInv
  <2>1. stage[r] = 4
    BY <2>0, Numbers DEF Storing, StagesInOrder, TypeOK
  <2>2. i < stage[r]
    BY <2>1, Numbers
  <2> QED BY <2>0, <2>2 DEF StagesInOrder
<1> QED BY <1>1, IngestInvariant, PTL

(* Elasticsearch guesses the mapping of an index only if a boot went on    *)
(* without that index, with a warning or with a refusal for success.       *)
THEOREM GuessesAreExplained == Spec => []GuessExplained
<1>1. IInv => GuessExplained
  BY DEF IInv, IndicesFirst, GuessExplained
<1> QED BY <1>1, IngestInvariant, PTL

-----------------------------------------------------------------------------
(* The ledger. *)

(* Goroutines go on from write to write, and die after their calls. *)
LEMMA LedgerInvKept == LedgerInv /\ [Next]_vars => LedgerInv'
<1> SUFFICES ASSUME LedgerInv, [Next]_vars PROVE LedgerInv'
  OBVIOUS
<1> USE DEF procVars, indexVars, jobVars
<1>0. /\ TypeOK /\ StagesInOrder /\ WritesReached /\ FailuresReached /\ KilledAnswered
      /\ IInv /\ IInv'
  BY NextKeepsInvariant DEF LedgerInv, IInv
<1>1. CASE UNCHANGED <<rpc, stage, logged, killed>>
  BY <1>0, <1>1 DEF LedgerInv, FailuresReached, KilledAnswered
<1>2. ASSUME NEW r \in Reports, Receive(r) \/ Reply(r) PROVE LedgerInv'
  <2>1. \A q \in Reports : rpc[q] \in {"acked", "failed"} => rpc'[q] = rpc[q]
    BY <1>0, <1>2 DEF Receive, Reply, TypeOK
  <2>2. UNCHANGED <<stage, logged, killed>>
    BY <1>2 DEF Receive, Reply
  <2> QED BY <1>0, <2>1, <2>2 DEF LedgerInv, FailuresReached, KilledAnswered, TypeOK
<1>3. ASSUME NEW r \in Reports, Handle(r) PROVE LedgerInv'
  <2>1. /\ rpc[r] = "handling" /\ stage[r] = 0 /\ stage'[r] = 1
        /\ \A q \in Reports : q # r => stage'[q] = stage[q] /\ rpc'[q] = rpc[q]
        /\ UNCHANGED <<logged, killed>>
    BY <1>0, <1>3, Numbers DEF Handle, StagesInOrder, TypeOK
  <2>2. r \notin killed
    BY <1>0, <2>1 DEF KilledAnswered
  <2>3. KilledAnswered'
    BY <1>0, <2>1, <2>2 DEF KilledAnswered, TypeOK
  <2>4. FailuresReached'
    <3>1. \A i \in ServiceLog..Metrics : <<r, i>> \notin logged
      <4>1. \A i \in ServiceLog..Metrics : ~(i < stage[r])
        BY <2>1, Numbers
      <4> QED BY <1>0, <4>1 DEF FailuresReached
    <3> QED BY <1>0, <2>1, <3>1 DEF FailuresReached
  <2> QED BY <1>0, <2>3, <2>4 DEF LedgerInv
<1>4. ASSUME NEW r \in Reports, Put(r) \/ PutFails(r) PROVE LedgerInv'
  <2>1. /\ stage[r] \in {1, 2, 3} /\ stage'[r] = stage[r] + 1 /\ r \notin killed
        /\ \A q \in Reports : q # r => stage'[q] = stage[q]
        /\ \A q \in Reports : stage[q] \in Nat
        /\ logged' \subseteq logged \union {<<r, stage[r]>>}
        /\ UNCHANGED <<rpc, killed>>
    BY <1>0, <1>4, Numbers DEF Put, PutFails, Storing, TypeOK
  <2>2. KilledAnswered'
    BY <1>0, <2>1 DEF KilledAnswered, TypeOK
  <2>3. FailuresReached'
    <3> SUFFICES ASSUME NEW q \in Reports, NEW i \in ServiceLog..Metrics, <<q, i>> \in logged'
                 PROVE  i < stage'[q]
      BY DEF FailuresReached
    <3>1. CASE <<q, i>> \in logged
      <4>1. i < stage[q]
        BY <1>0, <3>1 DEF FailuresReached
      <4>2. i \in {1, 2, 3} /\ stage[q] \in Nat /\ stage'[q] \in {stage[q], stage[q] + 1}
        BY <2>1, Numbers
      <4> QED BY <4>1, <4>2
    <3>2. CASE q = r /\ i = stage[r]
      BY <2>1, <3>2
    <3> QED BY <2>1, <3>1, <3>2
  <2> QED BY <1>0, <2>2, <2>3 DEF LedgerInv
<1>5. CASE Exit \/ Crash
  <2>1. /\ killed' = killed \union Running
        /\ UNCHANGED <<stage, logged>>
    BY <1>5 DEF Exit, Crash, KillGoroutines
  <2>2. \A r \in Reports : IF InCall(r) THEN rpc'[r] = "failed" ELSE rpc'[r] = rpc[r]
    BY <1>0, <1>5 DEF Exit, Crash, TypeOK
  <2>3. \A r \in Running : /\ rpc'[r] \in {"acked", "failed"}
                           /\ stage[r] \in ServiceLog..Metrics
    <3> SUFFICES ASSUME NEW r \in Running
                 PROVE  rpc'[r] \in {"acked", "failed"} /\ stage[r] \in ServiceLog..Metrics
      OBVIOUS
    <3>1. r \in Reports /\ stage[r] \in ServiceLog..Metrics
      BY DEF Running, Storing
    <3>2. stage[r] # 0
      BY <3>1, Numbers
    <3>3. rpc[r] \in {"replying", "acked", "failed"}
      BY <1>0, <3>1, <3>2 DEF StagesInOrder, TypeOK
    <3> QED BY <2>2, <3>1, <3>3 DEF InCall
  <2>4. \A r \in killed : rpc'[r] \in {"acked", "failed"}
    BY <1>0, <2>2 DEF KilledAnswered, InCall, TypeOK
  <2>5. KilledAnswered'
    BY <1>0, <2>1, <2>3, <2>4 DEF KilledAnswered
  <2>6. FailuresReached'
    BY <1>0, <2>1 DEF FailuresReached
  <2> QED BY <1>0, <2>5, <2>6 DEF LedgerInv
<1> QED BY <1>1, <1>2, <1>3, <1>4, <1>5
        DEF Next, CreateIndex, CreateIndexFails, LatePut, LateCreate, Signal, Restart, vars

(* The strengthened invariant holds in every reachable state. *)
LEMMA LedgerInvariant == Spec => []LedgerInv
<1>1. Init => FailuresReached /\ KilledAnswered
  BY DEF Init, FailuresReached, KilledAnswered
<1> QED BY <1>1, InitInvariant, LedgerInvKept, PTL DEF Spec, LedgerInv

(* How the stage of a goroutine tells the fates of its writes: those it    *)
(* has left, those that are due, and those it died with.                   *)
LEMMA LeftWrites ==
  ASSUME LedgerInv, NEW r \in Reports, NEW i \in {1, 2, 3}, i < stage[r]
  PROVE  /\ <<r, i>> \in stored \union logged
         /\ Fate(r, i) = IF <<r, i>> \in stored THEN "stored" ELSE "failed"
<1>1. TypeOK /\ StagesInOrder /\ i \in ServiceLog..Metrics
  BY Numbers DEF LedgerInv, IInv
<1>2. <<r, i>> \in stored \union logged
  BY <1>1 DEF StagesInOrder
<1>3. stage[r] # 0
  OBVIOUS
<1> QED BY <1>2, <1>3 DEF Fate

(* A living goroutine has its stage and all after it before it. *)
LEMMA WritesToCome ==
  ASSUME LedgerInv, NEW r \in Reports, NEW i \in {1, 2, 3}, i >= stage[r], r \notin killed
  PROVE  /\ <<r, i>> \notin stored /\ <<r, i>> \notin logged
         /\ stage[r] = 0 => Fate(r, i) = "none"
         /\ stage[r] # 0 => Fate(r, i) = "due"
<1>1. TypeOK /\ WritesReached /\ FailuresReached /\ i \in ServiceLog..Metrics
  BY Numbers DEF LedgerInv, IInv
<1>2. stage[r] \in {0, 1, 2, 3, 4}
  BY <1>1, Numbers DEF TypeOK
<1>3. ~(i < stage[r])
  BY <1>2
<1>4. <<r, i>> \notin stored /\ <<r, i>> \notin logged
  BY <1>1, <1>3 DEF WritesReached, FailuresReached
<1>5. stage[r] # 0 => Storing(r)
  BY <1>2, Numbers DEF Storing
<1> QED BY <1>4, <1>5 DEF Fate

(* A killed one leaves its stage in doubt and the rest undone. *)
LEMMA WritesCut ==
  ASSUME LedgerInv, NEW r \in killed, NEW i \in {1, 2, 3}, i >= stage[r]
  PROVE  /\ i # stage[r] => <<r, i>> \notin stored
         /\ i # stage[r] => Fate(r, i) = "lost"
         /\ i = stage[r] => Fate(r, i) = IF <<r, i>> \in stored THEN "stored" ELSE "doubtful"
<1>1. /\ TypeOK /\ WritesReached /\ FailuresReached /\ KilledAnswered
      /\ i \in ServiceLog..Metrics
  BY Numbers DEF LedgerInv, IInv
<1>2. r \in Reports /\ stage[r] \in {1, 2, 3}
  BY <1>1, Numbers DEF KilledAnswered, TypeOK
<1>3. ~(i < stage[r])
  BY <1>2
<1>4. <<r, i>> \notin logged /\ (i # stage[r] => <<r, i>> \notin stored)
  BY <1>1, <1>2, <1>3 DEF WritesReached, FailuresReached
<1> QED BY <1>2, <1>4 DEF Fate, Storing

(* A report that is not being written has no write that is due. *)
LEMMA NotStoringNotDue ==
  ASSUME NEW r \in Reports, NEW i, ~Storing(r)
  PROVE  Fate(r, i) # "due"
BY DEF Fate

(* The mapped state is as the ledger reads it. *)
LEMMA FatesApply ==
  /\ Ledger!Steps = {1, 2, 3}
  /\ \A r \in Reports, i \in {1, 2, 3} : Fates[r][i] = Fate(r, i)
  /\ Fates = [r \in Reports |-> [i \in {1, 2, 3} |-> Fate(r, i)]]
BY Numbers DEF Ledger!Steps, Fates

(* The fates change only with what they are read from. *)
LEMMA FatesStay ==
  ASSUME UNCHANGED <<stage, killed, stored, logged>>
  PROVE  Fates' = Fates
BY DEF Fates, Fate, Storing

(* A table in which one entry differs. *)
LEMMA OneEntryChanges ==
  ASSUME NEW X, NEW old \in [Reports -> [{1, 2, 3} -> X]],
         NEW new \in [Reports -> [{1, 2, 3} -> X]], NEW r \in Reports, NEW i \in {1, 2, 3},
         \A q \in Reports, j \in {1, 2, 3} : <<q, j>> # <<r, i>> => new[q][j] = old[q][j]
  PROVE  new = [old EXCEPT ![r][i] = new[r][i]]
<1>1. new[r] = [old[r] EXCEPT ![i] = new[r][i]]
  OBVIOUS
<1>2. \A q \in Reports : q # r => new[q] = old[q]
  OBVIOUS
<1> QED BY <1>1, <1>2

(* A step that changes the fate of one write. *)
LEMMA OneFateChanges ==
  ASSUME NEW r \in Reports, NEW i \in {1, 2, 3},
         \A q \in Reports, j \in {1, 2, 3} : <<q, j>> # <<r, i>> => Fates'[q][j] = Fates[q][j]
  PROVE  Fates' = [Fates EXCEPT ![r][i] = Fates'[r][i]]
<1> DEFINE Outcomes == {"none", "due", "stored", "failed", "doubtful", "lost"}
           old == Fates
           new == Fates'
<1>1. old \in [Reports -> [{1, 2, 3} -> Outcomes]]
  BY Numbers DEF Fates, Fate
<1>2. new \in [Reports -> [{1, 2, 3} -> Outcomes]]
  BY Numbers DEF Fates, Fate
<1>3. \A q \in Reports, j \in {1, 2, 3} : <<q, j>> # <<r, i>> => new[q][j] = old[q][j]
  OBVIOUS
<1> HIDE DEF old, new, Outcomes
<1>4. new = [old EXCEPT ![r][i] = new[r][i]]
  BY <1>1, <1>2, <1>3, OneEntryChanges
<1> QED BY <1>4 DEF old, new

(* The handler takes the report. *)
LEMMA HandleTakes ==
  ASSUME LedgerInv, LedgerInv', NEW r \in Reports, Handle(r)
  PROVE  Ledger!Take(r)
<1>1. TypeOK /\ StagesInOrder
  BY DEF LedgerInv, IInv
<1>2. /\ rpc[r] = "handling" /\ rpc'[r] = "replying" /\ stage[r] = 0 /\ stage'[r] = 1
      /\ \A q \in Reports : q # r => stage'[q] = stage[q] /\ rpc'[q] = rpc[q]
      /\ UNCHANGED <<killed, stored, logged>>
  BY <1>1, Numbers DEF Handle, StagesInOrder, TypeOK
<1>21. r \notin killed /\ \A i \in {1, 2, 3} : i >= stage[r]
  BY <1>1, <1>2, Numbers DEF LedgerInv, KilledAnswered
<1>3. Acked' = Acked
  BY <1>2 DEF Acked
<1>4. \A i \in {1, 2, 3} : Fates[r][i] = "none"
  BY <1>2, <1>21, WritesToCome, FatesApply
<1>5. \A i \in {1, 2, 3} : Fate(r, i)' = "due"
  <2> SUFFICES ASSUME NEW i \in {1, 2, 3} PROVE Fate(r, i)' = "due"
    OBVIOUS
  <2>1. <<r, i>> \notin stored /\ <<r, i>> \notin logged /\ r \notin killed
    BY <1>2, <1>21, WritesToCome
  <2> QED BY <1>2, <2>1, Numbers DEF Fate, Storing
<1>6. \A q \in Reports, i \in {1, 2, 3} : q # r => Fate(q, i)' = Fate(q, i)
  BY <1>2 DEF Fate, Storing
<1> DEFINE old == [q \in Reports |-> [i \in {1, 2, 3} |-> Fate(q, i)]]
<1>7. Fates' = [old EXCEPT ![r] = [i \in {1, 2, 3} |-> "due"]]
  <2>1. Fates' = [q \in Reports |-> [i \in {1, 2, 3} |-> Fate(q, i)']]
    BY Numbers DEF Fates
  <2> QED BY <1>5, <1>6, <2>1
<1> QED BY <1>3, <1>4, <1>7, FatesApply DEF Ledger!Take

(* An acknowledgement finds the report's writing uncut. *)
LEMMA ReplyAcknowledges ==
  ASSUME LedgerInv, NEW r \in Reports, Reply(r)
  PROVE  Ledger!Acknowledge(r) \/ UNCHANGED Ledger!vars
<1>1. TypeOK /\ StagesInOrder /\ KilledAnswered
  BY DEF LedgerInv, IInv
<1>2. /\ rpc[r] = "replying" /\ UNCHANGED <<stage, killed, stored, logged>>
      /\ rpc'[r] \in {"acked", "failed"}
      /\ \A q \in Reports : q # r => rpc'[q] = rpc[q]
  BY <1>1 DEF Reply, TypeOK, jobVars
<1>3. Fates' = Fates
  BY <1>2, FatesStay
<1>4. CASE rpc'[r] = "failed"
  BY <1>2, <1>3, <1>4 DEF Acked, Ledger!vars
<1>5. CASE rpc'[r] = "acked"
  <2>1. Acked' = Acked \union {r}
    BY <1>2, <1>5 DEF Acked
  <2>2. stage[r] \in {1, 2, 3, 4} /\ r \notin killed
    BY <1>1, <1>2, Numbers DEF StagesInOrder, KilledAnswered, TypeOK
  <2>3. \A i \in {1, 2, 3} : Fate(r, i) \in {"due", "stored", "failed"}
    <3> SUFFICES ASSUME NEW i \in {1, 2, 3} PROVE Fate(r, i) \in {"due", "stored", "failed"}
      OBVIOUS
    <3>1. CASE i < stage[r]
      BY <3>1, LeftWrites
    <3>2. CASE i >= stage[r]
      <4>1. stage[r] # 0
        BY <2>2
      <4> QED BY <2>2, <3>2, <4>1, WritesToCome
    <3> QED BY <2>2, <3>1, <3>2
  <2> QED BY <1>3, <2>1, <2>3, FatesApply DEF Ledger!Acknowledge
<1> QED BY <1>2, <1>4, <1>5

(* The goroutine settles the first write that is due, whatever comes of it. *)
LEMMA WriteSettles ==
  ASSUME LedgerInv, LedgerInv', NEW r \in Reports, Put(r) \/ PutFails(r)
  PROVE  \E i \in {1, 2, 3} : Ledger!Settle(r, i, "stored") \/ Ledger!Settle(r, i, "failed")
<1>1. TypeOK /\ TypeOK'
  BY DEF LedgerInv, IInv
<1>0. PICK i \in {1, 2, 3} : i = stage[r]
  BY <1>1, Numbers DEF Put, PutFails, Storing
<1>2. /\ Storing(r) /\ stage[r] = i /\ stage'[r] = i + 1
      /\ \A q \in Reports : q # r => stage'[q] = stage[q]
      /\ UNCHANGED <<rpc, killed>>
  BY <1>0, <1>1 DEF Put, PutFails, Storing, TypeOK
<1>3. \/ stored' = stored \union {<<r, i>>} /\ UNCHANGED logged
      \/ logged' = logged \union {<<r, i>>} /\ UNCHANGED stored
  BY <1>0 DEF Put, PutFails
<1>4. Fate(r, i) = "due" /\ <<r, i>> \notin stored /\ <<r, i>> \notin logged
  <2>1. r \notin killed /\ i >= stage[r] /\ stage[r] # 0
    BY <1>2 DEF Storing
  <2> QED BY <2>1, WritesToCome
<1>5. \A j \in {1, 2, 3} : j < i => Fate(r, j) # "due"
  BY <1>0, LeftWrites
<1>6. Ledger!FirstDue(r, i)
  BY <1>2, <1>4, <1>5, FatesApply DEF Ledger!FirstDue
<1>7. \A q \in Reports, j \in {1, 2, 3} : <<q, j>> # <<r, i>> => Fates'[q][j] = Fates[q][j]
  <2> SUFFICES ASSUME NEW q \in Reports, NEW j \in {1, 2, 3}, <<q, j>> # <<r, i>>
               PROVE  Fate(q, j)' = Fate(q, j)
    BY Numbers DEF Fates
  <2>1. (<<q, j>> \in stored' <=> <<q, j>> \in stored)
        /\ (<<q, j>> \in logged' <=> <<q, j>> \in logged)
    BY <1>3
  <2>2. CASE q # r
    BY <1>2, <2>1, <2>2 DEF Fate, Storing
  <2>3. CASE q = r /\ j < i
    <3>1. <<q, j>> \in stored \union logged
      BY <1>0, <2>3, LeftWrites
    <3> QED BY <1>2, <2>1, <2>3, <3>1 DEF Fate
  <2>4. CASE q = r /\ j > i
    <3>1. Fate(r, j) = "due" /\ <<r, j>> \notin stored /\ <<r, j>> \notin logged
      <4>1. r \notin killed /\ j >= stage[r] /\ stage[r] # 0
        BY <1>2, <2>4 DEF Storing
      <4> QED BY <4>1, WritesToCome
    <3>2. stage'[r] \in {1, 2, 3} /\ j >= stage'[r] /\ r \notin killed'
      BY <1>2, <2>4 DEF Storing
    <3> QED BY <2>1, <2>4, <3>1, <3>2, Numbers DEF Fate, Storing
  <2> QED BY <1>2, <2>2, <2>3, <2>4
<1>8. Acked' = Acked
  BY <1>2 DEF Acked
<1>9. CASE stored' = stored \union {<<r, i>>} /\ UNCHANGED logged
  <2>1. Fate(r, i)' = "stored"
    BY <1>2, <1>9 DEF Fate
  <2>2. Fates' = [Fates EXCEPT ![r][i] = "stored"]
    <3>1. Fates'[r][i] = "stored"
      BY <2>1, Numbers DEF Fates
    <3>2. Fates' = [Fates EXCEPT ![r][i] = Fates'[r][i]]
      BY <1>7, OneFateChanges
    <3> QED BY <3>1, <3>2
  <2> QED BY <1>2, <1>6, <1>8, <2>2 DEF Ledger!Settle
<1>10. CASE logged' = logged \union {<<r, i>>} /\ UNCHANGED stored
  <2>1. Fate(r, i)' = "failed"
    BY <1>2, <1>4, <1>10 DEF Fate
  <2>2. Fates' = [Fates EXCEPT ![r][i] = "failed"]
    <3>1. Fates'[r][i] = "failed"
      BY <2>1, Numbers DEF Fates
    <3>2. Fates' = [Fates EXCEPT ![r][i] = Fates'[r][i]]
      BY <1>7, OneFateChanges
    <3> QED BY <3>1, <3>2
  <2> QED BY <1>2, <1>6, <1>8, <2>2 DEF Ledger!Settle
<1> QED BY <1>3, <1>9, <1>10

(* What comes late to a store had failed, or was in hand at the end. *)
LEMMA LateSurfaces ==
  ASSUME LedgerInv, NEW w \in Writes, LatePut(w)
  PROVE  (\E r \in Reports, i \in {1, 2, 3} : Ledger!Surface(r, i)) \/ UNCHANGED Ledger!vars
<1>1. TypeOK /\ WritesReached
  BY DEF LedgerInv, IInv
<1>2. /\ w \in late /\ stored' = stored \union {w}
      /\ UNCHANGED <<rpc, stage, killed, logged>>
  BY DEF LatePut
<1>3. Acked' = Acked
  BY <1>2 DEF Acked
<1>4. PICK r \in Reports, i \in {1, 2, 3} : w = <<r, i>>
  BY Numbers
<1>5. CASE w \in stored
  <2>1. stored' = stored
    BY <1>2, <1>5
  <2> QED BY <1>2, <1>3, <2>1, FatesStay DEF Ledger!vars
<1>6. CASE w \notin stored
  <2>1. i < stage[r] \/ (i = stage[r] /\ r \in killed)
    BY <1>1, <1>2, <1>4, Numbers DEF WritesReached
  <2>2. Fate(r, i) \in {"failed", "doubtful"}
    <3>1. CASE i < stage[r]
      BY <1>4, <1>6, <3>1, LeftWrites
    <3>2. CASE i = stage[r] /\ r \in killed
      <4>1. i >= stage[r]
        BY <3>2
      <4>2. Fate(r, i) = IF <<r, i>> \in stored THEN "stored" ELSE "doubtful"
        BY <3>2, <4>1, WritesCut
      <4> QED BY <1>4, <1>6, <4>2
    <3> QED BY <2>1, <3>1, <3>2
  <2>3. stage[r] # 0
    BY <2>2 DEF Fate
  <2>4. Fate(r, i)' = "stored"
    BY <1>2, <1>4, <2>3 DEF Fate
  <2>5. \A q \in Reports, j \in {1, 2, 3} : <<q, j>> # <<r, i>> => Fates'[q][j] = Fates[q][j]
    BY <1>2, <1>4, Numbers DEF Fates, Fate, Storing
  <2>6. Fates' = [Fates EXCEPT ![r][i] = "stored"]
    <3>1. Fates'[r][i] = "stored"
      BY <2>4, Numbers DEF Fates
    <3>2. Fates' = [Fates EXCEPT ![r][i] = Fates'[r][i]]
      BY <2>5, OneFateChanges
    <3> QED BY <3>1, <3>2
  <2> QED BY <1>3, <2>2, <2>6, FatesApply DEF Ledger!Surface
<1> QED BY <1>5, <1>6

(* The end of the process cuts every report off. *)
LEMMA EndCuts ==
  ASSUME LedgerInv, Exit \/ Crash
  PROVE  Ledger!Cut
<1>1. TypeOK /\ KilledAnswered
  BY DEF LedgerInv, IInv
<1>2. killed' = killed \union Running /\ UNCHANGED <<stage, stored, logged>>
  BY DEF Exit, Crash, KillGoroutines
<1>3. Acked' = Acked
  <2>1. \A r \in Reports : rpc'[r] = "acked" <=> rpc[r] = "acked"
    BY <1>1 DEF Exit, Crash, InCall, TypeOK
  <2> QED BY <2>1 DEF Acked
<1>4. ASSUME NEW r \in Reports, NEW i \in {1, 2, 3}
      PROVE  Fate(r, i)' = IF Ledger!FirstDue(r, i) THEN "doubtful"
                           ELSE IF Fates[r][i] = "due" THEN "lost"
                           ELSE Fates[r][i]
  <2>1. Fates[r][i] = Fate(r, i)
    BY FatesApply
  <2>2. CASE ~Storing(r)
    <3>1. Fate(r, i) # "due" /\ ~Ledger!FirstDue(r, i)
      BY <2>1, <2>2, NotStoringNotDue DEF Ledger!FirstDue
    <3>2. r \in killed' <=> r \in killed
      BY <1>2, <2>2 DEF Running
    <3>3. Fate(r, i)' = Fate(r, i)
      BY <1>2, <3>2 DEF Fate, Storing
    <3> QED BY <2>1, <3>1, <3>3
  <2>3. CASE Storing(r)
    <3>1. r \in killed' /\ stage[r] \in {1, 2, 3} /\ stage'[r] = stage[r]
      BY <1>2, <2>3, Numbers DEF Running, Storing
    <3>2. CASE i < stage[r]
      <4>1. <<r, i>> \in stored \union logged /\ Fate(r, i) # "due"
        BY <3>2, LeftWrites
      <4>2. Fate(r, i)' = Fate(r, i)
        BY <1>2, <3>1, <4>1 DEF Fate
      <4>3. ~Ledger!FirstDue(r, i)
        BY <2>1, <4>1 DEF Ledger!FirstDue
      <4> QED BY <2>1, <4>1, <4>2, <4>3
    <3>3. CASE i = stage[r]
      <4>1. Fate(r, i) = "due" /\ <<r, i>> \notin stored /\ <<r, i>> \notin logged
        <5>1. r \notin killed /\ i >= stage[r] /\ stage[r] # 0
          BY <2>3, <3>1, <3>3 DEF Storing
        <5> QED BY <5>1, WritesToCome
      <4>2. \A j \in {1, 2, 3} : j < i => Fate(r, j) # "due"
        BY <3>3, LeftWrites
      <4>3. Ledger!FirstDue(r, i)
        BY <4>1, <4>2, FatesApply DEF Ledger!FirstDue
      <4>4. Fate(r, i)' = "doubtful"
        BY <1>2, <3>1, <3>3, <4>1 DEF Fate, Storing
      <4> QED BY <4>3, <4>4
    <3>4. CASE i > stage[r]
      <4>1. Fate(r, i) = "due" /\ <<r, i>> \notin stored /\ <<r, i>> \notin logged
        <5>1. r \notin killed /\ i >= stage[r] /\ stage[r] # 0
          BY <2>3, <3>1, <3>4 DEF Storing
        <5> QED BY <5>1, WritesToCome
      <4>2. Fate(r, stage[r]) = "due"
        <5>1. r \notin killed /\ stage[r] >= stage[r] /\ stage[r] # 0
          BY <2>3, <3>1 DEF Storing
        <5> QED BY <3>1, <5>1, WritesToCome
      <4>3. ~Ledger!FirstDue(r, i)
        BY <3>1, <3>4, <4>2, FatesApply DEF Ledger!FirstDue
      <4>4. Fate(r, i)' = "lost"
        BY <1>2, <3>1, <3>4, <4>1 DEF Fate, Storing
      <4> QED BY <2>1, <4>1, <4>3, <4>4
    <3> QED BY <3>1, <3>2, <3>3, <3>4
  <2> QED BY <2>2, <2>3
<1>5. Fates' = [r \in Reports |-> [i \in {1, 2, 3} |-> Fate(r, i)']]
  BY Numbers DEF Fates
<1>6. Fates' = [r \in Reports |-> [i \in Ledger!Steps |->
                  IF Ledger!FirstDue(r, i) THEN "doubtful"
                  ELSE IF Fates[r][i] = "due" THEN "lost"
                  ELSE Fates[r][i]]]
  BY <1>4, <1>5, FatesApply
<1> QED BY <1>3, <1>6 DEF Ledger!Cut

(* Every step of the backend is one of the ledger or leaves it as it is. *)
LEMMA StepKeepsLedger ==
  LedgerInv /\ LedgerInv' /\ [Next]_vars => [Ledger!Next]_(Ledger!vars)
<1> SUFFICES ASSUME LedgerInv, LedgerInv', [Next]_vars
             PROVE  Ledger!Next \/ UNCHANGED Ledger!vars
  OBVIOUS
<1> USE DEF procVars, indexVars, jobVars
<1>1. CASE UNCHANGED <<rpc, jobVars>>
  BY <1>1, FatesStay DEF Ledger!vars, Acked
<1>2. ASSUME NEW r \in Reports, Receive(r) PROVE UNCHANGED Ledger!vars
  <2>1. Acked' = Acked
    BY <1>2 DEF Receive, Acked, LedgerInv, IInv, TypeOK
  <2> QED BY <1>2, <2>1, FatesStay DEF Receive, Ledger!vars
<1>3. ASSUME NEW r \in Reports, Handle(r) \/ Reply(r)
      PROVE  Ledger!Next \/ UNCHANGED Ledger!vars
  BY <1>3, HandleTakes, ReplyAcknowledges DEF Ledger!Next
<1>4. ASSUME NEW r \in Reports, Put(r) \/ PutFails(r) PROVE Ledger!Next
  <2>1. PICK i \in Ledger!Steps : Ledger!Settle(r, i, "stored") \/ Ledger!Settle(r, i, "failed")
    BY <1>4, WriteSettles, FatesApply
  <2> QED BY <2>1 DEF Ledger!Next
<1>5. ASSUME NEW w \in Writes, LatePut(w) PROVE Ledger!Next \/ UNCHANGED Ledger!vars
  BY <1>5, LateSurfaces, FatesApply DEF Ledger!Next
<1>6. CASE Exit \/ Crash
  BY <1>6, EndCuts DEF Ledger!Next
<1> QED BY <1>1, <1>2, <1>3, <1>4, <1>5, <1>6
        DEF Next, CreateIndex, CreateIndexFails, LateCreate, Signal, Restart, vars

(* For any reports, failures of the stores, crashes and restarts, the      *)
(* backend writes each report as the ledger says: once, in order, with a   *)
(* known outcome until the process ends, and after that at most the write  *)
(* in hand still comes.                                                    *)
THEOREM BackendKeepsLedger == Spec => KeepsLedger
<1>1. Init => Ledger!Init
  <2> SUFFICES ASSUME Init PROVE Ledger!Init
    OBVIOUS
  <2>1. \A r \in Reports, i \in {1, 2, 3} : Fate(r, i) = "none"
    BY DEF Init, Fate
  <2>2. Fates = [r \in Reports |-> [i \in {1, 2, 3} |-> "none"]]
    BY <2>1, FatesApply
  <2>3. Acked = {}
    BY DEF Init, Acked
  <2> QED BY <2>2, <2>3, FatesApply DEF Ledger!Init
<1> QED BY <1>1, LedgerInvariant, StepKeepsLedger, PTL DEF Spec, KeepsLedger, Ledger!Spec
=============================================================================
