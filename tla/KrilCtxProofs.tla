----------------------------- MODULE KrilCtxProofs -----------------------------
(***************************************************************************)
(* Proofs about KrilCtx, for any calls, any tree of them, any failures and *)
(* panics.                                                                 *)
(***************************************************************************)
EXTENDS KrilCtxInvariant, FiniteSetTheorems, WellFoundedInduction, TLAPS

(* The calls' frames are not the handler's. *)
LEMMA CallIsNotHandler == ASSUME NEW c \in Calls PROVE c # Handler
BY ConstantsAssumption

(* What awaits a call is recorded in its site. *)
LEMMA AwaitedByCall == ASSUME NEW c \in Calls
                       PROVE AwaitedBy(c) = site[c].awaitedBy
BY CallIsNotHandler DEF AwaitedBy

(* Under a frame that executes, nothing is active: Trace and TraceParallel *)
(* return to it only after all that they started.                          *)
LEMMA NothingUnderExecuting ==
  ASSUME TypeOK, Blocked, NEW f \in Frames, ~Waits(f),
         NEW d \in Calls, Active(d)
  PROVE  f \notin AwaitedBy(d)
BY DEF Blocked, Waits

-----------------------------------------------------------------------------
(* Type correctness. *)

(* The calls a frame starts are well typed. *)
LEMMA StartKeepsType ==
  ASSUME TypeOK, NEW f \in Frames, NEW S \in SUBSET Calls,
         NEW mode \in {"seq", "par", "det"},
         NEW parent \in ParentNames \union {NoName}, Start(f, S, mode, parent)
  PROVE  TypeOK'
<1>1. GoroutineOf(f) \in Frames /\ AwaitedBy(f) \in SUBSET Frames
  BY DEF GoroutineOf, AwaitedBy, TypeOK, Site, Frames
<1>2. TakenIndex \in Nat /\ NextIndex \in Nat
  BY DEF TypeOK, TakenIndex, NextIndex
<1>3. site' \in [Calls -> Site]
  <2> DEFINE new(c) ==
         [caller |-> f, mode |-> mode,
          goroutine |-> IF mode = "seq" THEN GoroutineOf(f) ELSE c,
          awaitedBy |-> IF mode = "det" THEN {} ELSE {f} \union AwaitedBy(f),
          index |-> TakenIndex, parent |-> parent]
  <2>1. \A c \in Calls : new(c) \in Site
    BY <1>1, <1>2 DEF Site, Frames
  <2>2. site' = [c \in Calls |-> IF c \in S THEN new(c) ELSE site[c]]
    BY DEF Start
  <2> HIDE DEF new
  <2> QED BY <2>1, <2>2 DEF TypeOK
<1>4. st' \in [Calls -> {"idle", "running", "returned", "recorded",
                         "panicked"}]
  BY DEF Start, TypeOK
<1> QED BY <1>2, <1>3, <1>4 DEF Start, TypeOK

(* Every step keeps every variable in its type. *)
LEMMA NextKeepsType == TypeOK /\ [Next]_vars => TypeOK'
<1> SUFFICES ASSUME TypeOK, [Next]_vars PROVE TypeOK'
  OBVIOUS
<1>1. ASSUME NEW f \in Frames, NEW c \in Calls, Trace(f, c) PROVE TypeOK'
  BY <1>1, StartKeepsType DEF Trace
<1>2. ASSUME NEW f \in Frames, NEW c \in Calls, TraceChild(f, c) PROVE TypeOK'
  BY <1>2, StartKeepsType DEF TraceChild
<1>3. ASSUME NEW f \in Frames, NEW c \in Calls, GoTrace(f, c) PROVE TypeOK'
  BY <1>3, StartKeepsType DEF GoTrace
<1>4. ASSUME NEW f \in Frames, NEW S \in SUBSET Calls, TraceParallel(f, S)
      PROVE  TypeOK'
  BY <1>4, StartKeepsType DEF TraceParallel
<1>5. ASSUME NEW f \in Frames, MarkFailed(f) PROVE TypeOK'
  BY <1>5 DEF MarkFailed, TypeOK
<1>6. ASSUME NEW c \in Calls, LogError(c) PROVE TypeOK'
  BY <1>6 DEF LogError, TypeOK
<1>7. ASSUME NEW c \in Calls, NEW err \in BOOLEAN, Return(c, err) PROVE TypeOK'
  BY <1>7 DEF Return, TypeOK, Frames
<1>8. ASSUME NEW c \in Calls, Record(c) PROVE TypeOK'
  BY <1>8 DEF Record, TypeOK
<1>9. ASSUME NEW c \in Calls, PanicInHandler(c) PROVE TypeOK'
  BY <1>9 DEF PanicInHandler, TypeOK
<1>10. ASSUME NEW c \in Calls, PanicElsewhere(c) PROVE TypeOK'
  BY <1>10 DEF PanicElsewhere, TypeOK
<1>11. CASE FinishNoClient
  BY <1>11 DEF FinishNoClient, TypeOK
<1>12. CASE FinishRead
  BY <1>12 DEF FinishRead, TypeOK
<1>13. CASE FinishSnapshot
  BY <1>13 DEF FinishSnapshot, TypeOK
<1>14. CASE Deliver \/ PushFails
  BY <1>14 DEF Deliver, PushFails, Push, TypeOK
<1>15. CASE UNCHANGED vars
  BY <1>15 DEF vars, TypeOK
<1> QED
  BY <1>1, <1>2, <1>3, <1>4, <1>5, <1>6, <1>7, <1>8, <1>9, <1>10, <1>11,
     <1>12, <1>13, <1>14, <1>15 DEF Next

(* A new context is well typed. *)
LEMMA InitType == Init => TypeOK
<1> SUFFICES ASSUME Init PROVE TypeOK
  OBVIOUS
<1>1. NoSite \in Site
  BY DEF NoSite, Site, Frames
<1>2. <<>> \in Seq(Calls)
  OBVIOUS
<1>3. req \in [isSuccessful: BOOLEAN, executionFlow: Seq(Calls)]
  BY <1>2 DEF Init
<1> QED BY <1>1, <1>2, <1>3 DEF Init, TypeOK

(* Every variable of the request context keeps its type. *)
THEOREM TypeCorrect == Spec => []TypeOK
BY InitType, NextKeepsType, PTL DEF Spec

-----------------------------------------------------------------------------
(* The inductive invariant. *)

(* A new context satisfies the invariant. *)
LEMMA InitInvariant == Init => IInv
<1> SUFFICES ASSUME Init PROVE IInv
  OBVIOUS
<1>1. \A c \in Calls : ~Started(c) /\ ~Active(c) /\ st[c] # "recorded"
                       /\ st[c] # "panicked"
  BY DEF Init, Started, Active
<1>2. DOMAIN traces = {} /\ Range(traces) = {}
  BY DEF Init, Range
<1>3. TypeOK
  BY InitType
<1>4. CallersStarted /\ IndexOrder /\ AwaitedNests /\ Blocked /\ HandlerStack
  BY <1>1 DEF CallersStarted, IndexOrder, AwaitedNests, Blocked, HandlerStack
<1>5. StackCovers /\ PanickedStack /\ RecordedInTraces /\ NestedFirst
  BY <1>1, <1>2 DEF StackCovers, PanickedStack, RecordedInTraces, NestedFirst
<1>6. AllJoined /\ ErrorsKept /\ Captured /\ Verdict
  BY <1>1 DEF Init, AllJoined, ErrorsKept, Captured, Verdict,
              Reported
<1> QED BY <1>3, <1>4, <1>5, <1>6 DEF IInv

(* A frame that starts calls: they lie above it on its stack, and nothing  *)
(* else is active above it.                                                *)
LEMMA StartKeepsInvariant ==
  ASSUME IInv, NEW f \in Frames, NEW S \in SUBSET Calls,
         NEW mode \in {"seq", "par", "det"},
         NEW parent \in ParentNames \union {NoName},
         mode = "par" \/ (\E c \in Calls : S = {c}),
         mode = "det" => Detached # {},
         Start(f, S, mode, parent)
  PROVE  IInv'
<1> DEFINE above == IF mode = "det" THEN {} ELSE {f} \union AwaitedBy(f)
<1>types. TypeOK /\ TypeOK'
  <2>1. TypeOK
    BY DEF IInv
  <2> QED BY <2>1, StartKeepsType
<1>new. \A c \in S :
          /\ st[c] = "idle" /\ st'[c] = "running"
          /\ site'[c].caller = f /\ site'[c].mode = mode
          /\ site'[c].goroutine = IF mode = "seq" THEN GoroutineOf(f) ELSE c
          /\ site'[c].awaitedBy = above
          /\ site'[c].index = indexCounter
  BY <1>types DEF Start, TakenIndex, TypeOK
<1>old. \A c \in Calls \ S : st'[c] = st[c] /\ site'[c] = site[c]
  BY <1>types DEF Start, TypeOK
<1>rest. /\ UNCHANGED <<haveError, erred, marked, writers, traces, finish, req>>
         /\ indexCounter' = indexCounter + 1
  BY DEF Start, NextIndex
<1>exec. /\ ~Waits(f)
         /\ f = Handler => finish = "open"
         /\ f # Handler => f \in Calls \ S /\ st[f] = "running"
  BY <1>new, ConstantsAssumption DEF Start, Executing, Frames
<1>up. \A c \in Calls : c # Handler /\ AwaitedBy(c) = site[c].awaitedBy
                                  /\ AwaitedBy(c)' = site'[c].awaitedBy
  BY CallIsNotHandler DEF AwaitedBy
<1>f. AwaitedBy(f) = IF f = Handler THEN {} ELSE site[f].awaitedBy
  BY DEF AwaitedBy
<1>free. \A d \in Calls : Active(d) => f \notin AwaitedBy(d)
  <2>1. Blocked
    BY DEF IInv
  <2> QED BY <1>types, <1>exec, <2>1, NothingUnderExecuting
<1>started. \A c \in Calls : Started(c)' <=> Started(c) \/ c \in S
  BY <1>new, <1>old DEF Started
<1>active. \A c \in Calls : Active(c)' <=> Active(c) \/ c \in S
  BY <1>new, <1>old DEF Active
<1>idle. \A c \in S : ~Started(c) /\ ~Active(c)
  BY <1>new DEF Started, Active
<1>calls. \A d \in Calls : site[d].awaitedBy \ {Handler} \subseteq Calls
  BY <1>types DEF TypeOK, Site, Frames
<1>1. CallersStarted'
  <2> SUFFICES ASSUME NEW c \in Calls, Started(c)'
               PROVE  /\ site'[c].index < indexCounter'
                      /\ site'[c].caller \in Calls => Started(site[c].caller)'
                      /\ \A a \in AwaitedBy(c)' \ {Handler} : Started(a)'
    BY DEF CallersStarted
  <2>0. CallersStarted /\ indexCounter \in Nat
    BY <1>types DEF IInv, TypeOK
  <2>2. \A d \in Calls : site[d].index \in Nat
    BY <1>types DEF TypeOK, Site
  <2>3. f # Handler => Started(f)
    BY <1>exec DEF Started
  <2>4. CASE c \in S
    BY <2>4, <2>0, <1>calls, <2>2, <2>3, <1>new, <1>rest, <1>exec, <1>up, <1>f,
       <1>started DEF CallersStarted
  <2>5. CASE c \notin S
    BY <2>5, <2>0, <1>calls, <2>2, <1>old, <1>rest, <1>up, <1>started
       DEF CallersStarted
  <2> QED BY <2>4, <2>5
<1>2. IndexOrder'
  <2> SUFFICES ASSUME NEW c \in Calls, NEW d \in Calls,
                      Started(c)', Started(d)'
               PROVE  /\ c # d /\ site'[c].index = site'[d].index =>
                           /\ site'[c].mode = "par" /\ site'[d].mode = "par"
                           /\ site'[c].caller = site'[d].caller
                      /\ site'[d].caller = c => site'[c].index < site'[d].index
    BY DEF IndexOrder
  <2>0. IndexOrder /\ CallersStarted /\ indexCounter \in Nat
    BY <1>types DEF IInv, TypeOK
  <2>1. \A e \in Calls : Started(e) =>
          site[e].index \in Nat /\ site[e].index < indexCounter
    BY <1>types, <2>0 DEF TypeOK, Site, CallersStarted
  <2>2. CASE c \in S /\ d \in S
    BY <2>2, <1>new, <1>exec, <1>up
  <2>3. CASE c \in S /\ d \notin S
    BY <2>3, <2>0, <2>1, <1>new, <1>old, <1>started, <1>idle
       DEF CallersStarted
  <2>4. CASE c \notin S /\ d \in S
    BY <2>4, <2>0, <2>1, <1>new, <1>old, <1>started
  <2>5. CASE c \notin S /\ d \notin S
    BY <2>5, <2>0, <1>old, <1>started DEF IndexOrder
  <2> QED BY <2>2, <2>3, <2>4, <2>5
<1>3. AwaitedNests'
  <2> SUFFICES ASSUME NEW c \in Calls, Started(c)',
                      NEW a \in AwaitedBy(c)' \ {Handler}
               PROVE  AwaitedBy(a)' \subseteq AwaitedBy(c)'
    BY DEF AwaitedNests
  <2>0. AwaitedNests /\ CallersStarted
    BY DEF IInv
  <2>1. CASE c \in S
    <3>1. a = f \/ a \in AwaitedBy(f)
      BY <2>1, <1>new, <1>up
    <3>2. a \in Calls \ S
      BY <3>1, <2>0, <1>calls, <1>exec, <1>f, <1>idle, <1>up
         DEF CallersStarted, Started
    <3>3. AwaitedBy(a) \subseteq AwaitedBy(f)
      BY <3>1, <2>0, <1>exec, <1>f, <1>up DEF AwaitedNests, Started
    <3>4. above = {f} \union AwaitedBy(f)
      BY <2>1, <1>new, <1>up
    <3>5. AwaitedBy(a)' = AwaitedBy(a) /\ AwaitedBy(c)' = above
      BY <2>1, <3>2, <1>old, <1>new, <1>up
    <3> QED BY <3>3, <3>4, <3>5
  <2>2. CASE c \notin S
    <3>1. Started(c) /\ a \in AwaitedBy(c) \ {Handler}
      BY <2>2, <1>old, <1>up, <1>started
    <3>2. a \in Calls \ S
      BY <3>1, <2>0, <1>calls, <1>idle, <1>up DEF CallersStarted
    <3> QED BY <2>0, <2>2, <3>1, <3>2, <1>old, <1>up DEF AwaitedNests
  <2> QED BY <2>1, <2>2
<1>4. Blocked'
  <2> SUFFICES ASSUME NEW d \in Calls, Active(d)', NEW a \in AwaitedBy(d)'
               PROVE  /\ IF a = Handler THEN finish' = "open"
                         ELSE st'[a] = "running"
                      /\ \E k \in Calls : /\ Active(k)'
                                          /\ site'[k].caller = a
                                          /\ site'[k].mode # "det"
                                          /\ k = d \/ k \in AwaitedBy(d)'
    BY DEF Blocked
  <2>0. Blocked
    BY DEF IInv
  <2>1. CASE d \in S /\ a = f
    BY <2>1, <1>new, <1>old, <1>exec, <1>rest, <1>active, <1>up
  <2>2. CASE d \in S /\ a # f
    <3>1. f \in Calls \ S /\ Active(f) /\ a \in AwaitedBy(f)
      BY <2>2, <1>new, <1>exec, <1>up, <1>f DEF Active
    <3>2. AwaitedBy(d)' = {f} \union AwaitedBy(f)
      BY <2>2, <1>new, <1>up
    <3>3. PICK k \in Calls : /\ Active(k) /\ site[k].caller = a
                             /\ site[k].mode # "det"
                             /\ k = f \/ k \in AwaitedBy(f)
      BY <2>0, <3>1 DEF Blocked
    <3>4. k \notin S /\ site'[k] = site[k] /\ Active(k)'
      BY <3>3, <1>idle, <1>old DEF Active
    <3>5. IF a = Handler THEN finish = "open" ELSE st[a] = "running"
      BY <2>0, <3>1 DEF Blocked
    <3>6. a # Handler => a \in Calls \ S
      BY <3>1, <3>5, <1>calls, <1>up, <1>new
    <3> QED BY <3>2, <3>3, <3>4, <3>5, <3>6, <1>old, <1>rest DEF Active
  <2>3. CASE d \notin S
    <3>1. Active(d) /\ a \in AwaitedBy(d) /\ AwaitedBy(d)' = AwaitedBy(d)
      BY <2>3, <1>old, <1>active, <1>up
    <3>2. PICK k \in Calls : /\ Active(k) /\ site[k].caller = a
                             /\ site[k].mode # "det"
                             /\ k = d \/ k \in AwaitedBy(d)
      BY <2>0, <3>1 DEF Blocked
    <3>3. k \notin S /\ site'[k] = site[k] /\ Active(k)'
      BY <3>2, <1>idle, <1>old DEF Active
    <3>4. IF a = Handler THEN finish = "open" ELSE st[a] = "running"
      BY <2>0, <3>1 DEF Blocked
    <3>5. a # Handler => a \in Calls \ S
      BY <3>1, <3>4, <1>calls, <1>up, <1>new
    <3> QED BY <3>1, <3>2, <3>3, <3>4, <3>5, <1>old, <1>rest DEF Active
  <2> QED BY <2>1, <2>2, <2>3
<1>5. HandlerStack'
  <2> SUFFICES ASSUME NEW c \in Calls, Started(c)',
                      site'[c].goroutine = Handler
               PROVE  /\ Handler \in AwaitedBy(c)'
                      /\ \A a \in AwaitedBy(c)' \ {Handler} :
                           site'[a].goroutine = Handler
    BY DEF HandlerStack
  <2>0. HandlerStack /\ CallersStarted
    BY DEF IInv
  <2>1. CASE c \in S
    <3>1. mode = "seq" /\ GoroutineOf(f) = Handler
      BY <2>1, <1>new, <1>up
    <3>2. AwaitedBy(c)' = {f} \union AwaitedBy(f)
      BY <2>1, <3>1, <1>new, <1>up
    <3>3. f # Handler => f \in Calls \ S /\ Started(f)
                         /\ site[f].goroutine = Handler
      BY <3>1, <1>exec DEF GoroutineOf, Started
    <3>4. \A a \in AwaitedBy(f) \ {Handler} : a \in Calls \ S
      BY <3>3, <2>0, <1>calls, <1>f, <1>up, <1>idle DEF CallersStarted
    <3> QED BY <2>0, <3>2, <3>3, <3>4, <1>f, <1>up, <1>old DEF HandlerStack
  <2>2. CASE c \notin S
    <3>1. Started(c) /\ AwaitedBy(c)' = AwaitedBy(c)
                     /\ site[c].goroutine = Handler
      BY <2>2, <1>old, <1>up, <1>started
    <3>2. \A a \in AwaitedBy(c) \ {Handler} : a \in Calls \ S
      BY <3>1, <2>0, <1>calls, <1>up, <1>idle DEF CallersStarted
    <3> QED BY <2>0, <3>1, <3>2, <1>old DEF HandlerStack
  <2> QED BY <2>1, <2>2
<1>6. StackCovers'
  <2> SUFFICES ASSUME NEW c \in Calls, NEW d \in Calls,
                      Active(c)', Active(d)', c # d,
                      site'[c].goroutine = Handler,
                      Handler \in AwaitedBy(d)'
               PROVE  \/ c \in AwaitedBy(d)'
                      \/ d \in AwaitedBy(c)' /\ site'[d].goroutine = Handler
    BY <1>up DEF StackCovers, Joined
  <2>0. StackCovers /\ HandlerStack /\ Blocked
    BY DEF IInv
  <2>1. f # Handler => f \in Calls /\ f \notin S /\ Active(f)
    BY <1>exec DEF Active
  <2>2. ASSUME f = Handler, NEW e \in Calls, Active(e)
        PROVE  Handler \notin AwaitedBy(e)
    BY <2>2, <1>free
  <2>3. CASE c \in S
    <3>1. mode = "seq" /\ GoroutineOf(f) = Handler
      BY <2>3, <1>new, <1>up
    <3>2. d \notin S
      BY <2>3, <3>1
    <3>3. Active(d) /\ Handler \in AwaitedBy(d) /\ site'[d] = site[d]
      BY <3>2, <1>old, <1>active, <1>up
    <3>4. f \in Calls /\ Active(f) /\ site[f].goroutine = Handler
      BY <3>1, <3>3, <2>1, <2>2 DEF GoroutineOf
    <3>5. d = f \/ (d \in AwaitedBy(f) /\ site[d].goroutine = Handler)
      BY <3>3, <3>4, <2>0, <1>free DEF StackCovers, Joined
    <3>6. AwaitedBy(c)' = {f} \union AwaitedBy(f)
      BY <2>3, <3>1, <1>new, <1>up
    <3> QED BY <3>3, <3>4, <3>5, <3>6
  <2>4. CASE c \notin S /\ d \in S
    <3>1. Active(c) /\ site[c].goroutine = Handler /\ site'[c] = site[c]
      BY <2>4, <1>old, <1>active
    <3>2. Handler \in AwaitedBy(c)
      BY <3>1, <2>0 DEF HandlerStack, Started, Active
    <3>3. f \in Calls /\ Active(f)
      BY <3>1, <3>2, <2>1, <2>2
    <3>4. Handler \in AwaitedBy(f) /\ AwaitedBy(d)' = {f} \union AwaitedBy(f)
      BY <2>4, <3>3, <1>new, <1>up
    <3>5. c = f \/ c \in AwaitedBy(f)
      BY <3>1, <3>3, <3>4, <2>0, <1>free DEF StackCovers, Joined
    <3> QED BY <3>4, <3>5
  <2>5. CASE c \notin S /\ d \notin S
    <3>1. /\ Active(c) /\ site[c].goroutine = Handler
          /\ Active(d) /\ Handler \in AwaitedBy(d)
          /\ site'[c] = site[c] /\ site'[d] = site[d]
      BY <2>5, <1>old, <1>active, <1>up
    <3> QED BY <3>1, <2>0, <1>up DEF StackCovers, Joined
  <2> QED BY <2>3, <2>4, <2>5
<1>7. PanickedStack'
  <2> SUFFICES ASSUME NEW d \in Calls, st'[d] = "panicked",
                      NEW a \in AwaitedBy(d)' \ {Handler}
               PROVE  st'[a] = "panicked"
    BY DEF PanickedStack
  <2>1. st[d] = "panicked" /\ a \in AwaitedBy(d)
    BY <1>new, <1>old, <1>up
  <2>2. a \in Calls /\ st[a] = "panicked"
    BY <2>1, <1>calls, <1>up DEF IInv, PanickedStack
  <2> QED BY <2>2, <1>new, <1>old
<1>8. RecordedInTraces'
  <2>1. RecordedInTraces
    BY DEF IInv
  <2>2. \A c \in Calls : st'[c] = "recorded" <=> st[c] = "recorded"
    BY <1>new, <1>old
  <2> QED BY <2>1, <2>2, <1>rest DEF RecordedInTraces
<1>9. NestedFirst'
  <2>0. NestedFirst /\ Blocked /\ RecordedInTraces
    BY DEF IInv
  <2>1. \A i \in DOMAIN traces : traces[i] \in Calls /\ st[traces[i]] = "recorded"
    BY <1>types, <2>0 DEF RecordedInTraces, Range, TypeOK
  <2>2. ASSUME NEW i \in DOMAIN traces, NEW d \in Calls, Started(d)',
               traces[i] \in AwaitedBy(d)'
        PROVE  Started(d) /\ traces[i] \in AwaitedBy(d)
    <3>1. CASE d \in S
      <4>1. traces[i] = f \/ traces[i] \in AwaitedBy(f)
        BY <2>2, <3>1, <1>new, <1>up
      <4>2. traces[i] # f
        BY <2>1, <1>exec, <1>up
      <4>3. f \in Calls /\ Active(f)
        BY <4>1, <4>2, <1>exec, <1>f DEF Active
      <4> QED BY <4>1, <4>2, <4>3, <2>0, <2>1, <1>up DEF Blocked
    <3>2. CASE d \notin S
      BY <2>2, <3>2, <1>old, <1>up, <1>started
    <3> QED BY <3>1, <3>2
  <2> QED BY <2>0, <2>2, <1>rest DEF NestedFirst
<1>10. AllJoined'
  <2> SUFFICES ASSUME finish' # "open", NEW c \in Calls, Active(c)'
               PROVE  Handler \notin AwaitedBy(c)'
    BY <1>up DEF AllJoined, Joined
  <2>0. \A d \in Calls : Active(d) => Handler \notin AwaitedBy(d)
    BY <1>rest, <1>up DEF IInv, AllJoined, Joined
  <2>1. f \in Calls /\ f # Handler /\ Active(f)
    BY <1>rest, <1>exec, <1>up DEF Active
  <2>2. CASE c \in S
    BY <2>0, <2>1, <2>2, <1>new, <1>up
  <2>3. CASE c \notin S
    BY <2>0, <2>3, <1>old, <1>active, <1>up
  <2> QED BY <2>2, <2>3
<1>joined. \A c \in Calls : c \notin S => (Joined(c)' <=> Joined(c))
  BY <1>old, <1>up DEF Joined
<1>11. ErrorsKept'
  <2>0. ErrorsKept
    BY DEF IInv
  <2>1. \A c \in erred : c \in Calls \ S
    BY <2>0, <1>types, <1>new DEF ErrorsKept, TypeOK
  <2>2. writers \ {Handler} \subseteq Calls
    BY <1>types DEF TypeOK, Frames
  <2> QED BY <2>0, <2>1, <2>2, <1>old, <1>rest, <1>started DEF ErrorsKept
<1>12. Captured'
  <2>0. Captured /\ (Reported' <=> Reported) /\ Flow' = Flow
    BY <1>rest DEF IInv, Reported, Flow
  <2>1. \A c \in Calls : st'[c] = "recorded" => c \notin S /\ st[c] = "recorded"
    BY <1>new, <1>old
  <2> QED BY <2>0, <2>1, <1>joined DEF Captured
<1>13. Verdict'
  <2>0. Verdict /\ ErrorsKept /\ (Reported' <=> Reported)
    BY <1>rest DEF IInv, Reported
  <2>1. \A g \in erred \union marked : g = Handler \/ g \in Calls \ S
    BY <2>0, <1>types, <1>idle DEF ErrorsKept, TypeOK, Frames
  <2>2. \A g \in erred \union marked : Joined(g)' <=> Joined(g)
    BY <2>1, <1>joined DEF Joined
  <2> QED BY <2>0, <2>2, <1>rest DEF Verdict
<1> QED
  BY <1>types, <1>1, <1>2, <1>3, <1>4, <1>5, <1>6, <1>7, <1>8, <1>9, <1>10,
     <1>11, <1>12, <1>13 DEF IInv

(* What only depends on where the started calls were started. *)
LEMMA SitesKept ==
  ASSUME IInv, UNCHANGED <<site, indexCounter>>,
         \A c \in Calls : /\ Started(c)' <=> Started(c)
                          /\ Active(c)' => Active(c)
  PROVE  /\ CallersStarted' /\ IndexOrder' /\ AwaitedNests' /\ HandlerStack'
         /\ StackCovers'
         /\ \A c \in Frames : /\ AwaitedBy(c)' = AwaitedBy(c)
                              /\ Joined(c)' <=> Joined(c)
<1>1. \A c \in Frames : /\ AwaitedBy(c)' = AwaitedBy(c)
                        /\ Joined(c)' <=> Joined(c)
  BY DEF AwaitedBy, Joined
<1>2. \A c \in Calls : c \in Frames /\ c # Handler
  BY CallIsNotHandler DEF Frames
<1>3. \A c \in Calls : AwaitedBy(c) \ {Handler} \subseteq Calls
  BY AwaitedByCall DEF IInv, TypeOK, Site, Frames
<1>4. CallersStarted'
  <2> SUFFICES ASSUME NEW c \in Calls, Started(c)'
               PROVE  /\ site[c].index < indexCounter
                      /\ site[c].caller \in Calls => Started(site[c].caller)'
                      /\ \A a \in AwaitedBy(c) \ {Handler} : Started(a)'
    BY <1>1, <1>2 DEF CallersStarted
  <2>1. /\ site[c].index < indexCounter
        /\ site[c].caller \in Calls => Started(site[c].caller)
        /\ \A a \in AwaitedBy(c) \ {Handler} : Started(a)
    BY DEF IInv, CallersStarted
  <2> QED BY <2>1, <1>3
<1>5. IndexOrder'
  BY DEF IInv, IndexOrder
<1>6. AwaitedNests'
  <2> SUFFICES ASSUME NEW c \in Calls, Started(c)',
                      NEW a \in AwaitedBy(c)' \ {Handler}
               PROVE  AwaitedBy(a)' \subseteq AwaitedBy(c)'
    BY DEF AwaitedNests
  <2>1. a \in AwaitedBy(c) /\ a \in Calls /\ Started(c)
    BY <1>1, <1>2, <1>3
  <2> QED BY <2>1, <1>1, <1>2 DEF IInv, AwaitedNests
<1>7. HandlerStack'
  BY <1>1, <1>2 DEF IInv, HandlerStack
<1>8. StackCovers'
  BY <1>1, <1>2 DEF IInv, StackCovers
<1> QED BY <1>1, <1>4, <1>5, <1>6, <1>7, <1>8

(* Steps that move no call: only errors, the verdict and Finish change. *)
LEMMA QuietKeepsInvariant ==
  ASSUME IInv, TypeOK', UNCHANGED <<st, site, indexCounter, traces>>,
         finish' # "open" => \A c \in Calls : Active(c) => ~Joined(c),
         ErrorsKept', Captured', Verdict'
  PROVE  IInv'
<1>1. \A c \in Calls : (Started(c)' <=> Started(c)) /\ (Active(c)' <=> Active(c))
  BY DEF Started, Active
<1>2. /\ CallersStarted' /\ IndexOrder' /\ AwaitedNests' /\ HandlerStack'
      /\ StackCovers'
      /\ \A c \in Frames : /\ AwaitedBy(c)' = AwaitedBy(c)
                           /\ Joined(c)' <=> Joined(c)
  BY <1>1, SitesKept
<1>3. \A c \in Calls : c \in Frames
  BY DEF Frames
<1>4. Blocked'
  <2>1. \A d \in Calls : Active(d) /\ Handler \in AwaitedBy(d) => finish' = "open"
    BY DEF Joined
  <2> QED BY <2>1, <1>1, <1>2, <1>3 DEF IInv, Blocked
<1>5. PanickedStack' /\ RecordedInTraces' /\ NestedFirst'
  BY <1>1, <1>2, <1>3 DEF IInv, PanickedStack, RecordedInTraces, NestedFirst
<1>6. AllJoined'
  BY <1>1, <1>2, <1>3 DEF AllJoined
<1> QED BY <1>2, <1>4, <1>5, <1>6 DEF IInv

(* A function that returns has nothing active under it. *)
LEMMA ReturnKeepsInvariant ==
  ASSUME IInv, NEW c \in Calls, NEW err \in BOOLEAN, TypeOK', Return(c, err)
  PROVE  IInv'
<1>types. TypeOK
  BY DEF IInv
<1>c. /\ st[c] = "running" /\ st'[c] = "returned" /\ ~Waits(c)
      /\ \A d \in Calls : d # c => st'[d] = st[d]
      /\ UNCHANGED <<site, indexCounter, marked, traces, finish, req>>
  BY <1>types, ConstantsAssumption DEF Return, Executing, TypeOK
<1>frames. \A d \in Calls : d \in Frames /\ d # Handler
  BY CallIsNotHandler DEF Frames
<1>free. \A d \in Calls : Active(d) => c \notin AwaitedBy(d)
  BY <1>types, <1>c, <1>frames, NothingUnderExecuting DEF IInv
<1>1. \A d \in Calls : (Started(d)' <=> Started(d)) /\ (Active(d)' <=> Active(d))
  BY <1>c DEF Started, Active
<1>2. /\ CallersStarted' /\ IndexOrder' /\ AwaitedNests' /\ HandlerStack'
      /\ StackCovers'
      /\ \A d \in Frames : /\ AwaitedBy(d)' = AwaitedBy(d)
                           /\ Joined(d)' <=> Joined(d)
  BY <1>c, <1>1, SitesKept
<1>calls. \A d \in Calls : AwaitedBy(d) \ {Handler} \subseteq Calls
  BY <1>types, AwaitedByCall DEF TypeOK, Site, Frames
<1>3. Blocked'
  <2> SUFFICES ASSUME NEW d \in Calls, Active(d), NEW a \in AwaitedBy(d)
               PROVE  /\ IF a = Handler THEN finish = "open"
                         ELSE st'[a] = "running"
                      /\ \E k \in Calls : /\ Active(k)
                                          /\ site[k].caller = a
                                          /\ site[k].mode # "det"
                                          /\ k = d \/ k \in AwaitedBy(d)
    BY <1>c, <1>1, <1>2, <1>frames DEF Blocked
  <2>1. /\ IF a = Handler THEN finish = "open" ELSE st[a] = "running"
        /\ \E k \in Calls : /\ Active(k)
                            /\ site[k].caller = a
                            /\ site[k].mode # "det"
                            /\ k = d \/ k \in AwaitedBy(d)
    BY DEF IInv, Blocked
  <2>2. a # c
    BY <1>free
  <2> QED BY <2>1, <2>2, <1>c, <1>calls
<1>4. PanickedStack'
  <2>1. \A d \in Calls : st'[d] = "panicked" <=> st[d] = "panicked"
    BY <1>c
  <2> QED BY <2>1, <1>2, <1>frames, <1>calls DEF IInv, PanickedStack
<1>5. RecordedInTraces' /\ NestedFirst' /\ AllJoined'
  <2>1. \A d \in Calls : st'[d] = "recorded" <=> st[d] = "recorded"
    BY <1>c
  <2>2. RecordedInTraces'
    BY <2>1, <1>c DEF IInv, RecordedInTraces
  <2> QED BY <2>2, <1>1, <1>2, <1>c, <1>frames DEF IInv, NestedFirst, AllJoined
<1>6. ErrorsKept'
  <2>1. ErrorsKept
    BY DEF IInv
  <2>2. /\ haveError' = [haveError EXCEPT ![c] = @ \/ err]
        /\ erred' = IF err THEN erred \union {c} ELSE erred
        /\ writers' = IF err THEN writers \union {c} ELSE writers
    BY DEF Return
  <2>3. Started(c) /\ erred \subseteq Calls /\ writers \ {Handler} \subseteq Calls
    BY <1>types, <1>c DEF Started, TypeOK, Frames
  <2>4. \A d \in erred' : haveError'[d]
    BY <2>1, <2>2, <2>3, <1>types, <1>types DEF ErrorsKept, TypeOK
  <2>5. \A d \in erred' : st'[d] \in {"returned", "recorded"}
    BY <2>1, <2>2, <2>3, <1>c DEF ErrorsKept
  <2>6. writers' = erred' \union marked'
    BY <2>1, <2>2, <1>c DEF ErrorsKept
  <2>7. \A d \in writers' \ {Handler} : Started(d)'
    BY <2>1, <2>2, <2>3, <1>1 DEF ErrorsKept
  <2> QED BY <2>4, <2>5, <2>6, <2>7 DEF ErrorsKept
<1>7. Captured'
  <2>1. \A d \in Calls : st'[d] = "recorded" <=> st[d] = "recorded"
    BY <1>c
  <2>2. (Reported' <=> Reported) /\ Flow' = Flow
    BY <1>c DEF Reported, Flow
  <2> QED BY <2>1, <2>2, <1>2, <1>frames DEF IInv, Captured
<1>8. Verdict'
  <2>1. Verdict /\ (Reported' <=> Reported)
    BY <1>c DEF IInv, Reported
  <2>2. finish # "open" => ~Joined(c)
    BY <1>c DEF IInv, AllJoined, Active
  <2>3. /\ erred \union marked \subseteq Frames
        /\ erred' \union marked' \subseteq erred \union marked \union {c}
        /\ erred \union marked \subseteq erred' \union marked'
    BY <1>types, <1>c DEF Return, TypeOK, Frames
  <2>4. finish = "read" \/ Reported => finish # "open"
    BY DEF Reported
  <2> QED BY <2>1, <2>2, <2>3, <2>4, <1>2, <1>c, <1>frames DEF Verdict
<1> QED
  BY <1>2, <1>3, <1>4, <1>5, <1>6, <1>7, <1>8 DEF IInv

(* Appending one element to the traces. *)
LEMMA AppendTrace ==
  ASSUME traces \in Seq(Calls), NEW c \in Calls, traces' = Append(traces, c)
  PROVE  /\ Len(traces) \in Nat
         /\ DOMAIN traces = 1..Len(traces)
         /\ DOMAIN traces' = 1..(Len(traces) + 1)
         /\ \A i \in DOMAIN traces : traces'[i] = traces[i]
         /\ traces'[Len(traces) + 1] = c
         /\ Range(traces)' = Range(traces) \union {c}
<1>1. /\ Len(traces) \in Nat
      /\ DOMAIN traces = 1..Len(traces)
      /\ DOMAIN traces' = 1..(Len(traces) + 1)
      /\ \A i \in DOMAIN traces : traces'[i] = traces[i]
      /\ traces'[Len(traces) + 1] = c
  OBVIOUS
<1>2. Range(traces)' = {traces'[i] : i \in DOMAIN traces'}
  BY DEF Range
<1>3. Range(traces) = {traces[i] : i \in DOMAIN traces}
  BY DEF Range
<1> QED BY <1>1, <1>2, <1>3

(* A call is recorded: what it awaited has been, what awaits it has not.   *)
LEMMA RecordKeepsInvariant ==
  ASSUME IInv, NEW c \in Calls, TypeOK', Record(c)
  PROVE  IInv'
<1>types. TypeOK
  BY DEF IInv
<1>c. /\ st[c] = "returned" /\ st'[c] = "recorded"
      /\ \A d \in Calls : d # c => st'[d] = st[d]
      /\ traces' = Append(traces, c)
      /\ UNCHANGED <<site, haveError, indexCounter, erred, marked, writers,
                     finish, req>>
  BY <1>types DEF Record, TypeOK
<1>frames. \A d \in Calls : d \in Frames /\ d # Handler
  BY CallIsNotHandler DEF Frames
<1>1. \A d \in Calls : /\ Started(d)' <=> Started(d)
                       /\ Active(d)' <=> (Active(d) /\ d # c)
  BY <1>c DEF Started, Active
<1>2. /\ CallersStarted' /\ IndexOrder' /\ AwaitedNests' /\ HandlerStack'
      /\ StackCovers'
      /\ \A d \in Frames : /\ AwaitedBy(d)' = AwaitedBy(d)
                           /\ Joined(d)' <=> Joined(d)
  BY <1>c, <1>1, SitesKept
<1>calls. \A d \in Calls : AwaitedBy(d) \ {Handler} \subseteq Calls
  BY <1>types, AwaitedByCall DEF TypeOK, Site, Frames
<1>free. \A d \in Calls : Active(d) => c \notin AwaitedBy(d)
  BY <1>c, <1>frames DEF IInv, Blocked
<1>append. /\ Len(traces) \in Nat
           /\ DOMAIN traces = 1..Len(traces)
           /\ DOMAIN traces' = 1..(Len(traces) + 1)
           /\ \A i \in DOMAIN traces : traces'[i] = traces[i]
           /\ traces'[Len(traces) + 1] = c
           /\ Range(traces)' = Range(traces) \union {c}
  BY <1>types, <1>c, AppendTrace DEF TypeOK
<1>traced. \A i \in DOMAIN traces : traces[i] \in Calls /\ st[traces[i]] = "recorded"
  BY <1>types DEF IInv, RecordedInTraces, Range, TypeOK
<1>3. Blocked'
  <2> SUFFICES ASSUME NEW d \in Calls, Active(d), d # c, NEW a \in AwaitedBy(d)
               PROVE  /\ IF a = Handler THEN finish = "open"
                         ELSE st'[a] = "running"
                      /\ \E k \in Calls : /\ Active(k) /\ k # c
                                          /\ site[k].caller = a
                                          /\ site[k].mode # "det"
                                          /\ k = d \/ k \in AwaitedBy(d)
    BY <1>c, <1>1, <1>2, <1>frames DEF Blocked
  <2>1. /\ IF a = Handler THEN finish = "open" ELSE st[a] = "running"
        /\ \E k \in Calls : /\ Active(k)
                            /\ site[k].caller = a
                            /\ site[k].mode # "det"
                            /\ k = d \/ k \in AwaitedBy(d)
    BY DEF IInv, Blocked
  <2>2. c \notin AwaitedBy(d)
    BY <1>free
  <2> QED BY <2>1, <2>2, <1>c, <1>calls
<1>4. PanickedStack'
  <2>1. \A d \in Calls : st'[d] = "panicked" <=> st[d] = "panicked"
    BY <1>c
  <2> QED BY <2>1, <1>2, <1>frames, <1>calls DEF IInv, PanickedStack
<1>5. RecordedInTraces'
  <2> SUFFICES ASSUME NEW d \in Calls
               PROVE  st'[d] = "recorded" <=> d \in Range(traces) \union {c}
    BY <1>append DEF RecordedInTraces
  <2> QED BY <1>c DEF IInv, RecordedInTraces
<1>6. NestedFirst'
  <2>0. NestedFirst /\ RecordedInTraces
    BY DEF IInv
  <2>1. ASSUME NEW i \in DOMAIN traces', NEW d \in Calls,
               Started(d), traces'[i] \in AwaitedBy(d)
        PROVE  \E j \in DOMAIN traces' : j < i /\ traces'[j] = d
    <3>1. CASE i \in DOMAIN traces
      <4>1. PICK j \in DOMAIN traces : j < i /\ traces[j] = d
        BY <2>0, <2>1, <3>1, <1>append DEF NestedFirst
      <4> QED BY <4>1, <1>append
    <3>2. CASE i \notin DOMAIN traces
      <4>1. i = Len(traces) + 1 /\ c \in AwaitedBy(d)
        BY <2>1, <3>2, <1>append
      <4>2. ~Active(d)
        BY <4>1, <1>free
      <4>3. st[d] # "panicked"
        BY <4>1, <1>c, <1>frames DEF IInv, PanickedStack
      <4>4. st[d] = "recorded"
        BY <2>1, <4>2, <4>3, <1>types DEF Started, Active, TypeOK
      <4>5. PICK j \in DOMAIN traces : traces[j] = d
        BY <2>0, <4>4 DEF RecordedInTraces, Range
      <4> QED BY <4>1, <4>5, <1>append
    <3> QED BY <3>1, <3>2
  <2>2. ASSUME NEW i \in DOMAIN traces', NEW j \in DOMAIN traces',
               traces'[i] = traces'[j]
        PROVE  i = j
    <3>1. c # traces[i] \/ i \notin DOMAIN traces
      BY <1>traced, <1>c
    <3>2. c # traces[j] \/ j \notin DOMAIN traces
      BY <1>traced, <1>c
    <3>3. CASE i \in DOMAIN traces /\ j \in DOMAIN traces
      BY <2>0, <2>2, <3>3, <1>append DEF NestedFirst
    <3> QED BY <2>2, <3>1, <3>2, <3>3, <1>append
  <2>3. ASSUME NEW i \in DOMAIN traces', NEW d \in Calls,
               Started(d)', traces'[i] \in AwaitedBy(d)'
        PROVE  \E j \in DOMAIN traces' : j < i /\ traces'[j] = d
    BY <2>1, <2>3, <1>1, <1>2, <1>frames
  <2> QED BY <2>2, <2>3 DEF NestedFirst
<1>7. AllJoined'
  BY <1>1, <1>2, <1>c, <1>frames DEF IInv, AllJoined
<1>8. ErrorsKept'
  <2>1. ErrorsKept /\ erred \subseteq Calls /\ writers \ {Handler} \subseteq Calls
    BY <1>types DEF IInv, TypeOK, Frames
  <2> QED BY <2>1, <1>1, <1>c DEF ErrorsKept
<1>9. Captured'
  <2>1. Captured /\ (Reported' <=> Reported) /\ Flow' = Flow
    BY <1>c DEF IInv, Reported, Flow
  <2>2. Reported => ~Joined(c)
    BY <1>c DEF IInv, AllJoined, Reported, Active
  <2> QED BY <2>1, <2>2, <1>2, <1>c, <1>frames DEF Captured
<1>10. Verdict'
  <2>1. Verdict /\ (Reported' <=> Reported) /\ erred \union marked \subseteq Frames
    BY <1>types, <1>c DEF IInv, Reported, TypeOK, Frames
  <2> QED BY <2>1, <1>2, <1>c DEF Verdict
<1> QED
  BY <1>2, <1>3, <1>4, <1>5, <1>6, <1>7, <1>8, <1>9, <1>10 DEF IInv

(* A panic unwinds the handler's goroutine: every call the handler still   *)
(* waits for is on it.                                                     *)
LEMMA PanicKeepsInvariant ==
  ASSUME IInv, NEW c \in Calls, TypeOK', PanicInHandler(c)
  PROVE  IInv'
<1>types. TypeOK
  BY DEF IInv
<1>c. /\ st[c] = "running" /\ ~Waits(c) /\ site[c].goroutine = Handler
      /\ \A d \in Calls :
           st'[d] = IF st[d] = "running" /\ site[d].goroutine = Handler
                    THEN "panicked" ELSE st[d]
      /\ finish' = "unwind"
      /\ UNCHANGED <<site, haveError, indexCounter, erred, marked, writers,
                     traces, req>>
  BY ConstantsAssumption DEF PanicInHandler, Executing
<1>frames. \A d \in Calls : d \in Frames /\ d # Handler
  BY CallIsNotHandler DEF Frames
<1>1. \A d \in Calls : /\ Started(d)' <=> Started(d)
                       /\ Active(d)' => Active(d)
  BY <1>c DEF Started, Active
<1>2. /\ CallersStarted' /\ IndexOrder' /\ AwaitedNests' /\ HandlerStack'
      /\ StackCovers'
      /\ \A d \in Frames : /\ AwaitedBy(d)' = AwaitedBy(d)
                           /\ Joined(d)' <=> Joined(d)
  BY <1>c, <1>1, SitesKept
<1>calls. \A d \in Calls : AwaitedBy(d) \ {Handler} \subseteq Calls
  BY <1>types, AwaitedByCall DEF TypeOK, Site, Frames
<1>free. \A d \in Calls : Active(d) => c \notin AwaitedBy(d)
  BY <1>types, <1>c, <1>frames, NothingUnderExecuting DEF IInv
<1>open. finish = "open"
  <2>1. Active(c) /\ Handler \in AwaitedBy(c)
    BY <1>c DEF IInv, HandlerStack, Started, Active
  <2> QED BY <2>1 DEF IInv, Blocked
<1>gone. \A d \in Calls : Active(d)' => ~Joined(d)
  <2> SUFFICES ASSUME NEW d \in Calls, Active(d)', Joined(d) PROVE FALSE
    OBVIOUS
  <2>1. Active(c) /\ Active(d)
    BY <1>c, <1>1 DEF Active
  <2>2. c = d \/ (d \in AwaitedBy(c) /\ site[d].goroutine = Handler)
    BY <2>1, <1>c, <1>free DEF IInv, StackCovers
  <2>3. st[d] = "running"
    BY <2>1, <2>2, <1>c, <1>frames DEF IInv, Blocked
  <2>4. st'[d] = "panicked"
    BY <2>2, <2>3, <1>c
  <2> QED BY <2>4 DEF Active
<1>3. Blocked'
  <2> SUFFICES ASSUME NEW d \in Calls, Active(d)', NEW a \in AwaitedBy(d)
               PROVE  /\ IF a = Handler THEN finish' = "open"
                         ELSE st'[a] = "running"
                      /\ \E k \in Calls : /\ Active(k)'
                                          /\ site[k].caller = a
                                          /\ site[k].mode # "det"
                                          /\ k = d \/ k \in AwaitedBy(d)
    BY <1>c, <1>1, <1>2, <1>frames DEF Blocked
  <2>0. Handler \notin AwaitedBy(d) /\ Active(d) /\ Started(d)
    BY <1>gone, <1>1 DEF Joined, Active, Started
  <2>1. \A b \in AwaitedBy(d) : b \in Calls /\ st[b] = "running" /\ Started(b)
    BY <2>0, <1>calls DEF IInv, Blocked, Started
  <2>2. \A b \in AwaitedBy(d) \union {d} : site[b].goroutine # Handler
    <3>1. ASSUME NEW b \in AwaitedBy(d) PROVE site[b].goroutine # Handler
      <4>1. AwaitedBy(b) \subseteq AwaitedBy(d)
        BY <2>0, <2>1, <1>frames DEF IInv, AwaitedNests
      <4> QED BY <4>1, <2>0, <2>1 DEF IInv, HandlerStack
    <3>2. site[d].goroutine # Handler
      BY <2>0 DEF IInv, HandlerStack
    <3> QED BY <3>1, <3>2
  <2>3. PICK k \in Calls : /\ Active(k)
                           /\ site[k].caller = a
                           /\ site[k].mode # "det"
                           /\ k = d \/ k \in AwaitedBy(d)
    BY <2>0 DEF IInv, Blocked
  <2>4. Active(k)'
    BY <2>2, <2>3, <1>c DEF Active
  <2>5. a # Handler /\ st'[a] = "running"
    BY <2>0, <2>1, <2>2, <1>c
  <2> QED BY <2>3, <2>4, <2>5
<1>4. PanickedStack'
  <2> SUFFICES ASSUME NEW d \in Calls, st'[d] = "panicked",
                      NEW a \in AwaitedBy(d) \ {Handler}
               PROVE  st'[a] = "panicked"
    BY <1>2, <1>frames DEF PanickedStack
  <2>1. a \in Calls
    BY <1>calls
  <2>2. CASE st[d] = "panicked"
    BY <2>1, <2>2, <1>c DEF IInv, PanickedStack
  <2>3. CASE st[d] = "running" /\ site[d].goroutine = Handler
    <3>1. site[a].goroutine = Handler
      BY <2>3 DEF IInv, HandlerStack, Started
    <3>2. st[a] = "running"
      BY <2>3 DEF IInv, Blocked, Active
    <3> QED BY <2>1, <3>1, <3>2, <1>c
  <2> QED BY <2>2, <2>3, <1>c
<1>5. RecordedInTraces'
  <2>1. \A d \in Calls : st'[d] = "recorded" <=> st[d] = "recorded"
    BY <1>c
  <2> QED BY <2>1, <1>c DEF IInv, RecordedInTraces
<1>6. NestedFirst'
  BY <1>1, <1>2, <1>c, <1>frames DEF IInv, NestedFirst
<1>7. AllJoined'
  BY <1>gone, <1>2, <1>frames DEF AllJoined
<1>8. ErrorsKept'
  <2>1. ErrorsKept /\ erred \subseteq Calls /\ writers \ {Handler} \subseteq Calls
    BY <1>types DEF IInv, TypeOK, Frames
  <2> QED BY <2>1, <1>1, <1>c DEF ErrorsKept
<1>9. Captured' /\ Verdict'
  BY <1>c DEF Captured, Verdict, Reported
<1> QED
  BY <1>2, <1>3, <1>4, <1>5, <1>6, <1>7, <1>8, <1>9 DEF IInv

(* LogError and MarkFailed. *)
LEMMA FailureKeepsInvariant ==
  ASSUME IInv, TypeOK',
         (\E c \in Calls : LogError(c)) \/ (\E f \in Frames : MarkFailed(f))
  PROVE  IInv'
<1>types. TypeOK /\ ErrorsKept /\ Captured /\ Verdict /\ AllJoined
  BY DEF IInv
<1>frames. \A d \in Calls : d \in Frames /\ d # Handler
  BY CallIsNotHandler DEF Frames
<1>1. ASSUME NEW c \in Calls, LogError(c) PROVE IInv'
  <2>1. UNCHANGED <<st, site, indexCounter, erred, marked, writers, traces,
                    finish, req>>
    BY <1>1 DEF LogError
  <2>2. ErrorsKept'
    BY <1>1, <1>types, <2>1 DEF LogError, ErrorsKept, TypeOK, Started
  <2>3. Captured' /\ Verdict'
    BY <2>1, <1>types
       DEF Captured, Verdict, Reported, Flow, Joined, AwaitedBy
  <2> QED BY <2>1, <2>2, <2>3, <1>types, QuietKeepsInvariant DEF AllJoined
<1>2. ASSUME NEW f \in Frames, MarkFailed(f) PROVE IInv'
  <2>1. /\ UNCHANGED <<st, site, indexCounter, haveError, erred, traces, finish,
                       req>>
        /\ marked' = marked \union {f} /\ writers' = writers \union {f}
        /\ ~Waits(f)
        /\ \/ f = Handler /\ finish = "open"
           \/ f \in Calls /\ st[f] = "running"
    BY <1>2 DEF MarkFailed, Executing
  <2>2. ErrorsKept'
    BY <2>1, <1>types DEF ErrorsKept, Started
  <2>3. Captured'
    BY <2>1, <1>types DEF Captured, Reported, Flow, Joined, AwaitedBy
  <2>4. finish # "open" => ~Joined(f)
    BY <2>1, <1>types DEF AllJoined, Active
  <2>5. finish = "read" \/ Reported => finish # "open"
    BY DEF Reported
  <2>6. Verdict'
    BY <2>1, <2>4, <2>5, <1>types DEF Verdict, Reported, Joined, AwaitedBy
  <2> QED BY <2>1, <2>2, <2>3, <2>6, <1>types, QuietKeepsInvariant DEF AllJoined
<1> QED BY <1>1, <1>2

(* The steps of Finish, and of the push. *)
LEMMA FinishKeepsInvariant ==
  ASSUME IInv, TypeOK',
         FinishNoClient \/ FinishRead \/ FinishSnapshot \/ Deliver \/ PushFails
  PROVE  IInv'
<1>types. TypeOK /\ ErrorsKept /\ Captured /\ Verdict /\ AllJoined
  BY DEF IInv
<1>same. UNCHANGED <<st, site, indexCounter, haveError, erred, marked, writers,
                     traces>>
  BY DEF FinishNoClient, FinishRead, FinishSnapshot, Deliver, PushFails, Push
<1>joined. finish # "open" \/ ~Waits(Handler) =>
             \A c \in Calls : Active(c) => ~Joined(c)
  <2>1. CASE finish # "open"
    BY <2>1, <1>types DEF AllJoined
  <2>2. CASE ~Waits(Handler)
    <3>1. \A c \in Calls : Active(c) => Handler \notin AwaitedBy(c)
      BY <2>2, NothingUnderExecuting DEF IInv, Frames
    <3> QED BY <3>1, CallIsNotHandler DEF Joined
  <2> QED BY <2>1, <2>2
<1>errors. ErrorsKept'
  BY <1>types, <1>same DEF ErrorsKept, Started
<1>1. CASE FinishNoClient
  <2>1. ~Waits(Handler) /\ finish' = "dropped"
    BY <1>1 DEF FinishNoClient, Finishing
  <2>2. Captured' /\ Verdict'
    BY <2>1 DEF Captured, Verdict, Reported
  <2> QED BY <2>1, <2>2, <1>joined, <1>errors, <1>same, QuietKeepsInvariant
<1>2. CASE FinishRead
  <2>1. PICK seen \in SUBSET writers :
          /\ {f \in writers : Joined(f)} \subseteq seen
          /\ req' = [req EXCEPT !.isSuccessful = (seen = {})]
    BY <1>2 DEF FinishRead
  <2>2. ~Waits(Handler) /\ finish' = "read" /\ ~Reported'
    BY <1>2 DEF FinishRead, Finishing, Reported
  <2>3. req'.isSuccessful <=> seen = {}
    BY <2>1, <1>types DEF TypeOK
  <2>4. Captured'
    BY <2>2 DEF Captured
  <2>5. Verdict'
    BY <2>1, <2>3, <1>same, <1>types
       DEF Verdict, ErrorsKept, Joined, AwaitedBy
  <2> QED BY <2>2, <2>4, <2>5, <1>joined, <1>errors, <1>same,
             QuietKeepsInvariant
<1>3. CASE FinishSnapshot
  <2>1. /\ finish = "read" /\ finish' = "pushing"
        /\ req' = [req EXCEPT !.executionFlow = traces]
    BY <1>3 DEF FinishSnapshot
  <2>2. req'.isSuccessful = req.isSuccessful /\ req'.executionFlow = traces
    BY <2>1, <1>types DEF TypeOK
  <2>3. Captured'
    BY <2>2, <1>same DEF IInv, Captured, RecordedInTraces, Flow
  <2>4. Verdict'
    BY <2>1, <2>2, <1>same, <1>types DEF Verdict, Joined, AwaitedBy
  <2> QED BY <2>1, <2>3, <2>4, <1>joined, <1>errors, <1>same,
             QuietKeepsInvariant
<1>4. CASE Deliver \/ PushFails
  <2>1. finish = "pushing" /\ finish' \in {"delivered", "failed"} /\ req' = req
    BY <1>4 DEF Deliver, PushFails, Push
  <2>2. Captured' /\ Verdict'
    BY <2>1, <1>same, <1>types
       DEF Captured, Verdict, Reported, Flow, Joined, AwaitedBy
  <2> QED BY <2>1, <2>2, <1>joined, <1>errors, <1>same, QuietKeepsInvariant
<1> QED BY <1>1, <1>2, <1>3, <1>4

(* Every step of the request keeps the invariant. *)
LEMMA NextKeepsInvariant == IInv /\ [Next]_vars => IInv'
<1> SUFFICES ASSUME IInv, [Next]_vars PROVE IInv'
  OBVIOUS
<1>types. TypeOK'
  BY NextKeepsType DEF IInv
<1>0. \A c \in Calls : {c} \in SUBSET Calls /\ \E d \in Calls : {c} = {d}
  OBVIOUS
<1>1. ASSUME NEW f \in Frames, NEW c \in Calls, Trace(f, c) PROVE IInv'
  BY <1>0, <1>1, StartKeepsInvariant DEF Trace
<1>2. ASSUME NEW f \in Frames, NEW c \in Calls, TraceChild(f, c) PROVE IInv'
  BY <1>0, <1>2, StartKeepsInvariant DEF TraceChild
<1>3. ASSUME NEW f \in Frames, NEW c \in Calls, GoTrace(f, c) PROVE IInv'
  BY <1>0, <1>3, StartKeepsInvariant DEF GoTrace
<1>4. ASSUME NEW f \in Frames, NEW S \in SUBSET Calls, TraceParallel(f, S)
      PROVE  IInv'
  BY <1>4, StartKeepsInvariant DEF TraceParallel
<1>5. ASSUME NEW f \in Frames, MarkFailed(f) PROVE IInv'
  BY <1>5, <1>types, FailureKeepsInvariant
<1>6. ASSUME NEW c \in Calls, LogError(c) PROVE IInv'
  BY <1>6, <1>types, FailureKeepsInvariant
<1>7. ASSUME NEW c \in Calls, NEW err \in BOOLEAN, Return(c, err) PROVE IInv'
  BY <1>7, <1>types, ReturnKeepsInvariant
<1>8. ASSUME NEW c \in Calls, Record(c) PROVE IInv'
  BY <1>8, <1>types, RecordKeepsInvariant
<1>9. ASSUME NEW c \in Calls, PanicInHandler(c) PROVE IInv'
  BY <1>9, <1>types, PanicKeepsInvariant
<1>10. ASSUME UNCHANGED <<st, site, haveError, indexCounter, erred, marked,
                          writers, traces, finish, req>>
       PROVE  IInv'
  <2>1. ErrorsKept' /\ Captured' /\ Verdict'
    BY <1>10 DEF IInv, ErrorsKept, Captured, Verdict, Started, Reported, Flow,
                 Joined, AwaitedBy
  <2> QED BY <2>1, <1>10, <1>types, QuietKeepsInvariant DEF IInv, AllJoined
<1>11. CASE FinishNoClient \/ FinishRead \/ FinishSnapshot \/ Deliver \/ PushFails
  BY <1>11, <1>types, FinishKeepsInvariant
<1>12. ASSUME NEW c \in Calls, PanicElsewhere(c) PROVE IInv'
  BY <1>12, <1>10 DEF PanicElsewhere
<1>13. CASE UNCHANGED vars
  BY <1>13, <1>10 DEF vars
<1> QED
  BY <1>1, <1>2, <1>3, <1>4, <1>5, <1>6, <1>7, <1>8, <1>9, <1>11, <1>12,
     <1>13 DEF Next

(* The invariant holds of every reachable state. *)
THEOREM Invariant == Spec => []IInv
BY InitInvariant, NextKeepsInvariant, PTL DEF Spec

-----------------------------------------------------------------------------
(* The properties of the report. *)

(* However calls nest and run in parallel, the indices order the tree top  *)
(* down, and only the calls of one TraceParallel share one.                *)
THEOREM IndicesOrderCalls == Spec => []IndexOrder
<1>1. IInv => IndexOrder
  BY DEF IInv
<1> QED BY <1>1, Invariant, PTL

(* Traces are appended bottom up and once. *)
THEOREM NestedRecordedFirst == Spec => []NestedFirst
<1>1. IInv => NestedFirst
  BY DEF IInv
<1> QED BY <1>1, Invariant, PTL

(* A report holds every call the handler waited for. *)
THEOREM ReportIsComplete == Spec => []ReportComplete
<1>1. IInv => ReportComplete
  <2> SUFFICES ASSUME IInv, Reported, NEW c \in Calls, Started(c), Joined(c)
               PROVE  c \in Flow \/ st[c] = "panicked"
    BY DEF ReportComplete
  <2>1. ~Active(c)
    BY DEF IInv, AllJoined, Reported
  <2>2. st[c] \in {"recorded", "panicked"}
    BY <2>1 DEF IInv, TypeOK, Started, Active
  <2> QED BY <2>2 DEF IInv, Captured
<1> QED BY <1>1, Invariant, PTL

(* The verdict is right about every frame the handler waited for. *)
THEOREM VerdictIsRight == Spec => []Verdict
<1>1. IInv => Verdict
  BY DEF IInv
<1> QED BY <1>1, Invariant, PTL

(* A report of failure shows the call that failed. *)
THEOREM FailureIsExplained == Spec => []FailureExplained
<1>1. IInv => FailureExplained
  <2> SUFFICES ASSUME IInv, Reported, ~req.isSuccessful, marked = {},
                      \A c \in erred : Joined(c)
               PROVE  \E c \in Flow : haveError[c]
    BY DEF FailureExplained
  <2>1. PICK c \in erred : TRUE
    BY DEF IInv, Verdict
  <2>2. c \in Calls /\ haveError[c] /\ st[c] \in {"returned", "recorded"}
    BY <2>1 DEF IInv, ErrorsKept, TypeOK
  <2>3. ~Active(c)
    BY <2>1, <2>2 DEF IInv, AllJoined, Reported
  <2>4. c \in Flow
    BY <2>1, <2>2, <2>3 DEF IInv, Captured, Active
  <2> QED BY <2>2, <2>4
<1> QED BY <1>1, Invariant, PTL

-----------------------------------------------------------------------------
(* Refinement: what the handler waits for is a RequestReport.              *)

(* A new context is an open report of nothing. *)
LEMMA InitRefines == Init => Report!Init
<1> SUFFICES ASSUME Init PROVE Report!Init
  OBVIOUS
<1>1. JoinedDone = {}
  BY DEF Init, Range, JoinedDone
<1>2. ~Reported /\ finish = "open" /\ writers = {} /\ req.isSuccessful
  BY DEF Init, Reported
<1> QED BY <1>1, <1>2 DEF Report!Init, Report!Open, FailureSeen, ReportShown

(* What keeps the call sites, the traces, the writers and the report is a  *)
(* stutter.                                                                *)
LEMMA StutterRefines ==
  ASSUME UNCHANGED <<writers, traces, site, req>>, Reported' <=> Reported,
         finish' = "dropped" <=> finish = "dropped"
  PROVE  UNCHANGED Report!vars
<1>1. Flow' = Flow
  BY DEF Flow
<1>2. \A f : Joined(f)' <=> Joined(f)
  BY DEF Joined, AwaitedBy
<1>3. JoinedDone' = JoinedDone /\ FailureSeen' = FailureSeen
  BY <1>2 DEF JoinedDone, FailureSeen
<1>4. {c \in Flow : Joined(c)}' = {c \in Flow : Joined(c)}
  BY <1>1, <1>2
<1>5. ReportShown' = ReportShown
  BY <1>4 DEF ReportShown
<1> QED BY <1>3, <1>5 DEF Report!vars

(* A report holds only calls that have been recorded, and its verdict is   *)
(* that of New until Finish reads it.                                      *)
ReportInv ==
  /\ Reported => Flow \subseteq Range(traces)
  /\ finish \in {"open", "unwind"} => req.isSuccessful

(* Every step keeps that. *)
LEMMA ReportInvKept == IInv /\ ReportInv /\ [Next]_vars => ReportInv'
<1> SUFFICES ASSUME IInv, ReportInv, [Next]_vars PROVE ReportInv'
  OBVIOUS
<1> TypeOK
  BY DEF IInv
<1>1. ASSUME UNCHANGED <<finish, req, traces>> PROVE ReportInv'
  BY <1>1 DEF ReportInv, Reported, Flow
<1>2. ASSUME NEW c \in Calls, Record(c) PROVE ReportInv'
  <2>1. Range(traces) \subseteq Range(traces)'
    BY <1>2, AppendTrace DEF Record, TypeOK
  <2> QED BY <1>2, <2>1 DEF Record, ReportInv, Reported, Flow
<1>3. ASSUME NEW c \in Calls, PanicInHandler(c) PROVE ReportInv'
  <2>1. Active(c) /\ site[c].goroutine = Handler
    BY <1>3, CallIsNotHandler DEF PanicInHandler, Executing, Active
  <2>2. finish = "open"
    BY <2>1, CallIsNotHandler DEF IInv, HandlerStack, Blocked, Started, Active
  <2> QED BY <1>3, <2>2 DEF PanicInHandler, ReportInv, Reported
<1>4. CASE FinishNoClient \/ FinishRead
  BY <1>4 DEF FinishNoClient, FinishRead, Finishing, ReportInv, Reported
<1>5. CASE FinishSnapshot
  <2>1. traces' = traces /\ req'.executionFlow = traces /\ finish' = "pushing"
    BY <1>5 DEF FinishSnapshot, TypeOK
  <2> QED BY <2>1 DEF ReportInv, Flow
<1>6. CASE Deliver \/ PushFails
  BY <1>6 DEF Deliver, PushFails, Push, ReportInv, Reported, Flow
<1> QED
  BY <1>1, <1>2, <1>3, <1>4, <1>5, <1>6
     DEF Next, vars, Trace, TraceChild, TraceParallel, GoTrace, Start, MarkFailed,
         LogError, Return, PanicElsewhere

(* Starting calls changes the site of none that the report is about.       *)
LEMMA StartRefines ==
  ASSUME IInv, ReportInv, NEW f \in Frames, NEW S \in SUBSET Calls,
         NEW mode \in {"seq", "par", "det"},
         NEW parent \in ParentNames \union {NoName},
         Start(f, S, mode, parent)
  PROVE  UNCHANGED Report!vars
<1>inv. TypeOK /\ RecordedInTraces /\ ErrorsKept /\ AllJoined
  BY DEF IInv
<1>1. /\ UNCHANGED <<writers, traces, req, finish>>
      /\ \A c \in S : st[c] = "idle"
      /\ \A c \in Calls \ S : site'[c] = site[c]
  BY <1>inv DEF Start, TypeOK
<1>2. ASSUME NEW c \in Calls \union {Handler}, c = Handler \/ Started(c)
      PROVE  Joined(c)' <=> Joined(c)
  BY <1>1, <1>2 DEF Joined, AwaitedBy, Started
<1>3. \A c \in Range(traces) : c \in Calls /\ st[c] = "recorded"
  <2>1. Range(traces) \subseteq Calls
    BY <1>inv DEF TypeOK, Range
  <2> QED BY <2>1, <1>inv DEF RecordedInTraces
<1>4. JoinedDone' = JoinedDone
  <2>1. \A c \in Range(traces) : Joined(c)' <=> Joined(c)
    BY <1>2, <1>3 DEF Started
  <2> QED BY <1>1, <2>1 DEF JoinedDone
<1>5. FailureSeen' = FailureSeen
  <2>1. \A g \in writers : g = Handler \/ (g \in Calls /\ Started(g))
    BY <1>inv DEF ErrorsKept, TypeOK, Frames
  <2>2. \A g \in writers : Joined(g)' <=> Joined(g)
    BY <1>2, <2>1
  <2> QED BY <1>1, <2>2 DEF FailureSeen
<1>6. ReportShown' = ReportShown
  <2>1. Reported' = Reported /\ Flow' = Flow
    BY <1>1 DEF Reported, Flow
  <2>2. CASE Reported
    <3>1. \A c \in Flow : Joined(c)' <=> Joined(c)
      BY <2>2, <1>2, <1>3 DEF ReportInv, Started
    <3>2. {c \in Flow : Joined(c)}' = {c \in Flow : Joined(c)}
      BY <2>1, <3>1
    <3> QED BY <1>1, <2>1, <3>2 DEF ReportShown
  <2>3. CASE ~Reported
    BY <1>1, <2>1, <2>3 DEF ReportShown
  <2> QED BY <2>2, <2>3
<1> QED BY <1>4, <1>5, <1>6 DEF Report!vars

(* Every step of the request is a step of RequestReport or changes nothing *)
(* it sees.                                                                *)
LEMMA StepRefines ==
  ASSUME IInv, ReportInv, [Next]_vars
  PROVE  [Report!Next]_Report!vars
<1>inv. TypeOK /\ AllJoined /\ ErrorsKept /\ Verdict /\ RecordedInTraces
  BY DEF IInv
<1>open. ASSUME finish \in {"open", "unwind", "read"}
         PROVE  ~Reported /\ ReportShown = Report!Open
  <2>1. ~Reported /\ finish # "dropped"
    BY <1>open DEF Reported
  <2> QED BY <2>1 DEF Report!Open, ReportShown
<1>joined. ASSUME UNCHANGED site
           PROVE  \A f : Joined(f)' <=> Joined(f)
  BY <1>joined DEF Joined, AwaitedBy
<1>frames. \A c \in Calls : c \in Frames /\ c # Handler
  BY CallIsNotHandler DEF Frames
<1>1. ASSUME NEW c \in Calls, Active(c), Joined(c) PROVE finish = "open"
  BY <1>1, <1>inv DEF AllJoined
<1>2. ASSUME NEW f \in Frames, NEW c \in Calls,
             Trace(f, c) \/ TraceChild(f, c) \/ GoTrace(f, c)
      PROVE  UNCHANGED Report!vars
  BY <1>2, StartRefines DEF Trace, TraceChild, GoTrace
<1>3. ASSUME NEW f \in Frames, NEW S \in SUBSET Calls, TraceParallel(f, S)
      PROVE  UNCHANGED Report!vars
  BY <1>3, StartRefines DEF TraceParallel
<1>fail. ASSUME NEW f \in Frames, writers' = writers \union {f},
                UNCHANGED <<site, traces, finish, req>>,
                (f = Handler /\ finish = "open") \/ (f \in Calls /\ Active(f))
         PROVE  Report!Fail \/ UNCHANGED Report!vars
  <2>1. JoinedDone' = JoinedDone /\ Flow' = Flow /\ (Reported' <=> Reported)
    BY <1>fail, <1>joined DEF JoinedDone, Flow, Reported
  <2>2. ReportShown' = ReportShown
    <3>1. {c \in Flow : Joined(c)}' = {c \in Flow : Joined(c)}
      BY <2>1, <1>fail, <1>joined
    <3> QED BY <2>1, <3>1, <1>fail DEF ReportShown
  <2>3. CASE Joined(f)
    <3>1. finish = "open"
      BY <2>3, <1>1, <1>fail
    <3>2. FailureSeen'
      BY <2>3, <1>fail, <1>joined DEF FailureSeen
    <3> QED BY <2>1, <2>2, <3>1, <3>2, <1>open DEF Report!Fail
  <2>4. CASE ~Joined(f)
    <3>1. FailureSeen' = FailureSeen
      BY <2>4, <1>fail, <1>joined DEF FailureSeen
    <3> QED BY <2>1, <2>2, <3>1 DEF Report!vars
  <2> QED BY <2>3, <2>4
<1>4. ASSUME NEW f \in Frames, MarkFailed(f)
      PROVE  Report!Fail \/ UNCHANGED Report!vars
  <2>1. writers' = writers \union {f} /\ UNCHANGED <<site, traces, finish, req>>
    BY <1>4 DEF MarkFailed
  <2>2. (f = Handler /\ finish = "open") \/ (f \in Calls /\ Active(f))
    BY <1>4 DEF MarkFailed, Executing, Active
  <2> QED BY <2>1, <2>2, <1>fail
<1>5. ASSUME NEW c \in Calls, NEW err \in BOOLEAN, Return(c, err)
      PROVE  Report!Fail \/ UNCHANGED Report!vars
  <2>1. UNCHANGED <<site, traces, finish, req>> /\ Active(c)
    BY <1>5, <1>frames DEF Return, Executing, Active
  <2>2. CASE err
    BY <1>5, <2>1, <2>2, <1>fail, <1>frames DEF Return
  <2>3. CASE ~err
    BY <1>5, <2>1, <2>3, StutterRefines DEF Return, Reported
  <2> QED BY <2>2, <2>3
<1>6. ASSUME NEW c \in Calls, Record(c)
      PROVE  Report!Complete(c) \/ UNCHANGED Report!vars
  <2>1. /\ UNCHANGED <<site, writers, finish, req>> /\ Active(c)
        /\ traces' = Append(traces, c)
    BY <1>6 DEF Record, Active
  <2>2. Range(traces)' = Range(traces) \union {c} /\ c \notin Range(traces)
    BY <1>6, <2>1, <1>inv, AppendTrace DEF Record, RecordedInTraces, TypeOK
  <2>3. FailureSeen' = FailureSeen
    BY <2>1, <1>joined DEF FailureSeen
  <2>4. ReportShown' = ReportShown
    <3>1. {d \in Flow : Joined(d)}' = {d \in Flow : Joined(d)}
      BY <2>1, <1>joined DEF Flow
    <3>2. Reported' <=> Reported
      BY <2>1 DEF Reported
    <3> QED BY <2>1, <3>1, <3>2 DEF ReportShown
  <2>5. CASE Joined(c)
    <3>1. finish = "open"
      BY <2>1, <2>5, <1>1
    <3>2. JoinedDone' = JoinedDone \union {c} /\ c \notin JoinedDone
      BY <2>1, <2>2, <2>5, <1>joined DEF JoinedDone
    <3> QED BY <2>3, <2>4, <3>1, <3>2, <1>open DEF Report!Complete
  <2>6. CASE ~Joined(c)
    <3>1. JoinedDone' = JoinedDone
      BY <2>1, <2>2, <2>6, <1>joined DEF JoinedDone
    <3> QED BY <2>3, <2>4, <3>1 DEF Report!vars
  <2> QED BY <2>5, <2>6
<1>7. ASSUME NEW c \in Calls, PanicInHandler(c) PROVE UNCHANGED Report!vars
  <2>1. Active(c) /\ site[c].goroutine = Handler /\ finish' = "unwind"
        /\ UNCHANGED <<site, traces, writers, req>>
    BY <1>7, <1>frames DEF PanicInHandler, Executing, Active
  <2>2. finish = "open"
    BY <2>1, <1>1 DEF IInv, HandlerStack, Joined, Started, Active
  <2> QED BY <2>1, <2>2, StutterRefines DEF Reported
<1>8. ASSUME NEW c \in Calls, LogError(c) \/ PanicElsewhere(c)
      PROVE  UNCHANGED Report!vars
  BY <1>8, StutterRefines DEF LogError, PanicElsewhere, Reported
<1>9. CASE FinishNoClient
  <2>1. finish \in {"open", "unwind"} /\ finish' = "dropped"
        /\ UNCHANGED <<site, traces, writers, req>>
    BY <1>9 DEF FinishNoClient, Finishing
  <2>2. JoinedDone' = JoinedDone /\ FailureSeen' = FailureSeen
    BY <2>1, <1>joined DEF JoinedDone, FailureSeen
  <2>3. ReportShown' = [status |-> "dropped", successful |-> TRUE, flow |-> {}]
    BY <2>1 DEF ReportShown, Reported
  <2>4. ReportShown = Report!Open
    BY <2>1, <1>open
  <2> QED BY <2>2, <2>3, <2>4 DEF Report!Drop, Report!Next
<1>10. CASE FinishRead
  <2>1. PICK seen \in SUBSET writers :
          /\ {f \in writers : Joined(f)} \subseteq seen
          /\ req' = [req EXCEPT !.isSuccessful = (seen = {})]
    BY <1>10 DEF FinishRead
  <2>2. finish \in {"open", "unwind"} /\ finish' = "read"
        /\ UNCHANGED <<site, traces, writers>>
    BY <1>10 DEF FinishRead, Finishing
  <2>3. JoinedDone' = JoinedDone
    BY <2>2, <1>joined DEF JoinedDone
  <2>4. ReportShown' = ReportShown
    BY <2>2, <1>open DEF ReportShown, Reported, Report!Open
  <2>5. req'.isSuccessful <=> seen = {}
    BY <2>1, <1>inv DEF TypeOK
  <2>6. CASE FailureSeen'
    BY <2>2, <2>3, <2>4, <2>6, <1>open DEF Report!Fail, Report!Next
  <2>7. CASE ~FailureSeen'
    <3>1. ~FailureSeen
      BY <2>2, <2>7, <1>joined DEF FailureSeen, ReportInv
    <3>2. FailureSeen' = FailureSeen
      BY <2>7, <3>1 DEF FailureSeen
    <3> QED BY <2>3, <2>4, <3>2 DEF Report!vars
  <2> QED BY <2>6, <2>7
<1>11. CASE FinishSnapshot
  <2>1. /\ finish = "read" /\ finish' = "pushing"
        /\ req' = [req EXCEPT !.executionFlow = traces]
        /\ UNCHANGED <<site, traces, writers>>
    BY <1>11 DEF FinishSnapshot
  <2>2. /\ req'.isSuccessful = req.isSuccessful /\ req'.executionFlow = traces
        /\ req.isSuccessful \in BOOLEAN
    BY <2>1, <1>inv DEF TypeOK
  <2>3. req.isSuccessful <=> ~FailureSeen
    BY <2>1, <1>inv DEF Verdict, ErrorsKept, FailureSeen
  <2>4. JoinedDone' = JoinedDone /\ FailureSeen' = FailureSeen
    BY <2>1, <2>2, <1>joined DEF JoinedDone, FailureSeen
  <2>5. {c \in Flow : Joined(c)}' = JoinedDone
    BY <2>1, <2>2, <1>joined DEF Flow, JoinedDone
  <2>6. ReportShown' = [status |-> "published", successful |-> ~FailureSeen,
                        flow |-> JoinedDone]
    <3>1. Reported'
      BY <2>1 DEF Reported
    <3>2. (~Reported \/ req.isSuccessful)' = ~FailureSeen
      BY <3>1, <2>2, <2>3 DEF FailureSeen
    <3> QED BY <2>5, <3>1, <3>2 DEF ReportShown
  <2> QED BY <2>1, <2>4, <2>6, <1>open DEF Report!Publish, Report!Next
<1>12. CASE Deliver \/ PushFails
  BY <1>12, StutterRefines DEF Deliver, PushFails, Push, Reported
<1>13. CASE UNCHANGED vars
  BY <1>13, StutterRefines DEF vars, Reported
<1> QED
  BY <1>2, <1>3, <1>4, <1>5, <1>6, <1>7, <1>8, <1>9, <1>10, <1>11, <1>12,
     <1>13 DEF Next, Report!Next

(* Whatever goroutines a service lets go of, the report is one atomic      *)
(* picture of what the handler waited for, taken when nothing of that can  *)
(* change any more.                                                        *)
THEOREM ReportIsAtomic == Spec => Implements
<1>1. Init => ReportInv
  BY DEF Init, ReportInv, Reported
<1>2. IInv /\ ReportInv /\ [Next]_vars => [Report!Next]_Report!vars
  BY StepRefines
<1> QED
  BY <1>1, <1>2, ReportInvKept, InitRefines, Invariant, PTL
     DEF Spec, Implements, Report!Spec

-----------------------------------------------------------------------------
(* Nobody waits for ever. *)

(* Numbers that have a bound have a greatest: the numbers from it up to    *)
(* the bound are in those from any other.                                  *)
LEMMA GreatestNumber ==
  ASSUME NEW T \in SUBSET Nat, T # {}, NEW n \in Nat, \A k \in T : k <= n
  PROVE  \E k \in T : \A j \in T : j <= k
<1> DEFINE Finals == {k..n : k \in T}
<1>1. Finals \subseteq FiniteSubsetsOf(Nat) /\ Finals # {}
  <2>1. \A k \in T : IsFiniteSet(k..n) /\ k..n \in SUBSET Nat
    BY FS_Interval
  <2> QED BY <2>1 DEF FiniteSubsetsOf
<1>2. \E x \in Finals : \A y \in Finals : <<y, x>> \notin StrictSubsetOrdering(Nat)
  <2> HIDE DEF Finals
  <2> QED BY <1>1, FS_StrictSubsetOrderingWellFounded, WFMin
<1>3. PICK k \in T : \A j \in T : <<j..n, k..n>> \notin StrictSubsetOrdering(Nat)
  BY <1>2
<1>4. ASSUME NEW j \in T PROVE j <= k
  <2> SUFFICES ASSUME k < j PROVE FALSE
    OBVIOUS
  <2>1. j..n \subseteq k..n /\ j..n # k..n
    <3>1. k \in k..n /\ k \notin j..n
      OBVIOUS
    <3> QED BY <3>1
  <2>2. j..n \in SUBSET Nat /\ k..n \in SUBSET Nat
    OBVIOUS
  <2> QED BY <1>3, <2>1, <2>2 DEF StrictSubsetOrdering
<1> QED BY <1>4

(* Sites stay as they are made. *)
LEMMA CallersAwaitKept == TypeOK /\ CallersAwait /\ [Next]_vars => CallersAwait'
<1> SUFFICES ASSUME TypeOK, CallersAwait, [Next]_vars PROVE CallersAwait'
  OBVIOUS
<1>1. ASSUME NEW f \in Frames, NEW S \in SUBSET Calls, NEW mode \in {"seq", "par", "det"},
             NEW parent, Start(f, S, mode, parent)
      PROVE  CallersAwait'
  <2> SUFFICES ASSUME NEW c \in Calls, Started(c)', site'[c].mode # "det"
               PROVE  site'[c].caller \in site'[c].awaitedBy
    BY CallIsNotHandler DEF CallersAwait, AwaitedBy
  <2>1. CASE c \in S
    BY <1>1, <2>1 DEF Start
  <2>2. CASE c \notin S
    <3>1. site'[c] = site[c] /\ st'[c] = st[c]
      BY <1>1, <2>2 DEF Start
    <3> QED BY <3>1, AwaitedByCall DEF CallersAwait, Started
  <2> QED BY <2>1, <2>2
<1>2. ASSUME UNCHANGED site, \A c \in Calls : Started(c)' => Started(c)
      PROVE  CallersAwait'
  BY <1>2 DEF CallersAwait, AwaitedBy
<1>3. ASSUME NEW f \in Frames, NEW c \in Calls, Trace(f, c) \/ TraceChild(f, c) \/ GoTrace(f, c)
      PROVE  CallersAwait'
  BY <1>1, <1>3 DEF Trace, TraceChild, GoTrace
<1>4. ASSUME NEW f \in Frames, NEW S \in SUBSET Calls, TraceParallel(f, S)
      PROVE  CallersAwait'
  BY <1>1, <1>4 DEF TraceParallel
<1>5. ASSUME NEW c \in Calls, NEW err \in BOOLEAN, Return(c, err) \/ Record(c)
      PROVE  CallersAwait'
  <2>1. st[c] # "idle"
    BY <1>5, CallIsNotHandler DEF Return, Record, Executing
  <2> QED BY <1>2, <1>5, <2>1 DEF Return, Record, Started, TypeOK
<1>6. ASSUME NEW c \in Calls, PanicInHandler(c) PROVE CallersAwait'
  BY <1>2, <1>6 DEF PanicInHandler, Started
<1>7. ASSUME UNCHANGED <<st, site>> PROVE CallersAwait'
  BY <1>2, <1>7 DEF Started
<1> QED BY <1>3, <1>4, <1>5, <1>6, <1>7
        DEF Next, MarkFailed, LogError, PanicElsewhere, FinishNoClient, FinishRead,
            FinishSnapshot, Deliver, PushFails, Push, vars

(* Of the active calls a frame waits for, the one with the greatest index  *)
(* waits for none: what it waited for would have a greater one.            *)
LEMMA LastCallProceeds ==
  ASSUME IInv, CallersAwait, ~crashed, NEW f \in Frames, Waits(f)
  PROVE  \E d \in Calls : f \in AwaitedBy(d) /\ (st[d] = "returned" \/ Executing(d))
<1> DEFINE below == {d \in Calls : Active(d) /\ f \in AwaitedBy(d)}
           indices == {site[d].index : d \in below}
<1>1. \A d \in Calls : Active(d) => /\ Started(d) /\ site[d].index \in Nat
                                    /\ site[d].index <= indexCounter
  BY DEF Active, Started, IInv, CallersStarted, TypeOK, Site
<1>2. below # {}
  <2>1. PICK c \in Calls : Active(c) /\ site[c].caller = f /\ site[c].mode # "det"
    BY DEF Waits
  <2> QED BY <1>1, <2>1 DEF CallersAwait
<1>3. indices \in SUBSET Nat /\ indices # {} /\ indexCounter \in Nat
      /\ \A k \in indices : k <= indexCounter
  BY <1>1, <1>2 DEF IInv, TypeOK
<1>4. PICK k \in indices : \A j \in indices : j <= k
  <2> HIDE DEF indices
  <2> QED BY <1>3, GreatestNumber
<1>5. PICK d \in below : \A e \in below : site[e].index <= site[d].index
  BY <1>4
<1>6. ~Waits(d)
  <2> SUFFICES ASSUME NEW e \in Calls, Active(e), site[e].caller = d, site[e].mode # "det"
               PROVE  FALSE
    BY DEF Waits
  <2>1. d \in AwaitedBy(e)
    BY <1>1 DEF CallersAwait
  <2>2. f \in AwaitedBy(e)
    BY <1>1, <2>1, CallIsNotHandler DEF IInv, AwaitedNests
  <2>3. site[d].index < site[e].index
    BY <1>1 DEF IInv, IndexOrder
  <2> QED BY <1>1, <1>5, <2>2, <2>3
<1> QED BY <1>5, <1>6 DEF Active, Executing

(* Callers await what they joined, in every reachable state. *)
LEMMA AwaitInvariant == Spec => [](IInv /\ CallersAwait)
<1>1. Init => CallersAwait
  BY DEF Init, CallersAwait, Started
<1>2. IInv => TypeOK
  BY DEF IInv
<1> QED BY <1>1, <1>2, CallersAwaitKept, Invariant, PTL DEF Spec

(* The wait for a nested Trace or for the goroutines of TraceParallel is   *)
(* never a deadlock: however many calls wait for each other, some call in  *)
(* what is awaited can return or be recorded.                              *)
THEOREM NoWaitIsDead == Spec => []WaitsForProgress
<1>1. IInv /\ CallersAwait => WaitsForProgress
  BY LastCallProceeds DEF WaitsForProgress
<1> QED BY <1>1, AwaitInvariant, PTL

(* Until its report is dropped or its push has ended, a request in a live  *)
(* process always has something to do that waits for nothing: Finish goes  *)
(* on, or a call that the handler awaits returns or is recorded.           *)
THEOREM RequestNeverStalls == Spec => []SomeoneProceeds
<1>1. IInv /\ CallersAwait => SomeoneProceeds
  <2> SUFFICES ASSUME IInv, CallersAwait, ~crashed, finish \in {"open", "unwind"}, Waits(Handler)
               PROVE  \E d \in Calls : /\ Handler \in AwaitedBy(d)
                                       /\ st[d] = "returned" \/ Executing(d)
    BY DEF SomeoneProceeds, Finishing, IInv, TypeOK
  <2> QED BY LastCallProceeds DEF Frames
<1> QED BY <1>1, AwaitInvariant, PTL
=============================================================================
