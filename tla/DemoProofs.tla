------------------------------- MODULE DemoProofs -------------------------------
(***************************************************************************)
(* Proofs about DemoServices and DemoGraph, for any services, users and    *)
(* handlers that call each other without coming back to an endpoint, any   *)
(* crashes, and any selections of the services.                            *)
(***************************************************************************)
EXTENDS DemoGraph, FiniteSetTheorems, WellFoundedInduction, TLAPS

(* A report is taken by Finish alone, after all calls, and the answer is   *)
(* sent after that.                                                        *)
AnswerAfterReport ==
  /\ \A q \in Requests : stat[q] \in {"finished", "answered"} => Taken(q)
  /\ \A q \in Requests : Taken(q) =>
       Over(q) /\ stat[q] \in {"finished", "answered", "dead"}

IInv == TypeOK /\ AnswerAfterReport /\ RemoteErrorIsLoss /\ CalleesReportFirst

(* A call's request is one that may be made, and a function's name tells   *)
(* which call of its request it is.                                        *)
LEMMA MadeRequests ==
  /\ \A u \in Users : <<u, u>> \in Requests
  /\ \A q \in Requests : \A c \in CallsOf(q) : IsRemote(c) => Child(q, c) \in Requests
  /\ \A q \in Requests : \A c, d \in CallsOf(q) : c.fn = d.fn => c = d
  /\ \A q \in Requests : \A c \in CallsOf(q) : c.fn \in FunctionsOf(q)
BY ScriptAssumption DEF FunctionsOf

(* Requests under way change nothing that the others rest on. *)
LEMMA RequestMoves ==
  ASSUME IInv, TypeOK', NEW p \in Requests, stat[p] \in {"none", "sent"},
         NEW to \in {"sent", "serving", "dead"}, stat' = [stat EXCEPT ![p] = to],
         UNCHANGED <<done, erred, report>>
  PROVE  IInv'
<1>1. TypeOK /\ AnswerAfterReport /\ RemoteErrorIsLoss /\ CalleesReportFirst
  BY DEF IInv
<1>2. \A q \in Requests : stat'[q] = IF q = p THEN to ELSE stat[q]
  BY <1>1 DEF TypeOK
<1>3. AnswerAfterReport'
  BY <1>1, <1>2 DEF AnswerAfterReport, Taken, Over
<1>4. RemoteErrorIsLoss'
  <2> SUFFICES ASSUME NEW q \in Requests, NEW c \in CallsOf(q), IsRemote(c), c.fn \in done[q]
               PROVE  stat'[Child(q, c)] = IF c.fn \in erred[q] THEN "dead" ELSE "answered"
    BY DEF RemoteErrorIsLoss
  <2>1. stat[Child(q, c)] = IF c.fn \in erred[q] THEN "dead" ELSE "answered"
    BY <1>1 DEF RemoteErrorIsLoss
  <2>2. Child(q, c) # p
    BY <2>1
  <2> QED BY <1>2, <2>1, <2>2, MadeRequests
<1>5. CalleesReportFirst'
  BY <1>1 DEF CalleesReportFirst, Taken
<1> QED BY <1>3, <1>4, <1>5 DEF IInv

(* A call gets its trace while its request is served, and with the error   *)
(* its end says.                                                           *)
LEMMA TraceKeepsInvariant ==
  ASSUME IInv, TypeOK', NEW p \in Requests, NEW d \in CallsOf(p), NEW err \in BOOLEAN,
         Makes(p, d), Traced(p, d, err), UNCHANGED <<stat, report>>,
         IsRemote(d) => stat[Child(p, d)] = IF err THEN "dead" ELSE "answered"
  PROVE  IInv'
<1>1. TypeOK /\ AnswerAfterReport /\ RemoteErrorIsLoss /\ CalleesReportFirst
  BY DEF IInv
<1>2. d.fn \notin done[p] /\ d.fn \notin erred[p] /\ d.fn \in FunctionsOf(p)
  BY <1>1, MadeRequests DEF Makes, TypeOK
<1>3. ~Taken(p)
  BY <1>1, <1>2 DEF AnswerAfterReport, Over
<1>4. /\ \A q \in Requests : q # p => done'[q] = done[q] /\ erred'[q] = erred[q]
      /\ \A fn : fn \in done'[p] => fn \in done[p] \/ fn = d.fn
      /\ \A fn : fn # d.fn => (fn \in erred'[p] <=> fn \in erred[p])
      /\ d.fn \in erred'[p] <=> err
  BY <1>1, <1>2 DEF Traced, TypeOK
<1>5. AnswerAfterReport'
  BY <1>1, <1>3, <1>4 DEF AnswerAfterReport, Taken, Over
<1>6. RemoteErrorIsLoss'
  <2> SUFFICES ASSUME NEW q \in Requests, NEW c \in CallsOf(q), IsRemote(c), c.fn \in done'[q]
               PROVE  stat'[Child(q, c)] = IF c.fn \in erred'[q] THEN "dead" ELSE "answered"
    BY DEF RemoteErrorIsLoss
  <2>1. CASE q = p /\ c.fn = d.fn
    <3>1. c = d
      BY <2>1, MadeRequests
    <3> QED BY <1>4, <2>1, <3>1
  <2>2. CASE ~(q = p /\ c.fn = d.fn)
    <3>1. c.fn \in done[q] /\ (c.fn \in erred'[q] <=> c.fn \in erred[q])
      BY <1>4, <2>2
    <3>2. stat[Child(q, c)] = IF c.fn \in erred[q] THEN "dead" ELSE "answered"
      BY <1>1, <3>1 DEF RemoteErrorIsLoss
    <3> QED BY <3>1, <3>2
  <2> QED BY <2>1, <2>2
<1>7. CalleesReportFirst'
  BY <1>1, <1>3, <1>4 DEF CalleesReportFirst, Taken
<1> QED BY <1>5, <1>6, <1>7 DEF IInv

(* When the report is taken every request made for it has ended, so those  *)
(* that are no errors were answered, after their reports.                  *)
LEMMA FinishKeepsInvariant ==
  ASSUME IInv, TypeOK', NEW p \in Requests, Finish(p)
  PROVE  IInv'
<1>1. TypeOK /\ AnswerAfterReport /\ RemoteErrorIsLoss /\ CalleesReportFirst
  BY DEF IInv
<1>2. /\ stat[p] = "serving" /\ Over(p)
      /\ \A q \in Requests : stat'[q] = IF q = p THEN "finished" ELSE stat[q]
      /\ \A q \in Requests : report'[q] = IF q = p THEN "pushing" ELSE report[q]
      /\ UNCHANGED <<done, erred>>
  BY <1>1 DEF Finish, TypeOK
<1>3. AnswerAfterReport'
  BY <1>1, <1>2 DEF AnswerAfterReport, Taken, Over
<1>4. RemoteErrorIsLoss'
  <2> SUFFICES ASSUME NEW q \in Requests, NEW c \in CallsOf(q), IsRemote(c), c.fn \in done[q]
               PROVE  stat'[Child(q, c)] = IF c.fn \in erred[q] THEN "dead" ELSE "answered"
    BY <1>2 DEF RemoteErrorIsLoss
  <2>1. stat[Child(q, c)] = IF c.fn \in erred[q] THEN "dead" ELSE "answered"
    BY <1>1 DEF RemoteErrorIsLoss
  <2> QED BY <1>2, <2>1, MadeRequests
<1>5. CalleesReportFirst'
  <2> SUFFICES ASSUME NEW q \in Requests, Taken(q)', NEW c \in CallsOf(q), IsRemote(c),
                      c.fn \notin erred[q]
               PROVE  Taken(Child(q, c))'
    BY <1>2 DEF CalleesReportFirst
  <2>1. Taken(Child(q, c))
    <3>1. CASE q = p
      <4>1. c.fn \in done[q]
        BY <1>2, <3>1, MadeRequests DEF Over
      <4>2. stat[Child(q, c)] = "answered"
        BY <1>1, <4>1 DEF RemoteErrorIsLoss
      <4> QED BY <1>1, <4>2, MadeRequests DEF AnswerAfterReport
    <3>2. CASE q # p
      BY <1>1, <1>2, <3>2 DEF CalleesReportFirst, Taken
    <3> QED BY <3>1, <3>2
  <2> QED BY <1>2, <2>1, MadeRequests DEF Taken
<1> QED BY <1>3, <1>4, <1>5 DEF IInv

(* After that, answers, pushes and crashes leave the reports taken.        *)
LEMMA AfterwardsKeepsInvariant ==
  ASSUME IInv, TypeOK', UNCHANGED <<done, erred>>,
         \A q \in Requests : stat'[q] = stat[q] \/ (stat[q] = "finished" /\ stat'[q] = "answered")
                                                \/ (~Ended(q) /\ stat'[q] = "dead"),
         \A q \in Requests : Taken(q)' <=> Taken(q)
  PROVE  IInv'
<1>1. TypeOK /\ AnswerAfterReport /\ RemoteErrorIsLoss /\ CalleesReportFirst
  BY DEF IInv
<1>2. AnswerAfterReport'
  BY <1>1 DEF AnswerAfterReport, Over
<1>3. RemoteErrorIsLoss'
  <2> SUFFICES ASSUME NEW q \in Requests, NEW c \in CallsOf(q), IsRemote(c), c.fn \in done[q]
               PROVE  stat'[Child(q, c)] = IF c.fn \in erred[q] THEN "dead" ELSE "answered"
    BY DEF RemoteErrorIsLoss
  <2>1. stat[Child(q, c)] = IF c.fn \in erred[q] THEN "dead" ELSE "answered"
    BY <1>1 DEF RemoteErrorIsLoss
  <2>2. Child(q, c) \in Requests
    BY MadeRequests
  <2> QED BY <2>1, <2>2 DEF Ended
<1>4. CalleesReportFirst'
  BY <1>1, MadeRequests DEF CalleesReportFirst
<1> QED BY <1>2, <1>3, <1>4 DEF IInv

-----------------------------------------------------------------------------
(* Type correctness. *)

LEMMA StepKeepsType == TypeOK /\ [Next]_vars => TypeOK'
<1> SUFFICES ASSUME TypeOK, [Next]_vars PROVE TypeOK'
  OBVIOUS
<1> USE DEF TypeOK
<1>1. ASSUME NEW s \in Services, Boot(s) \/ Crash(s) PROVE TypeOK'
  <2>1. CASE Boot(s)
    BY <2>1 DEF Boot, requestVars
  <2>2. CASE Crash(s)
    <3>1. crashes' \in 0..MaxCrashes
      BY <2>2, ScriptAssumption DEF Crash
    <3>2. stat' \in [Requests -> {"none", "sent", "serving", "finished", "answered", "dead"}]
      BY <2>2 DEF Crash
    <3>3. report' \in [Requests -> {"none", "pushing", "delivered", "lost"}]
      BY <2>2 DEF Crash
    <3> QED BY <2>2, <3>1, <3>2, <3>3 DEF Crash
  <2> QED BY <1>1, <2>1, <2>2
<1>2. ASSUME NEW u \in Users, UserCalls(u) PROVE TypeOK'
  BY <1>2, MadeRequests DEF UserCalls
<1>3. ASSUME NEW q \in Requests, Accept(q) \/ Refused(q) \/ Finish(q) \/ Answer(q) \/ Pushes(q)
      PROVE  TypeOK'
  BY <1>3 DEF Accept, Refused, Finish, Answer, Pushes, Push
<1>4. ASSUME NEW q \in Requests, NEW c \in CallsOf(q), Get(q, c) PROVE TypeOK'
  BY <1>4, MadeRequests DEF Get
<1>5. ASSUME NEW q \in Requests, NEW c \in CallsOf(q), NEW err \in BOOLEAN, Traced(q, c, err),
             UNCHANGED <<proc, crashes, stat, report>>
      PROVE  TypeOK'
  <2>1. c.fn \in FunctionsOf(q) /\ c.fn \in Functions
    BY MadeRequests DEF Functions
  <2>2. done' \in [Requests -> SUBSET Functions] /\ erred' \in [Requests -> SUBSET Functions]
    BY <1>5, <2>1 DEF Traced
  <2>3. \A p \in Requests : /\ erred'[p] \subseteq done'[p]
                            /\ done'[p] \subseteq FunctionsOf(p)
    BY <1>5, <2>1 DEF Traced
  <2> QED BY <1>5, <2>2, <2>3
<1>6. CASE UNCHANGED vars
  BY <1>6 DEF vars, requestVars
<1> HIDE DEF TypeOK
<1> QED BY <1>1, <1>2, <1>3, <1>4, <1>5, <1>6 DEF Next, Handles, EndLocal, EndRemote

-----------------------------------------------------------------------------
(* Every step keeps the invariant. *)

LEMMA StepKeepsInvariant == IInv /\ [Next]_vars => IInv'
<1> SUFFICES ASSUME IInv, [Next]_vars PROVE IInv'
  OBVIOUS
<1>1. TypeOK /\ TypeOK'
  BY StepKeepsType DEF IInv
<1>2. ASSUME NEW s \in Services, Boot(s) PROVE IInv'
  BY <1>1, <1>2, AfterwardsKeepsInvariant DEF Boot, requestVars, Taken
<1>3. ASSUME NEW s \in Services, Crash(s) PROVE IInv'
  <2>1. \A q \in Requests : stat'[q] = stat[q] \/ (~Ended(q) /\ stat'[q] = "dead")
    BY <1>3 DEF Crash, Ended
  <2>2. \A q \in Requests : Taken(q)' <=> Taken(q)
    BY <1>3 DEF Crash, Taken
  <2> QED BY <1>1, <1>3, <2>1, <2>2, AfterwardsKeepsInvariant DEF Crash
<1>4. ASSUME NEW u \in Users, UserCalls(u) PROVE IInv'
  BY <1>1, <1>4, RequestMoves, MadeRequests DEF UserCalls
<1>5. ASSUME NEW q \in Requests, Accept(q) \/ Refused(q) PROVE IInv'
  BY <1>1, <1>5, RequestMoves DEF Accept, Refused
<1>6. ASSUME NEW q \in Requests, NEW c \in CallsOf(q), Get(q, c) PROVE IInv'
  BY <1>1, <1>6, RequestMoves, MadeRequests DEF Get
<1>7. ASSUME NEW q \in Requests, NEW c \in CallsOf(q), NEW err \in BOOLEAN,
             EndLocal(q, c, err)
      PROVE  IInv'
  BY <1>1, <1>7, TraceKeepsInvariant DEF EndLocal
<1>8. ASSUME NEW q \in Requests, NEW c \in CallsOf(q), EndRemote(q, c) PROVE IInv'
  <2> DEFINE err == stat[Child(q, c)] = "dead"
  <2>1. err \in BOOLEAN /\ Makes(q, c) /\ Traced(q, c, err) /\ UNCHANGED <<stat, report>>
    BY <1>8 DEF EndRemote
  <2>2. stat[Child(q, c)] = IF err THEN "dead" ELSE "answered"
    BY <1>8 DEF EndRemote, Ended
  <2> HIDE DEF err
  <2> QED BY <1>1, <2>1, <2>2, TraceKeepsInvariant
<1>9. ASSUME NEW q \in Requests, Finish(q) PROVE IInv'
  BY <1>1, <1>9, FinishKeepsInvariant
<1>10. ASSUME NEW q \in Requests, Answer(q) \/ Pushes(q) PROVE IInv'
  <2>1. /\ \A p \in Requests : stat'[p] = stat[p] \/ (stat[p] = "finished" /\ stat'[p] = "answered")
        /\ \A p \in Requests : Taken(p)' <=> Taken(p)
        /\ UNCHANGED <<done, erred>>
    BY <1>1, <1>10 DEF Answer, Pushes, Push, Taken, TypeOK
  <2> QED BY <1>1, <2>1, AfterwardsKeepsInvariant
<1>11. CASE UNCHANGED vars
  BY <1>1, <1>11, AfterwardsKeepsInvariant DEF vars, requestVars, Taken
<1> QED BY <1>2, <1>3, <1>4, <1>5, <1>6, <1>7, <1>8, <1>9, <1>10, <1>11 DEF Next, Handles

(* So reports are taken after the calls and before the answer, always. *)
LEMMA DemoInvariant == Spec => []IInv
<1>1. Init => IInv
  BY ScriptAssumption DEF Init, IInv, TypeOK, AnswerAfterReport, RemoteErrorIsLoss,
     CalleesReportFirst, Taken
<1> QED BY <1>1, StepKeepsInvariant, PTL DEF Spec

(* The state of the services and their requests is well formed.            *)
THEOREM DemoTypeCorrect == Spec => []TypeOK
<1>1. IInv => TypeOK
  BY DEF IInv
<1> QED BY <1>1, DemoInvariant, PTL

(* A call to another service is an error exactly when it got no answer,    *)
(* wherever services die.                                                  *)
THEOREM RemoteErrorsAreLosses == Spec => []RemoteErrorIsLoss
<1>1. IInv => RemoteErrorIsLoss
  BY DEF IInv
<1> QED BY <1>1, DemoInvariant, PTL

(* Reports are taken from the innermost request outwards, however deep the *)
(* services call each other.                                               *)
THEOREM CalleesAreReported == Spec => []CalleesReportFirst
<1>1. IInv => CalleesReportFirst
  BY DEF IInv
<1> QED BY <1>1, DemoInvariant, PTL

-----------------------------------------------------------------------------
(* Nobody waits for ever. *)

(* Any numbers have a least: of their initial segments one is in no other. *)
LEMMA LeastNumber ==
  ASSUME NEW T \in SUBSET Nat, T # {}
  PROVE  \E k \in T : \A j \in T : k <= j
<1> DEFINE Initials == {0..k : k \in T}
<1>1. Initials \subseteq FiniteSubsetsOf(Nat) /\ Initials # {}
  <2>1. \A k \in T : IsFiniteSet(0..k) /\ 0..k \in SUBSET Nat
    BY FS_Interval
  <2> QED BY <2>1 DEF FiniteSubsetsOf
<1>2. \E x \in Initials : \A y \in Initials : <<y, x>> \notin StrictSubsetOrdering(Nat)
  <2> HIDE DEF Initials
  <2> QED BY <1>1, FS_StrictSubsetOrderingWellFounded, WFMin
<1>3. PICK k \in T : \A j \in T : <<0..j, 0..k>> \notin StrictSubsetOrdering(Nat)
  BY <1>2
<1>4. ASSUME NEW j \in T PROVE k <= j
  <2> SUFFICES ASSUME j < k PROVE FALSE
    OBVIOUS
  <2>1. 0..j \subseteq 0..k /\ 0..j # 0..k
    <3>1. k \in 0..k /\ k \notin 0..j
      OBVIOUS
    <3> QED BY <3>1
  <2>2. 0..j \in SUBSET Nat /\ 0..k \in SUBSET Nat
    OBVIOUS
  <2> QED BY <1>3, <2>1, <2>2 DEF StrictSubsetOrdering
<1> QED BY <1>4

(* A handler that is not over is at some step, and that step has a call    *)
(* that has not ended.                                                     *)
LEMMA HandlerIsAtStep ==
  ASSUME TypeOK, NEW q \in Requests, stat[q] = "serving", ~Over(q)
  PROVE  \E c \in CallsOf(q) : Makes(q, c)
<1> DEFINE open == {k \in DOMAIN Script[q[2]] : \E c \in Script[q[2]][k] : c.fn \notin done[q]}
<1>1. q[2] \in Endpoints /\ DOMAIN Script[q[2]] = 1..Len(Script[q[2]])
  BY ScriptAssumption
<1>2. open \in SUBSET Nat
  BY <1>1
<1>3. open # {}
  <2>1. PICK fn \in FunctionsOf(q) : fn \notin done[q]
    BY DEF TypeOK, Over
  <2>2. PICK c \in CallsOf(q) : c.fn = fn
    BY <2>1 DEF FunctionsOf
  <2> QED BY <2>1, <2>2 DEF CallsOf
<1>4. PICK k \in open : \A j \in open : k <= j
  <2> HIDE DEF open
  <2> QED BY <1>2, <1>3, LeastNumber
<1>5. PICK c \in Script[q[2]][k] : c.fn \notin done[q]
  OBVIOUS
<1>6. \A j \in 1..(k - 1) : \A d \in Script[q[2]][j] : d.fn \in done[q]
  <2> SUFFICES ASSUME NEW j \in 1..(k - 1), NEW d \in Script[q[2]][j], d.fn \notin done[q]
               PROVE  FALSE
    OBVIOUS
  <2>1. k \in 1..Len(Script[q[2]]) /\ k \in Nat
    BY <1>1
  <2>2. j \in open
    BY <1>1, <2>1
  <2> QED BY <1>4, <2>1, <2>2
<1>7. c \in CallsOf(q)
  BY <1>5 DEF CallsOf
<1> QED BY <1>5, <1>6, <1>7 DEF Makes

(* Of the user's requests that are being served, take one whose handler    *)
(* gets none of the endpoints of the others: it waits for none.            *)
LEMMA SomeoneIsFree == ASSUME TypeOK, NoRings PROVE SomeoneGoesOn
<1> SUFFICES ASSUME NEW u \in Users, NEW q \in Requests, q[1] = u, Unfinished(q)
             PROVE  \E p \in Requests : p[1] = u /\ CanGoOn(p)
  BY DEF SomeoneGoesOn
<1> DEFINE served == {ep \in Endpoints : <<u, ep>> \in Requests /\ stat[<<u, ep>>] = "serving"}
<1>1. CASE stat[q] # "serving"
  BY <1>1 DEF Unfinished, CanGoOn
<1>2. CASE stat[q] = "serving"
  <2>1. q = <<u, q[2]>> /\ q[2] \in served
    BY <1>2, ScriptAssumption
  <2>2. PICK ep \in served : \A k \in DOMAIN Script[ep] : \A c \in Script[ep][k] :
          IsRemote(c) => c.target \notin served
    <3>1. served \in SUBSET Endpoints /\ served # {}
      BY <2>1
    <3> HIDE DEF served
    <3> QED BY <3>1 DEF NoRings
  <2> DEFINE p == <<u, ep>>
  <2>3. p \in Requests /\ stat[p] = "serving" /\ p[1] = u /\ p[2] = ep
    OBVIOUS
  <2> HIDE DEF p
  <2>4. CASE Over(p)
    BY <2>3, <2>4 DEF CanGoOn
  <2>5. CASE ~Over(p)
    <3>1. PICK c \in CallsOf(p) : Makes(p, c)
      BY <2>3, <2>5, HandlerIsAtStep
    <3>2. CASE ~IsRemote(c)
      BY <2>3, <3>1, <3>2 DEF CanGoOn
    <3>3. CASE IsRemote(c)
      <4>1. Child(p, c) \in Requests /\ Child(p, c) = <<u, c.target>> /\ c.target \in Endpoints
        BY <2>3, <3>3, ScriptAssumption DEF Child
      <4>2. c.target \notin served
        BY <2>2, <2>3, <3>3 DEF CallsOf
      <4>3. stat[Child(p, c)] # "serving"
        BY <4>1, <4>2
      <4>4. CASE stat[Child(p, c)] = "none" \/ Ended(Child(p, c))
        BY <2>3, <3>1, <4>4 DEF CanGoOn
      <4>5. CASE stat[Child(p, c)] \in {"sent", "finished"}
        <5>1. Child(p, c)[1] = u
          BY <4>1
        <5> QED BY <4>1, <4>5, <5>1 DEF CanGoOn
      <4> QED BY <4>1, <4>3, <4>4, <4>5 DEF TypeOK, Ended
    <3> QED BY <3>2, <3>3
  <2> QED BY <2>4, <2>5
<1> QED BY <1>1, <1>2

(* Services that call each other in a ring, without timeouts, never all    *)
(* wait for each other, if no handler leads back to its own endpoint.      *)
THEOREM NobodyIsStuck == ASSUME NoRings PROVE Spec => []SomeoneGoesOn
<1>1. TypeOK => SomeoneGoesOn
  BY SomeoneIsFree
<1> QED BY <1>1, DemoTypeCorrect, PTL

-----------------------------------------------------------------------------
(* The graph that is drawn of the reports. *)

(* A report that has arrived holds all the calls of its request. *)
LEMMA ReportedIsWhole ==
  ASSUME IInv, NEW s, NEW q \in Reports(s), NEW c \in CallsOf(q)
  PROVE  q \in Requests /\ ServiceOf(q) = s /\ c \in ReportedCalls(s)
<1>1. q \in Requests /\ ServiceOf(q) = s /\ Taken(q)
  BY DEF Reports, Taken
<1>2. c.fn \in done[q]
  BY <1>1 DEF IInv, AnswerAfterReport, Over, FunctionsOf
<1> QED BY <1>1, <1>2 DEF ReportedCalls

(* A call in a service's reports is of one of them. *)
LEMMA ReportedBySome ==
  ASSUME NEW s, NEW c \in ReportedCalls(s)
  PROVE  \E q \in Reports(s) : q \in Requests /\ c \in CallsOf(q)
BY DEF ReportedCalls, Reports

(* The members of a service's map. *)
LEMMA DatasetShape ==
  ASSUME NEW s
  PROVE  /\ Dataset(s).service = s
         /\ \A f : f \in Dataset(s).nodes <=> \E c \in ReportedCalls(s) : c.fn = f
         /\ \A f : f \in Dataset(s).entries <=>
              \E c \in ReportedCalls(s) : c.fn = f /\ c.parent = NoName
         /\ \A e : e \in Dataset(s).edges <=>
              \E c \in ReportedCalls(s) : e = <<c.parent, c.fn>> /\ c.parent # NoName
         /\ \A f : f \in Dataset(s).db => \E c \in ReportedCalls(s) : c.fn = f
         /\ \A fp : fp \in Dataset(s).ports <=>
              \E c \in ReportedCalls(s) : IsRemote(c) /\ fp = <<c.fn, PortOf[c.target[1]]>>
BY DEF Dataset

(* The datasets are those of the selection, in its order. *)
LEMMA DatasetsShape ==
  ASSUME NEW selection \in Selections
  PROVE  /\ selection \in Seq(Services)
         /\ DOMAIN selection = 1..Len(selection) /\ Len(selection) \in Nat
         /\ DOMAIN Datasets(selection) = DOMAIN selection
         /\ Len(Datasets(selection)) = Len(selection)
         /\ \A i \in DOMAIN selection : /\ selection[i] \in Services
                                       /\ Datasets(selection)[i] = Dataset(selection[i])
<1>1. selection \in Seq(Services)
  BY PortsAssumption
<1>2. DOMAIN selection = 1..Len(selection) /\ Len(selection) \in Nat
  BY <1>1
<1>3. DOMAIN Datasets(selection) = DOMAIN selection
  BY DEF Datasets
<1>4. Len(Datasets(selection)) = Len(selection)
  BY <1>2 DEF Datasets
<1>5. \A i \in DOMAIN selection : selection[i] \in Services
  BY <1>1, <1>2
<1>6. \A i \in DOMAIN selection : Datasets(selection)[i] = Dataset(selection[i])
  BY DEF Datasets
<1> QED BY <1>1, <1>2, <1>3, <1>4, <1>5, <1>6

(* The maps that are drawn are those of the services with reports. *)
LEMMA ShownHasReports ==
  ASSUME IInv, HandlersAreTrees, NEW selection \in Selections, NEW i \in DOMAIN selection
  PROVE  /\ i \in Shown(Datasets(selection)) <=> Reports(selection[i]) # {}
         /\ Reports(selection[i]) # {} => EntryCandidates(Dataset(selection[i])) # {}
<1> DEFINE s == selection[i]
<1>1. i \in Shown(Datasets(selection)) <=> Dataset(s).nodes # {}
  BY DatasetsShape DEF Shown
<1>2. Dataset(s).nodes # {} => Reports(s) # {}
  BY DatasetShape, ReportedBySome
<1>3. ASSUME NEW q \in Reports(s)
      PROVE  Dataset(s).nodes # {} /\ EntryCandidates(Dataset(s)) # {}
  <2>1. q \in Requests
    BY DEF Reports
  <2>2. PICK c \in CallsOf(q) : c.parent = NoName
    BY <2>1 DEF HandlersAreTrees
  <2>3. c \in ReportedCalls(s)
    BY ReportedIsWhole
  <2>4. c.fn \in Dataset(s).nodes /\ c.fn \in Dataset(s).entries
    BY <2>2, <2>3, DatasetShape
  <2> QED BY <2>4 DEF EntryCandidates
<1> QED BY <1>1, <1>2, <1>3

(* An entry function is one of its service's that was called without a     *)
(* parent.                                                                 *)
LEMMA EntryIsCalled ==
  ASSUME NEW selection \in Selections, NEW entry \in EntryChoices(Datasets(selection)),
         NEW t \in DOMAIN entry
  PROVE  \E i \in DOMAIN selection : /\ t = selection[i]
                                     /\ i \in Shown(Datasets(selection))
                                     /\ \E c \in ReportedCalls(t) :
                                          c.fn = entry[t] /\ c.parent = NoName
<1> DEFINE ds == Datasets(selection)
           found == {i \in Shown(ds) : EntryCandidates(ds[i]) # {}}
<1>1. DOMAIN entry = {ds[i].service : i \in found}
  BY DEF EntryChoices
<1>2. PICK i \in found : t = ds[i].service
  BY <1>1
<1>3. entry[t] \in EntryCandidates(ds[i])
  BY <1>2 DEF EntryChoices
<1>4. i \in DOMAIN selection /\ ds[i] = Dataset(selection[i]) /\ i \in Shown(ds)
  BY DatasetsShape DEF Shown
<1>5. t = selection[i]
  BY <1>2, <1>4, DatasetShape
<1>6. \E c \in ReportedCalls(t) : c.fn = entry[t] /\ c.parent = NoName
  <2>1. entry[t] \in Dataset(t).nodes
    BY <1>3, <1>4, <1>5 DEF EntryCandidates
  <2>2. PICK c \in ReportedCalls(t) : c.fn = entry[t]
    BY <2>1, DatasetShape
  <2>3. CASE entry[t] \in Dataset(t).entries
    BY <2>3, DatasetShape
  <2>4. CASE \A e \in Dataset(t).edges : e[2] # entry[t]
    <3>1. c.parent = NoName
      <4> SUFFICES ASSUME c.parent # NoName PROVE FALSE
        OBVIOUS
      <4>1. <<c.parent, c.fn>> \in Dataset(t).edges
        BY DatasetShape
      <4> QED BY <2>2, <2>4, <4>1
    <3> QED BY <2>2, <3>1
  <2> QED BY <1>3, <1>4, <1>5, <2>3, <2>4 DEF EntryCandidates
<1> QED BY <1>4, <1>5, <1>6

(* What GraphBuild draws of any datasets. *)
LEMMA NodeIdsHold ==
  ASSUME NEW ds, NEW i \in DOMAIN ds, NEW f \in ds[i].nodes
  PROVE  Id(ds[i].service, f) \in NodeIds(ds)
BY DEF NodeIds

(* A link within a service is an edge of its map. *)
LEMMA LinksHold ==
  ASSUME NEW ds, NEW entry, NEW l \in Links(ds, entry), l \notin CrossEdges(ds, entry)
  PROVE  \E i \in Shown(ds) : \E e \in ds[i].edges :
           l = <<Id(ds[i].service, e[1]), Id(ds[i].service, e[2])>>
BY DEF Links

(* A cross-service edge comes from a port that leads to another service. *)
LEMMA CrossEdgesHold ==
  ASSUME NEW ds, NEW entry, NEW e
  PROVE  e \in CrossEdges(ds, entry) <=>
           \E i \in Shown(ds) : \E fp \in ds[i].ports :
             LET port == fp[2]
             IN /\ port \in DOMAIN PortToService(ds)
                /\ PortToService(ds)[port] # ds[i].service
                /\ PortToService(ds)[port] \in DOMAIN entry
                /\ e = <<Id(ds[i].service, fp[1]),
                         Id(PortToService(ds)[port], entry[PortToService(ds)[port]])>>
BY DEF CrossEdges

(* The ids of the nodes of a selection are those of the functions that its *)
(* services reported.                                                      *)
LEMMA NodeOfCall ==
  ASSUME NEW selection \in Selections, NEW i \in DOMAIN selection,
         NEW c \in ReportedCalls(selection[i])
  PROVE  Id(selection[i], c.fn) \in NodeIds(Datasets(selection))
<1>1. /\ i \in DOMAIN Datasets(selection)
      /\ Datasets(selection)[i] = Dataset(selection[i])
      /\ Dataset(selection[i]).service = selection[i]
  BY DatasetsShape, DatasetShape
<1>2. c.fn \in Dataset(selection[i]).nodes
  BY DatasetShape
<1>3. c.fn \in Datasets(selection)[i].nodes
  BY <1>1, <1>2
<1>4. Id(Datasets(selection)[i].service, c.fn) \in NodeIds(Datasets(selection))
  BY <1>1, <1>3, NodeIdsHold
<1> QED BY <1>1, <1>4

(* Every port a map names is seen. *)
LEMMA PortIsSeen ==
  ASSUME NEW ds, NEW i \in DOMAIN ds, NEW fp \in ds[i].ports
  PROVE  fp[2] \in PortsSeen(ds)
BY DEF PortsSeen

(* A call that leaves its service goes to one of the services. *)
LEMMA RemoteTarget ==
  ASSUME NEW q \in Requests, NEW c \in CallsOf(q), IsRemote(c)
  PROVE  c.target[1] \in Services
<1>1. Child(q, c) \in Requests /\ Child(q, c)[2] = c.target
  BY ScriptAssumption DEF Child
<1>2. c.target \in Endpoints
  BY <1>1, ScriptAssumption
<1> QED BY <1>2, ScriptAssumption

(* A cross edge leads from a function that made a call to the service at   *)
(* the port of its URL, as the selection has it, to an entry function.     *)
LEMMA CrossEdgeOfCall ==
  ASSUME NEW selection \in Selections, NEW entry \in EntryChoices(Datasets(selection)),
         NEW e \in CrossEdges(Datasets(selection), entry)
  PROVE  \E i \in Shown(Datasets(selection)), j \in DOMAIN selection :
           \E c \in ReportedCalls(selection[i]) :
             /\ IsRemote(c)
             /\ PortOf[c.target[1]] = FirstPort + j - 1
             /\ selection[j] # selection[i]
             /\ selection[j] \in DOMAIN entry
             /\ e = <<Id(selection[i], c.fn), Id(selection[j], entry[selection[j]])>>
<1> DEFINE ds == Datasets(selection)
<1>1. PICK i \in Shown(ds) : \E fp \in ds[i].ports :
        /\ fp[2] \in DOMAIN PortToService(ds)
        /\ PortToService(ds)[fp[2]] # ds[i].service
        /\ PortToService(ds)[fp[2]] \in DOMAIN entry
        /\ e = <<Id(ds[i].service, fp[1]),
                 Id(PortToService(ds)[fp[2]], entry[PortToService(ds)[fp[2]]])>>
  BY CrossEdgesHold
<1>2. PICK fp \in ds[i].ports :
        /\ fp[2] \in DOMAIN PortToService(ds)
        /\ PortToService(ds)[fp[2]] # ds[i].service
        /\ PortToService(ds)[fp[2]] \in DOMAIN entry
        /\ e = <<Id(ds[i].service, fp[1]),
                 Id(PortToService(ds)[fp[2]], entry[PortToService(ds)[fp[2]]])>>
  BY <1>1
<1>3. i \in DOMAIN selection /\ ds[i] = Dataset(selection[i]) /\ ds[i].service = selection[i]
  BY DatasetsShape, DatasetShape DEF Shown
<1>4. PICK c \in ReportedCalls(selection[i]) : IsRemote(c) /\ fp = <<c.fn, PortOf[c.target[1]]>>
  BY <1>3, DatasetShape
<1>5. c.target[1] \in Services
  BY <1>4, ReportedBySome, RemoteTarget
<1>6. fp[2] - FirstPort \in 0..(Len(ds) - 1) /\ PortToService(ds)[fp[2]] = ds[fp[2] - FirstPort + 1].service
  BY <1>2 DEF PortToService
<1> DEFINE j == fp[2] - FirstPort + 1
<1>7. fp[2] \in Nat /\ FirstPort \in Nat
  BY <1>4, <1>5, PortsAssumption DEF FirstPort
<1>8. j \in DOMAIN selection /\ fp[2] = FirstPort + j - 1
  BY <1>6, <1>7, DatasetsShape
<1>9. PortToService(ds)[fp[2]] = selection[j]
  BY <1>6, <1>8, DatasetsShape, DatasetShape
<1> QED BY <1>2, <1>3, <1>4, <1>8, <1>9

(* And every such call is drawn. *)
LEMMA CallIsDrawn ==
  ASSUME NEW selection \in Selections, NEW entry \in EntryChoices(Datasets(selection)),
         NEW i \in Shown(Datasets(selection)), NEW j \in DOMAIN selection,
         NEW c \in ReportedCalls(selection[i]), IsRemote(c),
         PortOf[c.target[1]] = FirstPort + j - 1,
         selection[j] # selection[i], selection[j] \in DOMAIN entry
  PROVE  <<Id(selection[i], c.fn), Id(selection[j], entry[selection[j]])>>
           \in CrossEdges(Datasets(selection), entry)
<1> DEFINE ds == Datasets(selection)
           port == FirstPort + j - 1
<1>1. i \in DOMAIN selection /\ ds[i] = Dataset(selection[i]) /\ ds[i].service = selection[i]
  BY DatasetsShape, DatasetShape DEF Shown
<1>2. <<c.fn, port>> \in ds[i].ports
  BY <1>1, DatasetShape
<1>3. port \in PortsSeen(ds)
  BY <1>1, <1>2, DatasetsShape, PortIsSeen
<1>4. port - FirstPort = j - 1 /\ j - 1 \in 0..(Len(ds) - 1) /\ port - FirstPort + 1 = j
  BY DatasetsShape DEF FirstPort
<1>5. port \in DOMAIN PortToService(ds) /\ PortToService(ds)[port] = ds[j].service
  BY <1>3, <1>4 DEF PortToService
<1>6. PortToService(ds)[port] = selection[j]
  BY <1>5, DatasetsShape, DatasetShape
<1> HIDE DEF port
<1> DEFINE fp == <<c.fn, port>>
           e == <<Id(selection[i], c.fn), Id(selection[j], entry[selection[j]])>>
<1>7. /\ fp \in ds[i].ports /\ fp[2] = port /\ fp[1] = c.fn
      /\ fp[2] \in DOMAIN PortToService(ds)
      /\ PortToService(ds)[fp[2]] # ds[i].service
      /\ PortToService(ds)[fp[2]] \in DOMAIN entry
      /\ e = <<Id(ds[i].service, fp[1]),
               Id(PortToService(ds)[fp[2]], entry[PortToService(ds)[fp[2]]])>>
  BY <1>1, <1>2, <1>5, <1>6
<1> HIDE DEF fp, e
<1>8. e \in CrossEdges(ds, entry)
  BY <1>7, CrossEdgesHold
<1> QED BY <1>8 DEF e

(* Whatever a selection's services have reported, an entry function was    *)
(* chosen for each that has reports, and for no other.                     *)
LEMMA EntriesChosen ==
  ASSUME IInv, HandlersAreTrees, NEW selection \in Selections,
         NEW entry \in EntryChoices(Datasets(selection)), NEW j \in DOMAIN selection
  PROVE  selection[j] \in DOMAIN entry <=> Reports(selection[j]) # {}
<1> DEFINE ds == Datasets(selection)
<1>1. ASSUME selection[j] \in DOMAIN entry PROVE Reports(selection[j]) # {}
  <2>1. PICK c \in ReportedCalls(selection[j]) : TRUE
    BY <1>1, EntryIsCalled
  <2> QED BY <2>1, ReportedBySome
<1>2. ASSUME Reports(selection[j]) # {} PROVE selection[j] \in DOMAIN entry
  <2>1. j \in Shown(ds) /\ EntryCandidates(Dataset(selection[j])) # {}
    BY <1>2, ShownHasReports
  <2>2. ds[j] = Dataset(selection[j]) /\ ds[j].service = selection[j]
    BY DatasetsShape, DatasetShape
  <2>3. EntryCandidates(ds[j]) # {}
    BY <2>1, <2>2
  <2> QED BY <2>1, <2>2, <2>3 DEF EntryChoices
<1> QED BY <1>1, <1>2

(* Both ends of every link are calls that some report holds. *)
LEMMA LinksAreJoined == ASSUME IInv, HandlersAreTrees PROVE LinksJoinNodes
<1> SUFFICES ASSUME NEW selection \in Selections, NEW entry \in EntryChoices(Datasets(selection))
             PROVE  /\ \A l \in Links(Datasets(selection), entry) :
                         /\ l[1] \in NodeIds(Datasets(selection))
                         /\ l[2] \in NodeIds(Datasets(selection))
                    /\ DbLinks(Datasets(selection)) \subseteq NodeIds(Datasets(selection))
  BY DEF LinksJoinNodes
<1> DEFINE ds == Datasets(selection)
<1>1. \A i \in Shown(ds) : /\ i \in DOMAIN selection
                           /\ ds[i] = Dataset(selection[i]) /\ ds[i].service = selection[i]
  BY DatasetsShape, DatasetShape DEF Shown
<1>2. ASSUME NEW l \in CrossEdges(ds, entry) PROVE l[1] \in NodeIds(ds) /\ l[2] \in NodeIds(ds)
  <2>1. PICK i \in Shown(ds), j \in DOMAIN selection : \E c \in ReportedCalls(selection[i]) :
          /\ selection[j] \in DOMAIN entry
          /\ l = <<Id(selection[i], c.fn), Id(selection[j], entry[selection[j]])>>
    BY CrossEdgeOfCall
  <2>2. PICK c \in ReportedCalls(selection[i]) :
          /\ selection[j] \in DOMAIN entry
          /\ l = <<Id(selection[i], c.fn), Id(selection[j], entry[selection[j]])>>
    BY <2>1
  <2>3. Id(selection[i], c.fn) \in NodeIds(ds)
    BY <1>1, NodeOfCall
  <2>4. PICK d \in ReportedCalls(selection[j]) : d.fn = entry[selection[j]]
    BY <2>2, EntryIsCalled
  <2>5. Id(selection[j], entry[selection[j]]) \in NodeIds(ds)
    BY <2>4, NodeOfCall
  <2> QED BY <2>2, <2>3, <2>5
<1>3. ASSUME NEW l \in Links(ds, entry), l \notin CrossEdges(ds, entry)
      PROVE  l[1] \in NodeIds(ds) /\ l[2] \in NodeIds(ds)
  <2>1. PICK i \in Shown(ds) : \E e \in ds[i].edges :
          l = <<Id(ds[i].service, e[1]), Id(ds[i].service, e[2])>>
    BY <1>3, LinksHold
  <2> DEFINE s == selection[i]
  <2>2. PICK c \in ReportedCalls(s) : /\ c.parent # NoName
                                      /\ l = <<Id(s, c.parent), Id(s, c.fn)>>
    <3>1. PICK e \in Dataset(s).edges : l = <<Id(s, e[1]), Id(s, e[2])>>
      BY <1>1, <2>1
    <3>2. PICK c \in ReportedCalls(s) : e = <<c.parent, c.fn>> /\ c.parent # NoName
      BY DatasetShape
    <3> QED BY <3>1, <3>2
  <2>3. PICK q \in Reports(s) : q \in Requests /\ c \in CallsOf(q)
    BY ReportedBySome
  <2>4. PICK d \in CallsOf(q) : d.fn = c.parent
    BY <2>2, <2>3 DEF HandlersAreTrees, FunctionsOf
  <2>5. d \in ReportedCalls(s)
    BY <2>4, ReportedIsWhole
  <2>6. Id(s, c.fn) \in NodeIds(ds) /\ Id(s, d.fn) \in NodeIds(ds)
    BY <1>1, <2>5, NodeOfCall
  <2> QED BY <2>2, <2>4, <2>6
<1>4. ASSUME NEW b \in DbLinks(ds) PROVE b \in NodeIds(ds)
  <2>1. PICK i \in Shown(ds) : \E f \in ds[i].db : b = Id(ds[i].service, f)
    BY DEF DbLinks
  <2>2. PICK c \in ReportedCalls(selection[i]) : b = Id(selection[i], c.fn)
    BY <1>1, <2>1, DatasetShape
  <2> QED BY <1>1, <2>2, NodeOfCall
<1> QED BY <1>2, <1>3, <1>4

(* In the order of their ports each port leads to the service it is of. *)
LEMMA CrossEdgesAreTrue == ASSUME IInv, HandlersAreTrees PROVE CrossEdgesTrue
<1> SUFFICES ASSUME NEW selection \in Selections, InPortOrder(selection),
                    NEW entry \in EntryChoices(Datasets(selection))
             PROVE  /\ Drawn(Datasets(selection), entry) = CallsBetween(selection)
                    /\ \A e \in CrossEdges(Datasets(selection), entry) :
                         \E c \in ReportedCalls(e[2][1]) : c.fn = e[2][2] /\ c.parent = NoName
  BY DEF CrossEdgesTrue
<1> DEFINE ds == Datasets(selection)
           chosen == {selection[i] : i \in DOMAIN selection}
<1>1. \A j \in DOMAIN selection : /\ selection[j] \in Services
                                  /\ PortOf[selection[j]] = FirstPort + j - 1
  BY DatasetsShape DEF InPortOrder
<1>2. ASSUME NEW e \in CrossEdges(ds, entry)
      PROVE  /\ <<e[1], e[2][1]>> \in CallsBetween(selection)
             /\ \E c \in ReportedCalls(e[2][1]) : c.fn = e[2][2] /\ c.parent = NoName
  <2>1. PICK i \in Shown(ds), j \in DOMAIN selection : \E c \in ReportedCalls(selection[i]) :
          /\ IsRemote(c)
          /\ PortOf[c.target[1]] = FirstPort + j - 1
          /\ selection[j] # selection[i]
          /\ selection[j] \in DOMAIN entry
          /\ e = <<Id(selection[i], c.fn), Id(selection[j], entry[selection[j]])>>
    BY CrossEdgeOfCall
  <2>2. PICK c \in ReportedCalls(selection[i]) :
          /\ IsRemote(c)
          /\ PortOf[c.target[1]] = FirstPort + j - 1
          /\ selection[j] # selection[i]
          /\ selection[j] \in DOMAIN entry
          /\ e = <<Id(selection[i], c.fn), Id(selection[j], entry[selection[j]])>>
    BY <2>1
  <2>3. c.target[1] = selection[j]
    <3>1. c.target[1] \in Services
      BY <2>2, ReportedBySome, RemoteTarget
    <3> QED BY <1>1, <2>2, <3>1, PortsAssumption
  <2>4. /\ e[1] = Id(selection[i], c.fn) /\ e[2][1] = selection[j]
        /\ e[2][2] = entry[selection[j]]
    BY <2>2 DEF Id
  <2>5. selection[i] \in chosen /\ selection[j] \in chosen \ {selection[i]}
    BY <2>2, DatasetsShape DEF Shown
  <2>6. Reports(c.target[1]) # {}
    BY <2>2, <2>3, EntriesChosen
  <2>7. <<Id(selection[i], c.fn), c.target[1]>> \in CallsBetween(selection)
    BY <2>2, <2>3, <2>5, <2>6 DEF CallsBetween
  <2>8. \E d \in ReportedCalls(selection[j]) : d.fn = entry[selection[j]] /\ d.parent = NoName
    BY <2>2, EntryIsCalled
  <2> QED BY <2>3, <2>4, <2>7, <2>8
<1>3. ASSUME NEW x \in CallsBetween(selection) PROVE x \in Drawn(ds, entry)
  <2>1. PICK i \in DOMAIN selection : \E c \in ReportedCalls(selection[i]) :
          /\ IsRemote(c) /\ c.target[1] \in chosen \ {selection[i]}
          /\ Reports(c.target[1]) # {}
          /\ x = <<Id(selection[i], c.fn), c.target[1]>>
    BY DEF CallsBetween
  <2>2. PICK c \in ReportedCalls(selection[i]) :
          /\ IsRemote(c) /\ c.target[1] \in chosen \ {selection[i]}
          /\ Reports(c.target[1]) # {}
          /\ x = <<Id(selection[i], c.fn), c.target[1]>>
    BY <2>1
  <2>3. PICK j \in DOMAIN selection : c.target[1] = selection[j]
    BY <2>2
  <2>4. i \in Shown(ds)
    BY ReportedBySome, ShownHasReports
  <2>5. selection[j] \in DOMAIN entry
    BY <2>2, <2>3, EntriesChosen
  <2>6. PortOf[c.target[1]] = FirstPort + j - 1
    BY <1>1, <2>3
  <2> DEFINE e == <<Id(selection[i], c.fn), Id(selection[j], entry[selection[j]])>>
  <2>7. e \in CrossEdges(ds, entry)
    BY <2>2, <2>3, <2>4, <2>5, <2>6, CallIsDrawn
  <2>8. x = <<e[1], e[2][1]>>
    BY <2>2, <2>3 DEF Id
  <2> QED BY <2>7, <2>8 DEF Drawn
<1>4. Drawn(ds, entry) \subseteq CallsBetween(selection)
  BY <1>2 DEF Drawn
<1> QED BY <1>2, <1>3, <1>4

(* The force layout is given links between nodes alone, so it does not     *)
(* throw, whatever reports of the services were lost and whatever services *)
(* are selected, if handlers name parents that they call themselves.       *)
THEOREM LinksAlwaysJoinNodes == ASSUME HandlersAreTrees PROVE Spec => []LinksJoinNodes
<1>1. IInv => LinksJoinNodes
  BY LinksAreJoined
<1> QED BY <1>1, DemoInvariant, PTL

(* The arrows between services are the calls reported between them, and    *)
(* end at entry functions, if the services are selected in the order of    *)
(* their ports from 8081 on; in another order they are not, as CallsConnect  *)
(* being violated shows.                                                   *)
THEOREM CrossEdgesAlwaysTrue == ASSUME HandlersAreTrees PROVE Spec => []CrossEdgesTrue
<1>1. IInv => CrossEdgesTrue
  BY CrossEdgesAreTrue
<1> QED BY <1>1, DemoInvariant, PTL

-----------------------------------------------------------------------------
(* Each request's report. *)

(* Where nothing is done for the request its report stays. *)
LEMMA ReportStays ==
  ASSUME NEW q \in Requests, done'[q] = done[q], erred'[q] = erred[q], Taken(q)' <=> Taken(q)
  PROVE  UNCHANGED Report(q)!vars
BY DEF Report!vars, ReportOf

(* A call that ends is added while the report is open. *)
LEMMA TraceCompletes ==
  ASSUME IInv, NEW p \in Requests, NEW d \in CallsOf(p), NEW err \in BOOLEAN,
         Makes(p, d), Traced(p, d, err), UNCHANGED report, NEW q \in Requests
  PROVE  Report(q)!Next \/ UNCHANGED Report(q)!vars
<1>1. TypeOK /\ AnswerAfterReport /\ d.fn \in FunctionsOf(p) /\ d.fn \notin done[p]
  BY MadeRequests DEF IInv, Makes
<1>2. ~Taken(p) /\ ~Taken(p)'
  BY <1>1 DEF AnswerAfterReport, Over, Taken
<1>3. CASE q # p
  <2>1. done'[q] = done[q] /\ erred'[q] = erred[q]
    BY <1>1, <1>3 DEF Traced, TypeOK
  <2>2. Taken(q)' <=> Taken(q)
    BY DEF Taken
  <2> QED BY <2>1, <2>2, ReportStays
<1>4. CASE q = p
  <2>1. /\ done'[p] = done[p] \union {d.fn}
        /\ erred'[p] = IF err THEN erred[p] \union {d.fn} ELSE erred[p]
    BY <1>1 DEF Traced, TypeOK
  <2>2. ReportOf(p) = Report(p)!Open /\ ReportOf(p)' = ReportOf(p)
    BY <1>2 DEF ReportOf, Report!Open
  <2>3. (erred'[p] # {}) \in {erred[p] # {}, TRUE}
    BY <2>1
  <2>4. Report(p)!Complete(d.fn)
    BY <1>1, <2>1, <2>2, <2>3 DEF Report!Complete
  <2> QED BY <1>1, <1>4, <2>4 DEF Report!Next
<1> QED BY <1>3, <1>4

(* Finish publishes what there is. *)
LEMMA FinishPublishes ==
  ASSUME IInv, NEW p \in Requests, Finish(p), NEW q \in Requests
  PROVE  Report(q)!Next \/ UNCHANGED Report(q)!vars
<1>1. TypeOK /\ AnswerAfterReport
  BY DEF IInv
<1>2. /\ stat[p] = "serving" /\ UNCHANGED <<done, erred>>
      /\ \A r \in Requests : report'[r] = IF r = p THEN "pushing" ELSE report[r]
  BY <1>1 DEF Finish, TypeOK
<1>3. CASE q # p
  BY <1>2, <1>3, ReportStays DEF Taken
<1>4. CASE q = p
  <2>1. ~Taken(p) /\ Taken(p)'
    BY <1>1, <1>2 DEF AnswerAfterReport, Taken
  <2>2. ReportOf(p) = Report(p)!Open
    BY <2>1 DEF ReportOf, Report!Open
  <2>3. ReportOf(p)' = [status |-> "published", successful |-> ~(erred[p] # {}), flow |-> done[p]]
    BY <1>2, <2>1 DEF ReportOf
  <2>4. Report(p)!Publish
    BY <1>2, <2>2, <2>3 DEF Report!Publish
  <2> QED BY <1>4, <2>4 DEF Report!Next
<1> QED BY <1>3, <1>4

(* What is taken stays as it is, whatever step is made. *)
LEMMA StepKeepsReports ==
  IInv /\ [Next]_vars =>
    \A q \in Requests : Report(q)!Next \/ UNCHANGED Report(q)!vars
<1> SUFFICES ASSUME IInv, [Next]_vars, NEW q \in Requests
             PROVE  Report(q)!Next \/ UNCHANGED Report(q)!vars
  OBVIOUS
<1>1. TypeOK
  BY DEF IInv
<1>2. ASSUME UNCHANGED <<done, erred>>, Taken(q)' <=> Taken(q)
      PROVE  UNCHANGED Report(q)!vars
  BY <1>2, ReportStays
<1>3. ASSUME NEW s \in Services, Boot(s) PROVE UNCHANGED Report(q)!vars
  BY <1>2, <1>3 DEF Boot, requestVars, Taken
<1>4. ASSUME NEW s \in Services, Crash(s) PROVE UNCHANGED Report(q)!vars
  BY <1>2, <1>4 DEF Crash, Taken
<1>5. ASSUME NEW u \in Users, UserCalls(u) PROVE UNCHANGED Report(q)!vars
  BY <1>2, <1>5 DEF UserCalls, Taken
<1>6. ASSUME NEW p \in Requests, Accept(p) \/ Refused(p) \/ Answer(p)
      PROVE  UNCHANGED Report(q)!vars
  BY <1>2, <1>6 DEF Accept, Refused, Answer, Taken
<1>7. ASSUME NEW p \in Requests, NEW c \in CallsOf(p), Get(p, c)
      PROVE  UNCHANGED Report(q)!vars
  BY <1>2, <1>7 DEF Get, Taken
<1>8. ASSUME NEW p \in Requests, NEW c \in CallsOf(p), NEW err \in BOOLEAN, EndLocal(p, c, err)
      PROVE  Report(q)!Next \/ UNCHANGED Report(q)!vars
  BY <1>8, TraceCompletes DEF EndLocal
<1>9. ASSUME NEW p \in Requests, NEW c \in CallsOf(p), EndRemote(p, c)
      PROVE  Report(q)!Next \/ UNCHANGED Report(q)!vars
  <2> DEFINE err == stat[Child(p, c)] = "dead"
  <2>1. err \in BOOLEAN /\ Makes(p, c) /\ Traced(p, c, err) /\ UNCHANGED report
    BY <1>9 DEF EndRemote
  <2> HIDE DEF err
  <2> QED BY <2>1, TraceCompletes
<1>10. ASSUME NEW p \in Requests, Finish(p)
       PROVE  Report(q)!Next \/ UNCHANGED Report(q)!vars
  BY <1>10, FinishPublishes
<1>11. ASSUME NEW p \in Requests, Pushes(p) PROVE UNCHANGED Report(q)!vars
  BY <1>1, <1>2, <1>11 DEF Pushes, Push, Taken, TypeOK
<1>12. CASE UNCHANGED vars
  BY <1>2, <1>12 DEF vars, requestVars, Taken
<1> QED BY <1>3, <1>4, <1>5, <1>6, <1>7, <1>8, <1>9, <1>10, <1>11, <1>12 DEF Next, Handles

(* However services call each other, break and die, each request keeps the *)
(* promise that KrilCtx implements: one report, the last of the request,   *)
(* of all that was done for it.                                            *)
THEOREM ReportsStayFixed == Spec => ReportsFixed
<1>1. Init => \A q \in Requests : Report(q)!Init
  BY DEF Init, Report!Init, Report!Open, ReportOf, Taken
<1> QED BY <1>1, StepKeepsReports, DemoInvariant, PTL DEF Spec, ReportsFixed
=============================================================================
