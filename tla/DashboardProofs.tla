---------------------------- MODULE DashboardProofs ----------------------------
(***************************************************************************)
(* Proofs about Dashboard, for any services, ranges and number of loads.   *)
(***************************************************************************)
EXTENDS Dashboard, TLAPS

(* An interval holds the present selection only, and there is none when    *)
(* nothing is selected.                                                    *)
TimerIsCurrent ==
  /\ timer \subseteq {Captured(selected, range)}
  /\ selected = <<>> => timer = {}

IInv == TypeOK /\ TimerIsCurrent /\ SpinnerMeansLoad

(* The selection that a load captures is one, and differs from no load.    *)
LEMMA CapturedIsSelection ==
  ASSUME NEW sel \in Orders, NEW ran \in Ranges
  PROVE  /\ Captured(sel, ran) \in Selection
         /\ Captured(sel, ran) # NoLoad
         /\ Captured(sel, ran).services = sel
  BY BoundsAssumption DEF Captured, Selection, NoLoad

(* What the checkboxes make of a selection is one. *)
LEMMA EmptyIsOrder == <<>> \in Orders
BY DEF Orders

(* Checking a box adds its service at the end. *)
LEMMA AppendIsOrder ==
  ASSUME NEW list \in Orders, NEW s \in Services, s \notin Members(list)
  PROVE  Append(list, s) \in Orders
<1>1. list \in Seq(Services) /\ Len(list) \in Nat /\ DOMAIN list = 1..Len(list)
  BY DEF Orders
<1>2. /\ Append(list, s) \in Seq(Services)
      /\ DOMAIN Append(list, s) = 1..(Len(list) + 1)
      /\ \A i \in 1..Len(list) : Append(list, s)[i] = list[i]
      /\ Append(list, s)[Len(list) + 1] = s
  BY <1>1
<1>3. \A i \in 1..Len(list) : list[i] # s
  BY <1>1 DEF Members
<1>4. \A i, j \in 1..Len(list) : list[i] = list[j] => i = j
  BY <1>1 DEF Orders
<1>5. ASSUME NEW i \in 1..(Len(list) + 1), NEW j \in 1..(Len(list) + 1),
             Append(list, s)[i] = Append(list, s)[j]
      PROVE  i = j
  <2>1. CASE i = Len(list) + 1
    BY <1>1, <1>2, <1>3, <1>5, <2>1
  <2>2. CASE j = Len(list) + 1
    BY <1>1, <1>2, <1>3, <1>5, <2>2
  <2>3. CASE i \in 1..Len(list) /\ j \in 1..Len(list)
    BY <1>2, <1>4, <1>5, <2>3
  <2> QED BY <1>1, <2>1, <2>2, <2>3
<1> QED BY <1>2, <1>5 DEF Orders

(* Clearing a box takes its service out of the middle. *)
LEMMA WithoutIsOrder ==
  ASSUME NEW list \in Orders, NEW i \in DOMAIN list
  PROVE  Without(list, i) \in Orders
<1>1. list \in Seq(Services) /\ Len(list) \in Nat /\ DOMAIN list = 1..Len(list)
  BY DEF Orders
<1>2. Len(list) - 1 \in Nat
  BY <1>1
<1>3. \A j \in 1..(Len(list) - 1) : Without(list, i)[j] = IF j < i THEN list[j] ELSE list[j + 1]
  BY DEF Without
<1>4. \A j \in 1..(Len(list) - 1) : Without(list, i)[j] \in Services
  BY <1>1, <1>3
<1>5. Without(list, i) \in [1..(Len(list) - 1) -> Services]
  BY <1>4 DEF Without
<1>6. Without(list, i) \in Seq(Services) /\ DOMAIN Without(list, i) = 1..(Len(list) - 1)
  BY <1>2, <1>5
<1>7. ASSUME NEW j \in 1..(Len(list) - 1), NEW k \in 1..(Len(list) - 1),
             Without(list, i)[j] = Without(list, i)[k]
      PROVE  j = k
  BY <1>1, <1>3, <1>7 DEF Orders
<1> QED BY <1>6, <1>7 DEF Orders

(* A change of the selection keeps the invariant.                          *)
LEMMA ReselectKeepsInvariant ==
  ASSUME IInv, NEW sel \in Orders, NEW ran \in Ranges, Reselect(sel, ran)
  PROVE  IInv'
<1> USE DEF IInv
<1>1. inputs' \in 0..MaxInputs
  BY BoundsAssumption DEF Reselect, TypeOK
<1>2. CASE sel = <<>>
  <2>1. TypeOK'
    BY <1>1, <1>2 DEF Reselect, TypeOK
  <2>2. TimerIsCurrent'
    BY <1>2 DEF Reselect, TimerIsCurrent
  <2>3. SpinnerMeansLoad'
    BY <1>2 DEF Reselect, SpinnerMeansLoad, Free
  <2> QED BY <2>1, <2>2, <2>3
<1>3. CASE sel # <<>>
  <2>1. PICK k \in Slots : Free(k) /\ loads' = [loads EXCEPT ![k] = Captured(sel, ran)]
    BY <1>3 DEF Reselect
  <2>2. timer' = {Captured(sel, ran)} /\ datasets' = datasets /\ loading' = TRUE
    BY <1>3 DEF Reselect, TimersOf
  <2>3. loads' \in [Slots -> Selection \union {NoLoad}] /\ timer' \in SUBSET Selection
    BY <2>1, <2>2, CapturedIsSelection DEF TypeOK
  <2>4. TypeOK'
    BY <1>1, <2>2, <2>3 DEF Reselect, TypeOK
  <2>5. TimerIsCurrent'
    BY <1>3, <2>2 DEF Reselect, TimerIsCurrent
  <2>6. SpinnerMeansLoad'
    BY <2>1, CapturedIsSelection DEF SpinnerMeansLoad, Free, TypeOK
  <2> QED BY <2>4, <2>5, <2>6
<1> QED BY <1>2, <1>3

(* The interval's load is of the selection it holds. *)
LEMMA ReloadKeepsInvariant == ASSUME IInv, Reload PROVE IInv'
<1> USE DEF IInv
<1>1. PICK selection \in timer, k \in Slots :
        Free(k) /\ loads' = [loads EXCEPT ![k] = selection]
  BY DEF Reload
<1>2. selection \in Selection /\ selection # NoLoad
  BY CapturedIsSelection DEF TypeOK, TimerIsCurrent
<1>3. TypeOK'
  BY <1>1, <1>2 DEF Reload, TypeOK, selectVars
<1>4. TimerIsCurrent'
  BY DEF Reload, TimerIsCurrent, selectVars
<1>5. SpinnerMeansLoad'
  BY <1>1, <1>2 DEF SpinnerMeansLoad, Free, TypeOK
<1> QED BY <1>3, <1>4, <1>5

(* A load that ends turns the spinner off and leaves the intervals alone.  *)
LEMMA LoadEndKeepsInvariant ==
  ASSUME IInv, NEW k \in Slots, LoadDone(k) \/ LoadFails(k)
  PROVE  IInv'
<1> USE DEF IInv
<1>1. loads' = [loads EXCEPT ![k] = NoLoad] /\ loading' = FALSE /\ timer' = timer
  BY DEF LoadDone, LoadFails
<1>2. UNCHANGED selectVars
  BY DEF LoadDone, LoadFails
<1>3. TypeOK'
  <2>1. loads[k] \in Selection
    BY DEF LoadDone, LoadFails, Free, TypeOK
  <2>2. CASE LoadFails(k)
    BY <1>1, <1>2, <2>2 DEF LoadFails, TypeOK, selectVars
  <2>3. CASE LoadDone(k)
    <3>1. PICK mapped \in SUBSET Members(loads[k].services) :
            \E nodes \in SUBSET (mapped \X Functions) :
              datasets' = [of |-> loads[k], mapped |-> mapped, nodes |-> nodes]
      BY <2>3 DEF LoadDone
    <3>2. PICK nodes \in SUBSET (mapped \X Functions) :
              datasets' = [of |-> loads[k], mapped |-> mapped, nodes |-> nodes]
      BY <3>1
    <3>3. mapped \in SUBSET Services
      BY <2>1 DEF Selection, Orders, Members
    <3>4. nodes \in SUBSET Node /\ \A nd \in nodes : nd[1] \in mapped
      BY <3>3 DEF Node
    <3> QED BY <1>1, <1>2, <2>1, <3>2, <3>3, <3>4 DEF TypeOK, selectVars
  <2> QED BY <2>2, <2>3
<1>4. TimerIsCurrent'
  BY <1>1, <1>2 DEF TimerIsCurrent, selectVars
<1>5. SpinnerMeansLoad'
  BY <1>1 DEF SpinnerMeansLoad
<1> QED BY <1>3, <1>4, <1>5

(* Every step keeps the invariant. *)
LEMMA StepKeepsInvariant == IInv /\ [Next]_vars => IInv'
<1> SUFFICES ASSUME IInv, [Next]_vars PROVE IInv'
  OBVIOUS
<1>1. CASE ServicesLoaded \/ ServicesFail
  <2>1. /\ services' \in Orders /\ connected' \in BOOLEAN
        /\ UNCHANGED <<selected, range, inputs, loadVars, datasets>>
    BY <1>1, BoundsAssumption DEF ServicesLoaded, ServicesFail, IInv, TypeOK
  <2>2. TypeOK'
    BY <2>1 DEF IInv, TypeOK, loadVars
  <2>3. TimerIsCurrent' /\ SpinnerMeansLoad'
    BY <2>1 DEF IInv, TimerIsCurrent, SpinnerMeansLoad, loadVars, Free
  <2> QED BY <2>2, <2>3 DEF IInv
<1>2. CASE UserSelects
  <2>1. selected \in Orders /\ services \in Orders /\ range \in Ranges
    BY DEF IInv, TypeOK
  <2>2. PICK sel \in Orders, ran \in Ranges : Reselect(sel, ran)
    <3>1. ASSUME NEW s \in Services, Toggle(s)
          PROVE \E sel \in Orders, ran \in Ranges : Reselect(sel, ran)
      BY <2>1, <3>1, AppendIsOrder, WithoutIsOrder DEF Toggle
    <3> QED BY <1>2, <2>1, <3>1, EmptyIsOrder DEF UserSelects, SelectAll, ClearAll, PickRange
  <2> QED BY <2>2, ReselectKeepsInvariant
<1>3. CASE Reload
  BY <1>3, ReloadKeepsInvariant
<1>4. CASE \E k \in Slots : LoadDone(k) \/ LoadFails(k)
  BY <1>4, LoadEndKeepsInvariant
<1>5. CASE UNCHANGED vars
  BY <1>5 DEF vars, selectVars, loadVars, IInv, TypeOK, TimerIsCurrent,
     SpinnerMeansLoad, Free
<1> QED BY <1>1, <1>2, <1>3, <1>4, <1>5 DEF Next

(* It holds at first, and so in every reachable state. *)
LEMMA InitMeetsInvariant == Init => IInv
<1> SUFFICES ASSUME Init PROVE IInv
  OBVIOUS
<1>1. inputs \in 0..MaxInputs
  BY BoundsAssumption DEF Init
<1>2. loads \in [Slots -> Selection \union {NoLoad}]
  BY DEF Init
<1>3. TypeOK
  BY <1>1, <1>2, EmptyIsOrder DEF Init, TypeOK
<1>4. TimerIsCurrent /\ SpinnerMeansLoad
  BY DEF Init, TimerIsCurrent, SpinnerMeansLoad
<1> QED BY <1>3, <1>4 DEF IInv

(* What an interval holds is the present selection, always. *)
LEMMA DashboardInvariant == Spec => []IInv
  BY InitMeetsInvariant, StepKeepsInvariant, PTL DEF Spec

(* The state of the dashboard is well formed: what the graph is given is   *)
(* of one selection, and its nodes of services of it that were answered.   *)
THEOREM DashboardTypeCorrect == Spec => []TypeOK
<1>1. IInv => TypeOK
  BY DEF IInv
<1> QED BY <1>1, DashboardInvariant, PTL

(* The spinner turns only while a load is under way, however loads overlap *)
(* and fail.                                                               *)
THEOREM SpinnerIsHonest == Spec => []SpinnerMeansLoad
<1>1. IInv => SpinnerMeansLoad
  BY DEF IInv
<1> QED BY <1>1, DashboardInvariant, PTL

(* The loads a step starts are for the selection it leaves.                *)
LEMMA StepLoadsSelection == IInv /\ [Next]_vars =>
  [\A k \in Slots : loads[k] # loads'[k] /\ loads'[k] # NoLoad =>
     loads'[k] = Captured(selected', range')]_vars
<1> SUFFICES ASSUME IInv, Next, NEW k \in Slots,
                    loads[k] # loads'[k], loads'[k] # NoLoad
             PROVE  loads'[k] = Captured(selected', range')
  OBVIOUS
<1>1. loads \in [Slots -> Selection \union {NoLoad}]
  BY DEF IInv, TypeOK
<1>2. ASSUME NEW sel, NEW ran, Reselect(sel, ran)
      PROVE  loads'[k] = Captured(selected', range')
  BY <1>1, <1>2 DEF Reselect
<1>3. CASE ServicesLoaded \/ ServicesFail
  BY <1>3 DEF ServicesLoaded, ServicesFail, loadVars
<1>4. CASE UserSelects
  BY <1>2, <1>4 DEF UserSelects, Toggle, SelectAll, ClearAll, PickRange
<1>5. CASE Reload
  <2>1. PICK selection \in timer, j \in Slots : loads' = [loads EXCEPT ![j] = selection]
    BY <1>5 DEF Reload
  <2>2. selection = Captured(selected, range)
    BY DEF IInv, TimerIsCurrent
  <2> QED BY <1>1, <1>5, <2>1, <2>2 DEF Reload, selectVars
<1>6. CASE \E j \in Slots : LoadDone(j) \/ LoadFails(j)
  BY <1>1, <1>6 DEF LoadDone, LoadFails
<1> QED BY <1>3, <1>4, <1>5, <1>6 DEF Next

(* Once the selection has changed nothing asks for the old one again: the  *)
(* cleanup of the effect has taken its interval away.                      *)
THEOREM OldSelectionsUnasked == Spec => LoadsAreForSelection
<1> QED BY StepLoadsSelection, DashboardInvariant, PTL DEF Spec, LoadsAreForSelection
=============================================================================
