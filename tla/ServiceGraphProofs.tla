--------------------------- MODULE ServiceGraphProofs ---------------------------
(***************************************************************************)
(* Proofs about ServiceGraph, for any services, lists of them, loads and   *)
(* drags.                                                                  *)
(***************************************************************************)
EXTENDS ServiceGraph, DashboardProofs

(* A step with the graph is a step of the App, or leaves the App alone.    *)
LEMMA StepIsTheApps == [GraphNext]_boardVars => [Next]_vars
<1>1. GraphNext => [Next]_vars
  BY DEF GraphNext, Next, Selects, Loads, Loaded, Grab, Move, Drop
<1>2. UNCHANGED boardVars => UNCHANGED vars
  BY DEF boardVars
<1> QED BY <1>1, <1>2

(* The graph follows the App and never steers it: what is proved of the    *)
(* Dashboard holds with the graph, too.                                    *)
THEOREM GraphLeavesDashboard == GraphSpec => Spec
<1>1. GraphInit => Init
  BY DEF GraphInit
<1> QED BY <1>1, StepIsTheApps, PTL DEF GraphSpec, Spec

-----------------------------------------------------------------------------
(* Places. *)

(* A build keeps every place that is saved. *)
LEMMA RebuildKeepsPlaces ==
  ASSUME NEW data, Rebuild(data), NEW s \in DOMAIN saved
  PROVE  s \in DOMAIN saved' /\ saved'[s] = saved[s]
<1>1. s \in Drawable(data) => drawn'[s] = saved[s]
  BY DEF Rebuild, Place
<1> QED BY <1>1 DEF Rebuild

(* Whatever is loaded, in whatever order, a bubble's place changes only by *)
(* a drag of it.                                                           *)
THEOREM PlacesSurvive == GraphSpec => DragsSurvive
<1> DEFINE Kept == \A s \in DOMAIN saved : saved'[s] # saved[s] => drag.service = s
<1>1. [GraphNext]_boardVars => Kept
  <2> SUFFICES ASSUME [GraphNext]_boardVars, NEW s \in DOMAIN saved, saved'[s] # saved[s]
               PROVE  drag.service = s
    OBVIOUS
  <2>1. CASE (ServicesLoaded \/ ServicesFail \/ Reload) /\ UNCHANGED graphVars
    BY <2>1 DEF graphVars
  <2>2. CASE Selects
    BY <2>2, RebuildKeepsPlaces DEF Selects
  <2>3. CASE Loads
    BY <2>3, RebuildKeepsPlaces DEF Loads, Loaded, graphVars
  <2>4. ASSUME NEW t \in Services, Grab(t) PROVE drag.service = s
    BY <2>4 DEF Grab
  <2>5. ASSUME NEW p \in Places, Move(p) PROVE drag.service = s
    BY <2>5 DEF Move
  <2>6. CASE Drop
    BY <2>6 DEF Drop
  <2>7. CASE UNCHANGED boardVars
    BY <2>7 DEF boardVars, graphVars
  <2> QED BY <2>1, <2>2, <2>3, <2>4, <2>5, <2>6, <2>7 DEF GraphNext
<1>2. [GraphNext]_boardVars => [Kept]_boardVars
  BY <1>1
<1> QED BY <1>2, PTL DEF GraphSpec, DragsSurvive

-----------------------------------------------------------------------------
(* Selections that only grow. *)

(* As long as the selection only grew and no bubble was moved, what is     *)
(* loaded and drawn is of selections that the present one began with, and  *)
(* every saved place is the index of its service in the present one.       *)
Grew ==
  /\ \A k \in Slots : Begins(selected, loads[k].services)
  /\ Begins(selected, datasets.of.services)

PlacedByIndex == \A s \in DOMAIN saved :
  \E i \in DOMAIN selected : selected[i] = s /\ saved[s] = i - 1

DrawnWhereSaved == \A s \in DOMAIN drawn : s \in DOMAIN saved /\ drawn[s] = saved[s]

Undisturbed == grown /\ ~moved

GraphInv == IInv /\ (Undisturbed => Grew /\ PlacedByIndex /\ DrawnWhereSaved)

(* An order is indexed from 1. *)
LEMMA OrderShape ==
  ASSUME NEW list \in Orders
  PROVE  Len(list) \in Nat /\ DOMAIN list = 1..Len(list)
  BY DEF Orders

(* A list is a beginning of itself, *)
LEMMA BeginsItself == ASSUME NEW list \in Orders PROVE Begins(list, list)
  BY OrderShape DEF Begins

(* and the empty one of any. *)
LEMMA BeginsWithNothing == ASSUME NEW list \in Orders PROVE Begins(list, NoLoad.services)
  BY OrderShape DEF Begins, NoLoad

(* A beginning of a beginning is a beginning. *)
LEMMA BeginsOn ==
  ASSUME NEW list \in Orders, NEW mid \in Orders, NEW other \in Orders,
         Begins(list, mid), Begins(mid, other)
  PROVE  Begins(list, other)
<1>1. /\ Len(list) \in Nat /\ Len(mid) \in Nat /\ Len(other) \in Nat
      /\ DOMAIN mid = 1..Len(mid) /\ DOMAIN other = 1..Len(other)
  BY OrderShape
<1>2. Len(other) <= Len(mid) /\ Len(mid) <= Len(list)
  BY DEF Begins
<1>3. \A i \in DOMAIN other : i \in DOMAIN mid
  BY <1>1, <1>2
<1>4. \A i \in DOMAIN other : list[i] = other[i]
  BY <1>3 DEF Begins
<1> QED BY <1>1, <1>2, <1>4 DEF Begins

(* An index in the beginning of a selection is one in the selection. *)
LEMMA IndexInSelection ==
  ASSUME NEW list \in Orders, NEW data, data.of.services \in Orders,
         Begins(list, data.of.services), NEW s \in Members(data.of.services)
  PROVE  \E i \in DOMAIN list : list[i] = s /\ ByIndex(data, s) = i - 1
<1> DEFINE at == CHOOSE i \in DOMAIN data.of.services : data.of.services[i] = s
<1>1. at \in DOMAIN data.of.services /\ data.of.services[at] = s
  BY DEF Members
<1>2. /\ Len(list) \in Nat /\ Len(data.of.services) \in Nat
      /\ DOMAIN list = 1..Len(list)
      /\ DOMAIN data.of.services = 1..Len(data.of.services)
  BY OrderShape
<1>3. at \in DOMAIN list /\ list[at] = s
  <2>1. /\ Len(data.of.services) <= Len(list)
        /\ \A i \in DOMAIN data.of.services : list[i] = data.of.services[i]
    BY DEF Begins
  <2> HIDE DEF at
  <2>2. at \in DOMAIN list
    BY <1>1, <1>2, <2>1
  <2> QED BY <1>1, <2>1, <2>2
<1>4. ByIndex(data, s) = at - 1
  BY DEF ByIndex
<1> QED BY <1>3, <1>4

(* What the graph may be given. *)
LEMMA DataShape ==
  ASSUME TypeOK
  PROVE  /\ datasets.of.services \in Orders
         /\ Drawable(datasets) \subseteq Members(datasets.of.services)
<1>1. CASE datasets = Nothing
  BY <1>1, EmptyIsOrder DEF Nothing, NoLoad, Drawable
<1>2. CASE datasets \in [of: Selection, mapped: SUBSET Services, nodes: SUBSET Node]
  <2>1. datasets.of.services \in Orders
    BY <1>2 DEF Selection
  <2>2. datasets # Nothing => \A n \in datasets.nodes : n[1] \in Members(datasets.of.services)
    BY DEF TypeOK
  <2> QED BY <1>1, <2>1, <2>2 DEF Drawable
<1> QED BY <1>1, <1>2 DEF TypeOK

(* A load asks for services in an order, or for none. *)
LEMMA LoadShape ==
  ASSUME TypeOK, NEW k \in Slots
  PROVE  loads[k].services \in Orders
  BY EmptyIsOrder DEF TypeOK, Selection, NoLoad

(* A build of data the selection began with keeps places and indices       *)
(* together.                                                               *)
LEMMA RebuildByIndex ==
  ASSUME TypeOK, TypeOK', Rebuild(datasets'), selected' = selected,
         Begins(selected, datasets'.of.services), PlacedByIndex
  PROVE  PlacedByIndex' /\ DrawnWhereSaved'
<1>1. /\ datasets'.of.services \in Orders
      /\ Drawable(datasets') \subseteq Members(datasets'.of.services)
  <2>1. CASE datasets' = Nothing
    BY <2>1, EmptyIsOrder DEF Nothing, NoLoad, Drawable
  <2>2. CASE datasets' # Nothing
    <3>1. /\ datasets' \in [of: Selection, mapped: SUBSET Services, nodes: SUBSET Node]
          /\ datasets'.mapped \subseteq Members(datasets'.of.services)
          /\ \A n \in datasets'.nodes : n[1] \in datasets'.mapped
      BY <2>2 DEF TypeOK
    <3> QED BY <3>1 DEF Selection, Drawable
  <2> QED BY <2>1, <2>2
<1>2. selected \in Orders
  BY DEF TypeOK
<1>3. ASSUME NEW s \in Drawable(datasets')
      PROVE  \E i \in DOMAIN selected : selected[i] = s /\ Place(datasets', s) = i - 1
  <2>1. CASE s \in DOMAIN saved
    BY <2>1 DEF PlacedByIndex, Place
  <2>2. CASE s \notin DOMAIN saved
    <3>1. \E i \in DOMAIN selected : selected[i] = s /\ ByIndex(datasets', s) = i - 1
      BY <1>1, <1>2, <1>3, IndexInSelection
    <3> QED BY <2>2, <3>1 DEF Place
  <2> QED BY <2>1, <2>2
<1>4. /\ DOMAIN drawn' = Drawable(datasets')
      /\ \A s \in Drawable(datasets') : drawn'[s] = Place(datasets', s)
      /\ DOMAIN saved' = DOMAIN saved \union Drawable(datasets')
      /\ \A s \in DOMAIN saved' :
           saved'[s] = IF s \in Drawable(datasets') THEN drawn'[s] ELSE saved[s]
  BY DEF Rebuild
<1>5. DrawnWhereSaved'
  BY <1>4 DEF DrawnWhereSaved
<1>6. PlacedByIndex'
  BY <1>3, <1>4 DEF PlacedByIndex
<1> QED BY <1>5, <1>6

(* What remains of places when the selection changes. *)
LEMMA SelectionKeepsInvariant ==
  ASSUME GraphInv, IInv', Selects, Undisturbed'
  PROVE  Grew' /\ PlacedByIndex' /\ DrawnWhereSaved'
<1>1. /\ Grew /\ PlacedByIndex /\ DrawnWhereSaved
      /\ Begins(selected', selected)
  BY DEF GraphInv, Undisturbed, Selects, Rebuild
<1>2. selected \in Orders /\ selected' \in Orders
  BY DEF GraphInv, IInv, TypeOK
<1>3. PICK sel, ran : Reselect(sel, ran)
  BY DEF Selects, UserSelects, Toggle, SelectAll, ClearAll, PickRange
<1>4. Grew'
  <2>1. ASSUME NEW k \in Slots PROVE Begins(selected', loads'[k].services)
    <3>1. loads'[k] = loads[k] \/ loads'[k].services = selected'
      BY <1>3 DEF Reselect, Captured, GraphInv, IInv, TypeOK
    <3>2. loads[k].services \in Orders /\ Begins(selected, loads[k].services)
      BY <1>1, LoadShape DEF GraphInv, IInv, Grew
    <3> QED BY <1>1, <1>2, <3>1, <3>2, BeginsItself, BeginsOn
  <2>2. Begins(selected', datasets'.of.services)
    <3>1. datasets' = datasets \/ datasets'.of.services = NoLoad.services
      BY <1>3 DEF Reselect, Nothing
    <3>2. datasets.of.services \in Orders /\ Begins(selected, datasets.of.services)
      BY <1>1, DataShape DEF GraphInv, IInv, Grew
    <3> QED BY <1>1, <1>2, <3>1, <3>2, BeginsWithNothing, BeginsOn
  <2> QED BY <2>1, <2>2 DEF Grew
<1>5. /\ DOMAIN saved' = DOMAIN saved
      /\ \A s \in DOMAIN saved : saved'[s] = saved[s]
      /\ DrawnWhereSaved'
  <2>1. CASE selected' = <<>>
    <3>1. Drawable(datasets') = {}
      BY <1>3, <2>1 DEF Reselect, Nothing, Drawable
    <3> QED BY <2>1, <3>1 DEF Selects, Rebuild, DrawnWhereSaved
  <2>2. CASE selected' # <<>>
    BY <1>1, <2>2 DEF Selects, DrawnWhereSaved
  <2> QED BY <2>1, <2>2
<1>6. \A i \in DOMAIN selected : i \in DOMAIN selected' /\ selected'[i] = selected[i]
  <2>1. /\ Len(selected) <= Len(selected')
        /\ \A i \in DOMAIN selected : selected'[i] = selected[i]
    BY <1>1 DEF Begins
  <2>2. /\ Len(selected) \in Nat /\ DOMAIN selected = 1..Len(selected)
        /\ Len(selected') \in Nat /\ DOMAIN selected' = 1..Len(selected')
    BY <1>2, OrderShape
  <2> QED BY <2>1, <2>2
<1>7. PlacedByIndex'
  BY <1>1, <1>5, <1>6 DEF PlacedByIndex
<1> QED BY <1>4, <1>5, <1>7

(* Loads begin for the present selection, and what they bring is built by  *)
(* index.                                                                  *)
LEMMA LoadsKeepInvariant ==
  ASSUME GraphInv, IInv', Undisturbed', Loads \/ (Reload /\ UNCHANGED graphVars)
  PROVE  Grew' /\ PlacedByIndex' /\ DrawnWhereSaved'
<1>1. /\ Grew /\ PlacedByIndex /\ DrawnWhereSaved
      /\ IInv /\ TypeOK /\ TypeOK' /\ selected' = selected
  BY DEF GraphInv, IInv, Undisturbed, Loads, Loaded, Rebuild, Reload, LoadDone, LoadFails,
     graphVars, selectVars
<1>2. selected \in Orders
  BY <1>1 DEF TypeOK
<1>3. CASE Reload /\ UNCHANGED graphVars
  <2>1. ASSUME NEW k \in Slots PROVE Begins(selected, loads'[k].services)
    <3>1. loads'[k] = loads[k] \/ loads'[k].services = selected
      BY <1>1, <1>3 DEF Reload, IInv, TimerIsCurrent, TypeOK, Captured
    <3> QED BY <1>1, <1>2, <3>1, BeginsItself DEF Grew
  <2> QED BY <1>1, <1>3, <2>1
       DEF Reload, Grew, PlacedByIndex, DrawnWhereSaved, graphVars, selectVars
<1>4. ASSUME NEW k \in Slots, Loaded(k) \/ (LoadFails(k) /\ UNCHANGED graphVars)
      PROVE  Grew' /\ PlacedByIndex' /\ DrawnWhereSaved'
  <2>1. ASSUME NEW j \in Slots PROVE Begins(selected, loads'[j].services)
    <3>1. loads'[j] = loads[j] \/ loads'[j].services = NoLoad.services
      BY <1>1, <1>4 DEF Loaded, LoadDone, LoadFails, TypeOK
    <3> QED BY <1>1, <1>2, <3>1, BeginsWithNothing DEF Grew
  <2>2. CASE LoadFails(k) /\ UNCHANGED graphVars
    BY <1>1, <2>1, <2>2 DEF LoadFails, Grew, PlacedByIndex, DrawnWhereSaved, graphVars
  <2>3. CASE Loaded(k)
    <3>1. datasets'.of = loads[k] /\ Rebuild(datasets')
      BY <2>3 DEF Loaded, LoadDone
    <3>2. Begins(selected, datasets'.of.services)
      BY <1>1, <3>1 DEF Grew
    <3>3. PlacedByIndex' /\ DrawnWhereSaved'
      BY <1>1, <3>1, <3>2, RebuildByIndex
    <3> QED BY <1>1, <2>1, <3>2, <3>3 DEF Grew
  <2> QED BY <1>4, <2>2, <2>3
<1> QED BY <1>3, <1>4 DEF Loads

(* Every step keeps the invariant. *)
LEMMA GraphStepKeepsInvariant == GraphInv /\ [GraphNext]_boardVars => GraphInv'
<1> SUFFICES ASSUME GraphInv, [GraphNext]_boardVars PROVE GraphInv'
  OBVIOUS
<1>1. IInv'
  BY StepIsTheApps, StepKeepsInvariant DEF GraphInv
<1> SUFFICES ASSUME Undisturbed' PROVE Grew' /\ PlacedByIndex' /\ DrawnWhereSaved'
  BY <1>1 DEF GraphInv
<1>2. CASE Selects
  BY <1>1, <1>2, SelectionKeepsInvariant
<1>3. CASE Loads \/ (Reload /\ UNCHANGED graphVars)
  BY <1>1, <1>3, LoadsKeepInvariant
<1>4. CASE (ServicesLoaded \/ ServicesFail) /\ UNCHANGED graphVars
  BY <1>4 DEF ServicesLoaded, ServicesFail, loadVars, GraphInv, Undisturbed, Grew,
     PlacedByIndex, DrawnWhereSaved, graphVars
<1>5. CASE Drop \/ (\E s \in Services : Grab(s)) \/ UNCHANGED boardVars
  <2>1. UNCHANGED <<vars, saved, drawn, moved, grown>>
    BY <1>5 DEF Drop, Grab, boardVars, graphVars
  <2> QED BY <2>1 DEF vars, selectVars, loadVars, GraphInv, Undisturbed, Grew,
     PlacedByIndex, DrawnWhereSaved
<1>6. CASE \E p \in Places : Move(p)
  BY <1>6 DEF Move, Undisturbed
<1> QED BY <1>2, <1>3, <1>4, <1>5, <1>6 DEF GraphNext

(* The strengthened invariant holds in every reachable state. *)
LEMMA GraphInvariant == GraphSpec => []GraphInv
<1>1. GraphInit => GraphInv
  <2> SUFFICES ASSUME GraphInit PROVE GraphInv
    OBVIOUS
  <2>1. IInv
    BY InitMeetsInvariant DEF GraphInit
  <2>2. Grew
    <3>1. selected \in Orders
      BY <2>1 DEF IInv, TypeOK
    <3>2. /\ \A k \in Slots : loads[k].services = NoLoad.services
          /\ datasets.of.services = NoLoad.services
      BY DEF GraphInit, Init, Nothing
    <3> QED BY <3>1, <3>2, BeginsWithNothing DEF Grew
  <2>3. PlacedByIndex /\ DrawnWhereSaved
    BY DEF GraphInit, PlacedByIndex, DrawnWhereSaved
  <2> QED BY <2>1, <2>2, <2>3 DEF GraphInv
<1> QED BY <1>1, GraphStepKeepsInvariant, PTL DEF GraphSpec

(* No bubble covers another while the selection only grows and nothing is  *)
(* dragged, however old the loads are whose answers are drawn: each counts *)
(* its services from the beginning of the same list.                       *)
THEOREM BubblesApart == GraphSpec => []Apart
<1>1. GraphInv => Apart
  <2> SUFFICES ASSUME GraphInv, Undisturbed, NEW s \in DOMAIN drawn, NEW t \in DOMAIN drawn,
                      drawn[s] = drawn[t]
               PROVE  s = t
    BY DEF Apart, Undisturbed
  <2>1. PICK i \in DOMAIN selected : selected[i] = s /\ drawn[s] = i - 1
    BY DEF GraphInv, PlacedByIndex, DrawnWhereSaved
  <2>2. PICK j \in DOMAIN selected : selected[j] = t /\ drawn[t] = j - 1
    BY DEF GraphInv, PlacedByIndex, DrawnWhereSaved
  <2>3. i \in Nat /\ j \in Nat
    BY OrderShape DEF GraphInv, IInv, TypeOK
  <2>4. i - 1 = j - 1
    BY <2>1, <2>2
  <2>5. i = j
    BY <2>3, <2>4
  <2> QED BY <2>1, <2>2, <2>5
<1> QED BY <1>1, GraphInvariant, PTL
=============================================================================
