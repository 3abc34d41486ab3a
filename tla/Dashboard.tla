------------------------------ MODULE Dashboard ------------------------------
(***************************************************************************)
(* The App component of the UI: which services and which time range are    *)
(* selected, the loads that are under way for a selection, old or new, and *)
(* which of their answers the graph is given.                              *)
(*                                                                         *)
(* Effects, timers and the answers of fetch run one at a time, on the      *)
(* browser's event loop; an action is one turn of it.  A load is the two   *)
(* requests for each selected service, joined by Promise.all.              *)
(***************************************************************************)
EXTENDS Integers, Sequences

CONSTANTS
  Services,   \* names of the services
  Lists,      \* the lists of services the backend may answer, in any order
  Functions,  \* names of traced functions
  Ranges,     \* the choices of the time range
  NoName,     \* null
  MaxLoads,   \* bound: the loads under way at a time
  MaxInputs   \* bound: how often the user changes the selection

Members(list) == {list[i] : i \in DOMAIN list}

(* A selection has an order, and no service twice. *)
Orders == {list \in Seq(Services) :
             \A i, j \in DOMAIN list : list[i] = list[j] => i = j}

ASSUME BoundsAssumption ==
  /\ Lists \subseteq Orders
  /\ NoName \notin Ranges
  /\ MaxLoads \in Nat \ {0}
  /\ MaxInputs \in Nat

VARIABLES
  services,   \* the services the dropdown offers
  connected,  \* the status dot
  selected,   \* selectedServices
  range,      \* timeRange
  timer,      \* the selections that an interval reloads
  loads,      \* the loads under way, by slot
  datasets,   \* what the graph is given
  loading,    \* the spinner
  inputs      \* the changes of the selection so far

selectVars == <<services, connected, selected, range, inputs>>
loadVars == <<timer, loads, loading>>
vars == <<selectVars, loadVars, datasets>>

Slots == 1..MaxLoads

(* What a load has captured. *)
Selection == [services: Orders, range: Ranges]
NoLoad == [services |-> <<>>, range |-> NoName]

(* datasets: the selection it is of, the services whose answer was a map,  *)
(* and the nodes of these maps.                                            *)
Nothing == [of |-> NoLoad, mapped |-> {}, nodes |-> {}]

Node == Services \X Functions

TypeOK ==
  /\ services \in Orders
  /\ connected \in BOOLEAN
  /\ selected \in Orders
  /\ range \in Ranges
  /\ timer \in SUBSET Selection
  /\ loads \in [Slots -> Selection \union {NoLoad}]
  /\ loading \in BOOLEAN
  /\ datasets = Nothing
     \/ /\ datasets \in [of: Selection, mapped: SUBSET Services, nodes: SUBSET Node]
        /\ datasets.mapped \subseteq Members(datasets.of.services)
        /\ \A n \in datasets.nodes : n[1] \in datasets.mapped
  /\ inputs \in 0..MaxInputs

Init ==
  /\ services = <<>> /\ connected = FALSE
  /\ selected = <<>> /\ range \in Ranges /\ inputs = 0
  /\ timer = {} /\ loads = [k \in Slots |-> NoLoad] /\ loading = FALSE
  /\ datasets = Nothing

-----------------------------------------------------------------------------
(* The list of services, every 30 s. *)

ServicesLoaded ==
  /\ services' \in Lists
  /\ connected' = TRUE
  /\ UNCHANGED <<selected, range, inputs, loadVars, datasets>>

ServicesFail ==
  /\ connected
  /\ connected' = FALSE
  /\ UNCHANGED <<services, selected, range, inputs, loadVars, datasets>>

-----------------------------------------------------------------------------
(* The effect of the selection: its cleanup, then its body. *)

Captured(sel, ran) == [services |-> sel, range |-> ran]

Free(k) == loads[k] = NoLoad

(* Mutant: the cleanup does not clear the interval. *)
TimersBesides(selection) == timer \union {selection}

TimersOf(selection) == {selection}

(* The new selection starts a load at once and an interval that reloads    *)
(* it; with nothing selected the data is cleared.  Loads under way go on.  *)
Reselect(sel, ran) ==
  /\ inputs < MaxInputs
  /\ inputs' = inputs + 1
  /\ selected' = sel
  /\ range' = ran
  /\ IF sel = <<>>
     THEN /\ datasets' = Nothing
          /\ timer' = {}
          /\ UNCHANGED <<loads, loading>>
     ELSE /\ \E k \in Slots :
               /\ Free(k)
               /\ loads' = [loads EXCEPT ![k] = Captured(sel, ran)]
          /\ timer' = TimersOf(Captured(sel, ran))
          /\ loading' = TRUE
          /\ UNCHANGED datasets
  /\ UNCHANGED <<services, connected>>

Without(list, i) ==
  [j \in 1..(Len(list) - 1) |-> IF j < i THEN list[j] ELSE list[j + 1]]

Toggle(s) ==
  /\ s \in Members(services)
  /\ IF s \in Members(selected)
     THEN \E i \in DOMAIN selected :
            selected[i] = s /\ Reselect(Without(selected, i), range)
     ELSE Reselect(Append(selected, s), range)

SelectAll == Reselect(services, range)

ClearAll == selected # <<>> /\ Reselect(<<>>, range)

PickRange(ran) == ran # range /\ Reselect(selected, ran)

-----------------------------------------------------------------------------
(* Loads. *)

(* Every 10 s. *)
Reload ==
  /\ \E selection \in timer, k \in Slots :
       /\ Free(k)
       /\ loads' = [loads EXCEPT ![k] = selection]
  /\ loading' = TRUE
  /\ UNCHANGED <<selectVars, timer, datasets>>

(* Mutant: the answers are taken for the selection of now. *)
LoadDoneForNow(k) ==
  /\ ~Free(k)
  /\ \E mapped \in SUBSET Members(loads[k].services) :
       \E nodes \in SUBSET (mapped \X Functions) :
         datasets' = [of |-> Captured(selected, range), mapped |-> mapped,
                      nodes |-> nodes]
  /\ loads' = [loads EXCEPT ![k] = NoLoad]
  /\ loading' = FALSE
  /\ UNCHANGED <<selectVars, timer>>

(* Every request of the load is answered, for each service with the map    *)
(* its reports have made, or with an error body that has no nodes: the     *)
(* status is not looked at.                                                *)
LoadDone(k) ==
  /\ ~Free(k)
  /\ \E mapped \in SUBSET Members(loads[k].services) :
       \E nodes \in SUBSET (mapped \X Functions) :
         datasets' = [of |-> loads[k], mapped |-> mapped, nodes |-> nodes]
  /\ loads' = [loads EXCEPT ![k] = NoLoad]
  /\ loading' = FALSE
  /\ UNCHANGED <<selectVars, timer>>

(* Mutant: only a load that succeeds turns the spinner off. *)
LoadFailsSpinning(k) ==
  /\ ~Free(k)
  /\ loads' = [loads EXCEPT ![k] = NoLoad]
  /\ UNCHANGED <<selectVars, timer, loading, datasets>>

(* One request fails: everything shown stays. *)
LoadFails(k) ==
  /\ ~Free(k)
  /\ loads' = [loads EXCEPT ![k] = NoLoad]
  /\ loading' = FALSE
  /\ UNCHANGED <<selectVars, timer, datasets>>

-----------------------------------------------------------------------------
UserSelects ==
  \/ \E s \in Services : Toggle(s)
  \/ SelectAll
  \/ ClearAll
  \/ \E ran \in Ranges : PickRange(ran)

Next ==
  \/ ServicesLoaded
  \/ ServicesFail
  \/ UserSelects
  \/ Reload
  \/ \E k \in Slots : LoadDone(k) \/ LoadFails(k)

Spec == Init /\ [][Next]_vars

(* Intervals fire, and each slot's loads succeed again and again.          *)
FairSpec ==
  /\ Spec
  /\ WF_vars(Reload)
  /\ \A k \in Slots : SF_vars(LoadDone(k))

-----------------------------------------------------------------------------
(* Properties. *)

(* The spinner never turns with nothing under way: whatever overlaps and   *)
(* fails, the last load to end has turned it off.                          *)
SpinnerMeansLoad == loading => \E k \in Slots : ~Free(k)

(* Once the selection has changed nothing asks for the old one again.      *)
LoadsAreForSelection ==
  [][\A k \in Slots : loads[k] # loads'[k] /\ loads'[k] # NoLoad =>
       loads'[k] = Captured(selected', range')]_vars

(* When the user is done selecting something, the answers of loads begun   *)
(* for earlier selections, in whatever order they come, are replaced for   *)
(* good: the graph ends up with what is selected and stays there.          *)
Settles == <>[](selected # <<>> => datasets.of = Captured(selected, range))

(* Documented, and not so: the effect fetches data for all selected        *)
(* services; data of a service shows when nothing is selected any more,    *)
(* for a load under way when the selection was cleared ends after it, and  *)
(* no reload follows to put it right.                                      *)
NothingSelectedNothingShown == selected = <<>> => datasets = Nothing
=============================================================================
