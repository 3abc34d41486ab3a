----------------------------- MODULE ServiceGraph -----------------------------
(***************************************************************************)
(* The ServiceGraph component beside the App that gives it its datasets:   *)
(* where the bubbles of the services stand.  Each change of the datasets   *)
(* builds new bubbles, places them by their index in the selection, and    *)
(* then puts those with a saved place back there; a drag that is under way *)
(* keeps hold of the bubble it began with.                                 *)
(*                                                                         *)
(* A place is a multiple of BUBBLE_GAP: bubbles of one place cover each    *)
(* other.  What a bubble holds, the zoom, and drags of single functions    *)
(* are left out.                                                           *)
(***************************************************************************)
EXTENDS Dashboard

CONSTANTS
  Places,   \* where a bubble can be
  MaxDrags  \* bound: how many drags the user begins

ASSUME PlacesAssumption == MaxDrags \in Nat /\ Places \subseteq Int

VARIABLES
  saved,   \* servicePosRef: the place of each service that was ever drawn
  drawn,   \* the place of each bubble of the last build
  pull,    \* where the forces draw the functions of each bubble
  drag,    \* the drag under way
  drags,   \* the drags begun so far
  moved,   \* a drag has moved a bubble
  grown    \* each selection so far began with the one before it

graphVars == <<saved, drawn, pull, drag, drags, moved, grown>>
boardVars == <<vars, graphVars>>

NoDrag == [service |-> NoName, held |-> FALSE]

GraphInit ==
  /\ Init
  /\ saved = <<>> /\ drawn = <<>> /\ pull = <<>>
  /\ drag = NoDrag /\ drags = 0 /\ moved = FALSE /\ grown = TRUE

-----------------------------------------------------------------------------
(* build, and the effect of it. *)

(* The services with a map that has nodes. *)
Drawable(data) == {n[1] : n \in data.nodes}

(* Mutant: services without nodes are not counted. *)
ByRank(data, s) ==
  LET list == SelectSeq(data.of.services, LAMBDA t : t \in Drawable(data))
  IN (CHOOSE i \in DOMAIN list : list[i] = s) - 1

ByIndex(data, s) == (CHOOSE i \in DOMAIN data.of.services : data.of.services[i] = s) - 1

(* Mutant: the bubbles stand where they were built. *)
PlaceBuilt(data, s) == ByIndex(data, s)

Place(data, s) == IF s \in DOMAIN saved THEN saved[s] ELSE ByIndex(data, s)

(* Mutant: the forces are told of the functions they do not know yet only. *)
RebuildForcesLast(data) ==
  /\ drawn' = [s \in Drawable(data) |-> Place(data, s)]
  /\ pull' = [s \in Drawable(data) |-> IF s \in DOMAIN pull THEN pull[s] ELSE drawn'[s]]
  /\ saved' = [s \in DOMAIN saved \union Drawable(data) |->
                 IF s \in Drawable(data) THEN drawn'[s] ELSE saved[s]]
  /\ drag' = [drag EXCEPT !.held = FALSE]
  /\ UNCHANGED <<drags, moved>>

(* A drag under way holds a bubble of an earlier build from now on. *)
Rebuild(data) ==
  /\ drawn' = [s \in Drawable(data) |-> Place(data, s)]
  /\ pull' = drawn'
  /\ saved' = [s \in DOMAIN saved \union Drawable(data) |->
                 IF s \in Drawable(data) THEN drawn'[s] ELSE saved[s]]
  /\ drag' = [drag EXCEPT !.held = FALSE]
  /\ UNCHANGED <<drags, moved>>

Begins(list, other) ==
  Len(other) <= Len(list) /\ \A i \in DOMAIN other : list[i] = other[i]

-----------------------------------------------------------------------------
(* Drags of a bubble, with one pointer. *)

Grab(s) ==
  /\ drag = NoDrag /\ drags < MaxDrags
  /\ s \in DOMAIN drawn
  /\ drag' = [service |-> s, held |-> TRUE]
  /\ drags' = drags + 1
  /\ UNCHANGED <<vars, saved, drawn, pull, moved, grown>>

(* The forces keep to the place they were given at the last build. *)
Move(p) ==
  /\ drag # NoDrag
  /\ saved' = [saved EXCEPT ![drag.service] = p]
  /\ drawn' = IF drag.held THEN [drawn EXCEPT ![drag.service] = p] ELSE drawn
  /\ moved' = TRUE
  /\ UNCHANGED <<vars, pull, drag, drags, grown>>

Drop ==
  /\ drag # NoDrag
  /\ drag' = NoDrag
  /\ UNCHANGED <<vars, saved, drawn, pull, drags, moved, grown>>

-----------------------------------------------------------------------------
(* App's steps, each with what the graph does about it. *)

Selects ==
  /\ UserSelects
  /\ grown' = (grown /\ Begins(selected', selected))
  /\ IF selected' = <<>> THEN Rebuild(datasets')
     ELSE UNCHANGED <<saved, drawn, pull, drag, drags, moved>>

Loaded(k) == LoadDone(k) /\ Rebuild(datasets') /\ UNCHANGED grown

Loads == \E k \in Slots : Loaded(k) \/ (LoadFails(k) /\ UNCHANGED graphVars)

GraphNext ==
  \/ (ServicesLoaded \/ ServicesFail \/ Reload) /\ UNCHANGED graphVars
  \/ Selects
  \/ Loads
  \/ \E s \in Services : Grab(s)
  \/ \E p \in Places : Move(p)
  \/ Drop

GraphSpec == GraphInit /\ [][GraphNext]_boardVars

(* As in Dashboard: intervals fire, and loads succeed again and again. *)
GraphFairSpec ==
  /\ GraphSpec
  /\ WF_vars(Reload)
  /\ \A k \in Slots : SF_boardVars(Loaded(k))

-----------------------------------------------------------------------------
(* Properties. *)

(* Reloads, answers of old selections and services that come and go never  *)
(* put a bubble back: its place changes only by a drag of it.              *)
DragsSurvive == [][\A s \in DOMAIN saved :
  saved'[s] # saved[s] => drag.service = s]_boardVars

(* When the user lets things be, bubbles stand where they were left, also  *)
(* those a reload has built during their drag, and their functions are     *)
(* drawn there.                                                            *)
BubblesSettle == <>[](selected # <<>> /\ drag = NoDrag =>
  \A s \in DOMAIN drawn : drawn[s] = saved[s] /\ pull[s] = saved[s])

(* No bubble covers another as long as services are only added to the end  *)
(* of the selection and no bubble is dragged.  After that one may: a place *)
(* is kept for a service that is not selected, and given again by index.   *)
Apart == grown /\ ~moved =>
  \A s, t \in DOMAIN drawn : s # t => drawn[s] # drawn[t]
=============================================================================
