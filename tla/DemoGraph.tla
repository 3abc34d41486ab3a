------------------------------- MODULE DemoGraph -------------------------------
(***************************************************************************)
(* The graph the dashboard draws of the reports that have come from the    *)
(* demo services, for a selection of services: getExecutionMap overlays    *)
(* the reports of a service (counted calls are ServiceMap's matter), and   *)
(* build() joins the maps.                                                 *)
(***************************************************************************)
EXTENDS DemoServices, GraphBuild

CONSTANTS
  PortOf,     \* the port in the URLs of each service
  Selections  \* the orders in which users select services

ASSUME PortsAssumption ==
  /\ PortOf \in [Services -> Nat]
  /\ \A s, t \in Services : PortOf[s] = PortOf[t] => s = t
  /\ Selections \subseteq Seq(Services)

Reports(s) == {q \in Requests : ServiceOf(q) = s /\ report[q] = "delivered"}

ReportedCalls(s) == UNION {{c \in CallsOf(q) : c.fn \in done[q]} : q \in Reports(s)}

(* The map of service s. *)
Dataset(s) ==
  LET calls == ReportedCalls(s)
  IN [service |-> s,
      nodes |-> {c.fn : c \in calls},
      entries |-> {c.fn : c \in {d \in calls : d.parent = NoName}},
      edges |-> {<<c.parent, c.fn>> : c \in {d \in calls : d.parent # NoName}},
      db |-> {c.fn : c \in {d \in calls : d.external = "database"}},
      ports |-> {<<c.fn, PortOf[c.target[1]]>> : c \in {d \in calls : IsRemote(d)}}]

Datasets(selection) == [i \in DOMAIN selection |-> Dataset(selection[i])]

(* The functions of the selected services that were reported to have       *)
(* called another that has reports, and that service.                      *)
CallsBetween(selection) ==
  LET chosen == {selection[i] : i \in DOMAIN selection}
  IN UNION {{<<Id(s, c.fn), c.target[1]>> :
               c \in {d \in ReportedCalls(s) :
                        /\ IsRemote(d)
                        /\ d.target[1] \in chosen \ {s}
                        /\ Reports(d.target[1]) # {}}} :
              s \in chosen}

(* What the cross-service edges say. *)
Drawn(datasets, entry) ==
  {<<e[1], e[2][1]>> : e \in CrossEdges(datasets, entry)}

-----------------------------------------------------------------------------
(* Properties. *)

(* goal.md:144: with services a and b selected, any API that is called from *)
(* a to b or the other way round connects them; in whatever order they are *)
(* selected, and whatever else is.                                         *)
CallsConnect == \A selection \in Selections :
  LET datasets == Datasets(selection)
  IN \A entry \in EntryChoices(datasets) :
       Drawn(datasets, entry) = CallsBetween(selection)

InPortOrder(selection) ==
  \A i \in DOMAIN selection : PortOf[selection[i]] = FirstPort + i - 1

(* With the services selected in the order of their ports, a cross-service *)
(* edge is drawn exactly for each function that called another service,    *)
(* to that service, at an entry function of it.                            *)
CrossEdgesTrue == \A selection \in Selections : InPortOrder(selection) =>
  LET datasets == Datasets(selection)
  IN \A entry \in EntryChoices(datasets) :
       /\ Drawn(datasets, entry) = CallsBetween(selection)
       /\ \A e \in CrossEdges(datasets, entry) :
            \E c \in ReportedCalls(e[2][1]) : c.fn = e[2][2] /\ c.parent = NoName

(* Both ends of every link are nodes, whatever was lost, and every barrel  *)
(* is joined to a node: the force layout does not throw on what the demo   *)
(* services report.                                                        *)
LinksJoinNodes == \A selection \in Selections :
  LET datasets == Datasets(selection)
  IN \A entry \in EntryChoices(datasets) :
       /\ \A l \in Links(datasets, entry) :
            l[1] \in NodeIds(datasets) /\ l[2] \in NodeIds(datasets)
       /\ DbLinks(datasets) \subseteq NodeIds(datasets)

(* What this takes of the handlers: each begins with a call without a      *)
(* parent, and names no parent that it does not call itself.               *)
HandlersAreTrees == \A q \in Requests :
  /\ \E c \in CallsOf(q) : c.parent = NoName
  /\ \A c \in CallsOf(q) : c.parent # NoName => c.parent \in FunctionsOf(q)
=============================================================================
