------------------------------ MODULE GraphBuild ------------------------------
(***************************************************************************)
(* build() of the dashboard's ServiceGraph: what is drawn for the execution *)
(* maps of the selected services, in the order of their selection.         *)
(*                                                                         *)
(* A dataset is the map of one service: its functions (nodes), those with  *)
(* is_entry_point (entries), the edges between functions, and of their     *)
(* external calls, those that are a database (db) and those whose URL has  *)
(* a port (ports).  Positions, sizes and weights are left out.             *)
(***************************************************************************)
EXTENDS Naturals, Sequences

(* The port that the first service of a selection is taken to listen on. *)
FirstPort == 8081

Shown(datasets) == {i \in DOMAIN datasets : datasets[i].nodes # {}}

PortsSeen(datasets) ==
  {fp[2] : fp \in UNION {datasets[i].ports : i \in DOMAIN datasets}}

(* Mutant: the ports are counted from one more. *)
PortToServiceShifted(datasets) ==
  [p \in {q \in PortsSeen(datasets) : q - FirstPort \in 1..Len(datasets)} |->
     datasets[p - FirstPort].service]

(* portToService: the service a port stands for is told from its place in  *)
(* the selection, and a port beyond the selection stands for none.         *)
PortToService(datasets) ==
  [p \in {q \in PortsSeen(datasets) : q - FirstPort \in 0..(Len(datasets) - 1)} |->
     datasets[p - FirstPort + 1].service]

(* The functions that `find' may meet first, for the nodes of a map come   *)
(* in any order: entry points, and functions that no edge leads to.        *)
EntryCandidates(d) ==
  {f \in d.nodes : f \in d.entries \/ \A e \in d.edges : e[2] # f}

(* entryByService, in each way it can come out. *)
EntryChoices(datasets) ==
  LET found == {i \in Shown(datasets) : EntryCandidates(datasets[i]) # {}}
      services == {datasets[i].service : i \in found}
  IN {choice \in [services -> UNION {EntryCandidates(datasets[i]) : i \in found}] :
        \A i \in found : choice[datasets[i].service] \in EntryCandidates(datasets[i])}

Id(service, fn) == <<service, fn>>

NodeIds(datasets) == UNION {{Id(datasets[i].service, f) : f \in datasets[i].nodes} :
                              i \in DOMAIN datasets}

(* crossEdges, once stubs are resolved or dropped and doubles are gone: a  *)
(* function with a call to the port of another service is joined to that   *)
(* service's entry function.                                               *)
CrossEdges(datasets, entry) ==
  LET portToService == PortToService(datasets)
  IN UNION {{<<Id(datasets[i].service, fp[1]),
               Id(portToService[fp[2]], entry[portToService[fp[2]]])>> :
               fp \in {x \in datasets[i].ports :
                         /\ x[2] \in DOMAIN portToService
                         /\ portToService[x[2]] # datasets[i].service
                         /\ portToService[x[2]] \in DOMAIN entry}} :
              i \in Shown(datasets)}

(* links: what the force layout is given, which throws when an end of one  *)
(* is no node.                                                             *)
Links(datasets, entry) ==
  (UNION {{<<Id(datasets[i].service, e[1]), Id(datasets[i].service, e[2])>> :
             e \in datasets[i].edges} : i \in Shown(datasets)})
  \union CrossEdges(datasets, entry)

(* dbLinks, without doubles: the functions joined to the barrel of their   *)
(* service.                                                                *)
DbLinks(datasets) == UNION {{Id(datasets[i].service, f) : f \in datasets[i].db} :
                              i \in Shown(datasets)}
=============================================================================
