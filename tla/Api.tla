---------------------------------- MODULE Api ----------------------------------
(***************************************************************************)
(* The analytics API's reads of Elasticsearch, beside the ingest that      *)
(* writes to it: the list of services, the list of telemetry logs, and the *)
(* two logs of a request.  A search sees the documents of the last         *)
(* refresh, a read by id those that are stored.  The client looks for a    *)
(* 404 in a read by id, and at no status in a search.                      *)
(***************************************************************************)
EXTENDS Ingest

CONSTANTS
  Services,  \* the service_names there are, of reports and in queries
  Service,   \* the service_name of each report
  NoService  \* no service_name in the query

ASSUME ServiceAssumption == Service \in [Reports -> Services] /\ NoService \notin Services

VARIABLES
  visible,  \* the telemetry logs that a search sees
  answer    \* the last answer of the API: its status and what it is about

apiVars == <<vars, visible, answer>>

(* How Elasticsearch takes a request: with the answer of a working node,   *)
(* with an error status and a JSON body, or not at all.                    *)
Outcomes == {"answer", "error", "silence"}

ApiInit ==
  /\ Init
  /\ visible = {}
  /\ answer = [status |-> 200, body |-> {}]

-----------------------------------------------------------------------------
(* Elasticsearch. *)

Refresh ==
  /\ visible' = {r \in Reports : <<r, TelemetryLog>> \in stored}
  /\ UNCHANGED <<vars, answer>>

(* search and RawSearch: what they find in an answer.  An error has none   *)
(* of the members they look for.                                           *)
Found(es, hits) == IF es = "answer" THEN hits ELSE {}

(* getDoc: an error's body has no _source, which does not decode.          *)
Got(i, r, es) == es = "answer" /\ <<r, i>> \in stored

SearchAnswers(es, hits) ==
  answer' = IF es = "silence" THEN [status |-> 500, body |-> {}]
            ELSE [status |-> 200, body |-> Found(es, hits)]

-----------------------------------------------------------------------------
(* The handlers. *)

(* The buckets of service_name, which an index has none of when it guessed *)
(* the mapping: it answers 400 then, as it answers 404 when it is absent.  *)
Buckets == IF index[TelemetryLog] = "declared" THEN {Service[r] : r \in visible} ELSE {}

ListServices(es) ==
  /\ Serving
  /\ SearchAnswers(es, Buckets)
  /\ UNCHANGED <<vars, visible>>

(* What a query for the logs of s may find.  A mapping that was guessed    *)
(* cuts names into words: a name may match others, or not even itself.     *)
Matching(s) ==
  IF s = NoService THEN {visible}
  ELSE IF index[TelemetryLog] = "dynamic" THEN SUBSET visible
  ELSE {{r \in visible : Service[r] = s}}

QueryTelemetryLogs(s, es) ==
  /\ Serving
  /\ \E hits \in Matching(s) : SearchAnswers(es, hits)
  /\ UNCHANGED <<vars, visible>>

LogAnswers(r, got) ==
  answer' = IF got THEN [status |-> 200, body |-> {r}] ELSE [status |-> 404, body |-> {}]

(* Mutant: both logs are looked for in the index of the telemetry logs. *)
GetLogOfTelemetry(i, r, es) ==
  /\ Serving
  /\ LogAnswers(r, Got(TelemetryLog, r, es))
  /\ UNCHANGED <<vars, visible>>

(* getServiceLog and getTelemetryLog: whatever goes wrong is a 404. *)
GetLog(i, r, es) ==
  /\ Serving
  /\ LogAnswers(r, Got(i, r, es))
  /\ UNCHANGED <<vars, visible>>

-----------------------------------------------------------------------------
Reads ==
  \E es \in Outcomes :
    \/ ListServices(es)
    \/ \E s \in Services \union {NoService} : QueryTelemetryLogs(s, es)
    \/ \E i \in Indices, r \in Reports : GetLog(i, r, es)

ApiNext ==
  \/ Next /\ UNCHANGED <<visible, answer>>
  \/ Refresh
  \/ Reads

ApiSpec == ApiInit /\ [][ApiNext]_apiVars

(* Elasticsearch refreshes its indices every second.                       *)
ApiFairSpec == ApiSpec /\ Fairness /\ WF_apiVars(Refresh)

-----------------------------------------------------------------------------
(* Properties. *)

(* The list of services comes with status 200 and lacks a service with a   *)
(* log that searches see for two reasons only: Elasticsearch has answered  *)
(* with an error, which nobody looks at, or the mapping of the index was   *)
(* guessed, and that only after a boot that went on without it, logged or  *)
(* not; no later boot repairs it.                                          *)
ServicesListed == [][\A es \in Outcomes :
  ListServices(es) /\ answer'.status = 200 =>
    \/ {Service[r] : r \in visible} \subseteq answer'.body
    \/ es = "error"
    \/ index[TelemetryLog] = "dynamic" /\ TelemetryLog \in skipped]_apiVars

(* Four things look alike to the client: a 404 for a log of an             *)
(* acknowledged report means that Elasticsearch has failed, that the log   *)
(* is still to be written, that its failure is logged, or that the process *)
(* ended under the report's goroutine; it has no fifth meaning.            *)
NotFoundExplained == [][\A es \in Outcomes, i \in Indices, r \in Reports :
  GetLog(i, r, es) /\ answer'.status = 404 /\ rpc[r] = "acked" =>
    \/ es # "answer"
    \/ Storing(r) /\ stage[r] <= i
    \/ <<r, i>> \in logged
    \/ r \in killed]_apiVars

(* The service log of a request that the list of logs shows can be had, or *)
(* the failure to store it is logged, though the two are stored apart and  *)
(* writes given up may still take effect; and when every boot has ensured  *)
(* the index the list shows no other service's requests.                   *)
ListedHasServiceLog == [][\A s \in Services \union {NoService} :
  QueryTelemetryLogs(s, "answer") =>
    \A r \in answer'.body :
      /\ s # NoService /\ TelemetryLog \notin skipped => Service[r] = s
      /\ <<r, ServiceLog>> \in stored \union logged]_apiVars

(* In the end searches see the telemetry log of every acknowledged report, *)
(* or its failure is on record, or the process ended under its goroutine;  *)
(* with stores that need never answer, and writes given up that they take  *)
(* all the same.                                                           *)
AcknowledgedSurfaces == \A r \in Reports :
  rpc[r] = "acked" ~> \/ r \in visible
                      \/ <<r, TelemetryLog>> \in logged
                      \/ r \in killed
=============================================================================
