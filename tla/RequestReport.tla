---------------------------- MODULE RequestReport ----------------------------
(***************************************************************************)
(* What kril promises about one request: calls are done, possibly with     *)
(* failures, and then one report is published, or none; it says what was   *)
(* done and whether anything failed at one instant, the last of the        *)
(* request.  The calls are those that the request waits for.               *)
(***************************************************************************)
CONSTANT Calls

VARIABLES
  done,    \* the calls that have ended
  failed,  \* the request has failed
  report   \* the report of the request

vars == <<done, failed, report>>

Open == [status |-> "open", successful |-> TRUE, flow |-> {}]

Init ==
  /\ done = {}
  /\ failed = FALSE
  /\ report = Open

(* A call ends, once, and may fail the request as it does. *)
Complete(c) ==
  /\ report = Open
  /\ c \notin done
  /\ done' = done \union {c}
  /\ failed' \in {failed, TRUE}
  /\ UNCHANGED report

Fail ==
  /\ report = Open
  /\ failed' = TRUE
  /\ UNCHANGED <<done, report>>

Publish ==
  /\ report = Open
  /\ report' = [status |-> "published", successful |-> ~failed, flow |-> done]
  /\ UNCHANGED <<done, failed>>

(* There is nobody to report to. *)
Drop ==
  /\ report = Open
  /\ report' = [status |-> "dropped", successful |-> TRUE, flow |-> {}]
  /\ UNCHANGED <<done, failed>>

Next ==
  \/ \E c \in Calls : Complete(c)
  \/ Fail
  \/ Publish
  \/ Drop

Spec == Init /\ [][Next]_vars
=============================================================================
