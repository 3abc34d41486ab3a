----------------------------- MODULE WriteLedger -----------------------------
(***************************************************************************)
(* What the backend promises about the reports it takes: the writes of     *)
(* each are settled one after the other, stored or known to have failed,   *)
(* until the process ends.  Then at most the first that is not settled may *)
(* still come to a store, as a failed one may, and nothing after it does.  *)
(* A report is acknowledged only while its writes go on or are settled.    *)
(***************************************************************************)
EXTENDS Naturals

CONSTANT Reports

VARIABLES
  fate,  \* what has become of each write of each report
  acked  \* the reports that are acknowledged

vars == <<fate, acked>>

Steps == 1..3

Init ==
  /\ fate = [r \in Reports |-> [i \in Steps |-> "none"]]
  /\ acked = {}

(* The report is taken: all its writes are due. *)
Take(r) ==
  /\ \A i \in Steps : fate[r][i] = "none"
  /\ fate' = [fate EXCEPT ![r] = [i \in Steps |-> "due"]]
  /\ UNCHANGED acked

Acknowledge(r) ==
  /\ \A i \in Steps : fate[r][i] \in {"due", "stored", "failed"}
  /\ acked' = acked \union {r}
  /\ UNCHANGED fate

FirstDue(r, i) ==
  /\ fate[r][i] = "due"
  /\ \A j \in Steps : j < i => fate[r][j] # "due"

Settle(r, i, outcome) ==
  /\ FirstDue(r, i)
  /\ fate' = [fate EXCEPT ![r][i] = outcome]
  /\ UNCHANGED acked

(* A write that was given up comes to its store all the same. *)
Surface(r, i) ==
  /\ fate[r][i] \in {"failed", "doubtful"}
  /\ fate' = [fate EXCEPT ![r][i] = "stored"]
  /\ UNCHANGED acked

(* The process ends, and with it the writing of every report. *)
Cut ==
  /\ fate' = [r \in Reports |-> [i \in Steps |->
       IF FirstDue(r, i) THEN "doubtful"
       ELSE IF fate[r][i] = "due" THEN "lost"
       ELSE fate[r][i]]]
  /\ UNCHANGED acked

Next ==
  \/ \E r \in Reports :
       \/ Take(r)
       \/ Acknowledge(r)
       \/ \E i \in Steps : \/ Settle(r, i, "stored")
                           \/ Settle(r, i, "failed")
                           \/ Surface(r, i)
  \/ Cut

Spec == Init /\ [][Next]_vars
=============================================================================
