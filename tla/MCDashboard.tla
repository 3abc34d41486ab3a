----------------------------- MODULE MCDashboard -----------------------------
EXTENDS Dashboard

(* The backend has heard of no service, of some, or of all, in any order.  *)
SomeLists == {list \in UNION {[1..n -> Services] : n \in 0..2} :
                \A i, j \in DOMAIN list : list[i] = list[j] => i = j}
=============================================================================
