------------------------------ MODULE DemoScripts ------------------------------
(***************************************************************************)
(* The three demo services: for each endpoint the traced calls its handler *)
(* makes, step by step.  A step is the calls of one Trace or TraceChild,   *)
(* or those of one TraceParallel.  What the calls compute, log and wait    *)
(* for is left out.                                                        *)
(***************************************************************************)
EXTENDS Naturals, TLC

CONSTANTS NoName, NoTarget

ServiceA == "service_a"
ServiceB == "service_b"
ServiceC == "service_c"

(* The port of each service, in its main and in the others' URLs of it. *)
Port == ServiceA :> 8081 @@ ServiceB :> 8082 @@ ServiceC :> 8083

(* A call that stays in the service; one that asks the database, or a URL  *)
(* without a port, records it as an external call.                         *)
Local(fn, parent, external) ==
  [fn |-> fn, parent |-> parent, external |-> external, target |-> NoTarget]

(* A call that gets another service's endpoint and fails when it cannot.   *)
Remote(fn, parent, service, api) ==
  [fn |-> fn, parent |-> parent, external |-> "url", target |-> <<service, api>>]

-----------------------------------------------------------------------------
(* service_a *)

A_API1 ==
  << {Local("ValidateRequest", NoName, "none")},
     {Local("GetUserFromDB", "ValidateRequest", "database")},
     {Remote("FetchAccountData", "GetUserFromDB", ServiceB, "api1")} >>

(* Mutant: a call is named a child of a function of another endpoint. *)
A_API2_WrongParent ==
  << {Local("Authenticate", NoName, "none")},
     {Remote("FetchOrders", "Authenticate", ServiceB, "api2"),
      Remote("FetchInventory", "Authenticate", ServiceC, "api1")},
     {Local("MergeResults", "ValidateRequest", "none")} >>

A_API2 ==
  << {Local("Authenticate", NoName, "none")},
     {Remote("FetchOrders", "Authenticate", ServiceB, "api2"),
      Remote("FetchInventory", "Authenticate", ServiceC, "api1")},
     {Local("MergeResults", "FetchOrders", "none")} >>

(* Mutant: the health check asks the service that is checking. *)
A_API3_AsksBack == << {Remote("HealthCheck", NoName, ServiceC, "api3")} >>

A_API3 == << {Local("HealthCheck", NoName, "none")} >>

-----------------------------------------------------------------------------
(* service_b *)

B_API1 ==
  << {Local("FetchAccount", NoName, "database")},
     {Remote("GetBillingInfo", "FetchAccount", ServiceC, "api2")} >>

B_API2 ==
  << {Local("QueryOrders", NoName, "database")},
     {Local("ComputeTotals", "QueryOrders", "none")} >>

B_API3 ==
  << {Local("ValidateOrder", NoName, "database")},
     {Local("UpdateOrderStatus", "ValidateOrder", "database")},
     {Remote("NotifyInventory", "UpdateOrderStatus", ServiceC, "api1")} >>

-----------------------------------------------------------------------------
(* service_c *)

C_API1 ==
  << {Local("CheckInventory", NoName, "database")},
     {Local("CacheResult", "CheckInventory", "database")} >>

C_API2 ==
  << {Local("FetchBillingRecords", NoName, "database")},
     {Local("VerifyPaymentStatus", "FetchBillingRecords", "url")} >>

C_API3 ==
  << {Remote("CheckUpstreamHealth", NoName, ServiceA, "api3")},
     {Local("SyncInventoryDB", "CheckUpstreamHealth", "database")} >>

-----------------------------------------------------------------------------
(* The functions that return an error now and then of themselves. *)
Flaky == {"GetUserFromDB", "Authenticate", "FetchAccount", "ComputeTotals",
          "FetchBillingRecords", "VerifyPaymentStatus", "SyncInventoryDB"}

(* What each service's main has its server handle. *)
DemoScript ==
     <<ServiceA, "api1">> :> A_API1 @@ <<ServiceA, "api2">> :> A_API2
  @@ <<ServiceA, "api3">> :> A_API3
  @@ <<ServiceB, "api1">> :> B_API1 @@ <<ServiceB, "api2">> :> B_API2
  @@ <<ServiceB, "api3">> :> B_API3
  @@ <<ServiceC, "api1">> :> C_API1 @@ <<ServiceC, "api2">> :> C_API2
  @@ <<ServiceC, "api3">> :> C_API3
=============================================================================
