------------------------------ MODULE MCDemoGraph ------------------------------
EXTENDS DemoGraph

Demo == INSTANCE DemoScripts

DemoServiceSet == {Demo!ServiceA, Demo!ServiceB, Demo!ServiceC}

DemoScript == Demo!DemoScript

OrdersAndSync == {<<Demo!ServiceA, "api2">>, <<Demo!ServiceC, "api3">>}

OrdersAndSyncRequests ==
  {<<Demo!ServiceA, "api2">>} \X
     {<<Demo!ServiceA, "api2">>, <<Demo!ServiceB, "api2">>, <<Demo!ServiceC, "api1">>}
  \union {<<Demo!ServiceC, "api3">>} \X
     {<<Demo!ServiceC, "api3">>, <<Demo!ServiceA, "api3">>}

SomeFlaky == {"ComputeTotals"} \intersect Demo!Flaky

DemoPort == Demo!Port

PortOrder == {<<Demo!ServiceA, Demo!ServiceB, Demo!ServiceC>>}

AnyOrder == {<<s>> : s \in DemoServiceSet}
  \union {<<s, t>> : <<s, t>> \in {x \in DemoServiceSet \X DemoServiceSet : x[1] # x[2]}}

SomeOrders == PortOrder \union AnyOrder
=============================================================================
