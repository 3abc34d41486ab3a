----------------------------- MODULE DemoServices -----------------------------
(***************************************************************************)
(* Services that are instrumented with pkg/ctx and call each other, as the *)
(* three demo services do: the handler of an endpoint makes its traced     *)
(* calls step by step, whatever their errors; a call may get another       *)
(* endpoint and waits for the answer, however long; at the end Finish      *)
(* takes the report and the handler's answer, always 200, is sent.         *)
(*                                                                         *)
(* A user's request is known by its endpoint, and a request made for it by *)
(* that and its own: a user's request leads to no two at one endpoint.     *)
(* How a report is built is KrilCtx's matter; here it is what              *)
(* RequestReport promises.                                                 *)
(***************************************************************************)
EXTENDS Naturals, Sequences

CONSTANTS
  Users,      \* the endpoints users request, once each, in any order
  Requests,   \* those, and the requests made for them
  Services,   \* the services, a process each
  Script,     \* for each endpoint the steps of its handler
  Failing,    \* the calls that stay in their service and may fail
  NoName,     \* the empty parent_function
  NoTarget,   \* what a call that stays in its service gets
  MaxCrashes  \* bound: how often processes die

Endpoints == DOMAIN Script

(* The traced calls of a request, over all its steps. *)
CallsOf(q) == UNION {Script[q[2]][k] : k \in DOMAIN Script[q[2]]}

FunctionsOf(q) == {c.fn : c \in CallsOf(q)}

Functions == UNION {FunctionsOf(q) : q \in Requests}

IsRemote(c) == c.target # NoTarget

(* The request that call c of q makes of another service. *)
Child(q, c) == <<q[1], c.target>>

ASSUME ScriptAssumption ==
  /\ MaxCrashes \in Nat
  /\ \A ep \in Endpoints : ep[1] \in Services /\ DOMAIN Script[ep] = 1..Len(Script[ep])
  /\ Requests \subseteq Users \X Endpoints
  /\ \A u \in Users : <<u, u>> \in Requests
  /\ \A q \in Requests : \A c, d \in CallsOf(q) : c.fn = d.fn => c = d
  /\ \A q \in Requests : \A c \in CallsOf(q) : IsRemote(c) => Child(q, c) \in Requests
  /\ \A p, q \in Requests : \A c \in CallsOf(p), d \in CallsOf(q) :
       IsRemote(c) /\ IsRemote(d) /\ Child(p, c) = Child(q, d) => p = q /\ c = d

VARIABLES
  proc,     \* each service's process
  crashes,  \* how often one has died
  stat,     \* each request, as its caller and its service see it
  done,     \* the functions whose trace each request's context has
  erred,    \* those among them with an error
  report    \* each request's report

requestVars == <<stat, done, erred, report>>
vars == <<proc, crashes, requestVars>>

TypeOK ==
  /\ proc \in [Services -> {"down", "listening"}]
  /\ crashes \in 0..MaxCrashes
  /\ stat \in [Requests -> {"none", "sent", "serving", "finished", "answered", "dead"}]
  /\ done \in [Requests -> SUBSET Functions] /\ erred \in [Requests -> SUBSET Functions]
  /\ \A q \in Requests : erred[q] \subseteq done[q] /\ done[q] \subseteq FunctionsOf(q)
  /\ report \in [Requests -> {"none", "pushing", "delivered", "lost"}]

Init ==
  /\ proc = [s \in Services |-> "down"]
  /\ crashes = 0
  /\ stat = [q \in Requests |-> "none"]
  /\ done = [q \in Requests |-> {}]
  /\ erred = [q \in Requests |-> {}]
  /\ report = [q \in Requests |-> "none"]

-----------------------------------------------------------------------------
ServiceOf(q) == q[2][1]

(* main configures the context and listens. *)
Boot(s) ==
  /\ proc[s] = "down"
  /\ proc' = [proc EXCEPT ![s] = "listening"]
  /\ UNCHANGED <<crashes, requestVars>>

Ended(q) == stat[q] \in {"answered", "dead"}

(* The load generator makes a request when the one before it has ended.    *)
UserCalls(u) ==
  /\ stat[<<u, u>>] = "none"
  /\ \A v \in Users : stat[<<v, v>>] = "none" \/ Ended(<<v, v>>)
  /\ stat' = [stat EXCEPT ![<<u, u>>] = "sent"]
  /\ UNCHANGED <<proc, crashes, done, erred, report>>

(* The service's server takes the request, and New makes its context. *)
Accept(q) ==
  /\ stat[q] = "sent"
  /\ proc[ServiceOf(q)] = "listening"
  /\ stat' = [stat EXCEPT ![q] = "serving"]
  /\ UNCHANGED <<proc, crashes, done, erred, report>>

Refused(q) ==
  /\ stat[q] = "sent"
  /\ proc[ServiceOf(q)] = "down"
  /\ stat' = [stat EXCEPT ![q] = "dead"]
  /\ UNCHANGED <<proc, crashes, done, erred, report>>

-----------------------------------------------------------------------------
(* The handler. *)

(* The request's handler is in the step of call c, which has not ended. *)
Makes(q, c) ==
  /\ stat[q] = "serving"
  /\ c.fn \notin done[q]
  /\ \E k \in DOMAIN Script[q[2]] :
       /\ c \in Script[q[2]][k]
       /\ \A j \in 1..(k - 1) : \A d \in Script[q[2]][j] : d.fn \in done[q]

(* Mutant: the error is kept with the function the call is a child of. *)
TracedAtParent(q, c, err) ==
  /\ done' = [done EXCEPT ![q] = @ \union {c.fn}]
  /\ erred' = IF err THEN [erred EXCEPT ![q] = @ \union {c.parent}] ELSE erred

(* The call's trace is kept with its error, which the handler drops. *)
Traced(q, c, err) ==
  /\ done' = [done EXCEPT ![q] = @ \union {c.fn}]
  /\ erred' = IF err THEN [erred EXCEPT ![q] = @ \union {c.fn}] ELSE erred

EndLocal(q, c, err) ==
  /\ Makes(q, c)
  /\ ~IsRemote(c)
  /\ err => c.fn \in Failing
  /\ Traced(q, c, err)
  /\ UNCHANGED <<proc, crashes, stat, report>>

(* http.Get, with no timeout and no regard for the user's connection. *)
Get(q, c) ==
  /\ Makes(q, c)
  /\ IsRemote(c)
  /\ stat[Child(q, c)] = "none"
  /\ stat' = [stat EXCEPT ![Child(q, c)] = "sent"]
  /\ UNCHANGED <<proc, crashes, done, erred, report>>

(* Mutant: an answer of a request that had errors counts as an error. *)
EndRemoteByReport(q, c) ==
  /\ Makes(q, c)
  /\ IsRemote(c)
  /\ Ended(Child(q, c))
  /\ Traced(q, c, stat[Child(q, c)] = "dead" \/ erred[Child(q, c)] # {})
  /\ UNCHANGED <<proc, crashes, stat, report>>

(* Any answer is taken for a good one; only a lost connection is an error. *)
EndRemote(q, c) ==
  /\ Makes(q, c)
  /\ IsRemote(c)
  /\ Ended(Child(q, c))
  /\ Traced(q, c, stat[Child(q, c)] = "dead")
  /\ UNCHANGED <<proc, crashes, stat, report>>

Over(q) == done[q] = FunctionsOf(q)

(* The deferred Finish takes the report and starts to push it; only when   *)
(* the handler is left does the server send the few bytes of the answer.   *)
Finish(q) ==
  /\ stat[q] = "serving"
  /\ Over(q)
  /\ stat' = [stat EXCEPT ![q] = "finished"]
  /\ report' = [report EXCEPT ![q] = "pushing"]
  /\ UNCHANGED <<proc, crashes, done, erred>>

(* Mutant: answers at the end of the handler's body. *)
AnswerAtOnce(q) ==
  /\ stat[q] \in {"serving", "finished"}
  /\ Over(q)
  /\ stat' = [stat EXCEPT ![q] = "answered"]
  /\ UNCHANGED <<proc, crashes, done, erred, report>>

Answer(q) ==
  /\ stat[q] = "finished"
  /\ stat' = [stat EXCEPT ![q] = "answered"]
  /\ UNCHANGED <<proc, crashes, done, erred, report>>

(* The push reaches the backend, or fails or takes more than 5 s. *)
Push(q, outcome) ==
  /\ report[q] = "pushing"
  /\ report' = [report EXCEPT ![q] = outcome]
  /\ UNCHANGED <<proc, crashes, stat, done, erred>>

(* A process dies: its connections break, its reports under way are lost   *)
(* or have just arrived.  What it asked of other services goes on.         *)
Crash(s) ==
  /\ proc[s] = "listening"
  /\ crashes < MaxCrashes
  /\ crashes' = crashes + 1
  /\ proc' = [proc EXCEPT ![s] = "down"]
  /\ stat' = [q \in Requests |->
       IF ServiceOf(q) = s /\ stat[q] \in {"serving", "finished"} THEN "dead"
       ELSE stat[q]]
  /\ LET dying == {q \in Requests : ServiceOf(q) = s /\ report[q] = "pushing"}
     IN \E arrived \in SUBSET dying :
          report' = [q \in Requests |-> IF q \in arrived THEN "delivered"
                                        ELSE IF q \in dying THEN "lost"
                                        ELSE report[q]]
  /\ UNCHANGED <<done, erred>>

-----------------------------------------------------------------------------
Handles(q) ==
  \/ \E c \in CallsOf(q) : \/ \E err \in BOOLEAN : EndLocal(q, c, err)
                           \/ Get(q, c)
                           \/ EndRemote(q, c)
  \/ Finish(q)
  \/ Answer(q)

Pushes(q) == Push(q, "delivered") \/ Push(q, "lost")

Next ==
  \/ \E s \in Services : Boot(s) \/ Crash(s)
  \/ \E u \in Users : UserCalls(u)
  \/ \E q \in Requests : \/ Accept(q) \/ Refused(q)
                         \/ Handles(q) \/ Pushes(q)

Spec == Init /\ [][Next]_vars

(* The services' goroutines run, a connection is taken or refused, and a   *)
(* push ends within its timeout.  Nobody need start a process again.       *)
Fairness == \A q \in Requests :
  /\ WF_vars(Accept(q) \/ Refused(q) \/ Handles(q))
  /\ WF_vars(Pushes(q))

FairSpec == Spec /\ Fairness

-----------------------------------------------------------------------------
(* Properties. *)

Taken(q) == report[q] # "none"

(* A call to another service is an error exactly when it got no answer:    *)
(* errors inside the service that is called never show in its caller's     *)
(* report, nor does a broken connection pass for an answer.                *)
RemoteErrorIsLoss == \A q \in Requests : \A c \in CallsOf(q) :
  IsRemote(c) /\ c.fn \in done[q] =>
    stat[Child(q, c)] = IF c.fn \in erred[q] THEN "dead" ELSE "answered"

(* When a report is taken, those of the requests that were made for it and *)
(* answered are taken already: no graph shows a call to come that is over. *)
CalleesReportFirst == \A q \in Requests : Taken(q) =>
  \A c \in CallsOf(q) : IsRemote(c) /\ c.fn \notin erred[q] => Taken(Child(q, c))

(* Though services call each other in a ring, and wait without a timeout,  *)
(* every request that is made ends: its service died, or it was answered   *)
(* and its report delivered or given up.                                   *)
RequestsEnd == \A q \in Requests : stat[q] = "sent" ~>
  stat[q] = "dead" \/ (stat[q] = "answered" /\ report[q] \in {"delivered", "lost"})

-----------------------------------------------------------------------------
(* Why nobody waits for ever: what the services may call in a ring, their  *)
(* handlers may not.                                                       *)

(* Of any endpoints there is one whose handler gets none of them. *)
NoRings == \A eps \in SUBSET Endpoints : eps # {} =>
  \E ep \in eps : \A k \in DOMAIN Script[ep] : \A c \in Script[ep][k] :
    IsRemote(c) => c.target \notin eps

Unfinished(q) == stat[q] \in {"sent", "serving", "finished"} \/ report[q] = "pushing"

(* Something is to be done for q that waits for no other request. *)
CanGoOn(q) ==
  \/ stat[q] \in {"sent", "finished"}
  \/ report[q] = "pushing"
  \/ stat[q] = "serving" /\ Over(q)
  \/ \E c \in CallsOf(q) :
       Makes(q, c) /\ (IsRemote(c) => stat[Child(q, c)] = "none" \/ Ended(Child(q, c)))

(* While a user's request or one made for it is unfinished, one of these   *)
(* can go on: they never all wait for each other, nor for another user's.  *)
SomeoneGoesOn == \A u \in Users :
  (\E q \in Requests : q[1] = u /\ Unfinished(q)) =>
     \E q \in Requests : q[1] = u /\ CanGoOn(q)

-----------------------------------------------------------------------------
(* What a request's report promises, as KrilCtx keeps it.                  *)
ReportOf(q) ==
  [status |-> IF Taken(q) THEN "published" ELSE "open",
   successful |-> ~Taken(q) \/ erred[q] = {},
   flow |-> IF Taken(q) THEN done[q] ELSE {}]

Report(q) == INSTANCE RequestReport WITH
  Calls <- FunctionsOf(q),
  done <- done[q],
  failed <- erred[q] # {},
  report <- ReportOf(q)

(* Each request's report is one picture of its calls, and of whether one   *)
(* failed, that nothing changes afterwards: neither the services it asked, *)
(* nor its callers, nor the death of its service.                          *)
ReportsFixed ==
  /\ \A q \in Requests : Report(q)!Init
  /\ [][\A q \in Requests : Report(q)!Next \/ UNCHANGED Report(q)!vars]_vars
=============================================================================
