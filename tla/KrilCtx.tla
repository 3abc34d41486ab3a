------------------------------- MODULE KrilCtx -------------------------------
(***************************************************************************)
(* The request context of pkg/ctx: one KrilCtx, shared by every goroutine  *)
(* that works on the request, from New to the report that Finish sends.    *)
(*                                                                         *)
(* A call is one invocation of a traced function (a functionTrace).  It    *)
(* runs on a goroutine: that of the request handler, one that              *)
(* TraceParallel started, or one the service started itself and never      *)
(* joins.  The bodies of traced functions are the environment: they may    *)
(* trace further functions, log an error, mark the request failed, return  *)
(* with or without an error, or panic.                                     *)
(*                                                                         *)
(* An action is the code between two accesses to shared state: the index   *)
(* counter (atomic), isSuccessful (unsynchronised), and traces (under mu). *)
(***************************************************************************)
EXTENDS Naturals, Sequences, Functions

CONSTANTS
  Calls,        \* invocations of traced functions; also the functions' names
  Handler,      \* the frame of the request handler, which calls Finish
  NoName,       \* the empty parentFunction
  ParentNames,  \* the names a service passes to TraceChild and TraceParallel
  Detached,     \* calls a service may make on a goroutine nobody joins
  Failing,      \* frames whose code may log or return an error or MarkFailed
  Panics        \* calls whose function may panic

ASSUME ConstantsAssumption ==
  /\ Handler \notin Calls
  /\ Detached \subseteq Calls
  /\ Panics \subseteq Calls

VARIABLES
  st,            \* progress of each call through traceWithParent
  site,          \* how each call was started, fixed when it starts
  haveError,     \* functionTrace.haveError
  indexCounter,  \* KrilCtx.indexCounter
  erred,         \* calls whose function returned an error
  marked,        \* frames that called MarkFailed
  writers,       \* frames that wrote isSuccessful = false
  traces,        \* KrilCtx.traces
  finish,        \* progress of Finish
  req,           \* the PushMetricRequest that Finish builds
  crashed        \* the service process died of an unrecovered panic

vars == <<st, site, haveError, indexCounter, erred, marked, writers, traces,
          finish, req, crashed>>

Frames == Calls \union {Handler}

(***************************************************************************)
(* caller is the frame whose code made the call and goroutine the root of  *)
(* the goroutine it runs on.  awaitedBy are the frames that cannot go on   *)
(* before the call is recorded: its caller and all those above it, up to   *)
(* the `go' statement that nobody joins.                                   *)
(***************************************************************************)
Site == [caller: Frames, mode: {"seq", "par", "det"}, goroutine: Frames,
         awaitedBy: SUBSET Frames, index: Nat,
         parent: ParentNames \union {NoName}]

TypeOK ==
  /\ st \in [Calls -> {"idle", "running", "returned", "recorded", "panicked"}]
  /\ site \in [Calls -> Site]
  /\ haveError \in [Calls -> BOOLEAN]
  /\ indexCounter \in Nat
  /\ erred \in SUBSET Calls
  /\ marked \in SUBSET Frames
  /\ writers \in SUBSET Frames
  /\ traces \in Seq(Calls)
  /\ finish \in {"open", "unwind", "dropped", "read", "pushing",
                 "delivered", "failed"}
  /\ req \in [isSuccessful: BOOLEAN, executionFlow: Seq(Calls)]
  /\ crashed \in BOOLEAN

NoSite == [caller |-> Handler, mode |-> "seq", goroutine |-> Handler,
           awaitedBy |-> {}, index |-> 0, parent |-> NoName]

(* New: isSuccessful starts true, nothing is traced yet. *)
Init ==
  /\ st = [c \in Calls |-> "idle"]
  /\ site = [c \in Calls |-> NoSite]
  /\ haveError = [c \in Calls |-> FALSE]
  /\ indexCounter = 0
  /\ erred = {}
  /\ marked = {}
  /\ writers = {}
  /\ traces = <<>>
  /\ finish = "open"
  /\ req = [isSuccessful |-> TRUE, executionFlow |-> <<>>]
  /\ crashed = FALSE

-----------------------------------------------------------------------------
(* Frames and goroutines. *)

Started(c) == st[c] # "idle"

(* The call has entered Trace and is not yet in traces. *)
Active(c) == st[c] \in {"running", "returned"}

(* Mutant: TraceParallel returns without wg.Wait. *)
WaitsWithoutJoin(f) == \E c \in Calls :
  Active(c) /\ site[c].caller = f /\ site[c].mode = "seq"

(* The frame is blocked: in a nested Trace, or in the wg.Wait of           *)
(* TraceParallel.                                                          *)
Waits(f) == \E c \in Calls :
  Active(c) /\ site[c].caller = f /\ site[c].mode # "det"

(* The frame is the innermost one of its goroutine and runs service code.  *)
Executing(f) ==
  /\ ~crashed
  /\ ~Waits(f)
  /\ \/ f = Handler /\ finish = "open"
     \/ f \in Calls /\ st[f] = "running"

GoroutineOf(f) == IF f = Handler THEN Handler ELSE site[f].goroutine

AwaitedBy(f) == IF f = Handler THEN {} ELSE site[f].awaitedBy

(* The request handler cannot finish before this frame does. *)
Joined(f) == f = Handler \/ Handler \in AwaitedBy(f)

-----------------------------------------------------------------------------
(* Trace, TraceChild, TraceParallel. *)

(* Mutant: the increment of the counter is lost. *)
NextIndexLost == indexCounter

NextIndex == indexCounter + 1

(* Mutant: Trace uses what Add(1) returns minus two. *)
TakenIndexOffByOne == indexCounter - 1

TakenIndex == indexCounter

(* Frame f starts the idle calls S: they take one index together and their *)
(* functions begin to run.                                                 *)
Start(f, S, mode, parent) ==
  /\ Executing(f)
  /\ \A c \in S : st[c] = "idle"
  /\ indexCounter' = NextIndex
  /\ site' = [c \in Calls |->
       IF c \in S
       THEN [caller |-> f, mode |-> mode,
             goroutine |-> IF mode = "seq" THEN GoroutineOf(f) ELSE c,
             awaitedBy |-> IF mode = "det" THEN {}
                           ELSE {f} \union AwaitedBy(f),
             index |-> TakenIndex, parent |-> parent]
       ELSE site[c]]
  /\ st' = [c \in Calls |-> IF c \in S THEN "running" ELSE st[c]]
  /\ UNCHANGED <<haveError, erred, marked, writers, traces, finish, req, crashed>>

Trace(f, c) == Start(f, {c}, "seq", NoName)

TraceChild(f, c) == \E p \in ParentNames : Start(f, {c}, "seq", p)

TraceParallel(f, S) ==
  /\ S # {}
  /\ \E p \in ParentNames \union {NoName} : Start(f, S, "par", p)

(* A service runs `go sc.Trace(...)' and lets go of the goroutine. *)
GoTrace(f, c) ==
  /\ c \in Detached
  /\ Start(f, {c}, "det", NoName)

(* TraceCtx.LogError *)
LogError(c) ==
  /\ Executing(c)
  /\ c \in Failing
  /\ haveError' = [haveError EXCEPT ![c] = TRUE]
  /\ UNCHANGED <<st, site, indexCounter, erred, marked, writers, traces, finish,
                 req, crashed>>

(* Mutant: the error is traced and logged, but isSuccessful is not written. *)
ReturnKeepsSuccess(c, err) ==
  /\ Executing(c)
  /\ err => c \in Failing
  /\ st' = [st EXCEPT ![c] = "returned"]
  /\ haveError' = [haveError EXCEPT ![c] = @ \/ err]
  /\ erred' = IF err THEN erred \union {c} ELSE erred
  /\ UNCHANGED <<site, indexCounter, marked, writers, traces, finish, req,
                 crashed>>

(* Mutant: only LogError sets haveError. *)
ReturnKeepsTrace(c, err) ==
  /\ Executing(c)
  /\ err => c \in Failing
  /\ st' = [st EXCEPT ![c] = "returned"]
  /\ erred' = IF err THEN erred \union {c} ELSE erred
  /\ writers' = IF err THEN writers \union {c} ELSE writers
  /\ UNCHANGED <<site, haveError, indexCounter, marked, traces, finish, req,
                 crashed>>

(* The function returns; an error marks the trace and fails the request. *)
Return(c, err) ==
  /\ Executing(c)
  /\ err => c \in Failing
  /\ st' = [st EXCEPT ![c] = "returned"]
  /\ haveError' = [haveError EXCEPT ![c] = @ \/ err]
  /\ erred' = IF err THEN erred \union {c} ELSE erred
  /\ writers' = IF err THEN writers \union {c} ELSE writers
  /\ UNCHANGED <<site, indexCounter, marked, traces, finish, req, crashed>>

(* Mutant: TraceParallel holds sc.mu while it waits for its goroutines. *)
RecordLockedOut(c) ==
  /\ ~crashed
  /\ st[c] = "returned"
  /\ site[c].mode # "par"
  /\ traces' = Append(traces, c)
  /\ st' = [st EXCEPT ![c] = "recorded"]
  /\ UNCHANGED <<site, haveError, indexCounter, erred, marked, writers, finish,
                 req, crashed>>

(* The trace is appended under sc.mu, and Trace returns to its caller or   *)
(* the goroutine of TraceParallel is done.                                 *)
Record(c) ==
  /\ ~crashed
  /\ st[c] = "returned"
  /\ traces' = Append(traces, c)
  /\ st' = [st EXCEPT ![c] = "recorded"]
  /\ UNCHANGED <<site, haveError, indexCounter, erred, marked, writers, finish,
                 req, crashed>>

MarkFailed(f) ==
  /\ Executing(f)
  /\ f \in Failing
  /\ marked' = marked \union {f}
  /\ writers' = writers \union {f}
  /\ UNCHANGED <<st, site, haveError, indexCounter, erred, traces, finish, req,
                 crashed>>

(* A panic on the handler's goroutine unwinds every frame of it without    *)
(* recording them; the deferred Finish runs, and net/http recovers.        *)
PanicInHandler(c) ==
  /\ Executing(c)
  /\ c \in Panics
  /\ site[c].goroutine = Handler
  /\ st' = [d \in Calls |->
              IF st[d] = "running" /\ site[d].goroutine = Handler
              THEN "panicked" ELSE st[d]]
  /\ finish' = "unwind"
  /\ UNCHANGED <<site, haveError, indexCounter, erred, marked, writers, traces,
                 req, crashed>>

(* Nothing recovers a panic on any other goroutine: the process dies. *)
PanicElsewhere(c) ==
  /\ Executing(c)
  /\ c \in Panics
  /\ site[c].goroutine # Handler
  /\ crashed' = TRUE
  /\ UNCHANGED <<st, site, haveError, indexCounter, erred, marked, writers,
                 traces, finish, req>>

-----------------------------------------------------------------------------
(* Finish. *)

(* The handler's frame has returned or is unwinding: its defers run. *)
Finishing ==
  /\ ~crashed
  /\ finish \in {"open", "unwind"}
  /\ ~Waits(Handler)

(* getClient has no client to offer: Finish returns, the data is dropped. *)
FinishNoClient ==
  /\ Finishing
  /\ finish' = "dropped"
  /\ UNCHANGED <<st, site, haveError, indexCounter, erred, marked, writers,
                 traces, req, crashed>>

(* isSuccessful is read without sc.mu.  The read sees every write that     *)
(* happens before it, those of joined frames; of the writes it races with  *)
(* it sees any.                                                            *)
FinishRead ==
  /\ Finishing
  /\ \E seen \in SUBSET writers :
       /\ {f \in writers : Joined(f)} \subseteq seen
       /\ req' = [req EXCEPT !.isSuccessful = (seen = {})]
  /\ finish' = "read"
  /\ UNCHANGED <<st, site, haveError, indexCounter, erred, marked, writers,
                 traces, crashed>>

(* The traces are copied into the request under sc.mu, and the goroutine   *)
(* that pushes it starts.                                                  *)
FinishSnapshot ==
  /\ ~crashed
  /\ finish = "read"
  /\ req' = [req EXCEPT !.executionFlow = traces]
  /\ finish' = "pushing"
  /\ UNCHANGED <<st, site, haveError, indexCounter, erred, marked, writers,
                 traces, crashed>>

(* Mutant: the goroutine that pushes is never started. *)
PushNever(outcome) == FALSE /\ UNCHANGED vars

(* PushMetric reaches the backend, or fails or times out: there is no      *)
(* retry.                                                                  *)
Push(outcome) ==
  /\ ~crashed
  /\ finish = "pushing"
  /\ finish' = outcome
  /\ UNCHANGED <<st, site, haveError, indexCounter, erred, marked, writers,
                 traces, req, crashed>>

Deliver == Push("delivered")
PushFails == Push("failed")

-----------------------------------------------------------------------------
Next ==
  \/ \E f \in Frames, c \in Calls :
       \/ Trace(f, c)
       \/ TraceChild(f, c)
       \/ GoTrace(f, c)
  \/ \E f \in Frames, S \in SUBSET Calls : TraceParallel(f, S)
  \/ \E f \in Frames : MarkFailed(f)
  \/ \E c \in Calls :
       \/ LogError(c)
       \/ \E err \in BOOLEAN : Return(c, err)
       \/ Record(c)
       \/ PanicInHandler(c)
       \/ PanicElsewhere(c)
  \/ FinishNoClient
  \/ FinishRead
  \/ FinishSnapshot
  \/ Deliver
  \/ PushFails

Spec == Init /\ [][Next]_vars

(* A traced function returns, the goroutines of the process are scheduled, *)
(* and the push ends within its timeout of 5 s.                            *)
Fairness ==
  /\ \A c \in Calls : /\ WF_vars(\E err \in BOOLEAN : Return(c, err))
                      /\ WF_vars(Record(c))
  /\ WF_vars(FinishNoClient \/ FinishRead)
  /\ WF_vars(FinishSnapshot)
  /\ WF_vars(Deliver \/ PushFails)

FairSpec == Spec /\ Fairness

-----------------------------------------------------------------------------
(* Properties. *)

Reported == finish \in {"pushing", "delivered", "failed"}

(* The calls the report holds. *)
Flow == Range(req.executionFlow)

(* Two calls share an index only when one TraceParallel started both, and  *)
(* a nested call has a larger index than the call it is nested in, on      *)
(* whichever goroutines they run: the index orders the tree top down.      *)
IndexOrder == \A c, d \in Calls : Started(c) /\ Started(d) =>
  /\ c # d /\ site[c].index = site[d].index =>
       /\ site[c].mode = "par" /\ site[d].mode = "par"
       /\ site[c].caller = site[d].caller
  /\ site[d].caller = c => site[c].index < site[d].index

(* The append order is bottom up: no call enters traces before every call  *)
(* made under it has, on its own goroutine or through TraceParallel at any *)
(* depth, and none enters twice.                                           *)
NestedFirst ==
  /\ \A i \in DOMAIN traces, d \in Calls :
       Started(d) /\ traces[i] \in AwaitedBy(d) =>
         \E j \in DOMAIN traces : j < i /\ traces[j] = d
  /\ \A i, j \in DOMAIN traces : traces[i] = traces[j] => i = j

(* A report holds every call that the handler made and waited for, except  *)
(* those a panic cut off, even though TraceParallel appends concurrently   *)
(* and other goroutines go on tracing while Finish copies.                 *)
ReportComplete == Reported => \A c \in Calls :
  Started(c) /\ Joined(c) => c \in Flow \/ st[c] = "panicked"

(* The verdict of the report, read without the lock, is right about every  *)
(* frame the handler waited for, and it is never a failure for no reason.  *)
Verdict == finish = "read" \/ Reported =>
  /\ req.isSuccessful => \A f \in erred \union marked : ~Joined(f)
  /\ ~req.isSuccessful => erred \union marked # {}

(* A report that says failed, when nobody called MarkFailed and no lost    *)
(* goroutine is involved, holds the trace of a call with an error.         *)
FailureExplained ==
  Reported /\ ~req.isSuccessful /\ marked = {} /\ (\A c \in erred : Joined(c))
    => \E c \in Flow : haveError[c]

(* Every request ends in one attempt to push its report, or in the log     *)
(* line or silence that drops it, unless the process dies.                 *)
Dispatched == <>(finish \in {"dropped", "delivered", "failed"} \/ crashed)

(* A call that starts is recorded, unless a panic cuts it off: Trace and   *)
(* the join of TraceParallel never wait on each other for ever.            *)
CallsEnd == \A c \in Calls :
  Started(c) ~> (st[c] \in {"recorded", "panicked"} \/ crashed)

(* Documented, and not so: goal.md says that is_successful tells whether   *)
(* the process was a success, yet the report that the deferred Finish      *)
(* sends while a panic unwinds the handler can say it was.                 *)
PanicFailsRequest ==
  Reported /\ (\E c \in Calls : st[c] = "panicked") => ~req.isSuccessful

-----------------------------------------------------------------------------
(* What a request promises about the calls and frames the handler waits    *)
(* for.  Of the others, which go on as they like, a report may hold any    *)
(* trace, and FinishRead may meet any failure.                             *)

JoinedDone == {c \in Range(traces) : Joined(c)}

FailureSeen == (\E f \in writers : Joined(f)) \/ ~req.isSuccessful

ReportShown ==
  [status |-> IF Reported THEN "published"
              ELSE IF finish = "dropped" THEN "dropped" ELSE "open",
   successful |-> ~Reported \/ req.isSuccessful,
   flow |-> IF Reported THEN {c \in Flow : Joined(c)} ELSE {}]

Report == INSTANCE RequestReport WITH
  done <- JoinedDone,
  failed <- FailureSeen,
  report <- ReportShown

(* The unlocked read and the locked copy of Finish are one atomic report   *)
(* of all that was done for the request, whatever goroutines nobody joins  *)
(* do to the context meanwhile, and nothing is done for it afterwards.     *)
Implements == Report!Spec
=============================================================================
