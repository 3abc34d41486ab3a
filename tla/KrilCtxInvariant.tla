--------------------------- MODULE KrilCtxInvariant ---------------------------
(***************************************************************************)
(* The inductive invariant behind the safety properties of KrilCtx.  The   *)
(* heart of it is Blocked: a frame below which a call is active waits, so  *)
(* neither Trace nor TraceParallel returns before what it started.         *)
(***************************************************************************)
EXTENDS KrilCtx

(* What awaits a started call is the handler or has started before it. *)
CallersStarted == \A c \in Calls : Started(c) =>
  /\ site[c].index < indexCounter
  /\ site[c].caller \in Calls => Started(site[c].caller)
  /\ \A a \in AwaitedBy(c) \ {Handler} : Started(a)

(* What awaits a frame awaits all that it awaits. *)
AwaitedNests == \A c \in Calls : Started(c) =>
  \A a \in AwaitedBy(c) \ {Handler} : AwaitedBy(a) \subseteq AwaitedBy(c)

(* A frame below which a call is active is suspended, in the call it made  *)
(* itself that leads to this one.                                          *)
Blocked == \A d \in Calls : Active(d) => \A a \in AwaitedBy(d) :
  /\ IF a = Handler THEN finish = "open" ELSE st[a] = "running"
  /\ \E k \in Calls : /\ Active(k)
                      /\ site[k].caller = a
                      /\ site[k].mode # "det"
                      /\ k = d \/ k \in AwaitedBy(d)

(* The handler's goroutine is one stack, with the handler at the bottom. *)
HandlerStack == \A c \in Calls : Started(c) /\ site[c].goroutine = Handler =>
  /\ Handler \in AwaitedBy(c)
  /\ \A a \in AwaitedBy(c) \ {Handler} : site[a].goroutine = Handler

(* While it has an active call, all else the handler waits for runs under  *)
(* that call or is one of its callers.                                     *)
StackCovers == \A c, d \in Calls :
  Active(c) /\ Active(d) /\ site[c].goroutine = Handler /\ Joined(d) =>
    \/ c = d
    \/ c \in AwaitedBy(d)
    \/ d \in AwaitedBy(c) /\ site[d].goroutine = Handler

(* A panic takes the whole stack with it. *)
PanickedStack == \A d \in Calls : st[d] = "panicked" =>
  \A a \in AwaitedBy(d) \ {Handler} : st[a] = "panicked"

RecordedInTraces == \A c \in Calls : st[c] = "recorded" <=> c \in Range(traces)

(* After the handler's frame is left nothing it waits for is active. *)
AllJoined == finish # "open" => \A c \in Calls : Active(c) => ~Joined(c)

ErrorsKept ==
  /\ writers = erred \union marked
  /\ \A c \in erred : haveError[c] /\ st[c] \in {"returned", "recorded"}
  /\ \A c \in writers \ {Handler} : Started(c)

Captured == Reported => \A c \in Calls :
  st[c] = "recorded" /\ Joined(c) => c \in Flow

(* It holds in every reachable state: the conjunction that every step of a *)
(* request keeps, from which the properties of the report follow.          *)
IInv ==
  /\ TypeOK
  /\ CallersStarted
  /\ IndexOrder
  /\ AwaitedNests
  /\ Blocked
  /\ HandlerStack
  /\ StackCovers
  /\ PanickedStack
  /\ RecordedInTraces
  /\ NestedFirst
  /\ AllJoined
  /\ ErrorsKept
  /\ Captured
  /\ Verdict

-----------------------------------------------------------------------------
(* Why Trace and TraceParallel never wait for ever. *)

(* A frame awaits the calls it made and did not let go of. *)
CallersAwait == \A c \in Calls :
  Started(c) /\ site[c].mode # "det" => site[c].caller \in AwaitedBy(c)

(* Whatever a frame waits for, however deep and on however many goroutines *)
(* of TraceParallel, there is a call in it that waits for nothing: it runs *)
(* and may return, or has only to be appended to traces.                   *)
WaitsForProgress == \A f \in Frames : Waits(f) /\ ~crashed =>
  \E d \in Calls : f \in AwaitedBy(d) /\ (st[d] = "returned" \/ Executing(d))

(* Until Finish and its push are done either they can go on, or a call can *)
(* that the handler awaits.                                                *)
SomeoneProceeds ==
  \/ crashed
  \/ finish \in {"dropped", "delivered", "failed"}
  \/ finish \in {"read", "pushing"} \/ Finishing
  \/ \E d \in Calls : Handler \in AwaitedBy(d) /\ (st[d] = "returned" \/ Executing(d))
=============================================================================
