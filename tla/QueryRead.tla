------------------------------- MODULE QueryRead -------------------------------
(***************************************************************************)
(* The API's metrics queries: metricsQuery and metricsQueryRange refuse    *)
(* what lacks a parameter and ask VictoriaMetrics with QueryInstant or     *)
(* QueryRange of pkg/storage/victoria, which read the body of its answer   *)
(* into a buffer of fixed size until Read returns an error, whatever it    *)
(* is.  A Read into the empty rest of a full buffer returns nothing and no *)
(* error while the body goes on.  The status of VictoriaMetrics' answer is *)
(* not looked at: what is read is answered 200.                            *)
(***************************************************************************)
EXTENDS Integers

CONSTANTS
  Cap,      \* the size of buf: 64 KiB in the code
  MaxBody   \* bound: the longest body

ASSUME SizesAssumption == Cap \in Nat /\ MaxBody \in Nat

VARIABLES
  query, \* the request: with all the parameters it needs, or not
  reply, \* the status it is answered with; 0: not yet
  body,  \* the length of VictoriaMetrics' answer
  sent,  \* how much of it has come
  conn,  \* the connection: it ends with the body, or breaks
  n,     \* how much of it is in buf
  spun,  \* a Read has been given no room
  pc     \* the handler

vars == <<query, reply, body, sent, conn, n, spun, pc>>

TypeOK ==
  /\ query \in {"complete", "incomplete"}
  /\ reply \in {0, 200, 400, 500}
  /\ body \in 0..MaxBody
  /\ sent \in 0..body
  /\ n \in 0..sent /\ n <= Cap
  /\ conn \in {"open", "ended", "broken"}
  /\ spun \in BOOLEAN
  /\ pc \in {"arrived", "asking", "reading", "done"}

Init ==
  /\ query \in {"complete", "incomplete"} /\ reply = 0
  /\ body \in 0..MaxBody
  /\ sent = 0 /\ conn = "open" /\ n = 0 /\ spun = FALSE /\ pc = "arrived"

-----------------------------------------------------------------------------
(* VictoriaMetrics and the network. *)

(* The head of the answer has come, with a status of any kind. *)
PeerAnswers ==
  /\ pc = "asking"
  /\ conn = "open"
  /\ pc' = "reading"
  /\ UNCHANGED <<query, reply, body, sent, conn, n, spun>>

PeerSends ==
  /\ pc = "reading"
  /\ conn = "open"
  /\ sent' \in (sent + 1)..body
  /\ UNCHANGED <<query, reply, body, conn, n, spun, pc>>

PeerEnds ==
  /\ pc = "reading"
  /\ conn = "open"
  /\ sent = body
  /\ conn' = "ended"
  /\ UNCHANGED <<query, reply, body, sent, n, spun, pc>>

(* The connection is refused or reset, or the client's timeout of 5 s      *)
(* closes it.                                                              *)
ConnBreaks ==
  /\ pc \in {"asking", "reading"}
  /\ conn = "open"
  /\ conn' = "broken"
  /\ UNCHANGED <<query, reply, body, sent, n, spun, pc>>

-----------------------------------------------------------------------------
(* The handlers, up to the answer's head. *)

(* A query, and for a range its start and end, are required. *)
Refuse ==
  /\ pc = "arrived"
  /\ query = "incomplete"
  /\ pc' = "done"
  /\ reply' = 400
  /\ UNCHANGED <<query, body, sent, conn, n, spun>>

Ask ==
  /\ pc = "arrived"
  /\ query = "complete"
  /\ pc' = "asking"
  /\ UNCHANGED <<query, reply, body, sent, conn, n, spun>>

AskFails ==
  /\ pc = "asking"
  /\ conn = "broken"
  /\ pc' = "done"
  /\ reply' = 500
  /\ UNCHANGED <<query, body, sent, conn, n, spun>>

-----------------------------------------------------------------------------
(* The loop: one Read each. *)

Room == Cap - n

ReadBytes ==
  /\ pc = "reading"
  /\ \E k \in 1..(sent - n) : k <= Room /\ n' = n + k
  /\ UNCHANGED <<query, reply, body, sent, conn, spun, pc>>

(* Mutant: the end of the connection ends the loop, data left or not. *)
ReadEOFEarly ==
  /\ pc = "reading"
  /\ conn = "ended"
  /\ pc' = "done"
  /\ reply' = 200
  /\ UNCHANGED <<query, body, sent, conn, n, spun>>

(* Mutant: the end is only seen by a Read that has room. *)
ReadEOFWithRoom ==
  /\ pc = "reading"
  /\ conn = "ended"
  /\ n = sent
  /\ Room > 0
  /\ pc' = "done"
  /\ reply' = 200
  /\ UNCHANGED <<query, body, sent, conn, n, spun>>

ReadEOF ==
  /\ pc = "reading"
  /\ conn = "ended"
  /\ n = sent
  /\ pc' = "done"
  /\ reply' = 200
  /\ UNCHANGED <<query, body, sent, conn, n, spun>>

(* The error is dropped, and what has been read returned as the answer.    *)
ReadError ==
  /\ pc = "reading"
  /\ conn = "broken"
  /\ Room > 0 \/ n = sent
  /\ pc' = "done"
  /\ reply' = 200
  /\ UNCHANGED <<query, body, sent, conn, n, spun>>

(* Nothing is read and nothing is wrong: the loop goes round.  A broken    *)
(* connection may go unnoticed too, for a Read without room does not ask   *)
(* it for bytes.                                                           *)
ReadNothing ==
  /\ pc = "reading"
  /\ Room = 0
  /\ n < body \/ conn = "open"
  /\ spun' = TRUE
  /\ UNCHANGED <<query, reply, body, sent, conn, n, pc>>

Read == ReadBytes \/ ReadEOF \/ ReadError \/ ReadNothing

Handler == Refuse \/ Ask \/ AskFails \/ Read

Next == PeerAnswers \/ PeerSends \/ PeerEnds \/ ConnBreaks \/ Handler

Spec == Init /\ [][Next]_vars

(* The goroutine runs, and the client's timeout closes the connection;     *)
(* VictoriaMetrics need not send.                                          *)
FairSpec == Spec /\ WF_vars(Handler) /\ WF_vars(ConnBreaks)

-----------------------------------------------------------------------------
(* Properties. *)

(* An answer that is returned is the whole body, unless the connection     *)
(* broke: however the body was cut into Reads, none of it is lost.         *)
CompleteUnlessBroken == reply = 200 /\ conn # "broken" => n = body

(* A request is answered whenever the body that VictoriaMetrics has for it *)
(* fits the buffer, one of exactly its size too, and whether it sends that *)
(* or stops on the way.                                                    *)
SmallAnswered == body <= Cap ~> reply # 0

(* Documented, and not so: the handler proxies queries to VictoriaMetrics; *)
(* with an answer longer than the buffer it never returns.                 *)
Answered == <>(reply # 0)
=============================================================================
