---------------------------- MODULE QueryReadProofs ----------------------------
(***************************************************************************)
(* Proofs about QueryRead, for any buffer and any length of answer.        *)
(***************************************************************************)
EXTENDS QueryRead, TLAPS

(* A connection that ended has sent the body; a loop that is done without  *)
(* a broken connection has met its end with nothing left to read; and a    *)
(* Read was given no room only by an answer as long as the buffer.         *)
IInv ==
  /\ TypeOK
  /\ conn = "ended" => sent = body
  /\ reply = 200 => pc = "done" /\ conn # "open"
  /\ reply = 200 /\ conn = "ended" => n = sent
  /\ pc # "done" => reply = 0
  /\ spun => n = Cap

(* Every Read and every step of the peer keeps it. *)
LEMMA ReadKeepsInvariant == IInv /\ [Next]_vars => IInv'
<1> SUFFICES ASSUME IInv, [Next]_vars PROVE IInv'
  OBVIOUS
<1> USE SizesAssumption DEF IInv, TypeOK
<1>1. CASE PeerSends
  BY <1>1 DEF PeerSends
<1>2. CASE PeerEnds \/ PeerAnswers
  BY <1>2 DEF PeerEnds, PeerAnswers
<1>3. CASE ConnBreaks
  BY <1>3 DEF ConnBreaks
<1>4. CASE ReadBytes
  <2>1. PICK k \in 1..(sent - n) : k <= Room /\ n' = n + k
    BY <1>4 DEF ReadBytes
  <2>2. n' \in 0..sent /\ n' <= Cap
    BY <2>1 DEF Room
  <2> QED BY <1>4, <2>2 DEF ReadBytes
<1>5. CASE ReadEOF
  BY <1>5 DEF ReadEOF
<1>6. CASE ReadError
  BY <1>6 DEF ReadError
<1>7. CASE ReadNothing
  BY <1>7 DEF ReadNothing, Room
<1>8. CASE Refuse \/ Ask \/ AskFails
  BY <1>8 DEF Refuse, Ask, AskFails
<1>9. CASE UNCHANGED vars
  BY <1>9 DEF vars
<1> QED BY <1>1, <1>2, <1>3, <1>4, <1>5, <1>6, <1>7, <1>8, <1>9
     DEF Next, Handler, Read

(* Nothing is read of an answer that has not begun. *)
LEMMA InitMeetsInvariant == Init => IInv
<1> SUFFICES ASSUME Init PROVE IInv
  OBVIOUS
<1>1. body \in 0..MaxBody
  BY DEF Init
<1>2. sent \in 0..body /\ n \in 0..sent /\ n <= Cap
  BY <1>1, SizesAssumption DEF Init
<1>3. TypeOK
  BY <1>1, <1>2 DEF Init, TypeOK
<1> QED BY <1>3 DEF Init, IInv

(* So it holds in every reachable state. *)
LEMMA ReadInvariant == Spec => []IInv
BY InitMeetsInvariant, ReadKeepsInvariant, PTL DEF Spec

(* What has been read fits the buffer and has been sent. *)
THEOREM ReadTypeCorrect == Spec => []TypeOK
<1>1. IInv => TypeOK
  BY DEF IInv
<1> QED BY <1>1, ReadInvariant, PTL

(* What is returned is the whole body unless the connection broke.         *)
THEOREM AnswersComplete == Spec => []CompleteUnlessBroken
<1>1. IInv => CompleteUnlessBroken
  BY DEF IInv, TypeOK, CompleteUnlessBroken
<1> QED BY <1>1, ReadInvariant, PTL

(* The loop with a full buffer and more bytes there. *)
Overfull == pc = "reading" /\ n = Cap /\ n < sent

(* A loop that gets there never leaves: whatever the peer sends or breaks  *)
(* off, its request has no answer, not even an error, and its goroutine    *)
(* has no end.                                                             *)
THEOREM LongNeverAnswered == Spec => [](Overfull => [](Overfull /\ reply = 0))
<1>1. IInv /\ Overfull /\ [Next]_vars => Overfull'
  <2> SUFFICES ASSUME IInv, Overfull, [Next]_vars PROVE Overfull'
    OBVIOUS
  <2> USE SizesAssumption DEF IInv, TypeOK, Overfull
  <2>1. Room = 0
    BY DEF Room
  <2>2. CASE PeerSends
    BY <2>2 DEF PeerSends
  <2>3. CASE PeerEnds \/ PeerAnswers \/ ConnBreaks
    BY <2>3 DEF PeerEnds, PeerAnswers, ConnBreaks
  <2>4. CASE Refuse \/ Ask \/ AskFails
    BY <2>4 DEF Refuse, Ask, AskFails
  <2>5. CASE Read
    BY <2>1, <2>5 DEF Read, ReadBytes, ReadEOF, ReadError, ReadNothing
  <2>6. CASE UNCHANGED vars
    BY <2>6 DEF vars
  <2> QED BY <2>2, <2>3, <2>4, <2>5, <2>6 DEF Next, Handler
<1>2. IInv /\ Overfull => reply = 0
  BY DEF IInv, Overfull
<1> QED BY <1>1, <1>2, ReadInvariant, PTL DEF Spec

(* With an answer shorter than the buffer the loop never goes round for    *)
(* nothing; with one that just fits, only while the peer may still send or *)
(* end: after that there are bytes to read and room for them, or the end.  *)
SmallGoesOn ==
  /\ body < Cap => ~spun
  /\ pc = "reading" /\ conn # "open" /\ body <= Cap =>
       n = sent \/ (n < sent /\ Room > 0)

(* So SmallAnswered rests on nothing but the loop's running on. *)
THEOREM SmallNeverSpins == Spec => []SmallGoesOn
<1>1. IInv => SmallGoesOn
  BY SizesAssumption DEF IInv, TypeOK, Room, SmallGoesOn
<1> QED BY <1>1, ReadInvariant, PTL
=============================================================================
