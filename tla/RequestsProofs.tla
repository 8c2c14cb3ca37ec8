---------------------------- MODULE RequestsProofs ----------------------------
(* However many tries a request may have: a write is acted on once at most, *)
(* and no request is sent more often than it may be.  A write that goes out *)
(* again is one the server refused before acting on it (IInv).              *)
EXTENDS Requests, TLAPS

LEMMA InitIInv == Init => IInv
<1> SUFFICES ASSUME Init PROVE IInv
  OBVIOUS
<1>1. again \in 0..(Tries - 1) /\ landed \in 0..sends /\ landed = 0
  BY TriesAssumption DEF Init
<1>2. sends \in CASE pc \in {"send", "sleep"} -> {again}
                  [] pc = "error" -> {again, again + 1}
                  [] OTHER -> {again + 1}
  BY DEF Init
<1>3. pc = "send" /\ safe \in BOOLEAN /\ rewindable \in BOOLEAN /\ over \in BOOLEAN
  BY DEF Init
<1>4. came \in Failures \cup Statuses \cup BodyEnds \cup {Never}
  BY DEF Init
<1>5. TypeOK
  BY <1>1, <1>2, <1>3, <1>4 DEF TypeOK
<1> QED
  BY <1>1, <1>5 DEF IInv

(* A try that is left, for what may be repeated: what sending again needs. *)
LEMMA RepeatIInv ==
  ASSUME IInv, pc \in {"judge", "body"}, Left, MayRepeat, Repeat
  PROVE  IInv'
<1> USE TriesAssumption
<1>1. /\ again' = again + 1
      /\ pc' = "sleep"
      /\ UNCHANGED <<safe, rewindable, came, over, sends, landed>>
  BY DEF Repeat, request
<1>2. /\ again < Tries - 1
      /\ sends = again + 1
  BY DEF Left, IInv, TypeOK
<1>3. TypeOK'
  BY <1>1, <1>2 DEF IInv, TypeOK
<1>4. ~safe => landed = 0
  BY DEF MayRepeat, IInv
<1> QED
  BY <1>1, <1>2, <1>3, <1>4 DEF IInv, TypeOK

LEMMA NextIInv == IInv /\ [Next]_vars => IInv'
<1> SUFFICES ASSUME IInv, [Next]_vars
             PROVE  IInv'
  OBVIOUS
<1> USE TriesAssumption
<1>1. CASE Send
  <2>1. /\ sends' = sends + 1
        /\ came' \in Failures \cup Statuses
        /\ landed' \in {landed, landed + 1}
        /\ came' = "429" => landed' = landed
        /\ pc = "send" /\ pc' = "judge"
        /\ UNCHANGED <<safe, rewindable, again, over>>
    BY <1>1 DEF Send, request
  <2>2. TypeOK'
    BY <2>1 DEF IInv, TypeOK, Failures, Statuses
  <2> QED
    BY <2>1, <2>2 DEF IInv, TypeOK
<1>2. CASE RoundTripRepeats
  BY <1>2, RepeatIInv DEF RoundTripRepeats
<1>3. CASE RoundTripReturns
  BY <1>3 DEF RoundTripReturns, IInv, TypeOK, request
<1>4. CASE BodyRead
  BY <1>4 DEF BodyRead, IInv, TypeOK, request
<1>5. CASE BodyStops
  BY <1>5 DEF BodyStops, IInv, TypeOK, BodyEnds, request
<1>6. CASE FetchRepeats
  BY <1>6, RepeatIInv DEF FetchRepeats
<1>7. CASE FetchReturns
  BY <1>7 DEF FetchReturns, IInv, TypeOK, request
<1>8. CASE SleptOut
  BY <1>8 DEF SleptOut, IInv, TypeOK, request
<1>9. CASE SleepEnds
  BY <1>9 DEF SleepEnds, IInv, TypeOK, request
<1>10. CASE TimeUp
  BY <1>10 DEF TimeUp, IInv, TypeOK, request
<1>11. CASE UNCHANGED vars
  BY <1>11 DEF vars, IInv, TypeOK, request
<1> QED
  BY <1>1, <1>2, <1>3, <1>4, <1>5, <1>6, <1>7, <1>8, <1>9, <1>10, <1>11 DEF Next

THEOREM Inductive == Spec => []IInv
BY InitIInv, NextIInv, PTL DEF Spec

THEOREM TypeCorrect == Spec => []TypeOK
<1>1. IInv => TypeOK
  BY DEF IInv
<1> QED
  BY Inductive, <1>1, PTL

(* A write never does its work twice for being sent again.                 *)
THEOREM LandsOnce == Spec => []WriteLandsOnce
<1>1. IInv => WriteLandsOnce
  BY DEF IInv, WriteLandsOnce
<1> QED
  BY Inductive, <1>1, PTL

(* The two loops that send a request share one limit.                      *)
THEOREM SharedLimit == Spec => []SentNoMoreThanTries
<1>1. IInv => SentNoMoreThanTries
  BY TriesAssumption DEF IInv, TypeOK, SentNoMoreThanTries
<1> QED
  BY Inductive, <1>1, PTL
=============================================================================
