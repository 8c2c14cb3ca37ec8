-------------------------------- MODULE Requests --------------------------------
(***************************************************************************)
(* One request of go-kt's HTTP client (src/vendor/github.com/katbyte/      *)
(* go-kt/httpc/http.go), under every call to Prowlarr: Fetch, which reads  *)
(* the answer whole and asks again for one that stopped part way, around   *)
(* RetryTransport.RoundTrip, which sends a request again after a passing   *)
(* failure.  Both count on the one counter the request carries.            *)
(***************************************************************************)
EXTENDS Naturals

CONSTANTS Tries,  \* Retry.Tries
          Never   \* the request has not been sent

ASSUME TriesAssumption == Tries \in Nat \ {0}

VARIABLES safe,        \* retrySafe: a read, or marked as one
          rewindable,  \* its body can be sent a second time
          again,       \* resent.n: how often it has been sent again
          pc,          \* "send", "judge", "body", "sleep", "answer" or "error"
          came,        \* what the last try came to
          over,        \* ctx has ended, or the client's time is up
          sends,       \* history: how often it was sent
          landed       \* history: how often the server has acted on it

request == <<safe, rewindable>>
vars == <<request, again, pc, came, over, sends, landed>>

(* No answer: the connection dropped, or another error.  A status the      *)
(* server refuses with before it acts (429), one worth another try (502,   *)
(* 503, 504), or any other; and a body that is still to be read.           *)
Failures == {"dropped", "unreachable"}
Statuses == {"429", "5xx", "other"}
BodyEnds == {"stopped", "broken"}

(* Types, and what the counter says of how often the request went out.     *)
TypeOK ==
  /\ safe \in BOOLEAN /\ rewindable \in BOOLEAN
  /\ again \in 0..(Tries - 1)
  /\ pc \in {"send", "judge", "body", "sleep", "answer", "error"}
  /\ came \in Failures \cup Statuses \cup BodyEnds \cup {Never}
  /\ over \in BOOLEAN
  /\ sends \in CASE pc \in {"send", "sleep"} -> {again}
                  [] pc = "error" -> {again, again + 1}
                  [] OTHER -> {again + 1}
  /\ landed \in 0..sends

Init ==
  /\ safe \in BOOLEAN
  /\ rewindable \in BOOLEAN
  /\ again = 0
  /\ pc = "send"
  /\ came = Never
  /\ over = FALSE
  /\ sends = 0
  /\ landed = 0

(* The request goes out.  A server acts on what reaches it before its      *)
(* answer is lost, or not; it does not act on what it answers 429 to.      *)
Send ==
  /\ pc = "send"
  /\ sends' = sends + 1
  /\ came' \in Failures \cup Statuses
  /\ landed' \in IF came' = "429" THEN {landed} ELSE {landed, landed + 1}
  /\ pc' = "judge"
  /\ UNCHANGED <<request, again, over>>

(* Bug: the try that was just made is not counted. *)
LeftOneMore == again < Tries

(* Another try is left. *)
Left == again < Tries - 1

(* Bug: a write is sent again like a read. *)
MayRepeatAny ==
  \/ came \in {"dropped", "stopped"} /\ ~over
  \/ came \in {"429", "5xx"}

(* What came is worth another try, and another try cannot do the work      *)
(* twice.                                                                  *)
MayRepeat ==
  \/ came \in {"dropped", "stopped"} /\ safe /\ ~over
  \/ came = "429"
  \/ came = "5xx" /\ safe

Repeat ==
  /\ again' = again + 1
  /\ pc' = "sleep"
  /\ UNCHANGED <<request, came, over, sends, landed>>

(* RoundTrip: the request is sent again, or what came is handed up to      *)
(* Fetch, as an error or as an answer whose body is still to be read.      *)
RoundTripRepeats ==
  /\ pc = "judge"
  /\ Left /\ MayRepeat /\ rewindable
  /\ Repeat

RoundTripReturns ==
  /\ pc = "judge"
  /\ ~(Left /\ MayRepeat /\ rewindable)
  /\ pc' = IF came \in Failures THEN "error" ELSE "body"
  /\ UNCHANGED <<request, again, came, over, sends, landed>>

(* Fetch: the body is read to its end, *)
BodyRead ==
  /\ pc = "body"
  /\ came \notin BodyEnds
  /\ pc' = "answer"
  /\ UNCHANGED <<request, again, came, over, sends, landed>>

(* or stops part way, like a dropped connection, or for another reason. *)
BodyStops ==
  /\ pc = "body"
  /\ came \notin BodyEnds
  /\ came' \in BodyEnds
  /\ UNCHANGED <<request, again, pc, over, sends, landed>>

FetchRepeats ==
  /\ pc = "body"
  /\ came \in BodyEnds
  /\ Left /\ MayRepeat /\ rewindable
  /\ Repeat

FetchReturns ==
  /\ pc = "body"
  /\ came \in BodyEnds
  /\ ~(Left /\ MayRepeat /\ rewindable)
  /\ pc' = "error"
  /\ UNCHANGED <<request, again, came, over, sends, landed>>

(* The wait before another try is waited out, or the caller's time ends    *)
(* it; when both have come, either is taken.                               *)
SleptOut ==
  /\ pc = "sleep"
  /\ pc' = "send"
  /\ UNCHANGED <<request, again, came, over, sends, landed>>

SleepEnds ==
  /\ pc = "sleep"
  /\ over
  /\ pc' = "error"
  /\ UNCHANGED <<request, again, came, over, sends, landed>>

TimeUp ==
  /\ ~over
  /\ over' = TRUE
  /\ UNCHANGED <<request, again, pc, came, sends, landed>>

Next ==
  \/ Send \/ RoundTripRepeats \/ RoundTripReturns
  \/ BodyRead \/ BodyStops \/ FetchRepeats \/ FetchReturns
  \/ SleptOut \/ SleepEnds \/ TimeUp

Spec == Init /\ [][Next]_vars

-----------------------------------------------------------------------------
(* A write is acted on once at most, however its answers are lost, refused *)
(* or cut short ("without ever re-sending a write whose fate is unknown"). *)
WriteLandsOnce == ~safe => landed <= 1

(* Fetch and RoundTrip together send a request no more often than Tries    *)
(* ("Fetch's own re-reads count against the same number").                 *)
SentNoMoreThanTries == sends <= Tries

(* What makes it hold: a write that goes out again has not been acted on.  *)
IInv ==
  /\ TypeOK
  /\ ~safe => landed <= 1
  /\ ~safe /\ (pc \in {"send", "sleep"} \/ came = "429") => landed = 0
  /\ pc = "send" /\ again = 0 => landed = 0
=============================================================================
