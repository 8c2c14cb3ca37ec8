-------------------------------- MODULE Turns --------------------------------
(***************************************************************************)
(* What a set of locks promises the calls that use it (go-kt's lock.Set,   *)
(* src/vendor/github.com/katbyte/go-kt/lock): a call names some keys, or   *)
(* everything, waits, and then has its turn at all it named at once.  No   *)
(* two calls have a turn at one key together, and a turn at everything is  *)
(* had alone.  How the turns are arranged is LockSet's business.           *)
(***************************************************************************)
CONSTANTS Callers,  \* the calls that take turns
          Keys      \* what a call can name

VARIABLES phase,    \* where each caller is: idle, waiting or in its turn
          named,    \* the keys it named
          whole     \* whether it named everything there is or could be

vars == <<phase, named, whole>>

TypeOK ==
  /\ phase \in [Callers -> {"idle", "waiting", "turn"}]
  /\ named \in [Callers -> SUBSET Keys]
  /\ whole \in [Callers -> BOOLEAN]

Init ==
  /\ phase = [c \in Callers |-> "idle"]
  /\ named = [c \in Callers |-> {}]
  /\ whole = [c \in Callers |-> FALSE]

(* Two calls that may not have their turns together. *)
Conflict(c, d) ==
  \/ whole[c]
  \/ whole[d]
  \/ named[c] \cap named[d] # {}

(* By(things...) and All() are called. *)
Ask(c, S) ==
  /\ phase[c] = "idle"
  /\ phase' = [phase EXCEPT ![c] = "waiting"]
  /\ named' = [named EXCEPT ![c] = S]
  /\ whole' = [whole EXCEPT ![c] = FALSE]

AskAll(c) ==
  /\ phase[c] = "idle"
  /\ phase' = [phase EXCEPT ![c] = "waiting"]
  /\ named' = [named EXCEPT ![c] = {}]
  /\ whole' = [whole EXCEPT ![c] = TRUE]

(* The call returns: everything it named is its own. *)
Grant(c) ==
  /\ phase[c] = "waiting"
  /\ \A d \in Callers \ {c} : phase[d] = "turn" => ~Conflict(c, d)
  /\ phase' = [phase EXCEPT ![c] = "turn"]
  /\ UNCHANGED <<named, whole>>

(* unlock() is called. *)
Unlock(c) ==
  /\ phase[c] = "turn"
  /\ phase' = [phase EXCEPT ![c] = "idle"]
  /\ named' = [named EXCEPT ![c] = {}]
  /\ whole' = [whole EXCEPT ![c] = FALSE]

Next == \E c \in Callers :
          \/ \E S \in SUBSET Keys : Ask(c, S)
          \/ AskAll(c)
          \/ Grant(c)
          \/ Unlock(c)

Spec == Init /\ [][Next]_vars

-----------------------------------------------------------------------------
(* No two calls have a turn at one thing together, and a turn at all there *)
(* is excludes every other turn (lock.go: By and All).                     *)
OneAtATime ==
  \A c, d \in Callers :
    c # d /\ phase[c] = "turn" /\ phase[d] = "turn" => ~Conflict(c, d)
=============================================================================
