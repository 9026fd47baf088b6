--------------------------- MODULE AwaitValidator ---------------------------
(***************************************************************************)
(* `seictl await validator' (src/await.go): GET the validator from the     *)
(* REST API of a node until it is there, sleeping between the attempts.    *)
(* The deadline is looked at between an attempt and the sleep, so that it  *)
(* neither interrupts an attempt nor skips the last one.                   *)
(*                                                                         *)
(* External: the API.  An attempt while it serves the validator throughout *)
(* is answered within the client's timeout; any other may be answered by   *)
(* what the API was at its end, or fail.                                   *)
(***************************************************************************)
EXTENDS SeiNode

CONSTANTS
  AwaitTimeout,     \* --timeout
  AttemptTimeout,   \* attemptTimeout
  BackOff           \* backOff

ASSUME AwaitAssumption ==
  AwaitTimeout \in Nat /\ AttemptTimeout \in Nat /\ BackOff \in Nat \ {0}

VARIABLES
  malformed,   \* the address is none
  apc,         \* "attempt", "sleep", "done"
  aexit,       \* "none", "ok", "bad request", "error", "timeout"
  since,       \* when the attempt or the sleep began
  aended,      \* when it ended
  reached,     \* the validator was served since the attempt began
  served       \* history: since when it is served, or Horizon + 1

awaitVars == <<malformed, apc, aexit, since, aended, reached, served>>

AwaitTypeOK ==
  /\ malformed \in BOOLEAN /\ reached \in BOOLEAN
  /\ apc \in {"attempt", "sleep", "done"}
  /\ aexit \in {"none", "ok", "bad request", "error", "timeout"}
  /\ since \in 0..Horizon /\ aended \in 0..Horizon /\ served \in 0..(Horizon + 1)

Available == Served /\ ~malformed

\* The first attempt begins at once, at instant 0.
AwaitInit ==
  /\ malformed \in BOOLEAN
  /\ apc = "attempt" /\ aexit = "none" /\ since = 0 /\ aended = 0
  /\ reached = Available
  /\ served = IF Available THEN 0 ELSE Horizon + 1

-----------------------------------------------------------------------------

AwaitEnds(how) ==
  /\ apc' = "done" /\ aexit' = how /\ aended' = now
  /\ UNCHANGED since

\* An answer whose body can not be read ends the command.
Answered ==
  /\ apc = "attempt" /\ proc # "down" /\ node.kind # "evm-only"
  /\ \/ Available /\ AwaitEnds("ok")
     \/ malformed /\ AwaitEnds("bad request")
     \/ AwaitEnds("error")
  /\ UNCHANGED <<nodeVars, malformed, reached, served>>

\* Mutant: a status other than 200 and 400 ends the command too.
NotYetEnds ==
  /\ apc = "attempt" /\ ~reached
  /\ AwaitEnds("not found")
  /\ UNCHANGED <<nodeVars, malformed, reached, served>>

\* No answer, or another status: 404 of a validator that is not there yet.
NotYet ==
  /\ apc = "attempt" /\ ~reached
  /\ \/ now >= AwaitTimeout /\ AwaitEnds("timeout")
     \/ /\ now < AwaitTimeout
        /\ apc' = "sleep" /\ since' = now
        /\ UNCHANGED <<aexit, aended>>
  /\ UNCHANGED <<nodeVars, malformed, reached, served>>

NextAttempt ==
  /\ apc' = "attempt" /\ since' = now /\ reached' = Available
  /\ UNCHANGED <<aexit, aended>>

\* Mutant: the deadline is looked at before an attempt too.
WakeChecks ==
  /\ apc = "sleep" /\ now >= since + BackOff
  /\ \/ now >= AwaitTimeout /\ AwaitEnds("timeout") /\ UNCHANGED reached
     \/ now < AwaitTimeout /\ NextAttempt
  /\ UNCHANGED <<nodeVars, malformed, served>>

Wake ==
  /\ apc = "sleep" /\ now >= since + BackOff
  /\ NextAttempt
  /\ UNCHANGED <<nodeVars, malformed, served>>

Await == Answered \/ NotYet \/ Wake

\* Mutant: the client has no timeout.
AttemptUnbounded == Horizon + 1

AttemptEnd == since + AttemptTimeout

AwaitInTime ==
  /\ apc = "attempt" => now < AttemptEnd
  /\ apc = "sleep" => now < since + BackOff

\* What a step of the node means for the attempt under way.
Noticed ==
  /\ UNCHANGED <<malformed, apc, aexit, since, aended>>
  /\ reached' = (reached /\ Available')
  /\ served' = IF ~Available' THEN Horizon + 1 ELSE IF Available THEN served ELSE now

=============================================================================
