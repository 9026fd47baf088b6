----------------------------- MODULE NodeWatch -----------------------------
(***************************************************************************)
(* `seictl node watch' (src/seinode/watch.go over RunWatch of              *)
(* src/internal/cliutil/watch.go): until a phase, or until caught up: the  *)
(* phase Running, the endpoints the node publishes, catching_up on the     *)
(* Tendermint RPC, and the EVM listener, under one deadline.               *)
(*                                                                         *)
(* External: the informer, and WaitCaughtUp and WaitEVMServing of the SDK, *)
(* which poll until the answer is yes or the context ends.                 *)
(***************************************************************************)
EXTENDS SeiNode

CONSTANTS
  Timeout,      \* --timeout
  Untils        \* the values of --until that are typed

\* Ready is a phase of networks.
ASSUME UntilsAssumption == Untils \subseteq NodePhases \cup {"caught-up", "Ready"}

\* The clock reaches the deadline.
ASSUME TimeoutAssumption == Timeout \in 0..Horizon

VARIABLES
  until,     \* --until
  pc,        \* "start", "list", "watching", "endpoint", "probe", "evm", "done"
  exit,      \* the reason it ended with
  deadline,  \* of its context
  ended,     \* when it ended
  events,    \* the events on their way to it
  began,     \* history: when it began, and the node and its data then
  seen       \* history: the objects behind each answer it relied on

watchVars == <<until, pc, exit, deadline, ended, events, began, seen>>

NothingSeen == [matched |-> 0, read |-> 0, caught |-> 0, evm |-> 0,
                kind |-> "validator", runs |-> "old"]

View == [uid |-> node.uid, phase |-> node.phase]

WatchTypeOK ==
  /\ until \in Untils \cup {"Running"}
  /\ pc \in {"start", "list", "watching", "endpoint", "probe", "evm", "done"}
  /\ exit \in {"none", "ok", "refused", "failed", "timeout", "unpublished", "error"}
  /\ deadline \in 0..Horizon /\ ended \in 0..Horizon
  /\ events \in Seq([uid : 0..MaxNodes, phase : Phases])
  /\ began \in [at : 0..Horizon, uid : 0..MaxNodes, data : Stores]
  /\ seen \in [matched : 0..MaxNodes, read : 0..MaxNodes, caught : 0..MaxNodes,
               evm : 0..MaxNodes, kind : Kinds, runs : Stores]

WatchInit ==
  /\ until \in Untils
  /\ pc = "start" /\ exit = "none"
  /\ deadline = 0 /\ ended = 0 /\ events = <<>>
  /\ began = [at |-> 0, uid |-> 0, data |-> "old"]
  /\ seen = NothingSeen

-----------------------------------------------------------------------------

Finish(how) ==
  /\ pc' = "done" /\ exit' = how /\ ended' = now

\* ValidatePhase; caught-up is no phase.
Legal == until \in NodePhases \cup {"caught-up"}

Start ==
  /\ pc = "start"
  /\ \/ ~Legal /\ Finish("refused") /\ UNCHANGED deadline
     \/ Legal /\ pc' = "list" /\ deadline' = now + Timeout /\ UNCHANGED <<exit, ended>>
  /\ began' = [at |-> now, uid |-> node.uid, data |-> data]
  /\ UNCHANGED <<nodeVars, until, events, seen>>

\* The list that opens the watch.  There need not be a node.
List ==
  /\ pc = "list"
  /\ pc' = "watching"
  /\ events' = IF Exists THEN <<View>> ELSE <<>>
  /\ UNCHANGED <<nodeVars, until, exit, deadline, ended, began, seen>>

\* The informer lists again after a broken connection.
Relist ==
  /\ pc = "watching" /\ events # <<>>
  /\ events' = IF Exists THEN <<View>> ELSE <<>>
  /\ UNCHANGED <<nodeVars, until, pc, exit, deadline, ended, began, seen>>

Awaited == IF until = "caught-up" THEN "Running" ELSE until

\* MatchPhase; no generation gates the watch of a node.
MatchPhase(v) ==
  IF v.phase = Awaited THEN "match"
  ELSE IF v.phase = "Failed" THEN "failed" ELSE "wait"

\* Mutant: Running is enough.
RunningIsEnough == "done"

\* What follows the phase.
AfterMatch == IF until = "caught-up" THEN "endpoint" ELSE "done"

\* One event.  A Failed that comes with the deadline reads as a timeout.
Deliver ==
  /\ pc = "watching" /\ events # <<>>
  /\ LET v == Head(events)
         outcome == MatchPhase(v)
     IN \/ /\ outcome = "match"
           /\ seen' = [seen EXCEPT !.matched = v.uid]
           /\ events' = <<>>
           /\ \/ AfterMatch = "done" /\ Finish("ok")
              \/ AfterMatch # "done" /\ pc' = AfterMatch /\ UNCHANGED <<exit, ended>>
        \/ /\ outcome = "failed"
           /\ Finish("failed") \/ (now >= deadline /\ Finish("timeout"))
           /\ events' = <<>>
           /\ UNCHANGED seen
        \/ /\ outcome = "wait"
           /\ events' = Tail(events)
           /\ UNCHANGED <<pc, exit, ended, seen>>
  /\ UNCHANGED <<nodeVars, until, deadline, began>>

\* Mutant: each part of the sequence gets the timeout anew.
FreshDeadline == now + Timeout

\* The probes run under the context of the watch.
ProbeDeadline == deadline

\* One GET of the object, which need not be Running any more, or be there.
ReadEndpoint ==
  /\ pc = "endpoint"
  /\ \/ /\ Exists /\ node.published /\ node.kind # "validator"
        /\ seen' = [seen EXCEPT !.read = node.uid, !.kind = node.kind]
        /\ pc' = "probe" /\ deadline' = ProbeDeadline
        /\ UNCHANGED <<exit, ended>>
     \/ /\ Exists /\ ~(node.published /\ node.kind # "validator")
        /\ Finish("unpublished")
        /\ UNCHANGED <<deadline, seen>>
     \/ /\ Finish("error")
        /\ UNCHANGED <<deadline, seen>>
  /\ UNCHANGED <<nodeVars, until, events, began>>

\* height > 1 and not catching_up, from an RPC that answers.
CaughtUp == proc = "caught" /\ node.kind # "evm-only"

\* Mutant: the EVM listener is not asked.
NoEVMGate == "done"

\* The EVM listener is only asked for where one was published.
AfterCaughtUp == IF ServesEVM(seen.kind) THEN "evm" ELSE "done"

WaitCaughtUp ==
  /\ pc = "probe" /\ CaughtUp
  /\ seen' = [seen EXCEPT !.caught = node.uid, !.runs = runs]
  /\ \/ AfterCaughtUp = "done" /\ Finish("ok")
     \/ AfterCaughtUp # "done" /\ pc' = AfterCaughtUp /\ UNCHANGED <<exit, ended>>
  /\ UNCHANGED <<nodeVars, until, deadline, events, began>>

WaitEVMServing ==
  /\ pc = "evm" /\ evm
  /\ seen' = [seen EXCEPT !.evm = node.uid]
  /\ Finish("ok")
  /\ UNCHANGED <<nodeVars, until, deadline, events, began>>

\* The context ends the watch with a Status of reason Timeout, and a probe
\* with a plain error, which EmitStatus calls an InternalError.
Expire ==
  /\ now >= deadline
  /\ \/ pc \in {"list", "watching"} /\ Finish("timeout")
     \/ pc \in {"endpoint", "probe", "evm"} /\ Finish("error")
  /\ events' = <<>>
  /\ UNCHANGED <<nodeVars, until, deadline, began, seen>>

\* The API server refuses the watch, or stdout is closed.
WatchFails ==
  /\ pc \in {"start", "list", "watching"}
  /\ Finish("error")
  /\ events' = <<>>
  /\ UNCHANGED <<nodeVars, until, deadline, began, seen>>

Watch ==
  \/ Start \/ List \/ Relist \/ Deliver \/ ReadEndpoint
  \/ WaitCaughtUp \/ WaitEVMServing \/ Expire \/ WatchFails

\* A status update is streamed to the watch that is open; a deletion repeats
\* the last state.
Streamed ==
  /\ events' = IF pc = "watching" /\ node'.uid # 0 /\ View' # View
               THEN Append(events, View') ELSE events
  /\ UNCHANGED <<until, pc, exit, deadline, ended, began, seen>>

\* Nothing outlasts the context.
WatchInTime ==
  /\ pc # "start"
  /\ pc # "done" => now < deadline

=============================================================================
