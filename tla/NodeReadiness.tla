--------------------------- MODULE NodeReadiness ---------------------------
(***************************************************************************)
(* The commands that wait for a node, over the node they wait for.  They   *)
(* only read, and share nothing: each behaviour has one of them.           *)
(***************************************************************************)
EXTENDS NodeWatch, AwaitValidator

vars == <<nodeVars, watchVars, awaitVars>>

TypeOK == NodeTypeOK /\ WatchTypeOK /\ AwaitTypeOK

\* The other command has ended before it began.
NoWatch ==
  /\ until = "Running" /\ pc = "done" /\ exit = "none"
  /\ deadline = 0 /\ ended = 0 /\ events = <<>>
  /\ began = [at |-> 0, uid |-> 0, data |-> "old"] /\ seen = NothingSeen

NoAwait ==
  /\ malformed = FALSE /\ apc = "done" /\ aexit = "none"
  /\ since = 0 /\ aended = 0 /\ reached = FALSE /\ served = Horizon + 1

Init ==
  /\ NodeInit
  /\ \/ /\ WatchInit /\ NoAwait
        /\ until # "caught-up" => proc = "down" /\ plan = "none" /\ data = "old"
     \/ /\ AwaitInit /\ NoWatch
        /\ plan = "none" /\ data = "old" /\ node.phase \in {"None", "Running"}

Watching == pc # "done"
Probing  == Watching /\ until = "caught-up"
Awaiting == apc # "done"

\* Whatever happens to the node, of what the command at work may look at.
Environment ==
  /\ \/ Watching /\ Objects
     \/ Probing /\ Resync
     \/ (Probing \/ Awaiting) /\ Process
     \/ Awaiting /\ Bond
  /\ Streamed
  /\ Noticed

Tick ==
  /\ Watching \/ Awaiting
  /\ now < Horizon /\ WatchInTime /\ AwaitInTime
  /\ now' = now + 1
  /\ UNCHANGED <<node, uids, writes, process, watchVars, awaitVars>>

Next ==
  \/ Environment
  \/ Watch /\ UNCHANGED awaitVars
  \/ Await /\ UNCHANGED watchVars
  \/ Tick

Spec == Init /\ [][Next]_vars

-----------------------------------------------------------------------------
(* Properties.                                                             *)

Ready == exit = "ok" /\ until = "caught-up"

\* Exit 0 of the caught-up watch rests on answers in their order: Running, the
\* endpoints, caught up, and the EVM listener where one is published, each of
\* the node of the answer before or of one that replaced it (watchCaughtUp).
ReadyInOrder ==
  Ready => /\ 0 < seen.matched /\ seen.matched <= seen.read
           /\ seen.read <= seen.caught
           /\ ServesEVM(seen.kind) => seen.caught <= seen.evm

\* The catch-up that workflow/README.md:31-39 sends the operator to verify: a
\* caught-up watch begun once the data are wiped, after the Complete above all, only
\* succeeds on a seid that was started on the wiped data, although the status may
\* say Running all the time, or on a node that replaced it.  One begun earlier, while
\* the node is marked only, may succeed on the seid from before.
ResyncVerified ==
  Ready /\ began.data = "wiped" => seen.runs = "wiped" \/ seen.caught > began.uid

\* --timeout bounds the whole sequence of the caught-up watch
\* (seinode/watch.go:69-70), and the await loop overruns its own by one sleep and
\* one attempt at most (await.go:76-105).
CommandsEndInTime ==
  /\ exit # "none" => ended <= began.at + Timeout
  /\ aexit # "none" => aended < AwaitTimeout + BackOff + AttemptTimeout

\* The await loop does not give up on a validator that is there: at its timeout
\* the API has not served it for longer than one attempt.
ReachableIsFound ==
  aexit = "timeout" => aended <= served + AttemptTimeout

=============================================================================
