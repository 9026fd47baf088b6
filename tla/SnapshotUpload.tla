--------------------------- MODULE SnapshotUpload ---------------------------
(***************************************************************************)
(* `seictl task snapshot-upload' as a Kubernetes Job runs it: attempts one *)
(* after the other, each submitting one upload task to a node's sidecar    *)
(* and polling it to a terminal state (src/task/snapshot_upload.go).       *)
(*                                                                         *)
(* The sidecar, the Job's backoff and the operator who deletes tasks are   *)
(* external.  The sidecar runs the task on its own clock, with a deadline  *)
(* of its own; an answer of any call may be lost.                          *)
(***************************************************************************)
EXTENDS Naturals

CONSTANTS
  MaxAttempts,      \* bound: attempts the Job makes
  Horizon,          \* bound: the last instant of the clock
  UploadDeadline,   \* the sidecar fails an upload that runs longer
  RequestTimeout,   \* one HTTP call of the CLI
  PollBound         \* --timeout

ASSUME BoundsAssumption ==
  /\ MaxAttempts \in Nat /\ Horizon \in Nat /\ UploadDeadline \in Nat
  /\ RequestTimeout \in Nat /\ PollBound \in Nat

\* The default of --timeout leaves the sidecar's deadline and the submit behind.
ASSUME DefaultTimeoutAssumption == PollBound > UploadDeadline + RequestTimeout

Attempts == 1..MaxAttempts
Healthy  == {"uploaded", "noop"}
Outcomes == Healthy \cup {"unrecognized"}
States   == {"none", "running", "completed", "failed", "gone"}
Exits    == {"none", "ok", "failed", "timeout", "deleted", "error", "killed"}

VARIABLES
  now,        \* the clock
  pc,         \* per attempt: where it is
  exit,       \* how it ended
  started,    \* when its context was made
  answered,   \* its submit was answered
  task        \* the sidecar's rows, by task ID

vars == <<now, pc, exit, started, answered, task>>

\* verdict and began are history: they outlive the row.
NoTask == [state |-> "none", outcome |-> "unrecognized", began |-> 0,
           verdict |-> "none"]

Tasks == [state : States, outcome : Outcomes, began : Nat,
          verdict : {"none", "completed", "failed"}]

TypeOK ==
  /\ now \in 0..Horizon
  /\ pc \in [Attempts -> {"idle", "submit", "poll", "wait", "done"}]
  /\ exit \in [Attempts -> Exits]
  /\ started \in [Attempts -> 0..Horizon]
  /\ answered \in [Attempts -> BOOLEAN]
  /\ task \in [Attempts -> Tasks]

Init ==
  /\ now = 0
  /\ pc = [a \in Attempts |-> "idle"]
  /\ exit = [a \in Attempts |-> "none"]
  /\ started = [a \in Attempts |-> 0]
  /\ answered = [a \in Attempts |-> FALSE]
  /\ task = [a \in Attempts |-> NoTask]

-----------------------------------------------------------------------------
(* The pure decisions of the command.                                      *)

\* Mutant: one ID for all attempts.
ReusedID(a) == 1

\* uuid.New: an ID no other attempt has.
TaskID(a) == a

\* Mutants: the bound is the sidecar's own, or there is none.
SidecarBound(a) == started[a] + UploadDeadline
NoBound(a) == Horizon + 1

\* context.WithTimeout.
Deadline(a) == started[a] + PollBound

\* classifyUpload: a completed task with an outcome it does not know is no
\* success.
classifyUpload(t) ==
  IF t.state = "completed" /\ t.outcome \in Healthy THEN "ok" ELSE "failed"

\* Mutant: an error of a GET ends the poll.
PollOnceAborts(answer, t) ==
  CASE answer = "error"                      -> "error"
    [] t.state = "gone"                      -> "deleted"
    [] t.state \in {"completed", "failed"}   -> classifyUpload(t)
    [] OTHER                                 -> "wait"

\* One turn of pollUntilTerminal: a 404 ends it, any other error does not.
PollOnce(answer, t) ==
  CASE answer = "error"                      -> "wait"
    [] t.state = "gone"                      -> "deleted"
    [] t.state \in {"completed", "failed"}   -> classifyUpload(t)
    [] OTHER                                 -> "wait"

-----------------------------------------------------------------------------
(* One attempt.                                                            *)

Goto(a, l) == pc' = [pc EXCEPT ![a] = l]

Exit(a, how) == Goto(a, "done") /\ exit' = [exit EXCEPT ![a] = how]

\* The Job starts an attempt when the one before it exited nonzero.  Its
\* discovery of a node may find none.  The clock bounds only leave it room.
Start(a) ==
  /\ pc[a] = "idle" /\ now + PollBound <= Horizon
  /\ \A b \in Attempts : b < a => pc[b] = "done" /\ exit[b] # "ok"
  /\ started' = [started EXCEPT ![a] = now]
  /\ \/ Goto(a, "submit") /\ UNCHANGED exit
     \/ Exit(a, "error")
  /\ UNCHANGED <<now, answered, task>>

\* The sidecar stores the task, unless it knows the ID.
Store(a) ==
  IF task[TaskID(a)].state = "none"
  THEN task' = [task EXCEPT ![TaskID(a)].state = "running",
                            ![TaskID(a)].began = now]
  ELSE UNCHANGED task

Submit(a) ==
  /\ pc[a] = "submit"
  /\ Store(a)
  /\ answered' = [answered EXCEPT ![a] = TRUE]
  /\ Goto(a, "poll")
  /\ UNCHANGED <<now, exit, started>>

\* A submit without an answer ends the run, whether it was stored or not; one
\* that hung reads as a timeout.
SubmitFails(a) ==
  /\ pc[a] = "submit"
  /\ Store(a) \/ UNCHANGED task
  /\ Exit(a, "error") \/ Exit(a, "timeout")
  /\ UNCHANGED <<now, started, answered>>

Poll(a) ==
  /\ pc[a] = "poll"
  /\ \E answer \in {"row", "error"} :
       LET next == PollOnce(answer, task[TaskID(a)])
       IN \/ next = "wait" /\ Goto(a, "wait") /\ UNCHANGED exit
          \/ next # "wait" /\ Exit(a, next)
  /\ UNCHANGED <<now, started, answered, task>>

\* The ticker fires.
Wake(a) ==
  /\ pc[a] = "wait"
  /\ Goto(a, "poll")
  /\ UNCHANGED <<now, exit, started, answered, task>>

\* The context ends the wait, or the GET it bounds.
Expire(a) ==
  /\ pc[a] \in {"poll", "wait"} /\ now >= Deadline(a)
  /\ Exit(a, "timeout")
  /\ UNCHANGED <<now, started, answered, task>>

\* The pod of the attempt is evicted.
Kill(a) ==
  /\ pc[a] \in {"submit", "poll", "wait"}
  /\ Exit(a, "killed")
  /\ UNCHANGED <<now, started, answered, task>>

-----------------------------------------------------------------------------
(* The sidecar, the operator and the clock.                                *)

Finish(i) ==
  /\ task[i].state = "running"
  /\ \/ \E o \in Outcomes :
          task' = [task EXCEPT ![i].state = "completed", ![i].outcome = o,
                               ![i].verdict = "completed"]
     \/ task' = [task EXCEPT ![i].state = "failed", ![i].verdict = "failed"]
  /\ UNCHANGED <<now, pc, exit, started, answered>>

\* `seictl task delete': a running task is cancelled, a row is removed.
Delete(i) ==
  /\ task[i].state \notin {"none", "gone"}
  /\ task' = [task EXCEPT ![i].state = "gone"]
  /\ UNCHANGED <<now, pc, exit, started, answered>>

\* No call outlives its bound, no upload outlives the sidecar's deadline.
InTime ==
  /\ \A a \in Attempts :
       /\ pc[a] = "submit" => now < started[a] + RequestTimeout
       /\ pc[a] \in {"poll", "wait"} => now < Deadline(a)
  /\ \A i \in Attempts :
       task[i].state = "running" => now < task[i].began + UploadDeadline

Tick ==
  /\ now < Horizon /\ InTime
  /\ now' = now + 1
  /\ UNCHANGED <<pc, exit, started, answered, task>>

Attempt(a) ==
  \/ Start(a) \/ Submit(a) \/ SubmitFails(a) \/ Poll(a) \/ Wake(a) \/ Expire(a)

Next ==
  \/ Tick
  \/ \E a \in Attempts : Attempt(a) \/ Kill(a) \/ Finish(a) \/ Delete(a)

Spec == Init /\ [][Next]_vars

\* The process runs, time passes and the sidecar keeps its deadline; the Job
\* need not start an attempt and the operator need not delete a task.
Fairness ==
  /\ WF_vars(Tick)
  /\ \A a \in Attempts :
       /\ WF_vars(Submit(a) \/ SubmitFails(a)) /\ WF_vars(Poll(a) \/ Wake(a))
       /\ WF_vars(Expire(a)) /\ WF_vars(Finish(a))

FairSpec == Spec /\ Fairness

-----------------------------------------------------------------------------
(* Properties.                                                             *)

\* Exit 0 stands for an upload (or a healthy noop) that ran for this attempt:
\* never for the row of an earlier one (runSnapshotUpload, 111-114).
OkIsOwnUpload ==
  \A a \in Attempts : exit[a] = "ok" =>
    /\ task[TaskID(a)].verdict = "completed" /\ task[TaskID(a)].outcome \in Healthy
    /\ task[TaskID(a)].began >= started[a]

\* The poll bound never fires before the sidecar's does (the --timeout help
\* text, 246): when it fires, the upload is not running any more.
PollBoundIsLast ==
  \A a \in Attempts : answered[a] /\ exit[a] = "timeout"
                      => task[TaskID(a)].state # "running"

\* The Job never runs two uploads at once because of a failed GET
\* (pollUntilTerminal, 130-135): the earlier attempt was killed, or it never
\* had an answer to its submit.
NoRedundantUpload ==
  \A a, b \in Attempts :
    /\ a < b
    /\ task[TaskID(a)].state = "running" /\ task[TaskID(b)].state = "running"
    => exit[a] = "killed" \/ ~answered[a]

\* An attempt that was started ends, whatever the sidecar answers.
AttemptsEnd == \A a \in Attempts : (pc[a] # "idle") ~> (pc[a] = "done")

=============================================================================
