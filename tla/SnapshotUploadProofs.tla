------------------------ MODULE SnapshotUploadProofs ------------------------
(***************************************************************************)
(* Theorems about SnapshotUpload, for any number of attempts and any       *)
(* bounds that satisfy the assumption on the default of --timeout.         *)
(***************************************************************************)
EXTENDS SnapshotUpload, TLAPS

\* What a terminal row is, or one that was deleted.
Settled == {"completed", "failed", "gone"}

\* What each attempt has done by where it is.
Stages ==
  \A a \in Attempts :
    /\ (exit[a] = "none") <=> (pc[a] # "done")
    /\ pc[a] \in {"idle", "submit"} => task[a].state = "none" /\ ~answered[a]
    /\ pc[a] \in {"poll", "wait"} => answered[a]
    /\ answered[a] => task[a].state # "none"

\* A row is of the attempt whose ID it has: it began while that submitted.
Rows ==
  \A a \in Attempts :
    /\ task[a].state = "completed" => task[a].verdict = "completed"
    /\ task[a].state # "none" =>
         started[a] <= task[a].began /\ task[a].began <= started[a] + RequestTimeout

\* Neither a submit nor an upload outlasts its bound.
Clocks ==
  \A a \in Attempts :
    /\ pc[a] = "submit" => started[a] <= now /\ now <= started[a] + RequestTimeout
    /\ task[a].state = "running" => now <= task[a].began + UploadDeadline

\* An attempt that had an answer and was not killed ends after its upload.
EndsSettled ==
  \A a \in Attempts :
    answered[a] /\ exit[a] \notin {"none", "killed"} => task[a].state \in Settled

\* The Job makes its attempts one after the other.
Sequential ==
  \A a, b \in Attempts : a < b /\ pc[b] # "idle" => pc[a] = "done"

Healthiness ==
  \A a \in Attempts : exit[a] = "ok" =>
    answered[a] /\ task[a].verdict = "completed" /\ task[a].outcome \in Healthy

IInv == Stages /\ Rows /\ Clocks /\ EndsSettled /\ Sequential /\ Healthiness

-----------------------------------------------------------------------------
(* What the sidecar does to its rows.                                      *)

\* A row changes by a field and stays a row.
LEMMA RowTypes ==
  ASSUME NEW t \in Tasks, NEW n \in Nat, NEW o \in Outcomes
  PROVE  /\ [t EXCEPT !.state = "running", !.began = n] \in Tasks
         /\ [t EXCEPT !.state = "completed", !.outcome = o, !.verdict = "completed"] \in Tasks
         /\ [t EXCEPT !.state = "failed", !.verdict = "failed"] \in Tasks
         /\ [t EXCEPT !.state = "gone"] \in Tasks
BY DEF Tasks, States

\* A submit makes a row under its ID, or none if there is one.
LEMMA StoreEffect ==
  ASSUME TypeOK, NEW a \in Attempts, Store(a)
  PROVE  /\ task' \in [Attempts -> Tasks]
         /\ task' = [task EXCEPT ![a] = task'[a]]
         /\ IF task[a].state = "none"
            THEN task'[a] = [task[a] EXCEPT !.state = "running", !.began = now]
            ELSE task' = task
<1> DEFINE row == [task[a] EXCEPT !.state = "running", !.began = now]
<1>1. task[a] \in Tasks /\ now \in Nat
  BY BoundsAssumption DEF TypeOK
<1>2. row \in Tasks
  BY <1>1, RowTypes DEF Outcomes
<1>3. CASE task[a].state = "none"
  <2>1. task' = [task EXCEPT ![a] = row]
    BY <1>3 DEF Store, TaskID, TypeOK
  <2> HIDE DEF row
  <2>2. task' \in [Attempts -> Tasks] /\ task'[a] = row
    BY <1>2, <2>1 DEF TypeOK
  <2>3. QED
    BY <1>3, <2>1, <2>2 DEF row, TypeOK
<1>4. CASE task[a].state # "none"
  BY <1>4 DEF Store, TaskID, TypeOK
<1>5. QED
  BY <1>3, <1>4

\* A row that ends or goes keeps when it began; only a row that was there changes.
LEMMA SidecarEffect ==
  ASSUME TypeOK, NEW i \in Attempts, Finish(i) \/ Delete(i)
  PROVE  /\ task' \in [Attempts -> Tasks]
         /\ task' = [task EXCEPT ![i] = task'[i]]
         /\ task[i].state # "none"
         /\ task'[i].state \in Settled
         /\ task'[i].began = task[i].began
         /\ task'[i].state = "completed" => task'[i].verdict = "completed"
         /\ task[i].state # "running" =>
              task'[i].state = "gone" /\ task'[i].verdict = task[i].verdict
                                      /\ task'[i].outcome = task[i].outcome
<1>1. task[i] \in Tasks
  BY DEF TypeOK
<1>2. ASSUME NEW row \in Tasks, task' = [task EXCEPT ![i] = row]
      PROVE  task' \in [Attempts -> Tasks] /\ task'[i] = row
  BY <1>2 DEF TypeOK
<1>3. ASSUME NEW o \in Outcomes, task[i].state = "running",
             task' = [task EXCEPT ![i].state = "completed", ![i].outcome = o,
                                  ![i].verdict = "completed"]
      PROVE  task' = [task EXCEPT ![i] = [task[i] EXCEPT !.state = "completed",
                                            !.outcome = o, !.verdict = "completed"]]
  BY <1>3 DEF TypeOK
<1>4. ASSUME NEW o \in Outcomes, task[i].state = "running",
             task' = [task EXCEPT ![i].state = "completed", ![i].outcome = o,
                                  ![i].verdict = "completed"]
      PROVE  /\ task' \in [Attempts -> Tasks] /\ task' = [task EXCEPT ![i] = task'[i]]
             /\ task'[i].state = "completed" /\ task'[i].verdict = "completed"
             /\ task'[i].began = task[i].began
  <2> DEFINE row == [task[i] EXCEPT !.state = "completed", !.outcome = o,
                                    !.verdict = "completed"]
  <2>1. row \in Tasks /\ row.state = "completed" /\ row.verdict = "completed"
        /\ row.began = task[i].began
    BY <1>1, RowTypes DEF Tasks
  <2>2. task' = [task EXCEPT ![i] = row]
    BY <1>3, <1>4
  <2> HIDE DEF row
  <2>3. QED
    BY <2>1, <2>2, <1>2
<1>5. ASSUME task[i].state = "running",
             task' = [task EXCEPT ![i].state = "failed", ![i].verdict = "failed"]
      PROVE  /\ task' \in [Attempts -> Tasks] /\ task' = [task EXCEPT ![i] = task'[i]]
             /\ task'[i].state = "failed" /\ task'[i].began = task[i].began
  <2> DEFINE row == [task[i] EXCEPT !.state = "failed", !.verdict = "failed"]
  <2>1. row \in Tasks /\ row.state = "failed" /\ row.began = task[i].began
    BY <1>1, RowTypes DEF Tasks, Outcomes
  <2>2. task' = [task EXCEPT ![i] = row]
    BY <1>5 DEF TypeOK
  <2> HIDE DEF row
  <2>3. QED
    BY <2>1, <2>2, <1>2
<1>6. ASSUME task[i].state \notin {"none", "gone"},
             task' = [task EXCEPT ![i].state = "gone"]
      PROVE  /\ task' \in [Attempts -> Tasks] /\ task' = [task EXCEPT ![i] = task'[i]]
             /\ task'[i].state = "gone" /\ task'[i].began = task[i].began
             /\ task'[i].verdict = task[i].verdict /\ task'[i].outcome = task[i].outcome
  <2> DEFINE row == [task[i] EXCEPT !.state = "gone"]
  <2>1. row \in Tasks /\ row.state = "gone" /\ row.began = task[i].began
        /\ row.verdict = task[i].verdict /\ row.outcome = task[i].outcome
    BY <1>1, RowTypes DEF Tasks, Outcomes
  <2>2. task' = [task EXCEPT ![i] = row]
    BY <1>6 DEF TypeOK
  <2> HIDE DEF row
  <2>3. QED
    BY <2>1, <2>2, <1>2
<1>7. QED
  BY <1>4, <1>5, <1>6 DEF Finish, Delete, Settled

-----------------------------------------------------------------------------
(* Type correctness.                                                       *)

\* Every variable keeps its type through every call, answer, kill and tick of
\* the clock (snapshot_upload.go:32-165).
THEOREM TypeCorrect == Spec => []TypeOK
<1>1. Init => TypeOK
  BY BoundsAssumption DEF Init, TypeOK, NoTask, Tasks, States, Outcomes, Healthy, Exits
<1>2. TypeOK /\ [Next]_vars => TypeOK'
  <2> SUFFICES ASSUME TypeOK, [Next]_vars PROVE TypeOK'
    OBVIOUS
  <2> USE BoundsAssumption DEF TypeOK, Exits
  <2>1. CASE Tick
    BY <2>1 DEF Tick
  <2>2. ASSUME NEW a \in Attempts, Start(a) PROVE TypeOK'
    BY <2>2 DEF Start, Goto, Exit
  <2>3. ASSUME NEW a \in Attempts, Store(a) PROVE task' \in [Attempts -> Tasks]
    BY <2>3, StoreEffect
  <2>4. ASSUME NEW a \in Attempts, Submit(a) PROVE TypeOK'
    BY <2>3, <2>4 DEF Submit, Goto
  <2>5. ASSUME NEW a \in Attempts, SubmitFails(a) PROVE TypeOK'
    BY <2>3, <2>5 DEF SubmitFails, Goto, Exit
  <2>6. ASSUME NEW a \in Attempts, Poll(a) PROVE TypeOK'
    BY <2>6 DEF Poll, PollOnce, classifyUpload, Goto, Exit
  <2>7. ASSUME NEW a \in Attempts, Wake(a) PROVE TypeOK'
    BY <2>7 DEF Wake, Goto
  <2>8. ASSUME NEW a \in Attempts, Expire(a) \/ Kill(a) PROVE TypeOK'
    BY <2>8 DEF Expire, Kill, Goto, Exit
  <2>9. ASSUME NEW a \in Attempts, Finish(a) \/ Delete(a) PROVE TypeOK'
    BY <2>9, SidecarEffect DEF Finish, Delete
  <2>10. CASE UNCHANGED vars
    BY <2>10 DEF vars
  <2>11. QED
    BY <2>1, <2>2, <2>4, <2>5, <2>6, <2>7, <2>8, <2>9, <2>10 DEF Next, Attempt
<1>3. QED
  BY <1>1, <1>2, PTL DEF Spec

-----------------------------------------------------------------------------
(* The inductive invariant.                                                *)

\* An attempt that has not begun or is still submitting leaves nothing.
LEMMA InitInv == Init => IInv
BY DEF Init, IInv, Stages, Rows, Clocks, EndsSettled, Sequential, Healthiness, NoTask, Settled

\* The clock only moves while no bound is due.
LEMMA TickInv ==
  ASSUME TypeOK, IInv, Tick
  PROVE  IInv'
<1> USE DEF IInv, TypeOK
<1>1. Stages' /\ Rows' /\ EndsSettled' /\ Sequential' /\ Healthiness'
  BY DEF Tick, Stages, Rows, EndsSettled, Sequential, Healthiness
<1>2. ASSUME NEW a \in Attempts
      PROVE  /\ pc[a] = "submit" => started[a] <= now + 1 /\ now + 1 <= started[a] + RequestTimeout
             /\ task[a].state = "running" => now + 1 <= task[a].began + UploadDeadline
  <2>1. started[a] \in Nat /\ task[a].began \in Nat /\ now \in Nat
    BY BoundsAssumption DEF Tasks
  <2>2. QED
    BY <2>1, BoundsAssumption DEF Tick, InTime, Clocks
<1>3. Clocks'
  BY <1>2 DEF Tick, Clocks
<1>4. QED
  BY <1>1, <1>3

\* An attempt starts after the others, at the current instant.
LEMMA StartInv ==
  ASSUME TypeOK, IInv, NEW a \in Attempts, Start(a)
  PROVE  IInv'
<1> USE DEF IInv, TypeOK, Start, Goto, Exit
<1>1. Stages' /\ Rows' /\ EndsSettled' /\ Healthiness'
  BY DEF Stages, Rows, EndsSettled, Healthiness, Settled
<1>2. Clocks'
  BY BoundsAssumption DEF Clocks, Stages
<1>3. Sequential'
  BY BoundsAssumption DEF Sequential, Attempts
<1>4. QED
  BY <1>1, <1>2, <1>3

\* A submit stores a row of its own: its ID is new.
LEMMA SubmitInv ==
  ASSUME TypeOK, IInv, NEW a \in Attempts, Submit(a) \/ SubmitFails(a)
  PROVE  IInv'
<1> USE DEF IInv, TypeOK, Goto, Exit
<1>1. task[a].state = "none" /\ ~answered[a] /\ pc[a] = "submit"
  BY DEF Submit, SubmitFails, Stages
<1>2. ASSUME Store(a)
      PROVE  /\ task'[a].state = "running" /\ task'[a].began = now
             /\ \A b \in Attempts \ {a} : task'[b] = task[b]
  <2>1. task[a] \in Tasks /\ task'[a] = [task[a] EXCEPT !.state = "running", !.began = now]
        /\ task' = [task EXCEPT ![a] = task'[a]]
    BY <1>1, <1>2, StoreEffect
  <2>2. QED
    BY <2>1 DEF Tasks
<1>3. \A b \in Attempts \ {a} : /\ task'[b] = task[b] /\ pc'[b] = pc[b]
                                /\ exit'[b] = exit[b] /\ answered'[b] = answered[b]
  BY <1>2 DEF Submit, SubmitFails
<1>4. started' = started /\ now' = now /\ now \in Nat /\ started[a] \in Nat
  BY BoundsAssumption DEF Submit, SubmitFails
<1>5. CASE Submit(a)
  <2>1. pc'[a] = "poll" /\ exit'[a] = exit[a] /\ answered'[a] = TRUE /\ Store(a)
    BY <1>5 DEF Submit
  <2>2. Stages'
    BY <1>1, <1>2, <1>3, <2>1 DEF Stages
  <2>3. Rows' /\ Clocks'
    BY <1>1, <1>2, <1>3, <1>4, <2>1, BoundsAssumption DEF Rows, Clocks
  <2>4. EndsSettled' /\ Healthiness' /\ Sequential'
    BY <1>1, <1>2, <1>3, <2>1 DEF EndsSettled, Healthiness, Sequential, Stages
  <2>5. QED
    BY <2>2, <2>3, <2>4
<1>6. CASE SubmitFails(a)
  <2>1. pc'[a] = "done" /\ exit'[a] \in {"error", "timeout"} /\ answered'[a] = FALSE
        /\ (Store(a) \/ task' = task)
    BY <1>1, <1>6 DEF SubmitFails
  <2>2. Stages'
    BY <1>1, <1>2, <1>3, <2>1 DEF Stages
  <2>3. Rows' /\ Clocks'
    BY <1>1, <1>2, <1>3, <1>4, <2>1, BoundsAssumption DEF Rows, Clocks
  <2>4. EndsSettled' /\ Healthiness' /\ Sequential'
    BY <1>1, <1>2, <1>3, <2>1 DEF EndsSettled, Healthiness, Sequential, Stages
  <2>5. QED
    BY <2>2, <2>3, <2>4
<1>7. QED
  BY <1>5, <1>6

\* A poll ends on a settled row only; "ok" on a healthy one.
LEMMA PollInv ==
  ASSUME TypeOK, IInv, NEW a \in Attempts, Poll(a)
  PROVE  IInv'
<1> USE DEF IInv, TypeOK, Goto, Exit, Poll
<1>1. \/ pc' = [pc EXCEPT ![a] = "wait"] /\ UNCHANGED exit
      \/ /\ pc' = [pc EXCEPT ![a] = "done"]
         /\ \E how \in {"ok", "failed", "deleted"} :
              /\ exit' = [exit EXCEPT ![a] = how]
              /\ task[a].state \in Settled
              /\ how = "ok" => task[a].state = "completed" /\ task[a].outcome \in Healthy
  BY DEF PollOnce, classifyUpload, TaskID, Settled
<1>2. answered[a] /\ task[a].state # "none" /\ pc[a] = "poll"
  BY DEF Stages
<1>3. Stages' /\ Rows' /\ Clocks' /\ Sequential'
  BY <1>1, <1>2 DEF Stages, Rows, Clocks, Sequential
<1>4. EndsSettled' /\ Healthiness'
  BY <1>1, <1>2 DEF EndsSettled, Healthiness, Rows
<1>5. QED
  BY <1>3, <1>4

\* The poll bound fires when the deadlines of the submit and of the sidecar are
\* behind it: the row is settled by then.
LEMMA ExpireInv ==
  ASSUME TypeOK, IInv, NEW a \in Attempts, Expire(a)
  PROVE  IInv'
<1> USE DEF IInv, TypeOK, Goto, Exit, Expire
<1>1. answered[a] /\ task[a].state # "none"
  BY DEF Stages
<1>2. task[a].state # "running"
  <2>1. task[a].began <= started[a] + RequestTimeout
    BY <1>1 DEF Rows
  <2>2. now >= started[a] + PollBound
    BY DEF Deadline
  <2>3. task[a].began \in Nat /\ started[a] \in Nat /\ now \in Nat
    BY BoundsAssumption DEF Tasks
  <2>4. QED
    BY <2>1, <2>2, <2>3, BoundsAssumption, DefaultTimeoutAssumption DEF Clocks
<1>3. task[a].state \in Settled
  BY <1>1, <1>2 DEF Tasks, States, Settled
<1>4. Stages' /\ Rows' /\ Clocks' /\ Sequential'
  BY <1>1 DEF Stages, Rows, Clocks, Sequential
<1>5. EndsSettled' /\ Healthiness'
  BY <1>3 DEF EndsSettled, Healthiness
<1>6. QED
  BY <1>4, <1>5

\* A killed attempt promises nothing; one that wakes polls again.
LEMMA KillInv ==
  ASSUME TypeOK, IInv, NEW a \in Attempts, Kill(a) \/ Wake(a)
  PROVE  IInv'
<1> USE DEF IInv, TypeOK, Goto, Exit
<1>1. Stages' /\ Rows' /\ Clocks' /\ Sequential'
  BY DEF Kill, Wake, Stages, Rows, Clocks, Sequential
<1>2. EndsSettled' /\ Healthiness'
  BY DEF Kill, Wake, EndsSettled, Healthiness
<1>3. QED
  BY <1>1, <1>2

\* What the sidecar and the operator do to a row leaves the verdict that an
\* attempt ended on.
LEMMA SidecarInv ==
  ASSUME TypeOK, IInv, NEW i \in Attempts, Finish(i) \/ Delete(i)
  PROVE  IInv'
<1> USE DEF IInv, TypeOK
<1>1. \A b \in Attempts \ {i} : task'[b] = task[b]
  BY SidecarEffect
<1>2. UNCHANGED <<now, pc, exit, started, answered>>
  BY DEF Finish, Delete
<1>3. Stages' /\ Sequential'
  BY <1>1, <1>2, SidecarEffect DEF Stages, Sequential, Settled
<1>4. Rows' /\ Clocks'
  BY <1>1, <1>2, SidecarEffect DEF Rows, Clocks, Settled
<1>5. EndsSettled' /\ Healthiness'
  BY <1>1, <1>2, SidecarEffect DEF EndsSettled, Healthiness, Settled
<1>6. QED
  BY <1>3, <1>4, <1>5

\* Attempts follow each other, rows are their own, and who had an answer ends
\* after its upload: through every step.
THEOREM Invariance == Spec => []IInv
<1>1. TypeOK /\ IInv /\ [Next]_vars => IInv'
  <2> SUFFICES ASSUME TypeOK, IInv, [Next]_vars PROVE IInv'
    OBVIOUS
  <2>1. CASE UNCHANGED vars
    BY <2>1 DEF vars, IInv, Stages, Rows, Clocks, EndsSettled, Sequential, Healthiness
  <2>2. CASE Next
    BY <2>2, TickInv, StartInv, SubmitInv, PollInv, ExpireInv, KillInv, SidecarInv
    DEF Next, Attempt
  <2>3. QED
    BY <2>1, <2>2
<1>2. QED
  BY <1>1, InitInv, TypeCorrect, PTL DEF Spec

-----------------------------------------------------------------------------
(* The properties.                                                         *)

\* Exit 0 of an attempt stands for a healthy upload of that attempt, never for
\* the row of an earlier one (runSnapshotUpload).
THEOREM OkIsOwn == Spec => []OkIsOwnUpload
<1>1. TypeOK /\ IInv => OkIsOwnUpload
  BY BoundsAssumption
  DEF TypeOK, IInv, OkIsOwnUpload, Healthiness, Rows, Stages, TaskID, Tasks
<1>2. QED
  BY <1>1, TypeCorrect, Invariance, PTL

\* With the default of --timeout, or any that leaves both other deadlines behind,
\* a timeout of the poll means that the upload is not running any more.
THEOREM PollBoundLast == Spec => []PollBoundIsLast
<1>1. IInv => PollBoundIsLast
  BY DEF IInv, PollBoundIsLast, EndsSettled, Settled, TaskID
<1>2. QED
  BY <1>1, Invariance, PTL

\* Two uploads of a Job only ever run at once when the earlier attempt was killed
\* or never had an answer to its submit (pollUntilTerminal).
THEOREM NotRedundant == Spec => []NoRedundantUpload
<1>1. TypeOK /\ IInv => NoRedundantUpload
  <2> SUFFICES ASSUME TypeOK, IInv, NEW a \in Attempts, NEW b \in Attempts, a < b,
                      task[a].state = "running", task[b].state = "running",
                      answered[a]
               PROVE  exit[a] = "killed"
    BY DEF NoRedundantUpload, TaskID
  <2>1. pc[a] = "done"
    BY DEF IInv, Sequential, Stages
  <2>2. QED
    BY <2>1 DEF IInv, Stages, EndsSettled, Settled
<1>2. QED
  BY <1>1, TypeCorrect, Invariance, PTL

=============================================================================
