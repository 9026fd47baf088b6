----------------------------- MODULE StateSync -----------------------------
(***************************************************************************)
(* The `seictl workflow' commands, run by any number of processes against  *)
(* the same names: state-sync (watching, --no-watch, --dry-run), apply,    *)
(* watch and delete (src/workflow, src/internal/cliutil/watch.go).         *)
(*                                                                         *)
(* The API calls of one process are separate steps, so anything may happen *)
(* between a read and the call that relies on it: other runs, the          *)
(* controller, the operator, a deletion and a re-creation of the name.     *)
(***************************************************************************)
EXTENDS WorkflowCluster

CONSTANT CommandLines   \* the command lines the operators may type

Commands == {"state-sync", "apply", "dry-run", "watch", "delete"}
Untils   == {"Pending", "Running", "Complete", "Failed"}
Args     == [cmd : Commands, name : Names, spec : Specs, until : Untils]
Pcs      == {"idle", "preflight", "apply", "list", "watching", "delete", "done"}
Exits    == {"none", "ok", "refused", "failed", "timeout", "error"}

\* Only `workflow watch' takes --until; state-sync waits for Complete.
ASSUME CommandLinesAssumption ==
  /\ CommandLines \subseteq Args
  /\ \A a \in CommandLines : a.cmd # "watch" => a.until = "Complete"

NoView == [uid |-> 0, params |-> CHOOSE p \in Params : TRUE, obs |-> 0,
           phase |-> "None", since |-> {}, fresh |-> {}]

VARIABLES
  pc,          \* where each run is
  arg,         \* its command line
  appliedGen,  \* the generation the apply answered with: the watch's gate
  exit,        \* how the run ended
  verdict,     \* the object the exit is based on
  appliedUid,  \* history: the object the apply answered with
  changed,     \* history: the apply changed the object (created or edited it)
  missed       \* history: the last Complete object the watch let pass

cliVars == <<pc, arg, appliedGen, exit, verdict, appliedUid, changed, missed>>
vars == <<clusterVars, cliVars>>

TypeOK ==
  /\ ClusterTypeOK
  /\ pc \in [Runs -> Pcs]
  /\ arg \in [Runs -> CommandLines]
  /\ appliedGen \in [Runs -> Nat]
  /\ exit \in [Runs -> Exits]
  /\ verdict \in [Runs -> Views]
  /\ appliedUid \in [Runs -> Nat]
  /\ changed \in [Runs -> BOOLEAN]
  /\ missed \in [Runs -> Views]

Init ==
  /\ ClusterInit
  /\ pc = [r \in Runs |-> "idle"]
  /\ arg \in [Runs -> CommandLines]
  /\ appliedGen = [r \in Runs |-> 0]
  /\ exit = [r \in Runs |-> "none"]
  /\ verdict = [r \in Runs |-> NoView]
  /\ appliedUid = [r \in Runs |-> 0]
  /\ changed = [r \in Runs |-> FALSE]
  /\ missed = [r \in Runs |-> NoView]

-----------------------------------------------------------------------------
(* The pure decisions.                                                     *)

Name(r) == arg[r].name

\* Mutant: watch starts at a step that does not exist.
FirstStepUnknown(cmd) ==
  CASE cmd = "state-sync"           -> "preflight"
    [] cmd \in {"apply", "dry-run"} -> "apply"
    [] cmd = "watch"                -> "watch"
    [] cmd = "delete"               -> "delete"

\* Which command has which first API call.
FirstStep(cmd) ==
  CASE cmd = "state-sync"          -> "preflight"
    [] cmd \in {"apply", "dry-run"} -> "apply"
    [] cmd = "watch"               -> "list"
    [] cmd = "delete"              -> "delete"

\* Mutant: only a Complete workflow is refused.
FailedPasses(n) == Exists(n) => wf[n].phase # "Complete"

\* preflight: an absent or unfinished workflow passes.
PreflightPasses(n) == Exists(n) => wf[n].phase \notin Terminal

\* MatchPhase: the awaited phase is compared before Failed.
MatchPhase(v, until) ==
  IF v.phase = until THEN "match"
  ELSE IF v.phase = "Failed" THEN "failed" ELSE "wait"

\* Mutants: the gate is one generation too lax, or one too strict.
GateTooLax(v, until, minGeneration) ==
  IF v.obs + 1 < minGeneration THEN "wait" ELSE MatchPhase(v, until)

GateTooStrict(v, until, minGeneration) ==
  IF v.obs <= minGeneration THEN "wait" ELSE MatchPhase(v, until)

\* MatchPhaseAtLeastGeneration: a status computed before the awaited
\* generation is no verdict.
MatchPhaseAtLeastGeneration(v, until, minGeneration) ==
  IF v.obs < minGeneration THEN "wait" ELSE MatchPhase(v, until)

-----------------------------------------------------------------------------
(* The commands.                                                           *)

Goto(r, l) == pc' = [pc EXCEPT ![r] = l]

Exit(r, how, v) ==
  /\ Goto(r, "done")
  /\ exit' = [exit EXCEPT ![r] = how]
  /\ verdict' = [verdict EXCEPT ![r] = v]

applyVars == <<appliedGen, appliedUid, changed>>

Start(r) ==
  /\ pc[r] = "idle"
  /\ Goto(r, FirstStep(arg[r].cmd))
  /\ UNCHANGED <<clusterVars, arg, applyVars, exit, verdict, missed>>

\* One GET.  What it read is not looked at again.
Preflight(r) ==
  /\ pc[r] = "preflight"
  /\ \/ /\ PreflightPasses(Name(r))
        /\ Goto(r, "apply")
        /\ checked' = checked \cup {r}
        /\ UNCHANGED <<exit, verdict>>
     \/ /\ ~PreflightPasses(Name(r))
        /\ Exit(r, "refused", View(wf[Name(r)]))
        /\ UNCHANGED checked
  /\ UNCHANGED <<wf, uids, adopted, held, watch, applied, arg, applyVars, missed>>

\* The apply of a state-sync run, whose answer carries the generation.
Apply(r) ==
  /\ pc[r] = "apply" /\ arg[r].cmd = "state-sync"
  /\ ServerSideApply(Name(r), arg[r].spec)
  /\ Goto(r, "list")
  /\ appliedGen' =
       [appliedGen EXCEPT ![r] = GenerationAfterApply(Name(r), arg[r].spec)]
  /\ appliedUid' = [appliedUid EXCEPT ![r] = wf'[Name(r)].uid]
  /\ changed' = [changed EXCEPT ![r] = SpecChanges(Name(r), arg[r].spec)]
  /\ applied' = applied \cup {r}
  /\ UNCHANGED <<adopted, held, checked, arg, exit, verdict, missed>>

\* `workflow apply' and --no-watch print the object and stop.  The answer of
\* any apply may be lost after it was stored: that run reports an error.
ApplyOnly(r) ==
  /\ pc[r] = "apply" /\ arg[r].cmd \in {"apply", "state-sync"}
  /\ ServerSideApply(Name(r), arg[r].spec)
  /\ \/ arg[r].cmd = "apply" /\ Exit(r, "ok", NoView)
     \/ Exit(r, "error", NoView)
  /\ applied' = applied \cup {r}
  /\ UNCHANGED <<adopted, held, checked, arg, applyVars, missed>>

\* --dry-run stores nothing.
DryRun(r) ==
  /\ pc[r] = "apply" /\ arg[r].cmd = "dry-run"
  /\ SpecAccepted(Name(r), arg[r].spec)
  /\ Exit(r, "ok", NoView)
  /\ UNCHANGED <<clusterVars, arg, applyVars, missed>>

\* The list that opens the watch: an existing object is the first event.
List(r) ==
  /\ pc[r] = "list"
  /\ Goto(r, "watching")
  /\ watch' = [watch EXCEPT ![r] =
       [name |-> Name(r),
        events |-> IF Exists(Name(r)) THEN <<View(wf[Name(r)])>> ELSE <<>>]]
  /\ UNCHANGED <<wf, uids, adopted, held, checked, applied,
                 arg, applyVars, exit, verdict, missed>>

\* One event of the watch.
Deliver(r) ==
  /\ pc[r] = "watching" /\ watch[r].events # <<>>
  /\ LET v == Head(watch[r].events)
         outcome == MatchPhaseAtLeastGeneration(v, arg[r].until, appliedGen[r])
     IN \/ /\ outcome = "match"
           /\ Exit(r, "ok", v)
           /\ watch' = [watch EXCEPT ![r] = NoWatch]
           /\ UNCHANGED missed
        \/ /\ outcome = "failed"
           /\ Exit(r, "failed", v)
           /\ watch' = [watch EXCEPT ![r] = NoWatch]
           /\ UNCHANGED missed
        \/ /\ outcome = "wait"
           /\ watch' = [watch EXCEPT ![r].events = Tail(@)]
           /\ missed' = IF v.phase = "Complete" THEN [missed EXCEPT ![r] = v]
                                                 ELSE missed
           /\ UNCHANGED <<pc, exit, verdict>>
  /\ UNCHANGED <<wf, uids, adopted, held, checked, applied, arg, applyVars>>

\* The connection drops and the informer lists again: the events between are
\* lost, the current object is what is seen next.
Relist(r) ==
  /\ pc[r] = "watching" /\ watch[r].events # <<>>
  /\ watch' = [watch EXCEPT ![r].events =
       IF Exists(Name(r)) THEN <<View(wf[Name(r)])>> ELSE <<>>]
  /\ UNCHANGED <<wf, uids, adopted, held, checked, applied, cliVars>>

\* Mutant: the deadline ends with the list.
ListOnly == {"list"}

\* --timeout bounds the watch, and only the watch.
TimedSteps == {"list", "watching"}

Timeout(r) ==
  /\ pc[r] \in TimedSteps
  /\ Exit(r, "timeout", NoView)
  /\ watch' = [watch EXCEPT ![r] = NoWatch]
  /\ UNCHANGED <<wf, uids, adopted, held, checked, applied, arg, applyVars, missed>>

\* Delete never sets the force-delete annotation, and reports success for an
\* object that is only marked.
Delete(r) ==
  /\ pc[r] = "delete"
  /\ \/ /\ DeleteObject(Name(r))
        /\ Exit(r, "ok", NoView)
     \/ /\ ~Exists(Name(r))
        /\ Exit(r, "error", NoView)
        /\ UNCHANGED <<wf, watch>>
  /\ UNCHANGED <<uids, adopted, held, checked, applied, arg, applyVars, missed>>

\* Any call may fail without effect: no connection, a refusal by CEL.
ApiError(r) ==
  /\ pc[r] \in {"preflight", "apply", "delete"}
  /\ Exit(r, "error", NoView)
  /\ UNCHANGED <<clusterVars, arg, applyVars, missed>>

\* The watch has no client, or an event can not be written to stdout.
WatchFails(r) ==
  /\ pc[r] \in {"list", "watching"}
  /\ Exit(r, "error", NoView)
  /\ watch' = [watch EXCEPT ![r] = NoWatch]
  /\ UNCHANGED <<wf, uids, adopted, held, checked, applied, arg, applyVars, missed>>

Progress(r) ==
  \/ Start(r) \/ Preflight(r) \/ Apply(r) \/ ApplyOnly(r) \/ DryRun(r)
  \/ List(r) \/ Deliver(r) \/ Timeout(r) \/ Delete(r) \/ ApiError(r)

Run(r) == Progress(r) \/ WatchFails(r)

Environment ==
  \/ \E n \in Names : Controller(n) /\ UNCHANGED cliVars
  \/ \E n \in Names : Annotate(n) /\ UNCHANGED cliVars
  \/ \E r \in Runs : Relist(r)

Next == Environment \/ \E r \in Runs : Run(r)

Spec == Init /\ [][Next]_vars

\* A process goes on; its watch need not fail.
Fairness == \A r \in Runs : WF_vars(Progress(r))

\* Nothing is assumed of the controller or of the operator.
FairSpec == Spec /\ Fairness

-----------------------------------------------------------------------------
(* Properties.                                                             *)

WatchedSync(r) == arg[r].cmd = "state-sync" /\ exit[r] \in {"ok", "failed"}

\* No false green and no replayed failure: whatever other runs, deletions and
\* re-creations do, the terminal phase a state-sync run exits on was entered
\* after that run's preflight read (preflight, state_sync.go:36-40).
TerminalIsNew == \A r \in Runs : WatchedSync(r) => r \in verdict[r].since

\* When the apply created or edited the object, the status the run exits on
\* was written by the controller after that apply: the generation gate holds
\* across edits, deletion marks and re-creations (watch.go:44-57).
GateKillsStaleStatus ==
  \A r \in Runs : WatchedSync(r) /\ changed[r] => r \in verdict[r].fresh

\* The gate never costs a run its result: a Complete of the very object it
\* applied, confirmed after the apply, is never let pass by the watch.
CompleteIsHonoured ==
  \A r \in Runs : /\ missed[r].phase = "Complete"
                  /\ arg[r].cmd = "state-sync"
                  /\ missed[r].uid = appliedUid[r]
                  => r \notin missed[r].fresh

\* A run that exits on the very object it applied exits on its own recipe,
\* although runs with other parameters raced it for the name.
SameObjectSameRecipe ==
  \A r \in Runs : WatchedSync(r) /\ verdict[r].uid = appliedUid[r]
                 => verdict[r].params = arg[r].spec.params

\* Every run that was started ends, even when the workflow it watches never
\* does: the watch's deadline is the only thing that guarantees it.
RunsEnd == \A r \in Runs : (pc[r] # "idle") ~> (pc[r] = "done")

-----------------------------------------------------------------------------
(* The inductive invariant behind the safety properties.                   *)

\* What a run is shown is the stored object or an event on its way to it.
Events(w) == {w.events[i] : i \in DOMAIN w.events}

Shown(r) == Events(watch[r])
            \cup (IF Exists(Name(r)) THEN {View(wf[Name(r)])} ELSE {})

\* Where a run has been, and what it has not done yet.
RunStage ==
  \A r \in Runs :
    /\ pc[r] # "done" => exit[r] = "none"
    /\ pc[r] \notin {"watching", "done"} => missed[r].phase # "Complete"
    /\ pc[r] \in {"idle", "preflight", "apply"} => r \notin applied
    /\ r \notin applied => appliedUid[r] = 0
    /\ appliedUid[r] <= uids
    /\ changed[r] => appliedGen[r] >= 1
    /\ changed[r] => r \in applied
    /\ arg[r].cmd = "state-sync" =>
         /\ pc[r] # "delete"
         /\ pc[r] \in {"apply", "list", "watching"} => r \in checked
         /\ pc[r] \in {"list", "watching"} => r \in applied /\ appliedUid[r] > 0

\* A run watches its own name, and only while it is watching.
WatchesItsName ==
  \A r \in Runs : \/ watch[r] = NoWatch
                  \/ pc[r] = "watching" /\ watch[r].name = Name(r)

\* A stored object: its status is never ahead of its spec or of the applies.
Objects ==
  \A n \in Names : Exists(n) =>
    /\ wf[n].uid >= 1 /\ wf[n].uid <= uids
    /\ wf[n].gen >= 1 /\ wf[n].obs <= wf[n].gen
    /\ wf[n].fresh \subseteq applied

\* Nothing a checked run is shown is a terminal phase from before its check.
ShownIsNew ==
  \A r \in checked : \A v \in Shown(r) : v.phase \in Terminal => r \in v.since

\* A status that passes the generation gate of a run was written after it.
GateMeansFresh ==
  \A r \in Runs : changed[r] =>
    \A v \in Shown(r) : v.obs >= appliedGen[r] => r \in v.fresh

\* The object a run applied keeps the run's recipe, and never falls back
\* behind its generation.
OwnObject ==
  \A r \in Runs : r \in applied /\ appliedUid[r] > 0 =>
    /\ (Exists(Name(r)) /\ wf[Name(r)].uid = appliedUid[r])
          => wf[Name(r)].gen >= appliedGen[r]
    /\ \A v \in Shown(r) : v.uid = appliedUid[r] =>
         /\ v.params = arg[r].spec.params
         /\ r \in v.fresh => v.obs >= appliedGen[r]

IInv ==
  /\ TypeOK /\ RunStage /\ WatchesItsName /\ Objects /\ ShownIsNew
  /\ GateMeansFresh /\ OwnObject /\ TerminalIsNew /\ GateKillsStaleStatus
  /\ CompleteIsHonoured /\ SameObjectSameRecipe

-----------------------------------------------------------------------------
(* What the comments and the help text say, and the runs refute.           *)

\* state_sync.go:203: Complete means the recipe's mutations landed, that is,
\* the recipe this command rendered and applied.
CompletedThisRecipe ==
  \A r \in Runs : arg[r].cmd = "state-sync" /\ exit[r] = "ok"
                 => verdict[r].params = arg[r].spec.params

=============================================================================
