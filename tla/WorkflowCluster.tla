-------------------------- MODULE WorkflowCluster --------------------------
(***************************************************************************)
(* What `seictl workflow` talks to: the API server that stores the         *)
(* SeiNodeTaskWorkflow objects and streams their changes, the controller   *)
(* that executes them, and the one SeiNode they target.  None of it is in  *)
(* the repository: every definition is external, modelled from how the CLI *)
(* uses it and from what workflow/README.md says of it.                    *)
(*                                                                         *)
(* A run of the CLI (an element of Runs) is one process.  The last two     *)
(* variables and the fields `since' and `fresh' are history: they record   *)
(* which runs had made their preflight read, or had applied, when a status *)
(* was written.  No guard reads them.                                      *)
(***************************************************************************)
EXTENDS Naturals, Sequences

CONSTANTS
  Runs,     \* invocations of the CLI
  Names,    \* names of workflow objects in the namespace
  Params,   \* recipe parameters: what the API server's CEL rules pin
  Gates,    \* the part of the spec a re-apply may change (target.requirePhase)
  NoCR,     \* there is no object of that name
  NoName    \* the node has adopted no workflow / the run watches nothing

Phases   == {"None", "Pending", "Running", "Complete", "Failed"}
Terminal == {"Complete", "Failed"}
Specs    == [params : Params, gate : Gates]

\* What a watcher's verdict can depend on.
Views == [uid : Nat, params : Params, obs : Nat, phase : Phases,
          since : SUBSET Runs, fresh : SUBSET Runs]

Watches == [name : Names \cup {NoName}, events : Seq(Views)]

Workflows == [uid : Nat, gen : Nat, obs : Nat, phase : Phases, spec : Specs,
              deleting : BOOLEAN, force : BOOLEAN, finalizer : BOOLEAN,
              since : SUBSET Runs, fresh : SUBSET Runs]

ASSUME NoCRAssumption   == NoCR \notin Workflows
ASSUME ParamsAssumption == Params # {}
ASSUME NoNameAssumption == NoName \notin Names

VARIABLES
  wf,        \* the stored objects, by name
  uids,      \* objects created so far
  adopted,   \* the node's adoption pointer
  held,      \* the node's readiness gate is closed
  watch,     \* per run: the name it watches and the events on their way to it
  checked,   \* history: runs whose preflight read has passed
  applied    \* history: runs whose apply has been stored

clusterVars == <<wf, uids, adopted, held, watch, checked, applied>>

NoWatch == [name |-> NoName, events |-> <<>>]

ClusterTypeOK ==
  /\ wf \in [Names -> Workflows \cup {NoCR}]
  /\ uids \in Nat
  /\ adopted \in Names \cup {NoName}
  /\ held \in BOOLEAN
  /\ watch \in [Runs -> Watches]
  /\ checked \in SUBSET Runs
  /\ applied \in SUBSET Runs

ClusterInit ==
  /\ wf = [n \in Names |-> NoCR]
  /\ uids = 0
  /\ adopted = NoName
  /\ held = FALSE
  /\ watch = [r \in Runs |-> NoWatch]
  /\ checked = {}
  /\ applied = {}

Exists(n) == wf[n] # NoCR

View(c) == [uid |-> c.uid, params |-> c.spec.params, obs |-> c.obs,
            phase |-> c.phase, since |-> c.since, fresh |-> c.fresh]

-----------------------------------------------------------------------------
(* The API server: a write is streamed to the object's watchers.  An event *)
(* that repeats the view before it (an annotation, a deletion mark, the    *)
(* deletion itself, which carries the last state) gives a watcher the      *)
(* verdict it has already had, and is left out.                            *)

Publish(n, v) ==
  watch' = [r \in Runs |-> IF watch[r].name = n
                           THEN [watch[r] EXCEPT !.events = Append(@, v)]
                           ELSE watch[r]]

Write(n, c) ==
  /\ wf' = [wf EXCEPT ![n] = c]
  /\ IF Exists(n) /\ View(wf[n]) = View(c)
     THEN UNCHANGED watch
     ELSE Publish(n, View(c))

Remove(n) ==
  /\ wf' = [wf EXCEPT ![n] = NoCR]
  /\ UNCHANGED watch

Created(s) ==
  [uid |-> uids + 1, gen |-> 1, obs |-> 0, phase |-> "None", spec |-> s,
   deleting |-> FALSE, force |-> FALSE, finalizer |-> FALSE,
   since |-> {}, fresh |-> {}]

\* Mutant: no CEL rule pins the parameters.
AnySpecAccepted(n, s) == TRUE

\* Server-side apply.  It creates the object, or edits the open part of its
\* spec (a new generation), or changes nothing.  Different parameters are
\* refused by CEL (SpecAccepted).
SpecAccepted(n, s) == Exists(n) => wf[n].spec.params = s.params

SpecChanges(n, s) == Exists(n) => wf[n].spec # s

GenerationAfterApply(n, s) ==
  IF ~Exists(n) THEN 1
  ELSE IF wf[n].spec = s THEN wf[n].gen ELSE wf[n].gen + 1

ServerSideApply(n, s) ==
  /\ SpecAccepted(n, s)
  /\ \/ /\ ~Exists(n)
        /\ Write(n, Created(s))
        /\ uids' = uids + 1
     \/ /\ Exists(n) /\ wf[n].spec # s
        /\ Write(n, [wf[n] EXCEPT !.spec = s, !.gen = @ + 1])
        /\ UNCHANGED uids
     \/ /\ Exists(n) /\ wf[n].spec = s
        /\ UNCHANGED <<wf, watch, uids>>

\* Delete.  An object nothing finalizes goes at once under background
\* propagation; otherwise it is marked, which is a new generation, and stays.
DeleteObject(n) ==
  /\ Exists(n)
  /\ \/ /\ ~wf[n].finalizer
        /\ Remove(n)
     \/ /\ ~wf[n].deleting
        /\ Write(n, [wf[n] EXCEPT !.deleting = TRUE, !.gen = @ + 1])
     \/ /\ wf[n].deleting
        /\ UNCHANGED <<wf, watch>>

-----------------------------------------------------------------------------
(* The controller and the node.                                            *)

\* Every status update stamps the generation it was computed from.
WithStatus(c, phase) ==
  [c EXCEPT !.phase = phase, !.obs = c.gen, !.fresh = applied,
            !.since = IF phase = c.phase THEN @ ELSE checked]

\* A workflow the node cannot adopt yet is parked Pending.
Queue(n) ==
  /\ Exists(n) /\ ~wf[n].deleting
  /\ wf[n].phase = "None"
  /\ Write(n, WithStatus(wf[n], "Pending"))
  /\ UNCHANGED <<uids, adopted, held, checked, applied>>

\* The node adopts one workflow at a time; the first step closes the gate.
Adopt(n) ==
  /\ Exists(n) /\ ~wf[n].deleting
  /\ wf[n].phase \in {"None", "Pending"}
  /\ adopted = NoName
  /\ adopted' = n
  /\ held' = TRUE
  /\ Write(n, [WithStatus(wf[n], "Running") EXCEPT !.finalizer = TRUE])
  /\ UNCHANGED <<uids, checked, applied>>

\* Refused at adoption: an ineligible node mode or a plan that does not
\* compile.  The workflow is Failed and has never held the node.
RefuseAdoption(n) ==
  /\ Exists(n) /\ ~wf[n].deleting
  /\ wf[n].phase \in {"None", "Pending"}
  /\ adopted = NoName
  /\ Write(n, WithStatus(wf[n], "Failed"))
  /\ UNCHANGED <<uids, adopted, held, checked, applied>>

\* mark-ready, the last step, opens the gate and completes the workflow.
Complete(n) ==
  /\ Exists(n) /\ wf[n].phase = "Running"
  /\ held' = FALSE
  /\ Write(n, WithStatus(wf[n], "Complete"))
  /\ UNCHANGED <<uids, adopted, checked, applied>>

\* A step fails: the workflow parks and keeps the node.
FailStep(n) ==
  /\ Exists(n) /\ wf[n].phase = "Running"
  /\ Write(n, WithStatus(wf[n], "Failed"))
  /\ UNCHANGED <<uids, adopted, held, checked, applied>>

\* The finalizer of a completed workflow is reaped on the next reconcile.
Reap(n) ==
  /\ Exists(n) /\ wf[n].phase = "Complete" /\ wf[n].finalizer
  /\ adopted' = NoName
  /\ Write(n, [wf[n] EXCEPT !.finalizer = FALSE])
  /\ UNCHANGED <<uids, held, checked, applied>>

\* A reconcile after a spec change or a deletion mark re-confirms the status.
Reconfirm(n) ==
  /\ Exists(n) /\ wf[n].phase # "None" /\ wf[n].obs < wf[n].gen
  /\ Write(n, WithStatus(wf[n], wf[n].phase))
  /\ UNCHANGED <<uids, adopted, held, checked, applied>>

\* Deletion of a workflow that holds the node fails closed without the
\* force-delete annotation; with it, the node is released.
ForceRelease(n) ==
  /\ Exists(n) /\ wf[n].deleting /\ wf[n].finalizer /\ wf[n].force
  /\ wf[n].phase # "Complete"
  /\ adopted' = NoName
  /\ held' = FALSE
  /\ Remove(n)
  /\ UNCHANGED <<uids, checked, applied>>

\* Garbage collection of a marked object that nothing finalizes.
Collect(n) ==
  /\ Exists(n) /\ wf[n].deleting /\ ~wf[n].finalizer
  /\ Remove(n)
  /\ UNCHANGED <<uids, adopted, held, checked, applied>>

\* The operator annotates a workflow with kubectl: the CLI never does.
Annotate(n) ==
  /\ Exists(n) /\ ~wf[n].force
  /\ Write(n, [wf[n] EXCEPT !.force = TRUE])
  /\ UNCHANGED <<uids, adopted, held, checked, applied>>

Controller(n) ==
  \/ Queue(n) \/ Adopt(n) \/ RefuseAdoption(n) \/ Complete(n) \/ FailStep(n)
  \/ Reap(n) \/ Reconfirm(n) \/ ForceRelease(n) \/ Collect(n)

=============================================================================
