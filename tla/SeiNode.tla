------------------------------ MODULE SeiNode ------------------------------
(***************************************************************************)
(* What `seictl node watch' and `seictl await validator' look at: one      *)
(* SeiNode object and its controller, the seid process of the node with    *)
(* its data, and the clock.                                                *)
(*                                                                         *)
(* External, modelled from how the commands use it and from the help texts *)
(* and workflow/README.md; except NodeApply and NodeDelete, which are      *)
(* `seictl node apply' and `seictl node delete' of another operator.       *)
(***************************************************************************)
EXTENDS Naturals, Sequences

CONSTANTS
  Horizon,     \* bound: the last instant of the clock
  MaxNodes,    \* bound: objects created under the name
  MaxWrites    \* bound: status updates of the controller

ASSUME SeiNodeBounds ==
  Horizon \in Nat /\ MaxNodes \in Nat /\ MaxWrites \in Nat

\* nodePhases, and the status that is not written yet.
NodePhases == {"Pending", "Initializing", "Running", "Failed", "Terminating"}
Phases     == NodePhases \cup {"None"}

\* A validator publishes no endpoint, a plain node one of Tendermint only.  An
\* EVM-only node publishes both, but has no Tendermint RPC or REST listener.
Kinds == {"validator", "plain", "full", "evm-only"}
ServesEVM(kind) == kind \in {"full", "evm-only"}

\* The plan of the workflow on the node, which is held in all its steps.
Plans == {"none", "marked", "stopped", "wiped"}

\* The data from before the wipe, or what seid began after it.
Stores == {"old", "wiped"}

NoNode == [uid |-> 0, kind |-> "validator", phase |-> "None",
           published |-> FALSE, deleting |-> FALSE]

Nodes == [uid : 0..MaxNodes, kind : Kinds, phase : Phases,
          published : BOOLEAN, deleting : BOOLEAN]

VARIABLES
  now,        \* the clock
  node,       \* the object of the name, or NoNode
  uids,       \* objects created so far
  writes,     \* status updates so far
  proc,       \* seid: "down", "syncing", "caught"
  evm,        \* its EVM listener is bound
  plan,       \* the last step of the workflow that holds the node, or "none"
  data,       \* its data directory
  runs,       \* the data that seid was started on last
  bonded      \* the chain knows the validator that is awaited

nodeVars == <<now, node, uids, writes, proc, evm, plan, data, runs, bonded>>

NodeTypeOK ==
  /\ now \in 0..Horizon
  /\ node \in Nodes /\ uids \in 0..MaxNodes /\ writes \in 0..MaxWrites
  /\ proc \in {"down", "syncing", "caught"}
  /\ evm \in BOOLEAN /\ bonded \in BOOLEAN
  /\ plan \in Plans /\ data \in Stores /\ runs \in Stores

Exists == node.uid # 0

\* The objects that a first run may find, in every phase; seid does not run
\* without one, nor once it is stopped; a node that is released has wiped data.
NodeInit ==
  /\ now = 0 /\ writes = 0
  /\ \/ node = NoNode /\ uids = 0
     \/ /\ node \in {n \in Nodes : /\ n.uid = 1
                                   /\ n.published => n.phase = "Running"
                                   /\ n.deleting <=> n.phase = "Terminating"}
        /\ uids = 1
  /\ proc \in (IF Exists THEN {"down", "syncing", "caught"} ELSE {"down"})
  /\ evm = FALSE
  /\ plan \in (IF ~Exists THEN {"none"}
               ELSE IF proc = "down" THEN Plans ELSE {"none", "marked"})
  /\ data \in (IF plan = "wiped" THEN {"wiped"}
               ELSE IF Exists /\ plan = "none" THEN Stores ELSE {"old"})
  /\ runs = IF proc = "down" THEN "old" ELSE data
  /\ bonded = FALSE

-----------------------------------------------------------------------------
(* Other operators: node apply, node delete.                               *)

process == <<proc, evm, plan, data, runs, bonded>>

\* kind.Apply creates the node; what a later apply may change restarts seid
\* at most (SeidStops).
NodeApply ==
  /\ ~Exists /\ uids < MaxNodes
  /\ uids' = uids + 1
  /\ \E k \in Kinds : node' = [NoNode EXCEPT !.uid = uids + 1, !.kind = k]
  /\ UNCHANGED <<now, writes, process>>

\* "deleted" is printed for a node that is only marked.
NodeDelete ==
  /\ Exists /\ ~node.deleting
  /\ node' = [node EXCEPT !.deleting = TRUE]
  /\ UNCHANGED <<now, uids, writes, process>>

-----------------------------------------------------------------------------
(* The controller.                                                         *)

\* A status update.  The endpoints are published in one.
SetStatus ==
  /\ Exists /\ writes < MaxWrites
  /\ writes' = writes + 1
  /\ \E p \in NodePhases, e \in BOOLEAN :
       /\ p = "Terminating" <=> node.deleting
       /\ node.published => e
       /\ node' = [node EXCEPT !.phase = p, !.published = e]
       /\ node' # node
  /\ UNCHANGED <<now, uids, process>>

\* The finalizers of a deleted node are gone, and its seid with them.
Gone ==
  /\ Exists /\ node.deleting
  /\ node' = NoNode
  /\ proc' = "down" /\ evm' = FALSE
  /\ plan' = "none" /\ data' = "old" /\ runs' = "old"
  /\ UNCHANGED <<now, uids, writes, bonded>>

-----------------------------------------------------------------------------
(* The workflow on the node (workflow/README.md:27-31); the status need    *)
(* not tell of it.  Its steps on the config change nothing that is looked  *)
(* at, and a failed plan stays where it is.                                *)

\* seid still runs, and answers, but does not start again.
MarkNotReady ==
  /\ Exists /\ plan = "none"
  /\ plan' = "marked"
  /\ UNCHANGED <<now, node, uids, writes, proc, evm, data, runs, bonded>>

StopSeid ==
  /\ plan = "marked"
  /\ plan' = "stopped" /\ proc' = "down" /\ evm' = FALSE
  /\ UNCHANGED <<now, node, uids, writes, data, runs, bonded>>

ResetData ==
  /\ plan = "stopped"
  /\ plan' = "wiped" /\ data' = "wiped"
  /\ UNCHANGED <<now, node, uids, writes, proc, evm, runs, bonded>>

\* mark-ready, the release with which the workflow is Complete.
MarkReady ==
  /\ plan = "wiped"
  /\ plan' = "none"
  /\ UNCHANGED <<now, node, uids, writes, proc, evm, data, runs, bonded>>

\* A failed workflow is annotated and deleted: the node is released as it is.
ForceRelease ==
  /\ plan # "none"
  /\ plan' = "none"
  /\ UNCHANGED <<now, node, uids, writes, proc, evm, data, runs, bonded>>

-----------------------------------------------------------------------------
(* seid and its chain.                                                     *)

SeidStarts ==
  /\ Exists /\ proc = "down" /\ plan = "none"
  /\ proc' = "syncing" /\ runs' = data
  /\ UNCHANGED <<now, node, uids, writes, evm, plan, data, bonded>>

SeidCatchesUp ==
  /\ proc = "syncing"
  /\ proc' = "caught"
  /\ UNCHANGED <<now, node, uids, writes, evm, plan, data, runs, bonded>>

SeidBindsEVM ==
  /\ proc # "down" /\ ServesEVM(node.kind)
  /\ evm' = TRUE
  /\ UNCHANGED <<now, node, uids, writes, proc, plan, data, runs, bonded>>

\* A crash, a new image, other config values.
SeidStops ==
  /\ proc # "down"
  /\ proc' = "down" /\ evm' = FALSE
  /\ UNCHANGED <<now, node, uids, writes, plan, data, runs, bonded>>

Bond ==
  /\ ~bonded
  /\ bonded' = TRUE
  /\ UNCHANGED <<now, node, uids, writes, proc, evm, plan, data, runs>>

Objects == NodeApply \/ NodeDelete \/ SetStatus \/ Gone
Resync  == MarkNotReady \/ StopSeid \/ ResetData \/ MarkReady \/ ForceRelease
Process == SeidStarts \/ SeidCatchesUp \/ SeidBindsEVM \/ SeidStops

\* The REST API knows the validator.
Served == proc # "down" /\ node.kind # "evm-only" /\ bonded

=============================================================================
