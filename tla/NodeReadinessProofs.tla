------------------------ MODULE NodeReadinessProofs ------------------------
(***************************************************************************)
(* Theorems about NodeReadiness, for any timeouts, any number of nodes     *)
(* under the name and of status updates.                                   *)
(***************************************************************************)
EXTENDS NodeReadiness, SequenceTheorems, TLAPS

\* The node of the name is the last one created; seid, its data and a workflow need
\* it, a node that is stopped or wiped runs no seid, and seid runs on the data.
NodeInv ==
  /\ NodeTypeOK
  /\ Exists => node.uid = uids
  /\ proc # "down" \/ plan # "none" => Exists
  /\ evm => proc # "down"
  /\ plan \in {"stopped", "wiped"} => proc = "down"
  /\ proc # "down" => runs = data

\* What a watch is shown.
Shown == [uid : 1..uids, phase : Phases]

WatchTyped ==
  /\ WatchTypeOK
  /\ events \in Seq(Shown)
  /\ began.uid <= uids

\* The watch and its probes have one deadline, behind which the clock stays.
WatchClock ==
  /\ exit = "none" \/ pc = "done"
  /\ pc = "start" => now = 0 /\ began.at = 0
  /\ pc \notin {"start", "done"} => deadline = began.at + Timeout /\ now <= deadline
  /\ exit # "none" => ended <= began.at + Timeout

\* The answers so far, each of a node no older than the one before.
Matched == 0 < seen.matched /\ seen.matched <= uids
Read    == Matched /\ seen.matched <= seen.read /\ seen.read <= uids
Caught  == Read /\ seen.read <= seen.caught /\ seen.caught <= uids

Order ==
  /\ pc \in {"endpoint", "probe", "evm"} => until = "caught-up"
  /\ pc = "endpoint" => Matched
  /\ pc = "probe" => Read
  /\ pc = "evm" => Caught

\* The node that u names is wiped, or is not there any more.
Wiped(u) == data = "wiped" \/ ~Exists \/ node.uid > u

ResyncSeen == seen.runs = "wiped" \/ seen.caught > began.uid

ResyncKept ==
  began.data = "wiped" => /\ Wiped(began.uid)
                          /\ pc = "evm" => ResyncSeen

WatchInv == WatchTyped /\ WatchClock /\ Order /\ ResyncKept /\ ReadyInOrder /\ ResyncVerified

\* An attempt and a sleep begin and end in time; an attempt that may end
\* without the validator began before it was served.
AwaitClock ==
  /\ aexit = "none" \/ apc = "done"
  /\ since <= now /\ aended <= now
  /\ apc = "attempt" => since < AwaitTimeout + BackOff /\ now <= since + AttemptTimeout
  /\ apc = "sleep" => since < AwaitTimeout /\ now <= since + BackOff
  /\ aexit # "none" => aended < AwaitTimeout + BackOff + AttemptTimeout

ServedSince ==
  /\ Available => served <= now
  /\ ~Available => served = Horizon + 1
  /\ apc = "attempt" /\ ~reached => since <= served

AwaitInv == AwaitTypeOK /\ AwaitClock /\ ServedSince /\ ReachableIsFound

IInv == NodeInv /\ WatchInv /\ AwaitInv

-----------------------------------------------------------------------------
(* The node.                                                               *)

\* What a step of the node leaves of what a watch has seen of it.
Evolves ==
  /\ NodeInv' /\ uids <= uids' /\ now' = now
  /\ \A u \in 0..uids : Wiped(u) => Wiped(u)'

\* The updates of the object.
Created(u, k) == [NoNode EXCEPT !.uid = u, !.kind = k]
Updated(p, e) == [node EXCEPT !.phase = p, !.published = e]
Marked        == [node EXCEPT !.deleting = TRUE]

LEMMA ObjectTypes ==
  ASSUME NodeTypeOK
  PROVE  /\ NoNode \in Nodes /\ NoNode.uid = 0
         /\ \A u \in 0..MaxNodes, k \in Kinds : Created(u, k) \in Nodes /\ Created(u, k).uid = u
         /\ Marked \in Nodes /\ Marked.uid = node.uid
         /\ \A p \in NodePhases, e \in BOOLEAN :
              Updated(p, e) \in Nodes /\ Updated(p, e).uid = node.uid
<1>1. node \in Nodes
  BY DEF NodeTypeOK
<1>2. 0 \in 0..MaxNodes /\ "validator" \in Kinds /\ "None" \in Phases
  BY SeiNodeBounds DEF Kinds, Phases
<1>3. NoNode \in Nodes /\ NoNode.uid = 0
  BY <1>2 DEF NoNode, Nodes
<1>4. ASSUME NEW u \in 0..MaxNodes, NEW k \in Kinds
      PROVE  Created(u, k) \in Nodes /\ Created(u, k).uid = u
  BY <1>3 DEF Created, Nodes
<1>5. Marked \in Nodes /\ Marked.uid = node.uid
  BY <1>1 DEF Marked, Nodes
<1>6. ASSUME NEW p \in NodePhases, NEW e \in BOOLEAN
      PROVE  Updated(p, e) \in Nodes /\ Updated(p, e).uid = node.uid
  <2>1. p \in Phases
    BY DEF Phases
  <2>2. QED
    BY <1>1, <2>1 DEF Updated, Nodes
<1>7. QED
  BY <1>3, <1>4, <1>5, <1>6

LEMMA ObjectsStep == NodeInv /\ Objects => Evolves
<1> SUFFICES ASSUME NodeInv, Objects PROVE Evolves
  OBVIOUS
<1> USE SeiNodeBounds
<1>0. uids \in Nat /\ node.uid \in Nat /\ (Exists => node.uid = uids)
  BY DEF NodeInv, NodeTypeOK, Nodes
<1>1. CASE NodeApply
  <2>1. uids' = uids + 1 /\ uids' \in 0..MaxNodes /\ ~Exists
        /\ UNCHANGED <<now, writes, proc, evm, plan, data, runs, bonded>>
    BY <1>0, <1>1 DEF NodeApply, process, NodeInv, NodeTypeOK
  <2>2. node' \in Nodes /\ node'.uid = uids'
    <3>1. PICK k \in Kinds : node' = Created(uids + 1, k)
      BY <1>1 DEF NodeApply, Created
    <3>2. QED
      BY <2>1, <3>1, ObjectTypes DEF NodeInv
  <2>3. NodeInv'
    BY <1>0, <2>1, <2>2 DEF NodeInv, NodeTypeOK, Exists
  <2>4. \A u \in 0..uids : node'.uid > u
    BY <1>0, <2>1, <2>2
  <2>5. QED
    BY <1>0, <2>1, <2>3, <2>4 DEF Evolves, Wiped
<1>2. CASE NodeDelete \/ SetStatus
  <2>1. node' \in Nodes /\ node'.uid = node.uid
    <3>1. NodeDelete => node' = Marked
      BY DEF NodeDelete, Marked
    <3>2. SetStatus => \E p \in NodePhases, e \in BOOLEAN : node' = Updated(p, e)
      BY DEF SetStatus, Updated
    <3>3. QED
      BY <1>2, <3>1, <3>2, ObjectTypes DEF NodeInv
  <2>2. UNCHANGED <<now, uids, proc, evm, plan, data, runs, bonded>> /\ writes' \in 0..MaxWrites
    <3>1. writes \in 0..MaxWrites
      BY DEF NodeInv, NodeTypeOK
    <3>2. UNCHANGED <<now, uids, proc, evm, plan, data, runs, bonded>>
      BY <1>2 DEF NodeDelete, SetStatus, process
    <3>3. writes' = writes \/ (writes < MaxWrites /\ writes' = writes + 1)
      BY <1>2 DEF NodeDelete, SetStatus
    <3>4. QED
      BY <3>1, <3>2, <3>3
  <2>3. NodeInv'
    BY <2>1, <2>2 DEF NodeInv, NodeTypeOK, Exists
  <2>4. QED
    BY <1>0, <2>1, <2>2, <2>3 DEF Evolves, Wiped, Exists
<1>3. CASE Gone
  <2>1. node' = NoNode /\ node' \in Nodes /\ ~Exists'
    BY <1>3, ObjectTypes DEF Gone, NodeInv, Exists, NoNode
  <2>2. NodeInv'
    BY <1>3, <2>1 DEF Gone, NodeInv, NodeTypeOK, Plans, Stores
  <2>3. QED
    BY <1>0, <1>3, <2>1, <2>2 DEF Gone, Evolves, Wiped
<1>4. QED
  BY <1>1, <1>2, <1>3 DEF Objects

LEMMA ProcessStep == NodeInv /\ (Resync \/ Process \/ Bond) => Evolves
<1> SUFFICES ASSUME NodeInv, Resync \/ Process \/ Bond PROVE Evolves
  OBVIOUS
<1>1. uids \in Nat
  BY DEF NodeInv, NodeTypeOK
<1>2. UNCHANGED <<now, node, uids, writes>> /\ Exists' = Exists
  BY DEF Resync, Process, Bond, MarkNotReady, StopSeid, ResetData, MarkReady, ForceRelease, SeidStarts, SeidCatchesUp, SeidBindsEVM, SeidStops,
         Exists
<1>3. NodeInv'
  <2>1. CASE Resync
    <3>1. /\ proc' \in {"down", "syncing", "caught"} /\ plan' \in Plans
          /\ data' \in Stores /\ runs' \in Stores
          /\ evm' \in BOOLEAN /\ bonded' \in BOOLEAN
      BY <2>1 DEF Resync, MarkNotReady, StopSeid, ResetData, MarkReady, ForceRelease,
                  NodeInv, NodeTypeOK, Plans, Stores
    <3>2. /\ Exists
          /\ evm' => proc' # "down"
          /\ plan' \in {"stopped", "wiped"} => proc' = "down"
          /\ proc' # "down" => runs' = data'
      BY <2>1 DEF Resync, MarkNotReady, StopSeid, ResetData, MarkReady, ForceRelease, NodeInv
    <3>3. QED
      BY <1>2, <3>1, <3>2 DEF NodeInv, NodeTypeOK
  <2>2. CASE Process \/ Bond
    <3>1. UNCHANGED <<plan, data>> /\ proc' \in {"down", "syncing", "caught"}
          /\ runs' \in Stores /\ evm' \in BOOLEAN /\ bonded' \in BOOLEAN
      BY <2>2 DEF Process, Bond, SeidStarts, SeidCatchesUp, SeidBindsEVM, SeidStops,
                  NodeInv, NodeTypeOK
    <3>2. /\ proc' # "down" => Exists
          /\ evm' => proc' # "down"
          /\ plan \in {"stopped", "wiped"} => proc' = "down"
          /\ proc' # "down" => runs' = data
      BY <2>2 DEF Process, Bond, SeidStarts, SeidCatchesUp, SeidBindsEVM, SeidStops, NodeInv
    <3>3. QED
      BY <1>2, <3>1, <3>2 DEF NodeInv, NodeTypeOK
  <2>3. QED
    BY <2>1, <2>2
<1>4. data = "wiped" => data' = "wiped"
  BY DEF Resync, Process, Bond, MarkNotReady, StopSeid, ResetData, MarkReady, ForceRelease, SeidStarts, SeidCatchesUp, SeidBindsEVM, SeidStops
<1>5. QED
  BY <1>1, <1>2, <1>3, <1>4 DEF Evolves, Wiped

-----------------------------------------------------------------------------
(* The watch.                                                              *)

\* What is shown stays shown.
LEMMA ShownGrows ==
  ASSUME uids \in Nat, uids' \in Nat, uids <= uids', NEW s \in Seq(Shown)
  PROVE  s \in Seq(Shown')
<1>1. Shown \subseteq Shown'
  BY DEF Shown, Phases, NodePhases
<1>2. QED
  BY <1>1, SeqMonotonic

\* A step of the node streams what it changed.
LEMMA StreamedEvents ==
  ASSUME NodeInv, NodeInv', uids <= uids', WatchTyped, Streamed
  PROVE  events' \in Seq(Shown')
<1>1. events \in Seq(Shown')
  BY ShownGrows DEF NodeInv, NodeTypeOK, WatchTyped
<1>2. ASSUME node'.uid # 0 PROVE View' \in Shown'
  <2>1. node'.uid \in 1..uids'
    BY <1>2 DEF NodeInv, NodeTypeOK, Nodes, Exists
  <2>2. node'.phase \in Phases
    BY DEF NodeInv, NodeTypeOK, Nodes
  <2>3. QED
    BY <2>1, <2>2 DEF View, Shown
<1>3. QED
  BY <1>1, <1>2, AppendProperties DEF Streamed

\* The watch stays as it is while the node changes.
LEMMA WatchStays ==
  ASSUME NodeInv, WatchInv, Evolves, Streamed
  PROVE  WatchInv'
<1>0. /\ uids \in Nat /\ uids' \in Nat /\ uids <= uids' /\ uids' \in 0..MaxNodes
      /\ now' = now /\ UNCHANGED <<until, pc, exit, deadline, ended, began, seen>>
      /\ began.uid \in 0..uids
  BY DEF NodeInv, NodeTypeOK, Evolves, Streamed, WatchInv, WatchTyped, WatchTypeOK
<1>1. WatchTyped'
  <2>1. events' \in Seq(Shown')
    BY StreamedEvents DEF Evolves, WatchInv
  <2>2. events' \in Seq([uid : 0..MaxNodes, phase : Phases])
    <3>1. Shown' \subseteq [uid : 0..MaxNodes, phase : Phases]
      BY <1>0, SeiNodeBounds DEF Shown, Phases, NodePhases
    <3>2. QED
      BY <2>1, <3>1, SeqMonotonic
  <2>3. QED
    BY <1>0, <2>1, <2>2 DEF WatchInv, WatchTyped, WatchTypeOK
<1>2. WatchClock'
  BY <1>0 DEF WatchInv, WatchClock
<1>3. Order'
  <2>1. seen.matched \in Nat /\ seen.read \in Nat /\ seen.caught \in Nat
    BY DEF WatchInv, WatchTyped, WatchTypeOK
  <2>2. (Matched => Matched') /\ (Read => Read') /\ (Caught => Caught')
    BY <1>0, <2>1 DEF Matched, Read, Caught
  <2>3. QED
    BY <1>0, <2>2 DEF WatchInv, Order
<1>4. ResyncKept'
  BY <1>0 DEF WatchInv, ResyncKept, ResyncSeen, Evolves, Wiped
<1>5. ReadyInOrder' /\ ResyncVerified'
  BY <1>0 DEF WatchInv, ReadyInOrder, ResyncVerified, Ready
<1>6. QED
  BY <1>1, <1>2, <1>3, <1>4, <1>5 DEF WatchInv

\* The watch only reads.
LEMMA WatchReads ==
  ASSUME NodeInv, Watch
  PROVE  /\ UNCHANGED <<now, node, uids, writes, proc, evm, plan, data, runs, bonded>>
         /\ NodeInv' /\ Shown' = Shown
         /\ \A u : Wiped(u)' = Wiped(u)
<1>1. UNCHANGED <<now, node, uids, writes, proc, evm, plan, data, runs, bonded>>
  BY DEF Watch, Start, List, Relist, Deliver, ReadEndpoint, WaitCaughtUp, WaitEVMServing,
         Expire, WatchFails, nodeVars
<1>2. QED
  BY <1>1 DEF NodeInv, NodeTypeOK, Exists, Shown, Wiped

\* The event at the head.
LEMMA Heads ==
  ASSUME WatchTyped, uids \in Nat, events # <<>>
  PROVE  /\ Head(events) \in Shown /\ Head(events).uid \in 1..uids
         /\ Tail(events) \in Seq(Shown)
<1>1. events \in Seq(Shown)
  BY DEF WatchTyped
<1>2. Head(events) \in Shown /\ Tail(events) \in Seq(Shown)
  BY <1>1, HeadTailProperties
<1>3. QED
  BY <1>2 DEF Shown

LEMMA EventsStep ==
  ASSUME NodeInv, WatchTyped, Watch
  PROVE  events' \in Seq(Shown') /\ events' \in Seq([uid : 0..MaxNodes, phase : Phases])
<1>1. uids \in Nat /\ uids \in 0..MaxNodes /\ events \in Seq(Shown) /\ <<>> \in Seq(Shown)
  BY SeiNodeBounds DEF NodeInv, NodeTypeOK, WatchTyped
<1>2. Exists => <<View>> \in Seq(Shown)
  <2>1. ASSUME Exists PROVE View \in Shown
    BY <2>1 DEF NodeInv, NodeTypeOK, Nodes, Exists, View, Shown
  <2>2. QED
    BY <2>1
<1>3. events # <<>> => Tail(events) \in Seq(Shown)
  BY <1>1, Heads
<1>4. events' \in Seq(Shown)
  BY <1>1, <1>2, <1>3 DEF Watch, Start, List, Relist, Deliver, ReadEndpoint, WaitCaughtUp,
                          WaitEVMServing, Expire, WatchFails
<1>5. Shown \subseteq [uid : 0..MaxNodes, phase : Phases]
  BY <1>1, SeiNodeBounds DEF Shown, Phases, NodePhases
<1>6. QED
  BY <1>4, <1>5, WatchReads, SeqMonotonic

\* A deadline of the watch.
LEMMA ClockStep ==
  ASSUME NodeInv, WatchTyped, WatchClock, Watch
  PROVE  WatchClock' /\ deadline' \in 0..Horizon /\ ended' \in 0..Horizon /\ began'.at \in 0..Horizon
<1> USE SeiNodeBounds, TimeoutAssumption
<1>0. now \in 0..Horizon /\ now' = now /\ Horizon \in Nat /\ Timeout \in Nat /\ began.at \in 0..Horizon
      /\ deadline \in 0..Horizon /\ ended \in 0..Horizon
  BY WatchReads DEF NodeInv, NodeTypeOK, WatchTyped, WatchTypeOK
<1>1. CASE Start
  <2>1. now = 0 /\ began'.at = now
    BY <1>1 DEF Start, WatchClock
  <2>2. CASE pc' = "done" /\ ended' = now /\ UNCHANGED deadline
    BY <1>0, <2>1, <2>2 DEF WatchClock
  <2>3. CASE pc' = "list" /\ deadline' = now + Timeout /\ UNCHANGED <<exit, ended>>
    BY <1>0, <1>1, <2>1, <2>3 DEF Start, WatchClock
  <2>4. QED
    BY <1>1, <2>2, <2>3 DEF Start, Finish
<1>2. CASE ~Start
  <2>1. began' = began /\ deadline' = deadline /\ pc # "done" /\ pc' # "start"
    BY <1>2 DEF Watch, List, Relist, Deliver, ReadEndpoint, ProbeDeadline, WaitCaughtUp,
                WaitEVMServing, Expire, WatchFails, Finish, AfterMatch, AfterCaughtUp
  <2>2. \/ pc' = "done" /\ ended' = now
        \/ pc' # "done" /\ UNCHANGED <<exit, ended>> /\ pc # "start"
    BY <1>2 DEF Watch, List, Relist, Deliver, ReadEndpoint, WaitCaughtUp,
                WaitEVMServing, Expire, WatchFails, Finish, AfterMatch, AfterCaughtUp
  <2>3. QED
    BY <1>0, <2>1, <2>2 DEF WatchClock
<1>3. QED
  BY <1>1, <1>2

\* What a watch relied on, by action.
LEMMA SeenStep ==
  ASSUME NodeInv, WatchTyped, Watch
  PROVE  \/ /\ seen' = seen
            /\ exit' # "ok" \/ until # "caught-up" \/ exit' = exit
            /\ pc' \notin {"endpoint", "probe", "evm"}
         \/ /\ pc = "watching" /\ pc' \in {"endpoint", "done"}
            /\ pc' = "endpoint" => until = "caught-up" /\ exit' = exit
            /\ pc' = "done" => until # "caught-up"
            /\ \E u \in 1..uids : seen' = [seen EXCEPT !.matched = u]
         \/ /\ pc = "endpoint" /\ pc' = "probe" /\ exit' = exit
            /\ Exists
            /\ seen' = [seen EXCEPT !.read = node.uid, !.kind = node.kind]
         \/ /\ pc = "probe" /\ CaughtUp
            /\ seen' = [seen EXCEPT !.caught = node.uid, !.runs = runs]
            /\ \/ ~ServesEVM(seen.kind) /\ pc' = "done" /\ exit' = "ok"
               \/ ServesEVM(seen.kind) /\ pc' = "evm" /\ exit' = exit
         \/ /\ pc = "evm" /\ evm /\ pc' = "done" /\ exit' = "ok"
            /\ seen' = [seen EXCEPT !.evm = node.uid]
<1>1. CASE Start \/ List \/ Relist \/ Expire \/ WatchFails
  BY <1>1 DEF Start, List, Relist, Expire, WatchFails, Finish
<1>2. CASE Deliver
  <2>1. uids \in Nat
    BY DEF NodeInv, NodeTypeOK
  <2>2. Head(events).uid \in 1..uids
    BY <1>2, <2>1, Heads DEF Deliver
  <2>3. QED
    BY <1>2, <2>2 DEF Deliver, Finish, AfterMatch
<1>3. CASE ReadEndpoint
  BY <1>3 DEF ReadEndpoint, Finish
<1>4. CASE WaitCaughtUp \/ WaitEVMServing
  BY <1>4 DEF WaitCaughtUp, WaitEVMServing, Finish, AfterCaughtUp
<1>5. QED
  BY <1>1, <1>2, <1>3, <1>4 DEF Watch

\* The fields of what a watch relied on.
Seen == [matched : 0..MaxNodes, read : 0..MaxNodes, caught : 0..MaxNodes,
         evm : 0..MaxNodes, kind : Kinds, runs : Stores]

\* The answers keep their order, and a resync is behind the one that tells of it.
LEMMA OrderStep ==
  ASSUME NodeInv, WatchInv, Watch
  PROVE  /\ seen' \in Seen /\ Order' /\ ReadyInOrder'
         /\ ResyncKept' /\ ResyncVerified'
<1>0. /\ uids \in 0..MaxNodes /\ uids \in Nat /\ MaxNodes \in Nat /\ uids' = uids
      /\ node.uid \in 0..MaxNodes /\ node.kind \in Kinds /\ data \in Stores /\ runs \in Stores /\ seen \in Seen
      /\ until' = until
  BY SeiNodeBounds, WatchReads
  DEF NodeInv, NodeTypeOK, Nodes, WatchInv, WatchTyped, WatchTypeOK, Seen, Watch, Start, List,
      Relist, Deliver, ReadEndpoint, WaitCaughtUp, WaitEVMServing, Expire, WatchFails
<1>1. (seen.matched \in Nat /\ seen.read \in Nat /\ seen.caught \in Nat /\ seen.evm \in Nat)
  BY <1>0 DEF Seen
<1>2. exit = "none"
  BY DEF Watch, Start, List, Relist, Deliver, ReadEndpoint, WaitCaughtUp, WaitEVMServing, Expire,
         WatchFails, WatchInv, WatchClock
<1>3. Wiped(began.uid)' \/ began'.data # "wiped"
  <2>1. CASE Start
    BY <2>1, WatchReads DEF Start, Wiped
  <2>2. CASE began' = began
    BY <2>2, WatchReads DEF WatchInv, ResyncKept, Wiped
  <2>3. QED
    BY <2>1, <2>2 DEF Watch, List, Relist, Deliver, ReadEndpoint, WaitCaughtUp, WaitEVMServing,
                      Expire, WatchFails
<1>4. pc # "start" => began' = began
  BY DEF Watch, Start, List, Relist, Deliver, ReadEndpoint, WaitCaughtUp, WaitEVMServing, Expire,
         WatchFails
<1>5. CASE /\ seen' = seen
           /\ exit' # "ok" \/ until # "caught-up" \/ exit' = exit
           /\ pc' \notin {"endpoint", "probe", "evm"}
  <2>1. ~Ready'
    BY <1>0, <1>2, <1>5 DEF Ready
  <2>2. QED
    BY <1>0, <1>3, <1>5, <2>1 DEF Order, ReadyInOrder, ResyncKept, ResyncVerified
<1>6. CASE /\ pc = "watching" /\ pc' \in {"endpoint", "done"}
           /\ pc' = "endpoint" => until = "caught-up" /\ exit' = exit
           /\ pc' = "done" => until # "caught-up"
           /\ \E u \in 1..uids : seen' = [seen EXCEPT !.matched = u]
  <2>1. seen' \in Seen /\ 0 < seen'.matched /\ seen'.matched <= uids
    <3>1. PICK u \in 1..uids : seen' = [seen EXCEPT !.matched = u]
      BY <1>6
    <3>2. u \in 0..MaxNodes
      BY <1>0
    <3>3. QED
      BY <1>0, <3>1, <3>2 DEF Seen
  <2>2. ~Ready'
    BY <1>0, <1>2, <1>6 DEF Ready
  <2>3. Matched'
    BY <1>0, <2>1 DEF Matched
  <2>4. QED
    BY <1>0, <1>3, <1>6, <2>1, <2>2, <2>3 DEF Order, ReadyInOrder, ResyncKept, ResyncVerified
<1>7. CASE /\ pc = "endpoint" /\ pc' = "probe" /\ exit' = exit
           /\ Exists
           /\ seen' = [seen EXCEPT !.read = node.uid, !.kind = node.kind]
  <2>1. seen' \in Seen /\ seen'.read = node.uid /\ seen'.matched = seen.matched
    BY <1>0, <1>7 DEF Seen
  <2>2. node.uid = uids /\ Matched /\ until = "caught-up"
    BY <1>7 DEF NodeInv, WatchInv, Order
  <2>3. Read'
    BY <1>0, <1>1, <2>1, <2>2 DEF Read, Matched
  <2>4. ~Ready'
    BY <1>2, <1>7 DEF Ready
  <2>5. QED
    BY <1>0, <1>3, <1>7, <2>1, <2>2, <2>3, <2>4
    DEF Order, ReadyInOrder, ResyncKept, ResyncVerified
<1>8. CASE /\ pc = "probe" /\ CaughtUp
           /\ seen' = [seen EXCEPT !.caught = node.uid, !.runs = runs]
           /\ \/ ~ServesEVM(seen.kind) /\ pc' = "done" /\ exit' = "ok"
              \/ ServesEVM(seen.kind) /\ pc' = "evm" /\ exit' = exit
  <2>1. /\ seen' \in Seen /\ seen'.caught = node.uid /\ seen'.runs = runs
        /\ seen'.matched = seen.matched /\ seen'.read = seen.read /\ seen'.kind = seen.kind
    BY <1>0, <1>8 DEF Seen
  <2>2. node.uid = uids /\ runs = data /\ Exists /\ Read /\ until = "caught-up"
    BY <1>8 DEF CaughtUp, NodeInv, WatchInv, Order
  <2>3. Caught'
    BY <1>0, <1>1, <2>1, <2>2 DEF Caught, Read, Matched
  <2>4. began' = began /\ (began.data = "wiped" => runs = "wiped" \/ node.uid > began.uid)
    BY <1>4, <1>8, <2>2 DEF WatchInv, ResyncKept, Wiped
  <2>5. began'.data = "wiped" => ResyncSeen'
    BY <2>1, <2>4 DEF ResyncSeen
  <2>6. Order'
    BY <1>0, <1>8, <2>2, <2>3 DEF Order
  <2>7. ReadyInOrder'
    BY <1>2, <1>8, <2>1, <2>3 DEF ReadyInOrder, Ready, Caught, Read, Matched, ServesEVM
  <2>8. ResyncKept' /\ ResyncVerified'
    BY <1>3, <2>5 DEF ResyncKept, ResyncVerified, ResyncSeen
  <2>9. QED
    BY <2>1, <2>6, <2>7, <2>8
<1>9. CASE /\ pc = "evm" /\ evm /\ pc' = "done" /\ exit' = "ok"
           /\ seen' = [seen EXCEPT !.evm = node.uid]
  <2>1. /\ seen' \in Seen /\ seen'.evm = node.uid /\ seen'.runs = seen.runs
        /\ seen'.matched = seen.matched /\ seen'.read = seen.read /\ seen'.kind = seen.kind
        /\ seen'.caught = seen.caught
    BY <1>0, <1>9 DEF Seen
  <2>2. node.uid = uids /\ Caught /\ began' = began
    BY <1>4, <1>9 DEF NodeInv, WatchInv, Order
  <2>3. began'.data = "wiped" => ResyncSeen'
    BY <1>9, <2>1, <2>2 DEF WatchInv, ResyncKept, ResyncSeen
  <2>4. ReadyInOrder'
    BY <2>1, <2>2 DEF ReadyInOrder, Caught, Read, Matched
  <2>5. Order'
    BY <1>9 DEF Order
  <2>6. ResyncKept' /\ ResyncVerified'
    BY <1>3, <2>3 DEF ResyncKept, ResyncVerified, ResyncSeen
  <2>7. QED
    BY <2>1, <2>4, <2>5, <2>6
<1>10. QED
  <2>1. WatchTyped
    BY DEF WatchInv
  <2>2. QED
    BY <1>5, <1>6, <1>7, <1>8, <1>9, <2>1, SeenStep

LEMMA WatchStep ==
  ASSUME NodeInv, WatchInv, Watch
  PROVE  WatchInv'
<1>0. WatchTyped /\ WatchClock
  BY DEF WatchInv
<1>1. WatchClock' /\ deadline' \in 0..Horizon /\ ended' \in 0..Horizon /\ began'.at \in 0..Horizon
  BY <1>0, ClockStep
<1>2. seen' \in Seen /\ Order' /\ ReadyInOrder' /\ ResyncKept' /\ ResyncVerified'
  BY OrderStep
<1>3. events' \in Seq(Shown') /\ events' \in Seq([uid : 0..MaxNodes, phase : Phases])
  BY <1>0, EventsStep
<1>4. began' \in [at : 0..Horizon, uid : 0..MaxNodes, data : Stores] /\ began'.uid <= uids'
  <2>1. CASE began' = began
    BY <1>0, <2>1, WatchReads DEF WatchTyped, WatchTypeOK
  <2>2. CASE Start
    <3>1. node.uid \in 0..MaxNodes /\ data \in Stores /\ now \in 0..Horizon /\ uids \in Nat
      BY DEF NodeInv, NodeTypeOK, Nodes
    <3>2. node.uid <= uids
      BY <3>1 DEF NodeInv, Exists
    <3>3. QED
      BY <2>2, <3>1, <3>2, WatchReads DEF Start
  <2>3. QED
    BY <2>1, <2>2 DEF Watch, List, Relist, Deliver, ReadEndpoint, WaitCaughtUp, WaitEVMServing,
                      Expire, WatchFails
<1>5. /\ until' \in Untils \cup {"Running"}
      /\ pc' \in {"start", "list", "watching", "endpoint", "probe", "evm", "done"}
      /\ exit' \in {"none", "ok", "refused", "failed", "timeout", "unpublished", "error"}
  BY <1>0 DEF Watch, Start, List, Relist, Deliver, ReadEndpoint, WaitCaughtUp, WaitEVMServing,
              Expire, WatchFails, Finish, AfterMatch, AfterCaughtUp, WatchTyped, WatchTypeOK
<1>6. WatchTyped'
  BY <1>1, <1>2, <1>3, <1>4, <1>5 DEF WatchTyped, WatchTypeOK, Seen
<1>7. QED
  BY <1>1, <1>2, <1>6 DEF WatchInv

-----------------------------------------------------------------------------
(* The await loop.                                                         *)

\* The numbers of the await loop.
AwaitNumbers ==
  /\ now \in 0..Horizon /\ since \in 0..Horizon /\ aended \in 0..Horizon
  /\ served \in 0..(Horizon + 1)
  /\ Horizon \in Nat /\ AwaitTimeout \in Nat /\ AttemptTimeout \in Nat /\ BackOff \in Nat \ {0}

LEMMA Numbers == NodeInv /\ AwaitInv => AwaitNumbers
BY SeiNodeBounds, AwaitAssumption DEF NodeInv, NodeTypeOK, AwaitInv, AwaitTypeOK, AwaitNumbers

\* The attempt stays as it is while the node changes.
LEMMA AwaitStays ==
  ASSUME NodeInv, AwaitInv, Noticed, now' = now
  PROVE  AwaitInv'
<1>0. AwaitNumbers
  BY Numbers
<1>1. UNCHANGED <<malformed, apc, aexit, since, aended>>
  BY DEF Noticed
<1>2. reached' \in BOOLEAN /\ (~reached' => ~reached \/ ~Available')
  BY DEF Noticed, AwaitInv, AwaitTypeOK, Available, Served
<1>3. \/ ~Available' /\ served' = Horizon + 1
      \/ Available' /\ Available /\ served' = served
      \/ Available' /\ ~Available /\ served' = now
  BY DEF Noticed
<1>4. served' \in 0..(Horizon + 1)
  BY <1>0, <1>3 DEF AwaitNumbers
<1>5. AwaitTypeOK'
  BY <1>1, <1>2, <1>4 DEF AwaitInv, AwaitTypeOK
<1>6. AwaitClock'
  BY <1>1 DEF AwaitInv, AwaitClock
<1>7. since <= now /\ aended <= now
  BY DEF AwaitInv, AwaitClock
<1>8. ServedSince'
  <2>1. (Available' => served' <= now) /\ (~Available' => served' = Horizon + 1)
    BY <1>0, <1>3 DEF AwaitInv, ServedSince, AwaitNumbers
  <2>2. apc = "attempt" /\ ~reached' => since <= served'
    BY <1>0, <1>2, <1>3, <1>7 DEF AwaitInv, ServedSince, AwaitNumbers
  <2>3. QED
    BY <1>1, <2>1, <2>2 DEF ServedSince
<1>9. ReachableIsFound'
  <2>1. CASE served' = served
    BY <1>1, <2>1 DEF AwaitInv, ReachableIsFound
  <2>2. CASE served' = Horizon + 1 \/ served' = now
    BY <1>0, <1>1, <1>7, <2>2 DEF AwaitNumbers, ReachableIsFound
  <2>3. QED
    BY <1>3, <2>1, <2>2
<1>10. QED
  BY <1>5, <1>6, <1>8, <1>9 DEF AwaitInv

\* A sum that an attempt does not reach.
LEMMA Overrun ==
  ASSUME NEW n \in Nat, NEW s \in Nat, NEW t \in Nat, NEW a \in Nat, NEW b \in Nat,
         s < t + b, n <= s + a
  PROVE  n < t + b + a
OBVIOUS

LEMMA AwaitStep ==
  ASSUME NodeInv, AwaitInv, Await
  PROVE  AwaitInv' /\ UNCHANGED nodeVars
<1>0. AwaitNumbers
  BY Numbers
<1>1. UNCHANGED nodeVars /\ UNCHANGED <<malformed, served>> /\ Available' = Available
      /\ UNCHANGED <<now, node, proc, bonded>>
  <2>1. UNCHANGED nodeVars /\ UNCHANGED <<malformed, served>>
    BY DEF Await, Answered, NotYet, Wake
  <2>2. UNCHANGED <<now, node, proc, bonded>>
    BY <2>1 DEF nodeVars
  <2>3. QED
    BY <2>1, <2>2 DEF Available, Served
<1>2. /\ AwaitTypeOK /\ AwaitClock /\ ServedSince /\ ReachableIsFound
      /\ Available \in BOOLEAN
  BY DEF AwaitInv, Available, Served, AwaitTypeOK
<1>3. CASE /\ apc = "attempt" /\ apc' = "done" /\ aended' = now /\ UNCHANGED <<since, reached>>
           /\ \/ aexit' \in {"ok", "bad request", "error"}
              \/ aexit' = "timeout" /\ ~reached
  <2>1. AwaitTypeOK'
    BY <1>0, <1>1, <1>2, <1>3 DEF AwaitTypeOK, AwaitNumbers
  <2>2. AwaitClock'
    <3>1. /\ now \in Nat /\ since \in Nat /\ AwaitTimeout \in Nat /\ AttemptTimeout \in Nat
          /\ BackOff \in Nat
      BY <1>0 DEF AwaitNumbers
    <3>2. since < AwaitTimeout + BackOff /\ now <= since + AttemptTimeout /\ since <= now
      BY <1>2, <1>3 DEF AwaitClock
    <3>3. now < AwaitTimeout + BackOff + AttemptTimeout
      BY <3>1, <3>2, Overrun
    <3>4. aended' = now /\ now' = now /\ since' = since
      BY <1>1, <1>3
    <3>5. now <= now
      BY <3>1
    <3>6. QED
      BY <1>3, <3>2, <3>3, <3>4, <3>5 DEF AwaitClock
  <2>3. ServedSince'
    BY <1>1, <1>2, <1>3 DEF ServedSince
  <2>4. ReachableIsFound'
    BY <1>0, <1>1, <1>2, <1>3 DEF AwaitClock, ServedSince, ReachableIsFound, AwaitNumbers
  <2>5. QED
    BY <1>1, <2>1, <2>2, <2>3, <2>4 DEF AwaitInv
<1>4. CASE /\ apc = "attempt" /\ ~reached /\ now < AwaitTimeout
           /\ apc' = "sleep" /\ since' = now /\ UNCHANGED <<aexit, aended, reached>>
  <2>1. AwaitTypeOK' /\ AwaitClock'
    BY <1>0, <1>1, <1>2, <1>4 DEF AwaitTypeOK, AwaitClock, AwaitNumbers
  <2>2. ServedSince' /\ ReachableIsFound'
    BY <1>1, <1>2, <1>4 DEF ServedSince, ReachableIsFound
  <2>3. QED
    BY <1>1, <2>1, <2>2 DEF AwaitInv
<1>5. CASE Wake
  <2>1. AwaitTypeOK'
    BY <1>0, <1>1, <1>2, <1>5 DEF Wake, NextAttempt, AwaitTypeOK, AwaitNumbers
  <2>2. AwaitClock'
    BY <1>0, <1>1, <1>2, <1>5 DEF Wake, NextAttempt, AwaitClock, AwaitNumbers
  <2>3. ServedSince' /\ ReachableIsFound'
    <3>1. ~Available => since' <= served
      BY <1>0, <1>2, <1>5 DEF Wake, NextAttempt, ServedSince, AwaitNumbers
    <3>2. QED
      BY <1>1, <1>2, <1>5, <3>1 DEF Wake, NextAttempt, ServedSince, ReachableIsFound
  <2>4. QED
    BY <1>1, <2>1, <2>2, <2>3 DEF AwaitInv
<1>6. QED
  BY <1>1, <1>3, <1>4, <1>5 DEF Await, Answered, NotYet, AwaitEnds

-----------------------------------------------------------------------------
(* The clock, and all of it.                                               *)

LEMMA TickStep ==
  ASSUME NodeInv, WatchInv, AwaitInv, Tick
  PROVE  NodeInv' /\ WatchInv' /\ AwaitInv'
<1>0. AwaitNumbers
  BY Numbers
<1>1. now' = now + 1 /\ now < Horizon /\ UNCHANGED <<node, uids, writes, proc, evm, plan, data, runs, bonded>>
  BY DEF Tick, process
<1>2. UNCHANGED <<until, pc, exit, deadline, ended, events, began, seen>>
  BY DEF Tick, watchVars
<1>3. UNCHANGED <<malformed, apc, aexit, since, aended, reached, served>>
  BY DEF Tick, awaitVars
<1>4. NodeInv'
  <2>1. now' \in 0..Horizon
    BY <1>0, <1>1 DEF AwaitNumbers
  <2>2. QED
    BY <1>1, <2>1 DEF NodeInv, NodeTypeOK, Exists
<1>5. WatchInv'
  <2>1. pc # "start" /\ (pc # "done" => now < deadline) /\ deadline \in Nat
    BY DEF Tick, WatchInTime, WatchInv, WatchTyped, WatchTypeOK
  <2>2. WatchClock'
    BY <1>0, <1>1, <1>2, <2>1 DEF WatchInv, WatchClock, AwaitNumbers
  <2>3. WatchTyped'
    BY <1>1, <1>2 DEF WatchInv, WatchTyped, WatchTypeOK, Shown
  <2>4. Order' /\ ReadyInOrder'
    BY <1>1, <1>2 DEF WatchInv, Order, Matched, Read, Caught, ReadyInOrder, Ready
  <2>5. ResyncKept' /\ ResyncVerified'
    BY <1>1, <1>2 DEF WatchInv, ResyncKept, ResyncSeen, Wiped, Exists, ResyncVerified, Ready
  <2>6. QED
    BY <2>2, <2>3, <2>4, <2>5 DEF WatchInv
<1>6. AwaitInv'
  <2>1. AwaitTypeOK /\ AwaitClock /\ ServedSince /\ ReachableIsFound
    BY DEF AwaitInv
  <2>2. Available' = Available
    BY <1>1, <1>3 DEF Available, Served
  <2>3. AwaitTypeOK' /\ ReachableIsFound'
    BY <1>3, <2>1 DEF AwaitTypeOK, ReachableIsFound
  <2>4. (apc = "attempt" => now < since + AttemptTimeout) /\ (apc = "sleep" => now < since + BackOff)
    BY DEF Tick, AwaitInTime, AttemptEnd
  <2>5. AwaitClock'
    BY <1>0, <1>1, <1>3, <2>1, <2>4 DEF AwaitClock, AwaitNumbers
  <2>6. ServedSince'
    BY <1>0, <1>1, <1>3, <2>1, <2>2 DEF ServedSince, AwaitNumbers
  <2>7. QED
    BY <2>3, <2>5, <2>6 DEF AwaitInv
<1>7. QED
  BY <1>4, <1>5, <1>6

LEMMA Safety ==
  ASSUME IInv, [Next]_vars
  PROVE  IInv'
<1>1. NodeInv /\ WatchInv /\ AwaitInv
  BY DEF IInv
<1>2. CASE Environment
  <2>1. Evolves
    BY <1>1, <1>2, ObjectsStep, ProcessStep DEF Environment
  <2>2. WatchInv'
    BY <1>1, <1>2, <2>1, WatchStays DEF Environment
  <2>3. AwaitInv'
    BY <1>1, <1>2, <2>1, AwaitStays DEF Environment, Evolves
  <2>4. QED
    BY <2>1, <2>2, <2>3 DEF IInv, Evolves
<1>3. CASE Watch /\ UNCHANGED awaitVars
  <2>1. NodeInv' /\ UNCHANGED <<now, node, uids, writes, proc, evm, plan, data, runs, bonded>>
    BY <1>1, <1>3, WatchReads
  <2>2. WatchInv'
    BY <1>1, <1>3, WatchStep
  <2>3. AwaitInv'
    BY <1>1, <1>3, <2>1 DEF awaitVars, AwaitInv, AwaitTypeOK, AwaitClock, ServedSince, Available,
                            Served, ReachableIsFound
  <2>4. QED
    BY <2>1, <2>2, <2>3 DEF IInv
<1>4. CASE (Await /\ UNCHANGED watchVars) \/ UNCHANGED vars
  <2>1. UNCHANGED nodeVars /\ UNCHANGED watchVars
    BY <1>1, <1>4, AwaitStep DEF vars
  <2>2. NodeInv'
    BY <1>1, <2>1 DEF nodeVars, NodeInv, NodeTypeOK, Exists
  <2>3. WatchInv'
    <3>1. WatchTyped' /\ WatchClock'
      BY <1>1, <2>1 DEF nodeVars, watchVars, WatchInv, WatchTyped, WatchTypeOK, Shown, WatchClock
    <3>2. Order' /\ ReadyInOrder'
      BY <1>1, <2>1 DEF nodeVars, watchVars, WatchInv, Order, Matched, Read, Caught,
                        ReadyInOrder, Ready
    <3>3. ResyncKept' /\ ResyncVerified'
      BY <1>1, <2>1 DEF nodeVars, watchVars, WatchInv, ResyncKept, ResyncSeen, Wiped, Exists,
                        ResyncVerified, Ready
    <3>4. QED
      BY <3>1, <3>2, <3>3 DEF WatchInv
  <2>4. AwaitInv'
    <3>1. CASE Await
      BY <1>1, <3>1, AwaitStep
    <3>2. CASE UNCHANGED vars
      BY <1>1, <3>2 DEF vars, nodeVars, awaitVars, AwaitInv, AwaitTypeOK, AwaitClock,
                        ServedSince, Available, Served, ReachableIsFound
    <3>3. QED
      BY <1>4, <3>1, <3>2
  <2>5. QED
    BY <2>2, <2>3, <2>4 DEF IInv
<1>5. CASE Tick
  BY <1>1, <1>5, TickStep DEF IInv
<1>6. QED
  BY <1>2, <1>3, <1>4, <1>5 DEF Next

LEMMA InitIInv == Init => IInv
<1> SUFFICES ASSUME Init PROVE IInv
  OBVIOUS
<1> USE SeiNodeBounds, TimeoutAssumption, AwaitAssumption
<1>1. NodeInv
  <2>1. CASE node = NoNode /\ uids = 0
    <3>1. NoNode \in Nodes /\ NoNode.uid = 0
      BY DEF NoNode, Nodes, Kinds, Phases
    <3>2. ~Exists
      BY <2>1, <3>1 DEF Exists
    <3>3. /\ proc = "down" /\ plan = "none" /\ plan \in Plans /\ data \in Stores /\ runs \in Stores
          /\ evm = FALSE /\ bonded = FALSE
      BY <3>2 DEF Init, NodeInit, Plans, Stores
    <3>4. NodeTypeOK
      <4>1. now = 0 /\ writes = 0
        BY DEF Init, NodeInit
      <4>2. now \in 0..Horizon /\ writes \in 0..MaxWrites /\ uids \in 0..MaxNodes
        BY <2>1, <4>1
      <4>3. QED
        BY <2>1, <3>1, <3>3, <4>2 DEF NodeTypeOK
    <3>5. QED
      BY <3>2, <3>3, <3>4 DEF NodeInv
  <2>2. CASE node \in Nodes /\ node.uid = 1 /\ uids = 1
    <3>1. uids \in 0..MaxNodes /\ Exists
      BY <2>2 DEF Nodes, Exists
    <3>2. /\ proc \in {"down", "syncing", "caught"} /\ plan \in Plans
          /\ data \in Stores /\ runs \in Stores
          /\ plan \in {"stopped", "wiped"} => proc = "down"
          /\ proc # "down" => runs = data
          /\ evm = FALSE /\ bonded = FALSE
      BY <3>1 DEF Init, NodeInit, Plans, Stores
    <3>3. NodeTypeOK
      <4>1. now = 0 /\ writes = 0
        BY DEF Init, NodeInit
      <4>2. now \in 0..Horizon /\ writes \in 0..MaxWrites
        BY <4>1
      <4>3. QED
        BY <2>2, <3>1, <3>2, <4>2 DEF NodeTypeOK
    <3>4. QED
      BY <2>2, <3>1, <3>2, <3>3 DEF NodeInv
  <2>3. QED
    BY <2>1, <2>2 DEF Init, NodeInit
<1>2. /\ events = <<>> /\ seen = NothingSeen /\ exit = "none" /\ now = 0 /\ ended = 0 /\ deadline = 0
      /\ pc \in {"start", "done"} /\ until \in Untils \cup {"Running"}
      /\ began = [at |-> 0, uid |-> 0, data |-> "old"]
  BY DEF Init, NodeInit, WatchInit, NoWatch
<1>3. WatchInv
  <2>1. began.at = 0 /\ began.uid = 0 /\ began.data = "old"
    BY <1>2
  <2>2. WatchTyped
    <3>1. events \in Seq(Shown) /\ events \in Seq([uid : 0..MaxNodes, phase : Phases])
      BY <1>2
    <3>2. seen \in [matched : 0..MaxNodes, read : 0..MaxNodes, caught : 0..MaxNodes,
                     evm : 0..MaxNodes, kind : Kinds, runs : Stores]
      BY <1>2 DEF NothingSeen, Kinds, Stores
    <3>3. began \in [at : 0..Horizon, uid : 0..MaxNodes, data : Stores]
      BY <1>2 DEF Stores
    <3>4. deadline \in 0..Horizon /\ ended \in 0..Horizon
      BY <1>2
    <3>5. 0 <= uids
      BY <1>1 DEF NodeInv, NodeTypeOK
    <3>6. QED
      BY <1>2, <2>1, <3>1, <3>2, <3>3, <3>4, <3>5 DEF WatchTyped, WatchTypeOK
  <2>3. WatchClock /\ Order
    BY <1>2, <2>1 DEF WatchClock, Order
  <2>4. ResyncKept /\ ReadyInOrder /\ ResyncVerified
    BY <1>2, <2>1 DEF ResyncKept, ReadyInOrder, ResyncVerified, Ready
  <2>5. QED
    BY <2>2, <2>3, <2>4 DEF WatchInv
<1>4. AwaitInv
  <2>1. ~Available
    BY DEF Init, NodeInit, Available, Served
  <2>2. /\ malformed \in BOOLEAN /\ apc \in {"attempt", "done"} /\ aexit = "none"
        /\ reached \in BOOLEAN
    BY DEF Init, AwaitInit, NoAwait, Available, Served
  <2>3. since = 0 /\ aended = 0 /\ served = Horizon + 1
    BY <2>1 DEF Init, AwaitInit, NoAwait
  <2>4. AwaitTypeOK
    <3>1. since \in 0..Horizon /\ aended \in 0..Horizon /\ served \in 0..(Horizon + 1)
      BY <2>3
    <3>2. QED
      BY <2>2, <3>1 DEF AwaitTypeOK
  <2>5. AwaitClock
    <3>1. 0 <= 0 /\ 0 < AwaitTimeout + BackOff /\ 0 <= 0 + AttemptTimeout
      OBVIOUS
    <3>2. QED
      BY <1>2, <2>2, <2>3, <3>1 DEF AwaitClock
  <2>6. ServedSince
    <3>1. 0 <= Horizon + 1
      OBVIOUS
    <3>2. QED
      BY <2>1, <2>3, <3>1 DEF ServedSince
  <2>7. ReachableIsFound
    BY <2>2 DEF ReachableIsFound
  <2>8. QED
    BY <2>4, <2>5, <2>6, <2>7 DEF AwaitInv
<1>5. QED
  BY <1>1, <1>3, <1>4 DEF IInv

-----------------------------------------------------------------------------
(* The theorems.                                                           *)

LEMMA Invariance == Spec => []IInv
BY InitIInv, Safety, PTL DEF Spec

\* The variables keep their types.
THEOREM TypeCorrect == Spec => []TypeOK
<1>1. IInv => TypeOK
  BY DEF IInv, NodeInv, WatchInv, WatchTyped, AwaitInv, TypeOK
<1>2. QED
  BY Invariance, <1>1, PTL

\* Exit 0 of a caught-up watch rests on answers of the node or of those that
\* replaced it, in the order of the gates, whatever happens between them.
THEOREM InOrder == Spec => []ReadyInOrder
<1>1. IInv => ReadyInOrder
  BY DEF IInv, WatchInv
<1>2. QED
  BY Invariance, <1>1, PTL

\* A caught-up watch begun once the node is wiped only succeeds on a seid that was
\* started on the wiped data, or on a node that replaced the one it began on.
THEOREM Verified == Spec => []ResyncVerified
<1>1. IInv => ResyncVerified
  BY DEF IInv, WatchInv
<1>2. QED
  BY Invariance, <1>1, PTL

\* Both commands end within their bounds, whatever the bounds are.
THEOREM InTime == Spec => []CommandsEndInTime
<1>1. IInv => CommandsEndInTime
  BY DEF IInv, WatchInv, WatchClock, AwaitInv, AwaitClock, CommandsEndInTime
<1>2. QED
  BY Invariance, <1>1, PTL

\* The await loop only times out on a validator that was not served, or not
\* for longer than an attempt.
THEOREM Found == Spec => []ReachableIsFound
<1>1. IInv => ReachableIsFound
  BY DEF IInv, AwaitInv
<1>2. QED
  BY Invariance, <1>1, PTL

=============================================================================
