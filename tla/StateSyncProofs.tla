-------------------------- MODULE StateSyncProofs --------------------------
(***************************************************************************)
(* The safety properties of StateSync for every set of runs, names,        *)
(* parameters and command lines.                                           *)
(*                                                                         *)
(* A step is described twice, once from the side of the stored objects     *)
(* (Evolves) and once from the side of a run (ShownGrows): the parts of    *)
(* the invariant then follow without going through the actions again.      *)
(***************************************************************************)
EXTENDS StateSync, TLAPS

-----------------------------------------------------------------------------
(* Types.                                                                  *)

\* The view of a stored object is a view.
LEMMA ViewType ==
  ASSUME NEW c \in Workflows
  PROVE  View(c) \in Views
BY DEF Workflows, Views, View, Specs

\* A status update yields an object, whatever phase the controller reports.
LEMMA WithStatusType ==
  ASSUME TypeOK, NEW c \in Workflows, NEW p \in Phases
  PROVE  WithStatus(c, p) \in Workflows
BY DEF Workflows, WithStatus, TypeOK, ClusterTypeOK

\* What a fresh apply stores is an object.
LEMMA CreatedType ==
  ASSUME TypeOK, NEW s \in Specs
  PROVE  Created(s) \in Workflows
BY DEF Workflows, Created, TypeOK, ClusterTypeOK, Phases

\* A run that has not decided is shown nothing.
LEMMA NoViewType == NoView \in Views
<1>1. (CHOOSE p \in Params : TRUE) \in Params
  BY ParamsAssumption
<1>2. QED
  BY <1>1 DEF NoView, Views, Phases

\* One more event leaves a watch a watch.
LEMMA AppendType ==
  ASSUME NEW w \in Watches, NEW v \in Views
  PROVE  [w EXCEPT !.events = Append(@, v)] \in Watches
<1> DEFINE e == Append(w.events, v)
<1>1. e \in Seq(Views)
  BY DEF Watches
<1> HIDE DEF e
<1>2. [w EXCEPT !.events = e] \in Watches
  BY <1>1 DEF Watches
<1>3. QED
  BY <1>2 DEF e

\* One event less, too.
LEMMA TailType ==
  ASSUME NEW w \in Watches, w.events # <<>>
  PROVE  /\ [w EXCEPT !.events = Tail(@)] \in Watches
         /\ Head(w.events) \in Views
<1> DEFINE e == Tail(w.events)
<1>1. w.events \in Seq(Views)
  BY DEF Watches
<1>2. e \in Seq(Views)
  BY <1>1
<1>3. Head(w.events) \in Views
  BY <1>1
<1> HIDE DEF e
<1>4. [w EXCEPT !.events = e] \in Watches
  BY <1>2 DEF Watches
<1>5. QED
  BY <1>3, <1>4 DEF e

\* Storing an object under a name keeps the store and the watches well typed.
LEMMA WriteType ==
  ASSUME TypeOK, NEW n \in Names, NEW c \in Workflows, Write(n, c)
  PROVE  /\ wf' \in [Names -> Workflows \cup {NoCR}]
         /\ watch' \in [Runs -> Watches]
<1>1. View(c) \in Views
  BY ViewType
<1>2. wf' \in [Names -> Workflows \cup {NoCR}]
  BY DEF Write, TypeOK, ClusterTypeOK
<1>3. ASSUME NEW r \in Runs
      PROVE  [watch[r] EXCEPT !.events = Append(@, View(c))] \in Watches
  BY <1>1, AppendType DEF TypeOK, ClusterTypeOK
<1>4. watch' \in [Runs -> Watches]
  BY <1>3 DEF Write, Publish, TypeOK, ClusterTypeOK
<1>5. QED
  BY <1>2, <1>4

\* Forgetting an object, too.
LEMMA RemoveType ==
  ASSUME TypeOK, NEW n \in Names, Remove(n)
  PROVE  /\ wf' \in [Names -> Workflows \cup {NoCR}]
         /\ watch' \in [Runs -> Watches]
BY DEF Remove, TypeOK, ClusterTypeOK

\* The command lines are command lines.
LEMMA ArgType ==
  ASSUME TypeOK, NEW r \in Runs
  PROVE  Name(r) \in Names /\ arg[r].spec \in Specs /\ arg[r].cmd \in Commands
BY CommandLinesAssumption DEF TypeOK, Args, Name

\* An edited object, a marked object, are objects.
LEMMA EditType ==
  ASSUME NEW c \in Workflows, NEW s \in Specs
  PROVE  /\ [c EXCEPT !.spec = s, !.gen = @ + 1] \in Workflows
         /\ [c EXCEPT !.deleting = TRUE, !.gen = @ + 1] \in Workflows
<1>1. c.gen + 1 \in Nat
  BY DEF Workflows
<1> DEFINE d == [c EXCEPT !.spec = s]
           m == [c EXCEPT !.deleting = TRUE]
<1>2. d \in Workflows /\ m \in Workflows
  BY DEF Workflows
<1> HIDE DEF d, m
<1>3. /\ [d EXCEPT !.gen = c.gen + 1] \in Workflows
      /\ [m EXCEPT !.gen = c.gen + 1] \in Workflows
  BY <1>1, <1>2 DEF Workflows
<1>4. QED
  BY <1>3 DEF d, m

\* A flag does not change what an object is.
LEMMA FlagType ==
  ASSUME NEW c \in Workflows
  PROVE  /\ [c EXCEPT !.finalizer = TRUE] \in Workflows
         /\ [c EXCEPT !.finalizer = FALSE] \in Workflows
         /\ [c EXCEPT !.force = TRUE] \in Workflows
BY DEF Workflows

\* A name's slot holds an object or nothing.
LEMMA StoredType ==
  ASSUME TypeOK, NEW n \in Names, Exists(n)
  PROVE  wf[n] \in Workflows /\ wf[n].spec \in Specs
<1>1. wf[n] \in Workflows
  BY DEF TypeOK, ClusterTypeOK, Exists
<1>2. QED
  BY <1>1 DEF Workflows

\* The API server's two writes keep the store and the watches well typed.
LEMMA ApplyType ==
  ASSUME TypeOK, NEW n \in Names, NEW s \in Specs, ServerSideApply(n, s)
  PROVE  /\ wf' \in [Names -> Workflows \cup {NoCR}]
         /\ watch' \in [Runs -> Watches]
         /\ uids' \in Nat
         /\ GenerationAfterApply(n, s) \in Nat
         /\ wf'[n] \in Workflows
<1>1. GenerationAfterApply(n, s) \in Nat
  <2>1. CASE Exists(n)
    BY <2>1, StoredType DEF GenerationAfterApply, Workflows
  <2>2. CASE ~Exists(n)
    BY <2>2 DEF GenerationAfterApply
  <2>3. QED
    BY <2>1, <2>2
<1>2. uids \in Nat
  BY DEF TypeOK, ClusterTypeOK
<1>3. CASE /\ ~Exists(n)
           /\ Write(n, Created(s))
           /\ uids' = uids + 1
  <2>1. Created(s) \in Workflows
    BY CreatedType
  <2>2. wf'[n] = Created(s)
    BY <1>3 DEF Write, TypeOK, ClusterTypeOK
  <2>3. QED
    BY <1>1, <1>2, <1>3, <2>1, <2>2, WriteType
<1>4. CASE /\ Exists(n) /\ wf[n].spec # s
           /\ Write(n, [wf[n] EXCEPT !.spec = s, !.gen = @ + 1])
           /\ UNCHANGED uids
  <2> DEFINE c == [wf[n] EXCEPT !.spec = s, !.gen = @ + 1]
  <2>1. c \in Workflows
    BY <1>4, StoredType, EditType
  <2>2. wf'[n] = c
    BY <1>4 DEF Write, TypeOK, ClusterTypeOK
  <2> HIDE DEF c
  <2>3. Write(n, c)
    BY <1>4 DEF c
  <2>4. QED
    BY <1>1, <1>2, <1>4, <2>1, <2>2, <2>3, WriteType
<1>5. CASE Exists(n) /\ wf[n].spec = s /\ UNCHANGED <<wf, watch, uids>>
  BY <1>1, <1>2, <1>5, StoredType DEF TypeOK, ClusterTypeOK
<1>6. QED
  BY <1>3, <1>4, <1>5 DEF ServerSideApply

\* A deletion keeps the store and the watches well typed.
LEMMA DeleteType ==
  ASSUME TypeOK, NEW n \in Names, DeleteObject(n)
  PROVE  /\ wf' \in [Names -> Workflows \cup {NoCR}]
         /\ watch' \in [Runs -> Watches]
<1> DEFINE c == [wf[n] EXCEPT !.deleting = TRUE, !.gen = @ + 1]
<1>2. c \in Workflows
  BY StoredType, EditType DEF DeleteObject
<1> HIDE DEF c
<1>3. Remove(n) \/ Write(n, c) \/ UNCHANGED <<wf, watch>>
  BY DEF DeleteObject, c
<1>4. QED
  BY <1>2, <1>3, RemoveType, WriteType DEF TypeOK, ClusterTypeOK

\* The initial states are well typed.
LEMMA InitType == Init => TypeOK
<1>1. NoWatch \in Watches
  BY DEF NoWatch, Watches
<1>2. ASSUME Init PROVE TypeOK
  <2>1. ClusterTypeOK
    BY <1>1, <1>2 DEF Init, ClusterInit, ClusterTypeOK
  <2>2. QED
    BY <1>2, <2>1, NoViewType DEF Init, TypeOK, Pcs, Exits
<1>3. QED
  BY <1>2

\* Every step of the controller, and the annotation, keeps the types.
LEMMA ControllerType ==
  ASSUME TypeOK, NEW n \in Names, Controller(n) \/ Annotate(n)
  PROVE  ClusterTypeOK'
<1> USE DEF ClusterTypeOK
<1>1. Exists(n)
  BY DEF Controller, Queue, Adopt, RefuseAdoption, Complete, FailStep, Reap,
         Reconfirm, ForceRelease, Collect, Annotate
<1>2. wf[n] \in Workflows
  BY <1>1, StoredType
<1>3. \A p \in Phases : WithStatus(wf[n], p) \in Workflows
  BY <1>2, WithStatusType
<1>4. wf[n].phase \in Phases
  BY <1>2 DEF Workflows
<1>5. CASE Queue(n)
  BY <1>3, <1>5, WriteType DEF Queue, Phases, TypeOK
<1>6. CASE Adopt(n)
  <2>1. [WithStatus(wf[n], "Running") EXCEPT !.finalizer = TRUE] \in Workflows
    BY <1>3, FlagType DEF Phases
  <2>2. QED
    BY <1>6, <2>1, WriteType DEF Adopt, TypeOK
<1>7. CASE RefuseAdoption(n)
  BY <1>3, <1>7, WriteType DEF RefuseAdoption, Phases, TypeOK
<1>8. CASE Complete(n)
  BY <1>3, <1>8, WriteType DEF Complete, Phases, TypeOK
<1>9. CASE FailStep(n)
  BY <1>3, <1>9, WriteType DEF FailStep, Phases, TypeOK
<1>10. CASE Reap(n)
  <2>1. [wf[n] EXCEPT !.finalizer = FALSE] \in Workflows
    BY <1>2, FlagType
  <2>2. QED
    BY <1>10, <2>1, WriteType DEF Reap, TypeOK
<1>11. CASE Reconfirm(n)
  BY <1>3, <1>4, <1>11, WriteType DEF Reconfirm, TypeOK
<1>12. CASE ForceRelease(n)
  BY <1>12, RemoveType DEF ForceRelease, TypeOK
<1>13. CASE Collect(n)
  BY <1>13, RemoveType DEF Collect, TypeOK
<1>14. CASE Annotate(n)
  <2>1. [wf[n] EXCEPT !.force = TRUE] \in Workflows
    BY <1>2, FlagType
  <2>2. QED
    BY <1>14, <2>1, WriteType DEF Annotate, TypeOK
<1>15. QED
  BY <1>5, <1>6, <1>7, <1>8, <1>9, <1>10, <1>11, <1>12, <1>13, <1>14 DEF Controller

\* The watch a list opens, whether or not there is an object.
LEMMA ListType ==
  ASSUME TypeOK, NEW r \in Runs
  PROVE  LET e == IF Exists(Name(r)) THEN <<View(wf[Name(r)])>> ELSE <<>>
         IN  /\ [name |-> Name(r), events |-> e] \in Watches
             /\ [watch[r] EXCEPT !.events = e] \in Watches
<1> DEFINE e == IF Exists(Name(r)) THEN <<View(wf[Name(r)])>> ELSE <<>>
<1>1. e \in Seq(Views)
  BY ArgType, StoredType, ViewType
<1>2. watch[r] \in Watches /\ Name(r) \in Names
  BY ArgType DEF TypeOK, ClusterTypeOK
<1> HIDE DEF e
<1>3. /\ [name |-> Name(r), events |-> e] \in Watches
      /\ [watch[r] EXCEPT !.events = e] \in Watches
  BY <1>1, <1>2 DEF Watches
<1>4. QED
  BY <1>3 DEF e

\* Every step of a run keeps the types.
LEMMA RunType ==
  ASSUME TypeOK, NEW r \in Runs, Run(r) \/ Relist(r)
  PROVE  TypeOK'
<1> USE ArgType DEF TypeOK, ClusterTypeOK, Exit, Goto, applyVars, Pcs, Exits
<1>1. CASE Start(r)
  BY <1>1 DEF Start, clusterVars, FirstStep, Commands
<1>2. CASE Preflight(r)
  <2>1. CASE PreflightPasses(Name(r))
    BY <1>2, <2>1 DEF Preflight
  <2>2. CASE ~PreflightPasses(Name(r))
    <3>1. Name(r) \in Names /\ Exists(Name(r))
      BY <2>2 DEF PreflightPasses
    <3>2. View(wf[Name(r)]) \in Views
      BY <3>1, StoredType, ViewType
    <3>3. /\ pc' = [pc EXCEPT ![r] = "done"] /\ exit' = [exit EXCEPT ![r] = "refused"]
          /\ verdict' = [verdict EXCEPT ![r] = View(wf[Name(r)])]
          /\ UNCHANGED <<wf, uids, adopted, held, watch, applied, checked, arg,
                         applyVars, missed>>
      BY <1>2, <2>2 DEF Preflight
    <3>4. verdict' \in [Runs -> Views]
      BY <3>2, <3>3
    <3>5. pc' \in [Runs -> Pcs] /\ exit' \in [Runs -> Exits]
      BY <3>3
    <3>6. QED
      BY <3>3, <3>4, <3>5
  <2>3. QED
    BY <2>1, <2>2
<1>3. CASE Apply(r)
  <2> DEFINE g == GenerationAfterApply(Name(r), arg[r].spec)
             b == SpecChanges(Name(r), arg[r].spec)
             u == wf'[Name(r)].uid
  <2>1. /\ wf' \in [Names -> Workflows \cup {NoCR}] /\ watch' \in [Runs -> Watches]
        /\ uids' \in Nat /\ g \in Nat /\ wf'[Name(r)] \in Workflows
    BY <1>3, ApplyType DEF Apply
  <2>2. u \in Nat /\ b \in BOOLEAN
    BY <2>1 DEF Workflows, SpecChanges
  <2>3. /\ pc' = [pc EXCEPT ![r] = "list"] /\ applied' = applied \cup {r}
        /\ appliedGen' = [appliedGen EXCEPT ![r] = g]
        /\ appliedUid' = [appliedUid EXCEPT ![r] = u]
        /\ changed' = [changed EXCEPT ![r] = b]
        /\ UNCHANGED <<adopted, held, checked, arg, exit, verdict, missed>>
    BY <1>3 DEF Apply
  <2> HIDE DEF g, b, u
  <2>4. /\ appliedGen' \in [Runs -> Nat] /\ appliedUid' \in [Runs -> Nat]
        /\ changed' \in [Runs -> BOOLEAN]
    BY <2>1, <2>2, <2>3
  <2>5. pc' \in [Runs -> Pcs] /\ applied' \in SUBSET Runs
    BY <2>3
  <2>6. QED
    BY <2>1, <2>3, <2>4, <2>5
<1>4. CASE ApplyOnly(r)
  <2>1. /\ wf' \in [Names -> Workflows \cup {NoCR}] /\ watch' \in [Runs -> Watches]
        /\ uids' \in Nat
    BY <1>4, ApplyType DEF ApplyOnly
  <2>2. /\ pc' = [pc EXCEPT ![r] = "done"] /\ verdict' = [verdict EXCEPT ![r] = NoView]
        /\ \E x \in {"ok", "error"} : exit' = [exit EXCEPT ![r] = x]
        /\ applied' = applied \cup {r}
        /\ UNCHANGED <<adopted, held, checked, arg, applyVars, missed>>
    BY <1>4 DEF ApplyOnly
  <2>3. /\ pc' \in [Runs -> Pcs] /\ exit' \in [Runs -> Exits]
        /\ verdict' \in [Runs -> Views]
    BY <2>2, NoViewType
  <2>4. QED
    BY <2>1, <2>2, <2>3
<1>5. CASE DryRun(r)
  BY <1>5, NoViewType DEF DryRun, clusterVars
<1>6. CASE List(r)
  BY <1>6, ListType DEF List
<1>7. CASE Deliver(r)
  <2>1. NoWatch \in Watches
    BY DEF NoWatch, Watches
  <2>2. watch[r] \in Watches /\ watch[r].events # <<>>
    BY <1>7 DEF Deliver
  <2>3. /\ [watch[r] EXCEPT !.events = Tail(@)] \in Watches
        /\ Head(watch[r].events) \in Views
    BY <2>2, TailType
  <2> DEFINE v == Head(watch[r].events)
             w == [watch[r] EXCEPT !.events = Tail(@)]
  <2>4. w \in Watches /\ v \in Views
    BY <2>3
  <2>5. \/ Exit(r, "ok", v) /\ watch' = [watch EXCEPT ![r] = NoWatch] /\ UNCHANGED missed
        \/ Exit(r, "failed", v) /\ watch' = [watch EXCEPT ![r] = NoWatch] /\ UNCHANGED missed
        \/ /\ watch' = [watch EXCEPT ![r] = w]
           /\ missed' = [missed EXCEPT ![r] = v] \/ missed' = missed
           /\ UNCHANGED <<pc, exit, verdict>>
    BY <1>7 DEF Deliver
  <2> HIDE DEF v, w
  <2>6. UNCHANGED <<wf, uids, adopted, held, checked, applied, arg, applyVars>>
    BY <1>7 DEF Deliver
  <2>7. QED
    BY <2>1, <2>4, <2>5, <2>6
<1>8. CASE Timeout(r) \/ WatchFails(r)
  <2>1. NoWatch \in Watches
    BY DEF NoWatch, Watches
  <2>2. QED
    BY <1>8, <2>1, NoViewType DEF Timeout, WatchFails
<1>9. CASE Delete(r)
  BY <1>9, DeleteType, NoViewType DEF Delete
<1>10. CASE ApiError(r)
  BY <1>10, NoViewType DEF ApiError, clusterVars
<1>11. CASE Relist(r)
  BY <1>11, ListType DEF Relist, cliVars
<1>12. QED
  BY <1>1, <1>2, <1>3, <1>4, <1>5, <1>6, <1>7, <1>8, <1>9, <1>10, <1>11 DEF Run, Progress

\* Every step keeps the types.
LEMMA NextType == TypeOK /\ [Next]_vars => TypeOK'
<1> SUFFICES ASSUME TypeOK, [Next]_vars PROVE TypeOK'
  OBVIOUS
<1>1. CASE \E n \in Names : (Controller(n) \/ Annotate(n)) /\ UNCHANGED cliVars
  BY <1>1, ControllerType DEF TypeOK, cliVars
<1>2. CASE \E r \in Runs : Run(r) \/ Relist(r)
  BY <1>2, RunType
<1>3. CASE UNCHANGED vars
  BY <1>3 DEF vars, clusterVars, cliVars, TypeOK, ClusterTypeOK
<1>4. QED
  BY <1>1, <1>2, <1>3 DEF Next, Environment

\* Every variable has its type, for every set of runs, names and recipes.
THEOREM TypeCorrect == Spec => []TypeOK
BY InitType, NextType, PTL DEF Spec

-----------------------------------------------------------------------------
(* How a step changes the store.                                           *)

SameObject(n) ==
  /\ Exists(n) /\ wf'[n] \in Workflows
  /\ wf'[n].uid = wf[n].uid
  /\ wf'[n].spec.params = wf[n].spec.params

NewObject(n) ==
  /\ wf'[n] \in Workflows
  /\ uids' = uids + 1 /\ wf'[n].uid = uids + 1
  /\ wf'[n].gen = 1 /\ wf'[n].obs = 0
  /\ wf'[n].phase = "None" /\ wf'[n].fresh = {}

KeepsStatus(n) ==
  /\ SameObject(n)
  /\ wf'[n].gen >= wf[n].gen
  /\ wf'[n].obs = wf[n].obs /\ wf'[n].phase = wf[n].phase
  /\ wf'[n].since = wf[n].since /\ wf'[n].fresh = wf[n].fresh

WritesStatus(n) ==
  /\ SameObject(n)
  /\ wf'[n].gen = wf[n].gen
  /\ wf'[n].obs = wf[n].gen /\ wf'[n].fresh = applied
  /\ \/ wf'[n].phase = wf[n].phase /\ wf'[n].since = wf[n].since
     \/ wf'[n].since = checked

Evolves(n) ==
  \/ wf'[n] = wf[n] \/ wf'[n] = NoCR
  \/ NewObject(n) \/ KeepsStatus(n) \/ WritesStatus(n)

\* A status update is a status update.
LEMMA WithStatusEvolves ==
  ASSUME TypeOK, NEW n \in Names, Exists(n), NEW p \in Phases, NEW f \in BOOLEAN,
         \/ Write(n, WithStatus(wf[n], p))
         \/ Write(n, [WithStatus(wf[n], p) EXCEPT !.finalizer = f])
  PROVE  WritesStatus(n)
<1> DEFINE c == WithStatus(wf[n], p)
<1>1. wf[n] \in Workflows /\ c \in Workflows
  BY StoredType, WithStatusType
<1>2. /\ c.uid = wf[n].uid /\ c.spec = wf[n].spec /\ c.gen = wf[n].gen
      /\ c.obs = wf[n].gen /\ c.fresh = applied
      /\ \/ c.phase = wf[n].phase /\ c.since = wf[n].since
         \/ c.since = checked
  BY <1>1 DEF WithStatus, Workflows
<1> HIDE DEF c
<1>3. [c EXCEPT !.finalizer = f] \in Workflows
  BY <1>1 DEF Workflows
<1>4. wf'[n] = c \/ wf'[n] = [c EXCEPT !.finalizer = f]
  BY DEF Write, TypeOK, ClusterTypeOK, c
<1>5. CASE wf'[n] = c
  BY <1>1, <1>2, <1>5 DEF WritesStatus, SameObject
<1>6. CASE wf'[n] = [c EXCEPT !.finalizer = f]
  BY <1>1, <1>2, <1>3, <1>6 DEF WritesStatus, SameObject, Workflows
<1>7. QED
  BY <1>4, <1>5, <1>6

\* A write under one name leaves the others alone.
LEMMA OtherNames ==
  ASSUME TypeOK, NEW n \in Names, NEW c, Write(n, c) \/ Remove(n)
  PROVE  \A m \in Names \ {n} : wf'[m] = wf[m]
BY DEF Write, Remove, TypeOK, ClusterTypeOK

\* A flag, or the force-delete annotation, leaves the status alone.
LEMMA FlagEvolves ==
  ASSUME TypeOK, NEW n \in Names, Exists(n), NEW f \in BOOLEAN,
         \/ Write(n, [wf[n] EXCEPT !.finalizer = f])
         \/ Write(n, [wf[n] EXCEPT !.force = f])
         \/ Write(n, [wf[n] EXCEPT !.deleting = TRUE, !.gen = @ + 1])
  PROVE  KeepsStatus(n)
<1>1. wf[n] \in Workflows
  BY StoredType
<1>2. \/ wf'[n] = [wf[n] EXCEPT !.finalizer = f]
      \/ wf'[n] = [wf[n] EXCEPT !.force = f]
      \/ wf'[n] = [wf[n] EXCEPT !.deleting = TRUE, !.gen = @ + 1]
  BY DEF Write, TypeOK, ClusterTypeOK
<1>3. CASE \/ wf'[n] = [wf[n] EXCEPT !.finalizer = f]
           \/ wf'[n] = [wf[n] EXCEPT !.force = f]
  BY <1>1, <1>3 DEF KeepsStatus, SameObject, Workflows
<1>4. CASE wf'[n] = [wf[n] EXCEPT !.deleting = TRUE, !.gen = @ + 1]
  <2>1. wf'[n] \in Workflows
    BY <1>1, <1>4, StoredType, EditType
  <2>2. QED
    BY <1>1, <1>4, <2>1 DEF KeepsStatus, SameObject, Workflows
<1>5. QED
  BY <1>2, <1>3, <1>4

\* A server-side apply creates the object, edits it, or changes nothing.
LEMMA ApplyEvolves ==
  ASSUME TypeOK, NEW n \in Names, NEW s \in Specs, ServerSideApply(n, s)
  PROVE  /\ \A m \in Names : Evolves(m)
         /\ uids' = uids \/ uids' = uids + 1
         /\ wf'[n].spec = s
         /\ wf'[n].gen = GenerationAfterApply(n, s)
         /\ \/ NewObject(n)
            \/ KeepsStatus(n) /\ wf'[n].gen = wf[n].gen + 1
            \/ wf'[n] = wf[n] /\ Exists(n) /\ ~SpecChanges(n, s)
<1>1. CASE /\ ~Exists(n)
           /\ Write(n, Created(s))
           /\ uids' = uids + 1
  <2>1. wf'[n] = Created(s) /\ Created(s) \in Workflows
    BY <1>1, CreatedType DEF Write, TypeOK, ClusterTypeOK
  <2>2. NewObject(n) /\ wf'[n].spec = s /\ wf'[n].gen = 1 /\ wf'[n].uid = uids + 1
    BY <1>1, <2>1 DEF NewObject, Created
  <2>3. uids \in Nat
    BY DEF TypeOK, ClusterTypeOK
  <2>4. QED
    BY <1>1, <2>2, <2>3, OtherNames DEF Evolves, GenerationAfterApply
<1>2. CASE /\ Exists(n) /\ wf[n].spec # s
           /\ Write(n, [wf[n] EXCEPT !.spec = s, !.gen = @ + 1])
           /\ UNCHANGED uids
  <2>1. wf[n] \in Workflows
    BY <1>2, StoredType
  <2>2. wf'[n] = [wf[n] EXCEPT !.spec = s, !.gen = @ + 1]
    BY <1>2 DEF Write, TypeOK, ClusterTypeOK
  <2>3. wf[n].spec.params = s.params
    BY <1>2 DEF ServerSideApply, SpecAccepted
  <2>4. wf'[n] \in Workflows
    BY <2>1, <2>2, EditType
  <2>5. KeepsStatus(n) /\ wf'[n].spec = s /\ wf'[n].gen = wf[n].gen + 1
    BY <1>2, <2>1, <2>2, <2>3, <2>4 DEF KeepsStatus, SameObject, Workflows
  <2>6. QED
    BY <1>2, <2>5, OtherNames DEF Evolves, GenerationAfterApply
<1>3. CASE Exists(n) /\ wf[n].spec = s /\ UNCHANGED <<wf, watch, uids>>
  BY <1>3 DEF Evolves, GenerationAfterApply, SpecChanges
<1>4. QED
  BY <1>1, <1>2, <1>3 DEF ServerSideApply

\* A deletion removes the object or leaves its status alone.
LEMMA DeleteEvolves ==
  ASSUME TypeOK, NEW n \in Names, DeleteObject(n)
  PROVE  \A m \in Names : Evolves(m)
<1>1. CASE Remove(n)
  <2>1. wf'[n] = NoCR
    BY <1>1 DEF Remove, TypeOK, ClusterTypeOK
  <2>2. QED
    BY <1>1, <2>1, OtherNames DEF Evolves
<1>2. CASE Write(n, [wf[n] EXCEPT !.deleting = TRUE, !.gen = @ + 1])
  BY <1>2, FlagEvolves, OtherNames DEF Evolves, DeleteObject
<1>3. CASE UNCHANGED <<wf, watch>>
  BY <1>3 DEF Evolves
<1>4. QED
  BY <1>1, <1>2, <1>3 DEF DeleteObject

\* The controller writes statuses, sets flags and removes objects.
LEMMA ControllerEvolves ==
  ASSUME TypeOK, NEW n \in Names, Controller(n) \/ Annotate(n)
  PROVE  \A m \in Names : Evolves(m)
<1>1. wf[n] \in Workflows /\ wf[n].phase \in Phases /\ Exists(n)
  <2>1. Exists(n)
    BY DEF Controller, Queue, Adopt, RefuseAdoption, Complete, FailStep, Reap,
           Reconfirm, ForceRelease, Collect, Annotate
  <2>2. QED
    BY <2>1, StoredType DEF Workflows
<1>2. CASE \/ Queue(n) \/ Adopt(n) \/ RefuseAdoption(n) \/ Complete(n)
           \/ FailStep(n) \/ Reconfirm(n)
  <2>1. \E p \in Phases : \/ Write(n, WithStatus(wf[n], p))
                          \/ Write(n, [WithStatus(wf[n], p) EXCEPT !.finalizer = TRUE])
    BY <1>1, <1>2 DEF Phases, Queue, Adopt, RefuseAdoption, Complete, FailStep, Reconfirm
  <2>2. WritesStatus(n)
    BY <1>1, <2>1, WithStatusEvolves
  <2>3. QED
    BY <2>1, <2>2, OtherNames DEF Evolves
<1>3. CASE Reap(n) \/ Annotate(n)
  <2>1. \/ Write(n, [wf[n] EXCEPT !.finalizer = FALSE])
        \/ Write(n, [wf[n] EXCEPT !.force = TRUE])
    BY <1>3 DEF Reap, Annotate
  <2>2. KeepsStatus(n)
    BY <1>1, <2>1, FlagEvolves
  <2>3. QED
    BY <2>1, <2>2, OtherNames DEF Evolves
<1>4. CASE ForceRelease(n) \/ Collect(n)
  <2>1. Remove(n)
    BY <1>4 DEF ForceRelease, Collect
  <2>2. wf'[n] = NoCR
    BY <2>1 DEF Remove, TypeOK, ClusterTypeOK
  <2>3. QED
    BY <2>1, <2>2, OtherNames DEF Evolves
<1>5. QED
  BY <1>2, <1>3, <1>4 DEF Controller

\* What any step does to the store and to the histories.
LEMMA StoreStep ==
  ASSUME TypeOK, [Next]_vars
  PROVE  /\ \A m \in Names : Evolves(m)
         /\ uids' = uids \/ uids' = uids + 1
         /\ checked \subseteq checked' /\ applied \subseteq applied'
         /\ arg' = arg
<1>1. CASE \E n \in Names : (Controller(n) \/ Annotate(n)) /\ UNCHANGED cliVars
  <2>1. PICK n \in Names : (Controller(n) \/ Annotate(n)) /\ UNCHANGED cliVars
    BY <1>1
  <2>2. UNCHANGED <<uids, checked, applied>>
    BY <2>1 DEF Controller, Queue, Adopt, RefuseAdoption, Complete, FailStep,
                Reap, Reconfirm, ForceRelease, Collect, Annotate
  <2>3. QED
    BY <2>1, <2>2, ControllerEvolves DEF cliVars
<1>2. CASE \E r \in Runs : Run(r) \/ Relist(r)
  <2>1. PICK r \in Runs : Run(r) \/ Relist(r)
    BY <1>2
  <2>2. CASE Apply(r) \/ ApplyOnly(r)
    BY <2>2, ApplyEvolves, ArgType DEF Apply, ApplyOnly
  <2>3. CASE Delete(r)
    <3>1. (\A m \in Names : Evolves(m)) /\ UNCHANGED <<uids, checked, applied, arg>>
      BY <2>3, DeleteEvolves, ArgType DEF Delete, Evolves
    <3>2. QED
      BY <3>1
  <2>4. CASE Start(r) \/ DryRun(r) \/ ApiError(r) \/ Relist(r)
    BY <2>4 DEF Start, DryRun, ApiError, Relist, clusterVars, cliVars, Evolves
  <2>5. CASE Preflight(r) \/ List(r) \/ Deliver(r) \/ Timeout(r) \/ WatchFails(r)
    BY <2>5 DEF Preflight, List, Deliver, Timeout, WatchFails, Evolves
  <2>6. QED
    BY <2>1, <2>2, <2>3, <2>4, <2>5 DEF Run, Progress
<1>3. CASE UNCHANGED vars
  BY <1>3 DEF vars, clusterVars, cliVars, Evolves
<1>4. QED
  BY <1>1, <1>2, <1>3 DEF Next, Environment

-----------------------------------------------------------------------------
(* How a step changes what a run is shown.                                 *)

\* One more event is the events there were and the new one.
LEMMA EventsAppend ==
  ASSUME NEW w \in Watches, NEW v \in Views
  PROVE  Events([w EXCEPT !.events = Append(@, v)]) \subseteq Events(w) \cup {v}
<1> DEFINE e == Append(w.events, v)
<1>1. w.events \in Seq(Views)
  BY DEF Watches
<1>2. [w EXCEPT !.events = e].events = e
  BY DEF Watches
<1>3. /\ DOMAIN e = 1 .. Len(w.events) + 1
      /\ DOMAIN w.events = 1 .. Len(w.events)
      /\ \A i \in 1 .. Len(w.events) : e[i] = w.events[i]
      /\ e[Len(w.events) + 1] = v
  BY <1>1
<1>4. ASSUME NEW i \in DOMAIN e PROVE e[i] \in Events(w) \cup {v}
  <2>1. Len(w.events) \in Nat
    BY <1>1
  <2>2. CASE i = Len(w.events) + 1
    BY <1>3, <2>2
  <2>3. CASE i \in 1 .. Len(w.events)
    BY <1>3, <2>3 DEF Events
  <2>4. QED
    BY <1>3, <1>4, <2>1, <2>2, <2>3
<1> HIDE DEF e
<1>5. Events([w EXCEPT !.events = e]) \subseteq Events(w) \cup {v}
  BY <1>2, <1>4 DEF Events
<1>6. QED
  BY <1>5 DEF e

\* The event delivered was among the events, and so are those left.
LEMMA EventsTail ==
  ASSUME NEW w \in Watches, w.events # <<>>
  PROVE  /\ Head(w.events) \in Events(w)
         /\ Events([w EXCEPT !.events = Tail(@)]) \subseteq Events(w)
<1> DEFINE e == Tail(w.events)
<1>1. w.events \in Seq(Views) /\ Len(w.events) \in Nat /\ Len(w.events) > 0
  BY DEF Watches
<1>2. [w EXCEPT !.events = e].events = e
  BY DEF Watches
<1>3. Head(w.events) \in Events(w)
  BY <1>1 DEF Events
<1>4. ASSUME NEW i \in DOMAIN e PROVE e[i] \in Events(w)
  <2>1. i \in 1 .. Len(w.events) - 1 /\ e[i] = w.events[i + 1]
    BY <1>1, <1>4
  <2>2. i + 1 \in DOMAIN w.events
    BY <1>1, <2>1
  <2>3. QED
    BY <2>1, <2>2 DEF Events
<1> HIDE DEF e
<1>5. Events([w EXCEPT !.events = e]) \subseteq Events(w)
  BY <1>2, <1>4 DEF Events
<1>6. QED
  BY <1>3, <1>5 DEF e

\* A list shows the stored object, if there is one, and nothing else.
LEMMA EventsList ==
  ASSUME NEW w, NEW r \in Runs,
         w.events = IF Exists(Name(r)) THEN <<View(wf[Name(r)])>> ELSE <<>>,
         NEW v \in Events(w)
  PROVE  Exists(Name(r)) /\ v = View(wf[Name(r)])
BY DEF Events

\* Nothing is on its way to a run that does not watch.
LEMMA EventsNoWatch == Events(NoWatch) = {}
BY DEF Events, NoWatch

\* A published write reaches only the runs that watch its name.
LEMMA PublishShows ==
  ASSUME TypeOK, WatchesItsName, NEW n \in Names, NEW c \in Workflows, Write(n, c),
         NEW r \in Runs, NEW v \in Events(watch'[r])
  PROVE  \/ v \in Events(watch[r])
         \/ wf'[Name(r)] # NoCR /\ v = View(wf'[Name(r)])
<1>1. watch[r] \in Watches /\ View(c) \in Views
  BY ViewType DEF TypeOK, ClusterTypeOK
<1>2. CASE watch'[r] = watch[r]
  BY <1>2
<1>3. CASE /\ watch[r].name = n
           /\ watch'[r] = [watch[r] EXCEPT !.events = Append(@, View(c))]
  <2>1. watch[r] # NoWatch
    BY <1>3, NoNameAssumption DEF NoWatch
  <2>2. Name(r) = n
    BY <1>3, <2>1 DEF WatchesItsName
  <2>3. wf'[n] = c /\ c # NoCR
    BY NoCRAssumption DEF Write, TypeOK, ClusterTypeOK
  <2>4. v \in Events(watch[r]) \cup {View(c)}
    BY <1>1, <1>3, EventsAppend
  <2>5. QED
    BY <2>2, <2>3, <2>4
<1>4. QED
  BY <1>2, <1>3 DEF Write, Publish, TypeOK, ClusterTypeOK

\* What a run is shown after a step, it was shown before, or it is the object
\* stored now: nothing old comes back.
LEMMA ShownStep ==
  ASSUME TypeOK, WatchesItsName, [Next]_vars, NEW r \in Runs, NEW v \in Shown(r)'
  PROVE  \/ v \in Shown(r)
         \/ wf'[Name(r)] # NoCR /\ v = View(wf'[Name(r)])
<1>0. Name(r)' = Name(r) /\ Name(r) \in Names
  BY StoreStep, ArgType DEF Name
<1>1. CASE v \notin Events(watch'[r])
  BY <1>0, <1>1 DEF Shown, Exists, View
<1>2. CASE v \in Events(watch'[r])
  <2>1. SUFFICES \/ v \in Events(watch[r])
                 \/ wf'[Name(r)] # NoCR /\ v = View(wf'[Name(r)])
    BY DEF Shown
  <2>2. CASE watch' = watch
    BY <1>2, <2>2
  <2>3. CASE \E n \in Names : \E c \in Workflows : Write(n, c)
    BY <1>2, <2>3, PublishShows
  <2>4. CASE \E s \in Runs : watch' = [watch EXCEPT ![s] = NoWatch]
    BY <1>2, <2>4, EventsNoWatch DEF TypeOK, ClusterTypeOK
  <2>5. CASE \E s \in Runs : /\ watch[s].events # <<>>
                            /\ watch' = [watch EXCEPT ![s].events = Tail(@)]
    <3>1. PICK s \in Runs : /\ watch[s].events # <<>>
                           /\ watch' = [watch EXCEPT ![s].events = Tail(@)]
      BY <2>5
    <3>2. watch[s] \in Watches
      BY DEF TypeOK, ClusterTypeOK
    <3>3. Events([watch[s] EXCEPT !.events = Tail(@)]) \subseteq Events(watch[s])
      BY <3>1, <3>2, EventsTail
    <3>4. CASE r = s
      <4>1. watch'[r] = [watch[s] EXCEPT !.events = Tail(@)]
        BY <3>1, <3>4 DEF TypeOK, ClusterTypeOK
      <4>2. QED
        BY <1>2, <3>3, <3>4, <4>1
    <3>5. CASE r # s
      BY <1>2, <3>1, <3>5 DEF TypeOK, ClusterTypeOK
    <3>6. QED
      BY <3>4, <3>5
  <2>6. CASE \E s \in Runs : List(s) \/ Relist(s)
    <3>1. PICK s \in Runs : List(s) \/ Relist(s)
      BY <2>6
    <3>2. CASE r # s
      BY <1>2, <3>1, <3>2 DEF List, Relist, TypeOK, ClusterTypeOK
    <3>3. CASE r = s
      <4>1. /\ watch'[r].events = IF Exists(Name(r)) THEN <<View(wf[Name(r)])>> ELSE <<>>
            /\ wf' = wf
        BY <3>1, <3>3 DEF List, Relist, TypeOK, ClusterTypeOK, Watches
      <4>2. QED
        BY <1>2, <4>1, EventsList DEF Exists
    <3>4. QED
      BY <3>2, <3>3
  <2>7. QED
    <3>1. CASE \E n \in Names : (Controller(n) \/ Annotate(n)) /\ UNCHANGED cliVars
      <4>1. PICK n \in Names : Controller(n) \/ Annotate(n)
        BY <3>1
      <4>2. Exists(n)
        BY <4>1 DEF Controller, Queue, Adopt, RefuseAdoption, Complete, FailStep,
                    Reap, Reconfirm, ForceRelease, Collect, Annotate
      <4>3. wf[n] \in Workflows /\ wf[n].phase \in Phases
        BY <4>2, StoredType DEF Workflows
      <4>4. \A p \in Phases : WithStatus(wf[n], p) \in Workflows
        BY <4>3, WithStatusType
      <4>5. /\ [WithStatus(wf[n], "Running") EXCEPT !.finalizer = TRUE] \in Workflows
            /\ [wf[n] EXCEPT !.finalizer = FALSE] \in Workflows
            /\ [wf[n] EXCEPT !.force = TRUE] \in Workflows
        BY <4>3, <4>4, FlagType DEF Phases
      <4>6. Remove(n) \/ \E c \in Workflows : Write(n, c)
        BY <4>1, <4>3, <4>4, <4>5
           DEF Controller, Queue, Adopt, RefuseAdoption, Complete, FailStep, Reap,
               Reconfirm, ForceRelease, Collect, Annotate, Phases
      <4>7. QED
        BY <2>2, <2>3, <4>6 DEF Remove
    <3>2. CASE \E s \in Runs : Apply(s) \/ ApplyOnly(s)
      <4>1. PICK s \in Runs : ServerSideApply(Name(s), arg[s].spec)
        BY <3>2 DEF Apply, ApplyOnly
      <4>2. Name(s) \in Names /\ arg[s].spec \in Specs
        BY ArgType
      <4>3. Created(arg[s].spec) \in Workflows
        BY <4>2, CreatedType
      <4>4. Exists(Name(s)) =>
              [wf[Name(s)] EXCEPT !.spec = arg[s].spec, !.gen = @ + 1] \in Workflows
        BY <4>2, StoredType, EditType
      <4>5. watch' = watch \/ \E c \in Workflows : Write(Name(s), c)
        BY <4>1, <4>3, <4>4 DEF ServerSideApply
      <4>6. QED
        BY <2>2, <2>3, <4>2, <4>5
    <3>3. CASE \E s \in Runs : Delete(s)
      <4>1. PICK s \in Runs : DeleteObject(Name(s)) \/ watch' = watch
        BY <3>3 DEF Delete
      <4>2. Name(s) \in Names /\ arg[s].spec \in Specs
        BY ArgType
      <4>3. Exists(Name(s)) =>
              [wf[Name(s)] EXCEPT !.deleting = TRUE, !.gen = @ + 1] \in Workflows
        BY <4>2, StoredType, EditType
      <4>4. watch' = watch \/ \E c \in Workflows : Write(Name(s), c)
        BY <4>1, <4>3 DEF DeleteObject, Remove
      <4>5. QED
        BY <2>2, <2>3, <4>2, <4>4
    <3>4. CASE \E s \in Runs : Start(s) \/ DryRun(s) \/ ApiError(s) \/ Preflight(s)
      BY <2>2, <3>4 DEF Start, DryRun, ApiError, Preflight, clusterVars
    <3>5. CASE \E s \in Runs : Deliver(s) \/ Timeout(s) \/ WatchFails(s)
      BY <2>4, <2>5, <3>5 DEF Deliver, Timeout, WatchFails
    <3>6. CASE UNCHANGED vars
      BY <2>2, <3>6 DEF vars, clusterVars
    <3>7. QED
      BY <2>6, <3>1, <3>2, <3>3, <3>4, <3>5, <3>6 DEF Next, Environment, Run, Progress
<1>3. QED
  BY <1>1, <1>2

-----------------------------------------------------------------------------
(* Each part of the inductive invariant survives a step.                   *)

\* A step that is no run's leaves every run where it was.
LEMMA StepCases ==
  ASSUME [Next]_vars
  PROVE  \/ \E r \in Runs : Run(r)
         \/ UNCHANGED <<cliVars, checked, applied>>
BY DEF Next, Environment, Relist, vars, clusterVars, Controller, Queue, Adopt,
       RefuseAdoption, Complete, FailStep, Reap, Reconfirm, ForceRelease, Collect,
       Annotate

\* A step of one run leaves the others where they were.
LEMMA RunFrame ==
  ASSUME TypeOK, NEW r \in Runs, Run(r), NEW s \in Runs \ {r}
  PROVE  /\ pc'[s] = pc[s] /\ exit'[s] = exit[s] /\ verdict'[s] = verdict[s]
         /\ appliedGen'[s] = appliedGen[s] /\ appliedUid'[s] = appliedUid[s]
         /\ changed'[s] = changed[s] /\ missed'[s] = missed[s]
         /\ s \in applied' <=> s \in applied
         /\ s \in checked' <=> s \in checked
<1> USE DEF TypeOK, ClusterTypeOK, Exit, Goto, applyVars, clusterVars
<1>1. CASE Start(r) \/ Preflight(r) \/ DryRun(r) \/ ApiError(r)
  BY <1>1 DEF Start, Preflight, DryRun, ApiError
<1>2. CASE Apply(r) \/ ApplyOnly(r)
  BY <1>2 DEF Apply, ApplyOnly
<1>3. CASE List(r) \/ Timeout(r) \/ WatchFails(r) \/ Delete(r)
  BY <1>3 DEF List, Timeout, WatchFails, Delete
<1>4. CASE Deliver(r)
  BY <1>4 DEF Deliver
<1>5. QED
  BY <1>1, <1>2, <1>3, <1>4 DEF Run, Progress

\* Runs go through their stages in order.
LEMMA StageStep ==
  ASSUME TypeOK, RunStage, Objects, [Next]_vars
  PROVE  RunStage'
<1>0. arg' = arg /\ (uids' = uids \/ uids' = uids + 1) /\ uids \in Nat
      /\ checked \subseteq checked' /\ applied \subseteq applied'
  BY StoreStep DEF TypeOK, ClusterTypeOK
<1>1. CASE UNCHANGED <<cliVars, checked, applied>>
  BY <1>0, <1>1 DEF RunStage, cliVars, TypeOK
<1>2. CASE \E r \in Runs : Run(r)
  <2>1. PICK r \in Runs : Run(r)
    BY <1>2
  <2> DEFINE Stage(s) ==
        /\ pc[s] # "done" => exit[s] = "none"
        /\ pc[s] \notin {"watching", "done"} => missed[s].phase # "Complete"
        /\ pc[s] \in {"idle", "preflight", "apply"} => s \notin applied
        /\ s \notin applied => appliedUid[s] = 0
        /\ appliedUid[s] <= uids
        /\ changed[s] => appliedGen[s] >= 1
        /\ changed[s] => s \in applied
        /\ arg[s].cmd = "state-sync" =>
             /\ pc[s] # "delete"
             /\ pc[s] \in {"apply", "list", "watching"} => s \in checked
             /\ pc[s] \in {"list", "watching"} => s \in applied /\ appliedUid[s] > 0
  <2>2. ASSUME NEW s \in Runs \ {r} PROVE Stage(s)'
    BY <1>0, <2>1, RunFrame DEF RunStage, TypeOK
  <2>3. Stage(r)'
    <3> USE DEF TypeOK, ClusterTypeOK, Exit, Goto, applyVars, clusterVars, Pcs
    <3>0. Stage(r) /\ appliedUid[r] \in Nat
      BY DEF RunStage
    <3>1. CASE Start(r)
      BY <3>0, <3>1, ArgType DEF Start, FirstStep, Commands
    <3>2. CASE Preflight(r)
      BY <3>0, <3>2 DEF Preflight
    <3>3. CASE Apply(r)
      <4>1. wf'[Name(r)] \in Workflows /\ wf'[Name(r)].gen \in Nat
            /\ wf'[Name(r)].uid \in Nat
        BY <3>3, ArgType, ApplyType DEF Apply, Workflows
      <4>2. /\ wf'[Name(r)].uid >= 1 /\ wf'[Name(r)].uid <= uids'
            /\ changed'[r] => appliedGen'[r] >= 1
        <5>1. Name(r) \in Names /\ arg[r].spec \in Specs
          BY ArgType
        <5>2. ServerSideApply(Name(r), arg[r].spec)
          BY <3>3 DEF Apply
        <5>3. /\ appliedGen'[r] = wf'[Name(r)].gen
              /\ \/ NewObject(Name(r))
                 \/ KeepsStatus(Name(r)) /\ wf'[Name(r)].gen = wf[Name(r)].gen + 1
                 \/ wf'[Name(r)] = wf[Name(r)] /\ Exists(Name(r))
          BY <3>3, <5>1, <5>2, ApplyEvolves DEF Apply
        <5>4. CASE NewObject(Name(r))
          BY <1>0, <5>3, <5>4 DEF NewObject
        <5>5. CASE Exists(Name(r)) /\ wf'[Name(r)].uid = wf[Name(r)].uid
                   /\ wf'[Name(r)].gen >= wf[Name(r)].gen
          <6>1. wf[Name(r)].uid \in Nat /\ wf[Name(r)].gen \in Nat
            BY <5>1, <5>5, StoredType DEF Workflows
          <6>2. wf[Name(r)].uid >= 1 /\ wf[Name(r)].uid <= uids /\ wf[Name(r)].gen >= 1
            BY <5>1, <5>5 DEF Objects
          <6>3. QED
            BY <1>0, <4>1, <5>3, <5>5, <6>1, <6>2
        <5>6. QED
          BY <5>1, <5>3, <5>4, <5>5, StoredType DEF KeepsStatus, SameObject, Workflows
      <4>3. QED
        BY <1>0, <3>0, <3>3, <4>1, <4>2 DEF Apply
    <3>4. CASE ApplyOnly(r)
      BY <1>0, <3>0, <3>4 DEF ApplyOnly
    <3>5. CASE DryRun(r) \/ ApiError(r)
      BY <3>0, <3>5 DEF DryRun, ApiError
    <3>6. CASE List(r) \/ Timeout(r) \/ WatchFails(r) \/ Delete(r)
      BY <3>0, <3>6 DEF List, Timeout, WatchFails, Delete
    <3>7. CASE Deliver(r)
      BY <3>0, <3>7 DEF Deliver
    <3>8. QED
      BY <2>1, <3>1, <3>2, <3>3, <3>4, <3>5, <3>6, <3>7 DEF Run, Progress
  <2>4. QED
    BY <2>2, <2>3 DEF RunStage
<1>3. QED
  BY <1>1, <1>2, StepCases

\* A run watches its own name only: an opened watch names it, an exit closes it.
LEMMA WatchesStep ==
  ASSUME TypeOK, WatchesItsName, [Next]_vars
  PROVE  WatchesItsName'
<1>0. arg' = arg
  BY StoreStep
<1> SUFFICES ASSUME NEW s \in Runs
             PROVE  watch'[s] = NoWatch \/ (pc'[s] = "watching" /\ watch'[s].name = Name(s))
  BY <1>0 DEF WatchesItsName, Name
<1> USE DEF TypeOK, ClusterTypeOK
<1>1. watch[s] = NoWatch \/ (pc[s] = "watching" /\ watch[s].name = Name(s))
  BY DEF WatchesItsName
<1>2. watch[s] \in Watches
  OBVIOUS
<1>3. ASSUME NEW n \in Names, NEW c, Write(n, c) \/ Remove(n)
      PROVE  watch'[s] = NoWatch \/ (watch[s] # NoWatch /\ watch'[s].name = watch[s].name)
  <2>1. watch[s] = NoWatch => watch[s].name # n
    BY NoNameAssumption DEF NoWatch
  <2>2. watch'[s] = watch[s] \/ (watch[s].name = n /\ watch'[s] = [watch[s] EXCEPT !.events = Append(@, View(c))])
    <3> DEFINE v == View(c)
    <3>1. watch' = watch \/ Publish(n, v)
      BY <1>3 DEF Write, Remove
    <3> HIDE DEF v
    <3>2. watch'[s] = watch[s]
          \/ (watch[s].name = n /\ watch'[s] = [watch[s] EXCEPT !.events = Append(@, v)])
      BY <3>1 DEF Publish
    <3>3. QED
      BY <3>2 DEF v
  <2>3. [watch[s] EXCEPT !.events = Append(@, View(c))].name = watch[s].name
    BY <1>2 DEF Watches
  <2>4. QED
    BY <2>1, <2>2, <2>3
<1>4. CASE \E n \in Names : (Controller(n) \/ Annotate(n)) /\ UNCHANGED cliVars
  <2>1. PICK n \in Names : (Controller(n) \/ Annotate(n)) /\ UNCHANGED cliVars
    BY <1>4
  <2>2. Remove(n) \/ \E c : Write(n, c)
    BY <2>1 DEF Controller, Queue, Adopt, RefuseAdoption, Complete, FailStep, Reap,
                Reconfirm, ForceRelease, Collect, Annotate
  <2>3. QED
    BY <1>1, <1>3, <2>1, <2>2 DEF cliVars
<1>5. ASSUME NEW r \in Runs, Run(r)
      PROVE  watch'[s] = NoWatch \/ (pc'[s] = "watching" /\ watch'[s].name = Name(s))
  <2> USE DEF Exit, Goto
  <2>1. CASE Start(r) \/ Preflight(r) \/ DryRun(r) \/ ApiError(r)
    BY <1>1, <2>1 DEF Start, Preflight, DryRun, ApiError, clusterVars, NoWatch
  <2>2. CASE Apply(r) \/ ApplyOnly(r)
    <3>1. /\ pc[r] = "apply" /\ (s # r => pc'[s] = pc[s])
          /\ ServerSideApply(Name(r), arg[r].spec)
      BY <2>2 DEF Apply, ApplyOnly
    <3>2. watch' = watch \/ \E c : Write(Name(r), c)
      BY <3>1 DEF ServerSideApply
    <3>3. QED
      BY <1>1, <1>3, <3>1, <3>2, ArgType
  <2>3. CASE Delete(r)
    <3>1. /\ pc[r] = "delete" /\ (s # r => pc'[s] = pc[s])
          /\ DeleteObject(Name(r)) \/ watch' = watch
      BY <2>3 DEF Delete
    <3>2. watch' = watch \/ \E c : Write(Name(r), c)
      BY <3>1 DEF DeleteObject, Remove
    <3>3. QED
      BY <1>1, <1>3, <3>1, <3>2, ArgType
  <2>4. CASE List(r)
    BY <1>1, <2>4 DEF List
  <2>5. CASE Timeout(r) \/ WatchFails(r)
    BY <1>1, <2>5 DEF Timeout, WatchFails
  <2>6. CASE Deliver(r)
    <3>1. CASE s # r
      BY <1>1, <2>6, <3>1 DEF Deliver
    <3>2. CASE s = r
      <4>1. \/ watch'[r] = NoWatch
            \/ /\ watch'[r] = [watch[r] EXCEPT !.events = Tail(@)]
               /\ pc' = pc
        BY <2>6 DEF Deliver
      <4>2. pc[r] = "watching" /\ watch[r].events # <<>>
        BY <2>6 DEF Deliver
      <4>3. [watch[r] EXCEPT !.events = Tail(@)].name = watch[r].name
        BY <1>2, <3>2 DEF Watches
      <4>4. watch[r] # NoWatch
        BY <4>2 DEF NoWatch
      <4>5. QED
        BY <1>1, <3>2, <4>1, <4>2, <4>3, <4>4
    <3>3. QED
      BY <3>1, <3>2
  <2>7. QED
    BY <1>5, <2>1, <2>2, <2>3, <2>4, <2>5, <2>6 DEF Run, Progress
<1>6. ASSUME NEW r \in Runs, Relist(r)
      PROVE  watch'[s] = NoWatch \/ (pc'[s] = "watching" /\ watch'[s].name = Name(s))
  <2>1. pc[r] = "watching" /\ watch[r].events # <<>> /\ UNCHANGED cliVars
    BY <1>6 DEF Relist
  <2>2. s # r => watch'[s] = watch[s]
    BY <1>6 DEF Relist
  <2>3. watch'[r].name = watch[r].name
    BY <1>6 DEF Relist, Watches
  <2>4. watch[r] # NoWatch
    BY <2>1 DEF NoWatch
  <2>5. QED
    BY <1>1, <2>1, <2>2, <2>3, <2>4 DEF cliVars
<1>7. CASE UNCHANGED vars
  BY <1>1, <1>7 DEF vars, clusterVars, cliVars
<1>8. QED
  BY <1>4, <1>5, <1>6, <1>7 DEF Next, Environment

\* No status is ever ahead of its spec or of the applies stored so far.
LEMMA ObjectsStep ==
  ASSUME TypeOK, Objects, [Next]_vars
  PROVE  Objects'
<1>1. /\ \A m \in Names : Evolves(m)
      /\ uids' = uids \/ uids' = uids + 1
      /\ applied \subseteq applied'
      /\ uids \in Nat
  BY StoreStep DEF TypeOK, ClusterTypeOK
<1>2. SUFFICES ASSUME NEW n \in Names, wf'[n] # NoCR
               PROVE  /\ wf'[n].uid >= 1 /\ wf'[n].uid <= uids'
                      /\ wf'[n].gen >= 1 /\ wf'[n].obs <= wf'[n].gen
                      /\ wf'[n].fresh \subseteq applied'
  BY DEF Objects, Exists
<1>3. Exists(n) => /\ wf[n] \in Workflows
                   /\ wf[n].uid >= 1 /\ wf[n].uid <= uids
                   /\ wf[n].gen >= 1 /\ wf[n].obs <= wf[n].gen
                   /\ wf[n].fresh \subseteq applied
  BY StoredType DEF Objects
<1>4. CASE wf'[n] = wf[n]
  BY <1>1, <1>2, <1>3, <1>4 DEF Exists, Workflows
<1>5. CASE NewObject(n)
  BY <1>1, <1>5 DEF NewObject
<1>6. CASE KeepsStatus(n)
  BY <1>1, <1>3, <1>6 DEF KeepsStatus, SameObject, Workflows
<1>7. CASE WritesStatus(n)
  BY <1>1, <1>3, <1>7 DEF WritesStatus, SameObject, Workflows
<1>8. QED
  BY <1>1, <1>2, <1>4, <1>5, <1>6, <1>7 DEF Evolves

\* Only its own apply changes what a run knows of its object.
LEMMA ApplyOrSame ==
  ASSUME TypeOK, [Next]_vars, NEW r \in Runs
  PROVE  \/ Apply(r)
         \/ /\ appliedGen'[r] = appliedGen[r]
            /\ appliedUid'[r] = appliedUid[r]
            /\ changed'[r] = changed[r]
<1>1. CASE UNCHANGED <<cliVars, checked, applied>>
  BY <1>1 DEF cliVars
<1>2. CASE \E s \in Runs \ {r} : Run(s)
  BY <1>2, RunFrame
<1>3. CASE Run(r)
  BY <1>3 DEF Run, Progress, Start, Preflight, ApplyOnly, DryRun, List, Deliver, Timeout, WatchFails,
              Delete, ApiError, applyVars
<1>4. QED
  BY <1>1, <1>2, <1>3, StepCases

\* Only a preflight that passes adds its run to those checked.
LEMMA CheckedStep ==
  ASSUME TypeOK, [Next]_vars, NEW r \in checked' \ checked
  PROVE  r \in Runs /\ Preflight(r) /\ PreflightPasses(Name(r))
<1>1. r \in Runs
  BY NextType DEF TypeOK, ClusterTypeOK
<1>2. CASE \E s \in Runs \ {r} : Run(s)
  BY <1>1, <1>2, RunFrame
<1>3. CASE Run(r)
  BY <1>1, <1>3 DEF Run, Progress, Start, Preflight, Apply, ApplyOnly, DryRun, List, Deliver,
                    Timeout, WatchFails, Delete, ApiError, clusterVars
<1>4. QED
  BY <1>1, <1>2, <1>3, StepCases

\* Nothing a checked run is shown is a terminal phase from before its check.
LEMMA ShownIsNewStep ==
  ASSUME TypeOK, WatchesItsName, ShownIsNew, [Next]_vars
  PROVE  ShownIsNew'
<1> SUFFICES ASSUME NEW r \in checked', NEW v \in Shown(r)', v.phase \in Terminal
             PROVE  r \in v.since
  BY DEF ShownIsNew
<1>1. r \in Runs /\ Name(r) \in Names
  BY NextType, ArgType DEF TypeOK, ClusterTypeOK
<1>2. CASE r \in checked
  <2>1. CASE v \in Shown(r)
    BY <1>2, <2>1 DEF ShownIsNew
  <2>2. CASE wf'[Name(r)] # NoCR /\ v = View(wf'[Name(r)])
    <3> DEFINE n == Name(r)
    <3>1. v.phase = wf'[n].phase /\ v.since = wf'[n].since
      BY <2>2 DEF View
    <3>2. Exists(n) => (wf[n].phase \in Terminal => r \in wf[n].since)
      <4>1. Exists(n) => View(wf[n]) \in Shown(r)
        BY DEF Shown
      <4>2. View(wf[n]).phase = wf[n].phase /\ View(wf[n]).since = wf[n].since
        BY DEF View
      <4>3. QED
        BY <1>2, <4>1, <4>2 DEF ShownIsNew
    <3>3. Evolves(n)
      BY <1>1, StoreStep
    <3>4. QED
      BY <1>2, <2>2, <3>1, <3>2, <3>3
         DEF Evolves, NewObject, KeepsStatus, WritesStatus, SameObject, Exists, Terminal
  <2>3. QED
    BY <1>1, <2>1, <2>2, ShownStep
<1>3. CASE r \notin checked
  <2>1. Preflight(r) /\ PreflightPasses(Name(r))
    BY <1>3, CheckedStep
  <2>2. watch'[r] = NoWatch /\ wf' = wf /\ arg' = arg
    BY <1>1, <2>1 DEF Preflight, WatchesItsName
  <2>3. v = View(wf[Name(r)]) /\ Exists(Name(r))
    BY <2>2, EventsNoWatch DEF Shown, Exists, Name, View
  <2>4. QED
    BY <2>1, <2>3 DEF PreflightPasses, View
<1>4. QED
  BY <1>2, <1>3

\* Right after its apply a run is shown the object it applied.
LEMMA ShownAfterApply ==
  ASSUME TypeOK, WatchesItsName, [Next]_vars, NEW r \in Runs, Apply(r),
         NEW v \in Shown(r)'
  PROVE  v = View(wf'[Name(r)])
<1>1. pc'[r] = "list" /\ arg' = arg
  BY DEF Apply, Goto, TypeOK
<1>2. watch'[r] = NoWatch
  BY <1>1, WatchesStep DEF WatchesItsName
<1>3. QED
  BY <1>1, <1>2, EventsNoWatch DEF Shown, Exists, Name, View

\* The generation gate survives edits, marks, removals and re-creations.
LEMMA GateStep ==
  ASSUME TypeOK, WatchesItsName, RunStage, Objects, GateMeansFresh, [Next]_vars
  PROVE  GateMeansFresh'
<1> SUFFICES ASSUME NEW r \in Runs, changed'[r], NEW v \in Shown(r)',
                    v.obs >= appliedGen'[r]
             PROVE  r \in v.fresh
  BY DEF GateMeansFresh
<1> DEFINE n == Name(r)
<1>1. n \in Names /\ arg[r].spec \in Specs
  BY ArgType
<1>2. Evolves(n)
  BY <1>1, StoreStep
<1>3. Exists(n) => wf[n] \in Workflows /\ wf[n].obs <= wf[n].gen
  BY <1>1, StoredType DEF Objects
<1>4. CASE Apply(r)
  <2>1. v.obs = wf'[n].obs
    BY <1>4, ShownAfterApply DEF View
  <2>2. /\ appliedGen'[r] = wf'[n].gen
        /\ changed'[r] = SpecChanges(n, arg[r].spec)
        /\ \/ NewObject(n)
           \/ KeepsStatus(n) /\ wf'[n].gen = wf[n].gen + 1
           \/ ~SpecChanges(n, arg[r].spec)
    BY <1>1, <1>4, ApplyEvolves DEF Apply, TypeOK
  <2>3. QED
    BY <1>3, <2>1, <2>2 DEF NewObject, KeepsStatus, SameObject, Workflows
<1>5. CASE /\ appliedGen'[r] = appliedGen[r]
           /\ changed'[r] = changed[r]
  <2>1. appliedGen[r] >= 1 /\ r \in applied /\ appliedGen[r] \in Nat
    BY <1>5 DEF RunStage, TypeOK
  <2>2. CASE v \in Shown(r)
    BY <1>5, <2>2 DEF GateMeansFresh
  <2>3. CASE wf'[n] # NoCR /\ v = View(wf'[n])
    <3>1. v.obs = wf'[n].obs /\ v.fresh = wf'[n].fresh
      BY <2>3 DEF View
    <3>2. Exists(n) => (wf[n].obs >= appliedGen[r] => r \in wf[n].fresh)
      <4>1. Exists(n) => View(wf[n]) \in Shown(r)
        BY DEF Shown
      <4>2. View(wf[n]).obs = wf[n].obs /\ View(wf[n]).fresh = wf[n].fresh
        BY DEF View
      <4>3. QED
        BY <1>5, <4>1, <4>2 DEF GateMeansFresh
    <3>3. QED
      BY <1>2, <1>5, <2>1, <2>3, <3>1, <3>2
         DEF Evolves, NewObject, KeepsStatus, WritesStatus, SameObject, Exists
  <2>4. QED
    BY <2>2, <2>3, ShownStep
<1>6. QED
  BY <1>4, <1>5, ApplyOrSame

\* The object a run applied keeps the run's recipe and its generation.
LEMMA OwnStep ==
  ASSUME TypeOK, WatchesItsName, RunStage, Objects, OwnObject, [Next]_vars
  PROVE  OwnObject'
<1> SUFFICES ASSUME NEW r \in Runs, r \in applied', appliedUid'[r] > 0
             PROVE  LET n == Name(r) IN
                    /\ (wf'[n] # NoCR /\ wf'[n].uid = appliedUid'[r])
                          => wf'[n].gen >= appliedGen'[r]
                    /\ \A v \in Shown(r)' : v.uid = appliedUid'[r] =>
                         /\ v.params = arg[r].spec.params
                         /\ r \in v.fresh => v.obs >= appliedGen'[r]
  BY StoreStep DEF OwnObject, Exists, Name
<1> DEFINE n == Name(r)
<1>1. n \in Names /\ arg[r].spec \in Specs /\ uids \in Nat
  BY ArgType DEF TypeOK, ClusterTypeOK
<1>2. Evolves(n)
  BY <1>1, StoreStep
<1>3. CASE Apply(r)
  <2>1. /\ appliedGen'[r] = wf'[n].gen /\ wf'[n].spec = arg[r].spec
        /\ \/ NewObject(n)
           \/ KeepsStatus(n)
           \/ wf'[n] = wf[n] /\ Exists(n)
    BY <1>1, <1>3, ApplyEvolves DEF Apply, TypeOK
  <2>2. wf'[n] \in Workflows
    BY <1>1, <1>3, ApplyType DEF Apply
  <2>3. r \notin applied
    BY <1>3 DEF RunStage, Apply
  <2>4. r \notin wf'[n].fresh
    BY <1>1, <2>1, <2>3 DEF NewObject, KeepsStatus, SameObject, Objects
  <2>5. ASSUME NEW v \in Shown(r)'
        PROVE  v.params = arg[r].spec.params /\ r \notin v.fresh
    <3>1. v = View(wf'[n])
      BY <1>3, ShownAfterApply
    <3>2. QED
      BY <2>1, <2>4, <3>1 DEF View
  <2>6. wf'[n].gen >= appliedGen'[r]
    BY <2>1, <2>2 DEF Workflows
  <2>7. QED
    BY <2>5, <2>6
<1>4. CASE /\ appliedGen'[r] = appliedGen[r]
           /\ appliedUid'[r] = appliedUid[r]
  <2>1. /\ r \in applied /\ appliedUid[r] > 0 /\ appliedUid[r] <= uids
        /\ appliedUid[r] \in Nat /\ appliedGen[r] \in Nat
    BY <1>4 DEF RunStage, TypeOK
  <2>2. ~(NewObject(n) /\ wf'[n].uid = appliedUid[r])
    BY <1>1, <2>1 DEF NewObject
  <2>3. Exists(n) /\ wf[n].uid = appliedUid[r] =>
          /\ wf[n].gen >= appliedGen[r]
          /\ wf[n].spec.params = arg[r].spec.params
          /\ r \in wf[n].fresh => wf[n].obs >= appliedGen[r]
    <3>1. Exists(n) => View(wf[n]) \in Shown(r)
      BY DEF Shown
    <3>2. /\ View(wf[n]).uid = wf[n].uid /\ View(wf[n]).obs = wf[n].obs
          /\ View(wf[n]).fresh = wf[n].fresh
          /\ View(wf[n]).params = wf[n].spec.params
      BY DEF View
    <3>3. QED
      BY <2>1, <3>1, <3>2 DEF OwnObject
  <2>4. ASSUME wf'[n] # NoCR, wf'[n].uid = appliedUid[r]
        PROVE  /\ wf'[n].gen >= appliedGen[r]
               /\ wf'[n].spec.params = arg[r].spec.params
               /\ r \in wf'[n].fresh => wf'[n].obs >= appliedGen[r]
    <3>1. Exists(n) => wf[n] \in Workflows
      BY <1>1, StoredType
    <3>2. CASE wf'[n] = wf[n]
      BY <2>3, <2>4, <3>2 DEF Exists
    <3>3. CASE KeepsStatus(n)
      BY <2>1, <2>3, <2>4, <3>1, <3>3 DEF KeepsStatus, SameObject, Workflows
    <3>4. CASE WritesStatus(n)
      BY <2>1, <2>3, <2>4, <3>1, <3>4 DEF WritesStatus, SameObject, Workflows
    <3>5. QED
      BY <1>2, <2>2, <2>4, <3>2, <3>3, <3>4 DEF Evolves
  <2>5. ASSUME NEW v \in Shown(r)', v.uid = appliedUid[r]
        PROVE  /\ v.params = arg[r].spec.params
               /\ r \in v.fresh => v.obs >= appliedGen[r]
    <3>1. CASE v \in Shown(r)
      BY <2>1, <2>5, <3>1 DEF OwnObject
    <3>2. CASE wf'[n] # NoCR /\ v = View(wf'[n])
      BY <2>4, <2>5, <3>2 DEF View
    <3>3. QED
      BY <3>1, <3>2, ShownStep
  <2>6. QED
    BY <1>4, <2>4, <2>5
<1>5. QED
  BY <1>3, <1>4, ApplyOrSame

\* A run that exits on a phase delivers it in that step, past the gate; the
\* exit of a run that has ended is not touched again.
LEMMA ExitStep ==
  ASSUME TypeOK, RunStage, [Next]_vars, NEW r \in Runs, WatchedSync(r)'
  PROVE  /\ arg[r].cmd = "state-sync"
         /\ appliedUid'[r] = appliedUid[r] /\ changed'[r] = changed[r]
         /\ \/ WatchedSync(r) /\ verdict'[r] = verdict[r]
            \/ /\ pc[r] = "watching"
               /\ verdict'[r] \in Shown(r)
               /\ verdict'[r].phase \in Terminal
               /\ verdict'[r].obs >= appliedGen[r]
<1>0. arg' = arg
  BY StoreStep
<1>1. arg[r].cmd = "state-sync" /\ exit'[r] \in {"ok", "failed"}
  BY <1>0 DEF WatchedSync
<1>2. CASE UNCHANGED <<cliVars, checked, applied>>
  BY <1>1, <1>2 DEF cliVars, WatchedSync
<1>3. CASE \E s \in Runs \ {r} : Run(s)
  BY <1>1, <1>3, RunFrame DEF WatchedSync
<1>4. CASE Run(r)
  <2> USE DEF TypeOK, Exit, Goto, applyVars
  <2>1. pc[r] # "done" /\ exit[r] = "none"
    BY <1>4 DEF Run, Progress, Start, Preflight, Apply, ApplyOnly, DryRun, List, Deliver,
                Timeout, WatchFails, TimedSteps, Delete, ApiError, RunStage
  <2>2. Deliver(r)
    <3>1. pc[r] # "delete"
      BY <1>1 DEF RunStage
    <3>2. ~(Start(r) \/ Apply(r) \/ List(r))
      BY <1>1, <2>1 DEF Start, Apply, List
    <3>3. ~(Preflight(r) \/ Timeout(r) \/ WatchFails(r) \/ ApiError(r))
      BY <1>1, <2>1 DEF Preflight, Timeout, WatchFails, ApiError
    <3>4. ~(ApplyOnly(r) \/ DryRun(r) \/ Delete(r))
      BY <1>1, <2>1, <3>1 DEF ApplyOnly, DryRun, Delete
    <3>5. QED
      BY <1>4, <3>2, <3>3, <3>4 DEF Run, Progress
  <2> DEFINE v == Head(watch[r].events)
  <2>3. /\ pc[r] = "watching" /\ watch[r].events # <<>>
        /\ UNCHANGED <<appliedUid, changed, arg>>
        /\ verdict'[r] = v
        /\ MatchPhaseAtLeastGeneration(v, arg[r].until, appliedGen[r])
              \in {"match", "failed"}
    BY <1>1, <2>1, <2>2 DEF Deliver
  <2>4. watch[r] \in Watches
    BY DEF ClusterTypeOK
  <2>5. v \in Shown(r) /\ v \in Views
    BY <2>3, <2>4, EventsTail, TailType DEF Shown
  <2>6. arg[r].until = "Complete"
    BY <1>1, CommandLinesAssumption
  <2>7. ~(v.obs < appliedGen[r]) /\ v.phase \in Terminal
    BY <2>3, <2>6 DEF MatchPhaseAtLeastGeneration, MatchPhase, Terminal
  <2>8. v.obs \in Nat /\ appliedGen[r] \in Nat
    BY <2>5 DEF Views
  <2>9. v.obs >= appliedGen[r]
    BY <2>7, <2>8
  <2>10. QED
    BY <1>1, <2>3, <2>5, <2>7, <2>9
<1>5. QED
  BY <1>2, <1>3, <1>4, StepCases

\* A watched run never lets pass a Complete it should honour.
LEMMA MissedStep ==
  ASSUME TypeOK, RunStage, OwnObject, CompleteIsHonoured, [Next]_vars
  PROVE  CompleteIsHonoured'
<1>0. arg' = arg
  BY StoreStep
<1> SUFFICES ASSUME NEW r \in Runs, missed'[r].phase = "Complete",
                    arg[r].cmd = "state-sync", missed'[r].uid = appliedUid'[r]
             PROVE  r \notin missed'[r].fresh
  BY <1>0 DEF CompleteIsHonoured
<1> USE DEF TypeOK, Exit, Goto, applyVars
<1>1. CASE missed'[r] = missed[r] /\ appliedUid'[r] = appliedUid[r]
  BY <1>1 DEF CompleteIsHonoured
<1>2. CASE missed'[r] = missed[r] /\ Apply(r)
  BY <1>2 DEF Apply, RunStage
<1>3. CASE Deliver(r)
  <2> DEFINE v == Head(watch[r].events)
  <2>1. pc[r] = "watching" /\ watch[r].events # <<>> /\ appliedUid' = appliedUid
    BY <1>3 DEF Deliver
  <2>2. CASE missed'[r] = missed[r]
    BY <1>1, <2>1, <2>2
  <2>3. CASE /\ missed'[r] = v
             /\ MatchPhaseAtLeastGeneration(v, arg[r].until, appliedGen[r]) = "wait"
    <3>1. watch[r] \in Watches
      BY DEF ClusterTypeOK
    <3>2. v \in Shown(r) /\ v \in Views
      BY <2>1, <3>1, EventsTail, TailType DEF Shown
    <3>3. arg[r].until = "Complete" /\ v.phase = "Complete"
      BY <2>3, CommandLinesAssumption
    <3>4. v.obs < appliedGen[r]
      BY <2>3, <3>3 DEF MatchPhaseAtLeastGeneration, MatchPhase
    <3>5. v.obs \in Nat /\ appliedGen[r] \in Nat
      BY <3>2 DEF Views
    <3>6. r \in applied /\ appliedUid[r] > 0
      BY <2>1 DEF RunStage
    <3>7. v.uid = appliedUid[r]
      BY <2>1, <2>3
    <3>8. r \in v.fresh => v.obs >= appliedGen[r]
      BY <3>2, <3>6, <3>7 DEF OwnObject
    <3>9. QED
      BY <2>3, <3>4, <3>5, <3>8
  <2>4. QED
    BY <1>3, <2>2, <2>3 DEF Deliver
<1>4. Deliver(r) \/ missed'[r] = missed[r]
  <2>1. CASE UNCHANGED <<cliVars, checked, applied>>
    BY <2>1 DEF cliVars
  <2>2. CASE \E s \in Runs \ {r} : Run(s)
    BY <2>2, RunFrame
  <2>3. CASE Run(r)
    BY <2>3 DEF Run, Progress, Start, Preflight, Apply, ApplyOnly, DryRun, List, Timeout, WatchFails,
                Delete, ApiError
  <2>4. QED
    BY <2>1, <2>2, <2>3, StepCases
<1>5. QED
  BY <1>1, <1>2, <1>3, <1>4, ApplyOrSame

-----------------------------------------------------------------------------
(* The theorems.                                                           *)

\* The inductive invariant holds at first.
LEMMA InitInv == Init => IInv
<1> SUFFICES ASSUME Init PROVE IInv
  OBVIOUS
<1>1. TypeOK
  BY InitType
<1>2. \A r \in Runs : Shown(r) = {}
  BY <1>1, EventsNoWatch, ArgType DEF Init, ClusterInit, Shown, Exists
<1>3. RunStage /\ WatchesItsName /\ Objects
  BY <1>1, ArgType DEF Init, ClusterInit, RunStage, WatchesItsName, Objects, Exists, NoView
<1>4. ShownIsNew /\ GateMeansFresh /\ OwnObject
  BY <1>2 DEF Init, ClusterInit, ShownIsNew, GateMeansFresh, OwnObject
<1>6. TerminalIsNew /\ GateKillsStaleStatus /\ CompleteIsHonoured /\ SameObjectSameRecipe
  BY DEF Init, TerminalIsNew, GateKillsStaleStatus, CompleteIsHonoured,
         SameObjectSameRecipe, WatchedSync, NoView
<1>7. QED
  BY <1>1, <1>3, <1>4, <1>6 DEF IInv

\* Every step keeps it.
LEMMA NextInv == IInv /\ [Next]_vars => IInv'
<1> SUFFICES ASSUME IInv, [Next]_vars PROVE IInv'
  OBVIOUS
<1> USE DEF IInv
<1>1. TypeOK' /\ RunStage' /\ WatchesItsName' /\ Objects'
  BY NextType, StageStep, WatchesStep, ObjectsStep
<1>2. ShownIsNew' /\ GateMeansFresh' /\ OwnObject'
  BY ShownIsNewStep, GateStep, OwnStep
<1>3. CompleteIsHonoured'
  BY MissedStep
<1>4. arg' = arg
  BY StoreStep
<1>5. ASSUME NEW r \in Runs, WatchedSync(r)'
      PROVE  /\ r \in verdict'[r].since
             /\ changed'[r] => r \in verdict'[r].fresh
             /\ verdict'[r].uid = appliedUid'[r]
                  => verdict'[r].params = arg[r].spec.params
  <2>1. CASE WatchedSync(r) /\ verdict'[r] = verdict[r]
    BY <1>5, <2>1, ExitStep DEF TerminalIsNew, GateKillsStaleStatus, SameObjectSameRecipe
  <2>2. CASE /\ pc[r] = "watching"
             /\ verdict'[r] \in Shown(r)
             /\ verdict'[r].phase \in Terminal
             /\ verdict'[r].obs >= appliedGen[r]
    <3>1. r \in checked /\ r \in applied /\ appliedUid[r] > 0
      BY <1>5, <2>2, ExitStep DEF RunStage
    <3>2. appliedUid'[r] = appliedUid[r] /\ changed'[r] = changed[r]
      BY <1>5, ExitStep
    <3>3. QED
      BY <2>2, <3>1, <3>2 DEF ShownIsNew, GateMeansFresh, OwnObject
  <2>3. QED
    BY <1>5, <2>1, <2>2, ExitStep
<1>6. TerminalIsNew' /\ GateKillsStaleStatus' /\ SameObjectSameRecipe'
  BY <1>4, <1>5 DEF TerminalIsNew, GateKillsStaleStatus, SameObjectSameRecipe
<1>7. QED
  BY <1>1, <1>2, <1>3, <1>6

\* The inductive invariant holds in every reachable state, whatever the sets of
\* runs, names, recipes and command lines.
THEOREM Invariance == Spec => []IInv
BY InitInv, NextInv, PTL DEF Spec

\* No false green, no replayed failure (preflight, state_sync.go:36-71).
THEOREM NoStaleVerdict == Spec => []TerminalIsNew
<1>1. IInv => TerminalIsNew
  BY DEF IInv
<1>2. QED
  BY <1>1, Invariance, PTL

\* The generation gate holds across edits, marks and re-creations (watch.go:51-57).
THEOREM GateHolds == Spec => []GateKillsStaleStatus
<1>1. IInv => GateKillsStaleStatus
  BY DEF IInv
<1>2. QED
  BY <1>1, Invariance, PTL

\* The gate never swallows a Complete of the object the run applied.
THEOREM GateIsReachable == Spec => []CompleteIsHonoured
<1>1. IInv => CompleteIsHonoured
  BY DEF IInv
<1>2. QED
  BY <1>1, Invariance, PTL

\* A run that exits on the object it applied exits on its own recipe.
THEOREM RecipeHolds == Spec => []SameObjectSameRecipe
<1>1. IInv => SameObjectSameRecipe
  BY DEF IInv
<1>2. QED
  BY <1>1, Invariance, PTL

=============================================================================
