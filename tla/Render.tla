------------------------------- MODULE Render -------------------------------
(***************************************************************************)
(* What `node apply', `network apply' and the workflow commands apply, and *)
(* what the offline rendering of the MCP server returns: the object is     *)
(* made from a preset, layer by layer, the later over the earlier, and the *)
(* checks stand between the layers (render.go of src/seinode,              *)
(* src/seinetwork and src/workflow, manifest.go, src/internal/cliutil).    *)
(*                                                                         *)
(* A --set may write anywhere, over anything.  Each layer is one step;     *)
(* cpu and memory, which go the way of storage, and the type of the object *)
(* are left out.  A (fileName, key) pair is one key; at most one           *)
(* --override is given.                                                    *)
(***************************************************************************)
EXTENDS Documents, Integers, SequencesExt

CONSTANTS
  ArgSets,      \* the flags: records with the field tree and those of that tree
  SetExprs,     \* per tree, the --set expressions: [path, val]
  MaxSets,      \* bound: how many of them
  Overrides,    \* --override and --genesis-override: [key, val]
  ConfigFlags,  \* the --config-value lists: sequences of [key, value]
  Quantities,   \* the quantities that parse, in halves of a GiB
  MaxConfigValues

Trees == {"node", "network", "workflow"}

\* parsePathSegments returns at least one segment.
ASSUME ArgsAssumption ==
  \A a \in ArgSets : /\ a.tree \in Trees
                     /\ a.tree # "workflow" => {a.evmOnly, a.account} \subseteq BOOLEAN
ASSUME SetExprsAssumption ==
  \A tree \in Trees : \A e \in SetExprs[tree] : e.path \in Paths \ {<<>>} /\ e.val \in Scalars
ASSUME ConfigFlagsAssumption ==
  \A flags \in ConfigFlags : flags \in Seq([key : STRING, value : STRING])
ASSUME QuantitiesAssumption == Quantities \in [DOMAIN Quantities -> Int]

VARIABLES
  args,       \* the flags
  step,       \* the layer that is next
  obj,        \* the object
  sets,       \* the --set expressions applied
  configs,    \* the --config-value list applied
  announced,  \* what the warning of a migration said
  exit        \* "none", "accepted" or "refused"

vars == <<args, step, obj, sets, configs, announced, exit>>

Tree == args.tree

Name == "named"
Here == "here"

image       == <<"spec", "image">>
engine      == <<"spec", "consensus", "engine">>
evmOnly     == <<"spec", "consensus", "evmOnly">>
isolation   == <<"spec", "scheduling", "nodeIsolation">>
storage     == <<"spec", "dataVolume", "storage", "resources", "requests", "storage">>
className   == <<"spec", "dataVolume", "storage", "volumeAttributesClassName">>
cpuLimit    == <<"spec", "resources", "limits", "cpu">>
peers       == <<"spec", "peers">>
accounts    == <<"spec", "genesis", "accounts">>
configValues == <<"spec", "configValues">>
recipe      == <<"spec", "kind">>
nodeRef     == <<"spec", "target", "nodeRef", "name">>
requirePhase == <<"spec", "target", "requirePhase">>
migration   == <<"spec", "stateSync", "migration", "kind">>
backend     == <<"spec", "stateSync", "migration", "gigaStore", "backend">>
metaName    == <<"metadata", "name">>
metaNamespace == <<"metadata", "namespace">>
metaLabels  == <<"metadata", "labels">>
metaAnnotations == <<"metadata", "annotations">>

overrides ==
  IF Tree = "node" THEN <<"spec", "overrides">> ELSE <<"spec", "genesis", "overrides">>

-----------------------------------------------------------------------------
(* The order of the layers.                                                *)

\* Mutants: a node's guards before --set, its flags after, its config values
\* before.
GuardedFlags == <<"namespace", "check", "flags", "cpu", "storage", "consensus", "identity", "annotations",
                  "required">>

LayersGuardFirst(tree) ==
  IF tree # "node" THEN GuardedFlags
  ELSE <<"namespace", "check", "flags", "cpu", "storage", "consensus", "set", "override", "config",
         "peers", "identity", "labels", "annotations", "required">>

LayersFlagsLast(tree) ==
  IF tree # "node" THEN GuardedFlags
  ELSE <<"namespace", "check", "set", "flags", "override", "config", "cpu", "storage", "consensus",
         "peers", "identity", "labels", "annotations", "required">>

LayersConfigFirst(tree) ==
  IF tree # "node" THEN GuardedFlags
  ELSE <<"namespace", "check", "flags", "config", "set", "override", "cpu", "storage", "consensus",
         "peers", "identity", "labels", "annotations", "required">>

Layers(tree) ==
  CASE tree = "node" ->
         <<"namespace", "check", "flags", "set", "override", "config", "cpu", "storage",
           "consensus", "peers", "identity", "labels", "annotations", "required">>
    [] tree = "network" ->
         <<"namespace", "check", "flags", "set", "override", "config", "cpu", "storage",
           "consensus", "identity", "annotations", "required">>
    [] tree = "workflow" -> <<"namespace", "check", "flags", "set", "identity", "annotations", "required">>

-----------------------------------------------------------------------------
(* The pure decisions.                                                     *)

IOPS == 10000
gp3MaxIOPSPerGiB == 500
Unit == 2   \* halves of a GiB

storagePerformanceCatalog ==
  {[iops |-> "10000", throughput |-> "750", class |-> "sei-gp3-performance-v1"]}

ClassNames == {o.class : o \in storagePerformanceCatalog}

MinSizeGiB == (IOPS + gp3MaxIOPSPerGiB - 1) \div gp3MaxIOPSPerGiB

\* EBS provisions whole GiB.
effectiveSizeGiB(q) == IF q <= 0 THEN 0 ELSE (q + Unit - 1) \div Unit

\* ValidateQuantity, of a flag; empty is a flag that is not set.
ValidQuantity(q) == (q = "") \/ (q \in DOMAIN Quantities /\ Quantities[q] > 0)

\* ResolveStoragePerformance: a pair is one selection.
Offerings(a) ==
  {o \in storagePerformanceCatalog : o.iops = a.iops /\ o.throughput = a.throughput}

ValidPerformance(a) == (a.iops = "" /\ a.throughput = "") \/ Offerings(a) # {}

Resolved(a) == IF Offerings(a) = {} THEN "" ELSE (CHOOSE o \in Offerings(a) : TRUE).class

\* The enums are matched in any case and written in the case of the CRD.
Engines    == [tendermint |-> "Tendermint", autobahn |-> "Autobahn"]
Isolations == [shared |-> "Shared", dedicated |-> "Dedicated"]
Canonical(enum, v) == IF v = "" THEN "" ELSE enum[v]
ValidEnum(enum, v) == v = "" \/ v \in DOMAIN enum

\* validateMigrationFlags and --require-phase.
ValidWorkflow(a) ==
  /\ a.requirePhase \in {"", "Pending", "Initializing", "Running", "Failed", "Terminating"}
  /\ a.backend # "" => a.migration # "" /\ a.backend \in {"pebbledb", "rocksdb"}
  /\ a.migration # "" => a.migration = "GigaStore" /\ a.backend # ""

FlagsValid(a) ==
  IF a.tree = "workflow" THEN ValidWorkflow(a)
  ELSE /\ ValidQuantity(a.storage) /\ ValidPerformance(a)
       /\ ValidEnum(Isolations, a.nodeIsolation)
       /\ ValidEnum(Engines, a.consensusEngine)

\* The presets, as far as the layers look at them.
Preset(tree) ==
  IF tree = "workflow"
  THEN Map([spec |-> Map([kind |-> String("StateSync"), stateSync |-> EmptyMap])])
  ELSE SetNested(EmptyMap, storage, String("500Gi"))

Flag(path, v)     == [path |-> path, set |-> v # "", val |-> String(v)]
Given(path, b, v) == [path |-> path, set |-> b, val |-> v]

\* The flags of each tree, with the path they write.
Flags(a) ==
  IF a.tree = "workflow"
  THEN <<Flag(nodeRef, a.target), Flag(requirePhase, a.requirePhase),
         Flag(migration, a.migration), Flag(backend, a.backend)>>
  ELSE <<Flag(image, a.image), Flag(storage, a.storage), Flag(className, Resolved(a)),
         Flag(isolation, Canonical(Isolations, a.nodeIsolation)),
         Flag(engine, Canonical(Engines, a.consensusEngine)),
         Given(evmOnly, a.evmOnly, Bool("true"))>>
       \o IF a.tree = "node"
          THEN <<Given(peers, a.network # "", List(<<Map([network |-> String(a.network)])>>))>>
          ELSE <<Given(accounts, a.account, List(<<Map([address |-> String("flag")])>>))>>

\* The object after the first flags; each is a write that fails or not.
SetFlags(o, flags) ==
  LET done[n \in 0..Len(flags)] ==
        IF n = 0 THEN o
        ELSE IF flags[n].set THEN SetNested(done[n - 1], flags[n].path, flags[n].val)
        ELSE done[n - 1]
  IN done

-----------------------------------------------------------------------------
(* The layers.                                                             *)

Init ==
  /\ args \in ArgSets
  /\ step = 1
  /\ obj = Preset(args.tree)
  /\ sets = <<>>
  /\ configs = <<>>
  /\ announced = [backend |-> "", node |-> ""]
  /\ exit = "none"

At(layer) ==
  exit = "none" /\ step <= Len(Layers(Tree)) /\ Layers(Tree)[step] = layer

Pass(o) ==
  /\ step' = step + 1
  /\ obj' = o
  /\ UNCHANGED <<args, announced, exit>>

Refuse ==
  /\ exit' = "refused"
  /\ UNCHANGED <<args, step, obj, sets, configs, announced>>

\* A layer that only looks.
Guard(legal) ==
  \/ legal /\ Pass(obj) /\ UNCHANGED <<sets, configs>>
  \/ ~legal /\ Refuse

\* A layer that writes, or fails to.
Layer(o) ==
  \/ IsMap(o) /\ Pass(o) /\ UNCHANGED <<sets, configs>>
  \/ ~IsMap(o) /\ Refuse

\* `apply' takes the namespace of the kubeconfig, which always has one; the
\* offline rendering takes the one it is given.
Namespace == IF args.offline THEN args.namespace ELSE Here

\* Mutant: the offline rendering needs no namespace.
NamespaceOptional == At("namespace") /\ Guard(TRUE)

\* The guard of Manifest.
RequireNamespace == At("namespace") /\ Guard(Namespace # "")

CheckFlags == At("check") /\ Guard(FlagsValid(args))

ApplyFlags == At("flags") /\ Layer(SetFlags(obj, Flags(args))[Len(Flags(args))])

\* ApplySet, one expression; the expressions are applied in their order.
Set ==
  /\ At("set") /\ Len(sets) < MaxSets
  /\ \E e \in SetExprs[Tree] :
       LET o == writeMap(obj, e.path, e.val)
       IN \/ ~IsMap(o) /\ Refuse
          \/ /\ IsMap(o)
             /\ obj' = o
             /\ sets' = Append(sets, e)
             /\ UNCHANGED <<args, step, configs, announced, exit>>

SetsDone == At("set") /\ Pass(obj) /\ UNCHANGED <<sets, configs>>

\* ApplyOverride writes strings among strings, ApplyGenesisOverride anything.
Override ==
  /\ At("override")
  /\ \E o \in Overrides :
       LET old == IF Tree = "node" THEN GetStringMap(obj, overrides)
                                   ELSE GetKind(obj, overrides, "map")
           m == IF old = Missing THEN EmptyMap ELSE old
       IN Layer(IF old = Conflict THEN Conflict
                ELSE SetNested(obj, overrides, With(m, o.key, String(o.val))))

NoOverride == At("override") /\ Pass(obj) /\ UNCHANGED <<sets, configs>>

KeyOf(entry) == Child(entry, "key")

\* The entry of a key is replaced in place, a new one is the last.
MergeEntry(list, entry) ==
  LET same == {i \in DOMAIN list : IsMap(list[i]) /\ KeyOf(list[i]) = KeyOf(entry)}
  IN IF same = {} THEN Append(list, entry)
     ELSE [list EXCEPT ![CHOOSE i \in same : \A j \in same : i <= j] = entry]

\* duplicateConfigKey prints the keys: one that is not there prints too.
Printed(entry) == IF KeyOf(entry) = Missing THEN "<nil>" ELSE KeyOf(entry).val

Duplicates(list) ==
  \E i, j \in DOMAIN list :
    i < j /\ IsMap(list[i]) /\ IsMap(list[j]) /\ Printed(list[i]) = Printed(list[j])

Entry(c) == Map([key |-> String(c.key), value |-> String(c.value)])

\* The list after the first flags.
MergedInto(old, flags) ==
  LET list[n \in 0..Len(flags)] ==
        IF n = 0 THEN (IF old.kind = "list" THEN old.seq ELSE <<>>)
        ELSE MergeEntry(list[n - 1], Entry(flags[n]))
  IN list

ConfigLegal(old, list, flags) ==
  /\ old # Conflict
  /\ \A i \in DOMAIN flags : flags[i].value # "null"
  /\ Len(list) <= MaxConfigValues
  /\ ~Duplicates(list)

\* ApplyConfigValues does nothing at all without a flag.
ConfigValues ==
  /\ At("config")
  /\ \E flags \in ConfigFlags :
       LET old  == GetKind(obj, configValues, "list")
           list == MergedInto(old, flags)[Len(flags)]
       IN \/ flags = <<>> /\ Pass(obj) /\ UNCHANGED <<sets, configs>>
          \/ /\ flags # <<>>
             /\ ~ConfigLegal(old, list, flags)
             /\ Refuse
          \/ /\ flags # <<>>
             /\ ConfigLegal(old, list, flags)
             /\ Pass(SetNested(obj, configValues, List(list)))
             /\ configs' = flags
             /\ UNCHANGED sets

\* RejectCPULimit.
RejectCPULimit == At("cpu") /\ Guard(Get(obj, cpuLimit) = Missing)

\* quantityFromUnstructured: digits are an integer, the rest is a string.
IsQuantity(v) == v.kind \in {"string", "int"} /\ v.val \in DOMAIN Quantities

\* validateSizeCarriesIOPS.
SizeCarriesIOPS(size) ==
  size = Missing \/ (IsQuantity(size)
                     /\ effectiveSizeGiB(Quantities[size.val]) >= MinSizeGiB)

\* ValidateStoragePerformanceSelection.
ValidateStorage ==
  LET name == GetKind(obj, className, "string")
  IN /\ At("storage")
     /\ Guard(\/ name = Missing
              \/ name \in {String(c) : c \in ClassNames} /\ SizeCarriesIOPS(Get(obj, storage)))

\* ValidateConsensus.
ValidateConsensus ==
  LET evm == GetKind(obj, evmOnly, "bool")
  IN /\ At("consensus")
     /\ Guard(evm # Conflict /\ (evm = Bool("true") =>
                GetKind(obj, engine, "string") = String("Autobahn")))

RequirePeers == At("peers") /\ Guard(GetKind(obj, peers, "list").kind = "list")

\* SetName and the like write nothing where metadata is no map, and say nothing.
Reassert(o, path, v) == LET n == SetNested(o, path, v) IN IF n = Conflict THEN o ELSE n

\* The namespace is only asserted when there is one.
Identity ==
  LET named == Reassert(obj, metaName, String(Name))
  IN /\ At("identity")
     /\ Pass(IF Namespace = "" THEN named ELSE Reassert(named, metaNamespace, String(Namespace)))
     /\ UNCHANGED <<sets, configs>>

\* Labels that are not all strings read as none.
Labels ==
  LET old == GetStringMap(obj, metaLabels)
      m   == IF IsMap(old) THEN old ELSE EmptyMap
      all == With(m, "role", String("node"))
  IN /\ At("labels")
     /\ Pass(Reassert(obj, metaLabels,
                    IF args.network = "" THEN all
                    ELSE With(all, "network", String(args.network))))
     /\ UNCHANGED <<sets, configs>>

\* Likewise the annotations, with the preset's name and the version.
Annotations ==
  LET old == GetStringMap(obj, metaAnnotations)
      m   == IF IsMap(old) THEN old ELSE EmptyMap
  IN /\ At("annotations")
     /\ Pass(Reassert(obj, metaAnnotations,
                    With(With(m, "preset", String("preset")), "version", String("version"))))
     /\ UNCHANGED <<sets, configs>>

Nonempty(path) == LET v == GetKind(obj, path, "string")
                  IN v \notin {Missing, Conflict, String("")}

\* presetRequiredFields, and the kind of a workflow.
Required == At("required") /\ Guard(Nonempty(IF Tree = "workflow" THEN recipe ELSE image))

\* The object goes to the API server, or out as YAML.  A migration is announced
\* before.
Apply ==
  /\ exit = "none" /\ step > Len(Layers(Tree))
  /\ exit' = "accepted"
  /\ IF Tree = "workflow" /\ args.migration # ""
     THEN announced' = [backend |-> args.backend, node |-> args.target]
     ELSE UNCHANGED announced
  /\ UNCHANGED <<args, step, obj, sets, configs>>

Next ==
  \/ RequireNamespace \/ CheckFlags \/ ApplyFlags \/ Set \/ SetsDone \/ Override \/ NoOverride
  \/ ConfigValues \/ RejectCPULimit \/ ValidateStorage \/ ValidateConsensus
  \/ RequirePeers \/ Identity \/ Labels \/ Annotations \/ Required \/ Apply

Spec == Init /\ [][Next]_vars

-----------------------------------------------------------------------------
(* Properties.                                                             *)

Accepted(tree) == exit = "accepted" /\ Tree = tree

\* What the API server or the provisioner would only refuse later, when the
\* object can not be changed any more, never leaves the command, whichever of
\* flags and --set wrote it (seinode/render.go:175-193): no CPU limit, no performance
\* class without a size that carries it, no EVM-only executor but under Autobahn.
NothingSmuggled ==
  Accepted("node") \/ Accepted("network") =>
    /\ Get(obj, cpuLimit) = Missing
    /\ Get(obj, className) # Missing =>
         /\ Get(obj, className) \in {String(c) : c \in ClassNames}
         /\ IsQuantity(Get(obj, storage))
         /\ Quantities[Get(obj, storage).val] > 19 * Unit   \* provisioned as 20
    /\ Get(obj, evmOnly) = Bool("true") => Get(obj, engine) = String("Autobahn")

\* No --set retargets an object (seinode/render.go:203-208): what is accepted has the
\* name and namespace of the command or, under a --set that made metadata a
\* scalar, none, which no API server takes; offline, where no kubeconfig fills the
\* namespace, an empty one would let a --set choose it (seinode/manifest.go:11-14);
\* the labels `node list' selects by
\* are those of the flags, whatever --set made of the labels.
IdentityHolds ==
  exit = "accepted" =>
    /\ Get(obj, metaName) \in {String(Name), Conflict}
    /\ Get(obj, metaNamespace) \in {String(Namespace), Conflict} \ {String("")}
    /\ Tree = "node" /\ Get(obj, metaName) # Conflict =>
         /\ Get(obj, Append(metaLabels, "role")) = String("node")
         /\ args.network # "" =>
              Get(obj, Append(metaLabels, "network")) = String(args.network)

\* With --config-value, the list has every key once, and the last flag of a key
\* is what it says, although --set wrote to the list first (configvalue.go:121-125).
LastOf(flags, key) ==
  CHOOSE j \in DOMAIN flags :
    flags[j].key = key /\ \A k \in DOMAIN flags : flags[k].key = key => k <= j

Entries(list, key) == {e \in {list[n] : n \in DOMAIN list} : IsMap(e) /\ KeyOf(e) = String(key)}

Says(list, flags) ==
  /\ Len(list) <= MaxConfigValues
  /\ \A i \in DOMAIN flags :
       LET key == flags[i].key IN Entries(list, key) = {Entry(flags[LastOf(flags, key)])}
  /\ \A i, j \in DOMAIN list :
       i # j /\ IsMap(list[i]) /\ IsMap(list[j]) => KeyOf(list[i]) # KeyOf(list[j])

ConfigValuesMerged ==
  exit = "accepted" /\ configs # <<>> => Says(Get(obj, configValues).seq, configs)

\* A --set wins over the flags (seinode/apply.go:216), and the last over the others,
\* except under the fields that a layer after it writes: by contract the identity, the
\* config values and the command's own labels and annotations.  A label or an annotation
\* that --set makes a number takes the others with it, against the comment at
\* seinode/render.go:210-212; of the overrides see SetBeatsOverride.
Later == {metaName, metaNamespace, metaLabels, metaAnnotations, configValues, overrides}

\* Neither leads through the other: they part at a key.
KeysOf(path) == [i \in DOMAIN path |-> path[i].key]

Part(p, q) == \E d \in DOMAIN p \cap DOMAIN q : p[d] # q[d]

LastSetWins ==
  exit = "accepted" /\ sets # <<>> =>
    LET e == Last(sets)
    IN (\A p \in Later : Part(p, KeysOf(e.path))) => Read(obj, e.path) = e.val

\* A --set is read back at its path, and nothing beside its path changes.
Fields == {image, engine, evmOnly, isolation, storage, className, cpuLimit, peers,
           nodeRef, migration, backend, metaName, metaLabels}

\* They part at a key before the --set goes into a list.
Beside(p, path) ==
  \E d \in DOMAIN p \cap DOMAIN path :
    p[d] # path[d].key /\ \A j \in 1..(d - 1) : ~path[j].isList

SetIsLocal ==
  [][sets' # sets =>
       LET e == Last(sets')
       IN /\ Read(obj', e.path) = e.val
          /\ \A p \in Fields : Beside(p, e.path) => Get(obj', p) = Get(obj, p)]_vars

-----------------------------------------------------------------------------
(* What the documentation says, and a run refutes.                         *)

\* A --set that reaches into a field of the object, as keys.
Under(field, path) == IsStrictPrefix(field, KeysOf(path))

\* "Layering, lowest precedence first: ... --override, --set" (seinode/apply.go:107-110):
\* a --set of a key of spec.overrides wins over an --override of that key.  The code
\* applies the overrides last (seinode/render.go:157-167).
SetBeatsOverride ==
  Accepted("node") /\ sets # <<>> =>
    LET e == Last(sets) IN Under(overrides, e.path) => Read(obj, e.path) = e.val

=============================================================================
