------------------------------ MODULE MCRender ------------------------------
(* Instances of Render for TLC.                                            *)
EXTENDS Render

MCQuantities == [q \in {"19Gi", "19.5Gi", "20Gi", "500Gi", "0", "20401094656"} |->
  CASE q = "19Gi" -> 38 [] q = "19.5Gi" -> 39 [] q = "20Gi" -> 40
    [] q = "500Gi" -> 1000 [] q = "0" -> 0 [] q = "20401094656" -> 38]

\* Flags of the node and network trees.
Applies ==
  [tree : {"node", "network"}, image : {"", "seid"}, storage : {"", "0", "19.5Gi"},
   iops : {"", "10000"}, throughput : {"", "750"}, nodeIsolation : {"dedicated", "none"},
   consensusEngine : {"", "autobahn"}, evmOnly : BOOLEAN, network : {"", "n1"},
   account : BOOLEAN, offline : BOOLEAN, namespace : {"", Here}]

\* One flag may be wrong at a time; a node has no account, a network no network.
\* The offline rendering is taken with some of the flags: its layers are the same.
MCApplies ==
  {a \in Applies :
     /\ a.tree = "node" => ~a.account
     /\ a.tree = "network" => a.network = ""
     /\ a.offline => ~a.account /\ a.storage = "" /\ a.iops = "" /\ ~a.evmOnly
                      /\ a.nodeIsolation = "dedicated"
     /\ ~a.offline => a.namespace = Here
     /\ Cardinality({b \in {"image", "storage", "pair", "isolation"} :
          \/ b = "image" /\ a.image = ""
          \/ b = "storage" /\ a.storage = "0"
          \/ b = "pair" /\ (a.iops = "") # (a.throughput = "")
          \/ b = "isolation" /\ a.nodeIsolation = "none"}) <= 1}

MCWorkflows ==
  [tree : {"workflow"}, target : {"node-a"}, requirePhase : {"", "Running", "Ready"},
   migration : {"", "GigaStore", "Other"}, backend : {"", "pebbledb", "other"},
   offline : {FALSE}, namespace : {Here}]

MCArgSets == MCApplies \cup MCWorkflows

MCNodes == {a \in MCApplies : a.tree = "node"}

Spec2(k)    == <<Key("spec"), Key(k)>>
Entry0      == Item("configValues", 0)
Entry1      == Item("configValues", 1)
Expr(p, v)  == [path |-> p, val |-> v]

Common ==
  {Expr(<<Key("metadata"), Key("name")>>, String("other")),
   Expr(<<Key("metadata"), Key("namespace")>>, String("other")),
   Expr(<<Key("metadata"), Key("labels"), Key("tier")>>, Number("1")),
   Expr(<<Key("metadata"), Key("annotations"), Key("note")>>, String("x")),
   Expr(<<Key("metadata")>>, String("x"))}

Resources ==
  {Expr(Spec2("consensus") \o <<Key("engine")>>, String("Tendermint")),
   Expr(Spec2("consensus") \o <<Key("evmOnly")>>, Bool("true")),
   Expr(Spec2("consensus"), String("x")),
   Expr(Spec2("resources") \o <<Key("limits"), Key("cpu")>>, Number("4")),
   Expr(Spec2("dataVolume") \o <<Key("storage"), Key("volumeAttributesClassName")>>,
        String("sei-gp3-performance-v1")),
   Expr(Spec2("dataVolume")
          \o <<Key("storage"), Key("resources"), Key("requests"), Key("storage")>>,
        Number("20401094656")),
   Expr(<<Key("spec"), Entry0, Key("key")>>, String("k1")),
   Expr(<<Key("spec"), Entry1, Key("key")>>, String("k1")),
   Expr(Spec2("image"), String("other"))}

MCSetExprs ==
  [tree \in {"node", "network", "workflow"} |->
     CASE tree = "node" ->
            Common \cup Resources \cup
            {Expr(<<Key("spec"), Item("peers", 0), Key("chain")>>, String("c")),
             Expr(<<Key("spec"), Item("peers", 1)>>, String("c")),
             Expr(Spec2("overrides") \o <<Key("k")>>, String("set"))}
       [] tree = "network" ->
            Common \cup Resources \cup
            {Expr(Spec2("genesis") \o <<Item("accounts", 0), Key("address")>>, String("a"))}
       [] tree = "workflow" ->
            Common \cup
            {Expr(Spec2("kind"), String("")),
             Expr(Spec2("target") \o <<Key("nodeRef"), Key("name")>>, String("node-b")),
             Expr(Spec2("stateSync") \o <<Key("migration"), Key("kind")>>, String("GigaStore")),
             Expr(Spec2("stateSync")
                    \o <<Key("migration"), Key("gigaStore"), Key("backend")>>,
                  String("rocksdb"))}]

MCOverrides   == {[key |-> "k", val |-> "v"]}
MCConfigFlags == {<<>>, <<[key |-> "k1", value |-> "a"]>>,
                  <<[key |-> "k2", value |-> "null"]>>,
                  <<[key |-> "k1", value |-> "a"], [key |-> "k1", value |-> "b"]>>,
                  <<[key |-> "k2", value |-> "a"], [key |-> "k3", value |-> "a"]>>}
=============================================================================
