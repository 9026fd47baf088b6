---------------------------- MODULE ConfigPatch ----------------------------
(***************************************************************************)
(* What a patch does to a document (src/config.go, src/patch.go,           *)
(* src/genesis.go and patch.Merge of src/internal/patch/merge.go).         *)
(*                                                                         *)
(* `config patch' without --target guesses from the top-level keys of the  *)
(* patch which of app.toml, config.toml and client.toml it is for; the     *)
(* loop takes the keys of a Go map, in any order.  Then the patch is       *)
(* merged into the document, at every depth.  The write is AtomicPatch.    *)
(***************************************************************************)
EXTENDS Naturals, Sequences

CONSTANTS
  Keys,        \* top-level keys
  AppKeys,     \* configTargetHints: the keys of each target
  ConfigKeys,
  ClientKeys,
  InnerKeys,   \* keys of the maps below
  Scalars      \* scalars and arrays: what is no map and not null

Targets == {"app", "config", "client"}

\* A value is null, a scalar or a map; a path that leads nowhere is Missing.
Missing == [kind |-> "missing"]
Null    == [kind |-> "null"]

ScalarValues    == {[kind |-> "scalar", val |-> s] : s \in Scalars}
MapValues(K, V) == {[kind |-> "map", at |-> f] : f \in UNION {[D -> V] : D \in SUBSET K}}

\* The documents of at most two levels.  TOML has no null.
Documents(leaves) == MapValues(Keys, leaves \cup MapValues(InnerKeys, leaves))
TOML  == Documents(ScalarValues)
JSON  == Documents(ScalarValues \cup {Null})
Paths == {<<>>} \cup {<<k>> : k \in Keys} \cup (Keys \X InnerKeys)

VARIABLES
  original,   \* the document that was read
  patch,      \* the patch
  flag,       \* the file the user named: a --target, or "none"
  left,       \* the top-level keys the loop has still to take
  target,     \* destinations.config.target
  verdict,    \* "none", "ok", "ambiguous" or "undetected"
  result      \* what Merge made of the document, or Missing

vars == <<original, patch, flag, left, target, verdict, result>>

IsMap(v)   == v.kind = "map"
Entries(v) == IF IsMap(v) THEN DOMAIN v.at ELSE {}
Get(v, k)  == IF k \in Entries(v) THEN v.at[k] ELSE Missing

\* `patch' and `genesis patch' name their file, and only JSON has nulls.
Init ==
  /\ \/ original \in JSON /\ patch \in JSON /\ flag = "client"
     \/ original \in TOML /\ patch \in TOML /\ flag \in {"app", "none"}
  /\ left = Entries(patch)
  /\ target = flag
  /\ verdict = "none"
  /\ result = Missing

-----------------------------------------------------------------------------
(* The target.                                                             *)

\* configTargetHints.
Hint(key) ==
  IF key \in AppKeys THEN "app"
  ELSE IF key \in ConfigKeys THEN "config"
  ELSE IF key \in ClientKeys THEN "client" ELSE "none"

\* An explicit target is taken as it is.
Explicit ==
  /\ verdict = "none" /\ flag # "none"
  /\ verdict' = "ok"
  /\ UNCHANGED <<original, patch, flag, left, target, result>>

\* Mutant: a second hint is not compared with the first.
FirstHintWins(key) ==
  /\ verdict = "none" /\ flag = "none" /\ key \in left
  /\ left' = left \ {key}
  /\ \/ Hint(key) # "none" /\ target = "none" /\ target' = Hint(key)
     \/ ~(Hint(key) # "none" /\ target = "none") /\ UNCHANGED target
  /\ UNCHANGED <<original, patch, flag, verdict, result>>

\* One turn of the loop.
Take(key) ==
  /\ verdict = "none" /\ flag = "none" /\ key \in left
  /\ left' = left \ {key}
  /\ \/ /\ Hint(key) \in {"none", target}
        /\ UNCHANGED <<target, verdict>>
     \/ /\ Hint(key) # "none" /\ target = "none"
        /\ target' = Hint(key)
        /\ UNCHANGED verdict
     \/ /\ Hint(key) \notin {"none", target} /\ target # "none"
        /\ verdict' = "ambiguous"
        /\ UNCHANGED target
  /\ UNCHANGED <<original, patch, flag, result>>

Decide ==
  /\ verdict = "none" /\ flag = "none" /\ left = {}
  /\ verdict' = IF target = "none" THEN "undetected" ELSE "ok"
  /\ UNCHANGED <<original, patch, flag, left, target, result>>

-----------------------------------------------------------------------------
(* The merge.                                                              *)

\* Mutant: a null is a value.
KeptKeysNulls(o, p) == Entries(o) \cup DOMAIN p.at

\* The keys of the result: those of the original, without the nulls of the
\* patch, and the other keys of the patch.
KeptKeys(o, p) == (Entries(o) \cup DOMAIN p.at) \ {k \in DOMAIN p.at : p.at[k] = Null}

\* One call of Merge, whose own calls are MergeBelow: a key of both is merged, a
\* new key gets the value of the patch as it is.
MergeBy(MergeBelow(_, _), o, p) ==
  IF ~IsMap(p) THEN p
  ELSE [kind |-> "map",
        at |-> [k \in KeptKeys(o, p) |->
                  IF k \notin DOMAIN p.at THEN o.at[k]
                  ELSE IF k \in Entries(o) THEN MergeBelow(o.at[k], p.at[k])
                  ELSE p.at[k]]]

\* Its recursion on documents of two levels: below them there is no map.
MergeLeaf(o, p)  == p
MergeInner(o, p) == MergeBy(MergeLeaf, o, p)
Merge(o, p)      == MergeBy(MergeInner, o, p)

\* The file is read, merged and handed to the writer.
Patch ==
  /\ verdict = "ok" /\ result = Missing
  /\ result' = Merge(original, patch)
  /\ UNCHANGED <<original, patch, flag, left, target, verdict>>

Next == Explicit \/ (\E key \in Keys : Take(key)) \/ Decide \/ Patch

Spec == Init /\ [][Next]_vars

-----------------------------------------------------------------------------
(* Properties.                                                             *)

\* README.md:486: a patch is only applied to a guessed target when every key
\* that is known belongs to it, in whatever order the map gave the keys.
GuessIsUnanimous ==
  verdict = "ok" /\ flag = "none" =>
    /\ \A key \in Entries(patch) : Hint(key) \in {"none", target}
    /\ \E key \in Entries(patch) : Hint(key) = target

\* What is found along a path of at most two keys.
At(v, path) == IF path = <<>> THEN v
               ELSE IF Len(path) = 1 THEN Get(v, path[1])
               ELSE Get(Get(v, path[1]), path[2])

Parent(path) == IF Len(path) = 1 THEN <<>> ELSE <<path[1]>>

Patched == result # Missing

\* What the patch does not name stays, at every depth: a path whose parent the
\* patch names as a map keeps its value or its absence.
UnnamedKept ==
  \A x \in Paths \ {<<>>} :
    At(patch, x) = Missing /\ IsMap(At(patch, Parent(x))) => At(result, x) = At(original, x)

\* Every scalar of the patch is in the result, whatever was in its place.
ScalarsSet ==
  \A x \in Paths : At(patch, x) \in ScalarValues => At(result, x) = At(patch, x)

\* A null of the patch removes its key, and below a scalar the scalar goes with it,
\* wherever the document has the key above.  Where it has not, see NullsAreRemoved.
NullsRemove ==
  \A x \in Paths \ {<<>>} :
    At(patch, x) = Null /\ At(original, Parent(x)) # Missing => At(result, x) = Missing

\* No value comes from nowhere: what is no map in the result is, at the same
\* place, in the patch, or in the document where the patch is silent.
NothingInvented ==
  \A x \in Paths :
    At(result, x) # Missing /\ ~IsMap(At(result, x)) =>
      \/ At(result, x) = At(patch, x)
      \/ At(result, x) = At(original, x) /\ At(patch, x) = Missing

\* The law of the merge, path by path (merge.go:4-5, 9-30): `nil values in the patch
\* delete the corresponding key from original', and nothing else is lost or made up.
MergeLaw ==
  Patched => UnnamedKept /\ ScalarsSet /\ NullsRemove /\ NothingInvented

-----------------------------------------------------------------------------
(* What the documentation says, and a run refutes.                         *)

\* README.md:341: `Setting a value to null removes that key from the configuration':
\* no key that the patch sets to null is in what is written.
NullsAreRemoved ==
  Patched => \A x \in Paths : At(patch, x) = Null => At(result, x) = Missing

=============================================================================
