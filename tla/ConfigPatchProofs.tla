------------------------- MODULE ConfigPatchProofs -------------------------
(***************************************************************************)
(* Theorems about ConfigPatch, for any keys, hints and scalars: the guess  *)
(* of the target in every order of the map, and the law of the merge.      *)
(***************************************************************************)
EXTENDS ConfigPatch, SequenceTheorems, TLAPS

\* The keys the loop has taken.
Taken == Entries(patch) \ left

\* So far every key that is known belongs to the target, and one of them made it
\* the target.
Unanimous ==
  flag = "none" /\ verdict # "ambiguous" =>
    /\ left \subseteq Entries(patch)
    /\ \A key \in Taken : Hint(key) \in {"none", target}
    /\ target # "none" => \E key \in Taken : Hint(key) = target
    /\ verdict = "ok" => left = {} /\ target # "none"

\* The documents, and what became of them.
Merged ==
  /\ original \in JSON /\ patch \in JSON
  /\ result \in {Missing, Merge(original, patch)}

-----------------------------------------------------------------------------
(* The guess.                                                              *)

LEMMA InitUnanimous == Init => Unanimous
<1> SUFFICES ASSUME Init PROVE Unanimous
  OBVIOUS
<1>1. Taken = {} /\ left = Entries(patch) /\ verdict = "none" /\ target = flag
  BY DEF Init, Taken
<1>2. QED
  BY <1>1 DEF Unanimous

LEMMA UnanimousStep == Unanimous /\ [Next]_vars => Unanimous'
<1> SUFFICES ASSUME Unanimous, [Next]_vars PROVE Unanimous'
  OBVIOUS
<1>1. ASSUME NEW key \in Keys, Take(key), verdict' # "ambiguous" PROVE Unanimous'
  <2>1. /\ flag = "none" /\ flag' = flag /\ patch' = patch /\ key \in left
        /\ verdict = "none" /\ verdict' = verdict /\ left' = left \ {key}
    BY <1>1 DEF Take
  <2>2. /\ left \subseteq Entries(patch)
        /\ \A j \in Taken : Hint(j) \in {"none", target}
        /\ target # "none" => \E j \in Taken : Hint(j) = target
    BY <2>1 DEF Unanimous
  <2>3. Taken' = Taken \cup {key} /\ left' \subseteq Entries(patch')
    BY <2>1, <2>2 DEF Taken
  <2>4. (\A j \in Taken' : Hint(j) \in {"none", target'})
        /\ (target' # "none" => \E j \in Taken' : Hint(j) = target')
    <3>1. CASE Hint(key) \in {"none", target} /\ target' = target
      BY <2>2, <2>3, <3>1
    <3>2. CASE Hint(key) # "none" /\ target = "none" /\ target' = Hint(key)
      BY <2>2, <2>3, <3>2
    <3>3. QED
      BY <1>1, <3>1, <3>2 DEF Take
  <2>5. QED
    BY <2>1, <2>3, <2>4 DEF Unanimous
<1>2. CASE Decide
  BY <1>2 DEF Decide, Unanimous, Taken, Entries, IsMap, Hint
<1>3. CASE Explicit \/ Patch \/ UNCHANGED vars
  BY <1>3 DEF Explicit, Patch, vars, Unanimous, Taken, Entries, IsMap, Hint
<1>4. CASE verdict' = "ambiguous"
  BY <1>4 DEF Unanimous
<1>5. QED
  BY <1>1, <1>2, <1>3, <1>4 DEF Next

-----------------------------------------------------------------------------
(* Values, and what is found in them.                                      *)

\* The values of the two levels below a document.
Leaves == ScalarValues \cup {Null}
Inner  == Leaves \cup MapValues(InnerKeys, Leaves)

LEMMA LeafValues ==
  ASSUME NEW v \in Leaves
  PROVE  /\ ~IsMap(v) /\ v # Missing /\ Entries(v) = {} /\ \A k : Get(v, k) = Missing
         /\ v = Null <=> v \notin ScalarValues
<1>1. v.kind \in {"scalar", "null"} /\ (v = Null <=> v \notin ScalarValues)
  BY DEF Leaves, ScalarValues, Null
<1>2. ~IsMap(v) /\ v # Missing
  BY <1>1 DEF IsMap, Missing
<1>3. QED
  BY <1>1, <1>2 DEF Entries, Get

LEMMA NoValues ==
  /\ ~IsMap(Missing) /\ Missing # Null /\ Missing \notin ScalarValues
  /\ \A k : Get(Missing, k) = Missing /\ Get(Null, k) = Missing
  /\ ~IsMap(Null) /\ Null \notin ScalarValues
<1>1. Missing.kind = "missing" /\ Null.kind = "null"
      /\ \A v \in ScalarValues : v.kind = "scalar"
  BY DEF Missing, Null, ScalarValues
<1>2. QED
  BY <1>1 DEF IsMap, Entries, Get

LEMMA MapsOf ==
  ASSUME NEW K, NEW V, NEW v \in MapValues(K, V), Missing \notin V
  PROVE  /\ IsMap(v) /\ v # Missing /\ v # Null /\ v \notin ScalarValues
         /\ Entries(v) = DOMAIN v.at /\ Entries(v) \subseteq K
         /\ \A k \in Entries(v) : v.at[k] \in V /\ Get(v, k) = v.at[k]
         /\ \A k : Get(v, k) \in V \cup {Missing}
         /\ \A k : Get(v, k) = Missing <=> k \notin Entries(v)
<1>1. PICK f \in UNION {[E -> V] : E \in SUBSET K} : v = [kind |-> "map", at |-> f]
  BY DEF MapValues
<1> DEFINE D == DOMAIN f
<1>0. D \in SUBSET K /\ f \in [D -> V]
  OBVIOUS
<1>2. v.kind = "map" /\ v.at = f /\ DOMAIN v.at = D
  BY <1>1
<1> HIDE DEF D
<1>3. IsMap(v) /\ Entries(v) = D
  BY <1>2 DEF IsMap, Entries
<1>4. v # Missing /\ v # Null /\ v \notin ScalarValues
  BY <1>3, NoValues DEF ScalarValues, IsMap
<1>5. \A k \in D : v.at[k] \in V /\ Get(v, k) = v.at[k]
  BY <1>0, <1>2, <1>3 DEF Get
<1>6. \A k : k \notin D => Get(v, k) = Missing
  BY <1>3 DEF Get
<1>7. QED
  BY <1>0, <1>2, <1>3, <1>4, <1>5, <1>6

\* Nothing that a document holds is Missing.
LEMMA InnerValues ==
  /\ Missing \notin Leaves /\ Missing \notin Inner
  /\ \A v \in Inner : v \in Leaves \/ v \in MapValues(InnerKeys, Leaves)
<1>1. Missing \notin Leaves
  BY LeafValues
<1>2. QED
  BY <1>1, MapsOf DEF Inner

-----------------------------------------------------------------------------
(* One call of Merge.                                                      *)

\* The lower level: the value of the patch, unless it is a null.
LEMMA InnerMerge ==
  ASSUME NEW o \in Inner, NEW p \in MapValues(InnerKeys, Leaves), NEW k
  PROVE  /\ IsMap(MergeInner(o, p))
         /\ Get(MergeInner(o, p), k) =
              IF Get(p, k) = Missing THEN Get(o, k)
              ELSE IF Get(p, k) = Null THEN Missing ELSE Get(p, k)
<1> DEFINE r == MergeInner(o, p)
<1>1. /\ IsMap(p) /\ Entries(p) = DOMAIN p.at
      /\ \A j \in Entries(p) : Get(p, j) = p.at[j]
      /\ \A j : Get(p, j) = Missing <=> j \notin Entries(p)
  BY InnerValues, MapsOf
<1>2. \A j \in Entries(o) : Get(o, j) = o.at[j]
  BY DEF Get
<1>3. \A j : j \notin Entries(o) => Get(o, j) = Missing
  BY DEF Get
<1>4. r = [kind |-> "map",
           at |-> [j \in KeptKeys(o, p) |->
                     IF j \notin DOMAIN p.at THEN o.at[j]
                     ELSE IF j \in Entries(o) THEN p.at[j] ELSE p.at[j]]]
  BY <1>1 DEF MergeInner, MergeBy, MergeLeaf
<1>5. /\ r.kind = "map" /\ DOMAIN r.at = KeptKeys(o, p)
      /\ \A j \in KeptKeys(o, p) :
           r.at[j] = IF j \notin DOMAIN p.at THEN o.at[j] ELSE p.at[j]
  BY <1>4
<1> HIDE DEF r
<1>6. IsMap(r) /\ Entries(r) = KeptKeys(o, p)
  BY <1>5 DEF IsMap, Entries
<1>7. k \in KeptKeys(o, p) <=> (k \in Entries(o) \/ k \in Entries(p)) /\ Get(p, k) # Null
  BY <1>1, NoValues DEF KeptKeys
<1>8. Get(r, k) = IF Get(p, k) = Missing THEN Get(o, k)
                  ELSE IF Get(p, k) = Null THEN Missing ELSE Get(p, k)
  <2>1. CASE k \in KeptKeys(o, p)
    <3>1. Get(r, k) = r.at[k]
      BY <1>6, <2>1 DEF Get
    <3>2. QED
      BY <1>1, <1>2, <1>5, <1>7, <2>1, <3>1
  <2>2. CASE k \notin KeptKeys(o, p)
    <3>1. Get(r, k) = Missing
      BY <1>6, <2>2 DEF Get
    <3>2. QED
      BY <1>1, <1>3, <1>7, <2>2, <3>1, NoValues
  <2>3. QED
    BY <2>1, <2>2
<1>9. QED
  BY <1>6, <1>8 DEF r

\* The document: a key of both is merged.
LEMMA TopMerge ==
  ASSUME NEW o \in JSON, NEW p \in JSON, NEW k
  PROVE  /\ IsMap(Merge(o, p))
         /\ Get(Merge(o, p), k) =
              IF Get(p, k) = Missing THEN Get(o, k)
              ELSE IF Get(p, k) = Null THEN Missing
              ELSE IF Get(o, k) = Missing THEN Get(p, k)
              ELSE MergeInner(Get(o, k), Get(p, k))
<1> DEFINE r == Merge(o, p)
<1>0. o \in MapValues(Keys, Inner) /\ p \in MapValues(Keys, Inner)
  BY DEF JSON, Documents, Inner, Leaves
<1>1. /\ IsMap(p) /\ Entries(p) = DOMAIN p.at
      /\ \A j \in Entries(p) : Get(p, j) = p.at[j]
      /\ \A j : Get(p, j) = Missing <=> j \notin Entries(p)
  BY <1>0, InnerValues, MapsOf
<1>2. /\ \A j \in Entries(o) : Get(o, j) = o.at[j]
      /\ \A j : Get(o, j) = Missing <=> j \notin Entries(o)
  BY <1>0, InnerValues, MapsOf
<1>3. r = [kind |-> "map",
           at |-> [j \in KeptKeys(o, p) |->
                     IF j \notin DOMAIN p.at THEN o.at[j]
                     ELSE IF j \in Entries(o) THEN MergeInner(o.at[j], p.at[j])
                     ELSE p.at[j]]]
  BY <1>1 DEF Merge, MergeBy
<1>4. /\ r.kind = "map" /\ DOMAIN r.at = KeptKeys(o, p)
      /\ \A j \in KeptKeys(o, p) :
           r.at[j] = IF j \notin DOMAIN p.at THEN o.at[j]
                     ELSE IF j \in Entries(o) THEN MergeInner(o.at[j], p.at[j])
                     ELSE p.at[j]
  BY <1>3
<1> HIDE DEF r
<1>5. IsMap(r) /\ Entries(r) = KeptKeys(o, p)
  BY <1>4 DEF IsMap, Entries
<1>6. k \in KeptKeys(o, p) <=> (k \in Entries(o) \/ k \in Entries(p)) /\ Get(p, k) # Null
  BY <1>1, NoValues DEF KeptKeys
<1>7. Get(r, k) = IF Get(p, k) = Missing THEN Get(o, k)
                  ELSE IF Get(p, k) = Null THEN Missing
                  ELSE IF Get(o, k) = Missing THEN Get(p, k)
                  ELSE MergeInner(Get(o, k), Get(p, k))
  <2>1. CASE k \in KeptKeys(o, p)
    <3>1. Get(r, k) = r.at[k]
      BY <1>5, <2>1 DEF Get
    <3>2. QED
      BY <1>1, <1>2, <1>4, <1>6, <2>1, <3>1
  <2>2. CASE k \notin KeptKeys(o, p)
    <3>1. Get(r, k) = Missing
      BY <1>5, <2>2 DEF Get
    <3>2. QED
      BY <1>1, <1>2, <1>6, <2>2, <3>1, NoValues
  <2>3. QED
    BY <2>1, <2>2
<1>8. QED
  BY <1>5, <1>7 DEF r

-----------------------------------------------------------------------------
(* The law, path by path.                                                  *)

\* Where the paths lead.
LEMMA PathsLead ==
  ASSUME NEW x \in Paths
  PROVE  \/ x = <<>> /\ \A v : At(v, x) = v
         \/ \E a : /\ x # <<>> /\ \A v : At(v, x) = Get(v, a)
                   /\ \A v : At(v, Parent(x)) = v
         \/ \E a, b : /\ x # <<>> /\ \A v : At(v, x) = Get(Get(v, a), b)
                      /\ \A v : At(v, Parent(x)) = Get(v, a)
<1>1. CASE x = <<>>
  BY <1>1 DEF At
<1>2. ASSUME NEW a \in Keys, x = <<a>>
      PROVE  x # <<>> /\ (\A v : At(v, x) = Get(v, a)) /\ \A v : At(v, Parent(x)) = v
  <2>1. x # <<>> /\ Len(x) = 1 /\ x[1] = a /\ Parent(x) = <<>>
    BY <1>2 DEF Parent
  <2>2. QED
    BY <2>1 DEF At
<1>3. ASSUME NEW a \in Keys, NEW b \in InnerKeys, x = <<a, b>>
      PROVE  /\ x # <<>> /\ \A v : At(v, x) = Get(Get(v, a), b)
             /\ \A v : At(v, Parent(x)) = Get(v, a)
  <2>1. x # <<>> /\ Len(x) = 2 /\ x[1] = a /\ x[2] = b /\ Parent(x) = <<a>>
    BY <1>3 DEF Parent
  <2>2. <<a>> # <<>> /\ Len(<<a>>) = 1 /\ <<a>>[1] = a
    OBVIOUS
  <2>3. QED
    BY <2>1, <2>2 DEF At
<1>4. QED
  BY <1>1, <1>2, <1>3 DEF Paths

\* The cases of an entry: what the document holds, what the patch does, what
\* the merge makes of them there, and at a key below.
EntryLaw(vo, vp, vr, b) ==
  \/ vp = Missing /\ vr = vo /\ Get(vp, b) = Missing /\ ~IsMap(vp)
  \/ vp = Null /\ vr = Missing /\ Get(vp, b) = Missing /\ ~IsMap(vp)
  \/ /\ vp \in ScalarValues /\ vr = vp /\ Get(vp, b) = Missing /\ ~IsMap(vp)
     /\ Get(vr, b) = Missing
  \/ /\ vp \notin ScalarValues /\ IsMap(vp) /\ vo = Missing /\ vr = vp
     /\ Get(vo, b) = Missing
  \/ /\ vp \notin ScalarValues /\ IsMap(vp) /\ IsMap(vr) /\ vo # Missing
     /\ Get(vr, b) = IF Get(vp, b) = Missing THEN Get(vo, b)
                     ELSE IF Get(vp, b) = Null THEN Missing ELSE Get(vp, b)

LEMMA EntryCases ==
  ASSUME NEW o \in JSON, NEW p \in JSON, NEW a, NEW b
  PROVE  EntryLaw(Get(o, a), Get(p, a), Get(Merge(o, p), a), b)
<1> DEFINE vo == Get(o, a)
           vp == Get(p, a)
           vr == Get(Merge(o, p), a)
<1>0. o \in MapValues(Keys, Inner) /\ p \in MapValues(Keys, Inner)
  BY DEF JSON, Documents, Inner, Leaves
<1>1. vo \in Inner \cup {Missing} /\ vp \in Inner \cup {Missing}
  BY <1>0, InnerValues, MapsOf
<1>2. vr = IF vp = Missing THEN vo ELSE IF vp = Null THEN Missing
           ELSE IF vo = Missing THEN vp ELSE MergeInner(vo, vp)
  BY TopMerge
<1> HIDE DEF vo, vp, vr
<1> SUFFICES EntryLaw(vo, vp, vr, b)
  BY DEF vo, vp, vr
<1>3. CASE vp = Missing
  BY <1>2, <1>3, NoValues DEF EntryLaw
<1>4. CASE vp = Null
  BY <1>2, <1>4, NoValues DEF EntryLaw
<1>5. CASE vp \in ScalarValues
  <2>1. vp \in Leaves /\ ~IsMap(vp) /\ vp # Missing /\ vp # Null /\ Get(vp, b) = Missing
    BY <1>5, LeafValues DEF Leaves
  <2>2. MergeInner(vo, vp) = vp
    BY <2>1 DEF MergeInner, MergeBy
  <2>3. QED
    BY <1>2, <1>5, <2>1, <2>2 DEF EntryLaw
<1>6. CASE vp \in MapValues(InnerKeys, Leaves)
  <2>1. IsMap(vp) /\ vp # Missing /\ vp # Null /\ vp \notin ScalarValues
    BY <1>6, InnerValues, MapsOf
  <2>2. CASE vo = Missing
    BY <1>2, <2>1, <2>2, NoValues DEF EntryLaw
  <2>3. CASE vo \in Inner
    <3>1. vo # Missing
      BY <2>3, InnerValues
    <3>2. vr = MergeInner(vo, vp)
      BY <1>2, <2>1, <3>1
    <3>3. QED
      BY <1>6, <2>1, <2>3, <3>1, <3>2, InnerMerge DEF EntryLaw
  <2>4. QED
    BY <1>1, <2>2, <2>3
<1>7. QED
  BY <1>1, <1>3, <1>4, <1>5, <1>6 DEF Inner, Leaves

\* The values below a document are scalars, nulls, maps of them, or missing.
LEMMA DocumentsHold ==
  ASSUME NEW o \in JSON
  PROVE  /\ IsMap(o) /\ o # Missing /\ o # Null /\ o \notin ScalarValues
         /\ \A a : Get(o, a) \in ScalarValues \cup {Null, Missing} \/ IsMap(Get(o, a))
<1>1. o \in MapValues(Keys, Inner)
  BY DEF JSON, Documents, Inner, Leaves
<1>2. IsMap(o) /\ o # Missing /\ o # Null /\ o \notin ScalarValues
      /\ \A a : Get(o, a) \in Inner \cup {Missing}
  BY <1>1, InnerValues, MapsOf
<1>3. \A v \in Inner : v \in ScalarValues \cup {Null} \/ IsMap(v)
  BY InnerValues, MapsOf DEF Leaves
<1>4. QED
  BY <1>2, <1>3

LEMMA Lawful ==
  ASSUME original \in JSON, patch \in JSON, result = Merge(original, patch)
  PROVE  UnnamedKept /\ ScalarsSet /\ NullsRemove /\ NothingInvented
<1>1. /\ IsMap(original) /\ original # Missing
      /\ IsMap(patch) /\ patch # Missing /\ patch # Null /\ patch \notin ScalarValues
      /\ IsMap(result)
  BY DocumentsHold, TopMerge
<1>2. UnnamedKept
  <2> SUFFICES ASSUME NEW x \in Paths \ {<<>>}, At(patch, x) = Missing,
                      IsMap(At(patch, Parent(x)))
               PROVE  At(result, x) = At(original, x)
    BY DEF UnnamedKept
  <2>1. ASSUME NEW a, \A v : At(v, x) = Get(v, a) PROVE At(result, x) = At(original, x)
    BY <2>1, TopMerge
  <2>2. ASSUME NEW a, NEW b, \A v : At(v, x) = Get(Get(v, a), b),
               \A v : At(v, Parent(x)) = Get(v, a)
        PROVE  At(result, x) = At(original, x)
    BY <2>2, EntryCases DEF EntryLaw
  <2>3. QED
    BY <2>1, <2>2, PathsLead
<1>3. ScalarsSet
  <2> SUFFICES ASSUME NEW x \in Paths, At(patch, x) \in ScalarValues
               PROVE  At(result, x) = At(patch, x)
    BY DEF ScalarsSet
  <2>1. ASSUME NEW a, \A v : At(v, x) = Get(v, a) PROVE At(result, x) = At(patch, x)
    BY <2>1, EntryCases, NoValues DEF EntryLaw
  <2>2. ASSUME NEW a, NEW b, \A v : At(v, x) = Get(Get(v, a), b)
        PROVE  At(result, x) = At(patch, x)
    BY <2>2, EntryCases, NoValues DEF EntryLaw
  <2>3. QED
    BY <1>1, <2>1, <2>2, PathsLead
<1>4. NullsRemove
  <2> SUFFICES ASSUME NEW x \in Paths \ {<<>>}, At(patch, x) = Null,
                      At(original, Parent(x)) # Missing
               PROVE  At(result, x) = Missing
    BY DEF NullsRemove
  <2>1. ASSUME NEW a, \A v : At(v, x) = Get(v, a), \A v : At(v, Parent(x)) = v
        PROVE  At(result, x) = Missing
    BY <1>1, <2>1, TopMerge, NoValues
  <2>2. ASSUME NEW a, NEW b, \A v : At(v, x) = Get(Get(v, a), b),
               \A v : At(v, Parent(x)) = Get(v, a)
        PROVE  At(result, x) = Missing
    BY <2>2, EntryCases, NoValues DEF EntryLaw
  <2>3. QED
    BY <2>1, <2>2, PathsLead
<1>5. NothingInvented
  <2> SUFFICES ASSUME NEW x \in Paths, At(result, x) # Missing, ~IsMap(At(result, x))
               PROVE  \/ At(result, x) = At(patch, x)
                      \/ At(result, x) = At(original, x) /\ At(patch, x) = Missing
    BY DEF NothingInvented
  <2>1. ASSUME NEW a, \A v : At(v, x) = Get(v, a)
        PROVE  \/ At(result, x) = At(patch, x)
               \/ At(result, x) = At(original, x) /\ At(patch, x) = Missing
    BY <2>1, EntryCases DEF EntryLaw
  <2>2. ASSUME NEW a, NEW b, \A v : At(v, x) = Get(Get(v, a), b)
        PROVE  \/ At(result, x) = At(patch, x)
               \/ At(result, x) = At(original, x) /\ At(patch, x) = Missing
    BY <2>2, EntryCases, NoValues DEF EntryLaw
  <2>3. QED
    BY <1>1, <2>1, <2>2, PathsLead
<1>6. QED
  BY <1>2, <1>3, <1>4, <1>5

-----------------------------------------------------------------------------
(* The theorems.                                                           *)

LEMMA Invariance == Spec => [](Unanimous /\ Merged)
<1>1. Init => Merged
  <2>1. TOML \subseteq JSON
    <3>1. \A K, V, W : V \subseteq W => MapValues(K, V) \subseteq MapValues(K, W)
      BY DEF MapValues
    <3>2. QED
      BY <3>1 DEF TOML, JSON, Documents
  <2>2. QED
    BY <2>1 DEF Init, Merged
<1>2. Merged /\ [Next]_vars => Merged'
  BY DEF Merged, Next, Explicit, Take, Decide, Patch, vars, Merge, MergeBy, KeptKeys
<1>3. QED
  BY <1>1, <1>2, InitUnanimous, UnanimousStep, PTL DEF Spec

\* A patch goes to a guessed target only when every key that is known belongs to
\* it and at least one is known, whatever the keys and in any order of the map.
THEOREM UnanimousGuess == Spec => []GuessIsUnanimous
<1>1. Unanimous => GuessIsUnanimous
  <2> SUFFICES ASSUME Unanimous, verdict = "ok", flag = "none"
               PROVE  /\ \A key \in Entries(patch) : Hint(key) \in {"none", target}
                      /\ \E key \in Entries(patch) : Hint(key) = target
    BY DEF GuessIsUnanimous
  <2>1. Taken = Entries(patch)
    BY DEF Unanimous, Taken
  <2>2. QED
    BY <2>1 DEF Unanimous
<1>2. QED
  BY <1>1, Invariance, PTL

\* Merge obeys its law on all documents and patches of two levels, whatever their
\* keys and scalars: what the patch does not name stays, its scalars are set, a null
\* removes what the document has there or a scalar above, and nothing comes from
\* nowhere.  That every null removes its key (README.md:341) is not so: see
\* NullsAreRemoved.
THEOREM LawOfMerge == Spec => []MergeLaw
<1>1. Merged => MergeLaw
  BY Lawful DEF Merged, MergeLaw, Patched
<1>2. QED
  BY <1>1, Invariance, PTL

=============================================================================
