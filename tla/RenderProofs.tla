---------------------------- MODULE RenderProofs ----------------------------
(***************************************************************************)
(* Theorems about Render, for any flags, --set expressions, overrides and  *)
(* config values: what is accepted, and what a --set writes.               *)
(***************************************************************************)
EXTENDS Render, SequenceTheorems, WellFoundedInduction, TLAPS

-----------------------------------------------------------------------------
(* The walks along a path, which are functions of the place on it.         *)

LEMMA Smallest ==
  ASSUME NEW T \in SUBSET Nat, T # {}
  PROVE  \E x \in T : \A y \in T : x <= y
<1>1. PICK x \in T : \A y \in T : <<y, x>> \notin OpToRel(<, Nat)
  BY NatLessThanWellFounded, WFMin
<1>2. \A y \in T : ~(y < x)
  BY <1>1 DEF OpToRel
<1>3. QED
  BY <1>2

LEMMA AlongIs ==
  ASSUME NEW v, NEW path, Len(path) \in Nat
  PROVE  /\ Along(v, path)[0] = v
         /\ \A i \in 1..Len(path) : Along(v, path)[i] = Step(Along(v, path)[i - 1], path[i])
<1> DEFINE IsWalk(n, f) ==
             f = [i \in 0..n |-> IF i = 0 THEN v ELSE Step(f[i - 1], path[i])]
           None == {n \in Nat : ~\E f : IsWalk(n, f)}
<1>1. ASSUME None # {}
      PROVE  FALSE
  <2>1. PICK n \in None : \A k \in None : n <= k
    BY <1>1, Smallest
  <2>2. n # 0
    <3>1. IsWalk(0, [i \in 0..0 |-> v])
      OBVIOUS
    <3>2. QED
      BY <3>1
  <2>3. PICK f : IsWalk(n - 1, f)
    BY <2>1, <2>2
  <2> DEFINE g == [i \in 0..n |-> IF i = n THEN Step(f[n - 1], path[n]) ELSE f[i]]
  <2>4. IsWalk(n, g)
    <3>1. n \in Nat /\ n - 1 \in Nat
      BY <2>1, <2>2
    <3>2. \A i \in 0..n : g[i] = IF i = 0 THEN v ELSE Step(g[i - 1], path[i])
      BY <2>2, <2>3, <3>1
    <3>3. QED
      BY <3>2
  <2>5. QED
    BY <2>1, <2>4
<1>2. PICK f : IsWalk(Len(path), f)
  BY <1>1
<1>3. Along(v, path) = CHOOSE w : IsWalk(Len(path), w)
  BY DEF Along
<1>4. IsWalk(Len(path), Along(v, path))
  BY <1>2, <1>3
<1> HIDE DEF None
<1>5. QED
  BY <1>4

LEMMA BuiltIs ==
  ASSUME NEW m, NEW path, Len(path) \in Nat, NEW x
  PROVE  /\ Built(m, path, x)[0] = x
         /\ \A j \in 1..Len(path) :
              Built(m, path, x)[j] =
                Put(OrMade(Along(m, path)[Len(path) - j]), path[Len(path) - j + 1],
                    Built(m, path, x)[j - 1])
<1> DEFINE way == Along(m, path)
           L == Len(path)
           P(j, y) == Put(OrMade(way[L - j]), path[L - j + 1], y)
           IsBuilt(n, f) == f = [j \in 0..n |-> IF j = 0 THEN x ELSE P(j, f[j - 1])]
           None == {n \in Nat : ~\E f : IsBuilt(n, f)}
<1>0. Built(m, path, x) = CHOOSE w : IsBuilt(L, w)
  BY DEF Built
<1>a. \A j, y : P(j, y) = Put(OrMade(Along(m, path)[Len(path) - j]), path[Len(path) - j + 1], y)
  OBVIOUS
<1> HIDE DEF P
<1>1. ASSUME None # {}
      PROVE  FALSE
  <2>1. PICK n \in None : \A k \in None : n <= k
    BY <1>1, Smallest
  <2>2. n # 0
    <3>1. IsBuilt(0, [j \in 0..0 |-> x])
      OBVIOUS
    <3>2. QED
      BY <3>1
  <2>3. PICK f : IsBuilt(n - 1, f)
    BY <2>1, <2>2
  <2> DEFINE g == [j \in 0..n |-> IF j = n THEN P(n, f[n - 1]) ELSE f[j]]
  <2>4. IsBuilt(n, g)
    <3>1. n \in Nat /\ n - 1 \in Nat
      BY <2>1, <2>2
    <3>2. \A j \in 0..n : g[j] = IF j = 0 THEN x ELSE P(j, g[j - 1])
      BY <2>2, <2>3, <3>1
    <3>3. QED
      BY <3>2
  <2>5. QED
    BY <2>1, <2>4
<1>2. PICK f : IsBuilt(L, f)
  BY <1>1
<1>3. IsBuilt(L, Built(m, path, x))
  BY <1>0, <1>2
<1> HIDE DEF None
<1>4. /\ Built(m, path, x)[0] = x
      /\ \A j \in 1..L : Built(m, path, x)[j] = P(j, Built(m, path, x)[j - 1])
  BY <1>3
<1>5. QED
  BY <1>4, <1>a

-----------------------------------------------------------------------------
(* One segment.                                                            *)

LEMMA WithIs ==
  ASSUME NEW m, NEW k, NEW x
  PROVE  /\ IsMap(With(m, k, x))
         /\ Child(With(m, k, x), k) = x
         /\ \A j : j # k => Child(With(m, k, x), j) = Child(m, j)
<1> DEFINE f == [j \in DOMAIN m.at \cup {k} |-> IF j = k THEN x ELSE m.at[j]]
<1>1. DOMAIN f = {k} \cup DOMAIN m.at
  OBVIOUS
<1>2. f[k] = x
  OBVIOUS
<1>3. \A j \in DOMAIN m.at : j # k => f[j] = m.at[j]
  OBVIOUS
<1>4. With(m, k, x).at = f /\ With(m, k, x).kind = "map"
  BY DEF With, Map
<1> HIDE DEF f
<1>5. QED
  BY <1>1, <1>2, <1>3, <1>4 DEF Child, IsMap

\* What a path leads to is one of these, and they are not each other.
LEMMA Kinds ==
  /\ ~IsMap(Missing) /\ ~IsMap(Conflict) /\ Missing # Conflict
  /\ IsMap(EmptyMap) /\ \A k : Child(EmptyMap, k) = Missing
  /\ \A v : IsMap(v) => v # Missing /\ v # Conflict
  /\ \A s : ~IsMap(List(s)) /\ List(s) # Missing /\ List(s) # Conflict /\ List(s).seq = s
  /\ \A s : ~IsMap(String(s)) /\ String(s) # Missing /\ String(s) # Conflict
<1>1. Missing.kind = "missing" /\ Conflict.kind = "conflict" /\ EmptyMap.kind = "map"
  BY DEF Missing, Conflict, EmptyMap, Map
<1>2. \A s : List(s).kind = "list" /\ String(s).kind = "string" /\ List(s).seq = s
  BY DEF List, String
<1>3. EmptyMap.at = <<>>
  BY DEF EmptyMap, Map
<1>4. \A k : Child(EmptyMap, k) = Missing
  <2>1. DOMAIN EmptyMap.at = {}
    BY <1>3
  <2>2. QED
    BY <2>1 DEF Child
<1>5. QED
  BY <1>1, <1>2, <1>4 DEF IsMap

\* The segments and paths as the proofs need them, whatever the keys are.
IsSegment(s) == s.isList \in BOOLEAN /\ s.listIdx \in Nat

IsPath(path) ==
  Len(path) \in Nat /\ DOMAIN path = 1..Len(path) /\ \A i \in 1..Len(path) : IsSegment(path[i])

\* A write reads back under its segment, and moves nothing under another key.
LEMMA PutIs ==
  ASSUME NEW v, NEW seg, IsSegment(seg), NEW x, Put(v, seg, x) # Conflict
  PROVE  /\ IsMap(v) /\ IsMap(Put(v, seg, x)) /\ x # Conflict
         /\ Step(Put(v, seg, x), seg) = x
         /\ \A s : s.key # seg.key => Step(Put(v, seg, x), s) = Step(v, s)
<1> DEFINE w == Put(v, seg, x)
<1>1. IsMap(v) /\ x # Conflict
  BY DEF Put
<1>2. seg.isList \in BOOLEAN /\ seg.listIdx \in Nat
  BY DEF IsSegment
<1>3. CASE ~seg.isList
  <2>1. w = With(v, seg.key, x)
    BY <1>1, <1>3 DEF Put
  <2>2. QED
    BY <1>1, <1>3, <2>1, WithIs, Kinds DEF Step
<1>4. CASE seg.isList
  <2> DEFINE old  == Child(v, seg.key)
             list == IF old = Missing THEN <<>> ELSE old.seq
             new  == List(PutItem(list, seg.listIdx, x))
  <2>1. w = With(v, seg.key, new) /\ (old = Missing \/ old.kind = "list")
    BY <1>1, <1>4 DEF Put
  <2>2. /\ seg.listIdx + 1 \in DOMAIN PutItem(list, seg.listIdx, x)
        /\ PutItem(list, seg.listIdx, x)[seg.listIdx + 1] = x
    BY <1>2 DEF PutItem
  <2>3. new.kind = "list" /\ new # Missing /\ new.seq = PutItem(list, seg.listIdx, x)
    BY Kinds DEF List
  <2> HIDE DEF new, list
  <2>4. IsMap(w) /\ Child(w, seg.key) = new /\ \A j : j # seg.key => Child(w, j) = Child(v, j)
    BY <2>1, WithIs
  <2>5. w # Missing /\ v # Missing
    BY <2>4, <1>1, Kinds
  <2> HIDE DEF w
  <2>6. Step(w, seg) = x
    BY <1>4, <2>2, <2>3, <2>4, <2>5 DEF Step
  <2>7. \A s : s.key # seg.key => Step(w, s) = Step(v, s)
    BY <1>1, <2>4, <2>5 DEF Step
  <2>8. QED
    BY <1>1, <2>4, <2>6, <2>7 DEF w
<1>5. QED
  BY <1>2, <1>3, <1>4

LEMMA PutMaps ==
  ASSUME NEW v, NEW seg, IsSegment(seg), NEW x, NEW z, z = Put(v, seg, x), z # Conflict
  PROVE  IsMap(v) /\ IsMap(z)
BY PutIs

LEMMA PutReads ==
  ASSUME NEW v, NEW seg, IsSegment(seg), NEW x, NEW z, z = Put(v, seg, x), z # Conflict
  PROVE  Step(z, seg) = x
BY PutIs

LEMMA PutKeeps ==
  ASSUME NEW v, NEW seg, IsSegment(seg), NEW x, NEW z, z = Put(v, seg, x), z # Conflict
  PROVE  \A s : s.key # seg.key => Step(z, s) = Step(v, s)
BY PutIs

-----------------------------------------------------------------------------
(* A path.                                                                 *)

LEMMA PathIs ==
  ASSUME NEW path, IsPath(path)
  PROVE  Len(path) \in Nat /\ \A i \in 1..Len(path) : IsSegment(path[i])
BY DEF IsPath

LEMMA PathsAre ==
  ASSUME NEW path \in Paths \ {<<>>}
  PROVE  IsPath(path) /\ Len(path) # 0
<1>1. path \in Seq(Segments) /\ Len(path) # 0 /\ Len(path) \in Nat /\ DOMAIN path = 1..Len(path)
  BY DEF Paths
<1>2. \A i \in 1..Len(path) : path[i] \in Segments
  BY <1>1
<1>3. \A s \in Segments : IsSegment(s)
  BY DEF Segments, IsSegment
<1>4. QED
  BY <1>1, <1>2, <1>3 DEF IsPath

\* What a write leaves at a place on its path.
After(m, path, x, i) == Built(m, path, x)[Len(path) - i]

LEMMA AfterIs ==
  ASSUME NEW m, NEW x, NEW path, IsPath(path), writeMap(m, path, x) # Conflict
  PROVE  /\ After(m, path, x, 0) = writeMap(m, path, x)
         /\ After(m, path, x, Len(path)) = x
         /\ \A i \in 1..Len(path) :
              /\ After(m, path, x, i - 1) =
                   Put(OrMade(Along(m, path)[i - 1]), path[i], After(m, path, x, i))
              /\ After(m, path, x, i - 1) # Conflict
<1> DEFINE L == Len(path)
           A(i) == After(m, path, x, i)
           B(j) == Built(m, path, x)[j]
<1>1. L \in Nat
  OBVIOUS
<1>2. B(0) = x /\ \A j \in 1..L : B(j) = Put(OrMade(Along(m, path)[L - j]), path[L - j + 1], B(j - 1))
  BY <1>1, BuiltIs
<1>3. \A i : A(i) = B(L - i)
  BY DEF After
<1> HIDE DEF A, B
<1>4. A(0) = B(L) /\ A(L) = B(0)
  <2>1. L - 0 = L /\ L - L = 0
    BY <1>1
  <2>2. QED
    BY <1>3, <2>1
<1>5. \A i \in 1..L : A(i - 1) = Put(OrMade(Along(m, path)[i - 1]), path[i], A(i))
  <2> TAKE i \in 1..L
  <2>1. /\ L - i + 1 \in 1..L /\ L - (i - 1) = L - i + 1
        /\ L - (L - i + 1) = i - 1 /\ (i - 1) + 1 = i /\ (L - i + 1) - 1 = L - i
    BY <1>1
  <2>2. B(L - i + 1) = Put(OrMade(Along(m, path)[L - (L - i + 1)]),
                           path[L - (L - i + 1) + 1], B((L - i + 1) - 1))
    BY <1>2, <2>1
  <2>3. B(L - i + 1) = Put(OrMade(Along(m, path)[i - 1]), path[i], B(L - i))
    BY <2>1, <2>2
  <2>4. A(i) = B(L - i) /\ A(i - 1) = B(L - i + 1)
    BY <1>3, <2>1
  <2>5. QED
    BY <2>3, <2>4
<1>6. A(0) # Conflict
  BY <1>4 DEF writeMap, B
<1>7. \A i \in 0..L : A(i) # Conflict
  <2> DEFINE Bad == {i \in 0..L : A(i) = Conflict}
  <2>1. ASSUME Bad # {}
        PROVE  FALSE
    <3>1. Bad \in SUBSET Nat
      BY <1>1
    <3>2. PICK i \in Bad : \A k \in Bad : i <= k
      BY <2>1, <3>1, Smallest
    <3>3. i \in 1..L /\ i - 1 \in 0..L
      BY <1>1, <1>6, <3>2
    <3>4. A(i) = Conflict
      BY <3>2
    <3>5. A(i - 1) = Conflict
      BY <1>5, <3>3, <3>4 DEF Put
    <3>6. i - 1 \in Bad
      BY <3>3, <3>5
    <3>7. QED
      BY <3>2, <3>3, <3>6
  <2>2. QED
    BY <2>1
<1>8. \A i \in 1..L : A(i - 1) # Conflict
  <2> TAKE i \in 1..L
  <2>1. i - 1 \in 0..L
    BY <1>1
  <2>2. QED
    BY <1>7, <2>1
<1>9. A(0) = writeMap(m, path, x) /\ A(L) = x
  BY <1>2, <1>4 DEF writeMap, B
<1>10. QED
  BY <1>5, <1>8, <1>9 DEF A

LEMMA AfterEnds ==
  ASSUME NEW m, NEW x, NEW path, IsPath(path), writeMap(m, path, x) # Conflict
  PROVE  After(m, path, x, 0) = writeMap(m, path, x) /\ After(m, path, x, Len(path)) = x
BY AfterIs

\* From place to place.
LEMMA AfterReads ==
  ASSUME NEW m, NEW x, NEW path, IsPath(path), writeMap(m, path, x) # Conflict,
         NEW i \in 1..Len(path)
  PROVE  /\ IsMap(OrMade(Along(m, path)[i - 1])) /\ IsMap(After(m, path, x, i - 1))
         /\ Step(After(m, path, x, i - 1), path[i]) = After(m, path, x, i)
         /\ \A s : s.key # path[i].key =>
              Step(After(m, path, x, i - 1), s) = Step(OrMade(Along(m, path)[i - 1]), s)
<1> DEFINE v == OrMade(Along(m, path)[i - 1])
           y == After(m, path, x, i)
           z == After(m, path, x, i - 1)
<1>1. z = Put(v, path[i], y) /\ z # Conflict
  BY AfterIs
<1>2. IsSegment(path[i])
  BY PathIs
<1> HIDE DEF v, y, z
<1>3. IsMap(v) /\ IsMap(z)
  BY <1>1, <1>2, PutMaps
<1>4. Step(z, path[i]) = y
  BY <1>1, <1>2, PutReads
<1>5. \A s : s.key # path[i].key => Step(z, s) = Step(v, s)
  BY <1>1, <1>2, PutKeeps
<1>6. QED
  BY <1>3, <1>4, <1>5 DEF v, y, z

\* A write into a map leaves a map.
LEMMA WriteIsMap ==
  ASSUME NEW m, NEW x, NEW path, IsPath(path), Len(path) # 0, writeMap(m, path, x) # Conflict
  PROVE  IsMap(writeMap(m, path, x))
<1>1. 1 \in 1..Len(path) /\ 1 - 1 = 0
  BY PathIs
<1>2. After(m, path, x, 0) = writeMap(m, path, x)
  BY AfterIs
<1>3. IsMap(After(m, path, x, 1 - 1))
  BY <1>1, AfterReads
<1>4. QED
  BY <1>1, <1>2, <1>3

\* What is read from one place on is read from what stands there.
LEMMA SameTail ==
  ASSUME NEW v, NEW w, NEW p, IsPath(p), NEW d \in 0..Len(p),
         Along(v, p)[d] = Along(w, p)[d]
  PROVE  Read(v, p) = Read(w, p)
<1> DEFINE Bad == {i \in d..Len(p) : Along(v, p)[i] # Along(w, p)[i]}
<1>0. Len(p) \in Nat
  OBVIOUS
<1>1. ASSUME Bad # {}
      PROVE  FALSE
  <2>1. Bad \in SUBSET Nat
    BY <1>0
  <2>2. PICK i \in Bad : \A k \in Bad : i <= k
    BY <1>1, <2>1, Smallest
  <2>3. i \in 1..Len(p) /\ i - 1 \in d..Len(p)
    BY <1>0, <2>2
  <2>4. Along(v, p)[i - 1] = Along(w, p)[i - 1]
    <3>1. i - 1 \notin Bad
      BY <2>2, <2>3
    <3>2. QED
      BY <3>1, <2>3
  <2>5. Along(v, p)[i] = Along(w, p)[i]
    BY <1>0, <2>3, <2>4, AlongIs
  <2>6. QED
    BY <2>2, <2>5
<1>2. Len(p) \in d..Len(p)
  BY <1>0
<1>3. QED
  BY <1>1, <1>2 DEF Read

\* Nothing leads on from where there is no map.
LEMMA Stuck ==
  ASSUME NEW v, NEW p, IsPath(p), NEW d \in 0..Len(p), ~IsMap(Along(v, p)[d]), d # Len(p)
  PROVE  /\ Along(v, p)[d] = Missing => Read(v, p) = Missing
         /\ Along(v, p)[d] # Missing => Read(v, p) = Conflict
<1> DEFINE c == IF Along(v, p)[d] = Missing THEN Missing ELSE Conflict
           Bad == {i \in (d + 1)..Len(p) : Along(v, p)[i] # c}
<1>0. Len(p) \in Nat
  OBVIOUS
<1>1. ASSUME Bad # {}
      PROVE  FALSE
  <2>1. Bad \in SUBSET Nat
    BY <1>0
  <2>2. PICK i \in Bad : \A k \in Bad : i <= k
    BY <1>1, <2>1, Smallest
  <2>3. i \in 1..Len(p) /\ i - 1 \in d..Len(p)
    BY <1>0, <2>2
  <2>4. i - 1 = d \/ Along(v, p)[i - 1] = c
    <3>1. i - 1 \notin Bad
      BY <2>2, <2>3
    <3>2. QED
      BY <1>0, <3>1, <2>3
  <2>5. Along(v, p)[i] = Step(Along(v, p)[i - 1], p[i])
    BY <1>0, <2>3, AlongIs
  <2>6. Along(v, p)[i] = c
    <3>1. CASE i - 1 = d
      BY <2>5, <3>1, Kinds DEF Step
    <3>2. CASE Along(v, p)[i - 1] = c
      BY <2>5, <3>2, Kinds DEF Step
    <3>3. QED
      BY <2>4, <3>1, <3>2
  <2>7. QED
    BY <2>2, <2>6
<1>2. Len(p) \in (d + 1)..Len(p)
  BY <1>0
<1>3. Along(v, p)[Len(p)] = c
  BY <1>1, <1>2
<1>4. QED
  BY <1>3 DEF Read

\* Two segments that lead to the same.
Alike(s, t) == s.key = t.key /\ ~s.isList /\ ~t.isList

\* As long as a path goes along with the one that is written, it meets what the
\* write met, and then what it left.
LEMMA Together ==
  ASSUME NEW m, NEW x, NEW path, IsPath(path), writeMap(m, path, x) # Conflict,
         NEW p, IsPath(p), NEW k \in 0..Len(p), k <= Len(path),
         \A i \in 1..k : Alike(p[i], path[i])
  PROVE  \A i \in 0..k : /\ Along(m, p)[i] = Along(m, path)[i]
                        /\ Along(writeMap(m, path, x), p)[i] = After(m, path, x, i)
<1> DEFINE w == writeMap(m, path, x)
           Bad == {i \in 0..k : ~(/\ Along(m, p)[i] = Along(m, path)[i]
                                 /\ Along(w, p)[i] = After(m, path, x, i))}
<1>0. Len(p) \in Nat /\ Len(path) \in Nat /\ k \in Nat
  OBVIOUS
<1>s. \A v, s, t : Alike(s, t) => Step(v, s) = Step(v, t)
  BY DEF Alike, Step
<1>1. ASSUME Bad # {}
      PROVE  FALSE
  <2>1. Bad \in SUBSET Nat
    BY <1>0
  <2>2. PICK i \in Bad : \A j \in Bad : i <= j
    BY <1>1, <2>1, Smallest
  <2>3. i # 0
    <3>1. Along(m, p)[0] = m /\ Along(m, path)[0] = m /\ Along(w, p)[0] = w
      BY <1>0, AlongIs
    <3>2. After(m, path, x, 0) = w
      BY AfterIs
    <3>3. QED
      BY <2>2, <3>1, <3>2
  <2>4. i \in 1..k /\ i - 1 \in 0..k /\ i \in 1..Len(p) /\ i \in 1..Len(path)
    BY <1>0, <2>2, <2>3
  <2>5. Along(m, p)[i - 1] = Along(m, path)[i - 1] /\ Along(w, p)[i - 1] = After(m, path, x, i - 1)
    <3>1. i - 1 \notin Bad
      BY <2>2, <2>4
    <3>2. QED
      BY <2>4, <3>1
  <2>6. Alike(p[i], path[i])
    BY <2>4
  <2>7. Along(m, p)[i] = Along(m, path)[i]
    BY <1>0, <1>s, <2>4, <2>5, <2>6, AlongIs
  <2>8. Along(w, p)[i] = After(m, path, x, i)
    <3>1. Along(w, p)[i] = Step(After(m, path, x, i - 1), p[i])
      BY <1>0, <2>4, <2>5, AlongIs
    <3>2. Step(After(m, path, x, i - 1), p[i]) = Step(After(m, path, x, i - 1), path[i])
      BY <1>s, <2>6
    <3>3. Step(After(m, path, x, i - 1), path[i]) = After(m, path, x, i)
      BY <2>4, AfterReads
    <3>4. QED
      BY <3>1, <3>2, <3>3
  <2>9. QED
    BY <2>2, <2>7, <2>8
<1>2. QED
  BY <1>1

LEMMA TogetherAt ==
  ASSUME NEW m, NEW x, NEW path, IsPath(path), writeMap(m, path, x) # Conflict,
         NEW p, IsPath(p), NEW k \in 0..Len(p), k <= Len(path),
         \A i \in 1..k : Alike(p[i], path[i])
  PROVE  /\ Along(m, p)[k] = Along(m, path)[k]
         /\ Along(writeMap(m, path, x), p)[k] = After(m, path, x, k)
<1>1. k \in 0..k
  BY PathIs
<1>2. QED
  BY <1>1, Together

LEMMA AlongAt ==
  ASSUME NEW v, NEW path, IsPath(path), NEW i \in 1..Len(path), NEW k, k = i - 1
  PROVE  Along(v, path)[i] = Step(Along(v, path)[k], path[i])
BY AlongIs, PathIs

\* A write is read back.
LEMMA ReadBack ==
  ASSUME NEW m, NEW x, NEW path, IsPath(path), writeMap(m, path, x) # Conflict
  PROVE  Read(writeMap(m, path, x), path) = x
<1> DEFINE w == writeMap(m, path, x)
           L == Len(path)
           Bad == {i \in 0..L : Along(w, path)[i] # After(m, path, x, i)}
<1>0. L \in Nat
  OBVIOUS
<1>1. ASSUME Bad # {}
      PROVE  FALSE
  <2>1. Bad \in SUBSET Nat
    BY <1>0
  <2>2. PICK i \in Bad : \A j \in Bad : i <= j
    BY <1>1, <2>1, Smallest
  <2>3. i # 0
    <3>1. Along(w, path)[0] = w
      BY <1>0, AlongIs
    <3>2. After(m, path, x, 0) = w
      BY AfterIs
    <3>3. QED
      BY <2>2, <3>1, <3>2
  <2>4. i \in 1..L /\ i - 1 \in 0..L
    BY <1>0, <2>2, <2>3
  <2>5. Along(w, path)[i - 1] = After(m, path, x, i - 1)
    <3>1. i - 1 \notin Bad
      BY <2>2, <2>4
    <3>2. QED
      BY <2>4, <3>1
  <2>6. Along(w, path)[i] = Step(After(m, path, x, i - 1), path[i])
    BY <1>0, <2>4, <2>5, AlongIs
  <2>7. Step(After(m, path, x, i - 1), path[i]) = After(m, path, x, i)
    BY <2>4, AfterReads
  <2>8. QED
    BY <2>2, <2>6, <2>7
<1>2. Along(w, path)[L] = After(m, path, x, L)
  BY <1>0, <1>1
<1>3. After(m, path, x, L) = x
  BY AfterEnds
<1>4. Read(w, path) = Along(w, path)[L]
  BY DEF Read
<1>5. QED
  BY <1>2, <1>3, <1>4

\* What was made on the way was nothing.
LEMMA MadeSteps ==
  ASSUME NEW v, NEW s
  PROVE  Step(OrMade(v), s) = Step(v, s)
<1>1. CASE v = Missing
  BY <1>1, Kinds DEF OrMade, Step
<1>2. CASE v # Missing
  BY <1>2 DEF OrMade
<1>3. QED
  BY <1>1, <1>2

\* A write moves nothing that parts from its path at a key.
LEMMA Frame ==
  ASSUME NEW m, NEW x, NEW path, IsPath(path), writeMap(m, path, x) # Conflict,
         NEW p, IsPath(p), NEW d \in 1..Len(p), d <= Len(path),
         p[d].key # path[d].key,
         \A i \in 1..(d - 1) : Alike(p[i], path[i])
  PROVE  Read(writeMap(m, path, x), p) = Read(m, p)
<1> DEFINE w == writeMap(m, path, x)
           a == Along(m, path)[d - 1]
<1> DEFINE k == d - 1
<1>0. k \in 0..Len(p) /\ k <= Len(path) /\ k = d - 1 /\ d \in 1..Len(path)
      /\ Len(p) \in Nat /\ d \in 0..Len(p)
  OBVIOUS
<1>1. Along(m, p)[k] = Along(m, path)[k] /\ Along(w, p)[k] = After(m, path, x, k)
  <2>1. \A i \in 1..k : Alike(p[i], path[i])
    OBVIOUS
  <2> HIDE DEF k
  <2>2. Along(m, p)[k] = Along(m, path)[k]
    BY <1>0, <2>1, TogetherAt
  <2>3. Along(writeMap(m, path, x), p)[k] = After(m, path, x, k)
    BY <1>0, <2>1, TogetherAt
  <2>4. QED
    BY <2>2, <2>3
<1>2. Along(m, p)[d - 1] = a /\ Along(w, p)[d - 1] = After(m, path, x, d - 1)
  BY <1>0, <1>1
<1>3. IsSegment(p[d])
  BY PathIs
<1>4. Step(After(m, path, x, d - 1), p[d]) = Step(OrMade(a), p[d])
  BY <1>0, <1>3, AfterReads
<1> HIDE DEF a, w
<1>5. Step(OrMade(a), p[d]) = Step(a, p[d])
  BY MadeSteps
<1>6. Along(w, p)[d] = Along(m, p)[d]
  BY <1>0, <1>2, <1>4, <1>5, AlongIs
<1>7. Read(w, p) = Read(m, p)
  BY <1>0, <1>6, SameTail
<1>8. QED
  BY <1>7 DEF w

\* A list that an item was put in.
Grown(r, old) ==
  \E list, idx, y :
    /\ r = List(PutItem(list, idx, y))
    /\ idx \in {0} \cup DOMAIN list
    /\ idx \in Nat
    /\ list = <<>> \/ (old.kind = "list" /\ list = old.seq)

LEMMA PutGrows ==
  ASSUME NEW v, NEW seg, IsSegment(seg), NEW x, NEW z, z = Put(v, seg, x), z # Conflict,
         seg.isList, NEW s, s.key = seg.key, ~s.isList
  PROVE  Grown(Step(z, s), Step(v, s))
<1> DEFINE old  == Child(v, seg.key)
           list == IF old = Missing THEN <<>> ELSE old.seq
           new  == List(PutItem(list, seg.listIdx, x))
<1>1. IsMap(v) /\ IsMap(z)
  BY PutMaps
<1>2. /\ z = With(v, seg.key, new) /\ (old = Missing \/ old.kind = "list")
      /\ seg.listIdx \in {0} \cup DOMAIN list
  BY <1>1 DEF Put
<1>3. Step(v, s) = old
  BY <1>1, Kinds DEF Step
<1>4. Step(z, s) = new
  <2>1. Child(z, seg.key) = new
    BY <1>2, WithIs
  <2>2. QED
    BY <1>1, <2>1, Kinds DEF Step
<1>5. list = <<>> \/ (old.kind = "list" /\ list = old.seq)
  BY <1>2
<1>6. seg.listIdx \in Nat
  BY DEF IsSegment
<1>7. new = List(PutItem(list, seg.listIdx, x))
  OBVIOUS
<1>8. QED
  BY <1>2, <1>3, <1>4, <1>5, <1>6, <1>7 DEF Grown

Becomes(r, old, x) ==
  r = old \/ r = Conflict \/ r = x \/ IsMap(r) \/ Grown(r, old)

\* What a write of no map does to what another path leads to.
LEMMA Touched ==
  ASSUME NEW m, NEW x, NEW path, IsPath(path), writeMap(m, path, x) # Conflict, Len(path) # 0,
         ~IsMap(x), x # Missing,
         NEW p, IsPath(p), \A i \in 1..Len(p) : ~p[i].isList
  PROVE  Becomes(Read(writeMap(m, path, x), p), Read(m, p), x)
<1> DEFINE w == writeMap(m, path, x)
           r == Read(w, p)
           D == {i \in 1..Len(p) : i <= Len(path) /\ ~Alike(p[i], path[i])}
<1> SUFFICES Becomes(r, Read(m, p), x)
  OBVIOUS
<1>0. Len(p) \in Nat /\ Len(path) \in Nat /\ \A i \in 1..Len(p) : IsSegment(p[i])
  BY PathIs
<1>1. CASE D = {}
  <2>1. CASE Len(p) <= Len(path)
    <3> DEFINE k == Len(p)
    <3>1. k \in 0..Len(p) /\ k \in 0..k /\ k <= Len(path) /\ \A i \in 1..k : Alike(p[i], path[i])
      BY <1>0, <1>1, <2>1
    <3> HIDE DEF k
    <3>2. Along(w, p)[k] = After(m, path, x, k)
      BY <3>1, Together
    <3>3. r = After(m, path, x, k)
      BY <3>2 DEF Read, k
    <3>4. CASE k = Len(path)
      BY <3>3, <3>4, AfterEnds DEF Becomes
    <3>5. CASE k # Len(path)
      <4>1. k + 1 \in 1..Len(path) /\ (k + 1) - 1 = k
        BY <1>0, <3>1, <3>5
      <4>2. IsMap(After(m, path, x, (k + 1) - 1))
        BY <4>1, AfterReads
      <4>3. QED
        BY <3>3, <4>1, <4>2 DEF Becomes
    <3>6. QED
      BY <3>4, <3>5
  <2>2. CASE Len(p) > Len(path)
    <3> DEFINE k == Len(path)
    <3>1. k \in 0..Len(p) /\ k \in 0..k /\ k <= Len(path) /\ \A i \in 1..k : Alike(p[i], path[i])
      BY <1>0, <1>1, <2>2
    <3>2. k # Len(p)
      BY <1>0, <2>2
    <3>3. After(m, path, x, k) = x
      BY AfterEnds
    <3> HIDE DEF k
    <3>4. Along(w, p)[k] = x
      BY <3>1, <3>3, Together
    <3>5. r = Conflict
      BY <3>1, <3>2, <3>4, Stuck
    <3>6. QED
      BY <3>5 DEF Becomes
  <2>3. QED
    BY <1>0, <2>1, <2>2
<1>2. CASE D # {}
  <2>1. D \in SUBSET Nat
    BY <1>0
  <2>2. PICK d \in D : \A j \in D : d <= j
    BY <1>2, <2>1, Smallest
  <2>3. d \in 1..Len(p) /\ d <= Len(path) /\ ~Alike(p[d], path[d]) /\ d \in 1..Len(path)
    BY <1>0, <2>2
  <2> DEFINE k == d - 1
  <2>4. k \in 0..Len(p) /\ k \in 0..k /\ k <= Len(path) /\ \A i \in 1..k : Alike(p[i], path[i])
    <3>1. \A i \in 1..k : i \in 1..Len(p) /\ i <= Len(path) /\ ~(d <= i)
      BY <1>0, <2>3
    <3>2. \A i \in 1..k : i \notin D
      BY <2>2, <3>1
    <3>3. \A i \in 1..k : Alike(p[i], path[i])
      BY <3>1, <3>2
    <3>4. QED
      BY <1>0, <2>3, <3>3
  <2>5. CASE p[d].key # path[d].key
    <3>1. r = Read(m, p)
      BY <2>3, <2>4, <2>5, Frame
    <3>2. QED
      BY <3>1 DEF Becomes
  <2>6. CASE p[d].key = path[d].key
    <3>1. path[d].isList /\ ~p[d].isList
      BY <1>0, <2>3, <2>6 DEF Alike
    <3>2. IsSegment(path[d])
      BY <2>3, PathIs
    <3> DEFINE a == Along(m, path)[d - 1]
    <3>3. Along(m, p)[k] = a /\ Along(w, p)[k] = After(m, path, x, k)
      <4>1. a = Along(m, path)[k]
        OBVIOUS
      <4> HIDE DEF k, a
      <4>2. QED
        BY <2>4, <4>1, Together
    <3>4. /\ After(m, path, x, d - 1) = Put(OrMade(a), path[d], After(m, path, x, d))
          /\ After(m, path, x, d - 1) # Conflict
      BY <2>3, AfterIs
    <3>5. Along(w, p)[d] = Step(After(m, path, x, d - 1), p[d]) /\ Along(m, p)[d] = Step(a, p[d])
      BY <1>0, <2>3, <3>3, AlongIs
    <3> DEFINE z == After(m, path, x, d - 1)
               y == After(m, path, x, d)
    <3> HIDE DEF a, w, z, y
    <3>6. Grown(Step(z, p[d]), Step(OrMade(a), p[d]))
      <4>1. z = Put(OrMade(a), path[d], y) /\ z # Conflict
        BY <3>4 DEF z, y
      <4>2. QED
        BY <2>6, <3>1, <3>2, <4>1, PutGrows
    <3>7. Step(OrMade(a), p[d]) = Step(a, p[d])
      BY MadeSteps
    <3>8. Grown(Along(w, p)[d], Along(m, p)[d])
      BY <3>5, <3>6, <3>7 DEF z
    <3>9. ~IsMap(Along(w, p)[d]) /\ Along(w, p)[d] # Missing
      BY <3>8, Kinds DEF Grown
    <3>10. CASE d = Len(p)
      BY <3>8, <3>10 DEF Read, Becomes
    <3>11. CASE d # Len(p)
      <4>1. d \in 0..Len(p)
        BY <1>0, <2>3
      <4>2. r = Conflict
        BY <3>9, <3>11, <4>1, Stuck
      <4>3. QED
        BY <4>2 DEF Becomes
    <3>12. QED
      BY <3>10, <3>11
  <2>7. QED
    BY <2>5, <2>6
<1>3. QED
  BY <1>1, <1>2

-----------------------------------------------------------------------------
(* Fields and --set paths.                                                 *)

IsField(p) == Len(p) \in Nat \ {0} /\ DOMAIN p = 1..Len(p)

LEMMA KeyPathIs ==
  ASSUME NEW p, IsField(p)
  PROVE  /\ IsPath(KeyPath(p)) /\ Len(KeyPath(p)) = Len(p)
         /\ Len(p) \in Nat \ {0}
         /\ \A i \in 1..Len(p) : KeyPath(p)[i] = Key(p[i])
         /\ \A i \in 1..Len(p) : KeyPath(p)[i].key = p[i] /\ ~KeyPath(p)[i].isList
<1>1. Len(p) \in Nat \ {0} /\ DOMAIN p = 1..Len(p)
  BY DEF IsField
<1>2. KeyPath(p) = [i \in 1..Len(p) |-> Key(p[i])]
  BY <1>1 DEF KeyPath
<1>3. DOMAIN KeyPath(p) = 1..Len(p) /\ \A i \in 1..Len(p) : KeyPath(p)[i] = Key(p[i])
  BY <1>2
<1>4. Len(KeyPath(p)) = Len(p)
  BY <1>1, <1>3
<1>5. \A k : Key(k).key = k /\ ~Key(k).isList /\ IsSegment(Key(k))
  BY DEF Key, IsSegment
<1>6. QED
  BY <1>1, <1>3, <1>4, <1>5 DEF IsPath

\* A write moves no field that parts from it before it goes into a list.
LEMMA BesideStays ==
  ASSUME NEW m, NEW x, NEW path, IsPath(path), writeMap(m, path, x) # Conflict,
         NEW p, IsField(p), Beside(p, path)
  PROVE  Get(writeMap(m, path, x), p) = Get(m, p)
<1> DEFINE q == KeyPath(p)
           D == {d \in 1..Len(p) : d <= Len(path) /\ p[d] # path[d].key}
<1>0. /\ IsPath(q) /\ Len(q) = Len(p) /\ Len(p) \in Nat /\ Len(path) \in Nat
      /\ DOMAIN p = 1..Len(p) /\ DOMAIN path = 1..Len(path)
      /\ \A i \in 1..Len(p) : q[i].key = p[i] /\ ~q[i].isList
  BY KeyPathIs DEF IsPath, IsField
<1>1. PICK b \in 1..Len(p) : /\ b <= Len(path) /\ p[b] # path[b].key
                          /\ \A j \in 1..(b - 1) : ~path[j].isList
  BY <1>0 DEF Beside
<1>2. b \in D /\ D \in SUBSET Nat
  BY <1>0, <1>1
<1>3. PICK d \in D : \A j \in D : d <= j
  BY <1>2, Smallest
<1>4. d \in 1..Len(q) /\ d <= Len(path) /\ q[d].key # path[d].key /\ d <= b
  BY <1>0, <1>2, <1>3
<1>5. \A i \in 1..(d - 1) : Alike(q[i], path[i])
  <2> TAKE i \in 1..(d - 1)
  <2>1. i \in 1..Len(p) /\ i <= Len(path) /\ ~(d <= i) /\ i \in 1..(b - 1)
    BY <1>0, <1>1, <1>4
  <2>2. i \notin D
    BY <1>3, <2>1
  <2>3. p[i] = path[i].key
    BY <2>1, <2>2
  <2>4. q[i].key = p[i] /\ ~q[i].isList /\ ~path[i].isList
    BY <1>0, <1>1, <2>1
  <2>5. QED
    BY <2>3, <2>4 DEF Alike
<1> HIDE DEF q, D
<1>6. Read(writeMap(m, path, x), q) = Read(m, q)
  BY <1>0, <1>4, <1>5, Frame
<1>7. QED
  BY <1>6 DEF Get, q

LEMMA FieldStays ==
  ASSUME NEW m, NEW x, NEW q, IsField(q), SetNested(m, q, x) # Conflict,
         NEW p, IsField(p), NEW d \in 1..Len(p), d <= Len(q), p[d] # q[d]
  PROVE  Get(SetNested(m, q, x), p) = Get(m, p)
<1>1. IsPath(KeyPath(q)) /\ Len(KeyPath(q)) = Len(q) /\ Len(q) \in Nat /\ Len(p) \in Nat
      /\ \A i \in 1..Len(q) : KeyPath(q)[i].key = q[i] /\ ~KeyPath(q)[i].isList
  BY KeyPathIs
<1>2. DOMAIN p = 1..Len(p) /\ DOMAIN KeyPath(q) = 1..Len(q)
  BY <1>1 DEF IsPath, IsField
<1>3. Beside(p, KeyPath(q))
  <2>1. d \in DOMAIN p \cap DOMAIN KeyPath(q) /\ p[d] # KeyPath(q)[d].key
    BY <1>1, <1>2
  <2>2. \A j \in 1..(d - 1) : ~KeyPath(q)[j].isList
    BY <1>1
  <2>3. QED
    BY <2>1, <2>2 DEF Beside
<1>4. QED
  BY <1>1, <1>3, BesideStays DEF SetNested

LEMMA FieldReadBack ==
  ASSUME NEW m, NEW x, NEW q, IsField(q), SetNested(m, q, x) # Conflict
  PROVE  Get(SetNested(m, q, x), q) = x /\ IsMap(SetNested(m, q, x))
<1>1. IsPath(KeyPath(q)) /\ Len(KeyPath(q)) # 0
  BY KeyPathIs
<1>2. QED
  BY <1>1, ReadBack, WriteIsMap DEF SetNested, Get

\* What stands at a --set path stays there when a field is written that parts from
\* it, for the write fails where the path goes into a list.
LEMMA PartStays ==
  ASSUME NEW m, NEW x, NEW q, IsField(q), SetNested(m, q, x) # Conflict,
         NEW path, IsPath(path), Part(q, KeysOf(path)), Read(m, path) \notin {Missing, Conflict}
  PROVE  Read(SetNested(m, q, x), path) = Read(m, path)
<1> DEFINE t == KeyPath(q)
           D == {d \in 1..Len(q) : d <= Len(path) /\ q[d] # path[d].key}
<1>0. /\ IsPath(t) /\ Len(t) = Len(q) /\ Len(q) \in Nat /\ Len(path) \in Nat
      /\ DOMAIN q = 1..Len(q) /\ DOMAIN path = 1..Len(path)
      /\ \A i \in 1..Len(q) : t[i].key = q[i] /\ ~t[i].isList
  BY KeyPathIs DEF IsPath, IsField
<1>1. PICK b \in 1..Len(q) : b <= Len(path) /\ q[b] # path[b].key
  <2>1. DOMAIN KeysOf(path) = 1..Len(path) /\ \A i \in 1..Len(path) : KeysOf(path)[i] = path[i].key
    BY <1>0 DEF KeysOf
  <2>2. PICK d \in DOMAIN q \cap DOMAIN KeysOf(path) : q[d] # KeysOf(path)[d]
    BY DEF Part
  <2>3. QED
    BY <1>0, <2>1, <2>2
<1>2. b \in D /\ D \in SUBSET Nat
  BY <1>0, <1>1
<1>3. PICK d \in D : \A j \in D : d <= j
  BY <1>2, Smallest
<1>4. d \in 1..Len(path) /\ d <= Len(t) /\ path[d].key # t[d].key
  BY <1>0, <1>3
<1>5. writeMap(m, t, x) # Conflict
  BY DEF SetNested
<1>6. \A i \in 1..(d - 1) : path[i].key = t[i].key /\ ~t[i].isList
  <2> TAKE i \in 1..(d - 1)
  <2>1. i \in 1..Len(q) /\ i <= Len(path) /\ ~(d <= i)
    BY <1>0, <1>4
  <2>2. i \notin D
    BY <1>3, <2>1
  <2>3. QED
    BY <1>0, <2>1, <2>2
<1>7. \A i \in 1..(d - 1) : ~path[i].isList
  <2> DEFINE L == {i \in 1..(d - 1) : path[i].isList}
  <2>1. ASSUME L # {}
        PROVE  FALSE
    <3>1. L \in SUBSET Nat
      BY <1>4, <1>0
    <3>2. PICK l \in L : \A j \in L : l <= j
      BY <2>1, <3>1, Smallest
    <3> DEFINE k == l - 1
    <3>3. /\ l \in 1..(d - 1) /\ path[l].isList
          /\ k \in 0..Len(path) /\ k <= Len(t) /\ k \in 0..k
          /\ l \in 1..Len(path) /\ l \in 1..Len(t) /\ l + 1 \in 1..Len(t)
      BY <1>0, <1>4, <3>2
    <3>4. \A i \in 1..k : Alike(path[i], t[i])
      <4> TAKE i \in 1..k
      <4>1. i \in 1..(d - 1) /\ ~(l <= i)
        BY <1>0, <1>4, <3>3
      <4>2. i \notin L
        BY <3>2, <4>1
      <4>3. QED
        BY <1>6, <4>1, <4>2 DEF Alike
    <3>5. Along(m, path)[k] = Along(m, t)[k]
      <4>1. IsPath(t) /\ k \in 0..Len(path) /\ k <= Len(t)
        BY <1>0, <3>3
      <4> HIDE DEF k, t, L, D
      <4>2. QED
        BY <1>5, <3>4, <4>1, TogetherAt
    <3> DEFINE a == Along(m, t)[k]
    <3>6. Along(m, path)[l] = Step(a, path[l]) /\ Along(m, t)[l] = Step(a, t[l])
      <4>1. IsPath(t) /\ l \in 1..Len(path) /\ l \in 1..Len(t) /\ k = l - 1
        BY <1>0, <3>3
      <4> HIDE DEF k, t, L, D
      <4>2. QED
        BY <3>5, <4>1, AlongAt
    <3>7. path[l].key = t[l].key /\ ~t[l].isList
      BY <1>6, <3>3
    <3>8. IsMap(OrMade(Along(m, t)[l]))
      <4>1. (l + 1) - 1 = l
        BY <3>3
      <4>2. IsMap(OrMade(Along(m, t)[(l + 1) - 1]))
        BY <1>0, <1>5, <3>3, AfterReads
      <4>3. QED
        BY <4>1, <4>2
    <3>9. Along(m, path)[l] \in {Missing, Conflict}
      <4> HIDE DEF a, t
      <4>1. Step(a, t[l]) = Missing \/ IsMap(Step(a, t[l]))
        BY <3>6, <3>8 DEF OrMade
      <4>2. CASE Step(a, t[l]) = Missing
        BY <3>3, <3>6, <3>7, <4>2, Kinds DEF Step
      <4>3. CASE IsMap(Step(a, t[l]))
        <5>1. IsMap(a) /\ a # Missing /\ Child(a, t[l].key) = Step(a, t[l])
          BY <3>7, <4>3, Kinds DEF Step
        <5>2. Child(a, path[l].key).kind # "list" /\ Child(a, path[l].key) # Missing
          BY <3>7, <4>3, <5>1, Kinds DEF IsMap
        <5>3. QED
          BY <3>3, <3>6, <5>1, <5>2 DEF Step
      <4>4. QED
        BY <4>1, <4>2, <4>3
    <3>10. l \in 0..Len(path) /\ l # Len(path)
      <4>1. l \in 1..(d - 1) /\ d \in 1..Len(path) /\ Len(path) \in Nat
        BY <1>0, <1>4, <3>3
      <4> HIDE DEF L, D
      <4>2. QED
        BY <4>1
    <3>11. Read(m, path) \in {Missing, Conflict}
      BY <3>9, <3>10, Stuck, Kinds
    <3>12. QED
      BY <3>11
  <2>2. QED
    BY <2>1
<1>8. \A i \in 1..(d - 1) : Alike(path[i], t[i])
  BY <1>6, <1>7 DEF Alike
<1> HIDE DEF t, D
<1>9. Read(writeMap(m, t, x), path) = Read(m, path)
  BY <1>0, <1>4, <1>5, <1>8, Frame
<1>10. QED
  BY <1>9 DEF SetNested, t

\* Where maps or nothing are on the way, a write succeeds.
LEMMA Writable ==
  ASSUME NEW m, NEW x, x # Conflict, NEW path, IsPath(path),
         \A i \in 1..Len(path) : ~path[i].isList,
         \A i \in 1..Len(path) : IsMap(OrMade(Along(m, path)[i - 1]))
  PROVE  writeMap(m, path, x) # Conflict
<1> DEFINE L == Len(path)
           B(j) == Built(m, path, x)[j]
           Bad == {j \in 0..L : B(j) = Conflict}
<1>0. L \in Nat
  BY PathIs
<1>1. B(0) = x /\ \A j \in 1..L : B(j) = Put(OrMade(Along(m, path)[L - j]), path[L - j + 1], B(j - 1))
  BY <1>0, BuiltIs
<1>2. ASSUME Bad # {}
      PROVE  FALSE
  <2>1. Bad \in SUBSET Nat
    BY <1>0
  <2>2. PICK j \in Bad : \A i \in Bad : j <= i
    BY <1>2, <2>1, Smallest
  <2>3. j # 0
    BY <1>1, <2>2
  <2> DEFINE i == L - j + 1
  <2>4. j \in 1..L /\ j - 1 \in 0..L /\ i \in 1..L /\ i - 1 = L - j
    BY <1>0, <2>2, <2>3
  <2>5. B(j - 1) # Conflict
    <3>1. j - 1 \notin Bad
      BY <2>2, <2>4
    <3>2. QED
      BY <2>4, <3>1
  <2> DEFINE v == OrMade(Along(m, path)[i - 1])
             y == B(j - 1)
  <2>6. B(j) = Put(v, path[i], y)
    BY <1>1, <2>4
  <2>7. ~path[i].isList /\ IsMap(v)
    BY <2>4
  <2>8. B(j) = Conflict
    BY <2>2
  <2> HIDE DEF v, y, i, B
  <2>9. Put(v, path[i], y) = With(v, path[i].key, y)
    BY <2>5, <2>7 DEF Put, y
  <2>10. Put(v, path[i], y) # Conflict
    BY <2>9, WithIs, Kinds
  <2>11. QED
    BY <2>6, <2>8, <2>10
<1>3. B(L) # Conflict
  BY <1>0, <1>2
<1>4. QED
  BY <1>3 DEF writeMap

LEMMA FieldWritable ==
  ASSUME NEW m, NEW x, x # Conflict, NEW q, IsField(q), Get(m, q) # Conflict
  PROVE  SetNested(m, q, x) # Conflict
<1> DEFINE t == KeyPath(q)
<1>1. IsPath(t) /\ Len(t) = Len(q) /\ Len(t) \in Nat /\ \A i \in 1..Len(t) : ~t[i].isList
  BY KeyPathIs
<1>2. Read(m, t) # Conflict
  BY DEF Get
<1> HIDE DEF t
<1>3. \A i \in 1..Len(t) : IsMap(OrMade(Along(m, t)[i - 1]))
  <2> TAKE i \in 1..Len(t)
  <2> DEFINE k == i - 1
  <2>1. k \in 0..Len(t) /\ k # Len(t)
    BY <1>1
  <2> HIDE DEF k
  <2>2. IsMap(Along(m, t)[k]) \/ Along(m, t)[k] = Missing
    BY <1>1, <1>2, <2>1, Stuck
  <2>3. IsMap(OrMade(Along(m, t)[k]))
    BY <2>2, Kinds DEF OrMade
  <2>4. QED
    BY <2>3 DEF k
<1>4. QED
  BY <1>1, <1>3, Writable DEF SetNested, t

LEMMA GetTwo ==
  ASSUME NEW v, NEW a, NEW b
  PROVE  Get(v, <<a, b>>) = Step(Step(v, Key(a)), Key(b))
<1> DEFINE p == <<a, b>>
           t == KeyPath(p)
<1>1. IsField(p) /\ Len(p) = 2 /\ p[1] = a /\ p[2] = b
  BY DEF IsField
<1>2. IsPath(t) /\ Len(t) = 2 /\ t[1] = Key(a) /\ t[2] = Key(b)
  <2>1. 1 \in 1..Len(p) /\ 2 \in 1..Len(p)
    BY <1>1
  <2> HIDE DEF p
  <2>2. QED
    BY <1>1, <2>1, KeyPathIs
<1> HIDE DEF t
<1>3. Along(v, t)[0] = v
  <2>1. Len(t) \in Nat
    BY <1>2
  <2>2. QED
    BY <2>1, AlongIs
<1>4. Along(v, t)[1] = Step(v, Key(a))
  <2>1. 1 \in 1..Len(t) /\ 0 = 1 - 1 /\ IsPath(t)
    BY <1>2
  <2>2. Along(v, t)[1] = Step(Along(v, t)[0], t[1])
    BY <2>1, AlongAt
  <2>3. QED
    BY <1>2, <1>3, <2>2
<1>5. Along(v, t)[2] = Step(Along(v, t)[1], Key(b))
  <2>1. 2 \in 1..Len(t) /\ 1 = 2 - 1 /\ IsPath(t)
    BY <1>2
  <2>2. Along(v, t)[2] = Step(Along(v, t)[1], t[2])
    BY <2>1, AlongAt
  <2>3. QED
    BY <1>2, <2>2
<1>6. QED
  BY <1>2, <1>4, <1>5 DEF Get, Read, t

LEMMA GetThree ==
  ASSUME NEW v, NEW a, NEW b, NEW c
  PROVE  Get(v, <<a, b, c>>) = Step(Step(Step(v, Key(a)), Key(b)), Key(c))
<1> DEFINE p == <<a, b, c>>
           t == KeyPath(p)
<1>1. IsField(p) /\ Len(p) = 3 /\ p[1] = a /\ p[2] = b /\ p[3] = c
  BY DEF IsField
<1>2. IsPath(t) /\ Len(t) = 3 /\ t[1] = Key(a) /\ t[2] = Key(b) /\ t[3] = Key(c)
  <2>1. 1 \in 1..Len(p) /\ 2 \in 1..Len(p) /\ 3 \in 1..Len(p)
    BY <1>1
  <2> HIDE DEF p
  <2>2. QED
    BY <1>1, <2>1, KeyPathIs
<1> HIDE DEF t
<1>3. Along(v, t)[0] = v
  <2>1. Len(t) \in Nat
    BY <1>2
  <2>2. QED
    BY <2>1, AlongIs
<1>4. Along(v, t)[1] = Step(v, Key(a))
  <2>1. 1 \in 1..Len(t) /\ 0 = 1 - 1 /\ IsPath(t)
    BY <1>2
  <2>2. Along(v, t)[1] = Step(Along(v, t)[0], t[1])
    BY <2>1, AlongAt
  <2>3. QED
    BY <1>2, <1>3, <2>2
<1>5. Along(v, t)[2] = Step(Along(v, t)[1], Key(b))
  <2>1. 2 \in 1..Len(t) /\ 1 = 2 - 1 /\ IsPath(t)
    BY <1>2
  <2>2. Along(v, t)[2] = Step(Along(v, t)[1], t[2])
    BY <2>1, AlongAt
  <2>3. QED
    BY <1>2, <1>3, <2>2
<1>6. Along(v, t)[3] = Step(Along(v, t)[2], Key(c))
  <2>1. 3 \in 1..Len(t) /\ 2 = 3 - 1 /\ IsPath(t)
    BY <1>2
  <2>2. Along(v, t)[3] = Step(Along(v, t)[2], t[3])
    BY <2>1, AlongAt
  <2>3. QED
    BY <1>2, <2>2
<1>7. QED
  BY <1>2, <1>4, <1>5, <1>6 DEF Get, Read, t

-----------------------------------------------------------------------------
(* The identity of an object.                                              *)

Meta(k) == <<"metadata", k>>

LEMMA MetaFields ==
  ASSUME NEW k
  PROVE  IsField(Meta(k)) /\ Len(Meta(k)) = 2 /\ Meta(k)[1] = "metadata" /\ Meta(k)[2] = k
BY DEF Meta, IsField

\* When metadata is no map no field of it can be written, or read.
LEMMA NoMetadata ==
  ASSUME NEW m, IsMap(m), NEW k, NEW x, x # Conflict,
         SetNested(m, Meta(k), x) = Conflict
  PROVE  \A j : Get(m, Meta(j)) = Conflict
<1> DEFINE c == Step(m, Key("metadata"))
           t == KeyPath(Meta(k))
<1>1. /\ IsPath(t) /\ Len(t) = 2 /\ t[1] = Key("metadata")
      /\ \A i \in 1..2 : ~t[i].isList
  <2>1. 1 \in 1..Len(Meta(k))
    BY MetaFields
  <2>2. QED
    BY <2>1, MetaFields, KeyPathIs
<1>2. writeMap(m, t, x) = Conflict
  BY DEF SetNested
<1> HIDE DEF t
<1>3. Along(m, t)[0] = m /\ Along(m, t)[1] = c
  <2>1. 1 \in 1..2 /\ 1 - 1 = 0 /\ Len(t) \in Nat
    BY <1>1
  <2>2. QED
    BY <1>1, <2>1, AlongIs
<1>4. ~IsMap(OrMade(c))
  <2>1. PICK i \in 1..2 : ~IsMap(OrMade(Along(m, t)[i - 1]))
    BY <1>1, <1>2, Writable
  <2>2. i = 1 \/ i = 2
    OBVIOUS
  <2>3. CASE i = 1
    BY <1>3, <2>1, <2>3, Kinds DEF OrMade
  <2>4. CASE i = 2
    <3>1. i - 1 = 1
      BY <2>4
    <3>2. QED
      BY <1>3, <2>1, <3>1
  <2>5. QED
    BY <2>2, <2>3, <2>4
<1>5. ~IsMap(c) /\ c # Missing
  BY <1>4, Kinds DEF OrMade
<1> HIDE DEF c
<1>6. \A s : Step(c, s) = Conflict
  BY <1>5 DEF Step
<1>7. QED
  BY <1>6, GetTwo DEF Meta, c

LEMMA ReassertIs ==
  ASSUME NEW o, IsMap(o), NEW k, NEW x, x # Conflict,
         NEW n, n = Reassert(o, Meta(k), x)
  PROVE  /\ IsMap(n)
         /\ \A p : IsField(p) /\ p[1] # "metadata" => Get(n, p) = Get(o, p)
         /\ \A j : j # k => Get(n, Meta(j)) = Get(o, Meta(j))
         /\ Get(n, Meta(k)) = x \/ \A j : Get(n, Meta(j)) = Conflict
         /\ \A path : IsPath(path) /\
              Part(Meta(k), KeysOf(path)) /\ Read(o, path) \notin {Missing, Conflict} =>
                Read(n, path) = Read(o, path)
<1> DEFINE w == SetNested(o, Meta(k), x)
<1>0. IsField(Meta(k)) /\ Len(Meta(k)) = 2 /\ Meta(k)[1] = "metadata" /\ Meta(k)[2] = k
  BY MetaFields
<1>1. CASE w = Conflict
  <2>1. n = o
    BY <1>1 DEF Reassert
  <2>2. \A j : Get(o, Meta(j)) = Conflict
    BY <1>1, NoMetadata
  <2>3. QED
    BY <2>1, <2>2
<1>2. CASE w # Conflict
  <2>1. n = w
    BY <1>2 DEF Reassert
  <2>2. IsMap(w) /\ Get(w, Meta(k)) = x
    BY <1>0, <1>2, FieldReadBack
  <2>3. \A p : IsField(p) /\ p[1] # "metadata" => Get(w, p) = Get(o, p)
    <3> TAKE p
    <3> HAVE IsField(p) /\ p[1] # "metadata"
    <3>1. 1 \in 1..Len(p) /\ 1 <= Len(Meta(k)) /\ p[1] # Meta(k)[1]
      BY <1>0, KeyPathIs
    <3>2. QED
      BY <1>0, <1>2, <3>1, FieldStays
  <2>4. \A j : j # k => Get(w, Meta(j)) = Get(o, Meta(j))
    <3> TAKE j
    <3> HAVE j # k
    <3>1. IsField(Meta(j)) /\ 2 \in 1..Len(Meta(j)) /\ 2 <= Len(Meta(k)) /\ Meta(j)[2] # Meta(k)[2]
      BY <1>0, MetaFields
    <3>2. QED
      BY <1>0, <1>2, <3>1, FieldStays
  <2>5. \A path : IsPath(path) /\
          Part(Meta(k), KeysOf(path)) /\ Read(o, path) \notin {Missing, Conflict} =>
            Read(w, path) = Read(o, path)
    BY <1>0, <1>2, PartStays
  <2> HIDE DEF w
  <2>6. QED
    BY <2>1, <2>2, <2>3, <2>4, <2>5
<1>3. QED
  BY <1>1, <1>2

-----------------------------------------------------------------------------
(* The config values.                                                      *)

LEMMA MergedIs ==
  ASSUME NEW old, NEW flags, Len(flags) \in Nat
  PROVE  /\ MergedInto(old, flags)[0] = IF old.kind = "list" THEN old.seq ELSE <<>>
         /\ \A j \in 1..Len(flags) :
              MergedInto(old, flags)[j] = MergeEntry(MergedInto(old, flags)[j - 1], Entry(flags[j]))
<1> DEFINE L == Len(flags)
           x == IF old.kind = "list" THEN old.seq ELSE <<>>
           P(j, y) == MergeEntry(y, Entry(flags[j]))
           IsMerged(n, f) == f = [j \in 0..n |-> IF j = 0 THEN x ELSE P(j, f[j - 1])]
           None == {n \in Nat : ~\E f : IsMerged(n, f)}
<1>0. MergedInto(old, flags) = CHOOSE w : IsMerged(L, w)
  BY DEF MergedInto
<1>a. \A j, y : P(j, y) = MergeEntry(y, Entry(flags[j]))
  OBVIOUS
<1> HIDE DEF P, x
<1>1. ASSUME None # {}
      PROVE  FALSE
  <2>1. PICK n \in None : \A k \in None : n <= k
    BY <1>1, Smallest
  <2>2. n # 0
    <3>1. IsMerged(0, [j \in 0..0 |-> x])
      OBVIOUS
    <3>2. QED
      BY <3>1
  <2>3. PICK f : IsMerged(n - 1, f)
    BY <2>1, <2>2
  <2> DEFINE g == [j \in 0..n |-> IF j = n THEN P(n, f[n - 1]) ELSE f[j]]
  <2>4. IsMerged(n, g)
    <3>1. n \in Nat /\ n - 1 \in Nat
      BY <2>1, <2>2
    <3>2. \A j \in 0..n : g[j] = IF j = 0 THEN x ELSE P(j, g[j - 1])
      BY <2>2, <2>3, <3>1
    <3>3. QED
      BY <3>2
  <2>5. QED
    BY <2>1, <2>4
<1>2. PICK f : IsMerged(L, f)
  BY <1>1
<1>3. IsMerged(L, MergedInto(old, flags))
  BY <1>0, <1>2
<1> HIDE DEF None
<1>4. /\ MergedInto(old, flags)[0] = x
      /\ \A j \in 1..L : MergedInto(old, flags)[j] = P(j, MergedInto(old, flags)[j - 1])
  BY <1>3
<1>5. QED
  BY <1>4, <1>a DEF x

IsSeq(l) == \E S : l \in Seq(S)

\* A list is a sequence.
IsSequence(v) == v.kind = "list" => IsSeq(v.seq)

LEMMA EntryIs ==
  ASSUME NEW c
  PROVE  /\ IsMap(Entry(c)) /\ KeyOf(Entry(c)) = String(c.key)
         /\ \A d : String(c.key) = String(d) => c.key = d
<1>1. Entry(c).kind = "map" /\ Entry(c).at = [key |-> String(c.key), value |-> String(c.value)]
  BY DEF Entry, Map
<1>2. \A d : String(d).val = d
  BY DEF String
<1>3. "key" \in DOMAIN Entry(c).at /\ Entry(c).at["key"] = String(c.key)
  BY <1>1
<1>4. QED
  BY <1>1, <1>2, <1>3 DEF IsMap, KeyOf, Child

\* An entry that is put in is there, and those of other keys still are.
LEMMA MergeEntryIs ==
  ASSUME NEW l, IsSeq(l), NEW c
  PROVE  /\ IsSeq(MergeEntry(l, Entry(c)))
         /\ \E k \in DOMAIN MergeEntry(l, Entry(c)) : MergeEntry(l, Entry(c))[k] = Entry(c)
         /\ \A k \in DOMAIN l : KeyOf(l[k]) # String(c.key) =>
              k \in DOMAIN MergeEntry(l, Entry(c)) /\ MergeEntry(l, Entry(c))[k] = l[k]
<1> DEFINE e == Entry(c)
           same == {i \in DOMAIN l : IsMap(l[i]) /\ KeyOf(l[i]) = KeyOf(e)}
           r == MergeEntry(l, e)
<1>1. PICK S : l \in Seq(S)
  BY DEF IsSeq
<1>2. KeyOf(e) = String(c.key)
  BY EntryIs
<1> HIDE DEF e
<1>3. Len(l) \in Nat /\ DOMAIN l = 1..Len(l)
  BY <1>1
<1>4. CASE same = {}
  <2>1. r = Append(l, e)
    BY <1>4 DEF MergeEntry
  <2>2. l \in Seq(S \cup {e})
    BY <1>1
  <2> HIDE DEF same, r
  <2>3. r \in Seq(S \cup {e}) /\ Len(r) = Len(l) + 1 /\ r[Len(l) + 1] = e
        /\ \A k \in 1..Len(l) : r[k] = l[k]
    BY <2>1, <2>2
  <2>4. DOMAIN r = 1..Len(r)
    BY <2>3
  <2>5. Len(l) + 1 \in DOMAIN r /\ \A k \in 1..Len(l) : k \in DOMAIN r
    BY <1>3, <2>3, <2>4
  <2>6. QED
    BY <1>3, <2>3, <2>5 DEF IsSeq, r, e
<1>5. CASE same # {}
  <2> DEFINE i == CHOOSE i \in same : \A j \in same : i <= j
  <2>1. same \in SUBSET Nat
    BY <1>3
  <2>2. \E k \in same : \A j \in same : k <= j
    BY <1>5, <2>1, Smallest
  <2>3. i \in same
    BY <2>2
  <2>4. r = [l EXCEPT ![i] = e]
    BY <1>5 DEF MergeEntry
  <2>5. i \in DOMAIN l /\ KeyOf(l[i]) = KeyOf(e)
    BY <2>3
  <2> HIDE DEF same, r, i
  <2>6. r \in Seq(S \cup {e})
    <3>1. l \in [1..Len(l) -> S \cup {e}]
      BY <1>1, <1>3
    <3>2. r \in [1..Len(l) -> S \cup {e}]
      BY <2>4, <3>1
    <3>3. QED
      BY <1>3, <3>2
  <2>7. DOMAIN r = DOMAIN l /\ r[i] = e /\ \A k \in DOMAIN l : k # i => r[k] = l[k]
    BY <2>4, <2>5
  <2>8. \A k \in DOMAIN l : KeyOf(l[k]) # String(c.key) => k # i
    BY <1>2, <2>5
  <2>9. QED
    BY <2>5, <2>6, <2>7, <2>8 DEF IsSeq, r, e
<1>6. QED
  BY <1>4, <1>5

LEMMA Largest ==
  ASSUME NEW n \in Nat, NEW T \in SUBSET (1..n), T # {}
  PROVE  \E x \in T : \A y \in T : y <= x
<1> DEFINE U == {n - x : x \in T}
<1>1. U \in SUBSET Nat /\ U # {}
  <2>1. \A x \in T : n - x \in Nat
    OBVIOUS
  <2>2. QED
    BY <2>1
<1> HIDE DEF U
<1>2. PICK u \in U : \A w \in U : u <= w
  BY <1>1, Smallest
<1>3. PICK x \in T : u = n - x
  BY DEF U
<1>4. \A y \in T : n - y \in U
  BY DEF U
<1>5. \A y \in T : n - x <= n - y
  BY <1>2, <1>3, <1>4
<1>6. QED
  BY <1>5

LEMMA LastIs ==
  ASSUME NEW flags, Len(flags) \in Nat, DOMAIN flags = 1..Len(flags), NEW i \in 1..Len(flags)
  PROVE  LET j == LastOf(flags, flags[i].key)
         IN  /\ j \in 1..Len(flags) /\ flags[j].key = flags[i].key
             /\ \A k \in 1..Len(flags) : flags[k].key = flags[i].key => k <= j
<1> DEFINE key == flags[i].key
           K == {j \in 1..Len(flags) : flags[j].key = key}
<1>1. K \in SUBSET (1..Len(flags)) /\ K # {}
  OBVIOUS
<1>2. PICK x \in K : \A y \in K : y <= x
  BY <1>1, Largest
<1>3. \E j \in DOMAIN flags :
        flags[j].key = key /\ \A k \in DOMAIN flags : flags[k].key = key => k <= j
  BY <1>2
<1> HIDE DEF key
<1>4. /\ LastOf(flags, key) \in DOMAIN flags /\ flags[LastOf(flags, key)].key = key
      /\ \A k \in DOMAIN flags : flags[k].key = key => k <= LastOf(flags, key)
  BY <1>3 DEF LastOf
<1>5. QED
  BY <1>4 DEF key

\* Every flag that no later one overrides is in the list.
LEMMA MergedHolds ==
  ASSUME NEW old, IsSequence(old), NEW flags, Len(flags) \in Nat
  PROVE  LET list == MergedInto(old, flags)[Len(flags)]
         IN  /\ IsSeq(list)
             /\ \A i \in 1..Len(flags) :
                  (\A j \in (i + 1)..Len(flags) : flags[j].key # flags[i].key) =>
                    \E k \in DOMAIN list : list[k] = Entry(flags[i])
<1> DEFINE L == Len(flags)
           M(n) == MergedInto(old, flags)[n]
           Unseen(i, n) == \A j \in (i + 1)..n : flags[j].key # flags[i].key
           Has(i, n) == \E k \in DOMAIN M(n) : M(n)[k] = Entry(flags[i])
           Holds(n) == IsSeq(M(n)) /\ \A i \in 1..n : Unseen(i, n) => Has(i, n)
           Bad == {n \in 0..L : ~Holds(n)}
<1>0. /\ M(0) = IF old.kind = "list" THEN old.seq ELSE <<>>
      /\ \A n \in 1..L : M(n) = MergeEntry(M(n - 1), Entry(flags[n]))
  BY MergedIs
<1>1. Holds(0)
  <2>1. IsSeq(<<>>)
    <3>1. <<>> \in Seq({})
      OBVIOUS
    <3>2. QED
      BY <3>1 DEF IsSeq
  <2>2. IsSeq(M(0))
    BY <1>0, <2>1 DEF IsSequence
  <2>3. QED
    BY <2>2
<1>2. ASSUME NEW n \in 1..L, Holds(n - 1)
      PROVE  Holds(n)
  <2> DEFINE l == M(n - 1)
             r == M(n)
  <2>1. r = MergeEntry(l, Entry(flags[n])) /\ IsSeq(l)
    BY <1>0, <1>2
  <2> HIDE DEF M
  <2>2. /\ IsSeq(r)
        /\ \E k \in DOMAIN r : r[k] = Entry(flags[n])
        /\ \A k \in DOMAIN l : KeyOf(l[k]) # String(flags[n].key) => k \in DOMAIN r /\ r[k] = l[k]
    <3> DEFINE c == flags[n]
    <3> HIDE DEF l, r, c
    <3>1. r = MergeEntry(l, Entry(c)) /\ IsSeq(l)
      BY <2>1 DEF c
    <3>2. IsSeq(r)
      BY <3>1, MergeEntryIs
    <3>3. \E k \in DOMAIN r : r[k] = Entry(c)
      BY <3>1, MergeEntryIs
    <3>4. \A k \in DOMAIN l : KeyOf(l[k]) # String(c.key) => k \in DOMAIN r /\ r[k] = l[k]
      BY <3>1, MergeEntryIs
    <3>5. QED
      BY <3>2, <3>3, <3>4 DEF c
  <2>3. ASSUME NEW i \in 1..n, Unseen(i, n), i # n
        PROVE  Has(i, n)
    <3>1. i \in 1..(n - 1) /\ n \in (i + 1)..n /\ \A j \in (i + 1)..(n - 1) : j \in (i + 1)..n
      BY <2>3
    <3>2. Unseen(i, n - 1) /\ flags[n].key # flags[i].key
      BY <2>3, <3>1
    <3>3. PICK k \in DOMAIN l : l[k] = Entry(flags[i])
      BY <1>2, <3>1, <3>2
    <3>4. KeyOf(l[k]) # String(flags[n].key)
      BY <3>2, <3>3, EntryIs
    <3>5. k \in DOMAIN r /\ r[k] = Entry(flags[i])
      BY <2>2, <3>3, <3>4
    <3>6. QED
      BY <3>5
  <2>4. Has(n, n)
    BY <2>2
  <2>5. QED
    BY <2>2, <2>3, <2>4
<1>3. ASSUME Bad # {}
      PROVE  FALSE
  <2>1. Bad \in SUBSET Nat
    OBVIOUS
  <2>2. PICK n \in Bad : \A k \in Bad : n <= k
    BY <1>3, <2>1, Smallest
  <2> HIDE DEF Holds
  <2>3. n \in 0..L /\ ~Holds(n)
    BY <2>2
  <2>4. n # 0
    BY <1>1, <2>3
  <2>5. n \in 1..L /\ n - 1 \in 0..L /\ n - 1 \notin Bad
    BY <2>2, <2>3, <2>4
  <2>6. Holds(n - 1)
    BY <2>5
  <2>7. QED
    BY <1>2, <2>3, <2>5, <2>6
<1>4. Holds(L)
  BY <1>3
<1>5. QED
  BY <1>4

LEMMA MergedSays ==
  ASSUME NEW old, IsSequence(old), NEW flags, Len(flags) \in Nat, DOMAIN flags = 1..Len(flags),
         NEW list, list = MergedInto(old, flags)[Len(flags)],
         Len(list) <= MaxConfigValues, ~Duplicates(list)
  PROVE  Says(list, flags)
<1> DEFINE Same(n, j) == IsMap(list[n]) /\ IsMap(list[j]) /\ KeyOf(list[n]) = KeyOf(list[j])
<1>1. /\ IsSeq(list)
      /\ \A i \in 1..Len(flags) :
           (\A j \in (i + 1)..Len(flags) : flags[j].key # flags[i].key) =>
             \E k \in DOMAIN list : list[k] = Entry(flags[i])
  BY MergedHolds
<1>2. Len(list) \in Nat /\ DOMAIN list = 1..Len(list)
  BY <1>1 DEF IsSeq
<1>3. \A n, j \in DOMAIN list : Same(n, j) => n = j
  <2>1. \A n, j \in DOMAIN list : Same(n, j) => ~(n < j)
    BY DEF Duplicates, Printed
  <2>2. \A n, j \in DOMAIN list : n < j \/ j < n \/ n = j
    BY <1>2
  <2>3. QED
    BY <2>1, <2>2
<1>4. ASSUME NEW i \in DOMAIN flags
      PROVE  Entries(list, flags[i].key) = {Entry(flags[LastOf(flags, flags[i].key)])}
  <2> DEFINE key == flags[i].key
             last == LastOf(flags, key)
             e == Entry(flags[last])
  <2>1. /\ last \in 1..Len(flags) /\ flags[last].key = key
        /\ \A k \in 1..Len(flags) : flags[k].key = key => k <= last
    BY LastIs
  <2>2. \A j \in (last + 1)..Len(flags) : flags[j].key # flags[last].key
    BY <2>1
  <2>3. PICK k \in DOMAIN list : list[k] = e
    BY <1>1, <2>1, <2>2
  <2>4. IsMap(e) /\ KeyOf(e) = String(key)
    BY <2>1, EntryIs
  <2> HIDE DEF key, last, e
  <2>5. \A n \in DOMAIN list : IsMap(list[n]) /\ KeyOf(list[n]) = String(key) => n = k
    BY <1>3, <2>3, <2>4
  <2>6. Entries(list, key) = {e}
    BY <2>3, <2>4, <2>5 DEF Entries
  <2>7. QED
    BY <2>6 DEF key, last, e
<1>5. \A i, j \in DOMAIN list :
        i # j /\ IsMap(list[i]) /\ IsMap(list[j]) => KeyOf(list[i]) # KeyOf(list[j])
  BY <1>3
<1>6. QED
  BY <1>4, <1>5 DEF Says

-----------------------------------------------------------------------------
(* What the checks rest on: a size, and a list that is one.                *)

Sound(o) == Get(o, storage) # Missing /\ IsSequence(Get(o, configValues))

Plain(x) == ~IsMap(x) /\ x # Missing /\ x # Conflict /\ IsSequence(x)

LEMMA SpecFields ==
  /\ IsField(storage) /\ IsField(configValues) /\ IsField(className) /\ IsField(cpuLimit)
  /\ IsField(image) /\ IsField(engine) /\ IsField(evmOnly) /\ IsField(isolation)
  /\ IsField(peers) /\ IsField(accounts) /\ IsField(nodeRef) /\ IsField(requirePhase)
  /\ IsField(migration) /\ IsField(backend) /\ IsField(overrides)
  /\ Len(overrides) \in {2, 3} /\ overrides[1] = "spec" /\ overrides[2] \in {"overrides", "genesis"}
  /\ Len(storage) = 6 /\ storage[1] = "spec" /\ storage[2] = "dataVolume"
  /\ Len(configValues) = 2 /\ configValues[1] = "spec" /\ configValues[2] = "configValues"
  /\ Len(cpuLimit) = 4 /\ cpuLimit[1] = "spec" /\ Len(className) = 4 /\ className[1] = "spec"
  /\ Len(engine) = 3 /\ engine[1] = "spec" /\ Len(evmOnly) = 3 /\ evmOnly[1] = "spec"
<1>1. /\ IsField(storage) /\ IsField(configValues) /\ IsField(className) /\ IsField(cpuLimit)
      /\ IsField(image) /\ IsField(engine) /\ IsField(evmOnly) /\ IsField(isolation)
  BY DEF IsField, storage, configValues, className, cpuLimit, image, engine, evmOnly, isolation
<1>2. /\ IsField(peers) /\ IsField(accounts) /\ IsField(nodeRef) /\ IsField(requirePhase)
      /\ IsField(migration) /\ IsField(backend)
  BY DEF IsField, peers, accounts, nodeRef, requirePhase, migration, backend
<1>3. /\ Len(overrides) \in {2, 3} /\ overrides[1] = "spec"
      /\ overrides[2] \in {"overrides", "genesis"} /\ IsField(overrides)
  <2>1. CASE Tree = "node"
    <3>1. overrides = <<"spec", "overrides">>
      BY <2>1 DEF overrides
    <3>2. QED
      BY <3>1 DEF IsField
  <2>2. CASE Tree # "node"
    <3>1. overrides = <<"spec", "genesis", "overrides">>
      BY <2>2 DEF overrides
    <3>2. QED
      BY <3>1 DEF IsField
  <2>3. QED
    BY <2>1, <2>2
<1>4. /\ Len(storage) = 6 /\ storage[1] = "spec" /\ storage[2] = "dataVolume"
      /\ Len(configValues) = 2 /\ configValues[1] = "spec" /\ configValues[2] = "configValues"
      /\ Len(cpuLimit) = 4 /\ cpuLimit[1] = "spec" /\ Len(className) = 4 /\ className[1] = "spec"
      /\ Len(engine) = 3 /\ engine[1] = "spec" /\ Len(evmOnly) = 3 /\ evmOnly[1] = "spec"
  BY DEF storage, configValues, className, cpuLimit, engine, evmOnly
<1>5. QED
  BY <1>1, <1>2, <1>3, <1>4

LEMMA GrownIs ==
  ASSUME NEW r, NEW old, Grown(r, old), IsSequence(old)
  PROVE  IsSequence(r) /\ r # Missing
<1>1. PICK list, idx, y :
        /\ r = List(PutItem(list, idx, y))
        /\ idx \in {0} \cup DOMAIN list
        /\ idx \in Nat
        /\ list = <<>> \/ (old.kind = "list" /\ list = old.seq)
  BY DEF Grown
<1>2. PICK S : list \in Seq(S)
  <2>1. CASE list = <<>>
    <3>1. list \in Seq({})
      BY <2>1
    <3>2. QED
      BY <3>1
  <2>2. CASE list # <<>>
    BY <1>1, <2>2 DEF IsSequence, IsSeq
  <2>3. QED
    BY <2>1, <2>2
<1> DEFINE new == PutItem(list, idx, y)
           L == Len(list)
           n == IF idx = L THEN L + 1 ELSE L
<1>d. DOMAIN list = 1..L /\ L \in Nat
  BY <1>2
<1> HIDE DEF L
<1>3. /\ n \in Nat /\ DOMAIN list \cup {idx + 1} = 1..n
      /\ \A i \in 1..n : i = idx + 1 \/ i \in DOMAIN list
  <2>1. idx \in 0..L
    BY <1>1, <1>d
  <2>2. CASE idx = L
    BY <1>d, <2>2
  <2>3. CASE idx # L
    <3>1. idx + 1 \in 1..L /\ n = L
      BY <1>d, <2>1, <2>3
    <3>2. DOMAIN list \cup {idx + 1} = DOMAIN list
      BY <1>d, <3>1
    <3>3. QED
      BY <1>d, <3>1, <3>2
  <2>4. QED
    BY <2>2, <2>3
<1>4. \A i \in DOMAIN list : list[i] \in S
  BY <1>2
<1>5. new \in [1..n -> S \cup {y}]
  BY <1>3, <1>4 DEF PutItem
<1> HIDE DEF new, n
<1>6. new \in Seq(S \cup {y})
  BY <1>3, <1>5
<1>7. QED
  BY <1>1, <1>6, Kinds DEF IsSequence, IsSeq, new

\* No write of a flag or a --set takes the size away.
LEMMA WriteSound ==
  ASSUME NEW o, Sound(o), NEW x, Plain(x), NEW path, IsPath(path), Len(path) # 0,
         NEW w, w = writeMap(o, path, x), w # Conflict
  PROVE  Sound(w)
<1>1. \A p : IsField(p) => Becomes(Get(w, p), Get(o, p), x)
  <2> TAKE p
  <2> HAVE IsField(p)
  <2> DEFINE t == KeyPath(p)
  <2>1. IsPath(t) /\ \A i \in 1..Len(t) : ~t[i].isList
    BY KeyPathIs
  <2>2. ~IsMap(x) /\ x # Missing
    BY DEF Plain
  <2> HIDE DEF t
  <2>3. Becomes(Read(writeMap(o, path, x), t), Read(o, t), x)
    BY <2>1, <2>2, Touched
  <2>4. QED
    BY <2>3 DEF Get, t
<1>2. \A v : IsMap(v) => IsSequence(v)
  BY DEF IsMap, IsSequence
<1>3. IsSequence(Conflict)
  <2>1. Conflict.kind # "list"
    BY DEF Conflict
  <2>2. QED
    BY <2>1 DEF IsSequence
<1>4. IsSequence(Get(w, configValues))
  <2> DEFINE r == Get(w, configValues)
             old == Get(o, configValues)
  <2>1. Becomes(r, old, x)
    BY <1>1, SpecFields
  <2>2. IsSequence(old) /\ IsSequence(x)
    BY DEF Sound, Plain
  <2> HIDE DEF r, old
  <2>3. Grown(r, old) => IsSequence(r)
    BY <2>2, GrownIs
  <2>4. IsSequence(r)
    BY <1>2, <1>3, <2>1, <2>2, <2>3 DEF Becomes
  <2>5. QED
    BY <2>4 DEF r
<1>5. Get(w, storage) # Missing
  <2> DEFINE r == Get(w, storage)
             old == Get(o, storage)
  <2>1. Becomes(r, old, x)
    BY <1>1, SpecFields
  <2>2. old # Missing /\ x # Missing
    BY DEF Sound, Plain
  <2> HIDE DEF r, old
  <2>3. Grown(r, old) => r # Missing
    BY Kinds DEF Grown
  <2>4. r # Missing
    BY <2>1, <2>2, <2>3, Kinds DEF Becomes
  <2>5. QED
    BY <2>4 DEF r
<1>6. QED
  BY <1>4, <1>5 DEF Sound

LEMMA SetFlagsIs ==
  ASSUME NEW o, NEW flags, Len(flags) \in Nat
  PROVE  /\ SetFlags(o, flags)[0] = o
         /\ \A j \in 1..Len(flags) :
              SetFlags(o, flags)[j] =
                IF flags[j].set THEN SetNested(SetFlags(o, flags)[j - 1], flags[j].path, flags[j].val)
                ELSE SetFlags(o, flags)[j - 1]
<1> DEFINE L == Len(flags)
           P(j, y) == IF flags[j].set THEN SetNested(y, flags[j].path, flags[j].val) ELSE y
           IsDone(n, f) == f = [j \in 0..n |-> IF j = 0 THEN o ELSE P(j, f[j - 1])]
           None == {n \in Nat : ~\E f : IsDone(n, f)}
<1>0. SetFlags(o, flags) = CHOOSE w : IsDone(L, w)
  BY DEF SetFlags
<1>a. \A j, y : P(j, y) = IF flags[j].set THEN SetNested(y, flags[j].path, flags[j].val) ELSE y
  OBVIOUS
<1> HIDE DEF P
<1>1. ASSUME None # {}
      PROVE  FALSE
  <2>1. PICK n \in None : \A k \in None : n <= k
    BY <1>1, Smallest
  <2>2. n # 0
    <3>1. IsDone(0, [j \in 0..0 |-> o])
      OBVIOUS
    <3>2. QED
      BY <3>1
  <2>3. PICK f : IsDone(n - 1, f)
    BY <2>1, <2>2
  <2> DEFINE g == [j \in 0..n |-> IF j = n THEN P(n, f[n - 1]) ELSE f[j]]
  <2>4. IsDone(n, g)
    <3>1. n \in Nat /\ n - 1 \in Nat
      BY <2>1, <2>2
    <3>2. \A j \in 0..n : g[j] = IF j = 0 THEN o ELSE P(j, g[j - 1])
      BY <2>2, <2>3, <3>1
    <3>3. QED
      BY <3>2
  <2>5. QED
    BY <2>1, <2>4
<1>2. PICK f : IsDone(L, f)
  BY <1>1
<1>3. IsDone(L, SetFlags(o, flags))
  BY <1>0, <1>2
<1> HIDE DEF None
<1>4. /\ SetFlags(o, flags)[0] = o
      /\ \A j \in 1..L : SetFlags(o, flags)[j] = P(j, SetFlags(o, flags)[j - 1])
  BY <1>3
<1>5. QED
  BY <1>4, <1>a

IsFlag(f) == IsField(f.path) /\ Plain(f.val) /\ f.set \in BOOLEAN

LEMMA PlainValues ==
  /\ \A s : Plain(String(s)) /\ Plain(Bool(s))
  /\ \A m : Plain(List(<<m>>))
<1>1. \A s : String(s).kind = "string" /\ Bool(s).kind = "bool" /\ List(s).kind = "list"
             /\ List(s).seq = s
  BY DEF String, Bool, List
<1>2. Missing.kind = "missing" /\ Conflict.kind = "conflict"
  BY DEF Missing, Conflict
<1>3. \A m : IsSeq(<<m>>)
  <2> TAKE m
  <2>1. <<m>> \in Seq({m})
    OBVIOUS
  <2>2. QED
    BY <2>1 DEF IsSeq
<1>4. QED
  BY <1>1, <1>2, <1>3 DEF Plain, IsMap, IsSequence

LEMMA FlagsAre ==
  ASSUME NEW a, a.tree # "workflow" => {a.evmOnly, a.account} \subseteq BOOLEAN
  PROVE  Len(Flags(a)) \in Nat /\ \A i \in 1..Len(Flags(a)) : IsFlag(Flags(a)[i])
<1>1. ASSUME NEW path, IsField(path), NEW v
      PROVE  IsFlag(Flag(path, v))
  BY <1>1, PlainValues DEF IsFlag, Flag
<1>2. ASSUME NEW path, IsField(path), NEW v, Plain(v), NEW b \in BOOLEAN
      PROVE  IsFlag(Given(path, b, v))
  BY <1>2 DEF IsFlag, Given
<1>3. ASSUME NEW S, \A f \in S : IsFlag(f), NEW s \in Seq(S)
      PROVE  Len(s) \in Nat /\ \A i \in 1..Len(s) : IsFlag(s[i])
  BY <1>3
<1>4. CASE a.tree = "workflow"
  <2> DEFINE f1 == Flag(nodeRef, a.target)
             f2 == Flag(requirePhase, a.requirePhase)
             f3 == Flag(migration, a.migration)
             f4 == Flag(backend, a.backend)
  <2>1. Flags(a) = <<f1, f2, f3, f4>>
    BY <1>4 DEF Flags
  <2>2. IsFlag(f1) /\ IsFlag(f2) /\ IsFlag(f3) /\ IsFlag(f4)
    BY <1>1, SpecFields
  <2> HIDE DEF f1, f2, f3, f4
  <2> DEFINE S == {f1, f2, f3, f4}
  <2>3. <<f1, f2, f3, f4>> \in Seq(S) /\ \A f \in S : IsFlag(f)
    BY <2>2
  <2> HIDE DEF S
  <2>4. QED
    BY <1>3, <2>1, <2>3
<1>5. CASE a.tree # "workflow"
  <2> DEFINE f1 == Flag(image, a.image)
             f2 == Flag(storage, a.storage)
             f3 == Flag(className, Resolved(a))
             f4 == Flag(isolation, Canonical(Isolations, a.nodeIsolation))
             f5 == Flag(engine, Canonical(Engines, a.consensusEngine))
             f6 == Given(evmOnly, a.evmOnly, Bool("true"))
             f7 == Given(peers, a.network # "", List(<<Map([network |-> String(a.network)])>>))
             f8 == Given(accounts, a.account, List(<<Map([address |-> String("flag")])>>))
             f  == IF a.tree = "node" THEN f7 ELSE f8
  <2>1. Flags(a) = <<f1, f2, f3, f4, f5, f6>> \o <<f>>
    BY <1>5 DEF Flags
  <2>2. /\ IsFlag(f1) /\ IsFlag(f2) /\ IsFlag(f3) /\ IsFlag(f4) /\ IsFlag(f5)
        /\ IsFlag(f6) /\ IsFlag(f7) /\ IsFlag(f8)
    <3>1. IsFlag(f1) /\ IsFlag(f2) /\ IsFlag(f3) /\ IsFlag(f4) /\ IsFlag(f5)
      BY <1>1, SpecFields
    <3>2. IsFlag(f6)
      BY <1>2, <1>5, SpecFields, PlainValues
    <3>3. IsFlag(f7)
      <4>1. (a.network # "") \in BOOLEAN
        OBVIOUS
      <4>2. QED
        BY <1>2, <4>1, SpecFields, PlainValues
    <3>4. IsFlag(f8)
      BY <1>2, <1>5, SpecFields, PlainValues
    <3>5. QED
      BY <3>1, <3>2, <3>3, <3>4
  <2>3. IsFlag(f)
    BY <2>2
  <2> HIDE DEF f1, f2, f3, f4, f5, f6, f7, f8, f
  <2> DEFINE S == {f1, f2, f3, f4, f5, f6, f}
  <2>4. /\ <<f1, f2, f3, f4, f5, f6>> \in Seq(S) /\ <<f>> \in Seq(S)
        /\ \A g \in S : IsFlag(g)
    BY <2>2, <2>3
  <2> HIDE DEF S
  <2>5. Flags(a) \in Seq(S)
    BY <2>1, <2>4
  <2>6. QED
    BY <1>3, <2>4, <2>5
<1>6. QED
  BY <1>4, <1>5

\* The flags leave a map, and what the checks rest on.
LEMMA FlagsSound ==
  ASSUME NEW o, IsMap(o), NEW flags, Len(flags) \in Nat, \A i \in 1..Len(flags) : IsFlag(flags[i]),
         NEW w, w = SetFlags(o, flags)[Len(flags)], w # Conflict
  PROVE  IsMap(w) /\ (Sound(o) => Sound(w))
<1> DEFINE L == Len(flags)
           F(n) == SetFlags(o, flags)[n]
           Holds(n) == F(n) # Conflict => IsMap(F(n)) /\ (Sound(o) => Sound(F(n)))
           Bad == {n \in 0..L : ~Holds(n)}
<1>0. /\ F(0) = o
      /\ \A j \in 1..L :
           F(j) = IF flags[j].set THEN SetNested(F(j - 1), flags[j].path, flags[j].val) ELSE F(j - 1)
  BY SetFlagsIs
<1>1. Holds(0)
  BY <1>0
<1>2. ASSUME NEW n \in 1..L, Holds(n - 1)
      PROVE  Holds(n)
  <2> DEFINE v == F(n - 1)
             w1 == F(n)
             path == KeyPath(flags[n].path)
             x == flags[n].val
  <2>1. IsPath(path) /\ Len(path) # 0 /\ Plain(x) /\ flags[n].set \in BOOLEAN
    <3>1. IsFlag(flags[n])
      OBVIOUS
    <3>2. QED
      BY <3>1, KeyPathIs DEF IsFlag
  <2>2. w1 = IF flags[n].set THEN writeMap(v, path, x) ELSE v
    BY <1>0 DEF SetNested
  <2>3. v # Conflict => IsMap(v) /\ (Sound(o) => Sound(v))
    BY <1>2
  <2> HIDE DEF v, w1, path, x, F
  <2>4. CASE ~flags[n].set
    BY <2>2, <2>3, <2>4 DEF v, w1
  <2>5. CASE flags[n].set
    <3>1. ASSUME w1 # Conflict
          PROVE  IsMap(w1) /\ (Sound(o) => Sound(w1))
      <4>1. w1 = writeMap(v, path, x)
        BY <2>2, <2>5
      <4>2. v # Conflict
        <5>1. 1 \in 1..Len(path) /\ 1 - 1 = 0 /\ Len(path) \in Nat
          BY <2>1, PathIs
        <5>2. IsMap(OrMade(Along(v, path)[1 - 1]))
          BY <2>1, <3>1, <4>1, <5>1, AfterReads
        <5>3. Along(v, path)[0] = v
          BY <5>1, AlongIs
        <5>4. QED
          BY <5>1, <5>2, <5>3, Kinds DEF OrMade
      <4>3. IsMap(w1)
        BY <2>1, <3>1, <4>1, WriteIsMap
      <4>4. Sound(v) => Sound(w1)
        BY <2>1, <3>1, <4>1, WriteSound
      <4>5. QED
        BY <2>3, <4>2, <4>3, <4>4
    <3>2. QED
      BY <3>1 DEF w1
  <2>6. QED
    BY <2>1, <2>4, <2>5
<1>3. ASSUME Bad # {}
      PROVE  FALSE
  <2>1. Bad \in SUBSET Nat
    OBVIOUS
  <2>2. PICK n \in Bad : \A k \in Bad : n <= k
    BY <1>3, <2>1, Smallest
  <2> HIDE DEF Holds
  <2>3. n \in 0..L /\ ~Holds(n)
    BY <2>2
  <2>4. n # 0
    BY <1>1, <2>3
  <2>5. n \in 1..L /\ n - 1 \in 0..L /\ n - 1 \notin Bad
    BY <2>2, <2>3, <2>4
  <2>6. Holds(n - 1)
    BY <2>5
  <2>7. QED
    BY <1>2, <2>3, <2>5, <2>6
<1>4. Holds(L)
  BY <1>3
<1>5. QED
  BY <1>4

-----------------------------------------------------------------------------
(* The order of the layers.                                                *)

LEMMA Lengths ==
  Len(Layers("node")) = 14 /\ Len(Layers("network")) = 12 /\ Len(Layers("workflow")) = 7
BY DEF Layers

LEMMA NodeOrder ==
  ASSUME NEW s \in 1..14, NEW l, Layers("node")[s] = l
  PROVE  /\ l = "namespace" => s = 1
         /\ l = "check"     => s = 2
         /\ l = "flags"     => s = 3
         /\ l = "set"       => s = 4
         /\ l = "override"  => s = 5
         /\ l = "config"    => s = 6
         /\ l = "cpu"       => s = 7
         /\ l = "storage"   => s = 8
         /\ l = "consensus" => s = 9
         /\ l = "peers"     => s = 10
         /\ l = "identity"  => s = 11
         /\ l = "labels"    => s = 12
         /\ l = "annotations" => s = 13
         /\ l = "required"  => s = 14
<1>1. Layers("node") =
        <<"namespace", "check", "flags", "set", "override", "config",
          "cpu", "storage", "consensus", "peers", "identity", "labels", "annotations",
          "required">>
  BY DEF Layers
<1>2. QED
  BY <1>1

LEMMA NetworkOrder ==
  ASSUME NEW s \in 1..12, NEW l, Layers("network")[s] = l
  PROVE  /\ l = "namespace" => s = 1
         /\ l = "check"     => s = 2
         /\ l = "flags"     => s = 3
         /\ l = "set"       => s = 4
         /\ l = "override"  => s = 5
         /\ l = "config"    => s = 6
         /\ l = "cpu"       => s = 7
         /\ l = "storage"   => s = 8
         /\ l = "consensus" => s = 9
         /\ l = "identity"  => s = 10
         /\ l = "annotations" => s = 11
         /\ l = "required"  => s = 12
         /\ l \notin {"peers", "labels"}
<1>1. Layers("network") =
        <<"namespace", "check", "flags", "set", "override",
          "config", "cpu", "storage", "consensus", "identity", "annotations", "required">>
  BY DEF Layers
<1>2. QED
  BY <1>1

LEMMA WorkflowOrder ==
  ASSUME NEW s \in 1..7, NEW l, Layers("workflow")[s] = l
  PROVE  /\ l = "namespace" => s = 1
         /\ l = "check"     => s = 2
         /\ l = "flags"     => s = 3
         /\ l = "set"       => s = 4
         /\ l = "identity"  => s = 5
         /\ l = "annotations" => s = 6
         /\ l = "required"  => s = 7
         /\ l \notin {"override", "config", "cpu", "storage", "consensus", "peers", "labels"}
<1>1. Layers("workflow") =
        <<"namespace", "check", "flags", "set", "identity", "annotations", "required">>
  BY DEF Layers
<1>2. QED
  BY <1>1

IdentityAt == IF Tree = "node" THEN 11 ELSE IF Tree = "network" THEN 10 ELSE 5
AnnotationsAt == IF Tree = "node" THEN 13 ELSE IF Tree = "network" THEN 11 ELSE 6

LEMMA TreeIs ==
  ASSUME Tree \in Trees
  PROVE  /\ Tree = "node" => Layers(Tree) = Layers("node") /\ Len(Layers(Tree)) = 14
         /\ Tree = "network" => Layers(Tree) = Layers("network") /\ Len(Layers(Tree)) = 12
         /\ Tree = "workflow" => Layers(Tree) = Layers("workflow") /\ Len(Layers(Tree)) = 7
         /\ Tree = "node" \/ Tree = "network" \/ Tree = "workflow"
<1>1. Len(Layers("node")) = 14 /\ Len(Layers("network")) = 12 /\ Len(Layers("workflow")) = 7
  BY Lengths
<1>2. Tree = "node" \/ Tree = "network" \/ Tree = "workflow"
  BY DEF Trees
<1>3. Tree = "node" => Layers(Tree) = Layers("node")
  OBVIOUS
<1>4. Tree = "network" => Layers(Tree) = Layers("network")
  OBVIOUS
<1>5. Tree = "workflow" => Layers(Tree) = Layers("workflow")
  OBVIOUS
<1> QED
  BY <1>1, <1>2, <1>3, <1>4, <1>5

LEMMA Places ==
  ASSUME Tree \in Trees, step \in 1..(Len(Layers(Tree)) + 1), NEW l, At(l)
  PROVE  /\ step \in 1..Len(Layers(Tree)) /\ step + 1 \in 1..(Len(Layers(Tree)) + 1)
         /\ exit = "none"
         /\ l = "namespace" => step = 1
         /\ l = "check"     => step = 2
         /\ l = "flags"     => step = 3
         /\ l = "set"       => step = 4
         /\ l = "override"  => step = 5 /\ Tree # "workflow"
         /\ l = "config"    => step = 6 /\ Tree # "workflow"
         /\ l = "cpu"       => step = 7 /\ Tree # "workflow"
         /\ l = "storage"   => step = 8 /\ Tree # "workflow"
         /\ l = "consensus" => step = 9 /\ Tree # "workflow"
         /\ l = "peers"     => step = 10 /\ Tree = "node"
         /\ l = "identity"  => step = IdentityAt
         /\ l = "labels"    => step = 12 /\ Tree = "node"
         /\ l = "annotations" => step = AnnotationsAt
         /\ l = "required"  => step = Len(Layers(Tree))
<1>1. step <= Len(Layers(Tree)) /\ Layers(Tree)[step] = l /\ exit = "none"
  BY DEF At
<1>2. CASE Tree = "node"
  <2>1. Layers(Tree) = Layers("node") /\ Len(Layers(Tree)) = 14
    BY <1>2, TreeIs
  <2>2. step \in 1..14 /\ Layers("node")[step] = l
    BY <1>1, <2>1
  <2>3. step + 1 \in 1..15
    BY <2>2
  <2> DEFINE S == step
  <2>4. S \in 1..14 /\ Layers("node")[S] = l /\ S = step
    BY <2>2
  <2> HIDE DEF S
  <2>5. /\ l = "namespace" => S = 1
        /\ l = "check"     => S = 2
        /\ l = "flags"     => S = 3
        /\ l = "set"       => S = 4
        /\ l = "override"  => S = 5
        /\ l = "config"    => S = 6
        /\ l = "cpu"       => S = 7
        /\ l = "storage"   => S = 8
        /\ l = "consensus" => S = 9
        /\ l = "peers"     => S = 10
        /\ l = "identity"  => S = 11
        /\ l = "labels"    => S = 12
        /\ l = "annotations" => S = 13
        /\ l = "required"  => S = 14
    BY <2>4, NodeOrder
  <2>6. IdentityAt = 11 /\ AnnotationsAt = 13
    BY <1>2 DEF IdentityAt, AnnotationsAt
  <2>7. step \in 1..Len(Layers(Tree)) /\ step + 1 \in 1..(Len(Layers(Tree)) + 1)
    BY <2>1, <2>2, <2>3
  <2>8. Tree # "workflow" /\ Len(Layers(Tree)) = 14
    BY <1>2, <2>1, <2>5
  <2>9. /\ l = "namespace" => step = 1
        /\ l = "check"     => step = 2
        /\ l = "flags"     => step = 3
        /\ l = "set"       => step = 4
        /\ l = "override"  => step = 5
        /\ l = "config"    => step = 6
        /\ l = "cpu"       => step = 7
    BY <2>4, <2>5, Zenon
  <2>10. /\ l = "storage"   => step = 8
         /\ l = "consensus" => step = 9
         /\ l = "peers"     => step = 10
         /\ l = "identity"  => step = IdentityAt
         /\ l = "labels"    => step = 12
         /\ l = "annotations" => step = AnnotationsAt
         /\ l = "required"  => step = Len(Layers(Tree))
    BY <2>4, <2>5, <2>6, <2>8, Zenon
  <2>11. QED
    BY <1>1, <1>2, <2>7, <2>8, <2>9, <2>10, Zenon
<1>3. CASE Tree = "network"
  <2>1. Layers(Tree) = Layers("network") /\ Len(Layers(Tree)) = 12
    BY <1>3, TreeIs
  <2>2. step \in 1..12 /\ Layers("network")[step] = l
    BY <1>1, <2>1
  <2>3. step + 1 \in 1..13
    BY <2>2
  <2> DEFINE S == step
  <2>4. S \in 1..12 /\ Layers("network")[S] = l /\ S = step
    BY <2>2
  <2> HIDE DEF S
  <2>5. /\ l = "namespace" => S = 1
        /\ l = "check"     => S = 2
        /\ l = "flags"     => S = 3
        /\ l = "set"       => S = 4
        /\ l = "override"  => S = 5
        /\ l = "config"    => S = 6
        /\ l = "cpu"       => S = 7
        /\ l = "storage"   => S = 8
        /\ l = "consensus" => S = 9
        /\ l = "identity"  => S = 10
        /\ l = "annotations" => S = 11
        /\ l = "required"  => S = 12
        /\ l \notin {"peers", "labels"}
    BY <2>4, NetworkOrder
  <2>6. IdentityAt = 10 /\ AnnotationsAt = 11
    BY <1>3 DEF IdentityAt, AnnotationsAt
  <2>7. step \in 1..Len(Layers(Tree)) /\ step + 1 \in 1..(Len(Layers(Tree)) + 1)
    BY <2>1, <2>2, <2>3
  <2>8. Tree # "workflow" /\ Len(Layers(Tree)) = 12 /\ l # "peers" /\ l # "labels"
    BY <1>3, <2>1, <2>5
  <2>9. /\ l = "namespace" => step = 1
        /\ l = "check"     => step = 2
        /\ l = "flags"     => step = 3
        /\ l = "set"       => step = 4
        /\ l = "override"  => step = 5
        /\ l = "config"    => step = 6
        /\ l = "cpu"       => step = 7
    BY <2>4, <2>5, Zenon
  <2>10. /\ l = "storage"   => step = 8
         /\ l = "consensus" => step = 9
         /\ l = "identity"  => step = IdentityAt
         /\ l = "annotations" => step = AnnotationsAt
         /\ l = "required"  => step = Len(Layers(Tree))
    BY <2>4, <2>5, <2>6, <2>8, Zenon
  <2>11. QED
    BY <1>1, <1>3, <2>7, <2>8, <2>9, <2>10, Zenon
<1>4. CASE Tree = "workflow"
  <2>1. Layers(Tree) = Layers("workflow") /\ Len(Layers(Tree)) = 7
    BY <1>4, TreeIs
  <2>2. step \in 1..7 /\ Layers("workflow")[step] = l
    BY <1>1, <2>1
  <2>3. step + 1 \in 1..8
    BY <2>2
  <2> DEFINE S == step
  <2>4. S \in 1..7 /\ Layers("workflow")[S] = l /\ S = step
    BY <2>2
  <2> HIDE DEF S
  <2>5. /\ l = "namespace" => S = 1
        /\ l = "check"     => S = 2
        /\ l = "flags"     => S = 3
        /\ l = "set"       => S = 4
        /\ l = "identity"  => S = 5
        /\ l = "annotations" => S = 6
        /\ l = "required"  => S = 7
        /\ l \notin {"override", "config", "cpu", "storage", "consensus", "peers", "labels"}
    BY <2>4, WorkflowOrder
  <2>6. IdentityAt = 5 /\ AnnotationsAt = 6
    BY <1>4 DEF IdentityAt, AnnotationsAt
  <2>7. step \in 1..Len(Layers(Tree)) /\ step + 1 \in 1..(Len(Layers(Tree)) + 1)
    BY <2>1, <2>2, <2>3
  <2>8. /\ Len(Layers(Tree)) = 7 /\ l # "override" /\ l # "config" /\ l # "cpu"
        /\ l # "storage" /\ l # "consensus" /\ l # "peers" /\ l # "labels"
    BY <1>4, <2>1, <2>5
  <2>9. QED
    BY <1>1, <1>4, <2>4, <2>5, <2>6, <2>7, <2>8, Zenon
<1>5. QED
  BY <1>2, <1>3, <1>4, TreeIs

-----------------------------------------------------------------------------
(* The inductive invariant: what every layer leaves to those after it.     *)

Placed ==
  /\ args \in ArgSets
  /\ step \in 1..(Len(Layers(Tree)) + 1)
  /\ IsMap(obj)
  /\ exit = "accepted" => step = Len(Layers(Tree)) + 1

\* A size stands in the object whatever was written, and the list of config values
\* is one; the second only until the config values are merged.
Sized ==
  Tree # "workflow" =>
    Get(obj, storage) # Missing /\ (step <= 6 => IsSequence(Get(obj, configValues)))

NoLimit(o) == Get(o, cpuLimit) = Missing

Carried(o) ==
  Get(o, className) # Missing =>
    /\ Get(o, className) \in {String(c) : c \in ClassNames}
    /\ IsQuantity(Get(o, storage))
    /\ Quantities[Get(o, storage).val] > 19 * Unit

UnderAutobahn(o) == Get(o, evmOnly) = Bool("true") => Get(o, engine) = String("Autobahn")

\* A check holds from its layer on.
Checked ==
  Tree # "workflow" =>
    /\ step > 7 => NoLimit(obj)
    /\ step > 8 => Carried(obj)
    /\ step > 9 => UnderAutobahn(obj)

Labelled(o) ==
  Get(o, metaName) # Conflict =>
    /\ Get(o, Append(metaLabels, "role")) = String("node")
    /\ args.network # "" => Get(o, Append(metaLabels, "network")) = String(args.network)

\* The identity holds from its layer on, the labels from theirs.
Identified ==
  /\ step > 1 => Namespace # ""
  /\ step > IdentityAt =>
       /\ Get(obj, metaName) \in {String(Name), Conflict}
       /\ Get(obj, metaNamespace) \in {String(Namespace), Conflict}
  /\ Tree = "node" /\ step > 12 => Labelled(obj)

Configured == configs # <<>> => step > 6 /\ Says(Get(obj, configValues).seq, configs)

\* The last --set stands, where no later layer writes.
Clear(path) == \A p \in Later : Part(p, KeysOf(path))

Stands ==
  /\ sets \in Seq(SetExprs[Tree])
  /\ sets # <<>> =>
       step >= 4 /\ (Clear(Last(sets).path) => Read(obj, Last(sets).path) = Last(sets).val)

IInv == Placed /\ Sized /\ Checked /\ Identified /\ Configured /\ Stands

LEMMA InitIInv == Init => IInv
<1> SUFFICES ASSUME Init PROVE IInv
  OBVIOUS
<1>1. /\ args \in ArgSets /\ step = 1 /\ obj = Preset(Tree) /\ sets = <<>> /\ configs = <<>>
      /\ exit = "none" /\ Tree \in Trees
  BY ArgsAssumption DEF Init, Tree
<1>2. Len(Layers(Tree)) \in Nat
  <2>1. Tree = "node" \/ Tree = "network" \/ Tree = "workflow"
    BY <1>1 DEF Trees
  <2>2. QED
    BY <2>1, Lengths
<1>3. /\ IsMap(obj)
      /\ Tree # "workflow" =>
           Get(obj, storage) # Missing /\ IsSequence(Get(obj, configValues))
  <2>1. CASE Tree = "workflow"
    BY <1>1, <2>1 DEF Preset, IsMap, Map
  <2>2. CASE Tree # "workflow"
    <3> DEFINE x == String("500Gi")
    <3>1. obj = SetNested(EmptyMap, storage, x)
      BY <1>1, <2>2 DEF Preset
    <3>2. x # Conflict /\ x # Missing
      BY Kinds
    <3> HIDE DEF x
    <3>3. ASSUME NEW p, IsField(p), Len(p) > 1
          PROVE  Get(EmptyMap, p) = Missing
      <4> DEFINE t == KeyPath(p)
      <4>1. IsPath(t) /\ Len(t) = Len(p) /\ 1 \in 1..Len(t) /\ 1 \in 0..Len(t) /\ 1 # Len(t)
            /\ Len(t) \in Nat /\ 0 = 1 - 1 /\ ~t[1].isList
        <5>1. 1 \in 1..Len(p)
          BY <3>3, KeyPathIs
        <5>2. QED
          BY <3>3, <5>1, KeyPathIs
      <4> HIDE DEF t
      <4>2. Along(EmptyMap, t)[1] = Step(Along(EmptyMap, t)[0], t[1])
        BY <4>1, AlongAt
      <4>3. Along(EmptyMap, t)[0] = EmptyMap
        BY <4>1, AlongIs
      <4>4. Along(EmptyMap, t)[1] = Missing
        BY <4>1, <4>2, <4>3, Kinds DEF Step
      <4>5. Read(EmptyMap, t) = Missing
        BY <4>1, <4>4, Stuck, Kinds
      <4>6. QED
        BY <4>5 DEF Get, t
    <3>4. Get(EmptyMap, storage) # Conflict /\ Get(EmptyMap, configValues) = Missing
      <4>1. IsField(storage) /\ Len(storage) > 1 /\ IsField(configValues) /\ Len(configValues) > 1
        BY SpecFields
      <4>2. Get(EmptyMap, storage) = Missing
        BY <3>3, <4>1
      <4>3. Get(EmptyMap, configValues) = Missing
        BY <3>3, <4>1
      <4>4. QED
        BY <4>2, <4>3, Kinds
    <3>5. obj # Conflict
      BY <3>1, <3>2, <3>4, SpecFields, FieldWritable
    <3>6. IsMap(obj) /\ Get(obj, storage) = x
      BY <3>1, <3>5, SpecFields, FieldReadBack
    <3>7. Get(obj, configValues) = Missing
      <4>1. 2 \in 1..Len(configValues) /\ 2 <= Len(storage) /\ configValues[2] # storage[2]
        BY SpecFields
      <4>2. QED
        BY <3>1, <3>4, <3>5, <4>1, SpecFields, FieldStays
    <3>8. IsSequence(Missing)
      BY DEF IsSequence, Missing
    <3>9. QED
      BY <3>2, <3>6, <3>7, <3>8
  <2>3. QED
    BY <2>1, <2>2
<1>4. Placed /\ Sized
  BY <1>1, <1>2, <1>3 DEF Placed, Sized
<1>5. IdentityAt > 1
  BY DEF IdentityAt
<1>6. Checked /\ Identified /\ Configured
  <2>1. ~(step > 7) /\ ~(step > 8) /\ ~(step > 9) /\ ~(step > 1) /\ ~(step > IdentityAt) /\ ~(step > 12)
    BY <1>1, <1>5 DEF IdentityAt
  <2>2. Checked
    BY <2>1 DEF Checked
  <2>3. Identified
    BY <2>1 DEF Identified
  <2>4. Configured
    BY <1>1 DEF Configured
  <2>5. QED
    BY <2>2, <2>3, <2>4
<1>7. Stands
  BY <1>1 DEF Stands
<1>8. QED
  BY <1>4, <1>6, <1>7 DEF IInv

-----------------------------------------------------------------------------
(* What a step leaves.                                                     *)

LEMMA ScalarsAre ==
  ASSUME NEW x \in Scalars
  PROVE  Plain(x) /\ x \notin {Missing, Conflict}
<1>1. x.kind \in {"string", "int", "bool"}
  BY DEF Scalars
<1>2. Missing.kind = "missing" /\ Conflict.kind = "conflict"
  BY DEF Missing, Conflict
<1>3. QED
  BY <1>1, <1>2 DEF Plain, IsMap, IsSequence

LEMMA ExprsAre ==
  ASSUME Tree \in Trees, NEW e \in SetExprs[Tree]
  PROVE  /\ IsPath(e.path) /\ Len(e.path) # 0
         /\ Plain(e.val) /\ e.val \notin {Missing, Conflict}
<1>1. e.path \in Paths \ {<<>>} /\ e.val \in Scalars
  BY SetExprsAssumption
<1>2. QED
  BY <1>1, PathsAre, ScalarsAre

LEMMA TreeStays ==
  ASSUME args \in ArgSets, UNCHANGED args
  PROVE  /\ Tree \in Trees /\ Tree' = Tree /\ IdentityAt' = IdentityAt /\ Namespace' = Namespace
         /\ Len(Layers(Tree)) \in Nat
<1>1. Tree \in Trees
  BY ArgsAssumption DEF Tree
<1>2. Tree' = Tree
  BY DEF Tree
<1>3. Len(Layers(Tree)) \in Nat
  <2>1. CASE Tree = "node"
    BY <1>1, <2>1, TreeIs
  <2>2. CASE Tree = "network"
    BY <1>1, <2>2, TreeIs
  <2>3. CASE Tree = "workflow"
    BY <1>1, <2>3, TreeIs
  <2>4. QED
    BY <1>1, <2>1, <2>2, <2>3, TreeIs
<1>4. IdentityAt' = IdentityAt
  BY <1>2 DEF IdentityAt
<1>5. Namespace' = Namespace
  BY DEF Namespace
<1>6. QED
  BY <1>1, <1>2, <1>3, <1>4, <1>5

LEMMA LastSet ==
  ASSUME Placed, Stands, sets # <<>>
  PROVE  /\ IsPath(Last(sets).path)
         /\ Clear(Last(sets).path) => Read(obj, Last(sets).path) \notin {Missing, Conflict}
<1>1. Tree \in Trees
  BY ArgsAssumption DEF Placed, Tree
<1>2. Last(sets) \in SetExprs[Tree]
  BY DEF Stands, Last
<1>3. IsPath(Last(sets).path) /\ Last(sets).val \notin {Missing, Conflict}
  BY <1>1, <1>2, ExprsAre
<1>4. QED
  BY <1>3 DEF Stands

\* A layer that lets the last --set stand.
LEMMA Onward ==
  ASSUME Placed, Stands, step \in 1..Len(Layers(Tree)), exit = "none", NEW n, Pass(n), IsMap(n),
         UNCHANGED sets,
         sets # <<>> /\ Clear(Last(sets).path) =>
           Read(n, Last(sets).path) = Read(obj, Last(sets).path)
  PROVE  Placed' /\ Stands'
<1>1. /\ args' = args /\ obj' = n /\ step' = step + 1 /\ exit' = "none" /\ args \in ArgSets
  BY DEF Pass, Placed
<1>2. Tree' = Tree /\ Len(Layers(Tree)) \in Nat
  BY <1>1, TreeStays
<1>3. Placed'
  BY <1>1, <1>2 DEF Placed
<1>4. (Clear(Last(sets).path))' <=> Clear(Last(sets).path)
  <2>1. Later' = Later
    BY <1>2 DEF Later, overrides
  <2>2. QED
    BY <2>1 DEF Clear
<1>5. step >= 4 => step' >= 4
  BY <1>1
<1>6. Stands'
  BY <1>1, <1>2, <1>4, <1>5 DEF Stands
<1>7. QED
  BY <1>3, <1>6

\* What a check that is passed has seen.
Seen ==
  /\ step = 1 => Namespace # ""
  /\ Tree # "workflow" =>
       /\ step = 7 => NoLimit(obj)
       /\ step = 8 => Carried(obj)
       /\ step = 9 => UnderAutobahn(obj)

\* Neither the identity nor the labels are written.
Apart == step # IdentityAt /\ ~(Tree = "node" /\ step = 12)

\* A layer that writes no field of the spec.
LEMMA SpecStays ==
  ASSUME IInv, step \in 1..Len(Layers(Tree)), NEW n, Pass(n), UNCHANGED configs,
         \A p : IsField(p) /\ p[1] = "spec" => Get(n, p) = Get(obj, p), Seen
  PROVE  Sized' /\ Checked' /\ Configured'
<1>1. /\ args' = args /\ obj' = n /\ step' = step + 1 /\ args \in ArgSets
  BY DEF Pass, IInv, Placed
<1>2. Tree' = Tree /\ step \in Nat /\ Tree \in Trees /\ Len(Layers(Tree)) \in Nat
  BY <1>1, TreeStays DEF IInv, Placed
<1>3. /\ Get(n, storage) = Get(obj, storage) /\ Get(n, configValues) = Get(obj, configValues)
      /\ Get(n, className) = Get(obj, className) /\ Get(n, cpuLimit) = Get(obj, cpuLimit)
      /\ Get(n, evmOnly) = Get(obj, evmOnly) /\ Get(n, engine) = Get(obj, engine)
  <2>1. /\ storage[1] = "spec" /\ configValues[1] = "spec" /\ className[1] = "spec"
        /\ cpuLimit[1] = "spec" /\ evmOnly[1] = "spec" /\ engine[1] = "spec"
        /\ IsField(storage) /\ IsField(configValues) /\ IsField(className) /\ IsField(cpuLimit)
        /\ IsField(evmOnly) /\ IsField(engine)
    BY SpecFields
  <2>2. QED
    BY <2>1
<1>4. /\ step' <= 6 => step <= 6
      /\ step' > 7 => step > 7 \/ step = 7
      /\ step' > 8 => step > 8 \/ step = 8
      /\ step' > 9 => step > 9 \/ step = 9
      /\ step > 6 => step' > 6
  BY <1>1, <1>2
<1>5. Sized'
  BY <1>1, <1>2, <1>3, <1>4 DEF IInv, Sized
<1>6. /\ NoLimit(n) <=> NoLimit(obj)
      /\ UnderAutobahn(n) <=> UnderAutobahn(obj)
      /\ Carried(n) <=> Carried(obj)
  BY <1>3 DEF NoLimit, UnderAutobahn, Carried
<1>7. Checked'
  BY <1>1, <1>2, <1>4, <1>6 DEF IInv, Checked, Seen
<1>8. Configured'
  BY <1>1, <1>2, <1>3, <1>4 DEF IInv, Configured
<1>9. QED
  BY <1>5, <1>7, <1>8

\* A layer that leaves the object alone.
LEMMA Looking ==
  ASSUME IInv, step \in 1..Len(Layers(Tree)), exit = "none", Pass(obj), UNCHANGED <<sets, configs>>,
         Seen, Apart
  PROVE  IInv'
<1>1. /\ args' = args /\ obj' = obj /\ step' = step + 1 /\ args \in ArgSets /\ IsMap(obj)
      /\ sets' = sets /\ configs' = configs
  BY DEF Pass, IInv, Placed
<1>2. Placed' /\ Stands'
  BY <1>1, Onward DEF IInv
<1>3. Sized' /\ Checked' /\ Configured'
  BY <1>1, SpecStays
<1>4. Tree' = Tree /\ IdentityAt' = IdentityAt /\ Namespace' = Namespace
  BY <1>1, TreeStays
<1>5. /\ step' > 1 => step > 1 \/ step = 1
      /\ step' > IdentityAt => step > IdentityAt \/ step = IdentityAt
      /\ step' > 12 => step > 12 \/ step = 12
  <2>1. step \in Nat /\ IdentityAt \in Nat
    <3>1. Len(Layers(Tree)) \in Nat
      BY <1>1, TreeStays
    <3>2. step \in Nat
      BY <3>1
    <3>3. IdentityAt \in Nat
      BY DEF IdentityAt
    <3>4. QED
      BY <3>2, <3>3
  <2>2. step' > 12 => step > 12 \/ step = 12
    BY <1>1, <2>1
  <2>3. step' > 1 => step > 1 \/ step = 1
    BY <1>1, <2>1
  <2>4. step' > IdentityAt => step > IdentityAt \/ step = IdentityAt
    BY <1>1, <2>1
  <2>5. QED
    BY <2>2, <2>3, <2>4
<1>6. Labelled(obj)' <=> Labelled(obj)
  BY <1>1 DEF Labelled
<1>7. Identified'
  BY <1>1, <1>4, <1>5, <1>6 DEF IInv, Identified, Seen, Apart
<1>8. QED
  BY <1>2, <1>3, <1>7 DEF IInv

LEMMA Still ==
  ASSUME IInv, UNCHANGED <<args, step, obj, sets, configs>>,
         exit' = "accepted" => step = Len(Layers(Tree)) + 1
  PROVE  IInv'
<1>1. /\ args' = args /\ step' = step /\ obj' = obj /\ sets' = sets /\ configs' = configs
      /\ args \in ArgSets
  BY DEF IInv, Placed
<1>2. Tree' = Tree /\ IdentityAt' = IdentityAt /\ Namespace' = Namespace
  BY <1>1, TreeStays
<1>3. Placed'
  BY <1>1, <1>2 DEF IInv, Placed
<1>4. Sized' /\ Checked' /\ Configured'
  BY <1>1, <1>2 DEF IInv, Sized, Checked, Configured, NoLimit, Carried, UnderAutobahn
<1>5. Identified'
  <2>1. Labelled(obj)' <=> Labelled(obj)
    BY <1>1 DEF Labelled
  <2>2. QED
    BY <1>1, <1>2, <2>1 DEF IInv, Identified
<1>6. Stands'
  <2>1. Later' = Later
    BY <1>2 DEF Later, overrides
  <2>2. (Clear(Last(sets).path))' <=> Clear(Last(sets).path)
    BY <1>1, <2>1 DEF Clear
  <2>3. QED
    BY <1>1, <1>2, <2>2 DEF IInv, Stands
<1>7. QED
  BY <1>3, <1>4, <1>5, <1>6 DEF IInv

LEMMA Refused ==
  ASSUME IInv, Refuse
  PROVE  IInv'
<1>1. UNCHANGED <<args, step, obj, sets, configs>> /\ exit' # "accepted"
  BY DEF Refuse
<1>2. QED
  BY <1>1, Still

\* Where a layer stands.
LEMMA Standing ==
  ASSUME IInv, NEW l, At(l)
  PROVE  /\ Tree \in Trees /\ step \in 1..Len(Layers(Tree)) /\ exit = "none"
         /\ l = "namespace" => step = 1
         /\ l = "check"     => step = 2
         /\ l = "flags"     => step = 3
         /\ l = "set"       => step = 4
         /\ l = "override"  => step = 5 /\ Tree # "workflow"
         /\ l = "config"    => step = 6 /\ Tree # "workflow"
         /\ l = "cpu"       => step = 7 /\ Tree # "workflow"
         /\ l = "storage"   => step = 8 /\ Tree # "workflow"
         /\ l = "consensus" => step = 9 /\ Tree # "workflow"
         /\ l = "peers"     => step = 10 /\ Tree = "node"
         /\ l = "identity"  => step = IdentityAt
         /\ l = "labels"    => step = 12 /\ Tree = "node"
         /\ l = "annotations" => step = AnnotationsAt
         /\ l = "required"  => step = Len(Layers(Tree))
<1>1. Tree \in Trees /\ step \in 1..(Len(Layers(Tree)) + 1)
  BY ArgsAssumption DEF IInv, Placed, Tree
<1>2. QED
  BY <1>1, Places

LEMMA IdentityIs ==
  ASSUME Tree \in Trees
  PROVE  /\ Tree = "node" => IdentityAt = 11
         /\ Tree = "network" => IdentityAt = 10
         /\ Tree = "workflow" => IdentityAt = 5
         /\ IdentityAt \in {5, 10, 11}
         /\ Tree # "workflow" => IdentityAt > 9
BY DEF IdentityAt, Trees

\* The layers up to the peers, and the last one, are not those of the identity.
LEMMA Before ==
  ASSUME Tree \in Trees, step \in {1, 2, 3, 4} \/ (Tree # "workflow" /\ step \in 5..9)
                         \/ (Tree = "node" /\ step = 10) \/ step = Len(Layers(Tree))
  PROVE  Apart
<1>1. CASE Tree = "node"
  <2>1. IdentityAt = 11 /\ Len(Layers(Tree)) = 14
    BY <1>1, IdentityIs, TreeIs
  <2>2. step \in {1, 2, 3, 4} \/ step \in 5..9 \/ step = 10 \/ step = 14
    BY <2>1, Zenon
  <2>3. step # 11 /\ step # 12
    BY <2>2
  <2>4. QED
    BY <2>1, <2>3 DEF Apart
<1>2. CASE Tree = "network"
  <2>1. IdentityAt = 10 /\ Len(Layers(Tree)) = 12 /\ Tree # "node"
    BY <1>2, IdentityIs, TreeIs
  <2>2. step \in {1, 2, 3, 4} \/ step \in 5..9 \/ step = 12
    BY <2>1, Zenon
  <2>3. step # 10
    BY <2>2
  <2>4. QED
    BY <2>1, <2>3 DEF Apart
<1>3. CASE Tree = "workflow"
  <2>1. IdentityAt = 5 /\ Len(Layers(Tree)) = 7 /\ Tree # "node"
    BY <1>3, IdentityIs, TreeIs
  <2>2. step \in {1, 2, 3, 4} \/ step = 7
    BY <1>3, <2>1, Zenon
  <2>3. step # 5
    BY <2>2
  <2>4. QED
    BY <2>1, <2>3 DEF Apart
<1>4. QED
  BY <1>1, <1>2, <1>3, TreeIs

\* A layer that looks, at any other place, needs to have seen nothing.
LEMMA Guarding ==
  ASSUME IInv, NEW l, At(l), NEW legal, Guard(legal),
         legal => Seen, Apart
  PROVE  IInv'
<1>1. step \in 1..Len(Layers(Tree)) /\ exit = "none"
  BY Standing
<1>2. CASE legal /\ Pass(obj) /\ UNCHANGED <<sets, configs>>
  BY <1>1, <1>2, Looking
<1>3. CASE Refuse
  BY <1>3, Refused
<1>4. QED
  BY <1>2, <1>3 DEF Guard

LEMMA Unchecked ==
  ASSUME Tree \in Trees,
         \/ step \in {2, 3, 4, 5, 6, 10, 11, 12}
         \/ step \in {IdentityAt, AnnotationsAt, Len(Layers(Tree))}
  PROVE  Seen
<1>1. step # 1 /\ (Tree # "workflow" => step # 7 /\ step # 8 /\ step # 9)
  <2>1. IdentityAt \in {5, 10, 11} /\ AnnotationsAt \in {6, 11, 13}
    BY IdentityIs DEF AnnotationsAt
  <2>2. Len(Layers(Tree)) \in {7, 12, 14} /\ (Tree # "workflow" => Len(Layers(Tree)) \in {12, 14})
    <3>1. Tree = "node" \/ Tree = "network" \/ Tree = "workflow"
      BY TreeIs
    <3>2. QED
      BY <3>1, TreeIs
  <2>3. CASE step \in {2, 3, 4, 5, 6, 10, 11, 12}
    BY <2>3
  <2>4. CASE step = IdentityAt
    BY <2>1, <2>4
  <2>5. CASE step = AnnotationsAt
    BY <2>1, <2>5
  <2>6. CASE step = Len(Layers(Tree))
    <3>1. step \in {7, 12, 14} /\ (Tree # "workflow" => step \in {12, 14})
      BY <2>2, <2>6, Zenon
    <3>2. QED
      BY <3>1
  <2>7. QED
    BY <2>3, <2>4, <2>5, <2>6
<1>2. QED
  BY <1>1 DEF Seen

\* A read of one kind that finds no other is the plain one.
LEMMA GetKindIs ==
  ASSUME NEW o, NEW p, NEW kind, GetKind(o, p, kind) # Conflict
  PROVE  Get(o, p) = GetKind(o, p, kind)
BY DEF GetKind

LEMMA NamespaceSafe ==
  ASSUME IInv, RequireNamespace
  PROVE  IInv'
<1>1. At("namespace") /\ Guard(Namespace # "")
  BY DEF RequireNamespace
<1>2. step = 1 /\ Tree \in Trees
  BY <1>1, Standing
<1>3. Apart
  BY <1>2, Before
<1>4. Namespace # "" => Seen
  <2>1. step # 7 /\ step # 8 /\ step # 9
    BY <1>2
  <2>2. QED
    BY <2>1 DEF Seen
<1>5. QED
  BY <1>1, <1>3, <1>4, Guarding

LEMMA CheckSafe ==
  ASSUME IInv, CheckFlags
  PROVE  IInv'
<1>1. At("check") /\ Guard(FlagsValid(args))
  BY DEF CheckFlags
<1>2. step = 2 /\ Tree \in Trees
  BY <1>1, Standing
<1>3. Apart /\ Seen
  BY <1>2, Before, Unchecked
<1>4. QED
  BY <1>1, <1>3, Guarding

LEMMA SetsDoneSafe ==
  ASSUME IInv, SetsDone
  PROVE  IInv'
<1>1. At("set") /\ Pass(obj) /\ UNCHANGED <<sets, configs>>
  BY DEF SetsDone
<1>2. step = 4 /\ Tree \in Trees /\ step \in 1..Len(Layers(Tree)) /\ exit = "none"
  BY <1>1, Standing
<1>3. Apart /\ Seen
  BY <1>2, Before, Unchecked
<1>4. QED
  BY <1>1, <1>2, <1>3, Looking

LEMMA NoOverrideSafe ==
  ASSUME IInv, NoOverride
  PROVE  IInv'
<1>1. At("override") /\ Pass(obj) /\ UNCHANGED <<sets, configs>>
  BY DEF NoOverride
<1>2. /\ step = 5 /\ Tree \in Trees /\ Tree # "workflow" /\ step \in 1..Len(Layers(Tree))
      /\ exit = "none"
  BY <1>1, Standing
<1>3. Apart /\ Seen
  BY <1>2, Before, Unchecked
<1>4. QED
  BY <1>1, <1>2, <1>3, Looking

LEMMA CPUSafe ==
  ASSUME IInv, RejectCPULimit
  PROVE  IInv'
<1>1. At("cpu") /\ Guard(Get(obj, cpuLimit) = Missing)
  BY DEF RejectCPULimit
<1>2. step = 7 /\ Tree \in Trees /\ Tree # "workflow"
  BY <1>1, Standing
<1>3. Apart
  BY <1>2, Before
<1>4. Get(obj, cpuLimit) = Missing => Seen
  BY <1>2 DEF Seen, NoLimit
<1>5. QED
  BY <1>1, <1>3, <1>4, Guarding

\* A size that carries the IOPS is above 19 GiB: it is provisioned as 20.
LEMMA SizeIs ==
  ASSUME NEW q \in Int, effectiveSizeGiB(q) >= MinSizeGiB
  PROVE  q > 19 * Unit
<1>1. MinSizeGiB = 20
  BY DEF MinSizeGiB, IOPS, gp3MaxIOPSPerGiB
<1>2. CASE q <= 0
  BY <1>1, <1>2 DEF effectiveSizeGiB
<1>3. CASE q > 0
  <2>1. effectiveSizeGiB(q) = (q + 1) \div 2
    BY <1>3 DEF effectiveSizeGiB, Unit
  <2>2. (q + 1) \div 2 >= 20
    BY <1>1, <2>1
  <2>3. QED
    BY <2>2 DEF Unit
<1>4. QED
  BY <1>2, <1>3

LEMMA StorageSafe ==
  ASSUME IInv, ValidateStorage
  PROVE  IInv'
<1> DEFINE name  == GetKind(obj, className, "string")
           size  == Get(obj, storage)
           legal == \/ name = Missing
                    \/ name \in {String(c) : c \in ClassNames} /\ SizeCarriesIOPS(size)
<1>1. At("storage") /\ Guard(legal)
  BY DEF ValidateStorage
<1>2. step = 8 /\ Tree \in Trees /\ Tree # "workflow"
  BY <1>1, Standing
<1>3. Apart
  BY <1>2, Before
<1>4. ASSUME legal
      PROVE  Carried(obj)
  <2>1. name # Conflict
    BY <1>4, Kinds
  <2>2. Get(obj, className) = name
    BY <2>1, GetKindIs
  <2>3. CASE name = Missing
    BY <2>2, <2>3 DEF Carried
  <2>4. CASE name # Missing
    <3>1. name \in {String(c) : c \in ClassNames} /\ SizeCarriesIOPS(size) /\ size # Missing
      BY <1>2, <1>4, <2>4 DEF IInv, Sized
    <3>2. IsQuantity(size) /\ effectiveSizeGiB(Quantities[size.val]) >= MinSizeGiB
      BY <3>1 DEF SizeCarriesIOPS
    <3>3. Quantities[size.val] \in Int
      BY <3>2, QuantitiesAssumption DEF IsQuantity
    <3>4. Quantities[size.val] > 19 * Unit
      BY <3>2, <3>3, SizeIs
    <3>5. QED
      BY <2>2, <3>1, <3>2, <3>4 DEF Carried
  <2>5. QED
    BY <2>3, <2>4
<1> HIDE DEF legal
<1>5. legal => Seen
  BY <1>2, <1>4 DEF Seen
<1>6. QED
  BY <1>1, <1>3, <1>5, Guarding

LEMMA ConsensusSafe ==
  ASSUME IInv, ValidateConsensus
  PROVE  IInv'
<1> DEFINE evm   == GetKind(obj, evmOnly, "bool")
           legal == evm # Conflict /\ (evm = Bool("true") =>
                      GetKind(obj, engine, "string") = String("Autobahn"))
<1>1. At("consensus") /\ Guard(legal)
  BY DEF ValidateConsensus
<1>2. step = 9 /\ Tree \in Trees /\ Tree # "workflow"
  BY <1>1, Standing
<1>3. Apart
  BY <1>2, Before
<1>4. ASSUME legal
      PROVE  UnderAutobahn(obj)
  <2>1. Get(obj, evmOnly) = evm
    BY <1>4, GetKindIs
  <2>2. ASSUME evm = Bool("true")
        PROVE  Get(obj, engine) = String("Autobahn")
    <3>1. GetKind(obj, engine, "string") = String("Autobahn")
      BY <1>4, <2>2
    <3>2. GetKind(obj, engine, "string") # Conflict
      BY <3>1, Kinds
    <3>3. QED
      BY <3>1, <3>2, GetKindIs
  <2>3. QED
    BY <2>1, <2>2 DEF UnderAutobahn
<1> HIDE DEF legal
<1>5. legal => Seen
  BY <1>2, <1>4 DEF Seen
<1>6. QED
  BY <1>1, <1>3, <1>5, Guarding

LEMMA PeersSafe ==
  ASSUME IInv, RequirePeers
  PROVE  IInv'
<1>1. At("peers") /\ Guard(GetKind(obj, peers, "list").kind = "list")
  BY DEF RequirePeers
<1>2. step = 10 /\ Tree \in Trees /\ Tree = "node"
  BY <1>1, Standing
<1>3. Apart /\ Seen
  BY <1>2, Before, Unchecked
<1>4. QED
  BY <1>1, <1>3, Guarding

LEMMA RequiredSafe ==
  ASSUME IInv, Required
  PROVE  IInv'
<1>1. At("required") /\ Guard(Nonempty(IF Tree = "workflow" THEN recipe ELSE image))
  BY DEF Required
<1>2. step = Len(Layers(Tree)) /\ Tree \in Trees
  BY <1>1, Standing
<1>3. Apart /\ Seen
  BY <1>2, Before, Unchecked
<1>4. QED
  BY <1>1, <1>3, Guarding

LEMMA ApplySafe ==
  ASSUME IInv, Apply
  PROVE  IInv'
<1>1. UNCHANGED <<args, step, obj, sets, configs>> /\ step > Len(Layers(Tree))
  BY DEF Apply
<1>2. step = Len(Layers(Tree)) + 1
  <2>1. Len(Layers(Tree)) \in Nat /\ step \in 1..(Len(Layers(Tree)) + 1)
    BY <1>1, TreeStays DEF IInv, Placed
  <2>2. QED
    BY <1>1, <2>1
<1>3. QED
  BY <1>1, <1>2, Still

HasNamespace == Namespace # ""

\* Before the checks, a write keeps the invariant when it leaves a map that is sound.
LEMMA Early ==
  ASSUME IInv, step \in 1..5, UNCHANGED <<args, configs, exit>>, exit = "none",
         step' \in {step, step + 1}, step' <= Len(Layers(Tree)) + 1, step' <= IdentityAt,
         HasNamespace,
         NEW w, obj' = w, IsMap(w), Tree # "workflow" => Sound(w)
  PROVE  Placed' /\ Sized' /\ Checked' /\ Identified' /\ Configured'
<1>1. args' = args /\ obj' = w /\ configs' = configs /\ exit' = "none" /\ args \in ArgSets
  BY DEF IInv, Placed
<1>2. /\ Tree' = Tree /\ IdentityAt' = IdentityAt /\ Namespace' = Namespace
      /\ Tree \in Trees /\ Len(Layers(Tree)) \in Nat
  BY <1>1, TreeStays
<1>3. IdentityAt \in {5, 10, 11}
  BY <1>2, IdentityIs
<1>4. /\ step' \in 1..(Len(Layers(Tree)) + 1)
      /\ ~(step > 6) /\ ~(step' > 7) /\ ~(step' > 8) /\ ~(step' > 9) /\ ~(step' > 12)
      /\ ~(step' > IdentityAt)
  <2>1. step \in Nat /\ step >= 1 /\ step <= 5 /\ (step' = step \/ step' = step + 1)
    OBVIOUS
  <2>2. step' \in Nat /\ step' >= 1 /\ step' <= 6
    BY <2>1
  <2>3. ~(step > 6) /\ ~(step' > 7) /\ ~(step' > 8) /\ ~(step' > 9) /\ ~(step' > 12)
    BY <2>1, <2>2
  <2>4. ~(step' > IdentityAt)
    BY <1>3, <2>2
  <2>5. step' \in 1..(Len(Layers(Tree)) + 1)
    BY <1>2, <2>2
  <2>6. QED
    BY <2>3, <2>4, <2>5
<1>5. Placed'
  BY <1>1, <1>2, <1>4 DEF Placed
<1>6. Sized'
  BY <1>1, <1>2 DEF Sized, Sound
<1>7. Checked'
  BY <1>4 DEF Checked
<1>8. Identified'
  BY <1>2, <1>4 DEF Identified, HasNamespace
<1>9. configs = <<>>
  BY <1>4 DEF IInv, Configured
<1>10. Configured'
  BY <1>1, <1>9 DEF Configured
<1>11. QED
  BY <1>5, <1>6, <1>7, <1>8, <1>10

LEMMA SoundEarly ==
  ASSUME IInv, step \in 1..5, Tree # "workflow"
  PROVE  Sound(obj)
<1>1. step <= 6
  OBVIOUS
<1>2. QED
  BY <1>1 DEF IInv, Sized, Sound

LEMMA FlagsSafe ==
  ASSUME IInv, ApplyFlags
  PROVE  IInv'
<1> DEFINE flags == Flags(args)
           w     == SetFlags(obj, flags)[Len(flags)]
<1>1. At("flags") /\ Layer(w)
  BY DEF ApplyFlags
<1>2. step = 3 /\ Tree \in Trees /\ step \in 1..Len(Layers(Tree)) /\ exit = "none"
  BY <1>1, Standing
<1>3. CASE Refuse
  BY <1>3, Refused
<1>4. CASE IsMap(w) /\ Pass(w) /\ UNCHANGED <<sets, configs>>
  <2>1. args.tree # "workflow" => {args.evmOnly, args.account} \subseteq BOOLEAN
    BY ArgsAssumption DEF IInv, Placed
  <2>2. Len(flags) \in Nat /\ \A i \in 1..Len(flags) : IsFlag(flags[i])
    BY <2>1, FlagsAre
  <2>3. w # Conflict /\ IsMap(obj)
    BY <1>4, Kinds DEF IInv, Placed
  <2> HIDE DEF flags
  <2> DEFINE z == w
  <2>4. z = SetFlags(obj, flags)[Len(flags)] /\ z # Conflict
    BY <2>3
  <2> HIDE DEF z
  <2>5. IsMap(z) /\ (Sound(obj) => Sound(z))
    BY <2>2, <2>3, <2>4, FlagsSound
  <2>6. Tree # "workflow" => Sound(z)
    BY <1>2, <2>5, SoundEarly
  <2>7. UNCHANGED <<args, sets, configs, exit>> /\ step' = 4 /\ obj' = z
    BY <1>2, <1>4, <2>4 DEF Pass
  <2>8. HasNamespace
    <3>1. step > 1
      BY <1>2
    <3>2. QED
      BY <3>1 DEF IInv, Identified, HasNamespace
  <2>9. 4 <= Len(Layers(Tree)) + 1
    BY <1>2, TreeStays, <2>7 DEF IInv, Placed
  <2>10. step \in 1..5 /\ step' \in {step, step + 1} /\ step' <= IdentityAt
         /\ step' <= Len(Layers(Tree)) + 1
    <3>1. IdentityAt \in {5, 10, 11}
      BY <1>2, IdentityIs
    <3>2. QED
      BY <1>2, <2>7, <2>9, <3>1
  <2>11. Placed' /\ Sized' /\ Checked' /\ Identified' /\ Configured'
    BY <1>2, <2>5, <2>6, <2>7, <2>8, <2>10, Early
  <2>12. sets = <<>>
    <3>1. ~(step >= 4)
      BY <1>2
    <3>2. QED
      BY <3>1 DEF IInv, Stands
  <2>13. Stands'
    <3>1. sets' = <<>>
      BY <2>7, <2>12
    <3>2. QED
      BY <3>1 DEF Stands
  <2>14. QED
    BY <2>11, <2>13 DEF IInv
<1>5. QED
  BY <1>1, <1>3, <1>4 DEF Layer

LEMMA SetSafe ==
  ASSUME IInv, Set
  PROVE  IInv'
<1>1. At("set")
  BY DEF Set
<1>2. step = 4 /\ Tree \in Trees /\ step \in 1..Len(Layers(Tree)) /\ exit = "none"
  BY <1>1, Standing
<1>3. PICK e \in SetExprs[Tree] :
        LET o == writeMap(obj, e.path, e.val)
        IN \/ ~IsMap(o) /\ Refuse
           \/ /\ IsMap(o)
              /\ obj' = o
              /\ sets' = Append(sets, e)
              /\ UNCHANGED <<args, step, configs, announced, exit>>
  BY DEF Set
<1> DEFINE w == writeMap(obj, e.path, e.val)
<1>4. CASE Refuse
  BY <1>4, Refused
<1>5. CASE IsMap(w) /\ obj' = w /\ sets' = Append(sets, e)
           /\ UNCHANGED <<args, step, configs, announced, exit>>
  <2>1. IsPath(e.path) /\ Len(e.path) # 0 /\ Plain(e.val)
    BY <1>2, ExprsAre
  <2>2. w # Conflict
    BY <1>5, Kinds
  <2>3. Read(w, e.path) = e.val
    BY <2>1, <2>2, ReadBack
  <2>4. Sound(obj) => Sound(w)
    BY <2>1, <2>2, WriteSound
  <2>5. obj' = w /\ IsMap(w) /\ step' = 4 /\ UNCHANGED <<args, configs, exit>>
    BY <1>2, <1>5
  <2> HIDE DEF w
  <2>6. Tree # "workflow" => Sound(w)
    BY <1>2, <2>4, SoundEarly
  <2>7. HasNamespace
    <3>1. step > 1
      BY <1>2
    <3>2. QED
      BY <3>1 DEF IInv, Identified, HasNamespace
  <2>8. step \in 1..5 /\ step' \in {step, step + 1} /\ step' <= IdentityAt
        /\ step' <= Len(Layers(Tree)) + 1
    <3>1. Len(Layers(Tree)) \in Nat /\ IdentityAt \in {5, 10, 11}
      BY <1>2, <2>5, TreeStays, IdentityIs DEF IInv, Placed
    <3>2. QED
      BY <1>2, <2>5, <3>1
  <2>9. Placed' /\ Sized' /\ Checked' /\ Identified' /\ Configured'
    BY <1>2, <2>5, <2>6, <2>7, <2>8, Early
  <2>10. Stands'
    <3>1. sets \in Seq(SetExprs[Tree])
      BY DEF IInv, Stands
    <3>2. sets' \in Seq(SetExprs[Tree]) /\ Last(sets') = e
      BY <1>5, <3>1 DEF Last
    <3>3. Tree' = Tree
      BY <2>5 DEF Tree
    <3>4. step' >= 4
      BY <2>5
    <3>5. Read(obj', Last(sets').path) = Last(sets').val
      BY <2>3, <2>5, <3>2
    <3>6. QED
      BY <3>2, <3>3, <3>4, <3>5 DEF Stands
  <2>11. QED
    BY <2>9, <2>10 DEF IInv
<1>6. QED
  BY <1>3, <1>4, <1>5

\* A later write spares the last --set where the two part.
LEMMA Spared ==
  ASSUME IInv, NEW q \in Later, IsField(q), NEW x, NEW w, w = SetNested(obj, q, x), w # Conflict
  PROVE  sets # <<>> /\ Clear(Last(sets).path) =>
           Read(w, Last(sets).path) = Read(obj, Last(sets).path)
<1>1. ASSUME sets # <<>>, Clear(Last(sets).path)
      PROVE  Read(w, Last(sets).path) = Read(obj, Last(sets).path)
  <2> DEFINE path == Last(sets).path
  <2>1. IsPath(path) /\ Read(obj, path) \notin {Missing, Conflict}
    BY <1>1, LastSet DEF IInv
  <2>2. Part(q, KeysOf(path))
    BY <1>1 DEF Clear
  <2> HIDE DEF path
  <2>3. Read(w, path) = Read(obj, path)
    BY <2>1, <2>2, PartStays
  <2>4. QED
    BY <2>3 DEF path
<1>2. QED
  BY <1>1

LEMMA Unidentified ==
  ASSUME args \in ArgSets, UNCHANGED args, step' \in Nat, step' <= IdentityAt, HasNamespace
  PROVE  Identified'
<1>1. IdentityAt' = IdentityAt /\ Namespace' = Namespace /\ Tree \in Trees
  BY TreeStays
<1>2. IdentityAt \in {5, 10, 11}
  BY <1>1, IdentityIs
<1>3. ~(step' > IdentityAt) /\ ~(step' > 12)
  BY <1>2
<1>4. QED
  BY <1>1, <1>3 DEF Identified, HasNamespace

\* Beside the size and the list, which part from it at the second key.
LEMMA BesideSpec ==
  ASSUME NEW o, NEW q, IsField(q), Len(q) >= 2, NEW x, NEW w, w = SetNested(o, q, x), w # Conflict
  PROVE  /\ q[2] # "dataVolume" => Get(w, storage) = Get(o, storage)
         /\ q[2] # "configValues" => Get(w, configValues) = Get(o, configValues)
<1>1. IsField(storage) /\ IsField(configValues) /\ Len(storage) = 6 /\ Len(configValues) = 2
      /\ storage[2] = "dataVolume" /\ configValues[2] = "configValues"
  BY SpecFields
<1>2. 2 \in 1..Len(storage) /\ 2 \in 1..Len(configValues) /\ 2 <= Len(q)
  BY <1>1
<1>3. q[2] # "dataVolume" => Get(w, storage) = Get(o, storage)
  BY <1>1, <1>2, FieldStays
<1>4. q[2] # "configValues" => Get(w, configValues) = Get(o, configValues)
  BY <1>1, <1>2, FieldStays
<1>5. QED
  BY <1>3, <1>4

LEMMA BesideSize ==
  ASSUME NEW o, NEW q, IsField(q), Len(q) >= 2, NEW x, NEW w, w = SetNested(o, q, x), w # Conflict,
         q[2] # "dataVolume"
  PROVE  Get(w, storage) = Get(o, storage)
BY BesideSpec

LEMMA OverrideSafe ==
  ASSUME IInv, Override
  PROVE  IInv'
<1>1. At("override")
  BY DEF Override
<1>2. /\ step = 5 /\ Tree \in Trees /\ Tree # "workflow" /\ step \in 1..Len(Layers(Tree))
      /\ exit = "none"
  BY <1>1, Standing
<1>3. PICK x : Layer(x) /\ (x = Conflict \/ \E y : x = SetNested(obj, overrides, y))
  BY DEF Override
<1>4. CASE Refuse
  BY <1>4, Refused
<1>5. CASE IsMap(x) /\ Pass(x) /\ UNCHANGED <<sets, configs>>
  <2>1. PICK y : x = SetNested(obj, overrides, y) /\ x # Conflict
    BY <1>3, <1>5, Kinds
  <2>2. IsField(overrides) /\ Len(overrides) >= 2 /\ overrides[2] # "dataVolume"
        /\ overrides[2] # "configValues"
    BY SpecFields
  <2>3. Get(x, storage) = Get(obj, storage) /\ Get(x, configValues) = Get(obj, configValues)
    BY <2>1, <2>2, BesideSpec
  <2>4. Sound(x)
    <3>1. Sound(obj)
      BY <1>2, SoundEarly
    <3>2. QED
      BY <2>3, <3>1 DEF Sound
  <2>5. UNCHANGED <<args, sets, configs, exit>> /\ step' = 6 /\ obj' = x
    BY <1>2, <1>5 DEF Pass
  <2>6. HasNamespace
    <3>1. step > 1
      BY <1>2
    <3>2. QED
      BY <3>1 DEF IInv, Identified, HasNamespace
  <2>7. step \in 1..5 /\ step' \in {step, step + 1} /\ step' <= IdentityAt
        /\ step' <= Len(Layers(Tree)) + 1
    <3>1. Len(Layers(Tree)) \in Nat /\ IdentityAt > 9 /\ IdentityAt \in {5, 10, 11}
      BY <1>2, <2>5, TreeStays, IdentityIs DEF IInv, Placed
    <3>2. QED
      BY <1>2, <2>5, <3>1
  <2>8. Placed' /\ Sized' /\ Checked' /\ Identified' /\ Configured'
    BY <1>2, <1>5, <2>4, <2>5, <2>6, <2>7, Early
  <2>9. overrides \in Later
    BY DEF Later
  <2>10. sets # <<>> /\ Clear(Last(sets).path) =>
           Read(x, Last(sets).path) = Read(obj, Last(sets).path)
    BY <2>1, <2>2, <2>9, Spared
  <2>11. Stands'
    BY <1>2, <1>5, <2>5, <2>10, Onward DEF IInv
  <2>12. QED
    BY <2>8, <2>11 DEF IInv
<1>6. QED
  BY <1>3, <1>4, <1>5 DEF Layer

LEMMA ConfigSafe ==
  ASSUME IInv, ConfigValues
  PROVE  IInv'
<1>1. At("config")
  BY DEF ConfigValues
<1>2. /\ step = 6 /\ Tree \in Trees /\ Tree # "workflow" /\ step \in 1..Len(Layers(Tree))
      /\ exit = "none"
  BY <1>1, Standing
<1> DEFINE old == GetKind(obj, configValues, "list")
<1>3. PICK flags \in ConfigFlags :
        LET list == MergedInto(old, flags)[Len(flags)]
        IN \/ flags = <<>> /\ Pass(obj) /\ UNCHANGED <<sets, configs>>
           \/ /\ flags # <<>>
              /\ ~ConfigLegal(old, list, flags)
              /\ Refuse
           \/ /\ flags # <<>>
              /\ ConfigLegal(old, list, flags)
              /\ Pass(SetNested(obj, configValues, List(list)))
              /\ configs' = flags
              /\ UNCHANGED sets
  BY <1>1 DEF ConfigValues
<1> DEFINE list == MergedInto(old, flags)[Len(flags)]
           x    == List(list)
           w    == SetNested(obj, configValues, x)
<1>4. CASE Refuse
  BY <1>4, Refused
<1>5. CASE Pass(obj) /\ UNCHANGED <<sets, configs>>
  <2>1. Apart /\ Seen
    BY <1>2, Before, Unchecked
  <2>2. QED
    BY <1>2, <1>5, <2>1, Looking
<1>6. CASE ConfigLegal(old, list, flags) /\ Pass(w) /\ configs' = flags /\ UNCHANGED sets
  <2>1. old # Conflict /\ Len(list) <= MaxConfigValues /\ ~Duplicates(list)
    BY <1>6 DEF ConfigLegal
  <2>2. Get(obj, configValues) = old
    BY <2>1, GetKindIs
  <2>3. IsSequence(old)
    <3>1. step <= 6
      BY <1>2
    <3>2. QED
      BY <1>2, <2>2, <3>1 DEF IInv, Sized
  <2>4. Len(flags) \in Nat /\ DOMAIN flags = 1..Len(flags)
    <3>1. flags \in Seq([key : STRING, value : STRING])
      BY ConfigFlagsAssumption
    <3>2. QED
      BY <3>1
  <2> HIDE DEF old
  <2> DEFINE z == list
  <2>5. z = MergedInto(old, flags)[Len(flags)] /\ z = list
    OBVIOUS
  <2> HIDE DEF list, z
  <2>6. Says(list, flags)
    BY <2>1, <2>3, <2>4, <2>5, MergedSays
  <2>7. x # Conflict /\ x # Missing /\ x.seq = list
    BY Kinds
  <2> HIDE DEF x
  <2>8. IsField(configValues) /\ Len(configValues) >= 2 /\ configValues[2] # "dataVolume"
    BY SpecFields
  <2>9. w # Conflict
    BY <2>1, <2>2, <2>7, <2>8, FieldWritable
  <2>10. Get(w, configValues) = x /\ IsMap(w)
    BY <2>8, <2>9, FieldReadBack
  <2> DEFINE v == w
  <2>11. v = SetNested(obj, configValues, x) /\ v # Conflict /\ v = w
    BY <2>9
  <2> HIDE DEF w, v
  <2>12. Get(v, storage) = Get(obj, storage)
    BY <2>8, <2>11, BesideSize
  <2>13. sets # <<>> /\ Clear(Last(sets).path) =>
           Read(v, Last(sets).path) = Read(obj, Last(sets).path)
    <3>1. configValues \in Later
      BY DEF Later
    <3>2. QED
      BY <2>8, <2>11, <3>1, Spared
  <2>14. Placed' /\ Stands'
    BY <1>2, <1>6, <2>10, <2>11, <2>13, Onward DEF IInv
  <2>15. args' = args /\ step' = 7 /\ obj' = v /\ args \in ArgSets
    BY <1>2, <1>6, <2>11 DEF Pass, IInv, Placed
  <2>16. Tree' = Tree
    BY <2>15, TreeStays
  <2>17. ~(step' <= 6) /\ ~(step' > 7) /\ ~(step' > 8) /\ ~(step' > 9) /\ step' > 6
    BY <2>15
  <2>18. Sized'
    <3>1. Get(obj, storage) # Missing
      BY <1>2 DEF IInv, Sized
    <3>2. QED
      BY <2>12, <2>15, <2>17, <3>1 DEF Sized
  <2>19. Checked'
    BY <2>17 DEF Checked
  <2>20. Identified'
    <3>1. HasNamespace
      <4>1. step > 1
        BY <1>2
      <4>2. QED
        BY <4>1 DEF IInv, Identified, HasNamespace
    <3>2. step' <= IdentityAt /\ step' \in Nat
      <4>1. IdentityAt > 9 /\ IdentityAt \in {5, 10, 11}
        BY <1>2, IdentityIs
      <4>2. QED
        BY <2>15, <4>1
    <3>3. QED
      BY <2>15, <3>1, <3>2, Unidentified
  <2>21. Configured'
    <3>1. Get(obj', configValues).seq = list
      BY <2>7, <2>10, <2>11, <2>15
    <3>2. QED
      BY <1>6, <2>6, <2>17, <3>1 DEF Configured
  <2>22. QED
    BY <2>14, <2>18, <2>19, <2>20, <2>21 DEF IInv
<1>7. QED
  BY <1>3, <1>4, <1>5, <1>6

LEMMA MetaNames ==
  /\ metaName = Meta("name") /\ metaNamespace = Meta("namespace") /\ metaLabels = Meta("labels")
  /\ metaAnnotations = Meta("annotations")
  /\ {metaName, metaNamespace, metaLabels, metaAnnotations} \subseteq Later
BY DEF metaName, metaNamespace, metaLabels, metaAnnotations, Meta, Later

\* Reassert at a place of the metadata that is asserted later: what the invariant
\* needs of it.
LEMMA Reasserts ==
  ASSUME NEW o, IsMap(o), NEW k, Meta(k) \in Later, NEW x, x # Conflict,
         NEW n, n = Reassert(o, Meta(k), x)
  PROVE  /\ IsMap(n)
         /\ \A p : IsField(p) /\ p[1] = "spec" => Get(n, p) = Get(o, p)
         /\ \A path : IsPath(path) /\ Clear(path) /\ Read(o, path) \notin {Missing, Conflict} =>
              Read(n, path) = Read(o, path)
<1>1. /\ IsMap(n)
      /\ \A p : IsField(p) /\ p[1] # "metadata" => Get(n, p) = Get(o, p)
      /\ \A path : IsPath(path) /\ Part(Meta(k), KeysOf(path))
                   /\ Read(o, path) \notin {Missing, Conflict} =>
                     Read(n, path) = Read(o, path)
  BY ReassertIs
<1>2. \A path : Clear(path) => Part(Meta(k), KeysOf(path))
  BY DEF Clear
<1>3. QED
  BY <1>1, <1>2

LEMMA IdentitySafe ==
  ASSUME IInv, Identity
  PROVE  IInv'
<1> DEFINE named == Reassert(obj, metaName, String(Name))
           n     == Reassert(named, metaNamespace, String(Namespace))
<1>1. /\ At("identity") /\ UNCHANGED <<sets, configs>>
      /\ Pass(IF Namespace = "" THEN named ELSE n)
  BY DEF Identity
<1>2. step = IdentityAt /\ Tree \in Trees /\ step \in 1..Len(Layers(Tree)) /\ exit = "none"
  BY <1>1, Standing
<1>3. IdentityAt \in {5, 10, 11} /\ (Tree = "node" => IdentityAt = 11)
  BY <1>2, IdentityIs
<1>4. Namespace # ""
  <2>1. step > 1
    BY <1>2, <1>3
  <2>2. QED
    BY <2>1 DEF IInv, Identified
<1>5. Pass(n)
  BY <1>1, <1>4
<1>6. String(Name) # Conflict /\ String(Namespace) # Conflict
  BY Kinds
<1> DEFINE a == named
           b == n
<1>7. a = Reassert(obj, Meta("name"), String(Name))
  BY MetaNames
<1>8. b = Reassert(a, Meta("namespace"), String(Namespace))
  BY MetaNames
<1>9. Pass(b)
  BY <1>5
<1> HIDE DEF named, n, a, b
<1>10. /\ IsMap(a)
       /\ \A p : IsField(p) /\ p[1] = "spec" => Get(a, p) = Get(obj, p)
       /\ \A path : IsPath(path) /\ Clear(path) /\ Read(obj, path) \notin {Missing, Conflict} =>
            Read(a, path) = Read(obj, path)
  <2>1. IsMap(obj) /\ Meta("name") \in Later
    BY MetaNames DEF IInv, Placed
  <2>2. QED
    BY <1>6, <1>7, <2>1, Reasserts
<1>11. /\ IsMap(b)
       /\ \A p : IsField(p) /\ p[1] = "spec" => Get(b, p) = Get(a, p)
       /\ \A path : IsPath(path) /\ Clear(path) /\ Read(a, path) \notin {Missing, Conflict} =>
            Read(b, path) = Read(a, path)
  <2>1. Meta("namespace") \in Later
    BY MetaNames
  <2>2. QED
    BY <1>6, <1>8, <1>10, <2>1, Reasserts
<1>12. /\ Get(b, metaName) \in {String(Name), Conflict}
       /\ Get(b, metaNamespace) \in {String(Namespace), Conflict}
  <2>1. Get(a, Meta("name")) \in {String(Name), Conflict}
    <3>1. IsMap(obj)
      BY DEF IInv, Placed
    <3>2. Get(a, Meta("name")) = String(Name) \/ \A j : Get(a, Meta(j)) = Conflict
      BY <1>6, <1>7, <3>1, ReassertIs
    <3>3. QED
      BY <3>2
  <2>2. \A j : j # "namespace" => Get(b, Meta(j)) = Get(a, Meta(j))
    BY <1>6, <1>8, <1>10, ReassertIs
  <2>3. Get(b, Meta("namespace")) = String(Namespace) \/ \A j : Get(b, Meta(j)) = Conflict
    BY <1>6, <1>8, <1>10, ReassertIs
  <2>4. Get(b, Meta("name")) = Get(a, Meta("name"))
    BY <2>2
  <2>5. QED
    BY <2>1, <2>3, <2>4, MetaNames
<1>13. sets # <<>> /\ Clear(Last(sets).path) =>
         Read(b, Last(sets).path) = Read(obj, Last(sets).path)
  <2>1. ASSUME sets # <<>>, Clear(Last(sets).path)
        PROVE  Read(b, Last(sets).path) = Read(obj, Last(sets).path)
    <3> DEFINE path == Last(sets).path
    <3>1. IsPath(path) /\ Read(obj, path) \notin {Missing, Conflict} /\ Clear(path)
      BY <2>1, LastSet DEF IInv
    <3> HIDE DEF path
    <3>2. Read(a, path) = Read(obj, path)
      BY <1>10, <3>1
    <3>3. Read(b, path) = Read(a, path)
      BY <1>11, <3>1, <3>2
    <3>4. QED
      BY <3>2, <3>3 DEF path
  <2>2. QED
    BY <2>1
<1>14. Placed' /\ Stands'
  BY <1>1, <1>2, <1>9, <1>11, <1>13, Onward DEF IInv
<1>15. Sized' /\ Checked' /\ Configured'
  <2>1. Seen
    BY <1>2, Unchecked
  <2>2. \A p : IsField(p) /\ p[1] = "spec" => Get(b, p) = Get(obj, p)
    BY <1>10, <1>11
  <2>3. QED
    BY <1>1, <1>2, <1>9, <2>1, <2>2, SpecStays
<1>16. Identified'
  <2>1. args' = args /\ obj' = b /\ step' = step + 1 /\ args \in ArgSets
    BY <1>9 DEF Pass, IInv, Placed
  <2>2. Tree' = Tree /\ Namespace' = Namespace
    BY <2>1, TreeStays
  <2>3. Tree = "node" => ~(step' > 12)
    BY <1>2, <1>3, <2>1
  <2>4. QED
    BY <1>4, <1>12, <2>1, <2>2, <2>3 DEF Identified
<1>17. QED
  BY <1>14, <1>15, <1>16 DEF IInv

LEMMA AppendTwo ==
  ASSUME NEW a, NEW b, NEW c
  PROVE  Append(<<a, b>>, c) = <<a, b, c>>
<1> DEFINE s == Append(<<a, b>>, c)
           t == <<a, b, c>>
<1>1. <<a, b>> \in Seq({a, b, c}) /\ c \in {a, b, c} /\ Len(<<a, b>>) = 2
  OBVIOUS
<1>2. s \in Seq({a, b, c}) /\ Len(s) = 3 /\ t \in Seq({a, b, c}) /\ Len(t) = 3
  BY <1>1
<1>3. s[1] = t[1] /\ s[2] = t[2] /\ s[3] = t[3]
  BY <1>1
<1>4. DOMAIN s = 1..3 /\ DOMAIN t = 1..3
  BY <1>2
<1>5. s = [i \in DOMAIN s |-> s[i]] /\ t = [i \in DOMAIN t |-> t[i]]
  BY <1>2
<1> HIDE DEF s, t
<1>6. \A i \in 1..3 : s[i] = t[i]
  BY <1>3
<1>7. s = t
  BY <1>4, <1>5, <1>6
<1>8. QED
  BY <1>7 DEF s, t

LEMMA LabelsSafe ==
  ASSUME IInv, Labels
  PROVE  IInv'
<1> DEFINE old == GetStringMap(obj, metaLabels)
           m   == IF IsMap(old) THEN old ELSE EmptyMap
           all == With(m, "role", String("node"))
           x   == IF args.network = "" THEN all ELSE With(all, "network", String(args.network))
           n   == Reassert(obj, metaLabels, x)
<1>1. At("labels") /\ UNCHANGED <<sets, configs>> /\ Pass(n)
  BY DEF Labels
<1>2. /\ step = 12 /\ Tree = "node" /\ Tree \in Trees /\ step \in 1..Len(Layers(Tree))
      /\ exit = "none"
  BY <1>1, Standing
<1>3. IdentityAt = 11
  BY <1>2, IdentityIs
<1>4. IsMap(m)
  BY Kinds
<1> HIDE DEF m
<1>5. IsMap(all) /\ Child(all, "role") = String("node")
  BY <1>4, WithIs
<1> HIDE DEF all
<1>6. /\ IsMap(x) /\ Child(x, "role") = String("node")
      /\ args.network # "" => Child(x, "network") = String(args.network)
  <2>1. CASE args.network = ""
    BY <1>5, <2>1
  <2>2. CASE args.network # ""
    <3>1. x = With(all, "network", String(args.network))
      BY <2>2
    <3> HIDE DEF x
    <3>2. IsMap(x) /\ Child(x, "network") = String(args.network)
          /\ \A j : j # "network" => Child(x, j) = Child(all, j)
      BY <1>5, <3>1, WithIs
    <3>3. QED
      BY <1>5, <3>2
  <2>3. QED
    BY <2>1, <2>2
<1>7. x # Conflict /\ x # Missing
  BY <1>6, Kinds
<1> HIDE DEF x
<1> DEFINE b == n
<1>8. b = Reassert(obj, Meta("labels"), x)
  BY MetaNames
<1>9. Pass(b)
  BY <1>1
<1> HIDE DEF n, b
<1>10. IsMap(obj) /\ Meta("labels") \in Later
  BY MetaNames DEF IInv, Placed
<1>11. /\ IsMap(b)
       /\ \A p : IsField(p) /\ p[1] = "spec" => Get(b, p) = Get(obj, p)
       /\ \A path : IsPath(path) /\ Clear(path) /\ Read(obj, path) \notin {Missing, Conflict} =>
            Read(b, path) = Read(obj, path)
  BY <1>7, <1>8, <1>10, Reasserts
<1>12. /\ \A j : j # "labels" => Get(b, Meta(j)) = Get(obj, Meta(j))
       /\ Get(b, Meta("labels")) = x \/ \A j : Get(b, Meta(j)) = Conflict
  BY <1>7, <1>8, <1>10, ReassertIs
<1>13. sets # <<>> /\ Clear(Last(sets).path) =>
         Read(b, Last(sets).path) = Read(obj, Last(sets).path)
  <2>1. ASSUME sets # <<>>, Clear(Last(sets).path)
        PROVE  Read(b, Last(sets).path) = Read(obj, Last(sets).path)
    <3> DEFINE path == Last(sets).path
    <3>1. IsPath(path) /\ Read(obj, path) \notin {Missing, Conflict} /\ Clear(path)
      BY <2>1, LastSet DEF IInv
    <3> HIDE DEF path
    <3>2. Read(b, path) = Read(obj, path)
      BY <1>11, <3>1
    <3>3. QED
      BY <3>2 DEF path
  <2>2. QED
    BY <2>1
<1>14. Placed' /\ Stands'
  BY <1>1, <1>2, <1>9, <1>11, <1>13, Onward DEF IInv
<1>15. Sized' /\ Checked' /\ Configured'
  <2>1. Seen
    BY <1>2, Unchecked
  <2>2. QED
    BY <1>1, <1>2, <1>9, <1>11, <2>1, SpecStays
<1>16. ASSUME Get(b, metaName) # Conflict
       PROVE  /\ Get(b, Append(metaLabels, "role")) = String("node")
              /\ args.network # "" =>
                   Get(b, Append(metaLabels, "network")) = String(args.network)
  <2>1. Get(b, Meta("labels")) = x
    BY <1>12, <1>16, MetaNames
  <2>2. \A k : Get(b, Append(metaLabels, k)) = Child(x, k)
    <3> TAKE k
    <3>1. Append(metaLabels, k) = <<"metadata", "labels", k>>
      BY AppendTwo DEF metaLabels
    <3>2. Get(b, <<"metadata", "labels", k>>)
            = Step(Step(Step(b, Key("metadata")), Key("labels")), Key(k))
      BY GetThree
    <3>3. Get(b, <<"metadata", "labels">>) = Step(Step(b, Key("metadata")), Key("labels"))
      BY GetTwo
    <3>4. Get(b, <<"metadata", "labels">>) = x
      BY <2>1 DEF Meta
    <3>5. Step(x, Key(k)) = Child(x, k)
      BY <1>6, <1>7 DEF Step, Key
    <3>6. QED
      BY <3>1, <3>2, <3>3, <3>4, <3>5
  <2>3. QED
    BY <1>6, <2>2
<1>17. Identified'
  <2>1. args' = args /\ obj' = b /\ step' = step + 1 /\ args \in ArgSets
    BY <1>9 DEF Pass, IInv, Placed
  <2>2. Tree' = Tree /\ Namespace' = Namespace /\ IdentityAt' = IdentityAt
    BY <2>1, TreeStays
  <2>3. Labelled(obj)'
    BY <1>16, <2>1 DEF Labelled
  <2>4. Get(b, metaName) = Get(obj, metaName) /\ Get(b, metaNamespace) = Get(obj, metaNamespace)
    BY <1>12, MetaNames
  <2>5. step > 1 /\ step > IdentityAt
    BY <1>2, <1>3
  <2>6. Namespace # "" /\ Get(obj, metaName) \in {String(Name), Conflict}
        /\ Get(obj, metaNamespace) \in {String(Namespace), Conflict}
    BY <2>5 DEF IInv, Identified
  <2>7. QED
    BY <2>1, <2>2, <2>3, <2>4, <2>6 DEF Identified
<1>18. QED
  BY <1>14, <1>15, <1>17 DEF IInv

\* The annotations are beside the identity and the labels.
LEMMA AnnotationsSafe ==
  ASSUME IInv, Annotations
  PROVE  IInv'
<1> DEFINE old == GetStringMap(obj, metaAnnotations)
           m   == IF IsMap(old) THEN old ELSE EmptyMap
           one == With(m, "preset", String("preset"))
           x   == With(one, "version", String("version"))
           b   == Reassert(obj, metaAnnotations, x)
<1>1. At("annotations") /\ UNCHANGED <<sets, configs>> /\ Pass(b)
  BY DEF Annotations
<1>2. /\ step = AnnotationsAt /\ Tree \in Trees /\ step \in 1..Len(Layers(Tree))
      /\ exit = "none"
  BY <1>1, Standing
<1>3. step > 1 /\ step > IdentityAt /\ (Tree = "node" => step = 13)
  BY <1>2 DEF AnnotationsAt, IdentityAt
<1>4. IsMap(m)
  BY Kinds
<1> HIDE DEF m
<1>5. IsMap(one)
  BY <1>4, WithIs
<1> HIDE DEF one
<1>6. IsMap(x)
  BY <1>5, WithIs
<1>7. x # Conflict
  BY <1>6, Kinds
<1> HIDE DEF x
<1>8. b = Reassert(obj, Meta("annotations"), x)
  BY MetaNames
<1> HIDE DEF b
<1>9. IsMap(obj) /\ Meta("annotations") \in Later
  BY MetaNames DEF IInv, Placed
<1>10. /\ IsMap(b)
       /\ \A p : IsField(p) /\ p[1] = "spec" => Get(b, p) = Get(obj, p)
       /\ \A path : IsPath(path) /\ Clear(path) /\ Read(obj, path) \notin {Missing, Conflict} =>
            Read(b, path) = Read(obj, path)
  BY <1>7, <1>8, <1>9, Reasserts
<1>11. \A j : j # "annotations" => Get(b, Meta(j)) = Get(obj, Meta(j))
  BY <1>7, <1>8, <1>9, ReassertIs
<1>12. sets # <<>> /\ Clear(Last(sets).path) =>
         Read(b, Last(sets).path) = Read(obj, Last(sets).path)
  <2>1. ASSUME sets # <<>>, Clear(Last(sets).path)
        PROVE  Read(b, Last(sets).path) = Read(obj, Last(sets).path)
    <3> DEFINE path == Last(sets).path
    <3>1. IsPath(path) /\ Read(obj, path) \notin {Missing, Conflict} /\ Clear(path)
      BY <2>1, LastSet DEF IInv
    <3> HIDE DEF path
    <3>2. Read(b, path) = Read(obj, path)
      BY <1>10, <3>1
    <3>3. QED
      BY <3>2 DEF path
  <2>2. QED
    BY <2>1
<1>13. Placed' /\ Stands'
  BY <1>1, <1>2, <1>10, <1>12, Onward DEF IInv
<1>14. Sized' /\ Checked' /\ Configured'
  <2>1. Seen
    BY <1>2, Unchecked
  <2>2. QED
    BY <1>1, <1>2, <1>10, <2>1, SpecStays
<1>15. \A k : Get(b, Append(metaLabels, k)) = Get(obj, Append(metaLabels, k))
  <2> TAKE k
  <2>1. Append(metaLabels, k) = <<"metadata", "labels", k>>
    BY AppendTwo DEF metaLabels
  <2>2. Get(b, <<"metadata", "labels">>) = Get(obj, <<"metadata", "labels">>)
    BY <1>11 DEF Meta
  <2>3. \A o : Get(o, <<"metadata", "labels", k>>) = Step(Get(o, <<"metadata", "labels">>), Key(k))
    <3> TAKE o
    <3>1. Get(o, <<"metadata", "labels", k>>)
            = Step(Step(Step(o, Key("metadata")), Key("labels")), Key(k))
      BY GetThree
    <3>2. Get(o, <<"metadata", "labels">>) = Step(Step(o, Key("metadata")), Key("labels"))
      BY GetTwo
    <3>3. QED
      BY <3>1, <3>2
  <2>4. QED
    BY <2>1, <2>2, <2>3
<1>16. Identified'
  <2>1. args' = args /\ obj' = b /\ step' = step + 1 /\ args \in ArgSets
    BY <1>1 DEF Pass, IInv, Placed
  <2>2. Tree' = Tree /\ Namespace' = Namespace /\ IdentityAt' = IdentityAt
    BY <2>1, TreeStays
  <2>3. Get(b, metaName) = Get(obj, metaName) /\ Get(b, metaNamespace) = Get(obj, metaNamespace)
    BY <1>11, MetaNames
  <2>4. /\ Namespace # ""
        /\ Get(obj, metaName) \in {String(Name), Conflict}
        /\ Get(obj, metaNamespace) \in {String(Namespace), Conflict}
        /\ Tree = "node" => Labelled(obj)
    <3>1. Tree = "node" => step > 12
      BY <1>3
    <3>2. QED
      BY <1>3, <3>1 DEF IInv, Identified
  <2>5. Tree = "node" => Labelled(b)
    BY <1>15, <2>3, <2>4 DEF Labelled
  <2>6. Tree = "node" => Labelled(obj)'
    BY <2>1, <2>5 DEF Labelled
  <2>7. QED
    BY <2>1, <2>2, <2>3, <2>4, <2>6 DEF Identified
<1>17. QED
  BY <1>13, <1>14, <1>16 DEF IInv

LEMMA NextSafe == IInv /\ [Next]_vars => IInv'
<1> SUFFICES ASSUME IInv, [Next]_vars
             PROVE  IInv'
  OBVIOUS
<1>1. CASE RequireNamespace
  BY <1>1, NamespaceSafe
<1>2. CASE CheckFlags
  BY <1>2, CheckSafe
<1>3. CASE ApplyFlags
  BY <1>3, FlagsSafe
<1>4. CASE Set
  BY <1>4, SetSafe
<1>5. CASE SetsDone
  BY <1>5, SetsDoneSafe
<1>6. CASE Override
  BY <1>6, OverrideSafe
<1>7. CASE NoOverride
  BY <1>7, NoOverrideSafe
<1>8. CASE ConfigValues
  BY <1>8, ConfigSafe
<1>9. CASE RejectCPULimit
  BY <1>9, CPUSafe
<1>10. CASE ValidateStorage
  BY <1>10, StorageSafe
<1>11. CASE ValidateConsensus
  BY <1>11, ConsensusSafe
<1>12. CASE RequirePeers
  BY <1>12, PeersSafe
<1>13. CASE Identity
  BY <1>13, IdentitySafe
<1>14. CASE Labels
  BY <1>14, LabelsSafe
<1>15. CASE Annotations
  BY <1>15, AnnotationsSafe
<1>16. CASE Required
  BY <1>16, RequiredSafe
<1>17. CASE Apply
  BY <1>17, ApplySafe
<1>18. CASE UNCHANGED vars
  <2>1. UNCHANGED <<args, step, obj, sets, configs>> /\ exit' = exit
    BY <1>18 DEF vars
  <2>2. QED
    BY <2>1, Still DEF IInv, Placed
<1>19. QED
  BY <1>1, <1>2, <1>3, <1>4, <1>5, <1>6, <1>7, <1>8, <1>9, <1>10, <1>11, <1>12, <1>13, <1>14,
     <1>15, <1>16, <1>17, <1>18 DEF Next

-----------------------------------------------------------------------------
(* The theorems.                                                           *)

\* What every layer of the rendering leaves to the layers after it (render.go of
\* src/seinode, src/seinetwork and src/workflow): the object is a map, the size of
\* a volume never goes away, and a check, the identity, the labels, the list of
\* config values and the last --set hold from their layer on.
THEOREM LayersHold == Spec => []IInv
<1>1. Init => IInv
  BY InitIInv
<1>2. IInv /\ [Next]_vars => IInv'
  BY NextSafe
<1>3. QED
  BY <1>1, <1>2, PTL DEF Spec

\* An accepted object has been through all its layers.
LEMMA AcceptedIs ==
  ASSUME IInv, exit = "accepted"
  PROVE  /\ Tree \in Trees /\ step > 1 /\ step > IdentityAt
         /\ Tree # "workflow" => step > 7 /\ step > 8 /\ step > 9
         /\ Tree = "node" => step > 12
<1>1. Tree \in Trees /\ step = Len(Layers(Tree)) + 1
  BY ArgsAssumption DEF IInv, Placed, Tree
<1>2. CASE Tree = "node"
  <2>1. step = 15 /\ IdentityAt = 11
    <3>1. Len(Layers(Tree)) = 14
      BY <1>1, <1>2, TreeIs
    <3>2. IdentityAt = 11
      BY <1>1, <1>2, IdentityIs
    <3>3. step = 15
      BY <1>1, <3>1
    <3>4. QED
      BY <3>2, <3>3
  <2>2. QED
    BY <1>1, <2>1
<1>3. CASE Tree = "network"
  <2>1. step = 13 /\ IdentityAt = 10 /\ Tree # "node"
    <3>1. Len(Layers(Tree)) = 12
      BY <1>1, <1>3, TreeIs
    <3>2. IdentityAt = 10
      BY <1>1, <1>3, IdentityIs
    <3>3. step = 13
      BY <1>1, <3>1
    <3>4. QED
      BY <1>3, <3>2, <3>3
  <2>2. QED
    BY <1>1, <2>1
<1>4. CASE Tree = "workflow"
  <2>1. step = 8 /\ IdentityAt = 5
    <3>1. Len(Layers(Tree)) = 7
      BY <1>1, <1>4, TreeIs
    <3>2. IdentityAt = 5
      BY <1>1, <1>4, IdentityIs
    <3>3. step = 8
      BY <1>1, <3>1
    <3>4. QED
      BY <3>2, <3>3
  <2>2. step > 1 /\ step > IdentityAt /\ Tree # "node"
    BY <1>4, <2>1
  <2>3. QED
    BY <1>1, <1>4, <2>2
<1>5. QED
  BY <1>1, <1>2, <1>3, <1>4, TreeIs

\* Whatever the flags, the --set expressions and the overrides are, and whichever of
\* them wrote it, no accepted object has a CPU limit, a performance class without
\* a size that carries it, or the EVM-only executor under another engine than
\* Autobahn (seinode/render.go:175-193).
THEOREM NothingIsSmuggled == Spec => []NothingSmuggled
<1>1. IInv => NothingSmuggled
  <2> SUFFICES ASSUME IInv, Accepted("node") \/ Accepted("network")
               PROVE  NoLimit(obj) /\ Carried(obj) /\ UnderAutobahn(obj)
    BY DEF NothingSmuggled, NoLimit, Carried, UnderAutobahn
  <2>1. exit = "accepted" /\ Tree # "workflow"
    BY DEF Accepted
  <2>2. step > 7 /\ step > 8 /\ step > 9
    BY <2>1, AcceptedIs
  <2>3. QED
    BY <2>1, <2>2 DEF IInv, Checked
<1>2. QED
  BY <1>1, LayersHold, PTL

\* Whatever a --set made of the metadata, an accepted object carries the name and
\* the namespace of the command, never an empty one, and a node the labels of the
\* flags, or it carries none at all (seinode/render.go:203-208, manifest.go:11-14).
THEOREM IdentityIsHeld == Spec => []IdentityHolds
<1>1. IInv => IdentityHolds
  <2> SUFFICES ASSUME IInv, exit = "accepted"
               PROVE  /\ Get(obj, metaName) \in {String(Name), Conflict}
                      /\ Get(obj, metaNamespace) \in {String(Namespace), Conflict} \ {String("")}
                      /\ Tree = "node" => Labelled(obj)
    BY DEF IdentityHolds, Labelled
  <2>1. step > 1 /\ step > IdentityAt /\ (Tree = "node" => step > 12)
    BY AcceptedIs
  <2>2. /\ Namespace # "" /\ Get(obj, metaName) \in {String(Name), Conflict}
        /\ Get(obj, metaNamespace) \in {String(Namespace), Conflict}
        /\ Tree = "node" => Labelled(obj)
    BY <2>1 DEF IInv, Identified
  <2>3. Conflict # String("") /\ String(Namespace) # String("")
    <3>1. String(Namespace).val = Namespace /\ String("").val = ""
      BY DEF String
    <3>2. QED
      BY <2>2, <3>1, Kinds
  <2>4. QED
    BY <2>2, <2>3
<1>2. QED
  BY <1>1, LayersHold, PTL

\* Whatever list the preset and the --set expressions left, an accepted object that was
\* given --config-value has every key once, and under each key of the flags what
\* the last of them says (configvalue.go:121-125).
THEOREM ConfigValuesAreMerged == Spec => []ConfigValuesMerged
<1>1. IInv => ConfigValuesMerged
  BY DEF IInv, Configured, ConfigValuesMerged
<1>2. QED
  BY <1>1, LayersHold, PTL

\* The last --set of a command line stands in the accepted object, over the flags and
\* the --set expressions before it, for every path that parts from what a later
\* layer writes: the name, the namespace, the labels, the annotations, the config
\* values and the overrides (seinode/apply.go:216, seinode/render.go:157-231).
THEOREM LastSetHasWon == Spec => []LastSetWins
<1>1. IInv => LastSetWins
  BY DEF IInv, Stands, LastSetWins, Clear
<1>2. QED
  BY <1>1, LayersHold, PTL

LEMMA FieldsAre ==
  ASSUME NEW p \in Fields
  PROVE  IsField(p)
<1>1. metaName = Meta("name") /\ metaLabels = Meta("labels")
  BY MetaNames
<1>2. IsField(metaName) /\ IsField(metaLabels)
  BY <1>1, MetaFields
<1>3. QED
  BY <1>2, SpecFields DEF Fields

\* A --set that is applied reads back at its path as the value it was given, and
\* every field beside its path is what it was: the maps and lists on the way are
\* kept, whatever the object was (writeMap and writeList of cliutil/parse.go).
THEOREM SetsAreLocal == Spec => SetIsLocal
<1> DEFINE Local == sets' # sets =>
             LET e == Last(sets')
             IN  /\ Read(obj', e.path) = e.val
                 /\ \A p \in Fields : Beside(p, e.path) => Get(obj', p) = Get(obj, p)
<1>1. ASSUME IInv, [Next]_vars
      PROVE  Local
  <2>1. CASE Set
    <3>1. At("set") /\ Tree \in Trees /\ sets \in Seq(SetExprs[Tree])
      BY <2>1, <1>1, Standing DEF Set, IInv, Stands
    <3>2. PICK e \in SetExprs[Tree] :
            LET o == writeMap(obj, e.path, e.val)
            IN \/ ~IsMap(o) /\ Refuse
               \/ /\ IsMap(o)
                  /\ obj' = o
                  /\ sets' = Append(sets, e)
                  /\ UNCHANGED <<args, step, configs, announced, exit>>
      BY <2>1 DEF Set
    <3> DEFINE w == writeMap(obj, e.path, e.val)
    <3>3. CASE Refuse
      BY <3>3 DEF Refuse
    <3>4. CASE IsMap(w) /\ obj' = w /\ sets' = Append(sets, e)
      <4>1. IsPath(e.path) /\ Len(e.path) # 0
        BY <3>1, ExprsAre
      <4>2. w # Conflict
        BY <3>4, Kinds
      <4>3. Read(w, e.path) = e.val
        BY <4>1, <4>2, ReadBack
      <4>4. ASSUME NEW p \in Fields, Beside(p, e.path)
            PROVE  Get(w, p) = Get(obj, p)
        <5>1. IsField(p)
          BY FieldsAre
        <5>2. QED
          BY <4>1, <4>2, <4>4, <5>1, BesideStays
      <4>5. Last(sets') = e
        BY <3>1, <3>4 DEF Last
      <4> HIDE DEF w
      <4>6. QED
        BY <3>4, <4>3, <4>4, <4>5
    <3>5. QED
      BY <3>2, <3>3, <3>4
  <2>2. CASE ~Set
    <3>1. sets' = sets
      BY <1>1, <2>2 DEF Next, vars, RequireNamespace, CheckFlags, ApplyFlags, SetsDone, Override,
         NoOverride, ConfigValues, RejectCPULimit, ValidateStorage, ValidateConsensus,
         RequirePeers, Identity, Labels, Annotations, Required, Apply, Layer, Guard, Refuse
    <3>2. QED
      BY <3>1
  <2>3. QED
    BY <2>1, <2>2
<1>2. IInv /\ [Next]_vars => [Local]_vars
  BY <1>1
<1> HIDE DEF Local
<1>3. [][Local]_vars => SetIsLocal
  BY DEF SetIsLocal, Local
<1>4. QED
  BY <1>2, <1>3, LayersHold, PTL DEF Spec

=============================================================================
