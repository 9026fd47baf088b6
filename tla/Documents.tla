----------------------------- MODULE Documents -----------------------------
(***************************************************************************)
(* The documents the apply commands build their objects from, and the two  *)
(* ways they write them: by field (SetNestedField of apimachinery) and by  *)
(* a --set path (ApplySet of src/internal/cliutil/parse.go).               *)
(*                                                                         *)
(* A document is a map, a list or a scalar.  Missing is a path that leads  *)
(* nowhere, Conflict a path that meets something of the wrong kind.  The   *)
(* recursions of the code run along a path, down and up: they are functions *)
(* of the place on the path.                                               *)
(***************************************************************************)
EXTENDS Naturals, Sequences

Missing  == [kind |-> "missing"]
Conflict == [kind |-> "conflict"]

Map(f)    == [kind |-> "map", at |-> f]
List(s)   == [kind |-> "list", seq |-> s]
String(s) == [kind |-> "string", val |-> s]
Number(n)    == [kind |-> "int", val |-> n]
Bool(b)   == [kind |-> "bool", val |-> b]

EmptyMap == Map(<<>>)

\* What parseValue makes of the right side of a --set.
Scalars == [kind : {"string", "int", "bool"}, val : STRING]

IsMap(v) == v.kind = "map"

\* m with x under k.
With(m, k, x) == Map([j \in DOMAIN m.at \cup {k} |-> IF j = k THEN x ELSE m.at[j]])

Child(m, k) == IF k \in DOMAIN m.at THEN m.at[k] ELSE Missing

\* A segment of a --set path is a key and, when it goes on into a list, an index.
\* The path of a field has keys alone.
Segments == [key : STRING, isList : BOOLEAN, listIdx : Nat]
Paths    == Seq(Segments)

Key(k)        == [key |-> k, isList |-> FALSE, listIdx |-> 0]
Item(k, i)    == [key |-> k, isList |-> TRUE, listIdx |-> i]
KeyPath(path) == [i \in DOMAIN path |-> Key(path[i])]

-----------------------------------------------------------------------------
(* Reading.                                                                *)

\* What stands under one segment.
Step(v, seg) ==
  IF v = Missing THEN Missing
  ELSE IF ~IsMap(v) THEN Conflict
  ELSE LET x == Child(v, seg.key)
       IN IF ~seg.isList \/ x = Missing THEN x
          ELSE IF x.kind # "list" THEN Conflict
          ELSE IF seg.listIdx + 1 \in DOMAIN x.seq THEN x.seq[seg.listIdx + 1] ELSE Missing

\* What stands behind the first segments of a path, one after the other.
Along(v, path) ==
  LET met[i \in 0..Len(path)] == IF i = 0 THEN v ELSE Step(met[i - 1], path[i]) IN met

Read(v, path) == Along(v, path)[Len(path)]

\* NestedFieldNoCopy.
Get(v, path) == Read(v, KeyPath(path))

\* NestedString, NestedBool, NestedSlice and NestedMap.
GetKind(v, path, kind) ==
  LET x == Get(v, path) IN IF x = Missing \/ x.kind = kind THEN x ELSE Conflict

\* NestedStringMap.
GetStringMap(v, path) ==
  LET x == GetKind(v, path, "map")
  IN IF IsMap(x) /\ \E k \in DOMAIN x.at : x.at[k].kind # "string" THEN Conflict ELSE x

-----------------------------------------------------------------------------
(* Writing.                                                                *)

\* Mutant: the maps on the way are made anew.
MadeAnew(v) == EmptyMap

\* The map a write goes on in: what is not there is made.
OrMade(v) == IF v = Missing THEN EmptyMap ELSE v

\* An item is replaced, or appended.
PutItem(list, idx, x) ==
  [i \in DOMAIN list \cup {idx + 1} |-> IF i = idx + 1 THEN x ELSE list[i]]

\* v with x under one segment.  What is of another kind is an error, an index
\* may be the next one but not beyond, and an error below is one above.
Put(v, seg, x) ==
  IF x = Conflict \/ ~IsMap(v) THEN Conflict
  ELSE IF ~seg.isList THEN With(v, seg.key, x)
  ELSE LET old  == Child(v, seg.key)
           list == IF old = Missing THEN <<>> ELSE old.seq
       IN IF old # Missing /\ old.kind # "list" THEN Conflict
          ELSE IF seg.listIdx \notin {0} \cup DOMAIN list THEN Conflict
          ELSE With(v, seg.key, List(PutItem(list, seg.listIdx, x)))

\* The value in the maps and items of the way down, from the last one up: what
\* writeMap and writeList, which call each other, leave at each return.
Built(m, path, value) ==
  LET way == Along(m, path)
      new[j \in 0..Len(path)] ==
        IF j = 0 THEN value
        ELSE Put(OrMade(way[Len(path) - j]), path[Len(path) - j + 1], new[j - 1])
  IN new

writeMap(m, path, value) == Built(m, path, value)[Len(path)]

\* SetNestedField.
SetNested(v, path, x) == writeMap(v, KeyPath(path), x)

=============================================================================
