--------------------------- MODULE ShadowCompare ---------------------------
(***************************************************************************)
(* Comparator.CompareBlock (src/internal/shadow): the layered comparison   *)
(* of a shadow chain with a canonical one, block after block.              *)
(*                                                                         *)
(* The chains and the loop over the heights are external.  A header tells  *)
(* of the executions before its block: its LastResultsHash of the receipts *)
(* of the last one, without their logs and events, its AppHash of all.     *)
(***************************************************************************)
EXTENDS Naturals, Sequences

CONSTANTS
  Top,       \* the last height
  Blocks,    \* what canonical blocks hold: sequences of receipts
  Shadows    \* what the shadow may make of a block

Heights  == 1..Top
Receipts == {"ok", "failed", "ok with other log"}
States   == {"same", "touched", "untouched"}
Config   == [migration : BOOLEAN, layer2 : BOOLEAN]

ASSUME TopAssumption == Top \in Nat

ASSUME BlocksAssumption == Blocks \cup Shadows \subseteq Seq(Receipts)

\* What a layer found: nothing as it did not run, that it could not, or where
\* the chains differ.
Unrun   == [ran |-> FALSE, indeterminate |-> FALSE, divergences |-> {}]
Aborted == [ran |-> TRUE, indeterminate |-> TRUE, divergences |-> {}]
Found(D) == [ran |-> TRUE, indeterminate |-> FALSE, divergences |-> D]
Layers(D) == [ran : BOOLEAN, indeterminate : BOOLEAN, divergences : SUBSET D]

NoReport == [done |-> FALSE, match |-> FALSE, layer |-> {}, l1 |-> Unrun, l2 |-> Unrun]

VARIABLES
  canonical, shadow,   \* per height: the receipts of each chain
  state,               \* per height: where its execution changed the state differently
  config,              \* the options of the comparator
  height, pc,          \* the block under comparison and its layer
  l0, l1, l2,          \* what the layers found
  report               \* per height: the result

chains == <<canonical, shadow, state, config>>
vars == <<chains, height, pc, l0, l1, l2, report>>

TypeOK ==
  /\ canonical \in [Heights -> Blocks] /\ shadow \in [Heights -> Blocks \cup Shadows]
  /\ state \in [Heights -> States]
  /\ config \in Config
  /\ height \in 1..(Top + 1) /\ pc \in {"layer 0", "layer 1", "layer 2", "verdict"}
  /\ l0 \in [appHash : BOOLEAN, lastResultsHash : BOOLEAN]
  /\ l1 \in Layers(Nat) /\ l2 \in Layers({"touched"})
  /\ \A h \in Heights : /\ report[h].match \in BOOLEAN
                        /\ report[h].layer \subseteq 0..2

AllMatch == [appHash |-> TRUE, lastResultsHash |-> TRUE]

Init ==
  /\ canonical \in [Heights -> Blocks]
  /\ shadow \in [Heights -> Blocks \cup Shadows]
  /\ state \in [Heights -> States]
  /\ config \in Config
  /\ height = 1 /\ pc = "layer 0"
  /\ l0 = AllMatch /\ l1 = Unrun /\ l2 = Unrun
  /\ report = [h \in Heights |-> NoReport]

-----------------------------------------------------------------------------
(* The chains.                                                             *)

Hashed(txs) == [i \in DOMAIN txs |-> txs[i] = "failed"]

SameResults(h) == Hashed(shadow[h]) = Hashed(canonical[h])

\* A migration changes the AppHash of every block.
Header(h) ==
  [appHash |-> ~config.migration /\ \A g \in 1..(h - 1) : state[g] = "same" /\ SameResults(g),
   lastResultsHash |-> h = 1 \/ SameResults(h - 1)]

-----------------------------------------------------------------------------
(* The layers.                                                             *)

\* compareLayer1: the positions whose receipts differ, or that one block lacks.
TxDivergences(s, c) ==
  {i \in 1..(IF Len(s) > Len(c) THEN Len(s) ELSE Len(c)) :
     i > Len(s) \/ i > Len(c) \/ (i <= Len(s) /\ i <= Len(c) /\ s[i] # c[i])}

\* compareState: the logical state of the keys the block touched.
StateDivergences(h) == {x \in {"touched"} : state[h] = x}

\* Mutants: the AppHash is not looked at, or is held against a migration too.
LastResultsOnly(header) == ~header.lastResultsHash

AnyField(header) == ~(header.appHash /\ header.lastResultsHash)

\* A migration expects another AppHash; otherwise any field counts.
RealL0Divergence(header) ==
  IF config.migration THEN ~header.lastResultsHash
  ELSE ~(header.appHash /\ header.lastResultsHash)

Deeper == RealL0Divergence(l0) \/ config.migration

\* An error of Layer 0 is returned to the caller, who compares again.
CompareLayer0 ==
  /\ height <= Top /\ pc = "layer 0"
  /\ l0' = Header(height)
  /\ pc' = "layer 1"
  /\ UNCHANGED <<chains, height, l1, l2, report>>

\* Mutant: an error of Layer 1 is a missing detail in every mode.
Layer1ErrorPasses == Unrun

\* Outside a migration an error of Layer 1 only loses detail.
Layer1Error == IF config.migration THEN Aborted ELSE Unrun

CompareLayer1 ==
  /\ pc = "layer 1"
  /\ l1' \in (IF Deeper
              THEN {Found(TxDivergences(shadow[height], canonical[height])), Layer1Error}
              ELSE {Unrun})
  /\ pc' = "layer 2"
  /\ UNCHANGED <<chains, height, l0, l2, report>>

\* A read that fails or runs into the layer's timeout aborts the layer.
CompareLayer2 ==
  /\ pc = "layer 2"
  /\ l2' \in (IF config.layer2 /\ Deeper
              THEN {Found(StateDivergences(height)), Aborted}
              ELSE {Unrun})
  /\ pc' = "verdict"
  /\ UNCHANGED <<chains, height, l0, l1, report>>

Fired(l) == l.divergences # {} \/ l.indeterminate

\* The deepest layer that fired.
DivergenceLayer(header, first, second) ==
  IF Fired(second) THEN {2} ELSE IF Fired(first) THEN {1}
  ELSE IF RealL0Divergence(header) THEN {0} ELSE {}

Verdict ==
  /\ pc = "verdict"
  /\ LET layer == DivergenceLayer(l0, l1, l2)
     IN report' = [report EXCEPT ![height] =
          [done |-> TRUE, match |-> layer = {}, layer |-> layer, l1 |-> l1, l2 |-> l2]]
  /\ height' = height + 1
  /\ pc' = "layer 0"
  /\ l0' = AllMatch /\ l1' = Unrun /\ l2' = Unrun
  /\ UNCHANGED chains

Next == CompareLayer0 \/ CompareLayer1 \/ CompareLayer2 \/ Verdict

Spec == Init /\ [][Next]_vars

-----------------------------------------------------------------------------
(* Properties.                                                             *)

Reported(h) == report[h].done

\* In a migration a block only matches when every load-bearing check ran and
\* agreed: the receipts of the block and, when configured, the state it
\* touched; an error never reads as agreement (comparator.go, 106-149).
MigrationFailsClosed ==
  config.migration => \A h \in Heights : Reported(h) /\ report[h].match =>
    /\ shadow[h] = canonical[h]
    /\ config.layer2 => state[h] # "touched" /\ report[h].l2.ran

\* Outside a migration no divergence of results or state escapes the scan: the
\* block after it is reported, whatever else failed.
NothingEscapes ==
  ~config.migration => \A h \in Heights \ {1} :
    Reported(h) /\ report[h].match => /\ SameResults(h - 1)
                                      /\ \A g \in 1..(h - 1) : state[g] = "same"

\* In a migration a block that is no match is blamed on a real cause: results
\* that differ here or one block before, touched state, or a check that could
\* not run.  The expected AppHash alone never stops a migration.
NoFalseAlarm ==
  config.migration => \A h \in Heights : Reported(h) /\ ~report[h].match =>
    \/ shadow[h] # canonical[h] \/ (h > 1 /\ ~SameResults(h - 1))
    \/ state[h] = "touched"
    \/ report[h].l1.indeterminate \/ report[h].l2.indeterminate

-----------------------------------------------------------------------------
(* What a comment says, and a run refutes.                                 *)

\* comparator.go:97-98: LastResultsHash at height N reflects N-1 execution;
\* the Layer 1 signal lands on the correct height, so attribution stays
\* accurate.  When the results of N-1 differ and N is reported for it, the
\* report of N-1 names the transactions.
AttributionIsAccurate ==
  \A h \in Heights \ {1} :
    Reported(h) /\ ~report[h].match /\ ~SameResults(h - 1) =>
      report[h - 1].l1.divergences # {} \/ report[h - 1].l1.indeterminate

=============================================================================
