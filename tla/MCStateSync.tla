---------------------------- MODULE MCStateSync ----------------------------
(* Instances of StateSync for TLC.                                         *)
EXTENDS StateSync, TLC

AnySpec == CHOOSE s \in Specs : TRUE

\* Command lines against one name: watched runs of either recipe, with and
\* without the re-appliable edit, an unwatched apply and a delete.
RaceCommands ==
  {a \in Args : /\ a.cmd \in {"state-sync", "apply", "delete"}
                /\ a.until = "Complete"
                /\ (a.cmd = "delete" => a.spec = AnySpec)}

\* Every command.  An ungated watch waits for Running or Complete.
AllCommands ==
  {a \in Args : /\ a.cmd \in {"dry-run", "watch", "delete"} => a.spec = AnySpec
                /\ a.cmd # "watch" => a.until = "Complete"
                /\ a.until \in {"Running", "Complete"}}

RunSymmetry == Permutations(Runs)
=============================================================================
