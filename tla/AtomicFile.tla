----------------------------- MODULE AtomicFile -----------------------------
(***************************************************************************)
(* What an in-place patch promises (src/README.md, "Safety Features"): the *)
(* file always holds one whole document.  A patch replaces the document it *)
(* read by that document patched, in one step, or leaves the file alone; a *)
(* power loss may only bring back a document the file has held.            *)
(*                                                                         *)
(* A document is the set of the patches merged into it.                    *)
(***************************************************************************)
CONSTANT Patchers

VARIABLES
  doc,      \* the document in the file
  earlier,  \* the documents a power loss may bring back
  snap,     \* per patcher: the document it read
  status    \* per patcher: "idle", "busy", "ok" or "failed"

vars == <<doc, earlier, snap, status>>

Init ==
  /\ doc = {}
  /\ earlier = {}
  /\ snap = [p \in Patchers |-> {}]
  /\ status = [p \in Patchers |-> "idle"]

Open(p) ==
  /\ status[p] = "idle"
  /\ snap' = [snap EXCEPT ![p] = doc]
  /\ status' = [status EXCEPT ![p] = "busy"]
  /\ UNCHANGED <<doc, earlier>>

Replace(p) ==
  /\ status[p] = "busy"
  /\ doc' = snap[p] \cup {p}
  /\ earlier' = earlier \cup {doc}
  /\ status' = [status EXCEPT ![p] = "ok"]
  /\ UNCHANGED snap

GiveUp(p) ==
  /\ status[p] \in {"idle", "busy"}
  /\ status' = [status EXCEPT ![p] = "failed"]
  /\ UNCHANGED <<doc, earlier, snap>>

Settle ==
  /\ earlier' = {}
  /\ UNCHANGED <<doc, snap, status>>

PowerLoss ==
  /\ doc' \in earlier \cup {doc}
  /\ earlier' = {}
  /\ status' = [p \in Patchers |-> IF status[p] = "busy" THEN "failed" ELSE status[p]]
  /\ UNCHANGED snap

Next ==
  \/ \E p \in Patchers : Open(p) \/ Replace(p) \/ GiveUp(p)
  \/ Settle \/ PowerLoss

Spec == Init /\ [][Next]_vars

=============================================================================
