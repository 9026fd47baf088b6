--------------------------- MODULE AtomicPublish ---------------------------
(***************************************************************************)
(* What an emit promises about the object at its key: it stays as it was   *)
(* or becomes the whole new payload, in one step, and the emit only        *)
(* returns success once it did.                                            *)
(***************************************************************************)
VARIABLES object, result

vars == <<object, result>>

Init == object = "old" /\ result = "none"

Publish ==
  /\ result = "none" /\ object = "old"
  /\ object' = "new"
  /\ UNCHANGED result

\* A failed emit may have published: the answer of S3 can be lost.
Return ==
  /\ result = "none"
  /\ result' \in {"error"} \cup (IF object = "new" THEN {"ok"} ELSE {})
  /\ UNCHANGED object

Next == Publish \/ Return

Spec == Init /\ [][Next]_vars

=============================================================================
