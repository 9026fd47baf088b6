-------------------------- MODULE MCShadowResults --------------------------
(* Keys in the order of their names: two of the three pages overlap and    *)
(* one sorts against its heights; a raw export; the report being emitted.  *)
EXTENDS ShadowResults

MCContent ==
  << [kind |-> "page",   start |-> 10, end |-> 12],
     [kind |-> "other",  start |-> 13, end |-> 13],
     [kind |-> "page",   start |-> 20, end |-> 20],
     [kind |-> "page",   start |-> 9,  end |-> 10],
     [kind |-> "report", start |-> 11, end |-> 11] >>

=============================================================================
