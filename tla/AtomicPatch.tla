---------------------------- MODULE AtomicPatch ----------------------------
(***************************************************************************)
(* `seictl patch', `config patch' and `genesis patch': any number of       *)
(* processes read one target file, merge a patch into it and write the     *)
(* result in place, to another file (-o) or to stdout (src/patch.go,       *)
(* src/outputter.go, WriteFileAtomic of src/internal/patch/file.go).       *)
(*                                                                         *)
(* A document is the set of the patches merged into it.  A rename is       *)
(* durable only after the kernel wrote the directory back, and a chmod     *)
(* after it wrote the inode back: nothing syncs either.                    *)
(***************************************************************************)
CONSTANT Patchers   \* the processes: each runs one patch command

Docs   == SUBSET Patchers
Paths  == {"target", "out"}
Dests  == {"in-place", "output", "stdout"}
Modes  == {"0600", "original"}

\* The content of a synced file and the permissions of a settled one are on disk.
Files  == [doc : Docs, whole : BOOLEAN, synced : BOOLEAN, mode : Modes, settled : BOOLEAN]
NoFile == [doc |-> {}, whole |-> TRUE, synced |-> TRUE, mode |-> "none", settled |-> TRUE]
Steps  == {"read", "stat", "create", "write", "sync", "close", "chmod", "rename", "done"}

VARIABLES
  fs,       \* the file at each path
  behind,   \* per path: the files a power loss may bring back
  tmp,      \* per patcher: its temporary file
  dest,     \* per patcher: where the result goes
  pc,       \* per patcher: its next call
  read,     \* per patcher: the document it read
  perm,     \* per patcher: the permissions the result gets
  exit,     \* per patcher: how it ended
  before,   \* history, per patcher: who had patched in place when it read
  lost,     \* history: there was a power loss
  caught    \* history: one came while a chmod of a target was not on disk

vars == <<fs, behind, tmp, dest, pc, read, perm, exit, before, lost, caught>>

TypeOK ==
  /\ fs \in [Paths -> Files \cup {NoFile}]
  /\ behind \in [Paths -> SUBSET (Files \cup {NoFile})]
  /\ tmp \in [Patchers -> Files \cup {NoFile}]
  /\ dest \in [Patchers -> Dests]
  /\ pc \in [Patchers -> Steps]
  /\ read \in [Patchers -> Docs]
  /\ perm \in [Patchers -> Modes]
  /\ exit \in [Patchers -> {"none", "ok", "empty", "error", "late error", "killed"}]
  /\ before \in [Patchers -> SUBSET Patchers]
  /\ lost \in BOOLEAN /\ caught \in BOOLEAN

Init ==
  /\ fs = [x \in Paths |-> IF x = "target"
                           THEN [doc |-> {}, whole |-> TRUE, synced |-> TRUE,
                                 mode |-> "original", settled |-> TRUE]
                           ELSE NoFile]
  /\ behind = [x \in Paths |-> {}]
  /\ tmp = [p \in Patchers |-> NoFile]
  /\ dest \in [Patchers -> Dests]
  /\ pc = [p \in Patchers |-> "read"]
  /\ read = [p \in Patchers |-> {}]
  /\ perm = [p \in Patchers |-> "0600"]
  /\ exit = [p \in Patchers |-> "none"]
  /\ before = [p \in Patchers |-> {}]
  /\ lost = FALSE /\ caught = FALSE

-----------------------------------------------------------------------------

Goto(p, l) == pc' = [pc EXCEPT ![p] = l]

Exit(p, how) == Goto(p, "done") /\ exit' = [exit EXCEPT ![p] = how]

Path(p) == IF dest[p] = "in-place" THEN "target" ELSE "out"

\* Mutant: the patch replaces the document.
MergedReplaces(p) == {p}

\* patch.Merge, on documents that are sets of patches.
Merged(p) == read[p] \cup {p}

\* The calls before the temporary file exists leave what is there; the deferred
\* function removes the file, if it can: it discards the error.
Fail(p) ==
  /\ Exit(p, "error")
  /\ tmp' \in {tmp, [tmp EXCEPT ![p] = NoFile]}
  /\ UNCHANGED <<fs, behind, dest, read, perm, before, lost, caught>>

FailLate(p) ==
  /\ Exit(p, "late error")
  /\ UNCHANGED <<fs, behind, tmp, dest, read, perm, before, lost, caught>>

\* The target is read, the patch merged and the result encoded; a document or
\* a patch that does not parse is an error, an empty patch leaves the target
\* unread.  Stdout gets the result at once.
Read(p) ==
  /\ pc[p] = "read"
  /\ \/ /\ fs["target"].whole
        /\ read' = [read EXCEPT ![p] = fs["target"].doc]
        /\ before' = [before EXCEPT ![p] =
             {q \in Patchers : exit[q] = "ok" /\ dest[q] = "in-place"}]
        /\ \/ dest[p] = "in-place" /\ Goto(p, "stat") /\ UNCHANGED exit
           \/ dest[p] = "output" /\ Goto(p, "create") /\ UNCHANGED exit
           \/ dest[p] = "stdout" /\ Exit(p, "ok")
        /\ UNCHANGED <<fs, behind, tmp, dest, perm, lost, caught>>
     \/ /\ Exit(p, "empty")
        /\ UNCHANGED <<fs, behind, tmp, dest, read, perm, before, lost, caught>>
     \/ Fail(p)

\* Mutant: the permissions are those of the temporary file, not there yet.
StatTemporary(p) ==
  /\ pc[p] = "stat"
  /\ perm' = [perm EXCEPT ![p] = tmp[p].mode]
  /\ Goto(p, "create")
  /\ UNCHANGED <<fs, behind, tmp, dest, read, exit, before, lost, caught>>

\* In place, the result gets the permissions the target has now.
Stat(p) ==
  /\ pc[p] = "stat"
  /\ \/ /\ perm' = [perm EXCEPT ![p] = fs["target"].mode]
        /\ Goto(p, "create")
        /\ UNCHANGED <<fs, behind, tmp, dest, read, exit, before, lost, caught>>
     \/ Fail(p)

\* os.CreateTemp: a new file that only its owner may use.
Create(p) ==
  /\ pc[p] = "create"
  /\ \/ /\ tmp' = [tmp EXCEPT ![p] = [doc |-> {}, whole |-> FALSE,
                                        synced |-> FALSE, mode |-> "0600",
                                        settled |-> FALSE]]
        /\ Goto(p, "write")
        /\ UNCHANGED <<fs, behind, dest, read, perm, exit, before, lost, caught>>
     \/ Fail(p)

Write(p) ==
  /\ pc[p] = "write"
  /\ \/ /\ tmp' = [tmp EXCEPT ![p].doc = Merged(p), ![p].whole = TRUE]
        /\ Goto(p, "sync")
        /\ UNCHANGED <<fs, behind, dest, read, perm, exit, before, lost, caught>>
     \/ Fail(p)

\* Mutant: the content is not synced.
NoSync(p) ==
  /\ pc[p] = "sync"
  /\ \/ /\ Goto(p, "close")
        /\ UNCHANGED <<fs, behind, tmp, dest, read, perm, exit, before, lost, caught>>
     \/ Fail(p)

Sync(p) ==
  /\ pc[p] = "sync"
  /\ \/ /\ tmp' = [tmp EXCEPT ![p].synced = TRUE, ![p].settled = TRUE]
        /\ Goto(p, "close")
        /\ UNCHANGED <<fs, behind, dest, read, perm, exit, before, lost, caught>>
     \/ Fail(p)

Close(p) ==
  /\ pc[p] = "close"
  /\ \/ /\ Goto(p, "chmod")
        /\ UNCHANGED <<fs, behind, tmp, dest, read, perm, exit, before, lost, caught>>
     \/ Fail(p)

\* Mutant: the result keeps the permissions of the temporary file.
NoChmod(p) ==
  /\ pc[p] = "chmod"
  /\ Goto(p, "rename")
  /\ UNCHANGED <<fs, behind, tmp, dest, read, perm, exit, before, lost, caught>>

\* After the only sync: the inode is dirty again.
Chmod(p) ==
  /\ pc[p] = "chmod"
  /\ \/ /\ tmp' = [tmp EXCEPT ![p].mode = perm[p], ![p].settled = FALSE]
        /\ Goto(p, "rename")
        /\ UNCHANGED <<fs, behind, dest, read, perm, exit, before, lost, caught>>
     \/ FailLate(p)

Rename(p) ==
  /\ pc[p] = "rename"
  /\ \/ /\ fs' = [fs EXCEPT ![Path(p)] = tmp[p]]
        /\ behind' = [behind EXCEPT ![Path(p)] = @ \cup {fs[Path(p)]}]
        /\ tmp' = [tmp EXCEPT ![p] = NoFile]
        /\ Exit(p, "ok")
        /\ UNCHANGED <<dest, read, perm, before, lost, caught>>
     \/ FailLate(p)

\* The process is killed: nothing cleans up.
Kill(p) ==
  /\ pc[p] # "done"
  /\ Exit(p, "killed")
  /\ UNCHANGED <<fs, behind, tmp, dest, read, perm, before, lost, caught>>

\* The kernel writes the directory of a path back.
WriteBack(x) ==
  /\ behind[x] # {}
  /\ behind' = [behind EXCEPT ![x] = {}]
  /\ UNCHANGED <<fs, tmp, dest, pc, read, perm, exit, before, lost, caught>>

\* It writes back the inode of the file at a path, with its permissions.
WriteInode(x) ==
  /\ ~fs[x].settled
  /\ fs' = [fs EXCEPT ![x].settled = TRUE]
  /\ UNCHANGED <<behind, tmp, dest, pc, read, perm, exit, before, lost, caught>>

\* The permissions after a power loss: a chmod that was not on disk may be undone.
ModesAfterLoss(f) == IF f.settled THEN {f.mode} ELSE {f.mode, "0600"}

\* What a file that was not synced holds after a power loss is anybody's guess.
AfterLoss(f) ==
  {[f EXCEPT !.whole = f.synced /\ @, !.synced = TRUE, !.mode = m, !.settled = TRUE] :
     m \in ModesAfterLoss(f)}

May(x)  == behind[x] \cup {fs[x]}
Back(x) == UNION {AfterLoss(f) : f \in May(x)}

\* The machine stops.  Every started process dies with it; nothing reads its
\* temporary file again.
PowerLoss ==
  /\ \E t \in Back("target"), o \in Back("out") :
       fs' = [x \in Paths |-> IF x = "target" THEN t ELSE o]
  /\ behind' = [x \in Paths |-> {}]
  /\ pc' = [p \in Patchers |-> IF pc[p] = "read" THEN "read" ELSE "done"]
  /\ exit' = [p \in Patchers |-> IF pc[p] \in {"read", "done"} THEN exit[p] ELSE "killed"]
  /\ lost' = TRUE
  /\ caught' = (caught \/ \E f \in May("target") : ~f.settled)
  /\ UNCHANGED <<tmp, dest, read, perm, before>>

Patch(p) ==
  \/ Read(p) \/ Stat(p) \/ Create(p) \/ Write(p) \/ Sync(p) \/ Close(p)
  \/ Chmod(p) \/ Rename(p)

Next ==
  \/ \E p \in Patchers : Patch(p) \/ Kill(p)
  \/ \E x \in Paths : WriteBack(x) \/ WriteInode(x)
  \/ PowerLoss

Spec == Init /\ [][Next]_vars

-----------------------------------------------------------------------------
(* Properties.                                                             *)

\* README.md:483: whatever fails or dies, and whenever, a reader finds one
\* whole document at a path, never half of one.
WholeDocuments == \A x \in Paths : fs[x].whole

\* The target keeps the permissions it had, although the files that replace it
\* are created with others: through failures, kills and power losses, except one
\* that comes between a chmod (file.go:36) and the write-back of the inode.
PermissionsHold == ~caught => fs["target"].mode = "original"

\* A patch that succeeded is in the target, unless another in-place patch that
\* had not seen it done wrote over it or a power loss undid it: patches that do
\* not overlap never undo each other (read-merge-write without a lock).
Patched(p) == exit[p] = "ok" /\ dest[p] = "in-place"

OnlyOverlapsLose ==
  \A p \in Patchers :
    Patched(p) /\ p \notin fs["target"].doc
      => \/ \E q \in Patchers \ {p} : Patched(q) /\ p \notin before[q]
         \/ lost

\* The target is an atomic file.
Status(p) ==
  IF dest[p] # "in-place" \/ pc[p] = "read" THEN "idle"
  ELSE IF pc[p] # "done" THEN "busy"
  ELSE IF exit[p] = "ok" THEN "ok" ELSE "failed"

Abstract == INSTANCE AtomicFile WITH
  doc     <- fs["target"].doc,
  earlier <- {f.doc : f \in behind["target"]},
  snap    <- [p \in Patchers |-> IF dest[p] = "in-place" THEN read[p] ELSE {}],
  status  <- [p \in Patchers |-> Status(p)]

\* Every step of the commands is a step of the atomic file, or none.
ImplementsAtomicFile == Abstract!Spec

=============================================================================
