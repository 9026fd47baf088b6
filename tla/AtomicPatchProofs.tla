------------------------- MODULE AtomicPatchProofs -------------------------
(***************************************************************************)
(* The safety properties of AtomicPatch, and that it implements AtomicFile,*)
(* for every set of patch processes.                                       *)
(***************************************************************************)
EXTENDS AtomicPatch, TLAPS

-----------------------------------------------------------------------------
(* The inductive invariant.                                                *)

Started  == {"stat", "create", "write", "sync", "close", "chmod", "rename"}
Opened   == {"write", "sync", "close", "chmod", "rename"}
Written  == {"sync", "close", "chmod", "rename"}
Flushed  == {"close", "chmod", "rename"}

\* What is known of a patcher and its temporary file at each call.
Stage(p) ==
  /\ pc[p] # "done" => exit[p] = "none"
  /\ pc[p] \in {"read", "stat", "create"} => tmp[p] = NoFile
  /\ pc[p] \in Opened => tmp[p] \in Files
  /\ pc[p] \in Written => tmp[p].whole /\ tmp[p].doc = Merged(p)
  /\ pc[p] \in Flushed => tmp[p].synced
  /\ pc[p] = "rename" => tmp[p].mode = perm[p]
  /\ pc[p] = "stat" => dest[p] = "in-place"
  /\ pc[p] \in Started \ {"stat"} /\ dest[p] = "in-place" => caught \/ perm[p] = "original"

\* What stands at a path, or may come back there, is whole and on disk.  The
\* target is a file with its permissions, unless a power loss caught a chmod.
Sound(f) == f.whole /\ f.synced

Disk ==
  /\ \A x \in Paths : \A f \in May(x) : Sound(f)
  /\ \A f \in May("target") : f \in Files /\ (caught \/ f.mode = "original")

\* An overlapping patch wrote over p.
Overwritten(p) == \E q \in Patchers \ {p} : Patched(q) /\ p \notin before[q]

\* What a patcher has read holds the patches done before, or they were lost.
ReadsAll ==
  ~lost => \A q \in Patchers : dest[q] = "in-place" /\ pc[q] \in Started =>
             \A p \in before[q] : p \in read[q] \/ Overwritten(p)

IInv ==
  /\ TypeOK
  /\ \A p \in Patchers : Stage(p)
  /\ Disk
  /\ ReadsAll
  /\ OnlyOverlapsLose

-----------------------------------------------------------------------------
(* Types.                                                                  *)

\* What stood in a power loss stands, but for a chmod that was not on disk.
LEMMA AfterLossType ==
  ASSUME NEW f \in Files \cup {NoFile}, NEW g \in AfterLoss(f)
  PROVE  /\ g \in Files \cup {NoFile}
         /\ f \in Files => g \in Files
         /\ g.doc = f.doc
         /\ Sound(f) => Sound(g)
         /\ f.settled => g.mode = f.mode
<1>1. PICK m \in ModesAfterLoss(f) :
        g = [f EXCEPT !.whole = f.synced /\ f.whole, !.synced = TRUE, !.mode = m,
                      !.settled = TRUE]
  BY DEF AfterLoss
<1>2. f.settled => m = f.mode
  BY DEF ModesAfterLoss
<1>3. CASE f = NoFile
  <2>1. f.settled /\ f.synced /\ f.whole /\ m = "none"
    BY <1>2, <1>3 DEF NoFile
  <2>2. g = NoFile
    BY <1>1, <1>3, <2>1 DEF NoFile
  <2>3. NoFile \notin Files
    BY DEF NoFile, Files, Modes
  <2>4. QED
    BY <1>2, <1>3, <2>2, <2>3
<1>4. CASE f \in Files
  <2>1. m \in Modes
    BY <1>4 DEF ModesAfterLoss, Files, Modes
  <2>2. g = [doc |-> f.doc, whole |-> f.synced /\ f.whole, synced |-> TRUE,
             mode |-> m, settled |-> TRUE]
    BY <1>1, <1>4 DEF Files
  <2>3. QED
    BY <1>2, <1>4, <2>1, <2>2 DEF Files, Sound
<1>5. QED
  BY <1>3, <1>4

\* The write-back of an inode is all that changes then, and only says that the
\* permissions are on disk.
LEMMA InodeEffect ==
  ASSUME TypeOK, NEW x \in Paths, WriteInode(x)
  PROVE  /\ fs' \in [Paths -> Files \cup {NoFile}]
         /\ \A y \in Paths : /\ fs'[y].doc = fs[y].doc /\ fs'[y].mode = fs[y].mode
                             /\ fs'[y].whole = fs[y].whole /\ fs'[y].synced = fs[y].synced
                             /\ fs[y] \in Files => fs'[y] \in Files
         /\ UNCHANGED <<behind, tmp, dest, pc, read, perm, exit, before, lost, caught>>
<1>1. fs[x] \in Files
  <2>1. NoFile.settled
    BY DEF NoFile
  <2>2. fs[x] # NoFile /\ fs[x] \in Files \cup {NoFile}
    BY <2>1 DEF WriteInode, TypeOK
  <2>3. QED
    BY <2>2
<1> DEFINE f == [fs[x] EXCEPT !.settled = TRUE]
<1>2. /\ f \in Files /\ f.doc = fs[x].doc /\ f.mode = fs[x].mode
      /\ f.whole = fs[x].whole /\ f.synced = fs[x].synced
  BY <1>1 DEF Files
<1>3. fs' = [fs EXCEPT ![x] = f]
  BY DEF WriteInode
<1> HIDE DEF f
<1>4. QED
  BY <1>2, <1>3 DEF WriteInode, TypeOK

\* There is a target at first, and no other file.
LEMMA InitType == Init => TypeOK
<1> SUFFICES ASSUME Init PROVE TypeOK
  OBVIOUS
<1>1. [doc |-> {}, whole |-> TRUE, synced |-> TRUE, mode |-> "original",
       settled |-> TRUE] \in Files
  BY DEF Files, Docs, Modes
<1>2. fs \in [Paths -> Files \cup {NoFile}]
  BY <1>1 DEF Init
<1>3. QED
  BY <1>2 DEF Init, TypeOK, Modes, Docs, Steps

\* Each call leaves a file a file.
LEMMA FileEdits ==
  ASSUME NEW f \in Files, NEW d \in Docs, NEW m \in Modes
  PROVE  /\ [f EXCEPT !.doc = d, !.whole = TRUE] \in Files
         /\ [f EXCEPT !.synced = TRUE, !.settled = TRUE] \in Files
         /\ [f EXCEPT !.mode = m, !.settled = FALSE] \in Files
<1>1. [f EXCEPT !.doc = d, !.whole = TRUE] \in Files
  BY DEF Files
<1>2. [f EXCEPT !.synced = TRUE, !.settled = TRUE] \in Files
  BY DEF Files
<1>3. [f EXCEPT !.mode = m, !.settled = FALSE] \in Files
  BY DEF Files
<1>4. QED
  BY <1>1, <1>2, <1>3

\* A call of one patcher keeps the types.
LEMMA PatchType ==
  ASSUME TypeOK, \A q \in Patchers : Stage(q), Disk,
         NEW p \in Patchers, Patch(p) \/ Kill(p)
  PROVE  TypeOK'
<1> USE DEF TypeOK, Goto, Exit
<1>1. CASE Kill(p)
  BY <1>1 DEF Kill, Steps
<1>2. CASE Fail(p)
  BY <1>2 DEF Fail, Steps
<1>3. CASE FailLate(p)
  BY <1>3 DEF FailLate, Steps
<1>4. CASE Read(p)
  <2>1. fs["target"].doc \in Docs
    <3>1. fs["target"] \in Files \cup {NoFile}
      BY DEF Paths
    <3>2. NoFile.doc = {}
      BY DEF NoFile
    <3>3. {} \in Docs
      BY DEF Docs
    <3>4. QED
      BY <3>1, <3>2, <3>3 DEF Files
  <2> DEFINE done == {q \in Patchers : exit[q] = "ok" /\ dest[q] = "in-place"}
  <2>2. done \in SUBSET Patchers
    OBVIOUS
  <2>3. CASE ~Fail(p)
    <3>0. \/ UNCHANGED <<read, before>>
          \/ /\ read' = [read EXCEPT ![p] = fs["target"].doc]
             /\ before' = [before EXCEPT ![p] = done]
      BY <1>4, <2>3 DEF Read
    <3>1. read' \in [Patchers -> Docs] /\ before' \in [Patchers -> SUBSET Patchers]
      <4> HIDE DEF done
      <4>1. QED
        BY <2>1, <2>2, <3>0
    <3>2. pc' \in [Patchers -> Steps]
      BY <1>4, <2>3 DEF Read, Steps
    <3>3. exit' \in [Patchers -> {"none", "ok", "empty", "error", "late error", "killed"}]
      BY <1>4, <2>3 DEF Read
    <3>4. UNCHANGED <<fs, behind, tmp, dest, perm, lost, caught>>
      BY <1>4, <2>3 DEF Read
    <3>5. QED
      BY <3>1, <3>2, <3>3, <3>4
  <2>4. QED
    BY <1>2, <2>3
<1>5. CASE Stat(p)
  <2>1. fs["target"].mode \in Modes
    BY DEF Disk, May, Files
  <2>2. CASE ~Fail(p)
    <3>1. /\ perm' = [perm EXCEPT ![p] = fs["target"].mode]
          /\ pc' = [pc EXCEPT ![p] = "create"]
          /\ UNCHANGED <<fs, behind, tmp, dest, read, exit, before, lost, caught>>
      BY <1>5, <2>2 DEF Stat
    <3>2. perm' \in [Patchers -> Modes] /\ pc' \in [Patchers -> Steps]
      BY <2>1, <3>1 DEF Steps
    <3>3. QED
      BY <3>1, <3>2
  <2>3. QED
    BY <1>2, <2>2
<1>6. CASE Create(p)
  <2>1. [doc |-> {}, whole |-> FALSE, synced |-> FALSE, mode |-> "0600",
       settled |-> FALSE] \in Files
    BY DEF Files, Docs, Modes
  <2> DEFINE f == [doc |-> {}, whole |-> FALSE, synced |-> FALSE, mode |-> "0600",
       settled |-> FALSE]
  <2>2. CASE ~Fail(p)
    <3>1. /\ tmp' = [tmp EXCEPT ![p] = f] /\ pc' = [pc EXCEPT ![p] = "write"]
          /\ UNCHANGED <<fs, behind, dest, read, perm, exit, before, lost, caught>>
      BY <1>6, <2>2 DEF Create
    <3>2. f \in Files
      BY <2>1
    <3> HIDE DEF f
    <3>3. QED
      BY <3>1, <3>2 DEF Steps
  <2>3. QED
    BY <1>2, <2>2
<1>7. CASE Write(p)
  <2>1. tmp[p] \in Files /\ Merged(p) \in Docs
    BY <1>7 DEF Write, Stage, Opened, Merged, Docs
  <2> DEFINE f == [tmp[p] EXCEPT !.doc = Merged(p), !.whole = TRUE]
  <2>2. f \in Files
    <3>1. perm[p] \in Modes
      OBVIOUS
    <3>2. QED
      BY <2>1, <3>1, FileEdits
  <2>3. CASE ~Fail(p)
    <3>1. /\ tmp' = [tmp EXCEPT ![p] = f] /\ pc' = [pc EXCEPT ![p] = "sync"]
          /\ UNCHANGED <<fs, behind, dest, read, perm, exit, before, lost, caught>>
      BY <1>7, <2>3 DEF Write
    <3> HIDE DEF f
    <3>2. QED
      BY <2>2, <3>1 DEF Steps
  <2>4. QED
    BY <1>2, <2>3
<1>8. CASE Sync(p)
  <2>1. tmp[p] \in Files
    BY <1>8 DEF Sync, Stage, Opened
  <2> DEFINE f == [tmp[p] EXCEPT !.synced = TRUE, !.settled = TRUE]
  <2>2. f \in Files
    <3>1. perm[p] \in Modes /\ read[p] \in Docs
      OBVIOUS
    <3>2. QED
      BY <2>1, <3>1, FileEdits
  <2>3. CASE ~Fail(p)
    <3>1. /\ tmp' = [tmp EXCEPT ![p] = f] /\ pc' = [pc EXCEPT ![p] = "close"]
          /\ UNCHANGED <<fs, behind, dest, read, perm, exit, before, lost, caught>>
      BY <1>8, <2>3 DEF Sync
    <3> HIDE DEF f
    <3>2. QED
      BY <2>2, <3>1 DEF Steps
  <2>4. QED
    BY <1>2, <2>3
<1>9. CASE Close(p)
  BY <1>2, <1>9 DEF Close, Steps
<1>10. CASE Chmod(p)
  <2>1. tmp[p] \in Files
    BY <1>10 DEF Chmod, Stage, Opened
  <2> DEFINE f == [tmp[p] EXCEPT !.mode = perm[p], !.settled = FALSE]
  <2>2. f \in Files
    <3>1. perm[p] \in Modes /\ read[p] \in Docs
      OBVIOUS
    <3>2. QED
      BY <2>1, <3>1, FileEdits
  <2>3. CASE ~FailLate(p)
    <3>1. /\ tmp' = [tmp EXCEPT ![p] = f] /\ pc' = [pc EXCEPT ![p] = "rename"]
          /\ UNCHANGED <<fs, behind, dest, read, perm, exit, before, lost, caught>>
      BY <1>10, <2>3 DEF Chmod
    <3> HIDE DEF f
    <3>2. QED
      BY <2>2, <3>1 DEF Steps
  <2>4. QED
    BY <1>3, <2>3
<1>11. CASE Rename(p)
  <2>1. tmp[p] \in Files /\ Path(p) \in Paths
    BY <1>11 DEF Rename, Stage, Opened, Path, Paths
  <2>2. fs' \in [Paths -> Files \cup {NoFile}] \/ FailLate(p)
    BY <1>11, <2>1 DEF Rename
  <2>3. CASE ~FailLate(p)
    <3>1. behind[Path(p)] \cup {fs[Path(p)]} \in SUBSET (Files \cup {NoFile})
      BY <2>1
    <3>2. behind' \in [Paths -> SUBSET (Files \cup {NoFile})]
      <4> DEFINE d == behind[Path(p)] \cup {fs[Path(p)]}
      <4>1. behind' = [behind EXCEPT ![Path(p)] = d]
        BY <1>11, <2>3 DEF Rename
      <4>2. d \in SUBSET (Files \cup {NoFile})
        BY <3>1
      <4> HIDE DEF d
      <4>3. QED
        BY <2>1, <4>1, <4>2
    <3>3. pc' \in [Patchers -> Steps]
      BY <1>11, <2>3 DEF Rename, Steps
    <3>4. tmp' \in [Patchers -> Files \cup {NoFile}]
      BY <1>11, <2>3 DEF Rename
    <3>5. exit' \in [Patchers -> {"none", "ok", "empty", "error", "late error", "killed"}]
      BY <1>11, <2>3 DEF Rename
    <3>6. UNCHANGED <<dest, read, perm, before, lost, caught>>
      BY <1>11, <2>3 DEF Rename
    <3>7. QED
      BY <2>2, <2>3, <3>2, <3>3, <3>4, <3>5, <3>6
  <2>4. QED
    BY <1>3, <2>3
<1>12. QED
  BY <1>1, <1>4, <1>5, <1>6, <1>7, <1>8, <1>9, <1>10, <1>11 DEF Patch

\* So does a power loss.
LEMMA LossType ==
  ASSUME TypeOK, PowerLoss
  PROVE  TypeOK'
<1> USE DEF TypeOK
<1>1. \A x \in Paths : Back(x) \subseteq Files \cup {NoFile}
  <2> SUFFICES ASSUME NEW x \in Paths, NEW f \in May(x), NEW g \in AfterLoss(f)
               PROVE  g \in Files \cup {NoFile}
    BY DEF Back
  <2>1. f \in Files \cup {NoFile}
    BY DEF May
  <2>2. QED
    BY <2>1, AfterLossType
<1>2. fs' \in [Paths -> Files \cup {NoFile}]
  <2>1. PICK t \in Back("target"), o \in Back("out") :
          fs' = [x \in Paths |-> IF x = "target" THEN t ELSE o]
    BY DEF PowerLoss
  <2>2. t \in Files \cup {NoFile} /\ o \in Files \cup {NoFile}
    BY <1>1 DEF Paths
  <2>3. QED
    BY <2>1, <2>2
<1>4. pc' \in [Patchers -> Steps]
  BY DEF PowerLoss, Steps
<1>5. exit' \in [Patchers -> {"none", "ok", "empty", "error", "late error", "killed"}]
  BY DEF PowerLoss
<1>6. behind' \in [Paths -> SUBSET (Files \cup {NoFile})] /\ caught' \in BOOLEAN
  BY DEF PowerLoss
<1>7. QED
  BY <1>2, <1>4, <1>5, <1>6 DEF PowerLoss

\* Every step keeps the types.
LEMMA NextType ==
  ASSUME TypeOK, \A p \in Patchers : Stage(p), Disk, [Next]_vars
  PROVE  TypeOK'
<1>1. CASE \E p \in Patchers : Patch(p) \/ Kill(p)
  BY <1>1, PatchType
<1>2. CASE \E x \in Paths : WriteBack(x)
  BY <1>2 DEF WriteBack, TypeOK
<1>3. CASE \E x \in Paths : WriteInode(x)
  BY <1>3, InodeEffect DEF TypeOK
<1>4. CASE PowerLoss
  BY <1>4, LossType
<1>5. CASE UNCHANGED vars
  BY <1>5 DEF vars, TypeOK
<1>6. QED
  BY <1>1, <1>2, <1>3, <1>4, <1>5 DEF Next

-----------------------------------------------------------------------------
(* What a step of one patcher does to the others: nothing but to the disk. *)

\* One call of a patcher changes its own stage only.
LEMMA OtherPatchers ==
  ASSUME TypeOK, NEW p \in Patchers, Patch(p) \/ Kill(p), NEW q \in Patchers, q # p
  PROVE  /\ pc'[q] = pc[q] /\ exit'[q] = exit[q] /\ tmp'[q] = tmp[q]
         /\ read'[q] = read[q] /\ perm'[q] = perm[q] /\ before'[q] = before[q]
         /\ dest' = dest /\ lost' = lost /\ caught' = caught
<1> USE DEF TypeOK, Goto, Exit, Fail, FailLate
<1>1. CASE Kill(p)
  BY <1>1 DEF Kill
<1>2. CASE Read(p)
  BY <1>2 DEF Read
<1>3. CASE Stat(p) \/ Create(p)
  BY <1>3 DEF Stat, Create
<1>4. CASE Write(p) \/ Sync(p)
  BY <1>4 DEF Write, Sync
<1>5. CASE Close(p) \/ Chmod(p)
  BY <1>5 DEF Close, Chmod
<1>6. CASE Rename(p)
  BY <1>6 DEF Rename
<1>7. QED
  BY <1>1, <1>2, <1>3, <1>4, <1>5, <1>6 DEF Patch

\* Its own stage follows the order of the calls.
LEMMA OwnStage ==
  ASSUME TypeOK, NEW p \in Patchers, Stage(p), Disk, Patch(p) \/ Kill(p)
  PROVE  Stage(p)'
<1> USE DEF TypeOK, Goto, Exit, Stage, Opened, Written, Flushed, Started
<1>1. NoFile \notin Files
  <2>1. NoFile.mode = "none"
    BY DEF NoFile
  <2>2. QED
    BY <2>1 DEF Files, Modes
<1>2. CASE Kill(p)
  BY <1>2 DEF Kill
<1>3. CASE Fail(p) /\ pc[p] # "done"
  BY <1>3 DEF Fail
<1>4. CASE FailLate(p) /\ pc[p] # "done"
  BY <1>4 DEF FailLate
<1>5. CASE Read(p)
  <2>1. CASE ~Fail(p)
    <3>1. /\ tmp' = tmp /\ dest' = dest /\ tmp[p] = NoFile
          /\ \/ pc'[p] = "stat" /\ dest[p] = "in-place" /\ exit'[p] = "none"
             \/ pc'[p] = "create" /\ dest[p] # "in-place" /\ exit'[p] = "none"
             \/ pc'[p] = "done"
      BY <1>5, <2>1 DEF Read
    <3>2. QED
      BY <3>1
  <2>2. QED
    BY <1>3, <1>5, <2>1 DEF Read
<1>6. CASE Stat(p)
  <2>1. caught \/ fs["target"].mode = "original"
    BY DEF Disk, May
  <2>2. QED
    BY <1>3, <1>6, <2>1 DEF Stat
<1>7. CASE Create(p)
  <2>1. [doc |-> {}, whole |-> FALSE, synced |-> FALSE, mode |-> "0600",
       settled |-> FALSE] \in Files
    BY DEF Files, Docs, Modes
  <2>2. QED
    BY <1>3, <1>7, <2>1 DEF Create
<1>8. CASE Write(p)
  <2> DEFINE f == [tmp[p] EXCEPT !.doc = Merged(p), !.whole = TRUE]
  <2>1. f \in Files /\ f.whole /\ f.doc = Merged(p)
    BY <1>8 DEF Write, Files, Merged, Docs
  <2>2. CASE ~Fail(p)
    <3>1. tmp'[p] = f /\ pc'[p] = "sync" /\ UNCHANGED <<dest, read, perm, exit, caught>>
      BY <1>8, <2>2 DEF Write
    <3>2. Merged(p)' = Merged(p)
      BY <3>1 DEF Merged
    <3> HIDE DEF f
    <3>3. QED
      BY <1>8, <2>1, <3>1, <3>2 DEF Write
  <2>3. QED
    BY <1>3, <1>8, <2>2 DEF Write
<1>9. CASE Sync(p)
  <2> DEFINE f == [tmp[p] EXCEPT !.synced = TRUE, !.settled = TRUE]
  <2>1. f \in Files /\ f.synced /\ f.whole = tmp[p].whole /\ f.doc = tmp[p].doc
    BY <1>9 DEF Sync, Files
  <2>2. CASE ~Fail(p)
    <3>1. tmp'[p] = f /\ pc'[p] = "close" /\ UNCHANGED <<dest, read, perm, exit, caught>>
      BY <1>9, <2>2 DEF Sync
    <3>2. Merged(p)' = Merged(p)
      BY <3>1 DEF Merged
    <3> HIDE DEF f
    <3>3. QED
      BY <1>9, <2>1, <3>1, <3>2 DEF Sync
  <2>3. QED
    BY <1>3, <1>9, <2>2 DEF Sync
<1>10. CASE Close(p)
  BY <1>3, <1>10 DEF Close, Merged
<1>11. CASE Chmod(p)
  <2> DEFINE f == [tmp[p] EXCEPT !.mode = perm[p], !.settled = FALSE]
  <2>1. /\ f \in Files /\ f.mode = perm[p]
        /\ f.synced = tmp[p].synced /\ f.whole = tmp[p].whole /\ f.doc = tmp[p].doc
    BY <1>11 DEF Chmod, Files
  <2>2. CASE ~FailLate(p)
    <3>1. tmp'[p] = f /\ pc'[p] = "rename" /\ UNCHANGED <<dest, read, perm, exit, caught>>
      BY <1>11, <2>2 DEF Chmod
    <3>2. Merged(p)' = Merged(p)
      BY <3>1 DEF Merged
    <3>3. pc[p] = "chmod"
      BY <1>11 DEF Chmod
    <3> HIDE DEF f
    <3>4. QED
      BY <2>1, <3>1, <3>2, <3>3
  <2>3. QED
    BY <1>4, <1>11, <2>2 DEF Chmod
<1>12. CASE Rename(p)
  <2>1. CASE ~FailLate(p)
    <3>1. pc'[p] = "done" /\ exit'[p] = "ok" /\ tmp'[p] = NoFile
      BY <1>12, <2>1 DEF Rename
    <3>2. QED
      BY <3>1
  <2>2. QED
    BY <1>4, <1>12, <2>1 DEF Rename
<1>13. QED
  BY <1>2, <1>5, <1>6, <1>7, <1>8, <1>9, <1>10, <1>11, <1>12 DEF Patch

\* A power loss stops every started patcher and leaves what it had written.
LEMMA StageAfterLoss ==
  ASSUME TypeOK, NEW p \in Patchers, Stage(p), PowerLoss
  PROVE  Stage(p)'
<1> USE DEF TypeOK
<1>1. tmp' = tmp
  BY DEF PowerLoss
<1>2. CASE pc[p] \in {"read", "done"}
  <2>1. pc'[p] = pc[p] /\ exit'[p] = exit[p]
    BY <1>2 DEF PowerLoss
  <2>2. QED
    BY <1>1, <1>2, <2>1 DEF Stage, Opened, Written, Flushed, Started
<1>3. CASE pc[p] \notin {"read", "done"}
  <2>1. pc'[p] = "done" /\ exit'[p] = "killed"
    BY <1>3 DEF PowerLoss
  <2>2. QED
    BY <2>1 DEF Stage, Opened, Written, Flushed, Started
<1>4. QED
  BY <1>2, <1>3

\* A patcher that nothing touched stays in its stage.
LEMMA StageKept ==
  ASSUME NEW q \in Patchers, Stage(q),
         pc'[q] = pc[q], exit'[q] = exit[q], tmp'[q] = tmp[q],
         read'[q] = read[q], perm'[q] = perm[q], dest'[q] = dest[q], caught' = caught
  PROVE  Stage(q)'
<1>1. Merged(q)' = Merged(q)
  BY DEF Merged
<1>2. QED
  BY <1>1 DEF Stage

\* Every patcher stays in a legal stage.
LEMMA StageStep ==
  ASSUME TypeOK, \A p \in Patchers : Stage(p), Disk, [Next]_vars
  PROVE  \A q \in Patchers : Stage(q)'
<1> SUFFICES ASSUME NEW q \in Patchers PROVE Stage(q)'
  OBVIOUS
<1>1. CASE \E p \in Patchers : Patch(p) \/ Kill(p)
  <2>1. PICK p \in Patchers : Patch(p) \/ Kill(p)
    BY <1>1
  <2>2. CASE p = q
    BY <2>1, <2>2, OwnStage
  <2>3. CASE p # q
    <3>1. /\ pc'[q] = pc[q] /\ exit'[q] = exit[q] /\ tmp'[q] = tmp[q]
          /\ read'[q] = read[q] /\ perm'[q] = perm[q] /\ dest'[q] = dest[q]
          /\ caught' = caught
      BY <2>1, <2>3, OtherPatchers
    <3>2. QED
      BY <3>1, StageKept
  <2>4. QED
    BY <2>2, <2>3
<1>2. CASE \E x \in Paths : WriteBack(x)
  BY <1>2, StageKept DEF WriteBack
<1>3. CASE \E x \in Paths : WriteInode(x)
  BY <1>3, StageKept DEF WriteInode
<1>4. CASE PowerLoss
  BY <1>4, StageAfterLoss
<1>5. CASE UNCHANGED vars
  BY <1>5, StageKept DEF vars
<1>6. QED
  BY <1>1, <1>2, <1>3, <1>4, <1>5 DEF Next

\* Only a rename touches the disk, and what it puts there is sound.
LEMMA DiskAfterPatch ==
  ASSUME TypeOK, NEW p \in Patchers, Stage(p), Disk, Patch(p) \/ Kill(p)
  PROVE  Disk'
<1>0. caught' = caught
  BY DEF Patch, Kill, Read, Stat, Create, Write, Sync, Close, Chmod, Rename, Fail, FailLate
<1>1. CASE UNCHANGED <<fs, behind>>
  BY <1>0, <1>1 DEF Disk, May
<1>2. CASE Rename(p) /\ ~FailLate(p)
  <2>1. /\ fs' = [fs EXCEPT ![Path(p)] = tmp[p]]
        /\ behind' = [behind EXCEPT ![Path(p)] = @ \cup {fs[Path(p)]}]
    BY <1>2 DEF Rename
  <2>2. /\ Sound(tmp[p]) /\ tmp[p] \in Files
        /\ Path(p) = "target" => caught \/ tmp[p].mode = "original"
    BY <1>2 DEF Rename, Stage, Sound, Opened, Written, Flushed, Started, Path
  <2>3. Path(p) \in Paths /\ "target" \in Paths
    BY DEF Path, Paths
  <2>4. \A x \in Paths : May(x)' \subseteq May(x) \cup (IF x = Path(p) THEN {tmp[p]} ELSE {})
    BY <2>1, <2>3 DEF May, TypeOK
  <2>5. QED
    BY <1>0, <2>2, <2>3, <2>4 DEF Disk, Sound
<1>3. UNCHANGED <<fs, behind>> \/ (Rename(p) /\ ~FailLate(p))
  BY DEF Patch, Kill, Read, Stat, Create, Write, Sync, Close, Chmod, Fail, FailLate
<1>4. QED
  BY <1>1, <1>2, <1>3

\* A power loss brings back what stood at a path, as it stood, but for a chmod
\* that it caught.
LEMMA DiskAfterLoss ==
  ASSUME TypeOK, Disk, PowerLoss
  PROVE  /\ Disk'
         /\ \A x \in Paths : behind'[x] = {} /\ \E f \in May(x) : fs'[x] \in AfterLoss(f)
<1>1. PICK t \in Back("target"), o \in Back("out") :
        fs' = [x \in Paths |-> IF x = "target" THEN t ELSE o]
  BY DEF PowerLoss
<1>2. \A x \in Paths : fs'[x] \in Back(x)
  BY <1>1 DEF Paths
<1>3. \A x \in Paths : behind'[x] = {} /\ \E f \in May(x) : fs'[x] \in AfterLoss(f)
  BY <1>2 DEF PowerLoss, Back
<1>4. \A x \in Paths : May(x)' = {fs'[x]}
  BY <1>3 DEF May
<1>5. \A x \in Paths : \A f \in May(x) : f \in Files \cup {NoFile}
  BY DEF May, TypeOK
<1>6. \A x \in Paths : Sound(fs'[x])
  BY <1>3, <1>5, AfterLossType DEF Disk
<1>7. fs'["target"] \in Files /\ (caught' \/ fs'["target"].mode = "original")
  <2>1. PICK f \in May("target") : fs'["target"] \in AfterLoss(f)
    BY <1>3 DEF Paths
  <2>2. f \in Files /\ (caught \/ f.mode = "original")
    BY <2>1 DEF Disk
  <2>3. caught' = (caught \/ \E h \in May("target") : ~h.settled)
    BY DEF PowerLoss
  <2>4. QED
    BY <2>1, <2>2, <2>3, AfterLossType
<1>8. Disk'
  BY <1>4, <1>6, <1>7 DEF Disk, Sound, Paths
<1>9. QED
  BY <1>3, <1>8

\* The disk stays sound.
LEMMA DiskStep ==
  ASSUME TypeOK, \A p \in Patchers : Stage(p), Disk, [Next]_vars
  PROVE  Disk'
<1>1. CASE \E p \in Patchers : Patch(p) \/ Kill(p)
  BY <1>1, DiskAfterPatch
<1>2. CASE \E x \in Paths : WriteBack(x)
  <2>1. caught' = caught /\ \A y \in Paths : May(y)' \subseteq May(y)
    BY <1>2 DEF WriteBack, May, TypeOK
  <2>2. QED
    BY <2>1 DEF Disk, Sound, Paths
<1>3. CASE \E x \in Paths : WriteInode(x)
  <2>1. caught' = caught /\ \A y \in Paths : May(y)' \subseteq behind[y] \cup {fs'[y]}
    BY <1>3, InodeEffect DEF May
  <2>2. \A y \in Paths : Sound(fs'[y])
    BY <1>3, InodeEffect DEF Disk, Sound, May
  <2>3. fs'["target"] \in Files /\ (caught \/ fs'["target"].mode = "original")
    BY <1>3, InodeEffect DEF Disk, May, Paths
  <2>4. QED
    BY <2>1, <2>2, <2>3 DEF Disk, Sound, May, Paths
<1>4. CASE PowerLoss
  BY <1>4, DiskAfterLoss
<1>5. CASE UNCHANGED vars
  BY <1>5 DEF vars, Disk, May
<1>6. QED
  BY <1>1, <1>2, <1>3, <1>4, <1>5 DEF Next

-----------------------------------------------------------------------------
(* Lost updates.                                                           *)

\* A patch that is done stays done, and keeps what it had seen.
LEMMA DoneStays ==
  ASSUME TypeOK, \A p \in Patchers : Stage(p), [Next]_vars,
         NEW q \in Patchers, Patched(q)
  PROVE  Patched(q)' /\ before'[q] = before[q]
<1>1. pc[q] = "done" /\ exit[q] = "ok"
  BY DEF Patched, Stage
<1>2. CASE \E p \in Patchers : Patch(p) \/ Kill(p)
  <2>1. PICK p \in Patchers : Patch(p) \/ Kill(p)
    BY <1>2
  <2>2. p # q
    BY <1>1, <2>1 DEF Patch, Kill, Read, Stat, Create, Write, Sync, Close, Chmod, Rename
  <2>3. QED
    BY <2>1, <2>2, OtherPatchers DEF Patched
<1>3. CASE \E x \in Paths : WriteBack(x)
  BY <1>3 DEF WriteBack, Patched
<1>4. CASE \E x \in Paths : WriteInode(x)
  BY <1>4 DEF WriteInode, Patched
<1>5. CASE PowerLoss
  BY <1>1, <1>5 DEF PowerLoss, Patched, TypeOK
<1>6. CASE UNCHANGED vars
  BY <1>6 DEF vars, Patched
<1>7. QED
  BY <1>2, <1>3, <1>5, <1>6, <1>4 DEF Next

\* What was written over by an overlapping patch was, for ever.
LEMMA OverwrittenStays ==
  ASSUME TypeOK, \A p \in Patchers : Stage(p), [Next]_vars,
         NEW p \in Patchers, Overwritten(p)
  PROVE  Overwritten(p)'
BY DoneStays DEF Overwritten

\* A patcher that is under way has just read the target, or goes on.
LEMMA ReadOrOn ==
  ASSUME TypeOK, NEW p \in Patchers, Patch(p) \/ Kill(p),
         dest[p] = "in-place", pc'[p] \in Started
  PROVE  \/ /\ read'[p] = fs["target"].doc
            /\ before'[p] = {q \in Patchers : Patched(q)}
         \/ pc[p] \in Started /\ read'[p] = read[p] /\ before'[p] = before[p]
<1> USE DEF TypeOK, Goto, Exit, Fail, FailLate, Started
<1>1. CASE Read(p)
  <2> DEFINE d == {q \in Patchers : exit[q] = "ok" /\ dest[q] = "in-place"}
  <2>1. read' = [read EXCEPT ![p] = fs["target"].doc] /\ before' = [before EXCEPT ![p] = d]
    BY <1>1 DEF Read
  <2>2. d = {q \in Patchers : Patched(q)}
    BY DEF Patched
  <2> HIDE DEF d
  <2>3. QED
    BY <2>1, <2>2
<1>2. CASE Kill(p)
  BY <1>2 DEF Kill
<1>3. CASE Stat(p) \/ Create(p)
  BY <1>3 DEF Stat, Create
<1>4. CASE Write(p) \/ Sync(p)
  BY <1>4 DEF Write, Sync
<1>5. CASE Close(p) \/ Chmod(p)
  BY <1>5 DEF Close, Chmod
<1>6. CASE Rename(p)
  BY <1>6 DEF Rename
<1>7. QED
  BY <1>1, <1>2, <1>3, <1>4, <1>5, <1>6 DEF Patch

\* A call leaves the target alone and ends no in-place patch well, or it is the
\* rename of one.
LEMMA RenameOrNot ==
  ASSUME TypeOK, NEW p \in Patchers, Stage(p), Patch(p) \/ Kill(p)
  PROVE  \/ /\ dest[p] = "in-place" /\ pc[p] = "rename"
            /\ fs'["target"] = tmp[p] /\ exit'[p] = "ok"
            /\ behind'["target"] = behind["target"] \cup {fs["target"]}
            /\ UNCHANGED <<read, before, dest>>
         \/ /\ fs'["target"] = fs["target"] /\ behind'["target"] = behind["target"]
            /\ Patched(p)' => Patched(p)
<1> USE DEF TypeOK, Goto, Exit, Fail, FailLate, Patched
<1>1. CASE Read(p)
  BY <1>1 DEF Read
<1>2. CASE Kill(p)
  BY <1>2 DEF Kill
<1>3. CASE Stat(p) \/ Create(p)
  BY <1>3 DEF Stat, Create, Stage
<1>4. CASE Write(p) \/ Sync(p)
  BY <1>4 DEF Write, Sync, Stage
<1>5. CASE Close(p) \/ Chmod(p)
  BY <1>5 DEF Close, Chmod, Stage
<1>6. CASE FailLate(p)
  BY <1>6
<1>7. CASE Rename(p) /\ ~FailLate(p)
  <2>1. /\ pc[p] = "rename" /\ exit'[p] = "ok"
        /\ fs' = [fs EXCEPT ![Path(p)] = tmp[p]]
        /\ behind' = [behind EXCEPT ![Path(p)] = @ \cup {fs[Path(p)]}]
        /\ UNCHANGED <<read, before, dest>>
    BY <1>7 DEF Rename
  <2>2. "target" \in Paths /\ "out" \in Paths
    BY DEF Paths
  <2>3. CASE dest[p] = "in-place"
    BY <2>1, <2>2, <2>3 DEF Path
  <2>4. CASE dest[p] # "in-place"
    BY <2>1, <2>2, <2>4 DEF Path
  <2>5. QED
    BY <2>3, <2>4
<1>8. QED
  BY <1>1, <1>2, <1>3, <1>4, <1>5, <1>6, <1>7 DEF Patch

\* What a patcher reads holds what was done before.
LEMMA ReadsAllStep ==
  ASSUME IInv, [Next]_vars
  PROVE  ReadsAll'
<1> USE DEF IInv
<1>1. CASE \E p \in Patchers : Patch(p) \/ Kill(p)
  <2>1. PICK p \in Patchers : Patch(p) \/ Kill(p)
    BY <1>1
  <2>2. SUFFICES ASSUME ~lost', NEW q \in Patchers, dest'[q] = "in-place",
                        pc'[q] \in Started, NEW x \in Patchers, x \in before'[q]
                 PROVE  x \in read'[q] \/ Overwritten(x)'
    <3>1. TypeOK'
      BY NextType
    <3>2. QED
      BY <3>1 DEF ReadsAll, TypeOK
  <2>3. dest' = dest /\ lost' = lost
    BY <2>1 DEF Patch, Kill, Read, Stat, Create, Write, Sync, Close, Chmod, Rename,
                Fail, FailLate
  <2>4. Overwritten(x) => Overwritten(x)'
    BY OverwrittenStays
  <2>5. CASE pc[q] \in Started /\ read'[q] = read[q] /\ before'[q] = before[q]
    BY <2>2, <2>3, <2>4, <2>5 DEF ReadsAll
  <2>6. CASE q = p /\ read'[p] = fs["target"].doc /\ before'[p] = {r \in Patchers : Patched(r)}
    <3>1. Patched(x)
      BY <2>2, <2>6
    <3>2. QED
      BY <2>2, <2>3, <2>4, <2>6, <3>1 DEF OnlyOverlapsLose, Overwritten
  <2>7. CASE q # p
    BY <2>1, <2>2, <2>5, <2>7, OtherPatchers
  <2>8. QED
    BY <2>1, <2>2, <2>3, <2>5, <2>6, <2>7, ReadOrOn
<1>2. CASE \E x \in Paths : WriteBack(x)
  BY <1>2 DEF WriteBack, ReadsAll, Overwritten, Patched
<1>3. CASE \E x \in Paths : WriteInode(x)
  BY <1>3 DEF WriteInode, ReadsAll, Overwritten, Patched
<1>4. CASE PowerLoss
  BY <1>4 DEF PowerLoss, ReadsAll
<1>5. CASE UNCHANGED vars
  BY <1>5 DEF vars, ReadsAll, Overwritten, Patched
<1>6. QED
  BY <1>1, <1>2, <1>3, <1>4, <1>5 DEF Next

\* Only an overlap or a power loss undoes a patch.
LEMMA OverlapsStep ==
  ASSUME IInv, [Next]_vars
  PROVE  OnlyOverlapsLose'
<1> USE DEF IInv
<1>1. CASE \E p \in Patchers : Patch(p) \/ Kill(p)
  <2>1. PICK p \in Patchers : Patch(p) \/ Kill(p)
    BY <1>1
  <2>2. SUFFICES ASSUME NEW x \in Patchers, Patched(x)', x \notin fs'["target"].doc, ~lost'
                 PROVE  Overwritten(x)'
    BY DEF OnlyOverlapsLose, Overwritten
  <2>3. dest' = dest /\ lost' = lost
    BY <2>1 DEF Patch, Kill, Read, Stat, Create, Write, Sync, Close, Chmod, Rename,
                Fail, FailLate
  <2>4. Overwritten(x) => Overwritten(x)'
    BY OverwrittenStays
  <2>5. x # p => Patched(x)
    BY <2>1, <2>2, OtherPatchers DEF Patched
  <2>6. CASE fs'["target"] = fs["target"] /\ (Patched(p)' => Patched(p))
    <3>1. Patched(x) /\ x \notin fs["target"].doc
      BY <2>2, <2>5, <2>6
    <3>2. QED
      BY <2>2, <2>3, <2>4, <3>1 DEF OnlyOverlapsLose, Overwritten
  <2>7. CASE /\ dest[p] = "in-place" /\ pc[p] = "rename"
             /\ fs'["target"] = tmp[p] /\ exit'[p] = "ok"
             /\ UNCHANGED <<read, before, dest>>
    <3>1. tmp[p].doc = read[p] \cup {p}
      BY <2>7 DEF Stage, Written, Merged
    <3>2. x # p /\ x \notin read[p]
      BY <2>2, <2>7, <3>1
    <3>3. CASE x \in before[p]
      BY <2>2, <2>3, <2>4, <2>7, <3>2, <3>3 DEF ReadsAll, Started
    <3>4. CASE x \notin before[p]
      BY <2>7, <3>2, <3>4 DEF Overwritten, Patched
    <3>5. QED
      BY <3>3, <3>4
  <2>8. QED
    BY <2>1, <2>6, <2>7, RenameOrNot
<1>2. CASE \E x \in Paths : WriteBack(x)
  BY <1>2 DEF WriteBack, OnlyOverlapsLose, Patched
<1>3. CASE \E x \in Paths : WriteInode(x)
  <2>1. fs'["target"].doc = fs["target"].doc
    BY <1>3, InodeEffect DEF Paths
  <2>2. QED
    BY <1>3, <2>1 DEF WriteInode, OnlyOverlapsLose, Patched
<1>4. CASE PowerLoss
  BY <1>4 DEF PowerLoss, OnlyOverlapsLose
<1>5. CASE UNCHANGED vars
  BY <1>5 DEF vars, OnlyOverlapsLose, Patched
<1>6. QED
  BY <1>1, <1>2, <1>3, <1>4, <1>5 DEF Next

-----------------------------------------------------------------------------
(* The theorems.                                                           *)

\* The invariant holds at first.
LEMMA InitInv == Init => IInv
<1> SUFFICES ASSUME Init PROVE IInv
  OBVIOUS
<1>1. \A p \in Patchers : Stage(p)
  BY DEF Init, Stage, Opened, Written, Flushed, Started
<1>2. Disk
  <2>1. /\ May("target") = {fs["target"]} /\ May("out") = {NoFile}
        /\ fs["target"].whole /\ fs["target"].synced /\ fs["target"].mode = "original"
    BY DEF Init, May, Paths
  <2>2. fs["target"] \in Files
    BY DEF Init, Paths, Files, Docs, Modes
  <2>3. QED
    BY <2>1, <2>2 DEF Disk, Sound, NoFile, Paths
<1>3. ReadsAll /\ OnlyOverlapsLose
  BY DEF Init, ReadsAll, OnlyOverlapsLose, Patched, Started
<1>4. QED
  BY <1>1, <1>2, <1>3, InitType DEF IInv

\* Every step keeps it.
LEMMA NextInv == IInv /\ [Next]_vars => IInv'
<1> SUFFICES ASSUME IInv, [Next]_vars PROVE IInv'
  OBVIOUS
<1>1. TypeOK' /\ Disk' /\ \A p \in Patchers : Stage(p)'
  BY NextType, DiskStep, StageStep DEF IInv
<1>2. ReadsAll' /\ OnlyOverlapsLose'
  BY ReadsAllStep, OverlapsStep
<1>3. QED
  BY <1>1, <1>2 DEF IInv

\* The inductive invariant holds in every behaviour of the patch commands.
THEOREM Invariance == Spec => []IInv
BY InitInv, NextInv, PTL DEF Spec

\* Every variable keeps its type, for every set of processes.
THEOREM TypeCorrect == Spec => []TypeOK
<1>1. IInv => TypeOK
  BY DEF IInv
<1>2. QED
  BY <1>1, Invariance, PTL

\* WriteFileAtomic: a reader of a path always finds one whole document,
\* whichever calls fail and whoever is killed.
THEOREM Whole == Spec => []WholeDocuments
<1>1. IInv => WholeDocuments
  BY DEF IInv, Disk, May, Sound, WholeDocuments
<1>2. QED
  BY <1>1, Invariance, PTL

\* Stat before and Chmod before the rename: the target keeps its permissions, but
\* for a power loss between a chmod and the write-back of its inode.
THEOREM Permissions == Spec => []PermissionsHold
<1>1. IInv => PermissionsHold
  BY DEF IInv, Disk, May, PermissionsHold
<1>2. QED
  BY <1>1, Invariance, PTL

\* Read, merge, rename without a lock: a successful patch is only lost to one
\* that overlapped it, or to a power loss.
THEOREM Overlaps == Spec => []OnlyOverlapsLose
<1>1. IInv => OnlyOverlapsLose
  BY DEF IInv
<1>2. QED
  BY <1>1, Invariance, PTL

-----------------------------------------------------------------------------
(* The refinement.                                                         *)

\* The commands start where the atomic file does.
LEMMA AbstractInit == Init => Abstract!Init
<1> SUFFICES ASSUME Init PROVE Abstract!Init
  OBVIOUS
<1>1. fs["target"].doc = {} /\ behind["target"] = {}
  BY DEF Init, Paths
<1>2. [p \in Patchers |-> IF dest[p] = "in-place" THEN read[p] ELSE {}]
        = [p \in Patchers |-> {}]
  BY DEF Init
<1>3. [p \in Patchers |-> Status(p)] = [p \in Patchers |-> "idle"]
  BY DEF Init, Status
<1>4. QED
  BY <1>1, <1>2, <1>3 DEF Abstract!Init

\* The state of the atomic file, as the mapping of AtomicPatch gives it.
Earlier == {f.doc : f \in behind["target"]}
Snap    == [p \in Patchers |-> IF dest[p] = "in-place" THEN read[p] ELSE {}]
Stati   == [p \in Patchers |-> Status(p)]

\* A call leaves the target's state alone and is invisible, opens the target or
\* gives up; or it is the rename of an in-place patch.
LEMMA OwnStatus ==
  ASSUME TypeOK, NEW p \in Patchers, Stage(p), Patch(p) \/ Kill(p)
  PROVE  /\ dest' = dest
         /\ \/ Status(p)' = Status(p) /\ (dest[p] = "in-place" => read'[p] = read[p])
            \/ /\ dest[p] = "in-place" /\ Status(p) = "idle" /\ Status(p)' = "busy"
               /\ read'[p] = fs["target"].doc
            \/ /\ Status(p) \in {"idle", "busy"} /\ Status(p)' = "failed"
               /\ read'[p] = read[p]
            \/ /\ Status(p) = "busy" /\ Status(p)' = "ok"
               /\ dest[p] = "in-place" /\ pc[p] = "rename"
               /\ read'[p] = read[p] /\ exit'[p] = "ok"
<1> USE DEF TypeOK, Goto, Exit, Fail, FailLate, Status
<1>1. CASE Read(p)
  BY <1>1 DEF Read
<1>2. CASE Kill(p)
  BY <1>2 DEF Kill
<1>3. CASE Stat(p) \/ Create(p)
  BY <1>3 DEF Stat, Create
<1>4. CASE Write(p) \/ Sync(p)
  BY <1>4 DEF Write, Sync
<1>5. CASE Close(p) \/ Chmod(p)
  BY <1>5 DEF Close, Chmod
<1>6. CASE Rename(p)
  BY <1>6 DEF Rename
<1>7. QED
  BY <1>1, <1>2, <1>3, <1>4, <1>5, <1>6 DEF Patch

\* A call of a patcher is a step of the atomic file, or none.
LEMMA AbstractCall ==
  ASSUME IInv, NEW p \in Patchers, Patch(p) \/ Kill(p)
  PROVE  \/ Abstract!Open(p) \/ Abstract!Replace(p) \/ Abstract!GiveUp(p)
         \/ UNCHANGED Abstract!vars
<1>1. TypeOK /\ Stage(p) /\ Stage(p)'
  BY OwnStage DEF IInv
<1>2. dest' = dest
  BY <1>1, OwnStatus
<1>3. \A q \in Patchers \ {p} : Status(q)' = Status(q) /\ read'[q] = read[q]
  BY <1>1, OtherPatchers DEF Status
<1> DEFINE Kept == fs'["target"] = fs["target"] /\ behind'["target"] = behind["target"]
<1>4. Kept => fs'["target"].doc = fs["target"].doc /\ Earlier' = Earlier
  BY DEF Earlier
<1>5. CASE /\ Kept /\ Status(p)' = Status(p)
           /\ dest[p] = "in-place" => read'[p] = read[p]
  <2>1. Snap' = Snap /\ Stati' = Stati
    BY <1>2, <1>3, <1>5 DEF Snap, Stati
  <2>2. QED
    BY <1>4, <1>5, <2>1 DEF Abstract!vars, Snap, Stati, Earlier
<1>6. CASE /\ Kept /\ dest[p] = "in-place" /\ Status(p) = "idle" /\ Status(p)' = "busy"
           /\ read'[p] = fs["target"].doc
  <2>1. Snap' = [Snap EXCEPT ![p] = fs["target"].doc]
    BY <1>2, <1>3, <1>6 DEF Snap
  <2>2. Stati' = [Stati EXCEPT ![p] = "busy"] /\ Stati[p] = "idle"
    BY <1>3, <1>6 DEF Stati
  <2>3. QED
    BY <1>4, <1>6, <2>1, <2>2 DEF Abstract!Open, Snap, Stati, Earlier
<1>7. CASE /\ Kept /\ Status(p) \in {"idle", "busy"} /\ Status(p)' = "failed"
           /\ read'[p] = read[p]
  <2>1. Snap' = Snap
    BY <1>2, <1>3, <1>7 DEF Snap
  <2>2. Stati' = [Stati EXCEPT ![p] = "failed"] /\ Stati[p] \in {"idle", "busy"}
    BY <1>3, <1>7 DEF Stati
  <2>3. QED
    BY <1>4, <1>7, <2>1, <2>2 DEF Abstract!GiveUp, Snap, Stati, Earlier
<1>8. CASE /\ dest[p] = "in-place" /\ pc[p] = "rename" /\ fs'["target"] = tmp[p]
           /\ behind'["target"] = behind["target"] \cup {fs["target"]}
           /\ Status(p) = "busy" /\ Status(p)' = "ok" /\ read'[p] = read[p]
  <2>1. fs'["target"].doc = Snap[p] \cup {p}
    BY <1>1, <1>8 DEF Stage, Written, Merged, Snap
  <2>2. Earlier' = Earlier \cup {fs["target"].doc}
    BY <1>8 DEF Earlier
  <2>3. Snap' = Snap
    BY <1>2, <1>3, <1>8 DEF Snap
  <2>4. Stati' = [Stati EXCEPT ![p] = "ok"] /\ Stati[p] = "busy"
    BY <1>3, <1>8 DEF Stati
  <2>5. QED
    BY <2>1, <2>2, <2>3, <2>4 DEF Abstract!Replace, Snap, Stati, Earlier
<1>9. \/ Kept /\ (Patched(p)' => Patched(p))
      \/ /\ dest[p] = "in-place" /\ pc[p] = "rename" /\ exit'[p] = "ok"
         /\ fs'["target"] = tmp[p]
         /\ behind'["target"] = behind["target"] \cup {fs["target"]}
         /\ UNCHANGED read
  BY <1>1, RenameOrNot
<1>10. Status(p)' = "ok" /\ Status(p) = "busy" => ~(Patched(p)' => Patched(p))
  BY <1>1, <1>2 DEF Status, Patched, Stage
<1>11. dest[p] = "in-place" /\ pc[p] = "rename" /\ exit'[p] = "ok"
         => Status(p) = "busy" /\ Status(p)' = "ok"
  BY <1>1, <1>2 DEF Status, Stage
<1> HIDE DEF Kept
<1>12. QED
  BY <1>1, <1>5, <1>6, <1>7, <1>8, <1>9, <1>10, <1>11, OwnStatus

\* The write-back of a directory settles the target, or is another file's.
LEMMA AbstractWriteBack ==
  ASSUME TypeOK, NEW x \in Paths, WriteBack(x)
  PROVE  Abstract!Settle \/ UNCHANGED Abstract!vars
<1>1. UNCHANGED <<fs, dest, read, pc, exit>> /\ behind' = [behind EXCEPT ![x] = {}]
  BY DEF WriteBack
<1>2. Snap' = Snap /\ Stati' = Stati
  BY <1>1 DEF Snap, Stati, Status
<1>3. CASE x = "target"
  <2>1. Earlier' = {}
    BY <1>1, <1>3 DEF Earlier, TypeOK
  <2>2. QED
    BY <1>1, <1>2, <2>1 DEF Abstract!Settle, Snap, Stati, Earlier
<1>4. CASE x # "target"
  <2>1. Earlier' = Earlier
    BY <1>1, <1>4 DEF Earlier, TypeOK, Paths
  <2>2. QED
    BY <1>1, <1>2, <2>1 DEF Abstract!vars, Snap, Stati, Earlier
<1>5. QED
  BY <1>3, <1>4

\* A power loss is one of the atomic file.
LEMMA AbstractLoss ==
  ASSUME TypeOK, Disk, PowerLoss
  PROVE  Abstract!PowerLoss
<1>1. PICK f \in May("target") : fs'["target"] \in AfterLoss(f)
  BY DiskAfterLoss DEF Paths
<1>2. fs'["target"].doc \in Earlier \cup {fs["target"].doc} /\ Earlier' = {}
  <2>1. f \in Files \cup {NoFile}
    BY DEF May, Paths, TypeOK
  <2>2. fs'["target"].doc = f.doc
    BY <1>1, <2>1, AfterLossType
  <2>3. behind'["target"] = {}
    BY DiskAfterLoss DEF Paths
  <2>4. QED
    BY <1>1, <2>2, <2>3 DEF Earlier, May
<1>3. Snap' = Snap
  BY DEF PowerLoss, Snap
<1>4. \A q \in Patchers :
        Status(q)' = IF Status(q) = "busy" THEN "failed" ELSE Status(q)
  BY DEF PowerLoss, Status, TypeOK
<1>5. Stati' = [q \in Patchers |-> IF Stati[q] = "busy" THEN "failed" ELSE Stati[q]]
  BY <1>4 DEF Stati
<1>6. QED
  BY <1>2, <1>3, <1>5 DEF Abstract!PowerLoss, Snap, Stati, Earlier

\* Every step of the commands is one of the atomic file, or none.
LEMMA AbstractStep == IInv /\ [Next]_vars => [Abstract!Next]_(Abstract!vars)
<1> SUFFICES ASSUME IInv, [Next]_vars PROVE Abstract!Next \/ UNCHANGED Abstract!vars
  OBVIOUS
<1>1. CASE \E p \in Patchers : Patch(p) \/ Kill(p)
  BY <1>1, AbstractCall DEF Abstract!Next
<1>2. CASE \E x \in Paths : WriteBack(x)
  BY <1>2, AbstractWriteBack DEF IInv, Abstract!Next
<1>3. CASE \E x \in Paths : WriteInode(x)
  <2>1. fs'["target"].doc = fs["target"].doc
    BY <1>3, InodeEffect DEF IInv, Paths
  <2>2. Snap' = Snap /\ Stati' = Stati /\ Earlier' = Earlier
    BY <1>3 DEF WriteInode, Snap, Stati, Status, Earlier
  <2>3. QED
    BY <2>1, <2>2 DEF Abstract!vars, Snap, Stati, Earlier
<1>4. CASE PowerLoss
  BY <1>4, AbstractLoss DEF IInv, Abstract!Next
<1>5. CASE UNCHANGED vars
  <2>1. Snap' = Snap /\ Stati' = Stati /\ Earlier' = Earlier /\ fs' = fs
    BY <1>5 DEF vars, Snap, Stati, Status, Earlier
  <2>2. QED
    BY <2>1 DEF Abstract!vars, Snap, Stati, Earlier
<1>6. QED
  BY <1>1, <1>2, <1>3, <1>4, <1>5 DEF Next

\* The in-place patches of any number of processes make the target the atomic
\* file that the documentation promises.
THEOREM Implements == Spec => ImplementsAtomicFile
<1>1. Spec => Abstract!Init /\ [][Abstract!Next]_(Abstract!vars)
  BY AbstractInit, AbstractStep, Invariance, PTL DEF Spec
<1>2. QED
  BY <1>1 DEF ImplementsAtomicFile, Abstract!Spec

=============================================================================
