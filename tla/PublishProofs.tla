--------------------------- MODULE PublishProofs ---------------------------
(***************************************************************************)
(* Proofs about Publish for every set of process ids and all bounds.       *)
(***************************************************************************)
EXTENDS Publish, WellFoundedInduction, TLAPS

-----------------------------------------------------------------------------
(* The inductive invariant.                                                *)

\* Every tree has a time of its own, which has passed.
Stamps ==
  /\ dist # NoTree => dist.written \in 1 .. clock
  /\ stage # NoTree => stage.written \in 1 .. clock
  /\ \A p \in Pids : backups[p] # NoTree => backups[p].written \in 1 .. clock
  /\ \A p \in Pids : backups[p] # NoTree =>
       /\ backups[p].written # dist.written
       /\ backups[p].written # stage.written
       /\ \A q \in Pids : q # p => backups[p].written # backups[q].written
  /\ dist # NoTree => dist.written # stage.written

\* What is about to be published is the whole output of this build.
Staged ==
  /\ at = "compile" => stage = NoTree
  /\ at \in {"manifest", "seal", "aside", "promote"} => stage.of = {builds}
  /\ at \in {"aside", "promote"} => stage.whole

\* Until a build ends, the output it has found is where it can be put back.
Kept ==
  /\ at # "idle" => outcome = "none"
  /\ at \in {"drop", "stage", "compile", "manifest", "seal", "aside"} => dist = had
  /\ at \in {"promote", "restore"} => dist = NoTree
  /\ at \in {"drop", "tidy"} => dist # NoTree
  /\ at \in {"promote", "restore"} /\ had # NoTree => backups[pid] = had
  /\ at = "restore" => backups[pid] # NoTree

\* Output comes from one build, of which the manifest is in the cache.
Built ==
  /\ dist # NoTree => \E n \in 0 .. cached : dist.of = {n}
  /\ \A p \in Pids : backups[p] # NoTree => \E n \in 0 .. cached : backups[p].of = {n}
  /\ at \in {"seal", "aside", "promote"} => cached = builds
  /\ at = "drop" => togo \subseteq Left

\* Nothing is newer than the published tree but the staged one; once the
\* published tree has moved aside, nothing is newer than its backup.
Order ==
  ~littered /\ ~missed =>
    /\ dist # NoTree => \A p \in Pids : backups[p].written < dist.written
    /\ at \in {"drop", "stage", "compile", "manifest", "seal", "aside"} /\ dist = NoTree =>
         \A p \in Pids : backups[p] = NoTree
    /\ at \in {"manifest", "seal", "aside", "promote"} =>
         /\ dist.written < stage.written
         /\ \A p \in Pids : backups[p].written < stage.written
    /\ at \in {"promote", "restore"} /\ backups[pid] # NoTree =>
         \A p \in Pids \ {pid} : backups[p].written < backups[pid].written

IInv ==
  /\ Types /\ Stamps /\ Staged /\ WholeOutput /\ Kept /\ ErrorKeepsOutput
  /\ Built /\ Order

-----------------------------------------------------------------------------
(* What a removal leaves, and when it is litter.                           *)
LEMMA RemovalLeaves ==
  ASSUME Types, NEW p \in Pids, NEW left \in Remains(p)
  PROVE  /\ left \in Tree
         /\ \/ left = NoTree
            \/ left = backups[p]
            \/ /\ left.of = backups[p].of /\ ~left.whole
               /\ left.written \in {backups[p].written, clock + 1}
<1>1. backups[p] \in Tree
  BY DEF Types
<1>2. clock \in Nat
  BY DEF Types, Counts
<1>3. NoTree \in Tree
  BY DEF NoTree, Tree
<1>4. CASE left \in Part(backups[p])
  <2>1. left.of = backups[p].of /\ left.whole = FALSE
        /\ left.written \in {backups[p].written, clock + 1}
        /\ left = [of |-> left.of, whole |-> left.whole, written |-> left.written]
    BY <1>4 DEF Part
  <2>2. backups[p].of \in SUBSET Nat /\ backups[p].written \in Nat
    BY <1>1 DEF Tree
  <2>3. left.written \in Nat
    BY <1>2, <2>1, <2>2
  <2>4. left \in Tree
    BY <2>1, <2>2, <2>3 DEF Tree
  <2>5. QED
    BY <2>1, <2>4
<1>5. QED
  BY <1>1, <1>3, <1>4 DEF Remains

(* What a removal changes.                                                 *)
LEMMA RemovalTypes ==
  ASSUME Types, NEW p \in Pids, NEW left \in Remains(p), Remove(p, left)
  PROVE  /\ backups' \in [Pids -> Tree]
         /\ clock' \in Nat /\ clock <= clock' /\ left.written <= clock'
         /\ cuts' \in 0 .. MaxCuts
         /\ littered' \in BOOLEAN
         /\ missed' = missed
<1>1. Counts
  BY DEF Types
<1>2. left \in Tree /\ left.written \in Nat /\ left.whole \in BOOLEAN
  BY RemovalLeaves DEF Tree
<1>3. clock' \in Nat /\ clock <= clock' /\ left.written <= clock'
  <2>1. clock' = IF left.written > clock THEN left.written ELSE clock
    BY Zenon DEF Remove
  <2>2. QED
    BY <1>1, <1>2, <2>1 DEF Counts
<1>4. backups' \in [Pids -> Tree] /\ missed' = missed
  BY <1>2 DEF Remove, Types
<1>5. CASE left = NoTree
  <2>1. cuts' = cuts /\ littered' = littered
    BY <1>5, Zenon DEF Remove
  <2>2. QED
    BY <1>1, <1>3, <1>4, <2>1 DEF Types, Counts
<1>6. CASE left # NoTree
  <2>1. cuts' \in 0 .. MaxCuts
    <3>1. cuts < MaxCuts /\ cuts' = cuts + 1
      BY <1>6, Zenon DEF Remove
    <3>2. QED
      BY <1>1, <3>1, BoundsAssumption DEF Counts
  <2>2. littered' \in BOOLEAN
    BY <1>2, <1>6, Zenon DEF Remove, Types
  <2>3. QED
    BY <1>3, <1>4, <2>1, <2>2
<1>7. QED
  BY <1>5, <1>6

-----------------------------------------------------------------------------
(* The counters stay in their bounds.                                      *)
LEMMA CountsKept ==
  ASSUME Types, [Next]_vars
  PROVE  Counts'
<1> USE BoundsAssumption
<1> Counts
  BY DEF Types
<1>1. CASE Start
  BY <1>1 DEF Counts, Start, Do, Resume, End, Quietly, Calmly, disk
<1>2. CASE NothingToRecover
  BY <1>2 DEF Counts, NothingToRecover, Do, Resume, End, Quietly, Calmly, disk
<1>3. CASE RecoveryFails
  BY <1>3 DEF Counts, RecoveryFails, Do, Resume, End, Quietly, Calmly, disk
<1>4. CASE RollForward
  BY <1>4 DEF Counts, RollForward, Newest, Left, Without, Do, Resume, End, Quietly, Calmly, disk
<1>5. CASE DropStale
  <2>1. PICK p \in togo : \E left \in Remains(p) : Remove(p, left)
    BY <1>5, Zenon DEF DropStale
  <2>2. p \in Pids
    BY <2>1 DEF Types
  <2>3. clock' \in Nat /\ cuts' \in 0 .. MaxCuts
    BY <2>1, <2>2, RemovalTypes
  <2>4. UNCHANGED <<builds, cached>>
    BY <1>5, Zenon DEF DropStale, Do
  <2>5. QED
    BY <2>3, <2>4 DEF Counts
<1>6. CASE Dropped
  BY <1>6 DEF Counts, Dropped, Do, Resume, End, Quietly, Calmly, disk
<1>7. CASE StageDist
  BY <1>7 DEF Counts, StageDist, Fresh, Do, Resume, End, Quietly, Calmly, disk
<1>8. CASE Compile
  BY <1>8 DEF Counts, Compile, Following, Do, Resume, End, Quietly, Calmly, disk
<1>9. CASE WriteManifest
  BY <1>9 DEF Counts, WriteManifest, Following, Do, Resume, End, Quietly, Calmly, disk
<1>10. CASE Seal
  BY <1>10 DEF Counts, Seal, Following, Do, Resume, End, Quietly, Calmly, disk
<1>11. CASE NothingToMove
  BY <1>11 DEF Counts, NothingToMove, Do, Resume, End, Quietly, Calmly, disk
<1>12. CASE MoveAside
  BY <1>12 DEF Counts, MoveAside, Do, Resume, End, Quietly, Calmly, disk
<1>13. CASE RemoveStale
  <2>1. PICK p \in {pid} : \E left \in Remains(p) : Remove(p, left)
    BY <1>13, Zenon DEF RemoveStale
  <2>2. p \in Pids
    BY <2>1 DEF Types
  <2>3. clock' \in Nat /\ cuts' \in 0 .. MaxCuts
    BY <2>1, <2>2, RemovalTypes
  <2>4. UNCHANGED <<builds, cached>>
    BY <1>13, Zenon DEF RemoveStale, Do
  <2>5. QED
    BY <2>3, <2>4 DEF Counts
<1>14. CASE Promote
  BY <1>14 DEF Counts, Promote, Following, Do, Resume, End, Quietly, Calmly, disk
<1>15. CASE PromoteFails
  BY <1>15 DEF Counts, PromoteFails, Back, Do, Resume, End, Quietly, Calmly, disk
<1>16. CASE Restore
  BY <1>16 DEF Counts, Restore, Without, Do, Resume, End, Quietly, Calmly, disk
<1>17. CASE RestoreFails
  BY <1>17 DEF Counts, RestoreFails, Do, Resume, End, Quietly, Calmly, disk
<1>18. CASE Tidy
  <2>1. CASE UNCHANGED backups /\ Quietly
    BY <1>18, <2>1 DEF Tidy, Do, Counts, Quietly, Calmly
  <2>2. CASE \E left \in Remains(pid) : Remove(pid, left)
    <3>1. pid \in Pids
      BY DEF Types
    <3>2. clock' \in Nat /\ cuts' \in 0 .. MaxCuts
      BY <2>2, <3>1, RemovalTypes
    <3>3. UNCHANGED <<builds, cached>>
      BY <1>18, Zenon DEF Tidy, Do
    <3>4. QED
      BY <3>2, <3>3 DEF Counts
  <2>3. QED
    BY <1>18, <2>1, <2>2, Zenon DEF Tidy
<1>19. CASE Fail
  BY <1>19 DEF Counts, Fail, Do, Resume, End, Quietly, Calmly, disk
<1>20. CASE Killed
  BY <1>20 DEF Counts, Killed, Do, Resume, End, Quietly, Calmly, disk
<1>21. CASE UNCHANGED vars
  BY <1>21 DEF Counts, vars
<1>22. QED
  BY <1>1, <1>2, <1>3, <1>4, <1>5, <1>6, <1>7, <1>8, <1>9, <1>10, <1>11, <1>12, <1>13, <1>14, <1>15, <1>16, <1>17, <1>18, <1>19, <1>20, <1>21 DEF Next

(* Types.                                                                  *)
LEMMA TypesKept ==
  ASSUME Types, [Next]_vars
  PROVE  Types'
<1> USE BoundsAssumption
<1> Counts'
  BY CountsKept
<1> Counts /\ NoTree \in Tree
  BY DEF Types, NoTree, Tree
<1>1. CASE Start
  BY <1>1 DEF Types, Step, Start, Do, Resume, End, Quietly, Calmly, disk
<1>2. CASE NothingToRecover
  BY <1>2 DEF Types, Step, NothingToRecover, Do, Resume, End, Quietly, Calmly, disk
<1>3. CASE RecoveryFails
  BY <1>3 DEF Types, Step, RecoveryFails, Do, Resume, End, Quietly, Calmly, disk
<1>4. CASE RollForward
  BY <1>4 DEF Types, Step, RollForward, Newest, Left, Without, Do, Resume, End, Quietly, Calmly, disk
<1>5. CASE DropStale
  <2>1. PICK p \in togo : \E left \in Remains(p) : Remove(p, left)
    BY <1>5, Zenon DEF DropStale
  <2>2. p \in Pids
    BY <2>1 DEF Types
  <2>3. backups' \in [Pids -> Tree] /\ littered' \in BOOLEAN /\ missed' = missed
    BY <2>1, <2>2, RemovalTypes
  <2>4. QED
    BY <1>5, <2>3 DEF Types, Step, DropStale, Do, Resume, End, Quietly, Calmly, disk
<1>6. CASE Dropped
  BY <1>6 DEF Types, Step, Dropped, Do, Resume, End, Quietly, Calmly, disk
<1>7. CASE StageDist
  BY <1>7 DEF Types, Step, StageDist, Fresh, Do, Resume, End, Quietly, Calmly, disk
<1>8. CASE Compile
  <2>1. stage' \in Tree
    <3>1. builds \in Nat /\ clock + 1 \in Nat
      BY DEF Counts
    <3>2. stage.of \in SUBSET Nat
      BY DEF Types, Tree
    <3>3. QED
      BY <1>8, <3>1, <3>2 DEF Tree, Compile
  <2>2. QED
    BY <1>8, <2>1 DEF Types, Step, Compile, Following, Do, Resume, End, Quietly, Calmly, disk
<1>9. CASE WriteManifest
  BY <1>9 DEF Types, Step, WriteManifest, Following, Do, Resume, End, Quietly, Calmly, disk
<1>10. CASE Seal
  <2>1. stage' \in Tree
    BY <1>10 DEF Types, Tree, Seal
  <2>2. QED
    BY <1>10, <2>1 DEF Types, Step, Seal, Following, Do, Resume, End, Quietly, Calmly, disk
<1>11. CASE NothingToMove
  BY <1>11 DEF Types, Step, NothingToMove, Do, Resume, End, Quietly, Calmly, disk
<1>12. CASE MoveAside
  BY <1>12 DEF Types, Step, MoveAside, Do, Resume, End, Quietly, Calmly, disk
<1>13. CASE RemoveStale
  <2>1. PICK p \in {pid} : \E left \in Remains(p) : Remove(p, left)
    BY <1>13, Zenon DEF RemoveStale
  <2>2. p \in Pids
    BY <2>1 DEF Types
  <2>3. backups' \in [Pids -> Tree] /\ littered' \in BOOLEAN /\ missed' = missed
    BY <2>1, <2>2, RemovalTypes
  <2>4. QED
    BY <1>13, <2>3 DEF Types, Step, RemoveStale, Do, Resume, End, Quietly, Calmly, disk
<1>14. CASE Promote
  BY <1>14 DEF Types, Step, Promote, Following, Do, Resume, End, Quietly, Calmly, disk
<1>15. CASE PromoteFails
  BY <1>15 DEF Types, Step, PromoteFails, Back, Do, Resume, End, Quietly, Calmly, disk
<1>16. CASE Restore
  BY <1>16 DEF Types, Step, Restore, Without, Do, Resume, End, Quietly, Calmly, disk
<1>17. CASE RestoreFails
  BY <1>17 DEF Types, Step, RestoreFails, Do, Resume, End, Quietly, Calmly, disk
<1>18. CASE Tidy
  <2>1. backups' \in [Pids -> Tree] /\ littered' \in BOOLEAN /\ missed' = missed
    <3>1. CASE UNCHANGED backups /\ Quietly
      BY <3>1 DEF Types, Quietly, Calmly
    <3>2. CASE \E left \in Remains(pid) : Remove(pid, left)
      BY <3>2, RemovalTypes DEF Types
    <3>3. QED
      BY <1>18, <3>1, <3>2, Zenon DEF Tidy
  <2>2. QED
    BY <1>18, <2>1 DEF Types, Step, Tidy, Do, End
<1>19. CASE Fail
  BY <1>19 DEF Types, Step, Fail, Do, Resume, End, Quietly, Calmly, disk
<1>20. CASE Killed
  BY <1>20 DEF Types, Step, Killed, Do, Resume, End, Quietly, Calmly, disk
<1>21. CASE UNCHANGED vars
  BY <1>21 DEF Types, Step, vars
<1>22. QED
  BY <1>1, <1>2, <1>3, <1>4, <1>5, <1>6, <1>7, <1>8, <1>9, <1>10, <1>11, <1>12, <1>13, <1>14, <1>15, <1>16, <1>17, <1>18, <1>19, <1>20, <1>21 DEF Next

-----------------------------------------------------------------------------
(* Every tree keeps a time of its own.                                     *)
LEMMA NoTreeTime == NoTree \in Tree /\ NoTree.written = 0
BY DEF NoTree, Tree

(* Nothing is left of no tree.                                             *)
LEMMA Partless ==
  ASSUME Types, NEW p \in Pids, backups[p] = NoTree, NEW left \in Remains(p)
  PROVE  left = NoTree \/ left.written = clock + 1
<1>1. CASE left \in Part(NoTree)
  <2>1. left = [of |-> left.of, whole |-> left.whole, written |-> left.written]
        /\ left.of = {} /\ left.whole = FALSE /\ left.written \in {0, clock + 1}
    BY <1>1 DEF Part, NoTree
  <2>2. QED
    BY <2>1 DEF NoTree
<1>2. QED
  BY <1>1 DEF Remains

(* A removal gives no two trees the same time.                             *)
LEMMA RemovalStamps ==
  ASSUME Types, Stamps, NEW p \in Pids, NEW left \in Remains(p), Remove(p, left),
         UNCHANGED <<dist, stage>>
  PROVE  Stamps'
<1>1. /\ backups \in [Pids -> Tree] /\ dist \in Tree /\ stage \in Tree
      /\ clock \in Nat
  BY DEF Types, Counts
<1>2. /\ dist.written \in Nat /\ stage.written \in Nat
      /\ \A q \in Pids : backups[q].written \in Nat
  BY <1>1 DEF Tree
<1>3. backups' = [backups EXCEPT ![p] = left]
  BY Zenon DEF Remove
<1>4. clock' \in Nat /\ clock <= clock' /\ left.written <= clock'
  BY RemovalTypes
<1>5. left # NoTree => \/ left.written = clock + 1
                       \/ /\ backups[p] # NoTree
                          /\ left.written = backups[p].written
  BY Partless, RemovalLeaves
<1>7. \A q \in Pids : backups'[q] = IF q = p THEN left ELSE backups[q]
  BY <1>1, <1>3
<1>8. left # NoTree => /\ left.written \in 1 .. clock'
                       /\ left.written # dist.written
                       /\ left.written # stage.written
                       /\ \A q \in Pids : q # p => left.written # backups[q].written
  BY <1>1, <1>2, <1>4, <1>5, NoTreeTime DEF Stamps
<1>9. \A q \in Pids : backups'[q] # NoTree =>
         /\ backups'[q].written \in 1 .. clock'
         /\ backups'[q].written # dist.written
         /\ backups'[q].written # stage.written
  BY <1>1, <1>2, <1>4, <1>7, <1>8 DEF Stamps
<1>10. \A q \in Pids : backups'[q] # NoTree =>
         \A r \in Pids : r # q => backups'[q].written # backups'[r].written
  BY <1>1, <1>2, <1>4, <1>7, <1>8, NoTreeTime DEF Stamps
<1>11. QED
  BY <1>1, <1>4, <1>9, <1>10 DEF Stamps

(* So does no other step.                                                  *)
LEMMA StampsKept ==
  ASSUME Types, Stamps, Staged, [Next]_vars
  PROVE  Stamps'
<1>0. /\ dist \in Tree /\ stage \in Tree /\ backups \in [Pids -> Tree]
      /\ clock \in Nat /\ pid \in Pids /\ togo \subseteq Pids
  BY DEF Types, Counts
<1>01. /\ dist.written \in Nat /\ stage.written \in Nat
      /\ \A q \in Pids : backups[q].written \in Nat
  BY <1>0 DEF Tree
<1>1. CASE Start
  BY <1>1 DEF Stamps, Start, Do, Resume, End, Quietly, Calmly, disk
<1>2. CASE NothingToRecover
  BY <1>2 DEF Stamps, NothingToRecover, Do, Resume, End, Quietly, Calmly, disk
<1>3. CASE RecoveryFails
  BY <1>3 DEF Stamps, RecoveryFails, Do, Resume, End, Quietly, Calmly, disk
<1>4. CASE RollForward
  BY <1>0, <1>01, <1>4, NoTreeTime DEF Stamps, RollForward, Without, Quietly, Calmly
<1>5. CASE DropStale
  <2>1. PICK p \in togo : \E left \in Remains(p) : Remove(p, left)
    BY <1>5, Zenon DEF DropStale
  <2>2. p \in Pids
    BY <2>1 DEF Types
  <2>3. UNCHANGED <<dist, stage>>
    BY <1>5, Zenon DEF DropStale, Do
  <2>4. QED
    BY <2>1, <2>2, <2>3, RemovalStamps
<1>6. CASE Dropped
  BY <1>6 DEF Stamps, Dropped, Do, Resume, End, Quietly, Calmly, disk
<1>7. CASE StageDist
  BY <1>0, <1>01, <1>7, NoTreeTime DEF Stamps, StageDist, Fresh, Quietly, Calmly
<1>8. CASE Compile
  BY <1>0, <1>01, <1>8, NoTreeTime DEF Stamps, Compile, Quietly, Calmly
<1>9. CASE WriteManifest
  BY <1>9 DEF Stamps, WriteManifest, Following, Do, Resume, End, Quietly, Calmly, disk
<1>10. CASE Seal
  <2>1. stage # NoTree /\ stage'.written = stage.written /\ UNCHANGED <<dist, backups, clock>>
    BY <1>0, <1>10 DEF Staged, NoTree, Seal, Do, Quietly, Calmly, Tree
  <2>2. QED
    BY <2>1 DEF Stamps
<1>11. CASE NothingToMove
  BY <1>11 DEF Stamps, NothingToMove, Do, Resume, End, Quietly, Calmly, disk
<1>12. CASE MoveAside
  BY <1>0, <1>01, <1>12, NoTreeTime DEF Stamps, MoveAside, Quietly, Calmly
<1>13. CASE RemoveStale
  <2>1. PICK p \in {pid} : \E left \in Remains(p) : Remove(p, left)
    BY <1>13, Zenon DEF RemoveStale
  <2>2. p \in Pids
    BY <2>1 DEF Types
  <2>3. UNCHANGED <<dist, stage>>
    BY <1>13, Zenon DEF RemoveStale, Do
  <2>4. QED
    BY <2>1, <2>2, <2>3, RemovalStamps
<1>14. CASE Promote
  BY <1>0, <1>01, <1>14, NoTreeTime DEF Stamps, Promote, Quietly, Calmly
<1>15. CASE PromoteFails
  BY <1>15 DEF Stamps, PromoteFails, Back, Do, Resume, End, Quietly, Calmly, disk
<1>16. CASE Restore
  BY <1>0, <1>01, <1>16, NoTreeTime DEF Stamps, Restore, Without, Quietly, Calmly
<1>17. CASE RestoreFails
  BY <1>17 DEF Stamps, RestoreFails, Do, Resume, End, Quietly, Calmly, disk
<1>18. CASE Tidy
  <2>1. UNCHANGED <<dist, stage>>
    BY <1>18, Zenon DEF Tidy
  <2>2. CASE UNCHANGED backups /\ Quietly
    BY <2>1, <2>2 DEF Stamps, Quietly, Calmly
  <2>3. CASE \E left \in Remains(pid) : Remove(pid, left)
    BY <1>0, <2>1, <2>3, RemovalStamps
  <2>4. QED
    BY <1>18, <2>2, <2>3, Zenon DEF Tidy
<1>19. CASE Fail
  BY <1>19 DEF Stamps, Fail, Do, Resume, End, Quietly, Calmly, disk
<1>20. CASE Killed
  BY <1>20 DEF Stamps, Killed, Do, Resume, End, Quietly, Calmly, disk
<1>21. CASE UNCHANGED vars
  BY <1>21 DEF Stamps, vars
<1>22. QED
  BY <1>1, <1>2, <1>3, <1>4, <1>5, <1>6, <1>7, <1>8, <1>9, <1>10, <1>11, <1>12, <1>13, <1>14, <1>15, <1>16, <1>17, <1>18, <1>19, <1>20, <1>21 DEF Next

-----------------------------------------------------------------------------
(* What is staged for publication is whole and of one build.               *)
LEMMA StagedKept ==
  ASSUME Types, Staged, [Next]_vars
  PROVE  Staged'
<1>0. stage \in Tree
  BY DEF Types
<1>1. CASE Start
  BY <1>1 DEF Staged, Start, Do, Resume, End, Quietly, Calmly, disk
<1>2. CASE NothingToRecover
  BY <1>2 DEF Staged, NothingToRecover, Do, Resume, End, Quietly, Calmly, disk
<1>3. CASE RecoveryFails
  BY <1>3 DEF Staged, RecoveryFails, Do, Resume, End, Quietly, Calmly, disk
<1>4. CASE RollForward
  BY <1>4 DEF Staged, RollForward, Newest, Left, Without, Do, Resume, End, Quietly, Calmly, disk
<1>5. CASE DropStale
  BY <1>5 DEF Staged, DropStale, Do
<1>6. CASE Dropped
  BY <1>6 DEF Staged, Dropped, Do, Resume, End, Quietly, Calmly, disk
<1>7. CASE StageDist
  BY <1>7 DEF Staged, StageDist, Fresh, Do, Resume, End, Quietly, Calmly, disk
<1>8. CASE Compile
  <2>1. stage' = [of |-> {builds}, whole |-> FALSE, written |-> clock + 1]
    <3>1. stage.of = {}
      BY <1>8 DEF Staged, Compile, Do, NoTree
    <3>2. stage' = [of |-> stage.of \cup {builds}, whole |-> FALSE, written |-> clock + 1]
      BY <1>8, Zenon DEF Compile
    <3>3. stage.of \cup {builds} = {builds}
      BY <3>1
    <3>4. QED
      BY <3>2, <3>3, Zenon
  <2>2. at' = "manifest" /\ builds' = builds
    BY <1>8 DEF Compile, Do, Resume, Following
  <2>3. QED
    BY <2>1, <2>2 DEF Staged
<1>9. CASE WriteManifest
  BY <1>9 DEF Staged, WriteManifest, Following, Do, Resume, End, Quietly, Calmly, disk
<1>10. CASE Seal
  <2>1. stage'.of = stage.of /\ stage'.whole /\ at = "seal" /\ at' = "aside" /\ builds' = builds
    BY <1>0, <1>10 DEF Seal, Do, Resume, Following, Tree
  <2>2. QED
    BY <2>1 DEF Staged
<1>11. CASE NothingToMove
  BY <1>11 DEF Staged, NothingToMove, Do, Resume, End, Quietly, Calmly, disk
<1>12. CASE MoveAside
  BY <1>12 DEF Staged, MoveAside, Do, Resume, End, Quietly, Calmly, disk
<1>13. CASE RemoveStale
  <2>1. UNCHANGED <<stage, builds>> /\ at = "aside"
    BY <1>13, Zenon DEF RemoveStale, Do
  <2>2. at' = "aside" \/ at' = "idle"
    BY <1>13, Zenon DEF RemoveStale, Resume, End
  <2>3. QED
    BY <2>1, <2>2 DEF Staged
<1>14. CASE Promote
  BY <1>14 DEF Staged, Promote, Following, Do, Resume, End, Quietly, Calmly, disk
<1>15. CASE PromoteFails
  BY <1>15 DEF Staged, PromoteFails, Back, Do, Resume, End, Quietly, Calmly, disk
<1>16. CASE Restore
  BY <1>16 DEF Staged, Restore, Without, Do, Resume, End, Quietly, Calmly, disk
<1>17. CASE RestoreFails
  BY <1>17 DEF Staged, RestoreFails, Do, Resume, End, Quietly, Calmly, disk
<1>18. CASE Tidy
  <2>1. at' = "idle"
    BY <1>18, Zenon DEF Tidy, End
  <2>2. QED
    BY <2>1 DEF Staged
<1>19. CASE Fail
  BY <1>19 DEF Staged, Fail, Do, Resume, End, Quietly, Calmly, disk
<1>20. CASE Killed
  BY <1>20 DEF Staged, Killed, Do, Resume, End, Quietly, Calmly, disk
<1>21. CASE UNCHANGED vars
  BY <1>21 DEF Staged, vars
<1>22. QED
  BY <1>1, <1>2, <1>3, <1>4, <1>5, <1>6, <1>7, <1>8, <1>9, <1>10, <1>11, <1>12, <1>13, <1>14, <1>15, <1>16, <1>17, <1>18, <1>19, <1>20, <1>21 DEF Next

-----------------------------------------------------------------------------
(* Output stays whole.                                                     *)
LEMMA IntactNoTree == Intact(NoTree)
BY DEF Intact

LEMMA RemovalWhole ==
  ASSUME Types, WholeOutput, NEW p \in Pids, NEW left \in Remains(p), Remove(p, left),
         dist' = dist
  PROVE  WholeOutput'
<1> SUFFICES ASSUME ~littered'
             PROVE  Intact(dist) /\ \A q \in Pids : Intact(backups'[q])
  BY DEF WholeOutput, Intact
<1>1. littered \in BOOLEAN /\ left.whole \in BOOLEAN /\ backups \in [Pids -> Tree]
  BY RemovalLeaves DEF Types, Tree
<1>2. ~littered /\ (left = NoTree \/ left.whole)
  BY <1>1, Zenon DEF Remove
<1>3. left = NoTree \/ left = backups[p]
  BY <1>2, RemovalLeaves
<1>4. Intact(dist) /\ \A q \in Pids : Intact(backups[q])
  BY <1>2 DEF WholeOutput
<1>5. Intact(left)
  BY <1>3, <1>4, IntactNoTree
<1>6. backups' = [backups EXCEPT ![p] = left]
  BY Zenon DEF Remove
<1>7. \A q \in Pids : Intact(backups'[q])
  BY <1>1, <1>4, <1>5, <1>6, Zenon
<1>8. QED
  BY <1>4, <1>7

LEMMA WholeKept ==
  ASSUME Types, Staged, WholeOutput, [Next]_vars
  PROVE  WholeOutput'
<1>0. backups \in [Pids -> Tree] /\ pid \in Pids /\ togo \subseteq Pids
  BY DEF Types
<1>01. ~littered => Intact(dist) /\ \A p \in Pids : Intact(backups[p])
  BY DEF WholeOutput
<1>02. ASSUME UNCHANGED <<dist, backups, littered>>
       PROVE  WholeOutput'
  BY <1>02 DEF WholeOutput, Intact
<1>1. CASE Start
  BY <1>02, <1>1 DEF Start, Quietly, Calmly, disk
<1>2. CASE NothingToRecover
  BY <1>02, <1>2 DEF NothingToRecover, Quietly, Calmly, disk
<1>3. CASE RecoveryFails
  BY <1>02, <1>3 DEF RecoveryFails, Quietly, Calmly, disk
<1>4. CASE RollForward
  <2>1. UNCHANGED littered
    BY <1>4 DEF RollForward, Quietly, Calmly
  <2>2. \E t \in {NoTree, dist} \cup {backups[p] : p \in Pids} : dist' = t
    BY <1>0, <1>4 DEF RollForward
  <2>3. \A q \in Pids : backups'[q] \in {NoTree, dist, backups[q]}
    BY <1>0, <1>4 DEF RollForward, Without, Newest, Left
  <2>4. QED
    BY <1>01, <2>1, <2>2, <2>3, IntactNoTree DEF WholeOutput, Intact
<1>5. CASE DropStale
  <2>1. PICK p \in togo : \E left \in Remains(p) : Remove(p, left)
    BY <1>5, Zenon DEF DropStale
  <2>2. p \in Pids
    BY <2>1 DEF Types
  <2>3. dist' = dist
    BY <1>5, Zenon DEF DropStale
  <2>4. QED
    BY <2>1, <2>2, <2>3, RemovalWhole
<1>6. CASE Dropped
  BY <1>02, <1>6 DEF Dropped, Quietly, Calmly, disk
<1>7. CASE StageDist
  BY <1>02, <1>7 DEF StageDist, Quietly, Calmly, disk
<1>8. CASE Compile
  BY <1>02, <1>8 DEF Compile, Quietly, Calmly, disk
<1>9. CASE WriteManifest
  BY <1>02, <1>9 DEF WriteManifest, Quietly, Calmly, disk
<1>10. CASE Seal
  BY <1>02, <1>10 DEF Seal, Quietly, Calmly, disk
<1>11. CASE NothingToMove
  BY <1>02, <1>11 DEF NothingToMove, Quietly, Calmly, disk
<1>12. CASE MoveAside
  <2>1. UNCHANGED littered
    BY <1>12 DEF MoveAside, Quietly, Calmly
  <2>2. \E t \in {NoTree, dist} \cup {backups[p] : p \in Pids} : dist' = t
    BY <1>0, <1>12 DEF MoveAside
  <2>3. \A q \in Pids : backups'[q] \in {NoTree, dist, backups[q]}
    BY <1>0, <1>12 DEF MoveAside
  <2>4. QED
    BY <1>01, <2>1, <2>2, <2>3, IntactNoTree DEF WholeOutput, Intact
<1>13. CASE RemoveStale
  <2>1. PICK p \in {pid} : \E left \in Remains(p) : Remove(p, left)
    BY <1>13, Zenon DEF RemoveStale
  <2>2. p \in Pids
    BY <2>1 DEF Types
  <2>3. dist' = dist
    BY <1>13, Zenon DEF RemoveStale
  <2>4. QED
    BY <2>1, <2>2, <2>3, RemovalWhole
<1>14. CASE Promote
  <2>1. Intact(stage)
    BY <1>14 DEF Intact, Staged, Promote, Do
  <2>2. dist' = stage /\ UNCHANGED <<backups, littered>>
    BY <1>14 DEF Promote, Quietly, Calmly
  <2>3. QED
    BY <1>01, <2>1, <2>2 DEF WholeOutput, Intact
<1>15. CASE PromoteFails
  BY <1>02, <1>15 DEF PromoteFails, Quietly, Calmly, disk
<1>16. CASE Restore
  <2>1. UNCHANGED littered
    BY <1>16 DEF Restore, Quietly, Calmly
  <2>2. \E t \in {NoTree, dist} \cup {backups[p] : p \in Pids} : dist' = t
    BY <1>0, <1>16 DEF Restore
  <2>3. \A q \in Pids : backups'[q] \in {NoTree, dist, backups[q]}
    BY <1>0, <1>16 DEF Restore, Without
  <2>4. QED
    BY <1>01, <2>1, <2>2, <2>3, IntactNoTree DEF WholeOutput, Intact
<1>17. CASE RestoreFails
  BY <1>02, <1>17 DEF RestoreFails, Quietly, Calmly, disk
<1>18. CASE Tidy
  <2>1. UNCHANGED dist
    BY <1>18, Zenon DEF Tidy
  <2>2. CASE UNCHANGED backups /\ Quietly
    BY <1>02, <2>1, <2>2 DEF Quietly, Calmly
  <2>3. CASE \E left \in Remains(pid) : Remove(pid, left)
    BY <1>0, <2>1, <2>3, RemovalWhole
  <2>4. QED
    BY <1>18, <2>2, <2>3, Zenon DEF Tidy
<1>19. CASE Fail
  BY <1>02, <1>19 DEF Fail, Quietly, Calmly, disk
<1>20. CASE Killed
  BY <1>02, <1>20 DEF Killed, Quietly, Calmly, disk
<1>21. CASE UNCHANGED vars
  BY <1>02, <1>21 DEF vars
<1>22. QED
  BY <1>1, <1>2, <1>3, <1>4, <1>5, <1>6, <1>7, <1>8, <1>9, <1>10, <1>11, <1>12, <1>13, <1>14, <1>15, <1>16, <1>17, <1>18, <1>19, <1>20, <1>21 DEF Next

-----------------------------------------------------------------------------
(* The output that a build has found is where it can be put back.          *)
LEMMA KeptKept ==
  ASSUME Types, Staged, Kept, [Next]_vars
  PROVE  Kept'
<1>0. backups \in [Pids -> Tree] /\ pid \in Pids /\ togo \subseteq Pids
  BY DEF Types
<1>1. CASE Start
  BY <1>1 DEF Kept, Start, Do, Resume, End, Quietly, Calmly, disk
<1>2. CASE NothingToRecover
  BY <1>2 DEF Kept, NothingToRecover, Do, Resume, End, Quietly, Calmly, disk
<1>3. CASE RecoveryFails
  BY <1>3 DEF Kept, RecoveryFails, Do, Resume, End, Quietly, Calmly, disk
<1>4. CASE RollForward
  BY <1>0, <1>4 DEF Kept, RollForward, Newest, Left, Do, Resume, End, Quietly, Calmly, disk
<1>5. CASE DropStale
  <2>1. UNCHANGED <<at, dist, outcome, had>> /\ at = "drop"
    BY <1>5, Zenon DEF DropStale, Do
  <2>2. QED
    BY <2>1 DEF Kept
<1>6. CASE Dropped
  BY <1>6 DEF Kept, Dropped, Do, Resume, End, Quietly, Calmly, disk
<1>7. CASE StageDist
  BY <1>7 DEF Kept, StageDist, Fresh, Do, Resume, End, Quietly, Calmly, disk
<1>8. CASE Compile
  BY <1>8 DEF Kept, Compile, Following, Do, Resume, End, Quietly, Calmly, disk
<1>9. CASE WriteManifest
  BY <1>9 DEF Kept, WriteManifest, Following, Do, Resume, End, Quietly, Calmly, disk
<1>10. CASE Seal
  BY <1>10 DEF Kept, Seal, Following, Do, Resume, End, Quietly, Calmly, disk
<1>11. CASE NothingToMove
  BY <1>11 DEF Kept, NothingToMove, Do, Resume, End, Quietly, Calmly, disk
<1>12. CASE MoveAside
  BY <1>0, <1>12 DEF Kept, MoveAside, Do, Resume, End, Quietly, Calmly, disk
<1>13. CASE RemoveStale
  <2>1. UNCHANGED <<dist, had>> /\ at = "aside"
    BY <1>13, Zenon DEF RemoveStale, Do
  <2>2. (at' = "aside" /\ outcome' = outcome) \/ at' = "idle"
    BY <1>13, Zenon DEF RemoveStale, Resume, End
  <2>3. QED
    BY <2>1, <2>2 DEF Kept
<1>14. CASE Promote
  <2>1. at = "promote" /\ at' = "tidy" /\ dist' = stage /\ UNCHANGED outcome
    BY <1>14 DEF Promote, Do, Resume, Following
  <2>2. stage # NoTree
    BY <2>1 DEF Staged, NoTree
  <2>3. QED
    BY <2>1, <2>2 DEF Kept
<1>15. CASE PromoteFails
  BY <1>0, <1>15 DEF Kept, PromoteFails, Back, Do, Resume, End, Quietly, Calmly, disk
<1>16. CASE Restore
  BY <1>0, <1>16 DEF Kept, Restore, Do, Resume, End, Quietly, Calmly, disk
<1>17. CASE RestoreFails
  BY <1>17 DEF Kept, RestoreFails, Do, Resume, End, Quietly, Calmly, disk
<1>18. CASE Tidy
  <2>1. at' = "idle"
    BY <1>18, Zenon DEF Tidy, End
  <2>2. QED
    BY <2>1 DEF Kept
<1>19. CASE Fail
  BY <1>19 DEF Kept, Fail, Do, Resume, End, Quietly, Calmly, disk
<1>20. CASE Killed
  BY <1>20 DEF Kept, Killed, Do, Resume, End, Quietly, Calmly, disk
<1>21. CASE UNCHANGED vars
  BY <1>21 DEF Kept, vars
<1>22. QED
  BY <1>1, <1>2, <1>3, <1>4, <1>5, <1>6, <1>7, <1>8, <1>9, <1>10, <1>11, <1>12, <1>13, <1>14, <1>15, <1>16, <1>17, <1>18, <1>19, <1>20, <1>21 DEF Next

-----------------------------------------------------------------------------
(* A build that ends in an error ends with the output it has found, or with *)
(* that output as its backup.                                              *)
LEMMA ErrorKept ==
  ASSUME Types, Kept, ErrorKeepsOutput, [Next]_vars
  PROVE  ErrorKeepsOutput'
<1>0. backups \in [Pids -> Tree] /\ pid \in Pids
  BY DEF Types
<1>1. CASE Start
  BY <1>1 DEF Kept, ErrorKeepsOutput, Start, Do, Resume, End, Quietly, Calmly, disk
<1>2. CASE NothingToRecover
  BY <1>2 DEF Kept, ErrorKeepsOutput, NothingToRecover, Do, Resume, End, Quietly, Calmly, disk
<1>3. CASE RecoveryFails
  BY <1>3 DEF Kept, ErrorKeepsOutput, RecoveryFails, Do, Resume, End, Quietly, Calmly, disk
<1>4. CASE RollForward
  BY <1>4 DEF Kept, ErrorKeepsOutput, RollForward, Newest, Left, Without, Do, Resume, End, Quietly, Calmly, disk
<1>5. CASE DropStale
  <2>1. outcome' = outcome /\ outcome = "none"
    BY <1>5, Zenon DEF DropStale, Do, Kept
  <2>2. QED
    BY <2>1 DEF ErrorKeepsOutput
<1>6. CASE Dropped
  BY <1>6 DEF Kept, ErrorKeepsOutput, Dropped, Do, Resume, End, Quietly, Calmly, disk
<1>7. CASE StageDist
  BY <1>7 DEF Kept, ErrorKeepsOutput, StageDist, Fresh, Do, Resume, End, Quietly, Calmly, disk
<1>8. CASE Compile
  BY <1>8 DEF Kept, ErrorKeepsOutput, Compile, Following, Do, Resume, End, Quietly, Calmly, disk
<1>9. CASE WriteManifest
  BY <1>9 DEF Kept, ErrorKeepsOutput, WriteManifest, Following, Do, Resume, End, Quietly, Calmly, disk
<1>10. CASE Seal
  BY <1>10 DEF Kept, ErrorKeepsOutput, Seal, Following, Do, Resume, End, Quietly, Calmly, disk
<1>11. CASE NothingToMove
  BY <1>11 DEF Kept, ErrorKeepsOutput, NothingToMove, Do, Resume, End, Quietly, Calmly, disk
<1>12. CASE MoveAside
  BY <1>12 DEF Kept, ErrorKeepsOutput, MoveAside, Do, Resume, End, Quietly, Calmly, disk
<1>13. CASE RemoveStale
  <2>1. UNCHANGED <<dist, had>> /\ dist = had /\ outcome = "none"
    BY <1>13, Zenon DEF RemoveStale, Do, Kept
  <2>2. outcome' \in {"none", "error"}
    <3>1. outcome' = outcome \/ outcome' = "error"
      BY <1>13 DEF RemoveStale, Resume, End
    <3>2. QED
      BY <2>1, <3>1
  <2>3. QED
    BY <2>1, <2>2 DEF ErrorKeepsOutput
<1>14. CASE Promote
  BY <1>14 DEF Kept, ErrorKeepsOutput, Promote, Following, Do, Resume, End, Quietly, Calmly, disk
<1>15. CASE PromoteFails
  BY <1>15 DEF Kept, ErrorKeepsOutput, PromoteFails, Back, Do, Resume, End, Quietly, Calmly, disk
<1>16. CASE Restore
  BY <1>16 DEF Kept, ErrorKeepsOutput, Restore, Without, Do, Resume, End, Quietly, Calmly, disk
<1>17. CASE RestoreFails
  BY <1>17 DEF Kept, ErrorKeepsOutput, RestoreFails, Do, Resume, End, Quietly, Calmly, disk
<1>18. CASE Tidy
  <2>1. outcome' = "ok"
    BY <1>18, Zenon DEF Tidy, End
  <2>2. QED
    BY <2>1 DEF ErrorKeepsOutput
<1>19. CASE Fail
  BY <1>19 DEF Kept, ErrorKeepsOutput, Fail, Do, Resume, End, Quietly, Calmly, disk
<1>20. CASE Killed
  BY <1>20 DEF Kept, ErrorKeepsOutput, Killed, Do, Resume, End, Quietly, Calmly, disk
<1>21. CASE UNCHANGED vars
  BY <1>21 DEF Kept, ErrorKeepsOutput, vars
<1>22. QED
  BY <1>1, <1>2, <1>3, <1>4, <1>5, <1>6, <1>7, <1>8, <1>9, <1>10, <1>11, <1>12, <1>13, <1>14, <1>15, <1>16, <1>17, <1>18, <1>19, <1>20, <1>21 DEF Next

-----------------------------------------------------------------------------
(* The current output.                                                     *)

\* Where there are backups, one of them is the newest.
LEMMA NewestExists ==
  ASSUME Types, Stamps, Left # {}
  PROVE  \E p \in Pids : Newest(p)
<1> DEFINE Age == {clock - backups[p].written : p \in Left}
           Less == OpToRel(<, Nat)
<1>1. clock \in Nat /\ backups \in [Pids -> Tree] /\ Left \subseteq Pids
  BY DEF Types, Counts, Left
<1>2. \A p \in Left : backups[p].written \in 0 .. clock
  <2> SUFFICES ASSUME NEW p \in Left
               PROVE  backups[p].written \in 0 .. clock
    OBVIOUS
  <2>1. backups[p].written \in 1 .. clock
    BY DEF Left, Stamps
  <2>2. QED
    BY <1>1, <2>1
<1>3. Age \subseteq Nat /\ Age # {}
  BY <1>1, <1>2
<1>4. PICK least \in Age : \A age \in Age : <<age, least>> \notin Less
  <2>1. IsWellFoundedOn(Less, Nat)
    BY NatLessThanWellFounded
  <2> HIDE DEF Age, Less
  <2>2. QED
    BY <1>3, <2>1, WFMin
<1>5. \A age \in Age : ~(age < least)
  BY <1>3, <1>4 DEF OpToRel
<1>6. PICK p \in Left : least = clock - backups[p].written
  BY <1>4
<1>7. ASSUME NEW q \in Left
      PROVE  backups[q].written <= backups[p].written
  <2>1. clock - backups[q].written \in Age
    OBVIOUS
  <2>2. ~(clock - backups[q].written < clock - backups[p].written)
    BY <1>5, <1>6, <2>1
  <2>3. QED
    BY <1>1, <1>2, <2>2
<1>8. QED
  BY <1>1, <1>7 DEF Newest

LEMMA LatestOf ==
  ASSUME NEW n \in Nat, NEW tree, tree.of = {n}
  PROVE  Latest(tree) = n
BY DEF Latest

\* It is the output of a build whose manifest is in the cache.
LEMMA CurrentBuilt ==
  ASSUME Types, Stamps, Built
  PROVE  Current \in 0 .. cached
<1>1. cached \in Nat
  <2>1. Counts
    BY DEF Types
  <2>2. QED
    BY <2>1 DEF Counts
<1>2. CASE dist # NoTree
  <2>1. PICK n \in 0 .. cached : dist.of = {n}
    BY <1>2 DEF Built
  <2>2. Latest(dist) = n
    BY <1>1, <2>1, LatestOf
  <2>3. QED
    BY <1>2, <2>1, <2>2 DEF Current
<1>3. CASE dist = NoTree /\ Left = {}
  BY <1>1, <1>3 DEF Current
<1>4. CASE dist = NoTree /\ Left # {}
  <2> DEFINE newest == CHOOSE p \in Pids : Newest(p)
  <2>1. newest \in Pids /\ Newest(newest)
    BY <1>4, NewestExists
  <2>2. PICK n \in 0 .. cached : backups[newest].of = {n}
    BY <2>1 DEF Built, Newest, Left
  <2> HIDE DEF newest
  <2>3. Latest(backups[newest]) = n
    BY <1>1, <2>2, LatestOf
  <2>4. Current = Latest(backups[newest])
    BY <1>4 DEF Current, newest
  <2>5. QED
    BY <2>2, <2>3, <2>4
<1>5. QED
  BY <1>2, <1>3, <1>4

\* Times tell backups apart: there is one newest.
LEMMA NewestUnique ==
  ASSUME Types, Stamps, dist = NoTree, NEW p \in Pids, Newest(p)
  PROVE  Current = Latest(backups[p])
<1> DEFINE newest == CHOOSE q \in Pids : Newest(q)
<1>1. newest \in Pids /\ Newest(newest)
  OBVIOUS
<1>2. \A q \in Left : backups[q].written \in Nat /\ q \in Pids
  BY DEF Types, Tree, Left
<1>3. backups[p].written = backups[newest].written
  <2>1. p \in Left /\ newest \in Left
    BY <1>1 DEF Newest
  <2>2. /\ backups[p].written <= backups[newest].written
        /\ backups[newest].written <= backups[p].written
    BY <1>1, <2>1 DEF Newest
  <2> HIDE DEF newest
  <2>3. QED
    BY <1>2, <2>1, <2>2
<1>4. p = newest
  BY <1>1, <1>3 DEF Newest, Left, Stamps
<1>5. Left # {}
  BY DEF Newest
<1>6. QED
  BY <1>4, <1>5 DEF Current

-----------------------------------------------------------------------------
(* Output is built before it is published.                                *)
LEMMA RemovalBuilt ==
  ASSUME Types, Built, NEW p \in Pids, NEW left \in Remains(p), Remove(p, left),
         backups[p] # NoTree, cached' = cached
  PROVE  \A q \in Pids : backups'[q] # NoTree => \E n \in 0 .. cached' : backups'[q].of = {n}
<1>1. backups' = [backups EXCEPT ![p] = left] /\ backups \in [Pids -> Tree]
  BY Zenon DEF Remove, Types
<1>2. left = NoTree \/ left.of = backups[p].of
  BY RemovalLeaves
<1>3. \A q \in Pids : backups[q] # NoTree => \E n \in 0 .. cached : backups[q].of = {n}
  BY DEF Built
<1>4. \A q \in Pids : backups'[q] = IF q = p THEN left ELSE backups[q]
  BY <1>1
<1>5. QED
  BY <1>2, <1>3, <1>4

LEMMA BuiltKept ==
  ASSUME Types, Staged, Built, [Next]_vars
  PROVE  Built'
<1>0. /\ backups \in [Pids -> Tree] /\ pid \in Pids /\ togo \subseteq Pids
      /\ dist \in Tree /\ stage \in Tree
  BY DEF Types
<1>01. builds \in Nat /\ cached \in Nat /\ cached <= builds
  <2>1. Counts
    BY DEF Types
  <2>2. QED
    BY <2>1, BoundsAssumption DEF Counts
<1>1. CASE Start
  BY <1>1 DEF Built, Left, Start, Do, Resume, End, Quietly, Calmly, disk
<1>2. CASE NothingToRecover
  BY <1>2 DEF Built, Left, NothingToRecover, Do, Resume, End, Quietly, Calmly, disk
<1>3. CASE RecoveryFails
  BY <1>3 DEF Built, Left, RecoveryFails, Do, Resume, End, Quietly, Calmly, disk
<1>4. CASE RollForward
  <2>1. UNCHANGED <<cached, builds>>
    BY <1>4 DEF RollForward, Do
  <2>2. dist' \in {NoTree, dist} \cup {backups[p] : p \in Pids}
    BY <1>0, <1>4 DEF RollForward
  <2>3. \A q \in Pids : backups'[q] \in {NoTree, dist, backups[q]}
    BY <1>0, <1>4 DEF RollForward, Without, Newest, Left
  <2>4. at' \notin {"seal", "aside"} /\ (at' = "promote" => cached = builds)
    BY <1>4 DEF RollForward, Resume, End, Do, Built
  <2>5. at' = "drop" => togo' \subseteq Left'
    BY <1>0, <1>4 DEF RollForward, Resume, End, Do, Left, Without
  <2>6. QED
    BY <2>1, <2>2, <2>3, <2>4, <2>5 DEF Built
<1>5. CASE DropStale
  <2>1. PICK p \in togo : \E left \in Remains(p) : Remove(p, left)
    BY <1>5, Zenon DEF DropStale
  <2>2. p \in Pids
    BY <2>1 DEF Types
  <2>3. UNCHANGED <<at, dist, cached>> /\ at = "drop"
    BY <1>5, Zenon DEF DropStale, Do
  <2>4. backups[p] # NoTree
    BY <2>1, <2>3 DEF Built, Left
  <2>5. \A q \in Pids : backups'[q] # NoTree => \E n \in 0 .. cached' : backups'[q].of = {n}
    BY <2>1, <2>2, <2>3, <2>4, RemovalBuilt
  <2>6. togo' \subseteq Left'
    <3>1. PICK q \in togo : togo' = togo \ {q} /\ \E left \in Remains(q) : Remove(q, left)
      BY <1>5, Zenon DEF DropStale
    <3>2. \A r \in Pids \ {q} : backups'[r] = backups[r]
      BY <1>0, <3>1 DEF Remove
    <3>3. QED
      BY <1>0, <2>3, <3>1, <3>2 DEF Built, Left
  <2>7. QED
    BY <2>3, <2>5, <2>6 DEF Built
<1>6. CASE Dropped
  BY <1>6 DEF Built, Left, Dropped, Do, Resume, End, Quietly, Calmly, disk
<1>7. CASE StageDist
  BY <1>7 DEF Built, Left, StageDist, Fresh, Do, Resume, End, Quietly, Calmly, disk
<1>8. CASE Compile
  BY <1>8 DEF Built, Left, Compile, Following, Do, Resume, End, Quietly, Calmly, disk
<1>9. CASE WriteManifest
  <2>1. cached' = builds /\ UNCHANGED <<dist, backups, builds>> /\ at' = "seal"
    BY <1>9 DEF WriteManifest, Do, Resume, Following, disk
  <2>2. 0 .. cached \subseteq 0 .. cached'
    BY <1>01, <2>1
  <2>3. QED
    BY <2>1, <2>2 DEF Built
<1>10. CASE Seal
  BY <1>10 DEF Built, Left, Seal, Following, Do, Resume, End, Quietly, Calmly, disk
<1>11. CASE NothingToMove
  BY <1>11 DEF Built, Left, NothingToMove, Do, Resume, End, Quietly, Calmly, disk
<1>12. CASE MoveAside
  <2>1. UNCHANGED <<cached, builds>>
    BY <1>12 DEF MoveAside, Do
  <2>2. dist' \in {NoTree, dist} \cup {backups[p] : p \in Pids}
    BY <1>0, <1>12 DEF MoveAside
  <2>3. \A q \in Pids : backups'[q] \in {NoTree, dist, backups[q]}
    BY <1>0, <1>12 DEF MoveAside
  <2>4. at' \notin {"seal", "aside"} /\ (at' = "promote" => cached = builds)
    BY <1>12 DEF MoveAside, Resume, End, Do, Built
  <2>5. at' = "drop" => togo' \subseteq Left'
    BY <1>0, <1>12 DEF MoveAside, Resume, End, Do, Left, Without
  <2>6. QED
    BY <2>1, <2>2, <2>3, <2>4, <2>5 DEF Built
<1>13. CASE RemoveStale
  <2>1. UNCHANGED <<dist, cached, builds>> /\ at = "aside" /\ backups[pid] # NoTree
    BY <1>13, Zenon DEF RemoveStale, Do
  <2>2. at' = "aside" \/ at' = "idle"
    BY <1>13, Zenon DEF RemoveStale, Resume, End
  <2>3. \E left \in Remains(pid) : Remove(pid, left)
    BY <1>13, Zenon DEF RemoveStale
  <2>4. \A q \in Pids : backups'[q] # NoTree => \E n \in 0 .. cached' : backups'[q].of = {n}
    BY <1>0, <2>1, <2>3, RemovalBuilt
  <2>5. QED
    BY <2>1, <2>2, <2>4 DEF Built
<1>14. CASE Promote
  <2>1. stage.of = {builds} /\ cached = builds
    BY <1>14 DEF Staged, Built, Promote, Do
  <2>2. dist' = stage /\ UNCHANGED <<backups, cached, builds>> /\ at' = "tidy"
    BY <1>14 DEF Promote, Do, Resume, Following
  <2>3. \E n \in 0 .. cached' : dist'.of = {n}
    BY <1>01, <2>1, <2>2
  <2>4. QED
    BY <2>2, <2>3 DEF Built
<1>15. CASE PromoteFails
  BY <1>15 DEF Built, Left, PromoteFails, Back, Do, Resume, End, Quietly, Calmly, disk
<1>16. CASE Restore
  <2>1. UNCHANGED <<cached, builds>>
    BY <1>16 DEF Restore, Do
  <2>2. dist' \in {NoTree, dist} \cup {backups[p] : p \in Pids}
    BY <1>0, <1>16 DEF Restore
  <2>3. \A q \in Pids : backups'[q] \in {NoTree, dist, backups[q]}
    BY <1>0, <1>16 DEF Restore, Without
  <2>4. at' \notin {"seal", "aside"} /\ (at' = "promote" => cached = builds)
    BY <1>16 DEF Restore, Resume, End, Do, Built
  <2>5. at' = "drop" => togo' \subseteq Left'
    BY <1>0, <1>16 DEF Restore, Resume, End, Do, Left, Without
  <2>6. QED
    BY <2>1, <2>2, <2>3, <2>4, <2>5 DEF Built
<1>17. CASE RestoreFails
  BY <1>17 DEF Built, Left, RestoreFails, Do, Resume, End, Quietly, Calmly, disk
<1>18. CASE Tidy
  <2>1. UNCHANGED <<dist, cached>> /\ at' = "idle"
    BY <1>18, Zenon DEF Tidy, End
  <2>2. CASE UNCHANGED backups
    BY <2>1, <2>2 DEF Built
  <2>3. CASE backups[pid] # NoTree /\ \E left \in Remains(pid) : Remove(pid, left)
    <3>1. \A q \in Pids : backups'[q] # NoTree => \E n \in 0 .. cached' : backups'[q].of = {n}
      BY <1>0, <2>1, <2>3, RemovalBuilt
    <3>2. QED
      BY <2>1, <3>1 DEF Built
  <2>4. QED
    BY <1>18, <2>2, <2>3, Zenon DEF Tidy
<1>19. CASE Fail
  BY <1>19 DEF Built, Left, Fail, Do, Resume, End, Quietly, Calmly, disk
<1>20. CASE Killed
  BY <1>20 DEF Built, Left, Killed, Do, Resume, End, Quietly, Calmly, disk
<1>21. CASE UNCHANGED vars
  BY <1>21 DEF Built, Left, vars
<1>22. QED
  BY <1>1, <1>2, <1>3, <1>4, <1>5, <1>6, <1>7, <1>8, <1>9, <1>10, <1>11, <1>12, <1>13, <1>14, <1>15, <1>16, <1>17, <1>18, <1>19, <1>20, <1>21 DEF Next

-----------------------------------------------------------------------------
(* What is published is newer than what it supersedes.                        *)
LEMMA CleanRemoval ==
  ASSUME Types, NEW p \in Pids, NEW left \in Remains(p), Remove(p, left), ~littered'
  PROVE  /\ ~littered
         /\ \A q \in Pids : backups'[q] \in {NoTree, backups[q]}
<1>1. littered \in BOOLEAN /\ left.whole \in BOOLEAN /\ backups \in [Pids -> Tree]
  BY RemovalLeaves DEF Types, Tree
<1>2. ~littered /\ (left = NoTree \/ left.whole)
  BY <1>1, Zenon DEF Remove
<1>3. left = NoTree \/ left = backups[p]
  BY <1>2, RemovalLeaves
<1>4. backups' = [backups EXCEPT ![p] = left]
  BY Zenon DEF Remove
<1>5. QED
  BY <1>1, <1>2, <1>3, <1>4

LEMMA OrderKept ==
  ASSUME Types, Stamps, Staged, Kept, Order, [Next]_vars
  PROVE  Order'
<1>0. /\ backups \in [Pids -> Tree] /\ pid \in Pids /\ togo \subseteq Pids
      /\ dist \in Tree /\ stage \in Tree /\ clock \in Nat
  BY DEF Types, Counts
<1>01. /\ dist.written \in Nat /\ stage.written \in Nat
       /\ \A q \in Pids : backups[q].written \in Nat
       /\ NoTree.written = 0
  BY <1>0, NoTreeTime DEF Tree
<1>1. CASE Start
  BY <1>1 DEF Order, Start, Do, Resume, End, Quietly, Calmly, disk
<1>2. CASE NothingToRecover
  <2>1. /\ (dist # NoTree \/ Left = {}) /\ at' = "stage"
        /\ UNCHANGED <<dist, backups, littered, missed>>
    BY <1>2 DEF NothingToRecover, Resume, Quietly, Calmly, disk
  <2>2. QED
    BY <1>0, <2>1 DEF Order, Left
<1>3. CASE RecoveryFails
  BY <1>3 DEF Order, RecoveryFails
<1>4. CASE RollForward
  <2>1. PICK p \in Pids : Newest(p) /\ dist' = backups[p] /\ backups' = Without(p)
    BY <1>4 DEF RollForward
  <2>2. at' = "drop" /\ UNCHANGED <<littered, missed>>
    BY <1>4 DEF RollForward, Resume, Quietly, Calmly
  <2>3. backups[p] # NoTree /\ \A q \in Pids : backups[q] # NoTree => backups[q].written <= backups[p].written
    BY <2>1 DEF Newest, Left
  <2>4. backups[p].written > 0
    BY <1>0, <2>3 DEF Stamps
  <2>5. \A q \in Pids : backups'[q] = IF q = p THEN NoTree ELSE backups[q]
    BY <1>0, <2>1 DEF Without
  <2>6. \A q \in Pids : backups'[q].written < backups[p].written
    BY <1>0, <1>01, <2>3, <2>4, <2>5 DEF Stamps
  <2>7. QED
    BY <2>1, <2>2, <2>3, <2>6 DEF Order
<1>5. CASE DropStale
  <2>1. PICK p \in togo : \E left \in Remains(p) : Remove(p, left)
    BY <1>5, Zenon DEF DropStale
  <2>2. p \in Pids
    BY <2>1 DEF Types
  <2>3. UNCHANGED <<dist, stage, missed, pid>> /\ at = "drop"
    BY <1>5, Zenon DEF DropStale, Do, Remove
  <2>4. at' = "drop" \/ at' = "idle"
    BY <1>5, <2>3, Zenon DEF DropStale, Resume, End
  <2>5. SUFFICES ASSUME ~littered'
                 PROVE  Order'
    BY DEF Order
  <2>6. ~littered /\ \A q \in Pids : backups'[q] \in {NoTree, backups[q]}
    BY <2>1, <2>2, <2>5, CleanRemoval
  <2>7. \A q \in Pids : backups'[q].written <= backups[q].written /\ backups'[q].written \in Nat
    BY <1>01, <2>6
  <2>8. QED
    BY <1>01, <2>3, <2>4, <2>6, <2>7 DEF Order
<1>6. CASE Dropped
  BY <1>6 DEF Order, Dropped, Do, Resume, End, Quietly, Calmly, disk
<1>7. CASE StageDist
  <2>1. at = "stage" /\ at' = "compile" /\ UNCHANGED <<dist, backups, littered, missed>>
    BY <1>7 DEF StageDist, Do, Resume, Quietly, Calmly
  <2>2. QED
    BY <2>1 DEF Order
<1>8. CASE Compile
  <2>1. /\ at = "compile" /\ at' = "manifest"
        /\ UNCHANGED <<dist, backups, littered, missed>>
        /\ stage'.written = clock + 1
    BY <1>8 DEF Compile, Do, Resume, Following
  <2>2. dist.written <= clock /\ \A p \in Pids : backups[p].written <= clock
    BY <1>0, <1>01 DEF Stamps
  <2>3. QED
    BY <1>0, <1>01, <2>1, <2>2 DEF Order
<1>9. CASE WriteManifest
  BY <1>9 DEF Order, WriteManifest, Following, Do, Resume, End, Quietly, Calmly, disk
<1>10. CASE Seal
  <2>1. /\ at = "seal" /\ at' = "aside"
        /\ UNCHANGED <<dist, backups, littered, missed>>
        /\ stage'.written = stage.written
    BY <1>0, <1>10 DEF Seal, Do, Resume, Following, Tree, Quietly, Calmly
  <2>2. QED
    BY <2>1 DEF Order
<1>11. CASE NothingToMove
  <2>1. /\ at = "aside" /\ at' = "promote" /\ dist = NoTree
        /\ UNCHANGED <<dist, backups, stage, littered, missed, pid>>
    BY <1>11 DEF NothingToMove, Do, Resume, Quietly, Calmly, disk
  <2>2. QED
    BY <1>0, <2>1 DEF Order
<1>12. CASE MoveAside
  <2>1. /\ at = "aside" /\ at' = "promote" /\ dist # NoTree /\ dist' = NoTree
        /\ UNCHANGED <<stage, littered, missed, pid>>
    BY <1>12 DEF MoveAside, Do, Resume, Quietly, Calmly
  <2>2. \A q \in Pids : backups'[q] = IF q = pid THEN dist ELSE backups[q]
    BY <1>0, <1>12 DEF MoveAside
  <2>3. QED
    BY <1>0, <1>01, <2>1, <2>2 DEF Order
<1>13. CASE RemoveStale
  <2>1. PICK p \in {pid} : \E left \in Remains(p) : Remove(p, left)
    BY <1>13, Zenon DEF RemoveStale
  <2>2. p \in Pids
    BY <2>1 DEF Types
  <2>3. UNCHANGED <<dist, stage, missed, pid>> /\ at = "aside"
    BY <1>13, Zenon DEF RemoveStale, Do, Remove
  <2>4. at' = "aside" \/ at' = "idle"
    BY <1>13, <2>3, Zenon DEF RemoveStale, Resume, End
  <2>5. SUFFICES ASSUME ~littered'
                 PROVE  Order'
    BY DEF Order
  <2>6. ~littered /\ \A q \in Pids : backups'[q] \in {NoTree, backups[q]}
    BY <2>1, <2>2, <2>5, CleanRemoval
  <2>7. \A q \in Pids : backups'[q].written <= backups[q].written /\ backups'[q].written \in Nat
    BY <1>01, <2>6
  <2>8. QED
    BY <1>01, <2>3, <2>4, <2>6, <2>7 DEF Order
<1>14. CASE Promote
  <2>1. /\ at = "promote" /\ at' = "tidy" /\ dist' = stage
        /\ UNCHANGED <<backups, littered, missed>>
    BY <1>14 DEF Promote, Do, Resume, Following, Quietly, Calmly
  <2>2. QED
    BY <2>1 DEF Order
<1>15. CASE PromoteFails
  BY <1>15 DEF Order, PromoteFails, Back, Do, Resume, End, Quietly, Calmly, disk
<1>16. CASE Restore
  <2>1. /\ at = "restore" /\ at' = "idle" /\ dist' = backups[pid]
        /\ UNCHANGED <<littered, missed>>
    BY <1>16 DEF Restore, Do, End, Quietly, Calmly
  <2>2. \A q \in Pids : backups'[q] = IF q = pid THEN NoTree ELSE backups[q]
    BY <1>0, <1>16 DEF Restore, Without
  <2>3. backups[pid].written > 0
    BY <1>0, <2>1 DEF Kept, Stamps
  <2>4. QED
    BY <1>0, <1>01, <2>1, <2>2, <2>3 DEF Order, Kept
<1>17. CASE RestoreFails
  BY <1>17 DEF Order, RestoreFails, Do, Resume, End, Quietly, Calmly, disk
<1>18. CASE Tidy
  <2>1. UNCHANGED <<dist, missed>> /\ at' = "idle"
    BY <1>18 DEF Tidy, End, Remove, Quietly
  <2>2. SUFFICES ASSUME ~littered'
                 PROVE  Order'
    BY DEF Order
  <2>3. CASE UNCHANGED backups /\ Quietly
    BY <2>1, <2>2, <2>3 DEF Order, Quietly, Calmly
  <2>4. CASE \E left \in Remains(pid) : Remove(pid, left)
    <3>1. ~littered /\ \A q \in Pids : backups'[q] \in {NoTree, backups[q]}
      BY <1>0, <2>2, <2>4, CleanRemoval
    <3>2. \A q \in Pids : backups'[q].written <= backups[q].written /\ backups'[q].written \in Nat
      BY <1>01, <3>1
    <3>3. QED
      BY <1>01, <2>1, <3>1, <3>2 DEF Order
  <2>5. QED
    BY <1>18, <2>3, <2>4, Zenon DEF Tidy
<1>19. CASE Fail
  BY <1>19 DEF Order, Fail, Do, Resume, End, Quietly, Calmly, disk
<1>20. CASE Killed
  BY <1>20 DEF Order, Killed, Do, Resume, End, Quietly, Calmly, disk
<1>21. CASE UNCHANGED vars
  BY <1>21 DEF Order, vars
<1>22. QED
  BY <1>1, <1>2, <1>3, <1>4, <1>5, <1>6, <1>7, <1>8, <1>9, <1>10, <1>11, <1>12, <1>13, <1>14, <1>15, <1>16, <1>17, <1>18, <1>19, <1>20, <1>21 DEF Next

-----------------------------------------------------------------------------
(* Publication keeps its promise.                                          *)
LEMMA Promised ==
  ASSUME Types, Types', Current \in Nat, Current' \in Nat,
         littered => littered', missed => missed',
         \/ Current' = Current
         \/ /\ UNCHANGED <<littered, missed>>
            /\ Current' > Current \/ littered \/ missed
  PROVE  [Promise!OutputNext]_<<Current, littered \/ missed>>
<1>1. /\ littered \in BOOLEAN /\ missed \in BOOLEAN
      /\ littered' \in BOOLEAN /\ missed' \in BOOLEAN
  BY DEF Types
<1>2. CASE Current' = Current
  <2>1. CASE littered' \/ missed'
    <3>1. Promise!Mislead
      BY <1>1, <1>2, <2>1, Zenon DEF Promise!Mislead
    <3>2. QED
      BY <3>1, Zenon DEF Promise!OutputNext
  <2>2. CASE ~(littered' \/ missed')
    <3>1. ~littered /\ ~missed
      BY <2>2
    <3>2. (littered' \/ missed') = (littered \/ missed)
      BY <1>1, <2>2, <3>1, Zenon
    <3>3. QED
      BY <1>2, <3>2, Zenon
  <2>3. QED
    BY <2>1, <2>2
<1>3. CASE UNCHANGED <<littered, missed>> /\ Current' > Current
  <2>1. Promise!Supersede
    BY <1>3 DEF Promise!Supersede
  <2>2. QED
    BY <2>1, Zenon DEF Promise!OutputNext
<1>4. CASE /\ UNCHANGED <<littered, missed>>
           /\ littered \/ missed
           /\ ~(Current' > Current)
  <2>1. Current' \in 0 .. Current
    BY <1>4
  <2>2. Promise!Regress
    BY <1>4, <2>1, Zenon DEF Promise!Regress
  <2>3. QED
    BY <2>2, Zenon DEF Promise!OutputNext
<1>5. QED
  BY <1>2, <1>3, <1>4

\* What is current depends on dist, and on the backups where it is absent.
LEMMA CurrentIsDist ==
  ASSUME dist # NoTree, dist' = dist
  PROVE  Current' = Current
BY DEF Current, Latest

LEMMA CurrentSame ==
  ASSUME UNCHANGED <<dist, backups>>
  PROVE  Current' = Current
BY DEF Current, Latest, Left, Newest

LEMMA Written ==
  ASSUME Types
  PROVE  /\ dist.written \in Nat /\ \A p \in Pids : backups[p].written \in Nat
BY DEF Types, Tree

(* What holds in the first state of a step holds in the second.            *)
LEMMA CurrentBuiltNext == (Types /\ Stamps /\ Built => Current \in 0 .. cached)'
<1>1. Types /\ Stamps /\ Built => Current \in 0 .. cached
  BY CurrentBuilt
<1>2. QED
  BY <1>1, PTL

LEMMA NewestUniqueNext ==
  (Types /\ Stamps /\ dist = NoTree =>
     \A p \in Pids : Newest(p) => Current = Latest(backups[p]))'
<1>1. Types /\ Stamps /\ dist = NoTree =>
        \A p \in Pids : Newest(p) => Current = Latest(backups[p])
  BY NewestUnique
<1>2. QED
  BY <1>1, PTL

LEMMA StepKeepsPromise ==
  ASSUME IInv, IInv', [Next]_vars
  PROVE  [Promise!OutputNext]_<<Current, littered \/ missed>>
<1>0. /\ Types /\ Stamps /\ Staged /\ Kept /\ Built /\ Order
      /\ Types' /\ Stamps' /\ Built'
  BY Zenon DEF IInv
<1>01. /\ backups \in [Pids -> Tree] /\ pid \in Pids /\ togo \subseteq Pids
  BY <1>0 DEF Types
<1>02. cached \in Nat /\ cached' \in Nat /\ builds \in Nat /\ cached <= builds
  <2>1. Counts /\ Counts'
    BY <1>0, Zenon DEF Types
  <2>2. QED
    BY <2>1, BoundsAssumption DEF Counts
<1>03. Current \in 0 .. cached
  BY <1>0, CurrentBuilt
<1>04. Current' \in 0 .. cached'
  BY <1>0, CurrentBuiltNext
<1>05. Current \in Nat /\ Current' \in Nat
  BY <1>02, <1>03, <1>04
<1>06. ASSUME UNCHANGED <<dist, backups, littered>>, missed => missed'
       PROVE  [Promise!OutputNext]_<<Current, littered \/ missed>>
  <2>1. Current' = Current
    BY <1>06, CurrentSame
  <2>2. QED
    BY <1>0, <1>05, <1>06, <2>1, Promised
<1>07. ASSUME NEW p \in Pids, NEW left \in Remains(p), Remove(p, left),
              dist # NoTree, dist' = dist
       PROVE  [Promise!OutputNext]_<<Current, littered \/ missed>>
  <2>1. Current' = Current
    BY <1>07, CurrentIsDist
  <2>2. missed' = missed
    BY <1>07, Zenon DEF Remove
  <2>3. littered => littered'
    BY <1>07, Zenon DEF Remove
  <2>4. QED
    BY <1>0, <1>05, <2>1, <2>2, <2>3, Promised
<1>1. CASE Start
  BY <1>06, <1>1 DEF Start, Quietly, Calmly, disk
<1>2. CASE NothingToRecover
  BY <1>06, <1>2 DEF NothingToRecover, Quietly, Calmly, disk
<1>3. CASE RecoveryFails
  BY <1>06, <1>3 DEF RecoveryFails, Quietly, Calmly, disk
<1>4. CASE RollForward
  <2>1. PICK p \in Pids : Newest(p) /\ dist' = backups[p]
    BY <1>4 DEF RollForward
  <2>2. dist = NoTree /\ backups[p] # NoTree /\ UNCHANGED <<littered, missed>>
    BY <2>1, <1>4 DEF RollForward, Newest, Left, Quietly, Calmly
  <2>3. Current = Latest(backups[p])
    BY <1>0, <2>1, <2>2, NewestUnique
  <2>4. Current' = Latest(backups[p])
    BY <2>1, <2>2 DEF Current, Latest
  <2>5. QED
    BY <1>0, <1>05, <2>2, <2>3, <2>4, Promised
<1>5. CASE DropStale
  <2>1. PICK p \in togo : \E left \in Remains(p) : Remove(p, left)
    BY <1>5, Zenon DEF DropStale
  <2>2. dist # NoTree /\ dist' = dist
    BY <1>0, <1>5 DEF DropStale, Do, Kept
  <2>3. QED
    BY <1>01, <1>07, <2>1, <2>2
<1>6. CASE Dropped
  BY <1>06, <1>6 DEF Dropped, Quietly, Calmly, disk
<1>7. CASE StageDist
  BY <1>06, <1>7 DEF StageDist, Quietly, Calmly, disk
<1>8. CASE Compile
  BY <1>06, <1>8 DEF Compile, Quietly, Calmly, disk
<1>9. CASE WriteManifest
  BY <1>06, <1>9 DEF WriteManifest, Quietly, Calmly, disk
<1>10. CASE Seal
  BY <1>06, <1>10 DEF Seal, Quietly, Calmly, disk
<1>11. CASE NothingToMove
  BY <1>06, <1>11 DEF NothingToMove, Quietly, Calmly, disk
<1>12. CASE MoveAside
  <2>1. /\ dist # NoTree /\ dist' = NoTree /\ UNCHANGED <<littered, missed>>
        /\ at = "aside"
    BY <1>12 DEF MoveAside, Do, Quietly, Calmly
  <2>2. /\ \A q \in Pids : backups'[q] = IF q = pid THEN dist ELSE backups[q]
        /\ pid' = pid
    BY <1>01, <1>12 DEF MoveAside, Do
  <2>3. CASE ~littered /\ ~missed
    <3>1. \A q \in Pids : backups'[q].written <= backups'[pid].written
      BY <1>0, <1>01, <2>1, <2>2, <2>3, Written DEF Order
    <3>2. Newest(pid)'
      BY <1>01, <2>1, <2>2, <3>1 DEF Newest, Left
    <3>3. Current' = Latest(dist)
      BY <1>0, <1>01, <2>1, <2>2, <3>2, NewestUniqueNext
    <3>4. Current = Latest(dist)
      BY <2>1 DEF Current
    <3>5. QED
      BY <1>0, <1>05, <2>1, <3>3, <3>4, Promised
  <2>4. CASE littered \/ missed
    BY <1>0, <1>05, <2>1, <2>4, Promised
  <2>5. QED
    BY <2>3, <2>4
<1>13. CASE RemoveStale
  <2>1. dist # NoTree /\ dist' = dist
    BY <1>13, Zenon DEF RemoveStale
  <2>2. \E left \in Remains(pid) : Remove(pid, left)
    BY <1>13, Zenon DEF RemoveStale
  <2>3. QED
    BY <1>01, <1>07, <2>1, <2>2
<1>14. CASE Promote
  <2>1. /\ at = "promote" /\ dist' = stage
        /\ UNCHANGED <<littered, missed>>
    BY <1>14 DEF Promote, Do, Quietly, Calmly
  <2>2. stage.of = {builds} /\ cached = builds /\ dist = NoTree
    BY <1>0, <2>1 DEF Staged, Built, Kept
  <2>3. stage # NoTree
    BY <2>2 DEF NoTree
  <2>4. Latest(stage) = builds
    BY <1>02, <2>2, LatestOf
  <2>5. Current' = builds
    BY <2>1, <2>3, <2>4 DEF Current, Latest
  <2>6. Current' = Current \/ Current' > Current
    BY <1>02, <1>03, <2>2, <2>5
  <2>7. QED
    BY <1>0, <1>05, <2>1, <2>6, Promised
<1>15. CASE PromoteFails
  BY <1>06, <1>15 DEF PromoteFails, Quietly, Calmly, disk
<1>16. CASE Restore
  <2>1. /\ at = "restore" /\ dist' = backups[pid]
        /\ UNCHANGED <<littered, missed>>
    BY <1>16 DEF Restore, Do, Quietly, Calmly
  <2>2. dist = NoTree /\ backups[pid] # NoTree
    BY <1>0, <2>1 DEF Kept
  <2>3. CASE ~littered /\ ~missed
    <3>1. \A q \in Pids : backups[q].written <= backups[pid].written
      BY <1>0, <1>01, <2>1, <2>2, <2>3, Written DEF Order
    <3>2. Newest(pid)
      BY <1>01, <2>2, <3>1 DEF Newest, Left
    <3>3. Current = Latest(backups[pid])
      BY <1>0, <1>01, <2>2, <3>2, NewestUnique
    <3>4. Current' = Latest(backups[pid])
      BY <2>1, <2>2 DEF Current, Latest
    <3>5. QED
      BY <1>0, <1>05, <2>1, <3>3, <3>4, Promised
  <2>4. CASE littered \/ missed
    BY <1>0, <1>05, <2>1, <2>4, Promised
  <2>5. QED
    BY <2>3, <2>4
<1>17. CASE RestoreFails
  BY <1>06, <1>17 DEF RestoreFails, Quietly, Calmly, disk
<1>18. CASE Tidy
  <2>1. dist # NoTree /\ dist' = dist
    BY <1>0, <1>18 DEF Tidy, Do, Kept
  <2>2. CASE UNCHANGED backups /\ Quietly
    BY <1>06, <2>1, <2>2 DEF Quietly, Calmly
  <2>3. CASE \E left \in Remains(pid) : Remove(pid, left)
    BY <1>01, <1>07, <2>1, <2>3
  <2>4. QED
    BY <1>18, <2>2, <2>3, Zenon DEF Tidy
<1>19. CASE Fail
  BY <1>06, <1>19 DEF Fail, Quietly, Calmly, disk
<1>20. CASE Killed
  BY <1>06, <1>20 DEF Killed, Quietly, Calmly, disk
<1>21. CASE UNCHANGED vars
  BY <1>06, <1>21 DEF vars
<1>22. QED
  BY <1>1, <1>2, <1>3, <1>4, <1>5, <1>6, <1>7, <1>8, <1>9, <1>10, <1>11, <1>12, <1>13, <1>14, <1>15, <1>16, <1>17, <1>18, <1>19, <1>20, <1>21 DEF Next

-----------------------------------------------------------------------------
(* The theorems.                                                           *)
LEMMA InitIInv == Init => IInv
<1> SUFFICES ASSUME Init
             PROVE  IInv
  OBVIOUS
<1>1. NoTree \in Tree
  BY NoTreeTime
<1>2. backups \in [Pids -> Tree] /\ \A p \in Pids : backups[p] = NoTree
  BY <1>1 DEF Init
<1>3. Counts
  BY BoundsAssumption DEF Init, Counts
<1>4. Types
  BY <1>1, <1>2, <1>3 DEF Init, Types, Step
<1>5. Stamps /\ Staged /\ Kept /\ ErrorKeepsOutput
  BY <1>2 DEF Init, Stamps, Staged, Kept, ErrorKeepsOutput
<1>6. WholeOutput /\ Built /\ Order
  BY <1>2, IntactNoTree DEF Init, WholeOutput, Built, Order
<1>7. QED
  BY <1>4, <1>5, <1>6 DEF IInv

LEMMA NextIInv == IInv /\ [Next]_vars => IInv'
<1> SUFFICES ASSUME IInv, [Next]_vars
             PROVE  IInv'
  OBVIOUS
<1>1. /\ Types /\ Stamps /\ Staged /\ WholeOutput /\ Kept /\ ErrorKeepsOutput
      /\ Built /\ Order
  BY Zenon DEF IInv
<1>2. Types' /\ Stamps' /\ Staged'
  BY <1>1, TypesKept, StampsKept, StagedKept
<1>3. WholeOutput' /\ Kept' /\ ErrorKeepsOutput'
  BY <1>1, WholeKept, KeptKept, ErrorKept
<1>4. Built' /\ Order'
  BY <1>1, BuiltKept, OrderKept
<1>5. QED
  BY <1>2, <1>3, <1>4, Zenon DEF IInv

\* The invariant holds of every build sequence.
THEOREM Inductive == Spec => []IInv
BY InitIInv, NextIInv, PTL DEF Spec

\* The types, and no published tree is a backup too, however builds failed
\* or were killed between their renames.
THEOREM TypesHold == Spec => []TypeOK
<1>1. IInv => TypeOK
  <2> SUFFICES ASSUME IInv
               PROVE  Types /\ \A p \in Left : dist.written # backups[p].written
    BY DEF TypeOK
  <2>1. Types /\ Stamps
    BY Zenon DEF IInv
  <2>2. \A p \in Left : p \in Pids /\ backups[p] # NoTree
    BY DEF Left
  <2>3. QED
    BY <2>1, <2>2 DEF Stamps
<1>2. QED
  BY <1>1, Inductive, PTL

\* What publish makes dist, and what recovery may make dist, is the whole
\* output of one build.
THEOREM OutputIsWhole == Spec => []WholeOutput
<1>1. IInv => WholeOutput
  BY Zenon DEF IInv
<1>2. QED
  BY <1>1, Inductive, PTL

\* A build that returns an error leaves dist as it was, or, where it could
\* neither publish nor undo the move, leaves that very tree as its backup.
THEOREM ErrorsKeepOutput == Spec => []ErrorKeepsOutput
<1>1. IInv => ErrorKeepsOutput
  BY Zenon DEF IInv
<1>2. QED
  BY <1>1, Inductive, PTL

\* finalize writes the manifest before publish: a reader of the compiler
\* cache never sees one older than the published tree.
THEOREM ManifestFirst == Spec => []ManifestNotOlder
<1>1. IInv => ManifestNotOlder
  <2> SUFFICES ASSUME IInv
               PROVE  Current <= cached
    BY DEF ManifestNotOlder
  <2>1. Types /\ Stamps /\ Built
    BY Zenon DEF IInv
  <2>2. Current \in 0 .. cached
    BY <2>1, CurrentBuilt
  <2>3. Counts
    BY <2>1, Zenon DEF Types
  <2>4. QED
    BY <2>2, <2>3 DEF Counts
<1>2. QED
  BY <1>1, Inductive, PTL

\* recover_interrupted_publish, publish and finalize together implement the
\* promise of Output: the current output changes at one instant.
THEOREM Implements == Spec => KeepsPromise
<1>1. Init => Promise!OutputInit
  <2> SUFFICES ASSUME Init
               PROVE  Current = 0 /\ (littered \/ missed) = FALSE
    BY DEF Promise!OutputInit
  <2>1. dist = NoTree /\ Left = {}
    BY DEF Init, Left
  <2>2. QED
    BY <2>1 DEF Init, Current
<1>2. IInv /\ IInv' /\ [Next]_vars => [Promise!OutputNext]_<<Current, littered \/ missed>>
  BY StepKeepsPromise
<1>3. QED
  BY <1>1, <1>2, Inductive, PTL DEF Spec, KeepsPromise, Promise!OutputSpec

=============================================================================
