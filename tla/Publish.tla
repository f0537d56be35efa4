------------------------------ MODULE Publish ------------------------------
(***************************************************************************)
(* The publication of `deka build` (src/crates/deka_build/src/publish.rs,  *)
(* called by command.rs): recovery of what an interrupted build left, a    *)
(* fresh staging tree, and the renames that make it the project's dist.    *)
(* The project is one of the app router, for which builds write manifests. *)
(*                                                                         *)
(* Builds follow one another.  Each is a process that may be killed        *)
(* between any two file operations and may get the process id of an        *)
(* earlier one; every file operation may fail; the removal of a tree may   *)
(* stop half way.  Renames are atomic, as they are in the file system.     *)
(*                                                                         *)
(* A tree is known by the builds its files come from, by whether it has    *)
(* all files of its build, and by the time of its last change, which a     *)
(* rename keeps and a removal that is cut short may move.                  *)
(*                                                                         *)
(* Definitions whose name ends in _Mutant are faulty forms of those that   *)
(* follow them; no specification uses them.                                *)
(***************************************************************************)
EXTENDS Integers

CONSTANTS
  Pids,       (* process ids                                                *)
  MaxBuilds,  (* bound of the model: builds                                 *)
  MaxCuts     (* bound of the model: removals that are cut short            *)

ASSUME BoundsAssumption == MaxBuilds \in Nat /\ MaxCuts \in Nat

VARIABLES
  dist,      (* the published tree                                          *)
  backups,   (* dist.prev-<pid>                                             *)
  stage,     (* .deka-dist-stage/dist                                       *)
  cached,    (* the build whose manifest is in the compiler cache           *)
  at,        (* the file operation the build does next                      *)
  pid,       (* its process id                                              *)
  togo,      (* the backups recovery still has to drop                      *)
  had,       (* history: dist when this build had finished recovery         *)
  outcome,   (* how the last build ended                                    *)
  builds,    (* builds so far; the number of this one                       *)
  clock,     (* the latest time of a tree                                   *)
  cuts,      (* history: removals that were cut short                       *)
  littered,  (* history: one of them left a part of a tree                  *)
  missed     (* history: a recovery failed                                  *)

disk == <<dist, backups, stage, cached>>
vars == <<dist, backups, stage, cached, at, pid, togo, had, outcome, builds,
          clock, cuts, littered, missed>>

NoTree == [of |-> {}, whole |-> FALSE, written |-> 0]
Tree == [of : SUBSET Nat, whole : BOOLEAN, written : Nat]

\* The order of the file operations of a build, where nothing fails.
Step == {"recover", "drop", "stage", "compile", "manifest", "seal", "aside",
         "promote", "restore", "tidy"}

Following_Mutant ==
  [compile |-> "seal", seal |-> "aside", promote |-> "manifest",
   manifest |-> "tidy"]

Following ==
  [compile |-> "manifest", manifest |-> "seal", seal |-> "aside",
   promote |-> "tidy"]

Do(step) == at = step /\ UNCHANGED <<pid, builds>>
Calmly == UNCHANGED <<clock, cuts, littered>>
Quietly == Calmly /\ UNCHANGED missed
Resume(step) == at' = step /\ UNCHANGED outcome
End(how) == at' = "idle" /\ outcome' = how

(***************************************************************************)
(* remove_dir_all.  What it may leave of a tree: nothing, all, or a part,  *)
(* which counts as changed now if an entry of its root is gone.            *)
(***************************************************************************)
Part(tree) ==
  [of : {tree.of}, whole : {FALSE}, written : {tree.written, clock + 1}]

Remains(p) == {NoTree, backups[p]} \cup Part(backups[p])

Remove(p, left) ==
  /\ backups' = [backups EXCEPT ![p] = left]
  /\ UNCHANGED missed
  /\ clock' = IF left.written > clock THEN left.written ELSE clock
  /\ IF left = NoTree THEN UNCHANGED <<cuts, littered>>
     ELSE /\ cuts < MaxCuts /\ cuts' = cuts + 1
          /\ littered' = (littered \/ ~left.whole)

(***************************************************************************)
(* recover_interrupted_publish.                                            *)
(***************************************************************************)
Start ==
  /\ at = "idle" /\ builds < MaxBuilds
  /\ at' = "recover" /\ outcome' = "none"
  /\ pid' \in Pids
  /\ builds' = builds + 1
  /\ UNCHANGED <<disk, togo, had>> /\ Quietly

Left == {p \in Pids : backups[p] # NoTree}

Newest_Mutant(p) == p \in Left

Newest(p) == p \in Left /\ \A q \in Left : backups[q].written <= backups[p].written

\* A rename moves a tree.
Without(p) == [backups EXCEPT ![p] = NoTree]

NothingToRecover ==
  /\ Do("recover") /\ (dist # NoTree \/ Left = {})
  /\ had' = dist
  /\ Resume("stage")
  /\ UNCHANGED <<disk, togo>> /\ Quietly

\* Its rename fails: an error is printed, and the build goes on.
RecoveryFails ==
  /\ Do("recover") /\ dist = NoTree /\ Left # {}
  /\ had' = dist
  /\ missed' = TRUE
  /\ Resume("stage")
  /\ UNCHANGED <<disk, togo>> /\ Calmly

RollForward ==
  /\ Do("recover") /\ dist = NoTree
  /\ \E p \in Pids :
       /\ Newest(p)
       /\ dist' = backups[p]
       /\ backups' = Without(p)
       /\ togo' = Left \ {p}
  /\ had' = dist'
  /\ Resume("drop")
  /\ UNCHANGED <<stage, cached>> /\ Quietly

DropStale ==
  /\ Do("drop")
  /\ \E p \in togo :
       /\ \E left \in Remains(p) : Remove(p, left)
       /\ togo' = togo \ {p}
  /\ UNCHANGED <<dist, stage, cached, at, outcome, had>>

Dropped ==
  /\ Do("drop") /\ togo = {}
  /\ Resume("stage")
  /\ UNCHANGED <<disk, togo, had>> /\ Quietly

(***************************************************************************)
(* The build, up to its complete staging tree.                             *)
(***************************************************************************)
Fresh_Mutant == stage

Fresh == NoTree

StageDist ==
  /\ Do("stage")
  /\ stage' = Fresh
  /\ Resume("compile")
  /\ UNCHANGED <<dist, backups, cached, togo, had>> /\ Quietly

Compile ==
  /\ Do("compile")
  /\ stage' = [of |-> stage.of \cup {builds}, whole |-> FALSE, written |-> clock + 1]
  /\ clock' = clock + 1
  /\ Resume(Following.compile)
  /\ UNCHANGED <<dist, backups, cached, togo, had, cuts, littered,
                 missed>>

\* finalize: the manifest for the compiler cache, then the descriptor that
\* completes the tree.
WriteManifest ==
  /\ Do("manifest")
  /\ cached' = builds
  /\ Resume(Following.manifest)
  /\ UNCHANGED <<dist, backups, stage, togo, had>> /\ Quietly

Seal ==
  /\ Do("seal")
  /\ stage' = [stage EXCEPT !.whole = TRUE]
  /\ Resume(Following.seal)
  /\ UNCHANGED <<dist, backups, cached, togo, had>> /\ Quietly

(***************************************************************************)
(* publish.                                                                *)
(***************************************************************************)
NothingToMove ==
  /\ Do("aside") /\ dist = NoTree
  /\ Resume("promote")
  /\ UNCHANGED <<disk, togo, had>> /\ Quietly

MoveAside ==
  /\ Do("aside") /\ dist # NoTree /\ backups[pid] = NoTree
  /\ backups' = [backups EXCEPT ![pid] = dist]
  /\ dist' = NoTree
  /\ Resume("promote")
  /\ UNCHANGED <<stage, cached, togo, had>> /\ Quietly

\* The backup of a build that had the same process id is in the way.
RemoveStale ==
  /\ Do("aside") /\ dist # NoTree /\ backups[pid] # NoTree
  /\ \E left \in Remains(pid) :
       /\ Remove(pid, left)
       /\ IF left = NoTree THEN Resume("aside") ELSE End("error")
  /\ UNCHANGED <<dist, stage, cached, togo, had>>

Promote ==
  /\ Do("promote")
  /\ dist' = stage
  /\ stage' = NoTree
  /\ Resume(Following.promote)
  /\ UNCHANGED <<backups, cached, togo, had>> /\ Quietly

Back_Mutant == "error"

Back == IF backups[pid] # NoTree THEN "restore" ELSE "error"

PromoteFails ==
  /\ Do("promote")
  /\ IF Back = "restore" THEN Resume("restore") ELSE End("error")
  /\ UNCHANGED <<disk, togo, had>> /\ Quietly

Restore ==
  /\ Do("restore")
  /\ dist' = backups[pid]
  /\ backups' = Without(pid)
  /\ End("error")
  /\ UNCHANGED <<stage, cached, togo, had>> /\ Quietly

\* Its message says so.
RestoreFails ==
  /\ Do("restore")
  /\ End("not restored")
  /\ UNCHANGED <<disk, togo, had>> /\ Quietly

\* The superseded tree is removed, as far as that goes.
Tidy ==
  /\ Do("tidy")
  /\ \/ /\ backups[pid] = NoTree
        /\ UNCHANGED backups /\ Quietly
     \/ /\ backups[pid] # NoTree
        /\ \E left \in Remains(pid) :
             Remove(pid, left)
  /\ End("ok")
  /\ UNCHANGED <<dist, stage, cached, togo, had>>

\* An error before the renames ends the build.
Fail ==
  /\ at \in {"stage", "compile", "manifest", "seal", "aside"}
  /\ End("error")
  /\ UNCHANGED <<disk, togo, had, pid, builds>> /\ Quietly

Killed ==
  /\ at # "idle"
  /\ End("killed")
  /\ UNCHANGED <<disk, togo, had, pid, builds>> /\ Quietly

(***************************************************************************)
(* The specification.                                                      *)
(***************************************************************************)
Init ==
  /\ dist = NoTree /\ stage = NoTree /\ backups = [p \in Pids |-> NoTree]
  /\ cached = 0
  /\ at = "idle" /\ pid \in Pids /\ togo = {} /\ had = NoTree /\ outcome = "none"
  /\ builds = 0 /\ clock = 0 /\ cuts = 0 /\ littered = FALSE
  /\ missed = FALSE

Next ==
  \/ Start \/ NothingToRecover \/ RecoveryFails \/ RollForward \/ DropStale \/ Dropped
  \/ StageDist \/ Compile \/ WriteManifest \/ Seal
  \/ NothingToMove \/ MoveAside \/ RemoveStale
  \/ Promote \/ PromoteFails \/ Restore \/ RestoreFails \/ Tidy
  \/ Fail \/ Killed

Spec == Init /\ [][Next]_vars

(***************************************************************************)
(* Properties.                                                             *)
(***************************************************************************)
Counts ==
  /\ cached \in 0 .. builds /\ builds \in 0 .. MaxBuilds
  /\ clock \in Nat /\ cuts \in 0 .. MaxCuts

Types ==
  /\ dist \in Tree /\ stage \in Tree /\ had \in Tree /\ backups \in [Pids -> Tree]
  /\ at \in Step \cup {"idle"} /\ pid \in Pids /\ togo \subseteq Pids
  /\ outcome \in {"none", "ok", "error", "not restored", "killed"}
  /\ littered \in BOOLEAN /\ missed \in BOOLEAN
  /\ Counts

\* With the types: no published tree is a backup too.
TypeOK == Types /\ \A p \in Left : dist.written # backups[p].written

\* What is published is the whole output of one build, whatever failed or was
\* killed, and whoever had its process id; the same holds of all backups, as
\* any of them may become dist.  Litter is what they are mistaken for.
Intact(tree) == tree = NoTree \/ (tree.whole /\ \E build \in tree.of : tree.of = {build})

WholeOutput == ~littered => Intact(dist) /\ \A p \in Pids : Intact(backups[p])

\* No build that returns an error loses the dist it found: it is dist, file for
\* file, although it may have moved away; or, where neither the rename of the
\* staged tree nor the one that undoes the move succeeds, it is the backup of
\* this build, whole, for the next one to roll forward.
ErrorKeepsOutput ==
  had # NoTree =>
    /\ outcome = "error" => dist = had
    /\ outcome = "not restored" => dist = NoTree /\ backups[pid] = had

\* What a recovery would find: the build that is published.
Latest(tree) == CHOOSE n \in tree.of : \A m \in tree.of : m <= n

Current ==
  IF dist # NoTree THEN Latest(dist)
  ELSE IF Left = {} THEN 0
  ELSE Latest(backups[CHOOSE p \in Pids : Newest(p)])

\* `deka dev` never reads the manifest of a build before the published one.
ManifestNotOlder == Current <= cached

Promise == INSTANCE Output WITH
  current <- Current, misled <- littered \/ missed

\* Publication keeps its promise: through every failure and kill the output
\* that is published, or that the next build would roll forward, changes at
\* one instant, and only to that of a later build.
KeepsPromise == Promise!OutputSpec

\* What the documentation says and the code does not keep: dist is "never left
\* absent by a build the CLI reported as failed" (module comment), and "a
\* returned error never leaves `dist/` absent" (publish).
ErrorLeavesDist == outcome \in {"error", "not restored"} /\ had # NoTree => dist # NoTree
=============================================================================
