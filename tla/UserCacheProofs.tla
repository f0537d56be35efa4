--------------------------- MODULE UserCacheProofs ---------------------------
(***************************************************************************)
(* Proofs about UserCache for any files, contents, compilers and pids, any *)
(* budget, and however many processes, edits and kills there are.          *)
(*                                                                         *)
(* The inductive invariant comes in four parts, each proved from PlaceInv  *)
(* and itself:                                                             *)
(*                                                                         *)
(*   PlaceInv     where the trees are and whose they are                   *)
(*   CurrentInv   what the trees hold                           (Current)  *)
(*   BudgetInv    which entries nobody will evict               (Bounded)  *)
(*   AloneInv     what a process finds that met no other  (AloneRunsWork)  *)
(***************************************************************************)
EXTENDS UserCache, FiniteSetTheorems, NaturalsInduction, TLAPS

-----------------------------------------------------------------------------
(* PlaceInv.                                                               *)

Works(p) == p \in Live /\ proc[p].pc # "clear"

(* Before a run has made its tree, and until it has published it.          *)
Before == {"check", "read", "locate", "compile"}
Building == {"meta", "aside", "publish"}

(* Only a run that prunes or clears removes, and what it prunes is entries.*)
Removes(p) ==
  /\ (Works(p) /\ proc[p].pc # "evict") => proc[p].removal = Nothing
  /\ Works(p) /\ proc[p].pc = "evict" =>
       /\ proc[p].removal.todo \subseteq {Entry(k) : k \in Keys}
       /\ Opened(p) => /\ proc[p].removal.path \in {Entry(k) : k \in Keys}
                       /\ proc[p].removal.path \notin proc[p].removal.todo

(* A path holds what some run has made, and two paths two trees.           *)
Placed ==
  /\ \A path \in Path : disk[path] # None =>
       /\ disk[path] <= clock
       /\ tree[disk[path]] \in Tree
       /\ tree[disk[path]].age <= clock
  /\ \A path, other \in Path : disk[path] # None /\ disk[path] = disk[other] => path = other

(* The tree of a run that builds is in its own directory, or was removed   *)
(* by a clear.                                                             *)
Owns(p) ==
  Works(p) =>
    /\ proc[p].run <= clock
    /\ proc[p].pc \in Before => \A path \in Path : disk[path] # proc[p].run
    /\ proc[p].pc \in Building =>
         /\ disk[Staging(p, proc[p].key)] \in {None, proc[p].run}
         /\ \A path \in Path : disk[path] = proc[p].run => path = Staging(p, proc[p].key)

RunsDiffer ==
  \A p, q \in Pids : Works(p) /\ Works(q) /\ proc[p].run = proc[q].run => p = q

PlaceInv ==
  /\ TypeOK
  /\ clock = 0 => Live = {}
  /\ Placed
  /\ RunsDiffer
  /\ \A p \in Pids : Removes(p) /\ Owns(p)

-----------------------------------------------------------------------------
(* CurrentInv.                                                             *)

(* What a run read at its start is still so, unless it is marked.          *)
Steady(p) ==
  Works(p) /\ proc[p].steady => proc[p].key = source[proc[p].file] /\ proc[p].dsc = dsc

(* The tree a run builds is of the content and the compiler it is named by,*)
(* unless it is marked.                                                    *)
Builds(p) ==
  LET t == tree[proc[p].run]
  IN  Works(p) /\ proc[p].pc \in Building /\ disk[Staging(p, proc[p].key)] # None =>
        /\ t.meta = proc[p].dsc
        /\ t.steady => t.content = proc[p].key /\ t.by = proc[p].dsc

(* So is the tree at an entry.                                             *)
Holds(k) ==
  LET t == tree[disk[Entry(k)]]
  IN  disk[Entry(k)] # None /\ t.steady => t.content = k /\ t.by = t.meta

(* Once a run has checked or made its entry, what is there names the       *)
(* compiler it asked for, unless a run that asked for another swapped it.  *)
Validated(p) ==
  LET t == disk[Entry(proc[p].key)]
  IN  Works(p) /\ proc[p].pc \in Checked /\ proc[p].run \notin swapped /\ t # None
      => tree[t].meta = proc[p].dsc

CurrentInv ==
  /\ \A p \in Pids : Steady(p) /\ Builds(p) /\ Validated(p)
  /\ \A k \in Keys : Holds(k)

-----------------------------------------------------------------------------
(* BudgetInv.                                                              *)

Evicting == {p \in Live : proc[p].pc = "evict"}

(* An entry that p is going to remove: if a tree has since been swapped in *)
(* under an opened one, p is not going to remove that.                     *)
Doomed(p, k) ==
  \/ Entry(k) \in proc[p].removal.todo
  \/ /\ Opened(p)
     /\ proc[p].removal.path = Entry(k)
     /\ proc[p].removal.victim = disk[Entry(k)]

(* The entries that count once the runs P have pruned.                     *)
Charged(P) ==
  {k \in Present : \/ disk[Entry(k)] \notin unpruned
                   \/ \E p \in P : proc[p].run = disk[Entry(k)]}

(* Of any runs that prune, one leaves no more than the budget of what all  *)
(* of them have made: the one that listed last.                            *)
BudgetInv ==
  /\ Bounded
  /\ \A P \in SUBSET Evicting : P # {} =>
       \E p \in P : WithinBudget({k \in Charged(P) : ~Doomed(p, k)})

-----------------------------------------------------------------------------
(* AloneInv.                                                               *)

(* Somebody removes t, or was killed while he did.                         *)
Touched(t) ==
  \/ t \in cut
  \/ \E q \in Live : Opened(q) /\ proc[q].removal.victim = t

(* Of the output one part is there and the other is not.                   *)
Output == {"artifact", "modules"}
Partial(parts) == parts \cap Output \notin {{}, Output}

(* What valid_entry may accept.                                            *)
Runnable(parts) == "meta" \in parts /\ parts \cap Output # {}

Whole ==
  \A path \in Path :
    disk[path] # None /\ Partial(tree[disk[path]].parts) => Touched(disk[path])

(* What p makes will be the newest, and not be evicted for it.             *)
Newest(p) ==
  \A path \in Path :
    disk[path] \notin {None, proc[p].run} => tree[disk[path]].age < proc[p].run

(* What a process with nobody beside it finds and leaves, step by step.    *)
Undisturbed(p) ==
  LET r == proc[p].run
      k == proc[p].key
      mine == tree[r]
  IN  /\ proc[p].pc # "failed"
      /\ proc[p].pc \in Before \cup Building \cup {"prune"} => Newest(p)
      /\ proc[p].pc \in {"read", "locate"} => "meta" \in PartsAt(Entry(k))
      /\ proc[p].pc = "execute" => Runnable(PartsAt(Entry(k)))
      /\ proc[p].pc \in Building => disk[Staging(p, k)] = r
      /\ proc[p].pc = "meta" => mine.parts = Part \ {"meta"}
      /\ proc[p].pc \in {"aside", "publish", "prune", "evict"} => mine.parts = Part
      /\ proc[p].pc \in {"aside", "publish", "prune"} => mine.age = r
      /\ proc[p].pc = "publish" => disk[Entry(k)] = None
      /\ proc[p].pc \in {"prune", "evict"} => disk[Entry(k)] = r
      /\ proc[p].pc = "evict" =>
           /\ Entry(k) \notin proc[p].removal.todo
           /\ Opened(p) => proc[p].removal.path # Entry(k) /\ proc[p].removal.victim # r

AloneInv ==
  /\ Whole
  /\ \A p \in Live : proc[p].alone =>
       /\ Live = {p}
       /\ (Works(p) => proc[p].run = clock /\ Undisturbed(p))

-----------------------------------------------------------------------------
(* Types.                                                                  *)

AnyProcess == Process \cup Cleaner \cup {Idle}

LEMMA Paths ==
  ASSUME NEW p \in Pids, NEW q \in Pids, NEW k \in Keys, NEW j \in Keys
  PROVE  /\ Entry(k) \in Path /\ Staging(p, k) \in Path /\ Trash(p, k) \in Path
         /\ Entry(k) # Staging(p, j) /\ Entry(k) # Trash(p, j)
         /\ Staging(p, k) # Trash(q, j)
         /\ Entry(k) = Entry(j) => k = j
         /\ Staging(p, k) = Staging(q, j) => p = q /\ k = j
         /\ Trash(p, k) = Trash(q, j) => p = q /\ k = j
BY DEF Path, Entry, Staging, Trash, None

LEMMA EntryPaths ==
  \A k \in Keys : Entry(k) \in Path
BY DEF Path, Entry

LEMMA RunIds ==
  ASSUME NEW r \in Run
  PROVE  r \in Nat /\ r # None /\ 1 <= r /\ r <= MaxRuns
BY ConstantsAssumption DEF Run, None

LEMMA ProcessFields ==
  ASSUME NEW r \in Process
  PROVE  /\ r.pc \in {"check", "read", "locate", "compile", "meta", "aside", "publish",
                      "prune", "evict", "execute", "failed"}
         /\ r.pc # "clear" /\ r.pc # "idle" /\ r # Idle
         /\ r.file \in Files /\ r.key \in Keys /\ r.dsc \in Compilers /\ r.run \in Run
         /\ r.removal \in Removal /\ r.steady \in BOOLEAN /\ r.alone \in BOOLEAN
         /\ r \notin Cleaner
BY DEF Process, Idle, Cleaner

LEMMA CleanerFields ==
  ASSUME NEW r \in Cleaner
  PROVE  /\ r.pc = "clear" /\ r # Idle
         /\ r.removal \in Removal /\ r.steady \in BOOLEAN /\ r.alone \in BOOLEAN
         /\ r \notin Process
BY DEF Process, Idle, Cleaner

LEMMA IdleFields ==
  Idle.pc = "idle" /\ Idle \notin Process /\ Idle \notin Cleaner
BY DEF Process, Idle, Cleaner

(* Which kind of process a step belongs to shows in its pc.                *)
LEMMA Kinds ==
  ASSUME TypeOK, NEW p \in Pids
  PROVE  /\ p \in Live <=> proc[p] # Idle
         /\ Works(p) <=> proc[p] \in Process
         /\ proc[p].pc = "clear" <=> proc[p] \in Cleaner
         /\ proc[p].pc = "idle" <=> proc[p] = Idle
         /\ proc[p] \in Process \/ proc[p] \in Cleaner \/ proc[p] = Idle
<1>1. proc[p] \in Process \/ proc[p] \in Cleaner \/ proc[p] = Idle
  BY DEF TypeOK
<1>2. p \in Live <=> proc[p] # Idle
  BY DEF Live
<1>3. CASE proc[p] \in Process
  BY <1>2, <1>3, ProcessFields DEF Works
<1>4. CASE proc[p] \in Cleaner
  BY <1>2, <1>4, CleanerFields DEF Works
<1>5. CASE proc[p] = Idle
  BY <1>2, <1>5, IdleFields DEF Works
<1>6. QED
  BY <1>1, <1>3, <1>4, <1>5

LEMMA KindsNext ==
  ASSUME TypeOK', NEW p \in Pids
  PROVE  /\ (p \in Live)' <=> proc'[p] # Idle
         /\ Works(p)' <=> proc'[p] \in Process
         /\ proc'[p] \in Process \/ proc'[p] \in Cleaner \/ proc'[p] = Idle
<1>1. proc'[p] \in Process \/ proc'[p] \in Cleaner \/ proc'[p] = Idle
  BY DEF TypeOK
<1>2. (p \in Live)' <=> proc'[p] # Idle
  BY DEF Live
<1>3. CASE proc'[p] \in Process
  BY <1>2, <1>3, ProcessFields DEF Works
<1>4. CASE proc'[p] \in Cleaner
  BY <1>2, <1>4, CleanerFields DEF Works
<1>5. CASE proc'[p] = Idle
  BY <1>2, <1>5, IdleFields DEF Works
<1>6. QED
  BY <1>1, <1>3, <1>4, <1>5

(* What is left to remove.                                                 *)
LEMMA RemovalFields ==
  ASSUME NEW r \in Removal
  PROVE  /\ r.todo \subseteq Path
         /\ r = Nothing => r.todo = {} /\ "victim" \notin DOMAIN r
         /\ "victim" \in DOMAIN r => r.path \in Path /\ r.victim \in Run
BY DEF Removal, Nothing

LEMMA Removals ==
  /\ Nothing \in Removal
  /\ \A todo \in SUBSET Path : /\ [todo |-> todo] \in Removal
                               /\ "victim" \notin DOMAIN [todo |-> todo]
  /\ \A todo \in SUBSET Path, path \in Path, victim \in Run :
       LET r == [todo |-> todo, path |-> path, victim |-> victim]
       IN  r \in Removal /\ "victim" \in DOMAIN r
BY DEF Removal, Nothing

LEMMA TreeFields ==
  ASSUME NEW t \in Tree
  PROVE  /\ t.parts \subseteq Part /\ t.content \in Keys /\ t.by \in Compilers
         /\ t.meta \in Compilers /\ t.age \in Run /\ t.steady \in BOOLEAN
BY DEF Tree

LEMMA Trees ==
  ASSUME TypeOK, NEW r \in Run
  PROVE  /\ tree[r] \in Tree \/ tree[r] = Empty
         /\ tree[r].parts \subseteq Part
         /\ tree[r].parts # {} => tree[r] \in Tree
<1>1. tree[r] \in Tree \/ tree[r] = Empty
  BY DEF TypeOK
<1>2. Empty.parts = {}
  BY DEF Empty
<1>3. QED
  BY <1>1, <1>2, TreeFields

(* Steps of one process.                                                   *)
OthersStay(p) == \A q \in Pids \ {p} : proc'[q] = proc[q]

LEMMA GotoStep ==
  ASSUME TypeOK, NEW p \in Pids, proc[p] \in Process, NEW pc, Goto(p, pc),
         pc \in {"check", "read", "locate", "compile", "meta", "aside", "publish",
                 "prune", "evict", "execute", "failed"}
  PROVE  /\ proc' \in [Pids -> AnyProcess]
         /\ proc'[p] \in Process
         /\ proc'[p].pc = pc
         /\ proc'[p].file = proc[p].file /\ proc'[p].key = proc[p].key
         /\ proc'[p].dsc = proc[p].dsc /\ proc'[p].run = proc[p].run
         /\ proc'[p].removal = proc[p].removal
         /\ proc'[p].steady = proc[p].steady /\ proc'[p].alone = proc[p].alone
         /\ OthersStay(p)
<1> DEFINE new == [proc[p] EXCEPT !.pc = pc]
<1>1. proc \in [Pids -> AnyProcess]
  BY DEF TypeOK, AnyProcess
<1>2. proc' = [proc EXCEPT ![p] = new]
  BY DEF Goto
<1>3. /\ new \in Process /\ new.pc = pc
      /\ new.file = proc[p].file /\ new.key = proc[p].key
      /\ new.dsc = proc[p].dsc /\ new.run = proc[p].run
      /\ new.removal = proc[p].removal
      /\ new.steady = proc[p].steady /\ new.alone = proc[p].alone
  BY DEF Process
<1> HIDE DEF new
<1>4. proc'[p] = new /\ OthersStay(p) /\ proc' \in [Pids -> AnyProcess]
  BY <1>1, <1>2, <1>3 DEF AnyProcess, OthersStay
<1>5. QED
  BY <1>3, <1>4

LEMMA RemovalStep ==
  ASSUME TypeOK, NEW p \in Pids, proc[p] \in Process \/ proc[p] \in Cleaner,
         NEW removal \in Removal, proc' = [proc EXCEPT ![p].removal = removal]
  PROVE  /\ proc' \in [Pids -> AnyProcess]
         /\ proc[p] \in Process => /\ proc'[p] \in Process
                                   /\ proc'[p].file = proc[p].file
                                   /\ proc'[p].key = proc[p].key
                                   /\ proc'[p].dsc = proc[p].dsc
                                   /\ proc'[p].run = proc[p].run
         /\ proc[p] \in Cleaner => proc'[p] \in Cleaner
         /\ proc'[p].pc = proc[p].pc
         /\ proc'[p].removal = removal
         /\ proc'[p].steady = proc[p].steady /\ proc'[p].alone = proc[p].alone
         /\ OthersStay(p)
<1> DEFINE new == [proc[p] EXCEPT !.removal = removal]
<1>1. proc \in [Pids -> AnyProcess]
  BY DEF TypeOK, AnyProcess
<1>2. proc' = [proc EXCEPT ![p] = new]
  OBVIOUS
<1>3. /\ proc[p] \in Process => /\ new \in Process
                                /\ new.file = proc[p].file /\ new.key = proc[p].key
                                /\ new.dsc = proc[p].dsc /\ new.run = proc[p].run
      /\ proc[p] \in Cleaner => new \in Cleaner
      /\ new.pc = proc[p].pc
      /\ new.removal = removal
      /\ new.steady = proc[p].steady /\ new.alone = proc[p].alone
  <2>1. CASE proc[p] \in Process
    BY <2>1, ProcessFields DEF Process
  <2>2. CASE proc[p] \in Cleaner
    BY <2>2, CleanerFields DEF Cleaner
  <2>3. QED
    BY <2>1, <2>2
<1> HIDE DEF new
<1>4. proc'[p] = new /\ OthersStay(p) /\ proc' \in [Pids -> AnyProcess]
  BY <1>1, <1>2, <1>3 DEF AnyProcess, OthersStay
<1>5. QED
  BY <1>3, <1>4

LEMMA EndStep ==
  ASSUME TypeOK, NEW p \in Pids, proc' = [proc EXCEPT ![p] = Idle]
  PROVE  /\ proc' \in [Pids -> AnyProcess]
         /\ proc'[p] = Idle
         /\ OthersStay(p)
BY DEF TypeOK, AnyProcess, OthersStay

-----------------------------------------------------------------------------
(* What the steps do to the file system.                                   *)

QuietFiles == disk' = disk /\ tree' = tree

Drop(paths) ==
  /\ disk' = [path \in Path |-> IF path \in paths THEN None ELSE disk[path]]
  /\ tree' = Emptied(paths)

SameTrees(r) == \A other \in Run \ {r} : tree'[other] = tree[other]

LEMMA Emptying ==
  ASSUME TypeOK, NEW paths \in SUBSET Path, tree' = Emptied(paths)
  PROVE  /\ tree' \in [Run -> Tree \cup {Empty}]
         /\ \A r \in Run : tree'[r] = IF \E path \in paths : disk[path] = r THEN Empty ELSE tree[r]
BY DEF TypeOK, Emptied

LEMMA Dropping ==
  ASSUME TypeOK, Placed, NEW paths \in SUBSET Path, Drop(paths), clock' = clock
  PROVE  /\ disk' \in [Path -> Run \cup {None}]
         /\ tree' \in [Run -> Tree \cup {Empty}]
         /\ Placed'
         /\ \A path \in Path :
              /\ disk'[path] = IF path \in paths THEN None ELSE disk[path]
              /\ path \notin paths /\ disk[path] # None => tree'[disk[path]] = tree[disk[path]]
<1>1. disk \in [Path -> Run \cup {None}]
  BY DEF TypeOK
<1>2. /\ tree' \in [Run -> Tree \cup {Empty}]
      /\ \A r \in Run : tree'[r] = IF \E path \in paths : disk[path] = r THEN Empty ELSE tree[r]
  BY Emptying DEF Drop
<1>3. \A path \in Path : disk'[path] = IF path \in paths THEN None ELSE disk[path]
  BY DEF Drop
<1>4. disk' \in [Path -> Run \cup {None}]
  BY <1>1 DEF Drop
<1>5. \A path \in Path : path \notin paths /\ disk[path] # None =>
        tree'[disk[path]] = tree[disk[path]]
  <2> SUFFICES ASSUME NEW path \in Path, path \notin paths, disk[path] # None
               PROVE  tree'[disk[path]] = tree[disk[path]]
    OBVIOUS
  <2>1. disk[path] \in Run
    BY <1>1
  <2>2. ~\E other \in paths : disk[other] = disk[path]
    BY DEF Placed
  <2>3. QED
    BY <1>2, <2>1, <2>2
<1>6. Placed'
  BY <1>3, <1>5 DEF Placed
<1>7. QED
  BY <1>2, <1>3, <1>4, <1>5, <1>6

LEMMA QuietPlaces ==
  ASSUME TypeOK, Placed, QuietFiles, clock' \in Nat, clock <= clock'
  PROVE  Placed'
<1>1. \A path \in Path : disk[path] # None =>
        disk[path] \in Nat /\ tree[disk[path]].age \in Nat
  BY RunIds, TreeFields DEF TypeOK, Placed
<1>2. clock \in Nat
  BY ConstantsAssumption DEF TypeOK
<1>3. QED
  BY <1>1, <1>2 DEF Placed, QuietFiles

(* A tree that a run changes, and the directories it renames.              *)
LEMMA Edit ==
  ASSUME TypeOK, NEW r \in Run, tree[r] \in Tree,
         NEW parts \in SUBSET Part, NEW age \in Run,
         tree' = [tree EXCEPT ![r].parts = parts, ![r].age = age]
  PROVE  /\ tree' \in [Run -> Tree \cup {Empty}]
         /\ SameTrees(r)
         /\ tree'[r] \in Tree
         /\ tree'[r].parts = parts /\ tree'[r].age = age
         /\ tree'[r].content = tree[r].content /\ tree'[r].by = tree[r].by
         /\ tree'[r].meta = tree[r].meta /\ tree'[r].steady = tree[r].steady
<1> DEFINE first == [tree[r] EXCEPT !.parts = parts]
           new == [first EXCEPT !.age = age]
<1>1. tree \in [Run -> Tree \cup {Empty}]
  BY DEF TypeOK
<1>2. tree' = [tree EXCEPT ![r] = new]
  BY <1>1
<1>3. /\ first \in Tree /\ new \in Tree
      /\ new.parts = parts /\ new.age = age
      /\ new.content = tree[r].content /\ new.by = tree[r].by
      /\ new.meta = tree[r].meta /\ new.steady = tree[r].steady
  BY DEF Tree
<1> HIDE DEF new
<1>4. tree'[r] = new /\ SameTrees(r) /\ tree' \in [Run -> Tree \cup {Empty}]
  <2>1. tree'[r] = new /\ SameTrees(r)
    BY <1>1, <1>2 DEF SameTrees
  <2>2. \A other \in Run : tree'[other] \in Tree \cup {Empty}
    BY <1>1, <1>3, <2>1 DEF SameTrees
  <2>3. tree' \in [Run -> Tree \cup {Empty}]
    <3>1. tree' = [other \in Run |-> tree'[other]]
      BY <1>1, <1>2
    <3>2. QED
      BY ONLY <2>2, <3>1
  <2>4. QED
    BY <2>1, <2>3
<1>5. QED
  BY <1>3, <1>4

LEMMA CompileFiles ==
  ASSUME PlaceInv, NEW p \in Pids, Works(p), Compile(p)
  PROVE  LET r == proc[p].run
             staging == Staging(p, proc[p].key)
             new == [parts |-> {"artifact", "modules"}, content |-> source[proc[p].file],
                     by |-> dsc, meta |-> proc[p].dsc, age |-> clock, steady |-> proc[p].steady]
         IN  /\ disk' \in [Path -> Run \cup {None}]
             /\ tree' \in [Run -> Tree \cup {Empty}]
             /\ \A path \in Path : disk'[path] = IF path = staging THEN r ELSE disk[path]
             /\ tree'[r] = new /\ new \in Tree
             /\ \A path \in Path \ {staging} : disk[path] # None =>
                  disk[path] # r /\ tree'[disk[path]] = tree[disk[path]]
             /\ Placed'
<1> DEFINE r == proc[p].run
           staging == Staging(p, proc[p].key)
           new == [parts |-> {"artifact", "modules"}, content |-> source[proc[p].file],
                   by |-> dsc, meta |-> proc[p].dsc, age |-> clock, steady |-> proc[p].steady]
<1>1. TypeOK /\ Placed /\ Owns(p) /\ proc[p] \in Process /\ proc[p].pc = "compile"
  BY Kinds DEF PlaceInv, Compile
<1>2. /\ r \in Run /\ proc[p].key \in Keys /\ proc[p].file \in Files
      /\ proc[p].dsc \in Compilers /\ proc[p].steady \in BOOLEAN
  BY <1>1, ProcessFields
<1>3. staging \in Path
  BY <1>2, Paths
<1>4. r <= clock /\ clock \in Run
  BY <1>1, <1>2, RunIds DEF Owns, TypeOK, Run
<1>5. \A path \in Path : disk[path] # r
  BY <1>1 DEF Owns, Before
<1>6. new \in Tree
  BY <1>1, <1>2, <1>4 DEF Tree, Part, TypeOK
<1>7. disk' = [disk EXCEPT ![staging] = r] /\ tree' = [Emptied({staging}) EXCEPT ![r] = new]
  BY DEF Compile
<1>8. disk \in [Path -> Run \cup {None}]
  BY <1>1 DEF TypeOK
<1>9. /\ disk' \in [Path -> Run \cup {None}]
      /\ \A path \in Path : disk'[path] = IF path = staging THEN r ELSE disk[path]
  BY <1>2, <1>3, <1>7, <1>8
<1> HIDE DEF new
<1>10. /\ tree' \in [Run -> Tree \cup {Empty}]
       /\ tree'[r] = new
       /\ \A other \in Run \ {r} : disk[staging] # other => tree'[other] = tree[other]
  BY <1>1, <1>2, <1>3, <1>6, <1>7 DEF Emptied, TypeOK
<1>11. \A path \in Path \ {staging} : disk[path] # None =>
         disk[path] \in Run /\ disk[path] # r /\ tree'[disk[path]] = tree[disk[path]]
  BY <1>1, <1>3, <1>5, <1>8, <1>10 DEF Placed
<1>12. Placed'
  <2>1. clock' = clock
    BY DEF Compile
  <2>2. new.age = clock
    BY DEF new
  <2>3. clock \in Nat
    BY <1>4, RunIds
  <2> HIDE DEF r, staging
  <2>4. ASSUME NEW path \in Path, disk'[path] # None
        PROVE  disk'[path] <= clock /\ tree'[disk'[path]] \in Tree /\ tree'[disk'[path]].age <= clock
    <3>1. CASE path = staging
      BY <1>4, <1>6, <1>9, <1>10, <2>2, <2>3, <3>1 DEF r
    <3>2. CASE path # staging
      BY <1>1, <1>9, <1>11, <2>4, <3>2 DEF Placed
    <3>3. QED
      BY <3>1, <3>2
  <2>5. ASSUME NEW path \in Path, NEW other \in Path,
               disk'[path] # None, disk'[path] = disk'[other]
        PROVE  path = other
    BY <1>1, <1>5, <1>9, <2>5 DEF Placed
  <2>6. QED
    BY <2>1, <2>4, <2>5 DEF Placed
<1>13. QED
  BY <1>6, <1>9, <1>10, <1>11, <1>12 DEF new

LEMMA WriteMetaFiles ==
  ASSUME PlaceInv, NEW p \in Pids, Works(p), WriteMeta(p), disk[Staging(p, proc[p].key)] # None
  PROVE  LET r == proc[p].run
         IN  /\ disk' = disk
             /\ tree' \in [Run -> Tree \cup {Empty}]
             /\ disk[Staging(p, proc[p].key)] = r
             /\ tree[r] \in Tree /\ tree'[r] \in Tree
             /\ tree'[r].parts = tree[r].parts \cup {"meta"} /\ tree'[r].age = clock
             /\ tree'[r].content = tree[r].content /\ tree'[r].by = tree[r].by
             /\ tree'[r].meta = tree[r].meta /\ tree'[r].steady = tree[r].steady
             /\ SameTrees(r)
             /\ Placed'
<1> DEFINE r == proc[p].run
           staging == Staging(p, proc[p].key)
<1>1. TypeOK /\ Placed /\ Owns(p) /\ proc[p] \in Process /\ proc[p].pc = "meta"
  BY Kinds DEF PlaceInv, WriteMeta
<1>2. r \in Run /\ proc[p].key \in Keys
  BY <1>1, ProcessFields
<1>3. staging \in Path /\ disk[staging] = r
  BY <1>1, <1>2, Paths DEF Owns, Building
<1>4. tree[r] \in Tree
  BY <1>2, <1>3, RunIds, <1>1 DEF Placed
<1>5. clock \in Run
  BY <1>1, <1>2, RunIds DEF Owns, TypeOK, Run
<1>6. tree[r].parts \cup {"meta"} \in SUBSET Part
  BY <1>4, TreeFields DEF Part
<1>7. /\ tree' = [tree EXCEPT ![r].parts = tree[r].parts \cup {"meta"}, ![r].age = clock]
      /\ disk' = disk /\ clock' = clock
  BY <1>1, <1>3 DEF WriteMeta
<1>8. /\ tree' \in [Run -> Tree \cup {Empty}]
      /\ SameTrees(r)
      /\ tree'[r] \in Tree
      /\ tree'[r].parts = tree[r].parts \cup {"meta"} /\ tree'[r].age = clock
      /\ tree'[r].content = tree[r].content /\ tree'[r].by = tree[r].by
      /\ tree'[r].meta = tree[r].meta /\ tree'[r].steady = tree[r].steady
  BY <1>1, <1>2, <1>4, <1>5, <1>6, <1>7, Edit
<1>9. Placed'
  <2>1. clock <= clock
    BY <1>5, RunIds
  <2>2. \A path \in Path : disk[path] # None => disk[path] \in Run
    BY <1>1 DEF TypeOK
  <2> HIDE DEF r, staging
  <2>3. QED
    BY <1>1, <1>7, <1>8, <2>1, <2>2 DEF Placed, SameTrees
<1>10. QED
  BY <1>3, <1>4, <1>7, <1>8, <1>9

LEMMA MoveAsideFiles ==
  ASSUME PlaceInv, NEW p \in Pids, Works(p), MoveAside(p)
  PROVE  LET k == proc[p].key
         IN  /\ disk' \in [Path -> Run \cup {None}]
             /\ tree' \in [Run -> Tree \cup {Empty}]
             /\ \A path \in Path : disk'[path] = IF path = Trash(p, k) THEN disk[Entry(k)]
                                                 ELSE IF path = Entry(k) THEN None
                                                 ELSE disk[path]
             /\ \A path \in Path \ {Trash(p, k)} : disk[path] # None =>
                  tree'[disk[path]] = tree[disk[path]]
             /\ Placed'
<1> DEFINE k == proc[p].key
           entry == Entry(k)
           trash == Trash(p, k)
<1>1. TypeOK /\ Placed /\ proc[p] \in Process
  BY Kinds DEF PlaceInv
<1>2. entry \in Path /\ trash \in Path /\ entry # trash
  BY <1>1, ProcessFields, Paths
<1>3. /\ disk' = Moved([disk EXCEPT ![trash] = None], entry, trash)
      /\ tree' = Emptied({trash})
      /\ clock' = clock
  BY DEF MoveAside
<1>4. disk \in [Path -> Run \cup {None}]
  BY <1>1 DEF TypeOK
<1> HIDE DEF entry, trash
<1> DEFINE cleared == [disk EXCEPT ![trash] = None]
<1>5. cleared[trash] = None /\ cleared[entry] = disk[entry]
  BY <1>2, <1>4
<1>6. disk' = IF disk[entry] # None THEN [cleared EXCEPT ![trash] = cleared[entry], ![entry] = None]
                                    ELSE cleared
  BY <1>3, <1>5 DEF Moved, CanMove
<1>7. \A path \in Path : disk'[path] = IF path = trash THEN disk[entry]
                                       ELSE IF path = entry THEN None ELSE disk[path]
  BY <1>2, <1>4, <1>5, <1>6
<1>8. disk' \in [Path -> Run \cup {None}]
  BY <1>2, <1>4, <1>6
<1>9. /\ tree' \in [Run -> Tree \cup {Empty}]
      /\ \A path \in Path \ {trash} : disk[path] # None => tree'[disk[path]] = tree[disk[path]]
  <2>1. /\ tree' \in [Run -> Tree \cup {Empty}]
        /\ \A r \in Run : tree'[r] = IF \E path \in {trash} : disk[path] = r THEN Empty ELSE tree[r]
    <3>1. {trash} \in SUBSET Path /\ tree' = Emptied({trash}) /\ TypeOK
      BY <1>1, <1>2, <1>3
    <3> HIDE DEF cleared, k
    <3>2. QED
      BY ONLY <3>1, Emptying
  <2>2. \A path \in Path \ {trash} : disk[path] # None => disk[path] \in Run /\ disk[path] # disk[trash]
    BY <1>1, <1>2, <1>4 DEF Placed
  <2>3. QED
    BY <2>1, <2>2
<1>10. Placed'
  <2>1. ASSUME NEW path \in Path, disk'[path] # None
        PROVE  \E from \in Path \ {trash} :
                 /\ disk'[path] = disk[from]
                 /\ from = IF path = trash THEN entry ELSE path
    BY <1>2, <1>7, <2>1
  <2>2. ASSUME NEW path \in Path, disk'[path] # None
        PROVE  disk'[path] <= clock' /\ tree'[disk'[path]] \in Tree /\ tree'[disk'[path]].age <= clock'
    <3>1. PICK from \in Path \ {trash} : disk'[path] = disk[from]
      BY <2>1, <2>2
    <3>2. QED
      BY <1>1, <1>3, <1>9, <2>2, <3>1 DEF Placed
  <2>3. ASSUME NEW path \in Path, NEW other \in Path,
               disk'[path] # None, disk'[path] = disk'[other]
        PROVE  path = other
    BY <1>1, <1>2, <1>7, <2>3 DEF Placed
  <2>4. QED
    BY <2>2, <2>3 DEF Placed
<1>11. QED
  BY <1>7, <1>8, <1>9, <1>10 DEF entry, trash

Swaps(p) == CanMove(disk, Staging(p, proc[p].key), Entry(proc[p].key))

LEMMA SwapFiles ==
  ASSUME PlaceInv, NEW p \in Pids, Works(p), Publish(p), Swaps(p)
  PROVE  LET r == proc[p].run
             k == proc[p].key
         IN  /\ disk' \in [Path -> Run \cup {None}]
             /\ tree' \in [Run -> Tree \cup {Empty}]
             /\ disk[Staging(p, k)] = r
             /\ \A path \in Path : disk'[path] = IF path = Entry(k) THEN r
                                                 ELSE IF path = Staging(p, k) THEN None
                                                 ELSE disk[path]
             /\ tree[r] \in Tree /\ tree' = tree
             /\ disk[Entry(k)] # r
             /\ Placed'
<1> DEFINE r == proc[p].run
           k == proc[p].key
           entry == Entry(k)
           staging == Staging(p, k)
<1>1. TypeOK /\ Placed /\ Owns(p) /\ proc[p] \in Process /\ proc[p].pc = "publish"
  BY Kinds DEF PlaceInv, Publish
<1>2. r \in Run /\ k \in Keys
  BY <1>1, ProcessFields
<1>3. entry \in Path /\ staging \in Path /\ entry # staging
  BY <1>2, Paths
<1>4. disk[staging] = r
  BY <1>1 DEF Swaps, CanMove, Owns, Building
<1>5. disk \in [Path -> Run \cup {None}] /\ tree \in [Run -> Tree \cup {Empty}]
  BY <1>1 DEF TypeOK
<1>6. tree[r] \in Tree
  BY <1>1, <1>2, <1>3, <1>4, RunIds DEF Placed
<1>7. /\ disk' = [disk EXCEPT ![entry] = disk[staging], ![staging] = None]
      /\ tree' = tree /\ clock' = clock
  BY DEF Publish, Swaps, Moved
<1> HIDE DEF entry, staging
<1>8. tree' \in [Run -> Tree \cup {Empty}]
  BY <1>5, <1>7
<1>9. /\ disk' \in [Path -> Run \cup {None}]
      /\ \A path \in Path : disk'[path] = IF path = entry THEN r
                                          ELSE IF path = staging THEN None ELSE disk[path]
  BY <1>2, <1>3, <1>4, <1>5, <1>7
<1>10. \A path \in Path : disk[path] = r => path = staging
  BY <1>1 DEF Owns, Building, staging
<1>11. Placed'
  <2>1. ASSUME NEW path \in Path, disk'[path] # None
        PROVE  disk'[path] <= clock' /\ tree'[disk'[path]] \in Tree /\ tree'[disk'[path]].age <= clock'
    <3>1. CASE path = entry
      BY <1>1, <1>2, <1>3, <1>4, <1>7, <1>9, <3>1, RunIds DEF Placed
    <3>2. CASE path # entry
      <4>1. disk'[path] = disk[path] /\ disk[path] \in Run \ {r}
        BY <1>5, <1>9, <1>10, <2>1, <3>2
      <4>2. QED
        BY <1>1, <1>7, <2>1, <4>1 DEF Placed
    <3>3. QED
      BY <3>1, <3>2
  <2>2. ASSUME NEW path \in Path, NEW other \in Path,
               disk'[path] # None, disk'[path] = disk'[other]
        PROVE  path = other
    BY <1>1, <1>3, <1>9, <1>10, <2>2 DEF Placed
  <2>3. QED
    BY <2>1, <2>2 DEF Placed
<1>12. disk[entry] # r
  BY <1>3, <1>10
<1>13. QED
  BY <1>4, <1>6, <1>7, <1>8, <1>9, <1>11, <1>12 DEF entry, staging

LEMMA UnlinkFiles ==
  ASSUME PlaceInv, NEW p \in Live, Unlink(p)
  PROVE  LET t == proc[p].removal.victim
         IN  /\ t \in Run /\ disk' = disk
             /\ tree' \in [Run -> Tree \cup {Empty}]
             /\ tree[t] \in Tree /\ tree'[t] \in Tree
             /\ tree'[t].parts \subseteq tree[t].parts
             /\ tree'[t].content = tree[t].content /\ tree'[t].by = tree[t].by
             /\ tree'[t].meta = tree[t].meta /\ tree'[t].steady = tree[t].steady
             /\ SameTrees(t)
             /\ Placed'
<1> DEFINE t == proc[p].removal.victim
<1>1. TypeOK /\ Placed /\ p \in Pids /\ (proc[p] \in Process \/ proc[p] \in Cleaner)
  BY Kinds DEF PlaceInv, Live
<1>2. t \in Run
  BY <1>1, ProcessFields, CleanerFields, RemovalFields DEF Unlink, Opened
<1>3. PICK part \in tree[t].parts :
        tree' = [tree EXCEPT ![t].parts = tree[t].parts \ {part},
                             ![t].age = IF part = "meta" THEN clock ELSE tree[t].age]
  BY DEF Unlink
<1>4. tree[t] \in Tree /\ tree[t].parts \subseteq Part /\ tree[t].age \in Run
  BY <1>1, <1>2, <1>3, Trees, TreeFields
<1>5. clock \in Run
  BY <1>1, ConstantsAssumption DEF PlaceInv, TypeOK, Run
<1> DEFINE age == IF part = "meta" THEN clock ELSE tree[t].age
           parts == tree[t].parts \ {part}
<1>6. age \in Run /\ parts \in SUBSET Part
  BY <1>4, <1>5
<1>7. tree' = [tree EXCEPT ![t].parts = parts, ![t].age = age]
  BY <1>3
<1> HIDE DEF age, parts, t
<1>8. /\ tree' \in [Run -> Tree \cup {Empty}]
      /\ SameTrees(t)
      /\ tree'[t] \in Tree
      /\ tree'[t].parts = parts /\ tree'[t].age = age
      /\ tree'[t].content = tree[t].content /\ tree'[t].by = tree[t].by
      /\ tree'[t].meta = tree[t].meta /\ tree'[t].steady = tree[t].steady
  BY <1>1, <1>2, <1>4, <1>6, <1>7, Edit
<1>9. disk' = disk /\ clock' = clock
  BY DEF Unlink
<1>10. Placed'
  <2>1. \A path \in Path : disk[path] = t => age <= clock
    BY <1>1, <1>2, <1>5, RunIds DEF Placed, age
  <2>2. \A path \in Path : disk[path] # None => disk[path] \in Run
    BY <1>1 DEF TypeOK
  <2>3. QED
    BY <1>1, <1>8, <1>9, <2>1, <2>2 DEF Placed, SameTrees
<1>11. QED
  BY <1>2, <1>4, <1>8, <1>9, <1>10 DEF t, parts

LEMMA RmdirFiles ==
  ASSUME PlaceInv, NEW p \in Live, Rmdir(p)
  PROVE  /\ proc[p].removal.path \in Path
         /\ \/ PartsAt(proc[p].removal.path) # {} /\ QuietFiles
            \/ PartsAt(proc[p].removal.path) = {} /\ Drop({proc[p].removal.path})
<1> DEFINE path == proc[p].removal.path
<1>1. TypeOK /\ p \in Pids /\ (proc[p] \in Process \/ proc[p] \in Cleaner)
  BY Kinds DEF PlaceInv, Live
<1>2. path \in Path
  BY <1>1, ProcessFields, CleanerFields, RemovalFields DEF Rmdir, Opened
<1>3. CASE PartsAt(path) # {}
  BY <1>2, <1>3 DEF Rmdir, QuietFiles
<1>4. CASE PartsAt(path) = {}
  <2>1. disk' = [disk EXCEPT ![path] = None] /\ tree' = Emptied({path})
    BY <1>4 DEF Rmdir
  <2>2. QED
    BY <1>1, <1>2, <1>4, <2>1 DEF TypeOK, Drop
<1>5. QED
  BY <1>3, <1>4

(* The other steps only forget what some paths held.                       *)
LEMMA DropFiles ==
  ASSUME PlaceInv, NEW p \in Pids, Works(p)
  PROVE  LET k == proc[p].key
         IN  /\ CompileFails(p) => Drop({Staging(p, k)})
             /\ List(p) => Drop({Trash(p, k)})
             /\ Publish(p) /\ ~Swaps(p) => Drop({Staging(p, k), Trash(p, k)})
<1> DEFINE k == proc[p].key
           staging == Staging(p, k)
           trash == Trash(p, k)
<1>1. disk \in [Path -> Run \cup {None}]
  BY DEF PlaceInv, TypeOK
<1>2. staging \in Path /\ trash \in Path
  BY Kinds, ProcessFields, Paths DEF PlaceInv
<1>3. ASSUME CompileFails(p)
      PROVE  Drop({staging})
  <2>1. disk' = [disk EXCEPT ![staging] = None] /\ tree' = Emptied({staging})
    BY <1>3 DEF CompileFails
  <2> HIDE DEF staging
  <2>2. QED
    BY <1>1, <1>2, <2>1 DEF Drop
<1>4. ASSUME List(p)
      PROVE  Drop({trash})
  <2>1. disk' = [disk EXCEPT ![trash] = None] /\ tree' = Emptied({trash})
    BY <1>4 DEF List
  <2> HIDE DEF trash
  <2>2. QED
    BY <1>1, <1>2, <2>1 DEF Drop
<1>5. ASSUME Publish(p), ~Swaps(p)
      PROVE  Drop({staging, trash})
  <2>1. disk' = [disk EXCEPT ![staging] = None, ![trash] = None] /\ tree' = Emptied({staging, trash})
    BY <1>5 DEF Publish, Swaps
  <2> HIDE DEF staging, trash
  <2>2. QED
    BY <1>1, <1>2, <2>1 DEF Drop
<1>6. QED
  BY <1>3, <1>4, <1>5

-----------------------------------------------------------------------------
(* PlaceInv is inductive.                                                  *)

LEMMA TypeStep ==
  ASSUME TypeOK, UNCHANGED <<source, dsc, clock, changes, kills, cut>>,
         proc' \in [Pids -> AnyProcess],
         disk' \in [Path -> Run \cup {None}],
         tree' \in [Run -> Tree \cup {Empty}],
         unpruned' \subseteq Run, swapped' \subseteq Run
  PROVE  TypeOK'
BY DEF TypeOK, AnyProcess

(* A step of one process, which may end.                                   *)
LEMMA PlaceStep ==
  ASSUME PlaceInv, NEW p \in Live, TypeOK', Placed', clock' = clock,
         OthersStay(p),
         proc'[p] \in Process => proc[p] \in Process /\ proc'[p].run = proc[p].run,
         \A q \in Pids \ {p} : Owns(q)',
         Removes(p)', Owns(p)'
  PROVE  PlaceInv'
<1>1. TypeOK /\ p \in Pids
  BY DEF PlaceInv, Live
<1>2. \A q \in Pids : (Works(q)' <=> proc'[q] \in Process) /\ (Works(q) <=> proc[q] \in Process)
  BY <1>1, Kinds, KindsNext
<1>3. ASSUME NEW q \in Pids \ {p}
      PROVE  Removes(q)'
  <2>1. proc'[q] = proc[q] /\ Removes(q)
    BY DEF OthersStay, PlaceInv
  <2>2. Works(q)' <=> Works(q)
    BY <1>2, <2>1
  <2>3. QED
    BY <2>1, <2>2 DEF Removes, Opened
<1>4. RunsDiffer'
  <2>1. \A q \in Pids : Works(q)' => Works(q) /\ proc'[q].run = proc[q].run
    BY <1>2 DEF OthersStay
  <2>2. QED
    BY <2>1 DEF RunsDiffer, PlaceInv
<1>5. (clock = 0 => Live = {})'
  BY DEF PlaceInv
<1>6. QED
  BY <1>3, <1>4, <1>5 DEF PlaceInv

LEMMA OwnsShrinking ==
  ASSUME PlaceInv, NEW q \in Pids, clock' = clock,
         \A path \in Path : disk'[path] \in {None, disk[path]},
         TypeOK', proc'[q] \in Process =>
           /\ proc[q] \in Process
           /\ proc'[q].run = proc[q].run /\ proc'[q].key = proc[q].key
           /\ proc'[q].pc \in Before => proc[q].pc \in Before
           /\ proc'[q].pc \in Building => proc[q].pc \in Building
  PROVE  Owns(q)'
<1>1. SUFFICES ASSUME proc'[q] \in Process
               PROVE  Owns(q)'
  <2>1. Works(q)' => proc'[q] \in Process
    BY KindsNext
  <2>2. QED
    BY <1>1, <2>1 DEF Owns
<1>2. Works(q) /\ Owns(q) /\ proc[q].run \in Run /\ proc[q].key \in Keys
  BY <1>1, Kinds, ProcessFields DEF PlaceInv
<1>3. Staging(q, proc[q].key) \in Path
  BY <1>2, Paths
<1>4. proc[q].run # None
  BY <1>2, RunIds
<1>5. QED
  BY <1>1, <1>2, <1>3, <1>4 DEF Owns

(* A step of one process on what it finds or removes.                      *)
LEMMA ShrinkingStep ==
  ASSUME PlaceInv, NEW p \in Live, TypeOK', Placed', clock' = clock,
         OthersStay(p),
         \A path \in Path : disk'[path] \in {None, disk[path]},
         proc'[p] \in Process =>
           /\ proc[p] \in Process
           /\ proc'[p].run = proc[p].run /\ proc'[p].key = proc[p].key
           /\ proc'[p].pc \in Before => proc[p].pc \in Before
           /\ proc'[p].pc \in Building => proc[p].pc \in Building,
         Removes(p)'
  PROVE  PlaceInv'
<1>1. p \in Pids
  BY DEF Live
<1>2. \A q \in Pids \ {p} : Owns(q)'
  BY OwnsShrinking DEF OthersStay
<1>3. Owns(p)'
  BY <1>1, OwnsShrinking
<1>4. QED
  BY <1>2, <1>3, PlaceStep

(* A step that only goes on.                                               *)
LEMMA GoPlaces ==
  ASSUME PlaceInv, NEW p \in Live, Works(p), NEW pc, Goto(p, pc),
         pc \in {"check", "read", "locate", "compile", "meta", "aside", "publish",
                 "prune", "execute", "failed"},
         proc[p].pc # "evict" \/ proc[p].removal = Nothing,
         pc \in Before => proc[p].pc \in Before,
         pc \in Building => proc[p].pc \in Building,
         UNCHANGED <<source, dsc, clock, changes, kills, cut>>,
         unpruned' \subseteq Run, swapped' \subseteq Run,
         disk' \in [Path -> Run \cup {None}],
         tree' \in [Run -> Tree \cup {Empty}],
         Placed',
         \A path \in Path : disk'[path] \in {None, disk[path]}
  PROVE  PlaceInv'
<1>1. TypeOK /\ p \in Pids /\ proc[p] \in Process /\ Removes(p)
  BY Kinds DEF PlaceInv, Live
<1>2. /\ proc' \in [Pids -> AnyProcess] /\ OthersStay(p)
      /\ proc'[p] \in Process /\ proc'[p].pc = pc
      /\ proc'[p].run = proc[p].run /\ proc'[p].key = proc[p].key
      /\ proc'[p].removal = proc[p].removal
  BY <1>1, GotoStep
<1>3. TypeOK'
  BY <1>1, <1>2, TypeStep
<1>4. Removes(p)'
  BY <1>1, <1>2 DEF Removes
<1>5. QED
  BY <1>1, <1>2, <1>3, <1>4, ShrinkingStep

LEMMA CompilePlaces ==
  ASSUME PlaceInv, NEW p \in Live, Compile(p)
  PROVE  PlaceInv'
<1> DEFINE r == proc[p].run
           k == proc[p].key
<1>1. TypeOK /\ p \in Pids /\ Works(p) /\ proc[p] \in Process /\ proc[p].pc = "compile"
  BY Kinds DEF PlaceInv, Live, Works, Compile
<1>2. /\ disk' \in [Path -> Run \cup {None}]
      /\ tree' \in [Run -> Tree \cup {Empty}]
      /\ \A path \in Path : disk'[path] = IF path = Staging(p, k) THEN r ELSE disk[path]
      /\ Placed'
  BY <1>1, CompileFiles
<1>3. Goto(p, "meta") /\ UNCHANGED <<source, dsc, clock, changes, kills, unpruned, cut, swapped>>
  BY DEF Compile
<1>4. /\ proc' \in [Pids -> AnyProcess] /\ OthersStay(p)
      /\ proc'[p] \in Process /\ proc'[p].pc = "meta"
      /\ proc'[p].run = r /\ proc'[p].key = k /\ proc'[p].removal = proc[p].removal
  BY <1>1, <1>3, GotoStep
<1>5. TypeOK'
  BY <1>1, <1>2, <1>3, <1>4, TypeStep DEF TypeOK
<1>6. Removes(p) /\ Owns(p) /\ r \in Run /\ k \in Keys
  BY <1>1, ProcessFields DEF PlaceInv
<1>7. Removes(p)'
  BY <1>1, <1>4, <1>6 DEF Removes
<1>8. Owns(p)'
  <2>1. Staging(p, k) \in Path
    BY <1>1, <1>6, Paths
  <2>2. \A path \in Path : disk[path] # r
    BY <1>1, <1>6 DEF Owns, Before
  <2>3. QED
    BY <1>1, <1>2, <1>3, <1>4, <1>6, <2>1, <2>2 DEF Owns, Before
<1>9. ASSUME NEW q \in Pids \ {p}
      PROVE  Owns(q)'
  <2>1. proc'[q] = proc[q]
    BY <1>4 DEF OthersStay
  <2>2. CASE proc[q] \notin Process
    <3>1. ~Works(q)'
      BY <1>5, <2>1, <2>2, KindsNext
    <3>2. QED
      BY <3>1 DEF Owns
  <2>3. CASE proc[q] \in Process
    <3>1. Works(q) /\ Owns(q) /\ proc[q].key \in Keys /\ proc[q].run # r
      BY <1>1, <2>3, Kinds, ProcessFields DEF PlaceInv, RunsDiffer
    <3>2. Staging(q, proc[q].key) \in Path /\ Staging(q, proc[q].key) # Staging(p, k)
      BY <1>1, <1>6, <3>1, Paths
    <3>3. \A path \in Path : disk'[path] = proc[q].run => disk[path] = proc[q].run
      BY <1>2, <3>1
    <3>4. disk'[Staging(q, proc[q].key)] = disk[Staging(q, proc[q].key)]
      BY <1>2, <3>2
    <3>5. QED
      BY <1>3, <2>1, <3>1, <3>3, <3>4 DEF Owns
  <2>4. QED
    BY <2>2, <2>3
<1>10. QED
  BY <1>1, <1>2, <1>3, <1>4, <1>5, <1>7, <1>8, <1>9, PlaceStep

LEMMA MoveAsidePlaces ==
  ASSUME PlaceInv, NEW p \in Live, MoveAside(p)
  PROVE  PlaceInv'
<1> DEFINE r == proc[p].run
           k == proc[p].key
<1>1. TypeOK /\ p \in Pids /\ Works(p) /\ proc[p] \in Process /\ proc[p].pc = "aside"
  BY Kinds DEF PlaceInv, Live, Works, MoveAside
<1>2. /\ disk' \in [Path -> Run \cup {None}]
      /\ tree' \in [Run -> Tree \cup {Empty}]
      /\ \A path \in Path : disk'[path] = IF path = Trash(p, k) THEN disk[Entry(k)]
                                          ELSE IF path = Entry(k) THEN None
                                          ELSE disk[path]
      /\ Placed'
  BY <1>1, MoveAsideFiles
<1>3. Goto(p, "publish") /\ UNCHANGED <<source, dsc, clock, changes, kills, unpruned, cut, swapped>>
  BY DEF MoveAside
<1>4. /\ proc' \in [Pids -> AnyProcess] /\ OthersStay(p)
      /\ proc'[p] \in Process /\ proc'[p].pc = "publish"
      /\ proc'[p].run = r /\ proc'[p].key = k /\ proc'[p].removal = proc[p].removal
  BY <1>1, <1>3, GotoStep
<1>5. TypeOK'
  BY <1>1, <1>2, <1>3, <1>4, TypeStep DEF TypeOK
<1>6. Removes(p) /\ k \in Keys
  BY <1>1, ProcessFields DEF PlaceInv
<1>7. Removes(p)'
  BY <1>1, <1>4, <1>6 DEF Removes
<1>8. ASSUME NEW q \in Pids, Works(q)'
      PROVE  Owns(q)'
  <2>1. /\ Works(q) /\ Owns(q) /\ proc[q].key \in Keys /\ proc[q].run \in Run
        /\ proc'[q].run = proc[q].run /\ proc'[q].key = proc[q].key
        /\ proc'[q].pc \in Before => proc[q].pc \in Before
        /\ proc'[q].pc \in Building => proc[q].pc \in Building
    <3>1. proc'[q] \in Process
      BY <1>5, <1>8, KindsNext
    <3>2. proc[q] \in Process /\ (q = p \/ proc'[q] = proc[q])
      BY <1>1, <1>4, <3>1 DEF OthersStay
    <3>3. Works(q) /\ Owns(q)
      BY <1>1, <3>2, Kinds DEF PlaceInv
    <3>4. QED
      BY <1>1, <1>4, <3>2, <3>3, ProcessFields DEF Before, Building
  <2>2. /\ Staging(q, proc[q].key) \in Path /\ Entry(k) \in Path
        /\ Staging(q, proc[q].key) # Trash(p, k) /\ Staging(q, proc[q].key) # Entry(k)
    BY <1>1, <1>6, <2>1, Paths
  <2>3. disk'[Staging(q, proc[q].key)] = disk[Staging(q, proc[q].key)]
    BY <1>2, <2>2
  <2>4. proc[q].run # None
    BY <2>1, RunIds
  <2>5. CASE proc[q].pc \in Before
    BY <1>2, <1>3, <2>1, <2>2, <2>3, <2>4, <2>5 DEF Owns, Before, Building
  <2>6. CASE proc[q].pc \in Building
    BY <1>2, <1>3, <2>1, <2>2, <2>3, <2>4, <2>6 DEF Owns, Before, Building
  <2>7. CASE proc[q].pc \notin Before \cup Building
    BY <1>3, <2>1, <2>7 DEF Owns
  <2>8. QED
    BY <2>5, <2>6, <2>7
<1>9. \A q \in Pids : Owns(q)'
  BY <1>8 DEF Owns
<1>10. QED
  BY <1>1, <1>2, <1>3, <1>4, <1>5, <1>7, <1>9, PlaceStep

LEMMA OvertakenRuns ==
  ASSUME TypeOK, NEW p \in Pids
  PROVE  Overtaken(p) \subseteq Run
<1>1. ASSUME NEW q \in Live, proc[q].pc \in Checked
      PROVE  proc[q].run \in Run
  <2>1. proc[q] \in Process
    BY <1>1, Kinds DEF Live, Works, Checked
  <2>2. QED
    BY <2>1, ProcessFields
<1>2. QED
  BY <1>1 DEF Overtaken

LEMMA SwapPlaces ==
  ASSUME PlaceInv, NEW p \in Live, Publish(p), Swaps(p)
  PROVE  PlaceInv'
<1> DEFINE r == proc[p].run
           k == proc[p].key
<1>1. TypeOK /\ p \in Pids /\ Works(p) /\ proc[p] \in Process /\ proc[p].pc = "publish"
  BY Kinds DEF PlaceInv, Live, Works, Publish
<1>2. /\ disk' \in [Path -> Run \cup {None}]
      /\ tree' \in [Run -> Tree \cup {Empty}]
      /\ \A path \in Path : disk'[path] = IF path = Entry(k) THEN r
                                          ELSE IF path = Staging(p, k) THEN None
                                          ELSE disk[path]
      /\ Placed'
  BY <1>1, SwapFiles
<1>3. /\ Goto(p, "prune") /\ UNCHANGED <<source, dsc, clock, changes, kills, cut>>
      /\ unpruned' = unpruned \cup {r} /\ swapped' = (swapped \ {r}) \cup Overtaken(p)
  BY DEF Publish, Swaps
<1>4. /\ proc' \in [Pids -> AnyProcess] /\ OthersStay(p)
      /\ proc'[p] \in Process /\ proc'[p].pc = "prune"
      /\ proc'[p].run = r /\ proc'[p].key = k /\ proc'[p].removal = proc[p].removal
  BY <1>1, <1>3, GotoStep
<1>5. TypeOK'
  <2>1. unpruned' \subseteq Run
    BY <1>1, <1>3, ProcessFields DEF TypeOK
  <2>2. swapped' \subseteq Run
    <3>1. Overtaken(p) \subseteq Run
      BY <1>1, OvertakenRuns
    <3>2. swapped \subseteq Run
      BY <1>1 DEF TypeOK
    <3>3. QED
      BY <1>3, <3>1, <3>2
  <2>3. QED
    BY <1>1, <1>2, <1>3, <1>4, <2>1, <2>2, TypeStep
<1>6. Removes(p) /\ Owns(p) /\ r \in Run /\ k \in Keys
  BY <1>1, ProcessFields DEF PlaceInv
<1>7. Removes(p)'
  BY <1>1, <1>4, <1>6 DEF Removes
<1>8. Owns(p)'
  BY <1>1, <1>3, <1>4, <1>6 DEF Owns, Before, Building
<1>9. ASSUME NEW q \in Pids \ {p}
      PROVE  Owns(q)'
  <2>1. proc'[q] = proc[q]
    BY <1>4 DEF OthersStay
  <2>2. CASE proc[q] \notin Process
    <3>1. ~Works(q)'
      BY <1>5, <2>1, <2>2, KindsNext
    <3>2. QED
      BY <3>1 DEF Owns
  <2>3. CASE proc[q] \in Process
    <3>1. Works(q) /\ Owns(q) /\ proc[q].key \in Keys /\ proc[q].run # r /\ proc[q].run \in Run
      BY <1>1, <2>3, Kinds, ProcessFields DEF PlaceInv, RunsDiffer
    <3>2. /\ Staging(q, proc[q].key) \in Path /\ Staging(q, proc[q].key) # Staging(p, k)
          /\ Staging(q, proc[q].key) # Entry(k)
      BY <1>1, <1>6, <3>1, Paths
    <3>3. \A path \in Path : disk'[path] = proc[q].run => disk[path] = proc[q].run
      BY <1>2, <3>1, RunIds
    <3>4. disk'[Staging(q, proc[q].key)] = disk[Staging(q, proc[q].key)]
      BY <1>2, <3>2
    <3>5. QED
      BY <1>3, <2>1, <3>1, <3>3, <3>4 DEF Owns
  <2>4. QED
    BY <2>2, <2>3
<1>10. QED
  BY <1>1, <1>2, <1>3, <1>4, <1>5, <1>7, <1>8, <1>9, PlaceStep

(* A step that opens, empties or skips a directory.                        *)
LEMMA RemovalPlaces ==
  ASSUME PlaceInv, NEW p \in Live, proc[p].pc \in {"evict", "clear"},
         NEW removal \in Removal, proc' = [proc EXCEPT ![p].removal = removal],
         removal.todo \subseteq proc[p].removal.todo,
         "victim" \in DOMAIN removal =>
           removal.path \in proc[p].removal.todo \ removal.todo,
         UNCHANGED <<source, dsc, clock, changes, kills, unpruned, cut, swapped>>,
         disk' \in [Path -> Run \cup {None}],
         tree' \in [Run -> Tree \cup {Empty}],
         Placed',
         \A path \in Path : disk'[path] \in {None, disk[path]}
  PROVE  PlaceInv'
<1>1. /\ TypeOK /\ p \in Pids /\ Removes(p)
      /\ proc[p] \in Process \/ proc[p] \in Cleaner
  BY Kinds DEF PlaceInv, Live
<1>2. /\ proc' \in [Pids -> AnyProcess] /\ OthersStay(p)
      /\ proc[p] \in Process => /\ proc'[p] \in Process
                                /\ proc'[p].key = proc[p].key
                                /\ proc'[p].run = proc[p].run
      /\ proc[p] \in Cleaner => proc'[p] \in Cleaner
      /\ proc'[p].pc = proc[p].pc
      /\ proc'[p].removal = removal
  BY <1>1, RemovalStep
<1>3. TypeOK'
  BY <1>1, <1>2, TypeStep DEF TypeOK
<1>4. proc'[p] \in Process =>
        /\ proc[p] \in Process
        /\ proc'[p].run = proc[p].run /\ proc'[p].key = proc[p].key
        /\ proc'[p].pc \in Before => proc[p].pc \in Before
        /\ proc'[p].pc \in Building => proc[p].pc \in Building
  BY <1>1, <1>2, CleanerFields
<1>5. Removes(p)'
  <2>1. Works(p)' => Works(p)
    BY <1>1, <1>3, <1>4, Kinds, KindsNext
  <2>2. ASSUME Works(p)
        PROVE  /\ proc'[p].pc = "evict"
               /\ removal.todo \subseteq {Entry(k) : k \in Keys}
               /\ "victim" \in DOMAIN removal =>
                    removal.path \in {Entry(k) : k \in Keys} \ removal.todo
    <3>1. proc[p].pc = "evict"
      BY <2>2 DEF Works
    <3>2. proc[p].removal.todo \subseteq {Entry(k) : k \in Keys}
      BY <1>1, <2>2, <3>1 DEF Removes
    <3>3. QED
      BY ONLY <1>2, <3>1, <3>2, removal.todo \subseteq proc[p].removal.todo,
              "victim" \in DOMAIN removal => removal.path \in proc[p].removal.todo \ removal.todo
  <2>3. proc'[p].removal = removal
    BY <1>2
  <2>4. QED
    BY ONLY <2>1, <2>2, <2>3 DEF Removes, Opened
<1>6. QED
  BY <1>1, <1>2, <1>3, <1>4, <1>5, ShrinkingStep

LEMMA OpenPlaces ==
  ASSUME PlaceInv, NEW p \in Live, Open(p)
  PROVE  /\ PlaceInv'
         /\ \E path \in proc[p].removal.todo :
              LET todo == proc[p].removal.todo \ {path}
                  removal == IF disk[path] = None THEN [todo |-> todo]
                             ELSE [todo |-> todo, path |-> path, victim |-> disk[path]]
              IN  removal \in Removal /\ proc' = [proc EXCEPT ![p].removal = removal]
<1>1. /\ TypeOK /\ Placed /\ p \in Pids
      /\ proc[p].removal \in Removal /\ proc[p].removal.todo \subseteq Path
  BY Kinds, ProcessFields, CleanerFields, RemovalFields DEF PlaceInv, Live
<1>2. PICK path \in proc[p].removal.todo :
        LET rest == [todo |-> proc[p].removal.todo \ {path}]
        IN  proc' = [proc EXCEPT ![p].removal =
              IF disk[path] = None THEN rest
              ELSE [todo |-> rest.todo, path |-> path, victim |-> disk[path]]]
  BY DEF Open
<1> DEFINE todo == proc[p].removal.todo \ {path}
           removal == IF disk[path] = None THEN [todo |-> todo]
                      ELSE [todo |-> todo, path |-> path, victim |-> disk[path]]
<1>3. disk[path] \in Run \cup {None} /\ path \in Path /\ todo \in SUBSET Path
  BY <1>1 DEF TypeOK
<1>4. proc' = [proc EXCEPT ![p].removal = removal]
  BY <1>2
<1>5. /\ removal \in Removal
      /\ removal.todo = todo
      /\ "victim" \in DOMAIN removal => removal.path = path
  <2>1. CASE disk[path] = None
    BY <1>3, <2>1, Removals
  <2>2. CASE disk[path] # None
    BY <1>3, <2>2, Removals
  <2>3. QED
    BY <2>1, <2>2
<1>6. PlaceInv'
  <2>1. QuietFiles /\ UNCHANGED <<source, dsc, clock, changes, kills, unpruned, cut, swapped>>
    BY DEF Open, QuietFiles
  <2>2. Placed'
    <3>1. clock' \in Nat /\ clock <= clock'
      BY <1>1, <2>1, ConstantsAssumption DEF TypeOK
    <3>2. QED
      BY <1>1, <2>1, <3>1, QuietPlaces
  <2>3. proc[p].pc \in {"evict", "clear"}
    BY DEF Open
  <2>4. removal.todo \subseteq proc[p].removal.todo
    BY <1>5
  <2>5. "victim" \in DOMAIN removal => removal.path \in proc[p].removal.todo \ removal.todo
    BY <1>5
  <2>6. disk' \in [Path -> Run \cup {None}] /\ tree' \in [Run -> Tree \cup {Empty}]
    BY <1>1, <2>1 DEF TypeOK, QuietFiles
  <2>7. \A other \in Path : disk'[other] \in {None, disk[other]}
    BY <2>1 DEF QuietFiles
  <2> HIDE DEF removal
  <2>8. QED
    BY <1>4, <1>5, <2>1, <2>2, <2>3, <2>4, <2>5, <2>6, <2>7, RemovalPlaces
<1>7. QED
  BY <1>4, <1>5, <1>6

(* What an rmdir leaves to remove.                                         *)
LEMMA RmdirStep ==
  ASSUME PlaceInv, NEW p \in Live, Rmdir(p)
  PROVE  /\ \E removal \in {Nothing, [todo |-> proc[p].removal.todo]} :
              /\ removal \in Removal
              /\ proc' = [proc EXCEPT ![p].removal = removal]
              /\ removal.todo \subseteq proc[p].removal.todo
              /\ "victim" \notin DOMAIN removal
              /\ proc[p].pc = "evict" => removal = [todo |-> proc[p].removal.todo]
         /\ proc[p].pc \in {"evict", "clear"}
<1>1. /\ TypeOK /\ p \in Pids /\ Removes(p)
      /\ proc[p].removal \in Removal /\ proc[p].removal.todo \subseteq Path
  BY Kinds, ProcessFields, CleanerFields, RemovalFields DEF PlaceInv, Live
<1> DEFINE kept == [todo |-> proc[p].removal.todo]
           removal == IF PartsAt(proc[p].removal.path) # {} /\ proc[p].pc = "clear"
                      THEN Nothing ELSE kept
<1>2. proc' = [proc EXCEPT ![p].removal = removal]
  BY DEF Rmdir
<1>3. kept \in Removal /\ "victim" \notin DOMAIN kept /\ kept.todo \subseteq proc[p].removal.todo
  BY <1>1, Removals
<1>4. Nothing \in Removal /\ "victim" \notin DOMAIN Nothing /\ Nothing.todo = {}
  BY Removals, RemovalFields
<1>5. proc[p].pc \in {"evict", "clear"}
  <2>1. CASE proc[p] \in Process
    <3>1. proc[p].pc = "evict" \/ proc[p].removal = Nothing
      BY <1>1, <2>1, Kinds DEF Removes
    <3>2. proc[p].removal # Nothing
      BY <1>4 DEF Rmdir, Opened
    <3>3. QED
      BY <3>1, <3>2
  <2>2. CASE proc[p] \in Cleaner
    BY <2>2, CleanerFields
  <2>3. QED
    BY <1>1, <2>1, <2>2, Kinds
<1> HIDE DEF kept
<1>6. removal \in {Nothing, kept} /\ (proc[p].pc = "evict" => removal = kept)
  OBVIOUS
<1> HIDE DEF removal
<1>7. QED
  BY <1>2, <1>3, <1>4, <1>5, <1>6 DEF kept

LEMMA RmdirPlaces ==
  ASSUME PlaceInv, NEW p \in Live, Rmdir(p)
  PROVE  PlaceInv'
<1>1. PICK removal \in {Nothing, [todo |-> proc[p].removal.todo]} :
        /\ removal \in Removal
        /\ proc' = [proc EXCEPT ![p].removal = removal]
        /\ removal.todo \subseteq proc[p].removal.todo
        /\ "victim" \notin DOMAIN removal
  BY RmdirStep
<1>2. proc[p].pc \in {"evict", "clear"}
  BY RmdirStep
<1>3. UNCHANGED <<source, dsc, clock, changes, kills, unpruned, cut, swapped>>
  BY DEF Rmdir
<1>4. TypeOK /\ Placed
  BY DEF PlaceInv
<1>5. /\ disk' \in [Path -> Run \cup {None}]
      /\ tree' \in [Run -> Tree \cup {Empty}]
      /\ Placed'
      /\ \A path \in Path : disk'[path] \in {None, disk[path]}
  <2>1. CASE QuietFiles
    <3>1. clock' \in Nat /\ clock <= clock'
      BY <1>3, <1>4, ConstantsAssumption DEF TypeOK
    <3>2. Placed'
      BY <1>4, <2>1, <3>1, QuietPlaces
    <3>3. QED
      BY <1>4, <2>1, <3>2 DEF TypeOK, QuietFiles
  <2>2. CASE Drop({proc[p].removal.path})
    <3>1. {proc[p].removal.path} \in SUBSET Path
      BY RmdirFiles
    <3>2. QED
      BY <1>3, <1>4, <2>2, <3>1, Dropping
  <2>3. QED
    BY <2>1, <2>2, RmdirFiles
<1>6. QED
  BY <1>1, <1>2, <1>3, <1>5, RemovalPlaces

LEMMA UnlinkPlaces ==
  ASSUME PlaceInv, NEW p \in Live, Unlink(p)
  PROVE  PlaceInv'
<1>1. disk' = disk /\ tree' \in [Run -> Tree \cup {Empty}] /\ Placed'
  BY UnlinkFiles
<1>2. UNCHANGED <<source, dsc, proc, clock, changes, kills, unpruned, cut, swapped>>
  BY DEF Unlink
<1>3. TypeOK'
  BY <1>1, <1>2, TypeStep DEF PlaceInv, TypeOK, AnyProcess
<1>4. QED
  BY <1>1, <1>2, <1>3 DEF PlaceInv, RunsDiffer, Removes, Owns, Works, Live, Opened

(* prune_loose has listed the entries.                                     *)
Listed == [todo |-> {Entry(k) : k \in Evicted}]

LEMMA ListStep ==
  ASSUME TypeOK, NEW p \in Pids, proc[p] \in Process, List(p)
  PROVE  /\ proc' \in [Pids -> AnyProcess]
         /\ proc'[p] \in Process
         /\ proc'[p].pc = "evict" /\ proc'[p].removal = Listed
         /\ proc'[p].file = proc[p].file /\ proc'[p].key = proc[p].key
         /\ proc'[p].dsc = proc[p].dsc /\ proc'[p].run = proc[p].run
         /\ proc'[p].steady = proc[p].steady /\ proc'[p].alone = proc[p].alone
         /\ OthersStay(p)
         /\ Listed.todo \subseteq {Entry(k) : k \in Keys} /\ "victim" \notin DOMAIN Listed
<1> DEFINE first == [proc[p] EXCEPT !.pc = "evict"]
           new == [first EXCEPT !.removal = Listed]
<1>1. Listed.todo \subseteq {Entry(k) : k \in Keys} /\ "victim" \notin DOMAIN Listed
  BY DEF Listed, Evicted, Present
<1>2. Listed \in Removal
  <2>1. {Entry(k) : k \in Evicted} \in SUBSET Path
    BY EntryPaths DEF Evicted, Present
  <2>2. QED
    BY <2>1, Removals DEF Listed
<1>3. proc \in [Pids -> AnyProcess]
  BY DEF TypeOK, AnyProcess
<1>4. proc' = [proc EXCEPT ![p].pc = "evict", ![p].removal = Listed]
  BY DEF List, Listed
<1>5. proc' = [proc EXCEPT ![p] = new]
  BY <1>3, <1>4
<1>6. /\ new \in Process /\ new.pc = "evict" /\ new.removal = Listed
      /\ new.file = proc[p].file /\ new.key = proc[p].key
      /\ new.dsc = proc[p].dsc /\ new.run = proc[p].run
      /\ new.steady = proc[p].steady /\ new.alone = proc[p].alone
  BY <1>2 DEF Process
<1> HIDE DEF new
<1>7. proc'[p] = new /\ OthersStay(p) /\ proc' \in [Pids -> AnyProcess]
  BY <1>3, <1>5, <1>6 DEF AnyProcess, OthersStay
<1>8. QED
  BY <1>1, <1>6, <1>7

LEMMA ListPlaces ==
  ASSUME PlaceInv, NEW p \in Live, Works(p), List(p)
  PROVE  PlaceInv'
<1>1. TypeOK /\ Placed /\ p \in Pids /\ proc[p] \in Process
  BY Kinds DEF PlaceInv, Live
<1>2. /\ proc' \in [Pids -> AnyProcess]
      /\ proc'[p] \in Process
      /\ proc'[p].pc = "evict" /\ proc'[p].removal = Listed
      /\ proc'[p].key = proc[p].key /\ proc'[p].run = proc[p].run
      /\ OthersStay(p)
      /\ Listed.todo \subseteq {Entry(k) : k \in Keys} /\ "victim" \notin DOMAIN Listed
  BY <1>1, ListStep
<1>3. UNCHANGED <<source, dsc, clock, changes, kills, unpruned, cut, swapped>>
  BY DEF List
<1>4. {Trash(p, proc[p].key)} \in SUBSET Path
  BY <1>1, ProcessFields, Paths
<1>5. Drop({Trash(p, proc[p].key)})
  BY <1>1, DropFiles
<1>6. /\ disk' \in [Path -> Run \cup {None}]
      /\ tree' \in [Run -> Tree \cup {Empty}]
      /\ Placed'
      /\ \A path \in Path : disk'[path] \in {None, disk[path]}
  BY <1>1, <1>3, <1>4, <1>5, Dropping
<1>7. TypeOK'
  BY <1>1, <1>2, <1>3, <1>6, TypeStep DEF TypeOK
<1>8. Removes(p)'
  BY <1>2 DEF Removes, Opened
<1>9. QED
  BY <1>1, <1>2, <1>3, <1>6, <1>7, <1>8, ShrinkingStep DEF Before, Building

LEMMA EndPlaces ==
  ASSUME PlaceInv, NEW p \in Live, proc' = [proc EXCEPT ![p] = Idle],
         UNCHANGED <<source, dsc, clock, changes>>,
         kills' \in 0 .. MaxKills, cut' \subseteq Run, unpruned' \subseteq Run, swapped' \subseteq Run,
         disk' \in [Path -> Run \cup {None}],
         tree' \in [Run -> Tree \cup {Empty}],
         Placed',
         \A path \in Path : disk'[path] \in {None, disk[path]}
  PROVE  PlaceInv'
<1>1. TypeOK /\ p \in Pids
  BY DEF PlaceInv, Live
<1>2. proc' \in [Pids -> AnyProcess] /\ proc'[p] = Idle /\ OthersStay(p)
  BY <1>1, EndStep
<1>3. TypeOK'
  BY <1>1, <1>2 DEF TypeOK, AnyProcess
<1>4. Removes(p)' /\ proc'[p] \notin Process
  BY <1>2, <1>3, <1>1, KindsNext, IdleFields DEF Removes
<1>5. QED
  BY <1>2, <1>3, <1>4, ShrinkingStep

(* Steps after which every other process is as before, but for its flags.  *)
Alike(q) ==
  /\ proc[q] \in Process => /\ proc'[q] \in Process
                            /\ proc'[q].pc = proc[q].pc
                            /\ proc'[q].file = proc[q].file
                            /\ proc'[q].key = proc[q].key
                            /\ proc'[q].dsc = proc[q].dsc
                            /\ proc'[q].run = proc[q].run
                            /\ proc'[q].removal = proc[q].removal
  /\ proc[q] \in Cleaner => /\ proc'[q] \in Cleaner
                            /\ proc'[q].removal = proc[q].removal
  /\ proc[q] = Idle => proc'[q] = Idle

LEMMA StartStep ==
  ASSUME TypeOK, NEW p \in Pids, NEW what \in Process \cup Cleaner, Start(p, what)
  PROVE  /\ proc' \in [Pids -> AnyProcess]
         /\ proc[p] = Idle /\ proc'[p] = what
         /\ \A q \in Pids \ {p} : /\ Alike(q)
                                  /\ q \in Live => /\ ~proc'[q].alone
                                                   /\ proc'[q].steady = proc[q].steady
         /\ clock' = clock + 1 /\ clock' \in Run /\ clock \in Nat
<1>1. clock' = clock + 1 /\ clock' \in Run /\ clock \in Nat
  BY ConstantsAssumption DEF TypeOK, Start, Run
<1>2. proc' = [q \in Pids |-> IF q = p THEN what
                              ELSE IF q \in Live THEN [proc[q] EXCEPT !.alone = FALSE] ELSE Idle]
  BY DEF Start
<1>3. proc[p] = Idle /\ proc'[p] = what
  BY <1>2 DEF Start, Live
<1>4. ASSUME NEW q \in Pids \ {p}
      PROVE  /\ proc'[q] \in AnyProcess
             /\ Alike(q)
             /\ q \in Live => ~proc'[q].alone /\ proc'[q].steady = proc[q].steady
  <2> DEFINE new == [proc[q] EXCEPT !.alone = FALSE]
  <2>1. CASE proc[q] \in Process
    <3>1. proc'[q] = new
      BY <1>2, <2>1, ProcessFields DEF Live
    <3>2. /\ new \in Process /\ new.pc = proc[q].pc /\ new.alone = FALSE
          /\ new.file = proc[q].file /\ new.key = proc[q].key
          /\ new.dsc = proc[q].dsc /\ new.run = proc[q].run
          /\ new.removal = proc[q].removal /\ new.steady = proc[q].steady
      BY <2>1 DEF Process
    <3> HIDE DEF new
    <3>3. QED
      BY <2>1, <3>1, <3>2, ProcessFields DEF Alike, AnyProcess
  <2>2. CASE proc[q] \in Cleaner
    <3>1. proc'[q] = new
      BY <1>2, <2>2, Kinds, CleanerFields
    <3>2. /\ new \in Cleaner /\ new.alone = FALSE
          /\ new.removal = proc[q].removal /\ new.steady = proc[q].steady
      BY <2>2 DEF Cleaner
    <3> HIDE DEF new
    <3>3. QED
      BY <2>2, <3>1, <3>2, CleanerFields DEF Alike, AnyProcess
  <2>3. CASE proc[q] = Idle
    <3>1. proc'[q] = Idle /\ q \notin Live
      BY <1>2, <2>3 DEF Live
    <3>2. QED
      BY <2>3, <3>1, IdleFields DEF Alike, AnyProcess
  <2>4. QED
    BY <2>1, <2>2, <2>3, Kinds
<1>5. \A q \in Pids : proc'[q] \in AnyProcess
  BY <1>3, <1>4 DEF AnyProcess
<1>6. proc' \in [Pids -> AnyProcess]
  BY <1>2, <1>5
<1>7. QED
  BY <1>1, <1>3, <1>4, <1>6

LEMMA ChangeStep ==
  ASSUME TypeOK, Change
  PROVE  /\ proc' \in [Pids -> AnyProcess]
         /\ \A q \in Pids : /\ Alike(q)
                            /\ q \in Live => /\ ~proc'[q].steady
                                             /\ proc'[q].alone = proc[q].alone
         /\ source' \in [Files -> Keys] /\ dsc' \in Compilers
<1>1. source' \in [Files -> Keys] /\ dsc' \in Compilers
  BY DEF TypeOK, Change
<1>2. proc' = [q \in Pids |-> IF q \in Live THEN [proc[q] EXCEPT !.steady = FALSE] ELSE Idle]
  BY DEF Change
<1>3. ASSUME NEW q \in Pids
      PROVE  /\ proc'[q] \in AnyProcess
             /\ Alike(q)
             /\ q \in Live => ~proc'[q].steady /\ proc'[q].alone = proc[q].alone
  <2> DEFINE new == [proc[q] EXCEPT !.steady = FALSE]
  <2>1. CASE proc[q] \in Process
    <3>1. proc'[q] = new
      BY <1>2, <2>1, ProcessFields DEF Live
    <3>2. /\ new \in Process /\ new.pc = proc[q].pc /\ new.alone = proc[q].alone
          /\ new.file = proc[q].file /\ new.key = proc[q].key
          /\ new.dsc = proc[q].dsc /\ new.run = proc[q].run
          /\ new.removal = proc[q].removal /\ new.steady = FALSE
      BY <2>1 DEF Process
    <3> HIDE DEF new
    <3>3. QED
      BY <2>1, <3>1, <3>2, ProcessFields DEF Alike, AnyProcess
  <2>2. CASE proc[q] \in Cleaner
    <3>1. proc'[q] = new
      BY <1>2, <2>2, Kinds, CleanerFields
    <3>2. /\ new \in Cleaner /\ new.alone = proc[q].alone
          /\ new.removal = proc[q].removal /\ new.steady = FALSE
      BY <2>2 DEF Cleaner
    <3> HIDE DEF new
    <3>3. QED
      BY <2>2, <3>1, <3>2, CleanerFields DEF Alike, AnyProcess
  <2>3. CASE proc[q] = Idle
    <3>1. proc'[q] = Idle /\ q \notin Live
      BY <1>2, <2>3 DEF Live
    <3>2. QED
      BY <2>3, <3>1, IdleFields DEF Alike, AnyProcess
  <2>4. QED
    BY <2>1, <2>2, <2>3, Kinds
<1>4. proc' \in [Pids -> AnyProcess]
  BY <1>2, <1>3
<1>5. QED
  BY <1>1, <1>3, <1>4

LEMMA AlikePlaces ==
  ASSUME PlaceInv, TypeOK', NEW q \in Pids, Alike(q), disk' = disk, clock' \in Nat, clock <= clock'
  PROVE  /\ Removes(q)' /\ Owns(q)'
         /\ Works(q)' <=> Works(q)
         /\ (q \in Live)' <=> q \in Live
<1>1. TypeOK /\ Removes(q) /\ Owns(q) /\ clock \in Nat
  BY ConstantsAssumption DEF PlaceInv, TypeOK
<1>2. (Works(q)' <=> Works(q)) /\ ((q \in Live)' <=> q \in Live)
  BY <1>1, Kinds, KindsNext, ProcessFields, CleanerFields, IdleFields DEF Alike
<1>3. Removes(q)'
  BY <1>1, <1>2, Kinds DEF Alike, Removes, Opened
<1>4. Works(q) => proc[q].run \in Nat
  BY <1>1, Kinds, ProcessFields, RunIds
<1>5. Owns(q)'
  BY <1>1, <1>2, <1>4, Kinds DEF Alike, Owns
<1>6. QED
  BY <1>2, <1>3, <1>5

LEMMA BeginPlaces ==
  ASSUME PlaceInv, NEW p \in Pids, NEW f \in Files, Begin(p, f)
  PROVE  PlaceInv'
<1> DEFINE what == [pc |-> "check", file |-> f, key |-> ContentKey(f), dsc |-> dsc,
                    run |-> clock + 1, removal |-> Nothing,
                    steady |-> TRUE, alone |-> Live = {}]
<1>1. TypeOK /\ Placed
  BY DEF PlaceInv
<1>2. Start(p, what) /\ UNCHANGED <<source, dsc, disk, tree, changes, kills, unpruned, cut, swapped>>
  BY DEF Begin
<1>3. clock + 1 \in Run
  BY <1>1, <1>2, ConstantsAssumption DEF TypeOK, Start, Run
<1>4. what \in Process
  BY <1>1, <1>3, Removals DEF Process, TypeOK, ContentKey
<1>5. /\ what.pc = "check" /\ what.run = clock + 1 /\ what.removal = Nothing
  OBVIOUS
<1> HIDE DEF what
<1>6. /\ proc' \in [Pids -> AnyProcess]
      /\ proc'[p] = what
      /\ \A q \in Pids \ {p} : Alike(q)
      /\ clock' = clock + 1 /\ clock' \in Run /\ clock \in Nat
  BY <1>1, <1>2, <1>4, StartStep
<1>7. TypeOK'
  BY <1>1, <1>2, <1>6, RunIds DEF TypeOK, AnyProcess, Run
<1>8. clock' \in Nat /\ clock <= clock'
  BY <1>6
<1>9. \A q \in Pids \ {p} : Removes(q)' /\ Owns(q)' /\ (Works(q)' <=> Works(q))
  BY <1>2, <1>6, <1>7, <1>8, AlikePlaces
<1>10. Placed'
  BY <1>1, <1>2, <1>8, QuietPlaces DEF QuietFiles
<1>11. Removes(p)' /\ Owns(p)'
  <2>1. Removes(p)'
    BY <1>5, <1>6 DEF Removes
  <2>2. \A path \in Path : disk[path] # clock + 1
    BY <1>1, <1>6 DEF Placed, TypeOK, None
  <2>3. proc'[p].run <= clock'
    BY <1>5, <1>6
  <2>4. QED
    BY <1>2, <1>5, <1>6, <2>1, <2>2, <2>3 DEF Owns, Before, Building
<1>12. RunsDiffer'
  <2>1. ASSUME NEW q \in Pids \ {p}, Works(q)'
        PROVE  Works(q) /\ proc'[q].run = proc[q].run /\ proc'[q].run # clock + 1
    <3>1. Works(q) /\ proc[q] \in Process /\ Owns(q)
      BY <1>1, <1>9, <2>1, Kinds DEF PlaceInv
    <3>2. proc[q].run <= clock /\ proc[q].run \in Nat /\ proc'[q].run = proc[q].run
      BY <1>6, <3>1, ProcessFields, RunIds DEF Owns, Alike
    <3>3. QED
      BY <1>6, <3>1, <3>2
  <2>2. ASSUME NEW q \in Pids, NEW o \in Pids, Works(q)', Works(o)', proc'[q].run = proc'[o].run
        PROVE  q = o
    <3>1. proc'[p].run = clock + 1
      BY <1>5, <1>6
    <3>2. CASE q # p /\ o # p
      BY <2>1, <2>2, <3>2 DEF PlaceInv, RunsDiffer
    <3>3. CASE q = p \/ o = p
      BY <2>1, <2>2, <3>1, <3>3
    <3>4. QED
      BY <3>2, <3>3
  <2>3. QED
    BY <2>2 DEF RunsDiffer
<1>13. (clock = 0 => Live = {})'
  BY <1>6, RunIds
<1>14. QED
  BY <1>7, <1>9, <1>10, <1>11, <1>12, <1>13 DEF PlaceInv

LEMMA ClearPlaces ==
  ASSUME PlaceInv, NEW p \in Pids, Clear(p)
  PROVE  PlaceInv'
<1> DEFINE todo == {path \in Path : disk[path] # None}
           what == [pc |-> "clear", removal |-> [todo |-> todo],
                    steady |-> TRUE, alone |-> Live = {}]
<1>1. TypeOK /\ Placed
  BY DEF PlaceInv
<1>2. Start(p, what) /\ UNCHANGED <<source, dsc, disk, tree, changes, kills, unpruned, cut, swapped>>
  BY DEF Clear
<1>3. what \in Cleaner
  BY Removals DEF Cleaner
<1> HIDE DEF what
<1>4. /\ proc' \in [Pids -> AnyProcess]
      /\ proc'[p] = what
      /\ \A q \in Pids \ {p} : Alike(q)
      /\ clock' = clock + 1 /\ clock' \in Run /\ clock \in Nat
  BY <1>1, <1>2, <1>3, StartStep
<1>5. TypeOK'
  BY <1>1, <1>2, <1>4, RunIds DEF TypeOK, AnyProcess, Run
<1>6. clock' \in Nat /\ clock <= clock'
  BY <1>4
<1>7. \A q \in Pids \ {p} : Removes(q)' /\ Owns(q)' /\ (Works(q)' <=> Works(q))
  BY <1>2, <1>4, <1>5, <1>6, AlikePlaces
<1>8. Placed'
  BY <1>1, <1>2, <1>6, QuietPlaces DEF QuietFiles
<1>9. ~Works(p)'
  BY <1>3, <1>4, <1>5, KindsNext, CleanerFields
<1>10. RunsDiffer'
  <2>1. ASSUME NEW q \in Pids, Works(q)'
        PROVE  Works(q) /\ proc'[q].run = proc[q].run
    <3>1. q # p /\ Works(q) /\ proc[q] \in Process
      BY <1>1, <1>7, <1>9, <2>1, Kinds
    <3>2. QED
      BY <1>4, <3>1 DEF Alike
  <2>2. QED
    BY <2>1 DEF PlaceInv, RunsDiffer
<1>11. (clock = 0 => Live = {})'
  BY <1>4, RunIds
<1>12. QED
  BY <1>5, <1>7, <1>8, <1>9, <1>10, <1>11 DEF PlaceInv, Removes, Owns

LEMMA ChangePlaces ==
  ASSUME PlaceInv, Change
  PROVE  PlaceInv'
<1>1. TypeOK /\ Placed
  BY DEF PlaceInv
<1>2. UNCHANGED <<disk, tree, clock, kills, unpruned, cut, swapped>>
  BY DEF Change
<1>3. /\ proc' \in [Pids -> AnyProcess]
      /\ \A q \in Pids : Alike(q)
      /\ source' \in [Files -> Keys] /\ dsc' \in Compilers
  BY <1>1, ChangeStep
<1>4. changes' \in 0 .. MaxChanges
  BY <1>1, ConstantsAssumption DEF TypeOK, Change
<1>5. TypeOK'
  BY <1>1, <1>2, <1>3, <1>4 DEF TypeOK, AnyProcess
<1>6. clock' \in Nat /\ clock <= clock'
  BY <1>1, <1>2, ConstantsAssumption DEF TypeOK
<1>7. \A q \in Pids : /\ Removes(q)' /\ Owns(q)' /\ (Works(q)' <=> Works(q))
                      /\ (q \in Live)' <=> q \in Live
  BY <1>2, <1>3, <1>5, <1>6, AlikePlaces
<1>8. Placed'
  BY <1>1, <1>2, <1>6, QuietPlaces DEF QuietFiles
<1>9. RunsDiffer'
  <2>1. ASSUME NEW q \in Pids, Works(q)'
        PROVE  Works(q) /\ proc'[q].run = proc[q].run
    <3>1. Works(q) /\ proc[q] \in Process
      BY <1>1, <1>7, <2>1, Kinds
    <3>2. QED
      BY <1>3, <3>1 DEF Alike
  <2>2. QED
    BY <2>1 DEF PlaceInv, RunsDiffer
<1>10. (clock = 0 => Live = {})'
  BY <1>2, <1>7 DEF PlaceInv, Live
<1>11. QED
  BY <1>5, <1>7, <1>8, <1>9, <1>10 DEF PlaceInv

(* Every step of Next keeps PlaceInv.                                      *)
LEMMA NextPlaces ==
  PlaceInv /\ [Next]_vars => PlaceInv'
<1> SUFFICES ASSUME PlaceInv, [Next]_vars
             PROVE  PlaceInv'
  OBVIOUS
<1>1. TypeOK /\ Placed /\ clock \in Nat
  BY ConstantsAssumption DEF PlaceInv, TypeOK
<1>2. ASSUME NEW p \in Live, NEW pc, Goto(p, pc), QuietFiles, Works(p),
             pc \in {"check", "read", "locate", "compile", "meta", "aside", "publish",
                     "prune", "execute", "failed"},
             proc[p].pc # "evict" \/ proc[p].removal = Nothing,
             pc \in Before => proc[p].pc \in Before,
             pc \in Building => proc[p].pc \in Building,
             UNCHANGED <<source, dsc, clock, changes, kills, cut>>,
             unpruned' \subseteq Run, swapped' \subseteq Run
      PROVE  PlaceInv'
  <2>1. clock' \in Nat /\ clock <= clock'
    BY <1>1, <1>2
  <2>2. Placed'
    BY <1>1, <1>2, <2>1, QuietPlaces
  <2>3. /\ disk' \in [Path -> Run \cup {None}] /\ tree' \in [Run -> Tree \cup {Empty}]
        /\ \A path \in Path : disk'[path] \in {None, disk[path]}
    BY <1>1, <1>2 DEF TypeOK, QuietFiles
  <2>4. QED
    BY <1>2, <2>2, <2>3, GoPlaces
<1>3. unpruned \subseteq Run /\ swapped \subseteq Run
  BY <1>1 DEF TypeOK
<1>4. ASSUME NEW p \in Pids, NEW f \in Files, Begin(p, f)
      PROVE  PlaceInv'
  BY <1>4, BeginPlaces
<1>5. ASSUME NEW p \in Pids, Clear(p)
      PROVE  PlaceInv'
  BY <1>5, ClearPlaces
<1>6. ASSUME NEW p \in Live, Step(p)
      PROVE  PlaceInv'
  <2>1. p \in Pids
    BY DEF Live
  <2>2. CASE CheckMeta(p)
    BY <1>2, <1>3, <2>2 DEF CheckMeta, QuietFiles, Works, Before, Building
  <2>3. CASE ReadMeta(p)
    BY <1>2, <1>3, <2>3 DEF ReadMeta, QuietFiles, Works, Before, Building
  <2>4. CASE Locate(p)
    BY <1>2, <1>3, <2>4 DEF Locate, QuietFiles, Works, Before, Building
  <2>5. CASE Compile(p)
    BY <2>5, CompilePlaces
  <2>6. CASE CompileFails(p)
    <3>1. Works(p) /\ proc[p] \in Process
      BY <1>1, <2>1, <2>6, Kinds DEF CompileFails, Works
    <3>2. {Staging(p, proc[p].key)} \in SUBSET Path
      BY <2>1, <3>1, ProcessFields, Paths
    <3>3. Drop({Staging(p, proc[p].key)})
      BY <2>1, <2>6, <3>1, DropFiles
    <3>4. UNCHANGED <<source, dsc, clock, changes, kills, unpruned, cut, swapped>>
      BY <2>6 DEF CompileFails
    <3>5. /\ disk' \in [Path -> Run \cup {None}] /\ tree' \in [Run -> Tree \cup {Empty}]
          /\ Placed'
          /\ \A path \in Path : disk'[path] \in {None, disk[path]}
      BY <1>1, <3>2, <3>3, <3>4, Dropping
    <3>6. proc' = [proc EXCEPT ![p] = Idle]
      BY <2>6 DEF CompileFails
    <3>7. QED
      BY <1>1, <3>4, <3>5, <3>6, EndPlaces DEF TypeOK
  <2>7. CASE WriteMeta(p)
    <3>1. CASE disk[Staging(p, proc[p].key)] = None
      BY <1>2, <1>3, <2>7, <3>1 DEF WriteMeta, QuietFiles, Works, Before, Building
    <3>2. CASE disk[Staging(p, proc[p].key)] # None
      <4>1. Works(p)
        BY <2>7 DEF WriteMeta, Works
      <4>2. disk' = disk /\ tree' \in [Run -> Tree \cup {Empty}] /\ Placed'
        BY <2>1, <2>7, <3>2, <4>1, WriteMetaFiles
      <4>3. /\ Goto(p, "aside") /\ proc[p].pc = "meta"
            /\ UNCHANGED <<source, dsc, clock, changes, kills, unpruned, cut, swapped>>
        BY <2>7, <3>2 DEF WriteMeta
      <4>4. QED
        BY <1>1, <1>3, <4>1, <4>2, <4>3, GoPlaces DEF Before, Building, TypeOK
    <3>3. QED
      BY <3>1, <3>2
  <2>8. CASE MoveAside(p)
    BY <2>8, MoveAsidePlaces
  <2>9. CASE Publish(p)
    <3>1. CASE Swaps(p)
      BY <2>9, <3>1, SwapPlaces
    <3>2. CASE ~Swaps(p)
      <4>1. Works(p) /\ proc[p] \in Process
        BY <1>1, <2>1, <2>9, Kinds DEF Publish, Works
      <4>2. {Staging(p, proc[p].key), Trash(p, proc[p].key)} \in SUBSET Path
        BY <2>1, <4>1, ProcessFields, Paths
      <4>3. Drop({Staging(p, proc[p].key), Trash(p, proc[p].key)})
        BY <2>1, <2>9, <3>2, <4>1, DropFiles
      <4>4. /\ Goto(p, "failed") /\ proc[p].pc = "publish"
            /\ UNCHANGED <<source, dsc, clock, changes, kills, unpruned, cut, swapped>>
        BY <2>9, <3>2 DEF Publish, Swaps
      <4>5. /\ disk' \in [Path -> Run \cup {None}] /\ tree' \in [Run -> Tree \cup {Empty}]
            /\ Placed'
            /\ \A path \in Path : disk'[path] \in {None, disk[path]}
        BY <1>1, <4>2, <4>3, <4>4, Dropping
      <4>6. QED
        BY <1>3, <4>1, <4>4, <4>5, GoPlaces DEF Before, Building
    <3>3. QED
      BY <3>1, <3>2
  <2>10. CASE List(p)
    <3>1. Works(p)
      BY <2>10 DEF List, Works
    <3>2. QED
      BY <2>10, <3>1, ListPlaces
  <2>11. CASE ListFails(p)
    BY <1>2, <1>3, <2>11 DEF ListFails, QuietFiles, Works, Before, Building
  <2>12. CASE Open(p)
    BY <2>12, OpenPlaces
  <2>13. CASE Unlink(p)
    BY <2>13, UnlinkPlaces
  <2>14. CASE Rmdir(p)
    BY <2>14, RmdirPlaces
  <2>15. CASE Removed(p)
    <3>1. QuietFiles /\ UNCHANGED <<source, dsc, clock, changes, kills, cut, swapped>>
      BY <2>15 DEF Removed, QuietFiles
    <3>2. Placed' /\ disk' \in [Path -> Run \cup {None}] /\ tree' \in [Run -> Tree \cup {Empty}]
      BY <1>1, <3>1, QuietPlaces DEF TypeOK, QuietFiles
    <3>3. CASE proc[p].pc = "clear"
      <4>1. proc' = [proc EXCEPT ![p] = Idle] /\ unpruned' = unpruned
        BY <2>15, <3>3 DEF Removed
      <4>2. QED
        BY <1>1, <1>3, <3>1, <3>2, <4>1, EndPlaces DEF TypeOK, QuietFiles
    <3>4. CASE proc[p].pc = "evict"
      <4>1. /\ Goto(p, "execute") /\ unpruned' \subseteq Run /\ proc[p].removal = Nothing
        BY <1>3, <2>15, <3>4 DEF Removed
      <4>2. QED
        BY <1>2, <1>3, <3>1, <3>4, <4>1 DEF Works, Before, Building
    <3>5. QED
      BY <2>15, <3>3, <3>4 DEF Removed
  <2>16. QED
    BY <1>6, <2>2, <2>3, <2>4, <2>5, <2>6, <2>7, <2>8, <2>9, <2>10, <2>11, <2>12, <2>13,
       <2>14, <2>15 DEF Step
<1>7. ASSUME NEW p \in Live, QuietFiles, proc' = [proc EXCEPT ![p] = Idle],
             UNCHANGED <<source, dsc, clock, changes, unpruned, swapped>>,
             kills' \in 0 .. MaxKills, cut' \subseteq Run
      PROVE  PlaceInv'
  <2>1. Placed' /\ disk' \in [Path -> Run \cup {None}] /\ tree' \in [Run -> Tree \cup {Empty}]
    BY <1>1, <1>7, QuietPlaces DEF TypeOK, QuietFiles
  <2>2. QED
    BY <1>3, <1>7, <2>1, EndPlaces DEF QuietFiles
<1>8. ASSUME NEW p \in Pids, Exit(p)
      PROVE  PlaceInv'
  BY <1>1, <1>7, <1>8 DEF Exit, QuietFiles, TypeOK
<1>9. ASSUME NEW p \in Pids, Kill(p)
      PROVE  PlaceInv'
  <2>1. /\ p \in Live /\ QuietFiles /\ proc' = [proc EXCEPT ![p] = Idle]
        /\ UNCHANGED <<source, dsc, clock, changes, unpruned, swapped>>
    BY <1>9 DEF Kill, QuietFiles
  <2>2. kills' \in 0 .. MaxKills
    BY <1>1, <1>9, ConstantsAssumption DEF Kill, TypeOK
  <2>3. cut' \subseteq Run
    <3>1. Opened(p) => proc[p].removal.victim \in Run
      BY <1>1, <2>1, Kinds, ProcessFields, CleanerFields, RemovalFields DEF Opened
    <3>2. QED
      BY <1>1, <1>9, <3>1 DEF Kill, TypeOK
  <2>4. QED
    BY <1>7, <2>1, <2>2, <2>3
<1>10. CASE Change
  BY <1>10, ChangePlaces
<1>11. CASE UNCHANGED vars
  BY <1>11 DEF vars, PlaceInv, TypeOK, Placed, RunsDiffer, Removes, Owns, Works, Live, Opened
<1>12. QED
  BY <1>4, <1>5, <1>6, <1>8, <1>9, <1>10, <1>11 DEF Next

LEMMA InitPlaces ==
  Init => PlaceInv
<1> SUFFICES ASSUME Init
             PROVE  PlaceInv
  OBVIOUS
<1>1. TypeOK
  BY ConstantsAssumption DEF Init, TypeOK, None
<1>2. Live = {}
  BY DEF Init, Live
<1>3. \A path \in Path : disk[path] = None
  BY DEF Init
<1>4. \A p \in Pids : ~Works(p)
  BY <1>2 DEF Works
<1>5. QED
  BY <1>1, <1>2, <1>3, <1>4 DEF PlaceInv, Placed, RunsDiffer, Removes, Owns

(* A run's tree is where the run looks for it or gone, a path has one tree *)
(* and a tree one path, whatever is renamed or removed meanwhile.          *)
THEOREM PlaceInvariant == Spec => []PlaceInv
  BY InitPlaces, NextPlaces, PTL DEF Spec

(* Every variable has its type: rmdir, rename and remove_dir_all leave no  *)
(* path without a tree.                                                    *)
THEOREM TypeCorrect == Spec => []TypeOK
<1>1. PlaceInv => TypeOK
  BY DEF PlaceInv
<1>2. QED
  BY <1>1, PlaceInvariant, PTL

-----------------------------------------------------------------------------
(* What every step of a process does to its record and to the trees.       *)

Continues(p) ==
  /\ proc'[p] \in Process =>
       /\ proc[p] \in Process
       /\ proc'[p].file = proc[p].file /\ proc'[p].key = proc[p].key
       /\ proc'[p].dsc = proc[p].dsc /\ proc'[p].run = proc[p].run
       /\ proc'[p].steady = proc[p].steady /\ proc'[p].alone = proc[p].alone
  /\ proc'[p] \in Cleaner =>
       /\ proc[p] \in Cleaner
       /\ proc'[p].steady = proc[p].steady /\ proc'[p].alone = proc[p].alone

LEMMA StepFields ==
  ASSUME PlaceInv, NEW p \in Live, Step(p)
  PROVE  /\ UNCHANGED <<source, dsc, clock, changes, kills, cut>>
         /\ OthersStay(p) /\ Continues(p)
         /\ proc'[p] \in Process =>
              /\ proc'[p].pc \in Building => proc[p].pc \in Building \/ Compile(p)
              /\ proc'[p].pc \in Checked =>
                   proc[p].pc \in Checked \/ ReadMeta(p) \/ (Publish(p) /\ Swaps(p))
<1>1. TypeOK /\ p \in Pids
  BY DEF PlaceInv, Live
<1>2. UNCHANGED <<source, dsc, clock, changes, kills, cut>>
  BY DEF Step, CheckMeta, ReadMeta, Locate, Compile, CompileFails, WriteMeta, MoveAside, Publish,
         List, ListFails, Open, Unlink, Rmdir, Removed
<1>3. ASSUME NEW pc, Goto(p, pc), Works(p),
             pc \in {"check", "read", "locate", "compile", "meta", "aside", "publish",
                     "prune", "evict", "execute", "failed"},
             pc \in Building => proc[p].pc \in Building \/ Compile(p),
             pc \in Checked => proc[p].pc \in Checked \/ ReadMeta(p) \/ (Publish(p) /\ Swaps(p))
      PROVE  /\ OthersStay(p) /\ Continues(p)
             /\ proc'[p] \in Process =>
                  /\ proc'[p].pc \in Building => proc[p].pc \in Building \/ Compile(p)
                  /\ proc'[p].pc \in Checked =>
                       proc[p].pc \in Checked \/ ReadMeta(p) \/ (Publish(p) /\ Swaps(p))
  <2>1. proc[p] \in Process
    BY <1>1, <1>3, Kinds
  <2>2. /\ OthersStay(p) /\ proc'[p] \in Process /\ proc'[p].pc = pc
        /\ proc'[p].file = proc[p].file /\ proc'[p].key = proc[p].key
        /\ proc'[p].dsc = proc[p].dsc /\ proc'[p].run = proc[p].run
        /\ proc'[p].steady = proc[p].steady /\ proc'[p].alone = proc[p].alone
    BY <1>1, <1>3, <2>1, GotoStep
  <2>3. QED
    BY <1>3, <2>1, <2>2, ProcessFields DEF Continues
<1>4. ASSUME proc' = [proc EXCEPT ![p] = Idle]
      PROVE  OthersStay(p) /\ Continues(p) /\ proc'[p] \notin Process
  BY <1>1, <1>4, EndStep, IdleFields DEF Continues
<1>5. ASSUME NEW removal \in Removal, proc' = [proc EXCEPT ![p].removal = removal]
      PROVE  OthersStay(p) /\ Continues(p) /\ proc'[p].pc = proc[p].pc
  <2>1. proc[p] \in Process \/ proc[p] \in Cleaner
    BY <1>1, Kinds
  <2>2. /\ proc[p] \in Process => /\ proc'[p] \in Process
                                  /\ proc'[p].file = proc[p].file
                                  /\ proc'[p].key = proc[p].key
                                  /\ proc'[p].dsc = proc[p].dsc
                                  /\ proc'[p].run = proc[p].run
        /\ proc[p] \in Cleaner => proc'[p] \in Cleaner
        /\ proc'[p].pc = proc[p].pc
        /\ proc'[p].steady = proc[p].steady /\ proc'[p].alone = proc[p].alone
        /\ OthersStay(p)
    BY <1>1, <1>5, <2>1, RemovalStep
  <2>3. QED
    BY <2>1, <2>2, ProcessFields, CleanerFields DEF Continues
<1>6. CASE CheckMeta(p)
  BY <1>2, <1>3, <1>6 DEF CheckMeta, Works, Building, Checked
<1>7. CASE ReadMeta(p)
  BY <1>2, <1>3, <1>7 DEF ReadMeta, Works, Building, Checked
<1>8. CASE Locate(p)
  BY <1>2, <1>3, <1>8 DEF Locate, Works, Building, Checked
<1>9. CASE Compile(p)
  <2>1. Goto(p, "meta") /\ proc[p].pc = "compile"
    BY <1>9 DEF Compile
  <2>2. QED
    BY <1>2, <1>3, <1>9, <2>1 DEF Works, Building, Checked
<1>10. CASE CompileFails(p)
  BY <1>2, <1>4, <1>10 DEF CompileFails
<1>11. CASE WriteMeta(p)
  <2>1. (Goto(p, "failed") \/ Goto(p, "aside")) /\ proc[p].pc = "meta"
    BY <1>11 DEF WriteMeta
  <2>2. QED
    BY <1>2, <1>3, <2>1 DEF Works, Building, Checked
<1>12. CASE MoveAside(p)
  <2>1. Goto(p, "publish") /\ proc[p].pc = "aside"
    BY <1>12 DEF MoveAside
  <2>2. QED
    BY <1>2, <1>3, <2>1 DEF Works, Building, Checked
<1>13. CASE Publish(p)
  <2>1. /\ Goto(p, IF Swaps(p) THEN "prune" ELSE "failed") /\ proc[p].pc = "publish"
    BY <1>13 DEF Publish, Swaps
  <2>2. QED
    BY <1>2, <1>3, <1>13, <2>1 DEF Works, Building, Checked
<1>14. CASE List(p)
  <2>1. proc[p].pc = "prune" /\ proc[p] \in Process
    BY <1>1, <1>14, Kinds DEF List, Works
  <2>2. /\ OthersStay(p)
        /\ proc'[p] \in Process /\ proc'[p].pc = "evict"
        /\ proc'[p].file = proc[p].file /\ proc'[p].key = proc[p].key
        /\ proc'[p].dsc = proc[p].dsc /\ proc'[p].run = proc[p].run
        /\ proc'[p].steady = proc[p].steady /\ proc'[p].alone = proc[p].alone
    BY <1>1, <1>14, <2>1, ListStep
  <2>3. QED
    BY <1>2, <2>1, <2>2, ProcessFields DEF Continues, Building, Checked
<1>15. CASE ListFails(p)
  BY <1>2, <1>3, <1>15 DEF ListFails, Works, Building, Checked
<1>16. CASE Open(p)
  <2>1. PICK removal \in Removal : proc' = [proc EXCEPT ![p].removal = removal]
    BY <1>16, OpenPlaces
  <2>2. QED
    BY <1>2, <1>5, <2>1
<1>17. CASE Unlink(p)
  BY <1>2, <1>17 DEF Unlink, OthersStay, Continues
<1>18. CASE Rmdir(p)
  <2>1. \E removal \in Removal : proc' = [proc EXCEPT ![p].removal = removal]
    BY <1>18, RmdirStep
  <2>2. PICK removal \in Removal : proc' = [proc EXCEPT ![p].removal = removal]
    BY <2>1
  <2>3. QED
    BY <1>2, <1>5, <2>2
<1>19. CASE Removed(p)
  <2>1. CASE proc[p].pc = "clear"
    BY <1>2, <1>4, <1>19, <2>1 DEF Removed
  <2>2. CASE proc[p].pc = "evict"
    BY <1>2, <1>3, <1>19, <2>2 DEF Removed, Works, Building, Checked
  <2>3. QED
    BY <1>19, <2>1, <2>2 DEF Removed
<1>20. QED
  BY <1>6, <1>7, <1>8, <1>9, <1>10, <1>11, <1>12, <1>13, <1>14, <1>15, <1>16, <1>17, <1>18, <1>19
     DEF Step

LEMMA SwappedStep ==
  ASSUME NEW p \in Live, Step(p)
  PROVE  \/ swapped' = swapped
         \/ Publish(p) /\ Swaps(p) /\ swapped' = (swapped \ {proc[p].run}) \cup Overtaken(p)
<1>1. CASE Publish(p)
  BY <1>1 DEF Publish, Swaps
<1>2. CASE ~Publish(p)
  BY <1>2 DEF Step, CheckMeta, ReadMeta, Locate, Compile, CompileFails, WriteMeta, MoveAside,
              List, ListFails, Open, Unlink, Rmdir, Removed
<1>3. QED
  BY <1>1, <1>2

(* A path keeps its tree, or loses it, and the tree its output.            *)
Keeps(path) ==
  LET r == disk[path]
  IN  disk'[path] # None =>
        /\ disk'[path] = r /\ r # None
        /\ tree'[r].content = tree[r].content /\ tree'[r].by = tree[r].by
        /\ tree'[r].meta = tree[r].meta /\ tree'[r].steady = tree[r].steady
        /\ "modules" \in tree'[r].parts => "modules" \in tree[r].parts

LEMMA FilesKept ==
  ASSUME PlaceInv, NEW p \in Live, Step(p), NEW path \in Path
  PROVE  \/ Keeps(path)
         \/ MoveAside(p) /\ path = Trash(p, proc[p].key)
         \/ Compile(p) /\ path = Staging(p, proc[p].key)
         \/ Publish(p) /\ Swaps(p) /\ path = Entry(proc[p].key)
<1>1. TypeOK /\ Placed /\ p \in Pids /\ disk[path] \in Run \cup {None} /\ clock' = clock
  BY StepFields DEF PlaceInv, TypeOK, Live
<1>2. ASSUME QuietFiles
      PROVE  Keeps(path)
  BY <1>2 DEF QuietFiles, Keeps
<1>3. ASSUME NEW paths \in SUBSET Path, Drop(paths)
      PROVE  Keeps(path)
  BY <1>1, <1>3, Dropping DEF Keeps
<1>4. CASE CheckMeta(p) \/ ReadMeta(p) \/ Locate(p) \/ ListFails(p) \/ Open(p) \/ Removed(p)
  BY <1>2, <1>4 DEF CheckMeta, ReadMeta, Locate, ListFails, Open, Removed, QuietFiles
<1>5. ASSUME Works(p)
      PROVE  {Staging(p, proc[p].key), Trash(p, proc[p].key)} \in SUBSET Path
  BY <1>1, <1>5, Kinds, ProcessFields, Paths
<1>6. CASE Compile(p)
  <2>1. Works(p)
    BY <1>6 DEF Compile, Works
  <2>2. /\ \A other \in Path : disk'[other] = IF other = Staging(p, proc[p].key) THEN proc[p].run
                                              ELSE disk[other]
        /\ \A other \in Path \ {Staging(p, proc[p].key)} : disk[other] # None =>
             disk[other] # proc[p].run /\ tree'[disk[other]] = tree[disk[other]]
    BY <1>1, <1>6, <2>1, CompileFiles
  <2>3. CASE path # Staging(p, proc[p].key)
    BY <2>2, <2>3 DEF Keeps
  <2>4. QED
    BY <1>6, <2>3
<1>7. CASE CompileFails(p)
  <2>1. Works(p)
    BY <1>7 DEF CompileFails, Works
  <2>2. Drop({Staging(p, proc[p].key)})
    BY <1>1, <1>7, <2>1, DropFiles
  <2>3. QED
    BY <1>3, <1>5, <2>1, <2>2
<1>8. CASE WriteMeta(p)
  <2>1. CASE disk[Staging(p, proc[p].key)] = None
    BY <1>2, <1>8, <2>1 DEF WriteMeta, QuietFiles
  <2>2. CASE disk[Staging(p, proc[p].key)] # None
    <3>1. Works(p)
      BY <1>8 DEF WriteMeta, Works
    <3>2. LET r == proc[p].run
          IN  /\ disk' = disk
              /\ tree'[r].parts = tree[r].parts \cup {"meta"}
              /\ tree'[r].content = tree[r].content /\ tree'[r].by = tree[r].by
              /\ tree'[r].meta = tree[r].meta /\ tree'[r].steady = tree[r].steady
              /\ SameTrees(r)
      BY <1>1, <1>8, <2>2, <3>1, WriteMetaFiles
    <3>3. QED
      BY <1>1, <3>2 DEF Keeps, SameTrees
  <2>3. QED
    BY <2>1, <2>2
<1>9. CASE MoveAside(p)
  <2>1. Works(p)
    BY <1>9 DEF MoveAside, Works
  <2>2. LET k == proc[p].key
        IN  /\ \A other \in Path : disk'[other] = IF other = Trash(p, k) THEN disk[Entry(k)]
                                                  ELSE IF other = Entry(k) THEN None
                                                  ELSE disk[other]
            /\ \A other \in Path \ {Trash(p, k)} : disk[other] # None =>
                 tree'[disk[other]] = tree[disk[other]]
    BY <1>1, <1>9, <2>1, MoveAsideFiles
  <2>3. CASE path # Trash(p, proc[p].key)
    BY <2>2, <2>3 DEF Keeps
  <2>4. QED
    BY <1>9, <2>3
<1>10. CASE Publish(p)
  <2>1. Works(p)
    BY <1>10 DEF Publish, Works
  <2>2. CASE ~Swaps(p)
    <3>1. Drop({Staging(p, proc[p].key), Trash(p, proc[p].key)})
      BY <1>1, <1>10, <2>1, <2>2, DropFiles
    <3>2. QED
      BY <1>3, <1>5, <2>1, <3>1
  <2>3. CASE Swaps(p)
    <3>1. LET r == proc[p].run
              k == proc[p].key
          IN  /\ \A other \in Path : disk'[other] = IF other = Entry(k) THEN r
                                                    ELSE IF other = Staging(p, k) THEN None
                                                    ELSE disk[other]
              /\ tree' = tree
      BY <1>1, <1>10, <2>1, <2>3, SwapFiles
    <3>2. disk[path] = proc[p].run => path = Staging(p, proc[p].key)
      BY <1>1, <1>10, <2>1 DEF PlaceInv, Owns, Building, Publish
    <3>3. CASE path # Entry(proc[p].key)
      BY <1>1, <3>1, <3>2, <3>3 DEF Keeps
    <3>4. QED
      BY <1>10, <2>3, <3>3
  <2>4. QED
    BY <2>2, <2>3
<1>11. CASE List(p)
  <2>1. Works(p)
    BY <1>11 DEF List, Works
  <2>2. Drop({Trash(p, proc[p].key)})
    BY <1>1, <1>11, <2>1, DropFiles
  <2>3. QED
    BY <1>3, <1>5, <2>1, <2>2
<1>12. CASE Unlink(p)
  <2>1. LET t == proc[p].removal.victim
        IN  /\ t \in Run /\ disk' = disk
            /\ tree'[t].parts \subseteq tree[t].parts
            /\ tree'[t].content = tree[t].content /\ tree'[t].by = tree[t].by
            /\ tree'[t].meta = tree[t].meta /\ tree'[t].steady = tree[t].steady
            /\ SameTrees(t)
    BY <1>12, UnlinkFiles
  <2>2. QED
    BY <1>1, <2>1 DEF Keeps, SameTrees
<1>13. CASE Rmdir(p)
  BY <1>2, <1>3, <1>13, RmdirFiles
<1>14. QED
  BY <1>4, <1>6, <1>7, <1>8, <1>9, <1>10, <1>11, <1>12, <1>13 DEF Step

-----------------------------------------------------------------------------
(* CurrentInv is inductive: the fields of a run only go on, the trees at   *)
(* entries only change by a publication.                                   *)

Follows(q) ==
  Works(q)' => /\ Works(q)
               /\ proc'[q].file = proc[q].file /\ proc'[q].key = proc[q].key
               /\ proc'[q].dsc = proc[q].dsc /\ proc'[q].run = proc[q].run
               /\ proc'[q].steady => proc[q].steady

LEMMA SteadyFollows ==
  ASSUME NEW q \in Pids, Steady(q), Follows(q),
         UNCHANGED <<source, dsc>> \/ (Works(q)' => ~proc'[q].steady)
  PROVE  Steady(q)'
BY DEF Steady, Follows

LEMMA BuildsFollows ==
  ASSUME PlaceInv, NEW q \in Pids, Builds(q), Follows(q), Keeps(Staging(q, proc[q].key)),
         Works(q)' /\ proc'[q].pc \in Building => proc[q].pc \in Building
  PROVE  Builds(q)'
<1>1. SUFFICES ASSUME Works(q)', proc'[q].pc \in Building, disk'[Staging(q, proc[q].key)] # None
               PROVE  /\ tree'[proc[q].run].meta = proc[q].dsc
                      /\ tree'[proc[q].run].steady =>
                           /\ tree'[proc[q].run].content = proc[q].key
                           /\ tree'[proc[q].run].by = proc[q].dsc
  BY DEF Builds, Follows
<1>2. Works(q) /\ proc[q].pc \in Building
  BY <1>1 DEF Follows
<1>3. disk[Staging(q, proc[q].key)] = proc[q].run /\ disk[Staging(q, proc[q].key)] # None
  BY <1>1, <1>2 DEF PlaceInv, Owns, Keeps
<1>4. QED
  BY <1>1, <1>2, <1>3 DEF Builds, Keeps

LEMMA ValidatedFollows ==
  ASSUME NEW q \in Pids, Validated(q), Follows(q), Keeps(Entry(proc[q].key)),
         proc[q].run \in swapped => proc[q].run \in swapped',
         Works(q)' /\ proc'[q].pc \in Checked => proc[q].pc \in Checked
  PROVE  Validated(q)'
BY DEF Validated, Follows, Keeps

LEMMA HoldsFollows ==
  ASSUME NEW k \in Keys, Holds(k), Keeps(Entry(k))
  PROVE  Holds(k)'
BY DEF Holds, Keeps

LEMMA StepCurrent ==
  ASSUME PlaceInv, PlaceInv', CurrentInv, NEW p \in Live, Step(p)
  PROVE  CurrentInv'
<1>1. TypeOK /\ TypeOK' /\ p \in Pids
  BY DEF PlaceInv, Live
<1>2. /\ UNCHANGED <<source, dsc>>
      /\ OthersStay(p) /\ Continues(p)
      /\ proc'[p] \in Process =>
              /\ proc'[p].pc \in Building => proc[p].pc \in Building \/ Compile(p)
              /\ proc'[p].pc \in Checked =>
                   proc[p].pc \in Checked \/ ReadMeta(p) \/ (Publish(p) /\ Swaps(p))
  BY StepFields
<1>3. ASSUME NEW q \in Pids
      PROVE  /\ Follows(q)
             /\ Works(q)' => /\ proc[q] \in Process
                             /\ proc[q].key \in Keys
                             /\ Staging(q, proc[q].key) \in Path /\ Entry(proc[q].key) \in Path
  <2>1. (Works(q) <=> proc[q] \in Process) /\ (Works(q)' <=> proc'[q] \in Process)
    BY <1>1, Kinds, KindsNext
  <2>2. Follows(q)
    BY <1>2, <2>1 DEF Follows, OthersStay, Continues
  <2>3. proc[q] \in Process => proc[q].key \in Keys
    BY ProcessFields
  <2>4. QED
    BY <2>1, <2>2, <2>3, Paths DEF Follows
<1>4. \A q \in Pids : Steady(q)'
  BY <1>2, <1>3, SteadyFollows DEF CurrentInv
<1>5. ASSUME NEW q \in Pids
      PROVE  Builds(q)'
  <2>1. SUFFICES ASSUME Works(q)', proc'[q].pc \in Building
                 PROVE  Builds(q)'
    BY DEF Builds
  <2>2. /\ proc[q] \in Process /\ proc[q].key \in Keys
        /\ Staging(q, proc[q].key) \in Path /\ proc[q].file \in Files
    BY <1>3, <2>1, ProcessFields
  <2>3. CASE q = p /\ Compile(p)
    <3>1. /\ Works(p) /\ proc'[p].run = proc[p].run /\ proc'[p].key = proc[p].key
          /\ proc'[p].dsc = proc[p].dsc
      BY <1>3, <2>1, <2>3 DEF Follows
    <3>2. tree'[proc[p].run] = [parts |-> {"artifact", "modules"},
                                content |-> source[proc[p].file], by |-> dsc,
                                meta |-> proc[p].dsc, age |-> clock, steady |-> proc[p].steady]
      BY <1>1, <2>3, <3>1, CompileFiles
    <3>3. proc[p].steady => source[proc[p].file] = proc[p].key /\ dsc = proc[p].dsc
      BY <1>1, <3>1 DEF CurrentInv, Steady
    <3>4. QED
      BY <2>3, <3>1, <3>2, <3>3 DEF Builds
  <2>4. CASE q = p /\ ~Compile(p)
    <3>1. proc[p].pc \in Building
      BY <1>1, <1>2, <2>1, <2>4, KindsNext
    <3>2. Staging(p, proc[p].key) # Trash(p, proc[p].key) /\ Staging(p, proc[p].key) # Entry(proc[p].key)
      BY <2>2, <2>4, Paths
    <3>3. Keeps(Staging(p, proc[p].key))
      BY <2>2, <2>4, <3>2, FilesKept
    <3>4. QED
      BY <1>3, <2>4, <3>1, <3>3, BuildsFollows DEF CurrentInv
  <2>5. CASE q # p
    <3>1. proc'[q] = proc[q]
      BY <1>2, <2>5 DEF OthersStay
    <3>2. ASSUME Works(p)
          PROVE  /\ Staging(q, proc[q].key) # Trash(p, proc[p].key)
                 /\ Staging(q, proc[q].key) # Entry(proc[p].key)
                 /\ Staging(q, proc[q].key) # Staging(p, proc[p].key)
      BY <1>1, <2>2, <2>5, <3>2, Kinds, ProcessFields, Paths
    <3>3. Keeps(Staging(q, proc[q].key))
      <4>1. MoveAside(p) \/ Compile(p) \/ Publish(p) => Works(p)
        BY DEF MoveAside, Compile, Publish, Works
      <4>2. QED
        BY <2>2, <3>2, <4>1, FilesKept
    <3>4. QED
      BY <1>3, <2>1, <3>1, <3>3, BuildsFollows DEF CurrentInv
  <2>6. QED
    BY <2>3, <2>4, <2>5
<1>6. ASSUME NEW k \in Keys
      PROVE  \/ Keeps(Entry(k))
             \/ /\ Publish(p) /\ Swaps(p) /\ Works(p) /\ k = proc[p].key
                /\ disk'[Entry(k)] = proc[p].run
                /\ tree'[proc[p].run].meta = proc[p].dsc
                /\ tree'[proc[p].run].steady =>
                     /\ tree'[proc[p].run].content = k
                     /\ tree'[proc[p].run].by = proc[p].dsc
  <2>1. Entry(k) \in Path
    BY EntryPaths
  <2>2. MoveAside(p) \/ Compile(p) \/ Publish(p) =>
          Works(p) /\ proc[p] \in Process /\ proc[p].key \in Keys
    <3>1. MoveAside(p) \/ Compile(p) \/ Publish(p) => Works(p)
      BY DEF MoveAside, Compile, Publish, Works
    <3>2. QED
      BY <1>1, <3>1, Kinds, ProcessFields
  <2>3. CASE Publish(p) /\ Swaps(p) /\ Entry(k) = Entry(proc[p].key)
    <3>1. k = proc[p].key /\ Works(p)
      BY <1>1, <2>2, <2>3, Paths
    <3>2. LET r == proc[p].run
          IN  /\ disk[Staging(p, k)] = r
              /\ \A path \in Path : disk'[path] = IF path = Entry(k) THEN r
                                                  ELSE IF path = Staging(p, k) THEN None
                                                  ELSE disk[path]
              /\ tree' = tree
      BY <1>1, <2>3, <3>1, SwapFiles
    <3>3. proc[p].run # None /\ proc[p].pc \in Building
      BY <2>2, <2>3, ProcessFields, RunIds DEF Publish, Building
    <3>4. /\ tree[proc[p].run].meta = proc[p].dsc
          /\ tree[proc[p].run].steady =>
               tree[proc[p].run].content = k /\ tree[proc[p].run].by = proc[p].dsc
      BY <1>1, <3>1, <3>2, <3>3 DEF CurrentInv, Builds
    <3>5. QED
      BY <2>1, <2>3, <3>1, <3>2, <3>4
  <2>4. CASE ~(Publish(p) /\ Swaps(p) /\ Entry(k) = Entry(proc[p].key))
    <3>1. MoveAside(p) \/ Compile(p) =>
            Entry(k) # Trash(p, proc[p].key) /\ Entry(k) # Staging(p, proc[p].key)
      BY <1>1, <2>2, Paths
    <3>2. QED
      BY <2>1, <2>4, <3>1, FilesKept
  <2>5. QED
    BY <2>3, <2>4
<1>7. \A k \in Keys : Holds(k)'
  BY <1>6, HoldsFollows DEF CurrentInv, Holds
<1>8. ASSUME NEW q \in Pids
      PROVE  Validated(q)'
  <2>1. SUFFICES ASSUME Works(q)', proc'[q].pc \in Checked
                 PROVE  Validated(q)'
    BY DEF Validated
  <2>2. /\ proc[q] \in Process /\ proc[q].key \in Keys
        /\ proc'[q].key = proc[q].key /\ proc'[q].dsc = proc[q].dsc /\ proc'[q].run = proc[q].run
    BY <1>3, <2>1 DEF Follows
  <2>3. CASE q = p /\ ReadMeta(p)
    <3>1. QuietFiles
      BY <2>3 DEF ReadMeta, QuietFiles
    <3>2. /\ proc[p].pc = "read"
          /\ \/ Goto(p, "failed") \/ Goto(p, "compile")
             \/ Goto(p, "locate") /\ tree[disk[Entry(proc[p].key)]].meta = proc[p].dsc
      BY <2>3 DEF ReadMeta, SameCompiler
    <3>3. proc'[p].pc \in {"failed", "compile"} \/ tree[disk[Entry(proc[p].key)]].meta = proc[p].dsc
      BY <1>1, <2>2, <2>3, <3>2, GotoStep
    <3>4. tree[disk[Entry(proc[p].key)]].meta = proc[p].dsc
      BY <2>1, <2>3, <3>3 DEF Checked
    <3>5. QED
      BY <2>2, <2>3, <3>1, <3>4 DEF Validated, QuietFiles
  <2>4. CASE ~Keeps(Entry(proc[q].key)) \/ (q = p /\ Publish(p) /\ Swaps(p))
    <3>1. /\ Publish(p) /\ Swaps(p) /\ Works(p) /\ proc[q].key = proc[p].key
          /\ disk'[Entry(proc[q].key)] = proc[p].run
          /\ tree'[proc[p].run].meta = proc[p].dsc
      <4>1. CASE ~Keeps(Entry(proc[q].key))
        BY <1>6, <2>2, <4>1
      <4>2. CASE q = p /\ Publish(p) /\ Swaps(p)
        <5>1. Works(p)
          BY <1>1, <2>2, <4>2, Kinds
        <5>2. disk'[Entry(proc[p].key)] = proc[p].run /\ disk[Entry(proc[p].key)] # proc[p].run
          BY <1>1, <2>2, <4>2, <5>1, EntryPaths, SwapFiles
        <5>3. proc[p].run # None
          BY <2>2, <4>2, ProcessFields, RunIds
        <5>4. ~Keeps(Entry(proc[p].key))
          BY <5>2, <5>3 DEF Keeps
        <5>5. QED
          BY <1>6, <2>2, <4>2, <5>4
      <4>3. QED
        BY <2>4, <4>1, <4>2
    <3>2. CASE proc[q].dsc = proc[p].dsc
      BY <2>2, <3>1, <3>2 DEF Validated
    <3>3. CASE proc[q].dsc # proc[p].dsc
      <4>1. q # p /\ proc'[q] = proc[q]
        BY <1>2, <3>3 DEF OthersStay
      <4>2. q \in Live
        BY <1>1, <2>2, Kinds DEF Works
      <4>3. proc[q].run \in Overtaken(p)
        BY <2>1, <3>1, <3>3, <4>1, <4>2 DEF Overtaken
      <4>4. proc[q].run \in swapped'
        BY <3>1, <4>3 DEF Publish, Swaps
      <4>5. QED
        BY <2>2, <4>4 DEF Validated
    <3>4. QED
      BY <3>2, <3>3
  <2>5. CASE Keeps(Entry(proc[q].key)) /\ ~(q = p /\ ReadMeta(p)) /\ ~(q = p /\ Publish(p) /\ Swaps(p))
    <3>1. proc[q].pc \in Checked
      BY <1>1, <1>2, <2>1, <2>5, KindsNext DEF OthersStay
    <3>2. proc[q].run \in swapped => proc[q].run \in swapped'
      <4>1. CASE swapped' = swapped
        BY <4>1
      <4>2. CASE Publish(p) /\ Swaps(p) /\ swapped' = (swapped \ {proc[p].run}) \cup Overtaken(p)
        <5>1. q # p /\ Works(p) /\ Works(q)
          BY <1>1, <2>2, <2>5, <4>2, Kinds DEF Publish, Works
        <5>2. proc[q].run # proc[p].run
          BY <1>1, <5>1 DEF PlaceInv, RunsDiffer
        <5>3. QED
          BY <4>2, <5>2
      <4>3. QED
        BY <4>1, <4>2, SwappedStep
    <3>3. QED
      BY <1>3, <2>5, <3>1, <3>2, ValidatedFollows DEF CurrentInv
  <2>6. QED
    BY <2>3, <2>4, <2>5
<1>9. QED
  BY <1>4, <1>5, <1>7, <1>8 DEF CurrentInv

LEMMA StartCurrent ==
  ASSUME PlaceInv, PlaceInv', CurrentInv, NEW p \in Pids, NEW what \in Process \cup Cleaner,
         Start(p, what), UNCHANGED <<source, dsc, disk, tree, swapped>>,
         what \in Process => /\ what.pc = "check"
                             /\ what.key = source[what.file] /\ what.dsc = dsc
  PROVE  CurrentInv'
<1>1. TypeOK /\ TypeOK'
  BY DEF PlaceInv
<1>2. proc'[p] = what /\ \A q \in Pids \ {p} : Alike(q) /\ (q \in Live => proc'[q].steady = proc[q].steady)
  BY <1>1, StartStep
<1>3. ASSUME NEW q \in Pids \ {p}
      PROVE  Steady(q)' /\ Builds(q)' /\ Validated(q)'
  <2>1. /\ Works(q)' <=> Works(q)
        /\ Works(q) => proc[q] \in Process /\ q \in Live
    BY <1>1, <1>2, Kinds, KindsNext, CleanerFields, ProcessFields, IdleFields DEF Alike
  <2>2. QED
    BY <1>2, <2>1 DEF CurrentInv, Steady, Builds, Validated, Alike
<1>4. Steady(p)' /\ Builds(p)' /\ Validated(p)'
  <2>1. CASE what \in Process
    BY <1>2, <2>1 DEF Steady, Builds, Validated, Building, Checked
  <2>2. CASE what \in Cleaner
    <3>1. ~Works(p)'
      BY <1>1, <1>2, <2>2, KindsNext, CleanerFields
    <3>2. QED
      BY <3>1 DEF Steady, Builds, Validated
  <2>3. QED
    BY <2>1, <2>2
<1>5. \A k \in Keys : Holds(k)'
  BY DEF CurrentInv, Holds
<1>6. QED
  BY <1>3, <1>4, <1>5 DEF CurrentInv

LEMMA ChangeCurrent ==
  ASSUME PlaceInv, PlaceInv', CurrentInv, Change
  PROVE  CurrentInv'
<1>1. TypeOK /\ TypeOK' /\ UNCHANGED <<disk, tree, swapped>>
  BY DEF PlaceInv, Change
<1>2. \A q \in Pids : Alike(q) /\ (q \in Live => ~proc'[q].steady)
  BY <1>1, ChangeStep
<1>3. ASSUME NEW q \in Pids, Works(q)'
      PROVE  /\ Works(q) /\ proc[q] \in Process /\ ~proc'[q].steady
             /\ proc'[q].pc = proc[q].pc /\ proc'[q].key = proc[q].key
             /\ proc'[q].dsc = proc[q].dsc /\ proc'[q].run = proc[q].run
  BY <1>1, <1>2, <1>3, Kinds, KindsNext, CleanerFields, ProcessFields, IdleFields DEF Alike
<1>4. \A q \in Pids : Steady(q)' /\ Builds(q)' /\ Validated(q)'
  BY <1>1, <1>3 DEF CurrentInv, Steady, Builds, Validated
<1>5. \A k \in Keys : Holds(k)'
  BY <1>1 DEF CurrentInv, Holds
<1>6. QED
  BY <1>4, <1>5 DEF CurrentInv

LEMMA EndCurrent ==
  ASSUME PlaceInv, PlaceInv', CurrentInv, NEW p \in Pids, proc' = [proc EXCEPT ![p] = Idle],
         UNCHANGED <<source, dsc, disk, tree, swapped>>
  PROVE  CurrentInv'
<1>1. TypeOK /\ TypeOK' /\ proc'[p] = Idle /\ OthersStay(p)
  BY EndStep DEF PlaceInv
<1>2. ASSUME NEW q \in Pids, Works(q)'
      PROVE  Works(q) /\ proc'[q] = proc[q]
  BY <1>1, <1>2, Kinds, KindsNext, IdleFields DEF OthersStay
<1>3. \A q \in Pids : Steady(q)' /\ Builds(q)' /\ Validated(q)'
  BY <1>2 DEF CurrentInv, Steady, Builds, Validated
<1>4. \A k \in Keys : Holds(k)'
  BY DEF CurrentInv, Holds
<1>5. QED
  BY <1>3, <1>4 DEF CurrentInv

LEMMA NextCurrent ==
  PlaceInv /\ PlaceInv' /\ CurrentInv /\ [Next]_vars => CurrentInv'
<1> SUFFICES ASSUME PlaceInv, PlaceInv', CurrentInv, [Next]_vars
             PROVE  CurrentInv'
  OBVIOUS
<1>1. ASSUME NEW p \in Pids, NEW f \in Files, Begin(p, f)
      PROVE  CurrentInv'
  <2> DEFINE what == [pc |-> "check", file |-> f, key |-> ContentKey(f), dsc |-> dsc,
                      run |-> clock + 1, removal |-> Nothing,
                      steady |-> TRUE, alone |-> Live = {}]
  <2>1. Start(p, what) /\ UNCHANGED <<source, dsc, disk, tree, swapped>>
    BY <1>1 DEF Begin
  <2>2. clock + 1 \in Run
    BY <2>1, ConstantsAssumption DEF PlaceInv, TypeOK, Start, Run
  <2>3. what \in Process
    BY <2>2, Removals DEF Process, PlaceInv, TypeOK, ContentKey
  <2>4. what.pc = "check" /\ what.key = source[what.file] /\ what.dsc = dsc
    BY DEF ContentKey
  <2> HIDE DEF what
  <2>5. QED
    BY <2>1, <2>3, <2>4, StartCurrent
<1>2. ASSUME NEW p \in Pids, Clear(p)
      PROVE  CurrentInv'
  <2> DEFINE what == [pc |-> "clear", removal |-> [todo |-> {path \in Path : disk[path] # None}],
                      steady |-> TRUE, alone |-> Live = {}]
  <2>1. Start(p, what) /\ UNCHANGED <<source, dsc, disk, tree, swapped>>
    BY <1>2 DEF Clear
  <2>2. what \in Cleaner
    BY Removals DEF Cleaner
  <2> HIDE DEF what
  <2>3. QED
    BY <2>1, <2>2, StartCurrent, CleanerFields
<1>3. ASSUME NEW p \in Pids, Exit(p) \/ Kill(p)
      PROVE  CurrentInv'
  BY <1>3, EndCurrent DEF Exit, Kill
<1>4. CASE UNCHANGED vars
  BY <1>4 DEF vars, CurrentInv, Steady, Builds, Validated, Holds, Works, Live
<1>5. QED
  BY <1>1, <1>2, <1>3, <1>4, StepCurrent, ChangeCurrent DEF Next

LEMMA InitCurrent ==
  Init => CurrentInv
<1> SUFFICES ASSUME Init
             PROVE  CurrentInv
  OBVIOUS
<1>1. \A p \in Pids : ~Works(p)
  BY DEF Init, Works, Live
<1>2. \A k \in Keys : disk[Entry(k)] = None
  BY EntryPaths DEF Init
<1>3. QED
  BY <1>1, <1>2 DEF CurrentInv, Steady, Builds, Validated, Holds

(* A steady entry holds the output of the content it is named by, of the   *)
(* compiler in its metadata.                                               *)
THEOREM CurrentInvariant == Spec => []CurrentInv
<1>1. Spec => []PlaceInv
  BY PlaceInvariant
<1>2. QED
  BY <1>1, InitCurrent, NextCurrent, PTL DEF Spec

(* What a run executes was compiled from the present source, although      *)
(* entries are swapped under it, and by the installed compiler unless a run*)
(* that had asked for another one swapped (valid_entry, materialize_with); *)
(* entries into whose compiling an edit or upgrade fell are left out.      *)
THEOREM StaleOutputUnused == Spec => []Current
<1>1. PlaceInv /\ CurrentInv => Current
  <2> SUFFICES ASSUME PlaceInv, CurrentInv, NEW p \in Live, proc[p].pc = "execute", proc[p].steady,
                      disk[Entry(proc[p].key)] # None, tree[disk[Entry(proc[p].key)]].steady
               PROVE  /\ tree[disk[Entry(proc[p].key)]].content = source[proc[p].file]
                      /\ proc[p].run \notin swapped => tree[disk[Entry(proc[p].key)]].by = dsc
    BY DEF Current
  <2>1. p \in Pids /\ Works(p) /\ proc[p].key \in Keys
    BY Kinds, ProcessFields DEF Live, Works, PlaceInv
  <2>2. Steady(p) /\ Validated(p) /\ Holds(proc[p].key)
    BY <2>1 DEF CurrentInv
  <2>3. QED
    BY <2>1, <2>2 DEF Steady, Validated, Holds, Checked
<1>2. QED
  BY <1>1, PlaceInvariant, CurrentInvariant, PTL

-----------------------------------------------------------------------------
(* Sums over sets.                                                         *)

(* A set of natural numbers that is not empty has a least member.          *)
LEMMA LeastOf ==
  ASSUME NEW T \in SUBSET Nat, T # {}
  PROVE  \E n \in T : \A m \in T : n <= m
<1> DEFINE Less == OpToRel(<, Nat)
<1>1. PICK n \in T : \A m \in T : <<m, n>> \notin Less
  <2>1. IsWellFoundedOn(Less, Nat)
    BY NatLessThanWellFounded
  <2> HIDE DEF Less
  <2>2. QED
    BY <2>1, WFMin
<1>2. \A m \in T : ~(m < n)
  BY <1>1 DEF OpToRel
<1>3. QED
  BY <1>2

Some(s) == CHOOSE x \in s : TRUE

(* The defining equation of the function in MapThenSumSet, for weights w.  *)
Adds(g, w, S) ==
  g = [s \in SUBSET S |-> IF s = {} THEN 0 ELSE w[Some(s)] + g[s \ {Some(s)}]]

Total(w, S) == (CHOOSE g : Adds(g, w, S))[S]

LEMMA SomeRemoved ==
  ASSUME NEW s, s # {}, IsFiniteSet(s)
  PROVE  /\ Some(s) \in s
         /\ IsFiniteSet(s \ {Some(s)})
         /\ Cardinality(s) \in Nat /\ Cardinality(s \ {Some(s)}) = Cardinality(s) - 1
         /\ Cardinality(s \ {Some(s)}) \in Nat
<1>1. Some(s) \in s
  BY DEF Some
<1>2. /\ IsFiniteSet(s \ {Some(s)})
      /\ Cardinality(s \ {Some(s)}) = Cardinality(s) - 1
  BY <1>1, FS_RemoveElement
<1>3. Cardinality(s) \in Nat /\ Cardinality(s \ {Some(s)}) \in Nat
  BY <1>2, FS_CardinalityType
<1>4. QED
  BY <1>1, <1>2, <1>3

LEMMA AddsAgree ==
  ASSUME NEW g, NEW h, NEW w, NEW S, NEW T, Adds(g, w, S), Adds(h, w, T),
         IsFiniteSet(S)
  PROVE  \A s \in SUBSET S : s \in SUBSET T => g[s] = h[s]
<1> DEFINE Bad == {n \in Nat : \E s \in SUBSET S : /\ s \in SUBSET T /\ g[s] # h[s]
                                                  /\ n = Cardinality(s)}
<1>1. SUFFICES ASSUME Bad # {}
               PROVE  FALSE
  <2>1. \A s \in SUBSET S : Cardinality(s) \in Nat
    BY FS_Subset, FS_CardinalityType
  <2>2. QED
    BY <1>1, <2>1
<1> HIDE DEF Bad
<1>2. PICK n \in Bad : \A m \in Bad : n <= m
  <2>1. Bad \in SUBSET Nat
    BY DEF Bad
  <2>2. QED
    BY <1>1, <2>1, LeastOf
<1>3. PICK s \in SUBSET S : s \in SUBSET T /\ g[s] # h[s] /\ n = Cardinality(s)
  BY <1>2 DEF Bad
<1>4. s # {}
  BY <1>3 DEF Adds
<1>5. IsFiniteSet(s)
  BY FS_Subset
<1>6. /\ s \ {Some(s)} \in SUBSET S /\ s \ {Some(s)} \in SUBSET T
      /\ Cardinality(s \ {Some(s)}) \in Nat
      /\ Cardinality(s \ {Some(s)}) = n - 1 /\ n \in Nat
  BY <1>3, <1>4, <1>5, SomeRemoved
<1>7. n - 1 \notin Bad
  BY <1>2, <1>6
<1>8. g[s \ {Some(s)}] = h[s \ {Some(s)}]
  BY <1>6, <1>7 DEF Bad
<1>9. g[s] = w[Some(s)] + g[s \ {Some(s)}] /\ h[s] = w[Some(s)] + h[s \ {Some(s)}]
  BY <1>3, <1>4 DEF Adds
<1>10. QED
  BY <1>3, <1>8, <1>9

LEMMA AddsExists ==
  ASSUME NEW w, NEW S, IsFiniteSet(S)
  PROVE  \E g : Adds(g, w, S)
<1> DEFINE Bad == {n \in Nat : \E T \in SUBSET S : /\ ~\E g : Adds(g, w, T)
                                                  /\ n = Cardinality(T)}
<1>1. SUFFICES ASSUME Bad # {}
               PROVE  FALSE
  <2>1. Cardinality(S) \in Nat /\ S \in SUBSET S
    BY FS_CardinalityType
  <2>2. QED
    BY <1>1, <2>1
<1> HIDE DEF Bad
<1>2. PICK n \in Bad : \A m \in Bad : n <= m
  <2>1. Bad \in SUBSET Nat
    BY DEF Bad
  <2>2. QED
    BY <1>1, <2>1, LeastOf
<1>3. PICK T \in SUBSET S : ~(\E g : Adds(g, w, T)) /\ n = Cardinality(T)
  BY <1>2 DEF Bad
<1>4. IsFiniteSet(T) /\ n \in Nat
  BY <1>3, FS_Subset, FS_CardinalityType
<1> DEFINE adder(R) == CHOOSE g : Adds(g, w, R)
<1>5. ASSUME NEW R \in SUBSET T, R # T
      PROVE  IsFiniteSet(R) /\ Adds(adder(R), w, R)
  <2>1. /\ IsFiniteSet(R) /\ Cardinality(R) \in Nat
        /\ Cardinality(R) <= n /\ Cardinality(R) # n
    BY <1>3, <1>4, <1>5, FS_Subset, FS_CardinalityType
  <2>2. Cardinality(R) \notin Bad
    BY <1>2, <1>4, <2>1
  <2>3. R \in SUBSET S
    BY <1>5
  <2>4. \E g : Adds(g, w, R)
    BY <2>1, <2>2, <2>3 DEF Bad
  <2>5. QED
    BY <2>1, <2>4
<1> DEFINE h == [s \in SUBSET T |-> IF s = {} THEN 0 ELSE w[Some(s)] + Total(w, s \ {Some(s)})]
<1>6. ASSUME NEW R \in SUBSET T, R # T
      PROVE  h[R] = Total(w, R)
  <2>1. Adds(adder(R), w, R) /\ IsFiniteSet(R)
    BY <1>5, <1>6
  <2>2. Total(w, R) = adder(R)[R]
    BY DEF Total
  <2> HIDE DEF adder
  <2>3. CASE R = {}
    BY <2>1, <2>2, <2>3 DEF Adds
  <2>4. CASE R # {}
    <3> DEFINE Q == R \ {Some(R)}
    <3>1. Some(R) \in R
      BY <2>4 DEF Some
    <3>2. Q \in SUBSET T /\ Q # T /\ Q \in SUBSET R /\ Q \in SUBSET Q
      BY <1>6, <3>1
    <3>3. Adds(adder(Q), w, Q)
      BY <1>5, <3>2
    <3>4. adder(R)[Q] = adder(Q)[Q]
      BY <2>1, <3>2, <3>3, AddsAgree
    <3>5. Total(w, Q) = adder(Q)[Q]
      BY DEF Total, adder
    <3>6. adder(R)[R] = w[Some(R)] + adder(R)[Q]
      BY <2>1, <2>4 DEF Adds
    <3>7. h[R] = w[Some(R)] + Total(w, Q)
      BY <2>4
    <3>8. QED
      BY <2>2, <3>4, <3>5, <3>6, <3>7
  <2>5. QED
    BY <2>3, <2>4
<1>7. ASSUME NEW s \in SUBSET T
      PROVE  h[s] = IF s = {} THEN 0 ELSE w[Some(s)] + h[s \ {Some(s)}]
  <2>1. CASE s = {}
    BY <2>1
  <2>2. CASE s # {}
    <3>1. Some(s) \in s
      BY <2>2 DEF Some
    <3>2. s \ {Some(s)} \in SUBSET T /\ s \ {Some(s)} # T
      BY <1>7, <3>1
    <3>3. h[s \ {Some(s)}] = Total(w, s \ {Some(s)})
      BY <1>6, <3>2
    <3>4. h[s] = w[Some(s)] + Total(w, s \ {Some(s)})
      BY <2>2
    <3>5. QED
      BY <2>2, <3>3, <3>4
  <2>3. QED
    BY <2>1, <2>2
<1>8. DOMAIN h = SUBSET T /\ h = [s \in SUBSET T |-> h[s]]
  OBVIOUS
<1> HIDE DEF h
<1>9. Adds(h, w, T)
  BY <1>7, <1>8 DEF Adds
<1>10. QED
  BY <1>3, <1>9

LEMMA TotalStep ==
  ASSUME NEW w, NEW S, IsFiniteSet(S)
  PROVE  /\ S = {} => Total(w, S) = 0
         /\ S # {} => Total(w, S) = w[Some(S)] + Total(w, S \ {Some(S)})
<1> DEFINE adder(R) == CHOOSE g : Adds(g, w, R)
<1>1. Adds(adder(S), w, S)
  BY AddsExists
<1>2. Total(w, S) = adder(S)[S] /\ S \in SUBSET S
  BY DEF Total
<1>3. CASE S = {}
  <2> HIDE DEF adder
  <2>1. QED
    BY <1>1, <1>2, <1>3 DEF Adds
<1>4. CASE S # {}
  <2> DEFINE Q == S \ {Some(S)}
  <2>1. IsFiniteSet(Q) /\ Q \in SUBSET S /\ Q \in SUBSET Q
    BY <1>4, SomeRemoved
  <2>2. Adds(adder(Q), w, Q)
    BY <2>1, AddsExists
  <2>3. Total(w, Q) = adder(Q)[Q]
    BY DEF Total
  <2> HIDE DEF adder
  <2>4. adder(S)[Q] = adder(Q)[Q]
    BY <1>1, <2>1, <2>2, AddsAgree
  <2>5. adder(S)[S] = w[Some(S)] + adder(S)[Q]
    BY <1>1, <1>2, <1>4 DEF Adds
  <2>6. QED
    BY <1>2, <1>4, <2>3, <2>4, <2>5
<1>5. QED
  BY <1>3, <1>4

(* Any member may be taken out first.                                      *)
LEMMA TotalRemove ==
  ASSUME NEW w, NEW A, \A x \in A : w[x] \in Nat, IsFiniteSet(A)
  PROVE  \A S \in SUBSET A :
           /\ Total(w, S) \in Nat
           /\ \A x \in S : Total(w, S) = w[x] + Total(w, S \ {x})
<1> DEFINE Good(S) == /\ Total(w, S) \in Nat
                      /\ \A x \in S : Total(w, S) = w[x] + Total(w, S \ {x})
           Bad == {n \in Nat : \E S \in SUBSET A : ~Good(S) /\ n = Cardinality(S)}
<1>1. SUFFICES ASSUME Bad # {}
               PROVE  FALSE
  <2>1. \A S \in SUBSET A : Cardinality(S) \in Nat
    BY FS_Subset, FS_CardinalityType
  <2> HIDE DEF Good
  <2>2. \A S \in SUBSET A : Good(S)
    BY <1>1, <2>1
  <2>3. QED
    BY <2>2 DEF Good
<1> HIDE DEF Bad
<1>2. PICK n \in Bad : \A m \in Bad : n <= m
  <2>1. Bad \in SUBSET Nat
    BY DEF Bad
  <2>2. QED
    BY <1>1, <2>1, LeastOf
<1> HIDE DEF Good
<1>3. PICK S \in SUBSET A : ~Good(S) /\ n = Cardinality(S)
  BY <1>2 DEF Bad
<1>4. IsFiniteSet(S) /\ n \in Nat
  BY <1>3, FS_Subset, FS_CardinalityType
<1>5. ASSUME NEW x \in S
      PROVE  Good(S \ {x}) /\ S \ {x} \in SUBSET A
  <2>1. Cardinality(S \ {x}) = n - 1 /\ Cardinality(S \ {x}) \in Nat
    BY <1>3, <1>4, FS_RemoveElement, FS_CardinalityType
  <2>2. Cardinality(S \ {x}) \notin Bad
    BY <1>2, <1>4, <2>1
  <2>3. QED
    BY <2>1, <2>2 DEF Bad
<1>6. CASE S = {}
  <2>1. Total(w, S) = 0
    BY <1>4, <1>6, TotalStep
  <2>2. QED
    BY <1>3, <1>6, <2>1 DEF Good
<1>7. CASE S # {}
  <2> DEFINE y == Some(S)
  <2>1. y \in S /\ Total(w, S) = w[y] + Total(w, S \ {y})
    BY <1>4, <1>7, TotalStep, SomeRemoved
  <2> HIDE DEF y
  <2>2. w[y] \in Nat /\ Total(w, S \ {y}) \in Nat
    BY <1>5, <2>1 DEF Good
  <2>3. ASSUME NEW x \in S
        PROVE  Total(w, S) = w[x] + Total(w, S \ {x})
    <3>1. CASE x = y
      BY <2>1, <3>1
    <3>2. CASE x # y
      <4>1. x \in S \ {y} /\ y \in S \ {x}
        BY <2>1, <3>2
      <4>2. Total(w, S \ {y}) = w[x] + Total(w, (S \ {y}) \ {x})
        BY <1>5, <2>1, <4>1 DEF Good
      <4>3. Total(w, S \ {x}) = w[y] + Total(w, (S \ {x}) \ {y})
        BY <1>5, <4>1 DEF Good
      <4>4. (S \ {x}) \ {y} = (S \ {y}) \ {x}
        OBVIOUS
      <4>5. /\ w[x] \in Nat /\ w[y] \in Nat /\ Total(w, S \ {y}) \in Nat /\ Total(w, S \ {x}) \in Nat
            /\ Total(w, (S \ {y}) \ {x}) \in Nat
        <5>1. Total(w, S \ {x}) \in Nat /\ w[x] \in Nat
          BY <1>5 DEF Good
        <5>2. (S \ {y}) \ {x} \in SUBSET A /\ Cardinality((S \ {y}) \ {x}) \in Nat
              /\ Cardinality((S \ {y}) \ {x}) = n - 2
          <6> DEFINE R == S \ {y}
          <6>1. IsFiniteSet(R) /\ Cardinality(R) = n - 1 /\ x \in R
            BY <1>3, <1>4, <2>1, <4>1, FS_RemoveElement
          <6> HIDE DEF R
          <6>5. IsFiniteSet(R \ {x}) /\ Cardinality(R \ {x}) = Cardinality(R) - 1
            BY <6>1, FS_RemoveElement
          <6> USE DEF R
          <6>2. IsFiniteSet((S \ {y}) \ {x}) /\ Cardinality((S \ {y}) \ {x}) = n - 1 - 1
            BY <6>1, <6>5
          <6>3. Cardinality((S \ {y}) \ {x}) \in Nat
            BY <6>2, FS_CardinalityType
          <6>4. QED
            BY <1>4, <6>2, <6>3
        <5>3. Cardinality((S \ {y}) \ {x}) \notin Bad
          BY <1>2, <1>4, <5>2
        <5>4. Total(w, (S \ {y}) \ {x}) \in Nat
          BY <5>2, <5>3 DEF Bad, Good
        <5>5. QED
          BY <2>2, <5>1, <5>4
      <4>6. QED
        BY <2>1, <4>2, <4>3, <4>4, <4>5
    <3>3. QED
      BY <3>1, <3>2
  <2>4. Total(w, S) \in Nat
    BY <2>1, <2>2
  <2>5. QED
    BY <1>3, <2>3, <2>4 DEF Good
<1>8. QED
  BY <1>6, <1>7

(* A sum grows with its set and its weights.                               *)
LEMMA TotalGrows ==
  ASSUME NEW v, NEW w, NEW A, IsFiniteSet(A),
         \A x \in A : w[x] \in Nat,
         NEW B \in SUBSET A, \A x \in B : v[x] \in Nat /\ v[x] <= w[x]
  PROVE  Total(v, B) <= Total(w, A)
<1> DEFINE Bad == {n \in Nat : \E S \in SUBSET A : /\ ~(Total(v, S \cap B) <= Total(w, S))
                                                  /\ n = Cardinality(S)}
<1>1. SUFFICES ASSUME Bad # {}
               PROVE  FALSE
  <2>1. A \in SUBSET A /\ A \cap B = B /\ Cardinality(A) \in Nat
    BY FS_CardinalityType
  <2>2. QED
    BY <1>1, <2>1
<1> HIDE DEF Bad
<1>2. PICK n \in Bad : \A m \in Bad : n <= m
  <2>1. Bad \in SUBSET Nat
    BY DEF Bad
  <2>2. QED
    BY <1>1, <2>1, LeastOf
<1>3. PICK S \in SUBSET A : ~(Total(v, S \cap B) <= Total(w, S)) /\ n = Cardinality(S)
  BY <1>2 DEF Bad
<1>4. IsFiniteSet(S) /\ IsFiniteSet(B) /\ n \in Nat
  BY <1>3, FS_Subset, FS_CardinalityType
<1>5. /\ \A T \in SUBSET A : /\ Total(w, T) \in Nat
                             /\ \A x \in T : Total(w, T) = w[x] + Total(w, T \ {x})
      /\ \A T \in SUBSET B : /\ Total(v, T) \in Nat
                             /\ \A x \in T : Total(v, T) = v[x] + Total(v, T \ {x})
  BY <1>4, TotalRemove
<1>6. CASE S = {}
  <2>1. S \cap B = {} /\ Total(v, {}) = 0 /\ Total(w, {}) = 0
    BY <1>6, FS_EmptySet, TotalStep
  <2>2. QED
    BY <1>3, <1>6, <2>1
<1>7. CASE S # {}
  <2>1. PICK x \in S : TRUE
    BY <1>7
  <2>2. Cardinality(S \ {x}) = n - 1 /\ Cardinality(S \ {x}) \in Nat
    BY <1>3, <1>4, FS_RemoveElement, FS_CardinalityType
  <2>3. Cardinality(S \ {x}) \notin Bad
    BY <1>2, <1>4, <2>2
  <2>4. S \ {x} \in SUBSET A /\ S \cap B \in SUBSET B /\ (S \ {x}) \cap B \in SUBSET B
    OBVIOUS
  <2>5. Total(v, (S \ {x}) \cap B) <= Total(w, S \ {x})
    BY <2>2, <2>3, <2>4 DEF Bad
  <2>6. Total(w, S) = w[x] + Total(w, S \ {x}) /\ w[x] \in Nat /\ Total(w, S \ {x}) \in Nat
    BY <1>5, <2>4
  <2>7. CASE x \in B
    <3>1. Total(v, S \cap B) = v[x] + Total(v, (S \cap B) \ {x})
      BY <1>5, <2>4, <2>7
    <3>2. (S \cap B) \ {x} = (S \ {x}) \cap B
      OBVIOUS
    <3>3. v[x] \in Nat /\ v[x] <= w[x] /\ Total(v, (S \ {x}) \cap B) \in Nat
      BY <1>5, <2>4, <2>7
    <3>4. QED
      BY <1>3, <2>5, <2>6, <3>1, <3>2, <3>3
  <2>8. CASE x \notin B
    <3>1. S \cap B = (S \ {x}) \cap B
      BY <2>8
    <3>2. Total(v, S \cap B) = Total(v, (S \ {x}) \cap B)
      BY <3>1
    <3>3. Total(v, S \cap B) \in Nat
      BY <1>5, <2>4
    <3> DEFINE a == Total(v, S \cap B)
               b == Total(w, S \ {x})
    <3>4. a \in Nat /\ b \in Nat /\ w[x] \in Nat /\ a <= b
      BY <2>5, <2>6, <3>2, <3>3
    <3>5. ~(a <= w[x] + b)
      BY <1>3, <2>6
    <3> HIDE DEF a, b
    <3>6. QED
      BY <3>4, <3>5
  <2>9. QED
    BY <2>7, <2>8
<1>8. QED
  BY <1>6, <1>7

(* MapThenSumSet of the community modules, which recurs through a function,*)
(* is that sum: of the sizes of entries, now and in the next state.        *)
Weights == [k \in Keys |-> EntrySize(k)]

LEMMA MapIsTotal ==
  ASSUME NEW S \in SUBSET Keys, IsFiniteSet(S)
  PROVE  MapThenSumSet(EntrySize, S) = Total(Weights, S)
<1> DEFINE adder == CHOOSE g : Adds(g, Weights, S)
           iter == CHOOSE g : g = [s \in SUBSET S |->
                     IF s = {} THEN 0
                     ELSE EntrySize(CHOOSE x \in s : TRUE) + g[s \ {CHOOSE x \in s : TRUE}]]
<1>1. Adds(adder, Weights, S)
  BY AddsExists
<1>2. ASSUME NEW g
      PROVE  (g = [s \in SUBSET S |->
               IF s = {} THEN 0
               ELSE EntrySize(CHOOSE x \in s : TRUE) + g[s \ {CHOOSE x \in s : TRUE}]])
             <=> Adds(g, Weights, S)
  <2>1. \A s \in SUBSET S : s # {} => Weights[Some(s)] = EntrySize(CHOOSE x \in s : TRUE)
    BY DEF Weights, Some
  <2> HIDE DEF adder, iter
  <2>2. QED
    BY <2>1, Zenon DEF Adds, Some
<1>3. iter = adder
  BY <1>2, Zenon
<1>4. MapThenSumSet(EntrySize, S) = iter[S]
  BY Zenon DEF MapThenSumSet, MapThenFoldSet
<1>5. QED
  BY <1>3, <1>4 DEF Total

LEMMA MapIsTotalNext ==
  ASSUME NEW S \in SUBSET Keys, IsFiniteSet(S)
  PROVE  MapThenSumSet(EntrySize, S)' = Total(Weights', S)
<1> DEFINE adder == CHOOSE g : Adds(g, Weights', S)
           iter == CHOOSE g : g = [s \in SUBSET S |->
                     IF s = {} THEN 0
                     ELSE EntrySize(CHOOSE x \in s : TRUE)' + g[s \ {CHOOSE x \in s : TRUE}]]
<1>1. Adds(adder, Weights', S)
  BY AddsExists
<1>2. ASSUME NEW g
      PROVE  (g = [s \in SUBSET S |->
               IF s = {} THEN 0
               ELSE EntrySize(CHOOSE x \in s : TRUE)' + g[s \ {CHOOSE x \in s : TRUE}]])
             <=> Adds(g, Weights', S)
  <2>1. \A s \in SUBSET S : s # {} => Weights'[Some(s)] = EntrySize(CHOOSE x \in s : TRUE)'
    BY DEF Weights, Some
  <2> HIDE DEF adder, iter
  <2>2. QED
    BY <2>1, Zenon DEF Adds, Some
<1>3. iter = adder
  BY <1>2, Zenon
<1>4. MapThenSumSet(EntrySize, S)' = iter[S]
  BY Zenon DEF MapThenSumSet, MapThenFoldSet
<1>5. QED
  BY <1>3, <1>4 DEF Total

-----------------------------------------------------------------------------
(* BudgetInv is inductive.                                                 *)

(* The entries present are as many as their trees, which are runs.         *)
LEMMA PresentFinite ==
  ASSUME PlaceInv
  PROVE  IsFiniteSet(Present)
<1> DEFINE f == [k \in Present |-> disk[Entry(k)]]
<1>1. f \in [Present -> Run]
  BY EntryPaths DEF PlaceInv, TypeOK, Present
<1>2. \A j, k \in Present : f[j] = f[k] => j = k
  <2>1. \A j, k \in Keys : Entry(j) = Entry(k) => j = k
    BY DEF Entry
  <2>2. QED
    BY <2>1, EntryPaths DEF PlaceInv, Placed, Present
<1>3. IsFiniteSet(Run)
  BY FS_Interval, ConstantsAssumption DEF Run
<1>4. f \in Injection(Present, Run)
  <2> HIDE DEF f
  <2>1. IsInjective(f)
    BY <1>1, <1>2 DEF IsInjective
  <2>2. QED
    BY <1>1, <2>1 DEF Injection
<1> HIDE DEF f
<1>5. QED
  BY <1>3, <1>4, FS_Injection

LEMMA Sizes ==
  ASSUME PlaceInv, NEW k \in Present
  PROVE  k \in Keys /\ EntrySize(k) \in Nat /\ EntrySize(k) <= MaxBytes
<1>1. k \in Keys /\ tree[disk[Entry(k)]] \in Tree
  BY EntryPaths DEF PlaceInv, Placed, Present
<1>2. tree[disk[Entry(k)]].content \in Keys
  BY <1>1, TreeFields
<1>3. Size[tree[disk[Entry(k)]].content] \in 1 .. MaxBytes /\ MaxBytes \in Nat
  BY <1>2, ConstantsAssumption
<1>4. QED
  BY <1>1, <1>3 DEF EntrySize, EntryTree

LEMMA SizesNext ==
  ASSUME PlaceInv, NEW k \in Keys, Keeps(Entry(k)), disk'[Entry(k)] # None
  PROVE  k \in Present /\ EntrySize(k)' \in Nat /\ EntrySize(k)' <= EntrySize(k)
<1>1. k \in Present /\ tree[disk[Entry(k)]] \in Tree
  BY EntryPaths DEF PlaceInv, Placed, Present, Keeps
<1>2. tree[disk[Entry(k)]].content \in Keys
  BY <1>1, TreeFields
<1>3. Size[tree[disk[Entry(k)]].content] \in 1 .. MaxBytes /\ MaxBytes \in Nat
  BY <1>2, ConstantsAssumption
<1>4. /\ EntryTree(k)'.content = EntryTree(k).content
      /\ "modules" \in EntryTree(k)'.parts => "modules" \in EntryTree(k).parts
  BY DEF EntryTree, Keeps
<1>5. Size[EntryTree(k).content] \in Nat
  BY <1>3 DEF EntryTree
<1>6. EntrySize(k)' = IF "modules" \in EntryTree(k)'.parts THEN Size[EntryTree(k).content] ELSE 0
  BY <1>4 DEF EntrySize
<1>7. EntrySize(k) = IF "modules" \in EntryTree(k).parts THEN Size[EntryTree(k).content] ELSE 0
  BY DEF EntrySize
<1>8. QED
  BY ONLY <1>1, <1>4, <1>5, <1>6, <1>7

(* A budget kept by some entries is kept by fewer of them.                 *)
LEMMA SmallerWithin ==
  ASSUME PlaceInv, NEW S \in SUBSET Present, NEW T \in SUBSET S, WithinBudget(S)
  PROVE  WithinBudget(T)
<1>1. IsFiniteSet(S) /\ IsFiniteSet(T) /\ S \in SUBSET Keys /\ T \in SUBSET Keys
  BY PresentFinite, FS_Subset DEF Present
<1>2. /\ Cardinality(T) <= Cardinality(S)
      /\ Cardinality(T) \in Nat /\ Cardinality(S) \in Nat
  BY <1>1, FS_Subset, FS_CardinalityType
<1>3. \A k \in S : Weights[k] \in Nat
  BY <1>1, Sizes DEF Weights
<1>4. /\ Total(Weights, T) <= Total(Weights, S)
      /\ Total(Weights, T) \in Nat /\ Total(Weights, S) \in Nat
  <2>1. \A k \in T : Weights[k] \in Nat /\ Weights[k] <= Weights[k]
    BY <1>3
  <2>2. Total(Weights, T) <= Total(Weights, S)
    BY <1>1, <1>3, <2>1, TotalGrows
  <2>3. Total(Weights, T) \in Nat /\ Total(Weights, S) \in Nat
    BY <1>1, <1>3, TotalRemove
  <2>4. QED
    BY <2>2, <2>3
<1>5. /\ MapThenSumSet(EntrySize, S) = Total(Weights, S)
      /\ MapThenSumSet(EntrySize, T) = Total(Weights, T)
  BY <1>1, MapIsTotal
<1>6. Total(Weights, S) <= MaxBytes /\ Cardinality(S) <= MaxEntries
  BY <1>5 DEF WithinBudget
<1>7. Total(Weights, T) <= MaxBytes /\ Cardinality(T) <= MaxEntries
  BY <1>2, <1>4, <1>6, ConstantsAssumption
<1>8. QED
  BY <1>5, <1>7 DEF WithinBudget

(* So is it after a step that makes none of them larger.                   *)
LEMMA StaysWithin ==
  ASSUME PlaceInv, NEW S \in SUBSET Present, NEW T \in SUBSET S, WithinBudget(S),
         \A k \in T : Keeps(Entry(k)) /\ disk'[Entry(k)] # None
  PROVE  WithinBudget(T)'
<1>1. IsFiniteSet(S) /\ IsFiniteSet(T) /\ S \in SUBSET Keys /\ T \in SUBSET Keys
  BY PresentFinite, FS_Subset DEF Present
<1>2. /\ Cardinality(T) <= Cardinality(S)
      /\ Cardinality(T) \in Nat /\ Cardinality(S) \in Nat
  BY <1>1, FS_Subset, FS_CardinalityType
<1>3. \A k \in S : Weights[k] \in Nat
  BY <1>1, Sizes DEF Weights
<1>4. \A k \in T : Weights'[k] \in Nat /\ Weights'[k] <= Weights[k]
  BY <1>1, SizesNext DEF Weights
<1> DEFINE now == Weights
           then == Weights'
<1>5. /\ Total(then, T) <= Total(now, S)
      /\ Total(then, T) \in Nat /\ Total(now, S) \in Nat
  <2> HIDE DEF now, then
  <2>1. \A k \in T : then[k] \in Nat
    BY <1>4 DEF then
  <2>2. Total(then, T) <= Total(now, S)
    <3>1. \A k \in S : now[k] \in Nat
      BY <1>3 DEF now
    <3>2. \A k \in T : then[k] \in Nat /\ then[k] <= now[k]
      BY <1>4 DEF now, then
    <3>3. QED
      BY <1>1, <3>1, <3>2, TotalGrows
  <2>3. Total(then, T) \in Nat
    BY <1>1, <2>1, TotalRemove
  <2>4. Total(now, S) \in Nat
    BY <1>1, <1>3, TotalRemove DEF now
  <2>5. QED
    BY <2>2, <2>3, <2>4
<1>6. /\ MapThenSumSet(EntrySize, S) = Total(now, S)
      /\ MapThenSumSet(EntrySize, T)' = Total(then, T)
  BY <1>1, MapIsTotal, MapIsTotalNext
<1> HIDE DEF now, then
<1>7. Total(now, S) <= MaxBytes /\ Cardinality(S) <= MaxEntries
  BY <1>6 DEF WithinBudget
<1>8. Total(then, T) <= MaxBytes /\ Cardinality(T) <= MaxEntries
  BY <1>2, <1>5, <1>7, ConstantsAssumption
<1>9. QED
  BY <1>6, <1>8 DEF WithinBudget

(* Of any two entries one is older, so some entries have an oldest one.    *)
LEMMA OldestOf ==
  ASSUME PlaceInv, NEW S \in SUBSET Present, S # {}
  PROVE  \E k \in S : \A j \in S : ~Older(j, k)
<1>1. \A k \in S : k \in Nat /\ EntryTree(k).age \in Nat
  <2> SUFFICES ASSUME NEW k \in S
               PROVE  k \in Nat /\ EntryTree(k).age \in Nat
    OBVIOUS
  <2>1. k \in Keys /\ tree[disk[Entry(k)]] \in Tree
    BY EntryPaths DEF PlaceInv, Placed, Present
  <2>2. tree[disk[Entry(k)]].age \in Run
    BY <2>1, TreeFields
  <2>3. QED
    BY <2>1, <2>2, ConstantsAssumption, RunIds DEF EntryTree
<1> DEFINE ages == {EntryTree(k).age : k \in S}
<1>2. PICK a \in ages : \A b \in ages : a <= b
  <2>1. ages \in SUBSET Nat /\ ages # {}
    BY <1>1
  <2> HIDE DEF ages
  <2>2. QED
    BY <2>1, LeastOf
<1> DEFINE oldest == {k \in S : EntryTree(k).age = a}
<1>3. PICK k \in oldest : \A j \in oldest : k <= j
  <2>1. oldest \in SUBSET Nat /\ oldest # {}
    BY <1>1, <1>2
  <2> HIDE DEF oldest
  <2>2. QED
    BY <2>1, LeastOf
<1>4. \A j \in S : ~Older(j, k)
  <2> SUFFICES ASSUME NEW j \in S, Older(j, k)
               PROVE  FALSE
    OBVIOUS
  <2>1. k \in S /\ EntryTree(k).age = a /\ a <= EntryTree(j).age
    BY <1>2, <1>3
  <2>2. EntryTree(j).age = a /\ j < k
    BY <1>1, <2>1 DEF Older
  <2>3. k <= j
    BY <1>3, <2>2
  <2>4. QED
    BY <1>1, <2>1, <2>2, <2>3
<1>5. QED
  BY <1>3, <1>4

(* What prune_loose leaves is within the budget, whatever is there.        *)
LEMMA RestWithin ==
  ASSUME PlaceInv
  PROVE  WithinBudget(Present \ Evicted)
<1> DEFINE rest == Present \ Evicted
<1>1. CASE rest = {}
  <2>1. Cardinality({}) = 0 /\ IsFiniteSet({})
    BY FS_EmptySet
  <2>2. MapThenSumSet(EntrySize, {}) = 0
    BY <2>1, MapIsTotal, TotalStep
  <2>3. WithinBudget({})
    BY <2>1, <2>2, ConstantsAssumption DEF WithinBudget
  <2>4. QED
    BY <1>1, <2>3
<1>2. CASE rest # {}
  <2>1. PICK k \in rest : \A j \in rest : ~Older(j, k)
    BY <1>2, OldestOf
  <2>2. WithinBudget({j \in Present : ~Older(j, k)})
    BY <2>1 DEF Evicted
  <2>3. rest \subseteq {j \in Present : ~Older(j, k)}
    BY <2>1
  <2> HIDE DEF rest
  <2>4. WithinBudget(rest)
    BY <2>2, <2>3, SmallerWithin
  <2>5. QED
    BY <2>4 DEF rest
<1>3. QED
  BY <1>1, <1>2

Spared(p, P) == {k \in Charged(P) : ~Doomed(p, k)}
Unpaid == {k \in Present : disk[Entry(k)] \notin unpruned}

(* What is charged to the runs of Q next was charged to those of P.        *)
ChargesFall(P, Q) ==
  \A k \in Keys : (k \in Charged(Q))' => k \in Charged(P) /\ Keeps(Entry(k))

LEMMA EvictsFall ==
  ASSUME PlaceInv, NEW P, NEW Q, ChargesFall(P, Q), NEW p, NEW q, WithinBudget(Spared(p, P)),
         \A k \in Keys : (k \in Charged(Q))' /\ Doomed(p, k) => Doomed(q, k)'
  PROVE  WithinBudget(Spared(q, Q))'
<1>1. PICK T : T = Spared(q, Q)'
  OBVIOUS
<1>2. PICK S : S = Spared(p, P)
  OBVIOUS
<1>3. S \in SUBSET Present
  BY <1>2 DEF Spared, Charged
<1>4. \A k \in T : k \in Keys /\ (k \in Charged(Q))' /\ disk'[Entry(k)] # None /\ ~Doomed(q, k)'
  BY <1>1 DEF Spared, Charged, Present
<1>5. \A k \in T : k \in S /\ Keeps(Entry(k)) /\ disk'[Entry(k)] # None
  BY <1>2, <1>4 DEF ChargesFall, Spared
<1>6. WithinBudget(T)'
  BY <1>2, <1>3, <1>5, StaysWithin
<1>7. QED
  BY <1>1, <1>6

LEMMA UnpaidFalls ==
  ASSUME PlaceInv, NEW S, S \in SUBSET Present, WithinBudget(S),
         \A k \in Keys : (k \in Unpaid)' => k \in S /\ Keeps(Entry(k))
  PROVE  Bounded'
<1>1. PICK T : T = Unpaid'
  OBVIOUS
<1>2. \A k \in T : k \in Keys /\ (k \in Unpaid)' /\ disk'[Entry(k)] # None
  BY <1>1 DEF Unpaid, Present
<1>3. \A k \in T : k \in S /\ Keeps(Entry(k)) /\ disk'[Entry(k)] # None
  BY <1>2
<1>4. WithinBudget(T)'
  BY <1>3, StaysWithin
<1>5. QED
  BY <1>1, <1>4 DEF Bounded, Unpaid

(* A prune in progress goes on with what it has listed.                    *)
LEMMA EvictStep ==
  ASSUME PlaceInv, PlaceInv', NEW p \in Live, Step(p), (p \in Evicting)', ~List(p)
  PROVE  p \in Evicting /\ (Open(p) \/ Unlink(p) \/ Rmdir(p))
<1>1. TypeOK /\ TypeOK' /\ p \in Pids /\ proc'[p].pc = "evict"
  BY DEF PlaceInv, Evicting, Live
<1>2. proc'[p] \in Process /\ proc[p] \in Process /\ proc[p].pc # "clear"
  <2>1. proc'[p] \in Process
    BY <1>1, KindsNext, CleanerFields, IdleFields
  <2>2. proc[p] \in Process
    BY <2>1, StepFields DEF Continues
  <2>3. QED
    BY <2>1, <2>2, ProcessFields
<1>3. ASSUME NEW pc, pc \in {"check", "read", "locate", "compile", "meta", "aside", "publish",
                             "prune", "execute", "failed"}, Goto(p, pc)
      PROVE  FALSE
  BY <1>1, <1>2, <1>3, GotoStep
<1>4. ~(proc' = [proc EXCEPT ![p] = Idle])
  BY <1>1, <1>2, EndStep, IdleFields
<1>5. ~(CheckMeta(p) \/ ReadMeta(p) \/ Locate(p) \/ Compile(p) \/ CompileFails(p) \/ WriteMeta(p))
  BY <1>3, <1>4, Zenon DEF CheckMeta, ReadMeta, Locate, Compile, CompileFails, WriteMeta
<1>6. ~(MoveAside(p) \/ Publish(p) \/ ListFails(p) \/ Removed(p))
  BY <1>2, <1>3, <1>4, Zenon DEF MoveAside, Publish, ListFails, Removed
<1>7. Open(p) \/ Unlink(p) \/ Rmdir(p)
  BY <1>5, <1>6 DEF Step
<1>8. proc[p].pc = "evict"
  <2>1. Opened(p) => proc[p].pc = "evict"
    <3>1. Works(p) /\ Removes(p)
      BY <1>1, <1>2, Kinds DEF PlaceInv
    <3>2. "victim" \notin DOMAIN Nothing
      BY Removals, RemovalFields
    <3>3. QED
      BY <3>1, <3>2 DEF Removes, Opened
  <2>2. QED
    BY <1>2, <1>7, <2>1 DEF Open, Unlink, Rmdir
<1>9. QED
  BY <1>7, <1>8 DEF Evicting

LEMMA DoomedStep ==
  ASSUME PlaceInv, NEW p \in Evicting, Open(p) \/ Unlink(p) \/ Rmdir(p),
         NEW k \in Keys, Keeps(Entry(k)), disk'[Entry(k)] # None, Doomed(p, k)
  PROVE  Doomed(p, k)'
<1>1. TypeOK /\ p \in Pids /\ p \in Live /\ proc[p].pc = "evict" /\ proc[p] \in Process
  BY Kinds, CleanerFields, IdleFields DEF PlaceInv, Evicting, Live
<1>2. disk'[Entry(k)] = disk[Entry(k)] /\ disk[Entry(k)] # None
  BY DEF Keeps
<1>3. CASE Open(p)
  <2>1. PICK path \in proc[p].removal.todo :
          LET todo == proc[p].removal.todo \ {path}
              removal == IF disk[path] = None THEN [todo |-> todo]
                         ELSE [todo |-> todo, path |-> path, victim |-> disk[path]]
          IN  removal \in Removal /\ proc' = [proc EXCEPT ![p].removal = removal]
    BY <1>1, <1>3, OpenPlaces
  <2> DEFINE todo == proc[p].removal.todo \ {path}
             removal == IF disk[path] = None THEN [todo |-> todo]
                        ELSE [todo |-> todo, path |-> path, victim |-> disk[path]]
  <2>2. Entry(k) \in proc[p].removal.todo
    BY <1>3 DEF Open, Doomed
  <2>3. removal \in Removal /\ proc' = [proc EXCEPT ![p].removal = removal]
    BY <2>1
  <2>4. proc'[p].removal = removal
    <3> HIDE DEF removal
    <3>1. QED
      BY <1>1, <2>3, RemovalStep
  <2>5. CASE path = Entry(k)
    <3>1. /\ "victim" \in DOMAIN proc'[p].removal
          /\ proc'[p].removal.path = Entry(k) /\ proc'[p].removal.victim = disk'[Entry(k)]
      BY <1>2, <2>4, <2>5
    <3>2. QED
      BY <3>1 DEF Doomed, Opened
  <2>6. CASE path # Entry(k)
    <3>1. Entry(k) \in proc'[p].removal.todo
      BY <2>2, <2>4, <2>6
    <3>2. QED
      BY <3>1 DEF Doomed
  <2>7. QED
    BY <2>5, <2>6
<1>4. CASE Unlink(p)
  BY <1>2, <1>4 DEF Unlink, Doomed, Opened
<1>5. CASE Rmdir(p)
  <2>1. PICK removal \in {Nothing, [todo |-> proc[p].removal.todo]} :
          /\ removal \in Removal
          /\ proc' = [proc EXCEPT ![p].removal = removal]
          /\ removal = [todo |-> proc[p].removal.todo]
    BY <1>1, <1>5, RmdirStep
  <2>2. proc'[p].removal.todo = proc[p].removal.todo
    BY <1>1, <2>1, RemovalStep
  <2>3. ASSUME Entry(k) \notin proc[p].removal.todo
        PROVE  FALSE
    <3>1. proc[p].removal.path = Entry(k) /\ proc[p].removal.victim = disk[Entry(k)]
      BY <2>3 DEF Doomed
    <3>2. PartsAt(Entry(k)) = {}
      BY <1>2, <1>5, <3>1 DEF Rmdir, PartsAt
    <3>3. Drop({Entry(k)})
      BY <1>1, <1>5, <3>1, <3>2, RmdirFiles
    <3>4. disk'[Entry(k)] = None
      BY <3>3, EntryPaths DEF Drop
    <3>5. QED
      BY <3>4
  <2>4. QED
    BY <2>2, <2>3 DEF Doomed
<1>6. QED
  BY <1>3, <1>4, <1>5

(* Most steps charge nothing new and spare nothing more.                   *)
LEMMA StepBudget ==
  ASSUME PlaceInv, PlaceInv', BudgetInv, NEW p \in Live, Step(p)
  PROVE  BudgetInv'
<1>1. TypeOK /\ TypeOK' /\ p \in Pids
  BY DEF PlaceInv, Live
<1>2. OthersStay(p) /\ Continues(p)
  BY StepFields
<1>3. ASSUME NEW k \in Keys
      PROVE  \/ Keeps(Entry(k))
             \/ /\ Publish(p) /\ Swaps(p) /\ disk'[Entry(k)] = proc[p].run
                /\ proc[p].run \in unpruned'
  <2>1. Entry(k) \in Path
    BY EntryPaths
  <2>2. MoveAside(p) \/ Compile(p) \/ Publish(p) =>
          Works(p) /\ proc[p] \in Process /\ proc[p].key \in Keys
    <3>1. MoveAside(p) \/ Compile(p) \/ Publish(p) => Works(p)
      BY DEF MoveAside, Compile, Publish, Works
    <3>2. QED
      BY <1>1, <3>1, Kinds, ProcessFields
  <2>3. CASE Publish(p) /\ Swaps(p) /\ Entry(k) = Entry(proc[p].key)
    <3>1. disk'[Entry(k)] = proc[p].run
      BY <1>1, <2>1, <2>2, <2>3, SwapFiles
    <3>2. proc[p].run \in unpruned'
      BY <2>3 DEF Publish, Swaps
    <3>3. QED
      BY <2>3, <3>1, <3>2
  <2>4. CASE ~(Publish(p) /\ Swaps(p) /\ Entry(k) = Entry(proc[p].key))
    <3>1. MoveAside(p) \/ Compile(p) =>
            Entry(k) # Trash(p, proc[p].key) /\ Entry(k) # Staging(p, proc[p].key)
      BY <1>1, <2>2, Paths
    <3>2. QED
      BY <2>1, <2>4, <3>1, FilesKept
  <2>5. QED
    BY <2>3, <2>4
<1>4. ASSUME NEW q \in Evicting'
      PROVE  /\ q \in Evicting \/ (q = p /\ List(p))
             /\ proc[q] \in Process /\ proc'[q] \in Process /\ proc'[q].run = proc[q].run
             /\ ~(q = p /\ Publish(p)) /\ ~(q = p /\ Removed(p))
  <2>1. q \in Pids /\ proc'[q].pc = "evict" /\ proc'[q] \in Process
    BY <1>1, KindsNext, CleanerFields, IdleFields DEF Evicting, Live
  <2>2. CASE q = p
    <3>1. proc[q] \in Process /\ proc'[q].run = proc[q].run
      BY <1>2, <2>1, <2>2 DEF Continues
    <3>2. (p \in Evicting /\ (Open(p) \/ Unlink(p) \/ Rmdir(p))) \/ List(p)
      BY <2>2, EvictStep
    <3>3. ~Publish(p)
      BY <1>1, <2>1, <2>2, <3>1, GotoStep DEF Publish
    <3>4. ~Removed(p)
      BY <1>1, <2>1, <2>2, <3>1, GotoStep, ProcessFields DEF Removed
    <3>5. QED
      BY <2>1, <2>2, <3>1, <3>2, <3>3, <3>4
  <2>3. CASE q # p
    <3>1. proc'[q] = proc[q]
      BY <1>2, <2>1, <2>3 DEF OthersStay
    <3>2. q \in Live
      BY <2>1, <3>1, ProcessFields DEF Live
    <3>3. QED
      BY <2>1, <2>3, <3>1, <3>2 DEF Evicting
  <2>4. QED
    BY <2>2, <2>3
(* The new entry of a publication is charged to nobody yet.                *)
<1>5. ASSUME NEW Q \in SUBSET Evicting', NEW k \in Keys, (k \in Charged(Q))'
      PROVE  /\ Keeps(Entry(k)) /\ disk'[Entry(k)] # None
             /\ k \in Present /\ disk'[Entry(k)] = disk[Entry(k)]
             /\ \/ disk[Entry(k)] \notin unpruned'
                \/ \E q \in Q : proc[q].run = disk[Entry(k)]
  <2>1. /\ disk'[Entry(k)] # None
        /\ disk'[Entry(k)] \notin unpruned' \/ \E q \in Q : proc'[q].run = disk'[Entry(k)]
    BY <1>5 DEF Charged, Present
  <2>2. Keeps(Entry(k))
    <3>1. SUFFICES ASSUME Publish(p), disk'[Entry(k)] = proc[p].run, proc[p].run \in unpruned'
                   PROVE  FALSE
      BY <1>3
    <3>2. PICK q \in Q : proc'[q].run = proc[p].run
      BY <2>1, <3>1
    <3>3. Works(q) /\ Works(p) /\ proc[q].run = proc[p].run
      <4>1. q \in Pids /\ proc[q] \in Process /\ proc'[q].run = proc[q].run
        BY <1>4, <3>2 DEF Evicting, Live
      <4>2. Works(p)
        BY <3>1 DEF Publish, Works
      <4>3. QED
        BY <1>1, <3>2, <4>1, <4>2, Kinds
    <3>4. q = p
      BY <1>1, <3>3 DEF PlaceInv, RunsDiffer, Works, Live
    <3>5. QED
      BY <1>4, <3>1, <3>2, <3>4
  <2>3. QED
    BY <1>4, <2>1, <2>2 DEF Keeps, Present
<1>6. CASE ~List(p) /\ ~(Removed(p) /\ proc[p].pc = "evict")
  <2>1. unpruned \subseteq unpruned'
    BY <1>6 DEF Step, CheckMeta, ReadMeta, Locate, Compile, CompileFails, WriteMeta, MoveAside,
                Publish, ListFails, Open, Unlink, Rmdir, Removed
  <2>2. ASSUME NEW Q \in SUBSET Evicting'
        PROVE  ChargesFall(Q, Q) /\ Q \in SUBSET Evicting
    BY <1>4, <1>5, <1>6, <2>1, <2>2 DEF ChargesFall, Charged
  <2>3. Bounded'
    <3>1. Unpaid \in SUBSET Present /\ WithinBudget(Unpaid)
      BY DEF Unpaid, BudgetInv, Bounded
    <3>2. ASSUME NEW k \in Keys, (k \in Unpaid)'
          PROVE  k \in Unpaid /\ Keeps(Entry(k))
      <4>1. (k \in Charged({}))'
        BY <3>2 DEF Unpaid, Charged
      <4>2. {} \in SUBSET Evicting'
        OBVIOUS
      <4>3. /\ Keeps(Entry(k)) /\ k \in Present /\ disk[Entry(k)] \notin unpruned'
        BY <1>5, <4>1, <4>2
      <4>4. QED
        BY <2>1, <4>3 DEF Unpaid
    <3>3. QED
      BY <3>1, <3>2, UnpaidFalls
  <2>4. ASSUME NEW Q \in SUBSET Evicting', Q # {}
        PROVE  \E q \in Q : WithinBudget(Spared(q, Q))'
    <3>1. PICK q \in Q : WithinBudget(Spared(q, Q))
      BY <2>2, <2>4 DEF BudgetInv, Spared
    <3>2. ASSUME NEW k \in Keys, (k \in Charged(Q))', Doomed(q, k)
          PROVE  Doomed(q, k)'
      <4>1. disk'[Entry(k)] = disk[Entry(k)] /\ disk'[Entry(k)] # None /\ Keeps(Entry(k))
        BY <1>5, <3>2
      <4>2. CASE q = p
        BY <1>4, <1>6, <2>2, <3>2, <4>1, <4>2, EvictStep, DoomedStep
      <4>3. CASE q # p
        <5>1. q \in Pids
          BY <2>2 DEF Evicting, Live
        <5>2. proc'[q] = proc[q]
          BY <1>2, <4>3, <5>1 DEF OthersStay
        <5>3. QED
          BY <3>2, <4>1, <5>2 DEF Doomed, Opened
      <4>4. QED
        BY <4>2, <4>3
    <3>3. QED
      BY <2>2, <3>1, <3>2, EvictsFall
  <2>5. QED
    BY <2>3, <2>4 DEF BudgetInv, Spared
(* A listing spares what is within the budget; who spared before, and has  *)
(* listed, still does.                                                     *)
<1>7. CASE List(p)
  <2>1. unpruned' = unpruned /\ Works(p) /\ proc[p] \in Process /\ p \notin Evicting
    <3>1. unpruned' = unpruned /\ Works(p)
      BY <1>7 DEF List, Works
    <3>2. QED
      BY <1>1, <1>7, <3>1, Kinds DEF List, Evicting
  <2>2. Bounded'
    <3>1. Unpaid \in SUBSET Present /\ WithinBudget(Unpaid)
      BY DEF Unpaid, BudgetInv, Bounded
    <3>2. ASSUME NEW k \in Keys, (k \in Unpaid)'
          PROVE  k \in Unpaid /\ Keeps(Entry(k))
      <4>1. (k \in Charged({}))'
        BY <3>2 DEF Unpaid, Charged
      <4>2. {} \in SUBSET Evicting'
        OBVIOUS
      <4>3. /\ Keeps(Entry(k)) /\ k \in Present /\ disk[Entry(k)] \notin unpruned'
        BY <1>5, <4>1, <4>2
      <4>4. QED
        BY <2>1, <4>3 DEF Unpaid
    <3>3. QED
      BY <3>1, <3>2, UnpaidFalls
  <2>3. ASSUME NEW Q \in SUBSET Evicting', Q # {}, p \notin Q
        PROVE  \E q \in Q : WithinBudget(Spared(q, Q))'
    <3>1. Q \in SUBSET Evicting
      BY <1>4, <2>3
    <3>2. ChargesFall(Q, Q)
      BY <1>4, <1>5, <2>1, <2>3 DEF ChargesFall, Charged
    <3>3. PICK q \in Q : WithinBudget(Spared(q, Q))
      BY <2>3, <3>1 DEF BudgetInv, Spared
    <3>4. q # p /\ q \in Pids
      BY <2>3, <3>1 DEF Evicting, Live
    <3>5. proc'[q] = proc[q]
      BY <1>2, <3>4 DEF OthersStay
    <3>6. ASSUME NEW k \in Keys, (k \in Charged(Q))', Doomed(q, k)
          PROVE  Doomed(q, k)'
      <4>1. disk'[Entry(k)] = disk[Entry(k)]
        BY <1>5, <2>3, <3>6
      <4>2. QED
        BY <3>5, <3>6, <4>1 DEF Doomed, Opened
    <3>7. QED
      BY <3>2, <3>3, <3>6, EvictsFall
  <2>4. ASSUME NEW Q \in SUBSET Evicting', p \in Q
        PROVE  \E q \in Q : WithinBudget(Spared(q, Q))'
    <3>1. proc'[p].removal = Listed
      BY <1>1, <1>7, <2>1, ListStep
    <3>2. PICK S : S = Present \ Evicted
      OBVIOUS
    <3>3. PICK T : T = Spared(p, Q)'
      OBVIOUS
    <3>4. WithinBudget(S) /\ S \in SUBSET Present
      BY <3>2, RestWithin
    <3>5. ASSUME NEW k \in T
          PROVE  k \in S /\ Keeps(Entry(k)) /\ disk'[Entry(k)] # None
      <4>1. k \in Keys /\ (k \in Charged(Q))' /\ ~Doomed(p, k)'
        BY <3>3 DEF Spared, Charged, Present
      <4>2. k \in Present /\ Keeps(Entry(k)) /\ disk'[Entry(k)] # None
        BY <1>5, <2>4, <4>1
      <4>3. Entry(k) \notin Listed.todo
        BY <3>1, <4>1 DEF Doomed
      <4>4. k \notin Evicted
        BY <4>3 DEF Listed
      <4>5. QED
        BY <3>2, <4>2, <4>4
    <3>6. WithinBudget(T)'
      BY <3>4, <3>5, StaysWithin
    <3>7. WithinBudget(Spared(p, Q))'
      BY <3>3, <3>6
    <3>8. QED
      BY <2>4, <3>7
  <2>5. QED
    BY <2>2, <2>3, <2>4 DEF BudgetInv, Spared
(* A run that has removed all it listed spares everything.                 *)
<1>8. CASE Removed(p) /\ proc[p].pc = "evict"
  <2>1. /\ unpruned' = unpruned \ {proc[p].run} /\ p \in Evicting /\ QuietFiles
        /\ proc[p].removal = Nothing
    BY <1>8 DEF Removed, Evicting, QuietFiles
  <2>2. \A k \in Keys : ~Doomed(p, k)
    <3>1. Nothing.todo = {} /\ "victim" \notin DOMAIN Nothing
      BY Removals, RemovalFields
    <3>2. QED
      BY <2>1, <3>1 DEF Doomed, Opened
  <2>3. ASSUME NEW Q \in SUBSET Evicting'
        PROVE  /\ Q \in SUBSET Evicting /\ p \notin Q
               /\ ChargesFall(Q \cup {p}, Q)
    <3>1. Q \in SUBSET Evicting /\ p \notin Q
      BY <1>4, <1>7, <1>8
    <3>2. QED
      BY <1>5, <2>1, <3>1 DEF ChargesFall, Charged
  <2>4. Bounded'
    <3>1. WithinBudget(Spared(p, {p}))
      <4>1. {p} \in SUBSET Evicting /\ {p} # {}
        BY <2>1
      <4>2. PICK q \in {p} : WithinBudget(Spared(q, {p}))
        BY <4>1, Zenon DEF BudgetInv, Spared
      <4>3. QED
        BY <4>2
    <3>2. PICK S : S = Spared(p, {p})
      OBVIOUS
    <3>3. S \in SUBSET Present /\ WithinBudget(S)
      BY <3>1, <3>2 DEF Spared, Charged
    <3>4. ASSUME NEW k \in Keys, (k \in Unpaid)'
          PROVE  k \in S /\ Keeps(Entry(k))
      <4>1. (k \in Charged({}))'
        BY <3>4 DEF Unpaid, Charged
      <4>2. ChargesFall({} \cup {p}, {})
        BY <2>3
      <4>3. {} \cup {p} = {p}
        OBVIOUS
      <4>4. k \in Charged({p}) /\ Keeps(Entry(k))
        BY <4>1, <4>2, <4>3 DEF ChargesFall
      <4>5. QED
        BY <2>2, <3>2, <4>4 DEF Spared
    <3>5. QED
      BY <3>3, <3>4, UnpaidFalls
  <2>5. ASSUME NEW Q \in SUBSET Evicting', Q # {}
        PROVE  \E q \in Q : WithinBudget(Spared(q, Q))'
    <3> DEFINE P == Q \cup {p}
    <3>1. P \in SUBSET Evicting /\ P # {} /\ ChargesFall(P, Q)
      BY <2>1, <2>3
    <3> HIDE DEF P
    <3>2. PICK w \in P : WithinBudget(Spared(w, P))
      BY <3>1 DEF BudgetInv, Spared
    <3>3. PICK q \in Q : w = p \/ w = q
      BY <2>5, <3>2 DEF P
    <3>4. ASSUME NEW k \in Keys, (k \in Charged(Q))', Doomed(w, k)
          PROVE  Doomed(q, k)'
      <4>1. w # p
        BY <2>2, <3>4
      <4>2. proc'[q] = proc[q] /\ q = w
        BY <1>2, <2>3, <3>3, <4>1 DEF OthersStay, Evicting, Live
      <4>3. QED
        BY <2>1, <3>4, <4>2 DEF Doomed, Opened, QuietFiles
    <3>5. WithinBudget(Spared(q, Q))'
      BY <3>1, <3>2, <3>4, EvictsFall
    <3>6. QED
      BY <3>5
  <2>6. QED
    BY <2>4, <2>5 DEF BudgetInv, Spared
<1>9. QED
  BY <1>6, <1>7, <1>8

LEMMA QuietBudget ==
  ASSUME PlaceInv, PlaceInv', BudgetInv, QuietFiles, unpruned' = unpruned,
         \A q \in Evicting' : /\ q \in Evicting
                              /\ proc'[q].run = proc[q].run
                              /\ proc'[q].removal = proc[q].removal
  PROVE  BudgetInv'
<1>1. \A k \in Keys : Keeps(Entry(k))
  BY DEF Keeps, QuietFiles
<1>2. ASSUME NEW Q \in SUBSET Evicting'
      PROVE  ChargesFall(Q, Q) /\ Q \in SUBSET Evicting
  BY <1>1, <1>2 DEF ChargesFall, Charged, Present, QuietFiles
<1>3. Bounded'
  <2>1. Unpaid \in SUBSET Present /\ WithinBudget(Unpaid)
    BY DEF Unpaid, BudgetInv, Bounded
  <2>2. \A k \in Keys : (k \in Unpaid)' => k \in Unpaid
    BY DEF Unpaid, Present, QuietFiles
  <2>3. QED
    BY <1>1, <2>1, <2>2, UnpaidFalls
<1>4. ASSUME NEW Q \in SUBSET Evicting', Q # {}
      PROVE  \E q \in Q : WithinBudget(Spared(q, Q))'
  <2>1. PICK q \in Q : WithinBudget(Spared(q, Q))
    BY <1>2, <1>4 DEF BudgetInv, Spared
  <2>2. \A k \in Keys : Doomed(q, k) => Doomed(q, k)'
    BY <1>4 DEF Doomed, Opened, QuietFiles
  <2>3. QED
    BY <1>2, <1>4, <2>1, <2>2, EvictsFall
<1>5. QED
  BY <1>3, <1>4 DEF BudgetInv, Spared

LEMMA NextBudget ==
  PlaceInv /\ PlaceInv' /\ BudgetInv /\ [Next]_vars => BudgetInv'
<1> SUFFICES ASSUME PlaceInv, PlaceInv', BudgetInv, [Next]_vars
             PROVE  BudgetInv'
  OBVIOUS
<1>1. TypeOK /\ TypeOK'
  BY DEF PlaceInv
<1>2. ASSUME NEW p \in Pids, NEW what \in Process \cup Cleaner, Start(p, what),
             what.pc \in {"check", "clear"}, UNCHANGED <<disk, tree, unpruned>>
      PROVE  BudgetInv'
  <2>1. /\ proc[p] = Idle /\ proc'[p] = what
        /\ \A q \in Pids \ {p} : Alike(q)
    BY <1>1, <1>2, StartStep
  <2>2. ASSUME NEW q \in Evicting'
        PROVE  /\ q \in Evicting
               /\ proc'[q].run = proc[q].run /\ proc'[q].removal = proc[q].removal
    <3>1. q \in Pids /\ proc'[q].pc = "evict"
      BY DEF Evicting, Live
    <3>2. q # p
      BY <1>2, <2>1, <3>1
    <3>3. proc'[q] \in Process
      BY <1>1, <3>1, KindsNext, CleanerFields, IdleFields
    <3>4. proc[q] \in Process
      BY <1>1, <2>1, <3>1, <3>2, <3>3, Kinds, CleanerFields, IdleFields DEF Alike
    <3>5. QED
      BY <2>1, <3>1, <3>2, <3>4, ProcessFields DEF Alike, Evicting, Live
  <2>3. QED
    BY <1>2, <2>2, QuietBudget DEF QuietFiles
<1>3. ASSUME NEW p \in Pids, NEW f \in Files, Begin(p, f)
      PROVE  BudgetInv'
  <2> DEFINE what == [pc |-> "check", file |-> f, key |-> ContentKey(f), dsc |-> dsc,
                      run |-> clock + 1, removal |-> Nothing,
                      steady |-> TRUE, alone |-> Live = {}]
  <2>1. Start(p, what) /\ UNCHANGED <<disk, tree, unpruned>>
    BY <1>3 DEF Begin
  <2>2. clock + 1 \in Run
    BY <2>1, ConstantsAssumption DEF PlaceInv, TypeOK, Start, Run
  <2>3. what \in Process
    BY <2>2, Removals DEF Process, PlaceInv, TypeOK, ContentKey
  <2>4. what.pc \in {"check", "clear"}
    OBVIOUS
  <2> HIDE DEF what
  <2>5. QED
    BY <1>2, <2>1, <2>3, <2>4
<1>4. ASSUME NEW p \in Pids, Clear(p)
      PROVE  BudgetInv'
  <2> DEFINE what == [pc |-> "clear", removal |-> [todo |-> {path \in Path : disk[path] # None}],
                      steady |-> TRUE, alone |-> Live = {}]
  <2>1. Start(p, what) /\ UNCHANGED <<disk, tree, unpruned>>
    BY <1>4 DEF Clear
  <2>2. what \in Cleaner
    BY Removals DEF Cleaner
  <2>3. what.pc \in {"check", "clear"}
    OBVIOUS
  <2> HIDE DEF what
  <2>4. QED
    BY <1>2, <2>1, <2>2, <2>3
<1>5. ASSUME NEW p \in Pids, Exit(p) \/ Kill(p)
      PROVE  BudgetInv'
  <2>1. proc' = [proc EXCEPT ![p] = Idle] /\ UNCHANGED <<disk, tree, unpruned>>
    BY <1>5 DEF Exit, Kill
  <2>2. proc'[p] = Idle /\ OthersStay(p)
    BY <1>1, <2>1, EndStep
  <2>3. ASSUME NEW q \in Evicting'
        PROVE  q \in Evicting /\ proc'[q] = proc[q]
    BY <2>2, IdleFields DEF Evicting, Live, OthersStay
  <2>4. QED
    BY <2>1, <2>3, QuietBudget DEF QuietFiles
<1>6. CASE Change
  <2>1. \A q \in Pids : Alike(q)
    BY <1>1, <1>6, ChangeStep
  <2>2. ASSUME NEW q \in Evicting'
        PROVE  /\ q \in Evicting
               /\ proc'[q].run = proc[q].run /\ proc'[q].removal = proc[q].removal
    <3>1. q \in Pids /\ proc'[q].pc = "evict"
      BY DEF Evicting, Live
    <3>2. proc'[q] \in Process
      BY <1>1, <3>1, KindsNext, CleanerFields, IdleFields
    <3>3. proc[q] \in Process
      BY <1>1, <2>1, <3>1, <3>2, Kinds, CleanerFields, IdleFields DEF Alike
    <3>4. QED
      BY <2>1, <3>1, <3>3, ProcessFields DEF Alike, Evicting, Live
  <2>3. QED
    BY <1>6, <2>2, QuietBudget DEF QuietFiles, Change
<1>7. CASE UNCHANGED vars
  BY <1>7, QuietBudget DEF vars, Evicting, Live, QuietFiles
<1>8. QED
  BY <1>3, <1>4, <1>5, <1>6, <1>7, StepBudget DEF Next

LEMMA InitBudget ==
  Init => BudgetInv
<1> SUFFICES ASSUME Init
             PROVE  BudgetInv
  OBVIOUS
<1>1. Evicting = {} /\ Present = {}
  BY EntryPaths DEF Init, Evicting, Live, Present
<1>2. PlaceInv
  BY InitPlaces
<1>3. WithinBudget({})
  <2>1. WithinBudget(Present \ Evicted)
    BY <1>2, RestWithin
  <2>2. Present \ Evicted = {}
    BY <1>1
  <2>3. QED
    BY <2>1, <2>2
<1>4. {k \in Present : disk[Entry(k)] \notin unpruned} = {}
  BY <1>1
<1>5. QED
  BY <1>1, <1>3, <1>4 DEF BudgetInv, Bounded

(* Of the runs that prune at a time, the last to list spares no more than  *)
(* the budget of what they all have made (prune_loose).                    *)
THEOREM BudgetInvariant == Spec => []BudgetInv
<1>1. Spec => []PlaceInv
  BY PlaceInvariant
<1>2. QED
  BY <1>1, InitBudget, NextBudget, PTL DEF Spec

(* Entries whose run has pruned are within MAX_ENTRIES and MAX_BYTES.      *)
THEOREM CacheBounded == Spec => []Bounded
<1>1. BudgetInv => Bounded
  BY DEF BudgetInv
<1>2. QED
  BY <1>1, BudgetInvariant, PTL

-----------------------------------------------------------------------------
(* AloneInv is inductive: trees without their modules are those that are   *)
(* removed, and a step of a process that is alone finds what it left.      *)

LEMMA OpenedStep ==
  ASSUME PlaceInv, NEW p \in Live, Opened(p)
  PROVE  /\ proc[p].pc \in {"evict", "clear"}
         /\ Step(p) => Unlink(p) \/ Rmdir(p)
<1>1. TypeOK /\ p \in Pids /\ proc[p].removal # Nothing
  BY Removals, RemovalFields DEF PlaceInv, Live, Opened
<1>2. proc[p].pc \in {"evict", "clear"}
  <2>1. CASE proc[p] \in Process
    <3>1. Works(p) /\ Removes(p)
      BY <1>1, <2>1, Kinds DEF PlaceInv
    <3>2. QED
      BY <1>1, <3>1 DEF Removes
  <2>2. CASE proc[p] \in Cleaner
    BY <2>2, CleanerFields
  <2>3. QED
    BY <1>1, <2>1, <2>2, Kinds DEF Live
<1>3. Step(p) => Unlink(p) \/ Rmdir(p)
  BY <1>1, <1>2 DEF Step, CheckMeta, ReadMeta, Locate, Compile, CompileFails, WriteMeta,
                    MoveAside, Publish, List, ListFails, Open, Removed
<1>4. QED
  BY <1>2, <1>3

LEMMA TouchedStep ==
  ASSUME PlaceInv, NEW p \in Live, Step(p), NEW t, Touched(t), tree[t].parts # {}
  PROVE  Touched(t)'
<1>1. cut' = cut /\ OthersStay(p)
  BY StepFields
<1>2. CASE t \in cut
  BY <1>1, <1>2 DEF Touched
<1>3. ASSUME NEW q \in Live, Opened(q), proc[q].removal.victim = t
      PROVE  Touched(t)'
  <2>1. proc'[q] = proc[q]
    <3>1. CASE q = p
      BY <1>3, <3>1, OpenedStep DEF Unlink, Rmdir
    <3>2. CASE q # p
      BY <1>1, <3>2 DEF OthersStay, Live
    <3>3. QED
      BY <3>1, <3>2
  <2>2. QED
    BY <1>3, <2>1 DEF Touched, Live, Opened
<1>4. QED
  BY <1>2, <1>3 DEF Touched

(* Where a tree that is at some path after a step was before it, and which *)
(* of its output is left.                                                  *)
Stems(p, t) ==
  /\ \E path \in Path : disk[path] = t
  /\ \/ tree'[t].parts \cap Output = tree[t].parts \cap Output
     \/ /\ Unlink(p) /\ proc[p].removal.victim = t
        /\ tree'[t].parts \subseteq tree[t].parts

LEMMA DropStems ==
  ASSUME PlaceInv, NEW p, NEW paths \in SUBSET Path, Drop(paths), clock' = clock,
         NEW path \in Path, disk'[path] # None
  PROVE  Stems(p, disk'[path])
<1>1. disk'[path] = disk[path] /\ tree'[disk[path]] = tree[disk[path]]
  <2>1. TypeOK /\ Placed
    BY DEF PlaceInv
  <2>2. QED
    BY <2>1, Dropping
<1>2. QED
  BY <1>1 DEF Stems

LEMMA StepStems ==
  ASSUME PlaceInv, NEW p \in Live, Step(p), NEW path \in Path, disk'[path] # None
  PROVE  Stems(p, disk'[path]) \/ tree'[disk'[path]].parts \cap Output = Output
<1>1. TypeOK /\ p \in Pids /\ clock' = clock
  BY StepFields DEF PlaceInv, Live
<1>2. CASE QuietFiles
  BY <1>2 DEF Stems, QuietFiles
<1>3. ASSUME NEW pc, proc[p].pc = pc,
             pc \in {"compile", "meta", "aside", "publish", "prune"}
      PROVE  /\ Works(p) /\ proc[p].key \in Keys /\ proc[p].run \in Run
             /\ Entry(proc[p].key) \in Path /\ Staging(p, proc[p].key) \in Path
             /\ Trash(p, proc[p].key) \in Path
             /\ Entry(proc[p].key) # Trash(p, proc[p].key)
             /\ Staging(p, proc[p].key) # Entry(proc[p].key)
  BY <1>1, <1>3, Kinds, ProcessFields, Paths DEF Works
<1>4. CASE Compile(p)
  <2>1. LET r == proc[p].run
        IN  /\ \A other \in Path : disk'[other] = IF other = Staging(p, proc[p].key) THEN r
                                                ELSE disk[other]
            /\ tree'[r].parts = Output
            /\ \A other \in Path \ {Staging(p, proc[p].key)} : disk[other] # None =>
                 tree'[disk[other]] = tree[disk[other]]
    <3> DEFINE new == [parts |-> {"artifact", "modules"}, content |-> source[proc[p].file],
                       by |-> dsc, meta |-> proc[p].dsc, age |-> clock, steady |-> proc[p].steady]
    <3>1. Works(p)
      BY <1>3, <1>4 DEF Compile
    <3>2. LET r == proc[p].run
          IN  /\ \A other \in Path : disk'[other] = IF other = Staging(p, proc[p].key) THEN r
                                                  ELSE disk[other]
              /\ tree'[r] = new
              /\ \A other \in Path \ {Staging(p, proc[p].key)} : disk[other] # None =>
                   tree'[disk[other]] = tree[disk[other]]
      BY <1>1, <1>4, <3>1, CompileFiles, Zenon
    <3>3. new.parts = Output
      BY DEF Output
    <3> HIDE DEF new
    <3>4. QED
      BY <3>2, <3>3
  <2>2. CASE path = Staging(p, proc[p].key)
    BY <2>1, <2>2
  <2>3. CASE path # Staging(p, proc[p].key)
    BY <2>1, <2>3 DEF Stems
  <2>4. QED
    BY <2>2, <2>3
<1>5. CASE WriteMeta(p)
  <2>1. CASE disk[Staging(p, proc[p].key)] = None
    BY <1>2, <1>5, <2>1 DEF WriteMeta, QuietFiles
  <2>2. CASE disk[Staging(p, proc[p].key)] # None
    <3>1. /\ disk' = disk
          /\ tree'[proc[p].run].parts = tree[proc[p].run].parts \cup {"meta"}
          /\ SameTrees(proc[p].run)
      BY <1>1, <1>3, <1>5, <2>2, WriteMetaFiles DEF WriteMeta
    <3>2. disk[path] \in Run
      BY <1>1, <3>1 DEF TypeOK
    <3>3. tree'[disk[path]].parts \cap Output = tree[disk[path]].parts \cap Output
      BY <3>1, <3>2 DEF SameTrees, Output
    <3>4. QED
      BY <3>1, <3>3 DEF Stems
  <2>3. QED
    BY <2>1, <2>2
<1>6. CASE MoveAside(p)
  <2>1. LET k == proc[p].key
        IN  /\ \A other \in Path : disk'[other] = IF other = Trash(p, k) THEN disk[Entry(k)]
                                                  ELSE IF other = Entry(k) THEN None
                                                  ELSE disk[other]
            /\ \A other \in Path \ {Trash(p, k)} : disk[other] # None =>
                 tree'[disk[other]] = tree[disk[other]]
    BY <1>1, <1>3, <1>6, MoveAsideFiles DEF MoveAside
  <2>2. PICK old \in Path \ {Trash(p, proc[p].key)} : disk'[path] = disk[old]
    BY <1>3, <1>6, <2>1 DEF MoveAside
  <2>3. tree'[disk[old]] = tree[disk[old]]
    BY <2>1, <2>2
  <2>4. QED
    BY <2>2, <2>3 DEF Stems
<1>7. CASE Publish(p) /\ Swaps(p)
  <2>1. LET r == proc[p].run
            k == proc[p].key
        IN  /\ disk[Staging(p, k)] = r
            /\ \A other \in Path : disk'[other] = IF other = Entry(k) THEN r
                                                  ELSE IF other = Staging(p, k) THEN None
                                                  ELSE disk[other]
            /\ tree' = tree
    BY <1>1, <1>3, <1>7, SwapFiles DEF Publish
  <2>2. PICK old \in Path : disk'[path] = disk[old]
    BY <1>3, <1>7, <2>1 DEF Publish
  <2>3. QED
    BY <2>1, <2>2 DEF Stems
<1>8. CASE CompileFails(p) \/ List(p) \/ (Publish(p) /\ ~Swaps(p))
  <2>1. Works(p) /\ Staging(p, proc[p].key) \in Path /\ Trash(p, proc[p].key) \in Path
    BY <1>3, <1>8 DEF CompileFails, List, Publish
  <2>2. PICK paths \in SUBSET Path : Drop(paths)
    <3>1. /\ {Staging(p, proc[p].key)} \in SUBSET Path /\ {Trash(p, proc[p].key)} \in SUBSET Path
          /\ {Staging(p, proc[p].key), Trash(p, proc[p].key)} \in SUBSET Path
      BY <2>1
    <3>2. QED
      BY <1>1, <1>8, <2>1, <3>1, DropFiles
  <2>3. QED
    BY <1>1, <2>2, DropStems
<1>9. CASE Unlink(p)
  <2>1. LET t == proc[p].removal.victim
        IN  /\ t \in Run /\ disk' = disk
            /\ tree'[t].parts \subseteq tree[t].parts
            /\ SameTrees(t)
    BY <1>9, UnlinkFiles
  <2>2. disk[path] \in Run
    BY <1>1, <2>1 DEF TypeOK
  <2>3. QED
    BY <1>9, <2>1, <2>2 DEF SameTrees, Stems
<1>10. CASE Rmdir(p)
  <2>1. QuietFiles \/ (Drop({proc[p].removal.path}) /\ {proc[p].removal.path} \in SUBSET Path)
    BY <1>10, RmdirFiles
  <2>2. QED
    BY <1>1, <1>2, <2>1, DropStems
<1>11. CASE CheckMeta(p) \/ ReadMeta(p) \/ Locate(p) \/ ListFails(p) \/ Open(p) \/ Removed(p)
  BY <1>2, <1>11 DEF CheckMeta, ReadMeta, Locate, ListFails, Open, Removed, QuietFiles
<1>12. QED
  BY <1>4, <1>5, <1>6, <1>7, <1>8, <1>9, <1>10, <1>11 DEF Step

LEMMA StepWhole ==
  ASSUME PlaceInv, AloneInv, NEW p \in Live, Step(p)
  PROVE  Whole'
<1>1. SUFFICES ASSUME NEW path \in Path, NEW t, t = disk'[path], t # None,
                      Partial(tree'[t].parts)
               PROVE  Touched(t)'
  BY DEF Whole
<1>2. Stems(p, t)
  BY <1>1, StepStems DEF Partial
<1>3. PICK old \in Path : disk[old] = t
  BY <1>2 DEF Stems
<1>4. CASE Unlink(p) /\ proc[p].removal.victim = t
  <2>1. proc' = proc /\ Opened(p)
    BY <1>4 DEF Unlink
  <2>2. (p \in Live)' /\ "victim" \in DOMAIN proc'[p].removal /\ proc'[p].removal.victim = t
    BY <1>4, <2>1 DEF Live, Opened
  <2>3. QED
    BY <2>2 DEF Touched, Opened
<1>5. CASE tree'[t].parts \cap Output = tree[t].parts \cap Output
  <2>1. Partial(tree[t].parts)
    BY <1>1, <1>5 DEF Partial
  <2>2. Touched(t) /\ tree[t].parts # {}
    BY <1>1, <1>3, <2>1 DEF AloneInv, Whole, Partial
  <2>3. QED
    BY <2>2, TouchedStep
<1>6. QED
  BY <1>2, <1>4, <1>5 DEF Stems

(* The other steps change no tree, and who dies leaves what he has opened. *)
LEMMA QuietWhole ==
  ASSUME AloneInv, QuietFiles, cut \subseteq cut',
         \A q \in Live : Opened(q) =>
           \/ proc[q].removal.victim \in cut'
           \/ (q \in Live)' /\ proc'[q].removal = proc[q].removal
  PROVE  Whole'
<1>1. SUFFICES ASSUME NEW path \in Path, NEW t, t = disk[path], t # None,
                      Partial(tree[t].parts)
               PROVE  Touched(t)'
  BY DEF Whole, QuietFiles
<1>2. Touched(t)
  BY <1>1 DEF AloneInv, Whole
<1>3. CASE t \in cut
  BY <1>3 DEF Touched
<1>4. ASSUME NEW q \in Live, Opened(q), proc[q].removal.victim = t
      PROVE  Touched(t)'
  BY <1>4 DEF Touched, Opened
<1>5. QED
  BY <1>2, <1>3, <1>4 DEF Touched

(* A run does not evict the entry it has made, which is the newest.        *)
LEMMA OwnKept ==
  ASSUME PlaceInv, NEW p \in Pids, proc[p] \in Process, Newest(p),
         disk[Entry(proc[p].key)] = proc[p].run, tree[proc[p].run].age = proc[p].run
  PROVE  proc[p].key \notin Evicted
<1> DEFINE k == proc[p].key
           r == proc[p].run
<1>1. k \in Keys /\ r \in Run /\ r # None /\ r \in Nat
  BY ProcessFields, RunIds
<1>2. k \in Present
  BY <1>1 DEF Present
<1>3. ASSUME NEW j \in Present, j # k
      PROVE  Older(j, k)
  <2>1. j \in Keys /\ disk[Entry(j)] # None /\ Entry(j) # Entry(k)
    BY <1>3 DEF Present, Entry
  <2>2. disk[Entry(j)] # r
    BY <1>1, <2>1, EntryPaths DEF PlaceInv, Placed
  <2>3. tree[disk[Entry(j)]].age < r
    BY <2>1, <2>2, EntryPaths DEF Newest
  <2>4. QED
    BY <2>3 DEF Older, EntryTree
<1>4. ~Older(k, k)
  <2>1. k \in Nat /\ EntryTree(k).age = r
    BY <1>1, ConstantsAssumption DEF EntryTree
  <2> HIDE DEF k, r
  <2>2. QED
    BY <1>1, <2>1 DEF Older
<1>5. {j \in Present : ~Older(j, k)} = {k}
  BY <1>2, <1>3, <1>4
<1>6. WithinBudget({k})
  <2> HIDE DEF k, r
  <2>1. /\ IsFiniteSet({k}) /\ Cardinality({k}) = 1
        /\ IsFiniteSet({}) /\ Some({k}) = k /\ {k} \ {k} = {}
    BY FS_Singleton, FS_EmptySet DEF Some
  <2>2. Total(Weights, {}) = 0 /\ Total(Weights, {k}) = Weights[k] + Total(Weights, {})
    BY <2>1, TotalStep
  <2>3. EntrySize(k) \in Nat /\ EntrySize(k) <= MaxBytes /\ Weights[k] = EntrySize(k)
    BY <1>1, <1>2, Sizes DEF Weights
  <2>4. MapThenSumSet(EntrySize, {k}) = Total(Weights, {k})
    BY <1>1, <2>1, MapIsTotal
  <2>5. MapThenSumSet(EntrySize, {k}) = EntrySize(k)
    BY <2>2, <2>3, <2>4
  <2>6. QED
    BY <2>1, <2>3, <2>5, ConstantsAssumption DEF WithinBudget
<1>7. QED
  BY <1>5, <1>6 DEF Evicted

(* What a process that is alone finds is as it left it.                    *)
Lone(p) ==
  /\ Works(p) /\ proc[p] \in Process /\ proc[p].run = clock /\ Undisturbed(p)
  /\ proc'[p] \in Process
  /\ proc'[p].run = proc[p].run /\ proc'[p].key = proc[p].key
  /\ proc[p].key \in Keys /\ proc[p].run \in Run /\ proc[p].run # None

LEMMA LoneFinds ==
  ASSUME PlaceInv, NEW p \in Live, Lone(p), CheckMeta(p) \/ ReadMeta(p) \/ Locate(p)
  PROVE  Undisturbed(p)'
<1>1. TypeOK /\ p \in Pids /\ QuietFiles
  BY DEF PlaceInv, Live, CheckMeta, ReadMeta, Locate, QuietFiles
<1> DEFINE e == Entry(proc[p].key)
<1>2. \/ Goto(p, "compile")
      \/ Goto(p, "read") /\ "meta" \in PartsAt(e)
      \/ Goto(p, "locate") /\ "meta" \in PartsAt(e)
      \/ Goto(p, "execute") /\ Runnable(PartsAt(e))
  <2>1. CASE CheckMeta(p) \/ ReadMeta(p)
    BY <2>1 DEF CheckMeta, ReadMeta, Lone, Undisturbed
  <2>2. CASE Locate(p)
    <3>1. "meta" \in PartsAt(e)
      BY <2>2 DEF Locate, Lone, Undisturbed
    <3>2. PICK accepted \in Accepts(PartsAt(e)) : Goto(p, IF accepted THEN "execute" ELSE "compile")
      BY <2>2 DEF Locate
    <3>3. QED
      BY <3>1, <3>2 DEF Accepts, Runnable, Output
  <2>3. QED
    BY <2>1, <2>2
<1>3. \/ proc'[p].pc = "compile"
      \/ proc'[p].pc = "read" /\ "meta" \in PartsAt(e)
      \/ proc'[p].pc = "locate" /\ "meta" \in PartsAt(e)
      \/ proc'[p].pc = "execute" /\ Runnable(PartsAt(e))
  <2> HIDE DEF e
  <2>1. proc[p] \in Process
    BY DEF Lone
  <2>2. QED
    BY <1>1, <1>2, <2>1, GotoStep
<1>4. Newest(p)'
  <2>1. proc[p].pc \in Before
    BY DEF CheckMeta, ReadMeta, Locate, Before
  <2>2. Newest(p)
    BY <2>1 DEF Lone, Undisturbed
  <2>3. QED
    BY <1>1, <2>2 DEF Newest, Lone, QuietFiles
<1>5. PartsAt(e)' = PartsAt(e) /\ e' = e
  BY <1>1 DEF PartsAt, QuietFiles, Lone
<1>6. QED
  BY <1>3, <1>4, <1>5 DEF Undisturbed, Building

LEMMA LoneCompiles ==
  ASSUME PlaceInv, NEW p \in Live, Lone(p), Compile(p)
  PROVE  Undisturbed(p)'
<1>1. TypeOK /\ p \in Pids /\ proc[p].pc = "compile" /\ Works(p) /\ proc'[p].pc = "meta"
  <2>1. TypeOK /\ p \in Pids /\ proc[p] \in Process /\ Goto(p, "meta")
    BY DEF PlaceInv, Live, Compile, Lone
  <2>2. QED
    BY <2>1, GotoStep DEF Compile, Lone
<1> DEFINE r == proc[p].run
           staging == Staging(p, proc[p].key)
<1>2. /\ \A path \in Path : disk'[path] = IF path = staging THEN r ELSE disk[path]
      /\ tree'[r].parts = {"artifact", "modules"}
      /\ \A path \in Path \ {staging} : disk[path] # None => tree'[disk[path]] = tree[disk[path]]
  <2> DEFINE new == [parts |-> {"artifact", "modules"}, content |-> source[proc[p].file],
                     by |-> dsc, meta |-> proc[p].dsc, age |-> clock, steady |-> proc[p].steady]
  <2>1. /\ \A path \in Path : disk'[path] = IF path = staging THEN r ELSE disk[path]
        /\ tree'[r] = new
        /\ \A path \in Path \ {staging} : disk[path] # None => tree'[disk[path]] = tree[disk[path]]
    BY <1>1, CompileFiles, Zenon
  <2>2. new.parts = {"artifact", "modules"}
    OBVIOUS
  <2> HIDE DEF new
  <2>3. QED
    BY <2>1, <2>2
<1>3. staging \in Path
  BY <1>1, Paths DEF Lone
<1>4. Newest(p)
  BY <1>1 DEF Lone, Undisturbed, Before
<1>5. Newest(p)'
  <2> SUFFICES ASSUME NEW path \in Path, disk'[path] \notin {None, r}
               PROVE  tree'[disk'[path]].age < r
    BY DEF Newest, Lone
  <2>1. disk'[path] = disk[path] /\ tree'[disk[path]] = tree[disk[path]]
    BY <1>2
  <2>2. QED
    BY <1>4, <2>1 DEF Newest
<1>6. disk'[Staging(p, proc'[p].key)] = proc'[p].run
  BY <1>2, <1>3 DEF Lone
<1>7. tree'[proc'[p].run].parts = Part \ {"meta"}
  BY <1>2 DEF Lone, Part
<1>8. QED
  BY <1>1, <1>5, <1>6, <1>7 DEF Undisturbed

LEMMA LoneWritesMeta ==
  ASSUME PlaceInv, NEW p \in Live, Lone(p), WriteMeta(p)
  PROVE  Undisturbed(p)'
<1>1. TypeOK /\ p \in Pids /\ proc[p].pc = "meta" /\ proc[p] \in Process /\ Works(p)
  BY DEF PlaceInv, Live, WriteMeta, Lone
<1> DEFINE r == proc[p].run
           staging == Staging(p, proc[p].key)
<1>2. disk[staging] = r /\ r # None /\ Newest(p) /\ tree[r].parts = Part \ {"meta"}
  BY <1>1 DEF Lone, Undisturbed, Building
<1>3. /\ disk' = disk
      /\ tree'[r].parts = tree[r].parts \cup {"meta"} /\ tree'[r].age = clock
      /\ SameTrees(r)
  BY <1>1, <1>2, WriteMetaFiles
<1>4. proc'[p].pc = "aside"
  BY <1>1, <1>2, GotoStep DEF WriteMeta
<1>5. Newest(p)'
  <2> SUFFICES ASSUME NEW path \in Path, disk'[path] \notin {None, r}
               PROVE  tree'[disk'[path]].age < r
    BY DEF Newest, Lone
  <2>1. disk[path] \in Run \ {r}
    BY <1>1, <1>3 DEF TypeOK
  <2>2. QED
    BY <1>2, <1>3, <2>1 DEF Newest, SameTrees
<1>6. disk'[Staging(p, proc'[p].key)] = proc'[p].run
  BY <1>2, <1>3 DEF Lone
<1>7. tree'[proc'[p].run].parts = Part /\ tree'[proc'[p].run].age = proc'[p].run
  BY <1>2, <1>3 DEF Lone, Part
<1>8. QED
  BY <1>4, <1>5, <1>6, <1>7 DEF Undisturbed

LEMMA LoneMovesAside ==
  ASSUME PlaceInv, NEW p \in Live, Lone(p), MoveAside(p)
  PROVE  Undisturbed(p)'
<1>1. TypeOK /\ p \in Pids /\ proc[p].pc = "aside" /\ Works(p) /\ proc'[p].pc = "publish"
  <2>1. TypeOK /\ p \in Pids /\ proc[p] \in Process /\ Goto(p, "publish")
    BY DEF PlaceInv, Live, MoveAside, Lone
  <2>2. QED
    BY <2>1, GotoStep DEF MoveAside, Lone
<1> DEFINE r == proc[p].run
           k == proc[p].key
<1>2. /\ disk[Staging(p, k)] = r /\ r # None /\ Newest(p)
      /\ tree[r].parts = Part /\ tree[r].age = r
  BY <1>1 DEF Lone, Undisturbed, Building
<1>3. /\ \A path \in Path : disk'[path] = IF path = Trash(p, k) THEN disk[Entry(k)]
                                          ELSE IF path = Entry(k) THEN None
                                          ELSE disk[path]
      /\ \A path \in Path \ {Trash(p, k)} : disk[path] # None =>
           tree'[disk[path]] = tree[disk[path]]
  BY <1>1, MoveAsideFiles
<1>4. /\ Entry(k) \in Path /\ Staging(p, k) \in Path
      /\ Staging(p, k) # Trash(p, k) /\ Entry(k) # Staging(p, k) /\ Entry(k) # Trash(p, k)
  BY <1>1, Paths DEF Lone
<1>5. Newest(p)'
  <2> SUFFICES ASSUME NEW path \in Path, disk'[path] \notin {None, r}
               PROVE  tree'[disk'[path]].age < r
    BY DEF Newest, Lone
  <2>1. PICK old \in Path \ {Trash(p, k)} : disk'[path] = disk[old]
    BY <1>3, <1>4
  <2>2. tree'[disk[old]] = tree[disk[old]] /\ tree[disk[old]].age < r
    BY <1>2, <1>3, <2>1 DEF Newest
  <2>3. QED
    BY <2>1, <2>2
<1>6. disk'[Staging(p, k)] = r /\ disk'[Entry(k)] = None /\ tree'[r] = tree[r]
  BY <1>2, <1>3, <1>4
<1>7. proc'[p].run = r /\ proc'[p].key = k
  BY DEF Lone
<1>8. QED
  BY <1>1, <1>2, <1>5, <1>6, <1>7 DEF Undisturbed

LEMMA LonePublishes ==
  ASSUME PlaceInv, NEW p \in Live, Lone(p), Publish(p)
  PROVE  Undisturbed(p)'
<1>1. TypeOK /\ p \in Pids /\ proc[p].pc = "publish" /\ Works(p) /\ proc[p] \in Process
  BY DEF PlaceInv, Live, Publish, Lone
<1> DEFINE r == proc[p].run
           k == proc[p].key
<1>2. /\ disk[Staging(p, k)] = r /\ r # None /\ Newest(p) /\ disk[Entry(k)] = None
      /\ tree[r].parts = Part /\ tree[r].age = r
  BY <1>1 DEF Lone, Undisturbed, Building
<1>3. Swaps(p)
  BY <1>2 DEF Swaps, CanMove
<1>4. proc'[p].pc = "prune"
  BY <1>1, <1>3, GotoStep DEF Publish, Swaps
<1>5. /\ \A path \in Path : disk'[path] = IF path = Entry(k) THEN r
                                          ELSE IF path = Staging(p, k) THEN None
                                          ELSE disk[path]
      /\ tree' = tree
  BY <1>1, <1>3, SwapFiles
<1>6. Newest(p)'
  <2> SUFFICES ASSUME NEW path \in Path, disk'[path] \notin {None, r}
               PROVE  tree'[disk'[path]].age < r
    BY DEF Newest, Lone
  <2>1. disk'[path] = disk[path] /\ disk[path] \in Run \ {r}
    BY <1>1, <1>5 DEF TypeOK
  <2>2. QED
    BY <1>2, <1>5, <2>1 DEF Newest
<1>7. disk'[Entry(k)] = r
  BY <1>5, EntryPaths DEF Lone
<1>8. proc'[p].run = r /\ proc'[p].key = k
  BY DEF Lone
<1>9. QED
  BY <1>2, <1>4, <1>5, <1>6, <1>7, <1>8 DEF Undisturbed, Before, Building

LEMMA LoneLists ==
  ASSUME PlaceInv, NEW p \in Live, Lone(p), List(p)
  PROVE  Undisturbed(p)'
<1>1. TypeOK /\ Placed /\ p \in Pids /\ proc[p].pc = "prune" /\ Works(p) /\ proc[p] \in Process
  BY DEF PlaceInv, Live, List, Lone
<1> DEFINE r == proc[p].run
           k == proc[p].key
<1>2. /\ disk[Entry(k)] = r /\ r # None /\ Newest(p)
      /\ tree[r].parts = Part /\ tree[r].age = r
  BY <1>1 DEF Lone, Undisturbed
<1>3. k \notin Evicted /\ k \in Keys
  BY <1>1, <1>2, OwnKept DEF Lone
<1>4. /\ proc'[p].pc = "evict" /\ proc'[p].removal = Listed
      /\ "victim" \notin DOMAIN Listed
  BY <1>1, ListStep
<1>5. Entry(k) \notin Listed.todo
  <2>1. \A j \in Keys : Entry(j) = Entry(k) => j = k
    BY DEF Entry
  <2>2. Evicted \subseteq Keys
    BY DEF Evicted, Present
  <2>3. QED
    BY <1>3, <2>1, <2>2 DEF Listed
<1>6. disk'[Entry(k)] = r /\ tree'[r] = tree[r]
  <2>1. Trash(p, k) \in Path /\ Entry(k) \in Path /\ Entry(k) # Trash(p, k)
    BY <1>1, <1>3, Paths
  <2>2. {Trash(p, k)} \in SUBSET Path
    BY <2>1
  <2>3. Drop({Trash(p, k)})
    BY <1>1, DropFiles
  <2>4. clock' = clock
    BY DEF List
  <2>5. QED
    BY <1>1, <1>2, <2>1, <2>2, <2>3, <2>4, Dropping
<1>7. proc'[p].run = r /\ proc'[p].key = k
  BY DEF Lone
<1>8. QED
  BY <1>2, <1>4, <1>5, <1>6, <1>7 DEF Undisturbed, Before, Building, Opened

(* What a removal of its own leaves to the entry it has made.              *)
LEMMA LoneRemoves ==
  ASSUME NEW p, Lone(p), proc[p].pc = "evict",
         proc'[p].pc = "evict",
         disk'[Entry(proc[p].key)] = disk[Entry(proc[p].key)],
         tree'[proc[p].run] = tree[proc[p].run],
         proc'[p].removal.todo \subseteq proc[p].removal.todo,
         Opened(p)' => /\ proc'[p].removal.path # Entry(proc[p].key)
                       /\ proc'[p].removal.victim # proc[p].run
  PROVE  Undisturbed(p)'
<1>1. /\ disk[Entry(proc[p].key)] = proc[p].run
      /\ tree[proc[p].run].parts = Part
      /\ Entry(proc[p].key) \notin proc[p].removal.todo
  BY DEF Lone, Undisturbed
<1>2. QED
  BY <1>1 DEF Undisturbed, Lone, Before, Building

LEMMA LoneOpens ==
  ASSUME PlaceInv, NEW p \in Live, Lone(p), Open(p)
  PROVE  Undisturbed(p)'
<1>1. TypeOK /\ Placed /\ p \in Pids /\ proc[p] \in Process /\ QuietFiles
  BY DEF PlaceInv, Live, Open, Lone, QuietFiles
<1>2. proc[p].pc = "evict"
  BY <1>1, ProcessFields DEF Open
<1> DEFINE e == Entry(proc[p].key)
<1>3. disk[e] = proc[p].run /\ proc[p].run # None /\ e \notin proc[p].removal.todo /\ e \in Path
  BY <1>2, EntryPaths DEF Lone, Undisturbed
<1>4. PICK path \in proc[p].removal.todo :
        LET todo == proc[p].removal.todo \ {path}
            removal == IF disk[path] = None THEN [todo |-> todo]
                       ELSE [todo |-> todo, path |-> path, victim |-> disk[path]]
        IN  removal \in Removal /\ proc' = [proc EXCEPT ![p].removal = removal]
  BY OpenPlaces
<1> DEFINE todo == proc[p].removal.todo \ {path}
           removal == IF disk[path] = None THEN [todo |-> todo]
                      ELSE [todo |-> todo, path |-> path, victim |-> disk[path]]
<1>5. removal \in Removal /\ proc' = [proc EXCEPT ![p].removal = removal]
  BY <1>4
<1>6. proc'[p].removal = removal /\ proc'[p].pc = "evict"
  <2> HIDE DEF removal
  <2>1. QED
    BY <1>1, <1>2, <1>5, RemovalStep
<1>7. path # e /\ path \in Path
  BY <1>1, <1>3, ProcessFields, RemovalFields
<1>8. disk[path] # None => disk[path] # proc[p].run
  BY <1>1, <1>3, <1>7 DEF Placed
<1>9. proc'[p].removal.todo \subseteq proc[p].removal.todo
  BY <1>6
<1>10. "victim" \in DOMAIN removal => removal.path # e /\ removal.victim # proc[p].run
  BY <1>7, <1>8
<1> HIDE DEF removal
<1>11. Opened(p)' => proc'[p].removal.path # e /\ proc'[p].removal.victim # proc[p].run
  BY <1>6, <1>10 DEF Opened
<1>12. QED
  BY <1>1, <1>2, <1>6, <1>9, <1>11, LoneRemoves DEF QuietFiles

LEMMA LoneEmpties ==
  ASSUME PlaceInv, NEW p \in Live, Lone(p), Unlink(p) \/ Rmdir(p)
  PROVE  Undisturbed(p)'
<1>1. TypeOK /\ Placed /\ p \in Pids /\ proc[p] \in Process /\ Opened(p) /\ clock' = clock
  BY DEF PlaceInv, Live, Unlink, Rmdir, Lone
<1>2. proc[p].pc = "evict"
  BY <1>1, OpenedStep, ProcessFields
<1> DEFINE e == Entry(proc[p].key)
           r == proc[p].run
<1>3. /\ disk[e] = r /\ r # None /\ r \in Run /\ e \in Path
      /\ proc[p].removal.path # e /\ proc[p].removal.victim # r
  BY <1>1, <1>2, EntryPaths DEF Lone, Undisturbed
<1>4. CASE Unlink(p)
  <2>1. /\ proc' = proc /\ disk' = disk
        /\ SameTrees(proc[p].removal.victim)
    BY <1>4, UnlinkFiles DEF Unlink
  <2>2. tree'[r] = tree[r]
    BY <1>3, <2>1 DEF SameTrees
  <2>3. QED
    BY <1>2, <1>3, <2>1, <2>2, LoneRemoves
<1>5. CASE Rmdir(p)
  <2>1. disk'[e] = disk[e] /\ tree'[r] = tree[r]
    <3>1. /\ QuietFiles \/ Drop({proc[p].removal.path})
          /\ {proc[p].removal.path} \in SUBSET Path
      BY <1>5, RmdirFiles
    <3>2. CASE QuietFiles
      BY <3>2 DEF QuietFiles
    <3>3. CASE Drop({proc[p].removal.path})
      BY <1>1, <1>3, <3>1, <3>3, Dropping
    <3>4. QED
      BY <3>1, <3>2, <3>3
  <2>2. PICK removal : /\ removal \in Removal
                       /\ proc' = [proc EXCEPT ![p].removal = removal]
                       /\ removal.todo \subseteq proc[p].removal.todo
                       /\ "victim" \notin DOMAIN removal
    BY <1>5, RmdirStep
  <2>3. proc'[p].removal = removal /\ proc'[p].pc = "evict"
    BY <1>1, <1>2, <2>2, RemovalStep
  <2>4. QED
    BY <1>2, <2>1, <2>2, <2>3, LoneRemoves DEF Opened
<1>6. QED
  BY <1>4, <1>5

LEMMA LoneEnds ==
  ASSUME PlaceInv, NEW p \in Live, Lone(p), Removed(p)
  PROVE  Undisturbed(p)'
<1>1. TypeOK /\ p \in Pids /\ proc[p] \in Process /\ QuietFiles
  BY DEF PlaceInv, Live, Removed, Lone, QuietFiles
<1>2. proc[p].pc = "evict" /\ Goto(p, "execute")
  BY <1>1, ProcessFields DEF Removed
<1>3. proc'[p].pc = "execute"
  BY <1>1, <1>2, GotoStep
<1>4. /\ disk[Entry(proc[p].key)] = proc[p].run /\ proc[p].run # None
      /\ tree[proc[p].run].parts = Part
  BY <1>2 DEF Lone, Undisturbed
<1>5. PartsAt(Entry(proc[p].key))' = Part
  BY <1>1, <1>4 DEF PartsAt, QuietFiles, Lone
<1>6. QED
  BY <1>3, <1>5 DEF Undisturbed, Lone, Before, Building, Part, Runnable, Output

(* No step of a process that is alone disturbs it.                         *)
LEMMA LoneStep ==
  ASSUME PlaceInv, NEW p \in Live, Lone(p), Step(p)
  PROVE  Undisturbed(p)'
<1>1. TypeOK /\ p \in Pids /\ proc'[p] # Idle
  BY ProcessFields DEF PlaceInv, Live, Lone
<1>2. ~CompileFails(p)
  BY <1>1, EndStep DEF CompileFails
<1>3. ~ListFails(p)
  <2> SUFFICES ASSUME ListFails(p)
               PROVE  FALSE
    OBVIOUS
  <2>1. disk[Entry(proc[p].key)] = proc[p].run /\ proc[p].run # None
    BY DEF ListFails, Lone, Undisturbed
  <2>2. Entry(proc[p].key) \in Path
    BY EntryPaths DEF Lone
  <2>3. QED
    BY <2>1, <2>2 DEF ListFails
<1>4. QED
  BY <1>2, <1>3, LoneFinds, LoneCompiles, LoneWritesMeta, LoneMovesAside, LonePublishes,
     LoneLists, LoneOpens, LoneEmpties, LoneEnds DEF Step

LEMMA StepAlone ==
  ASSUME PlaceInv, PlaceInv', AloneInv, NEW p \in Live, Step(p)
  PROVE  AloneInv'
<1>1. TypeOK /\ TypeOK' /\ p \in Pids
  BY DEF PlaceInv, Live
<1>2. OthersStay(p) /\ Continues(p) /\ clock' = clock
  BY StepFields
<1>3. ASSUME NEW q \in Live', proc'[q].alone
      PROVE  Live' = {q} /\ (Works(q)' => proc'[q].run = clock' /\ Undisturbed(q)')
  <2>1. q \in Pids /\ proc'[q] # Idle
    BY <1>3 DEF Live
  <2>2. q \in Live /\ proc[q].alone
    <3>1. CASE q = p
      BY <1>1, <1>2, <1>3, <2>1, <3>1, KindsNext DEF Continues
    <3>2. CASE q # p
      BY <1>2, <1>3, <2>1, <3>2 DEF OthersStay, Live
    <3>3. QED
      BY <3>1, <3>2
  <2>3. Live = {q} /\ (Works(q) => proc[q].run = clock /\ Undisturbed(q)) /\ q = p
    BY <2>2 DEF AloneInv
  <2>4. Live' = {p}
    BY <1>1, <1>2, <2>1, <2>3 DEF Live, OthersStay
  <2>5. ASSUME Works(p)'
        PROVE  proc'[p].run = clock' /\ Undisturbed(p)'
    <3>1. /\ proc'[p] \in Process /\ proc[p] \in Process
          /\ proc'[p].run = proc[p].run /\ proc'[p].key = proc[p].key
      BY <1>1, <1>2, <2>5, KindsNext DEF Continues
    <3>2. Works(p) /\ proc[p].key \in Keys /\ proc[p].run \in Run /\ proc[p].run # None
      BY <1>1, <3>1, Kinds, ProcessFields, RunIds
    <3>3. Lone(p)
      BY <2>3, <3>1, <3>2 DEF Lone
    <3>4. QED
      BY <1>2, <2>3, <3>1, <3>2, <3>3, LoneStep
  <2>6. QED
    BY <2>3, <2>4, <2>5
<1>4. Whole'
  BY StepWhole
<1>5. QED
  BY <1>3, <1>4 DEF AloneInv

LEMMA StartAlone ==
  ASSUME PlaceInv, PlaceInv', AloneInv, NEW p \in Pids, NEW what \in Process \cup Cleaner,
         Start(p, what), UNCHANGED <<disk, tree, cut>>,
         what.alone => Live = {},
         what \in Process => what.pc = "check" /\ what.run = clock + 1
  PROVE  AloneInv'
<1>1. TypeOK /\ TypeOK' /\ Placed
  BY DEF PlaceInv
<1>2. /\ proc[p] = Idle /\ proc'[p] = what
      /\ \A q \in Pids \ {p} : Alike(q) /\ (q \in Live => ~proc'[q].alone)
      /\ clock' = clock + 1 /\ clock \in Nat
  BY <1>1, StartStep
<1>3. ASSUME NEW q \in Pids \ {p}
      PROVE  /\ (q \in Live)' <=> q \in Live
             /\ q \in Live => proc'[q].removal = proc[q].removal
  BY <1>1, <1>2, Kinds, KindsNext, CleanerFields, ProcessFields, IdleFields DEF Alike
<1>4. Whole'
  <2>1. p \notin Live
    BY <1>2 DEF Live
  <2>2. \A q \in Live : (q \in Live)' /\ proc'[q].removal = proc[q].removal
    BY <1>3, <2>1 DEF Live
  <2>3. QED
    BY <2>2, QuietWhole DEF QuietFiles
<1>5. ASSUME NEW q \in Live', proc'[q].alone
      PROVE  Live' = {q} /\ (Works(q)' => proc'[q].run = clock' /\ Undisturbed(q)')
  <2>1. q \in Pids
    BY DEF Live
  <2>2. q = p
    BY <1>2, <1>3, <1>5, <2>1
  <2>3. Live = {}
    BY <1>2, <1>5, <2>2
  <2>4. Live' = {q}
    <3>1. \A other \in Pids \ {p} : ~(other \in Live)'
      BY <1>3, <2>3
    <3>2. QED
      BY <1>5, <2>2, <3>1 DEF Live
  <2>5. ASSUME Works(q)'
        PROVE  proc'[q].run = clock' /\ Undisturbed(q)'
    <3>1. what \in Process
      BY <1>1, <1>2, <2>1, <2>2, <2>5, KindsNext
    <3>2. proc'[q].pc = "check" /\ proc'[q].run = clock + 1
      BY <1>2, <2>2, <3>1
    <3>3. Newest(q)'
      <4> SUFFICES ASSUME NEW path \in Path, disk[path] # None
                   PROVE  tree[disk[path]].age < clock + 1
        BY <3>2 DEF Newest
      <4>1. tree[disk[path]] \in Tree /\ tree[disk[path]].age <= clock
        BY <1>1 DEF Placed
      <4>2. tree[disk[path]].age \in Nat
        BY <4>1, TreeFields, RunIds
      <4>3. QED
        BY <1>2, <4>1, <4>2
    <3>4. QED
      BY <1>2, <3>2, <3>3 DEF Undisturbed, Building
  <2>6. QED
    BY <2>4, <2>5
<1>6. QED
  BY <1>4, <1>5 DEF AloneInv

(* Who was alone leaves nobody.                                            *)
LEMMA EndAlone ==
  ASSUME PlaceInv, PlaceInv', AloneInv, NEW p \in Live, QuietFiles,
         proc' = [proc EXCEPT ![p] = Idle], cut \subseteq cut',
         Opened(p) => proc[p].removal.victim \in cut'
  PROVE  AloneInv'
<1>1. TypeOK /\ p \in Pids
  BY DEF PlaceInv, Live
<1>2. proc'[p] = Idle /\ OthersStay(p)
  BY <1>1, EndStep
<1>3. Whole'
  <2>1. ASSUME NEW q \in Live, Opened(q)
        PROVE  \/ proc[q].removal.victim \in cut'
               \/ (q \in Live)' /\ proc'[q].removal = proc[q].removal
    BY <1>2, <2>1 DEF OthersStay, Live
  <2>2. QED
    BY <2>1, QuietWhole
<1>4. ASSUME NEW q \in Live', proc'[q].alone
      PROVE  FALSE
  <2>1. q \in Pids /\ q # p
    BY <1>2 DEF Live
  <2>2. q \in Live /\ proc[q].alone
    BY <1>2, <1>4, <2>1 DEF OthersStay, Live
  <2>3. QED
    BY <2>1, <2>2 DEF AloneInv
<1>5. QED
  BY <1>3, <1>4 DEF AloneInv

LEMMA ChangeAlone ==
  ASSUME PlaceInv, PlaceInv', AloneInv, Change
  PROVE  AloneInv'
<1>1. TypeOK /\ TypeOK' /\ QuietFiles /\ clock' = clock /\ cut' = cut
  BY DEF PlaceInv, Change, QuietFiles
<1>2. \A q \in Pids : Alike(q) /\ (q \in Live => proc'[q].alone = proc[q].alone)
  BY <1>1, ChangeStep
<1>3. ASSUME NEW q \in Pids
      PROVE  /\ (q \in Live)' <=> q \in Live
             /\ q \in Live => proc'[q].removal = proc[q].removal
             /\ Works(q)' => /\ Works(q) /\ proc'[q].pc = proc[q].pc
                             /\ proc'[q].key = proc[q].key /\ proc'[q].run = proc[q].run
  BY <1>1, <1>2, Kinds, KindsNext, CleanerFields, ProcessFields, IdleFields DEF Alike
<1>4. Whole'
  BY <1>1, <1>3, QuietWhole DEF Live
<1>5. Live' = Live
  BY <1>3 DEF Live
<1>6. ASSUME NEW q \in Live', proc'[q].alone
      PROVE  Live' = {q} /\ (Works(q)' => proc'[q].run = clock' /\ Undisturbed(q)')
  <2>1. q \in Pids /\ q \in Live /\ proc[q].alone
    BY <1>2, <1>5, <1>6 DEF Live
  <2>2. Live = {q} /\ (Works(q) => proc[q].run = clock /\ Undisturbed(q))
    BY <2>1 DEF AloneInv
  <2>3. ASSUME Works(q)'
        PROVE  Undisturbed(q)' /\ proc'[q].run = clock
    <3>1. /\ Undisturbed(q) /\ proc[q].run = clock
          /\ proc'[q].pc = proc[q].pc /\ proc'[q].key = proc[q].key
          /\ proc'[q].run = proc[q].run /\ proc'[q].removal = proc[q].removal
      BY <1>3, <2>1, <2>2, <2>3
    <3>2. Newest(q)' <=> Newest(q)
      BY <1>1, <3>1 DEF Newest, QuietFiles
    <3>3. PartsAt(Entry(proc[q].key))' = PartsAt(Entry(proc[q].key))
      BY <1>1, <3>1 DEF PartsAt, QuietFiles
    <3>4. QED
      BY <1>1, <3>1, <3>2, <3>3 DEF Undisturbed, QuietFiles, Opened
  <2>4. QED
    BY <1>1, <1>5, <2>2, <2>3
<1>7. QED
  BY <1>4, <1>6 DEF AloneInv

LEMMA NextAlone ==
  PlaceInv /\ PlaceInv' /\ AloneInv /\ [Next]_vars => AloneInv'
<1> SUFFICES ASSUME PlaceInv, PlaceInv', AloneInv, [Next]_vars
             PROVE  AloneInv'
  OBVIOUS
<1>1. TypeOK
  BY DEF PlaceInv
<1>2. ASSUME NEW p \in Pids, NEW f \in Files, Begin(p, f)
      PROVE  AloneInv'
  <2> DEFINE what == [pc |-> "check", file |-> f, key |-> ContentKey(f), dsc |-> dsc,
                      run |-> clock + 1, removal |-> Nothing,
                      steady |-> TRUE, alone |-> Live = {}]
  <2>1. Start(p, what) /\ UNCHANGED <<disk, tree, cut>>
    BY <1>2 DEF Begin
  <2>2. clock + 1 \in Run
    BY <2>1, ConstantsAssumption DEF PlaceInv, TypeOK, Start, Run
  <2>3. what \in Process
    BY <2>2, Removals DEF Process, PlaceInv, TypeOK, ContentKey
  <2>4. what.pc = "check" /\ what.run = clock + 1 /\ (what.alone => Live = {})
    OBVIOUS
  <2> HIDE DEF what
  <2>5. QED
    BY <2>1, <2>3, <2>4, StartAlone
<1>3. ASSUME NEW p \in Pids, Clear(p)
      PROVE  AloneInv'
  <2> DEFINE what == [pc |-> "clear", removal |-> [todo |-> {path \in Path : disk[path] # None}],
                      steady |-> TRUE, alone |-> Live = {}]
  <2>1. Start(p, what) /\ UNCHANGED <<disk, tree, cut>>
    BY <1>3 DEF Clear
  <2>2. what \in Cleaner
    BY Removals DEF Cleaner
  <2>3. what.alone => Live = {}
    OBVIOUS
  <2> HIDE DEF what
  <2>4. QED
    BY <2>1, <2>2, <2>3, StartAlone, CleanerFields
<1>4. ASSUME NEW p \in Pids, Exit(p)
      PROVE  AloneInv'
  <2>1. /\ p \in Live /\ QuietFiles /\ proc' = [proc EXCEPT ![p] = Idle] /\ cut' = cut
        /\ proc[p].pc \notin {"evict", "clear"}
    BY <1>4 DEF Exit, QuietFiles
  <2>2. QED
    BY <2>1, OpenedStep, EndAlone
<1>5. ASSUME NEW p \in Pids, Kill(p)
      PROVE  AloneInv'
  <2>1. /\ p \in Live /\ QuietFiles /\ proc' = [proc EXCEPT ![p] = Idle]
        /\ cut' = IF Opened(p) THEN cut \cup {proc[p].removal.victim} ELSE cut
    BY <1>5 DEF Kill, QuietFiles
  <2>2. QED
    BY <2>1, EndAlone
<1>6. CASE UNCHANGED vars
  BY <1>6 DEF vars, AloneInv, Whole, Touched, PartsAt, Undisturbed, Newest, Works, Live, Opened
<1>7. QED
  BY <1>2, <1>3, <1>4, <1>5, <1>6, StepAlone, ChangeAlone DEF Next

LEMMA InitAlone ==
  Init => AloneInv
BY DEF Init, AloneInv, Whole, Live

(* A process with nobody beside it finds its directories as it left them,  *)
(* and only a removal that was killed leaves an entry without its artifact *)
(* or without its modules.                                                 *)
THEOREM AloneInvariant == Spec => []AloneInv
<1>1. Spec => []PlaceInv
  BY PlaceInvariant
<1>2. QED
  BY <1>1, InitAlone, NextAlone, PTL DEF Spec

(* A process that met nobody does not fail on the cache and executes a     *)
(* whole entry, or one that a killed removal has cut and valid_entry takes *)
(* for valid.                                                              *)
THEOREM AloneSucceeds == Spec => []AloneRunsWork
<1>1. PlaceInv /\ AloneInv => AloneRunsWork
  <2> SUFFICES ASSUME PlaceInv, AloneInv, NEW p \in Live, proc[p].alone
               PROVE  LET t == disk[Entry(proc[p].key)]
                      IN  /\ proc[p].pc # "failed"
                          /\ proc[p].pc = "execute" =>
                               /\ t # None
                               /\ \/ tree[t].parts = Part
                                  \/ t \in cut /\ Runnable(tree[t].parts)
    BY DEF AloneRunsWork, Runnable, Output
  <2>1. TypeOK /\ p \in Pids
    BY DEF PlaceInv, Live
  <2>2. CASE proc[p] \in Cleaner
    BY <2>2, CleanerFields
  <2>3. CASE proc[p] \in Process
    <3> DEFINE e == Entry(proc[p].key)
    <3>1. Undisturbed(p) /\ Live = {p}
      BY <2>1, <2>3, Kinds DEF AloneInv
    <3>2. proc[p].pc # "failed"
      BY <3>1 DEF Undisturbed
    <3>3. ASSUME proc[p].pc = "execute"
          PROVE  /\ disk[e] # None
                 /\ \/ tree[disk[e]].parts = Part
                    \/ disk[e] \in cut /\ Runnable(tree[disk[e]].parts)
      <4>1. disk[e] # None /\ Runnable(tree[disk[e]].parts)
        BY <3>1, <3>3 DEF Undisturbed, PartsAt, Runnable
      <4>2. e \in Path /\ disk[e] \in Run
        BY <2>1, <2>3, <4>1, EntryPaths, ProcessFields DEF TypeOK
      <4>3. tree[disk[e]].parts \subseteq Part
        BY <2>1, <4>2, Trees
      <4>4. CASE ~Partial(tree[disk[e]].parts)
        BY <4>1, <4>3, <4>4 DEF Part, Partial, Runnable, Output
      <4>5. CASE Partial(tree[disk[e]].parts)
        <5>1. Touched(disk[e])
          BY <4>1, <4>2, <4>5 DEF AloneInv, Whole
        <5>2. ~Opened(p)
          BY <3>3, OpenedStep
        <5>3. disk[e] \in cut
          BY <3>1, <5>1, <5>2 DEF Touched
        <5>4. QED
          BY <4>1, <5>3
      <4>6. QED
        BY <4>4, <4>5
    <3>4. QED
      BY <3>2, <3>3
  <2>4. QED
    BY <2>1, <2>2, <2>3, Kinds
<1>2. QED
  BY <1>1, PlaceInvariant, AloneInvariant, PTL

=============================================================================
