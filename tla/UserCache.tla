------------------------------ MODULE UserCache ------------------------------
(***************************************************************************)
(* The user-global cache of compiled loose files, a directory shared by    *)
(* all processes of a user: crates/deka_cache/src/user_cache.rs.           *)
(*                                                                         *)
(* A process is known by its pid, which a later process may get again.  It *)
(* hashes its source, and                                                  *)
(*                                                                         *)
(*   check, read, locate   looks for a valid entry (valid_entry)           *)
(*   compile, meta         builds one in a directory of its own            *)
(*   aside, publish        swaps it in by renaming                         *)
(*   prune, evict          bounds the cache (prune_loose)                  *)
(*   execute               runs what is found at the path of the entry     *)
(*                                                                         *)
(* or clears the cache.  Each step is one visit of the file system; others *)
(* come in between, and a process may be killed before any of them.  A     *)
(* directory is a tree with an identity, so that a removal that has opened *)
(* it goes on with it after it was renamed.  The tree built by run r is r. *)
(*                                                                         *)
(* Definitions whose name ends in _Mutant are faulty forms of those that   *)
(* follow them; no specification uses them.                                *)
(***************************************************************************)
EXTENDS Integers, FiniteSets, FiniteSetsExt

CONSTANTS
  Files,        (* loose source files                                      *)
  Keys,         (* contents, in the order of their hashes                  *)
  Compilers,    (* identities of dsc and deka                              *)
  Pids,         (* process ids                                             *)
  Size,         (* bytes of the entry of each content                      *)
  MaxEntries,   (* MAX_ENTRIES                                             *)
  MaxBytes,     (* MAX_BYTES                                               *)
  MaxRuns,      (* bound of the model: processes started                   *)
  MaxChanges,   (* bound of the model: edits and upgrades                  *)
  MaxKills      (* bound of the model: processes killed                    *)

(* An entry over the budget would be evicted by the run that made it.      *)
ASSUME ConstantsAssumption ==
  /\ Keys \subseteq Nat
  /\ MaxEntries \in Nat \ {0}
  /\ MaxBytes \in Nat
  /\ Size \in [Keys -> 1 .. MaxBytes]
  /\ MaxRuns \in Nat
  /\ MaxChanges \in Nat
  /\ MaxKills \in Nat

VARIABLES
  source,     (* the content of each file                                  *)
  dsc,        (* the compiler installed                                    *)
  disk,       (* the tree at each path under loose/, if any                *)
  tree,       (* what each tree holds                                      *)
  proc,       (* the process that has each pid                             *)
  clock,      (* processes started so far, the time of the model           *)
  changes,    (* edits and upgrades so far                                 *)
  kills,      (* processes killed so far                                   *)
  unpruned,   (* history: trees published by a run that has yet to prune   *)
  cut,        (* history: trees whose removal was killed                   *)
  swapped     (* history: runs whose entry a run that had asked for        *)
              (* another compiler replaced after they had checked or made  *)
              (* it                                                        *)

vars ==
  <<source, dsc, disk, tree, proc, clock, changes, kills, unpruned, cut, swapped>>

-----------------------------------------------------------------------------
None == 0
Run == 1 .. MaxRuns
Part == {"meta", "artifact", "modules"}

Entry(k) == <<"entry", None, k>>
Staging(p, k) == <<"staging", p, k>>
Trash(p, k) == <<"trash", p, k>>
Path == ({"entry"} \X {None} \X Keys) \cup ({"staging", "trash"} \X Pids \X Keys)

(* An empty directory, and a compiled entry: which of its parts are there, *)
(* the content and the compiler of its output, the compiler named in its   *)
(* metadata, its age and, for the properties, whether no edit or upgrade   *)
(* fell between what its run read to name it and what it compiled.         *)
Empty == [parts |-> {}]
Tree == [parts : SUBSET Part, content : Keys, by : Compilers,
         meta : Compilers, age : Run, steady : BOOLEAN]

(* The directories that remove_dir_all has yet to open, and the tree it    *)
(* has opened and the path it was at.                                      *)
Removal == [todo : SUBSET Path, path : Path, victim : Run] \cup [todo : SUBSET Path]

(* A process: what it has read of the source and the compiler, and what it *)
(* removes; for the properties, whether no edit or upgrade has fallen into *)
(* it and whether no other process was alive at any time of it.            *)
Idle == [pc |-> "idle"]
Process ==
  [pc : {"check", "read", "locate", "compile", "meta", "aside",
         "publish", "prune", "evict", "execute", "failed"},
   file : Files, key : Keys, dsc : Compilers, run : Run,
   removal : Removal, steady : BOOLEAN, alone : BOOLEAN]
Cleaner == [pc : {"clear"}, removal : Removal, steady : BOOLEAN, alone : BOOLEAN]

Live == {p \in Pids : proc[p] # Idle}

PartsAt(path) == IF disk[path] = None THEN {} ELSE tree[disk[path]].parts

(* rename(2): a directory goes onto an absent or empty one.                *)
CanMove(d, from, to) == d[from] # None /\ (d[to] = None \/ tree[d[to]].parts = {})
Moved(d, from, to) ==
  IF CanMove(d, from, to) THEN [d EXCEPT ![to] = d[from], ![from] = None] ELSE d

(* The trees at these paths are removed.                                   *)
Emptied(paths) ==
  [r \in Run |-> IF \E path \in paths : disk[path] = r THEN Empty ELSE tree[r]]

Goto(p, pc) == proc' = [proc EXCEPT ![p].pc = pc]

-----------------------------------------------------------------------------
(* materialize_loose and valid_entry.                                      *)

ContentKey_Mutant(f) == CHOOSE k \in Keys : TRUE

ContentKey(f) == source[f]

Nothing == [todo |-> {}]

Start(p, what) ==
  /\ p \notin Live
  /\ clock < MaxRuns
  /\ clock' = clock + 1
  /\ proc' = [q \in Pids |->
       IF q = p THEN what
       ELSE IF q \in Live THEN [proc[q] EXCEPT !.alone = FALSE] ELSE Idle]

Begin(p, f) ==
  /\ Start(p, [pc |-> "check", file |-> f, key |-> ContentKey(f), dsc |-> dsc,
               run |-> clock + 1, removal |-> Nothing,
               steady |-> TRUE, alone |-> Live = {}])
  /\ UNCHANGED <<source, dsc, disk, tree, changes, kills, unpruned, cut, swapped>>

CheckMeta(p) ==
  /\ proc[p].pc = "check"
  /\ Goto(p, IF "meta" \in PartsAt(Entry(proc[p].key)) THEN "read" ELSE "compile")
  /\ UNCHANGED <<source, dsc, disk, tree, clock, changes, kills, unpruned, cut, swapped>>

(* The metadata names the compiler installed when the process asked.       *)
SameCompiler_Mutant(p, t) == TRUE

SameCompiler(p, t) == t.meta = proc[p].dsc

ReadMeta(p) ==
  LET entry == Entry(proc[p].key)
  IN  /\ proc[p].pc = "read"
      /\ \/ /\ "meta" \notin PartsAt(entry)
            /\ Goto(p, "failed")
         \/ /\ "meta" \in PartsAt(entry)
            /\ Goto(p, IF SameCompiler(p, tree[disk[entry]]) THEN "locate" ELSE "compile")
      /\ UNCHANGED <<source, dsc, disk, tree, clock, changes, kills, unpruned, cut, swapped>>

(* The entry is taken for valid with its artifact; without it, with one    *)
(* imported module that bears its name or is the only one left.  Which     *)
(* modules are left is open.                                               *)
Accepts(parts) ==
  {accepted \in BOOLEAN :
     /\ "artifact" \in parts => accepted
     /\ accepted => parts \cap {"artifact", "modules"} # {}}

Locate_Mutant(p) ==
  /\ proc[p].pc = "locate"
  /\ Goto(p, "execute")
  /\ UNCHANGED <<source, dsc, disk, tree, clock, changes, kills, unpruned, cut, swapped>>

Locate(p) ==
  /\ proc[p].pc = "locate"
  /\ \E accepted \in Accepts(PartsAt(Entry(proc[p].key))) :
       Goto(p, IF accepted THEN "execute" ELSE "compile")
  /\ UNCHANGED <<source, dsc, disk, tree, clock, changes, kills, unpruned, cut, swapped>>

-----------------------------------------------------------------------------
(* materialize_with: a new entry.                                          *)

(* What an earlier process of this pid left is removed, and dsc fills the  *)
(* directory; it reads the file again.                                     *)
Compile(p) ==
  LET staging == Staging(p, proc[p].key)
      r == proc[p].run
  IN  /\ proc[p].pc = "compile"
      /\ disk' = [disk EXCEPT ![staging] = r]
      /\ tree' = [Emptied({staging}) EXCEPT ![r] =
           [parts |-> {"artifact", "modules"}, content |-> source[proc[p].file], by |-> dsc,
            meta |-> proc[p].dsc, age |-> clock, steady |-> proc[p].steady]]
      /\ Goto(p, "meta")
      /\ UNCHANGED <<source, dsc, clock, changes, kills, unpruned, cut, swapped>>

(* A source that does not compile is the user's error; a staging directory *)
(* that cannot be made ends the process likewise.                          *)
CompileFails(p) ==
  LET staging == Staging(p, proc[p].key)
  IN  /\ proc[p].pc = "compile"
      /\ disk' = [disk EXCEPT ![staging] = None]
      /\ tree' = Emptied({staging})
      /\ proc' = [proc EXCEPT ![p] = Idle]
      /\ UNCHANGED <<source, dsc, clock, changes, kills, unpruned, cut, swapped>>

WriteMeta(p) ==
  LET r == proc[p].run
  IN  /\ proc[p].pc = "meta"
      /\ IF disk[Staging(p, proc[p].key)] = None
         THEN Goto(p, "failed") /\ UNCHANGED tree
         ELSE /\ tree' = [tree EXCEPT ![r].parts = @ \cup {"meta"}, ![r].age = clock]
              /\ Goto(p, "aside")
      /\ UNCHANGED <<source, dsc, disk, clock, changes, kills, unpruned, cut, swapped>>

(* The trash of an earlier process of this pid goes first.                 *)
MoveAside_Mutant(p) ==
  LET k == proc[p].key
  IN  /\ proc[p].pc = "aside"
      /\ disk' = Moved(disk, Entry(k), Trash(p, k))
      /\ Goto(p, "publish")
      /\ UNCHANGED <<source, dsc, tree, clock, changes, kills, unpruned, cut, swapped>>

MoveAside(p) ==
  LET k == proc[p].key
  IN  /\ proc[p].pc = "aside"
      /\ disk' = Moved([disk EXCEPT ![Trash(p, k)] = None], Entry(k), Trash(p, k))
      /\ tree' = Emptied({Trash(p, k)})
      /\ Goto(p, "publish")
      /\ UNCHANGED <<source, dsc, clock, changes, kills, unpruned, cut, swapped>>

(* The runs that have checked or made the entry that p replaces, and had   *)
(* asked for another compiler.                                             *)
Checked == {"locate", "prune", "evict", "execute"}
Overtaken(p) ==
  {proc[q].run : q \in {q \in Live \ {p} : /\ proc[q].pc \in Checked
                                          /\ proc[q].key = proc[p].key
                                          /\ proc[q].dsc # proc[p].dsc}}

Publish(p) ==
  LET k == proc[p].key
      r == proc[p].run
      done == CanMove(disk, Staging(p, k), Entry(k))
  IN  /\ proc[p].pc = "publish"
      /\ disk' = IF done THEN Moved(disk, Staging(p, k), Entry(k))
                 ELSE [disk EXCEPT ![Staging(p, k)] = None, ![Trash(p, k)] = None]
      /\ tree' = IF done THEN tree ELSE Emptied({Staging(p, k), Trash(p, k)})
      /\ unpruned' = IF done THEN unpruned \cup {r} ELSE unpruned
      /\ swapped' = IF done THEN (swapped \ {r}) \cup Overtaken(p) ELSE swapped
      /\ Goto(p, IF done THEN "prune" ELSE "failed")
      /\ UNCHANGED <<source, dsc, clock, changes, kills, cut>>

-----------------------------------------------------------------------------
(* prune_loose, clear_loose_cache and remove_dir_all.                      *)

Present == {k \in Keys : disk[Entry(k)] # None}
EntryTree(k) == tree[disk[Entry(k)]]
EntrySize(k) == IF "modules" \in EntryTree(k).parts THEN Size[EntryTree(k).content] ELSE 0

Older(j, k) ==
  \/ EntryTree(j).age < EntryTree(k).age
  \/ EntryTree(j).age = EntryTree(k).age /\ j < k

WithinBudget(S) == Cardinality(S) <= MaxEntries /\ MapThenSumSet(EntrySize, S) <= MaxBytes

(* The oldest entries, until what remains is within the budget.  In which  *)
(* order they are removed is left open.                                    *)
Evicted_Mutant == {k \in Present : ~WithinBudget({j \in Present : Older(k, j)})}

Evicted == {k \in Present : ~WithinBudget({j \in Present : ~Older(j, k)})}

List(p) ==
  /\ proc[p].pc = "prune"
  /\ disk' = [disk EXCEPT ![Trash(p, proc[p].key)] = None]
  /\ tree' = Emptied({Trash(p, proc[p].key)})
  /\ proc' = [proc EXCEPT ![p].pc = "evict",
                          ![p].removal = [todo |-> {Entry(k) : k \in Evicted}]]
  /\ UNCHANGED <<source, dsc, clock, changes, kills, unpruned, cut, swapped>>

(* A clear has removed the directory that is to be listed.                 *)
ListFails(p) ==
  /\ proc[p].pc = "prune"
  /\ \A path \in Path : disk[path] = None
  /\ Goto(p, "failed")
  /\ UNCHANGED <<source, dsc, disk, tree, clock, changes, kills, unpruned, cut, swapped>>

Clear(p) ==
  /\ Start(p, [pc |-> "clear", removal |-> [todo |-> {path \in Path : disk[path] # None}],
               steady |-> TRUE, alone |-> Live = {}])
  /\ UNCHANGED <<source, dsc, disk, tree, changes, kills, unpruned, cut, swapped>>

Opened(p) == "victim" \in DOMAIN proc[p].removal

Open(p) ==
  /\ proc[p].pc \in {"evict", "clear"}
  /\ ~Opened(p)
  /\ \E path \in proc[p].removal.todo :
       LET rest == [todo |-> proc[p].removal.todo \ {path}]
       IN  proc' = [proc EXCEPT ![p].removal =
             IF disk[path] = None THEN rest
             ELSE [todo |-> rest.todo, path |-> path, victim |-> disk[path]]]
  /\ UNCHANGED <<source, dsc, disk, tree, clock, changes, kills, unpruned, cut, swapped>>

(* Without its metadata a tree is as old as its directory was last changed.*)
Unlink(p) ==
  /\ Opened(p)
  /\ LET t == proc[p].removal.victim
     IN  \E part \in tree[t].parts :
           tree' = [tree EXCEPT ![t].parts = @ \ {part},
                                ![t].age = IF part = "meta" THEN clock ELSE @]
  /\ UNCHANGED <<source, dsc, disk, proc, clock, changes, kills, unpruned, cut, swapped>>

(* rmdir fails if another tree has come to the path, which ends a clear.   *)
Rmdir(p) ==
  /\ Opened(p)
  /\ tree[proc[p].removal.victim].parts = {}
  /\ LET path == proc[p].removal.path
         fails == PartsAt(path) # {}
     IN  /\ disk' = IF fails THEN disk ELSE [disk EXCEPT ![path] = None]
         /\ tree' = IF fails THEN tree ELSE Emptied({path})
         /\ proc' = [proc EXCEPT ![p].removal =
              IF fails /\ proc[p].pc = "clear" THEN Nothing ELSE [todo |-> @.todo]]
  /\ UNCHANGED <<source, dsc, clock, changes, kills, unpruned, cut, swapped>>

Removed(p) ==
  /\ proc[p].removal = Nothing
  /\ \/ /\ proc[p].pc = "clear"
        /\ proc' = [proc EXCEPT ![p] = Idle]
        /\ UNCHANGED unpruned
     \/ /\ proc[p].pc = "evict"
        /\ Goto(p, "execute")
        /\ unpruned' = unpruned \ {proc[p].run}
  /\ UNCHANGED <<source, dsc, disk, tree, clock, changes, kills, cut, swapped>>

-----------------------------------------------------------------------------
(* The world around the cache.                                             *)

(* A process that only runs its program may be killed as well.            *)
Exit(p) ==
  /\ p \in Live
  /\ proc[p].pc \in {"execute", "failed"}
  /\ proc' = [proc EXCEPT ![p] = Idle]
  /\ UNCHANGED <<source, dsc, disk, tree, clock, changes, kills, unpruned, cut, swapped>>

(* A process that has changed nothing yet leaves nothing behind.           *)
Kill(p) ==
  /\ p \in Live
  /\ proc[p].pc \notin {"check", "read", "locate", "compile", "execute", "failed"}
  /\ kills < MaxKills
  /\ kills' = kills + 1
  /\ cut' = IF Opened(p) THEN cut \cup {proc[p].removal.victim} ELSE cut
  /\ proc' = [proc EXCEPT ![p] = Idle]
  /\ UNCHANGED <<source, dsc, disk, tree, clock, changes, unpruned, swapped>>

Change ==
  /\ changes < MaxChanges
  /\ changes' = changes + 1
  /\ \/ \E f \in Files, k \in Keys : source' = [source EXCEPT ![f] = k] /\ UNCHANGED dsc
     \/ dsc' \in Compilers /\ UNCHANGED source
  /\ <<source, dsc>>' # <<source, dsc>>
  /\ proc' = [p \in Pids |-> IF p \in Live THEN [proc[p] EXCEPT !.steady = FALSE] ELSE Idle]
  /\ UNCHANGED <<disk, tree, clock, kills, unpruned, cut, swapped>>

-----------------------------------------------------------------------------
Init ==
  /\ source \in [Files -> Keys]
  /\ dsc \in Compilers
  /\ disk = [path \in Path |-> None]
  /\ tree = [r \in Run |-> Empty]
  /\ proc = [p \in Pids |-> Idle]
  /\ clock = 0
  /\ changes = 0
  /\ kills = 0
  /\ unpruned = {}
  /\ cut = {}
  /\ swapped = {}

Step(p) ==
  \/ CheckMeta(p) \/ ReadMeta(p) \/ Locate(p)
  \/ Compile(p) \/ CompileFails(p) \/ WriteMeta(p)
  \/ MoveAside(p) \/ Publish(p)
  \/ List(p) \/ ListFails(p) \/ Open(p) \/ Unlink(p) \/ Rmdir(p) \/ Removed(p)

Next ==
  \/ \E p \in Pids :
       \/ \E f \in Files : Begin(p, f)
       \/ Clear(p)
       \/ p \in Live /\ Step(p)
       \/ Exit(p)
       \/ Kill(p)
  \/ Change

Spec == Init /\ [][Next]_vars

-----------------------------------------------------------------------------
TypeOK ==
  /\ source \in [Files -> Keys]
  /\ dsc \in Compilers
  /\ disk \in [Path -> Run \cup {None}]
  /\ tree \in [Run -> Tree \cup {Empty}]
  /\ proc \in [Pids -> Process \cup Cleaner \cup {Idle}]
  /\ clock \in 0 .. MaxRuns
  /\ changes \in 0 .. MaxChanges
  /\ kills \in 0 .. MaxKills
  /\ unpruned \subseteq Run
  /\ cut \subseteq Run
  /\ swapped \subseteq Run

(* Stale output is not reused: what a process finds at the path it executes*)
(* was compiled from the present content of its file by the installed      *)
(* compiler, whichever processes renamed entries under it; unless an edit  *)
(* or upgrade has fallen into its run.  Of the entry it finds, content and *)
(* compiler are not what it is named by when one fell between the hashing  *)
(* and the compiling (OutputFresh).  Its compiler is not the one installed *)
(* when a run that had asked for another swapped it in after this run had  *)
(* checked or made its own (CompilerMatches) (materialize_with,            *)
(* valid_entry).                                                           *)
Current ==
  \A p \in Live :
    LET t == disk[Entry(proc[p].key)]
    IN  proc[p].pc = "execute" /\ proc[p].steady /\ t # None /\ tree[t].steady =>
          /\ tree[t].content = source[proc[p].file]
          /\ proc[p].run \notin swapped => tree[t].by = dsc

(* A process that never met another one does not fail on the cache and     *)
(* executes a whole entry, whatever killed processes left behind in the    *)
(* directory, its own pid's trash included.  The exception: a removal that *)
(* was killed before it took the metadata and everything else leaves an    *)
(* entry that valid_entry may accept, without imported modules that its    *)
(* artifact needs, or with one of them run in place of the artifact        *)
(* (ArtifactRuns).                                                         *)
AloneRunsWork ==
  \A p \in Live :
    LET t == disk[Entry(proc[p].key)]
    IN  proc[p].alone =>
          /\ proc[p].pc # "failed"
          /\ proc[p].pc = "execute" =>
               /\ t # None
               /\ \/ tree[t].parts = Part
                  \/ /\ t \in cut
                     /\ "meta" \in tree[t].parts
                     /\ tree[t].parts \cap {"artifact", "modules"} # {}

(* The cache is bounded: entries whose run has pruned are within both      *)
(* budgets together, although each run prunes what it has listed while     *)
(* others list, publish and remove (prune_loose).                          *)
Bounded == WithinBudget({k \in Present : disk[Entry(k)] \notin unpruned})

(* What the documentation says of entries, and the code does not keep.     *)

(* "An entry whose compiler no longer matches the installed one is rejected*)
(* and regenerated rather than reused" (module comment): a process executes*)
(* an entry whose metadata names the installed compiler, no upgrade having *)
(* fallen into its run.                                                    *)
CompilerMatches ==
  \A p \in Live :
    LET t == disk[Entry(proc[p].key)]
    IN  proc[p].pc = "execute" /\ proc[p].steady /\ t # None => tree[t].meta = dsc

(* "Stale output is never reused" (running-files.mdx): a process that saw  *)
(* no edit and no upgrade executes the output of what its file contains.   *)
OutputFresh ==
  \A p \in Live :
    LET t == disk[Entry(proc[p].key)]
    IN  proc[p].pc = "execute" /\ proc[p].steady /\ t # None =>
          tree[t].content = source[proc[p].file]

(* An entry is valid only when "the artifact exists", and anything else is *)
(* regenerated (valid_entry): what a process that met no other executes is *)
(* the artifact.                                                           *)
ArtifactRuns ==
  \A p \in Live :
    proc[p].alone /\ proc[p].pc = "execute" => "artifact" \in PartsAt(Entry(proc[p].key))

=============================================================================
