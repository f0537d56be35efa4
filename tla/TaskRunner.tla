---------------------------- MODULE TaskRunner ----------------------------
(***************************************************************************)
(* The task runner of `deka task` (src/crates/deka_task/src/command.rs):   *)
(* a thread for every requested task and for every dependency of a claimed *)
(* one, a map of task states under a mutex, and a condition variable that  *)
(* a finished task notifies.                                               *)
(*                                                                         *)
(* A thread is known by its path: the names of the threads that spawned    *)
(* it, which the code passes as `stack`, and its own.  Names are numbers,  *)
(* ordered as the code sorts strings; a dependency may name no task.  The  *)
(* dependencies of a task are a set: a repeated name would only add a      *)
(* thread that takes the result of the first.  A task requested by name,   *)
(* which the main thread runs itself, is a thread that it joins at once.   *)
(* Commands are shell commands that end, and end the same way whenever     *)
(* they are run; an empty or malformed one fails without a child process.  *)
(*                                                                         *)
(* Definitions whose name ends in _Mutant are faulty forms of those that   *)
(* follow them; no specification uses them.                                *)
(***************************************************************************)
EXTENDS Integers, Sequences, FiniteSets

CONSTANTS
  Tasks,     \* the names deka.json defines
  Names,     \* the names it mentions
  Graphs,    \* the dependencies it may give each task
  Requests   \* the sets of tasks a command line may ask for

ASSUME NamesAssumption ==
  /\ Tasks \subseteq Names /\ Names \subseteq Nat /\ IsFiniteSet(Tasks)
  /\ Graphs \subseteq [Tasks -> SUBSET Names]
  /\ Requests \subseteq SUBSET Tasks

VARIABLES
  deps,      \* the dependencies of each task: fixed
  requested, \* the tasks asked for: fixed
  succeeds,  \* the tasks whose command exits with 0: fixed
  task,      \* the map of task states
  threads,   \* path -> what the thread is doing
  handles,   \* the requested threads the main thread has still to join
  exit,      \* how the process ended
  commands   \* how often the command of each task was run: for properties

config == <<deps, requested, succeeds>>
vars == <<deps, requested, succeeds, task, threads, handles, exit, commands>>

None == <<"none", 0>>
InProgress == <<"in progress", 0>>
Ok == <<"ok", 0>>
Failed(t) == <<"failed", t>>
Cycle(n) == <<"cycle", n>>
Unknown(n) == <<"unknown", n>>
Results == {Ok} \cup ({"failed", "cycle", "unknown"} \X Names)

Thread == [at : {"looking", "asleep", "joining", "running", "returned"},
           left : SUBSET Names, result : Results \cup {None}]

Spawned == [at |-> "looking", left |-> {}, result |-> None]
Joining(S) == [at |-> "joining", left |-> S, result |-> None]
Returned(r) == [at |-> "returned", left |-> {}, result |-> r]

Name(p) == p[Len(p)]
OnStack(p) == \E i \in 1 .. Len(p) - 1 : p[i] = Name(p)

Done_Mutant(t) == task[t] # None
Done(t) == task[t] \notin {None, InProgress}

\* Handles are joined in the order of their names.
NextHandle_Mutant(S) == S
NextHandle(S) == {n \in S : \A m \in S : n <= m}

\* notify_all: every sleeper looks again, whatever it waits for.
Woken_Mutant(th) == th
Woken(th) == [q \in DOMAIN th |->
                IF th[q].at = "asleep" THEN [th[q] EXCEPT !.at = "looking"] ELSE th[q]]

At(p, where) == exit = None /\ threads[p].at = where

Rejected(p) == OnStack(p) \/ Name(p) \notin Tasks

---------------------------------------------------------------------------

\* A cycle on the thread's own stack, then a name that is no task.
Reject(p) ==
  /\ At(p, "looking")
  /\ Rejected(p)
  /\ threads' = [threads EXCEPT ![p] =
       Returned(IF OnStack(p) THEN Cycle(Name(p)) ELSE Unknown(Name(p)))]
  /\ UNCHANGED <<config, task, handles, exit, commands>>

\* The task is done: its result is this thread's too.
Reuse(p) ==
  /\ At(p, "looking")
  /\ ~Rejected(p)
  /\ Done(Name(p))
  /\ threads' = [threads EXCEPT ![p] = Returned(task[Name(p)])]
  /\ UNCHANGED <<config, task, handles, exit, commands>>

\* Another thread runs the task: wait on the condition variable.
Sleep(p) ==
  /\ At(p, "looking")
  /\ ~Rejected(p)
  /\ task[Name(p)] = InProgress
  /\ threads' = [threads EXCEPT ![p].at = "asleep"]
  /\ UNCHANGED <<config, task, handles, exit, commands>>

\* The condition variable may wake a thread that nobody notified.
WakeSpuriously(p) ==
  /\ At(p, "asleep")
  /\ threads' = [threads EXCEPT ![p].at = "looking"]
  /\ UNCHANGED <<config, task, handles, exit, commands>>

\* The task is nobody's: it is this thread's, which spawns the dependencies.
Unclaimed_Mutant(t) == ~Done(t)
Unclaimed(t) == task[t] = None

Claim(p) ==
  LET spawned == {Append(p, d) : d \in deps[Name(p)]}
  IN /\ At(p, "looking")
     /\ ~Rejected(p)
     /\ Unclaimed(Name(p))
     /\ task' = [task EXCEPT ![Name(p)] = InProgress]
     /\ threads' = [q \in DOMAIN threads \cup spawned |->
                      IF q = p THEN Joining(deps[Name(p)])
                      ELSE IF q \in spawned THEN Spawned ELSE threads[q]]
     /\ UNCHANGED <<config, handles, exit, commands>>

\* finish, and the return of the thread.
Finish(p, r) ==
  /\ task' = [task EXCEPT ![Name(p)] = r]
  /\ threads' = Woken([threads EXCEPT ![p] = Returned(r)])

\* The next dependency's thread has ended.  The first that failed ends the
\* task; the handles that are left are dropped and their threads run on.
Join(p) ==
  /\ At(p, "joining")
  /\ \E d \in NextHandle(threads[p].left) :
       LET child == threads[Append(p, d)]
       IN /\ child.at = "returned"
          /\ IF child.result = Ok
             THEN /\ threads' = [threads EXCEPT ![p].left = @ \ {d}]
                  /\ UNCHANGED task
             ELSE Finish(p, child.result)
  /\ UNCHANGED <<config, handles, exit, commands>>

\* run_task: every dependency is joined.
Joined_Mutant(p) == Cardinality(threads[p].left) <= 1
Joined(p) == threads[p].left = {}

Run(p) ==
  /\ At(p, "joining")
  /\ Joined(p)
  /\ threads' = [threads EXCEPT ![p].at = "running"]
  /\ commands' = [commands EXCEPT ![Name(p)] = @ + 1]
  /\ UNCHANGED <<config, task, handles, exit>>

Complete(p) ==
  /\ At(p, "running")
  /\ Finish(p, IF Name(p) \in succeeds THEN Ok ELSE Failed(Name(p)))
  /\ UNCHANGED <<config, handles, exit, commands>>

\* run_tasks: the main thread joins what was asked for; the first failure ends
\* the process, and every thread with it.
JoinRequested ==
  /\ exit = None
  /\ \E n \in NextHandle(handles) :
       LET root == threads[<<n>>]
       IN /\ root.at = "returned"
          /\ IF root.result = Ok
             THEN handles' = handles \ {n} /\ UNCHANGED exit
             ELSE exit' = root.result /\ UNCHANGED handles
  /\ UNCHANGED <<config, task, threads, commands>>

Awaited_Mutant(S) == S = requested
Awaited(S) == S # {}

Exit ==
  /\ exit = None
  /\ ~Awaited(handles)
  /\ exit' = Ok
  /\ UNCHANGED <<config, task, threads, handles, commands>>

---------------------------------------------------------------------------

Init ==
  /\ deps \in Graphs
  /\ requested \in Requests \ {{}}
  /\ succeeds \in SUBSET Tasks
  /\ task = [t \in Tasks |-> None]
  /\ threads = [p \in {<<n>> : n \in requested} |-> Spawned]
  /\ handles = requested
  /\ exit = None
  /\ commands = [t \in Tasks |-> 0]

\* What a scheduler that lets some thread run does in the end.
Progress ==
  \/ \E p \in DOMAIN threads :
       Reject(p) \/ Reuse(p) \/ Claim(p) \/ Join(p) \/ Run(p) \/ Complete(p)
  \/ JoinRequested
  \/ Exit

Next == Progress \/ \E p \in DOMAIN threads : Sleep(p) \/ WakeSpuriously(p)

Spec == Init /\ [][Next]_vars
FairSpec == Spec /\ WF_vars(Progress)

---------------------------------------------------------------------------

\* The map of task states, the threads and the process are what the code's
\* types let them be; a thread that has returned has a result, no other does.
TypeOK ==
  /\ deps \in [Tasks -> SUBSET Names]
  /\ requested \subseteq Tasks /\ handles \subseteq requested
  /\ succeeds \subseteq Tasks
  /\ task \in [Tasks -> Results \cup {None, InProgress}]
  /\ threads \in [DOMAIN threads -> Thread]
  /\ \A p \in DOMAIN threads :
       /\ p \in Seq(Names) /\ p # <<>>
       /\ threads[p].at = "returned" <=> threads[p].result # None
  /\ exit \in Results \cup {None}
  /\ commands \in [Tasks -> Nat]

\* The command of a task runs only when all its dependencies, which other
\* threads may have claimed and run, have ended with success, as the test
\* runs_dependencies_before_task expects of one chain.
DependenciesFirst ==
  \A p \in DOMAIN threads :
    threads[p].at = "running" =>
      \A d \in deps[Name(p)] : d \in Tasks /\ task[d] = Ok

\* However many tasks need it at the same time, the command of a task runs
\* once: the promise of the test dependencies_run_once_across_parallel_tasks.
RunsOnce == \A t \in Tasks : commands[t] <= 1

\* A process that exits with success leaves nothing running: every thread it
\* spawned has returned, and so has every command.
NothingLeftRunning ==
  exit = Ok => \A p \in DOMAIN threads : threads[p].at = "returned"

Acyclic == \A S \in SUBSET Tasks : S # {} => \E t \in S : deps[t] \cap S = {}

\* What each task answers when its dependencies answer v: the error of the first
\* of them, by name, that has one, or else its own.
Judged(v) ==
  [m \in Names |->
     IF m \notin Tasks THEN Unknown(m)
     ELSE LET bad == {d \in deps[m] : v[d] # Ok}
          IN IF bad # {} THEN v[CHOOSE d \in bad : \A e \in bad : d <= e]
             ELSE IF m \in succeeds THEN Ok ELSE Failed(m)]

\* What running the tasks one after the other would answer: without cycles no
\* chain of dependencies is longer than there are tasks.
Verdicts ==
  LET Round[k \in 0 .. Cardinality(Tasks) + 1] ==
        IF k = 0 THEN [m \in Names |-> IF m \in Tasks THEN None ELSE Unknown(m)]
        ELSE Judged(Round[k - 1])
  IN Round[Cardinality(Tasks) + 1]

Verdict(n) == Verdicts[n]

\* Without cycles, how a task ends and what the process reports do not depend
\* on the order in which the threads and commands came to their ends: what the
\* test dependency_failure_order_is_deterministic shows of two failures.
Deterministic ==
  Acyclic =>
    /\ \A t \in Tasks : Done(t) => task[t] = Verdict(t)
    /\ exit # None =>
         LET bad == {n \in requested : Verdict(n) # Ok}
         IN exit = IF bad = {} THEN Ok
                   ELSE Verdict(CHOOSE n \in bad : \A m \in bad : n <= m)

OneChain == Cardinality(requested) = 1 /\ \A t \in Tasks : Cardinality(deps[t]) <= 1

\* The process ends: always without cycles, and with a cycle when a single
\* chain of threads runs into it, which is when the stack shows it.
Ends == (Acyclic \/ OneChain) => <>(exit # None)
===========================================================================
