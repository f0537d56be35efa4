----------------------------- MODULE VmScheduler -----------------------------
(***************************************************************************)
(* The task scheduler of the native virtual machine: machine.rs,           *)
(* callback.rs, timers.rs and turn.rs of src/crates/deka_vm/src.           *)
(*                                                                         *)
(* A VM runs on one thread.  Its platform drives it in turns: a turn takes *)
(* the queued host commands, runs every runnable task once, for a bounded  *)
(* number of instructions, takes the commands queued meanwhile, collects   *)
(* garbage, and decides whether it wants another turn.  A task runs code,  *)
(* polls a host future, scans the inputs of a promise combinator, or       *)
(* follows the promise a callback returned.  Host code enters only through *)
(* the queue and the wakers; the wakers alone may be called by other       *)
(* threads, at any moment.                                                 *)
(*                                                                         *)
(* What a program does is left open: code takes any instruction that the   *)
(* scheduler can tell from another, and ends after MaxOps of them, except  *)
(* the entry function when it is a loop for ever.  A task awaits promises  *)
(* in an order that rules out cycles, which are the program's own fault.   *)
(* Identifiers of tasks stand for their promises as well, so a promise     *)
(* that has no task (a host reply that is ready at once) takes one too.    *)
(* Values are not modelled: VmBindings has the heap and its collection.    *)
(*                                                                         *)
(* Definitions whose name ends in _Mutant are faulty forms of those that   *)
(* follow them; no specification uses them.                                *)
(***************************************************************************)
EXTENDS Integers, Sequences, FiniteSets

CONSTANTS
  MaxTasks,  (* bound of the model: identifiers of tasks and promises      *)
  MaxOps,    (* bound of the model: instructions of a function             *)
  MaxCalls,  (* bound of the model: calls of call_async                    *)
  MaxJobs,   (* bound of the model: timers                                 *)
  Slice,     (* instructions of a task in a turn, 256 in the code          *)
  Programs   (* the programs considered, see Program                       *)

\* A program: how its platform drives it (Vm::poll until it ends, or
\* Vm::run_turn) and with which budget of instructions for a turn, whether its
\* entry function is a loop for ever, the instructions it and its platform use,
\* and how many identifiers it takes at most, a bound of the model.
Program ==
  [drive : {"poll", "turn"}, budget : Nat \ {0}, endless : BOOLEAN,
   ids : 1 .. MaxTasks,
   uses : SUBSET {"child", "host", "ready", "all", "race", "timeout",
                  "interval", "clear", "throw", "fault", "follow", "event",
                  "binding", "call", "cancel"}]

ASSUME ConstantsAssumption ==
  /\ {MaxTasks, MaxOps, Slice} \subseteq Nat \ {0}
  /\ {MaxCalls, MaxJobs} \subseteq Nat
  /\ Programs \subseteq Program /\ Programs # {}

VARIABLES
  program,    (* the program that runs                                     *)
  phase,      (* where the VM is between two turns                         *)
  batch,      (* commands taken and not yet executed                       *)
  ids,        (* the tasks that are still to run in this turn              *)
  left,       (* what is left of the budget                                *)
  running,    (* the task that runs, or 0                                  *)
  slice,      (* what is left of its slice                                 *)
  progressed, (* the flags of drive                                        *)
  deferred,
  cursor,     (* turn_cursor                                               *)
  tasks,      (* the tasks, by identifier                                  *)
  nextTask,
  outcome,    (* how each promise was settled, by identifier               *)
  order,      (* completion_order, 0 for a pending promise                 *)
  epoch,      (* completion_epoch                                          *)
  wake,       (* the ready flag of the VM's own waker                      *)
  queue,      (* commands of the host context                              *)
  nextJob,
  cancelled,  (* jobs whose cancelled flag is set                          *)
  calls,      (* what became of each call of call_async                    *)
  verdicts    (* history: which input settled each combinator              *)

turnVars == <<phase, batch, ids, left, running, slice, progressed, deferred>>
hostVars == <<queue, nextJob, cancelled>>
promiseVars == <<outcome, order, epoch, verdicts>>
vars == <<program, turnVars, cursor, tasks, nextTask, promiseVars, wake,
          hostVars, calls>>

Ids == 1 .. MaxTasks
Live == DOMAIN tasks
Uses(what) == what \in program.uses
NoTasks == [t \in {} |-> 0]

(***************************************************************************)
(* Tasks.  waiting is the promise a task was parked on, call the           *)
(* completion it owes.                                                     *)
(***************************************************************************)
Task(w) == [work |-> w, waiting |-> 0, call |-> 0]

\* job is the timer a callback belongs to; await the pending promise an await
\* instruction has found.
Code(job, event) ==
  [kind |-> "code", ops |-> MaxOps, await |-> 0, job |-> job, event |-> event]

\* A future: a timer when it has a job.  answer is what the outside world has
\* for it, armed whether the last poll left a waker there.
Future(job, repeat) ==
  [kind |-> "host", ready |-> TRUE, answer |-> "none", armed |-> FALSE,
   job |-> job, repeat |-> repeat]

Combinator(race, inputs) ==
  [kind |-> "join", race |-> race, inputs |-> inputs, cursor |-> 0,
   created |-> epoch, scan |-> epoch, checked |-> -1, seen |-> {},
   first |-> {}]

Follow(p) == [kind |-> "wait", on |-> p]

Kind(t) == tasks[t].work.kind
IsJob(t, j) == Kind(t) = "host" /\ tasks[t].work.job = j
Pending(p) == outcome[p] = "pending"

\* Identifiers that the pending commands and timers may still claim.
Room ==
  LET claims == SelectSeq(queue, LAMBDA c : c.op # "cancel")
      fired == {t \in Live : /\ Kind(t) = "host"
                             /\ tasks[t].work.job # 0
                             /\ tasks[t].work.answer # "none"}
  IN program.ids + 1 - nextTask - Len(claims) - Cardinality(fired)

\* Vm::spawn: a new identifier, a pending promise, and a task among the others.
Added(ts, task) ==
  [t \in DOMAIN ts \cup {nextTask} |-> IF t = nextTask THEN task ELSE ts[t]]

Issue ==
  /\ nextTask' = nextTask + 1
  /\ outcome' = Append(outcome, "pending")
  /\ order' = Append(order, 0)
  /\ UNCHANGED <<epoch, verdicts>>

Spawn(task) == Issue /\ tasks' = Added(tasks, task)

\* Vm::settle_promise.
Settle(p, how) ==
  /\ outcome' = [outcome EXCEPT ![p] = how]
  /\ order' = [order EXCEPT ![p] = epoch + 1]
  /\ epoch' = epoch + 1

Without(ts, gone) == [t \in DOMAIN ts \ gone |-> ts[t]]

\* HostContext::enqueue: a command wakes the VM.
Enqueue(command) ==
  /\ queue' = Append(queue, command)
  /\ wake' = TRUE

(***************************************************************************)
(* The end of the VM: Vm::cancel, which errors and the end of the program  *)
(* lead to as well.  Whatever owes an answer is dropped, and dropping a    *)
(* completion answers it; answered is the call that has got its error.     *)
(***************************************************************************)
OwedCalls_Mutant == {tasks[t].call : t \in Live}

OwedCalls ==
  {tasks[t].call : t \in Live}
    \cup {queue[i].call : i \in {i \in DOMAIN queue : queue[i].op = "call"}}

Close(failed) ==
  /\ phase' = "closed"
  /\ calls' = [c \in DOMAIN calls |->
                 CASE c = failed -> "failed"
                   [] c # failed /\ c \in OwedCalls -> "cancelled"
                   [] OTHER -> calls[c]]
  /\ tasks' = NoTasks
  /\ queue' = <<>>
  /\ cancelled' = 1 .. nextJob - 1
  /\ batch' = 0 /\ ids' = {} /\ left' = 0 /\ running' = 0 /\ slice' = 0
  /\ progressed' = FALSE /\ deferred' = FALSE
  /\ UNCHANGED <<program, cursor, nextTask, promiseVars, wake, nextJob>>

\* drive() returns the error of task t, which its caller gets as well.
Die(t) == Close(tasks[t].call)

(***************************************************************************)
(* A turn: Vm::run_turn, Vm::poll_inner and Vm::drive.                     *)
(***************************************************************************)
AtMost_Mutant(n, bound) == n

AtMost(n, bound) == IF n <= bound THEN n ELSE bound

\* The driver gives the VM a turn when it was woken, and the VM forgets the
\* wakes it had: a wake that arrives from now on counts for the next turn.
\* drive() begins with the commands that are queued.
StartTurn ==
  /\ phase = "idle"
  /\ wake \/ (program.drive = "turn" /\ queue # <<>>)
  /\ phase' = "start"
  /\ wake' = FALSE
  /\ batch' = AtMost(Len(queue), program.budget)
  /\ left' = program.budget - batch'
  /\ progressed' = (batch' > 0)
  /\ deferred' = FALSE
  /\ UNCHANGED <<program, ids, running, slice, cursor, tasks, nextTask,
                 promiseVars, hostVars, calls>>

\* Vm::host_commands, one command: a timer becomes a task unless it was
\* cleared meanwhile; a cleared one is dropped; a callback becomes a task
\* unless its timer was cleared.
SpawnTimer(c) ==
  IF c.job \in cancelled
  THEN UNCHANGED <<tasks, nextTask, promiseVars>>
  ELSE Spawn(Task(Future(c.job, c.repeat)))

DropTimer_Mutant(c) ==
  /\ tasks' = Without(tasks, {t \in Live : IsJob(t, c.job) /\ tasks[t].work.answer = "none"})
  /\ UNCHANGED <<nextTask, promiseVars>>

DropTimer(c) ==
  /\ tasks' = Without(tasks, {t \in Live : IsJob(t, c.job)})
  /\ UNCHANGED <<nextTask, promiseVars>>

StartCallback(c) ==
  IF c.job \in cancelled
  THEN UNCHANGED <<tasks, nextTask, promiseVars>>
  ELSE Spawn([Task(Code(c.job, FALSE)) EXCEPT !.call = c.call])

Execute ==
  LET c == Head(queue) IN
  /\ batch > 0
  /\ batch' = batch - 1
  /\ queue' = Tail(queue)
  /\ CASE c.op = "spawn" -> SpawnTimer(c)
       [] c.op = "cancel" -> DropTimer(c)
       [] c.op = "call" -> StartCallback(c)
  /\ UNCHANGED <<program, phase, ids, left, running, slice, progressed,
                 deferred, cursor, wake, nextJob, cancelled, calls>>

\* The filter of drive(): what can run now.
Runnable_Mutant(t) ==
  /\ tasks[t].waiting # 0 => ~Pending(tasks[t].waiting)
  /\ Kind(t) = "host" => tasks[t].work.ready

Runnable(t) ==
  /\ tasks[t].waiting # 0 => ~Pending(tasks[t].waiting)
  /\ Kind(t) = "host" => tasks[t].work.ready
  /\ Kind(t) = "join" => tasks[t].work.checked # epoch

Schedule ==
  /\ phase = "start" /\ batch = 0
  /\ phase' = "tasks"
  /\ ids' = {t \in Live : Runnable(t)}
  /\ UNCHANGED <<program, batch, left, running, slice, progressed, deferred,
                 cursor, tasks, nextTask, promiseVars, wake, hostVars, calls>>

\* Tasks run in the order of their identifiers, from the cursor on and round.
NextOf_Mutant(t) == \A u \in ids : t <= u

NextOf(t) ==
  \A u \in ids : IF t >= cursor THEN u >= t \/ u < cursor
                                ELSE t <= u /\ u < cursor

Dispatch(t) ==
  /\ phase = "tasks" /\ running = 0
  /\ left > 0
  /\ t \in ids /\ NextOf(t)
  /\ ids' = ids \ {t}
  /\ running' = t
  /\ slice' = AtMost(Slice, left)
  /\ cursor' = t + 1
  /\ tasks' = [tasks EXCEPT ![t].waiting = 0]
  /\ UNCHANGED <<program, phase, batch, left, progressed, deferred, nextTask,
                 promiseVars, wake, hostVars, calls>>

\* The budget is spent: the others have to wait for the next turn.
Defer ==
  /\ phase = "tasks" /\ running = 0
  /\ ids # {} /\ left = 0
  /\ ids' = {}
  /\ deferred' = TRUE
  /\ UNCHANGED <<program, phase, batch, left, running, slice, progressed,
                 cursor, tasks, nextTask, promiseVars, wake, hostVars, calls>>

\* Everything scheduled has run: take the commands that were queued meanwhile.
EndTasks ==
  /\ phase = "tasks" /\ running = 0 /\ ids = {}
  /\ phase' = "end"
  /\ batch' = AtMost(Len(queue), left)
  /\ left' = left - batch'
  /\ progressed' = (progressed \/ batch' > 0)
  /\ UNCHANGED <<program, ids, running, slice, deferred, cursor, tasks,
                 nextTask, promiseVars, wake, hostVars, calls>>

\* Vm::poll ends with the entry function, but not before the tasks it has
\* left behind unless it ended with an uncaught exception.
Over ==
  /\ program.drive = "poll"
  /\ \/ outcome[1] = "thrown"
     \/ outcome[1] = "value" /\ Live = {} /\ queue = <<>>

AnotherTurn ==
  \/ /\ progressed \/ deferred
     /\ program.drive = "poll" \/ Live # {}
  \/ queue # <<>>

GoOn_Mutant ==
  /\ phase' = "idle"
  /\ wake' = AnotherTurn
  /\ left' = 0 /\ progressed' = FALSE /\ deferred' = FALSE
  /\ UNCHANGED <<program, batch, ids, running, slice, cursor, tasks, nextTask,
                 promiseVars, hostVars, calls>>

GoOn ==
  /\ phase' = "idle"
  /\ wake' = (wake \/ AnotherTurn)
  /\ left' = 0 /\ progressed' = FALSE /\ deferred' = FALSE
  /\ UNCHANGED <<program, batch, ids, running, slice, cursor, tasks, nextTask,
                 promiseVars, hostVars, calls>>

EndTurn ==
  /\ phase = "end" /\ batch = 0
  /\ IF Over THEN Close(0) ELSE GoOn

(***************************************************************************)
(* How the task that runs leaves the processor, at the cost of so many     *)
(* instructions: it goes on, it is put back with the work it is left with, *)
(* or it is finished.  An exception that leaves a callback somebody waits  *)
(* for or an event handler, and any fault, end the VM.                     *)
(***************************************************************************)
Stay(ts) ==
  /\ left' = left - 1
  /\ slice' = slice - 1
  /\ running' = IF slice = 1 THEN 0 ELSE running
  /\ progressed' = TRUE
  /\ tasks' = ts
  /\ UNCHANGED <<program, phase, batch, ids, deferred, cursor>>

Leave(work, waiting, cost, progress) ==
  /\ left' = left - cost
  /\ slice' = 0 /\ running' = 0
  /\ progressed' = (progressed \/ progress)
  /\ tasks' = [tasks EXCEPT ![running].work = work, ![running].waiting = waiting]
  /\ UNCHANGED <<program, phase, batch, ids, deferred, cursor, nextTask,
                 promiseVars, calls>>

Fatal(t, how) ==
  \/ how = "fault"
  \/ how = "thrown" /\ tasks[t].call # 0
  \/ how = "thrown" /\ Kind(t) = "code" /\ tasks[t].work.event

Answered(call) ==
  [c \in DOMAIN calls |-> IF c = call THEN "done" ELSE calls[c]]

Finish(how, cost, ruling) ==
  IF Fatal(running, how)
  THEN Close(tasks[running].call)
  ELSE /\ left' = left - cost
       /\ slice' = 0 /\ running' = 0
       /\ progressed' = TRUE
       /\ tasks' = Without(tasks, {running})
       /\ Settle(running, how)
       /\ verdicts' = verdicts \cup ruling
       /\ calls' = Answered(tasks[running].call)
       /\ UNCHANGED <<program, phase, batch, ids, deferred, cursor, nextTask,
                      wake, hostVars>>

(***************************************************************************)
(* One poll of the work of a task that is not code.                        *)
(***************************************************************************)

\* Work::CallbackWait: the callback's own promise takes the outcome of the
\* promise the callback returned.
PollWait(t) ==
  LET p == tasks[t].work.on IN
  /\ running = t /\ Kind(t) = "wait"
  /\ IF Pending(p)
     THEN Leave(tasks[t].work, p, 1, FALSE) /\ UNCHANGED <<wake, hostVars>>
     ELSE Finish(outcome[p], 1, {})

\* Work::Host, a future of the host.
PollHost(t) ==
  LET w == tasks[t].work IN
  /\ running = t /\ Kind(t) = "host" /\ w.job = 0
  /\ \/ /\ w.answer = "none"
        /\ Leave([w EXCEPT !.ready = FALSE, !.armed = TRUE], 0, 1, FALSE)
        /\ UNCHANGED <<wake, hostVars>>
     \/ w.answer = "ok" /\ Finish("value", 1, {})
     \/ w.answer = "fail" /\ Finish("fault", 1, {})

\* The future of a timer: Timer::poll.  It enqueues one callback each time it
\* expires; an interval then wakes itself to install the next expiry.
PollTimer(t) ==
  LET w == tasks[t].work
      call == [op |-> "call", job |-> w.job, repeat |-> FALSE, call |-> 0]
  IN
  /\ running = t /\ Kind(t) = "host" /\ w.job # 0
  /\ IF w.job \in cancelled THEN Finish("value", 1, {})
     ELSE IF w.answer = "none"
     THEN /\ Leave([w EXCEPT !.ready = FALSE, !.armed = TRUE], 0, 1, FALSE)
          /\ UNCHANGED <<wake, hostVars>>
     ELSE /\ Enqueue(call)
          /\ UNCHANGED <<nextJob, cancelled>>
          /\ left' = left - 1
          /\ slice' = 0 /\ running' = 0
          /\ IF w.repeat
             THEN /\ tasks' = [tasks EXCEPT ![t].work =
                                 [w EXCEPT !.answer = "none", !.armed = FALSE]]
                  /\ UNCHANGED <<promiseVars, progressed>>
             ELSE /\ tasks' = Without(tasks, {t})
                  /\ Settle(t, "value")
                  /\ progressed' = TRUE
                  /\ UNCHANGED verdicts
          /\ UNCHANGED <<program, phase, batch, ids, deferred, cursor,
                         nextTask, calls>>

\* Vm::poll_join.  A scan looks at a bounded number of inputs and parks where
\* it stops.  What was settled before the combinator was made counts as
\* settled at once, so among those the first input wins.
Clamped(p, created) == IF order[p] <= created THEN 0 ELSE order[p]

Sooner(a, b) == a[1] < b[1] \/ (a[1] = b[1] /\ a[2] <= b[2])
Soonest(claims) == {a \in claims : \A b \in claims : Sooner(a, b)}

Scanned(w) ==
  LET end == AtMost(w.cursor + slice, Len(w.inputs))
      settled == {i \in w.cursor + 1 .. end : ~Pending(w.inputs[i])}
      claims == {i \in settled : w.race \/ outcome[w.inputs[i]] = "thrown"}
  IN [w EXCEPT
        !.cursor = end,
        !.scan = IF w.cursor = 0 THEN epoch ELSE w.scan,
        !.seen = @ \cup {i \in settled : outcome[w.inputs[i]] = "value"},
        !.first = Soonest(@ \cup {<<Clamped(w.inputs[i], w.created), i>> :
                                    i \in claims})]

Ruling(w, winner) ==
  {[race |-> w.race, inputs |-> w.inputs, created |-> w.created,
    winner |-> winner]}

\* A claim newer than the start of the scan may have a rival that was settled
\* behind the cursor.
Unsure_Mutant(w) == FALSE

Unsure(w) == \E claim \in w.first : claim[1] > w.scan

PollJoin(t) ==
  LET w == tasks[t].work
      s == Scanned(w)
      cost == AtMost(slice, Len(w.inputs) - w.cursor + 1)
      faulty == \E i \in w.cursor + 1 .. s.cursor :
                  outcome[w.inputs[i]] = "fault"
      park(work) == /\ Leave(work, 0, cost, TRUE)
                    /\ UNCHANGED <<wake, hostVars>>
      won == CHOOSE i \in DOMAIN w.inputs : \E c \in s.first : c[2] = i
  IN
  /\ running = t /\ Kind(t) = "join"
  /\ IF faulty THEN Close(0)
     ELSE IF s.cursor < Len(w.inputs) THEN park(s)
     ELSE IF Unsure(s) THEN park([s EXCEPT !.cursor = 0, !.checked = -1])
     ELSE IF s.first # {}
     THEN Finish(outcome[w.inputs[won]], cost, Ruling(w, won))
     ELSE IF ~w.race /\ s.seen = DOMAIN w.inputs
     THEN Finish("value", cost, Ruling(w, 0))
     ELSE park([s EXCEPT !.cursor = 0, !.checked = s.scan])

(***************************************************************************)
(* Instructions of code, one action each, as the scheduler sees them.  A   *)
(* function that has done MaxOps of them ends; the endless entry function  *)
(* goes round instead.  Throw and Await stand for the uncaught exception   *)
(* and the caught one: a handler lets code go on.                          *)
(***************************************************************************)
Endless(t) == t = 1 /\ program.endless
Active(t) == running = t /\ Kind(t) = "code"
Ready(t) == Active(t) /\ tasks[t].work.await = 0 /\ tasks[t].work.ops > 0

\* The table once the instruction is behind task t.
Past(t) == [tasks EXCEPT ![t].work.ops = @ - 1, ![t].work.await = 0]

SpawnOp(t, work) ==
  /\ Ready(t) /\ Room >= 1
  /\ Issue
  /\ Stay(Added(Past(t), Task(work)))
  /\ UNCHANGED <<wake, hostVars, calls>>

\* The promises a program can await without waiting for itself.
Awaitable(t, p) ==
  LET alone(q) == IF Kind(q) = "host" THEN tasks[q].work.job = 0
                  ELSE /\ Kind(q) = "code" /\ q > t
                       /\ tasks[q].work.job = 0 /\ tasks[q].call = 0
                       /\ ~tasks[q].work.event
  IN /\ p \in 1 .. nextTask - 1 /\ p # t
     /\ Pending(p) =>
          \/ p \in Live /\ alone(p)
          \/ /\ p \in Live /\ Kind(p) = "join"
             /\ \A q \in {tasks[p].work.inputs[i] :
                            i \in DOMAIN tasks[p].work.inputs} :
                  Pending(q) => alone(q)

Inputs(t) ==
  LET plain == {p \in 1 .. nextTask - 1 :
                  Awaitable(t, p) /\ (Pending(p) => Kind(p) # "join")}
  IN {<<p, q>> : p \in plain, q \in plain}

\* An asynchronous call; a host operation that is not answered at once; the
\* two promise combinators.
CallChild(t) == Uses("child") /\ SpawnOp(t, Code(0, FALSE))
CallHost(t) == Uses("host") /\ SpawnOp(t, Future(0, FALSE))
JoinOp(t) ==
  \E race \in {r \in BOOLEAN : Uses(IF r THEN "race" ELSE "all")} :
    \E inputs \in Inputs(t) : SpawnOp(t, Combinator(race, inputs))

\* An asynchronous host operation that is answered at once.
CallReady(t) ==
  /\ Uses("ready") /\ Ready(t) /\ Room >= 1
  /\ nextTask' = nextTask + 1
  /\ \E how \in {"value"} \cup {h \in {"fault"} : Uses(h)} :
       outcome' = Append(outcome, how)
  /\ order' = Append(order, epoch + 1)
  /\ epoch' = epoch + 1
  /\ Stay(Past(t))
  /\ UNCHANGED <<verdicts, wake, hostVars, calls>>

\* setTimeout and setInterval, clearTimeout and clearInterval.
SetTimer(t) ==
  /\ Ready(t) /\ Room >= 1 /\ nextJob <= MaxJobs
  /\ \E repeat \in {r \in BOOLEAN : Uses(IF r THEN "interval" ELSE "timeout")} :
       Enqueue([op |-> "spawn", job |-> nextJob, repeat |-> repeat, call |-> 0])
  /\ nextJob' = nextJob + 1
  /\ Stay(Past(t))
  /\ UNCHANGED <<cancelled, nextTask, promiseVars, calls>>

ClearTimer(t) ==
  /\ Uses("clear") /\ Ready(t)
  /\ \E job \in (1 .. nextJob - 1) \ cancelled :
       /\ cancelled' = cancelled \cup {job}
       /\ Enqueue([op |-> "cancel", job |-> job, repeat |-> FALSE, call |-> 0])
  /\ Stay(Past(t))
  /\ UNCHANGED <<nextJob, nextTask, promiseVars, calls>>

\* Op::Await.  Finding the promise pending, the task parks on it and will
\* execute the instruction again.
Park(t, p) ==
  /\ Leave([tasks[t].work EXCEPT !.await = p], p, 1, FALSE)
  /\ UNCHANGED <<wake, hostVars>>

Await(t) ==
  /\ Active(t)
  /\ \E p \in Ids :
       /\ IF tasks[t].work.await # 0 THEN p = tasks[t].work.await
                                     ELSE Ready(t) /\ Awaitable(t, p)
       /\ CASE Pending(p) -> Park(t, p)
            [] outcome[p] = "fault" -> Finish("fault", 1, {})
            [] outcome[p] \in {"value", "thrown"} ->
                 \/ /\ Stay(Past(t))
                    /\ UNCHANGED <<nextTask, promiseVars, wake, hostVars, calls>>
                 \/ /\ outcome[p] = "thrown" /\ ~Endless(t)
                    /\ Finish("thrown", 1, {})

\* The end of a function; a function somebody waits for may return a promise,
\* which is then followed.
Return(t) ==
  /\ Active(t) /\ tasks[t].work.await = 0 /\ ~Endless(t)
  /\ \/ Finish("value", 1, {})
     \/ Uses("throw") /\ Finish("thrown", 1, {})
     \/ Uses("fault") /\ Finish("fault", 1, {})

ReturnPromise(t) ==
  /\ Uses("follow") /\ Active(t) /\ tasks[t].work.await = 0
  /\ tasks[t].call # 0
  /\ \E p \in Ids : Awaitable(t, p) /\ Leave(Follow(p), p, 1, TRUE)
  /\ UNCHANGED <<wake, hostVars>>

Spin(t) ==
  /\ Active(t) /\ tasks[t].work.await = 0 /\ Endless(t)
  /\ Stay(tasks)
  /\ UNCHANGED <<nextTask, promiseVars, wake, hostVars, calls>>

(***************************************************************************)
(* The world around the VM.                                                *)
(***************************************************************************)

\* A future has its answer.  This may happen on any thread and at any moment;
\* the waker of the last poll, if there was one, wakes the task and the VM.
HostAnswer(t) ==
  LET w == tasks[t].work IN
  /\ t \in Live /\ Kind(t) = "host" /\ w.answer = "none"
  /\ w.job # 0 => Room >= 1
  /\ \E answer \in {"ok"} \cup {a \in {"fail"} : Uses("fault") /\ w.job = 0} :
       tasks' = [tasks EXCEPT ![t].work.answer = answer,
                              ![t].work.ready = w.ready \/ w.armed]
  /\ wake' = (wake \/ w.armed)
  /\ UNCHANGED <<program, turnVars, cursor, nextTask, promiseVars, hostVars,
                 calls>>

\* HostCallback::call_async, from host code on the thread of the VM: between
\* turns, or in an operation or a future that a task runs.
CallAsync(c) ==
  /\ Uses("call") /\ calls[c] = "idle" /\ Room >= 1
  /\ phase = "idle" \/ running # 0
  /\ Enqueue([op |-> "call", job |-> 0, repeat |-> FALSE, call |-> c])
  /\ calls' = [calls EXCEPT ![c] = "made"]
  /\ UNCHANGED <<program, turnVars, cursor, tasks, nextTask, promiseVars,
                 nextJob, cancelled>>

\* enqueue_event, from the window.
Event ==
  /\ Uses("event") /\ program.drive = "turn" /\ phase = "idle" /\ Room >= 1
  /\ Spawn(Task(Code(0, TRUE)))
  /\ wake' = TRUE
  /\ UNCHANGED <<program, turnVars, cursor, hostVars, calls>>

\* invoke_args and finish_sync: a binding of the interface is evaluated to the
\* end before anything else runs.  It may leave a task behind, which nobody
\* has woken the VM for.
LeavesWork_Mutant(spawned) == queue # <<>>

LeavesWork(spawned) == spawned \/ queue # <<>>

Binding ==
  LET root == nextTask IN
  /\ Uses("binding") /\ program.drive = "turn" /\ phase = "idle"
  /\ \E child \in BOOLEAN :
       /\ Room >= IF child THEN 2 ELSE 1
       /\ nextTask' = root + IF child THEN 2 ELSE 1
       /\ tasks' = [t \in Live \cup {u \in {root + 1} : child} |->
                      IF t \in Live THEN tasks[t] ELSE Task(Code(0, FALSE))]
       /\ outcome' = outcome \o IF child THEN <<"value", "pending">> ELSE <<"value">>
       /\ order' = order \o IF child THEN <<epoch + 1, 0>> ELSE <<epoch + 1>>
       /\ wake' = (wake \/ LeavesWork(child))
  /\ epoch' = epoch + 1
  /\ UNCHANGED <<program, turnVars, cursor, verdicts, hostVars, calls>>

\* The platform drops the VM.
Cancel == Uses("cancel") /\ phase = "idle" /\ Close(0)

(***************************************************************************)
(* The specification.                                                      *)
(***************************************************************************)
Init ==
  /\ program \in Programs
  /\ phase = "idle"
  /\ batch = 0 /\ ids = {} /\ left = 0 /\ running = 0 /\ slice = 0
  /\ progressed = FALSE /\ deferred = FALSE
  /\ cursor = 1
  /\ tasks = [t \in {1} |-> Task(Code(0, FALSE))]
  /\ nextTask = 2
  /\ outcome = <<"pending">> /\ order = <<0>> /\ epoch = 0
  /\ wake = TRUE
  /\ queue = <<>> /\ nextJob = 1 /\ cancelled = {}
  /\ calls = [c \in 1 .. MaxCalls |-> "idle"]
  /\ verdicts = {}

Instruction(t) ==
  \/ CallChild(t) \/ CallHost(t) \/ CallReady(t) \/ JoinOp(t)
  \/ SetTimer(t) \/ ClearTimer(t)
  \/ Await(t) \/ Return(t) \/ ReturnPromise(t) \/ Spin(t)

Poll(t) == PollWait(t) \/ PollHost(t) \/ PollTimer(t) \/ PollJoin(t)

Turn ==
  \/ StartTurn \/ Execute \/ Schedule \/ Defer \/ EndTasks \/ EndTurn
  \/ \E t \in Live : Dispatch(t) \/ Poll(t) \/ Instruction(t)

World ==
  \/ \E t \in Live : HostAnswer(t)
  \/ \E c \in 1 .. MaxCalls : CallAsync(c)
  \/ Event \/ Binding \/ Cancel

Next == Turn \/ World

\* The platform gives the VM its turns when it is woken, and a turn runs to
\* its end.  The world owes the VM nothing: an operation need not be answered.
Spec == Init /\ [][Next]_vars /\ WF_vars(Turn)

(***************************************************************************)
(* Properties.                                                             *)
(***************************************************************************)

\* Every variable has its type; the work of a task refers to what exists.
TypeOK ==
  /\ program \in Programs
  /\ phase \in {"idle", "start", "tasks", "end", "closed"}
  /\ batch \in 0 .. Len(queue) /\ left \in 0 .. program.budget /\ slice \in 0 .. left
  /\ ids \subseteq Live /\ Live \subseteq Ids /\ nextTask \in 2 .. MaxTasks + 1
  /\ running \in {0} \cup Live /\ (running # 0 => slice > 0)
  /\ {progressed, deferred, wake} \subseteq BOOLEAN
  /\ cursor \in 1 .. MaxTasks + 1
  /\ \A t \in Live :
       /\ Pending(t)
       /\ tasks[t].waiting \in 0 .. nextTask - 1 /\ tasks[t].call \in 0 .. MaxCalls
       /\ Kind(t) \in {"code", "host", "join", "wait"}
  /\ outcome \in [1 .. nextTask - 1 -> {"pending", "value", "thrown", "fault"}]
  /\ order \in [1 .. nextTask - 1 -> 0 .. epoch]
  /\ \A p \in 1 .. nextTask - 1 : (order[p] = 0) <=> Pending(p)
  /\ nextJob \in 1 .. MaxJobs + 1 /\ cancelled \subseteq 1 .. nextJob - 1
  /\ \A c \in DOMAIN calls :
       calls[c] \in {"idle", "made", "done", "failed", "cancelled"}

\* No wake is lost: when the VM lies still with nobody to give it a turn,
\* there is nothing it could do.  Code and followers are parked on pending
\* promises, every future has left its waker with an operation that is not
\* answered yet, no combinator has an input to settle on, no command is
\* queued.  (The flags of drive and run_turn, ReadyWake, poll_join's epochs.)
NoLostWake ==
  phase = "idle" /\ ~wake =>
    /\ program.drive = "turn" \/ queue = <<>>
    /\ \A t \in Live :
         LET w == tasks[t].work IN
         CASE w.kind \in {"code", "wait"} ->
                tasks[t].waiting # 0 /\ Pending(tasks[t].waiting)
           [] w.kind = "host" -> w.armed /\ w.answer = "none"
           [] w.kind = "join" ->
                /\ \E i \in DOMAIN w.inputs : Pending(w.inputs[i])
                /\ \A i \in DOMAIN w.inputs :
                     \/ Pending(w.inputs[i])
                     \/ ~w.race /\ outcome[w.inputs[i]] = "value"

\* A combinator is settled by the input that was settled first, whichever of
\* them its scans have met first, and among those that were settled before it
\* was made by the first in the list; Promise.all waits for all its values.
FirstSettlementWins ==
  \A v \in verdicts :
    LET rivals == {i \in DOMAIN v.inputs :
                     /\ ~Pending(v.inputs[i])
                     /\ v.race \/ outcome[v.inputs[i]] = "thrown"}
        rank(i) == <<Clamped(v.inputs[i], v.created), i>>
    IN IF v.winner = 0
       THEN ~v.race /\ \A i \in DOMAIN v.inputs : outcome[v.inputs[i]] = "value"
       ELSE /\ v.winner \in rivals
            /\ \A i \in rivals : Sooner(rank(v.winner), rank(i))

\* Once the commands are taken a timer that was cleared is gone, wherever the
\* clearing found it: in the queue, waiting, expired, or between two expiries.
ClearedTimersGone ==
  phase = "idle" /\ queue = <<>> =>
    \A t \in Live : \A job \in cancelled : ~IsJob(t, job)

\* Host code that called a callback gets an answer even if the VM ends first:
\* the call may be queued, running, following a promise, or cut off by the
\* failure of another task.
ClosedAnswersAll ==
  phase = "closed" => \A c \in DOMAIN calls : calls[c] # "made"

\* Every call of a callback is answered, however much other code runs: a loop
\* that never yields gets its slice of a turn and no more.  The callback may
\* wait for operations of the host, so those have to be answered.
HostsAnswer ==
  \A t \in Ids : WF_vars(/\ t \in Live /\ Kind(t) = "host"
                         /\ tasks[t].work.job = 0
                         /\ HostAnswer(t))

CallsAnswered ==
  HostsAnswer =>
    \A c \in 1 .. MaxCalls : (calls[c] = "made") ~> (calls[c] # "made")

\* Left alone, a VM whose code has ended or waits stops taking turns: an idle
\* combinator does not spin, and a turn that had nothing to do does not ask
\* for another.
Quiesces == <>[](program.endless \/ phase \in {"idle", "closed"})
=============================================================================
