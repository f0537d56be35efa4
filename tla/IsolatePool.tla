----------------------------- MODULE IsolatePool -----------------------------
(***************************************************************************)
(* The pool of script isolates: crates/pool/src/isolate_pool.              *)
(*                                                                         *)
(* A call of execute() picks a worker, counts itself in the worker's load, *)
(* sends its request and awaits the answer.  A worker is one thread with   *)
(* one single-threaded executor: it takes requests in batches, runs them   *)
(* one after the other, and looks at control commands between batches.  It *)
(* keeps an isolate per handler, replaces it when the handler's source has *)
(* changed, evicts the least recently used one at the limit, and disposes  *)
(* isolates on commands and timeouts.                                      *)
(*                                                                         *)
(* V8 keeps a stack of entered isolates per thread, and an isolate asserts *)
(* that it is the innermost one when it is dropped.  A failed assertion    *)
(* panics: the thread ends, and with it every request it was sent.  (When  *)
(* the isolates that the unwinding thread drops fail the assertion again,  *)
(* the whole process aborts; nothing follows, and no step stands for it.)  *)
(*                                                                         *)
(* The administrator (evict_all, evict_by_prefix, kill_isolate and the     *)
(* drop of the pool) awaits the workers' replies, so it has one command    *)
(* under way.  Versions stand for sources and their hashes.  No caller in  *)
(* the repository runs on a worker thread, so execute() excludes none.     *)
(*                                                                         *)
(* Definitions whose name ends in _Mutant are faulty forms of those that   *)
(* follow them; no specification uses them.                                *)
(***************************************************************************)
EXTENDS Integers, Sequences, FiniteSets

CONSTANTS
  Calls,          (* calls of execute()                                    *)
  Workers,        (* indices of the workers                                *)
  Handlers,       (* handler keys                                          *)
  Home,           (* hash_to_worker                                        *)
  LeastLoaded,    (* the scheduler strategy, or else ConsistentHash        *)
  MaxIsolates,    (* max_isolates_per_worker, 0 for no limit               *)
  BatchMax,       (* REQUEST_BATCH_MAX                                     *)
  Prefixes,       (* the sets of handlers that share a prefix              *)
  RequestTimeout, (* request_timeout_ms > 0                                *)
  Stalled,        (* handlers that await what never comes                  *)
  Endless,        (* handlers that may keep their worker for good          *)
  Deployed,       (* bound of the model: handlers whose source changes     *)
  MaxVersion,     (* bound of the model: sources of a handler              *)
  MaxCommands     (* bound of the model: commands of the administrator     *)

ASSUME ConstantsAssumption ==
  /\ Workers \subseteq Nat /\ Workers # {}
  /\ Handlers # {} /\ Home \in [Handlers -> Workers]
  /\ LeastLoaded \in BOOLEAN
  /\ MaxIsolates \in Nat
  /\ BatchMax \in Nat \ {0}
  /\ Prefixes \subseteq SUBSET Handlers
  /\ RequestTimeout \in BOOLEAN
  /\ Stalled \subseteq Handlers
  /\ Endless \subseteq Handlers
  /\ Deployed \subseteq Handlers
  /\ MaxVersion \in Nat \ {0}
  /\ MaxCommands \in Nat

VARIABLES
  call,           (* where each call is, its worker and its handler        *)
  queue,          (* request channel of each worker                        *)
  batch,          (* requests taken from it, the one at work first         *)
  phase,          (* what each worker thread does                          *)
  cache,          (* isolates, lru_order, isolate_creation_order, V8 stack *)
  load,           (* WorkerLoad: queued and active requests                *)
  source,         (* the source of each handler, deployed by others        *)
  command,        (* the command under way and the workers yet to reply    *)
  issued          (* commands so far                                       *)

vars == <<call, queue, batch, phase, cache, load, source, command, issued>>

-----------------------------------------------------------------------------
(* Data.                                                                   *)

Version == 1 .. MaxVersion

(* tag is source_hash; code is what the isolate loaded, 0 before it does.  *)
Isolate == [tag : Version, code : 0 .. MaxVersion]
NoIsolate == [tag |-> 0, code |-> 0]

Cache == [isolates : [Handlers -> Isolate \cup {NoIsolate}],
          lru : Seq(Handlers), created : Seq(Handlers), entered : Seq(Handlers)]
NoCache == [isolates |-> [h \in Handlers |-> NoIsolate],
            lru |-> <<>>, created |-> <<>>, entered |-> <<>>]

(* current and ran are histories: the sources deployed at some time since  *)
(* the request was sent, and the code that produced its result.            *)
Call == [pc : {"new", "selected", "counted", "waiting", "answered", "failed", "dropped"},
         worker : Workers, handler : Handlers,
         current : SUBSET Version, ran : 0 .. MaxVersion]

NoCommand == [op |-> "none", handlers |-> {}, pending |-> {}]

Alive(w) == phase[w] \in {"idle", "executing"}

Live(k) == {h \in Handlers : k.isolates[h] # NoIsolate}

Cached(w) == Live(cache[w])

Elements(s) == {s[i] : i \in DOMAIN s}

(* Vec::retain: what is left of the sequence s without the members of S.   *)
Kept(s, S) ==
  LET kept[n \in 0 .. Len(s)] ==
        IF n = 0 THEN <<>>
        ELSE IF s[n] \in S THEN kept[n - 1] ELSE Append(kept[n - 1], s[n])
  IN  kept[Len(s)]

-----------------------------------------------------------------------------
(* execute().                                                              *)

Load(w) == load[w].queued + load[w].active

(* select_worker: the first of the least loaded, or the handler's own.     *)
SelectWorker(h) ==
  IF LeastLoaded
  THEN {w \in Workers : \A v \in Workers : Load(w) < Load(v) \/ (Load(w) = Load(v) /\ w <= v)}
  ELSE {Home[h]}

Select(c, h) ==
  /\ call[c].pc = "new"
  /\ command.op # "shutdown"
  /\ \E w \in SelectWorker(h) :
       call' = [call EXCEPT ![c].pc = "selected", ![c].worker = w, ![c].handler = h]
  /\ UNCHANGED <<queue, batch, phase, cache, load, source, command, issued>>

Count_Mutant(c) ==
  /\ call[c].pc = "selected"
  /\ call' = [call EXCEPT ![c].pc = "counted"]
  /\ UNCHANGED <<queue, batch, phase, cache, load, source, command, issued>>

(* The load is counted before the request can be taken.                    *)
Count(c) ==
  /\ call[c].pc = "selected"
  /\ load' = [load EXCEPT ![call[c].worker].queued = @ + 1]
  /\ call' = [call EXCEPT ![c].pc = "counted"]
  /\ UNCHANGED <<queue, batch, phase, cache, source, command, issued>>

(* send() fails if the worker's thread is gone; the count stays.           *)
Send(c) ==
  LET w == call[c].worker
  IN  /\ call[c].pc = "counted"
      /\ IF Alive(w)
         THEN /\ queue' = [queue EXCEPT ![w] = Append(@, c)]
              /\ call' = [call EXCEPT ![c].pc = "waiting", ![c].current = {source[call[c].handler]}]
         ELSE /\ call' = [call EXCEPT ![c].pc = "failed"]
              /\ UNCHANGED queue
      /\ UNCHANGED <<batch, phase, cache, load, source, command, issued>>

(* The caller drops the future; the request stays where it is.             *)
Cancel(c) ==
  /\ call[c].pc = "waiting"
  /\ call' = [call EXCEPT ![c].pc = "dropped"]
  /\ UNCHANGED <<queue, batch, phase, cache, load, source, command, issued>>

(* The oneshot of a call: the answer of the worker, or its disappearance.  *)
Answered(c, pc, ran) ==
  IF call[c].pc = "waiting" THEN [call EXCEPT ![c].pc = pc, ![c].ran = ran] ELSE call

-----------------------------------------------------------------------------
(* Dropping isolates.                                                      *)

Without(k, S) ==
  [k EXCEPT !.isolates = [h \in Handlers |-> IF h \in S THEN NoIsolate ELSE @[h]],
            !.lru = Kept(@, S), !.entered = Kept(@, S)]

(* The isolates of the sequence s, dropped in this order, are each the     *)
(* innermost one when their turn comes.                                    *)
InReverse(w, s) ==
  /\ Len(s) <= Len(cache[w].entered)
  /\ \A i \in DOMAIN s : s[i] = cache[w].entered[Len(cache[w].entered) + 1 - i]

(* The assertion fails, and the thread unwinds.                            *)
Panic(w) ==
  /\ phase' = [phase EXCEPT ![w] = "dead"]
  /\ cache' = [cache EXCEPT ![w] = NoCache]
  /\ queue' = [queue EXCEPT ![w] = <<>>]
  /\ batch' = [batch EXCEPT ![w] = <<>>]
  /\ command' = [command EXCEPT !.pending = @ \ {w}]
  /\ call' = [c \in Calls |->
       IF c \in Elements(queue[w]) \cup Elements(batch[w]) /\ call[c].pc = "waiting"
       THEN [call[c] EXCEPT !.pc = "failed"] ELSE call[c]]
  /\ UNCHANGED <<source, issued>>

-----------------------------------------------------------------------------
(* The worker thread: requests.                                            *)

Running(w) == Head(batch[w])

(* One turn of the loop receives a request and what else is there.         *)
BatchSize(w) == IF Len(queue[w]) < BatchMax THEN Len(queue[w]) ELSE BatchMax

Take(w) ==
  /\ phase[w] = "idle"
  /\ batch[w] = <<>>
  /\ queue[w] # <<>>
  /\ batch' = [batch EXCEPT ![w] = SubSeq(queue[w], 1, BatchSize(w))]
  /\ queue' = [queue EXCEPT ![w] = SubSeq(@, BatchSize(w) + 1, Len(@))]
  /\ UNCHANGED <<call, phase, cache, load, source, command, issued>>

Due(w) == phase[w] = "idle" /\ batch[w] # <<>>

Uncounted(w) == [load EXCEPT ![w].queued = @ - 1]

Expire_Mutant(w) ==
  /\ Due(w)
  /\ call' = Answered(Running(w), "failed", 0)
  /\ batch' = [batch EXCEPT ![w] = Tail(@)]
  /\ UNCHANGED <<queue, phase, cache, load, source, command, issued>>

(* The request waited longer than queue_timeout_ms.                        *)
Expire(w) ==
  /\ Due(w)
  /\ load' = Uncounted(w)
  /\ call' = Answered(Running(w), "failed", 0)
  /\ batch' = [batch EXCEPT ![w] = Tail(@)]
  /\ UNCHANGED <<queue, phase, cache, source, command, issued>>

Valid_Mutant(w, h) == h \in Cached(w)

Valid(w, h) == h \in Cached(w) /\ cache[w].isolates[h].tag = source[h]

(* ensure_isolate finds a valid isolate: it becomes the newest.            *)
Hit(w) ==
  LET h == call[Running(w)].handler
  IN  /\ Due(w)
      /\ Valid(w, h)
      /\ cache' = [cache EXCEPT ![w].lru = Append(Kept(@, {h}), h)]
      /\ phase' = [phase EXCEPT ![w] = "executing"]
      /\ load' = [Uncounted(w) EXCEPT ![w].active = @ + 1]
      /\ UNCHANGED <<call, queue, batch, source, command, issued>>

(* What a miss drops: the outdated isolate, then the least recently used   *)
(* one if the worker is still at its limit.                                *)
Displaced_Mutant(w, h) ==
  LET others == Kept(cache[w].lru, {h})
      full == MaxIsolates > 0 /\ Cardinality(Cached(w) \ {h}) > MaxIsolates
  IN  (IF h \in Cached(w) THEN <<h>> ELSE <<>>)
        \o (IF full /\ others # <<>> THEN <<Head(others)>> ELSE <<>>)

Displaced(w, h) ==
  LET others == Kept(cache[w].lru, {h})
      full == MaxIsolates > 0 /\ Cardinality(Cached(w) \ {h}) >= MaxIsolates
  IN  (IF h \in Cached(w) THEN <<h>> ELSE <<>>)
        \o (IF full /\ others # <<>> THEN <<Head(others)>> ELSE <<>>)

Created_Mutant(created, h) ==
  IF h \in Elements(created) THEN created ELSE Append(created, h)

Created(created, h) == Append(created, h)

(* ensure_isolate creates one, or fails to after the displaced are gone.   *)
Miss(w) ==
  LET h == call[Running(w)].handler
      rest == Without(cache[w], Elements(Displaced(w, h)))
  IN  /\ Due(w)
      /\ ~Valid(w, h)
      /\ \/ /\ InReverse(w, Displaced(w, h))
            /\ cache' = [cache EXCEPT ![w] =
                 [isolates |-> [rest.isolates EXCEPT ![h] = [tag |-> source[h], code |-> 0]],
                  lru |-> Append(rest.lru, h),
                  created |-> Created(rest.created, h),
                  entered |-> Append(rest.entered, h)]]
            /\ phase' = [phase EXCEPT ![w] = "executing"]
            /\ load' = [Uncounted(w) EXCEPT ![w].active = @ + 1]
            /\ UNCHANGED <<call, queue, batch, source, command, issued>>
         \/ /\ InReverse(w, Displaced(w, h))
            /\ cache' = [cache EXCEPT ![w] = rest]
            /\ load' = Uncounted(w)
            /\ call' = Answered(Running(w), "failed", 0)
            /\ batch' = [batch EXCEPT ![w] = Tail(@)]
            /\ UNCHANGED <<queue, phase, source, command, issued>>
         \/ /\ ~InReverse(w, Displaced(w, h))
            /\ load' = Uncounted(w)
            /\ Panic(w)

(* The first request of an isolate loads the handler: its module is loaded *)
(* and evaluated, and the worker awaits both.  The watchdog is spawned     *)
(* after that, so a module that awaits for ever keeps the worker: see Held.*)
LoadHandler(w) ==
  LET h == call[Running(w)].handler
  IN  /\ phase[w] = "executing"
      /\ cache[w].isolates[h].code = 0
      /\ cache' = [cache EXCEPT ![w].isolates[h].code = source[h]]
      /\ UNCHANGED <<call, queue, batch, phase, load, source, command, issued>>

(* Nothing ends a handler of Endless: neither a module that awaits what    *)
(* never comes as it is loaded, for it has no watchdog yet, nor code that  *)
(* does not return to the executor, of which the watchdog is a task.       *)
Held(w) == phase[w] = "executing" /\ call[Running(w)].handler \in Endless

(* The handler, or what is left of its load, comes to an end.              *)
Returns(w) == phase[w] = "executing"

(* The watchdog runs until the event loop is done.                         *)
Watched_Mutant(w) == RequestTimeout /\ call[Running(w)].handler \notin Stalled

Watched(w) == RequestTimeout

Awaits(w) == call[Running(w)].handler \in Stalled

Idle(w, answer) ==
  /\ call' = answer
  /\ batch' = [batch EXCEPT ![w] = Tail(@)]
  /\ phase' = [phase EXCEPT ![w] = "idle"]
  /\ load' = [load EXCEPT ![w].active = @ - 1]
  /\ UNCHANGED <<queue, source, command, issued>>

Complete(w) ==
  LET code == cache[w].isolates[call[Running(w)].handler].code
  IN  /\ Returns(w) /\ ~Awaits(w)
      /\ code # 0
      /\ Idle(w, Answered(Running(w), "answered", code))
      /\ UNCHANGED cache

(* Bootstrap, load or handler failed, or the event loop did when the       *)
(* watchdog terminated the handler; the isolate stays.                     *)
Fail(w) ==
  /\ Returns(w)
  /\ \/ cache[w].isolates[call[Running(w)].handler].code = 0
     \/ ~Awaits(w)
     \/ Watched(w)
  /\ Idle(w, Answered(Running(w), "failed", 0))
  /\ UNCHANGED cache

(* The watchdog ran, and the event loop came to its end: the isolate is    *)
(* dropped.                                                                *)
ForgetTimedOut_Mutant(w, h) == [Without(cache[w], {h}) EXCEPT !.lru = cache[w].lru]

ForgetTimedOut(w, h) == Without(cache[w], {h})

TimeOut(w) ==
  LET h == call[Running(w)].handler
  IN  /\ Returns(w)
      /\ Watched(w)
      /\ cache[w].isolates[h].code # 0
      /\ IF InReverse(w, <<h>>)
         THEN /\ Idle(w, Answered(Running(w), "failed", 0))
              /\ cache' = [cache EXCEPT ![w] = ForgetTimedOut(w, h)]
         ELSE /\ load' = [load EXCEPT ![w].active = @ - 1]
              /\ Panic(w)

-----------------------------------------------------------------------------
(* The administrator and the control commands.                             *)

(* kill_isolate asks the handler's home only, the others every worker; the *)
(* pool is dropped when no call borrows it.                                *)
Issue(op, handlers, targets) ==
  /\ command.pending = {} /\ command.op # "shutdown"
  /\ issued < MaxCommands
  /\ issued' = issued + 1
  /\ command' = [op |-> op, handlers |-> handlers, pending |-> {w \in targets : Alive(w)}]
  /\ UNCHANGED <<call, queue, batch, phase, cache, load, source>>

EvictAll == Issue("evict_all", Handlers, Workers)
EvictByPrefix(S) == Issue("evict_by_prefix", S, Workers)
KillIsolate(h) == Issue("kill", {h}, {Home[h]})

DropPool ==
  /\ \A c \in Calls : call[c].pc \notin {"selected", "counted", "waiting"}
  /\ Issue("shutdown", Handlers, Workers)

(* Control commands are received between batches.                          *)
Receives(w, ops) ==
  /\ phase[w] = "idle" /\ batch[w] = <<>>
  /\ w \in command.pending
  /\ command.op \in ops

Replied(w) == [command EXCEPT !.pending = @ \ {w}]

(* EvictByPrefix drops in the order of a hash map, KillIsolate one.        *)
Evict(w) ==
  LET S == Cached(w) \cap command.handlers
      top == {cache[w].entered[i] : i \in {j \in DOMAIN cache[w].entered :
                                             j > Len(cache[w].entered) - Cardinality(S)}}
  IN  /\ Receives(w, {"evict_by_prefix", "kill"})
      /\ \/ /\ S = top
            /\ cache' = [cache EXCEPT ![w] = Without(@, S)]
            /\ command' = Replied(w)
            /\ UNCHANGED <<call, queue, batch, phase, load, source, issued>>
         \/ /\ S # top \/ Cardinality(S) > 1
            /\ Panic(w)
            /\ UNCHANGED load

(* dispose_all_isolates goes backwards through isolate_creation_order,     *)
(* which still lists isolates dropped otherwise, perhaps created again.    *)
LastCreated(created, h) ==
  CHOOSE i \in DOMAIN created :
    /\ created[i] = h
    /\ \A j \in DOMAIN created : created[j] = h => j <= i

DisposedInReverse(k) ==
  /\ Live(k) \subseteq Elements(k.created)
  /\ \A i, j \in DOMAIN k.entered :
       i < j => LastCreated(k.created, k.entered[i]) < LastCreated(k.created, k.entered[j])

DisposeAll(w) ==
  /\ Receives(w, {"evict_all", "shutdown"})
  /\ IF DisposedInReverse(cache[w])
     THEN /\ cache' = [cache EXCEPT ![w] = NoCache]
          /\ command' = Replied(w)
          /\ IF command.op = "shutdown"
             THEN /\ phase' = [phase EXCEPT ![w] = "stopped"]
                  /\ queue' = [queue EXCEPT ![w] = <<>>]
             ELSE UNCHANGED <<phase, queue>>
          /\ UNCHANGED <<call, batch, load, source, issued>>
     ELSE Panic(w) /\ UNCHANGED load

-----------------------------------------------------------------------------
(* Others deploy a new source of a handler.                                *)
Deploy(h) ==
  /\ h \in Deployed /\ source[h] < MaxVersion
  /\ source' = [source EXCEPT ![h] = @ + 1]
  /\ call' = [c \in Calls |->
       IF call[c].pc = "waiting" /\ call[c].handler = h
       THEN [call[c] EXCEPT !.current = @ \cup {source[h] + 1}] ELSE call[c]]
  /\ UNCHANGED <<queue, batch, phase, cache, load, command, issued>>

Init ==
  /\ call = [c \in Calls |-> [pc |-> "new", worker |-> CHOOSE w \in Workers : TRUE,
                              handler |-> CHOOSE h \in Handlers : TRUE,
                              current |-> {}, ran |-> 0]]
  /\ queue = [w \in Workers |-> <<>>]
  /\ batch = [w \in Workers |-> <<>>]
  /\ phase = [w \in Workers |-> "idle"]
  /\ cache = [w \in Workers |-> NoCache]
  /\ load = [w \in Workers |-> [queued |-> 0, active |-> 0]]
  /\ source = [h \in Handlers |-> 1]
  /\ command = NoCommand
  /\ issued = 0

Caller(c) == Count(c) \/ Send(c)

Worker(w) ==
  \/ Take(w) \/ Expire(w) \/ Hit(w) \/ Miss(w)
  \/ LoadHandler(w) \/ Complete(w) \/ Fail(w) \/ TimeOut(w)
  \/ Evict(w) \/ DisposeAll(w)

Environment ==
  \/ \E c \in Calls, h \in Handlers : Select(c, h)
  \/ \E c \in Calls : Cancel(c)
  \/ EvictAll \/ DropPool
  \/ \E S \in Prefixes : EvictByPrefix(S)
  \/ \E h \in Handlers : KillIsolate(h) \/ Deploy(h)

Next ==
  \/ Environment
  \/ \E c \in Calls : Caller(c)
  \/ \E w \in Workers : Worker(w)

Spec == Init /\ [][Next]_vars

(* A caller that selected a worker goes on, and a worker's thread runs     *)
(* unless a handler holds it: that may end, but is not bound to.           *)
FairSpec ==
  /\ Spec
  /\ \A c \in Calls : WF_vars(Caller(c))
  /\ \A w \in Workers : WF_vars(Worker(w) /\ ~Held(w))

-----------------------------------------------------------------------------
TypeOK ==
  /\ call \in [Calls -> Call]
  /\ queue \in [Workers -> Seq(Calls)]
  /\ batch \in [Workers -> Seq(Calls)]
  /\ phase \in [Workers -> {"idle", "executing", "stopped", "dead"}]
  /\ cache \in [Workers -> Cache]
  /\ load \in [Workers -> [queued : Nat, active : Nat]]
  /\ source \in [Handlers -> Version]
  /\ command \in [op : {"none", "evict_all", "evict_by_prefix", "kill", "shutdown"},
                  handlers : SUBSET Handlers, pending : SUBSET Workers]
  /\ issued \in 0 .. MaxCommands

(* lru_order lists the cached isolates, each once, and there are no more   *)
(* than max_isolates_per_worker of them, whatever ensure_isolate,          *)
(* handle_control, failed creations and timeouts did in whichever order.   *)
CacheAgrees ==
  \A w \in Workers :
    /\ Elements(cache[w].lru) = Cached(w)
    /\ Len(cache[w].lru) = Cardinality(Cached(w))
    /\ MaxIsolates > 0 => Cardinality(Cached(w)) <= MaxIsolates

(* WorkerLoad counts what the worker has been or will be sent and has not  *)
(* begun: execute() counts first, so fetch_sub never wraps around.         *)
LoadExact ==
  \A w \in Workers : Alive(w) =>
    LET busy == IF phase[w] = "executing" THEN 1 ELSE 0
        coming == {c \in Calls : call[c].pc = "counted" /\ call[c].worker = w}
    IN  /\ load[w].queued = Cardinality(coming) + Len(queue[w]) + Len(batch[w]) - busy
        /\ load[w].active = busy

(* A result comes from a source of the handler that was deployed at some   *)
(* time during the call: source_hash tells when to replace an isolate.     *)
FreshCode == \A c \in Calls : call[c].pc = "answered" => call[c].ran \in call[c].current

(* evict_all and the drop of the pool dispose isolates in reverse order of *)
(* construction, although isolate_creation_order also lists isolates that  *)
(* an eviction, a kill, a timeout or a redeployment dropped.               *)
DisposalNeverPanics ==
  [][\A w \in Workers : DisposeAll(w) => phase'[w] # "dead"]_vars

(* A call of execute() that was sent to the worker w gets an answer or an  *)
(* error, through batches, commands, timeouts and the death of the thread. *)
CallsReturn(w) ==
  \A c \in Calls :
    call[c].pc = "waiting" /\ call[c].worker = w ~> call[c].pc # "waiting"

(* The worker w replies to a command or is gone: evict_all,                *)
(* evict_by_prefix, kill_isolate and the drop of the pool get on.          *)
Replies(w) == w \in command.pending ~> w \notin command.pending

(* Nobody waits for ever for a worker, dead or alive, unless one handler   *)
(* holds its thread for ever: neither a call of execute() nor a command,   *)
(* whatever order the worker takes them in and whatever happens at the     *)
(* others.                                                                 *)
EverythingReturns == \A w \in Workers : []<>~Held(w) => CallsReturn(w) /\ Replies(w)

(* request_timeout_ms bounds a request from the moment the worker has an   *)
(* isolate for it: it does not load its handler for ever.                  *)
Loading(w) ==
  phase[w] = "executing" /\ cache[w].isolates[call[Running(w)].handler].code = 0
RequestsTimeOut == RequestTimeout => \A w \in Workers : Loading(w) ~> ~Loading(w)

(* Isolates are dropped in reverse order of construction.                  *)
WorkersSurvive == \A w \in Workers : phase[w] # "dead"

=============================================================================
