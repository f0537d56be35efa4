----------------------------- MODULE ReactiveCore -----------------------------
(***************************************************************************)
(* The reactive state of one UI scope: crates/deka_ui/src/reactive.rs.     *)
(*                                                                         *)
(* Everything runs on one thread, so there is one call stack and only its  *)
(* top acts.  What makes the code hard is re-entrance: a reaction's        *)
(* callback is arbitrary user code, and while it runs it may read and      *)
(* write signals, register further reactions, dispose itself or the        *)
(* reaction that created it, open batches, and panic.  The stack below     *)
(* holds one frame for every guard or loop of the code that is alive:      *)
(*                                                                         *)
(*   batch    Scope::batch around user code (the guard Batch)              *)
(*   install  the batch that observe() holds around a first evaluation     *)
(*   flush    the loop of Core::flush (the guard Flushing)                 *)
(*   run      the allocation owner of one Core::evaluate                   *)
(*   capture  the callback itself and its read set (the guard Capture)     *)
(*   region   owned(..) called by view code, which keeps the owner         *)
(*   update   the closure of Signal::update (the guard Write)              *)
(*                                                                         *)
(* Core.depth is the number of live Batch guards and Core.flushing says    *)
(* whether a Flushing guard is alive; both are read off the stack.  The    *)
(* content of a signal is abstracted to its revision.  A call through a    *)
(* stale handle, a read of an uninitialised or borrowed value and a write  *)
(* to a borrowed value return an error and change nothing: they are        *)
(* stuttering steps.  One scope is modelled, with its owner alive.         *)
(*                                                                         *)
(* A definition whose name ends in _Mutant is a faulty form of the one     *)
(* that follows it: no specification uses it, and each property below is   *)
(* violated when it takes the place of the correct form.                   *)
(***************************************************************************)
EXTENDS Integers, Sequences, FiniteSets

CONSTANTS
  ValueSlots,     (* indices of the value table that may be allocated      *)
  ObserverSlots,  (* indices of the observer table that may be allocated   *)
  MaxTurns,       (* reactions one flush may run (10_000 in the code)      *)
  MaxRevision,    (* bound of the model: writes to one signal              *)
  MaxGeneration,  (* bound of the model: reuses of one slot                *)
  MaxStack,       (* bound of the model: nested guards                     *)
  MaxOpen,        (* bound of the model: guards opened by user code        *)
  UserOps         (* the optional operations user code performs in a run   *)

ASSUME ConstantsAssumption ==
  /\ ValueSlots \subseteq Nat
  /\ ObserverSlots \subseteq Nat
  /\ MaxTurns \in Nat
  /\ MaxRevision \in Nat
  /\ MaxGeneration \in Nat
  /\ MaxStack \in Nat
  /\ MaxOpen \in Nat

VARIABLES
  values,         (* state of each value slot                              *)
  freeValues,     (* value slots to reuse                                  *)
  valueGen,       (* value_generations                                     *)
  revisions,      (* writes to each slot since it was allocated            *)
  subscribers,    (* the reactions each slot wakes                         *)
  observers,      (* the registered reactions                              *)
  freeObservers,  (* observer slots to reuse                               *)
  observerGen,    (* observer_generations                                  *)
  dirty,          (* reactions waiting to run                              *)
  stack,          (* the live guards, innermost last                       *)
  held,           (* ReactiveOwners kept by view code                      *)
  unwinding,      (* std::thread::panicking()                              *)
  seen,           (* history: the revisions a reaction's last run read     *)
  roots,          (* history: reactions that no owner and no call disposes *)
  interrupted     (* history: a panic cut a flush short, none ended since  *)

vars == <<values, freeValues, valueGen, revisions, subscribers, observers,
          freeObservers, observerGen, dirty, stack, held, unwinding,
          seen, roots, interrupted>>

valueTable == <<values, freeValues, valueGen>>
observerTable == <<observers, freeObservers, observerGen>>

-----------------------------------------------------------------------------
(* Data.                                                                   *)

Unread == -1
Reads == [ValueSlots -> Nat \cup {Unread}]
NoReads == [v \in ValueSlots |-> Unread]

(* A Copy handle: it names a registration only while the generation is     *)
(* the slot's own.  NoHandle stands for a reaction without an output.      *)
Handle == [slot : ValueSlots, gen : Nat]
NoHandle == [slot |-> -1, gen |-> -1]

(* Owned: allocations released together.  None and the empty owner both    *)
(* release nothing.                                                        *)
Owner == [values : SUBSET ValueSlots,
          effects : SUBSET [slot : ObserverSlots, gen : Nat]]
NoOwner == [values |-> {}, effects |-> {}]

Observer == [kind : {"none", "effect", "derived"},
             deps : SUBSET ValueSlots,
             output : Handle \cup {NoHandle},
             owner : Owner]
NoObserver == [kind |-> "none", deps |-> {}, output |-> NoHandle,
               owner |-> NoOwner]

FrameType == {"batch", "install", "flush", "run", "capture", "region",
              "update"}
Frame ==
  {f \in [type : FrameType, slot : Int, gen : Int, output : Handle \cup {NoHandle},
           reads : Reads, owned : Owner, turns : Nat] :
     /\ f.type = "update" => f.slot \in ValueSlots
     /\ f.type \in {"run", "capture"} => f.slot \in ObserverSlots}

FrameOf(type, slot, gen, output) ==
  [type |-> type, slot |-> slot, gen |-> gen, output |-> output,
   reads |-> NoReads, owned |-> NoOwner, turns |-> 0]

Guard(type) == FrameOf(type, -1, -1, NoHandle)

(* The two frames of an evaluation.                                        *)
Evaluation(o, gen, output) ==
  <<FrameOf("run", o, gen, NoHandle), FrameOf("capture", o, gen, output)>>

-----------------------------------------------------------------------------
(* The stack.                                                              *)

Top == stack[Len(stack)]
Popped == [i \in 1 .. (Len(stack) - 1) |-> stack[i]]
TopIs(type) == stack # <<>> /\ Top.type = type

Innermost_Mutant(i, types) == stack[i].type \in types

Innermost(i, types) ==
  /\ stack[i].type \in types
  /\ \A j \in DOMAIN stack : j > i => stack[j].type \notin types

(* User code runs: the host's own code, or the closure of the top frame.   *)
InReaction == \E i \in DOMAIN stack : stack[i].type = "capture"

InUserCode == stack # <<>> => Top.type \in {"batch", "capture", "region", "update"}

UserTurn == ~unwinding /\ InUserCode

Room(n) == Len(stack) + n <= MaxStack
MayOpen ==
  Cardinality({i \in DOMAIN stack : stack[i].type \in {"batch", "region", "update"}}) < MaxOpen

(* flush() returns at once inside a batch or another flush.                *)
Deferred_Mutant(stk) == \E i \in DOMAIN stk : stk[i].type \in {"batch", "install"}

Deferred(stk) == \E i \in DOMAIN stk : stk[i].type \in {"batch", "install", "flush"}

WithFlush_Mutant(stk) == stk

WithFlush(stk) == IF Deferred(stk) THEN stk ELSE Append(stk, Guard("flush"))

-----------------------------------------------------------------------------
(* Reading the tables.                                                     *)

Live(o) == observers[o].kind # "none"

Running(o) ==
  \E i \in DOMAIN stack :
    stack[i].type = "capture" /\ stack[i].slot = o /\ stack[i].gen = observerGen[o]

(* Every value the last run of o read still has the revision it read.      *)
Current(o) == \A v \in observers[o].deps : revisions[v] = seen[o][v]

Borrowed(v) ==
  \E i \in DOMAIN stack :
    stack[i].type = "update" /\ stack[i].slot = v /\ stack[i].gen = valueGen[v]

(* A slot to allocate: a released one if there is any (the generation goes *)
(* up), or else the next index of the table.                               *)
Allocatable(free, slots, gen) ==
  LET untouched == {s \in slots : gen[s] = -1}
  IN  IF free # {} THEN free ELSE {s \in untouched : \A t \in untouched : s <= t}

NextGen(gen) == gen + 1

AllocatableValues == Allocatable(freeValues, ValueSlots, valueGen)
AllocatableObservers == Allocatable(freeObservers, ObserverSlots, observerGen)

-----------------------------------------------------------------------------
(* Release of allocations: Effect::dispose and ReactiveOwner::drop.        *)

(* The registrations an owner still stands for.                            *)
OwnedEffects_Mutant(owner) ==
  {e.slot : e \in {x \in owner.effects : Live(x.slot)}}

OwnedEffects(owner) ==
  {e.slot : e \in {x \in owner.effects : observerGen[x.slot] = x.gen /\ Live(x.slot)}}

(* Disposing a reaction drops the owner of its last run, and so on down    *)
(* the ownership tree: the least set that contains the seed and is closed. *)
Doomed(seed) ==
  {o \in ObserverSlots :
     \A S \in SUBSET ObserverSlots :
       (/\ seed \subseteq S
        /\ \A p \in S : OwnedEffects(observers[p].owner) \subseteq S)
       => o \in S}

DoomedValues(doomed) == UNION {observers[o].owner.values : o \in doomed}

Forget(stk, V) ==
  [i \in DOMAIN stk |->
     [stk[i] EXCEPT !.reads = [v \in ValueSlots |-> IF v \in V THEN Unread
                                                    ELSE stk[i].reads[v]]]]

(* The tables after the reactions D and the values V are released, with    *)
(* the reactions in pending dirty.                                         *)
ReleaseKeepsDirty_Mutant(D, V, pending) ==
  /\ values' = [v \in ValueSlots |-> IF v \in V THEN "none" ELSE values[v]]
  /\ freeValues' = freeValues \cup V
  /\ revisions' = [v \in ValueSlots |-> IF v \in V THEN 0 ELSE revisions[v]]
  /\ subscribers' = [v \in ValueSlots |->
                       IF v \in V THEN {}
                       ELSE subscribers[v] \ {o \in D : v \in observers[o].deps}]
  /\ freeObservers' = freeObservers \cup D
  /\ dirty' = pending

ReleaseLeaksSlots_Mutant(D, V, pending) ==
  /\ values' = [v \in ValueSlots |-> IF v \in V THEN "none" ELSE values[v]]
  /\ freeValues' = freeValues \cup V
  /\ revisions' = [v \in ValueSlots |-> IF v \in V THEN 0 ELSE revisions[v]]
  /\ subscribers' = [v \in ValueSlots |->
                       IF v \in V THEN {}
                       ELSE subscribers[v] \ {o \in D : v \in observers[o].deps}]
  /\ dirty' = pending \ D
  /\ UNCHANGED freeObservers

Release(D, V, pending) ==
  /\ values' = [v \in ValueSlots |-> IF v \in V THEN "none" ELSE values[v]]
  /\ freeValues' = freeValues \cup V
  /\ revisions' = [v \in ValueSlots |-> IF v \in V THEN 0 ELSE revisions[v]]
  /\ subscribers' = [v \in ValueSlots |->
                       IF v \in V THEN {}
                       ELSE subscribers[v] \ {o \in D : v \in observers[o].deps}]
  /\ freeObservers' = freeObservers \cup D
  /\ dirty' = pending \ D

(* The registrations that remain, without the dependencies released.       *)
Survivors_Mutant(D, V) ==
  [o \in ObserverSlots |-> IF o \in D THEN NoObserver ELSE observers[o]]

Survivors(D, V) ==
  [o \in ObserverSlots |-> IF o \in D THEN NoObserver
                           ELSE [observers[o] EXCEPT !.deps = @ \ V]]

-----------------------------------------------------------------------------
(* Allocation and change.                                                  *)

(* Allocations register with the innermost owner, if any.                  *)
WithOwned(V, E) ==
  [i \in DOMAIN stack |->
     IF Innermost(i, {"run", "region"})
     THEN [stack[i] EXCEPT !.owned = [values |-> @.values \cup V,
                                      effects |-> @.effects \cup E]]
     ELSE stack[i]]

Unowned == \A i \in DOMAIN stack : stack[i].type \notin {"run", "region"}

(* changed: the slot's subscribers are scheduled; flush() follows.         *)
Changed(v) ==
  /\ revisions' = [revisions EXCEPT ![v] = @ + 1]
  /\ dirty' = dirty \cup subscribers[v]

-----------------------------------------------------------------------------
(* Signal operations of user code.                                         *)

CreateSignal(v) ==
  /\ UserTurn
  /\ v \in AllocatableValues
  /\ valueGen[v] < MaxGeneration
  /\ values' = [values EXCEPT ![v] = "signal"]
  /\ freeValues' = freeValues \ {v}
  /\ valueGen' = [valueGen EXCEPT ![v] = NextGen(@)]
  /\ stack' = WithOwned({v}, {})
  /\ UNCHANGED <<revisions, subscribers, observerTable, dirty, held, unwinding,
                 seen, roots, interrupted>>

(* try_get: the innermost capture records the revision of the first read.  *)
Read(v) ==
  /\ UserTurn
  /\ values[v] \in {"signal", "derived"}
  /\ ~Borrowed(v)
  /\ \E i \in DOMAIN stack :
       /\ Innermost(i, {"capture"})
       /\ stack[i].reads[v] = Unread
       /\ stack' = [stack EXCEPT ![i].reads[v] = revisions[v]]
  /\ UNCHANGED <<valueTable, revisions, subscribers, observerTable, dirty, held,
                 unwinding, seen, roots, interrupted>>

(* try_set: a Derived handle has no setter.  Reactions write signals too,  *)
(* in the runs that give them "react_write".                               *)
Write(v) ==
  /\ UserTurn
  /\ "react_write" \in UserOps \/ ~InReaction
  /\ values[v] = "signal"
  /\ ~Borrowed(v)
  /\ revisions[v] < MaxRevision
  /\ Changed(v)
  /\ stack' = WithFlush(stack)
  /\ UNCHANGED <<valueTable, subscribers, observerTable, held, unwinding,
                 seen, roots, interrupted>>

(* update: the value stays mutably borrowed while the closure runs.        *)
BeginUpdate(v) ==
  /\ UserTurn
  /\ "update" \in UserOps
  /\ values[v] = "signal"
  /\ ~Borrowed(v)
  /\ revisions[v] < MaxRevision
  /\ MayOpen
  /\ stack' = Append(stack, FrameOf("update", v, valueGen[v], NoHandle))
  /\ UNCHANGED <<valueTable, revisions, subscribers, observerTable, dirty, held,
                 unwinding, seen, roots, interrupted>>

(* The guard Write marks the slot changed even if it was released since.   *)
EndUpdate ==
  /\ UserTurn
  /\ TopIs("update")
  /\ Changed(Top.slot)
  /\ stack' = WithFlush(Popped)
  /\ UNCHANGED <<valueTable, subscribers, observerTable, held, unwinding,
                 seen, roots, interrupted>>

-----------------------------------------------------------------------------
(* Registration: observe() installs a batch and evaluates at once.         *)

Register(o, kind, output, V) ==
  LET gen == NextGen(observerGen[o])
  IN  /\ o \in AllocatableObservers
      /\ gen <= MaxGeneration
      /\ Room(3)
      /\ freeObservers' = freeObservers \ {o}
      /\ observerGen' = [observerGen EXCEPT ![o] = gen]
      /\ observers' = [observers EXCEPT
           ![o] = [kind |-> kind, deps |-> {}, output |-> output, owner |-> NoOwner]]
      /\ stack' = WithOwned(V, {[slot |-> o, gen |-> gen]})
                    \o <<Guard("install")>> \o Evaluation(o, gen, output)
      /\ seen' = [seen EXCEPT ![o] = NoReads]
      /\ roots' = IF Unowned THEN roots \cup {[slot |-> o, gen |-> gen]} ELSE roots
      /\ UNCHANGED <<revisions, subscribers, dirty, held, unwinding, interrupted>>

CreateEffect(o) ==
  /\ UserTurn
  /\ Register(o, "effect", NoHandle, {})
  /\ UNCHANGED valueTable

(* derived: its output is allocated, uninitialised, before the reaction.   *)
CreateDerived(o, v) ==
  /\ UserTurn
  /\ "derived" \in UserOps
  /\ v \in AllocatableValues
  /\ valueGen[v] < MaxGeneration
  /\ values' = [values EXCEPT ![v] = "uninit"]
  /\ freeValues' = freeValues \ {v}
  /\ valueGen' = [valueGen EXCEPT ![v] = NextGen(@)]
  /\ Register(o, "derived", [slot |-> v, gen |-> NextGen(valueGen[v])], {v})

(* Effect::dispose, through a handle of the current generation.            *)
Dispose(o) ==
  /\ UserTurn
  /\ "dispose" \in UserOps
  /\ observers[o].kind = "effect"
  /\ LET D == Doomed({o})
         V == DoomedValues(D)
     IN  /\ Release(D, V, dirty)
         /\ observers' = Survivors(D, V)
         /\ stack' = Forget(stack, V)
  /\ roots' = roots \ {[slot |-> o, gen |-> observerGen[o]]}
  /\ UNCHANGED <<valueGen, observerGen, held, unwinding, seen, interrupted>>

-----------------------------------------------------------------------------
(* Batches and owned regions opened by user code.                          *)

BeginBatch ==
  /\ UserTurn
  /\ "batch" \in UserOps
  /\ MayOpen
  /\ stack' = Append(stack, Guard("batch"))
  /\ UNCHANGED <<valueTable, revisions, subscribers, observerTable, dirty, held,
                 unwinding, seen, roots, interrupted>>

(* Batch::drop lowers the depth and flushes.                               *)
LeaveBatch(type) ==
  /\ TopIs(type)
  /\ stack' = WithFlush(Popped)
  /\ UNCHANGED <<valueTable, revisions, subscribers, observerTable, dirty, held,
                 unwinding, seen, roots, interrupted>>

EndBatch == UserTurn /\ LeaveBatch("batch")

BeginRegion ==
  /\ UserTurn
  /\ "region" \in UserOps
  /\ MayOpen
  /\ stack' = Append(stack, Guard("region"))
  /\ UNCHANGED <<valueTable, revisions, subscribers, observerTable, dirty, held,
                 unwinding, seen, roots, interrupted>>

(* The view keeps the owner; one that owns nothing makes no difference.    *)
EndRegion ==
  /\ UserTurn
  /\ TopIs("region")
  /\ stack' = Popped
  /\ held' = IF Top.owned = NoOwner THEN held ELSE held \cup {Top.owned}
  /\ UNCHANGED <<valueTable, revisions, subscribers, observerTable, dirty,
                 unwinding, seen, roots, interrupted>>

(* The view drops an owner it kept, at any time, a reaction of that very   *)
(* owner running or not.                                                   *)
DropHeld(owner) ==
  /\ UserTurn
  /\ LET D == Doomed(OwnedEffects(owner))
         V == DoomedValues(D) \cup owner.values
     IN  /\ Release(D, V, dirty)
         /\ observers' = Survivors(D, V)
         /\ stack' = Forget(stack, V)
  /\ held' = held \ {owner}
  /\ UNCHANGED <<valueGen, observerGen, unwinding, seen, roots, interrupted>>

(* Scope::flush called by the host, to resume after a caught panic.        *)
HostFlush ==
  /\ UserTurn
  /\ ~Deferred(stack)
  /\ stack' = Append(stack, Guard("flush"))
  /\ UNCHANGED <<valueTable, revisions, subscribers, observerTable, dirty, held,
                 unwinding, seen, roots, interrupted>>

-----------------------------------------------------------------------------
(* The end of a reaction.                                                  *)

(* A value read is no longer at the revision recorded for it.              *)
MovedOn_Mutant(reads, revs) == FALSE

MovedOn(reads, revs) ==
  \E v \in ValueSlots : reads[v] # Unread /\ revs[v] # reads[v]

(* Capture::drop on the state (revs, pending) left by the callback: the    *)
(* dependencies become the values read, and the reaction is scheduled      *)
(* again if one of them changed since.  A registration disposed meanwhile, *)
(* its slot reused or not, is left alone.                                  *)
Capture(frame, revs, pending) ==
  LET o == frame.slot
      new == {v \in ValueSlots : frame.reads[v] # Unread}
  IN  IF observerGen[o] = frame.gen /\ Live(o)
      THEN /\ observers' = [observers EXCEPT ![o].deps = new]
           /\ subscribers' = [v \in ValueSlots |->
                IF v \in observers[o].deps \ new THEN subscribers[v] \ {o}
                ELSE IF v \in new \ observers[o].deps THEN subscribers[v] \cup {o}
                ELSE subscribers[v]]
           /\ dirty' = IF MovedOn(frame.reads, revs) THEN pending \cup {o} ELSE pending
           /\ seen' = [seen EXCEPT ![o] = frame.reads]
      ELSE /\ dirty' = pending
           /\ UNCHANGED <<observers, subscribers, seen>>

(* The callback of an effect returns, or that of a derived value that      *)
(* computed what its output holds, or whose output was released.           *)
OutputLive(frame) ==
  /\ frame.output # NoHandle
  /\ valueGen[frame.output.slot] = frame.output.gen
  /\ values[frame.output.slot] # "none"

ReturnUnchanged ==
  /\ UserTurn
  /\ TopIs("capture")
  /\ OutputLive(Top) => values[Top.output.slot] = "derived"
  /\ Capture(Top, revisions, dirty)
  /\ stack' = Popped
  /\ UNCHANGED <<valueTable, revisions, freeObservers, observerGen, held,
                 unwinding, roots, interrupted>>

(* The callback of a derived value writes a new output, then returns.      *)
ReturnChanged ==
  /\ UserTurn
  /\ TopIs("capture")
  /\ OutputLive(Top)
  /\ LET v == Top.output.slot
         revs == [revisions EXCEPT ![v] = @ + 1]
     IN  /\ revisions[v] < MaxRevision
         /\ values' = [values EXCEPT ![v] = "derived"]
         /\ revisions' = revs
         /\ Capture(Top, revs, dirty \cup subscribers[v])
  /\ stack' = Popped
  /\ UNCHANGED <<freeValues, valueGen, freeObservers, observerGen, held,
                 unwinding, roots, interrupted>>

(* evaluate after the callback: the registration keeps the allocations of  *)
(* this run; if it is gone, they go too.                                   *)
FinishRun_Mutant ==
  /\ ~unwinding
  /\ TopIs("run")
  /\ observers' = IF observerGen[Top.slot] = Top.gen /\ Live(Top.slot)
                  THEN [observers EXCEPT ![Top.slot].owner = Top.owned]
                  ELSE observers
  /\ stack' = Popped
  /\ UNCHANGED <<valueTable, revisions, subscribers, freeObservers, observerGen,
                 dirty, held, unwinding, seen, roots, interrupted>>

FinishRun ==
  /\ ~unwinding
  /\ TopIs("run")
  /\ LET o == Top.slot
     IN  IF observerGen[o] = Top.gen /\ Live(o)
         THEN /\ observers' = [observers EXCEPT ![o].owner = Top.owned]
              /\ stack' = Popped
              /\ UNCHANGED <<valueTable, revisions, subscribers, freeObservers, dirty>>
         ELSE LET D == Doomed(OwnedEffects(Top.owned))
                  V == DoomedValues(D) \cup Top.owned.values
              IN  /\ Release(D, V, dirty)
                  /\ observers' = Survivors(D, V)
                  /\ stack' = Forget(Popped, V)
                  /\ UNCHANGED valueGen
  /\ UNCHANGED <<observerGen, held, unwinding, seen, roots, interrupted>>

LeaveInstall == ~unwinding /\ LeaveBatch("install")

-----------------------------------------------------------------------------
(* Core::flush.                                                            *)

DirtyDerived == {o \in dirty : observers[o].kind = "derived"}

FirstOf(S) == {o \in S : \A p \in S : o <= p}

(* Derived reactions first, then the lowest slot.                          *)
NextReactions_Mutant == FirstOf(dirty)

NextReactions == FirstOf(IF DirtyDerived # {} THEN DirtyDerived ELSE dirty)

(* One turn of the loop: the reaction leaves dirty, the allocations of its *)
(* previous run are dropped, and its callback starts.                      *)
FlushTurn(o) ==
  /\ ~unwinding
  /\ TopIs("flush")
  /\ o \in NextReactions
  /\ Top.turns < MaxTurns
  /\ Live(o)
  /\ Room(2)
  /\ LET own == observers[o].owner
         D == Doomed(OwnedEffects(own))
         V == DoomedValues(D) \cup own.values
         flush == [Top EXCEPT !.turns = @ + 1]
     IN  /\ Release(D, V, dirty \ {o})
         /\ observers' = [Survivors(D, V) EXCEPT ![o].owner = NoOwner]
         /\ stack' = Forget(Popped, V)
                       \o <<flush>> \o Evaluation(o, observerGen[o], observers[o].output)
  /\ UNCHANGED <<valueGen, observerGen, held, unwinding, seen, roots, interrupted>>

(* The loop asserts that it settles.                                       *)
FlushOverrun ==
  /\ ~unwinding
  /\ TopIs("flush")
  /\ dirty # {}
  /\ Top.turns >= MaxTurns
  /\ unwinding' = TRUE
  /\ interrupted' = TRUE
  /\ UNCHANGED <<valueTable, revisions, subscribers, observerTable, dirty, stack,
                 held, seen, roots>>

FlushDone ==
  /\ ~unwinding
  /\ TopIs("flush")
  /\ dirty = {}
  /\ stack' = Popped
  /\ interrupted' = FALSE
  /\ UNCHANGED <<valueTable, revisions, subscribers, observerTable, dirty, held,
                 unwinding, seen, roots>>

-----------------------------------------------------------------------------
(* Panics.  The guards drop innermost first; nothing flushes meanwhile.    *)

Panic ==
  /\ UserTurn
  /\ "panic" \in UserOps
  /\ stack # <<>>
  /\ unwinding' = TRUE
  /\ interrupted' = TRUE
  /\ UNCHANGED <<valueTable, revisions, subscribers, observerTable, dirty, stack,
                 held, seen, roots>>

UnwindGuard ==
  /\ unwinding
  /\ stack # <<>>
  /\ Top.type \in {"batch", "install", "flush"}
  /\ stack' = Popped
  /\ UNCHANGED <<valueTable, revisions, subscribers, observerTable, dirty, held,
                 unwinding, seen, roots, interrupted>>

UnwindCapture_Mutant ==
  /\ unwinding
  /\ TopIs("capture")
  /\ stack' = Popped
  /\ UNCHANGED <<valueTable, revisions, subscribers, observerTable, dirty, held,
                 unwinding, seen, roots, interrupted>>

UnwindCapture ==
  /\ unwinding
  /\ TopIs("capture")
  /\ Capture(Top, revisions, dirty)
  /\ stack' = Popped
  /\ UNCHANGED <<valueTable, revisions, freeObservers, observerGen, held,
                 unwinding, roots, interrupted>>

(* CaptureOwner: the allocations of the abandoned closure are released.    *)
UnwindOwner_Mutant ==
  /\ unwinding
  /\ TopIs("run") \/ TopIs("region")
  /\ stack' = Popped
  /\ UNCHANGED <<valueTable, revisions, subscribers, observerTable, dirty, held,
                 unwinding, seen, roots, interrupted>>

UnwindOwner ==
  /\ unwinding
  /\ TopIs("run") \/ TopIs("region")
  /\ LET D == Doomed(OwnedEffects(Top.owned))
         V == DoomedValues(D) \cup Top.owned.values
     IN  /\ Release(D, V, dirty)
         /\ observers' = Survivors(D, V)
         /\ stack' = Forget(Popped, V)
  /\ UNCHANGED <<valueGen, observerGen, held, unwinding, seen, roots, interrupted>>

UnwindUpdate ==
  /\ unwinding
  /\ TopIs("update")
  /\ Changed(Top.slot)
  /\ stack' = Popped
  /\ UNCHANGED <<valueTable, subscribers, observerTable, held, unwinding,
                 seen, roots, interrupted>>

(* catch_unwind in the host or in the closure of the innermost frame.      *)
Catch ==
  /\ unwinding
  /\ InUserCode
  /\ unwinding' = FALSE
  /\ UNCHANGED <<valueTable, revisions, subscribers, observerTable, dirty, stack,
                 held, seen, roots, interrupted>>

-----------------------------------------------------------------------------

Init ==
  /\ values = [v \in ValueSlots |-> "none"]
  /\ freeValues = {}
  /\ valueGen = [v \in ValueSlots |-> -1]
  /\ revisions = [v \in ValueSlots |-> 0]
  /\ subscribers = [v \in ValueSlots |-> {}]
  /\ observers = [o \in ObserverSlots |-> NoObserver]
  /\ freeObservers = {}
  /\ observerGen = [o \in ObserverSlots |-> -1]
  /\ dirty = {}
  /\ stack = <<>>
  /\ held = {}
  /\ unwinding = FALSE
  /\ seen = [o \in ObserverSlots |-> NoReads]
  /\ roots = {}
  /\ interrupted = FALSE

User ==
  \/ \E v \in ValueSlots : CreateSignal(v) \/ Read(v) \/ Write(v) \/ BeginUpdate(v)
  \/ EndUpdate
  \/ \E o \in ObserverSlots : CreateEffect(o) \/ Dispose(o)
  \/ \E o \in ObserverSlots, v \in ValueSlots : CreateDerived(o, v)
  \/ BeginBatch \/ EndBatch \/ BeginRegion \/ EndRegion
  \/ \E owner \in held : DropHeld(owner)
  \/ HostFlush
  \/ ReturnUnchanged \/ ReturnChanged
  \/ Panic

System ==
  \/ FinishRun \/ LeaveInstall
  \/ \E o \in ObserverSlots : FlushTurn(o)
  \/ FlushOverrun \/ FlushDone
  \/ UnwindGuard \/ UnwindCapture \/ UnwindOwner \/ UnwindUpdate \/ Catch

Next == User \/ System

Spec == Init /\ [][Next]_vars

-----------------------------------------------------------------------------
(* Types.                                                                  *)

TypeOK ==
  /\ values \in [ValueSlots -> {"none", "signal", "uninit", "derived"}]
  /\ freeValues \subseteq ValueSlots
  /\ valueGen \in [ValueSlots -> Nat \cup {-1}]
  /\ revisions \in [ValueSlots -> Nat]
  /\ subscribers \in [ValueSlots -> SUBSET ObserverSlots]
  /\ observers \in [ObserverSlots -> Observer]
  /\ freeObservers \subseteq ObserverSlots
  /\ observerGen \in [ObserverSlots -> Nat \cup {-1}]
  /\ dirty \subseteq ObserverSlots
  /\ stack \in Seq(Frame)
  /\ held \subseteq Owner
  /\ unwinding \in BOOLEAN
  /\ seen \in [ObserverSlots -> Reads]
  /\ roots \subseteq [slot : ObserverSlots, gen : Nat]
  /\ interrupted \in BOOLEAN

-----------------------------------------------------------------------------
(* Safety.                                                                 *)

(* Core.subscribers and Observer.dependencies are two halves of one        *)
(* relation, kept by Capture::drop, dispose_observer and                   *)
(* ReactiveOwner::drop in different orders: neither half may outlive the   *)
(* other, or a reaction is woken after its disposal or never again.        *)
SubscriptionsMatch ==
  \A o \in ObserverSlots, v \in ValueSlots :
    o \in subscribers[v] <=> (Live(o) /\ v \in observers[o].deps)

(* No update is lost: a registered reaction whose inputs moved on since    *)
(* its last run read them is either scheduled or running (changed(),       *)
(* Capture::drop), whoever wrote and whatever ran in between.              *)
NoLostUpdate ==
  \A o \in ObserverSlots : Live(o) /\ ~Current(o) => o \in dirty \/ Running(o)

(* Only live registrations wait in dirty (dispose_observer removes them).  *)
DirtyAreLive == \A o \in dirty : Live(o)

(* A slot on the free list, or never allocated, holds no registration.     *)
FreeObserversDead ==
  \A o \in ObserverSlots : o \in freeObservers \/ observerGen[o] = -1 => ~Live(o)

(* Outside batches and flushes user code never sees pending work, unless a *)
(* panic cut a flush short: Batch::drop and changed() always flush.        *)
SettledOutsideBatches ==
  ~Deferred(stack) /\ ~unwinding /\ ~interrupted =>
    /\ dirty = {}
    /\ \A o \in ObserverSlots : Live(o) => Current(o)

(* A callback is never entered while it runs: callback.borrow_mut() in     *)
(* evaluate would panic.                                                   *)
NoReentry ==
  \A i, j \in DOMAIN stack :
    /\ i # j
    /\ stack[i].type = "capture" /\ stack[j].type = "capture"
    => <<stack[i].slot, stack[i].gen>> # <<stack[j].slot, stack[j].gen>>

(* The owners alive: those of running reactions and open regions, those    *)
(* registered reactions keep, and those view code holds.                   *)
StackOwner(i, v) == stack[i].type \in {"run", "region"} /\ v \in stack[i].owned.values

ValueOwners(v) ==
  {<<"frame", i>> : i \in {j \in DOMAIN stack : StackOwner(j, v)}}
    \cup {<<"observer", o>> : o \in {p \in ObserverSlots : v \in observers[p].owner.values}}
    \cup {<<"held", h>> : h \in {x \in held : v \in x.values}}

(* A live value belongs to at most one owner, a released one to none: the  *)
(* drop of an owner carries no generation for values, so a second owner    *)
(* would release somebody else's signal when it drops.                     *)
ValuesOwnedOnce ==
  \A v \in ValueSlots :
    /\ Cardinality(ValueOwners(v)) <= 1
    /\ values[v] = "none" => ValueOwners(v) = {}

(* The free lists are exactly the slots that were released and not reused, *)
(* and a released value leaves no subscriber behind.                       *)
FreeListsExact ==
  /\ freeValues = {v \in ValueSlots : valueGen[v] >= 0 /\ values[v] = "none"}
  /\ freeObservers = {o \in ObserverSlots : observerGen[o] >= 0 /\ ~Live(o)}
  /\ \A v \in freeValues : subscribers[v] = {}

(* A reaction registered outside every owner lives until it is disposed    *)
(* through its own handle: no stale handle in an owner's list reaches a    *)
(* later registration of its slot (observer_generations).                  *)
RootsSurvive ==
  \A r \in roots : observerGen[r.slot] = r.gen /\ Live(r.slot)

EffectOwners(o) ==
  LET Lists(owner) == [slot |-> o, gen |-> observerGen[o]] \in owner.effects
  IN  {<<"frame", i>> : i \in {j \in DOMAIN stack : Lists(stack[j].owned)}}
        \cup {<<"observer", p>> : p \in {q \in ObserverSlots : Lists(observers[q].owner)}}
        \cup {<<"held", h>> : h \in {x \in held : Lists(x)}}

(* Every live reaction is a root or will be disposed by exactly one owner: *)
(* a reaction that disposes itself and goes on registering children leaves *)
(* none of them behind (the generation check that ends evaluate).          *)
NoOrphans ==
  \A o \in ObserverSlots :
    Live(o) => IF [slot |-> o, gen |-> observerGen[o]] \in roots
               THEN EffectOwners(o) = {}
               ELSE Cardinality(EffectOwners(o)) = 1

(* Slots are neither leaked nor shared: every slot is free, or has the one *)
(* owner whose drop will free it, and no drop frees what another owns      *)
(* (allocate, dispose_observer, ReactiveOwner::drop).                      *)
SlotsAccounted == ValuesOwnedOnce /\ FreeListsExact

(* Reactions live exactly as long as they should: owned ones until their   *)
(* owner drops, the others until their own disposal, and no longer, also   *)
(* in dirty (Core::evaluate, CaptureOwner::drop, ReactiveOwner::drop).     *)
Lifetimes == NoOrphans /\ RootsSurvive /\ DirtyAreLive

(* When the flush loop starts an effect, every derived value is settled:   *)
(* the effect cannot combine a new input with an old derived value.        *)
EffectsRunSettled ==
  [][\A o \in ObserverSlots :
       FlushTurn(o) /\ observers[o].kind = "effect" =>
         \A d \in ObserverSlots : observers[d].kind = "derived" => Current(d)]_vars

=============================================================================
