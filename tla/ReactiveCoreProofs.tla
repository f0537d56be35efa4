------------------------- MODULE ReactiveCoreProofs -------------------------
(***************************************************************************)
(* Proofs about ReactiveCore for every number of slots, every bound and    *)
(* every choice of user operations.                                        *)
(***************************************************************************)
EXTENDS ReactiveCore, TLAPS, SequenceTheorems, FiniteSetTheorems,
        NaturalsInduction

-----------------------------------------------------------------------------
(* Frames and stacks.                                                      *)

(* A frame of any guard type is a frame, if update guards and reactions    *)
(* name a slot.                                                            *)
LEMMA FrameTypes ==
  ASSUME NEW type \in FrameType, NEW slot \in Int, NEW gen \in Int,
         NEW output \in Handle \cup {NoHandle},
         type = "update" => slot \in ValueSlots,
         type \in {"run", "capture"} => slot \in ObserverSlots
  PROVE  FrameOf(type, slot, gen, output) \in Frame
<1>1. NoReads \in Reads
  BY DEF NoReads, Reads, Unread
<1>2. NoOwner \in Owner
  BY DEF NoOwner, Owner
<1> QED BY <1>1, <1>2 DEF FrameOf, Frame

(* Guard frames that name no slot are frames.                              *)
LEMMA GuardFrame ==
  ASSUME NEW type \in {"batch", "install", "flush", "region"}
  PROVE  Guard(type) \in Frame
  BY FrameTypes DEF Guard, FrameType

(* The two frames evaluate() pushes.                                       *)
LEMMA EvaluationFrames ==
  ASSUME NEW o \in ObserverSlots, NEW g \in Int, NEW output \in Handle \cup {NoHandle}
  PROVE  /\ FrameOf("run", o, g, NoHandle) \in Frame
         /\ FrameOf("capture", o, g, output) \in Frame
  BY FrameTypes, ConstantsAssumption DEF FrameType

(* What identifies the reactions that run: every capture of s is in t.     *)
SameCaptures(s, t) ==
  \A i \in DOMAIN s : s[i].type = "capture" =>
    \E j \in DOMAIN t : /\ t[j].type = "capture"
                        /\ t[j].slot = s[i].slot /\ t[j].gen = s[i].gen

(* Dropping the innermost guard leaves a stack of frames, with the same    *)
(* callbacks unless the guard was one (Capture).                           *)
LEMMA PoppedStack ==
  ASSUME stack \in Seq(Frame), stack # <<>>
  PROVE  /\ Top \in Frame
         /\ Popped \in Seq(Frame)
         /\ Top.type # "capture" => SameCaptures(stack, Popped)
<1>1. Len(stack) \in Nat \ {0} /\ DOMAIN stack = 1 .. Len(stack)
  OBVIOUS
<1>2. Top \in Frame
  BY <1>1 DEF Top
<1>3. Popped \in Seq(Frame) /\ DOMAIN Popped = 1 .. (Len(stack) - 1)
  BY <1>1 DEF Popped
<1>4. ASSUME Top.type # "capture" PROVE SameCaptures(stack, Popped)
  <2> SUFFICES ASSUME NEW i \in DOMAIN stack, stack[i].type = "capture"
               PROVE  i \in DOMAIN Popped /\ Popped[i] = stack[i]
    BY DEF SameCaptures
  <2>1. i # Len(stack)
    BY <1>4 DEF Top
  <2> QED BY <2>1, <1>1, <1>3 DEF Popped
<1> QED BY <1>2, <1>3, <1>4

(* ReactiveOwner::drop forgets reads in the live captures and touches      *)
(* nothing else of the stack.                                              *)
LEMMA ForgetStack ==
  ASSUME NEW stk \in Seq(Frame), NEW V
  PROVE  /\ Forget(stk, V) \in Seq(Frame)
         /\ SameCaptures(stk, Forget(stk, V))
<1>1. DOMAIN stk = 1 .. Len(stk) /\ Len(stk) \in Nat
  OBVIOUS
<1> DEFINE rd(i) == [v \in ValueSlots |-> IF v \in V THEN Unread ELSE stk[i].reads[v]]
           fr(i) == [stk[i] EXCEPT !.reads = rd(i)]
<1>2. ASSUME NEW i \in DOMAIN stk
      PROVE  /\ fr(i) \in Frame
             /\ fr(i).type = stk[i].type
             /\ fr(i).slot = stk[i].slot
             /\ fr(i).gen = stk[i].gen
  <2>1. stk[i] \in Frame
    BY <1>1
  <2>2. rd(i) \in Reads
    BY <2>1 DEF Frame, Reads, Unread
  <2> QED BY <2>1, <2>2 DEF Frame
<1>3. Forget(stk, V) = [i \in 1 .. Len(stk) |-> fr(i)]
  BY <1>1 DEF Forget
<1>4. Forget(stk, V) \in Seq(Frame)
  BY <1>1, <1>2, <1>3
<1>5. SameCaptures(stk, Forget(stk, V))
  BY <1>1, <1>2, <1>3 DEF SameCaptures
<1> QED BY <1>4, <1>5

(* Registering an allocation with its owner abandons no callback.          *)
LEMMA WithOwnedStack ==
  ASSUME stack \in Seq(Frame),
         NEW V \in SUBSET ValueSlots,
         NEW E \in SUBSET [slot : ObserverSlots, gen : Nat]
  PROVE  /\ WithOwned(V, E) \in Seq(Frame)
         /\ SameCaptures(stack, WithOwned(V, E))
<1>1. DOMAIN stack = 1 .. Len(stack) /\ Len(stack) \in Nat
  OBVIOUS
<1> DEFINE own(i) == [values |-> stack[i].owned.values \cup V,
                      effects |-> stack[i].owned.effects \cup E]
           fr(i) == IF Innermost(i, {"run", "region"})
                    THEN [stack[i] EXCEPT !.owned = own(i)] ELSE stack[i]
<1>2. ASSUME NEW i \in DOMAIN stack
      PROVE  /\ fr(i) \in Frame
             /\ fr(i).type = stack[i].type
             /\ fr(i).slot = stack[i].slot
             /\ fr(i).gen = stack[i].gen
  <2>1. stack[i] \in Frame
    BY <1>1
  <2>2. own(i) \in Owner
    BY <2>1 DEF Frame, Owner
  <2> QED BY <2>1, <2>2 DEF Frame
<1>3. WithOwned(V, E) = [i \in 1 .. Len(stack) |-> fr(i)]
  BY <1>1 DEF WithOwned
<1>4. WithOwned(V, E) \in Seq(Frame)
  BY <1>1, <1>2, <1>3
<1>5. SameCaptures(stack, WithOwned(V, E))
  BY <1>1, <1>2, <1>3 DEF SameCaptures
<1> QED BY <1>4, <1>5

(* Frames pushed on a stack hide no callback that was on it.               *)
LEMMA PushedStack ==
  ASSUME NEW stk \in Seq(Frame), NEW t \in Seq(Frame)
  PROVE  /\ stk \o t \in Seq(Frame)
         /\ SameCaptures(stk, stk \o t)
         /\ SameCaptures(t, stk \o t)
<1>1. stk \o t \in Seq(Frame)
  OBVIOUS
<1>2. ASSUME NEW i \in DOMAIN stk PROVE i \in DOMAIN (stk \o t) /\ (stk \o t)[i] = stk[i]
  OBVIOUS
<1>3. ASSUME NEW i \in DOMAIN t
      PROVE  Len(stk) + i \in DOMAIN (stk \o t) /\ (stk \o t)[Len(stk) + i] = t[i]
  OBVIOUS
<1>4. SameCaptures(stk, stk \o t)
  BY <1>2 DEF SameCaptures
<1>5. SameCaptures(t, stk \o t)
  BY <1>3 DEF SameCaptures
<1> QED BY <1>1, <1>4, <1>5

(* One guard more on the stack hides no callback that was on it.           *)
LEMMA AppendedStack ==
  ASSUME NEW stk \in Seq(Frame), NEW f \in Frame
  PROVE  /\ Append(stk, f) \in Seq(Frame)
         /\ SameCaptures(stk, Append(stk, f))
<1>1. Append(stk, f) \in Seq(Frame)
  OBVIOUS
<1>2. ASSUME NEW i \in DOMAIN stk
      PROVE  i \in DOMAIN Append(stk, f) /\ Append(stk, f)[i] = stk[i]
  OBVIOUS
<1> QED BY <1>1, <1>2 DEF SameCaptures

(* flush(), deferred or started, abandons no callback.                     *)
LEMMA FlushedStack ==
  ASSUME NEW stk \in Seq(Frame)
  PROVE  WithFlush(stk) \in Seq(Frame) /\ SameCaptures(stk, WithFlush(stk))
<1>1. SameCaptures(stk, stk)
  BY DEF SameCaptures
<1> QED BY <1>1, GuardFrame, AppendedStack DEF WithFlush

(* Steps that abandon no callback compose.                                 *)
LEMMA SameCapturesTransitive ==
  ASSUME NEW s, NEW t, NEW u, SameCaptures(s, t), SameCaptures(t, u)
  PROVE  SameCaptures(s, u)
  BY DEF SameCaptures

(* A reaction goes on running as long as its capture frame is there.       *)
LEMMA RunningKept ==
  ASSUME NEW o \in ObserverSlots, SameCaptures(stack, stack'),
         observerGen'[o] = observerGen[o], Running(o)
  PROVE  Running(o)'
  BY DEF Running, SameCaptures

-----------------------------------------------------------------------------
(* Type correctness.                                                       *)

(* What a disposal takes down are slots of the two tables                  *)
(* (dispose_observer).                                                     *)
LEMMA DoomedSlots ==
  ASSUME TypeOK, NEW seed
  PROVE  /\ Doomed(seed) \subseteq ObserverSlots
         /\ DoomedValues(Doomed(seed)) \subseteq ValueSlots
<1>1. Doomed(seed) \subseteq ObserverSlots
  BY DEF Doomed
<1>2. \A o \in ObserverSlots : observers[o].owner.values \subseteq ValueSlots
  BY DEF TypeOK, Observer, Owner
<1> QED BY <1>1, <1>2 DEF DoomedValues

(* A release (ReactiveOwner::drop) keeps the types of the tables.          *)
LEMMA ReleaseTypes ==
  ASSUME TypeOK,
         NEW D \in SUBSET ObserverSlots, NEW V \in SUBSET ValueSlots,
         NEW pending \in SUBSET ObserverSlots,
         Release(D, V, pending)
  PROVE  /\ values' \in [ValueSlots -> {"none", "signal", "uninit", "derived"}]
         /\ freeValues' \subseteq ValueSlots
         /\ revisions' \in [ValueSlots -> Nat]
         /\ subscribers' \in [ValueSlots -> SUBSET ObserverSlots]
         /\ freeObservers' \subseteq ObserverSlots
         /\ dirty' \subseteq ObserverSlots
  BY DEF TypeOK, Release

(* The registrations that survive a release are registrations.             *)
LEMMA SurvivorTypes ==
  ASSUME TypeOK, NEW D, NEW V
  PROVE  Survivors(D, V) \in [ObserverSlots -> Observer]
<1>1. NoObserver \in Observer
  BY DEF NoObserver, Observer, NoOwner, Owner
<1>2. ASSUME NEW o \in ObserverSlots
      PROVE  [observers[o] EXCEPT !.deps = observers[o].deps \ V] \in Observer
  BY DEF TypeOK, Observer
<1> QED BY <1>1, <1>2 DEF Survivors

(* Capture::drop keeps the types of the tables it writes.                  *)
LEMMA CaptureTypes ==
  ASSUME TypeOK, NEW f \in Frame, f.type = "capture", NEW revs,
         NEW pending \in SUBSET ObserverSlots,
         Capture(f, revs, pending)
  PROVE  /\ observers' \in [ObserverSlots -> Observer]
         /\ subscribers' \in [ValueSlots -> SUBSET ObserverSlots]
         /\ dirty' \subseteq ObserverSlots
         /\ seen' \in [ObserverSlots -> Reads]
<1>1. f.slot \in ObserverSlots /\ f.reads \in Reads
  BY DEF Frame
<1> DEFINE new == {v \in ValueSlots : f.reads[v] # Unread}
<1>2. CASE observerGen[f.slot] = f.gen /\ Live(f.slot)
  <2>1. observers' = [observers EXCEPT ![f.slot].deps = new]
    BY <1>2 DEF Capture
  <2>2. [observers[f.slot] EXCEPT !.deps = new] \in Observer
    <3>1. observers[f.slot] \in Observer
      BY <1>1 DEF TypeOK
    <3>2. new \in SUBSET ValueSlots
      OBVIOUS
    <3> HIDE DEF new
    <3> QED BY <3>1, <3>2 DEF Observer
  <2>3. observers' \in [ObserverSlots -> Observer]
    BY <1>1, <2>1, <2>2 DEF TypeOK
  <2>4. subscribers' \in [ValueSlots -> SUBSET ObserverSlots]
    <3> DEFINE old == observers[f.slot].deps
               subs(v) == IF v \in old \ new THEN subscribers[v] \ {f.slot}
                          ELSE IF v \in new \ old THEN subscribers[v] \cup {f.slot}
                          ELSE subscribers[v]
    <3>1. subscribers' = [v \in ValueSlots |-> subs(v)]
      BY <1>2 DEF Capture
    <3>2. ASSUME NEW v \in ValueSlots PROVE subs(v) \in SUBSET ObserverSlots
      <4>1. subscribers[v] \in SUBSET ObserverSlots
        BY DEF TypeOK
      <4> HIDE DEF new, old
      <4> QED BY <1>1, <4>1
    <3> HIDE DEF subs
    <3> QED BY <3>1, <3>2
  <2>5. dirty' \subseteq ObserverSlots
    <3>1. dirty' = pending \cup {f.slot} \/ dirty' = pending
      BY <1>2 DEF Capture
    <3> QED BY <1>1, <3>1
  <2>6. seen' \in [ObserverSlots -> Reads]
    <3>1. seen' = [seen EXCEPT ![f.slot] = f.reads]
      BY <1>2 DEF Capture
    <3>2. seen \in [ObserverSlots -> Reads]
      BY DEF TypeOK
    <3> QED BY <1>1, <3>1, <3>2
  <2> QED BY <2>3, <2>4, <2>5, <2>6
<1>3. CASE ~(observerGen[f.slot] = f.gen /\ Live(f.slot))
  <2>1. UNCHANGED <<observers, subscribers, seen>> /\ dirty' = pending
    BY <1>3 DEF Capture
  <2> QED BY <2>1 DEF TypeOK
<1> QED BY <1>2, <1>3

(* changed() keeps the types of the revisions and of the pending           *)
(* reactions.                                                              *)
LEMMA ChangedTypes ==
  ASSUME TypeOK, NEW v \in ValueSlots, Changed(v)
  PROVE  revisions' \in [ValueSlots -> Nat] /\ dirty' \subseteq ObserverSlots
  BY DEF TypeOK, Changed

(* observe() keeps the types of every variable it writes.                  *)
LEMMA RegisterTypes ==
  ASSUME TypeOK, NEW o \in ObserverSlots, NEW kind \in {"effect", "derived"},
         NEW output \in Handle \cup {NoHandle}, NEW V \in SUBSET ValueSlots,
         Register(o, kind, output, V)
  PROVE  /\ revisions' \in [ValueSlots -> Nat]
         /\ subscribers' \in [ValueSlots -> SUBSET ObserverSlots]
         /\ observers' \in [ObserverSlots -> Observer]
         /\ freeObservers' \subseteq ObserverSlots
         /\ observerGen' \in [ObserverSlots -> Nat \cup {-1}]
         /\ dirty' \subseteq ObserverSlots
         /\ stack' \in Seq(Frame)
         /\ held' \subseteq Owner
         /\ unwinding' \in BOOLEAN
         /\ seen' \in [ObserverSlots -> Reads]
         /\ roots' \subseteq [slot : ObserverSlots, gen : Nat]
         /\ interrupted' \in BOOLEAN
<1> DEFINE gen == NextGen(observerGen[o])
           new == [kind |-> kind, deps |-> {}, output |-> output, owner |-> NoOwner]
<1>1. gen \in Nat
  <2>1. observerGen[o] \in Nat \cup {-1}
    BY DEF TypeOK
  <2> QED BY ONLY <2>1 DEF NextGen
<1>2. observers' \in [ObserverSlots -> Observer]
  <2>1. new \in Observer
    BY DEF Observer, Owner, NoOwner
  <2>2. observers' = [observers EXCEPT ![o] = new]
    BY DEF Register
  <2> QED BY <2>1, <2>2 DEF TypeOK
<1>3. stack' \in Seq(Frame)
  <2>1. WithOwned(V, {[slot |-> o, gen |-> gen]}) \in Seq(Frame)
    BY <1>1, WithOwnedStack DEF TypeOK
  <2>2. <<Guard("install")>> \in Seq(Frame)
    BY GuardFrame
  <2>3. Evaluation(o, gen, output) \in Seq(Frame)
    BY <1>1, EvaluationFrames DEF Evaluation
  <2>4. stack' = WithOwned(V, {[slot |-> o, gen |-> gen]})
                   \o <<Guard("install")>> \o Evaluation(o, gen, output)
    BY DEF Register
  <2> QED BY <2>1, <2>2, <2>3, <2>4
<1>4. seen' \in [ObserverSlots -> Reads]
  BY DEF Register, TypeOK, NoReads, Reads
<1>5. /\ freeObservers' \subseteq ObserverSlots
      /\ observerGen' \in [ObserverSlots -> Nat \cup {-1}]
      /\ roots' \subseteq [slot : ObserverSlots, gen : Nat]
  BY <1>1 DEF Register, TypeOK
<1> QED BY <1>2, <1>3, <1>4, <1>5 DEF Register, TypeOK

(* Scope::new is well typed.                                               *)
LEMMA InitTypes == Init => TypeOK
<1> SUFFICES ASSUME Init PROVE TypeOK
  OBVIOUS
<1>1. seen \in [ObserverSlots -> Reads]
  BY DEF Init, NoReads, Reads, Unread
<1>2. NoObserver \in Observer
  BY DEF NoObserver, Observer, NoOwner, Owner
<1>3. observers \in [ObserverSlots -> Observer]
  BY <1>2 DEF Init
<1>4. stack \in Seq(Frame)
  BY DEF Init
<1> QED BY <1>1, <1>3, <1>4 DEF Init, TypeOK

(* A new generation of a slot is a generation (allocate).                  *)
LEMMA AllocatedGeneration ==
  ASSUME TypeOK, NEW v \in ValueSlots
  PROVE  /\ NextGen(valueGen[v]) \in Nat
         /\ [valueGen EXCEPT ![v] = NextGen(@)] \in [ValueSlots -> Nat \cup {-1}]
<1>1. valueGen \in [ValueSlots -> Nat \cup {-1}]
  BY DEF TypeOK
<1>2. NextGen(valueGen[v]) \in Nat
  BY <1>1 DEF NextGen
<1> QED BY <1>1, <1>2

(* The steps of user code keep the types.                                  *)
LEMMA UserTypes ==
  ASSUME TypeOK, User
  PROVE  TypeOK'
<1> USE DEF valueTable, observerTable
<1>0. stack # <<>> => Top \in Frame /\ Popped \in Seq(Frame)
  BY PoppedStack DEF TypeOK
<1>1. ASSUME NEW v \in ValueSlots, CreateSignal(v) PROVE TypeOK'
  <2>1. WithOwned({v}, {}) \in Seq(Frame)
    BY WithOwnedStack DEF TypeOK
  <2>2. /\ values' \in [ValueSlots -> {"none", "signal", "uninit", "derived"}]
        /\ freeValues' \subseteq ValueSlots
    BY <1>1 DEF CreateSignal, TypeOK
  <2>3. valueGen' \in [ValueSlots -> Nat \cup {-1}]
    BY <1>1, AllocatedGeneration DEF CreateSignal
  <2> QED BY <1>1, <2>1, <2>2, <2>3 DEF CreateSignal, TypeOK
<1>2. ASSUME NEW v \in ValueSlots, Read(v) PROVE TypeOK'
  <2>1. PICK i \in DOMAIN stack : stack' = [stack EXCEPT ![i].reads[v] = revisions[v]]
    BY <1>2 DEF Read
  <2>2. stack[i] \in Frame /\ DOMAIN stack = 1 .. Len(stack) /\ Len(stack) \in Nat
    BY DEF TypeOK
  <2>3. [stack[i].reads EXCEPT ![v] = revisions[v]] \in Reads
    BY <2>2 DEF Frame, Reads, TypeOK
  <2>4. [stack[i] EXCEPT !.reads = [stack[i].reads EXCEPT ![v] = revisions[v]]] \in Frame
    BY <2>2, <2>3 DEF Frame
  <2>5. stack' \in Seq(Frame)
    BY <2>1, <2>2, <2>4 DEF TypeOK
  <2> QED BY <1>2, <2>5 DEF Read, TypeOK
<1>3. ASSUME NEW v \in ValueSlots, Write(v) PROVE TypeOK'
  <2>1. revisions' \in [ValueSlots -> Nat] /\ dirty' \subseteq ObserverSlots
    BY <1>3, ChangedTypes DEF Write
  <2>2. stack' \in Seq(Frame)
    BY <1>3, FlushedStack DEF Write, TypeOK
  <2> QED BY <1>3, <2>1, <2>2 DEF Write, TypeOK
<1>4. ASSUME NEW v \in ValueSlots, BeginUpdate(v) PROVE TypeOK'
  <2>1. FrameOf("update", v, valueGen[v], NoHandle) \in Frame
    BY FrameTypes, ConstantsAssumption DEF FrameType, TypeOK
  <2>2. stack' \in Seq(Frame)
    BY <1>4, <2>1, AppendedStack DEF BeginUpdate, TypeOK
  <2> QED BY <1>4, <2>2 DEF BeginUpdate, TypeOK
<1>5. ASSUME EndUpdate PROVE TypeOK'
  <2>1. Top.slot \in ValueSlots
    BY <1>0, <1>5 DEF EndUpdate, TopIs, Frame
  <2>2. revisions' \in [ValueSlots -> Nat] /\ dirty' \subseteq ObserverSlots
    BY <1>5, <2>1, ChangedTypes DEF EndUpdate
  <2>3. stack' \in Seq(Frame)
    BY <1>0, <1>5, FlushedStack DEF EndUpdate, TopIs
  <2> QED BY <1>5, <2>2, <2>3 DEF EndUpdate, TypeOK
<1>6. ASSUME NEW o \in ObserverSlots, CreateEffect(o) PROVE TypeOK'
  <2>1. Register(o, "effect", NoHandle, {}) /\ UNCHANGED valueTable
    BY <1>6 DEF CreateEffect
  <2>2. NoHandle \in Handle \cup {NoHandle} /\ {} \in SUBSET ValueSlots
    OBVIOUS
  <2> HIDE DEF observerTable
  <2>3. values' = values /\ freeValues' = freeValues /\ valueGen' = valueGen
    BY <2>1
  <2> QED BY <2>1, <2>2, <2>3, RegisterTypes DEF TypeOK
<1>7. ASSUME NEW o \in ObserverSlots, Dispose(o) PROVE TypeOK'
  <2> DEFINE D == Doomed({o})
             V == DoomedValues(D)
  <2>1. D \subseteq ObserverSlots /\ V \subseteq ValueSlots
    BY DoomedSlots
  <2>2. /\ Release(D, V, dirty)
        /\ observers' = Survivors(D, V)
        /\ stack' = Forget(stack, V)
        /\ UNCHANGED <<valueGen, observerGen, held, unwinding, seen, interrupted>>
        /\ roots' \subseteq roots
    BY <1>7 DEF Dispose
  <2> HIDE DEF D, V
  <2>3. observers' \in [ObserverSlots -> Observer] /\ stack' \in Seq(Frame)
    BY <2>2, SurvivorTypes, ForgetStack DEF TypeOK
  <2> QED BY <2>1, <2>2, <2>3, ReleaseTypes DEF TypeOK
<1>8. ASSUME NEW o \in ObserverSlots, NEW v \in ValueSlots, CreateDerived(o, v)
      PROVE  TypeOK'
  <2>1. [slot |-> v, gen |-> NextGen(valueGen[v])] \in Handle
    BY AllocatedGeneration DEF Handle
  <2>2. Register(o, "derived", [slot |-> v, gen |-> NextGen(valueGen[v])], {v})
    BY <1>8 DEF CreateDerived
  <2>3. /\ values' \in [ValueSlots -> {"none", "signal", "uninit", "derived"}]
        /\ freeValues' \subseteq ValueSlots
    BY <1>8 DEF CreateDerived, TypeOK
  <2>4. valueGen' \in [ValueSlots -> Nat \cup {-1}]
    BY <1>8, AllocatedGeneration DEF CreateDerived
  <2> QED BY <2>1, <2>2, <2>3, <2>4, RegisterTypes DEF TypeOK
<1>9. ASSUME BeginBatch \/ BeginRegion \/ HostFlush PROVE TypeOK'
  <2>1. stack' \in Seq(Frame)
    BY <1>9, GuardFrame, AppendedStack DEF BeginBatch, BeginRegion, HostFlush, TypeOK
  <2> QED BY <1>9, <2>1 DEF BeginBatch, BeginRegion, HostFlush, TypeOK
<1>10. ASSUME EndBatch PROVE TypeOK'
  <2>1. stack' \in Seq(Frame)
    BY <1>0, <1>10, FlushedStack DEF EndBatch, LeaveBatch, TopIs
  <2> QED BY <1>10, <2>1 DEF EndBatch, LeaveBatch, TypeOK
<1>11. ASSUME EndRegion PROVE TypeOK'
  <2>1. stack' \in Seq(Frame) /\ Top.owned \in Owner
    BY <1>0, <1>11 DEF EndRegion, TopIs, Frame
  <2> QED BY <1>11, <2>1 DEF EndRegion, TypeOK
<1>12. ASSUME NEW owner \in held, DropHeld(owner) PROVE TypeOK'
  <2> DEFINE D == Doomed(OwnedEffects(owner))
             V == DoomedValues(D) \cup owner.values
  <2>1. D \subseteq ObserverSlots /\ V \subseteq ValueSlots
    BY DoomedSlots DEF TypeOK, Owner
  <2>2. /\ Release(D, V, dirty)
        /\ observers' = Survivors(D, V)
        /\ stack' = Forget(stack, V)
        /\ UNCHANGED <<valueGen, observerGen, unwinding, seen, roots, interrupted>>
        /\ held' \subseteq held
    BY <1>12 DEF DropHeld
  <2> HIDE DEF D, V
  <2>3. observers' \in [ObserverSlots -> Observer] /\ stack' \in Seq(Frame)
    BY <2>2, SurvivorTypes, ForgetStack DEF TypeOK
  <2> QED BY <2>1, <2>2, <2>3, ReleaseTypes DEF TypeOK
<1>13. ASSUME ReturnUnchanged PROVE TypeOK'
  <2>1. Top \in Frame /\ Top.type = "capture" /\ Popped \in Seq(Frame)
    BY <1>0, <1>13 DEF ReturnUnchanged, TopIs
  <2>2. Capture(Top, revisions, dirty)
    BY <1>13 DEF ReturnUnchanged
  <2> QED BY <1>13, <2>1, <2>2, CaptureTypes DEF ReturnUnchanged, TypeOK
<1>14. ASSUME ReturnChanged PROVE TypeOK'
  <2> DEFINE v == Top.output.slot
             revs == [revisions EXCEPT ![v] = @ + 1]
  <2>1. Top \in Frame /\ Top.type = "capture" /\ Popped \in Seq(Frame)
    BY <1>0, <1>14 DEF ReturnChanged, TopIs
  <2>2. v \in ValueSlots
    BY <1>14, <2>1 DEF ReturnChanged, OutputLive, Frame, Handle
  <2>3. /\ values' = [values EXCEPT ![v] = "derived"]
        /\ revisions' = revs
        /\ Capture(Top, revs, dirty \cup subscribers[v])
        /\ stack' = Popped
        /\ UNCHANGED <<freeValues, valueGen, freeObservers, observerGen, held,
                       unwinding, roots, interrupted>>
    BY <1>14 DEF ReturnChanged
  <2>4. dirty \cup subscribers[v] \in SUBSET ObserverSlots
    BY <2>2 DEF TypeOK
  <2>5. revisions' \in [ValueSlots -> Nat]
    BY <2>2, <2>3 DEF TypeOK
  <2> HIDE DEF v, revs
  <2>6. /\ observers' \in [ObserverSlots -> Observer]
        /\ subscribers' \in [ValueSlots -> SUBSET ObserverSlots]
        /\ dirty' \subseteq ObserverSlots
        /\ seen' \in [ObserverSlots -> Reads]
    BY <2>1, <2>3, <2>4, CaptureTypes
  <2> QED BY <2>1, <2>2, <2>3, <2>5, <2>6 DEF TypeOK
<1>15. ASSUME Panic PROVE TypeOK'
  BY <1>15 DEF Panic, TypeOK
<1> QED BY <1>1, <1>2, <1>3, <1>4, <1>5, <1>6, <1>7, <1>8, <1>9, <1>10, <1>11,
           <1>12, <1>13, <1>14, <1>15 DEF User

(* The steps of the runtime keep the types.                                *)
LEMMA SystemTypes ==
  ASSUME TypeOK, System
  PROVE  TypeOK'
<1> USE DEF valueTable, observerTable
<1>0. stack # <<>> => Top \in Frame /\ Popped \in Seq(Frame)
  BY PoppedStack DEF TypeOK
<1>1. ASSUME FinishRun PROVE TypeOK'
  <2> DEFINE o == Top.slot
             D == Doomed(OwnedEffects(Top.owned))
             V == DoomedValues(D) \cup Top.owned.values
  <2>1. Top \in Frame /\ Popped \in Seq(Frame) /\ o \in ObserverSlots /\ Top.owned \in Owner
    BY <1>0, <1>1 DEF FinishRun, TopIs, Frame
  <2>2. CASE observerGen[o] = Top.gen /\ Live(o)
    <3>1. /\ observers' = [observers EXCEPT ![o].owner = Top.owned]
          /\ stack' = Popped
          /\ UNCHANGED <<valueTable, revisions, subscribers, freeObservers, dirty,
                         observerGen, held, unwinding, seen, roots, interrupted>>
      BY <1>1, <2>2 DEF FinishRun
    <3>2. [observers[o] EXCEPT !.owner = Top.owned] \in Observer
      <4>1. observers[o] \in Observer
        BY <2>1 DEF TypeOK
      <4> QED BY <2>1, <4>1 DEF Observer
    <3>3. observers' \in [ObserverSlots -> Observer]
      BY <2>1, <3>1, <3>2 DEF TypeOK
    <3> QED BY <2>1, <3>1, <3>3 DEF TypeOK
  <2>3. CASE ~(observerGen[o] = Top.gen /\ Live(o))
    <3>1. D \subseteq ObserverSlots /\ V \subseteq ValueSlots
      BY <2>1, DoomedSlots DEF Owner
    <3>2. /\ Release(D, V, dirty)
          /\ observers' = Survivors(D, V)
          /\ stack' = Forget(Popped, V)
          /\ UNCHANGED <<valueGen, observerGen, held, unwinding, seen, roots, interrupted>>
      BY <1>1, <2>3 DEF FinishRun
    <3> HIDE DEF D, V
    <3>3. observers' \in [ObserverSlots -> Observer] /\ stack' \in Seq(Frame)
      BY <2>1, <3>2, SurvivorTypes, ForgetStack
    <3> QED BY <3>1, <3>2, <3>3, ReleaseTypes DEF TypeOK
  <2> QED BY <2>2, <2>3
<1>2. ASSUME LeaveInstall PROVE TypeOK'
  <2>1. stack' \in Seq(Frame)
    BY <1>0, <1>2, FlushedStack DEF LeaveInstall, LeaveBatch, TopIs
  <2> QED BY <1>2, <2>1 DEF LeaveInstall, LeaveBatch, TypeOK
<1>3. ASSUME NEW o \in ObserverSlots, FlushTurn(o) PROVE TypeOK'
  <2> DEFINE own == observers[o].owner
             D == Doomed(OwnedEffects(own))
             V == DoomedValues(D) \cup own.values
             flush == [Top EXCEPT !.turns = @ + 1]
             eval == Evaluation(o, observerGen[o], observers[o].output)
  <2>1. Top \in Frame /\ Popped \in Seq(Frame) /\ Top.type = "flush"
    BY <1>0, <1>3 DEF FlushTurn, TopIs
  <2>2. own \in Owner /\ observers[o].output \in Handle \cup {NoHandle}
    BY DEF TypeOK, Observer
  <2>3. D \subseteq ObserverSlots /\ V \subseteq ValueSlots
    BY <2>2, DoomedSlots DEF Owner
  <2>4. /\ Release(D, V, dirty \ {o})
        /\ observers' = [Survivors(D, V) EXCEPT ![o].owner = NoOwner]
        /\ stack' = Forget(Popped, V) \o <<flush>> \o eval
        /\ UNCHANGED <<valueGen, observerGen, held, unwinding, seen, roots, interrupted>>
    BY <1>3 DEF FlushTurn
  <2>5. flush \in Frame
    <3>1. Top.turns + 1 \in Nat
      BY <2>1 DEF Frame
    <3>2. flush = [Top EXCEPT !.turns = Top.turns + 1]
      OBVIOUS
    <3> HIDE DEF flush
    <3> QED BY <2>1, <3>1, <3>2 DEF Frame
  <2>6. eval \in Seq(Frame)
    <3>1. observerGen[o] \in Int
      BY DEF TypeOK
    <3>2. /\ FrameOf("run", o, observerGen[o], NoHandle) \in Frame
          /\ FrameOf("capture", o, observerGen[o], observers[o].output) \in Frame
      BY <2>2, <3>1, EvaluationFrames
    <3> QED BY <3>2 DEF Evaluation
  <2> HIDE DEF D, V, flush, eval
  <2>7. Survivors(D, V) \in [ObserverSlots -> Observer]
    BY SurvivorTypes
  <2>8. [Survivors(D, V)[o] EXCEPT !.owner = NoOwner] \in Observer
    BY <2>7 DEF Observer, Owner, NoOwner
  <2>9. observers' \in [ObserverSlots -> Observer]
    BY <2>4, <2>7, <2>8
  <2>10. stack' \in Seq(Frame)
    BY <2>1, <2>4, <2>5, <2>6, ForgetStack
  <2>11. dirty \ {o} \in SUBSET ObserverSlots
    BY DEF TypeOK
  <2> QED BY <2>3, <2>4, <2>9, <2>10, <2>11, ReleaseTypes DEF TypeOK
<1>4. ASSUME FlushOverrun \/ Catch PROVE TypeOK'
  BY <1>4 DEF FlushOverrun, Catch, TypeOK
<1>5. ASSUME FlushDone PROVE TypeOK'
  BY <1>0, <1>5 DEF FlushDone, TopIs, TypeOK
<1>6. ASSUME UnwindGuard PROVE TypeOK'
  BY <1>0, <1>6 DEF UnwindGuard, TypeOK
<1>7. ASSUME UnwindCapture PROVE TypeOK'
  <2>1. Top \in Frame /\ Top.type = "capture" /\ Popped \in Seq(Frame)
    BY <1>0, <1>7 DEF UnwindCapture, TopIs
  <2>2. Capture(Top, revisions, dirty)
    BY <1>7 DEF UnwindCapture
  <2> QED BY <1>7, <2>1, <2>2, CaptureTypes DEF UnwindCapture, TypeOK
<1>8. ASSUME UnwindOwner PROVE TypeOK'
  <2> DEFINE D == Doomed(OwnedEffects(Top.owned))
             V == DoomedValues(D) \cup Top.owned.values
  <2>1. Top \in Frame /\ Popped \in Seq(Frame) /\ Top.owned \in Owner
    BY <1>0, <1>8 DEF UnwindOwner, TopIs, Frame
  <2>2. D \subseteq ObserverSlots /\ V \subseteq ValueSlots
    BY <2>1, DoomedSlots DEF Owner
  <2>3. /\ Release(D, V, dirty)
        /\ observers' = Survivors(D, V)
        /\ stack' = Forget(Popped, V)
        /\ UNCHANGED <<valueGen, observerGen, held, unwinding, seen, roots, interrupted>>
    BY <1>8 DEF UnwindOwner
  <2> HIDE DEF D, V
  <2>4. observers' \in [ObserverSlots -> Observer] /\ stack' \in Seq(Frame)
    BY <2>1, <2>3, SurvivorTypes, ForgetStack
  <2> QED BY <2>2, <2>3, <2>4, ReleaseTypes DEF TypeOK
<1>9. ASSUME UnwindUpdate PROVE TypeOK'
  <2>1. Top.slot \in ValueSlots /\ Popped \in Seq(Frame)
    BY <1>0, <1>9 DEF UnwindUpdate, TopIs, Frame
  <2>2. revisions' \in [ValueSlots -> Nat] /\ dirty' \subseteq ObserverSlots
    BY <1>9, <2>1, ChangedTypes DEF UnwindUpdate
  <2> QED BY <1>9, <2>1, <2>2 DEF UnwindUpdate, TypeOK
<1> QED BY <1>1, <1>2, <1>3, <1>4, <1>5, <1>6, <1>7, <1>8, <1>9 DEF System

(* Steps that change nothing keep the types.                               *)
LEMMA StutterTypes == TypeOK /\ UNCHANGED vars => TypeOK'
  BY DEF TypeOK, vars

(* The tables, the stack and the histories keep their types, for every     *)
(* number of slots and every bound.                                        *)
THEOREM TypeCorrect == Spec => []TypeOK
<1>1. TypeOK /\ [Next]_vars => TypeOK'
  BY UserTypes, SystemTypes, StutterTypes DEF Next
<1> QED BY InitTypes, <1>1, PTL DEF Spec

-----------------------------------------------------------------------------
(* No update is lost.                                                      *)

(* NoLostUpdate is not inductive by itself: a write wakes the subscribers, *)
(* so it reaches the reactions that depend on the slot only because the    *)
(* two halves of the relation agree; and they stay in agreement when a     *)
(* slot is reused only because a free slot holds no registration.          *)
Wakeups == SubscriptionsMatch /\ NoLostUpdate /\ FreeObserversDead

IInv == TypeOK /\ Wakeups

(* Steps that leave the tables alone and abandon no callback.              *)
LEMMA QuietStep ==
  ASSUME Wakeups, SameCaptures(stack, stack'),
         UNCHANGED <<revisions, subscribers, dirty, observerGen, seen, freeObservers>>,
         \A o \in ObserverSlots : /\ observers'[o].kind = observers[o].kind
                                  /\ observers'[o].deps = observers[o].deps
  PROVE  Wakeups'
<1>1. SubscriptionsMatch' /\ FreeObserversDead'
  BY DEF Wakeups, SubscriptionsMatch, FreeObserversDead, Live
<1>2. ASSUME NEW o \in ObserverSlots, Live(o)', ~Current(o)'
      PROVE  o \in dirty' \/ Running(o)'
  <2>1. Live(o) /\ ~Current(o)
    BY <1>2 DEF Live, Current
  <2> QED BY <2>1, RunningKept DEF Wakeups, NoLostUpdate
<1> QED BY <1>1, <1>2 DEF Wakeups, NoLostUpdate

(* A write: changed() schedules every reaction that depends on the slot.   *)
LEMMA ChangedStep ==
  ASSUME IInv, NEW v \in ValueSlots, Changed(v), SameCaptures(stack, stack'),
         UNCHANGED <<subscribers, observers, observerGen, seen, freeObservers>>
  PROVE  Wakeups'
<1>1. SubscriptionsMatch' /\ FreeObserversDead'
  BY DEF IInv, Wakeups, SubscriptionsMatch, FreeObserversDead, Live
<1>2. ASSUME NEW o \in ObserverSlots, Live(o)', ~Current(o)'
      PROVE  o \in dirty' \/ Running(o)'
  <2>1. Live(o) /\ observers[o].deps \subseteq ValueSlots
    BY <1>2 DEF Live, IInv, TypeOK, Observer
  <2>2. CASE v \in observers[o].deps
    BY <2>1, <2>2 DEF IInv, Wakeups, SubscriptionsMatch, Changed
  <2>3. CASE v \notin observers[o].deps
    <3>1. \A w \in observers[o].deps : revisions'[w] = revisions[w]
      BY <2>1, <2>3 DEF Changed, IInv, TypeOK
    <3>2. ~Current(o)
      BY <1>2, <3>1 DEF Current
    <3> QED BY <2>1, <3>2, RunningKept DEF IInv, Wakeups, NoLostUpdate, Changed
  <2> QED BY <2>2, <2>3
<1> QED BY <1>1, <1>2 DEF Wakeups, NoLostUpdate

(* A release of the reactions D and the values V.  A reaction that left    *)
(* dirty without being released has started to run.                        *)
LEMMA ReleaseStep ==
  ASSUME IInv, NEW D \in SUBSET ObserverSlots, NEW V \in SUBSET ValueSlots,
         NEW pending \in SUBSET dirty, Release(D, V, pending),
         SameCaptures(stack, stack'), UNCHANGED <<observerGen, seen>>,
         \A o \in ObserverSlots :
           /\ observers'[o].kind = Survivors(D, V)[o].kind
           /\ observers'[o].deps = Survivors(D, V)[o].deps,
         \A o \in dirty \ pending : Running(o)'
  PROVE  Wakeups'
<1>1. ASSUME NEW o \in ObserverSlots
      PROVE  /\ Live(o)' <=> Live(o) /\ o \notin D
             /\ o \notin D => observers'[o].deps = observers[o].deps \ V
  <2>1. observers[o] \in Observer
    BY DEF IInv, TypeOK
  <2>2. o \in D => observers'[o].kind = "none"
    BY DEF Survivors, NoObserver
  <2>3. o \notin D => /\ observers'[o].kind = observers[o].kind
                      /\ observers'[o].deps = observers[o].deps \ V
    BY <2>1 DEF Survivors, Observer
  <2> QED BY <2>2, <2>3 DEF Live
<1>2. SubscriptionsMatch'
  <2> SUFFICES ASSUME NEW o \in ObserverSlots, NEW v \in ValueSlots
               PROVE  o \in subscribers'[v] <=> (Live(o)' /\ v \in observers'[o].deps)
    BY DEF SubscriptionsMatch, Live
  <2>1. o \in subscribers[v] <=> (Live(o) /\ v \in observers[o].deps)
    BY DEF IInv, Wakeups, SubscriptionsMatch
  <2>2. CASE v \in V
    BY <1>1, <2>2 DEF Release
  <2>3. CASE v \notin V
    BY <1>1, <2>1, <2>3 DEF Release
  <2> QED BY <2>2, <2>3
<1>3. FreeObserversDead'
  BY <1>1 DEF IInv, Wakeups, FreeObserversDead, Release, Live
<1>4. ASSUME NEW o \in ObserverSlots, Live(o)', ~Current(o)'
      PROVE  o \in dirty' \/ Running(o)'
  <2>1. Live(o) /\ o \notin D
    BY <1>1, <1>4
  <2>2. PICK w \in observers'[o].deps : revisions'[w] # seen'[o][w]
    BY <1>4 DEF Current
  <2>3. w \in observers[o].deps /\ w \in ValueSlots /\ revisions'[w] = revisions[w]
    BY <1>1, <2>1, <2>2 DEF Release, IInv, TypeOK, Observer
  <2>4. ~Current(o)
    BY <2>2, <2>3 DEF Current
  <2>5. o \in dirty \/ Running(o)
    BY <2>1, <2>4 DEF IInv, Wakeups, NoLostUpdate
  <2> QED BY <2>1, <2>5, RunningKept DEF Release
<1> QED BY <1>2, <1>3, <1>4 DEF Wakeups, NoLostUpdate

(* The end of a callback: Capture::drop on the revisions revs and the      *)
(* dirty set pending that the derived output, if any, left behind.         *)
LEMMA CaptureStep ==
  ASSUME IInv, TopIs("capture"), NEW revs, NEW pending,
         Capture(Top, revs, pending), revisions' = revs, stack' = Popped,
         dirty \subseteq pending,
         \A v \in ValueSlots : revs[v] # revisions[v] => subscribers[v] \subseteq pending,
         UNCHANGED <<observerGen, freeObservers>>
  PROVE  Wakeups'
<1> DEFINE o == Top.slot
           new == {v \in ValueSlots : Top.reads[v] # Unread}
           Applies == observerGen[o] = Top.gen /\ Live(o)
<1>1. Top \in Frame /\ o \in ObserverSlots /\ Top.type = "capture"
  BY PoppedStack DEF IInv, TypeOK, TopIs, Frame
<1>2. observers[o] \in Observer
  BY <1>1 DEF IInv, TypeOK
<1>3. Applies => /\ observers' = [observers EXCEPT ![o].deps = new]
                 /\ subscribers' = [v \in ValueSlots |->
                      IF v \in observers[o].deps \ new THEN subscribers[v] \ {o}
                      ELSE IF v \in new \ observers[o].deps THEN subscribers[v] \cup {o}
                      ELSE subscribers[v]]
                 /\ pending \subseteq dirty'
                 /\ (\E v \in new : revs[v] # Top.reads[v]) => o \in dirty'
                 /\ seen' = [seen EXCEPT ![o] = Top.reads]
  BY DEF Capture, MovedOn
<1>4. ~Applies => dirty' = pending /\ UNCHANGED <<observers, subscribers, seen>>
  BY DEF Capture
<1>5. ASSUME NEW p \in ObserverSlots
      PROVE  /\ observers'[p].kind = observers[p].kind
             /\ observers'[p].deps = IF Applies /\ p = o THEN new ELSE observers[p].deps
             /\ seen'[p] = IF Applies /\ p = o THEN Top.reads ELSE seen[p]
  <2>1. CASE Applies
    <3>1. observers'[p] = IF p = o THEN [observers[o] EXCEPT !.deps = new] ELSE observers[p]
      BY <1>1, <1>3, <2>1 DEF IInv, TypeOK
    <3>2. seen'[p] = IF p = o THEN Top.reads ELSE seen[p]
      BY <1>1, <1>3, <2>1 DEF IInv, TypeOK
    <3> HIDE DEF new, o
    <3>3. /\ [observers[o] EXCEPT !.deps = new].kind = observers[o].kind
          /\ [observers[o] EXCEPT !.deps = new].deps = new
      BY <1>2 DEF Observer
    <3> QED BY <2>1, <3>1, <3>2, <3>3
  <2>2. CASE ~Applies
    BY <1>4, <2>2
  <2> QED BY <2>1, <2>2
<1> HIDE DEF new
<1>6. SubscriptionsMatch'
  <2> SUFFICES ASSUME NEW p \in ObserverSlots, NEW v \in ValueSlots
               PROVE  p \in subscribers'[v] <=> (Live(p)' /\ v \in observers'[p].deps)
    BY DEF SubscriptionsMatch, Live
  <2>1. \A q \in ObserverSlots :
          q \in subscribers[v] <=> (Live(q) /\ v \in observers[q].deps)
    BY DEF IInv, Wakeups, SubscriptionsMatch
  <2>2. Live(p)' <=> Live(p)
    BY <1>5 DEF Live
  <2>3. CASE Applies /\ p = o
    BY <1>1, <1>3, <1>5, <2>1, <2>2, <2>3
  <2>4. CASE ~Applies
    BY <1>4, <1>5, <2>1, <2>2, <2>4
  <2>5. CASE Applies /\ p # o
    BY <1>3, <1>5, <2>1, <2>2, <2>5
  <2> QED BY <2>3, <2>4, <2>5
<1>7. FreeObserversDead'
  BY <1>5 DEF IInv, Wakeups, FreeObserversDead, Live
<1>8. ASSUME NEW p \in ObserverSlots, Live(p)', ~Current(p)'
      PROVE  p \in dirty' \/ Running(p)'
  <2>1. Live(p) /\ pending \subseteq dirty'
    BY <1>3, <1>4, <1>5, <1>8 DEF Live
  <2>2. PICK w \in observers'[p].deps : revs[w] # seen'[p][w]
    BY <1>8 DEF Current
  <2>3. CASE Applies /\ p = o
    BY <1>3, <1>5, <2>2, <2>3
  <2>4. CASE ~(Applies /\ p = o)
    <3>1. w \in observers[p].deps /\ w \in ValueSlots /\ revs[w] # seen[p][w]
      BY <1>5, <2>2, <2>4 DEF IInv, TypeOK, Observer
    <3>2. CASE revs[w] # revisions[w]
      BY <2>1, <3>1, <3>2 DEF IInv, Wakeups, SubscriptionsMatch
    <3>3. CASE revs[w] = revisions[w]
      <4>1. p \in dirty \/ Running(p)
        BY <2>1, <3>1, <3>3 DEF Current, IInv, Wakeups, NoLostUpdate
      <4>2. ASSUME Running(p) PROVE Running(p)'
        <5>1. PICK i \in DOMAIN stack : /\ stack[i].type = "capture"
                                        /\ stack[i].slot = p
                                        /\ stack[i].gen = observerGen[p]
          BY <4>2 DEF Running
        <5>2. i # Len(stack)
          BY <2>1, <2>4, <5>1 DEF Top
        <5>3. i \in DOMAIN Popped /\ Popped[i] = stack[i]
          BY <5>1, <5>2 DEF Popped, IInv, TypeOK
        <5> QED BY <5>1, <5>3 DEF Running
      <4> QED BY <2>1, <4>1, <4>2
    <3> QED BY <3>2, <3>3
  <2> QED BY <2>3, <2>4
<1> QED BY <1>6, <1>7, <1>8 DEF Wakeups, NoLostUpdate

(* A registration: the new reaction depends on nothing yet and is running. *)
LEMMA RegisterStep ==
  ASSUME IInv, NEW o \in ObserverSlots, NEW kind \in {"effect", "derived"},
         NEW output \in Handle \cup {NoHandle}, NEW V \in SUBSET ValueSlots,
         Register(o, kind, output, V)
  PROVE  Wakeups'
<1> DEFINE gen == NextGen(observerGen[o])
           new == [kind |-> kind, deps |-> {}, output |-> output, owner |-> NoOwner]
           base == WithOwned(V, {[slot |-> o, gen |-> gen]})
<1>1. ~Live(o) /\ gen \in Nat
  BY DEF IInv, TypeOK, Wakeups, FreeObserversDead, Register, AllocatableObservers,
         Allocatable, NextGen
<1>2. /\ freeObservers' = freeObservers \ {o}
      /\ observerGen' = [observerGen EXCEPT ![o] = gen]
      /\ observers' = [observers EXCEPT ![o] = new]
      /\ stack' = base \o <<Guard("install")>> \o Evaluation(o, gen, output)
      /\ seen' = [seen EXCEPT ![o] = NoReads]
      /\ UNCHANGED <<revisions, subscribers, dirty>>
  BY DEF Register
<1>3. SameCaptures(stack, stack')
  <2>1. base \in Seq(Frame) /\ SameCaptures(stack, base)
    <3>1. {[slot |-> o, gen |-> gen]} \in SUBSET [slot : ObserverSlots, gen : Nat]
      BY <1>1
    <3>2. stack \in Seq(Frame)
      BY DEF IInv, TypeOK
    <3> HIDE DEF gen
    <3> QED BY <3>1, <3>2, WithOwnedStack
  <2>2. <<Guard("install")>> \in Seq(Frame)
    BY GuardFrame
  <2>3. Evaluation(o, gen, output) \in Seq(Frame)
    BY <1>1, EvaluationFrames DEF Evaluation
  <2> HIDE DEF base, gen
  <2>4. SameCaptures(base, base \o <<Guard("install")>>)
    BY <2>1, <2>2, PushedStack
  <2>5. /\ base \o <<Guard("install")>> \in Seq(Frame)
        /\ SameCaptures(base \o <<Guard("install")>>, stack')
    BY <1>2, <2>1, <2>2, <2>3, PushedStack
  <2> QED BY <2>1, <2>4, <2>5, SameCapturesTransitive
<1>4. /\ observers'[o].deps = {} /\ observers'[o].kind # "none" /\ observerGen'[o] # -1
      /\ \A p \in ObserverSlots \ {o} : /\ observers'[p] = observers[p]
                                        /\ observerGen'[p] = observerGen[p]
                                        /\ seen'[p] = seen[p]
  BY <1>1, <1>2 DEF IInv, TypeOK
<1>5. SubscriptionsMatch'
  BY <1>1, <1>2, <1>4 DEF IInv, Wakeups, SubscriptionsMatch, Live
<1>6. FreeObserversDead'
  BY <1>2, <1>4 DEF IInv, Wakeups, FreeObserversDead, Live
<1>7. ASSUME NEW p \in ObserverSlots, Live(p)', ~Current(p)'
      PROVE  p \in dirty' \/ Running(p)'
  <2>1. p # o
    BY <1>4, <1>7 DEF Current
  <2>2. Live(p) /\ ~Current(p)
    BY <1>2, <1>4, <1>7, <2>1 DEF Live, Current
  <2> QED BY <1>2, <1>3, <1>4, <2>1, <2>2, RunningKept DEF IInv, Wakeups, NoLostUpdate
<1> QED BY <1>5, <1>6, <1>7 DEF Wakeups, NoLostUpdate

(* The steps of user code, from signal() to a panic, lose no update.       *)
LEMMA UserWakeups ==
  ASSUME IInv, User
  PROVE  Wakeups'
<1> USE DEF valueTable, observerTable
<1>0. /\ TypeOK /\ Wakeups /\ stack \in Seq(Frame)
      /\ SameCaptures(stack, stack)
      /\ stack # <<>> => /\ Top \in Frame /\ Popped \in Seq(Frame)
                         /\ Top.type # "capture" => SameCaptures(stack, Popped)
  BY PoppedStack DEF IInv, TypeOK, SameCaptures
<1>1. ASSUME NEW v \in ValueSlots, CreateSignal(v) PROVE Wakeups'
  <2>1. SameCaptures(stack, stack')
    BY <1>0, <1>1, WithOwnedStack DEF CreateSignal
  <2> QED BY <1>0, <1>1, <2>1, QuietStep DEF CreateSignal
<1>2. ASSUME NEW v \in ValueSlots, Read(v) PROVE Wakeups'
  <2>1. PICK i \in DOMAIN stack : stack' = [stack EXCEPT ![i].reads[v] = revisions[v]]
    BY <1>2 DEF Read
  <2>2. stack[i] \in Frame
    BY <1>0
  <2>3. \A j \in DOMAIN stack : /\ j \in DOMAIN stack'
                                /\ stack'[j].type = stack[j].type
                                /\ stack'[j].slot = stack[j].slot
                                /\ stack'[j].gen = stack[j].gen
    BY <1>0, <2>1, <2>2 DEF Frame
  <2>4. SameCaptures(stack, stack')
    BY <2>3 DEF SameCaptures
  <2> QED BY <1>0, <1>2, <2>4, QuietStep DEF Read
<1>3. ASSUME NEW v \in ValueSlots, Write(v) PROVE Wakeups'
  <2>1. SameCaptures(stack, stack')
    BY <1>0, <1>3, FlushedStack DEF Write
  <2> QED BY <1>3, <2>1, ChangedStep DEF Write
<1>4. ASSUME NEW v \in ValueSlots, BeginUpdate(v) PROVE Wakeups'
  <2>1. FrameOf("update", v, valueGen[v], NoHandle) \in Frame
    BY <1>0, FrameTypes, ConstantsAssumption DEF FrameType, TypeOK
  <2>2. SameCaptures(stack, stack')
    BY <1>0, <1>4, <2>1, AppendedStack DEF BeginUpdate
  <2> QED BY <1>0, <1>4, <2>2, QuietStep DEF BeginUpdate
<1>5. ASSUME EndUpdate PROVE Wakeups'
  <2>1. Top.slot \in ValueSlots /\ Popped \in Seq(Frame) /\ SameCaptures(stack, Popped)
    BY <1>0, <1>5 DEF EndUpdate, TopIs, Frame
  <2>2. SameCaptures(stack, stack')
    BY <1>5, <2>1, FlushedStack, SameCapturesTransitive DEF EndUpdate
  <2> QED BY <1>5, <2>1, <2>2, ChangedStep DEF EndUpdate
<1>6. ASSUME NEW o \in ObserverSlots, CreateEffect(o) PROVE Wakeups'
  <2>1. Register(o, "effect", NoHandle, {})
    BY <1>6 DEF CreateEffect
  <2>2. NoHandle \in Handle \cup {NoHandle} /\ {} \in SUBSET ValueSlots
    OBVIOUS
  <2> QED BY <2>1, <2>2, RegisterStep
<1>7. ASSUME NEW o \in ObserverSlots, Dispose(o) PROVE Wakeups'
  <2> DEFINE D == Doomed({o})
             V == DoomedValues(D)
  <2>1. D \subseteq ObserverSlots /\ V \subseteq ValueSlots
    BY <1>0, DoomedSlots
  <2>2. /\ Release(D, V, dirty)
        /\ observers' = Survivors(D, V)
        /\ stack' = Forget(stack, V)
        /\ UNCHANGED <<observerGen, seen>>
    BY <1>7 DEF Dispose
  <2> HIDE DEF D, V
  <2>3. SameCaptures(stack, stack')
    BY <1>0, <2>2, ForgetStack
  <2> QED BY <2>1, <2>2, <2>3, ReleaseStep
<1>8. ASSUME NEW o \in ObserverSlots, NEW v \in ValueSlots, CreateDerived(o, v)
      PROVE  Wakeups'
  <2>1. [slot |-> v, gen |-> NextGen(valueGen[v])] \in Handle
    BY <1>0, AllocatedGeneration DEF Handle
  <2>2. Register(o, "derived", [slot |-> v, gen |-> NextGen(valueGen[v])], {v})
    BY <1>8 DEF CreateDerived
  <2> QED BY <2>1, <2>2, RegisterStep
<1>9. ASSUME BeginBatch \/ BeginRegion \/ HostFlush PROVE Wakeups'
  <2>1. SameCaptures(stack, stack')
    BY <1>0, <1>9, GuardFrame, AppendedStack DEF BeginBatch, BeginRegion, HostFlush
  <2> QED BY <1>0, <1>9, <2>1, QuietStep DEF BeginBatch, BeginRegion, HostFlush
<1>10. ASSUME EndBatch PROVE Wakeups'
  <2>1. Popped \in Seq(Frame) /\ SameCaptures(stack, Popped)
    BY <1>0, <1>10 DEF EndBatch, LeaveBatch, TopIs
  <2>2. SameCaptures(stack, stack')
    BY <1>10, <2>1, FlushedStack, SameCapturesTransitive DEF EndBatch, LeaveBatch
  <2> QED BY <1>0, <1>10, <2>2, QuietStep DEF EndBatch, LeaveBatch
<1>11. ASSUME EndRegion PROVE Wakeups'
  <2>1. SameCaptures(stack, stack')
    BY <1>0, <1>11 DEF EndRegion, TopIs
  <2> QED BY <1>0, <1>11, <2>1, QuietStep DEF EndRegion
<1>12. ASSUME NEW owner \in held, DropHeld(owner) PROVE Wakeups'
  <2> DEFINE D == Doomed(OwnedEffects(owner))
             V == DoomedValues(D) \cup owner.values
  <2>1. D \subseteq ObserverSlots /\ V \subseteq ValueSlots
    BY <1>0, DoomedSlots DEF TypeOK, Owner
  <2>2. /\ Release(D, V, dirty)
        /\ observers' = Survivors(D, V)
        /\ stack' = Forget(stack, V)
        /\ UNCHANGED <<observerGen, seen>>
    BY <1>12 DEF DropHeld
  <2> HIDE DEF D, V
  <2>3. SameCaptures(stack, stack')
    BY <1>0, <2>2, ForgetStack
  <2> QED BY <2>1, <2>2, <2>3, ReleaseStep
<1>13. ASSUME ReturnUnchanged PROVE Wakeups'
  BY <1>13, CaptureStep DEF ReturnUnchanged
<1>14. ASSUME ReturnChanged PROVE Wakeups'
  <2> DEFINE v == Top.output.slot
             revs == [revisions EXCEPT ![v] = @ + 1]
  <2>1. /\ TopIs("capture")
        /\ Capture(Top, revs, dirty \cup subscribers[v])
        /\ revisions' = revs /\ stack' = Popped
        /\ UNCHANGED <<observerGen, freeObservers>>
    BY <1>14 DEF ReturnChanged
  <2>2. \A w \in ValueSlots : revs[w] # revisions[w] => w = v
    BY <1>0 DEF TypeOK
  <2> HIDE DEF v, revs
  <2> QED BY <2>1, <2>2, CaptureStep
<1>15. ASSUME Panic PROVE Wakeups'
  BY <1>0, <1>15, QuietStep DEF Panic
<1> QED BY <1>1, <1>2, <1>3, <1>4, <1>5, <1>6, <1>7, <1>8, <1>9, <1>10, <1>11,
           <1>12, <1>13, <1>14, <1>15 DEF User

(* The steps of the library itself, panics included.                       *)
LEMMA SystemWakeups ==
  ASSUME IInv, System
  PROVE  Wakeups'
<1> USE DEF valueTable, observerTable
<1>0. /\ TypeOK /\ Wakeups /\ stack \in Seq(Frame)
      /\ SameCaptures(stack, stack)
      /\ stack # <<>> => /\ Top \in Frame /\ Popped \in Seq(Frame)
                         /\ Top.type # "capture" => SameCaptures(stack, Popped)
  BY PoppedStack DEF IInv, TypeOK, SameCaptures
<1>1. ASSUME FinishRun PROVE Wakeups'
  <2>1. /\ Top \in Frame /\ Popped \in Seq(Frame) /\ SameCaptures(stack, Popped)
        /\ Top.owned \in Owner /\ Top.slot \in ObserverSlots
    BY <1>0, <1>1 DEF FinishRun, TopIs, Frame
  <2>2. CASE observerGen[Top.slot] = Top.gen /\ Live(Top.slot)
    <3>1. /\ observers' = [observers EXCEPT ![Top.slot].owner = Top.owned]
          /\ stack' = Popped
          /\ UNCHANGED <<revisions, subscribers, freeObservers, dirty, observerGen, seen>>
      BY <1>1, <2>2 DEF FinishRun
    <3>2. \A o \in ObserverSlots : /\ observers'[o].kind = observers[o].kind
                                   /\ observers'[o].deps = observers[o].deps
      BY <1>0, <2>1, <3>1 DEF TypeOK, Observer
    <3> QED BY <1>0, <2>1, <3>1, <3>2, QuietStep
  <2>3. CASE ~(observerGen[Top.slot] = Top.gen /\ Live(Top.slot))
    <3> DEFINE D == Doomed(OwnedEffects(Top.owned))
               V == DoomedValues(D) \cup Top.owned.values
    <3>1. D \subseteq ObserverSlots /\ V \subseteq ValueSlots
      BY <1>0, <2>1, DoomedSlots DEF Owner
    <3>2. /\ Release(D, V, dirty)
          /\ observers' = Survivors(D, V)
          /\ stack' = Forget(Popped, V)
          /\ UNCHANGED <<observerGen, seen>>
      BY <1>1, <2>3 DEF FinishRun
    <3> HIDE DEF D, V
    <3>3. SameCaptures(stack, stack')
      BY <2>1, <3>2, ForgetStack, SameCapturesTransitive
    <3> QED BY <3>1, <3>2, <3>3, ReleaseStep
  <2> QED BY <2>2, <2>3
<1>2. ASSUME LeaveInstall PROVE Wakeups'
  <2>1. Popped \in Seq(Frame) /\ SameCaptures(stack, Popped)
    BY <1>0, <1>2 DEF LeaveInstall, LeaveBatch, TopIs
  <2>2. SameCaptures(stack, stack')
    BY <1>2, <2>1, FlushedStack, SameCapturesTransitive DEF LeaveInstall, LeaveBatch
  <2> QED BY <1>0, <1>2, <2>2, QuietStep DEF LeaveInstall, LeaveBatch
<1>3. ASSUME NEW o \in ObserverSlots, FlushTurn(o) PROVE Wakeups'
  <2> DEFINE own == observers[o].owner
             D == Doomed(OwnedEffects(own))
             V == DoomedValues(D) \cup own.values
             flush == [Top EXCEPT !.turns = @ + 1]
             eval == Evaluation(o, observerGen[o], observers[o].output)
  <2>1. /\ Top \in Frame /\ Popped \in Seq(Frame) /\ SameCaptures(stack, Popped)
        /\ observers[o] \in Observer
    BY <1>0, <1>3 DEF FlushTurn, TopIs, TypeOK
  <2>2. D \subseteq ObserverSlots /\ V \subseteq ValueSlots
    BY <1>0, <2>1, DoomedSlots DEF Observer, Owner
  <2>3. /\ Release(D, V, dirty \ {o})
        /\ observers' = [Survivors(D, V) EXCEPT ![o].owner = NoOwner]
        /\ stack' = Forget(Popped, V) \o <<flush>> \o eval
        /\ UNCHANGED <<observerGen, seen>>
    BY <1>3 DEF FlushTurn
  <2>4. <<flush>> \in Seq(Frame)
    <3>1. Top.turns + 1 \in Nat /\ Top.type # "update"
      BY <1>3, <2>1 DEF Frame, FlushTurn, TopIs
    <3>2. flush = [Top EXCEPT !.turns = Top.turns + 1]
      OBVIOUS
    <3>3. flush \in Frame
      BY <2>1, <3>1, <3>2 DEF Frame
    <3> QED BY <3>3
  <2>5. /\ eval \in Seq(Frame)
        /\ eval[2].type = "capture" /\ eval[2].slot = o /\ eval[2].gen = observerGen[o]
        /\ 2 \in DOMAIN eval
    <3>1. observerGen[o] \in Int /\ observers[o].output \in Handle \cup {NoHandle}
      BY <1>0, <2>1 DEF TypeOK, Observer
    <3>2. /\ FrameOf("run", o, observerGen[o], NoHandle) \in Frame
          /\ FrameOf("capture", o, observerGen[o], observers[o].output) \in Frame
      BY <3>1, EvaluationFrames
    <3> QED BY <3>2 DEF Evaluation, FrameOf
  <2>6. Survivors(D, V) \in [ObserverSlots -> Observer]
    BY <1>0, SurvivorTypes
  <2> HIDE DEF own, D, V, flush, eval
  <2>7. Forget(Popped, V) \in Seq(Frame) /\ SameCaptures(Popped, Forget(Popped, V))
    BY <2>1, ForgetStack
  <2> DEFINE base == Forget(Popped, V) \o <<flush>>
  <2>8. base \in Seq(Frame) /\ SameCaptures(Forget(Popped, V), base)
    BY <2>4, <2>7, PushedStack
  <2>9. SameCaptures(base, stack') /\ SameCaptures(eval, stack')
    <3> HIDE DEF base
    <3>1. stack' = base \o eval
      BY <2>3 DEF base
    <3> QED BY <2>5, <2>8, <3>1, PushedStack
  <2> HIDE DEF base
  <2>10. SameCaptures(stack, stack')
    BY <2>1, <2>7, <2>8, <2>9, SameCapturesTransitive
  <2>11. Running(o)'
    BY <2>3, <2>5, <2>9 DEF Running, SameCaptures
  <2>12. \A p \in ObserverSlots : /\ observers'[p].kind = Survivors(D, V)[p].kind
                                  /\ observers'[p].deps = Survivors(D, V)[p].deps
    BY <2>3, <2>6 DEF Observer
  <2>13. \A p \in dirty \ (dirty \ {o}) : Running(p)'
    BY <2>11
  <2> QED BY <2>2, <2>3, <2>10, <2>12, <2>13, ReleaseStep
<1>4. ASSUME FlushOverrun \/ Catch PROVE Wakeups'
  BY <1>0, <1>4, QuietStep DEF FlushOverrun, Catch
<1>5. ASSUME FlushDone \/ UnwindGuard PROVE Wakeups'
  <2>1. stack' = Popped /\ SameCaptures(stack, Popped)
    BY <1>0, <1>5 DEF FlushDone, UnwindGuard, TopIs
  <2> QED BY <1>0, <1>5, <2>1, QuietStep DEF FlushDone, UnwindGuard
<1>6. ASSUME UnwindCapture PROVE Wakeups'
  BY <1>6, CaptureStep DEF UnwindCapture
<1>7. ASSUME UnwindOwner PROVE Wakeups'
  <2> DEFINE D == Doomed(OwnedEffects(Top.owned))
             V == DoomedValues(D) \cup Top.owned.values
  <2>1. /\ Top \in Frame /\ Popped \in Seq(Frame) /\ SameCaptures(stack, Popped)
        /\ Top.owned \in Owner
    BY <1>0, <1>7 DEF UnwindOwner, TopIs, Frame
  <2>2. D \subseteq ObserverSlots /\ V \subseteq ValueSlots
    BY <1>0, <2>1, DoomedSlots DEF Owner
  <2>3. /\ Release(D, V, dirty)
        /\ observers' = Survivors(D, V)
        /\ stack' = Forget(Popped, V)
        /\ UNCHANGED <<observerGen, seen>>
    BY <1>7 DEF UnwindOwner
  <2> HIDE DEF D, V
  <2>4. SameCaptures(stack, stack')
    BY <2>1, <2>3, ForgetStack, SameCapturesTransitive
  <2> QED BY <2>2, <2>3, <2>4, ReleaseStep
<1>8. ASSUME UnwindUpdate PROVE Wakeups'
  <2>1. Top.slot \in ValueSlots /\ stack' = Popped /\ SameCaptures(stack, Popped)
    BY <1>0, <1>8 DEF UnwindUpdate, TopIs, Frame
  <2> QED BY <1>8, <2>1, ChangedStep DEF UnwindUpdate
<1> QED BY <1>1, <1>2, <1>3, <1>4, <1>5, <1>6, <1>7, <1>8 DEF System

(* Scope::new has no registration to wake.                                 *)
LEMMA InitWakeups == Init => Wakeups
  BY DEF Init, Wakeups, SubscriptionsMatch, NoLostUpdate, FreeObserversDead, Live,
         NoObserver

(* Steps that change nothing lose no update.                               *)
LEMMA StutterWakeups == Wakeups /\ UNCHANGED vars => Wakeups'
  BY DEF Wakeups, SubscriptionsMatch, NoLostUpdate, FreeObserversDead, Live, Current,
         Running, vars

(* The inductive invariant: the types, the agreement of the two halves of  *)
(* the subscription relation, free slots without registrations, and no     *)
(* update lost by changed(), Capture::drop or a disposal.                  *)
THEOREM WakeupInvariant == Spec => []IInv
<1>1. Init => IInv
  BY InitTypes, InitWakeups DEF IInv
<1>2. IInv /\ [Next]_vars => IInv'
  BY UserTypes, SystemTypes, StutterTypes, UserWakeups, SystemWakeups, StutterWakeups
  DEF IInv, Next
<1> QED BY <1>1, <1>2, PTL DEF Spec

(* A slot wakes exactly the live reactions that list it as a dependency,   *)
(* whatever Capture::drop, dispose_observer and ReactiveOwner::drop did.   *)
THEOREM SubscriptionsAgree == Spec => []SubscriptionsMatch
<1>1. IInv => SubscriptionsMatch
  BY DEF IInv, Wakeups
<1> QED BY <1>1, WakeupInvariant, PTL

(* changed() and Capture::drop lose no update: a registered reaction with  *)
(* a stale input is scheduled or running, after any nesting of reactions,  *)
(* batches, disposals and panics.                                          *)
THEOREM UpdatesReachReactions == Spec => []NoLostUpdate
<1>1. IInv => NoLostUpdate
  BY DEF IInv, Wakeups
<1> QED BY <1>1, WakeupInvariant, PTL

-----------------------------------------------------------------------------
(* Guards nest.                                                            *)

(* A callback is above the owner of its evaluation, that above the guard   *)
(* evaluate() was called under, and a flush is the first guard that keeps  *)
(* a flush from starting.                                                  *)
Nested(stk) ==
  \A i \in DOMAIN stk :
    /\ stk[i].type = "capture" =>
         /\ i - 1 \in DOMAIN stk
         /\ stk[i - 1].type = "run"
         /\ stk[i - 1].slot = stk[i].slot /\ stk[i - 1].gen = stk[i].gen
    /\ stk[i].type = "run" =>
         i - 1 \in DOMAIN stk /\ stk[i - 1].type \in {"install", "flush"}
    /\ stk[i].type = "flush" =>
         \A j \in DOMAIN stk : j < i => stk[j].type \notin {"batch", "install", "flush"}

(* No registration is evaluated by two guards at a time, nor before it is  *)
(* made.                                                                   *)
Entered(stk, gens) ==
  \A i \in DOMAIN stk :
    stk[i].type = "run" =>
      /\ stk[i].gen <= gens[stk[i].slot]
      /\ \A j \in DOMAIN stk :
           /\ stk[j].type = "run"
           /\ stk[j].slot = stk[i].slot /\ stk[j].gen = stk[i].gen
           => j = i

Orderly(stk, gens) == Nested(stk) /\ Entered(stk, gens)

(* Two stacks of the same guards, whatever the captures have read and the  *)
(* owners own.                                                             *)
SameGuards(s, t) ==
  /\ Len(t) = Len(s)
  /\ \A i \in 1 .. Len(s) : /\ t[i].type = s[i].type
                            /\ t[i].slot = s[i].slot
                            /\ t[i].gen = s[i].gen

(* The domain of a stack.                                                  *)
LEMMA Depth ==
  ASSUME NEW s \in Seq(Frame)
  PROVE  /\ Len(s) \in Nat /\ DOMAIN s = 1 .. Len(s)
         /\ \A i \in DOMAIN s : s[i] \in Frame
  OBVIOUS

(* What captures read and owners own does not change how guards nest.      *)
LEMMA SameOrder ==
  ASSUME NEW s \in Seq(Frame), NEW t \in Seq(Frame), SameGuards(s, t), NEW gens,
         Orderly(s, gens)
  PROVE  Orderly(t, gens) /\ (Deferred(t) <=> Deferred(s))
<1>1. DOMAIN t = DOMAIN s /\ DOMAIN s = 1 .. Len(s) /\ Len(s) \in Nat
  BY Depth DEF SameGuards
<1>2. \A i \in DOMAIN s : /\ t[i].type = s[i].type
                          /\ t[i].slot = s[i].slot
                          /\ t[i].gen = s[i].gen
  BY <1>1 DEF SameGuards
<1>3. Nested(t)
  BY <1>1, <1>2 DEF Orderly, Nested
<1>4. Entered(t, gens)
  BY <1>1, <1>2 DEF Orderly, Entered
<1>5. Deferred(t) <=> Deferred(s)
  BY <1>1, <1>2 DEF Deferred
<1> QED BY <1>3, <1>4, <1>5 DEF Orderly

(* Generations that grow keep every evaluation one of a registration made. *)
LEMMA LaterGenerations ==
  ASSUME NEW s \in Seq(Frame), NEW g \in [ObserverSlots -> Int],
         NEW h \in [ObserverSlots -> Int],
         \A o \in ObserverSlots : g[o] <= h[o], Orderly(s, g)
  PROVE  Orderly(s, h)
<1>1. ASSUME NEW i \in DOMAIN s, s[i].type = "run"
      PROVE  s[i].gen <= h[s[i].slot]
  <2>1. s[i].slot \in ObserverSlots /\ s[i].gen \in Int
    BY <1>1, Depth DEF Frame
  <2>2. s[i].gen <= g[s[i].slot]
    BY <1>1 DEF Orderly, Entered
  <2> QED BY <2>1, <2>2
<1> QED BY <1>1 DEF Orderly, Entered

(* The guards below the innermost nest as before.                          *)
LEMMA PoppedOrder ==
  ASSUME stack \in Seq(Frame), stack # <<>>, NEW gens, Orderly(stack, gens)
  PROVE  /\ Orderly(Popped, gens)
         /\ Top.type \in {"capture", "run"} => Deferred(Popped)
         /\ Top.type \in {"region", "update"} /\ Deferred(stack) => Deferred(Popped)
<1>1. /\ Len(stack) \in Nat \ {0} /\ DOMAIN stack = 1 .. Len(stack)
      /\ DOMAIN Popped = 1 .. (Len(stack) - 1)
      /\ \A i \in DOMAIN Popped : i \in DOMAIN stack /\ Popped[i] = stack[i]
  BY DEF Popped
<1>2. \A i \in DOMAIN Popped : i - 1 \in DOMAIN stack => i - 1 \in DOMAIN Popped
  BY <1>1
<1>3. Nested(Popped)
  BY <1>1, <1>2 DEF Orderly, Nested
<1>4. Entered(Popped, gens)
  BY <1>1 DEF Orderly, Entered
<1>5. ASSUME Top.type \in {"capture", "run"} PROVE Deferred(Popped)
  <2>1. PICK i \in DOMAIN stack : stack[i].type = "run" /\ i <= Len(stack)
    BY <1>1, <1>5 DEF Top, Orderly, Nested
  <2>2. i - 1 \in DOMAIN stack /\ stack[i - 1].type \in {"install", "flush"}
    BY <2>1 DEF Orderly, Nested
  <2>3. i - 1 \in DOMAIN Popped
    BY <1>1, <2>1, <2>2
  <2> QED BY <1>1, <2>2, <2>3 DEF Deferred
<1>6. ASSUME Top.type \in {"region", "update"}, Deferred(stack) PROVE Deferred(Popped)
  <2>1. PICK i \in DOMAIN stack : stack[i].type \in {"batch", "install", "flush"}
    BY <1>6 DEF Deferred
  <2>2. i # Len(stack)
    BY <1>6, <2>1 DEF Top
  <2>3. i \in DOMAIN Popped
    BY <1>1, <2>1, <2>2
  <2> QED BY <1>1, <2>1, <2>3 DEF Deferred
<1> QED BY <1>3, <1>4, <1>5, <1>6 DEF Orderly

(* A guard that starts no evaluation, and no flush inside another or a     *)
(* batch, may be pushed anywhere.                                          *)
LEMMA AppendedOrder ==
  ASSUME NEW s \in Seq(Frame), NEW f \in Frame, NEW gens, Orderly(s, gens),
         f.type \notin {"capture", "run"},
         f.type = "flush" => ~Deferred(s)
  PROVE  /\ Orderly(Append(s, f), gens)
         /\ Deferred(s) => Deferred(Append(s, f))
         /\ f.type \in {"batch", "install", "flush"} => Deferred(Append(s, f))
<1> DEFINE t == Append(s, f)
           n == Len(s) + 1
<1>1. /\ Len(s) \in Nat /\ DOMAIN s = 1 .. Len(s) /\ DOMAIN t = 1 .. n
      /\ t[n] = f /\ \A i \in DOMAIN s : t[i] = s[i]
  OBVIOUS
<1> HIDE DEF t
<1>2. \A i \in DOMAIN t : i \in DOMAIN s \/ i = n
  BY <1>1
<1>3. DOMAIN s \subseteq DOMAIN t /\ n \in DOMAIN t /\ n \notin DOMAIN s
  BY <1>1
<1>4. Nested(t)
  <2> SUFFICES ASSUME NEW i \in DOMAIN t
               PROVE  /\ t[i].type = "capture" =>
                           /\ i - 1 \in DOMAIN t
                           /\ t[i - 1].type = "run"
                           /\ t[i - 1].slot = t[i].slot /\ t[i - 1].gen = t[i].gen
                      /\ t[i].type = "run" =>
                           i - 1 \in DOMAIN t /\ t[i - 1].type \in {"install", "flush"}
                      /\ t[i].type = "flush" =>
                           \A j \in DOMAIN t :
                             j < i => t[j].type \notin {"batch", "install", "flush"}
    BY DEF Nested
  <2>1. CASE i = n
    <3>1. t[i] = f
      BY <1>1, <2>1
    <3>2. ASSUME f.type = "flush", NEW j \in DOMAIN t, j < i
          PROVE  t[j].type \notin {"batch", "install", "flush"}
      <4>1. j \in DOMAIN s
        BY <1>2, <2>1, <3>2
      <4> QED BY <1>1, <3>2, <4>1 DEF Deferred
    <3> QED BY <3>1, <3>2
  <2>2. CASE i \in DOMAIN s
    <3>1. t[i] = s[i] /\ i < n
      BY <1>1, <2>2
    <3>2. ASSUME NEW j \in DOMAIN t, j < i PROVE j \in DOMAIN s /\ t[j] = s[j]
      BY <1>1, <1>2, <2>2, <3>2
    <3>3. i - 1 \in DOMAIN s => i - 1 \in DOMAIN t /\ t[i - 1] = s[i - 1]
      BY <1>1, <1>3
    <3> QED BY <2>2, <3>1, <3>2, <3>3 DEF Orderly, Nested
  <2> QED BY <1>2, <2>1, <2>2
<1>5. Entered(t, gens)
  BY <1>1, <1>2, <1>3 DEF Orderly, Entered
<1>6. Deferred(s) => Deferred(t)
  BY <1>1, <1>3 DEF Deferred
<1>7. f.type \in {"batch", "install", "flush"} => Deferred(t)
  BY <1>1, <1>3 DEF Deferred
<1> QED BY <1>4, <1>5, <1>6, <1>7 DEF Orderly, t

(* flush(): afterwards something is there that lets no other flush start.  *)
LEMMA FlushedOrder ==
  ASSUME NEW s \in Seq(Frame), NEW gens, Orderly(s, gens)
  PROVE  Orderly(WithFlush(s), gens) /\ Deferred(WithFlush(s))
<1>1. Guard("flush") \in Frame /\ Guard("flush").type = "flush"
  BY GuardFrame DEF Guard, FrameOf
<1> QED BY <1>1, AppendedOrder DEF WithFlush

(* The positions of a stack with two guards more.                          *)
LEMMA TwoMore ==
  ASSUME NEW s \in Seq(Frame), NEW e \in Seq(Frame), Len(e) = 2
  PROVE  /\ DOMAIN (s \o e) = 1 .. (Len(s) + 2)
         /\ \A i \in DOMAIN s : (s \o e)[i] = s[i]
         /\ (s \o e)[Len(s) + 1] = e[1]
         /\ (s \o e)[Len(s) + 2] = e[2]
<1>1. Len(s) \in Nat /\ DOMAIN s = 1 .. Len(s) /\ Len(s \o e) = Len(s) + 2
  <2>1. Len(s \o e) = Len(s) + Len(e)
    BY ConcatProperties
  <2> QED BY <2>1
<1>2. \A i \in DOMAIN s : (s \o e)[i] = s[i]
  OBVIOUS
<1>3. (s \o e)[Len(s) + 1] = e[1] /\ (s \o e)[Len(s) + 2] = e[2]
  BY <1>1, ConcatProperties
<1>4. s \o e \in Seq(Frame)
  OBVIOUS
<1> QED BY <1>1, <1>2, <1>3, <1>4

(* evaluate(), of a registration that no guard evaluates.                  *)
LEMMA EvaluationOrder ==
  ASSUME NEW s \in Seq(Frame), NEW gens, Orderly(s, gens),
         s # <<>>, s[Len(s)].type \in {"install", "flush"},
         NEW o \in ObserverSlots, NEW g \in Int, NEW output \in Handle \cup {NoHandle},
         g <= gens[o],
         \A i \in DOMAIN s : s[i].type = "run" /\ s[i].slot = o => s[i].gen # g
  PROVE  /\ Orderly(s \o Evaluation(o, g, output), gens)
         /\ Deferred(s \o Evaluation(o, g, output))
<1> DEFINE e == Evaluation(o, g, output)
           t == s \o e
           n == Len(s)
<1>1. /\ n \in Nat \ {0} /\ DOMAIN s = 1 .. n /\ n \in DOMAIN s
  OBVIOUS
<1>2. /\ Len(e) = 2 /\ e[1].type = "run" /\ e[1].slot = o /\ e[1].gen = g
      /\ e[2].type = "capture" /\ e[2].slot = o /\ e[2].gen = g
      /\ e \in Seq(Frame)
  <2>1. e \in Seq(Frame)
    <3>1. /\ FrameOf("run", o, g, NoHandle) \in Frame
          /\ FrameOf("capture", o, g, output) \in Frame
      BY EvaluationFrames
    <3> QED BY <3>1 DEF Evaluation
  <2> QED BY <2>1 DEF Evaluation, FrameOf
<1> HIDE DEF e
<1>3. /\ DOMAIN t = 1 .. n + 2
      /\ \A i \in DOMAIN s : t[i] = s[i]
      /\ t[n + 1] = e[1] /\ t[n + 2] = e[2]
  <2>1. Len(e) = 2 /\ e \in Seq(Frame)
    BY <1>2
  <2> QED BY <2>1, TwoMore
<1> HIDE DEF t
<1>4. /\ \A i \in DOMAIN t : i \in DOMAIN s \/ i = n + 1 \/ i = n + 2
      /\ DOMAIN s \subseteq DOMAIN t
      /\ n + 1 \in DOMAIN t /\ n + 2 \in DOMAIN t
      /\ n + 1 \notin DOMAIN s /\ n + 2 \notin DOMAIN s
  BY <1>1, <1>3
<1>5. Nested(t)
  <2> SUFFICES ASSUME NEW i \in DOMAIN t
               PROVE  /\ t[i].type = "capture" =>
                           /\ i - 1 \in DOMAIN t
                           /\ t[i - 1].type = "run"
                           /\ t[i - 1].slot = t[i].slot /\ t[i - 1].gen = t[i].gen
                      /\ t[i].type = "run" =>
                           i - 1 \in DOMAIN t /\ t[i - 1].type \in {"install", "flush"}
                      /\ t[i].type = "flush" =>
                           \A j \in DOMAIN t :
                             j < i => t[j].type \notin {"batch", "install", "flush"}
    BY DEF Nested
  <2>1. CASE i = n + 2
    <3>1. i - 1 = n + 1
      BY <1>1, <2>1
    <3> QED BY <1>2, <1>3, <1>4, <2>1, <3>1
  <2>2. CASE i = n + 1
    <3>1. i - 1 = n
      BY <1>1, <2>2
    <3> QED BY <1>1, <1>2, <1>3, <1>4, <2>2, <3>1
  <2>3. CASE i \in DOMAIN s
    <3>1. t[i] = s[i]
      BY <1>3, <2>3
    <3>2. ASSUME NEW j \in DOMAIN t, j < i PROVE j \in DOMAIN s /\ t[j] = s[j]
      BY <1>1, <1>3, <1>4, <2>3, <3>2
    <3>3. i - 1 \in DOMAIN s => i - 1 \in DOMAIN t /\ t[i - 1] = s[i - 1]
      BY <1>3, <1>4
    <3> QED BY <2>3, <3>1, <3>2, <3>3 DEF Orderly, Nested
  <2> QED BY <1>4, <2>1, <2>2, <2>3
<1>6. Entered(t, gens)
  <2> SUFFICES ASSUME NEW i \in DOMAIN t, t[i].type = "run"
               PROVE  /\ t[i].gen <= gens[t[i].slot]
                      /\ \A j \in DOMAIN t :
                           /\ t[j].type = "run"
                           /\ t[j].slot = t[i].slot /\ t[j].gen = t[i].gen
                           => j = i
    BY DEF Entered
  <2>1. \A j \in DOMAIN s : t[j].type = "run" /\ t[j].slot = o => t[j].gen # g
    BY <1>3
  <2>2. CASE i \in DOMAIN s
    BY <1>2, <1>3, <1>4, <2>1, <2>2 DEF Orderly, Entered
  <2>3. CASE i = n + 1
    BY <1>2, <1>3, <1>4, <2>1, <2>3
  <2> QED BY <1>2, <1>3, <1>4, <2>2, <2>3
<1>7. Deferred(t)
  BY <1>1, <1>3, <1>4 DEF Deferred
<1> QED BY <1>5, <1>6, <1>7 DEF Orderly, t, e

(* ReactiveOwner::drop, a registration with an owner and a read leave the  *)
(* guards as they are.                                                     *)
LEMMA ForgetGuards ==
  ASSUME NEW s \in Seq(Frame), NEW V
  PROVE  Forget(s, V) \in Seq(Frame) /\ SameGuards(s, Forget(s, V))
<1>1. Forget(s, V) \in Seq(Frame)
  BY ForgetStack
<1> DEFINE rd(i) == [v \in ValueSlots |-> IF v \in V THEN Unread ELSE s[i].reads[v]]
           fr(i) == [s[i] EXCEPT !.reads = rd(i)]
<1>2. DOMAIN s = 1 .. Len(s) /\ Len(s) \in Nat
  OBVIOUS
<1>3. ASSUME NEW i \in DOMAIN s
      PROVE  fr(i).type = s[i].type /\ fr(i).slot = s[i].slot /\ fr(i).gen = s[i].gen
  BY <1>2 DEF Frame
<1>4. Forget(s, V) = [i \in 1 .. Len(s) |-> fr(i)]
  BY <1>2 DEF Forget
<1> HIDE DEF fr
<1>5. Len(Forget(s, V)) = Len(s)
  BY <1>2, <1>4
<1> QED BY <1>1, <1>2, <1>3, <1>4, <1>5 DEF SameGuards

LEMMA WithOwnedGuards ==
  ASSUME stack \in Seq(Frame),
         NEW V \in SUBSET ValueSlots,
         NEW E \in SUBSET [slot : ObserverSlots, gen : Nat]
  PROVE  WithOwned(V, E) \in Seq(Frame) /\ SameGuards(stack, WithOwned(V, E))
<1>1. WithOwned(V, E) \in Seq(Frame)
  BY WithOwnedStack
<1> DEFINE own(i) == [values |-> stack[i].owned.values \cup V,
                      effects |-> stack[i].owned.effects \cup E]
           fr(i) == IF Innermost(i, {"run", "region"})
                    THEN [stack[i] EXCEPT !.owned = own(i)] ELSE stack[i]
<1>2. DOMAIN stack = 1 .. Len(stack) /\ Len(stack) \in Nat
  OBVIOUS
<1>3. ASSUME NEW i \in DOMAIN stack
      PROVE  /\ fr(i).type = stack[i].type
             /\ fr(i).slot = stack[i].slot
             /\ fr(i).gen = stack[i].gen
  <2>1. stack[i] \in Frame
    BY <1>2
  <2> HIDE DEF own
  <2> QED BY <2>1 DEF Frame
<1>4. WithOwned(V, E) = [i \in 1 .. Len(stack) |-> fr(i)]
  BY <1>2 DEF WithOwned
<1> HIDE DEF fr
<1>5. Len(WithOwned(V, E)) = Len(stack)
  BY <1>2, <1>4
<1> QED BY <1>1, <1>2, <1>3, <1>4, <1>5 DEF SameGuards

(* Outside a batch and a flush nothing is pending, unless a panic is on    *)
(* its way up or has cut a flush short.                                    *)
Undisturbed ==
  /\ unwinding => interrupted
  /\ dirty # {} => interrupted \/ Deferred(stack)

Settling == Orderly(stack, observerGen) /\ Undisturbed

SInv == IInv /\ Settling

(* Steps that leave the guards, and what is pending, as they are.          *)
LEMMA SettledSame ==
  ASSUME SInv, stack' \in Seq(Frame), SameGuards(stack, stack'),
         dirty' \subseteq dirty, UNCHANGED observerGen,
         \/ UNCHANGED <<unwinding, interrupted>>
         \/ interrupted'
         \/ ~unwinding' /\ UNCHANGED interrupted
  PROVE  Settling'
<1>1. Orderly(stack', observerGen) /\ (Deferred(stack') <=> Deferred(stack))
  BY SameOrder DEF SInv, IInv, TypeOK, Settling
<1>2. Orderly(stack, observerGen)'
  BY <1>1
<1>3. Deferred(stack)' <=> Deferred(stack)
  BY <1>1
<1>4. Undisturbed'
  BY <1>3 DEF SInv, Settling, Undisturbed
<1> QED BY <1>2, <1>4 DEF Settling

(* Steps that leave a stack on which no flush may start.                   *)
LEMMA SettledDeferred ==
  ASSUME SInv, Orderly(stack', observerGen'), Deferred(stack'),
         UNCHANGED <<unwinding, interrupted>>
  PROVE  Settling'
<1>1. Orderly(stack, observerGen)' /\ Deferred(stack)'
  OBVIOUS
<1> QED BY <1>1 DEF SInv, Settling, Undisturbed

(* Steps that push a guard of user code or drop one, and schedule nothing. *)
LEMMA SettledMoved ==
  ASSUME SInv, Orderly(stack', observerGen'), Deferred(stack) => Deferred(stack'),
         dirty' \subseteq dirty, UNCHANGED <<unwinding, interrupted>>
  PROVE  Settling'
<1>1. Orderly(stack, observerGen)' /\ (Deferred(stack) => Deferred(stack)')
  OBVIOUS
<1> QED BY <1>1 DEF SInv, Settling, Undisturbed

(* Steps of an unwinding stack, of which the innermost guard goes.         *)
LEMMA SettledUnwinding ==
  ASSUME SInv, Orderly(stack', observerGen'), unwinding,
         UNCHANGED <<unwinding, interrupted>>
  PROVE  Settling'
<1>1. Orderly(stack, observerGen)'
  OBVIOUS
<1> QED BY <1>1 DEF SInv, Settling, Undisturbed

(* A registration: the new reaction is evaluated under a batch.            *)
LEMMA SettledRegister ==
  ASSUME SInv, NEW o \in ObserverSlots, NEW kind \in {"effect", "derived"},
         NEW output \in Handle \cup {NoHandle}, NEW V \in SUBSET ValueSlots,
         Register(o, kind, output, V)
  PROVE  Settling'
<1> DEFINE gen == NextGen(observerGen[o])
           E == {[slot |-> o, gen |-> gen]}
           base == WithOwned(V, E)
           under == Append(base, Guard("install"))
<1>0. /\ stack \in Seq(Frame) /\ observerGen \in [ObserverSlots -> Nat \cup {-1}]
      /\ Orderly(stack, observerGen)
  BY DEF SInv, IInv, TypeOK, Settling
<1>1. /\ observerGen' = [observerGen EXCEPT ![o] = gen]
      /\ stack' = base \o <<Guard("install")>> \o Evaluation(o, gen, output)
      /\ UNCHANGED <<unwinding, interrupted>>
  BY DEF Register
<1>2. gen \in Nat /\ observerGen[o] \in Int /\ observerGen[o] < gen
  BY <1>0 DEF NextGen
<1>3. base \in Seq(Frame) /\ SameGuards(stack, base)
  <2>1. E \in SUBSET [slot : ObserverSlots, gen : Nat]
    BY <1>2
  <2> HIDE DEF E
  <2> QED BY <1>0, <2>1, WithOwnedGuards
<1> HIDE DEF gen, base
<1>4. /\ observerGen' \in [ObserverSlots -> Nat \cup {-1}]
      /\ observerGen'[o] = gen
      /\ \A p \in ObserverSlots : observerGen[p] <= observerGen'[p]
  <2>1. /\ observerGen'[o] = gen
        /\ \A p \in ObserverSlots : observerGen'[p] = IF p = o THEN gen ELSE observerGen[p]
        /\ DOMAIN observerGen' = ObserverSlots
        /\ observerGen' = [p \in ObserverSlots |-> IF p = o THEN gen ELSE observerGen[p]]
    BY <1>0, <1>1
  <2>2. \A p \in ObserverSlots : observerGen[p] \in Nat \cup {-1}
    BY <1>0
  <2> QED BY <1>2, <2>1, <2>2
<1>5. Orderly(base, observerGen)
  BY <1>0, <1>3, SameOrder
<1>6. Guard("install") \in Frame /\ Guard("install").type = "install"
  BY GuardFrame DEF Guard, FrameOf
<1>7. /\ under \in Seq(Frame) /\ Orderly(under, observerGen)
      /\ under # <<>> /\ under[Len(under)] = Guard("install")
  BY <1>3, <1>5, <1>6, AppendedOrder, AppendedStack
<1>8. \A i \in DOMAIN under : under[i].type = "run" /\ under[i].slot = o => under[i].gen # gen
  <2> SUFFICES ASSUME NEW i \in DOMAIN under, under[i].type = "run", under[i].slot = o
               PROVE  under[i].gen # gen
    OBVIOUS
  <2>1. under[i].gen <= observerGen[o]
    BY <1>7 DEF Orderly, Entered
  <2>2. under[i].gen \in Int
    BY <1>7, Depth DEF Frame
  <2> HIDE DEF under
  <2> QED BY <1>2, <2>1, <2>2
<1>9. base \o <<Guard("install")>> = under
  BY <1>3, <1>6, AppendIsConcat
<1> HIDE DEF under
<1>10. Orderly(under, observerGen')
  <2> DEFINE g == observerGen
             h == observerGen'
  <2>1. g \in [ObserverSlots -> Int] /\ h \in [ObserverSlots -> Int]
    BY <1>0, <1>4
  <2> QED BY <1>4, <1>7, <2>1, LaterGenerations
<1>11. /\ Orderly(under \o Evaluation(o, gen, output), observerGen')
       /\ Deferred(under \o Evaluation(o, gen, output))
  <2>1. gen \in Int /\ gen <= observerGen'[o]
    BY <1>2, <1>4
  <2> QED BY <1>6, <1>7, <1>8, <1>10, <2>1, EvaluationOrder
<1> QED BY <1>1, <1>9, <1>11, SettledDeferred

(* The steps of user code.                                                 *)
LEMMA UserSettles ==
  ASSUME SInv, User
  PROVE  Settling'
<1> USE DEF valueTable, observerTable
<1>0. /\ TypeOK /\ stack \in Seq(Frame) /\ Orderly(stack, observerGen)
      /\ stack # <<>> => /\ Top \in Frame /\ Popped \in Seq(Frame)
                         /\ Orderly(Popped, observerGen)
                         /\ Top.type \in {"capture", "run"} => Deferred(Popped)
                         /\ Top.type \in {"region", "update"} /\ Deferred(stack)
                              => Deferred(Popped)
  BY PoppedStack, PoppedOrder DEF SInv, IInv, TypeOK, Settling
<1>1. ASSUME NEW v \in ValueSlots, CreateSignal(v) PROVE Settling'
  <2>1. WithOwned({v}, {}) \in Seq(Frame) /\ SameGuards(stack, WithOwned({v}, {}))
    BY <1>0, WithOwnedGuards
  <2>2. stack' = WithOwned({v}, {}) /\ UNCHANGED <<observerGen, dirty, unwinding, interrupted>>
    BY <1>1 DEF CreateSignal
  <2> QED BY <2>1, <2>2, SettledSame
<1>2. ASSUME NEW v \in ValueSlots, Read(v) PROVE Settling'
  <2>1. PICK i \in DOMAIN stack : stack' = [stack EXCEPT ![i].reads[v] = revisions[v]]
    BY <1>2 DEF Read
  <2>2. stack' \in Seq(Frame)
    BY <1>2, UserTypes DEF User, SInv, IInv, TypeOK
  <2>3. DOMAIN stack = 1 .. Len(stack) /\ Len(stack) \in Nat
    BY <1>0, Depth
  <2>4. stack' = [j \in 1 .. Len(stack) |->
                    IF j = i THEN [stack[i] EXCEPT !.reads[v] = revisions[v]] ELSE stack[j]]
    BY <1>0, <2>1, <2>3
  <2>5. Len(stack') = Len(stack)
    BY <2>3, <2>4
  <2>6. stack[i] \in Frame
    BY <1>0, Depth
  <2>7. SameGuards(stack, stack')
    BY <2>3, <2>4, <2>5, <2>6 DEF SameGuards, Frame
  <2>8. UNCHANGED <<observerGen, dirty, unwinding, interrupted>>
    BY <1>2 DEF Read
  <2> QED BY <2>2, <2>7, <2>8, SettledSame
<1>3. ASSUME NEW v \in ValueSlots, Write(v) PROVE Settling'
  BY <1>0, <1>3, FlushedOrder, SettledDeferred DEF Write
<1>4. ASSUME NEW v \in ValueSlots, BeginUpdate(v) PROVE Settling'
  <2> DEFINE f == FrameOf("update", v, valueGen[v], NoHandle)
  <2>1. f \in Frame
    BY <1>0, FrameTypes, ConstantsAssumption DEF FrameType, TypeOK
  <2>2. f.type = "update"
    BY DEF FrameOf
  <2>3. stack' = Append(stack, f) /\ UNCHANGED <<observerGen, dirty, unwinding, interrupted>>
    BY <1>4 DEF BeginUpdate
  <2> HIDE DEF f
  <2> QED BY <1>0, <2>1, <2>2, <2>3, AppendedOrder, SettledMoved
<1>5. ASSUME EndUpdate PROVE Settling'
  <2>1. Orderly(Popped, observerGen) /\ Popped \in Seq(Frame)
    BY <1>0, <1>5 DEF EndUpdate, TopIs
  <2> QED BY <1>5, <2>1, FlushedOrder, SettledDeferred DEF EndUpdate
<1>6. ASSUME NEW o \in ObserverSlots, CreateEffect(o) PROVE Settling'
  <2>1. Register(o, "effect", NoHandle, {})
    BY <1>6 DEF CreateEffect
  <2>2. NoHandle \in Handle \cup {NoHandle} /\ {} \in SUBSET ValueSlots
    OBVIOUS
  <2> QED BY <2>1, <2>2, SettledRegister
<1>7. ASSUME NEW o \in ObserverSlots, Dispose(o) PROVE Settling'
  <2> DEFINE V == DoomedValues(Doomed({o}))
  <2>1. /\ dirty' \subseteq dirty /\ stack' = Forget(stack, V)
        /\ UNCHANGED <<observerGen, unwinding, interrupted>>
    BY <1>7 DEF Dispose, Release
  <2> HIDE DEF V
  <2> QED BY <1>0, <2>1, ForgetGuards, SettledSame
<1>8. ASSUME NEW o \in ObserverSlots, NEW v \in ValueSlots, CreateDerived(o, v)
      PROVE  Settling'
  <2>1. [slot |-> v, gen |-> NextGen(valueGen[v])] \in Handle
    BY <1>0, AllocatedGeneration DEF Handle
  <2>2. Register(o, "derived", [slot |-> v, gen |-> NextGen(valueGen[v])], {v})
    BY <1>8 DEF CreateDerived
  <2> QED BY <2>1, <2>2, SettledRegister
<1>9. ASSUME BeginBatch \/ BeginRegion PROVE Settling'
  <2>1. \A type \in {"batch", "region"} : Guard(type) \in Frame /\ Guard(type).type = type
    BY GuardFrame DEF Guard, FrameOf
  <2>2. /\ \E type \in {"batch", "region"} : stack' = Append(stack, Guard(type))
        /\ UNCHANGED <<observerGen, dirty, unwinding, interrupted>>
    BY <1>9 DEF BeginBatch, BeginRegion
  <2> QED BY <1>0, <2>1, <2>2, AppendedOrder, SettledMoved
<1>10. ASSUME HostFlush PROVE Settling'
  <2>1. Guard("flush") \in Frame /\ Guard("flush").type = "flush"
    BY GuardFrame DEF Guard, FrameOf
  <2> QED BY <1>0, <1>10, <2>1, AppendedOrder, SettledDeferred DEF HostFlush
<1>11. ASSUME EndBatch PROVE Settling'
  <2>1. Orderly(Popped, observerGen) /\ Popped \in Seq(Frame)
    BY <1>0, <1>11 DEF EndBatch, LeaveBatch, TopIs
  <2> QED BY <1>11, <2>1, FlushedOrder, SettledDeferred DEF EndBatch, LeaveBatch
<1>12. ASSUME EndRegion PROVE Settling'
  BY <1>0, <1>12, SettledMoved DEF EndRegion, TopIs
<1>13. ASSUME NEW owner \in held, DropHeld(owner) PROVE Settling'
  <2> DEFINE V == DoomedValues(Doomed(OwnedEffects(owner))) \cup owner.values
  <2>1. /\ dirty' \subseteq dirty /\ stack' = Forget(stack, V)
        /\ UNCHANGED <<observerGen, unwinding, interrupted>>
    BY <1>13 DEF DropHeld, Release
  <2> HIDE DEF V
  <2> QED BY <1>0, <2>1, ForgetGuards, SettledSame
<1>14. ASSUME ReturnUnchanged \/ ReturnChanged PROVE Settling'
  <2>1. /\ stack' = Popped /\ TopIs("capture")
        /\ UNCHANGED <<observerGen, unwinding, interrupted>>
    BY <1>14 DEF ReturnUnchanged, ReturnChanged
  <2>2. Orderly(Popped, observerGen) /\ Deferred(Popped)
    BY <1>0, <2>1 DEF TopIs
  <2> QED BY <2>1, <2>2, SettledDeferred
<1>15. ASSUME Panic PROVE Settling'
  BY <1>15 DEF Panic, SInv, Settling, Undisturbed
<1> QED BY <1>1, <1>2, <1>3, <1>4, <1>5, <1>6, <1>7, <1>8, <1>9, <1>10, <1>11,
           <1>12, <1>13, <1>14, <1>15 DEF User

(* The steps of the library itself, panics included.                       *)
LEMMA SystemSettles ==
  ASSUME SInv, System
  PROVE  Settling'
<1> USE DEF valueTable, observerTable
<1>0. /\ TypeOK /\ stack \in Seq(Frame) /\ Orderly(stack, observerGen)
      /\ stack # <<>> => /\ Top \in Frame /\ Popped \in Seq(Frame)
                         /\ Orderly(Popped, observerGen)
                         /\ Top.type \in {"capture", "run"} => Deferred(Popped)
  BY PoppedStack, PoppedOrder DEF SInv, IInv, TypeOK, Settling
<1>1. ASSUME FinishRun PROVE Settling'
  <2>1. /\ stack # <<>> /\ Top.type = "run" /\ UNCHANGED <<observerGen, unwinding, interrupted>>
        /\ stack' = Popped \/ \E V : stack' = Forget(Popped, V)
    BY <1>1 DEF FinishRun, TopIs
  <2>2. Orderly(Popped, observerGen) /\ Deferred(Popped) /\ Popped \in Seq(Frame)
    BY <1>0, <2>1
  <2>3. Orderly(stack', observerGen) /\ Deferred(stack')
    BY <2>1, <2>2, ForgetGuards, SameOrder
  <2> QED BY <2>1, <2>3, SettledDeferred
<1>2. ASSUME LeaveInstall PROVE Settling'
  <2>1. Orderly(Popped, observerGen) /\ Popped \in Seq(Frame)
    BY <1>0, <1>2 DEF LeaveInstall, LeaveBatch, TopIs
  <2> QED BY <1>2, <2>1, FlushedOrder, SettledDeferred DEF LeaveInstall, LeaveBatch
<1>3. ASSUME NEW o \in ObserverSlots, FlushTurn(o) PROVE Settling'
  <2> DEFINE V == DoomedValues(Doomed(OwnedEffects(observers[o].owner)))
                    \cup observers[o].owner.values
             flush == [Top EXCEPT !.turns = @ + 1]
             base == Forget(Popped, V) \o <<flush>>
             eval == Evaluation(o, observerGen[o], observers[o].output)
  <2>1. /\ stack # <<>> /\ Top.type = "flush" /\ stack' = base \o eval
        /\ UNCHANGED <<observerGen, unwinding, interrupted>>
    BY <1>3 DEF FlushTurn, TopIs
  <2>2. Top \in Frame /\ Popped \in Seq(Frame) /\ stack[Len(stack)] = Top
    BY <1>0, <2>1 DEF Top
  <2>3. flush \in Frame /\ flush.type = "flush" /\ flush.slot = Top.slot /\ flush.gen = Top.gen
    <3>1. Top.turns + 1 \in Nat /\ flush = [Top EXCEPT !.turns = Top.turns + 1]
      BY <2>2 DEF Frame
    <3> QED BY <2>1, <2>2, <3>1 DEF Frame
  <2>4. Forget(Popped, V) \in Seq(Frame) /\ SameGuards(Popped, Forget(Popped, V))
    BY <2>2, ForgetGuards
  <2>5. /\ observerGen[o] \in Int
        /\ observers[o].output \in Handle \cup {NoHandle}
    BY <1>0 DEF TypeOK, Observer
  <2> HIDE DEF V, flush
  <2>6. Len(stack) \in Nat \ {0} /\ Len(Popped) = Len(stack) - 1 /\ DOMAIN stack = 1 .. Len(stack)
        /\ \A i \in 1 .. (Len(stack) - 1) : Popped[i] = stack[i]
    BY <1>0, <2>1 DEF Popped
  <2>7. base = Append(Forget(Popped, V), flush) /\ base \in Seq(Frame)
    BY <2>3, <2>4, AppendIsConcat
  <2>8. /\ Len(base) = Len(stack) /\ base[Len(stack)] = flush
        /\ \A i \in 1 .. (Len(stack) - 1) : base[i] = Forget(Popped, V)[i]
    BY <2>3, <2>4, <2>6, <2>7 DEF SameGuards
  <2> HIDE DEF base
  <2>9. SameGuards(stack, base)
    <3> SUFFICES ASSUME NEW i \in 1 .. Len(stack)
                 PROVE  /\ base[i].type = stack[i].type
                        /\ base[i].slot = stack[i].slot /\ base[i].gen = stack[i].gen
      BY <2>8 DEF SameGuards
    <3>1. CASE i = Len(stack)
      BY <2>1, <2>2, <2>3, <2>8, <3>1
    <3>2. CASE i \in 1 .. (Len(stack) - 1)
      BY <2>4, <2>6, <2>8, <3>2 DEF SameGuards
    <3> QED BY <2>6, <3>1, <3>2
  <2>10. Orderly(base, observerGen)
    BY <1>0, <2>7, <2>9, SameOrder
  <2>11. base # <<>> /\ base[Len(base)].type = "flush"
    BY <2>3, <2>6, <2>7, <2>8
  <2>12. observerGen[o] <= observerGen[o]
    BY <2>5
  <2>13. \A i \in DOMAIN base : base[i].type # "run"
    <3> SUFFICES ASSUME NEW i \in DOMAIN base, base[i].type = "run" PROVE FALSE
      OBVIOUS
    <3>1. i - 1 \in DOMAIN base /\ base[i - 1].type \in {"install", "flush"}
      BY <2>10 DEF Orderly, Nested
    <3>2. /\ DOMAIN base = 1 .. Len(base) /\ Len(base) \in Nat
          /\ Len(base) \in DOMAIN base
      BY <2>7, <2>11, Depth
    <3>3. i - 1 < Len(base)
      BY <3>2
    <3> QED BY <2>10, <2>11, <3>1, <3>2, <3>3 DEF Orderly, Nested
  <2>14. Orderly(base \o eval, observerGen) /\ Deferred(base \o eval)
    BY <2>5, <2>7, <2>10, <2>11, <2>12, <2>13, EvaluationOrder
  <2> HIDE DEF eval
  <2> QED BY <2>1, <2>14, SettledDeferred
<1>4. ASSUME FlushOverrun PROVE Settling'
  BY <1>4 DEF FlushOverrun, SInv, Settling, Undisturbed
<1>5. ASSUME FlushDone PROVE Settling'
  <2>1. stack' = Popped /\ Orderly(Popped, observerGen)
        /\ dirty' = {} /\ ~unwinding' /\ UNCHANGED observerGen
    BY <1>0, <1>5 DEF FlushDone, TopIs
  <2>2. Orderly(stack, observerGen)'
    BY <2>1
  <2> QED BY <2>1, <2>2 DEF Settling, Undisturbed
<1>6. ASSUME UnwindGuard \/ UnwindCapture \/ UnwindUpdate PROVE Settling'
  <2>1. /\ stack # <<>> /\ stack' = Popped /\ unwinding
        /\ UNCHANGED <<observerGen, unwinding, interrupted>>
    BY <1>6 DEF UnwindGuard, UnwindCapture, UnwindUpdate, TopIs
  <2> QED BY <1>0, <2>1, SettledUnwinding
<1>7. ASSUME UnwindOwner PROVE Settling'
  <2>1. /\ stack # <<>> /\ unwinding /\ UNCHANGED <<observerGen, unwinding, interrupted>>
        /\ \E V : stack' = Forget(Popped, V)
    BY <1>7 DEF UnwindOwner, TopIs
  <2>2. Orderly(stack', observerGen)
    BY <1>0, <2>1, ForgetGuards, SameOrder
  <2> QED BY <2>1, <2>2, SettledUnwinding
<1>8. ASSUME Catch PROVE Settling'
  BY <1>8 DEF Catch, SInv, Settling, Undisturbed
<1> QED BY <1>1, <1>2, <1>3, <1>4, <1>5, <1>6, <1>7, <1>8 DEF System

(* Scope::new has no guard and nothing pending.                            *)
LEMMA InitSettles == Init => Settling
  BY DEF Init, Settling, Undisturbed, Orderly, Nested, Entered

LEMMA StutterSettles == Settling /\ UNCHANGED vars => Settling'
  BY DEF Settling, Undisturbed, vars

(* How the guards of reactive.rs nest, and what may be pending under them, *)
(* for any depth of the stack, besides what WakeupInvariant states.        *)
THEOREM SettlingInvariant == Spec => []SInv
<1>1. Init => SInv
  BY InitTypes, InitWakeups, InitSettles DEF SInv, IInv
<1>2. IInv /\ [Next]_vars => IInv'
  BY UserTypes, SystemTypes, StutterTypes, UserWakeups, SystemWakeups, StutterWakeups
  DEF IInv, Next
<1>3. SInv /\ [Next]_vars => SInv'
  BY <1>2, UserSettles, SystemSettles, StutterSettles DEF SInv, Next
<1> QED BY <1>1, <1>3, PTL DEF Spec

(* A reaction that runs is evaluated under a batch or a flush.             *)
LEMMA RunningDefers ==
  ASSUME SInv, NEW o \in ObserverSlots, Running(o)
  PROVE  Deferred(stack)
<1>1. PICK i \in DOMAIN stack : stack[i].type = "capture"
  BY DEF Running
<1>2. i - 1 \in DOMAIN stack /\ stack[i - 1].type = "run"
  BY <1>1 DEF SInv, Settling, Orderly, Nested
<1>3. (i - 1) - 1 \in DOMAIN stack /\ stack[(i - 1) - 1].type \in {"install", "flush"}
  BY <1>2 DEF SInv, Settling, Orderly, Nested
<1> QED BY <1>3 DEF Deferred

(* The flush loop starts no reaction above another one.                    *)
LEMMA FlushIsOutermost ==
  ASSUME SInv, TopIs("flush"), NEW o \in ObserverSlots
  PROVE  ~Running(o)
<1> SUFFICES ASSUME Running(o) PROVE FALSE
  OBVIOUS
<1>1. /\ Len(stack) \in DOMAIN stack /\ stack[Len(stack)].type = "flush"
      /\ Len(stack) \in Nat /\ DOMAIN stack = 1 .. Len(stack)
  BY DEF TopIs, Top, SInv, IInv, TypeOK
<1>2. PICK i \in DOMAIN stack : stack[i].type = "capture"
  BY DEF Running
<1>3. i - 1 \in DOMAIN stack /\ stack[i - 1].type = "run"
  BY <1>2 DEF SInv, Settling, Orderly, Nested
<1>4. (i - 1) - 1 \in DOMAIN stack /\ stack[(i - 1) - 1].type \in {"install", "flush"}
  BY <1>3 DEF SInv, Settling, Orderly, Nested
<1>5. (i - 1) - 1 < Len(stack)
  BY <1>1
<1> QED BY <1>1, <1>4, <1>5 DEF SInv, Settling, Orderly, Nested

(* changed(), Batch::drop and the guard of Signal::update leave nothing    *)
(* pending behind: user code outside a batch and a flush finds every       *)
(* reaction run on the present values, however reactions, batches and      *)
(* disposals were nested, unless a panic cut a flush short.                *)
THEOREM SettledOutside == Spec => []SettledOutsideBatches
<1>1. SInv => SettledOutsideBatches
  <2> SUFFICES ASSUME SInv, ~Deferred(stack), ~unwinding, ~interrupted
               PROVE  dirty = {} /\ \A o \in ObserverSlots : Live(o) => Current(o)
    BY DEF SettledOutsideBatches
  <2>1. dirty = {}
    BY DEF SInv, Settling, Undisturbed
  <2> QED BY <2>1, RunningDefers DEF SInv, IInv, Wakeups, NoLostUpdate
<1> QED BY <1>1, SettlingInvariant, PTL

(* Core::evaluate borrows the callback of a reaction mutably while it      *)
(* runs: no nesting of batches, flushes and registrations enters one       *)
(* callback twice.                                                         *)
THEOREM CallbacksEnteredOnce == Spec => []NoReentry
<1>1. SInv => NoReentry
  <2> SUFFICES ASSUME SInv, NEW i \in DOMAIN stack, NEW j \in DOMAIN stack, i # j,
                      stack[i].type = "capture", stack[j].type = "capture",
                      stack[i].slot = stack[j].slot, stack[i].gen = stack[j].gen
               PROVE  FALSE
    BY DEF NoReentry
  <2>1. /\ i - 1 \in DOMAIN stack /\ stack[i - 1].type = "run"
        /\ stack[i - 1].slot = stack[i].slot /\ stack[i - 1].gen = stack[i].gen
        /\ j - 1 \in DOMAIN stack /\ stack[j - 1].type = "run"
        /\ stack[j - 1].slot = stack[j].slot /\ stack[j - 1].gen = stack[j].gen
    BY DEF SInv, Settling, Orderly, Nested
  <2>2. i - 1 = j - 1
    BY <2>1 DEF SInv, Settling, Orderly, Entered
  <2>3. i \in Int /\ j \in Int
    BY Depth DEF SInv, IInv, TypeOK
  <2> QED BY <2>2, <2>3
<1> QED BY <1>1, SettlingInvariant, PTL

(* Core::flush runs derived reactions first: when it starts an effect,     *)
(* every derived value is settled, for any number of reactions and any     *)
(* order in which they were scheduled.                                     *)
THEOREM EffectsSeeSettledValues == Spec => EffectsRunSettled
<1>1. ASSUME SInv, NEW o \in ObserverSlots, FlushTurn(o), observers[o].kind = "effect",
             NEW d \in ObserverSlots, observers[d].kind = "derived"
      PROVE  Current(d)
  <2>1. TopIs("flush") /\ o \in NextReactions
    BY <1>1 DEF FlushTurn
  <2>2. DirtyDerived = {}
    BY <1>1, <2>1 DEF NextReactions, FirstOf, DirtyDerived
  <2>3. d \notin dirty
    BY <1>1, <2>2 DEF DirtyDerived
  <2>4. ~Running(d)
    BY <1>1, <2>1, FlushIsOutermost
  <2> QED BY <1>1, <2>3, <2>4 DEF SInv, IInv, Wakeups, NoLostUpdate, Live
<1>2. SInv => [\A o \in ObserverSlots :
                 FlushTurn(o) /\ observers[o].kind = "effect" =>
                   \A d \in ObserverSlots : observers[d].kind = "derived" => Current(d)]_vars
  BY <1>1
<1> QED BY <1>2, SettlingInvariant, PTL DEF EffectsRunSettled

(***************************************************************************)
(* Ownership in ReactiveCore, for every number of slots, every bound and   *)
(* every choice of user operations: who releases each value slot and each  *)
(* registration.                                                           *)
(*                                                                         *)
(* An owner is the list a run or an open region keeps on the stack, the    *)
(* list a registration keeps of its last run, or one that view code holds. *)
(* Holders(x) is the set of the places that list x, tagged by their kind.  *)
(* OInv says that no x is listed twice, that what is listed is allocated,  *)
(* and that a live registration is listed or a root.  Of the steps, some   *)
(* allocate (SignalAccounts, RegisterAccounts), some release               *)
(* (AccountsReleased and the lemmas after it), two hand an owner on        *)
(* (EndRegionAccounts, FinishRunAccounts), and the others leave the lists  *)
(* alone (QuietAccounts, CaptureAccounts).                                 *)
(***************************************************************************)

-----------------------------------------------------------------------------
(* Who owns what.                                                          *)

(* What an owner may list: a value slot, or the handle of a reaction.      *)
Items == ({"value"} \X ValueSlots)
           \cup ({"effect"} \X [slot : ObserverSlots, gen : Nat])

Holds(owner, x) ==
  \/ x[1] = "value" /\ x[2] \in owner.values
  \/ x[1] = "effect" /\ x[2] \in owner.effects

FramesHolding(x, stk) == {<<"frame", i>> : i \in {j \in DOMAIN stk : Holds(stk[j].owned, x)}}
ObserversHolding(x, obs) ==
  {<<"observer", o>> : o \in {p \in ObserverSlots : Holds(obs[p].owner, x)}}
HeldHolding(x, hld) == {<<"held", h>> : h \in {g \in hld : Holds(g, x)}}

HoldersIn(x, stk, obs, hld) ==
  FramesHolding(x, stk) \cup ObserversHolding(x, obs) \cup HeldHolding(x, hld)

ObserverPlaces(D) == {<<"observer", p>> : p \in D}

Holders(x) == HoldersIn(x, stack, observers, held)

AtMostOne(S) == \A a, b \in S : a = b

ValueItem(v) == <<"value", v>>
EffectItem(o, g) == <<"effect", [slot |-> o, gen |-> g]>>

(* Nothing has two owners, and what an owner lists has been allocated.     *)
Exclusive ==
  /\ \A x \in Items : AtMostOne(Holders(x))
  /\ \A v \in ValueSlots : values[v] = "none" => Holders(ValueItem(v)) = {}
  /\ \A o \in ObserverSlots, g \in Nat : Holders(EffectItem(o, g)) # {} => g <= observerGen[o]

(* A live reaction is a root, or somebody's.                               *)
Adopted ==
  \A o \in ObserverSlots :
    Live(o) => ([slot |-> o, gen |-> observerGen[o]] \in roots
                  <=> Holders(EffectItem(o, observerGen[o])) = {})

Owned == Exclusive /\ Adopted /\ RootsSurvive

(* A frame has read only values there are, and only if it is a capture; it *)
(* owns something only if it is the owner of a run or a region; and while  *)
(* a registration is evaluated it has no allocations of an earlier run.    *)
FrameSound(f, vals, gens, obs) ==
  /\ \A v \in ValueSlots :
       vals[v] = "none" \/ f.type # "capture" => f.reads[v] = Unread
  /\ f.type \notin {"run", "region"} => f.owned = NoOwner
  /\ f.type = "run" /\ gens[f.slot] = f.gen => obs[f.slot].owner = NoOwner

FramesSound(stk, vals, gens, obs) ==
  \A i \in DOMAIN stk : FrameSound(stk[i], vals, gens, obs)

(* The tables agree with the free lists, the subscribers and dirty, and a  *)
(* slot without a registration owns nothing.                               *)
TablesExact ==
  /\ FreeListsExact
  /\ \A v \in ValueSlots : values[v] = "none" => subscribers[v] = {}
  /\ \A v \in ValueSlots : valueGen[v] = -1 => values[v] = "none"
  /\ DirtyAreLive
  /\ \A o \in ObserverSlots : ~Live(o) => observers[o].owner = NoOwner

OInv ==
  /\ SInv
  /\ Owned
  /\ FramesSound(stack, values, observerGen, observers)
  /\ TablesExact

(* The places a slot or a handle may be listed at are told apart by their  *)
(* tag.                                                                    *)
LEMMA HolderCases ==
  ASSUME NEW x, NEW stk, NEW obs, NEW hld
  PROVE  /\ \A i : <<"frame", i>> \in HoldersIn(x, stk, obs, hld)
                     <=> i \in DOMAIN stk /\ Holds(stk[i].owned, x)
         /\ \A o : <<"observer", o>> \in HoldersIn(x, stk, obs, hld)
                     <=> o \in ObserverSlots /\ Holds(obs[o].owner, x)
         /\ \A h : <<"held", h>> \in HoldersIn(x, stk, obs, hld)
                     <=> h \in hld /\ Holds(h, x)
         /\ \A a \in HoldersIn(x, stk, obs, hld) :
              \/ \E i \in DOMAIN stk : a = <<"frame", i>>
              \/ \E o \in ObserverSlots : a = <<"observer", o>>
              \/ \E h \in hld : a = <<"held", h>>
  BY DEF HoldersIn, FramesHolding, ObserversHolding, HeldHolding

(* An owner of nothing lists nothing.                                      *)
LEMMA NothingHeld ==
  ASSUME NEW x
  PROVE  ~Holds(NoOwner, x)
  BY DEF Holds, NoOwner

(* The items of a slot and of a handle, and what it means to list one.     *)
LEMMA ItemTypes ==
  /\ \A v \in ValueSlots : ValueItem(v) \in Items
  /\ \A o \in ObserverSlots, g \in Nat : EffectItem(o, g) \in Items
  /\ \A owner, v : Holds(owner, ValueItem(v)) <=> v \in owner.values
  /\ \A owner, o, g : Holds(owner, EffectItem(o, g))
                        <=> [slot |-> o, gen |-> g] \in owner.effects
  BY DEF ValueItem, EffectItem, Items, Holds

(* What a disposal takes down: the seed and, with a reaction, what its     *)
(* owner stands for; and nothing else.                                     *)
LEMMA DoomedIsClosed ==
  ASSUME NEW seed \in SUBSET ObserverSlots
  PROVE  /\ seed \subseteq Doomed(seed)
         /\ \A p \in Doomed(seed) : OwnedEffects(observers[p].owner) \cap ObserverSlots \subseteq Doomed(seed)
         /\ \A S \in SUBSET ObserverSlots :
              (/\ seed \subseteq S
               /\ \A p \in S : OwnedEffects(observers[p].owner) \subseteq S)
              => Doomed(seed) \subseteq S
  BY DEF Doomed

(* The registrations an owner still stands for: of the handles it lists,   *)
(* those of a live registration's own generation.                          *)
LEMMA OwnedEffectSlots ==
  ASSUME NEW owner \in Owner
  PROVE  /\ OwnedEffects(owner) \subseteq ObserverSlots
         /\ \A o : o \in OwnedEffects(owner)
                     <=> [slot |-> o, gen |-> observerGen[o]] \in owner.effects /\ Live(o)
<1>1. \A e \in owner.effects : e = [slot |-> e.slot, gen |-> e.gen] /\ e.slot \in ObserverSlots
  BY DEF Owner
<1>2. OwnedEffects(owner) \subseteq ObserverSlots
  BY <1>1 DEF OwnedEffects
<1>3. ASSUME NEW o, o \in OwnedEffects(owner)
      PROVE  [slot |-> o, gen |-> observerGen[o]] \in owner.effects /\ Live(o)
  <2>1. PICK e \in owner.effects : e.slot = o /\ observerGen[e.slot] = e.gen /\ Live(e.slot)
    BY <1>3 DEF OwnedEffects
  <2>2. e = [slot |-> o, gen |-> observerGen[o]]
    BY <1>1, <2>1
  <2> QED BY <2>1, <2>2
<1>4. ASSUME NEW o, [slot |-> o, gen |-> observerGen[o]] \in owner.effects, Live(o)
      PROVE  o \in OwnedEffects(owner)
  <2> DEFINE e == [slot |-> o, gen |-> observerGen[o]]
  <2>1. e.slot = o /\ e.gen = observerGen[o]
    OBVIOUS
  <2> HIDE DEF e
  <2>2. e \in {x \in owner.effects : observerGen[x.slot] = x.gen /\ Live(x.slot)}
    BY <1>4, <2>1 DEF e
  <2> QED BY <2>1, <2>2 DEF OwnedEffects
<1> QED BY <1>2, <1>3, <1>4

(* Only live reactions are taken down, the roots only if the disposal is   *)
(* their own.                                                              *)
LEMMA DoomedAreLive ==
  ASSUME OInv, NEW owner \in Owner
  PROVE  /\ Doomed(OwnedEffects(owner)) \subseteq ObserverSlots
         /\ \A o \in Doomed(OwnedEffects(owner)) : Live(o)
         /\ \A r \in roots : r \notin owner.effects => r.slot \notin Doomed(OwnedEffects(owner))
<1> DEFINE seed == OwnedEffects(owner)
<1>1. \A p \in ObserverSlots : observers[p].owner \in Owner
  BY DEF OInv, SInv, IInv, TypeOK, Observer
<1>2. seed \in SUBSET ObserverSlots
  BY OwnedEffectSlots
<1>3. Doomed(seed) \subseteq {o \in ObserverSlots : Live(o)}
  <2> DEFINE S == {o \in ObserverSlots : Live(o)}
  <2>1. seed \subseteq S
    BY OwnedEffectSlots
  <2>2. \A p \in S : OwnedEffects(observers[p].owner) \subseteq S
    BY <1>1, OwnedEffectSlots
  <2>3. S \in SUBSET ObserverSlots
    OBVIOUS
  <2> HIDE DEF S, seed
  <2>4. Doomed(seed) \subseteq S
    BY <1>2, <2>1, <2>2, <2>3, DoomedIsClosed
  <2> QED BY <2>4 DEF S
<1>4. ASSUME NEW r \in roots, r \notin owner.effects
      PROVE  r.slot \notin Doomed(seed)
  <2> DEFINE S == ObserverSlots \ {r.slot}
  <2>1. /\ r.slot \in ObserverSlots /\ observerGen[r.slot] = r.gen /\ Live(r.slot)
        /\ r = [slot |-> r.slot, gen |-> r.gen] /\ r.gen \in Nat
    BY DEF OInv, SInv, IInv, TypeOK, Owned, RootsSurvive
  <2>2. seed \subseteq S
    <3>1. r.slot \notin seed
      BY <1>4, <2>1, OwnedEffectSlots
    <3> HIDE DEF seed
    <3> QED BY <1>2, <3>1
  <2>3. Holders(EffectItem(r.slot, r.gen)) = {}
    BY <2>1 DEF OInv, Owned, Adopted
  <2>4. ASSUME NEW p \in ObserverSlots PROVE r.slot \notin OwnedEffects(observers[p].owner)
    <3>1. ~Holds(observers[p].owner, EffectItem(r.slot, r.gen))
      BY <2>3, HolderCases DEF Holders
    <3>2. r \notin observers[p].owner.effects
      BY <2>1, <3>1, ItemTypes
    <3> QED BY <1>1, <2>1, <3>2, OwnedEffectSlots
  <2>5. \A p \in S : OwnedEffects(observers[p].owner) \subseteq S
    <3> SUFFICES ASSUME NEW p \in S PROVE OwnedEffects(observers[p].owner) \subseteq S
      OBVIOUS
    <3>1. OwnedEffects(observers[p].owner) \subseteq ObserverSlots
      BY <1>1, OwnedEffectSlots
    <3> QED BY <2>4, <3>1
  <2>6. S \in SUBSET ObserverSlots
    OBVIOUS
  <2> HIDE DEF S, seed
  <2>7. Doomed(seed) \subseteq S
    BY <1>2, <2>2, <2>5, <2>6, DoomedIsClosed
  <2> QED BY <2>7 DEF S
<1> QED BY <1>3, <1>4

-----------------------------------------------------------------------------
(* What the guards of a stack own.                                         *)

(* Two stacks whose guards own the same.                                   *)
SameOwned(s, t) ==
  DOMAIN t = DOMAIN s /\ \A i \in DOMAIN s : t[i].owned = s[i].owned

(* The guards of two such stacks list the same.                            *)
LEMMA SameFramesHolding ==
  ASSUME NEW s, NEW t, SameOwned(s, t), NEW x
  PROVE  FramesHolding(x, t) = FramesHolding(x, s)
<1>1. {j \in DOMAIN t : Holds(t[j].owned, x)} = {j \in DOMAIN s : Holds(s[j].owned, x)}
  BY DEF SameOwned
<1> QED BY <1>1 DEF FramesHolding

(* A guard dropped takes its own allocations, and only those, out of hand. *)
LEMMA PoppedFramesHolding ==
  ASSUME stack \in Seq(Frame), stack # <<>>, NEW x
  PROVE  FramesHolding(x, Popped) = FramesHolding(x, stack) \ {<<"frame", Len(stack)>>}
<1>1. /\ Len(stack) \in Nat \ {0} /\ DOMAIN stack = 1 .. Len(stack)
      /\ DOMAIN Popped = 1 .. (Len(stack) - 1)
      /\ \A i \in DOMAIN Popped : Popped[i] = stack[i]
  BY DEF Popped
<1>2. \A i : i \in DOMAIN Popped <=> i \in DOMAIN stack /\ i # Len(stack)
  BY <1>1
<1> QED BY <1>1, <1>2 DEF FramesHolding

(* Guards pushed own nothing yet.                                          *)
LEMMA AppendedFramesHolding ==
  ASSUME NEW s \in Seq(Frame), NEW f \in Frame, f.owned = NoOwner, NEW x
  PROVE  FramesHolding(x, Append(s, f)) = FramesHolding(x, s)
<1> DEFINE t == Append(s, f)
<1>1. /\ Len(s) \in Nat /\ DOMAIN s = 1 .. Len(s) /\ DOMAIN t = 1 .. (Len(s) + 1)
      /\ t[Len(s) + 1] = f /\ \A i \in DOMAIN s : t[i] = s[i]
  OBVIOUS
<1> HIDE DEF t
<1>2. \A i \in DOMAIN t : i \in DOMAIN s \/ i = Len(s) + 1
  BY <1>1
<1>3. DOMAIN s \subseteq DOMAIN t
  BY <1>1
<1>4. ~Holds(t[Len(s) + 1].owned, x)
  BY <1>1, NothingHeld
<1>5. {j \in DOMAIN t : Holds(t[j].owned, x)} = {j \in DOMAIN s : Holds(s[j].owned, x)}
  BY <1>1, <1>2, <1>3, <1>4
<1> QED BY <1>5 DEF FramesHolding, t

(* An evaluation begins with nothing allocated.                            *)
LEMMA EvaluationFramesHolding ==
  ASSUME NEW s \in Seq(Frame), NEW o \in ObserverSlots, NEW g \in Int,
         NEW output \in Handle \cup {NoHandle}, NEW x
  PROVE  FramesHolding(x, s \o Evaluation(o, g, output)) = FramesHolding(x, s)
<1> DEFINE e == Evaluation(o, g, output)
           t == s \o e
<1>1. Len(e) = 2 /\ e \in Seq(Frame) /\ e[1].owned = NoOwner /\ e[2].owned = NoOwner
  <2>1. /\ FrameOf("run", o, g, NoHandle) \in Frame
        /\ FrameOf("capture", o, g, output) \in Frame
    BY EvaluationFrames
  <2> QED BY <2>1 DEF Evaluation, FrameOf
<1> HIDE DEF e
<1>2. /\ DOMAIN t = 1 .. (Len(s) + 2)
      /\ \A i \in DOMAIN s : t[i] = s[i]
      /\ t[Len(s) + 1] = e[1] /\ t[Len(s) + 2] = e[2]
  BY <1>1, TwoMore
<1>3. Len(s) \in Nat /\ DOMAIN s = 1 .. Len(s)
  OBVIOUS
<1> HIDE DEF t
<1>4. \A i \in DOMAIN t : i \in DOMAIN s \/ i = Len(s) + 1 \/ i = Len(s) + 2
  BY <1>2, <1>3
<1>5. DOMAIN s \subseteq DOMAIN t
  BY <1>2, <1>3
<1>6. ~Holds(t[Len(s) + 1].owned, x) /\ ~Holds(t[Len(s) + 2].owned, x)
  BY <1>1, <1>2, NothingHeld
<1>7. {j \in DOMAIN t : Holds(t[j].owned, x)} = {j \in DOMAIN s : Holds(s[j].owned, x)}
  BY <1>2, <1>4, <1>5, <1>6
<1> QED BY <1>7 DEF FramesHolding, t, e

(* ReactiveOwner::drop forgets reads, the owners on the stack keep theirs. *)
LEMMA ForgetOwned ==
  ASSUME NEW s \in Seq(Frame), NEW V
  PROVE  /\ SameOwned(s, Forget(s, V))
         /\ \A i \in DOMAIN s :
              /\ Forget(s, V)[i] \in Frame
              /\ Forget(s, V)[i].type = s[i].type
              /\ Forget(s, V)[i].slot = s[i].slot
              /\ Forget(s, V)[i].gen = s[i].gen
              /\ \A v \in ValueSlots :
                   Forget(s, V)[i].reads[v] = IF v \in V THEN Unread ELSE s[i].reads[v]
<1> DEFINE rd(i) == [v \in ValueSlots |-> IF v \in V THEN Unread ELSE s[i].reads[v]]
           fr(i) == [s[i] EXCEPT !.reads = rd(i)]
<1>1. Forget(s, V) = [i \in DOMAIN s |-> fr(i)]
  BY DEF Forget
<1>2. ASSUME NEW i \in DOMAIN s
      PROVE  /\ fr(i) \in Frame
             /\ fr(i).owned = s[i].owned /\ fr(i).reads = rd(i)
             /\ fr(i).type = s[i].type /\ fr(i).slot = s[i].slot /\ fr(i).gen = s[i].gen
  <2>1. s[i] \in Frame
    BY Depth
  <2>2. rd(i) \in Reads
    BY <2>1 DEF Frame, Reads, Unread
  <2> HIDE DEF rd
  <2> QED BY <2>1, <2>2 DEF Frame
<1>3. \A i, v : v \in ValueSlots => rd(i)[v] = IF v \in V THEN Unread ELSE s[i].reads[v]
  OBVIOUS
<1> HIDE DEF fr, rd
<1> QED BY <1>1, <1>2, <1>3 DEF SameOwned

(* There is an innermost owner if there is any, and only one.              *)
LEMMA InnermostOwner ==
  ASSUME stack \in Seq(Frame), NEW types
  PROVE  /\ (\E i \in DOMAIN stack : stack[i].type \in types)
              => \E i \in DOMAIN stack : Innermost(i, types)
         /\ \A i, j \in DOMAIN stack : Innermost(i, types) /\ Innermost(j, types) => i = j
<1>1. Len(stack) \in Nat /\ DOMAIN stack = 1 .. Len(stack)
  OBVIOUS
<1>2. ASSUME NEW k \in DOMAIN stack, stack[k].type \in types
      PROVE  \E i \in DOMAIN stack : Innermost(i, types)
  <2> DEFINE T == {n \in Nat : /\ n < Len(stack)
                               /\ stack[Len(stack) - n].type \in types}
  <2>1. Len(stack) - k \in T
    <3>1. Len(stack) - k \in Nat /\ Len(stack) - k < Len(stack)
          /\ Len(stack) - (Len(stack) - k) = k
      BY <1>1
    <3> QED BY <1>2, <3>1
  <2>2. T \in SUBSET Nat /\ T # {}
    BY <2>1
  <2>3. PICK n \in T : \A m \in T : ~(m < n)
    <3> HIDE DEF T
    <3>1. IsWellFoundedOn(OpToRel(<, Nat), Nat)
      BY NatLessThanWellFounded
    <3>2. PICK n \in T : \A m \in T : <<m, n>> \notin OpToRel(<, Nat)
      BY <2>2, <3>1, WFMin
    <3> QED BY <2>2, <3>2 DEF OpToRel
  <2> DEFINE i == Len(stack) - n
  <2>4. n \in Nat /\ n < Len(stack) /\ i \in DOMAIN stack /\ stack[i].type \in types
    BY <1>1, <2>3
  <2>5. ASSUME NEW j \in DOMAIN stack, j > i PROVE stack[j].type \notin types
    <3>1. /\ Len(stack) - j \in Nat /\ Len(stack) - j < Len(stack) /\ Len(stack) - j < n
          /\ Len(stack) - (Len(stack) - j) = j
      BY <1>1, <2>4, <2>5
    <3> QED BY <2>3, <3>1
  <2> QED BY <2>4, <2>5 DEF Innermost
<1>3. ASSUME NEW i \in DOMAIN stack, NEW j \in DOMAIN stack,
             Innermost(i, types), Innermost(j, types), i # j
      PROVE  FALSE
  <2>1. i > j \/ j > i
    BY <1>1, <1>3
  <2> QED BY <1>3, <2>1 DEF Innermost
<1> QED BY <1>2, <1>3

(* What is allocated is listed by the innermost owner, if there is one,    *)
(* and by nobody else.                                                     *)
LEMMA WithOwnedHolding ==
  ASSUME stack \in Seq(Frame), NEW V \in SUBSET ValueSlots,
         NEW E \in SUBSET [slot : ObserverSlots, gen : Nat], NEW x
  PROVE  /\ ~Holds([values |-> V, effects |-> E], x) =>
              FramesHolding(x, WithOwned(V, E)) = FramesHolding(x, stack)
         /\ Holds([values |-> V, effects |-> E], x) /\ FramesHolding(x, stack) = {} =>
              /\ AtMostOne(FramesHolding(x, WithOwned(V, E)))
              /\ FramesHolding(x, WithOwned(V, E)) = {} <=> Unowned
         /\ \A i \in DOMAIN stack :
              /\ WithOwned(V, E)[i] \in Frame
              /\ WithOwned(V, E)[i].type = stack[i].type
              /\ WithOwned(V, E)[i].slot = stack[i].slot
              /\ WithOwned(V, E)[i].gen = stack[i].gen
              /\ WithOwned(V, E)[i].reads = stack[i].reads
              /\ ~Innermost(i, {"run", "region"}) => WithOwned(V, E)[i] = stack[i]
<1> DEFINE new == [values |-> V, effects |-> E]
           own(i) == [values |-> stack[i].owned.values \cup V,
                      effects |-> stack[i].owned.effects \cup E]
           In(i) == Innermost(i, {"run", "region"})
           fr(i) == IF In(i) THEN [stack[i] EXCEPT !.owned = own(i)] ELSE stack[i]
           t == WithOwned(V, E)
<1>1. t = [i \in DOMAIN stack |-> fr(i)]
  BY DEF WithOwned
<1>2. ASSUME NEW i \in DOMAIN stack
      PROVE  /\ fr(i) \in Frame
             /\ fr(i).type = stack[i].type /\ fr(i).slot = stack[i].slot
             /\ fr(i).gen = stack[i].gen /\ fr(i).reads = stack[i].reads
             /\ fr(i).owned = IF In(i) THEN own(i) ELSE stack[i].owned
             /\ ~In(i) => fr(i) = stack[i]
  <2>1. stack[i] \in Frame
    BY Depth
  <2>2. own(i) \in Owner
    BY <2>1 DEF Frame, Owner
  <2> HIDE DEF own, In
  <2> QED BY <2>1, <2>2 DEF Frame
<1>3. \A i : Holds(own(i), x) <=> Holds(stack[i].owned, x) \/ Holds(new, x)
  BY DEF Holds
<1> HIDE DEF fr, own, new, t, In
<1>4. DOMAIN t = DOMAIN stack /\ \A i \in DOMAIN stack : t[i] = fr(i)
  BY <1>1
<1>5. ASSUME ~Holds(new, x) PROVE FramesHolding(x, t) = FramesHolding(x, stack)
  <2>1. {j \in DOMAIN t : Holds(t[j].owned, x)} = {j \in DOMAIN stack : Holds(stack[j].owned, x)}
    BY <1>2, <1>3, <1>4, <1>5
  <2> QED BY <2>1 DEF FramesHolding
<1>6. ASSUME Holds(new, x), FramesHolding(x, stack) = {}
      PROVE  AtMostOne(FramesHolding(x, t)) /\ (FramesHolding(x, t) = {} <=> Unowned)
  <2>1. \A i \in DOMAIN stack : ~Holds(stack[i].owned, x)
    BY <1>6 DEF FramesHolding
  <2>2. {j \in DOMAIN t : Holds(t[j].owned, x)} = {j \in DOMAIN stack : In(j)}
    BY <1>2, <1>3, <1>4, <1>6, <2>1
  <2>3. FramesHolding(x, t) = {<<"frame", i>> : i \in {j \in DOMAIN stack : In(j)}}
    BY <2>2 DEF FramesHolding
  <2>4. \A i, j \in DOMAIN stack : In(i) /\ In(j) => i = j
    BY InnermostOwner DEF In
  <2>5. (\E i \in DOMAIN stack : In(i)) <=> ~Unowned
    BY InnermostOwner DEF In, Unowned, Innermost
  <2> QED BY <2>3, <2>4, <2>5 DEF AtMostOne
<1> QED BY <1>2, <1>4, <1>5, <1>6 DEF t, new, In

(* The frames themselves, whatever is asked of their owners.               *)
LEMMA WithOwnedFrames ==
  ASSUME stack \in Seq(Frame), NEW V \in SUBSET ValueSlots,
         NEW E \in SUBSET [slot : ObserverSlots, gen : Nat], NEW i \in DOMAIN stack
  PROVE  /\ WithOwned(V, E)[i] \in Frame
         /\ WithOwned(V, E)[i].type = stack[i].type
         /\ WithOwned(V, E)[i].slot = stack[i].slot
         /\ WithOwned(V, E)[i].gen = stack[i].gen
         /\ WithOwned(V, E)[i].reads = stack[i].reads
         /\ ~Innermost(i, {"run", "region"}) => WithOwned(V, E)[i] = stack[i]
  BY WithOwnedHolding

-----------------------------------------------------------------------------
(* Ownership over a step.                                                  *)

(* Steps that take no allocation from its owner, and make and end none.    *)
LEMMA OwnersKept ==
  ASSUME OInv,
         \A x \in Items : /\ AtMostOne(Holders(x)')
                          /\ Holders(x)' = {} <=> Holders(x) = {},
         \A v \in ValueSlots : values'[v] = "none" => values[v] = "none",
         \A o \in ObserverSlots : Live(o)' <=> Live(o),
         UNCHANGED <<observerGen, roots>>
  PROVE  Owned'
<1>1. \A v \in ValueSlots : ValueItem(v) \in Items
  BY ItemTypes
<1>2. \A o \in ObserverSlots, g \in Nat : EffectItem(o, g) \in Items
  BY ItemTypes
<1>3. Exclusive'
  <2>1. \A x \in Items : AtMostOne(Holders(x)')
    OBVIOUS
  <2>2. \A v \in ValueSlots : values'[v] = "none" => Holders(ValueItem(v))' = {}
    BY <1>1 DEF OInv, Owned, Exclusive
  <2>3. \A o \in ObserverSlots, g \in Nat :
          Holders(EffectItem(o, g))' # {} => g <= observerGen'[o]
    BY <1>2 DEF OInv, Owned, Exclusive
  <2> QED BY <2>1, <2>2, <2>3 DEF Exclusive
<1>4. Adopted'
  <2> SUFFICES ASSUME NEW o \in ObserverSlots, Live(o)'
               PROVE  [slot |-> o, gen |-> observerGen[o]] \in roots
                        <=> Holders(EffectItem(o, observerGen[o]))' = {}
    BY DEF Adopted
  <2>1. Live(o)
    OBVIOUS
  <2>2. observerGen[o] \in Nat
    BY <2>1 DEF OInv, SInv, IInv, TypeOK, Wakeups, FreeObserversDead
  <2> QED BY <1>2, <2>1, <2>2 DEF OInv, Owned, Adopted
<1>5. RootsSurvive'
  BY DEF OInv, SInv, IInv, TypeOK, Owned, RootsSurvive
<1> QED BY <1>3, <1>4, <1>5 DEF Owned

(* The drop of what an owner at the place pl stands for: the reactions D   *)
(* and the values V go, and with them their places.                        *)
LEMMA OwnerDropped ==
  ASSUME OInv, NEW owner \in Owner, NEW pl, NEW D, NEW V,
         D = Doomed(OwnedEffects(owner)),
         V = DoomedValues(D) \cup owner.values,
         \A x \in Items : Holders(x)' = Holders(x) \ (ObserverPlaces(D) \cup {pl}),
         \A v \in owner.values : pl \in Holders(ValueItem(v)),
         \A x \in Items : pl \in Holders(x) =>
           Holds(owner, x) \/ \E p \in D : Holds(observers[p].owner, x),
         \A v \in ValueSlots : values'[v] = "none" => values[v] = "none" \/ v \in V,
         \A o \in ObserverSlots : Live(o)' <=> Live(o) /\ o \notin D,
         UNCHANGED observerGen,
         roots' \subseteq roots,
         \A r \in roots' : r \notin owner.effects,
         \A r \in roots \ roots' : r.slot \in D
  PROVE  Owned'
<1>0. \A p \in D : <<"observer", p>> \in ObserverPlaces(D)
  BY DEF ObserverPlaces
<1>1. /\ \A v \in ValueSlots : ValueItem(v) \in Items
      /\ \A o \in ObserverSlots, g \in Nat : EffectItem(o, g) \in Items
  BY ItemTypes
<1>2. \A x \in Items : AtMostOne(Holders(x))
  BY DEF OInv, Owned, Exclusive
<1>3. /\ D \subseteq ObserverSlots /\ \A p \in D : Live(p)
      /\ \A r \in roots' : r.slot \notin D
  BY DoomedAreLive
<1>4. /\ \A o \in ObserverSlots : observers[o].owner \in Owner
      /\ \A o \in ObserverSlots : Live(o) => observerGen[o] \in Nat
      /\ \A r \in roots : r.slot \in ObserverSlots /\ r.gen \in Nat
      /\ observerGen \in [ObserverSlots -> Nat \cup {-1}]
  BY DEF OInv, SInv, IInv, TypeOK, Observer, Wakeups, FreeObserversDead
<1>5. /\ OwnedEffects(owner) \subseteq D
      /\ \A p \in D : OwnedEffects(observers[p].owner) \subseteq D
  <2>1. OwnedEffects(owner) \in SUBSET ObserverSlots
    BY OwnedEffectSlots
  <2>2. \A p \in ObserverSlots : OwnedEffects(observers[p].owner) \subseteq ObserverSlots
    BY <1>4, OwnedEffectSlots
  <2>3. OwnedEffects(owner) \subseteq D
    BY <2>1, DoomedIsClosed
  <2>4. \A p \in D : OwnedEffects(observers[p].owner) \cap ObserverSlots \subseteq D
    BY <2>1, DoomedIsClosed
  <2> QED BY <1>3, <2>2, <2>3, <2>4
<1>6. ASSUME NEW v \in V, v \in ValueSlots PROVE Holders(ValueItem(v))' = {}
  <2>1. CASE v \in owner.values
    BY <1>1, <1>2, <1>6, <2>1 DEF AtMostOne
  <2>2. CASE v \in DoomedValues(D)
    <3>1. PICK p \in D : v \in observers[p].owner.values
      BY <2>2 DEF DoomedValues
    <3>2. <<"observer", p>> \in Holders(ValueItem(v))
      BY <1>3, <3>1, HolderCases, ItemTypes DEF Holders
    <3> QED BY <1>0, <1>1, <1>2, <1>6, <3>2 DEF AtMostOne
  <2> QED BY <2>1, <2>2
<1>7. Exclusive'
  <2>1. \A x \in Items : AtMostOne(Holders(x)')
    BY <1>2 DEF AtMostOne
  <2>2. \A v \in ValueSlots : values'[v] = "none" => Holders(ValueItem(v))' = {}
    BY <1>1, <1>6 DEF OInv, Owned, Exclusive
  <2>3. \A o \in ObserverSlots, g \in Nat :
          Holders(EffectItem(o, g))' # {} => g <= observerGen'[o]
    BY <1>1 DEF OInv, Owned, Exclusive
  <2> QED BY <2>1, <2>2, <2>3 DEF Exclusive
<1>8. Adopted'
  <2> SUFFICES ASSUME NEW o \in ObserverSlots, Live(o)'
               PROVE  [slot |-> o, gen |-> observerGen[o]] \in roots'
                        <=> Holders(EffectItem(o, observerGen[o]))' = {}
    BY DEF Adopted
  <2> DEFINE h == [slot |-> o, gen |-> observerGen[o]]
             x == EffectItem(o, observerGen[o])
  <2>1. Live(o) /\ o \notin D /\ observerGen[o] \in Nat /\ x \in Items
    BY <1>1, <1>4
  <2>2. h \in roots <=> Holders(x) = {}
    BY <2>1 DEF OInv, Owned, Adopted
  <2>3. h \in roots <=> h \in roots'
    BY <2>1
  <2>4. ~Holds(owner, x)
    <3>1. h \notin owner.effects
      BY <1>5, <2>1, OwnedEffectSlots
    <3> QED BY <3>1, ItemTypes
  <2>5. \A p \in D : ~Holds(observers[p].owner, x)
    <3> SUFFICES ASSUME NEW p \in D PROVE ~Holds(observers[p].owner, x)
      OBVIOUS
    <3>1. o \notin OwnedEffects(observers[p].owner)
      BY <1>5, <2>1
    <3>2. h \notin observers[p].owner.effects
      BY <1>3, <1>4, <2>1, <3>1, OwnedEffectSlots
    <3> QED BY <3>2, ItemTypes
  <2>6. pl \notin Holders(x)
    BY <2>1, <2>4, <2>5
  <2>7. \A q \in ObserverPlaces(D) : q \notin Holders(x)
    BY <2>5, HolderCases DEF Holders, ObserverPlaces
  <2>8. Holders(x)' = Holders(x)
    BY <2>1, <2>6, <2>7
  <2> QED BY <2>2, <2>3, <2>8
<1>9. RootsSurvive'
  <2> SUFFICES ASSUME NEW r \in roots'
               PROVE  observerGen'[r.slot] = r.gen /\ Live(r.slot)'
    BY DEF RootsSurvive, Live
  <2>1. r \in roots /\ r.slot \in ObserverSlots
    BY <1>4
  <2>2. observerGen[r.slot] = r.gen /\ Live(r.slot)
    BY <2>1 DEF OInv, Owned, RootsSurvive
  <2> QED BY <1>3, <2>1, <2>2
<1> QED BY <1>7, <1>8, <1>9 DEF Owned

(* Owners that list the same.                                              *)
LEMMA SameHolders ==
  ASSUME NEW s, NEW t, NEW obs, NEW obs2, NEW hld, NEW x,
         FramesHolding(x, t) = FramesHolding(x, s),
         \A o \in ObserverSlots : obs2[o].owner = obs[o].owner
  PROVE  HoldersIn(x, t, obs2, hld) = HoldersIn(x, s, obs, hld)
<1>1. ObserversHolding(x, obs2) = ObserversHolding(x, obs)
  <2>1. {p \in ObserverSlots : Holds(obs2[p].owner, x)} = {p \in ObserverSlots : Holds(obs[p].owner, x)}
    OBVIOUS
  <2> QED BY <2>1 DEF ObserversHolding
<1> QED BY <1>1 DEF HoldersIn

(* Steps that move nothing between owners.                                 *)
LEMMA OwnersSame ==
  ASSUME OInv,
         \A x \in Items : FramesHolding(x, stack') = FramesHolding(x, stack),
         \A o \in ObserverSlots : /\ observers'[o].owner = observers[o].owner
                                  /\ observers'[o].kind = observers[o].kind,
         \A v \in ValueSlots : values'[v] = "none" => values[v] = "none",
         UNCHANGED <<observerGen, roots, held>>
  PROVE  Owned'
<1>1. ASSUME NEW x \in Items PROVE Holders(x)' = Holders(x)
  <2>1. HoldersIn(x, stack', observers', held) = HoldersIn(x, stack, observers, held)
    BY SameHolders
  <2> QED BY <2>1 DEF Holders
<1>2. \A x \in Items : AtMostOne(Holders(x))
  BY DEF OInv, Owned, Exclusive
<1>3. \A o \in ObserverSlots : Live(o)' <=> Live(o)
  BY DEF Live
<1>4. \A x \in Items : AtMostOne(Holders(x)') /\ (Holders(x)' = {} <=> Holders(x) = {})
  BY <1>1, <1>2
<1> QED BY <1>3, <1>4, OwnersKept

-----------------------------------------------------------------------------
(* The account of slots over a step.                                       *)

Accounts ==
  /\ Owned
  /\ FramesSound(stack, values, observerGen, observers)
  /\ TablesExact

(* Frames that just began have read nothing and own nothing.               *)
LEMMA FreshFrame ==
  ASSUME NEW f \in Frame, NEW vals, NEW gens, NEW obs,
         f.reads = NoReads, f.owned = NoOwner,
         f.type = "run" => obs[f.slot].owner = NoOwner
  PROVE  FrameSound(f, vals, gens, obs)
  BY DEF FrameSound, NoReads

(* A guard that names no slot begins sound.                                *)
LEMMA GuardFresh ==
  ASSUME NEW type \in {"batch", "install", "flush", "region"}, NEW vals, NEW gens, NEW obs
  PROVE  /\ Guard(type) \in Frame /\ Guard(type).owned = NoOwner
         /\ FrameSound(Guard(type), vals, gens, obs)
<1>1. Guard(type) \in Frame
  BY GuardFrame
<1>2. /\ Guard(type).reads = NoReads /\ Guard(type).owned = NoOwner
      /\ Guard(type).type # "run"
  BY DEF Guard, FrameOf
<1> QED BY <1>1, <1>2, FreshFrame

(* A sound frame on a sound stack.                                         *)
LEMMA AppendedSound ==
  ASSUME NEW s \in Seq(Frame), NEW f \in Frame, NEW vals, NEW gens, NEW obs,
         FramesSound(s, vals, gens, obs), FrameSound(f, vals, gens, obs)
  PROVE  FramesSound(Append(s, f), vals, gens, obs)
<1> DEFINE t == Append(s, f)
<1>1. /\ Len(s) \in Nat /\ DOMAIN s = 1 .. Len(s) /\ DOMAIN t = 1 .. (Len(s) + 1)
      /\ t[Len(s) + 1] = f /\ \A i \in DOMAIN s : t[i] = s[i]
  OBVIOUS
<1> HIDE DEF t
<1>2. \A i \in DOMAIN t : i \in DOMAIN s \/ i = Len(s) + 1
  BY <1>1
<1>3. \A i \in DOMAIN t : FrameSound(t[i], vals, gens, obs)
  BY <1>1, <1>2 DEF FramesSound
<1> QED BY <1>3 DEF FramesSound, t

(* flush(), deferred or begun, moves nothing between owners.               *)
LEMMA FlushedSound ==
  ASSUME NEW s \in Seq(Frame), NEW vals, NEW gens, NEW obs,
         FramesSound(s, vals, gens, obs)
  PROVE  /\ FramesSound(WithFlush(s), vals, gens, obs)
         /\ \A x : FramesHolding(x, WithFlush(s)) = FramesHolding(x, s)
<1>1. /\ Guard("flush") \in Frame /\ Guard("flush").owned = NoOwner
      /\ FrameSound(Guard("flush"), vals, gens, obs)
  BY GuardFresh
<1>2. FramesSound(Append(s, Guard("flush")), vals, gens, obs)
  BY <1>1, AppendedSound
<1>3. \A x : FramesHolding(x, Append(s, Guard("flush"))) = FramesHolding(x, s)
  BY <1>1, AppendedFramesHolding
<1> QED BY <1>2, <1>3 DEF WithFlush

(* The two frames of an evaluation are sound if the registration has no    *)
(* allocations of an earlier run.                                          *)
LEMMA EvaluationSound ==
  ASSUME NEW s \in Seq(Frame), NEW o \in ObserverSlots, NEW g \in Int,
         NEW output \in Handle \cup {NoHandle}, NEW vals, NEW gens, NEW obs,
         FramesSound(s, vals, gens, obs), obs[o].owner = NoOwner
  PROVE  FramesSound(s \o Evaluation(o, g, output), vals, gens, obs)
<1> DEFINE e == Evaluation(o, g, output)
           t == s \o e
<1>1. /\ Len(e) = 2 /\ e \in Seq(Frame)
      /\ FrameSound(e[1], vals, gens, obs) /\ FrameSound(e[2], vals, gens, obs)
  <2> DEFINE r == FrameOf("run", o, g, NoHandle)
             c == FrameOf("capture", o, g, output)
  <2>1. r \in Frame /\ c \in Frame
    BY EvaluationFrames
  <2>2. /\ r.reads = NoReads /\ r.owned = NoOwner /\ r.slot = o
        /\ c.reads = NoReads /\ c.owned = NoOwner /\ c.type = "capture"
    BY DEF FrameOf
  <2>3. e = <<r, c>>
    BY DEF Evaluation
  <2> HIDE DEF r, c, e
  <2>4. FrameSound(r, vals, gens, obs) /\ FrameSound(c, vals, gens, obs)
    BY <2>1, <2>2, FreshFrame
  <2> QED BY <2>1, <2>3, <2>4
<1> HIDE DEF e
<1>2. /\ DOMAIN t = 1 .. (Len(s) + 2)
      /\ \A i \in DOMAIN s : t[i] = s[i]
      /\ t[Len(s) + 1] = e[1] /\ t[Len(s) + 2] = e[2]
  BY <1>1, TwoMore
<1>3. Len(s) \in Nat /\ DOMAIN s = 1 .. Len(s)
  OBVIOUS
<1> HIDE DEF t
<1>4. \A i \in DOMAIN t : i \in DOMAIN s \/ i = Len(s) + 1 \/ i = Len(s) + 2
  BY <1>2, <1>3
<1>5. \A i \in DOMAIN t : FrameSound(t[i], vals, gens, obs)
  BY <1>1, <1>2, <1>4 DEF FramesSound
<1> QED BY <1>5 DEF FramesSound, t, e

(* The frames below the innermost guard; one that owns nothing takes       *)
(* nothing with it.                                                        *)
LEMMA PoppedSound ==
  ASSUME OInv, stack # <<>>
  PROVE  /\ Top \in Frame /\ Popped \in Seq(Frame)
         /\ FrameSound(Top, values, observerGen, observers)
         /\ FramesSound(Popped, values, observerGen, observers)
         /\ Top.type \notin {"run", "region"} =>
              \A x : FramesHolding(x, Popped) = FramesHolding(x, stack)
<1>1. stack \in Seq(Frame) /\ FramesSound(stack, values, observerGen, observers)
  BY DEF OInv, SInv, IInv, TypeOK
<1>2. /\ Len(stack) \in DOMAIN stack /\ Top = stack[Len(stack)]
      /\ \A i \in DOMAIN Popped : i \in DOMAIN stack /\ Popped[i] = stack[i]
  BY <1>1 DEF Top, Popped
<1>3. /\ FrameSound(Top, values, observerGen, observers)
      /\ FramesSound(Popped, values, observerGen, observers)
  BY <1>1, <1>2 DEF FramesSound
<1>4. ASSUME Top.type \notin {"run", "region"}, NEW x
      PROVE  FramesHolding(x, Popped) = FramesHolding(x, stack)
  <2>1. Top.owned = NoOwner
    BY <1>3, <1>4 DEF FrameSound
  <2>2. <<"frame", Len(stack)>> \notin FramesHolding(x, stack)
    BY <1>2, <2>1, NothingHeld DEF FramesHolding
  <2> QED BY <1>1, <2>2, PoppedFramesHolding
<1> QED BY <1>1, <1>3, <1>4, PoppedStack

(* A release leaves every frame sound: what it frees, the frames forget.   *)
LEMMA ForgottenSound ==
  ASSUME NEW s \in Seq(Frame), NEW vals, NEW vals2, NEW gens, NEW obs, NEW obs2, NEW V,
         FramesSound(s, vals, gens, obs),
         \A v \in ValueSlots : vals2[v] = "none" => vals[v] = "none" \/ v \in V,
         \A o \in ObserverSlots : obs2[o].owner = obs[o].owner \/ obs2[o].owner = NoOwner
  PROVE  FramesSound(Forget(s, V), vals2, gens, obs2)
<1> DEFINE t == Forget(s, V)
<1>1. DOMAIN t = DOMAIN s
  BY ForgetOwned DEF SameOwned
<1>2. ASSUME NEW i \in DOMAIN s PROVE FrameSound(t[i], vals2, gens, obs2)
  <2>1. FrameSound(s[i], vals, gens, obs)
    BY DEF FramesSound
  <2>2. /\ t[i] \in Frame /\ t[i].owned = s[i].owned
        /\ t[i].type = s[i].type /\ t[i].slot = s[i].slot /\ t[i].gen = s[i].gen
        /\ \A v \in ValueSlots : t[i].reads[v] = IF v \in V THEN Unread ELSE s[i].reads[v]
    BY ForgetOwned DEF SameOwned
  <2> HIDE DEF t
  <2>3. \A v \in ValueSlots :
          \/ t[i].reads[v] = Unread
          \/ t[i].reads[v] = s[i].reads[v] /\ (vals2[v] = "none" => vals[v] = "none")
    BY <2>2
  <2> DEFINE g == t[i]
  <2>4. /\ g \in Frame /\ g.type = s[i].type /\ g.slot = s[i].slot /\ g.gen = s[i].gen
        /\ g.owned = s[i].owned
        /\ \A v \in ValueSlots :
             \/ g.reads[v] = Unread
             \/ g.reads[v] = s[i].reads[v] /\ (vals2[v] = "none" => vals[v] = "none")
    BY <2>2, <2>3
  <2> HIDE DEF g
  <2>5. FrameSound(g, vals2, gens, obs2)
    <3>1. g.type = "run" => g.slot \in ObserverSlots
      BY <2>4 DEF Frame
    <3> QED BY <2>1, <2>4, <3>1 DEF FrameSound
  <2> QED BY <2>5 DEF g
<1> QED BY <1>1, <1>2 DEF FramesSound

(* Steps that allocate and free nothing.                                   *)
LEMMA AccountsKept ==
  ASSUME OInv, Owned',
         FramesSound(stack', values, observerGen, observers'),
         UNCHANGED <<freeValues, valueGen, freeObservers, observerGen>>,
         \A v \in ValueSlots : values'[v] = "none" <=> values[v] = "none",
         \A o \in ObserverSlots : Live(o)' <=> Live(o),
         \A v \in ValueSlots : values[v] = "none" => subscribers'[v] = {},
         \A o \in dirty' : o \in ObserverSlots /\ Live(o),
         \A o \in ObserverSlots : ~Live(o) => observers'[o].owner = NoOwner
  PROVE  Accounts'
<1>1. FramesSound(stack, values, observerGen, observers)'
  <2>1. \A i \in DOMAIN stack' : FrameSound(stack'[i], values', observerGen, observers')
    BY DEF FramesSound, FrameSound
  <2> QED BY <2>1 DEF FramesSound
<1>2. FreeListsExact'
  <2>1. freeValues' = {v \in ValueSlots : valueGen'[v] >= 0 /\ values'[v] = "none"}
    BY DEF OInv, TablesExact, FreeListsExact
  <2>2. freeObservers' = {o \in ObserverSlots : observerGen'[o] >= 0 /\ ~Live(o)'}
    BY DEF OInv, TablesExact, FreeListsExact
  <2>3. \A v \in freeValues' : subscribers'[v] = {}
    BY <2>1
  <2> QED BY <2>1, <2>2, <2>3 DEF FreeListsExact, Live
<1>3. TablesExact'
  <2>1. DirtyAreLive'
    BY DEF DirtyAreLive
  <2>2. \A o \in ObserverSlots : ~Live(o)' => observers'[o].owner = NoOwner
    OBVIOUS
  <2>3. \A v \in ValueSlots : values'[v] = "none" => subscribers'[v] = {}
    OBVIOUS
  <2>4. \A v \in ValueSlots : valueGen'[v] = -1 => values'[v] = "none"
    BY DEF OInv, TablesExact
  <2> QED BY <1>2, <2>1, <2>2, <2>3, <2>4 DEF TablesExact, Live
<1> QED BY <1>1, <1>3 DEF Accounts

(* Steps that move nothing between owners, either.                         *)
LEMMA AccountsQuiet ==
  ASSUME OInv,
         \A x \in Items : FramesHolding(x, stack') = FramesHolding(x, stack),
         FramesSound(stack', values, observerGen, observers'),
         UNCHANGED <<freeValues, valueGen, freeObservers, observerGen, roots, held>>,
         \A v \in ValueSlots : values'[v] = "none" <=> values[v] = "none",
         \A o \in ObserverSlots : /\ observers'[o].owner = observers[o].owner
                                  /\ observers'[o].kind = observers[o].kind,
         \A v \in ValueSlots : values[v] = "none" => subscribers'[v] = {},
         \A o \in dirty' : o \in ObserverSlots /\ Live(o)
  PROVE  Accounts'
<1>1. Owned'
  BY OwnersSame
<1>2. \A o \in ObserverSlots : Live(o)' <=> Live(o)
  BY DEF Live
<1>3. \A o \in ObserverSlots : ~Live(o) => observers'[o].owner = NoOwner
  BY DEF OInv, TablesExact
<1> QED BY <1>1, <1>2, <1>3, AccountsKept

(* A release: everything freed was there, and was freed by its one owner.  *)
LEMMA AccountsReleased ==
  ASSUME OInv, NEW owner \in Owner, NEW pl, NEW D, NEW V, NEW pending \in SUBSET dirty,
         D = Doomed(OwnedEffects(owner)),
         V = DoomedValues(D) \cup owner.values,
         Release(D, V, pending),
         \A x \in Items : Holders(x)' = Holders(x) \ (ObserverPlaces(D) \cup {pl}),
         \A v \in owner.values : pl \in Holders(ValueItem(v)),
         \A x \in Items : pl \in Holders(x) =>
           Holds(owner, x) \/ \E p \in D : Holds(observers[p].owner, x),
         \A o \in ObserverSlots : Live(o)' <=> Live(o) /\ o \notin D,
         \A o \in ObserverSlots :
           observers'[o].owner = NoOwner \/ (o \notin D /\ observers'[o].owner = observers[o].owner),
         FramesSound(stack', values', observerGen, observers'),
         UNCHANGED <<valueGen, observerGen>>,
         roots' \subseteq roots,
         \A r \in roots' : r \notin owner.effects,
         \A r \in roots \ roots' : r.slot \in D
  PROVE  Accounts'
<1>1. /\ values' = [v \in ValueSlots |-> IF v \in V THEN "none" ELSE values[v]]
      /\ freeValues' = freeValues \cup V
      /\ \A v \in ValueSlots : v \in V => subscribers'[v] = {}
      /\ \A v \in ValueSlots : v \notin V => subscribers'[v] \subseteq subscribers[v]
      /\ freeObservers' = freeObservers \cup D
      /\ dirty' = pending \ D
  BY DEF Release
<1>2. Owned'
  <2>1. \A v \in ValueSlots : values'[v] = "none" => values[v] = "none" \/ v \in V
    BY <1>1
  <2> QED BY <2>1, OwnerDropped
<1>3. D \subseteq ObserverSlots /\ \A o \in D : Live(o)
  BY DoomedAreLive
<1>4. ASSUME NEW v \in V PROVE v \in ValueSlots /\ values[v] # "none"
  <2>1. V \subseteq ValueSlots
    BY <1>3 DEF DoomedValues, OInv, SInv, IInv, TypeOK, Observer, Owner
  <2>2. Holders(ValueItem(v)) # {}
    <3>1. CASE v \in owner.values
      BY <3>1
    <3>2. CASE v \in DoomedValues(D)
      <4>1. PICK p \in D : v \in observers[p].owner.values
        BY <3>2 DEF DoomedValues
      <4>2. <<"observer", p>> \in Holders(ValueItem(v))
        BY <1>3, <4>1, HolderCases, ItemTypes DEF Holders
      <4> QED BY <4>2
    <3> QED BY <3>1, <3>2
  <2> QED BY <2>1, <2>2 DEF OInv, Owned, Exclusive
<1>5. /\ valueGen \in [ValueSlots -> Nat \cup {-1}]
      /\ observerGen \in [ObserverSlots -> Nat \cup {-1}]
      /\ \A v \in ValueSlots : values[v] # "none" => valueGen[v] >= 0
      /\ \A o \in ObserverSlots : Live(o) => observerGen[o] >= 0
  <2>1. /\ valueGen \in [ValueSlots -> Nat \cup {-1}]
        /\ observerGen \in [ObserverSlots -> Nat \cup {-1}]
    BY DEF OInv, SInv, IInv, TypeOK
  <2>2. \A v \in ValueSlots : values[v] # "none" => valueGen[v] # -1
    BY DEF OInv, TablesExact
  <2>3. \A o \in ObserverSlots : Live(o) => observerGen[o] # -1
    BY DEF OInv, SInv, IInv, Wakeups, FreeObserversDead
  <2> QED BY <2>1, <2>2, <2>3
<1>6. FreeListsExact'
  <2>1. freeValues' = {v \in ValueSlots : valueGen'[v] >= 0 /\ values'[v] = "none"}
    BY <1>1, <1>4, <1>5 DEF OInv, TablesExact, FreeListsExact
  <2>2. freeObservers' = {o \in ObserverSlots : observerGen'[o] >= 0 /\ ~Live(o)'}
    BY <1>1, <1>3, <1>5 DEF OInv, TablesExact, FreeListsExact
  <2>3. \A v \in freeValues' : subscribers'[v] = {}
    BY <1>1, <1>4 DEF OInv, TablesExact, FreeListsExact
  <2> QED BY <2>1, <2>2, <2>3 DEF FreeListsExact, Live
<1>7. TablesExact'
  <2>1. DirtyAreLive'
    BY <1>1 DEF DirtyAreLive, OInv, TablesExact, SInv, IInv, TypeOK
  <2>2. \A v \in ValueSlots : values'[v] = "none" => subscribers'[v] = {}
    BY <1>1 DEF OInv, TablesExact
  <2>3. \A v \in ValueSlots : valueGen'[v] = -1 => values'[v] = "none"
    BY <1>1 DEF OInv, TablesExact
  <2>4. \A o \in ObserverSlots : ~Live(o)' => observers'[o].owner = NoOwner
    BY DEF OInv, TablesExact
  <2> QED BY <1>6, <2>1, <2>2, <2>3, <2>4 DEF TablesExact, Live
<1>8. FramesSound(stack, values, observerGen, observers)'
  OBVIOUS
<1> QED BY <1>2, <1>7, <1>8 DEF Accounts

(* The registrations that survive a release keep their owners.             *)
LEMMA SurvivorOwners ==
  ASSUME TypeOK, NEW D, NEW V
  PROVE  /\ \A o \in ObserverSlots :
              /\ o \in D => /\ Survivors(D, V)[o].kind = "none"
                            /\ Survivors(D, V)[o].owner = NoOwner
              /\ o \notin D => /\ Survivors(D, V)[o].kind = observers[o].kind
                               /\ Survivors(D, V)[o].owner = observers[o].owner
         /\ \A x : ObserversHolding(x, Survivors(D, V))
                     = ObserversHolding(x, observers) \ ObserverPlaces(D)
<1>1. ASSUME NEW o \in ObserverSlots
      PROVE  /\ o \in D => /\ Survivors(D, V)[o].kind = "none"
                           /\ Survivors(D, V)[o].owner = NoOwner
             /\ o \notin D => /\ Survivors(D, V)[o].kind = observers[o].kind
                              /\ Survivors(D, V)[o].owner = observers[o].owner
  <2>1. observers[o] \in Observer
    BY DEF TypeOK
  <2>2. o \in D => Survivors(D, V)[o] = NoObserver
    BY DEF Survivors
  <2>3. o \notin D => Survivors(D, V)[o] = [observers[o] EXCEPT !.deps = observers[o].deps \ V]
    BY DEF Survivors
  <2> QED BY <2>1, <2>2, <2>3 DEF Observer, NoObserver
<1>2. ASSUME NEW x
      PROVE  ObserversHolding(x, Survivors(D, V))
               = ObserversHolding(x, observers) \ ObserverPlaces(D)
  <2> DEFINE obs == Survivors(D, V)
  <2>1. \A p \in ObserverSlots : Holds(obs[p].owner, x) <=> p \notin D /\ Holds(observers[p].owner, x)
    BY <1>1, NothingHeld
  <2> HIDE DEF obs
  <2> QED BY <2>1 DEF ObserversHolding, ObserverPlaces, obs
<1> QED BY <1>1, <1>2

(* A place of a reaction is none of a frame or of the view.                *)
LEMMA ObserverPlacesApart ==
  ASSUME NEW x, NEW D
  PROVE  \A q \in ObserverPlaces(D) : /\ \A stk : q \notin FramesHolding(x, stk)
                                     /\ \A hld : q \notin HeldHolding(x, hld)
  BY DEF FramesHolding, HeldHolding, ObserverPlaces

(* Effect::dispose.                                                        *)
LEMMA DisposeAccounts ==
  ASSUME OInv, NEW o \in ObserverSlots, Dispose(o)
  PROVE  Accounts'
<1> DEFINE h == [slot |-> o, gen |-> observerGen[o]]
           owner == [values |-> {}, effects |-> {h}]
           D == Doomed({o})
           V == DoomedValues(D)
           pl == <<"observer", o>>
<1>1. /\ Release(D, V, dirty)
      /\ observers' = Survivors(D, V) /\ stack' = Forget(stack, V)
      /\ roots' = roots \ {h} /\ UNCHANGED <<valueGen, observerGen, held>>
      /\ Live(o)
  BY DEF Dispose, Live
<1>2. /\ TypeOK /\ stack \in Seq(Frame)
      /\ FramesSound(stack, values, observerGen, observers)
  BY DEF OInv, SInv, IInv, TypeOK
<1>3. owner \in Owner /\ OwnedEffects(owner) = {o}
  <2>1. observerGen[o] \in Nat
    BY <1>1 DEF OInv, SInv, IInv, TypeOK, Wakeups, FreeObserversDead
  <2>2. owner \in Owner
    BY <2>1 DEF Owner
  <2>3. \A p : [slot |-> p, gen |-> observerGen[p]] \in owner.effects <=> p = o
    OBVIOUS
  <2> HIDE DEF owner
  <2> QED BY <1>1, <2>2, <2>3, OwnedEffectSlots
<1>4. D = Doomed(OwnedEffects(owner)) /\ V = DoomedValues(D) \cup owner.values
  BY <1>3
<1>5. o \in D /\ owner.values = {} /\ owner.effects = {h}
  BY DoomedIsClosed
<1> HIDE DEF owner, D, V
<1>6. \A x \in Items : Holders(x)' = Holders(x) \ (ObserverPlaces(D) \cup {pl})
  <2> SUFFICES ASSUME NEW x \in Items
               PROVE  Holders(x)' = Holders(x) \ (ObserverPlaces(D) \cup {pl})
    OBVIOUS
  <2>1. FramesHolding(x, stack') = FramesHolding(x, stack)
    BY <1>1, <1>2, ForgetOwned, SameFramesHolding
  <2>2. pl \notin FramesHolding(x, stack) /\ pl \notin HeldHolding(x, held)
    BY DEF FramesHolding, HeldHolding
  <2>3. ObserversHolding(x, observers')
          = ObserversHolding(x, observers) \ (ObserverPlaces(D) \cup {pl})
    <3>1. pl \in ObserverPlaces(D)
      BY <1>5 DEF ObserverPlaces
    <3>2. ObserversHolding(x, observers') = ObserversHolding(x, observers) \ ObserverPlaces(D)
      BY <1>1, <1>2, SurvivorOwners
    <3> QED BY <3>1, <3>2
  <2>4. HoldersIn(x, stack', observers', held')
          = Holders(x) \ (ObserverPlaces(D) \cup {pl})
    BY <1>1, <2>1, <2>2, <2>3, ObserverPlacesApart DEF Holders, HoldersIn
  <2> QED BY <2>4 DEF Holders
<1>7. \A x \in Items : pl \in Holders(x) => \E p \in D : Holds(observers[p].owner, x)
  BY <1>5, HolderCases DEF Holders
<1>8. \A p \in ObserverSlots : Live(p)' <=> Live(p) /\ p \notin D
  BY <1>1, <1>2, SurvivorOwners DEF Live
<1>9. FramesSound(stack', values', observerGen, observers')
  <2>1. \A v \in ValueSlots : values'[v] = "none" => values[v] = "none" \/ v \in V
    BY <1>1 DEF Release
  <2>2. \A p \in ObserverSlots : observers'[p].owner = observers[p].owner \/ observers'[p].owner = NoOwner
    BY <1>1, <1>2, SurvivorOwners
  <2>3. FramesSound(Forget(stack, V), values', observerGen, observers')
    BY <1>2, <2>1, <2>2, ForgottenSound
  <2> QED BY <1>1, <2>3
<1>10. /\ roots' \subseteq roots /\ \A r \in roots' : r \notin owner.effects
       /\ \A r \in roots \ roots' : r.slot \in D
  BY <1>1, <1>5
<1>11. \A v \in owner.values : pl \in Holders(ValueItem(v))
  BY <1>5
<1>12. \A p \in ObserverSlots :
        observers'[p].owner = NoOwner \/ (p \notin D /\ observers'[p].owner = observers[p].owner)
  BY <1>1, <1>2, SurvivorOwners
<1>13. \A x \in Items : pl \in Holders(x) =>
         Holds(owner, x) \/ \E p \in D : Holds(observers[p].owner, x)
  BY <1>7
<1>14. dirty \in SUBSET dirty /\ Release(D, V, dirty) /\ UNCHANGED <<valueGen, observerGen>>
  BY <1>1
<1> HIDE DEF pl, h
<1> QED BY <1>3, <1>4, <1>6, <1>8, <1>9, <1>10, <1>11, <1>12, <1>13, <1>14, AccountsReleased

(* ReactiveOwner::drop, of an owner at the place pl that leaves the stack  *)
(* s and the owners hld.                                                   *)
LEMMA DropAccounts ==
  ASSUME OInv, NEW owner \in Owner, NEW pl, NEW D, NEW V, NEW s \in Seq(Frame), NEW hld,
         D = Doomed(OwnedEffects(owner)), V = DoomedValues(D) \cup owner.values,
         Release(D, V, dirty), observers' = Survivors(D, V),
         stack' = Forget(s, V), held' = hld,
         FramesSound(s, values, observerGen, observers),
         \A x : /\ FramesHolding(x, s) = FramesHolding(x, stack) \ {pl}
                /\ HeldHolding(x, hld) = HeldHolding(x, held) \ {pl}
                /\ pl \notin ObserversHolding(x, observers),
         \A x \in Items : pl \in Holders(x) <=> Holds(owner, x),
         UNCHANGED <<valueGen, observerGen, roots>>
  PROVE  Accounts'
<1>1. TypeOK
  BY DEF OInv, SInv, IInv
<1>2. \A x \in Items : Holders(x)' = Holders(x) \ (ObserverPlaces(D) \cup {pl})
  <2> SUFFICES ASSUME NEW x \in Items
               PROVE  Holders(x)' = Holders(x) \ (ObserverPlaces(D) \cup {pl})
    OBVIOUS
  <2>1. FramesHolding(x, Forget(s, V)) = FramesHolding(x, s)
    BY ForgetOwned, SameFramesHolding
  <2>2. ObserversHolding(x, Survivors(D, V))
          = ObserversHolding(x, observers) \ (ObserverPlaces(D) \cup {pl})
    BY <1>1, SurvivorOwners
  <2>3. HoldersIn(x, Forget(s, V), Survivors(D, V), hld)
          = Holders(x) \ (ObserverPlaces(D) \cup {pl})
    <3>1. /\ FramesHolding(x, Forget(s, V)) = FramesHolding(x, stack) \ {pl}
          /\ HeldHolding(x, hld) = HeldHolding(x, held) \ {pl}
      BY <2>1
    <3>2. \A q \in ObserverPlaces(D) :
            q \notin FramesHolding(x, stack) /\ q \notin HeldHolding(x, held)
      BY ObserverPlacesApart
    <3> QED BY ONLY <2>2, <3>1, <3>2 DEF Holders, HoldersIn
  <2> QED BY <2>3 DEF Holders
<1>3. \A p \in ObserverSlots : Live(p)' <=> Live(p) /\ p \notin D
  BY <1>1, SurvivorOwners DEF Live
<1>4. FramesSound(stack', values', observerGen, observers')
  <2>1. \A v \in ValueSlots : values'[v] = "none" => values[v] = "none" \/ v \in V
    BY DEF Release
  <2>2. \A p \in ObserverSlots : observers'[p].owner = observers[p].owner \/ observers'[p].owner = NoOwner
    BY <1>1, SurvivorOwners
  <2>3. FramesSound(Forget(s, V), values', observerGen, observers')
    <3>1. s \in Seq(Frame) /\ FramesSound(s, values, observerGen, observers)
      OBVIOUS
    <3> QED BY ONLY <2>1, <2>2, <3>1, ForgottenSound
  <2> QED BY <2>3
<1>5. \A v \in owner.values : pl \in Holders(ValueItem(v))
  <2>1. owner.values \subseteq ValueSlots
    BY DEF Owner
  <2> QED BY <2>1, ItemTypes
<1>6. \A r \in roots' : r \notin owner.effects
  <2> SUFFICES ASSUME NEW r \in roots, r \in owner.effects PROVE FALSE
    OBVIOUS
  <2>1. /\ r.slot \in ObserverSlots /\ r.gen \in Nat /\ r = [slot |-> r.slot, gen |-> r.gen]
        /\ observerGen[r.slot] = r.gen /\ Live(r.slot)
    BY <1>1 DEF TypeOK, OInv, Owned, RootsSurvive
  <2>2. Holders(EffectItem(r.slot, r.gen)) = {}
    BY <2>1 DEF OInv, Owned, Adopted
  <2>3. Holds(owner, EffectItem(r.slot, r.gen)) /\ EffectItem(r.slot, r.gen) \in Items
    BY <2>1, ItemTypes
  <2> QED BY <2>2, <2>3
<1>7. \A p \in ObserverSlots :
        observers'[p].owner = NoOwner \/ (p \notin D /\ observers'[p].owner = observers[p].owner)
  BY <1>1, SurvivorOwners
<1> QED BY <1>2, <1>3, <1>4, <1>5, <1>6, <1>7, AccountsReleased

(* The owner of the innermost run or region is dropped with it.            *)
LEMMA DropTopAccounts ==
  ASSUME OInv, stack # <<>>, NEW D, NEW V,
         D = Doomed(OwnedEffects(Top.owned)), V = DoomedValues(D) \cup Top.owned.values,
         Release(D, V, dirty), observers' = Survivors(D, V),
         stack' = Forget(Popped, V), UNCHANGED <<valueGen, observerGen, roots, held>>
  PROVE  Accounts'
<1> DEFINE pl == <<"frame", Len(stack)>>
<1>1. /\ stack \in Seq(Frame) /\ Popped \in Seq(Frame) /\ Top.owned \in Owner
      /\ FramesSound(Popped, values, observerGen, observers)
      /\ Len(stack) \in DOMAIN stack /\ Top = stack[Len(stack)]
  BY PoppedSound DEF OInv, SInv, IInv, TypeOK, Frame, Top
<1>2. \A x : /\ FramesHolding(x, Popped) = FramesHolding(x, stack) \ {pl}
             /\ HeldHolding(x, held) = HeldHolding(x, held) \ {pl}
             /\ pl \notin ObserversHolding(x, observers)
  BY <1>1, PoppedFramesHolding DEF HeldHolding, ObserversHolding
<1>3. \A x \in Items : pl \in Holders(x) <=> Holds(Top.owned, x)
  BY <1>1, HolderCases DEF Holders
<1> HIDE DEF pl
<1> QED BY <1>1, <1>2, <1>3, DropAccounts

(* The view drops an owner it holds.                                       *)
LEMMA DropHeldAccounts ==
  ASSUME OInv, NEW owner \in held, DropHeld(owner)
  PROVE  Accounts'
<1> DEFINE pl == <<"held", owner>>
           D == Doomed(OwnedEffects(owner))
           V == DoomedValues(D) \cup owner.values
<1>1. /\ stack \in Seq(Frame) /\ owner \in Owner
      /\ FramesSound(stack, values, observerGen, observers)
  BY DEF OInv, SInv, IInv, TypeOK
<1>2. /\ Release(D, V, dirty) /\ observers' = Survivors(D, V)
      /\ stack' = Forget(stack, V) /\ held' = held \ {owner}
      /\ UNCHANGED <<valueGen, observerGen, roots>>
  BY DEF DropHeld
<1>3. \A x : /\ FramesHolding(x, stack) = FramesHolding(x, stack) \ {pl}
             /\ HeldHolding(x, held \ {owner}) = HeldHolding(x, held) \ {pl}
             /\ pl \notin ObserversHolding(x, observers)
  BY DEF FramesHolding, HeldHolding, ObserversHolding
<1>4. \A x \in Items : pl \in Holders(x) <=> Holds(owner, x)
  BY HolderCases DEF Holders
<1> HIDE DEF pl, D, V
<1> QED BY <1>1, <1>2, <1>3, <1>4, DropAccounts DEF D, V

(* One turn of the flush loop drops the owner of the reaction's last run.  *)
LEMMA FlushTurnAccounts ==
  ASSUME OInv, NEW o \in ObserverSlots, FlushTurn(o)
  PROVE  Accounts'
<1> DEFINE owner == observers[o].owner
           pl == <<"observer", o>>
           D == Doomed(OwnedEffects(owner))
           V == DoomedValues(D) \cup owner.values
           flush == [Top EXCEPT !.turns = @ + 1]
           under == Forget(Popped, V)
           base == under \o <<flush>>
           eval == Evaluation(o, observerGen[o], observers[o].output)
<1>1. /\ stack # <<>> /\ Top.type = "flush"
      /\ Release(D, V, dirty \ {o})
      /\ observers' = [Survivors(D, V) EXCEPT ![o].owner = NoOwner]
      /\ stack' = base \o eval
      /\ UNCHANGED <<valueGen, observerGen, roots, held>>
  BY DEF FlushTurn, TopIs
<1>2. /\ TypeOK /\ owner \in Owner /\ observerGen[o] \in Int
      /\ observers[o].output \in Handle \cup {NoHandle}
  BY DEF OInv, SInv, IInv, TypeOK, Observer
<1>3. /\ Top \in Frame /\ Popped \in Seq(Frame)
      /\ FrameSound(Top, values, observerGen, observers)
      /\ FramesSound(Popped, values, observerGen, observers)
      /\ \A x : FramesHolding(x, Popped) = FramesHolding(x, stack)
  BY <1>1, PoppedSound
<1> HIDE DEF D, V, owner
<1>4. under \in Seq(Frame) /\ \A x : FramesHolding(x, under) = FramesHolding(x, stack)
  BY <1>3, ForgetStack, ForgetOwned, SameFramesHolding
<1>5. /\ flush \in Frame /\ flush.type = "flush" /\ flush.owned = NoOwner
      /\ flush.reads = Top.reads /\ \A v \in ValueSlots : flush.reads[v] = Unread
  <2>1. Top.turns + 1 \in Nat /\ flush = [Top EXCEPT !.turns = Top.turns + 1]
    BY <1>3 DEF Frame
  <2>2. Top.owned = NoOwner /\ \A v \in ValueSlots : Top.reads[v] = Unread
    BY <1>1, <1>3 DEF FrameSound
  <2>3. flush \in Frame /\ flush.type = "flush" /\ flush.owned = Top.owned /\ flush.reads = Top.reads
    BY <1>1, <1>3, <2>1 DEF Frame
  <2> HIDE DEF flush
  <2> QED BY <2>2, <2>3
<1> HIDE DEF flush, under
<1>6. base = Append(under, flush) /\ base \in Seq(Frame)
  BY <1>4, <1>5, AppendIsConcat
<1>7. \A x : FramesHolding(x, base) = FramesHolding(x, stack)
  BY <1>4, <1>5, <1>6, AppendedFramesHolding
<1> HIDE DEF base
<1>8. \A x : FramesHolding(x, stack') = FramesHolding(x, stack)
  <2>1. \A x : FramesHolding(x, base \o eval) = FramesHolding(x, base)
    <3>1. o \in ObserverSlots /\ base \in Seq(Frame)
      BY <1>6
    <3> QED BY <1>2, <3>1, EvaluationFramesHolding
  <2>2. stack' = base \o eval
    BY <1>1
  <2> HIDE DEF eval
  <2> QED BY ONLY <1>7, <2>1, <2>2
<1>9. /\ \A p \in ObserverSlots :
           /\ observers'[p].kind = Survivors(D, V)[p].kind
           /\ observers'[p].owner = IF p = o THEN NoOwner ELSE Survivors(D, V)[p].owner
  <2>1. Survivors(D, V) \in [ObserverSlots -> Observer]
    BY <1>2, SurvivorTypes
  <2> QED BY <1>1, <2>1 DEF Observer
<1>10. \A x \in Items : Holders(x)' = Holders(x) \ (ObserverPlaces(D) \cup {pl})
  <2> SUFFICES ASSUME NEW x \in Items
               PROVE  Holders(x)' = Holders(x) \ (ObserverPlaces(D) \cup {pl})
    OBVIOUS
  <2>1. FramesHolding(x, stack') = FramesHolding(x, stack) \ {pl}
    BY <1>8 DEF FramesHolding
  <2>2. HeldHolding(x, held') = HeldHolding(x, held) \ {pl}
    BY <1>1 DEF HeldHolding
  <2>3. \A p \in ObserverSlots :
          Holds(observers'[p].owner, x) <=> p # o /\ Holds(Survivors(D, V)[p].owner, x)
    BY <1>9, NothingHeld
  <2>4. ObserversHolding(x, observers') = ObserversHolding(x, Survivors(D, V)) \ {pl}
    BY <2>3 DEF ObserversHolding
  <2>5. ObserversHolding(x, observers')
          = ObserversHolding(x, observers) \ (ObserverPlaces(D) \cup {pl})
    BY <1>2, <2>4, SurvivorOwners
  <2>6. HoldersIn(x, stack', observers', held')
          = Holders(x) \ (ObserverPlaces(D) \cup {pl})
    BY <2>1, <2>2, <2>5, ObserverPlacesApart DEF Holders, HoldersIn
  <2> QED BY <2>6 DEF Holders
<1>11. /\ \A v \in owner.values : pl \in Holders(ValueItem(v))
       /\ \A x \in Items : pl \in Holders(x) => Holds(owner, x)
  BY HolderCases, ItemTypes DEF Holders, owner
<1>12. \A p \in ObserverSlots : Live(p)' <=> Live(p) /\ p \notin D
  BY <1>2, <1>9, SurvivorOwners DEF Live
<1>13. FramesSound(stack', values', observerGen, observers')
  <2>1. \A v \in ValueSlots : values'[v] = "none" => values[v] = "none" \/ v \in V
    BY <1>1 DEF Release
  <2>2. \A p \in ObserverSlots : observers'[p].owner = observers[p].owner \/ observers'[p].owner = NoOwner
    BY <1>2, <1>9, SurvivorOwners
  <2>3. FramesSound(under, values', observerGen, observers')
    BY <1>3, <2>1, <2>2, ForgottenSound DEF under
  <2>4. FrameSound(flush, values', observerGen, observers')
    BY <1>5 DEF FrameSound
  <2>5. FramesSound(base, values', observerGen, observers')
    BY <1>4, <1>5, <1>6, <2>3, <2>4, AppendedSound
  <2>6. observers'[o].owner = NoOwner
    BY <1>9
  <2>7. FramesSound(base \o eval, values', observerGen, observers')
    BY <1>2, <1>6, <2>5, <2>6, EvaluationSound
  <2> QED BY <1>1, <2>7
<1>14. \A r \in roots' : r \notin owner.effects
  <2> SUFFICES ASSUME NEW r \in roots, r \in owner.effects PROVE FALSE
    BY <1>1
  <2>1. /\ r.slot \in ObserverSlots /\ r.gen \in Nat /\ r = [slot |-> r.slot, gen |-> r.gen]
        /\ observerGen[r.slot] = r.gen /\ Live(r.slot)
    BY <1>2 DEF TypeOK, OInv, Owned, RootsSurvive
  <2>2. Holders(EffectItem(r.slot, r.gen)) = {}
    BY <2>1 DEF OInv, Owned, Adopted
  <2>3. Holds(owner, EffectItem(r.slot, r.gen))
    BY <2>1, ItemTypes
  <2>4. pl \in Holders(EffectItem(r.slot, r.gen))
    BY <2>3, HolderCases DEF Holders, owner
  <2> QED BY <2>2, <2>4
<1>15. dirty \ {o} \in SUBSET dirty
  OBVIOUS
<1>16. \A p \in ObserverSlots :
        observers'[p].owner = NoOwner \/ (p \notin D /\ observers'[p].owner = observers[p].owner)
  BY <1>2, <1>9, SurvivorOwners
<1> QED BY <1>1, <1>2, <1>10, <1>11, <1>12, <1>13, <1>14, <1>15, <1>16, AccountsReleased DEF D, V

(* A fresh slot or handle gets the innermost owner, if there is one.       *)
LEMMA AllocatedHolders ==
  ASSUME OInv, NEW V \in SUBSET ValueSlots,
         NEW E \in SUBSET [slot : ObserverSlots, gen : Nat],
         NEW stk, NEW obs,
         \A x : FramesHolding(x, stk) = FramesHolding(x, WithOwned(V, E)),
         \A o \in ObserverSlots : obs[o].owner = observers[o].owner \/ obs[o].owner = NoOwner,
         \A x \in Items : Holds([values |-> V, effects |-> E], x) => Holders(x) = {}
  PROVE  \A x \in Items :
           /\ ~Holds([values |-> V, effects |-> E], x) =>
                HoldersIn(x, stk, obs, held) \subseteq Holders(x)
           /\ Holds([values |-> V, effects |-> E], x) =>
                /\ AtMostOne(HoldersIn(x, stk, obs, held))
                /\ HoldersIn(x, stk, obs, held) = {} <=> Unowned
<1> SUFFICES ASSUME NEW x \in Items
             PROVE  /\ ~Holds([values |-> V, effects |-> E], x) =>
                         HoldersIn(x, stk, obs, held) \subseteq Holders(x)
                    /\ Holds([values |-> V, effects |-> E], x) =>
                         /\ AtMostOne(HoldersIn(x, stk, obs, held))
                         /\ HoldersIn(x, stk, obs, held) = {} <=> Unowned
  OBVIOUS
<1> DEFINE new == [values |-> V, effects |-> E]
<1>1. stack \in Seq(Frame)
  BY DEF OInv, SInv, IInv, TypeOK
<1>2. /\ ~Holds(new, x) => FramesHolding(x, stk) = FramesHolding(x, stack)
      /\ Holds(new, x) /\ FramesHolding(x, stack) = {} =>
           AtMostOne(FramesHolding(x, stk)) /\ (FramesHolding(x, stk) = {} <=> Unowned)
  BY <1>1, WithOwnedHolding
<1>3. ObserversHolding(x, obs) \subseteq ObserversHolding(x, observers)
  BY NothingHeld DEF ObserversHolding
<1> HIDE DEF new
<1>4. ASSUME ~Holds(new, x) PROVE HoldersIn(x, stk, obs, held) \subseteq Holders(x)
  BY <1>2, <1>3, <1>4 DEF Holders, HoldersIn
<1>5. ASSUME Holds(new, x)
      PROVE  /\ AtMostOne(HoldersIn(x, stk, obs, held))
             /\ HoldersIn(x, stk, obs, held) = {} <=> Unowned
  <2>1. Holders(x) = {}
    BY <1>5 DEF new
  <2>2. /\ FramesHolding(x, stack) = {} /\ ObserversHolding(x, observers) = {}
        /\ HeldHolding(x, held) = {}
    BY <2>1 DEF Holders, HoldersIn
  <2>3. HoldersIn(x, stk, obs, held) = FramesHolding(x, stk)
    BY <1>3, <2>2 DEF HoldersIn
  <2> QED BY <1>2, <1>5, <2>2, <2>3
<1> QED BY <1>4, <1>5 DEF new

(* A slot to allocate has no value and no owner.                           *)
LEMMA FreeValue ==
  ASSUME OInv, NEW v \in ValueSlots, v \in AllocatableValues
  PROVE  values[v] = "none" /\ Holders(ValueItem(v)) = {}
<1>1. v \in freeValues \/ valueGen[v] = -1
  BY DEF AllocatableValues, Allocatable
<1>2. values[v] = "none"
  BY <1>1 DEF OInv, TablesExact, FreeListsExact
<1> QED BY <1>2 DEF OInv, Owned, Exclusive

(* A value slot is allocated: the tables it is in and out of.              *)
LEMMA AllocatedTables ==
  ASSUME OInv, NEW v \in ValueSlots, v \in AllocatableValues,
         values'[v] # "none",
         \A w \in ValueSlots \ {v} : values'[w] = values[w],
         freeValues' = freeValues \ {v},
         valueGen' = [valueGen EXCEPT ![v] = NextGen(@)]
  PROVE  /\ freeValues' = {w \in ValueSlots : valueGen'[w] >= 0 /\ values'[w] = "none"}
         /\ \A w \in ValueSlots : valueGen'[w] = -1 => values'[w] = "none"
<1>1. valueGen \in [ValueSlots -> Nat \cup {-1}]
  BY DEF OInv, SInv, IInv, TypeOK
<1>2. \A w \in ValueSlots : valueGen'[w] = IF w = v THEN valueGen[v] + 1 ELSE valueGen[w]
  BY <1>1 DEF NextGen
<1>3. valueGen[v] + 1 \in Nat
  BY <1>1
<1>4. freeValues = {w \in ValueSlots : valueGen[w] >= 0 /\ values[w] = "none"}
  BY DEF OInv, TablesExact, FreeListsExact
<1>5. \A w \in ValueSlots : valueGen[w] = -1 => values[w] = "none"
  BY DEF OInv, TablesExact
<1>6. freeValues' = {w \in ValueSlots : valueGen'[w] >= 0 /\ values'[w] = "none"}
  BY <1>2, <1>4
<1>7. \A w \in ValueSlots : valueGen'[w] = -1 => values'[w] = "none"
  BY <1>2, <1>3, <1>5
<1> QED BY <1>6, <1>7

(* signal(): the new slot has one owner at most, and no subscriber.        *)
LEMMA SignalAccounts ==
  ASSUME OInv, NEW v \in ValueSlots, CreateSignal(v)
  PROVE  Accounts'
<1> USE DEF valueTable, observerTable
<1> DEFINE t == WithOwned({v}, {})
<1>1. /\ v \in AllocatableValues
      /\ values' = [values EXCEPT ![v] = "signal"]
      /\ freeValues' = freeValues \ {v}
      /\ valueGen' = [valueGen EXCEPT ![v] = NextGen(@)]
      /\ stack' = t
      /\ UNCHANGED <<subscribers, observers, freeObservers, observerGen, dirty, held, roots>>
  BY DEF CreateSignal
<1>2. /\ values \in [ValueSlots -> {"none", "signal", "uninit", "derived"}] /\ stack \in Seq(Frame)
      /\ {v} \in SUBSET ValueSlots /\ {} \in SUBSET [slot : ObserverSlots, gen : Nat]
  BY DEF OInv, SInv, IInv, TypeOK
<1>3. /\ values'[v] = "signal" /\ values'[v] # "none"
      /\ \A w \in ValueSlots \ {v} : values'[w] = values[w]
  BY <1>1, <1>2
<1>4. values[v] = "none" /\ Holders(ValueItem(v)) = {}
  BY <1>1, FreeValue
<1>5. \A x \in Items : Holds([values |-> {v}, effects |-> {}], x) <=> x = ValueItem(v)
  BY DEF Holds, Items, ValueItem
<1> HIDE DEF t
<1>6. ASSUME NEW x \in Items
      PROVE  /\ x # ValueItem(v) => Holders(x)' \subseteq Holders(x)
             /\ x = ValueItem(v) => AtMostOne(Holders(x)')
  <2>1. {v} \in SUBSET ValueSlots /\ {} \in SUBSET [slot : ObserverSlots, gen : Nat]
    OBVIOUS
  <2>2. \A y : FramesHolding(y, stack') = FramesHolding(y, WithOwned({v}, {}))
    BY <1>1 DEF t
  <2>3. /\ x # ValueItem(v) => HoldersIn(x, stack', observers', held) \subseteq Holders(x)
        /\ x = ValueItem(v) => AtMostOne(HoldersIn(x, stack', observers', held))
    BY <1>1, <1>4, <1>5, <2>1, <2>2, AllocatedHolders
  <2> QED BY <1>1, <2>3 DEF Holders
<1>7. \A x \in Items : x # ValueItem(v) => Holders(x)' = Holders(x)
  <2> SUFFICES ASSUME NEW x \in Items, x # ValueItem(v)
               PROVE  Holders(x)' = Holders(x)
    OBVIOUS
  <2>1. ~Holds([values |-> {v}, effects |-> {}], x)
    BY <1>5
  <2>2. FramesHolding(x, stack') = FramesHolding(x, stack)
    BY <1>1, <1>2, <2>1, WithOwnedHolding DEF t
  <2> QED BY <1>1, <2>2 DEF Holders, HoldersIn
<1>8. Owned'
  <2>1. \A x \in Items : AtMostOne(Holders(x)')
    BY <1>6, <1>7 DEF OInv, Owned, Exclusive
  <2>2. \A w \in ValueSlots : values'[w] = "none" => Holders(ValueItem(w))' = {}
    BY <1>3, <1>7, ItemTypes DEF OInv, Owned, Exclusive, ValueItem
  <2>3. \A o \in ObserverSlots, g \in Nat :
          EffectItem(o, g) \in Items /\ EffectItem(o, g) # ValueItem(v)
    BY ItemTypes DEF EffectItem, ValueItem
  <2>4. \A o \in ObserverSlots, g \in Nat : Holders(EffectItem(o, g))' = Holders(EffectItem(o, g))
    BY <1>7, <2>3
  <2>5. \A o \in ObserverSlots, g \in Nat : Holders(EffectItem(o, g))' # {} => g <= observerGen'[o]
    BY <1>1, <2>4 DEF OInv, Owned, Exclusive
  <2>6. Exclusive'
    BY <2>1, <2>2, <2>5 DEF Exclusive
  <2>7. Adopted'
    <3> SUFFICES ASSUME NEW o \in ObserverSlots, Live(o)'
                 PROVE  [slot |-> o, gen |-> observerGen'[o]] \in roots'
                          <=> Holders(EffectItem(o, observerGen[o]))' = {}
      BY <1>1 DEF Adopted
    <3>1. Live(o) /\ observerGen[o] \in Nat
      BY <1>1 DEF Live, OInv, SInv, IInv, TypeOK, Wakeups, FreeObserversDead
    <3> QED BY <1>1, <2>4, <3>1 DEF OInv, Owned, Adopted
  <2>8. RootsSurvive'
    BY <1>1 DEF OInv, Owned, RootsSurvive, Live
  <2> QED BY <2>6, <2>7, <2>8 DEF Owned
<1>9. FramesSound(stack, values, observerGen, observers)'
  <2>1. DOMAIN t = DOMAIN stack
    BY DEF t, WithOwned
  <2>2. ASSUME NEW i \in DOMAIN stack PROVE FrameSound(t[i], values', observerGen, observers)
    <3>1. FrameSound(stack[i], values, observerGen, observers)
      BY DEF OInv, FramesSound
    <3>2. /\ t[i] \in Frame
          /\ t[i].type = stack[i].type /\ t[i].slot = stack[i].slot /\ t[i].gen = stack[i].gen
          /\ t[i].reads = stack[i].reads
          /\ ~Innermost(i, {"run", "region"}) => t[i] = stack[i]
      BY <1>2, WithOwnedHolding DEF t
    <3>3. t[i].type \notin {"run", "region"} => t[i].owned = stack[i].owned
      BY <3>2 DEF Innermost
    <3>4. \A w \in ValueSlots : values'[w] = "none" => values[w] = "none"
      BY <1>3
    <3> QED BY <3>1, <3>2, <3>3, <3>4 DEF FrameSound
  <2>3. FramesSound(stack', values', observerGen', observers')
    BY <1>1, <2>1, <2>2 DEF FramesSound
  <2> QED BY <2>3
<1>10. TablesExact'
  <2>1. /\ freeValues' = {w \in ValueSlots : valueGen'[w] >= 0 /\ values'[w] = "none"}
        /\ \A w \in ValueSlots : valueGen'[w] = -1 => values'[w] = "none"
    BY <1>1, <1>3, AllocatedTables
  <2>2. freeObservers' = {o \in ObserverSlots : observerGen'[o] >= 0 /\ ~Live(o)'}
    BY <1>1 DEF OInv, TablesExact, FreeListsExact, Live
  <2>3. \A w \in ValueSlots : values'[w] = "none" => subscribers'[w] = {}
    BY <1>1, <1>3 DEF OInv, TablesExact
  <2>4. \A w \in freeValues' : subscribers'[w] = {}
    BY <2>1, <2>3
  <2>5. FreeListsExact'
    BY <2>1, <2>2, <2>4 DEF FreeListsExact, Live
  <2>6. DirtyAreLive'
    BY <1>1 DEF OInv, TablesExact, DirtyAreLive, Live
  <2>7. \A o \in ObserverSlots : ~Live(o)' => observers'[o].owner = NoOwner
    BY <1>1 DEF OInv, TablesExact, Live
  <2> QED BY <2>1, <2>3, <2>5, <2>6, <2>7 DEF TablesExact, Live
<1> QED BY <1>8, <1>9, <1>10 DEF Accounts

(* observe(): the new registration has the innermost owner, or none and is *)
(* a root; its two frames begin with nothing.                              *)
LEMMA RegisterAccounts ==
  ASSUME OInv, NEW o \in ObserverSlots, NEW kind \in {"effect", "derived"},
         NEW output \in Handle \cup {NoHandle}, NEW V \in SUBSET ValueSlots,
         Register(o, kind, output, V),
         \A v \in V : Holders(ValueItem(v)) = {},
         \A v \in ValueSlots : values'[v] = "none" => values[v] = "none" /\ v \notin V,
         freeValues' = {v \in ValueSlots : valueGen'[v] >= 0 /\ values'[v] = "none"},
         \A v \in ValueSlots : valueGen'[v] = -1 => values'[v] = "none"
  PROVE  Accounts'
<1> DEFINE g == NextGen(observerGen[o])
           h == [slot |-> o, gen |-> g]
           new == [values |-> V, effects |-> {h}]
           base == WithOwned(V, {h})
           low == base \o <<Guard("install")>>
           eval == Evaluation(o, g, output)
<1>1. /\ o \in AllocatableObservers
      /\ freeObservers' = freeObservers \ {o}
      /\ observerGen' = [observerGen EXCEPT ![o] = g]
      /\ observers' = [observers EXCEPT
           ![o] = [kind |-> kind, deps |-> {}, output |-> output, owner |-> NoOwner]]
      /\ stack' = low \o eval
      /\ roots' = IF Unowned THEN roots \cup {h} ELSE roots
      /\ UNCHANGED <<subscribers, dirty, held>>
  BY DEF Register
<1>2. /\ TypeOK /\ stack \in Seq(Frame)
      /\ FramesSound(stack, values, observerGen, observers)
      /\ roots \subseteq [slot : ObserverSlots, gen : Nat]
  BY DEF OInv, SInv, IInv, TypeOK
<1>3. /\ g \in Nat /\ g = observerGen[o] + 1 /\ observerGen[o] \in Nat \cup {-1}
      /\ ~(g <= observerGen[o]) /\ g \in Int
  BY <1>2 DEF TypeOK, NextGen
<1>4. ~Live(o)
  BY <1>1 DEF AllocatableObservers, Allocatable, OInv, SInv, IInv, Wakeups, FreeObserversDead
<1>5. {h} \in SUBSET [slot : ObserverSlots, gen : Nat]
  BY <1>3
<1>6. \A p \in ObserverSlots :
        /\ p # o => observers'[p] = observers[p] /\ observerGen'[p] = observerGen[p]
        /\ observerGen'[o] = g
        /\ observers'[o].owner = NoOwner /\ observers'[o].kind # "none"
        /\ observers'[p].owner = observers[p].owner
        /\ Live(p)' <=> Live(p) \/ p = o
  <2>1. /\ \A p \in ObserverSlots :
             p # o => observers'[p] = observers[p] /\ observerGen'[p] = observerGen[p]
        /\ observerGen'[o] = g
        /\ observers'[o] = [kind |-> kind, deps |-> {}, output |-> output, owner |-> NoOwner]
    BY <1>1, <1>2 DEF TypeOK
  <2>2. observers'[o].owner = NoOwner /\ observers'[o].kind = kind
    BY <2>1
  <2>3. observers[o].owner = NoOwner
    BY <1>4 DEF OInv, TablesExact
  <2> HIDE DEF g
  <2> QED BY <2>1, <2>2, <2>3 DEF Live
<1> HIDE DEF g
<1>7. /\ EffectItem(o, g) = <<"effect", h>> /\ EffectItem(o, g) \in Items
      /\ Holders(EffectItem(o, g)) = {}
  <2>1. EffectItem(o, g) \in Items
    BY <1>3, ItemTypes
  <2>2. Holders(EffectItem(o, g)) = {}
    BY <1>3 DEF OInv, Owned, Exclusive
  <2> QED BY <2>1, <2>2 DEF EffectItem
<1>8. \A x \in Items : Holds(new, x) <=> x = EffectItem(o, g) \/ \E v \in V : x = ValueItem(v)
  BY DEF Holds, Items, ValueItem, EffectItem
<1>9. \A x \in Items : Holds(new, x) => Holders(x) = {}
  BY <1>7, <1>8
<1> HIDE DEF h, eval
<1>10. /\ base \in Seq(Frame)
       /\ low \in Seq(Frame) /\ low = Append(base, Guard("install"))
  <2>1. base \in Seq(Frame)
    BY <1>2, <1>5, WithOwnedStack
  <2>2. Guard("install") \in Frame
    BY GuardFrame
  <2> HIDE DEF base
  <2> QED BY <2>1, <2>2, AppendIsConcat
<1> HIDE DEF low
<1>11. \A x : FramesHolding(x, stack') = FramesHolding(x, base)
  <2>1. \A x : FramesHolding(x, low) = FramesHolding(x, base)
    <3>1. Guard("install") \in Frame /\ Guard("install").owned = NoOwner
      BY GuardFresh
    <3> HIDE DEF base
    <3> QED BY <1>10, <3>1, AppendedFramesHolding
  <2>2. \A x : FramesHolding(x, low \o eval) = FramesHolding(x, low)
    <3>1. /\ low \in Seq(Frame) /\ o \in ObserverSlots /\ g \in Int
          /\ output \in Handle \cup {NoHandle}
      BY <1>3, <1>10
    <3> QED BY ONLY <3>1, EvaluationFramesHolding DEF eval
  <2> QED BY <1>1, <2>1, <2>2
<1>12. ASSUME NEW x \in Items
       PROVE  /\ Holds(new, x) => AtMostOne(Holders(x)') /\ (Holders(x)' = {} <=> Unowned)
              /\ ~Holds(new, x) => Holders(x)' = Holders(x)
  <2>1. \A y : FramesHolding(y, stack') = FramesHolding(y, WithOwned(V, {h}))
    BY <1>11
  <2>2. \A p \in ObserverSlots :
          observers'[p].owner = observers[p].owner \/ observers'[p].owner = NoOwner
    BY <1>6
  <2>3. Holds(new, x) =>
          /\ AtMostOne(HoldersIn(x, stack', observers', held))
          /\ HoldersIn(x, stack', observers', held) = {} <=> Unowned
    BY <1>5, <1>9, <2>1, <2>2, AllocatedHolders
  <2>4. ~Holds(new, x) => FramesHolding(x, stack') = FramesHolding(x, stack)
    <3>1. ~Holds(new, x) => FramesHolding(x, WithOwned(V, {h})) = FramesHolding(x, stack)
      BY <1>2, <1>5, WithOwnedHolding
    <3> HIDE DEF new, base
    <3> QED BY <2>1, <3>1
  <2>5. ~Holds(new, x) => HoldersIn(x, stack', observers', held) = HoldersIn(x, stack, observers, held)
    BY <1>6, <2>4, SameHolders
  <2> QED BY <1>1, <2>3, <2>5 DEF Holders
<1> HIDE DEF new, base
<1>13. Owned'
  <2>1. \A x \in Items : AtMostOne(Holders(x)')
    BY <1>12 DEF OInv, Owned, Exclusive
  <2>2. \A v \in ValueSlots : v \notin V => ~Holds(new, ValueItem(v)) /\ ValueItem(v) \in Items
    BY ItemTypes DEF new
  <2>3. \A v \in ValueSlots : values'[v] = "none" => Holders(ValueItem(v))' = {}
    BY <1>12, <2>2 DEF OInv, Owned, Exclusive
  <2>4. ASSUME NEW p \in ObserverSlots, NEW n \in Nat, <<p, n>> # <<o, g>>
        PROVE  Holders(EffectItem(p, n))' = Holders(EffectItem(p, n))
    <3>1. EffectItem(p, n) \in Items
      BY ItemTypes
    <3>2. [slot |-> p, gen |-> n] # h
      BY <2>4 DEF h
    <3>3. ~Holds(new, EffectItem(p, n))
      <4>1. new.effects = {h}
        BY DEF new
      <4> QED BY <3>2, <4>1 DEF Holds, EffectItem
    <3> QED BY <1>12, <3>1, <3>3
  <2>5. \A p \in ObserverSlots, n \in Nat : Holders(EffectItem(p, n))' # {} => n <= observerGen'[p]
    <3> SUFFICES ASSUME NEW p \in ObserverSlots, NEW n \in Nat, Holders(EffectItem(p, n))' # {}
                 PROVE  n <= observerGen'[p]
      OBVIOUS
    <3>1. CASE p = o /\ n = g
      BY <1>3, <1>6, <3>1
    <3>2. CASE <<p, n>> # <<o, g>>
      <4>1. Holders(EffectItem(p, n)) # {}
        BY <2>4, <3>2
      <4>2. n <= observerGen[p]
        BY <4>1 DEF OInv, Owned, Exclusive
      <4> QED BY <1>3, <1>6, <4>2
    <3> QED BY <3>1, <3>2
  <2>6. Exclusive'
    BY <2>1, <2>3, <2>5 DEF Exclusive
  <2>7. Adopted'
    <3> SUFFICES ASSUME NEW p \in ObserverSlots, Live(p)'
                 PROVE  [slot |-> p, gen |-> observerGen'[p]] \in roots'
                          <=> Holders(EffectItem(p, observerGen[p]))' = {}
      BY DEF Adopted
    <3> DEFINE n == observerGen'[p]
    <3>1. CASE p = o
      <4>1. h \notin roots
        BY <1>3 DEF h, OInv, Owned, RootsSurvive
      <4>2. n = g /\ [slot |-> p, gen |-> n] = h
        BY <1>6, <3>1 DEF h
      <4>3. Holds(new, EffectItem(o, g))
        BY <1>7 DEF new, Holds
      <4>4. HoldersIn(EffectItem(o, g), stack', observers', held') = {} <=> Unowned
        BY <1>7, <1>12, <4>3 DEF Holders
      <4>5. Holders(EffectItem(p, observerGen[p]))' = HoldersIn(EffectItem(o, g), stack', observers', held')
        BY <3>1, <4>2 DEF Holders, EffectItem
      <4> QED BY <1>1, <4>1, <4>2, <4>4, <4>5
    <3>2. CASE p # o
      <4>1. Live(p) /\ n = observerGen[p]
        BY <1>6, <3>2
      <4>2. observerGen[p] \in Nat
        BY <1>2, <4>1 DEF TypeOK, OInv, SInv, IInv, Wakeups, FreeObserversDead
      <4> DEFINE k == observerGen[p]
      <4>3. [slot |-> p, gen |-> k] \in roots <=> Holders(EffectItem(p, k)) = {}
        BY <4>1 DEF OInv, Owned, Adopted
      <4>4. HoldersIn(EffectItem(p, k), stack', observers', held') = Holders(EffectItem(p, k))
        <5> HIDE DEF k
        <5>1. k \in Nat
          BY <4>2 DEF k
        <5> QED BY <2>4, <3>2, <5>1 DEF Holders
      <4>5. [slot |-> p, gen |-> k] # h
        BY <3>2 DEF h
      <4>6. [slot |-> p, gen |-> k] \in roots' <=> [slot |-> p, gen |-> k] \in roots
        BY <1>1, <4>5
      <4>7. Holders(EffectItem(p, observerGen[p]))' = HoldersIn(EffectItem(p, k), stack', observers', held')
        BY <4>1 DEF Holders, EffectItem
      <4> QED BY <4>1, <4>3, <4>4, <4>6, <4>7
    <3> QED BY <3>1, <3>2
  <2>8. RootsSurvive'
    <3> SUFFICES ASSUME NEW r \in roots'
                 PROVE  observerGen'[r.slot] = r.gen /\ Live(r.slot)'
      BY DEF RootsSurvive, Live
    <3>1. CASE r = h
      BY <1>6, <3>1 DEF h
    <3>2. CASE r # h
      <4>1. r \in roots /\ r.slot \in ObserverSlots
        BY <1>1, <1>2, <3>2
      <4>2. observerGen[r.slot] = r.gen /\ Live(r.slot)
        BY <4>1 DEF OInv, Owned, RootsSurvive
      <4> QED BY <1>4, <1>6, <4>1, <4>2
    <3> QED BY <3>1, <3>2
  <2> QED BY <2>6, <2>7, <2>8 DEF Owned
<1>14. FramesSound(stack', values', observerGen', observers')
  <2>1. DOMAIN base = DOMAIN stack
    BY DEF base, WithOwned
  <2>2. ASSUME NEW i \in DOMAIN stack PROVE FrameSound(base[i], values', observerGen', observers')
    <3>1. FrameSound(stack[i], values, observerGen, observers)
      BY <1>2 DEF FramesSound
    <3>2. /\ base[i] \in Frame
          /\ base[i].type = stack[i].type /\ base[i].slot = stack[i].slot /\ base[i].gen = stack[i].gen
          /\ base[i].reads = stack[i].reads
          /\ ~Innermost(i, {"run", "region"}) => base[i] = stack[i]
      <4>1. stack \in Seq(Frame) /\ V \in SUBSET ValueSlots
        BY <1>2
      <4> QED BY ONLY <1>5, <2>2, <4>1, WithOwnedFrames DEF base
    <3>3. base[i].type \notin {"run", "region"} => base[i].owned = stack[i].owned
      BY <3>2 DEF Innermost
    <3>4. base[i].type = "run" /\ observerGen'[base[i].slot] = base[i].gen =>
            observers'[base[i].slot].owner = NoOwner
      <4>1. base[i].type = "run" => base[i].slot \in ObserverSlots
        BY <3>2 DEF Frame
      <4> QED BY <1>6, <3>1, <3>2, <4>1 DEF FrameSound
    <3> QED BY <3>1, <3>2, <3>3, <3>4 DEF FrameSound
  <2>3. FramesSound(base, values', observerGen', observers')
    BY <2>1, <2>2 DEF FramesSound
  <2>4. FramesSound(low, values', observerGen', observers')
    BY <1>10, <2>3, GuardFresh, AppendedSound
  <2>5. FramesSound(low \o eval, values', observerGen', observers')
    BY <1>3, <1>6, <1>10, <2>4, EvaluationSound DEF eval
  <2> QED BY <1>1, <2>5
<1>15. TablesExact'
  <2>1. freeObservers' = {p \in ObserverSlots : observerGen'[p] >= 0 /\ ~Live(p)'}
    BY <1>1, <1>6 DEF OInv, TablesExact, FreeListsExact
  <2>2. \A v \in ValueSlots : values'[v] = "none" => subscribers'[v] = {}
    BY <1>1 DEF OInv, TablesExact
  <2>3. \A v \in freeValues' : subscribers'[v] = {}
    BY <2>2
  <2>4. FreeListsExact'
    BY <2>1, <2>3 DEF FreeListsExact, Live
  <2>5. DirtyAreLive'
    BY <1>1, <1>2, <1>6 DEF TypeOK, OInv, TablesExact, DirtyAreLive, Live
  <2>6. \A p \in ObserverSlots : ~Live(p)' => observers'[p].owner = NoOwner
    BY <1>6 DEF OInv, TablesExact
  <2> QED BY <2>2, <2>4, <2>5, <2>6 DEF TablesExact, Live
<1>16. FramesSound(stack, values, observerGen, observers)'
  BY <1>14
<1> QED BY <1>13, <1>15, <1>16 DEF Accounts

-----------------------------------------------------------------------------
(* An owner that changes hands.                                            *)

(* The owner of the innermost guard, if it owns x, is all x has.           *)
LEMMA InnermostHolds ==
  ASSUME OInv, stack # <<>>, NEW x \in Items
  PROVE  /\ <<"frame", Len(stack)>> \in Holders(x) <=> Holds(Top.owned, x)
         /\ Holds(Top.owned, x) => /\ FramesHolding(x, Popped) = {}
                                   /\ ObserversHolding(x, observers) = {}
                                   /\ HeldHolding(x, held) = {}
         /\ ~Holds(Top.owned, x) => FramesHolding(x, Popped) = FramesHolding(x, stack)
<1> DEFINE pl == <<"frame", Len(stack)>>
<1>1. stack \in Seq(Frame) /\ Len(stack) \in DOMAIN stack /\ Top = stack[Len(stack)]
  BY DEF OInv, SInv, IInv, TypeOK, Top
<1>2. pl \in Holders(x) <=> Holds(Top.owned, x)
  BY <1>1, HolderCases DEF Holders
<1>3. FramesHolding(x, Popped) = FramesHolding(x, stack) \ {pl}
  BY <1>1, PoppedFramesHolding
<1>4. pl \notin ObserversHolding(x, observers) /\ pl \notin HeldHolding(x, held)
  BY DEF ObserversHolding, HeldHolding
<1>5. AtMostOne(Holders(x))
  BY DEF OInv, Owned, Exclusive
<1> HIDE DEF pl
<1>6. ASSUME Holds(Top.owned, x)
      PROVE  /\ FramesHolding(x, Popped) = {} /\ ObserversHolding(x, observers) = {}
             /\ HeldHolding(x, held) = {}
  <2>1. \A q \in Holders(x) : q = pl
    BY <1>2, <1>5, <1>6 DEF AtMostOne
  <2> QED BY <1>3, <1>4, <2>1 DEF Holders, HoldersIn
<1>7. ASSUME ~Holds(Top.owned, x)
      PROVE  FramesHolding(x, Popped) = FramesHolding(x, stack)
  <2>1. pl \notin FramesHolding(x, stack)
    BY <1>2, <1>7 DEF Holders, HoldersIn
  <2> QED BY <1>3, <2>1
<1> QED BY <1>2, <1>6, <1>7 DEF pl

(* What had one owner, and has another.                                    *)
LEMMA OneOwner ==
  ASSUME NEW S, NEW T, NEW q, NEW c \in BOOLEAN,
         AtMostOne(S), c => S # {} /\ T = {q}, ~c => T = S
  PROVE  AtMostOne(T) /\ (T = {} <=> S = {})
  BY DEF AtMostOne

(* A region ends: the view holds what it owns.                             *)
LEMMA EndRegionAccounts ==
  ASSUME OInv, EndRegion
  PROVE  Accounts'
<1> USE DEF valueTable, observerTable
<1>1. /\ stack # <<>> /\ stack' = Popped
      /\ held' = IF Top.owned = NoOwner THEN held ELSE held \cup {Top.owned}
      /\ UNCHANGED <<values, freeValues, valueGen, freeObservers, observerGen, observers,
                     subscribers, dirty, roots>>
  BY DEF EndRegion, TopIs
<1>2. FramesSound(Popped, values, observerGen, observers)
  BY <1>1, PoppedSound
<1> DEFINE w == Top.owned
           pl == <<"held", w>>
<1>3. ASSUME NEW x \in Items, Holds(w, x) PROVE HoldersIn(x, Popped, observers, held') = {pl}
  <2>1. w # NoOwner
    BY <1>3, NothingHeld
  <2>2. /\ FramesHolding(x, Popped) = {} /\ ObserversHolding(x, observers) = {}
        /\ HeldHolding(x, held) = {}
    BY <1>1, <1>3, InnermostHolds
  <2>3. held' = held \cup {w}
    BY <1>1, <2>1
  <2> HIDE DEF w
  <2>4. {g \in held' : Holds(g, x)} = {w}
    BY <1>3, <2>2, <2>3 DEF HeldHolding
  <2>5. HeldHolding(x, held') = {pl}
    BY <2>4 DEF HeldHolding
  <2> QED BY <2>2, <2>5 DEF HoldersIn
<1>4. ASSUME NEW x \in Items, ~Holds(w, x) PROVE HoldersIn(x, Popped, observers, held') = Holders(x)
  <2>1. FramesHolding(x, Popped) = FramesHolding(x, stack)
    BY <1>1, <1>4, InnermostHolds
  <2>2. HeldHolding(x, held') = HeldHolding(x, held)
    BY <1>1, <1>4 DEF HeldHolding
  <2> QED BY <2>1, <2>2 DEF Holders, HoldersIn
<1>5. ASSUME NEW x \in Items
      PROVE  AtMostOne(Holders(x)') /\ (Holders(x)' = {} <=> Holders(x) = {})
  <2>1. AtMostOne(Holders(x))
    BY DEF OInv, Owned, Exclusive
  <2>2. Holds(w, x) => Holders(x) # {}
    BY <1>1, InnermostHolds
  <2>3. AtMostOne(HoldersIn(x, Popped, observers, held'))
        /\ (HoldersIn(x, Popped, observers, held') = {} <=> Holders(x) = {})
    <3> HIDE DEF pl, w
    <3> QED BY <1>3, <1>4, <2>1, <2>2, OneOwner DEF Holds
  <2>4. Holders(x)' = HoldersIn(x, Popped, observers, held')
    BY <1>1 DEF Holders
  <2> QED BY <2>3, <2>4
<1>6. \A o \in ObserverSlots : Live(o)' <=> Live(o)
  BY <1>1 DEF Live
<1>7. Owned'
  BY <1>1, <1>5, <1>6, OwnersKept
<1>8. /\ \A v \in ValueSlots : values[v] = "none" => subscribers'[v] = {}
      /\ \A o \in dirty' : o \in ObserverSlots /\ Live(o)
      /\ \A o \in ObserverSlots : ~Live(o) => observers'[o].owner = NoOwner
      /\ \A v \in ValueSlots : values'[v] = "none" <=> values[v] = "none"
      /\ FramesSound(stack', values, observerGen, observers')
  BY <1>1, <1>2 DEF OInv, TablesExact, DirtyAreLive, SInv, IInv, TypeOK
<1> QED BY <1>1, <1>6, <1>7, <1>8, AccountsKept

(* A run ends: its registration keeps what it allocated, or it is released *)
(* if the registration is gone.                                            *)
LEMMA FinishRunAccounts ==
  ASSUME OInv, FinishRun
  PROVE  Accounts'
<1> USE DEF valueTable, observerTable
<1> DEFINE o == Top.slot
           w == Top.owned
           pl == <<"observer", o>>
<1>1. /\ stack # <<>> /\ Top.type = "run" /\ UNCHANGED <<observerGen, held, roots>>
  BY DEF FinishRun, TopIs
<1>2. /\ stack \in Seq(Frame) /\ TypeOK /\ o \in ObserverSlots
      /\ Top \in Frame
      /\ FrameSound(Top, values, observerGen, observers)
      /\ FramesSound(Popped, values, observerGen, observers)
      /\ Top = stack[Len(stack)] /\ Len(stack) \in DOMAIN stack
      /\ \A i \in DOMAIN Popped : i \in DOMAIN stack /\ i # Len(stack) /\ Popped[i] = stack[i]
  <2>1. /\ stack \in Seq(Frame) /\ TypeOK
    BY DEF OInv, SInv, IInv, TypeOK
  <2>2. /\ Top \in Frame
        /\ FrameSound(Top, values, observerGen, observers)
        /\ FramesSound(Popped, values, observerGen, observers)
    BY <1>1, PoppedSound
  <2>3. o \in ObserverSlots
    BY <1>1, <2>2 DEF Frame
  <2>4. /\ Top = stack[Len(stack)] /\ Len(stack) \in DOMAIN stack
        /\ \A i \in DOMAIN Popped : i \in DOMAIN stack /\ i # Len(stack) /\ Popped[i] = stack[i]
    BY <1>1, <2>1 DEF Top, Popped
  <2> QED BY <2>1, <2>2, <2>3, <2>4
<1>3. CASE ~(observerGen[o] = Top.gen /\ Live(o))
  <2> DEFINE D == Doomed(OwnedEffects(Top.owned))
             V == DoomedValues(D) \cup Top.owned.values
  <2>1. /\ Release(D, V, dirty) /\ observers' = Survivors(D, V)
        /\ stack' = Forget(Popped, V) /\ UNCHANGED <<valueGen, observerGen, roots, held>>
    BY <1>3 DEF FinishRun
  <2> HIDE DEF D, V
  <2> QED BY <1>1, <2>1, DropTopAccounts DEF D, V
<1>4. CASE observerGen[o] = Top.gen /\ Live(o)
  <2>1. /\ observers' = [observers EXCEPT ![o].owner = w] /\ stack' = Popped
        /\ UNCHANGED <<values, freeValues, valueGen, subscribers, freeObservers, dirty>>
    BY <1>4 DEF FinishRun
  <2>2. \A p \in ObserverSlots :
          /\ observers'[p].kind = observers[p].kind
          /\ observers'[p].owner = IF p = o THEN w ELSE observers[p].owner
    BY <1>2, <2>1 DEF TypeOK, Observer
  <2>3. observers[o].owner = NoOwner
    BY <1>1, <1>2, <1>4 DEF FrameSound
  <2>4. ASSUME NEW x \in Items, Holds(w, x)
        PROVE  HoldersIn(x, Popped, observers', held) = {pl}
    <3>1. /\ FramesHolding(x, Popped) = {} /\ ObserversHolding(x, observers) = {}
          /\ HeldHolding(x, held) = {}
      BY <1>1, <2>4, InnermostHolds
    <3>2. \A p \in ObserverSlots : ~Holds(observers[p].owner, x)
      BY <3>1 DEF ObserversHolding
    <3> HIDE DEF w, o
    <3>3. {p \in ObserverSlots : Holds(observers'[p].owner, x)} = {o}
      BY <1>2, <2>2, <2>4, <3>2
    <3>4. ObserversHolding(x, observers') = {pl}
      BY <3>3 DEF ObserversHolding
    <3> QED BY <3>1, <3>4 DEF HoldersIn
  <2>5. ASSUME NEW x \in Items, ~Holds(w, x)
        PROVE  HoldersIn(x, Popped, observers', held) = Holders(x)
    <3>1. FramesHolding(x, Popped) = FramesHolding(x, stack)
      BY <1>1, <2>5, InnermostHolds
    <3> HIDE DEF w, o
    <3>2. {p \in ObserverSlots : Holds(observers'[p].owner, x)}
            = {p \in ObserverSlots : Holds(observers[p].owner, x)}
      BY <2>2, <2>3, <2>5, NothingHeld
    <3> QED BY <3>1, <3>2 DEF Holders, HoldersIn, ObserversHolding
  <2>6. ASSUME NEW x \in Items
        PROVE  AtMostOne(Holders(x)') /\ (Holders(x)' = {} <=> Holders(x) = {})
    <3>1. AtMostOne(Holders(x))
      BY DEF OInv, Owned, Exclusive
    <3>2. Holds(w, x) => Holders(x) # {}
      BY <1>1, InnermostHolds
    <3>3. AtMostOne(HoldersIn(x, Popped, observers', held))
          /\ (HoldersIn(x, Popped, observers', held) = {} <=> Holders(x) = {})
      <4> HIDE DEF pl, w
      <4> QED BY <2>4, <2>5, <3>1, <3>2, OneOwner DEF Holds
    <3>4. Holders(x)' = HoldersIn(x, Popped, observers', held)
      BY <1>1, <2>1 DEF Holders
    <3> QED BY <3>3, <3>4
  <2>7. \A p \in ObserverSlots : Live(p)' <=> Live(p)
    BY <2>2 DEF Live
  <2>8. Owned'
    BY <1>1, <2>1, <2>6, <2>7, OwnersKept
  <2>9. FramesSound(Popped, values, observerGen, observers')
    <3> SUFFICES ASSUME NEW i \in DOMAIN Popped
                 PROVE  FrameSound(Popped[i], values, observerGen, observers')
      BY DEF FramesSound
    <3>1. FrameSound(Popped[i], values, observerGen, observers)
      BY <1>2 DEF FramesSound
    <3>2. Popped[i] = stack[i] /\ i \in DOMAIN stack /\ i # Len(stack) /\ stack[i] \in Frame
      BY <1>2
    <3>3. stack[i].type = "run" => stack[i].slot \in ObserverSlots
      BY <3>2 DEF Frame
    <3>4. ~(stack[i].type = "run" /\ stack[i].slot = o /\ stack[i].gen = Top.gen)
      BY <1>1, <1>2, <3>2 DEF OInv, SInv, Settling, Orderly, Entered
    <3>5. stack[i].type = "run" /\ observerGen[stack[i].slot] = stack[i].gen
            => observers'[stack[i].slot].owner = NoOwner
      <4> HIDE DEF o
      <4> QED BY <1>4, <2>2, <3>1, <3>2, <3>3, <3>4 DEF FrameSound
    <3> QED BY <3>1, <3>2, <3>5 DEF FrameSound
  <2>10. /\ \A v \in ValueSlots : values[v] = "none" => subscribers'[v] = {}
         /\ \A p \in dirty' : p \in ObserverSlots /\ Live(p)
         /\ \A p \in ObserverSlots : ~Live(p) => observers'[p].owner = NoOwner
         /\ \A v \in ValueSlots : values'[v] = "none" <=> values[v] = "none"
         /\ FramesSound(stack', values, observerGen, observers')
    <3>1. \A p \in ObserverSlots : ~Live(p) => observers'[p].owner = NoOwner
      BY <1>4, <2>2 DEF OInv, TablesExact
    <3> QED BY <1>2, <2>1, <2>9, <3>1 DEF OInv, TablesExact, DirtyAreLive, TypeOK
  <2> QED BY <1>1, <2>1, <2>7, <2>8, <2>10, AccountsKept
<1> QED BY <1>3, <1>4

-----------------------------------------------------------------------------
(* Steps that allocate and release nothing.                                *)

(* The tables a step leaves alone stay exact.                              *)
LEMMA QuietAccounts ==
  ASSUME OInv,
         \A x \in Items : FramesHolding(x, stack') = FramesHolding(x, stack),
         FramesSound(stack', values, observerGen, observers),
         UNCHANGED <<values, freeValues, valueGen, subscribers, observers, freeObservers,
                     observerGen, roots, held>>,
         \/ UNCHANGED dirty
         \/ \E v \in ValueSlots : dirty' = dirty \cup subscribers[v]
  PROVE  Accounts'
<1>1. \A v \in ValueSlots : values[v] = "none" => subscribers'[v] = {}
  BY DEF OInv, TablesExact
<1>2. \A v \in ValueSlots : \A o \in subscribers[v] : o \in ObserverSlots /\ Live(o)
  BY DEF OInv, SInv, IInv, TypeOK, Wakeups, SubscriptionsMatch
<1>3. \A o \in dirty : o \in ObserverSlots /\ Live(o)
  BY DEF OInv, SInv, IInv, TypeOK, TablesExact, DirtyAreLive
<1>4. \A o \in dirty' : o \in ObserverSlots /\ Live(o)
  BY <1>2, <1>3
<1>5. /\ \A v \in ValueSlots : values'[v] = "none" <=> values[v] = "none"
      /\ \A o \in ObserverSlots : /\ observers'[o].owner = observers[o].owner
                                  /\ observers'[o].kind = observers[o].kind
      /\ FramesSound(stack', values, observerGen, observers')
  OBVIOUS
<1> QED BY <1>1, <1>4, <1>5, AccountsQuiet

(* A guard is pushed that owns nothing, after a change or without one.     *)
LEMMA PushedAccounts ==
  ASSUME OInv, NEW f \in Frame, FrameSound(f, values, observerGen, observers),
         f.owned = NoOwner,
         UNCHANGED <<values, freeValues, valueGen, subscribers, observers, freeObservers,
                     observerGen, roots, held, dirty>>,
         stack' = Append(stack, f)
  PROVE  Accounts'
<1>1. stack \in Seq(Frame) /\ FramesSound(stack, values, observerGen, observers)
  BY DEF OInv, SInv, IInv, TypeOK
<1>2. FramesSound(stack', values, observerGen, observers)
  BY <1>1, AppendedSound
<1>3. \A x : FramesHolding(x, stack') = FramesHolding(x, stack)
  BY <1>1, AppendedFramesHolding
<1> QED BY <1>2, <1>3, QuietAccounts

(* flush(), deferred or begun, on the stack or below its innermost guard.  *)
LEMMA FlushedAccounts ==
  ASSUME OInv,
         \/ stack' = WithFlush(stack)
         \/ stack # <<>> /\ Top.type \notin {"run", "region"} /\ stack' = WithFlush(Popped)
         \/ stack # <<>> /\ Top.type \notin {"run", "region"} /\ stack' = Popped
         \/ UNCHANGED stack,
         UNCHANGED <<values, freeValues, valueGen, subscribers, observers, freeObservers,
                     observerGen, roots, held>>,
         \/ UNCHANGED dirty
         \/ \E v \in ValueSlots : dirty' = dirty \cup subscribers[v]
  PROVE  Accounts'
<1>1. stack \in Seq(Frame) /\ FramesSound(stack, values, observerGen, observers)
  BY DEF OInv, SInv, IInv, TypeOK
<1>2. CASE stack' = WithFlush(stack)
  <2>1. /\ FramesSound(stack', values, observerGen, observers)
        /\ \A x : FramesHolding(x, stack') = FramesHolding(x, stack)
    BY <1>1, <1>2, FlushedSound
  <2> QED BY <2>1, QuietAccounts
<1>3. CASE stack # <<>> /\ Top.type \notin {"run", "region"} /\ stack' = WithFlush(Popped)
  <2>1. /\ Popped \in Seq(Frame) /\ FramesSound(Popped, values, observerGen, observers)
        /\ \A x : FramesHolding(x, Popped) = FramesHolding(x, stack)
    BY <1>3, PoppedSound
  <2>2. /\ FramesSound(stack', values, observerGen, observers)
        /\ \A x : FramesHolding(x, stack') = FramesHolding(x, stack)
    BY <1>3, <2>1, FlushedSound
  <2> QED BY <2>2, QuietAccounts
<1>4. CASE stack # <<>> /\ Top.type \notin {"run", "region"} /\ stack' = Popped
  <2>1. /\ FramesSound(stack', values, observerGen, observers)
        /\ \A x : FramesHolding(x, stack') = FramesHolding(x, stack)
    BY <1>4, PoppedSound
  <2> QED BY <2>1, QuietAccounts
<1>5. CASE UNCHANGED stack
  BY <1>1, <1>5, QuietAccounts
<1> QED BY <1>2, <1>3, <1>4, <1>5

(* try_get: only captures read, and only values there are.                 *)
LEMMA ReadAccounts ==
  ASSUME OInv, NEW v \in ValueSlots, Read(v)
  PROVE  Accounts'
<1> USE DEF valueTable, observerTable
<1>1. PICK i \in DOMAIN stack : /\ Innermost(i, {"capture"})
                                /\ stack' = [stack EXCEPT ![i].reads[v] = revisions[v]]
  BY DEF Read
<1>2. /\ stack \in Seq(Frame) /\ FramesSound(stack, values, observerGen, observers)
      /\ values[v] # "none" /\ stack[i].type = "capture"
      /\ UNCHANGED <<values, freeValues, valueGen, subscribers, observers, freeObservers,
                     observerGen, roots, held, dirty>>
  BY <1>1 DEF OInv, SInv, IInv, TypeOK, Read, Innermost
<1>3. /\ DOMAIN stack' = DOMAIN stack
      /\ \A j \in DOMAIN stack : /\ j # i => stack'[j] = stack[j]
                                 /\ stack'[j].owned = stack[j].owned
                                 /\ stack'[j].type = stack[j].type
                                 /\ stack'[j].slot = stack[j].slot
                                 /\ stack'[j].gen = stack[j].gen
                                 /\ \A w \in ValueSlots \ {v} :
                                      stack'[j].reads[w] = stack[j].reads[w]
  <2>1. \A j \in DOMAIN stack : stack[j] \in Frame
    BY <1>2, Depth
  <2>2. /\ DOMAIN stack' = DOMAIN stack
        /\ stack'[i] = [stack[i] EXCEPT !.reads = [stack[i].reads EXCEPT ![v] = revisions[v]]]
        /\ \A j \in DOMAIN stack : j # i => stack'[j] = stack[j]
    BY <1>1
  <2>3. stack[i] \in Frame /\ stack[i].reads \in Reads
    BY <2>1 DEF Frame
  <2>4. /\ stack'[i].owned = stack[i].owned /\ stack'[i].type = stack[i].type
        /\ stack'[i].slot = stack[i].slot /\ stack'[i].gen = stack[i].gen
        /\ stack'[i].reads = [stack[i].reads EXCEPT ![v] = revisions[v]]
    BY <2>2, <2>3 DEF Frame
  <2>5. \A w \in ValueSlots \ {v} : stack'[i].reads[w] = stack[i].reads[w]
    BY <2>3, <2>4 DEF Reads
  <2> QED BY <2>2, <2>4, <2>5
<1>4. \A x : FramesHolding(x, stack') = FramesHolding(x, stack)
  <2>1. SameOwned(stack, stack')
    BY <1>3 DEF SameOwned
  <2> QED BY <2>1, SameFramesHolding
<1>5. FramesSound(stack', values, observerGen, observers)
  <2> SUFFICES ASSUME NEW j \in DOMAIN stack
               PROVE  FrameSound(stack'[j], values, observerGen, observers)
    BY <1>3 DEF FramesSound
  <2>1. FrameSound(stack[j], values, observerGen, observers)
    BY <1>2 DEF FramesSound
  <2>2. CASE j # i
    BY <1>3, <2>1, <2>2
  <2>3. CASE j = i
    BY <1>2, <1>3, <2>1, <2>3 DEF FrameSound
  <2> QED BY <2>2, <2>3
<1> QED BY <1>2, <1>4, <1>5, QuietAccounts

(* Capture::drop: the values read are there, and so is what waits.         *)
LEMMA CaptureAccounts ==
  ASSUME OInv, TopIs("capture"), NEW revs, NEW pending,
         Capture(Top, revs, pending), stack' = Popped,
         \A o \in pending : o \in ObserverSlots /\ Live(o),
         UNCHANGED <<freeValues, valueGen, freeObservers, observerGen, roots, held>>,
         \A v \in ValueSlots : values'[v] = "none" <=> values[v] = "none"
  PROVE  Accounts'
<1> DEFINE o == Top.slot
           new == {v \in ValueSlots : Top.reads[v] # Unread}
<1>1. /\ stack # <<>> /\ Top.type = "capture" /\ TypeOK
      /\ Top \in Frame /\ o \in ObserverSlots
      /\ FrameSound(Top, values, observerGen, observers)
      /\ FramesSound(Popped, values, observerGen, observers)
      /\ \A x : FramesHolding(x, Popped) = FramesHolding(x, stack)
  <2>1. stack # <<>> /\ Top.type = "capture"
    BY DEF TopIs
  <2> QED BY <2>1, PoppedSound DEF OInv, SInv, IInv, Frame
<1>2. \A v \in new : values[v] # "none"
  BY <1>1 DEF FrameSound
<1>3. \A p \in ObserverSlots : /\ observers'[p].owner = observers[p].owner
                               /\ observers'[p].kind = observers[p].kind
  <2>1. CASE observerGen[o] = Top.gen /\ Live(o)
    <3>1. observers' = [observers EXCEPT ![o].deps = new]
      BY <2>1 DEF Capture
    <3> HIDE DEF new, o
    <3> QED BY <1>1, <3>1 DEF TypeOK, Observer
  <2>2. CASE ~(observerGen[o] = Top.gen /\ Live(o))
    BY <2>2 DEF Capture
  <2> QED BY <2>1, <2>2
<1>4. \A v \in ValueSlots : values[v] = "none" => subscribers'[v] = {}
  <2> SUFFICES ASSUME NEW v \in ValueSlots, values[v] = "none" PROVE subscribers'[v] = {}
    OBVIOUS
  <2>1. subscribers[v] = {} /\ v \notin new
    BY <1>2 DEF OInv, TablesExact
  <2>2. CASE observerGen[o] = Top.gen /\ Live(o)
    <3>1. subscribers'[v] \subseteq subscribers[v]
      BY <2>1, <2>2 DEF Capture
    <3> QED BY <2>1, <3>1
  <2>3. CASE ~(observerGen[o] = Top.gen /\ Live(o))
    BY <2>1, <2>3 DEF Capture
  <2> QED BY <2>2, <2>3
<1>5. \A p \in dirty' : p \in ObserverSlots /\ Live(p)
  <2>1. CASE observerGen[o] = Top.gen /\ Live(o)
    <3>1. dirty' = pending \/ dirty' = pending \cup {o}
      BY <2>1 DEF Capture
    <3> QED BY <1>1, <2>1, <3>1
  <2>2. CASE ~(observerGen[o] = Top.gen /\ Live(o))
    BY <2>2 DEF Capture
  <2> QED BY <2>1, <2>2
<1>6. FramesSound(stack', values, observerGen, observers')
  <2> SUFFICES ASSUME NEW i \in DOMAIN Popped
               PROVE  FrameSound(Popped[i], values, observerGen, observers')
    BY DEF FramesSound
  <2>1. FrameSound(Popped[i], values, observerGen, observers)
    BY <1>1 DEF FramesSound
  <2>2. Popped[i] \in Frame
    BY <1>1, PoppedStack, Depth DEF TypeOK
  <2>3. Popped[i].type = "run" => Popped[i].slot \in ObserverSlots
    BY <2>2 DEF Frame
  <2> QED BY <1>3, <2>1, <2>3 DEF FrameSound
<1>7. \A x \in Items : FramesHolding(x, stack') = FramesHolding(x, stack)
  BY <1>1
<1> QED BY <1>3, <1>4, <1>5, <1>6, <1>7, AccountsQuiet

-----------------------------------------------------------------------------
(* Every step keeps the account.                                           *)

(* The steps of user code.                                                 *)
LEMMA UserAccounts ==
  ASSUME OInv, User
  PROVE  Accounts'
<1> USE DEF valueTable, observerTable
<1>0. /\ TypeOK /\ stack \in Seq(Frame)
      /\ \A v \in ValueSlots : \A o \in subscribers[v] : o \in ObserverSlots /\ Live(o)
      /\ \A o \in dirty : o \in ObserverSlots /\ Live(o)
  BY DEF OInv, SInv, IInv, TypeOK, Wakeups, SubscriptionsMatch, TablesExact, DirtyAreLive
<1>1. ASSUME NEW v \in ValueSlots, CreateSignal(v) PROVE Accounts'
  BY <1>1, SignalAccounts
<1>2. ASSUME NEW v \in ValueSlots, Read(v) PROVE Accounts'
  BY <1>2, ReadAccounts
<1>3. ASSUME NEW v \in ValueSlots, Write(v) PROVE Accounts'
  BY <1>3, FlushedAccounts DEF Write, Changed
<1>4. ASSUME NEW v \in ValueSlots, BeginUpdate(v) PROVE Accounts'
  <2> DEFINE f == FrameOf("update", v, valueGen[v], NoHandle)
  <2>1. f \in Frame
    BY <1>0, FrameTypes, ConstantsAssumption DEF FrameType, TypeOK
  <2>2. f.reads = NoReads /\ f.owned = NoOwner /\ f.type # "run"
    BY DEF FrameOf
  <2>3. stack' = Append(stack, f)
    BY <1>4 DEF BeginUpdate
  <2> HIDE DEF f
  <2>4. FrameSound(f, values, observerGen, observers)
    BY <2>1, <2>2, FreshFrame
  <2> QED BY <1>4, <2>1, <2>2, <2>3, <2>4, PushedAccounts DEF BeginUpdate
<1>5. ASSUME EndUpdate PROVE Accounts'
  <2>1. Top \in Frame /\ Top.type = "update" /\ stack # <<>>
    BY <1>0, <1>5, PoppedStack DEF EndUpdate, TopIs
  <2>2. Top.slot \in ValueSlots /\ Top.type \notin {"run", "region"}
    BY <2>1 DEF Frame
  <2> QED BY <1>5, <2>1, <2>2, FlushedAccounts DEF EndUpdate, Changed
<1>6. ASSUME NEW o \in ObserverSlots, CreateEffect(o) PROVE Accounts'
  <2>1. /\ Register(o, "effect", NoHandle, {})
        /\ UNCHANGED <<values, freeValues, valueGen>>
    BY <1>6 DEF CreateEffect
  <2>2. /\ freeValues = {v \in ValueSlots : valueGen[v] >= 0 /\ values[v] = "none"}
        /\ \A v \in ValueSlots : valueGen[v] = -1 => values[v] = "none"
    BY DEF OInv, TablesExact, FreeListsExact
  <2>3. /\ freeValues' = {v \in ValueSlots : valueGen'[v] >= 0 /\ values'[v] = "none"}
        /\ \A v \in ValueSlots : valueGen'[v] = -1 => values'[v] = "none"
        /\ \A v \in ValueSlots : values'[v] = "none" => values[v] = "none" /\ v \notin {}
        /\ \A v \in {} : Holders(ValueItem(v)) = {}
        /\ {} \in SUBSET ValueSlots /\ NoHandle \in Handle \cup {NoHandle}
        /\ "effect" \in {"effect", "derived"}
    BY <2>1, <2>2
  <2> QED BY <2>1, <2>3, RegisterAccounts
<1>7. ASSUME NEW o \in ObserverSlots, Dispose(o) PROVE Accounts'
  BY <1>7, DisposeAccounts
<1>8. ASSUME NEW o \in ObserverSlots, NEW v \in ValueSlots, CreateDerived(o, v)
      PROVE  Accounts'
  <2> DEFINE output == [slot |-> v, gen |-> NextGen(valueGen[v])]
  <2>1. /\ v \in AllocatableValues
        /\ values' = [values EXCEPT ![v] = "uninit"]
        /\ freeValues' = freeValues \ {v}
        /\ valueGen' = [valueGen EXCEPT ![v] = NextGen(@)]
        /\ Register(o, "derived", output, {v})
    BY <1>8 DEF CreateDerived
  <2>2. output \in Handle \cup {NoHandle}
    BY <1>0, AllocatedGeneration DEF Handle
  <2> HIDE DEF output
  <2>3. /\ values'[v] = "uninit" /\ values'[v] # "none"
        /\ \A w \in ValueSlots \ {v} : values'[w] = values[w]
    BY <1>0, <2>1 DEF TypeOK
  <2>4. /\ freeValues' = {w \in ValueSlots : valueGen'[w] >= 0 /\ values'[w] = "none"}
        /\ \A w \in ValueSlots : valueGen'[w] = -1 => values'[w] = "none"
    BY <2>1, <2>3, AllocatedTables
  <2>5. /\ \A w \in {v} : Holders(ValueItem(w)) = {}
        /\ \A w \in ValueSlots : values'[w] = "none" => values[w] = "none" /\ w \notin {v}
        /\ {v} \in SUBSET ValueSlots /\ "derived" \in {"effect", "derived"}
    BY <2>1, <2>3, FreeValue
  <2> QED BY <2>1, <2>2, <2>4, <2>5, RegisterAccounts
<1>9. ASSUME BeginBatch \/ BeginRegion \/ HostFlush PROVE Accounts'
  <2>1. PICK type \in {"batch", "install", "flush", "region"} : stack' = Append(stack, Guard(type))
    BY <1>9 DEF BeginBatch, BeginRegion, HostFlush
  <2>2. /\ Guard(type) \in Frame /\ Guard(type).owned = NoOwner
        /\ FrameSound(Guard(type), values, observerGen, observers)
    BY GuardFresh
  <2>3. UNCHANGED <<values, freeValues, valueGen, subscribers, observers, freeObservers,
                    observerGen, roots, held, dirty>>
    BY <1>9 DEF BeginBatch, BeginRegion, HostFlush
  <2> QED BY <2>1, <2>2, <2>3, PushedAccounts
<1>10. ASSUME EndBatch PROVE Accounts'
  BY <1>10, FlushedAccounts DEF EndBatch, LeaveBatch, TopIs
<1>11. ASSUME EndRegion PROVE Accounts'
  BY <1>11, EndRegionAccounts
<1>12. ASSUME NEW owner \in held, DropHeld(owner) PROVE Accounts'
  BY <1>12, DropHeldAccounts
<1>13. ASSUME ReturnUnchanged PROVE Accounts'
  BY <1>0, <1>13, CaptureAccounts DEF ReturnUnchanged
<1>14. ASSUME ReturnChanged PROVE Accounts'
  <2> DEFINE v == Top.output.slot
             revs == [revisions EXCEPT ![v] = @ + 1]
  <2>1. /\ TopIs("capture") /\ OutputLive(Top) /\ stack' = Popped
        /\ values' = [values EXCEPT ![v] = "derived"]
        /\ Capture(Top, revs, dirty \cup subscribers[v])
        /\ UNCHANGED <<freeValues, valueGen, freeObservers, observerGen, held, roots>>
    BY <1>14 DEF ReturnChanged
  <2>2. v \in ValueSlots
    <3>1. Top \in Frame
      BY <1>0, <2>1, PoppedStack DEF TopIs
    <3> QED BY <2>1, <3>1 DEF OutputLive, Frame, Handle
  <2>3. \A w \in ValueSlots : values'[w] = "none" <=> values[w] = "none"
    BY <1>0, <2>1, <2>2 DEF OutputLive, TypeOK
  <2>4. \A o \in dirty \cup subscribers[v] : o \in ObserverSlots /\ Live(o)
    BY <1>0, <2>2
  <2> HIDE DEF v, revs
  <2> QED BY <2>1, <2>3, <2>4, CaptureAccounts
<1>15. ASSUME Panic PROVE Accounts'
  BY <1>15, FlushedAccounts DEF Panic
<1> QED BY <1>1, <1>2, <1>3, <1>4, <1>5, <1>6, <1>7, <1>8, <1>9, <1>10, <1>11, <1>12,
           <1>13, <1>14, <1>15 DEF User

(* The steps of evaluate, flush and of the guards that unwind.             *)
LEMMA SystemAccounts ==
  ASSUME OInv, System
  PROVE  Accounts'
<1> USE DEF valueTable, observerTable
<1>0. /\ TypeOK /\ stack \in Seq(Frame)
      /\ \A o \in dirty : o \in ObserverSlots /\ Live(o)
  BY DEF OInv, SInv, IInv, TypeOK, TablesExact, DirtyAreLive
<1>1. ASSUME FinishRun PROVE Accounts'
  BY <1>1, FinishRunAccounts
<1>2. ASSUME LeaveInstall PROVE Accounts'
  BY <1>2, FlushedAccounts DEF LeaveInstall, LeaveBatch, TopIs
<1>3. ASSUME NEW o \in ObserverSlots, FlushTurn(o) PROVE Accounts'
  BY <1>3, FlushTurnAccounts
<1>4. ASSUME FlushOverrun \/ Catch PROVE Accounts'
  BY <1>4, FlushedAccounts DEF FlushOverrun, Catch
<1>5. ASSUME FlushDone PROVE Accounts'
  BY <1>5, FlushedAccounts DEF FlushDone, TopIs
<1>6. ASSUME UnwindGuard PROVE Accounts'
  BY <1>6, FlushedAccounts DEF UnwindGuard
<1>7. ASSUME UnwindCapture PROVE Accounts'
  BY <1>0, <1>7, CaptureAccounts DEF UnwindCapture
<1>8. ASSUME UnwindOwner PROVE Accounts'
  <2> DEFINE D == Doomed(OwnedEffects(Top.owned))
             V == DoomedValues(D) \cup Top.owned.values
  <2>1. /\ stack # <<>> /\ Release(D, V, dirty) /\ observers' = Survivors(D, V)
        /\ stack' = Forget(Popped, V) /\ UNCHANGED <<valueGen, observerGen, roots, held>>
    BY <1>8 DEF UnwindOwner, TopIs
  <2> HIDE DEF D, V
  <2> QED BY <2>1, DropTopAccounts DEF D, V
<1>9. ASSUME UnwindUpdate PROVE Accounts'
  <2>1. Top \in Frame /\ Top.type = "update" /\ stack # <<>>
    BY <1>0, <1>9, PoppedStack DEF UnwindUpdate, TopIs
  <2>2. Top.slot \in ValueSlots /\ Top.type \notin {"run", "region"}
    BY <2>1 DEF Frame
  <2> QED BY <1>9, <2>1, <2>2, FlushedAccounts DEF UnwindUpdate, Changed
<1> QED BY <1>1, <1>2, <1>3, <1>4, <1>5, <1>6, <1>7, <1>8, <1>9 DEF System

(* Scope::new owns nothing.                                                *)
LEMMA InitAccounts == Init => Accounts
<1> SUFFICES ASSUME Init PROVE Accounts
  OBVIOUS
<1>1. /\ values = [v \in ValueSlots |-> "none"] /\ freeValues = {}
      /\ valueGen = [v \in ValueSlots |-> -1]
      /\ subscribers = [v \in ValueSlots |-> {}]
      /\ observers = [o \in ObserverSlots |-> NoObserver]
      /\ freeObservers = {} /\ observerGen = [o \in ObserverSlots |-> -1]
      /\ dirty = {} /\ stack = <<>> /\ held = {} /\ roots = {}
  BY DEF Init
<1>2. \A o \in ObserverSlots : observers[o].owner = NoOwner /\ ~Live(o)
  BY <1>1 DEF NoObserver, Live
<1>3. \A x : Holders(x) = {}
  <2> SUFFICES ASSUME NEW x PROVE Holders(x) = {}
    OBVIOUS
  <2>1. \A o \in ObserverSlots : ~Holds(observers[o].owner, x)
    BY <1>2, NothingHeld
  <2> QED BY <1>1, <2>1 DEF Holders, HoldersIn, FramesHolding, ObserversHolding, HeldHolding
<1>4. Owned
  <2>1. Exclusive
    BY <1>3 DEF Exclusive, AtMostOne
  <2>2. Adopted /\ RootsSurvive
    BY <1>1, <1>2 DEF Adopted, RootsSurvive
  <2> QED BY <2>1, <2>2 DEF Owned
<1>5. FramesSound(stack, values, observerGen, observers)
  BY <1>1 DEF FramesSound
<1>6. TablesExact
  <2>1. freeValues = {v \in ValueSlots : valueGen[v] >= 0 /\ values[v] = "none"}
    BY <1>1
  <2>2. freeObservers = {o \in ObserverSlots : observerGen[o] >= 0 /\ ~Live(o)}
    BY <1>1
  <2> QED BY <1>1, <1>2, <2>1, <2>2 DEF TablesExact, FreeListsExact, DirtyAreLive
<1> QED BY <1>4, <1>5, <1>6 DEF Accounts

(* A step of somebody else's changes no account.                           *)
LEMMA StutterAccounts == Accounts /\ UNCHANGED vars => Accounts'
<1> SUFFICES ASSUME Accounts, UNCHANGED vars PROVE Accounts'
  OBVIOUS
<1>1. UNCHANGED <<values, freeValues, valueGen, subscribers, observers, freeObservers,
                  observerGen, dirty, stack, held, roots>>
  BY DEF vars
<1>2. Owned'
  BY <1>1 DEF Accounts, Owned, Exclusive, Adopted, RootsSurvive, Holders, Live
<1>3. FramesSound(stack, values, observerGen, observers)'
  BY <1>1 DEF Accounts
<1>4. TablesExact'
  BY <1>1 DEF Accounts, TablesExact, FreeListsExact, DirtyAreLive, Live
<1> QED BY <1>2, <1>3, <1>4 DEF Accounts

(* The account of slots and registrations, for any nesting of callbacks,   *)
(* batches, regions and disposals, and across panics.                      *)
THEOREM OwnershipInvariant == Spec => []OInv
<1>1. Init => OInv
  BY InitTypes, InitWakeups, InitSettles, InitAccounts DEF OInv, SInv, IInv, Accounts
<1>2. OInv /\ [Next]_vars => Accounts'
  BY UserAccounts, SystemAccounts, StutterAccounts DEF OInv, Accounts, Next
<1>3. SInv /\ [Next]_vars => SInv'
  BY UserTypes, SystemTypes, StutterTypes, UserWakeups, SystemWakeups, StutterWakeups,
     UserSettles, SystemSettles, StutterSettles DEF SInv, IInv, Next
<1>4. OInv /\ [Next]_vars => OInv'
  BY <1>2, <1>3 DEF OInv, Accounts
<1> QED BY <1>1, <1>4, PTL DEF Spec

(* allocate, dispose_observer and ReactiveOwner::drop leak no slot and     *)
(* share none: a live value has one owner at most, a freed one has none,   *)
(* and the free lists hold what was released and nothing else.             *)
THEOREM SlotsExact == Spec => []SlotsAccounted
<1>1. OInv => SlotsAccounted
  <2> SUFFICES ASSUME OInv PROVE SlotsAccounted
    OBVIOUS
  <2>1. ASSUME NEW v \in ValueSlots PROVE ValueOwners(v) = Holders(ValueItem(v))
    <3>1. {j \in DOMAIN stack : StackOwner(j, v)}
            = {j \in DOMAIN stack : Holds(stack[j].owned, ValueItem(v))}
      <4> SUFFICES ASSUME NEW j \in DOMAIN stack
                   PROVE  StackOwner(j, v) <=> Holds(stack[j].owned, ValueItem(v))
        OBVIOUS
      <4>1. stack[j].type \notin {"run", "region"} => stack[j].owned = NoOwner
        BY DEF OInv, FramesSound, FrameSound
      <4>2. v \notin NoOwner.values
        BY DEF NoOwner
      <4> QED BY <4>1, <4>2, ItemTypes DEF StackOwner
    <3>2. {p \in ObserverSlots : v \in observers[p].owner.values}
            = {p \in ObserverSlots : Holds(observers[p].owner, ValueItem(v))}
      BY ItemTypes
    <3>3. {x \in held : v \in x.values} = {x \in held : Holds(x, ValueItem(v))}
      BY ItemTypes
    <3> QED BY <3>1, <3>2, <3>3
            DEF ValueOwners, Holders, HoldersIn, FramesHolding, ObserversHolding, HeldHolding
  <2>2. ASSUME NEW v \in ValueSlots
        PROVE  Cardinality(ValueOwners(v)) <= 1 /\ (values[v] = "none" => ValueOwners(v) = {})
    <3>1. AtMostOne(Holders(ValueItem(v)))
      BY ItemTypes DEF OInv, Owned, Exclusive
    <3>2. values[v] = "none" => Holders(ValueItem(v)) = {}
      BY DEF OInv, Owned, Exclusive
    <3>3. Cardinality(Holders(ValueItem(v))) <= 1
      <4>1. CASE Holders(ValueItem(v)) = {}
        BY <4>1, FS_EmptySet
      <4>2. CASE Holders(ValueItem(v)) # {}
        <5>1. PICK a : Holders(ValueItem(v)) = {a}
          BY <3>1, <4>2 DEF AtMostOne
        <5> QED BY <5>1, FS_Singleton
      <4> QED BY <4>1, <4>2
    <3> QED BY <2>1, <3>2, <3>3
  <2> QED BY <2>2 DEF SlotsAccounted, ValuesOwnedOnce, OInv, TablesExact
<1> QED BY <1>1, OwnershipInvariant, PTL

(* A reaction created inside an owner lives until that owner drops and has *)
(* exactly one, a root lives until its own disposal, and no disposed       *)
(* reaction stays scheduled (Core::evaluate, CaptureOwner::drop,           *)
(* ReactiveOwner::drop, dispose_observer).                                 *)
THEOREM LifetimesExact == Spec => []Lifetimes
<1>1. OInv => Lifetimes
  <2> SUFFICES ASSUME OInv PROVE Lifetimes
    OBVIOUS
  <2>1. ASSUME NEW o \in ObserverSlots
        PROVE  EffectOwners(o) = Holders(EffectItem(o, observerGen[o]))
    <3> DEFINE x == EffectItem(o, observerGen[o])
               h == [slot |-> o, gen |-> observerGen[o]]
    <3>1. \A owner : h \in owner.effects <=> Holds(owner, x)
      BY ItemTypes
    <3>2. EffectOwners(o)
            = {<<"frame", i>> : i \in {j \in DOMAIN stack : h \in stack[j].owned.effects}}
                \cup {<<"observer", p>> : p \in {q \in ObserverSlots : h \in observers[q].owner.effects}}
                \cup {<<"held", g>> : g \in {y \in held : h \in y.effects}}
      BY DEF EffectOwners
    <3> HIDE DEF h, x
    <3> QED BY <3>1, <3>2
            DEF Holders, HoldersIn, FramesHolding, ObserversHolding, HeldHolding, x
  <2>2. ASSUME NEW o \in ObserverSlots, Live(o)
        PROVE  IF [slot |-> o, gen |-> observerGen[o]] \in roots
               THEN EffectOwners(o) = {} ELSE Cardinality(EffectOwners(o)) = 1
    <3> DEFINE S == Holders(EffectItem(o, observerGen[o]))
    <3>1. observerGen[o] \in Nat
      BY <2>2 DEF OInv, SInv, IInv, TypeOK, Wakeups, FreeObserversDead
    <3>2. AtMostOne(S)
      BY <3>1, ItemTypes DEF OInv, Owned, Exclusive
    <3>3. [slot |-> o, gen |-> observerGen[o]] \in roots <=> S = {}
      BY <2>2 DEF OInv, Owned, Adopted
    <3> HIDE DEF S
    <3>4. S # {} => Cardinality(S) = 1
      <4> SUFFICES ASSUME S # {} PROVE Cardinality(S) = 1
        OBVIOUS
      <4>1. PICK a : S = {a}
        BY <3>2 DEF AtMostOne
      <4> QED BY <4>1, FS_Singleton
    <3> QED BY <2>1, <3>3, <3>4 DEF S
  <2> QED BY <2>2 DEF Lifetimes, NoOrphans, OInv, Owned, TablesExact
<1> QED BY <1>1, OwnershipInvariant, PTL

=============================================================================
