-------------------------- MODULE VmBindingsProofs --------------------------
(***************************************************************************)
(* Proofs about VmBindings, for every view and every bound.                *)
(***************************************************************************)
EXTENDS VmBindings, SequenceTheorems, FiniteSetTheorems, WellFoundedInduction, TLAPS

-----------------------------------------------------------------------------
(* The heap.                                                               *)

Handle == [slot : Nat \ {0}, generation : Nat, born : Nat]

(* A handle that was made is of a slot there is; if the slot is free its   *)
(* generation has passed, and if the slot has its generation, the value is *)
(* the one it was made for.                                                *)
Sane(hp, h) ==
  /\ h \in Handle /\ h.slot \in DOMAIN hp.slots /\ h.born <= hp.allocations
  /\ h.generation <= hp.slots[h.slot].generation
  /\ hp.slots[h.slot].value = Free => h.generation < hp.slots[h.slot].generation
  /\ hp.slots[h.slot].value # Free /\ h.generation = hp.slots[h.slot].generation
       => hp.slots[h.slot].created = h.born

Codes == {"view", "handler"} \cup {view[i] : i \in DOMAIN view}

(* What a slot in use may hold.                                            *)
Good(hp, v) ==
  /\ v.kind \in {"number", "text", "cell", "list", "node", "closure"}
  /\ v.kind = "list" => v.items \in Seq(Handle)
  /\ v.kind = "closure" => v.code \in Codes
  /\ \A h \in Kids(v) : Sane(hp, h)

IsSlot(s) ==
  /\ s = [value |-> s.value, generation |-> s.generation,
          created |-> s.created, revision |-> s.revision]
  /\ s.generation \in Nat /\ s.revision \in Nat

IsHeap(hp) ==
  /\ hp = [slots |-> hp.slots, free |-> hp.free, allocations |-> hp.allocations]
  /\ hp.allocations \in Nat
  /\ Len(hp.slots) \in Nat
  /\ hp.slots = [i \in 1 .. Len(hp.slots) |-> hp.slots[i]]
  /\ \A i \in 1 .. Len(hp.slots) : IsSlot(hp.slots[i])

(* The free list names free slots, each once.                              *)
FreeListed(hp) ==
  /\ hp.free \in Seq(Nat)
  /\ \A k \in 1 .. Len(hp.free) : /\ hp.free[k] \in 1 .. Len(hp.slots)
                                  /\ hp.slots[hp.free[k]].value = Free
  /\ \A k, l \in 1 .. Len(hp.free) : hp.free[k] = hp.free[l] => k = l

Filled(hp) ==
  \A i \in 1 .. Len(hp.slots) : hp.slots[i].value = Free \/ Good(hp, hp.slots[i].value)

WellFormed(hp) == IsHeap(hp) /\ FreeListed(hp) /\ Filled(hp)

(* What may happen to a slot.                                              *)
Written(s, t) ==
  /\ s.value # Free /\ t.value # Free
  /\ t.generation = s.generation /\ t.created = s.created
  /\ s.revision < t.revision
  /\ s.value.kind \in {"cell", "list"} /\ t.value.kind = s.value.kind

Freed(s, t) == s.value # Free /\ t.value = Free /\ s.generation < t.generation

Reused(s, t) == s.value = Free /\ t.value # Free /\ t.generation = s.generation

Turns(s, t) == t = s \/ Written(s, t) \/ Freed(s, t) \/ Reused(s, t)

(* What a later heap knows of the handles of an earlier one: they stay     *)
(* sane; one that is valid was, and only cells and lists have changed,     *)
(* with their revisions.                                                   *)
Later(hp, hq) ==
  /\ hp.allocations <= hq.allocations
  /\ Len(hp.slots) <= Len(hq.slots)
  /\ \A h \in Handle : Sane(hp, h) => Sane(hq, h)
  /\ \A h \in Handle : Sane(hp, h) /\ Valid(hq, h) =>
       /\ Valid(hp, h)
       /\ Get(hq, h).kind = Get(hp, h).kind
       /\ Get(hp, h).kind \notin {"cell", "list"} => Get(hq, h) = Get(hp, h)
       /\ hp.slots[h.slot].revision <= hq.slots[h.slot].revision
       /\ hp.slots[h.slot].revision = hq.slots[h.slot].revision => Get(hq, h) = Get(hp, h)

LEMMA HeapTypes ==
  ASSUME NEW hp, IsHeap(hp)
  PROVE  /\ DOMAIN hp.slots = 1 .. Len(hp.slots) /\ Len(hp.slots) \in Nat
         /\ \A i \in DOMAIN hp.slots : /\ hp.slots[i].generation \in Nat
                                       /\ hp.slots[i].revision \in Nat
<1>1. DOMAIN hp.slots = 1 .. Len(hp.slots)
  BY Zenon DEF IsHeap
<1> QED BY <1>1 DEF IsHeap, IsSlot

LEMMA TurnsLater ==
  ASSUME NEW hp, NEW hq, IsHeap(hp), IsHeap(hq),
         hp.allocations <= hq.allocations, Len(hp.slots) <= Len(hq.slots),
         \A i \in 1 .. Len(hp.slots) : Turns(hp.slots[i], hq.slots[i])
  PROVE  Later(hp, hq)
<1>1. ASSUME NEW h \in Handle, Sane(hp, h)
      PROVE  /\ Sane(hq, h)
             /\ Valid(hq, h) =>
                  /\ Valid(hp, h)
                  /\ Get(hq, h).kind = Get(hp, h).kind
                  /\ Get(hp, h).kind \notin {"cell", "list"} => Get(hq, h) = Get(hp, h)
                  /\ hp.slots[h.slot].revision <= hq.slots[h.slot].revision
                  /\ hp.slots[h.slot].revision = hq.slots[h.slot].revision
                       => Get(hq, h) = Get(hp, h)
  <2> DEFINE s == hp.slots[h.slot]
             t == hq.slots[h.slot]
  <2>1. /\ h.slot \in DOMAIN hp.slots /\ h.slot \in DOMAIN hq.slots
        /\ s.generation \in Nat /\ t.generation \in Nat
        /\ s.revision \in Nat /\ t.revision \in Nat
        /\ h.generation \in Nat /\ h.born \in Nat
        /\ hp.allocations \in Nat /\ hq.allocations \in Nat
    <3>1. /\ h.slot \in DOMAIN hp.slots /\ h.slot \in Nat
          /\ h.generation \in Nat /\ h.born \in Nat
      BY <1>1 DEF Sane, Handle
    <3>2. /\ DOMAIN hp.slots = 1 .. Len(hp.slots) /\ Len(hp.slots) \in Nat
          /\ DOMAIN hq.slots = 1 .. Len(hq.slots) /\ Len(hq.slots) \in Nat
          /\ \A i \in DOMAIN hp.slots : hp.slots[i].generation \in Nat /\ hp.slots[i].revision \in Nat
          /\ \A i \in DOMAIN hq.slots : hq.slots[i].generation \in Nat /\ hq.slots[i].revision \in Nat
      BY HeapTypes
    <3>3. h.slot \in DOMAIN hq.slots
      <4>1. Len(hp.slots) <= Len(hq.slots)
        OBVIOUS
      <4> QED BY ONLY <3>1, <3>2, <4>1
    <3>4. hp.allocations \in Nat /\ hq.allocations \in Nat
      BY DEF IsHeap
    <3> QED BY ONLY <3>1, <3>2, <3>3, <3>4 DEF s, t
  <2>2. Turns(s, t)
    BY <2>1, HeapTypes
  <2>3. /\ h.generation <= s.generation /\ h.born <= hp.allocations
        /\ s.value = Free => h.generation < s.generation
        /\ s.value # Free /\ h.generation = s.generation => s.created = h.born
    BY <1>1 DEF Sane
  <2> HIDE DEF s, t
  <2>4. /\ h.generation <= t.generation /\ h.born <= hq.allocations
        /\ t.value = Free => h.generation < t.generation
        /\ t.value # Free /\ h.generation = t.generation => t.created = h.born
        /\ t.value # Free /\ h.generation = t.generation =>
             /\ s.value # Free /\ s.generation = h.generation
             /\ t.value.kind = s.value.kind
             /\ s.value.kind \notin {"cell", "list"} => t.value = s.value
             /\ s.revision <= t.revision
             /\ s.revision = t.revision => t.value = s.value
    <3>1. hp.allocations <= hq.allocations
      OBVIOUS
    <3>2. CASE t = s
      BY ONLY <2>1, <2>3, <3>1, <3>2
    <3>3. CASE Written(s, t)
      BY ONLY <2>1, <2>3, <3>1, <3>3 DEF Written
    <3>4. CASE Freed(s, t)
      BY ONLY <2>1, <2>3, <3>1, <3>4 DEF Freed
    <3>5. CASE Reused(s, t)
      BY ONLY <2>1, <2>3, <3>1, <3>5 DEF Reused
    <3> QED BY ONLY <2>2, <3>2, <3>3, <3>4, <3>5 DEF Turns
  <2>5. Sane(hq, h)
    BY <2>1, <2>4 DEF Sane, t
  <2> QED BY <2>1, <2>4, <2>5 DEF Valid, Get, s, t
<1> QED BY <1>1 DEF Later

LEMMA LaterItself ==
  ASSUME NEW hp, IsHeap(hp)
  PROVE  Later(hp, hp)
BY TurnsLater DEF Turns, IsHeap

LEMMA LaterStill ==
  ASSUME NEW hp, NEW hq, NEW hr, IsHeap(hp), IsHeap(hq), IsHeap(hr),
         Later(hp, hq), Later(hq, hr)
  PROVE  Later(hp, hr)
<1>1. ASSUME NEW h \in Handle, Sane(hp, h), Valid(hr, h)
      PROVE  /\ Valid(hp, h)
             /\ Get(hr, h).kind = Get(hp, h).kind
             /\ Get(hp, h).kind \notin {"cell", "list"} => Get(hr, h) = Get(hp, h)
             /\ hp.slots[h.slot].revision <= hr.slots[h.slot].revision
             /\ hp.slots[h.slot].revision = hr.slots[h.slot].revision
                  => Get(hr, h) = Get(hp, h)
  <2>1. Sane(hq, h) /\ Sane(hr, h)
    BY <1>1 DEF Later
  <2>2. /\ Valid(hq, h) /\ Valid(hp, h)
        /\ Get(hr, h).kind = Get(hq, h).kind /\ Get(hq, h).kind = Get(hp, h).kind
        /\ Get(hq, h).kind \notin {"cell", "list"} => Get(hr, h) = Get(hq, h)
        /\ Get(hp, h).kind \notin {"cell", "list"} => Get(hq, h) = Get(hp, h)
        /\ hp.slots[h.slot].revision <= hq.slots[h.slot].revision
        /\ hq.slots[h.slot].revision <= hr.slots[h.slot].revision
        /\ hp.slots[h.slot].revision = hq.slots[h.slot].revision => Get(hq, h) = Get(hp, h)
        /\ hq.slots[h.slot].revision = hr.slots[h.slot].revision => Get(hr, h) = Get(hq, h)
    BY <1>1, <2>1 DEF Later
  <2>3. /\ hp.slots[h.slot].revision \in Nat /\ hq.slots[h.slot].revision \in Nat
        /\ hr.slots[h.slot].revision \in Nat
    BY <1>1, <2>1, HeapTypes DEF Sane
  <2> QED BY <2>2, <2>3
<1>2. /\ hp.allocations <= hr.allocations /\ Len(hp.slots) <= Len(hr.slots)
  BY DEF Later, IsHeap
<1>3. \A h \in Handle : Sane(hp, h) => Sane(hr, h)
  BY DEF Later
<1> QED BY <1>1, <1>2, <1>3 DEF Later

(* What is good stays good.                                                *)
LEMMA GoodStays ==
  ASSUME NEW hp, NEW hq, Later(hp, hq), NEW v, Good(hp, v)
  PROVE  Good(hq, v)
BY DEF Good, Later, Sane

-----------------------------------------------------------------------------
(* Allocation.                                                             *)

LEMMA FunctionLen ==
  ASSUME NEW n \in Nat, NEW f, f = [i \in 1 .. n |-> f[i]]
  PROVE  Len(f) = n
<1> DEFINE S == {f[i] : i \in 1 .. n}
<1>1. f \in [1 .. n -> S]
  BY Zenon
<1>2. f \in Seq(S)
  <2> HIDE DEF S
  <2> QED BY <1>1
<1>3. DOMAIN f = 1 .. n
  BY <1>1
<1> HIDE DEF S
<1> QED BY <1>2, <1>3

(* What an allocation leaves as it was.                                    *)
Keeps(hp, hq) ==
  \A h \in Handle : Valid(hp, h) =>
    /\ Valid(hq, h) /\ Get(hq, h) = Get(hp, h)
    /\ hq.slots[h.slot].revision = hp.slots[h.slot].revision

(* A handle the heap did not know.                                         *)
New(hp, hq, h, v) ==
  /\ Sane(hq, h) /\ Valid(hq, h) /\ Get(hq, h) = v
  /\ hp.allocations < h.born

LEMMA KeepsItself == \A hp : Keeps(hp, hp)
BY DEF Keeps

LEMMA KeepsStill ==
  ASSUME NEW hp, NEW hq, NEW hr, Keeps(hp, hq), Keeps(hq, hr)
  PROVE  Keeps(hp, hr)
BY DEF Keeps

LEMMA FreeNotGood ==
  ASSUME NEW hp, NEW v, Good(hp, v)
  PROVE  v # Free
BY DEF Good, Free

LEMMA ButLast ==
  ASSUME NEW S, NEW s \in Seq(S), s # <<>>
  PROVE  /\ Len(s) \in Nat /\ Len(s) \in 1 .. Len(s)
         /\ SubSeq(s, 1, Len(s) - 1) \in Seq(S)
         /\ Len(SubSeq(s, 1, Len(s) - 1)) = Len(s) - 1
         /\ \A k \in 1 .. Len(s) - 1 : SubSeq(s, 1, Len(s) - 1)[k] = s[k]
<1>1. Len(s) \in Nat /\ Len(s) \in 1 .. Len(s)
  BY EmptySeq
<1>2. PICK m \in Nat : m = Len(s) - 1
  BY <1>1
<1>3. \A k \in 1 .. m : s[k] \in S
  BY <1>1, <1>2
<1>4. /\ SubSeq(s, 1, m) \in Seq(S)
      /\ Len(SubSeq(s, 1, m)) = IF 1 <= m THEN m - 1 + 1 ELSE 0
      /\ \A k \in 1 .. m - 1 + 1 : SubSeq(s, 1, m)[k] = s[1 + k - 1]
  BY <1>2, <1>3, SubSeqProperties
<1>5. Len(SubSeq(s, 1, m)) = m /\ \A k \in 1 .. m : SubSeq(s, 1, m)[k] = s[k]
  BY <1>2, <1>4
<1> QED BY <1>1, <1>2, <1>4, <1>5

LEMMA LastFree ==
  ASSUME NEW hp, WellFormed(hp), hp.free # <<>>
  PROVE  /\ Len(hp.free) \in Nat /\ Len(hp.free) \in 1 .. Len(hp.free)
         /\ FreeLeft(hp.free) \in Seq(Nat)
         /\ Len(FreeLeft(hp.free)) = Len(hp.free) - 1
         /\ \A k \in 1 .. Len(hp.free) - 1 : FreeLeft(hp.free)[k] = hp.free[k]
<1>1. hp.free \in Seq(Nat)
  BY DEF WellFormed, FreeListed
<1> DEFINE s == hp.free
<1>2. s \in Seq(Nat) /\ s # <<>>
  BY <1>1
<1> HIDE DEF s
<1>3. /\ Len(s) \in Nat /\ Len(s) \in 1 .. Len(s)
      /\ SubSeq(s, 1, Len(s) - 1) \in Seq(Nat)
      /\ Len(SubSeq(s, 1, Len(s) - 1)) = Len(s) - 1
      /\ \A k \in 1 .. Len(s) - 1 : SubSeq(s, 1, Len(s) - 1)[k] = s[k]
  BY <1>2, ButLast
<1>5. FreeLeft(s) = SubSeq(s, 1, Len(s) - 1)
  BY <1>2 DEF FreeLeft
<1> QED BY <1>3, <1>5 DEF s

(* The slots after an allocation at i.                                     *)
TakesSlot(hp, hq, i, gen, v) ==
  /\ hq.slots = [k \in 1 .. Len(hq.slots) |-> IF k = i
                   THEN [value |-> v, generation |-> gen,
                         created |-> hp.allocations + 1, revision |-> 0]
                   ELSE hp.slots[k]]
  /\ hq.allocations = hp.allocations + 1
  /\ hq = [slots |-> hq.slots, free |-> hq.free, allocations |-> hq.allocations]

LEMMA AllocTakes ==
  ASSUME NEW hp, WellFormed(hp), NEW v, NEW hq, NEW h,
         hq = Alloc(hp, v).heap, h = Alloc(hp, v).handle
  PROVE  \E i \in 1 .. Len(hp.slots) + 1, gen \in Nat :
           /\ TakesSlot(hp, hq, i, gen, v)
           /\ h = [slot |-> i, generation |-> gen, born |-> hp.allocations + 1]
           /\ \/ /\ hp.free # <<>> /\ i = hp.free[Len(hp.free)]
                 /\ Len(hq.slots) = Len(hp.slots)
                 /\ gen = hp.slots[i].generation /\ hp.slots[i].value = Free
                 /\ i \in 1 .. Len(hp.slots)
                 /\ hq.free = FreeLeft(hp.free)
              \/ /\ i = Len(hp.slots) + 1 /\ Len(hq.slots) = Len(hp.slots) + 1
                 /\ hp.free = <<>> /\ hq.free = <<>>
<1> DEFINE n == Len(hp.slots)
<1>1. IsHeap(hp) /\ n \in Nat /\ DOMAIN hp.slots = 1 .. n
  BY HeapTypes DEF WellFormed
<1>2. CASE hp.free # <<>>
  <2>1. PICK i : i = NextSlot(hp) /\ i = hp.free[Len(hp.free)]
    BY <1>2 DEF NextSlot
  <2>2. i \in 1 .. n /\ hp.slots[i].value = Free
    BY <1>2, <2>1, LastFree DEF WellFormed, FreeListed
  <2>3. PICK gen : gen = NextSlotGeneration(hp) /\ gen = hp.slots[i].generation
    BY <1>2, <2>1 DEF NextSlotGeneration
  <2>4. gen \in Nat
    BY <1>1, <2>2, <2>3, HeapTypes
  <2>a. /\ hq = Allocation(hp, v)
        /\ h = [slot |-> NextSlot(hp), generation |-> NextSlotGeneration(hp),
                born |-> hp.allocations + 1]
    BY DEF Alloc
  <2>5. /\ hq = [slots |-> [k \in DOMAIN hp.slots \cup {i} |->
                   IF k = i THEN [value |-> v, generation |-> gen,
                                  created |-> hp.allocations + 1, revision |-> 0]
                   ELSE hp.slots[k]],
                 free |-> FreeLeft(hp.free), allocations |-> hp.allocations + 1]
        /\ h = [slot |-> i, generation |-> gen, born |-> hp.allocations + 1]
    BY <2>1, <2>3, <2>a, Zenon DEF Allocation
  <2>6. DOMAIN hp.slots \cup {i} = 1 .. n
    BY <1>1, <2>2
  <2>7. hq.slots = [k \in 1 .. n |->
                   IF k = i THEN [value |-> v, generation |-> gen,
                                  created |-> hp.allocations + 1, revision |-> 0]
                   ELSE hp.slots[k]]
    BY <2>5, <2>6
  <2>8. hq.slots = [k \in 1 .. n |-> hq.slots[k]]
    BY <2>7
  <2>9. Len(hq.slots) = n
    BY <1>1, <2>8, FunctionLen
  <2>10. /\ hq.allocations = hp.allocations + 1 /\ hq.free = FreeLeft(hp.free)
         /\ hq = [slots |-> hq.slots, free |-> hq.free, allocations |-> hq.allocations]
    BY <2>5
  <2>11. TakesSlot(hp, hq, i, gen, v)
    BY <2>7, <2>9, <2>10 DEF TakesSlot
  <2>12. i \in 1 .. n + 1
    BY <1>1, <2>2
  <2> QED BY <1>2, <2>1, <2>2, <2>3, <2>4, <2>5, <2>9, <2>10, <2>11, <2>12
<1>3. CASE hp.free = <<>>
  <2>1. PICK i : i = NextSlot(hp) /\ i = n + 1
    BY <1>3 DEF NextSlot
  <2>2. NextSlotGeneration(hp) = 0
    BY <1>3 DEF NextSlotGeneration
  <2>a. /\ hq = Allocation(hp, v)
        /\ h = [slot |-> NextSlot(hp), generation |-> NextSlotGeneration(hp),
                born |-> hp.allocations + 1]
    BY DEF Alloc
  <2>5. /\ hq = [slots |-> [k \in DOMAIN hp.slots \cup {i} |->
                   IF k = i THEN [value |-> v, generation |-> 0,
                                  created |-> hp.allocations + 1, revision |-> 0]
                   ELSE hp.slots[k]],
                 free |-> FreeLeft(hp.free), allocations |-> hp.allocations + 1]
        /\ h = [slot |-> i, generation |-> 0, born |-> hp.allocations + 1]
    BY <2>1, <2>2, <2>a, Zenon DEF Allocation
  <2>6. DOMAIN hp.slots \cup {i} = 1 .. n + 1
    BY <1>1, <2>1
  <2>7. hq.slots = [k \in 1 .. n + 1 |->
                   IF k = i THEN [value |-> v, generation |-> 0,
                                  created |-> hp.allocations + 1, revision |-> 0]
                   ELSE hp.slots[k]]
    BY <2>5, <2>6
  <2>8. hq.slots = [k \in 1 .. n + 1 |-> hq.slots[k]]
    BY <2>7
  <2>9. Len(hq.slots) = n + 1
    BY <1>1, <2>8, FunctionLen
  <2>10. /\ hq.allocations = hp.allocations + 1 /\ hq.free = <<>>
         /\ hq = [slots |-> hq.slots, free |-> hq.free, allocations |-> hq.allocations]
    BY <1>3, <2>5 DEF FreeLeft
  <2>11. TakesSlot(hp, hq, i, 0, v)
    BY <2>7, <2>9, <2>10 DEF TakesSlot
  <2>12. i \in 1 .. n + 1
    BY <1>1, <2>1
  <2> QED BY <1>3, <2>1, <2>5, <2>9, <2>10, <2>11, <2>12
<1> QED BY <1>2, <1>3

(* Heap::alloc makes a value under a handle of its own and keeps all else. *)
LEMMA Allocated ==
  ASSUME NEW hp, WellFormed(hp), NEW v, Good(hp, v), NEW hq, NEW h,
         hq = Alloc(hp, v).heap, h = Alloc(hp, v).handle
  PROVE  WellFormed(hq) /\ Later(hp, hq) /\ Keeps(hp, hq) /\ New(hp, hq, h, v)
<1> DEFINE n == Len(hp.slots)
<1>1. /\ IsHeap(hp) /\ n \in Nat /\ DOMAIN hp.slots = 1 .. n /\ hp.allocations \in Nat
      /\ v # Free
  BY HeapTypes, FreeNotGood DEF WellFormed, IsHeap
<1>2. PICK i \in 1 .. n + 1, gen \in Nat :
           /\ TakesSlot(hp, hq, i, gen, v)
           /\ h = [slot |-> i, generation |-> gen, born |-> hp.allocations + 1]
           /\ \/ /\ hp.free # <<>> /\ i = hp.free[Len(hp.free)]
                 /\ Len(hq.slots) = n
                 /\ gen = hp.slots[i].generation /\ hp.slots[i].value = Free
                 /\ i \in 1 .. Len(hp.slots)
                 /\ hq.free = FreeLeft(hp.free)
              \/ /\ i = n + 1 /\ Len(hq.slots) = n + 1
                 /\ hp.free = <<>> /\ hq.free = <<>>
  BY AllocTakes
<1> DEFINE new == [value |-> v, generation |-> gen,
                   created |-> hp.allocations + 1, revision |-> 0]
<1>3. /\ Len(hq.slots) \in Nat /\ n <= Len(hq.slots) /\ i \in 1 .. Len(hq.slots)
      /\ \A k \in 1 .. Len(hq.slots) : k # i => k \in 1 .. n
      /\ hq.allocations = hp.allocations + 1
  BY <1>1, <1>2 DEF TakesSlot
<1>4. \A k \in 1 .. Len(hq.slots) : hq.slots[k] = IF k = i THEN new ELSE hp.slots[k]
  BY <1>2 DEF TakesSlot
<1>5. /\ new.value = v /\ new.generation = gen /\ new.created = hp.allocations + 1
      /\ new.revision = 0 /\ IsSlot(new)
  BY DEF IsSlot
<1> HIDE DEF new
<1>6. IsHeap(hq)
  <2>1. hq.slots = [k \in 1 .. Len(hq.slots) |-> hq.slots[k]]
    BY <1>2 DEF TakesSlot
  <2>2. \A k \in 1 .. Len(hq.slots) : IsSlot(hq.slots[k])
    BY <1>1, <1>3, <1>4, <1>5 DEF IsHeap
  <2>3. hq = [slots |-> hq.slots, free |-> hq.free, allocations |-> hq.allocations]
    BY <1>2 DEF TakesSlot
  <2>4. hq.allocations \in Nat
    BY <1>1, <1>3
  <2> QED BY <1>3, <2>1, <2>2, <2>3, <2>4 DEF IsHeap
<1>7. \A k \in 1 .. n : Turns(hp.slots[k], hq.slots[k])
  <2> SUFFICES ASSUME NEW k \in 1 .. n PROVE Turns(hp.slots[k], hq.slots[k])
    OBVIOUS
  <2>1. k \in 1 .. Len(hq.slots)
    BY ONLY <1>1, <1>3, k \in 1 .. n
  <2>2. CASE k = i
    <3>1. hp.slots[k].value = Free /\ gen = hp.slots[k].generation
      BY ONLY <1>1, <1>2, <2>2, k \in 1 .. n
    <3>2. hq.slots[k].value = v /\ hq.slots[k].generation = gen
      BY ONLY <1>4, <1>5, <2>1, <2>2
    <3> QED BY ONLY <1>1, <3>1, <3>2 DEF Turns, Reused
  <2>3. CASE k # i
    <3>1. hq.slots[k] = hp.slots[k]
      BY ONLY <1>4, <2>1, <2>3
    <3> QED BY ONLY <3>1 DEF Turns
  <2> QED BY <2>2, <2>3
<1>8. Later(hp, hq)
  <2>1. hp.allocations <= hq.allocations
    BY <1>1, <1>3
  <2> QED BY <1>1, <1>3, <1>6, <1>7, <2>1, TurnsLater
<1>9. Keeps(hp, hq)
  <2>1. DOMAIN hq.slots = 1 .. Len(hq.slots)
    BY <1>6, HeapTypes
  <2>2. ASSUME NEW g \in Handle, Valid(hp, g)
        PROVE  /\ Valid(hq, g) /\ Get(hq, g) = Get(hp, g)
               /\ hq.slots[g.slot].revision = hp.slots[g.slot].revision
    <3>1. g.slot \in 1 .. n /\ g.slot # i
      BY <1>1, <1>2, <2>2 DEF Valid
    <3>2. g.slot \in 1 .. Len(hq.slots) /\ hq.slots[g.slot] = hp.slots[g.slot]
      BY ONLY <1>1, <1>3, <1>4, <3>1
    <3> QED BY ONLY <2>1, <2>2, <3>2 DEF Valid, Get
  <2> QED BY <2>2 DEF Keeps
<1>10. New(hp, hq, h, v)
  <2>1. h \in Handle /\ h.slot = i /\ h.generation = gen /\ h.born = hp.allocations + 1
    BY <1>1, <1>2 DEF Handle
  <2>2. hq.slots[i] = new /\ i \in DOMAIN hq.slots
    BY <1>3, <1>4, <1>6, HeapTypes
  <2>3. Sane(hq, h)
    BY <1>1, <1>3, <1>5, <2>1, <2>2 DEF Sane
  <2>4. hp.allocations < h.born
    BY <1>1, <2>1
  <2> QED BY <1>1, <1>5, <2>1, <2>2, <2>3, <2>4 DEF New, Valid, Get
<1>11. Filled(hq)
  <2> SUFFICES ASSUME NEW k \in 1 .. Len(hq.slots), hq.slots[k].value # Free
               PROVE  Good(hq, hq.slots[k].value)
    BY DEF Filled
  <2>1. CASE k = i
    BY <1>4, <1>5, <1>8, <2>1, GoodStays
  <2>2. CASE k # i
    <3>1. k \in 1 .. n /\ hq.slots[k] = hp.slots[k]
      BY <1>3, <1>4, <2>2
    <3>2. Good(hp, hp.slots[k].value)
      BY <3>1 DEF WellFormed, Filled
    <3> QED BY <1>8, <3>1, <3>2, GoodStays
  <2> QED BY <2>1, <2>2
<1>12. FreeListed(hq)
  <2>1. CASE hq.free = <<>>
    BY <2>1 DEF FreeListed
  <2>2. CASE hp.free # <<>> /\ i = hp.free[Len(hp.free)] /\ Len(hq.slots) = n
             /\ hq.free = FreeLeft(hp.free)
    <3> DEFINE s == hp.free
               t == hq.free
    <3>1. /\ Len(s) \in Nat /\ Len(s) \in 1 .. Len(s) /\ t \in Seq(Nat)
          /\ Len(t) = Len(s) - 1 /\ \A k \in 1 .. Len(s) - 1 : t[k] = s[k]
      BY <2>2, LastFree
    <3>2. /\ \A k \in 1 .. Len(s) : s[k] \in 1 .. n /\ hp.slots[s[k]].value = Free
          /\ \A k, l \in 1 .. Len(s) : s[k] = s[l] => k = l
      BY DEF WellFormed, FreeListed
    <3>3. i = s[Len(s)]
      BY <2>2
    <3> HIDE DEF s, t
    <3>4. \A k \in 1 .. Len(t) : k \in 1 .. Len(s) /\ t[k] = s[k] /\ s[k] # i
      BY <3>1, <3>2, <3>3
    <3>5. \A k \in 1 .. Len(t) : t[k] \in 1 .. Len(hq.slots) /\ hq.slots[t[k]].value = Free
      <4> SUFFICES ASSUME NEW k \in 1 .. Len(t)
                   PROVE  t[k] \in 1 .. Len(hq.slots) /\ hq.slots[t[k]].value = Free
        OBVIOUS
      <4>1. t[k] \in 1 .. n /\ hp.slots[t[k]].value = Free /\ t[k] # i
        BY <3>2, <3>4
      <4> QED BY <1>4, <2>2, <4>1
    <3>6. \A k, l \in 1 .. Len(t) : t[k] = t[l] => k = l
      BY <3>2, <3>4
    <3> QED BY <3>1, <3>5, <3>6 DEF FreeListed, t
  <2> QED BY <1>2, <2>1, <2>2
<1> QED BY <1>6, <1>8, <1>9, <1>10, <1>11, <1>12 DEF WellFormed

-----------------------------------------------------------------------------
(* Writes.                                                                 *)

LEMMA WriteIs ==
  ASSUME NEW hp, IsHeap(hp), NEW h, h.slot \in 1 .. Len(hp.slots), NEW v, NEW hq,
         hq = Write(hp, h, v)
  PROVE  /\ hq.free = hp.free /\ hq.allocations = hp.allocations
         /\ hq = [slots |-> hq.slots, free |-> hq.free, allocations |-> hq.allocations]
         /\ hq.slots = [i \in 1 .. Len(hp.slots) |-> hq.slots[i]]
         /\ \A i \in 1 .. Len(hp.slots) : i # h.slot => hq.slots[i] = hp.slots[i]
         /\ hq.slots[h.slot] = [value |-> v, generation |-> hp.slots[h.slot].generation,
                                created |-> hp.slots[h.slot].created,
                                revision |-> hp.slots[h.slot].revision + 1]
<1>1. PICK n, i, s : n = Len(hp.slots) /\ i = h.slot /\ s = hp.slots[h.slot]
  OBVIOUS
<1>2. hp.slots = [k \in 1 .. n |-> hp.slots[k]] /\ n \in Nat /\ i \in 1 .. n
  BY <1>1 DEF IsHeap
<1>3. hp = [slots |-> hp.slots, free |-> hp.free, allocations |-> hp.allocations]
  BY DEF IsHeap
<1>4. s = [value |-> s.value, generation |-> s.generation,
           created |-> s.created, revision |-> s.revision]
  BY <1>1 DEF IsHeap, IsSlot
<1>5. PICK one : one = [s EXCEPT !.value = v]
  OBVIOUS
<1>6. one = [value |-> v, generation |-> s.generation,
             created |-> s.created, revision |-> s.revision]
  BY <1>4, <1>5
<1>7. PICK two : two = [one EXCEPT !.revision = @ + 1]
  OBVIOUS
<1>8. two = [value |-> v, generation |-> s.generation,
             created |-> s.created, revision |-> s.revision + 1]
  BY <1>6, <1>7
<1>9. PICK S : S = [hp.slots EXCEPT ![i] = one]
  OBVIOUS
<1>10. PICK T : T = [S EXCEPT ![i] = two]
  OBVIOUS
<1>11. /\ S = [k \in 1 .. n |-> IF k = i THEN one ELSE hp.slots[k]]
  BY <1>2, <1>9
<1>12. T = [k \in 1 .. n |-> IF k = i THEN two ELSE hp.slots[k]]
  BY <1>2, <1>10, <1>11
<1>13. PICK a : a = [hp EXCEPT !.slots = S]
  OBVIOUS
<1>14. a = [slots |-> S, free |-> hp.free, allocations |-> hp.allocations]
  BY <1>3, <1>13
<1>15. a = [hp EXCEPT !.slots[h.slot].value = v]
  BY <1>1, <1>5, <1>9, <1>13
<1>16. hq = [a EXCEPT !.slots[h.slot].revision = @ + 1]
  BY <1>15 DEF Write
<1>17. a.slots = S /\ S[i] = one
  BY <1>2, <1>11, <1>14
<1>18. hq = [a EXCEPT !.slots = T]
  BY <1>1, <1>7, <1>10, <1>16, <1>17
<1>19. hq = [slots |-> T, free |-> hp.free, allocations |-> hp.allocations]
  BY <1>14, <1>18
<1> QED BY <1>1, <1>2, <1>8, <1>12, <1>19

(* Heap::replace changes one slot, and its revision.                       *)
Changed(hp, hq, h, v) ==
  /\ \A g \in Handle : Valid(hq, g) <=> Valid(hp, g)
  /\ \A g \in Handle : Valid(hp, g) /\ g.slot # h.slot =>
       /\ Get(hq, g) = Get(hp, g)
       /\ hq.slots[g.slot].revision = hp.slots[g.slot].revision
  /\ \A g \in Handle : g.slot = h.slot =>
       /\ Get(hq, g) = v
       /\ hp.slots[g.slot].revision < hq.slots[g.slot].revision

LEMMA Wrote ==
  ASSUME NEW hp, WellFormed(hp), NEW h \in Handle, Valid(hp, h),
         NEW v, Good(hp, v), v.kind = Get(hp, h).kind, v.kind \in {"cell", "list"},
         NEW hq, hq = Write(hp, h, v)
  PROVE  WellFormed(hq) /\ Later(hp, hq) /\ Changed(hp, hq, h, v)
<1> DEFINE n == Len(hp.slots)
           s == hp.slots[h.slot]
           t == hq.slots[h.slot]
<1>1. /\ IsHeap(hp) /\ n \in Nat /\ DOMAIN hp.slots = 1 .. n /\ hp.allocations \in Nat
      /\ v # Free /\ h.slot \in 1 .. n /\ IsSlot(s) /\ s.value # Free
  BY HeapTypes, FreeNotGood DEF WellFormed, IsHeap, Valid
<1>2. /\ hq.free = hp.free /\ hq.allocations = hp.allocations
      /\ hq = [slots |-> hq.slots, free |-> hq.free, allocations |-> hq.allocations]
      /\ hq.slots = [i \in 1 .. n |-> hq.slots[i]]
      /\ \A i \in 1 .. n : i # h.slot => hq.slots[i] = hp.slots[i]
      /\ t = [value |-> v, generation |-> s.generation,
              created |-> s.created, revision |-> s.revision + 1]
  BY <1>1, WriteIs
<1>3. Len(hq.slots) = n
  BY <1>1, <1>2, FunctionLen
<1>4. /\ t.value = v /\ t.generation = s.generation /\ t.created = s.created
      /\ s.revision < t.revision /\ IsSlot(t)
  BY <1>1, <1>2 DEF IsSlot
<1> HIDE DEF t, s
<1>5. IsHeap(hq)
  BY <1>1, <1>2, <1>3, <1>4 DEF IsHeap, t
<1>6. Written(s, t)
  BY <1>1, <1>4 DEF Written, Get, s
<1>7. \A i \in 1 .. n : Turns(hp.slots[i], hq.slots[i])
  BY <1>2, <1>6 DEF Turns, s, t
<1>8. Later(hp, hq)
  <2>1. hp.allocations <= hq.allocations /\ Len(hp.slots) <= Len(hq.slots)
    BY <1>1, <1>2, <1>3
  <2> QED BY <1>1, <1>5, <1>7, <2>1, TurnsLater
<1>9. DOMAIN hq.slots = 1 .. n
  BY <1>3, <1>5, HeapTypes
<1>10. Changed(hp, hq, h, v)
  <2>1. \A g \in Handle : Valid(hq, g) <=> Valid(hp, g)
    <3> SUFFICES ASSUME NEW g \in Handle, g.slot \in 1 .. n
                 PROVE  Valid(hq, g) <=> Valid(hp, g)
      BY <1>1, <1>9 DEF Valid
    <3>1. CASE g.slot = h.slot
      BY <1>1, <1>4, <1>9, <3>1 DEF Valid, s, t
    <3>2. CASE g.slot # h.slot
      BY <1>1, <1>2, <1>9, <3>2 DEF Valid
    <3> QED BY <3>1, <3>2
  <2>2. \A g \in Handle : Valid(hp, g) => g.slot \in 1 .. n
    BY <1>1 DEF Valid
  <2> QED BY <1>2, <1>4, <2>1, <2>2 DEF Changed, Get, s, t
<1>11. Filled(hq)
  <2> SUFFICES ASSUME NEW i \in 1 .. n, hq.slots[i].value # Free
               PROVE  Good(hq, hq.slots[i].value)
    BY <1>3 DEF Filled
  <2>1. CASE i = h.slot
    BY <1>4, <1>8, <2>1, GoodStays DEF t
  <2>2. CASE i # h.slot
    <3>1. hq.slots[i] = hp.slots[i]
      BY <1>2, <2>2
    <3>2. Good(hp, hp.slots[i].value)
      BY <3>1 DEF WellFormed, Filled
    <3> QED BY <1>8, <3>1, <3>2, GoodStays
  <2> QED BY <2>1, <2>2
<1>12. FreeListed(hq)
  <2>1. FreeListed(hp)
    BY DEF WellFormed
  <2>2. \A k \in 1 .. Len(hp.free) : hp.free[k] # h.slot
    BY <1>1, <2>1 DEF FreeListed, s
  <2>3. \A k \in 1 .. Len(hp.free) : /\ hp.free[k] \in 1 .. n
                                     /\ hq.slots[hp.free[k]].value = Free
    BY <1>2, <2>1, <2>2 DEF FreeListed
  <2>4. hq.free = hp.free /\ Len(hq.slots) = n
    BY <1>2, <1>3
  <2> HIDE DEF n
  <2>5. /\ hp.free \in Seq(Nat)
        /\ \A k, l \in 1 .. Len(hp.free) : hp.free[k] = hp.free[l] => k = l
    BY ONLY <2>1 DEF FreeListed
  <2> QED BY ONLY <2>3, <2>4, <2>5 DEF FreeListed
<1> QED BY <1>5, <1>8, <1>10, <1>11, <1>12 DEF WellFormed

-----------------------------------------------------------------------------
(* Collections.                                                            *)

LEMMA LeastNatural ==
  ASSUME NEW S \in SUBSET Nat, S # {}
  PROVE  \E m \in S : \A k \in S : m <= k
<1>1. PICK m \in S : \A k \in S : <<k, m>> \notin OpToRel(<, Nat)
  BY WFMin, NatLessThanWellFounded, Zenon
<1>2. \A k \in S : ~(k < m)
  BY <1>1, Zenon DEF OpToRel
<1> QED BY <1>2

(* The free list as it grows while the slots up to n are swept.            *)
Sweeps(f, hp, swept, n) ==
  /\ f = [i \in 0 .. n |-> f[i]]
  /\ f[0] = hp.free
  /\ \A i \in 1 .. n : f[i] = IF i \in swept THEN Append(f[i - 1], i) ELSE f[i - 1]

LEMMA SweepsExist ==
  ASSUME NEW hp, NEW swept, NEW n \in Nat
  PROVE  \E f : Sweeps(f, hp, swept, n)
<1> DEFINE Bad == {i \in Nat : ~ \E f : Sweeps(f, hp, swept, i)}
<1>1. SUFFICES ASSUME Bad # {} PROVE FALSE
  OBVIOUS
<1>2. PICK m \in Bad : \A k \in Bad : m <= k
  <2>1. Bad \in SUBSET Nat
    OBVIOUS
  <2> HIDE DEF Bad
  <2> QED BY <1>1, <2>1, LeastNatural
<1>3. m # 0
  <2>1. Sweeps([i \in 0 .. 0 |-> hp.free], hp, swept, 0)
    BY DEF Sweeps
  <2> QED BY <1>2, <2>1
<1>4. m \in Nat /\ m - 1 \in Nat /\ m - 1 \notin Bad
  <2>1. m \in Nat
    BY <1>2
  <2>2. m - 1 \in Nat /\ ~(m <= m - 1)
    BY <1>3, <2>1
  <2> HIDE DEF Bad
  <2> QED BY <1>2, <2>1, <2>2
<1>5. PICK f : Sweeps(f, hp, swept, m - 1)
  BY <1>4
<1> DEFINE x == IF m \in swept THEN Append(f[m - 1], m) ELSE f[m - 1]
           g == [i \in 0 .. m |-> IF i = m THEN x ELSE f[i]]
<1> HIDE DEF x
<1>6. Sweeps(g, hp, swept, m)
  <2>1. g = [i \in 0 .. m |-> g[i]]
    OBVIOUS
  <2>2. g[0] = hp.free
    BY <1>3, <1>4, <1>5 DEF Sweeps
  <2>3. \A i \in 1 .. m : g[i] = IF i \in swept THEN Append(g[i - 1], i) ELSE g[i - 1]
    <3> SUFFICES ASSUME NEW i \in 1 .. m
                 PROVE  g[i] = IF i \in swept THEN Append(g[i - 1], i) ELSE g[i - 1]
      OBVIOUS
    <3>1. g[i - 1] = f[i - 1]
      BY <1>4
    <3>2. CASE i = m
      BY <1>4, <3>1, <3>2 DEF x
    <3>3. CASE i # m
      <4>1. i \in 1 .. m - 1 /\ g[i] = f[i]
        BY <1>4, <3>3
      <4> HIDE DEF g
      <4> QED BY <1>5, <3>1, <4>1 DEF Sweeps
    <3> QED BY <3>2, <3>3
  <2> HIDE DEF g
  <2> QED BY <2>1, <2>2, <2>3 DEF Sweeps
<1> QED BY <1>2, <1>6

IsSweep(f, hp, swept, n) ==
  f = [i \in 0 .. n |->
         IF i = 0 THEN hp.free
         ELSE IF i \in swept THEN Append(f[i - 1], i) ELSE f[i - 1]]

LEMMA SweepsMeans ==
  ASSUME NEW hp, NEW swept, NEW n \in Nat, NEW f
  PROVE  Sweeps(f, hp, swept, n) <=> IsSweep(f, hp, swept, n)
<1>1. ASSUME Sweeps(f, hp, swept, n)
      PROVE  f = [i \in 0 .. n |->
                      IF i = 0 THEN hp.free
                      ELSE IF i \in swept THEN Append(f[i - 1], i) ELSE f[i - 1]]
  <2>1. \A i \in 0 .. n : f[i] = IF i = 0 THEN hp.free
                      ELSE IF i \in swept THEN Append(f[i - 1], i) ELSE f[i - 1]
    <3> SUFFICES ASSUME NEW i \in 0 .. n
                 PROVE  f[i] = IF i = 0 THEN hp.free
                      ELSE IF i \in swept THEN Append(f[i - 1], i) ELSE f[i - 1]
      OBVIOUS
    <3>1. CASE i = 0
      BY <1>1, <3>1 DEF Sweeps
    <3>2. CASE i # 0
      <4>1. i \in 1 .. n
        BY <3>2
      <4> QED BY <1>1, <3>2, <4>1 DEF Sweeps
    <3> QED BY <3>1, <3>2
  <2>2. f = [i \in 0 .. n |-> f[i]]
    BY <1>1 DEF Sweeps
  <2> QED BY ONLY <2>1, <2>2
<1>2. ASSUME f = [i \in 0 .. n |->
                      IF i = 0 THEN hp.free
                      ELSE IF i \in swept THEN Append(f[i - 1], i) ELSE f[i - 1]]
      PROVE  Sweeps(f, hp, swept, n)
  <2>1. \A i \in 0 .. n : f[i] = IF i = 0 THEN hp.free
                      ELSE IF i \in swept THEN Append(f[i - 1], i) ELSE f[i - 1]
    BY <1>2, Zenon
  <2>2. DOMAIN f = 0 .. n
    BY <1>2, Zenon
  <2>3. f = [i \in 0 .. n |-> f[i]]
    BY <1>2, <2>2, Zenon
  <2>4. f[0] = hp.free
    BY <2>1
  <2>5. \A i \in 1 .. n : f[i] = IF i \in swept THEN Append(f[i - 1], i) ELSE f[i - 1]
    BY <2>1
  <2> QED BY <2>3, <2>4, <2>5 DEF Sweeps
<1> QED BY <1>1, <1>2 DEF IsSweep

LEMMA FreeAfterIs ==
  ASSUME NEW hp, NEW swept, Len(hp.slots) \in Nat
  PROVE  \E f : Sweeps(f, hp, swept, Len(hp.slots)) /\ FreeAfter(hp, swept) = f[Len(hp.slots)]
<1> DEFINE freed[i \in 0 .. Len(hp.slots)] ==
             IF i = 0 THEN hp.free
             ELSE IF i \in swept THEN Append(freed[i - 1], i) ELSE freed[i - 1]
<1>1. PICK n \in Nat : n = Len(hp.slots)
  OBVIOUS
<1>2. PICK g : Sweeps(g, hp, swept, n)
  BY SweepsExist
<1>3. IsSweep(g, hp, swept, Len(hp.slots))
  BY <1>1, <1>2, SweepsMeans
<1>4. \E f : f = [i \in 0 .. Len(hp.slots) |->
                    IF i = 0 THEN hp.free
                    ELSE IF i \in swept THEN Append(f[i - 1], i) ELSE f[i - 1]]
  BY <1>3, Zenon DEF IsSweep
<1>5. freed = [i \in 0 .. Len(hp.slots) |->
                 IF i = 0 THEN hp.free
                 ELSE IF i \in swept THEN Append(freed[i - 1], i) ELSE freed[i - 1]]
  BY <1>4
<1>6. FreeAfter(hp, swept) = freed[Len(hp.slots)]
  BY DEF FreeAfter
<1> HIDE DEF freed
<1>7. Sweeps(freed, hp, swept, Len(hp.slots))
  BY <1>5, SweepsMeans DEF IsSweep
<1> QED BY <1>6, <1>7

(* What the free list is once the slots up to n are swept: free is what it *)
(* was.                                                                    *)
FreeOf(hp) == {hp.free[k] : k \in 1 .. Len(hp.free)}

Distinct(s) == \A k, l \in 1 .. Len(s) : s[k] = s[l] => k = l

Swelled(l, free, swept, n) ==
  /\ l \in Seq(Nat) /\ Distinct(l)
  /\ \A k \in 1 .. Len(l) : l[k] \in free \/ (l[k] \in swept /\ l[k] <= n)

LEMMA Swells ==
  ASSUME NEW free, NEW swept, NEW n \in Nat, NEW l, Swelled(l, free, swept, n),
         free \cap swept = {}, NEW m \in Nat, m = n + 1, NEW x,
         x = IF m \in swept THEN Append(l, m) ELSE l
  PROVE  Swelled(x, free, swept, m)
<1>1. CASE m \notin swept
  <2>1. x = l
    BY <1>1
  <2> QED BY <2>1 DEF Swelled
<1>2. CASE m \in swept
  <2>1. x = Append(l, m) /\ l \in Seq(Nat) /\ Len(l) \in Nat
    BY <1>2 DEF Swelled
  <2>2. x \in Seq(Nat) /\ Len(x) = Len(l) + 1 /\ x[Len(l) + 1] = m
        /\ \A k \in 1 .. Len(l) : x[k] = l[k]
    BY <2>1
  <2>3. \A k \in 1 .. Len(l) : l[k] # m
    BY <1>2 DEF Swelled
  <2>4. \A k \in 1 .. Len(x) : k = Len(l) + 1 \/ k \in 1 .. Len(l)
    BY <2>1, <2>2
  <2>5. Distinct(x)
    BY <2>2, <2>3, <2>4 DEF Distinct, Swelled
  <2>6. \A k \in 1 .. Len(x) : x[k] \in free \/ (x[k] \in swept /\ x[k] <= m)
    BY <1>2, <2>2, <2>4 DEF Swelled
  <2> QED BY <2>2, <2>5, <2>6 DEF Swelled
<1> QED BY <1>1, <1>2

LEMMA FreeAfterSwelled ==
  ASSUME NEW hp, IsHeap(hp), FreeListed(hp), NEW swept, FreeOf(hp) \cap swept = {}
  PROVE  Swelled(FreeAfter(hp, swept), FreeOf(hp), swept, Len(hp.slots))
<1>1. PICK n \in Nat : n = Len(hp.slots)
  BY DEF IsHeap
<1>2. PICK f : Sweeps(f, hp, swept, n) /\ FreeAfter(hp, swept) = f[n]
  BY <1>1, FreeAfterIs
<1>3. PICK free : free = FreeOf(hp)
  OBVIOUS
<1> DEFINE Bad == {i \in 0 .. n : ~Swelled(f[i], free, swept, i)}
<1>4. SUFFICES ASSUME Bad # {} PROVE FALSE
  BY <1>1, <1>2, <1>3
<1>5. PICK m \in Bad : \A k \in Bad : m <= k
  <2>1. Bad \in SUBSET Nat
    OBVIOUS
  <2> HIDE DEF Bad
  <2> QED BY <1>4, <2>1, LeastNatural
<1>6. m # 0
  <2>1. f[0] = hp.free
    BY <1>2 DEF Sweeps
  <2>2. Swelled(hp.free, free, swept, 0)
    BY <1>3 DEF FreeListed, FreeOf, Swelled, Distinct
  <2> QED BY <1>5, <2>1, <2>2
<1>7. m \in 1 .. n
  BY <1>5, <1>6
<1>8. PICK j \in Nat : m = j + 1
  BY <1>7
<1>9. j \notin Bad
  <2>1. ~(m <= j)
    BY <1>8
  <2> HIDE DEF Bad
  <2> QED BY <1>5, <2>1
<1>10. Swelled(f[j], free, swept, j)
  <2>1. j \in 0 .. n
    BY <1>7, <1>8
  <2> QED BY <1>9, <2>1
<1>11. f[m] = IF m \in swept THEN Append(f[j], m) ELSE f[j]
  <2>1. m - 1 = j
    BY <1>8
  <2> QED BY <1>2, <1>7, <2>1 DEF Sweeps
<1>12. Swelled(f[m], free, swept, m)
  <2>1. m \in Nat
    BY <1>7
  <2> HIDE DEF Bad
  <2> QED BY <1>3, <1>8, <1>10, <1>11, <2>1, Swells
<1> QED BY <1>5, <1>12

(* The marking.                                                            *)
Near(hp, s) == s \cup UNION {Kids(Get(hp, h)) : h \in s}

Spreads(f, hp, roots, n) ==
  /\ f = [i \in 0 .. n |-> f[i]]
  /\ f[0] = roots
  /\ \A i \in 1 .. n : f[i] = Near(hp, f[i - 1])

LEMMA SpreadsExist ==
  ASSUME NEW hp, NEW roots, NEW n \in Nat
  PROVE  \E f : Spreads(f, hp, roots, n)
<1> DEFINE Bad == {i \in Nat : ~ \E f : Spreads(f, hp, roots, i)}
<1>1. SUFFICES ASSUME Bad # {} PROVE FALSE
  OBVIOUS
<1>2. PICK m \in Bad : \A k \in Bad : m <= k
  <2>1. Bad \in SUBSET Nat
    OBVIOUS
  <2> HIDE DEF Bad
  <2> QED BY <1>1, <2>1, LeastNatural
<1>3. m # 0
  <2>1. Spreads([i \in 0 .. 0 |-> roots], hp, roots, 0)
    BY DEF Spreads
  <2> QED BY <1>2, <2>1
<1>4. m \in Nat /\ m - 1 \in Nat /\ m - 1 \notin Bad
  <2>1. m \in Nat
    BY <1>2
  <2>2. m - 1 \in Nat /\ ~(m <= m - 1)
    BY <1>3, <2>1
  <2> HIDE DEF Bad
  <2> QED BY <1>2, <2>1, <2>2
<1>5. PICK f : Spreads(f, hp, roots, m - 1)
  BY <1>4
<1> DEFINE x == Near(hp, f[m - 1])
           g == [i \in 0 .. m |-> IF i = m THEN x ELSE f[i]]
<1> HIDE DEF x
<1>6. Spreads(g, hp, roots, m)
  <2>1. g = [i \in 0 .. m |-> g[i]]
    OBVIOUS
  <2>2. g[0] = roots
    BY <1>3, <1>4, <1>5 DEF Spreads
  <2>3. \A i \in 1 .. m : g[i] = Near(hp, g[i - 1])
    <3> SUFFICES ASSUME NEW i \in 1 .. m
                 PROVE  g[i] = Near(hp, g[i - 1])
      OBVIOUS
    <3>1. g[i - 1] = f[i - 1]
      BY <1>4
    <3>2. CASE i = m
      BY <1>4, <3>1, <3>2 DEF x
    <3>3. CASE i # m
      <4>1. i \in 1 .. m - 1 /\ g[i] = f[i]
        BY <1>4, <3>3
      <4> HIDE DEF g
      <4> QED BY <1>5, <3>1, <4>1 DEF Spreads
    <3> QED BY <3>2, <3>3
  <2> HIDE DEF g
  <2> QED BY <2>1, <2>2, <2>3 DEF Spreads
<1> QED BY <1>2, <1>6

IsSpread(f, hp, roots, n) ==
  f = [i \in 0 .. n |->
         IF i = 0 THEN roots
         ELSE f[i - 1] \cup UNION {Kids(Get(hp, h)) : h \in f[i - 1]}]

LEMMA SpreadsMeans ==
  ASSUME NEW hp, NEW roots, NEW n \in Nat, NEW f
  PROVE  Spreads(f, hp, roots, n) <=> IsSpread(f, hp, roots, n)
<1>1. IsSpread(f, hp, roots, n) <=>
        f = [i \in 0 .. n |-> IF i = 0 THEN roots ELSE Near(hp, f[i - 1])]
  BY Zenon DEF IsSpread, Near
<1>2. ASSUME Spreads(f, hp, roots, n)
      PROVE  f = [i \in 0 .. n |-> IF i = 0 THEN roots ELSE Near(hp, f[i - 1])]
  <2>1. \A i \in 0 .. n : f[i] = IF i = 0 THEN roots ELSE Near(hp, f[i - 1])
    <3> SUFFICES ASSUME NEW i \in 0 .. n
                 PROVE  f[i] = IF i = 0 THEN roots ELSE Near(hp, f[i - 1])
      OBVIOUS
    <3>1. CASE i = 0
      BY <1>2, <3>1 DEF Spreads
    <3>2. CASE i # 0
      <4>1. i \in 1 .. n
        BY <3>2
      <4> QED BY <1>2, <3>2, <4>1 DEF Spreads
    <3> QED BY <3>1, <3>2
  <2>2. f = [i \in 0 .. n |-> f[i]]
    BY <1>2 DEF Spreads
  <2> QED BY ONLY <2>1, <2>2
<1>3. ASSUME f = [i \in 0 .. n |-> IF i = 0 THEN roots ELSE Near(hp, f[i - 1])]
      PROVE  Spreads(f, hp, roots, n)
  <2>1. \A i \in 0 .. n : f[i] = IF i = 0 THEN roots ELSE Near(hp, f[i - 1])
    BY <1>3, Zenon
  <2>2. DOMAIN f = 0 .. n
    BY <1>3, Zenon
  <2>3. f = [i \in 0 .. n |-> f[i]]
    BY <1>3, <2>2, Zenon
  <2>4. f[0] = roots
    BY <2>1
  <2>5. \A i \in 1 .. n : f[i] = Near(hp, f[i - 1])
    BY <2>1
  <2> QED BY <2>3, <2>4, <2>5 DEF Spreads
<1> QED BY <1>1, <1>2, <1>3

LEMMA ReachedIs ==
  ASSUME NEW hp, NEW roots, Cardinality(DOMAIN hp.slots) \in Nat
  PROVE  \E f : /\ Spreads(f, hp, roots, Cardinality(DOMAIN hp.slots))
                /\ Reached(hp, roots) = f[Cardinality(DOMAIN hp.slots)]
<1> DEFINE within[n \in 0 .. Cardinality(DOMAIN hp.slots)] ==
             IF n = 0 THEN roots
             ELSE within[n - 1] \cup UNION {Kids(Get(hp, h)) : h \in within[n - 1]}
<1>1. PICK n \in Nat : n = Cardinality(DOMAIN hp.slots)
  OBVIOUS
<1>2. PICK g : Spreads(g, hp, roots, n)
  BY SpreadsExist
<1>3. IsSpread(g, hp, roots, Cardinality(DOMAIN hp.slots))
  BY <1>1, <1>2, SpreadsMeans
<1>4. \E f : f = [i \in 0 .. Cardinality(DOMAIN hp.slots) |->
                    IF i = 0 THEN roots
                    ELSE f[i - 1] \cup UNION {Kids(Get(hp, h)) : h \in f[i - 1]}]
  BY <1>3, Zenon DEF IsSpread
<1>5. within = [i \in 0 .. Cardinality(DOMAIN hp.slots) |->
                  IF i = 0 THEN roots
                  ELSE within[i - 1] \cup UNION {Kids(Get(hp, h)) : h \in within[i - 1]}]
  BY <1>4
<1>6. Reached(hp, roots) = within[Cardinality(DOMAIN hp.slots)]
  BY DEF Reached
<1> HIDE DEF within
<1>7. Spreads(within, hp, roots, Cardinality(DOMAIN hp.slots))
  BY <1>5, SpreadsMeans DEF IsSpread
<1> QED BY <1>6, <1>7

LEMMA SpreadsWidely ==
  ASSUME NEW hp, NEW roots, NEW n \in Nat, NEW f, Spreads(f, hp, roots, n),
         NEW i \in 0 .. n
  PROVE  f[i] \subseteq f[n]
<1> DEFINE Bad == {j \in Nat : i <= j /\ j <= n /\ ~(f[i] \subseteq f[j])}
<1>1. SUFFICES ASSUME Bad # {} PROVE FALSE
  OBVIOUS
<1>2. PICK m \in Bad : \A k \in Bad : m <= k
  <2>1. Bad \in SUBSET Nat
    OBVIOUS
  <2> HIDE DEF Bad
  <2> QED BY <1>1, <2>1, LeastNatural
<1>3. m # i /\ m \in 1 .. n /\ i < m
  BY <1>2
<1>4. PICK j \in Nat : m = j + 1 /\ j = m - 1 /\ i <= j /\ j <= n /\ ~(m <= j)
  BY <1>3
<1>5. j \notin Bad
  <2> HIDE DEF Bad
  <2> QED BY <1>2, <1>4
<1>6. f[i] \subseteq f[j]
  BY <1>4, <1>5
<1>7. f[m] = Near(hp, f[j])
  BY <1>3, <1>4 DEF Spreads
<1> QED BY <1>2, <1>6, <1>7 DEF Near

(* Four steps of marking, for what is at most that deep.                   *)
LEMMA ReachedNear ==
  ASSUME NEW hp, IsHeap(hp), 4 <= Len(hp.slots), NEW roots
  PROVE  /\ roots \subseteq Reached(hp, roots)
         /\ Near(hp, Near(hp, Near(hp, Near(hp, roots)))) \subseteq Reached(hp, roots)
<1>1. PICK n \in Nat : n = Len(hp.slots) /\ 4 <= n
  BY DEF IsHeap
<1>2. Cardinality(DOMAIN hp.slots) = n
  <2>1. DOMAIN hp.slots = 1 .. n
    BY <1>1, HeapTypes
  <2>2. Cardinality(1 .. n) = IF 1 > n THEN 0 ELSE n - 1 + 1
    BY FS_Interval
  <2> QED BY <1>1, <2>1, <2>2
<1>3. PICK f : Spreads(f, hp, roots, n) /\ Reached(hp, roots) = f[n]
  BY <1>2, ReachedIs
<1>4. /\ 0 \in 0 .. n /\ 4 \in 0 .. n
      /\ 1 \in 1 .. n /\ 2 \in 1 .. n /\ 3 \in 1 .. n /\ 4 \in 1 .. n
  BY <1>1
<1>5. f[0] \subseteq f[n] /\ f[4] \subseteq f[n]
  BY <1>3, <1>4, SpreadsWidely
<1>6. /\ f[0] = roots
      /\ f[1] = Near(hp, f[1 - 1]) /\ f[2] = Near(hp, f[2 - 1])
      /\ f[3] = Near(hp, f[3 - 1]) /\ f[4] = Near(hp, f[4 - 1])
  BY <1>3, <1>4 DEF Spreads
<1>7. f[1] = Near(hp, f[0]) /\ f[2] = Near(hp, f[1]) /\ f[3] = Near(hp, f[2])
      /\ f[4] = Near(hp, f[3])
  BY <1>6
<1> QED BY <1>3, <1>5, <1>6, <1>7

(* What a collection leaves as it was.                                     *)
KeptIn(hp, hq, s) ==
  \A h \in s : Valid(hp, h) =>
    /\ Valid(hq, h) /\ Get(hq, h) = Get(hp, h)
    /\ hq.slots[h.slot].revision = hp.slots[h.slot].revision

LEMMA CollectIs ==
  ASSUME NEW hp, IsHeap(hp), NEW roots, NEW hq, hq = Collect(hp, roots)
  PROVE  /\ hq = [slots |-> hq.slots, free |-> hq.free, allocations |-> hq.allocations]
         /\ hq.allocations = hp.allocations
         /\ hq.free = FreeAfter(hp, Swept(hp, roots))
         /\ hq.slots = [i \in 1 .. Len(hp.slots) |-> hq.slots[i]]
         /\ \A i \in 1 .. Len(hp.slots) :
              /\ i \notin Swept(hp, roots) => hq.slots[i] = hp.slots[i]
              /\ i \in Swept(hp, roots) =>
                   hq.slots[i] = [value |-> Free,
                                  generation |-> hp.slots[i].generation + 1,
                                  created |-> hp.slots[i].created,
                                  revision |-> hp.slots[i].revision]
<1>1. DOMAIN hp.slots = 1 .. Len(hp.slots)
  BY HeapTypes
<1>2. PICK swept : swept = Swept(hp, roots)
  OBVIOUS
<1>3. PICK S : S = [i \in 1 .. Len(hp.slots) |->
                      IF i \in swept
                      THEN [hp.slots[i] EXCEPT !.value = Free,
                              !.generation = NextGeneration(@)]
                      ELSE hp.slots[i]]
  OBVIOUS
<1>4. hq = [slots |-> S, free |-> FreeAfter(hp, swept), allocations |-> hp.allocations]
  BY <1>1, <1>2, <1>3, Zenon DEF Collect
<1>5. ASSUME NEW i \in 1 .. Len(hp.slots)
      PROVE  /\ i \notin swept => S[i] = hp.slots[i]
             /\ i \in swept =>
                   S[i] = [value |-> Free,
                                  generation |-> hp.slots[i].generation + 1,
                                  created |-> hp.slots[i].created,
                                  revision |-> hp.slots[i].revision]
  <2>1. PICK s : s = hp.slots[i]
    OBVIOUS
  <2>2. s = [value |-> s.value, generation |-> s.generation,
             created |-> s.created, revision |-> s.revision]
    BY <2>1 DEF IsHeap, IsSlot
  <2>3. S[i] = IF i \in swept
               THEN [s EXCEPT !.value = Free, !.generation = NextGeneration(@)]
               ELSE s
    BY <1>3, <2>1
  <2>4. [s EXCEPT !.value = Free, !.generation = NextGeneration(@)]
          = [value |-> Free, generation |-> s.generation + 1,
             created |-> s.created, revision |-> s.revision]
    <3>1. PICK g : g = s.generation + 1
      OBVIOUS
    <3>2. PICK one : one = [s EXCEPT !.value = Free]
      OBVIOUS
    <3>3. one = [value |-> Free, generation |-> s.generation,
                 created |-> s.created, revision |-> s.revision]
      BY <2>2, <3>2
    <3>4. [one EXCEPT !.generation = g]
            = [value |-> Free, generation |-> g,
               created |-> s.created, revision |-> s.revision]
      BY <3>3
    <3>5. NextGeneration(s.generation) = g /\ NextGeneration(one.generation) = g
      BY <3>1, <3>3 DEF NextGeneration
    <3>6. [s EXCEPT !.value = Free, !.generation = NextGeneration(@)]
            = [one EXCEPT !.generation = g]
      BY <3>2, <3>5
    <3> QED BY <3>1, <3>4, <3>6
  <2> QED BY <2>1, <2>3, <2>4
<1>6. S = [i \in 1 .. Len(hp.slots) |-> S[i]]
  BY <1>3
<1>7. hq.slots = S /\ hq.free = FreeAfter(hp, swept) /\ hq.allocations = hp.allocations
  BY <1>4
<1> QED BY <1>2, <1>4, <1>5, <1>6, <1>7

LEMMA Collected ==
  ASSUME NEW hp, WellFormed(hp), NEW roots, NEW hq, hq = Collect(hp, roots)
  PROVE  /\ WellFormed(hq) /\ Later(hp, hq) /\ KeptIn(hp, hq, Reached(hp, roots))
         /\ Len(hq.slots) = Len(hp.slots)
<1> DEFINE n == Len(hp.slots)
<1>1. /\ IsHeap(hp) /\ FreeListed(hp) /\ Filled(hp)
      /\ n \in Nat /\ DOMAIN hp.slots = 1 .. n /\ hp.allocations \in Nat
  BY HeapTypes DEF WellFormed, IsHeap
<1>2. PICK swept : swept = Swept(hp, roots)
  OBVIOUS
<1>3. /\ hq = [slots |-> hq.slots, free |-> hq.free, allocations |-> hq.allocations]
      /\ hq.allocations = hp.allocations
      /\ hq.free = FreeAfter(hp, swept)
      /\ hq.slots = [i \in 1 .. n |-> hq.slots[i]]
      /\ \A i \in 1 .. n :
              /\ i \notin swept => hq.slots[i] = hp.slots[i]
              /\ i \in swept =>
                   hq.slots[i] = [value |-> Free,
                                  generation |-> hp.slots[i].generation + 1,
                                  created |-> hp.slots[i].created,
                                  revision |-> hp.slots[i].revision]
  BY <1>1, <1>2, CollectIs
<1>4. swept \subseteq 1 .. n /\ \A i \in swept : hp.slots[i].value # Free
  BY <1>1, <1>2 DEF Swept
<1>a. \A i \in swept : hq.slots[i].value = Free
  <2> SUFFICES ASSUME NEW i \in swept PROVE hq.slots[i].value = Free
    OBVIOUS
  <2>1. PICK t : t = hq.slots[i]
    OBVIOUS
  <2>2. t = [value |-> Free, generation |-> hp.slots[i].generation + 1,
             created |-> hp.slots[i].created, revision |-> hp.slots[i].revision]
    BY <1>3, <1>4, <2>1
  <2> QED BY <2>1, <2>2
<1>5. Len(hq.slots) = n
  BY <1>1, <1>3, FunctionLen
<1>6. ASSUME NEW i \in 1 .. n
      PROVE  IsSlot(hq.slots[i]) /\ Turns(hp.slots[i], hq.slots[i])
  <2>1. IsSlot(hp.slots[i])
    BY <1>1 DEF IsHeap
  <2>2. CASE i \notin swept
    BY <1>3, <2>1, <2>2 DEF Turns
  <2>3. CASE i \in swept
    <3>1. PICK s, t : s = hp.slots[i] /\ t = hq.slots[i]
      OBVIOUS
    <3>2. t = [value |-> Free, generation |-> s.generation + 1,
               created |-> s.created, revision |-> s.revision]
      BY <1>3, <2>3, <3>1
    <3>3. s.generation \in Nat /\ s.revision \in Nat /\ s.value # Free
      BY <1>4, <2>1, <2>3, <3>1 DEF IsSlot
    <3>4. t.value = Free /\ t.generation = s.generation + 1 /\ t.created = s.created
          /\ t.revision = s.revision
      BY <3>2
    <3>5. IsSlot(t)
      BY <3>2, <3>3, <3>4 DEF IsSlot
    <3>6. Freed(s, t)
      BY <3>3, <3>4 DEF Freed
    <3> QED BY <3>1, <3>5, <3>6 DEF Turns
  <2> QED BY <2>2, <2>3
<1>7. IsHeap(hq)
  BY <1>1, <1>3, <1>5, <1>6 DEF IsHeap
<1>8. Later(hp, hq)
  <2>1. hp.allocations <= hq.allocations /\ Len(hp.slots) <= Len(hq.slots)
    BY <1>1, <1>3, <1>5
  <2> QED BY <1>1, <1>6, <1>7, <2>1, TurnsLater
<1>9. Filled(hq)
  <2> SUFFICES ASSUME NEW i \in 1 .. n, hq.slots[i].value # Free
               PROVE  Good(hq, hq.slots[i].value)
    BY <1>5 DEF Filled
  <2>1. i \notin swept
    BY <1>a
  <2>2. hq.slots[i] = hp.slots[i]
    BY <1>3, <2>1
  <2>3. Good(hp, hp.slots[i].value)
    BY <1>1, <2>2 DEF Filled
  <2> QED BY <1>8, <2>2, <2>3, GoodStays
<1>10. FreeListed(hq)
  <2>1. \A k \in 1 .. Len(hp.free) : /\ hp.free[k] \in 1 .. n
                                     /\ hp.slots[hp.free[k]].value = Free
    BY <1>1 DEF FreeListed
  <2>2. FreeOf(hp) \cap swept = {}
    BY <1>4, <2>1 DEF FreeOf
  <2>3. Swelled(hq.free, FreeOf(hp), swept, n)
    BY <1>1, <1>3, <2>2, FreeAfterSwelled
  <2>4. PICK free : free = hq.free
    OBVIOUS
  <2>5. ASSUME NEW k \in 1 .. Len(free)
        PROVE  free[k] \in 1 .. n /\ hq.slots[free[k]].value = Free
    <3>1. CASE free[k] \in FreeOf(hp)
      <4>1. PICK j \in 1 .. Len(hp.free) : free[k] = hp.free[j]
        BY <3>1 DEF FreeOf
      <4>2. free[k] \in 1 .. n /\ hp.slots[free[k]].value = Free /\ free[k] \notin swept
        BY <1>4, <2>1, <4>1
      <4> QED BY <1>3, <4>2
    <3>2. CASE free[k] \in swept
      BY <1>4, <1>a, <3>2
    <3> QED BY <2>3, <2>4, <3>1, <3>2 DEF Swelled
  <2>6. free \in Seq(Nat) /\ Distinct(free)
    BY <2>3, <2>4 DEF Swelled
  <2> QED BY <1>5, <2>4, <2>5, <2>6 DEF FreeListed, Distinct
<1>11. KeptIn(hp, hq, Reached(hp, roots))
  <2> SUFFICES ASSUME NEW h \in Reached(hp, roots), Valid(hp, h)
               PROVE  /\ Valid(hq, h) /\ Get(hq, h) = Get(hp, h)
                      /\ hq.slots[h.slot].revision = hp.slots[h.slot].revision
    BY DEF KeptIn
  <2>1. h.slot \in 1 .. n
    BY <1>1 DEF Valid
  <2>2. h.slot \notin swept
    BY <1>2 DEF Swept
  <2>3. hq.slots[h.slot] = hp.slots[h.slot] /\ DOMAIN hq.slots = 1 .. n
    BY <1>3, <2>1, <2>2
  <2> QED BY <1>1, <2>3 DEF Valid, Get
<1> QED BY <1>5, <1>7, <1>8, <1>9, <1>10, <1>11 DEF WellFormed

-----------------------------------------------------------------------------
(* Several allocations.                                                    *)

More(before, v) ==
  [heap |-> Alloc(before.heap, v).heap,
   handles |-> Append(before.handles, Alloc(before.heap, v).handle)]

Makes(f, hp, values, n) ==
  /\ f = [i \in 0 .. n |-> f[i]]
  /\ f[0] = [heap |-> hp, handles |-> <<>>]
  /\ \A i \in 1 .. n : f[i] = More(f[i - 1], values[i])

LEMMA MakesExist ==
  ASSUME NEW hp, NEW values, NEW n \in Nat
  PROVE  \E f : Makes(f, hp, values, n)
<1> DEFINE Bad == {i \in Nat : ~ \E f : Makes(f, hp, values, i)}
<1>1. SUFFICES ASSUME Bad # {} PROVE FALSE
  OBVIOUS
<1>2. PICK m \in Bad : \A k \in Bad : m <= k
  <2>1. Bad \in SUBSET Nat
    OBVIOUS
  <2> HIDE DEF Bad
  <2> QED BY <1>1, <2>1, LeastNatural
<1>3. m # 0
  <2>1. PICK x : x = [heap |-> hp, handles |-> <<>>]
    OBVIOUS
  <2>2. Makes([i \in 0 .. 0 |-> x], hp, values, 0)
    BY <2>1 DEF Makes
  <2> QED BY <1>2, <2>2
<1>4. m \in Nat /\ m - 1 \in Nat /\ m - 1 \notin Bad
  <2>1. m \in Nat
    BY <1>2
  <2>2. m - 1 \in Nat /\ ~(m <= m - 1)
    BY <1>3, <2>1
  <2> HIDE DEF Bad
  <2> QED BY <1>2, <2>1, <2>2
<1>5. PICK f : Makes(f, hp, values, m - 1)
  BY <1>4
<1> DEFINE x == More(f[m - 1], values[m])
           g == [i \in 0 .. m |-> IF i = m THEN x ELSE f[i]]
<1> HIDE DEF x
<1>6. Makes(g, hp, values, m)
  <2>1. g = [i \in 0 .. m |-> g[i]]
    OBVIOUS
  <2>2. g[0] = [heap |-> hp, handles |-> <<>>]
    <3>1. g[0] = f[0]
      BY <1>3, <1>4
    <3> HIDE DEF g
    <3> QED BY <1>5, <3>1 DEF Makes
  <2>3. \A i \in 1 .. m : g[i] = More(g[i - 1], values[i])
    <3> SUFFICES ASSUME NEW i \in 1 .. m
                 PROVE  g[i] = More(g[i - 1], values[i])
      OBVIOUS
    <3>1. g[i - 1] = f[i - 1]
      BY <1>4
    <3>2. CASE i = m
      BY <1>4, <3>1, <3>2 DEF x
    <3>3. CASE i # m
      <4>1. i \in 1 .. m - 1 /\ g[i] = f[i]
        BY <1>4, <3>3
      <4> HIDE DEF g
      <4> QED BY <1>5, <3>1, <4>1 DEF Makes
    <3> QED BY <3>2, <3>3
  <2> HIDE DEF g
  <2> QED BY <2>1, <2>2, <2>3 DEF Makes
<1> QED BY <1>2, <1>6

IsMaking(f, hp, values, n) ==
  f = [i \in 0 .. n |->
         IF i = 0 THEN [heap |-> hp, handles |-> <<>>]
         ELSE [heap |-> Alloc(f[i - 1].heap, values[i]).heap,
               handles |-> Append(f[i - 1].handles, Alloc(f[i - 1].heap, values[i]).handle)]]

LEMMA MakesMeans ==
  ASSUME NEW hp, NEW values, NEW n \in Nat, NEW f
  PROVE  Makes(f, hp, values, n) <=> IsMaking(f, hp, values, n)
<1>0. PICK x : x = [heap |-> hp, handles |-> <<>>]
  OBVIOUS
<1>1. IsMaking(f, hp, values, n) <=>
        f = [i \in 0 .. n |-> IF i = 0 THEN x ELSE More(f[i - 1], values[i])]
  BY <1>0, Zenon DEF IsMaking, More
<1>2. ASSUME Makes(f, hp, values, n)
      PROVE  f = [i \in 0 .. n |-> IF i = 0 THEN x ELSE More(f[i - 1], values[i])]
  <2>1. \A i \in 0 .. n : f[i] = IF i = 0 THEN x ELSE More(f[i - 1], values[i])
    <3> SUFFICES ASSUME NEW i \in 0 .. n
                 PROVE  f[i] = IF i = 0 THEN x ELSE More(f[i - 1], values[i])
      OBVIOUS
    <3>1. CASE i = 0
      BY <1>0, <1>2, <3>1 DEF Makes
    <3>2. CASE i # 0
      <4>1. i \in 1 .. n
        BY <3>2
      <4> QED BY <1>2, <3>2, <4>1 DEF Makes
    <3> QED BY <3>1, <3>2
  <2>2. f = [i \in 0 .. n |-> f[i]]
    BY <1>2 DEF Makes
  <2> QED BY ONLY <2>1, <2>2
<1>3. ASSUME f = [i \in 0 .. n |-> IF i = 0 THEN x ELSE More(f[i - 1], values[i])]
      PROVE  Makes(f, hp, values, n)
  <2>1. \A i \in 0 .. n : f[i] = IF i = 0 THEN x ELSE More(f[i - 1], values[i])
    BY <1>3, Zenon
  <2>2. DOMAIN f = 0 .. n
    BY <1>3, Zenon
  <2>3. f = [i \in 0 .. n |-> f[i]]
    BY <1>3, <2>2, Zenon
  <2>4. f[0] = x
    BY <2>1
  <2>5. \A i \in 1 .. n : f[i] = More(f[i - 1], values[i])
    BY <2>1
  <2> QED BY <1>0, <2>3, <2>4, <2>5 DEF Makes
<1> QED BY <1>1, <1>2, <1>3

LEMMA AllocAllIs ==
  ASSUME NEW hp, NEW values, Len(values) \in Nat
  PROVE  \E f : Makes(f, hp, values, Len(values)) /\ AllocAll(hp, values) = f[Len(values)]
<1> DEFINE upto[i \in 0 .. Len(values)] ==
             IF i = 0 THEN [heap |-> hp, handles |-> <<>>]
             ELSE [heap |-> Alloc(upto[i - 1].heap, values[i]).heap,
                   handles |-> Append(upto[i - 1].handles,
                                      Alloc(upto[i - 1].heap, values[i]).handle)]
<1>1. PICK n \in Nat : n = Len(values)
  OBVIOUS
<1>2. PICK g : Makes(g, hp, values, n)
  BY MakesExist
<1>3. IsMaking(g, hp, values, Len(values))
  BY <1>1, <1>2, MakesMeans
<1>4. \E f : f = [i \in 0 .. Len(values) |->
                    IF i = 0 THEN [heap |-> hp, handles |-> <<>>]
                    ELSE [heap |-> Alloc(f[i - 1].heap, values[i]).heap,
                          handles |-> Append(f[i - 1].handles,
                                             Alloc(f[i - 1].heap, values[i]).handle)]]
  BY <1>3, Zenon DEF IsMaking
<1>5. upto = [i \in 0 .. Len(values) |->
                IF i = 0 THEN [heap |-> hp, handles |-> <<>>]
                ELSE [heap |-> Alloc(upto[i - 1].heap, values[i]).heap,
                      handles |-> Append(upto[i - 1].handles,
                                         Alloc(upto[i - 1].heap, values[i]).handle)]]
  BY <1>4
<1>6. AllocAll(hp, values) = upto[Len(values)]
  BY DEF AllocAll
<1> HIDE DEF upto
<1>7. Makes(upto, hp, values, Len(values))
  BY <1>5, MakesMeans DEF IsMaking
<1> QED BY <1>6, <1>7

(* What has been made of the first n values.                               *)
MadeOf(hp, hq, hs, values, n) ==
  /\ WellFormed(hq) /\ Later(hp, hq) /\ Keeps(hp, hq)
  /\ hs \in Seq(Handle) /\ Len(hs) = n
  /\ \A k \in 1 .. n : New(hp, hq, hs[k], values[k])

LEMMA MadeMore ==
  ASSUME NEW hp, WellFormed(hp), NEW values, NEW n \in Nat,
         NEW hq, NEW hs, MadeOf(hp, hq, hs, values, n),
         NEW m \in Nat, m = n + 1, Good(hp, values[m]),
         NEW x, x = More([heap |-> hq, handles |-> hs], values[m])
  PROVE  x = [heap |-> x.heap, handles |-> x.handles]
         /\ MadeOf(hp, x.heap, x.handles, values, m)
<1>1. PICK hr, h : hr = Alloc(hq, values[m]).heap /\ h = Alloc(hq, values[m]).handle
  OBVIOUS
<1>2. WellFormed(hq) /\ Later(hp, hq) /\ Keeps(hp, hq)
      /\ hs \in Seq(Handle) /\ Len(hs) = n
  BY DEF MadeOf
<1>3. WellFormed(hr) /\ Later(hq, hr) /\ Keeps(hq, hr) /\ New(hq, hr, h, values[m])
  <2>1. Good(hq, values[m])
    BY <1>2, GoodStays
  <2> QED BY <1>1, <1>2, <2>1, Allocated
<1>4. Later(hp, hr) /\ Keeps(hp, hr)
  BY <1>2, <1>3, LaterStill, KeepsStill DEF WellFormed
<1>5. x = [heap |-> hr, handles |-> Append(hs, h)]
  BY <1>1 DEF More
<1>6. h \in Handle /\ hp.allocations \in Nat /\ hq.allocations \in Nat
      /\ hp.allocations <= hq.allocations /\ h.born \in Nat
  BY <1>2, <1>3 DEF New, Sane, WellFormed, IsHeap, Later, Handle
<1>7. New(hp, hr, h, values[m])
  BY <1>3, <1>6 DEF New
<1>8. PICK t : t = Append(hs, h)
  OBVIOUS
<1>9. /\ t \in Seq(Handle) /\ Len(t) = m /\ t[m] = h
      /\ \A k \in 1 .. n : t[k] = hs[k]
  BY <1>2, <1>6, <1>8
<1>10. ASSUME NEW k \in 1 .. m
       PROVE  New(hp, hr, t[k], values[k])
  <2>1. CASE k = m
    BY <1>7, <1>9, <2>1
  <2>2. CASE k # m
    <3>1. k \in 1 .. n /\ t[k] = hs[k]
      BY <1>9, <2>2
    <3>2. New(hp, hq, t[k], values[k]) /\ t[k] \in Handle
      BY <1>2, <3>1 DEF MadeOf, New, Sane
    <3>3. Sane(hr, t[k])
      BY <1>3, <3>2 DEF New, Later
    <3>4. Valid(hr, t[k]) /\ Get(hr, t[k]) = values[k]
      BY <1>3, <3>2 DEF New, Keeps
    <3> QED BY <3>2, <3>3, <3>4 DEF New
  <2> QED BY <2>1, <2>2
<1>11. MadeOf(hp, hr, t, values, m)
  BY <1>3, <1>4, <1>9, <1>10 DEF MadeOf
<1>12. x.heap = hr /\ x.handles = t /\ x = [heap |-> x.heap, handles |-> x.handles]
  BY <1>5, <1>8
<1> QED BY <1>11, <1>12

LEMMA AllocatedAll ==
  ASSUME NEW hp, WellFormed(hp), NEW values, Len(values) \in Nat,
         \A k \in 1 .. Len(values) : Good(hp, values[k]),
         NEW made, made = AllocAll(hp, values)
  PROVE  MadeOf(hp, made.heap, made.handles, values, Len(values))
<1>1. PICK n \in Nat : n = Len(values)
  OBVIOUS
<1>2. PICK f : Makes(f, hp, values, n) /\ made = f[n]
  BY <1>1, AllocAllIs
<1> DEFINE Is(x, i) == x = [heap |-> x.heap, handles |-> x.handles]
                       /\ MadeOf(hp, x.heap, x.handles, values, i)
           Bad == {i \in 0 .. n : ~Is(f[i], i)}
<1>3. SUFFICES ASSUME Bad # {} PROVE FALSE
  BY <1>1, <1>2
<1>4. PICK m \in Bad : \A k \in Bad : m <= k
  <2>1. Bad \in SUBSET Nat
    OBVIOUS
  <2> HIDE DEF Bad
  <2> QED BY <1>3, <2>1, LeastNatural
<1>5. m # 0
  <2>1. f[0] = [heap |-> hp, handles |-> <<>>]
    BY <1>2 DEF Makes
  <2>2. PICK x : x = f[0]
    OBVIOUS
  <2>3. x = [heap |-> hp, handles |-> <<>>]
    BY <2>1, <2>2
  <2>4. x.heap = hp /\ x.handles = <<>> /\ x = [heap |-> x.heap, handles |-> x.handles]
    BY <2>3
  <2>5. MadeOf(hp, hp, <<>>, values, 0)
    <3>1. Later(hp, hp)
      BY LaterItself DEF WellFormed
    <3> QED BY <3>1, KeepsItself DEF MadeOf
  <2>6. Is(x, 0)
    BY <2>4, <2>5
  <2> HIDE DEF Is
  <2> QED BY <1>4, <2>2, <2>6
<1>6. m \in 1 .. n
  BY <1>4, <1>5
<1>7. PICK j \in Nat : m = j + 1
  BY <1>6
<1>8. j \notin Bad /\ j \in 0 .. n
  <2>1. ~(m <= j) /\ j \in 0 .. n
    BY <1>6, <1>7
  <2> HIDE DEF Bad
  <2> QED BY <1>4, <2>1
<1>9. PICK x, y : x = f[j] /\ y = f[m]
  OBVIOUS
<1>10. Is(x, j)
  <2> HIDE DEF Is
  <2> QED BY <1>8, <1>9
<1>11. y = More(x, values[m])
  <2>1. m - 1 = j
    BY <1>7
  <2> QED BY <1>2, <1>6, <1>9, <2>1 DEF Makes
<1>12. Is(y, m)
  <2>1. PICK hq, hs : hq = x.heap /\ hs = x.handles
    OBVIOUS
  <2>2. x = [heap |-> hq, handles |-> hs] /\ MadeOf(hp, hq, hs, values, j)
    BY <1>10, <2>1
  <2>3. y = More([heap |-> hq, handles |-> hs], values[m])
    BY <1>11, <2>2
  <2>4. m \in Nat /\ Good(hp, values[m])
    BY <1>1, <1>6
  <2> HIDE DEF Bad
  <2> QED BY <1>7, <2>2, <2>3, <2>4, MadeMore
<1> QED
  <2> HIDE DEF Is
  <2> QED BY <1>4, <1>9, <1>12

-----------------------------------------------------------------------------
(* The program.                                                            *)

LEMMA KidsOf ==
  /\ \A n : Kids(Number(n)) = {} /\ \A p : Kids(Text(p)) = {}
  /\ \A h : Kids(Cell(h)) = {h}
  /\ \A s : Kids(List(s)) = {s[i] : i \in DOMAIN s}
  /\ \A h : Kids(Node(h)) = {h}
  /\ \A c, s : Kids(Closure(c, s)) = s
BY DEF Kids, Number, Text, Cell, List, Node, Closure

LEMMA KindOf ==
  /\ \A n : Number(n).kind = "number" /\ \A p : Text(p).kind = "text"
  /\ \A h : Cell(h).kind = "cell" /\ Cell(h).of = h
  /\ \A s : List(s).kind = "list" /\ List(s).items = s
  /\ \A h : Node(h).kind = "node" /\ Node(h).on = h
  /\ \A c, s : /\ Closure(c, s).kind = "closure"
               /\ Closure(c, s).code = c /\ Closure(c, s).captures = s
BY DEF Number, Text, Cell, List, Node, Closure

(* What a row may be.                                                      *)
RowItem(hp, h, state, counter) ==
  /\ h \in Handle /\ Valid(hp, h)
  /\ \/ Get(hp, h).kind = "number"
     \/ \E on \in Handle : /\ Get(hp, h) = Node(on) /\ Valid(hp, on)
                           /\ Get(hp, on).kind = "closure"
     \/ \E s \in Seq(Handle) :
          /\ Get(hp, h) = List(s)
          /\ \A j \in DOMAIN s : Valid(hp, s[j]) /\ Get(hp, s[j]).kind = "number"
     \/ Get(hp, h) = Closure("pop", {state, counter})

(* The component, its two cells, what they hold, and the rows.             *)
ProgramAt(hp, inst, getter, state, counter, count, rows, items) ==
  /\ {inst, getter, state, counter, count, rows} \subseteq Handle
  /\ \A h \in {inst, getter, state, counter, count, rows} : Valid(hp, h)
  /\ Get(hp, inst) = List(<<getter, state, counter>>)
  /\ Get(hp, getter) = Closure("view", {state, counter})
  /\ Get(hp, state) = Cell(rows)
  /\ Get(hp, counter) = Cell(count)
  /\ Get(hp, count).kind = "number"
  /\ Get(hp, rows) = List(items) /\ items \in Seq(Handle) /\ items # <<>>
  /\ \A i \in DOMAIN items : RowItem(hp, items[i], state, counter)

LEMMA GoodValue ==
  ASSUME NEW hp, WellFormed(hp), NEW h, Valid(hp, h)
  PROVE  Good(hp, Get(hp, h))
<1>1. DOMAIN hp.slots = 1 .. Len(hp.slots)
  BY HeapTypes DEF WellFormed
<1> QED BY <1>1 DEF WellFormed, Filled, Valid, Get

LEMMA ProgramSane ==
  ASSUME NEW hp, WellFormed(hp), NEW inst, NEW getter, NEW state, NEW counter,
         NEW count, NEW rows, NEW items,
         ProgramAt(hp, inst, getter, state, counter, count, rows, items)
  PROVE  /\ Sane(hp, getter) /\ Sane(hp, state) /\ Sane(hp, counter)
         /\ Sane(hp, count) /\ Sane(hp, rows)
         /\ \A i \in DOMAIN items :
              Sane(hp, items[i]) /\ \A h \in Kids(Get(hp, items[i])) : Sane(hp, h)
<1>1. \A h : Valid(hp, h) => \A k \in Kids(Get(hp, h)) : Sane(hp, k)
  BY GoodValue DEF Good
<1>2. /\ Kids(Get(hp, state)) = {rows} /\ Kids(Get(hp, counter)) = {count}
      /\ Kids(Get(hp, getter)) = {state, counter}
      /\ Kids(Get(hp, rows)) = {items[i] : i \in DOMAIN items}
  BY KidsOf DEF ProgramAt
<1>3. getter \in Kids(Get(hp, inst))
  <2>1. PICK s : s = <<getter, state, counter>>
    OBVIOUS
  <2>2. Kids(Get(hp, inst)) = {s[i] : i \in DOMAIN s}
    BY <2>1, KidsOf DEF ProgramAt
  <2>3. 1 \in DOMAIN s /\ s[1] = getter
    BY <2>1
  <2> QED BY <2>2, <2>3
<1>4. Sane(hp, getter) /\ Sane(hp, rows) /\ Sane(hp, count)
  BY <1>1, <1>2, <1>3 DEF ProgramAt
<1>5. Sane(hp, state) /\ Sane(hp, counter)
  BY <1>1, <1>2 DEF ProgramAt
<1>6. \A i \in DOMAIN items : Sane(hp, items[i]) /\ Valid(hp, items[i])
  BY <1>1, <1>2 DEF ProgramAt, RowItem
<1> QED BY <1>1, <1>4, <1>5, <1>6

(* The component stays what it is as long as what it is made of is kept.   *)
LEMMA RowItemKept ==
  ASSUME NEW hp, NEW hq, NEW h, NEW state, NEW counter,
         RowItem(hp, h, state, counter), KeptIn(hp, hq, {h} \cup Kids(Get(hp, h)))
  PROVE  RowItem(hq, h, state, counter) /\ Get(hq, h) = Get(hp, h)
<1>1. h \in Handle /\ Valid(hq, h) /\ Get(hq, h) = Get(hp, h)
  BY DEF RowItem, KeptIn
<1>2. \A k \in Kids(Get(hp, h)) : Valid(hp, k) => Valid(hq, k) /\ Get(hq, k) = Get(hp, k)
  BY DEF KeptIn
<1>3. CASE Get(hp, h).kind = "number"
  BY <1>1, <1>3 DEF RowItem
<1>4. ASSUME NEW on \in Handle, Get(hp, h) = Node(on), Valid(hp, on),
             Get(hp, on).kind = "closure"
      PROVE  RowItem(hq, h, state, counter)
  <2>1. on \in Kids(Get(hp, h))
    BY <1>4, KidsOf
  <2> QED BY <1>1, <1>2, <1>4, <2>1 DEF RowItem
<1>5. ASSUME NEW s \in Seq(Handle), Get(hp, h) = List(s),
             \A j \in DOMAIN s : Valid(hp, s[j]) /\ Get(hp, s[j]).kind = "number"
      PROVE  RowItem(hq, h, state, counter)
  <2>1. Kids(Get(hp, h)) = {s[j] : j \in DOMAIN s}
    BY <1>5, KidsOf
  <2>2. \A j \in DOMAIN s : Valid(hq, s[j]) /\ Get(hq, s[j]).kind = "number"
    BY <1>2, <1>5, <2>1
  <2> QED BY <1>1, <1>5, <2>2 DEF RowItem
<1>6. CASE Get(hp, h) = Closure("pop", {state, counter})
  BY <1>1, <1>6 DEF RowItem
<1> QED BY <1>1, <1>3, <1>4, <1>5, <1>6 DEF RowItem

LEMMA ProgramKept ==
  ASSUME NEW hp, NEW hq, NEW inst, NEW getter, NEW state, NEW counter,
         NEW count, NEW rows, NEW items,
         ProgramAt(hp, inst, getter, state, counter, count, rows, items),
         NEW S, KeptIn(hp, hq, S), {inst, getter, state, counter, count, rows} \subseteq S,
         \A i \in DOMAIN items : {items[i]} \cup Kids(Get(hp, items[i])) \subseteq S
  PROVE  ProgramAt(hq, inst, getter, state, counter, count, rows, items)
<1>1. \A h \in {inst, getter, state, counter, count, rows} :
        Valid(hq, h) /\ Get(hq, h) = Get(hp, h)
  BY DEF KeptIn, ProgramAt
<1>2. \A i \in DOMAIN items : RowItem(hq, items[i], state, counter)
  <2> SUFFICES ASSUME NEW i \in DOMAIN items
               PROVE  RowItem(hq, items[i], state, counter)
    OBVIOUS
  <2>1. PICK h : h = items[i]
    OBVIOUS
  <2>2. RowItem(hp, h, state, counter)
    BY <2>1 DEF ProgramAt
  <2>3. KeptIn(hp, hq, {h} \cup Kids(Get(hp, h)))
    BY <2>1 DEF KeptIn
  <2> QED BY <2>1, <2>2, <2>3, RowItemKept
<1> QED BY <1>1, <1>2 DEF ProgramAt

LEMMA ProgramKeeps ==
  ASSUME NEW hp, WellFormed(hp), NEW hq, Keeps(hp, hq),
         NEW inst, NEW getter, NEW state, NEW counter, NEW count, NEW rows, NEW items,
         ProgramAt(hp, inst, getter, state, counter, count, rows, items)
  PROVE  ProgramAt(hq, inst, getter, state, counter, count, rows, items)
<1>1. KeptIn(hp, hq, Handle)
  BY DEF Keeps, KeptIn
<1>2. \A i \in DOMAIN items : {items[i]} \cup Kids(Get(hp, items[i])) \subseteq Handle
  BY ProgramSane DEF Sane
<1>3. {inst, getter, state, counter, count, rows} \subseteq Handle
  BY DEF ProgramAt
<1>4. PICK S : S = Handle
  OBVIOUS
<1>5. /\ KeptIn(hp, hq, S) /\ {inst, getter, state, counter, count, rows} \subseteq S
      /\ \A i \in DOMAIN items : {items[i]} \cup Kids(Get(hp, items[i])) \subseteq S
  BY <1>1, <1>2, <1>3, <1>4
<1> QED BY <1>5, ProgramKept

(* Nothing of the program is deeper than the marking is sure to go.        *)
LEMMA ProgramNear ==
  ASSUME NEW hp, NEW inst, NEW getter, NEW state, NEW counter,
         NEW count, NEW rows, NEW items,
         ProgramAt(hp, inst, getter, state, counter, count, rows, items),
         NEW roots, inst \in roots,
         NEW S, S = Near(hp, Near(hp, Near(hp, Near(hp, roots))))
  PROVE  /\ {inst, getter, state, counter, count, rows} \subseteq S
         /\ \A i \in DOMAIN items : {items[i]} \cup Kids(Get(hp, items[i])) \subseteq S
<1>1. PICK A, B, C : A = Near(hp, roots) /\ B = Near(hp, A) /\ C = Near(hp, B)
  OBVIOUS
<1>2. S = Near(hp, C)
  BY <1>1
<1>3. /\ inst \in A /\ A \subseteq B /\ B \subseteq C /\ C \subseteq S
      /\ \A h \in roots : Kids(Get(hp, h)) \subseteq A
      /\ \A h \in A : Kids(Get(hp, h)) \subseteq B
      /\ \A h \in B : Kids(Get(hp, h)) \subseteq C
      /\ \A h \in C : Kids(Get(hp, h)) \subseteq S
  BY <1>1, <1>2 DEF Near
<1>4. {getter, state, counter} \subseteq A
  <2>1. PICK s : s = <<getter, state, counter>>
    OBVIOUS
  <2>2. Kids(Get(hp, inst)) = {s[i] : i \in DOMAIN s}
    BY <2>1, KidsOf DEF ProgramAt
  <2>3. /\ 1 \in DOMAIN s /\ 2 \in DOMAIN s /\ 3 \in DOMAIN s
        /\ s[1] = getter /\ s[2] = state /\ s[3] = counter
    BY <2>1
  <2>4. getter \in Kids(Get(hp, inst)) /\ state \in Kids(Get(hp, inst))
        /\ counter \in Kids(Get(hp, inst))
    BY <2>2, <2>3
  <2> QED BY <1>3, <2>4
<1>5. rows \in B /\ count \in B
  <2>1. rows \in Kids(Get(hp, state)) /\ count \in Kids(Get(hp, counter))
    BY KidsOf DEF ProgramAt
  <2> QED BY <1>3, <1>4, <2>1
<1>6. \A i \in DOMAIN items : items[i] \in C
  <2>1. \A i \in DOMAIN items : items[i] \in Kids(Get(hp, rows))
    BY KidsOf DEF ProgramAt
  <2> QED BY <1>3, <1>5, <2>1
<1> QED BY <1>3, <1>4, <1>5, <1>6

LEMMA ProgramCollected ==
  ASSUME NEW hp, WellFormed(hp), 4 <= Len(hp.slots),
         NEW roots, NEW hq, KeptIn(hp, hq, Reached(hp, roots)),
         NEW inst, NEW getter, NEW state, NEW counter, NEW count, NEW rows, NEW items,
         ProgramAt(hp, inst, getter, state, counter, count, rows, items), inst \in roots
  PROVE  ProgramAt(hq, inst, getter, state, counter, count, rows, items)
<1>1. PICK S : S = Near(hp, Near(hp, Near(hp, Near(hp, roots))))
  OBVIOUS
<1>2. S \subseteq Reached(hp, roots)
  BY <1>1, ReachedNear DEF WellFormed
<1>3. KeptIn(hp, hq, S)
  BY <1>2 DEF KeptIn
<1>4. /\ {inst, getter, state, counter, count, rows} \subseteq S
      /\ \A i \in DOMAIN items : {items[i]} \cup Kids(Get(hp, items[i])) \subseteq S
  BY <1>1, ProgramNear
<1> QED BY <1>3, <1>4, ProgramKept

(* A write to one value leaves the different ones alone.                   *)
LEMMA Untouched ==
  ASSUME NEW hp, NEW hq, NEW w \in Handle, NEW v, Changed(hp, hq, w, v),
         NEW g \in Handle, Valid(hp, g), Get(hp, g) # Get(hp, w)
  PROVE  Valid(hq, g) /\ Get(hq, g) = Get(hp, g)
<1>1. g.slot # w.slot
  BY DEF Get
<1> QED BY <1>1 DEF Changed

LEMMA RowItemUntouched ==
  ASSUME NEW hp, NEW hq, NEW w \in Handle, NEW v, Changed(hp, hq, w, v),
         Get(hp, w).kind \in {"cell", "list"},
         NEW h, NEW state, NEW counter, RowItem(hp, h, state, counter),
         Get(hp, h) # Get(hp, w)
  PROVE  RowItem(hq, h, state, counter) /\ Get(hq, h) = Get(hp, h)
<1>1. h \in Handle /\ Valid(hq, h) /\ Get(hq, h) = Get(hp, h)
  BY Untouched DEF RowItem
<1>2. \A k \in Handle : Valid(hp, k) /\ Get(hp, k).kind \in {"number", "closure"} =>
                          Valid(hq, k) /\ Get(hq, k) = Get(hp, k)
  BY Untouched
<1>3. CASE Get(hp, h).kind = "number"
  BY <1>1, <1>3 DEF RowItem
<1>4. ASSUME NEW on \in Handle, Get(hp, h) = Node(on), Valid(hp, on),
             Get(hp, on).kind = "closure"
      PROVE  RowItem(hq, h, state, counter)
  BY <1>1, <1>2, <1>4 DEF RowItem
<1>5. ASSUME NEW s \in Seq(Handle), Get(hp, h) = List(s),
             \A j \in DOMAIN s : Valid(hp, s[j]) /\ Get(hp, s[j]).kind = "number"
      PROVE  RowItem(hq, h, state, counter)
  <2>1. \A j \in DOMAIN s : s[j] \in Handle
    BY <1>5
  <2>2. \A j \in DOMAIN s : Valid(hq, s[j]) /\ Get(hq, s[j]).kind = "number"
    BY <1>2, <1>5, <2>1
  <2> QED BY <1>1, <1>5, <2>2 DEF RowItem
<1>6. CASE Get(hp, h) = Closure("pop", {state, counter})
  BY <1>1, <1>6 DEF RowItem
<1> QED BY <1>1, <1>3, <1>4, <1>5, <1>6 DEF RowItem

LEMMA Injective ==
  /\ \A s, t : List(s) = List(t) => s = t
  /\ \A g, h : Cell(g) = Cell(h) => g = h
<1>1. ASSUME NEW s, NEW t, List(s) = List(t) PROVE s = t
  <2>1. List(s).items = s /\ List(t).items = t
    BY KindOf
  <2> QED BY <1>1, <2>1
<1>2. ASSUME NEW g, NEW h, Cell(g) = Cell(h) PROVE g = h
  <2>1. Cell(g).of = g /\ Cell(h).of = h
    BY KindOf
  <2> QED BY <1>2, <2>1
<1> QED BY <1>1, <1>2

LEMMA RowKinds ==
  ASSUME NEW hp, NEW h, NEW state, NEW counter, RowItem(hp, h, state, counter)
  PROVE  /\ Get(hp, h).kind \in {"number", "node", "list", "closure"}
         /\ Get(hp, h).kind = "list" => \E s \in Seq(Handle) :
              /\ Get(hp, h) = List(s)
              /\ \A j \in DOMAIN s : Valid(hp, s[j]) /\ Get(hp, s[j]).kind = "number"
<1>1. CASE Get(hp, h).kind = "number"
  BY <1>1
<1>2. CASE \E on : Get(hp, h) = Node(on)
  BY <1>2, KindOf
<1>3. CASE \E s \in Seq(Handle) :
          /\ Get(hp, h) = List(s)
          /\ \A j \in DOMAIN s : Valid(hp, s[j]) /\ Get(hp, s[j]).kind = "number"
  BY <1>3, KindOf
<1>4. CASE Get(hp, h) = Closure("pop", {state, counter})
  BY <1>4, KindOf
<1> QED BY <1>1, <1>2, <1>3, <1>4 DEF RowItem

LEMMA RowsNotNested ==
  ASSUME NEW hp, NEW inst, NEW getter, NEW state, NEW counter,
         NEW count, NEW rows, NEW items,
         ProgramAt(hp, inst, getter, state, counter, count, rows, items)
  PROVE  /\ \A i \in DOMAIN items : Get(hp, items[i]) # List(items)
         /\ List(items) # List(<<getter, state, counter>>)
         /\ 1 \in DOMAIN items
<1>1. 1 \in DOMAIN items
  <2>1. items \in Seq(Handle) /\ items # <<>>
    BY DEF ProgramAt
  <2> QED BY <2>1, EmptySeq
<1>2. ASSUME NEW i \in DOMAIN items, Get(hp, items[i]) = List(items) PROVE FALSE
  <2>1. PICK s \in Seq(Handle) :
          /\ Get(hp, items[i]) = List(s)
          /\ \A j \in DOMAIN s : Valid(hp, s[j]) /\ Get(hp, s[j]).kind = "number"
    <3>1. PICK h : h = items[i]
      OBVIOUS
    <3>2. RowItem(hp, h, state, counter)
      BY <3>1 DEF ProgramAt
    <3>3. Get(hp, h).kind = "list"
      BY <1>2, <3>1, KindOf
    <3> QED BY <3>1, <3>2, <3>3, RowKinds
  <2>2. s = items
    BY <1>2, <2>1, Injective
  <2> QED BY <1>2, <2>1, <2>2, KindOf
<1>3. ASSUME List(items) = List(<<getter, state, counter>>) PROVE FALSE
  <2>1. PICK s : s = <<getter, state, counter>>
    OBVIOUS
  <2>2. items = s /\ s[1] = getter
    BY <1>3, <2>1, Injective
  <2>3. RowItem(hp, getter, state, counter)
    BY <1>1, <2>2 DEF ProgramAt
  <2>4. Get(hp, getter).kind = "closure" /\ Get(hp, getter).code = "view"
    BY KindOf DEF ProgramAt
  <2> QED BY <2>3, <2>4, KindOf DEF RowItem
<1> QED BY <1>1, <1>2, <1>3

LEMMA ProgramRowsWritten ==
  ASSUME NEW hp, NEW hq, NEW inst, NEW getter, NEW state, NEW counter,
         NEW count, NEW rows, NEW items,
         ProgramAt(hp, inst, getter, state, counter, count, rows, items),
         NEW new \in Seq(Handle), new # <<>>,
         \A i \in DOMAIN new : /\ RowItem(hp, new[i], state, counter)
                               /\ Get(hp, new[i]) # List(items),
         Changed(hp, hq, rows, List(new))
  PROVE  ProgramAt(hq, inst, getter, state, counter, count, rows, new)
<1>1. rows \in Handle /\ Get(hp, rows) = List(items) /\ Valid(hp, rows)
  BY DEF ProgramAt
<1>2. \A h \in {inst, getter, state, counter, count} :
        Valid(hq, h) /\ Get(hq, h) = Get(hp, h)
  <2>1. \A h \in {inst, getter, state, counter, count} :
          h \in Handle /\ Valid(hp, h) /\ Get(hp, h) # Get(hp, rows)
    BY <1>1, RowsNotNested, KindOf DEF ProgramAt
  <2> QED BY <1>1, <2>1, Untouched
<1>3. Valid(hq, rows) /\ Get(hq, rows) = List(new)
  BY <1>1 DEF Changed
<1>4. \A i \in DOMAIN new : RowItem(hq, new[i], state, counter)
  BY <1>1, RowItemUntouched, KindOf
<1> QED BY <1>2, <1>3, <1>4 DEF ProgramAt

LEMMA ProgramNestedWritten ==
  ASSUME NEW hp, NEW hq, NEW inst, NEW getter, NEW state, NEW counter,
         NEW count, NEW rows, NEW items,
         ProgramAt(hp, inst, getter, state, counter, count, rows, items),
         NEW i \in DOMAIN items, NEW s, Get(hp, items[i]) = List(s), NEW t \in Seq(Handle),
         \A j \in DOMAIN t : Valid(hp, t[j]) /\ Get(hp, t[j]).kind = "number",
         Changed(hp, hq, items[i], List(t))
  PROVE  ProgramAt(hq, inst, getter, state, counter, count, rows, items)
<1>1. PICK w : w = items[i]
  OBVIOUS
<1>2. w \in Handle /\ Valid(hp, w) /\ Get(hp, w) = List(s) /\ Changed(hp, hq, w, List(t))
      /\ Get(hp, w).kind = "list"
  BY <1>1, KindOf DEF ProgramAt, RowItem
<1>3. Get(hp, inst) # Get(hp, w) /\ Get(hp, rows) # Get(hp, w)
  <2>1. Get(hp, rows) # Get(hp, w)
    BY <1>1, RowsNotNested DEF ProgramAt
  <2>2. PICK r \in Seq(Handle) :
          /\ Get(hp, w) = List(r)
          /\ \A j \in DOMAIN r : Valid(hp, r[j]) /\ Get(hp, r[j]).kind = "number"
    <3>1. RowItem(hp, w, state, counter)
      BY <1>1 DEF ProgramAt
    <3>2. Get(hp, w).kind = "list"
      BY <1>2
    <3> QED BY ONLY <3>1, <3>2, RowKinds
  <2>3. ASSUME Get(hp, inst) = Get(hp, w) PROVE FALSE
    <3>1. PICK u : u = <<getter, state, counter>>
      OBVIOUS
    <3>2. r = u /\ 1 \in DOMAIN u /\ u[1] = getter
      <4>1. List(r) = List(u)
        BY <2>2, <2>3, <3>1 DEF ProgramAt
      <4> QED BY <3>1, <4>1, Injective
    <3> QED BY <2>2, <3>2, KindOf DEF ProgramAt
  <2> QED BY <2>1, <2>3
<1>4. \A h \in {inst, getter, state, counter, count, rows} :
        Valid(hq, h) /\ Get(hq, h) = Get(hp, h)
  <2>1. \A h \in {inst, getter, state, counter, count, rows} :
          h \in Handle /\ Valid(hp, h) /\ Get(hp, h) # Get(hp, w)
    BY <1>2, <1>3, KindOf DEF ProgramAt
  <2> QED BY <1>2, <2>1, Untouched
<1>5. ASSUME NEW k \in DOMAIN items
      PROVE  RowItem(hq, items[k], state, counter)
  <2>1. PICK h : h = items[k]
    OBVIOUS
  <2>2. RowItem(hp, h, state, counter) /\ h \in Handle /\ Valid(hp, h)
    BY <2>1 DEF ProgramAt, RowItem
  <2>3. CASE Get(hp, h) # Get(hp, w)
    BY <1>2, <2>1, <2>2, <2>3, RowItemUntouched
  <2>4. CASE Get(hp, h) = Get(hp, w) /\ h.slot # w.slot
    <3>1. Valid(hq, h) /\ Get(hq, h) = List(s)
      BY <1>2, <2>2, <2>4 DEF Changed
    <3>2. PICK r \in Seq(Handle) :
            /\ Get(hp, h) = List(r)
            /\ \A j \in DOMAIN r : Valid(hp, r[j]) /\ Get(hp, r[j]).kind = "number"
      <4>1. Get(hp, h).kind = "list"
        BY <1>2, <2>4
      <4> QED BY ONLY <2>2, <4>1, RowKinds
    <3>3. r = s
      BY <1>2, <2>4, <3>2, Injective
    <3>4. \A j \in DOMAIN s : Valid(hq, s[j]) /\ Get(hq, s[j]).kind = "number"
      <4>1. \A j \in DOMAIN s : s[j] \in Handle /\ Get(hp, s[j]) # Get(hp, w)
        BY <1>2, <3>2, <3>3
      <4> QED BY <1>2, <3>2, <3>3, <4>1, Untouched
    <3> QED BY <2>1, <2>2, <3>1, <3>2, <3>3, <3>4 DEF RowItem
  <2>5. CASE h.slot = w.slot
    <3>1. Valid(hq, h) /\ Get(hq, h) = List(t)
      BY <1>2, <2>2, <2>5 DEF Changed
    <3>2. \A j \in DOMAIN t : Valid(hq, t[j]) /\ Get(hq, t[j]).kind = "number"
      <4>1. \A j \in DOMAIN t : t[j] \in Handle /\ Get(hp, t[j]) # Get(hp, w)
        BY <1>2
      <4> QED BY <1>2, <4>1, Untouched
    <3> QED BY <2>1, <2>2, <3>1, <3>2 DEF RowItem
  <2> QED BY <2>3, <2>4, <2>5
<1> QED BY <1>4, <1>5 DEF ProgramAt

LEMMA ProgramCounterWritten ==
  ASSUME NEW hp, NEW hq, NEW inst, NEW getter, NEW state, NEW counter,
         NEW count, NEW rows, NEW items,
         ProgramAt(hp, inst, getter, state, counter, count, rows, items),
         NEW new \in Handle, Valid(hp, new), Get(hp, new).kind = "number",
         Changed(hp, hq, counter, Cell(new))
  PROVE  ProgramAt(hq, inst, getter, state, counter, new, rows, items)
<1>1. counter \in Handle /\ Get(hp, counter) = Cell(count) /\ Valid(hp, counter)
      /\ Get(hp, counter).kind = "cell"
  BY KindOf DEF ProgramAt
<1>2. Get(hp, state) # Get(hp, counter)
  <2>1. rows # count
    BY KindOf DEF ProgramAt
  <2> QED BY <2>1, KindOf DEF ProgramAt
<1>3. \A h \in {inst, getter, state, rows, new} :
        Valid(hq, h) /\ Get(hq, h) = Get(hp, h)
  <2>1. \A h \in {inst, getter, state, rows, new} :
          h \in Handle /\ Valid(hp, h) /\ Get(hp, h) # Get(hp, counter)
    BY <1>1, <1>2, KindOf DEF ProgramAt
  <2> QED BY <1>1, <2>1, Untouched
<1>4. Valid(hq, counter) /\ Get(hq, counter) = Cell(new)
  BY <1>1 DEF Changed
<1>5. \A i \in DOMAIN items : RowItem(hq, items[i], state, counter)
  <2>1. \A i \in DOMAIN items : /\ RowItem(hp, items[i], state, counter)
                                /\ Get(hp, items[i]) # Get(hp, counter)
    BY <1>1, RowKinds DEF ProgramAt
  <2> QED BY <1>1, <2>1, RowItemUntouched
<1> QED BY <1>3, <1>4, <1>5 DEF ProgramAt

LEMMA ProgramStateWritten ==
  ASSUME NEW hp, NEW hq, NEW inst, NEW getter, NEW state, NEW counter,
         NEW count, NEW rows, NEW items,
         ProgramAt(hp, inst, getter, state, counter, count, rows, items),
         NEW list \in Handle, NEW new \in Seq(Handle), new # <<>>,
         Valid(hp, list), Get(hp, list) = List(new),
         \A i \in DOMAIN new : RowItem(hp, new[i], state, counter),
         Changed(hp, hq, state, Cell(list))
  PROVE  ProgramAt(hq, inst, getter, state, counter, count, list, new)
<1>1. state \in Handle /\ Get(hp, state) = Cell(rows) /\ Valid(hp, state)
      /\ Get(hp, state).kind = "cell"
  BY KindOf DEF ProgramAt
<1>2. Get(hp, counter) # Get(hp, state)
  <2>1. rows # count
    BY KindOf DEF ProgramAt
  <2> QED BY <2>1, KindOf DEF ProgramAt
<1>3. \A h \in {inst, getter, counter, count, list} :
        Valid(hq, h) /\ Get(hq, h) = Get(hp, h)
  <2>1. \A h \in {inst, getter, counter, count, list} :
          h \in Handle /\ Valid(hp, h) /\ Get(hp, h) # Get(hp, state)
    BY <1>1, <1>2, KindOf DEF ProgramAt
  <2> QED BY <1>1, <2>1, Untouched
<1>4. Valid(hq, state) /\ Get(hq, state) = Cell(list)
  BY <1>1 DEF Changed
<1>5. \A i \in DOMAIN new : RowItem(hq, new[i], state, counter)
  <2>1. \A i \in DOMAIN new : /\ RowItem(hp, new[i], state, counter)
                              /\ Get(hp, new[i]) # Get(hp, state)
    BY <1>1, RowKinds
  <2> QED BY <1>1, <2>1, RowItemUntouched
<1> QED BY <1>3, <1>4, <1>5 DEF ProgramAt

LEMMA GoodValues ==
  ASSUME NEW hp
  PROVE  /\ \A n : Good(hp, Number(n)) /\ \A p : Good(hp, Text(p))
         /\ \A h : Sane(hp, h) => Good(hp, Cell(h)) /\ Good(hp, Node(h))
         /\ \A s \in Seq(Handle) : (\A i \in DOMAIN s : Sane(hp, s[i])) => Good(hp, List(s))
<1>1. \A n : Good(hp, Number(n)) /\ \A p : Good(hp, Text(p))
  BY KidsOf, KindOf DEF Good
<1>2. \A h : Sane(hp, h) => Good(hp, Cell(h)) /\ Good(hp, Node(h))
  BY KidsOf, KindOf DEF Good
<1>3. ASSUME NEW s \in Seq(Handle), \A i \in DOMAIN s : Sane(hp, s[i])
      PROVE  Good(hp, List(s))
  BY <1>3, KidsOf, KindOf DEF Good
<1> QED BY <1>1, <1>2, <1>3

LEMMA GoodClosure ==
  ASSUME NEW hp, NEW c \in Codes, NEW s, \A h \in s : Sane(hp, h)
  PROVE  Good(hp, Closure(c, s))
BY KidsOf, KindOf DEF Good

(* What the names of the model stand for.                                  *)
LEMMA Names ==
  ASSUME NEW getter, NEW state, NEW counter, NEW count, NEW rows, NEW items,
         ProgramAt(heap, instance, getter, state, counter, count, rows, items)
  PROVE  /\ View = getter /\ State = state /\ Counter = counter
         /\ Rows = rows /\ Items = items /\ Get(heap, Counter).of = count
<1>1. PICK s : s = <<getter, state, counter>>
  OBVIOUS
<1>2. Get(heap, instance).items = s /\ s[1] = getter /\ s[2] = state /\ s[3] = counter
  BY <1>1, KindOf DEF ProgramAt
<1>3. View = getter /\ State = state /\ Counter = counter
  BY <1>2 DEF View, State, Counter
<1>4. Rows = rows /\ Get(heap, Counter).of = count
  BY <1>3, KindOf DEF ProgramAt, Rows
<1>5. Items = items
  BY <1>4, KindOf DEF ProgramAt, Items
<1> QED BY <1>3, <1>4, <1>5

-----------------------------------------------------------------------------
(* Evaluations.                                                            *)

Sized == {"length", "pop", "copy"}

(* What has been made, before the getter writes.                           *)
MadeBy(code, hq, v) ==
  /\ WellFormed(hq) /\ Later(heap, hq) /\ Keeps(heap, hq)
  /\ Sane(hq, v) /\ Valid(hq, v)
  /\ code \in Sized => Get(hq, v) = Number(Len(Items))
  /\ code = "print" => Get(hq, v) = Text(Printed)
  /\ code = "host" => Get(hq, v) = Number(outside)
  /\ code = "count" => Get(hq, v).kind = "number"
  /\ code = "first" => v = Items[1]
  /\ code = "children" => v = Rows
  /\ code = "view" => \E s \in Seq(Handle) :
       /\ Get(hq, v) = List(s) /\ Len(s) = Len(view)
       /\ \A k \in 1 .. Len(s) :
            Valid(hq, s[k]) /\ Get(hq, s[k]) = Closure(view[k], {State, Counter})

LEMMA MadeSeveral ==
  ASSUME NEW code, NEW values, WellFormed(heap), Made(code) = values, Len(values) \in Nat,
         \A k \in 1 .. Len(values) : Good(heap, values[k]),
         1 <= Len(values), NEW v, v = values[Len(values)],
         code \notin {"view", "first", "children"}
  PROVE  LET made == Outcome(code) IN
         /\ WellFormed(made.heap) /\ Later(heap, made.heap) /\ Keeps(heap, made.heap)
         /\ New(heap, made.heap, made.value, v)
<1>1. PICK made, outcome : made = AllocAll(heap, values) /\ outcome = Outcome(code)
  OBVIOUS
<1>2. MadeOf(heap, made.heap, made.handles, values, Len(values))
  BY <1>1, AllocatedAll
<1>3. outcome.heap = made.heap /\ outcome.value = made.handles[Len(made.handles)]
  BY <1>1 DEF Outcome
<1>4. New(heap, made.heap, made.handles[Len(made.handles)], v)
  BY <1>2 DEF MadeOf
<1> QED BY <1>1, <1>2, <1>3, <1>4 DEF MadeOf

LEMMA OutcomeMade ==
  ASSUME NEW code \in Codes \ {"handler"}, view \in Seq(Getter),
         WellFormed(heap), NEW getter, NEW state, NEW counter, NEW count,
         NEW rows, NEW items,
         ProgramAt(heap, instance, getter, state, counter, count, rows, items)
  PROVE  MadeBy(code, Outcome(code).heap, Outcome(code).value)
<1>1. /\ State = state /\ Counter = counter /\ Rows = rows /\ Items = items
  BY Names
<1>2. /\ Sane(heap, state) /\ Sane(heap, counter) /\ Sane(heap, rows)
      /\ \A i \in DOMAIN items : Sane(heap, items[i])
      /\ items \in Seq(Handle) /\ 1 \in DOMAIN items /\ Valid(heap, rows)
      /\ Valid(heap, items[1])
  <2>1. /\ items \in Seq(Handle) /\ Valid(heap, rows)
        /\ \A i \in DOMAIN items : RowItem(heap, items[i], state, counter)
    BY DEF ProgramAt
  <2>2. /\ Sane(heap, state) /\ Sane(heap, counter) /\ Sane(heap, rows)
        /\ \A i \in DOMAIN items : Sane(heap, items[i])
    BY ProgramSane
  <2>3. 1 \in DOMAIN items
    BY RowsNotNested
  <2>4. Valid(heap, items[1])
    BY ONLY <2>1, <2>3 DEF RowItem
  <2> QED BY ONLY <2>1, <2>2, <2>3, <2>4
<1>3. PICK made : made = Outcome(code)
  OBVIOUS
<1>4. code \in {"view", "length", "pop", "print", "copy", "host", "count", "first", "children"}
  <2>1. \A i \in DOMAIN view : view[i] \in Getter
    OBVIOUS
  <2> QED BY <2>1 DEF Codes, Getter
<1>5. ASSUME NEW v, Good(heap, v), Made(code) = <<v>>,
             code \notin {"view", "first", "children"}
      PROVE  WellFormed(made.heap) /\ Later(heap, made.heap) /\ Keeps(heap, made.heap)
             /\ New(heap, made.heap, made.value, v)
  <2>1. PICK values : values = <<v>>
    OBVIOUS
  <2>2. Len(values) \in Nat /\ 1 <= Len(values) /\ v = values[Len(values)]
        /\ \A k \in 1 .. Len(values) : Good(heap, values[k])
    BY <1>5, <2>1
  <2> QED BY <1>3, <1>5, <2>1, <2>2, MadeSeveral
<1>6. ASSUME NEW v, New(heap, made.heap, made.value, v)
      PROVE  Sane(made.heap, made.value) /\ Valid(made.heap, made.value)
             /\ Get(made.heap, made.value) = v
  BY <1>6 DEF New
<1>7. CASE code \in {"length", "pop"}
  <2>1. Made(code) = <<Number(Len(Items))>>
    BY <1>7 DEF Made
  <2> QED BY <1>3, <1>5, <1>6, <1>7, <2>1, GoodValues DEF MadeBy, Sized
<1>8. CASE code = "print"
  <2>1. Made(code) = <<Text(Printed)>>
    BY <1>8 DEF Made
  <2> QED BY <1>3, <1>5, <1>6, <1>8, <2>1, GoodValues DEF MadeBy, Sized
<1>9. CASE code = "host"
  <2>1. Made(code) = <<Number(outside)>>
    BY <1>9 DEF Made
  <2> QED BY <1>3, <1>5, <1>6, <1>9, <2>1, GoodValues DEF MadeBy, Sized
<1>10. CASE code = "count"
  <2>1. PICK v : v = Number(Get(heap, Get(heap, Counter).of).n + 1)
    OBVIOUS
  <2>2. Made(code) = <<v>>
    BY <1>10, <2>1 DEF Made
  <2>3. Good(heap, v) /\ v.kind = "number"
    BY <2>1, GoodValues, KindOf
  <2> QED BY <1>3, <1>5, <1>6, <1>10, <2>2, <2>3 DEF MadeBy, Sized
<1>11. CASE code = "copy"
  <2>1. PICK a, b : a = List(Items) /\ b = Number(Len(Items))
    OBVIOUS
  <2>2. PICK values : values = <<a, b>>
    OBVIOUS
  <2>3. Made(code) = values
    BY <1>11, <2>1, <2>2 DEF Made
  <2>4. Good(heap, a) /\ Good(heap, b)
    BY <1>1, <1>2, <2>1, GoodValues
  <2>5. Len(values) \in Nat /\ 1 <= Len(values) /\ b = values[Len(values)]
        /\ \A k \in 1 .. Len(values) : Good(heap, values[k])
    BY <2>2, <2>4
  <2>6. /\ WellFormed(made.heap) /\ Later(heap, made.heap) /\ Keeps(heap, made.heap)
        /\ New(heap, made.heap, made.value, b)
    BY <1>3, <1>11, <2>3, <2>5, MadeSeveral
  <2> QED BY <1>3, <1>6, <1>11, <2>1, <2>6 DEF MadeBy, Sized
<1>12. CASE code \in {"first", "children"}
  <2>1. PICK values : values = <<>>
    OBVIOUS
  <2>2. Made(code) = values /\ Len(values) = 0
    BY <1>12, <2>1 DEF Made
  <2>3. PICK all : all = AllocAll(heap, values)
    OBVIOUS
  <2>4. MadeOf(heap, all.heap, all.handles, values, Len(values))
    BY <2>2, <2>3, AllocatedAll
  <2>5. made.heap = all.heap
        /\ made.value = IF code = "first" THEN Items[1] ELSE Rows
    BY <1>3, <1>12, <2>2, <2>3 DEF Outcome
  <2>6. WellFormed(made.heap) /\ Later(heap, made.heap) /\ Keeps(heap, made.heap)
    BY <2>4, <2>5 DEF MadeOf
  <2>7. Sane(heap, made.value) /\ Valid(heap, made.value) /\ made.value \in Handle
    BY <1>1, <1>2, <2>5 DEF Sane
  <2>8. Sane(made.heap, made.value) /\ Valid(made.heap, made.value)
    BY <2>6, <2>7 DEF Later, Keeps
  <2> QED BY <1>3, <1>12, <2>5, <2>6, <2>8 DEF MadeBy, Sized
<1>13. CASE code = "view"
  <2>1. PICK values : values = [i \in DOMAIN view |-> Closure(view[i], {State, Counter})]
    OBVIOUS
  <2>2. PICK n \in Nat : n = Len(view) /\ DOMAIN view = 1 .. n
    OBVIOUS
  <2>3. values = [i \in 1 .. n |-> values[i]]
        /\ \A i \in 1 .. n : values[i] = Closure(view[i], {State, Counter})
    BY <2>1, <2>2
  <2>4. Len(values) = n
    BY <2>3, FunctionLen
  <2>5. \A k \in 1 .. n : view[k] \in Codes
    BY <2>2 DEF Codes
  <2>6. \A k \in 1 .. n : Good(heap, values[k])
    <3>1. PICK both : both = {State, Counter}
      OBVIOUS
    <3>2. \A h \in both : Sane(heap, h)
      BY <1>1, <1>2, <3>1
    <3>3. \A c \in Codes : Good(heap, Closure(c, both))
      BY <3>2, GoodClosure
    <3> QED BY <2>3, <2>5, <3>1, <3>3
  <2>7. PICK all : all = AllocAll(heap, values)
    OBVIOUS
  <2>8. MadeOf(heap, all.heap, all.handles, values, n)
    BY <2>4, <2>6, <2>7, AllocatedAll
  <2>9. PICK hq, hs : hq = all.heap /\ hs = all.handles
    OBVIOUS
  <2>10. PICK hr, h : hr = Alloc(hq, List(hs)).heap /\ h = Alloc(hq, List(hs)).handle
    OBVIOUS
  <2>11. Made(code) = values
    BY <1>13, <2>1 DEF Made
  <2>12. made.heap = hr /\ made.value = h
    BY <1>3, <1>13, <2>7, <2>9, <2>10, <2>11 DEF Outcome
  <2>13. /\ WellFormed(hq) /\ Later(heap, hq) /\ Keeps(heap, hq)
         /\ hs \in Seq(Handle) /\ Len(hs) = n
         /\ \A k \in 1 .. n : New(heap, hq, hs[k], values[k])
    BY <2>8, <2>9 DEF MadeOf
  <2>14. Good(hq, List(hs))
    BY <2>13, GoodValues DEF New
  <2>15. WellFormed(hr) /\ Later(hq, hr) /\ Keeps(hq, hr) /\ New(hq, hr, h, List(hs))
    BY <2>10, <2>13, <2>14, Allocated
  <2>16. Later(heap, hr) /\ Keeps(heap, hr)
    BY <2>13, <2>15, LaterStill, KeepsStill DEF WellFormed
  <2>17. \A k \in 1 .. n : Valid(hr, hs[k]) /\ Get(hr, hs[k]) = values[k]
    <3>1. \A k \in 1 .. n : hs[k] \in Handle /\ Valid(hq, hs[k]) /\ Get(hq, hs[k]) = values[k]
      BY <2>13 DEF New
    <3> QED BY <2>15, <3>1 DEF Keeps
  <2>18. Get(hr, h) = List(hs) /\ Valid(hr, h) /\ Sane(hr, h)
    BY <2>15 DEF New
  <2>19. \E s \in Seq(Handle) :
           /\ Get(hr, h) = List(s) /\ Len(s) = Len(view)
           /\ \A k \in 1 .. Len(s) :
                Valid(hr, s[k]) /\ Get(hr, s[k]) = Closure(view[k], {State, Counter})
    BY <2>2, <2>3, <2>13, <2>17, <2>18
  <2>20. MadeBy(code, hr, h)
    BY <1>13, <2>15, <2>16, <2>18, <2>19 DEF MadeBy, Sized
  <2> QED BY <1>3, <2>12, <2>20
<1> QED BY <1>4, <1>7, <1>8, <1>9, <1>10, <1>11, <1>12, <1>13

LEMMA ReadNames ==
  /\ ReadCell[1] = "cell" /\ ReadLength[1] = "length" /\ ReadEntity[1] = "entity"
  /\ \A i : ReadItem(i)[1] = "item" /\ ReadItem(i)[2] = i
  /\ ReadItem(1) # ReadCell /\ ReadItem(1) # ReadLength /\ ReadLength # ReadCell
  /\ ReadEntity # ReadCell /\ ReadEntity # ReadLength
BY DEF ReadCell, ReadLength, ReadEntity, ReadItem

LEMMA RowKids ==
  ASSUME NEW hp, NEW h, NEW state, NEW counter, RowItem(hp, h, state, counter),
         Valid(hp, state), Valid(hp, counter)
  PROVE  \A k \in Kids(Get(hp, h)) : Valid(hp, k)
<1>1. CASE Get(hp, h).kind = "number"
  BY <1>1 DEF Kids
<1>2. ASSUME NEW on \in Handle, Get(hp, h) = Node(on), Valid(hp, on)
      PROVE  \A k \in Kids(Get(hp, h)) : Valid(hp, k)
  BY <1>2, KidsOf
<1>3. ASSUME NEW s \in Seq(Handle), Get(hp, h) = List(s),
             \A j \in DOMAIN s : Valid(hp, s[j])
      PROVE  \A k \in Kids(Get(hp, h)) : Valid(hp, k)
  BY <1>3, KidsOf
<1>4. CASE Get(hp, h) = Closure("pop", {state, counter})
  BY <1>4, KidsOf
<1> QED BY <1>1, <1>2, <1>3, <1>4 DEF RowItem

(* What an evaluation reads is there.                                      *)
LEMMA ReadsThere ==
  ASSUME WellFormed(heap), NEW getter, NEW state, NEW counter, NEW count,
         NEW rows, NEW items,
         ProgramAt(heap, instance, getter, state, counter, count, rows, items),
         NEW code \in {"view", "length", "pop", "print", "copy", "host", "count",
                       "first", "children"},
         NEW r \in Reads(code)
  PROVE  /\ Sane(heap, r[1]) /\ Valid(heap, r[1])
         /\ \/ r = <<state, ReadCell>> \/ r = <<counter, ReadCell>>
            \/ r = <<rows, ReadItem(1)>>
            \/ r = <<rows, ReadLength>> \/ r[2] = ReadEntity
<1>1. /\ State = state /\ Counter = counter /\ Rows = rows /\ Items = items
  BY Names
<1>2. /\ Sane(heap, state) /\ Sane(heap, counter) /\ Sane(heap, rows)
      /\ Valid(heap, state) /\ Valid(heap, counter) /\ Valid(heap, rows)
      /\ Get(heap, rows) = List(items)
  BY ProgramSane DEF ProgramAt
<1>3. \A i \in DOMAIN items : /\ Sane(heap, items[i]) /\ Valid(heap, items[i])
                              /\ \A h \in Kids(Get(heap, items[i])) :
                                   Sane(heap, h) /\ Valid(heap, h)
  <2> SUFFICES ASSUME NEW i \in DOMAIN items
               PROVE  /\ Sane(heap, items[i]) /\ Valid(heap, items[i])
                      /\ \A h \in Kids(Get(heap, items[i])) :
                           Sane(heap, h) /\ Valid(heap, h)
    OBVIOUS
  <2>1. RowItem(heap, items[i], state, counter)
    BY DEF ProgramAt
  <2> QED BY <1>2, <2>1, ProgramSane, RowKids DEF RowItem
<1>4. ASSUME NEW q \in Inspected
      PROVE  Sane(heap, q[1]) /\ Valid(heap, q[1]) /\ q[2] = ReadEntity
  <2>1. PICK h \in {rows} \cup Kids(Get(heap, rows))
                   \cup UNION {Kids(Get(heap, items[i])) : i \in DOMAIN items} :
          q = <<h, ReadEntity>>
    BY <1>1, <1>4 DEF Inspected
  <2>2. h = rows \/ (\E i \in DOMAIN items : h = items[i])
        \/ (\E i \in DOMAIN items : h \in Kids(Get(heap, items[i])))
    BY <1>2, <2>1, KidsOf
  <2>3. Sane(heap, h) /\ Valid(heap, h)
    BY <1>2, <1>3, <2>2
  <2> QED BY <2>1, <2>3
<1>5. CASE code \in {"view", "host"}
  BY <1>5 DEF Reads
<1>6. CASE code \in {"children", "pop"}
  BY <1>1, <1>2, <1>6 DEF Reads
<1>7. CASE code = "length"
  BY <1>1, <1>2, <1>7 DEF Reads
<1>8. CASE code = "first"
  BY <1>1, <1>2, <1>8 DEF Reads
<1>9. CASE code = "print"
  BY <1>1, <1>2, <1>4, <1>9 DEF Reads
<1>10. CASE code = "copy"
  BY <1>1, <1>2, <1>10 DEF Reads
<1>11. CASE code = "count"
  BY <1>1, <1>2, <1>11 DEF Reads
<1> QED BY <1>5, <1>6, <1>7, <1>8, <1>9, <1>10, <1>11

LEMMA ObservedIs ==
  ASSUME NEW hp, NEW state, NEW rows, NEW items, Get(hp, rows) = List(items)
  PROVE  /\ \A h : Get(hp, state) = Cell(h) => Observed(hp, state, ReadCell) = h
         /\ Observed(hp, rows, ReadItem(1)) = Item(items, 1)
         /\ Observed(hp, rows, ReadLength) = Len(items)
         /\ \A h : Observed(hp, h, ReadEntity) = hp.slots[h.slot].revision
<1>1. ASSUME NEW h, Get(hp, state) = Cell(h)
      PROVE  Observed(hp, state, ReadCell) = h
  BY <1>1, KindOf, ReadNames DEF Observed
<1>2. Observed(hp, rows, ReadItem(1)) = Item(items, 1)
  BY KindOf, ReadNames DEF Observed
<1>3. Observed(hp, rows, ReadLength) = Len(items)
  BY KindOf, ReadNames DEF Observed
<1>4. ASSUME NEW h PROVE Observed(hp, h, ReadEntity) = hp.slots[h.slot].revision
  BY ReadNames DEF Observed
<1> QED BY <1>1, <1>2, <1>3, <1>4

LEMMA SourcesThere ==
  ASSUME WellFormed(heap), NEW getter, NEW state, NEW counter, NEW count,
         NEW rows, NEW items,
         ProgramAt(heap, instance, getter, state, counter, count, rows, items),
         NEW code \in {"view", "length", "pop", "print", "copy", "host", "count",
                       "first", "children"},
         NEW h \in Sources(Captured(code))
  PROVE  Sane(heap, h) /\ Valid(heap, h)
<1>1. PICK d \in Captured(code) :
        h = d.object \/ (d.read[1] \in {"cell", "item"} /\ h = d.observed)
  BY DEF Sources
<1>2. PICK r \in Reads(code) :
        d = [object |-> r[1], read |-> r[2], observed |-> Observed(heap, r[1], r[2])]
  BY DEF Captured
<1>3. d.object = r[1] /\ d.read = r[2] /\ d.observed = Observed(heap, r[1], r[2])
  BY <1>2
<1>4. /\ Sane(heap, r[1]) /\ Valid(heap, r[1])
      /\ \/ r = <<state, ReadCell>> \/ r = <<counter, ReadCell>>
         \/ r = <<rows, ReadItem(1)>>
         \/ r = <<rows, ReadLength>> \/ r[2] = ReadEntity
  BY ReadsThere
<1>5. CASE h = d.object
  BY <1>3, <1>4, <1>5
<1>6. CASE d.read[1] \in {"cell", "item"} /\ h = d.observed
  <2>1. r[2] # ReadEntity /\ r[2] # ReadLength
    BY <1>3, <1>6, ReadNames
  <2>2. r = <<state, ReadCell>> \/ r = <<counter, ReadCell>> \/ r = <<rows, ReadItem(1)>>
    BY <1>4, <2>1
  <2>3. /\ Get(heap, state) = Cell(rows) /\ Get(heap, counter) = Cell(count)
        /\ Get(heap, rows) = List(items)
        /\ Valid(heap, rows) /\ Valid(heap, count)
        /\ Sane(heap, rows) /\ Sane(heap, count)
    BY ProgramSane DEF ProgramAt
  <2>4. Item(items, 1) = items[1] /\ Sane(heap, items[1]) /\ Valid(heap, items[1])
    <3>1. 1 \in DOMAIN items /\ items \in Seq(Handle)
      BY RowsNotNested DEF ProgramAt
    <3>2. Item(items, 1) = items[1]
      BY <3>1 DEF Item
    <3>3. RowItem(heap, items[1], state, counter)
      BY <3>1 DEF ProgramAt
    <3>4. Sane(heap, items[1])
      BY <3>1, ProgramSane
    <3> QED BY <3>2, <3>3, <3>4 DEF RowItem
  <2>5. CASE r = <<state, ReadCell>>
    BY <1>3, <1>6, <2>3, <2>5, ObservedIs
  <2>6. CASE r = <<counter, ReadCell>>
    BY <1>3, <1>6, <2>3, <2>6, ObservedIs
  <2>7. CASE r = <<rows, ReadItem(1)>>
    BY <1>3, <1>6, <2>3, <2>4, <2>7, ObservedIs
  <2> QED BY <2>2, <2>5, <2>6, <2>7
<1> QED BY <1>1, <1>5, <1>6

(* A heap that has the whole program in it.                                *)
Alive(hp, inst) ==
  /\ WellFormed(hp) /\ Sane(hp, inst)
  /\ \E getter, state, counter, count, rows, items :
       ProgramAt(hp, inst, getter, state, counter, count, rows, items)

(* The slots of four of its values differ.                                 *)
LEMMA ProgramLong ==
  ASSUME NEW hp, WellFormed(hp), NEW inst, NEW getter, NEW state, NEW counter,
         NEW count, NEW rows, NEW items,
         ProgramAt(hp, inst, getter, state, counter, count, rows, items)
  PROVE  4 <= Len(hp.slots)
<1>1. PICK n \in Nat : n = Len(hp.slots) /\ DOMAIN hp.slots = 1 .. n
  BY HeapTypes DEF WellFormed
<1>2. PICK a, b, c, d : /\ a = inst.slot /\ b = getter.slot
                        /\ c = state.slot /\ d = count.slot
  OBVIOUS
<1>3. a \in 1 .. n /\ b \in 1 .. n /\ c \in 1 .. n /\ d \in 1 .. n
  BY <1>1, <1>2 DEF ProgramAt, Valid
<1>4. /\ hp.slots[a].value.kind = "list" /\ hp.slots[b].value.kind = "closure"
      /\ hp.slots[c].value.kind = "cell" /\ hp.slots[d].value.kind = "number"
  BY <1>2, KindOf DEF ProgramAt, Get
<1>5. a # b /\ a # c /\ a # d /\ b # c /\ b # d /\ c # d
  BY <1>4
<1> QED BY <1>1, <1>3, <1>5

LEMMA AliveCollected ==
  ASSUME NEW hp, NEW inst, Alive(hp, inst), NEW roots, inst \in roots,
         NEW hq, hq = Collect(hp, roots)
  PROVE  Alive(hq, inst) /\ Later(hp, hq) /\ KeptIn(hp, hq, roots)
<1>1. WellFormed(hp) /\ Sane(hp, inst)
  BY DEF Alive
<1>2. PICK getter, state, counter, count, rows, items :
        ProgramAt(hp, inst, getter, state, counter, count, rows, items)
  BY DEF Alive
<1>0. 4 <= Len(hp.slots)
  BY <1>1, <1>2, ProgramLong
<1>3. /\ WellFormed(hq) /\ Later(hp, hq) /\ KeptIn(hp, hq, Reached(hp, roots))
  BY <1>1, Collected
<1>4. roots \subseteq Reached(hp, roots)
  BY <1>1, <1>0, ReachedNear DEF WellFormed
<1>5. KeptIn(hp, hq, roots)
  BY <1>3, <1>4 DEF KeptIn
<1>6. ProgramAt(hq, inst, getter, state, counter, count, rows, items)
  BY <1>1, <1>2, <1>3, <1>0, ProgramCollected
<1>7. Sane(hq, inst)
  BY <1>1, <1>3 DEF Later, Sane
<1> QED BY <1>3, <1>5, <1>6, <1>7 DEF Alive

LEMMA CodesAre ==
  ASSUME view \in Seq(Getter), NEW code \in Codes \ {"handler"}
  PROVE  code \in {"view", "length", "pop", "print", "copy", "host", "count",
                   "first", "children"}
<1>1. \A i \in DOMAIN view : view[i] \in Getter
  OBVIOUS
<1> QED BY <1>1 DEF Codes, Getter

(* The writes of a getter; only those of count and pop are any.            *)
LEMMA AfterWritesAlive ==
  ASSUME Alive(heap, instance), view \in Seq(Getter), NEW code \in Codes \ {"handler"},
         NEW made, made = Outcome(code), NEW hw, hw = AfterWrites(code, made)
  PROVE  /\ Alive(hw, instance) /\ Later(heap, hw)
         /\ \A h \in Handle : Valid(heap, h) => Valid(hw, h)
         /\ Sane(hw, made.value) /\ Valid(hw, made.value)
         /\ Get(hw, instance) = Get(heap, instance)
         /\ code \notin {"count", "pop"} => hw = made.heap
<1> DEFINE hq == made.heap
           v == made.value
<1>1. WellFormed(heap) /\ Sane(heap, instance)
  BY DEF Alive
<1>2. PICK getter, state, counter, count, rows, items :
        ProgramAt(heap, instance, getter, state, counter, count, rows, items)
  BY DEF Alive
<1>3. MadeBy(code, hq, v)
  BY <1>1, <1>2, OutcomeMade
<1>4. WellFormed(hq) /\ Later(heap, hq) /\ Keeps(heap, hq) /\ Sane(hq, v) /\ Valid(hq, v)
      /\ v \in Handle
  BY <1>3 DEF MadeBy, Sane
<1>5. ProgramAt(hq, instance, getter, state, counter, count, rows, items)
  BY <1>1, <1>2, <1>4, ProgramKeeps
<1>6. Sane(hq, instance)
  BY <1>1, <1>4 DEF Later, Sane
<1>7. \A h \in Handle : Valid(heap, h) => Valid(hq, h)
  BY <1>4 DEF Keeps
<1>8. State = state /\ Counter = counter /\ Rows = rows /\ Items = items
  BY <1>2, Names
<1>9. ASSUME NEW w \in Handle, NEW x, WellFormed(hw), Later(hq, hw), Changed(hq, hw, w, x),
             NEW newCount, NEW newItems,
             ProgramAt(hw, instance, getter, state, counter, newCount, rows, newItems)
      PROVE  /\ Alive(hw, instance) /\ Later(heap, hw)
             /\ \A h \in Handle : Valid(heap, h) => Valid(hw, h)
             /\ Sane(hw, v) /\ Valid(hw, v)
             /\ Get(hw, instance) = Get(heap, instance)
  <2>1. Later(heap, hw)
    BY <1>1, <1>4, <1>9, LaterStill DEF WellFormed
  <2>2. Sane(hw, instance) /\ Sane(hw, v)
    BY <1>4, <1>6, <1>9 DEF Later, Sane
  <2>3. \A h \in Handle : Valid(heap, h) => Valid(hw, h)
    BY <1>7, <1>9 DEF Changed
  <2>4. Valid(hw, v)
    BY <1>4, <1>9 DEF Changed
  <2>5. Alive(hw, instance)
    BY <1>9, <2>2 DEF Alive
  <2>6. Get(hw, instance) = Get(heap, instance)
    BY <1>2, <1>9 DEF ProgramAt
  <2> QED BY <2>1, <2>2, <2>3, <2>4, <2>5, <2>6
<1> HIDE DEF hq, v
<1>10. hq = made.heap /\ v = made.value
  BY DEF hq, v
<1>11. CASE code = "count"
  <2>1. hw = Write(hq, counter, Cell(v))
    BY <1>8, <1>10, <1>11 DEF AfterWrites
  <2>2. Get(hq, v).kind = "number"
    BY <1>3, <1>11 DEF MadeBy
  <2>3. Good(hq, Cell(v)) /\ counter \in Handle /\ Valid(hq, counter)
        /\ Get(hq, counter).kind = "cell" /\ Cell(v).kind = "cell"
    <3>1. Good(hq, Cell(v))
      BY <1>4, GoodValues
    <3>2. /\ counter \in Handle /\ Valid(hq, counter)
          /\ Get(hq, counter) = Cell(count)
      BY <1>5 DEF ProgramAt
    <3> QED BY ONLY <3>1, <3>2, KindOf
  <2>4. WellFormed(hw) /\ Later(hq, hw) /\ Changed(hq, hw, counter, Cell(v))
    BY <1>4, <2>1, <2>3, Wrote
  <2>5. ProgramAt(hw, instance, getter, state, counter, v, rows, items)
    BY <1>4, <1>5, <2>2, <2>4, ProgramCounterWritten
  <2> QED BY <1>9, <1>10, <1>11, <2>3, <2>4, <2>5
<1>12. CASE code = "pop" /\ Len(items) > 1
  <2>1. PICK new : new = SubSeq(items, 1, Len(items) - 1)
    OBVIOUS
  <2>2. hw = Write(hq, rows, List(new))
    BY <1>8, <1>10, <1>12, <2>1 DEF AfterWrites
  <2>3. items \in Seq(Handle) /\ items # <<>> /\ Get(hq, rows) = List(items)
        /\ rows \in Handle /\ Valid(hq, rows)
    BY <1>5 DEF ProgramAt
  <2>4. /\ new \in Seq(Handle) /\ Len(items) \in Nat /\ Len(new) = Len(items) - 1
        /\ \A k \in 1 .. Len(items) - 1 : new[k] = items[k]
    BY <2>1, <2>3, ButLast
  <2>5. new # <<>> /\ \A k \in DOMAIN new : k \in DOMAIN items /\ new[k] = items[k]
    <3>1. PICK n \in Nat : n = Len(items) /\ n > 1
      BY <1>12, <2>4
    <3>2. Len(new) # 0 /\ DOMAIN new = 1 .. n - 1 /\ DOMAIN items = 1 .. n
      BY <2>3, <2>4, <3>1
    <3> QED BY <2>4, <3>1, <3>2
  <2>6. \A k \in DOMAIN new : /\ RowItem(hq, new[k], state, counter)
                              /\ Get(hq, new[k]) # List(items)
    <3>1. \A k \in DOMAIN items : RowItem(hq, items[k], state, counter)
      BY <1>5 DEF ProgramAt
    <3>2. \A k \in DOMAIN items : Get(hq, items[k]) # List(items)
      BY <1>5, RowsNotNested
    <3> QED BY ONLY <2>5, <3>1, <3>2
  <2>7. \A k \in DOMAIN new : Sane(hq, new[k])
    <3>1. \A k \in DOMAIN items : Sane(hq, items[k])
      BY <1>4, <1>5, ProgramSane
    <3> QED BY ONLY <2>5, <3>1
  <2>8. Good(hq, List(new)) /\ Get(hq, rows).kind = "list" /\ List(new).kind = "list"
    <3>1. Good(hq, List(new))
      BY ONLY <2>4, <2>7, GoodValues
    <3> QED BY ONLY <2>3, <3>1, KindOf
  <2>9. WellFormed(hw) /\ Later(hq, hw) /\ Changed(hq, hw, rows, List(new))
    BY <1>4, <2>2, <2>3, <2>8, Wrote
  <2>10. ProgramAt(hw, instance, getter, state, counter, count, rows, new)
    BY <1>5, <2>4, <2>5, <2>6, <2>9, ProgramRowsWritten
  <2> QED BY <1>9, <1>10, <1>12, <2>3, <2>9, <2>10
<1>13. CASE ~(code = "count" \/ (code = "pop" /\ Len(items) > 1))
  <2>1. hw = hq
    BY <1>8, <1>10, <1>13 DEF AfterWrites
  <2>2. Alive(hw, instance)
    BY <1>4, <1>5, <1>6, <2>1 DEF Alive
  <2>3. Get(hw, instance) = Get(heap, instance)
    BY <1>2, <1>5, <2>1 DEF ProgramAt
  <2> QED BY <1>4, <1>7, <1>10, <2>1, <2>2, <2>3
<1> QED BY <1>11, <1>12, <1>13

LEMMA EvaluationIs ==
  ASSUME Alive(heap, instance), view \in Seq(Getter), NEW code \in Codes \ {"handler"},
         instance \in pins, NEW e, e = Evaluation(code)
  PROVE  /\ e.reads = Captured(code) /\ e.volatile = Volatile(code)
         /\ e.value = Outcome(code).value
         /\ Alive(e.heap, instance) /\ Later(heap, e.heap)
         /\ Get(e.heap, instance) = Get(heap, instance)
         /\ Sane(e.heap, e.value) /\ Valid(e.heap, e.value)
         /\ \A h \in Sources(e.reads) : Sane(e.heap, h) /\ Valid(e.heap, h)
         /\ \A h \in pins : h \in Handle /\ Valid(heap, h) => Valid(e.heap, h)
<1>1. PICK made, hw, roots :
        /\ made = Outcome(code) /\ hw = AfterWrites(code, made)
        /\ roots = pins \cup {made.value} \cup Sources(Captured(code))
  OBVIOUS
<1>2. e = [value |-> made.value, reads |-> Captured(code), volatile |-> Volatile(code),
           heap |-> Collect(hw, roots)]
  BY <1>1 DEF Evaluation
<1>3. PICK hq : hq = Collect(hw, roots)
  OBVIOUS
<1>4. /\ e.value = made.value /\ e.reads = Captured(code)
      /\ e.volatile = Volatile(code) /\ e.heap = hq
  BY <1>2, <1>3
<1>5. /\ Alive(hw, instance) /\ Later(heap, hw)
      /\ \A h \in Handle : Valid(heap, h) => Valid(hw, h)
      /\ Sane(hw, made.value) /\ Valid(hw, made.value)
      /\ Get(hw, instance) = Get(heap, instance)
  BY <1>1, AfterWritesAlive
<1>6. Alive(hq, instance) /\ Later(hw, hq) /\ KeptIn(hw, hq, roots)
  BY <1>1, <1>3, <1>5, AliveCollected
<1>7. Later(heap, hq)
  BY <1>5, <1>6, LaterStill DEF Alive, WellFormed
<1>8. \A h \in roots : Valid(hw, h) => Valid(hq, h)
  BY <1>6 DEF KeptIn
<1>9. Sane(hq, made.value) /\ Valid(hq, made.value)
  BY <1>1, <1>5, <1>6, <1>8 DEF Later, Sane
<1>10. ASSUME NEW h \in Sources(Captured(code))
       PROVE  Sane(hq, h) /\ Valid(hq, h)
  <2>1. PICK getter, state, counter, count, rows, items :
          ProgramAt(heap, instance, getter, state, counter, count, rows, items)
    BY DEF Alive
  <2>2. Sane(heap, h) /\ Valid(heap, h) /\ h \in Handle
    BY <2>1, CodesAre, SourcesThere DEF Alive, Sane
  <2> QED BY <1>1, <1>5, <1>7, <1>8, <2>2 DEF Later
<1>11. \A h \in pins : h \in Handle /\ Valid(heap, h) => Valid(hq, h)
  BY <1>1, <1>5, <1>8
<1>12. Get(hq, instance) = Get(heap, instance)
  BY <1>1, <1>5, <1>6 DEF KeptIn, Alive, ProgramAt
<1> QED BY <1>1, <1>4, <1>6, <1>7, <1>9, <1>10, <1>11, <1>12

-----------------------------------------------------------------------------
(* No value in use has a handle of one that is not: a collection frees all *)
(* that its roots do not reach, and nothing else.                          *)

Closed(hp) ==
  \A i \in 1 .. Len(hp.slots) :
    hp.slots[i].value # Free => \A k \in Kids(hp.slots[i].value) : Valid(hp, k)

Marked(hp, s) == {i \in 1 .. Len(hp.slots) : \E h \in s : h.slot = i}

(* Marking goes on from slot to slot; a free slot leads nowhere.           *)
LEMMA NearInside ==
  ASSUME NEW hp, IsHeap(hp), Closed(hp), NEW s,
         \A h \in s : h.slot \in 1 .. Len(hp.slots)
  PROVE  /\ \A h \in Near(hp, s) : h.slot \in 1 .. Len(hp.slots)
         /\ Marked(hp, s) \subseteq Marked(hp, Near(hp, s))
<1>1. ASSUME NEW h \in s, NEW k \in Kids(Get(hp, h))
      PROVE  k.slot \in 1 .. Len(hp.slots)
  <2>1. hp.slots[h.slot].value # Free
    BY <1>1 DEF Kids, Get, Free
  <2>2. Valid(hp, k)
    BY <1>1, <2>1 DEF Closed, Get
  <2> QED BY <2>2, HeapTypes DEF Valid
<1> QED BY <1>1 DEF Near, Marked

LEMMA SpreadsInside ==
  ASSUME NEW hp, IsHeap(hp), Closed(hp), NEW roots, NEW n \in Nat, NEW f,
         Spreads(f, hp, roots, n), \A h \in roots : h.slot \in 1 .. Len(hp.slots),
         NEW i \in 0 .. n
  PROVE  \A h \in f[i] : h.slot \in 1 .. Len(hp.slots)
<1> DEFINE Is(j) == \A h \in f[j] : h.slot \in 1 .. Len(hp.slots)
           Bad == {j \in Nat : j <= n /\ ~Is(j)}
<1>1. SUFFICES ASSUME Bad # {} PROVE FALSE
  OBVIOUS
<1>2. PICK m \in Bad : \A k \in Bad : m <= k
  <2>1. Bad \in SUBSET Nat
    OBVIOUS
  <2> HIDE DEF Bad
  <2> QED BY <1>1, <2>1, LeastNatural
<1>3. m # 0
  BY <1>2 DEF Spreads
<1>4. PICK j \in Nat : m = j + 1 /\ j = m - 1 /\ j <= n /\ ~(m <= j) /\ m \in 1 .. n
  BY <1>2, <1>3
<1>5. Is(j)
  <2>1. j \notin Bad
    <3> HIDE DEF Bad
    <3> QED BY <1>2, <1>4
  <2> HIDE DEF Is
  <2> QED BY <1>4, <2>1
<1>6. f[m] = Near(hp, f[j])
  BY <1>4 DEF Spreads
<1>7. Is(m)
  BY <1>5, <1>6, NearInside
<1> HIDE DEF Is
<1> QED BY <1>2, <1>7

(* Once a step marks no slot more, none ever will.                         *)
LEMMA NearStops ==
  ASSUME NEW hp, NEW s, \A h \in Near(hp, s) : h.slot \in 1 .. Len(hp.slots),
         Marked(hp, Near(hp, s)) \subseteq Marked(hp, s)
  PROVE  Near(hp, Near(hp, s)) = Near(hp, s)
<1> SUFFICES ASSUME NEW h \in Near(hp, s), NEW k \in Kids(Get(hp, h))
             PROVE  k \in Near(hp, s)
  BY DEF Near
<1>1. h.slot \in Marked(hp, Near(hp, s))
  BY DEF Marked
<1>2. PICK g \in s : g.slot = h.slot
  BY <1>1 DEF Marked
<1>3. Get(hp, g) = Get(hp, h)
  BY <1>2 DEF Get
<1> QED BY <1>2, <1>3 DEF Near

LEMMA StopsForGood ==
  ASSUME NEW hp, NEW roots, NEW n \in Nat, NEW f, Spreads(f, hp, roots, n),
         NEW j \in 0 .. n, Near(hp, f[j]) = f[j]
  PROVE  f[n] = f[j]
<1> DEFINE Bad == {i \in Nat : j <= i /\ i <= n /\ f[i] # f[j]}
<1>1. SUFFICES ASSUME Bad # {} PROVE FALSE
  OBVIOUS
<1>2. PICK m \in Bad : \A k \in Bad : m <= k
  <2>1. Bad \in SUBSET Nat
    OBVIOUS
  <2> HIDE DEF Bad
  <2> QED BY <1>1, <2>1, LeastNatural
<1>3. m # j /\ m \in 1 .. n /\ j < m
  BY <1>2
<1>4. PICK i \in Nat : m = i + 1 /\ i = m - 1 /\ j <= i /\ i <= n /\ ~(m <= i)
  BY <1>3
<1>5. i \notin Bad
  <2> HIDE DEF Bad
  <2> QED BY <1>2, <1>4
<1>6. f[i] = f[j]
  BY <1>4, <1>5
<1>7. f[m] = Near(hp, f[i])
  BY <1>3, <1>4 DEF Spreads
<1> QED BY <1>2, <1>6, <1>7

LEMMA IntervalSize ==
  ASSUME NEW n \in Nat
  PROVE  IsFiniteSet(1 .. n) /\ Cardinality(1 .. n) = n
<1>1. IsFiniteSet(1 .. n) /\ Cardinality(1 .. n) = IF 1 > n THEN 0 ELSE n - 1 + 1
  BY FS_Interval
<1> QED BY <1>1

(* There are only so many slots: after as many steps as there are slots,   *)
(* all of them are marked or a step has marked none.                       *)
LEMMA MarksEnough ==
  ASSUME NEW hp, IsHeap(hp), Closed(hp), NEW roots, NEW n \in Nat, n = Len(hp.slots),
         NEW f, Spreads(f, hp, roots, n), \A h \in roots : h.slot \in 1 .. Len(hp.slots)
  PROVE  Marked(hp, f[n]) = 1 .. n \/ Near(hp, f[n]) = f[n]
<1> SUFFICES ASSUME Near(hp, f[n]) # f[n] PROVE Marked(hp, f[n]) = 1 .. n
  OBVIOUS
<1> DEFINE M(i) == Marked(hp, f[i])
<1>1. \A i \in 0 .. n : M(i) \in SUBSET (1 .. n)
  BY DEF Marked
<1>2. IsFiniteSet(1 .. n) /\ Cardinality(1 .. n) = n
  <2> HIDE DEF M
  <2> QED BY IntervalSize
<1>3. \A i \in 0 .. n : IsFiniteSet(M(i)) /\ Cardinality(M(i)) \in Nat
  <2> SUFFICES ASSUME NEW i \in 0 .. n
               PROVE  IsFiniteSet(M(i)) /\ Cardinality(M(i)) \in Nat
    OBVIOUS
  <2> HIDE DEF M
  <2>1. IsFiniteSet(M(i))
    BY <1>1, <1>2, FS_Subset
  <2> QED BY <2>1, FS_CardinalityType
<1>4. ASSUME NEW i \in 0 .. n, NEW j \in 0 .. n, j = i + 1
      PROVE  M(i) \subseteq M(j) /\ M(i) # M(j)
  <2>1. f[j] = Near(hp, f[i])
    <3>1. j \in 1 .. n /\ j - 1 = i
      BY <1>4
    <3> QED BY <3>1 DEF Spreads
  <2>2. \A h \in f[i] : h.slot \in 1 .. Len(hp.slots)
    BY SpreadsInside
  <2>3. /\ \A h \in f[j] : h.slot \in 1 .. Len(hp.slots)
        /\ M(i) \subseteq M(j)
    BY <2>1, <2>2, NearInside
  <2>4. ASSUME M(j) \subseteq M(i) PROVE FALSE
    <3>1. Near(hp, f[j]) = f[j]
      BY <2>1, <2>3, <2>4, NearStops
    <3>2. f[n] = f[j]
      BY <3>1, StopsForGood
    <3> QED BY <3>1, <3>2
  <2> QED BY <2>3, <2>4
<1> HIDE DEF M
<1>5. \A i \in 0 .. n : i <= Cardinality(M(i))
  <2> DEFINE Bad == {i \in Nat : i <= n /\ ~(i <= Cardinality(M(i)))}
  <2>1. SUFFICES ASSUME Bad # {} PROVE FALSE
    OBVIOUS
  <2>2. PICK m \in Bad : \A k \in Bad : m <= k
    <3>1. Bad \in SUBSET Nat
      OBVIOUS
    <3> HIDE DEF Bad
    <3> QED BY <2>1, <3>1, LeastNatural
  <2>3. m # 0 /\ m \in Nat /\ m <= n /\ ~(m <= Cardinality(M(m)))
    BY <1>3, <2>2
  <2>4. PICK i \in Nat : m = i + 1 /\ i <= n /\ ~(m <= i) /\ i \in 0 .. n /\ m \in 0 .. n
    BY <2>3
  <2>5. i \notin Bad
    <3> HIDE DEF Bad
    <3> QED BY <2>2, <2>4
  <2>6. i <= Cardinality(M(i))
    BY <2>4, <2>5
  <2>7. M(i) \subseteq M(m) /\ M(i) # M(m)
    BY <1>4, <2>4
  <2>8. IsFiniteSet(M(m)) /\ M(i) \in SUBSET M(m)
    BY <1>3, <2>4, <2>7
  <2>9. Cardinality(M(i)) <= Cardinality(M(m)) /\ Cardinality(M(i)) # Cardinality(M(m))
    BY <2>7, <2>8, FS_Subset
  <2>10. Cardinality(M(i)) \in Nat /\ Cardinality(M(m)) \in Nat
    BY <1>3, <2>4
  <2> QED BY <2>3, <2>4, <2>6, <2>9, <2>10
<1>6. n \in 0 .. n
  OBVIOUS
<1>7. /\ M(n) \in SUBSET (1 .. n) /\ n <= Cardinality(M(n)) /\ Cardinality(M(n)) \in Nat
  BY <1>1, <1>3, <1>5, <1>6
<1>8. Cardinality(M(n)) <= n
  BY <1>2, <1>7, FS_Subset
<1>9. M(n) = 1 .. n
  <2>1. Cardinality(M(n)) = Cardinality(1 .. n)
    BY <1>2, <1>7, <1>8
  <2> QED BY <1>2, <1>7, <2>1, FS_Subset
<1> QED BY <1>9 DEF M

(* What the marking of a collection has reached leads to nothing that it   *)
(* would free.                                                             *)
LEMMA ReachedAll ==
  ASSUME NEW hp, IsHeap(hp), Closed(hp), NEW roots,
         \A h \in roots : h.slot \in 1 .. Len(hp.slots),
         NEW h \in Reached(hp, roots), NEW k \in Kids(Get(hp, h))
  PROVE  k.slot \in {g.slot : g \in Reached(hp, roots)}
<1>1. PICK n \in Nat : n = Len(hp.slots)
  BY DEF IsHeap
<1>2. Cardinality(DOMAIN hp.slots) = n
  BY <1>1, HeapTypes, IntervalSize
<1>3. PICK f : Spreads(f, hp, roots, n) /\ Reached(hp, roots) = f[n]
  BY <1>2, ReachedIs
<1>4. \A g \in f[n] : g.slot \in 1 .. Len(hp.slots)
  <2>1. n \in 0 .. n
    OBVIOUS
  <2> QED BY <1>3, <2>1, SpreadsInside
<1>5. k \in Near(hp, f[n]) /\ k.slot \in 1 .. n
  <2>1. k \in Near(hp, f[n])
    BY <1>3 DEF Near
  <2> QED BY <1>1, <1>4, <2>1, NearInside
<1>6. CASE Marked(hp, f[n]) = 1 .. n
  BY <1>3, <1>5, <1>6 DEF Marked
<1>7. CASE Near(hp, f[n]) = f[n]
  BY <1>3, <1>5, <1>7
<1> QED BY <1>1, <1>3, <1>6, <1>7, MarksEnough

LEMMA CollectedClosed ==
  ASSUME NEW hp, WellFormed(hp), Closed(hp), NEW roots, NEW hq, hq = Collect(hp, roots),
         \A h \in roots : h.slot \in DOMAIN hp.slots
  PROVE  Closed(hq)
<1> DEFINE n == Len(hp.slots)
<1>1. IsHeap(hp) /\ n \in Nat /\ DOMAIN hp.slots = 1 .. n
  BY HeapTypes DEF WellFormed
<1>2. PICK swept : swept = Swept(hp, roots)
  OBVIOUS
<1>a. /\ hq = [slots |-> hq.slots, free |-> hq.free, allocations |-> hq.allocations]
      /\ hq.allocations = hp.allocations
      /\ hq.free = FreeAfter(hp, swept)
      /\ hq.slots = [i \in 1 .. n |-> hq.slots[i]]
      /\ \A i \in 1 .. n :
              /\ i \notin swept => hq.slots[i] = hp.slots[i]
              /\ i \in swept =>
                   hq.slots[i] = [value |-> Free,
                                  generation |-> hp.slots[i].generation + 1,
                                  created |-> hp.slots[i].created,
                                  revision |-> hp.slots[i].revision]
  BY <1>1, <1>2, CollectIs
<1>b. Len(hq.slots) = n /\ IsHeap(hq)
  BY Collected DEF WellFormed
<1>3. /\ \A i \in 1 .. n : i \notin swept => hq.slots[i] = hp.slots[i]
      /\ Len(hq.slots) = n /\ IsHeap(hq) /\ DOMAIN hq.slots = 1 .. n
  BY <1>a, <1>b, HeapTypes
<1>4. \A i \in swept : i \in 1 .. n /\ hq.slots[i].value = Free
  <2> SUFFICES ASSUME NEW i \in swept PROVE i \in 1 .. n /\ hq.slots[i].value = Free
    OBVIOUS
  <2>1. i \in 1 .. n
    BY <1>1, <1>2 DEF Swept
  <2>2. PICK t : t = hq.slots[i]
    OBVIOUS
  <2>3. t = [value |-> Free, generation |-> hp.slots[i].generation + 1,
             created |-> hp.slots[i].created, revision |-> hp.slots[i].revision]
    BY <1>a, <2>1, <2>2
  <2> QED BY <2>1, <2>2, <2>3
<1> SUFFICES ASSUME NEW i \in 1 .. n, hq.slots[i].value # Free,
                    NEW k \in Kids(hq.slots[i].value)
             PROVE  Valid(hq, k)
  BY <1>3 DEF Closed
<1>5. i \notin swept /\ hq.slots[i] = hp.slots[i]
  BY <1>3, <1>4
<1>6. Valid(hp, k) /\ k.slot \in 1 .. n
  BY <1>1, <1>5 DEF Closed, Valid
<1>7. PICK h \in Reached(hp, roots) : h.slot = i
  BY <1>1, <1>2, <1>5 DEF Swept
<1>8. k \in Kids(Get(hp, h))
  BY <1>5, <1>7 DEF Get
<1>9. k.slot \in {g.slot : g \in Reached(hp, roots)}
  <2>1. \A g \in roots : g.slot \in 1 .. Len(hp.slots)
    BY <1>1
  <2> QED BY <1>1, <1>8, <2>1, ReachedAll
<1>10. k.slot \notin swept
  BY <1>2, <1>9 DEF Swept
<1> QED BY <1>3, <1>6, <1>10 DEF Valid

Leads(hp, v) == \A k \in Kids(v) : Valid(hp, k)

LEMMA ClosedGet ==
  ASSUME NEW hp, IsHeap(hp), Closed(hp), NEW h, Valid(hp, h)
  PROVE  Leads(hp, Get(hp, h))
BY HeapTypes DEF Closed, Leads, Valid, Get

LEMMA AllocatedClosed ==
  ASSUME NEW hp, WellFormed(hp), Closed(hp), NEW v, Good(hp, v), Leads(hp, v),
         NEW hq, hq = Alloc(hp, v).heap
  PROVE  Closed(hq)
<1>1. PICK h : h = Alloc(hp, v).handle
  OBVIOUS
<1>2. Keeps(hp, hq) /\ IsHeap(hq)
  BY <1>1, Allocated DEF WellFormed
<1>3. PICK n \in Nat : n = Len(hp.slots)
  BY DEF WellFormed, IsHeap
<1>4. PICK i \in 1 .. n + 1 : \A k \in 1 .. Len(hq.slots) :
        \/ k = i /\ hq.slots[k].value = v
        \/ k \in 1 .. n /\ hq.slots[k] = hp.slots[k]
  <2>1. PICK j \in 1 .. Len(hp.slots) + 1, gen \in Nat :
           /\ TakesSlot(hp, hq, j, gen, v)
           /\ h = [slot |-> j, generation |-> gen, born |-> hp.allocations + 1]
           /\ \/ /\ hp.free # <<>> /\ j = hp.free[Len(hp.free)]
                 /\ Len(hq.slots) = Len(hp.slots)
                 /\ gen = hp.slots[j].generation /\ hp.slots[j].value = Free
                 /\ j \in 1 .. Len(hp.slots)
                 /\ hq.free = FreeLeft(hp.free)
              \/ /\ j = Len(hp.slots) + 1 /\ Len(hq.slots) = Len(hp.slots) + 1
                 /\ hp.free = <<>> /\ hq.free = <<>>
    BY <1>1, AllocTakes
  <2>2. PICK new : new = [value |-> v, generation |-> gen,
                          created |-> hp.allocations + 1, revision |-> 0]
    OBVIOUS
  <2>3. new.value = v
    BY <2>2
  <2>4. \A k \in 1 .. Len(hq.slots) : hq.slots[k] = IF k = j THEN new ELSE hp.slots[k]
    BY <2>1, <2>2 DEF TakesSlot
  <2>5. \A k \in 1 .. Len(hq.slots) : k # j => k \in 1 .. n
    BY <1>3, <2>1
  <2> QED BY <1>3, <2>1, <2>3, <2>4, <2>5
<1>5. \A k : k \in Handle /\ Valid(hp, k) => Valid(hq, k)
  BY <1>2 DEF Keeps
<1>6. \A k \in Kids(v) : Valid(hq, k)
  BY <1>5 DEF Good, Leads, Sane
<1>7. ASSUME NEW j \in 1 .. n, hp.slots[j].value # Free, NEW k \in Kids(hp.slots[j].value)
      PROVE  Valid(hq, k)
  <2>1. Valid(hp, k)
    BY <1>3, <1>7 DEF Closed
  <2>2. Good(hp, hp.slots[j].value)
    BY <1>3, <1>7 DEF WellFormed, Filled
  <2> QED BY <1>5, <1>7, <2>1, <2>2 DEF Good, Sane
<1> QED BY <1>4, <1>6, <1>7 DEF Closed

LEMMA WroteClosed ==
  ASSUME NEW hp, WellFormed(hp), Closed(hp), NEW h \in Handle, Valid(hp, h),
         NEW v, Good(hp, v), Leads(hp, v),
         v.kind = Get(hp, h).kind, v.kind \in {"cell", "list"},
         NEW hq, hq = Write(hp, h, v)
  PROVE  Closed(hq)
<1>1. /\ IsHeap(hp) /\ DOMAIN hp.slots = 1 .. Len(hp.slots) /\ h.slot \in 1 .. Len(hp.slots)
  BY HeapTypes DEF WellFormed, Valid
<1>2. WellFormed(hq) /\ Changed(hp, hq, h, v)
  BY Wrote
<1>3. PICK n, i, t : n = Len(hp.slots) /\ i = h.slot /\ t = hq.slots[h.slot]
  OBVIOUS
<1>4. /\ hq.slots = [k \in 1 .. n |-> hq.slots[k]]
      /\ \A k \in 1 .. n : k # i => hq.slots[k] = hp.slots[k]
      /\ t = [value |-> v, generation |-> hp.slots[h.slot].generation,
              created |-> hp.slots[h.slot].created,
              revision |-> hp.slots[h.slot].revision + 1]
  BY <1>1, <1>3, WriteIs
<1>5. t.value = v /\ Len(hq.slots) = n
  <2>1. n \in Nat
    BY <1>1, <1>3 DEF IsHeap
  <2>2. Len(hq.slots) = n
    BY <1>4, <2>1, FunctionLen
  <2>3. t.value = v
    BY <1>4
  <2> QED BY <2>2, <2>3
<1>6. \A k : k \in Handle /\ Valid(hp, k) => Valid(hq, k)
  BY <1>2 DEF Changed
<1>7. \A k \in Kids(v) : Valid(hq, k)
  BY <1>6 DEF Good, Leads, Sane
<1>8. ASSUME NEW j \in 1 .. n, hp.slots[j].value # Free, NEW k \in Kids(hp.slots[j].value)
      PROVE  Valid(hq, k)
  <2>1. Valid(hp, k)
    BY <1>3, <1>8 DEF Closed
  <2>2. Good(hp, hp.slots[j].value)
    BY <1>3, <1>8 DEF WellFormed, Filled
  <2> QED BY <1>6, <1>8, <2>1, <2>2 DEF Good, Sane
<1>9. ASSUME NEW j \in 1 .. n
      PROVE  hq.slots[j].value = v \/ hq.slots[j] = hp.slots[j]
  BY <1>3, <1>4, <1>5
<1> QED BY <1>5, <1>7, <1>8, <1>9 DEF Closed

(* AllocAll is given values all of whose handles were made before.         *)
LEMMA AllocatedAllClosed ==
  ASSUME NEW hp, WellFormed(hp), Closed(hp), NEW values, Len(values) \in Nat,
         \A k \in 1 .. Len(values) : Good(hp, values[k]) /\ Leads(hp, values[k]),
         NEW made, made = AllocAll(hp, values)
  PROVE  Closed(made.heap)
<1>1. PICK n \in Nat : n = Len(values)
  OBVIOUS
<1>2. PICK f : Makes(f, hp, values, n) /\ made = f[n]
  BY <1>1, AllocAllIs
<1> DEFINE Is(x, i) == x = [heap |-> x.heap, handles |-> x.handles]
                       /\ MadeOf(hp, x.heap, x.handles, values, i) /\ Closed(x.heap)
           Bad == {i \in 0 .. n : ~Is(f[i], i)}
<1>3. SUFFICES ASSUME Bad # {} PROVE FALSE
  BY <1>1, <1>2
<1>4. PICK m \in Bad : \A k \in Bad : m <= k
  <2>1. Bad \in SUBSET Nat
    OBVIOUS
  <2> HIDE DEF Bad
  <2> QED BY <1>3, <2>1, LeastNatural
<1>5. m # 0
  <2>1. f[0] = [heap |-> hp, handles |-> <<>>]
    BY <1>2 DEF Makes
  <2>2. PICK x : x = f[0]
    OBVIOUS
  <2>3. x = [heap |-> hp, handles |-> <<>>]
    BY <2>1, <2>2
  <2>4. x.heap = hp /\ x.handles = <<>> /\ x = [heap |-> x.heap, handles |-> x.handles]
    BY <2>3
  <2>5. MadeOf(hp, hp, <<>>, values, 0)
    <3>1. Later(hp, hp)
      BY LaterItself DEF WellFormed
    <3> QED BY <3>1, KeepsItself DEF MadeOf
  <2>6. Is(x, 0)
    BY <2>4, <2>5
  <2> HIDE DEF Is
  <2> QED BY <1>4, <2>2, <2>6
<1>6. m \in 1 .. n
  BY <1>4, <1>5
<1>7. PICK j \in Nat : m = j + 1
  BY <1>6
<1>8. j \notin Bad /\ j \in 0 .. n
  <2>1. ~(m <= j) /\ j \in 0 .. n
    BY <1>6, <1>7
  <2> HIDE DEF Bad
  <2> QED BY <1>4, <2>1
<1>9. PICK x, y : x = f[j] /\ y = f[m]
  OBVIOUS
<1>10. Is(x, j)
  <2> HIDE DEF Is
  <2> QED BY <1>8, <1>9
<1>11. y = More(x, values[m])
  <2>1. m - 1 = j
    BY <1>7
  <2> QED BY <1>2, <1>6, <1>9, <2>1 DEF Makes
<1>12. Is(y, m)
  <2>1. PICK hq, hs, v : hq = x.heap /\ hs = x.handles /\ v = values[m]
    OBVIOUS
  <2>2. x = [heap |-> hq, handles |-> hs] /\ MadeOf(hp, hq, hs, values, j) /\ Closed(hq)
    BY <1>10, <2>1
  <2>3. y = More([heap |-> hq, handles |-> hs], values[m])
    BY <1>11, <2>2
  <2>4. m \in Nat /\ Good(hp, values[m]) /\ Leads(hp, values[m])
    BY <1>1, <1>6
  <2> HIDE DEF Bad
  <2>5. y = [heap |-> y.heap, handles |-> y.handles]
        /\ MadeOf(hp, y.heap, y.handles, values, m)
    BY <1>7, <2>2, <2>3, <2>4, MadeMore
  <2>6. y.heap = Alloc(hq, v).heap
    <3>1. PICK z : z = [heap |-> hq, handles |-> hs]
      OBVIOUS
    <3>2. z.heap = hq /\ y = More(z, v)
      BY <2>1, <2>3, <3>1
    <3> QED BY <3>2 DEF More
  <2>7. Good(hq, v) /\ Leads(hq, v) /\ WellFormed(hq)
    <3>1. WellFormed(hq) /\ Later(hp, hq) /\ Keeps(hp, hq)
      BY <2>2 DEF MadeOf
    <3>2. Good(hq, v)
      BY <2>1, <2>4, <3>1, GoodStays
    <3>3. Leads(hq, v)
      BY <2>1, <2>4, <3>1 DEF Leads, Keeps, Good, Sane
    <3> QED BY <3>1, <3>2, <3>3
  <2>8. Closed(y.heap)
    BY <2>2, <2>6, <2>7, AllocatedClosed
  <2> QED BY <2>5, <2>8
<1> QED
  <2> HIDE DEF Is
  <2> QED BY <1>4, <1>9, <1>12

LEMMA LeadsTo ==
  /\ \A hp, n : Leads(hp, Number(n))
  /\ \A hp, p : Leads(hp, Text(p))
  /\ \A hp, h : Valid(hp, h) => Leads(hp, Cell(h)) /\ Leads(hp, Node(h))
  /\ \A hp, s : (\A i \in DOMAIN s : Valid(hp, s[i])) => Leads(hp, List(s))
  /\ \A hp, c, s : (\A h \in s : Valid(hp, h)) => Leads(hp, Closure(c, s))
BY KidsOf DEF Leads

(* Evaluations.                                                            *)
LEMMA OutcomeClosed ==
  ASSUME NEW code \in Codes \ {"handler"}, view \in Seq(Getter),
         WellFormed(heap), Closed(heap), NEW getter, NEW state, NEW counter, NEW count,
         NEW rows, NEW items,
         ProgramAt(heap, instance, getter, state, counter, count, rows, items)
  PROVE  Closed(Outcome(code).heap)
<1>1. /\ State = state /\ Counter = counter /\ Rows = rows /\ Items = items
  BY Names
<1>2. /\ Sane(heap, state) /\ Sane(heap, counter) /\ Sane(heap, rows)
      /\ Valid(heap, state) /\ Valid(heap, counter)
      /\ items \in Seq(Handle)
  BY ProgramSane DEF ProgramAt
<1>3. \A i \in DOMAIN items : Sane(heap, items[i]) /\ Valid(heap, items[i])
  <2>1. \A i \in DOMAIN items : Sane(heap, items[i])
    BY ProgramSane
  <2> QED BY <2>1 DEF ProgramAt, RowItem
<1>4. PICK made : made = Outcome(code)
  OBVIOUS
<1>5. ASSUME NEW values, Made(code) = values, Len(values) \in Nat, code # "view",
             \A k \in 1 .. Len(values) : Good(heap, values[k]) /\ Leads(heap, values[k])
      PROVE  Closed(made.heap)
  <2>1. PICK all : all = AllocAll(heap, values)
    OBVIOUS
  <2>2. Closed(all.heap)
    BY <1>5, <2>1, AllocatedAllClosed
  <2>3. made.heap = all.heap
    BY <1>4, <1>5, <2>1 DEF Outcome
  <2> QED BY <2>2, <2>3
<1>6. ASSUME NEW v, Made(code) = <<v>>, code # "view", Good(heap, v), Leads(heap, v)
      PROVE  Closed(made.heap)
  <2>1. PICK values : values = <<v>>
    OBVIOUS
  <2>2. Len(values) = 1 /\ Len(values) \in Nat /\ values[1] = v
    BY <2>1
  <2>3. \A k \in 1 .. Len(values) : Good(heap, values[k]) /\ Leads(heap, values[k])
    BY <1>6, <2>2
  <2> QED BY <1>5, <1>6, <2>1, <2>2, <2>3
<1>7. CASE code \in {"length", "pop"}
  <2>1. Made(code) = <<Number(Len(Items))>>
    BY <1>7 DEF Made
  <2>2. \A n : Good(heap, Number(n)) /\ Leads(heap, Number(n))
    BY GoodValues, LeadsTo
  <2> QED BY <1>4, <1>6, <1>7, <2>1, <2>2
<1>8. CASE code = "print"
  <2>1. Made(code) = <<Text(Printed)>>
    BY <1>8 DEF Made
  <2> QED BY <1>4, <1>6, <1>8, <2>1, GoodValues, LeadsTo
<1>9. CASE code = "host"
  <2>1. Made(code) = <<Number(outside)>>
    BY <1>9 DEF Made
  <2> QED BY <1>4, <1>6, <1>9, <2>1, GoodValues, LeadsTo
<1>10. CASE code = "count"
  <2>1. PICK n : n = Get(heap, Get(heap, Counter).of).n + 1
    OBVIOUS
  <2>2. Made(code) = <<Number(n)>>
    BY <1>10, <2>1 DEF Made
  <2> QED BY <1>4, <1>6, <1>10, <2>2, GoodValues, LeadsTo
<1>11. CASE code = "copy"
  <2>1. PICK a, b : a = List(Items) /\ b = Number(Len(Items))
    OBVIOUS
  <2>2. PICK values : values = <<a, b>>
    OBVIOUS
  <2>3. Made(code) = values
    BY <1>11, <2>1, <2>2 DEF Made
  <2>4. Good(heap, a) /\ Good(heap, b)
    BY <1>1, <1>2, <1>3, <2>1, GoodValues
  <2>5. Leads(heap, a) /\ Leads(heap, b)
    BY <1>1, <1>3, <2>1, LeadsTo
  <2>6. Len(values) = 2 /\ Len(values) \in Nat /\ values[1] = a /\ values[2] = b
    BY <2>2
  <2>7. \A k \in 1 .. Len(values) : Good(heap, values[k]) /\ Leads(heap, values[k])
    BY <2>4, <2>5, <2>6
  <2> QED BY <1>4, <1>5, <1>11, <2>3, <2>6, <2>7
<1>12. CASE code \in {"first", "children"}
  <2>1. PICK values : values = <<>>
    OBVIOUS
  <2>2. Made(code) = values /\ Len(values) = 0
    BY <1>12, <2>1 DEF Made
  <2> QED BY <1>4, <1>5, <1>12, <2>2
<1>13. CASE code = "view"
  <2>1. PICK both : both = {State, Counter}
    OBVIOUS
  <2>2. PICK values : values = [i \in DOMAIN view |-> Closure(view[i], both)]
    OBVIOUS
  <2>3. PICK n \in Nat : n = Len(view) /\ DOMAIN view = 1 .. n
    OBVIOUS
  <2>4. values = [i \in 1 .. n |-> values[i]]
        /\ \A i \in 1 .. n : values[i] = Closure(view[i], both)
    BY <2>2, <2>3
  <2>5. Len(values) = n
    BY <2>4, FunctionLen
  <2>6. \A h \in both : Sane(heap, h) /\ Valid(heap, h)
    BY <1>1, <1>2, <2>1
  <2>7. \A k \in 1 .. n : Good(heap, values[k]) /\ Leads(heap, values[k])
    <3>1. \A k \in 1 .. n : view[k] \in Codes
      BY <2>3 DEF Codes
    <3>2. \A c \in Codes : Good(heap, Closure(c, both))
      BY <2>6, GoodClosure
    <3>3. \A c : Leads(heap, Closure(c, both))
      BY <2>6, LeadsTo
    <3> QED BY <2>4, <3>1, <3>2, <3>3
  <2>8. PICK all : all = AllocAll(heap, values)
    OBVIOUS
  <2>9. MadeOf(heap, all.heap, all.handles, values, n) /\ Closed(all.heap)
    BY <2>5, <2>7, <2>8, AllocatedAll, AllocatedAllClosed
  <2>10. PICK hq, hs : hq = all.heap /\ hs = all.handles
    OBVIOUS
  <2>11. PICK v : v = List(hs)
    OBVIOUS
  <2>12. Made(code) = values
    BY <1>13, <2>1, <2>2 DEF Made
  <2>13. made.heap = Alloc(hq, v).heap
    BY <1>4, <1>13, <2>8, <2>10, <2>11, <2>12 DEF Outcome
  <2>14. /\ WellFormed(hq) /\ hs \in Seq(Handle) /\ Len(hs) = n
         /\ \A k \in 1 .. n : Sane(hq, hs[k]) /\ Valid(hq, hs[k])
    BY <2>9, <2>10 DEF MadeOf, New
  <2>15. DOMAIN hs = 1 .. n
    BY <2>14
  <2>16. Good(hq, v) /\ Leads(hq, v)
    BY <2>11, <2>14, <2>15, GoodValues, LeadsTo
  <2> QED BY <1>4, <2>9, <2>10, <2>13, <2>14, <2>16, AllocatedClosed
<1> QED BY <1>4, <1>7, <1>8, <1>9, <1>10, <1>11, <1>12, <1>13, CodesAre

(* Only pop writes anything but the counter.                               *)
LEMMA AfterWritesClosed ==
  ASSUME Alive(heap, instance), Closed(heap), view \in Seq(Getter),
         NEW code \in Codes \ {"handler"},
         NEW made, made = Outcome(code), NEW hw, hw = AfterWrites(code, made)
  PROVE  /\ Closed(hw)
         /\ code # "pop" => \A h \in Handle : Valid(heap, h) /\ Get(heap, h).kind # "cell"
                                               => Get(hw, h) = Get(heap, h)
<1>1. WellFormed(heap)
  BY DEF Alive
<1>2. PICK getter, state, counter, count, rows, items :
        ProgramAt(heap, instance, getter, state, counter, count, rows, items)
  BY DEF Alive
<1>3. PICK hq, v : hq = made.heap /\ v = made.value
  OBVIOUS
<1>4. MadeBy(code, hq, v) /\ Closed(hq)
  <2>1. /\ view \in Seq(Getter) /\ Closed(heap)
        /\ code \in Codes \ {"handler"}
        /\ hq = Outcome(code).heap /\ v = Outcome(code).value
    BY <1>3
  <2>2. MadeBy(code, hq, v)
    BY ONLY <1>1, <1>2, <2>1, OutcomeMade
  <2>3. Closed(hq)
    BY ONLY <1>1, <1>2, <2>1, OutcomeClosed
  <2> QED BY <2>2, <2>3
<1>5. WellFormed(hq) /\ Later(heap, hq) /\ Keeps(heap, hq) /\ Sane(hq, v) /\ Valid(hq, v)
  BY <1>4 DEF MadeBy
<1>6. ProgramAt(hq, instance, getter, state, counter, count, rows, items)
  BY <1>1, <1>2, <1>5, ProgramKeeps
<1>7. Counter = counter /\ Rows = rows /\ Items = items
  BY <1>2, Names
<1>8. CASE code = "count"
  <2>1. hw = Write(hq, counter, Cell(v))
    BY <1>3, <1>7, <1>8 DEF AfterWrites
  <2>2. Good(hq, Cell(v)) /\ Leads(hq, Cell(v)) /\ counter \in Handle /\ Valid(hq, counter)
        /\ Get(hq, counter).kind = "cell" /\ Cell(v).kind = "cell"
    <3>1. Good(hq, Cell(v)) /\ Leads(hq, Cell(v))
      BY ONLY <1>5, GoodValues, LeadsTo
    <3>2. /\ counter \in Handle /\ Valid(hq, counter)
          /\ Get(hq, counter) = Cell(count)
      BY <1>6 DEF ProgramAt
    <3> QED BY ONLY <3>1, <3>2, KindOf
  <2>3. Closed(hw)
    BY <1>4, <1>5, <2>1, <2>2, WroteClosed
  <2>4. Changed(hq, hw, counter, Cell(v))
    BY <1>5, <2>1, <2>2, Wrote
  <2>5. ASSUME NEW h \in Handle, Valid(heap, h), Get(heap, h).kind # "cell"
        PROVE  Get(hw, h) = Get(heap, h)
    <3>1. Valid(hq, h) /\ Get(hq, h) = Get(heap, h)
      BY <1>5, <2>5 DEF Keeps
    <3>2. h.slot # counter.slot
      <4>1. Get(hq, h).kind # "cell"
        BY <2>5, <3>1
      <4> QED BY <2>2, <4>1 DEF Get
    <3> QED BY <2>4, <3>1, <3>2 DEF Changed
  <2> QED BY <2>3, <2>5
<1>9. CASE code = "pop" /\ Len(items) > 1
  <2>1. PICK new : new = SubSeq(items, 1, Len(items) - 1)
    OBVIOUS
  <2>2. hw = Write(hq, rows, List(new))
    BY <1>3, <1>7, <1>9, <2>1 DEF AfterWrites
  <2>3. items \in Seq(Handle) /\ items # <<>> /\ Get(hq, rows) = List(items)
        /\ rows \in Handle /\ Valid(hq, rows)
    BY <1>6 DEF ProgramAt
  <2>4. /\ new \in Seq(Handle) /\ Len(items) \in Nat /\ Len(new) = Len(items) - 1
        /\ \A k \in 1 .. Len(items) - 1 : new[k] = items[k]
    BY <2>1, <2>3, ButLast
  <2>5. \A k \in DOMAIN new : k \in DOMAIN items /\ new[k] = items[k]
    <3>1. PICK n \in Nat : n = Len(items) /\ n > 1
      BY <1>9, <2>4
    <3>2. DOMAIN new = 1 .. n - 1 /\ DOMAIN items = 1 .. n
      BY <2>3, <2>4, <3>1
    <3> QED BY <2>4, <3>1, <3>2
  <2>6. \A k \in DOMAIN new : Sane(hq, new[k]) /\ Valid(hq, new[k])
    <3>1. \A k \in DOMAIN items : Sane(hq, items[k])
      BY <1>5, <1>6, ProgramSane
    <3>2. \A k \in DOMAIN items : RowItem(hq, items[k], state, counter)
      BY <1>6 DEF ProgramAt
    <3> QED BY ONLY <2>5, <3>1, <3>2 DEF RowItem
  <2>7. Good(hq, List(new)) /\ Get(hq, rows).kind = "list" /\ List(new).kind = "list"
    <3>1. Good(hq, List(new))
      BY ONLY <2>4, <2>6, GoodValues
    <3> QED BY ONLY <2>3, <3>1, KindOf
  <2>8. Leads(hq, List(new))
    BY <2>6, LeadsTo
  <2> QED BY <1>4, <1>5, <1>9, <2>2, <2>3, <2>7, <2>8, WroteClosed
<1>10. CASE ~(code = "count" \/ (code = "pop" /\ Len(items) > 1))
  <2>1. hw = hq
    BY <1>3, <1>7, <1>10 DEF AfterWrites
  <2> QED BY <1>4, <1>5, <2>1 DEF Keeps
<1> QED BY <1>8, <1>9, <1>10

-----------------------------------------------------------------------------
(* Events.                                                                 *)

(* What an event leaves, before the collection.                            *)
Changes(hq) ==
  /\ Alive(hq, instance) /\ Later(heap, hq)
  /\ \A h \in Handle : Valid(heap, h) => Valid(hq, h)
  /\ Get(hq, instance) = Get(heap, instance)
  /\ Closed(heap) => Closed(hq)

(* The allocations an event starts with.                                   *)
Prepares(hq, getter, state, counter, count, rows, items) ==
  /\ WellFormed(hq) /\ Later(heap, hq) /\ Keeps(heap, hq)
  /\ Closed(heap) => Closed(hq)
  /\ ProgramAt(hq, instance, getter, state, counter, count, rows, items)

LEMMA PreparesMore ==
  ASSUME WellFormed(heap), NEW hq, NEW getter, NEW state, NEW counter, NEW count,
         NEW rows, NEW items,
         Prepares(hq, getter, state, counter, count, rows, items),
         NEW v, Good(hq, v), Leads(hq, v), NEW hr, NEW h,
         hr = Alloc(hq, v).heap, h = Alloc(hq, v).handle
  PROVE  /\ Prepares(hr, getter, state, counter, count, rows, items)
         /\ Keeps(hq, hr) /\ Later(hq, hr)
         /\ h \in Handle /\ Sane(hr, h) /\ Valid(hr, h) /\ Get(hr, h) = v
<1>1. WellFormed(hr) /\ Later(hq, hr) /\ Keeps(hq, hr) /\ New(hq, hr, h, v)
  BY Allocated DEF Prepares
<1>2. Later(heap, hr) /\ Keeps(heap, hr)
  BY <1>1, LaterStill, KeepsStill DEF Prepares, WellFormed
<1>3. ProgramAt(hr, instance, getter, state, counter, count, rows, items)
  BY <1>1, ProgramKeeps DEF Prepares
<1>4. Closed(heap) => Closed(hr)
  BY AllocatedClosed DEF Prepares
<1> QED BY <1>1, <1>2, <1>3, <1>4 DEF Prepares, New, Sane

LEMMA PreparesNothing ==
  ASSUME WellFormed(heap), NEW getter, NEW state, NEW counter, NEW count,
         NEW rows, NEW items,
         ProgramAt(heap, instance, getter, state, counter, count, rows, items)
  PROVE  Prepares(heap, getter, state, counter, count, rows, items)
BY LaterItself, KeepsItself DEF Prepares, WellFormed

LEMMA ChangesWritten ==
  ASSUME Alive(heap, instance), NEW hq, WellFormed(hq), Later(heap, hq), Keeps(heap, hq),
         NEW hw, NEW w, NEW x, WellFormed(hw), Later(hq, hw), Changed(hq, hw, w, x),
         NEW getter, NEW state, NEW counter, NEW count, NEW rows, NEW items,
         ProgramAt(hw, instance, getter, state, counter, count, rows, items),
         NEW count0, NEW rows0, NEW items0,
         ProgramAt(hq, instance, getter, state, counter, count0, rows0, items0),
         Closed(heap) => Closed(hw)
  PROVE  Changes(hw)
<1>1. Later(heap, hw)
  BY LaterStill DEF Alive, WellFormed
<1>2. Sane(hw, instance)
  BY <1>1 DEF Alive, Later, Sane
<1>3. \A h \in Handle : Valid(heap, h) => Valid(hw, h)
  BY DEF Keeps, Changed
<1>4. Alive(hw, instance)
  BY <1>2 DEF Alive
<1>5. Get(hq, instance) = List(<<getter, state, counter>>)
      /\ Get(hw, instance) = List(<<getter, state, counter>>)
  BY DEF ProgramAt
<1>6. Get(hq, instance) = Get(heap, instance)
  BY DEF Alive, ProgramAt, Keeps
<1> QED BY <1>1, <1>3, <1>4, <1>5, <1>6 DEF Changes

(* A write to the rows.                                                    *)
LEMMA RowsChanges ==
  ASSUME Alive(heap, instance), NEW hq, NEW getter, NEW state, NEW counter, NEW count,
         NEW rows, NEW items,
         Prepares(hq, getter, state, counter, count, rows, items),
         NEW new \in Seq(Handle), new # <<>>,
         \A i \in DOMAIN new : /\ RowItem(hq, new[i], state, counter)
                               /\ Sane(hq, new[i]) /\ Get(hq, new[i]) # List(items),
         NEW hw, hw = Write(hq, rows, List(new))
  PROVE  Changes(hw)
<1>1. rows \in Handle /\ Valid(hq, rows) /\ Get(hq, rows) = List(items)
  BY DEF Prepares, ProgramAt
<1>2. Good(hq, List(new)) /\ Get(hq, rows).kind = "list" /\ List(new).kind = "list"
  BY <1>1, GoodValues, KindOf
<1>3. WellFormed(hw) /\ Later(hq, hw) /\ Changed(hq, hw, rows, List(new))
  BY <1>1, <1>2, Wrote DEF Prepares
<1>4. ProgramAt(hw, instance, getter, state, counter, count, rows, new)
  BY <1>3, ProgramRowsWritten DEF Prepares
<1>5. Leads(hq, List(new))
  <2>1. \A i \in DOMAIN new : Valid(hq, new[i])
    BY DEF RowItem
  <2> QED BY <2>1, LeadsTo
<1>6. Closed(heap) => Closed(hw)
  BY <1>1, <1>2, <1>5, WroteClosed DEF Prepares
<1> QED BY <1>3, <1>4, <1>6, ChangesWritten DEF Prepares

(* What the rows are when a row is put among them.                         *)
LEMMA RowsKept ==
  ASSUME NEW hq, NEW getter, NEW state, NEW counter, NEW count, NEW rows, NEW items,
         Prepares(hq, getter, state, counter, count, rows, items)
  PROVE  /\ items \in Seq(Handle) /\ items # <<>>
         /\ \A i \in DOMAIN items : /\ RowItem(hq, items[i], state, counter)
                                    /\ Sane(hq, items[i]) /\ Get(hq, items[i]) # List(items)
<1>1. items \in Seq(Handle) /\ items # <<>>
  BY DEF Prepares, ProgramAt
<1>2. \A i \in DOMAIN items : RowItem(hq, items[i], state, counter)
  BY DEF Prepares, ProgramAt
<1>3. \A i \in DOMAIN items : Sane(hq, items[i])
  BY ProgramSane DEF Prepares
<1>4. \A i \in DOMAIN items : Get(hq, items[i]) # List(items)
  BY RowsNotNested DEF Prepares
<1> QED BY <1>1, <1>2, <1>3, <1>4

LEMMA PushChanges ==
  ASSUME Alive(heap, instance), NEW hq, NEW getter, NEW state, NEW counter, NEW count,
         NEW rows, NEW items,
         Prepares(hq, getter, state, counter, count, rows, items),
         NEW h, Sane(hq, h), RowItem(hq, h, state, counter), Get(hq, h).kind # "list",
         NEW hw, hw = Write(hq, rows, List(Append(items, h)))
  PROVE  Changes(hw)
<1>1. PICK new : new = Append(items, h)
  OBVIOUS
<1>2. items \in Seq(Handle) /\ h \in Handle
  BY RowsKept DEF Sane
<1>3. /\ new \in Seq(Handle) /\ new # <<>>
      /\ \A i \in DOMAIN new : new[i] = h \/ (i \in DOMAIN items /\ new[i] = items[i])
  BY <1>1, <1>2
<1>4. Get(hq, h) # List(items)
  BY KindOf
<1>5. \A i \in DOMAIN new : /\ RowItem(hq, new[i], state, counter)
                            /\ Sane(hq, new[i]) /\ Get(hq, new[i]) # List(items)
  BY <1>3, <1>4, RowsKept
<1>6. hw = Write(hq, rows, List(new))
  BY <1>1
<1> QED BY <1>3, <1>5, <1>6, RowsChanges

LEMMA PopChanges ==
  ASSUME Alive(heap, instance), Len(Items) > 1,
         NEW hw, hw = Write(heap, Rows, List(SubSeq(Items, 1, Len(Items) - 1)))
  PROVE  Changes(hw)
<1>1. PICK getter, state, counter, count, rows, items :
        ProgramAt(heap, instance, getter, state, counter, count, rows, items)
  BY DEF Alive
<1>2. Rows = rows /\ Items = items
  BY <1>1, Names
<1>3. PICK new : new = SubSeq(items, 1, Len(items) - 1)
  OBVIOUS
<1>4. Prepares(heap, getter, state, counter, count, rows, items)
  BY <1>1, PreparesNothing DEF Alive
<1>5. items \in Seq(Handle) /\ items # <<>>
  BY <1>4, RowsKept
<1>6. /\ new \in Seq(Handle) /\ Len(items) \in Nat /\ Len(new) = Len(items) - 1
      /\ \A k \in 1 .. Len(items) - 1 : new[k] = items[k]
  BY <1>3, <1>5, ButLast
<1>7. new # <<>> /\ \A k \in DOMAIN new : k \in DOMAIN items /\ new[k] = items[k]
  <2>1. PICK n \in Nat : n = Len(items) /\ n > 1
    BY <1>2, <1>6
  <2>2. Len(new) # 0 /\ DOMAIN new = 1 .. n - 1 /\ DOMAIN items = 1 .. n
    BY <1>5, <1>6, <2>1
  <2> QED BY <1>6, <2>1, <2>2
<1>8. \A i \in DOMAIN new : /\ RowItem(heap, new[i], state, counter)
                            /\ Sane(heap, new[i]) /\ Get(heap, new[i]) # List(items)
  BY <1>4, <1>7, RowsKept
<1>9. hw = Write(heap, rows, List(new))
  BY <1>2, <1>3
<1> QED BY <1>4, <1>6, <1>7, <1>8, <1>9, RowsChanges

LEMMA SetRowChanges ==
  ASSUME Alive(heap, instance), NEW i \in DOMAIN Items,
         NEW n, NEW hq, NEW h, hq = Alloc(heap, Number(n)).heap,
         h = Alloc(heap, Number(n)).handle,
         NEW list, list = (IF Nested(i) THEN Items[i] ELSE Rows),
         NEW at, at = (IF Nested(i) THEN 1 ELSE i),
         NEW hw, hw = Write(hq, list, List([Get(heap, list).items EXCEPT ![at] = h]))
  PROVE  Changes(hw)
<1>1. PICK getter, state, counter, count, rows, items :
        ProgramAt(heap, instance, getter, state, counter, count, rows, items)
  BY DEF Alive
<1>2. Rows = rows /\ Items = items
  BY <1>1, Names
<1>3. Prepares(heap, getter, state, counter, count, rows, items) /\ WellFormed(heap)
  BY <1>1, PreparesNothing DEF Alive
<1>4. Good(heap, Number(n)) /\ Leads(heap, Number(n)) /\ Number(n).kind = "number"
  BY GoodValues, LeadsTo, KindOf
<1>5. /\ Prepares(hq, getter, state, counter, count, rows, items)
      /\ Keeps(heap, hq)
      /\ h \in Handle /\ Sane(hq, h) /\ Valid(hq, h) /\ Get(hq, h) = Number(n)
  BY <1>3, <1>4, PreparesMore
<1>6. ProgramAt(hq, instance, getter, state, counter, count, rows, items)
      /\ WellFormed(hq) /\ Later(heap, hq)
  BY <1>5 DEF Prepares
<1>7. RowItem(hq, h, state, counter)
  BY <1>4, <1>5 DEF RowItem
<1>8. CASE ~Nested(i)
  <2>1. PICK new : new = [items EXCEPT ![i] = h]
    OBVIOUS
  <2>2. Get(heap, rows).items = items
    BY <1>1, KindOf DEF ProgramAt
  <2>3. hw = Write(hq, rows, List(new))
    BY <1>2, <1>8, <2>1, <2>2
  <2>4. /\ items \in Seq(Handle) /\ items # <<>> /\ i \in DOMAIN items
    BY <1>2, <1>5, RowsKept
  <2>5. /\ new \in Seq(Handle) /\ DOMAIN new = DOMAIN items
        /\ \A k \in DOMAIN new : new[k] = IF k = i THEN h ELSE items[k]
    BY <1>5, <2>1, <2>4
  <2>6. new # <<>>
    BY <2>4, <2>5
  <2>7. Get(hq, h) # List(items)
    BY <1>4, <1>5, KindOf
  <2>8. \A k \in DOMAIN new : /\ RowItem(hq, new[k], state, counter)
                              /\ Sane(hq, new[k]) /\ Get(hq, new[k]) # List(items)
    BY <1>5, <1>7, <2>5, <2>7, RowsKept
  <2> QED BY <1>5, <2>3, <2>5, <2>6, <2>8, RowsChanges
<1>9. CASE Nested(i)
  <2>1. PICK w : w = items[i]
    OBVIOUS
  <2>2. i \in DOMAIN items /\ RowItem(heap, w, state, counter) /\ RowItem(hq, w, state, counter)
        /\ Sane(hq, w)
    BY <1>1, <1>2, <1>5, <2>1, RowsKept DEF ProgramAt
  <2>3. Get(heap, w).kind = "list"
    BY <1>2, <1>9, <2>1 DEF Nested
  <2>4. w \in Handle /\ Valid(heap, w)
    BY <2>2 DEF RowItem
  <2>5. Get(hq, w) = Get(heap, w) /\ Valid(hq, w)
    BY <1>5, <2>4 DEF Keeps
  <2>6. PICK s \in Seq(Handle) :
          /\ Get(hq, w) = List(s)
          /\ \A j \in DOMAIN s : Valid(hq, s[j]) /\ Get(hq, s[j]).kind = "number"
    <3>1. RowItem(hq, w, state, counter) /\ Get(hq, w).kind = "list"
      BY <2>2, <2>3, <2>5
    <3> QED BY ONLY <3>1, RowKinds
  <2>7. PICK t : t = [s EXCEPT ![1] = h]
    OBVIOUS
  <2>8. Get(heap, w).items = s
    BY <2>5, <2>6, KindOf
  <2>9. hw = Write(hq, w, List(t))
    BY <1>2, <1>9, <2>1, <2>7, <2>8
  <2>10. /\ t \in Seq(Handle) /\ DOMAIN t = DOMAIN s
         /\ \A j \in DOMAIN t : t[j] = IF j = 1 THEN h ELSE s[j]
    <3>1. PICK m \in Nat : m = Len(s) /\ DOMAIN s = 1 .. m
      OBVIOUS
    <3>2. t = [j \in 1 .. m |-> IF j = 1 THEN h ELSE s[j]]
      BY <2>7, <3>1
    <3>3. \A j \in 1 .. m : s[j] \in Handle
      BY <3>1
    <3>4. t \in [1 .. m -> Handle]
      BY <1>5, <3>2, <3>3
    <3> QED BY <3>1, <3>2, <3>4
  <2>11. \A j \in DOMAIN t : Valid(hq, t[j]) /\ Get(hq, t[j]).kind = "number"
    BY <1>4, <1>5, <2>6, <2>10
  <2>12. \A j \in DOMAIN t : Sane(hq, t[j])
    <3>1. Kids(Get(hq, w)) = {s[j] : j \in DOMAIN s}
      BY <2>6, KidsOf
    <3>2. \A k \in Kids(Get(hq, w)) : Sane(hq, k)
      BY <1>6, <2>5, GoodValue DEF Good
    <3> QED BY <1>5, <2>10, <3>1, <3>2
  <2>13. Good(hq, List(t)) /\ Get(hq, w).kind = "list" /\ List(t).kind = "list"
    BY <2>6, <2>10, <2>12, GoodValues, KindOf
  <2>14. WellFormed(hw) /\ Later(hq, hw) /\ Changed(hq, hw, w, List(t))
    BY <1>6, <2>4, <2>5, <2>9, <2>13, Wrote
  <2>15. ProgramAt(hw, instance, getter, state, counter, count, rows, items)
    <3>1. Changed(hq, hw, items[i], List(t)) /\ Get(hq, items[i]) = List(s)
      BY <2>1, <2>6, <2>14
    <3> QED BY <1>6, <2>2, <2>10, <2>11, <3>1, ProgramNestedWritten
  <2>16. Leads(hq, List(t))
    BY <2>11, LeadsTo
  <2>17. Closed(heap) => Closed(hw)
    <3>1. Closed(heap) => Closed(hq)
      BY <1>5 DEF Prepares
    <3> QED BY <1>6, <2>4, <2>5, <2>9, <2>13, <2>16, <3>1, WroteClosed
  <2> QED BY <1>5, <1>6, <2>14, <2>15, <2>17, ChangesWritten
<1> QED BY <1>8, <1>9

LEMMA NewRowsChanges ==
  ASSUME Alive(heap, instance), NEW n, NEW hq, NEW h, NEW hr, NEW list,
         hq = Alloc(heap, Number(n)).heap, h = Alloc(heap, Number(n)).handle,
         hr = Alloc(hq, List(<<h>>)).heap, list = Alloc(hq, List(<<h>>)).handle,
         NEW hw, hw = Write(hr, State, Cell(list))
  PROVE  Changes(hw)
<1>1. PICK getter, state, counter, count, rows, items :
        ProgramAt(heap, instance, getter, state, counter, count, rows, items)
  BY DEF Alive
<1>2. State = state
  BY <1>1, Names
<1>3. Prepares(heap, getter, state, counter, count, rows, items) /\ WellFormed(heap)
  BY <1>1, PreparesNothing DEF Alive
<1>4. Good(heap, Number(n)) /\ Leads(heap, Number(n)) /\ Number(n).kind = "number"
  BY GoodValues, LeadsTo, KindOf
<1>5. /\ Prepares(hq, getter, state, counter, count, rows, items)
      /\ h \in Handle /\ Sane(hq, h) /\ Valid(hq, h) /\ Get(hq, h) = Number(n)
  BY <1>3, <1>4, PreparesMore
<1>6. PICK new : new = <<h>>
  OBVIOUS
<1>7. new \in Seq(Handle) /\ new # <<>> /\ \A k \in DOMAIN new : new[k] = h
  BY <1>5, <1>6
<1>8. Good(hq, List(new)) /\ Leads(hq, List(new))
  BY <1>5, <1>7, GoodValues, LeadsTo
<1>9. hr = Alloc(hq, List(new)).heap /\ list = Alloc(hq, List(new)).handle
  BY <1>6
<1>10. /\ Prepares(hr, getter, state, counter, count, rows, items)
       /\ Keeps(hq, hr) /\ Later(hq, hr)
       /\ list \in Handle /\ Sane(hr, list) /\ Valid(hr, list) /\ Get(hr, list) = List(new)
  BY <1>3, <1>5, <1>8, <1>9, PreparesMore
<1>11. Valid(hr, h) /\ Get(hr, h) = Number(n)
  BY <1>5, <1>10 DEF Keeps
<1>12. \A k \in DOMAIN new : RowItem(hr, new[k], state, counter)
  BY <1>4, <1>5, <1>7, <1>11 DEF RowItem
<1>13. /\ WellFormed(hr) /\ Later(heap, hr) /\ Keeps(heap, hr)
       /\ ProgramAt(hr, instance, getter, state, counter, count, rows, items)
  BY <1>10 DEF Prepares
<1>14. Good(hr, Cell(list)) /\ Leads(hr, Cell(list)) /\ state \in Handle /\ Valid(hr, state)
       /\ Get(hr, state).kind = "cell" /\ Cell(list).kind = "cell"
  <2>1. Good(hr, Cell(list)) /\ Leads(hr, Cell(list))
    BY <1>10, GoodValues, LeadsTo
  <2>2. state \in Handle /\ Valid(hr, state) /\ Get(hr, state) = Cell(rows)
    BY <1>13 DEF ProgramAt
  <2> QED BY <2>1, <2>2, KindOf
<1>15. WellFormed(hw) /\ Later(hr, hw) /\ Changed(hr, hw, state, Cell(list))
  BY <1>2, <1>13, <1>14, Wrote
<1>16. ProgramAt(hw, instance, getter, state, counter, count, list, new)
  BY <1>7, <1>10, <1>12, <1>13, <1>15, ProgramStateWritten
<1>17. Closed(heap) => Closed(hw)
  <2>1. Closed(heap) => Closed(hr)
    BY <1>10 DEF Prepares
  <2> QED BY <1>2, <1>13, <1>14, <2>1, WroteClosed
<1> QED BY <1>13, <1>15, <1>16, <1>17, ChangesWritten

LEMMA PushRowChanges ==
  ASSUME Alive(heap, instance), PushRow
  PROVE  \E hw : Changes(hw) /\ Happens(hw)
<1>1. PICK getter, state, counter, count, rows, items :
        ProgramAt(heap, instance, getter, state, counter, count, rows, items)
  BY DEF Alive
<1>2. Rows = rows /\ Items = items /\ State = state /\ Counter = counter
  BY <1>1, Names
<1>3. Prepares(heap, getter, state, counter, count, rows, items) /\ WellFormed(heap)
  BY <1>1, PreparesNothing DEF Alive
<1>4. /\ Sane(heap, state) /\ Sane(heap, counter)
      /\ Valid(heap, state) /\ Valid(heap, counter)
  BY <1>1, <1>3, ProgramSane DEF ProgramAt
<1>5. CASE LET new == Alloc(heap, Fresh)
           IN Happens(Write(new.heap, Rows, List(Append(Items, new.handle))))
  <2>1. PICK v : v = Fresh
    OBVIOUS
  <2>2. PICK hq, h : hq = Alloc(heap, v).heap /\ h = Alloc(heap, v).handle
    OBVIOUS
  <2>3. Good(heap, v) /\ Leads(heap, v) /\ v.kind = "number"
    BY <2>1, GoodValues, LeadsTo, KindOf DEF Fresh
  <2>4. /\ Prepares(hq, getter, state, counter, count, rows, items)
        /\ h \in Handle /\ Sane(hq, h) /\ Valid(hq, h) /\ Get(hq, h) = v
    BY <1>3, <2>2, <2>3, PreparesMore
  <2>5. RowItem(hq, h, state, counter) /\ Get(hq, h).kind # "list"
    BY <2>3, <2>4 DEF RowItem
  <2>6. PICK hw : hw = Write(hq, rows, List(Append(items, h)))
    OBVIOUS
  <2>7. Changes(hw)
    BY <2>4, <2>5, <2>6, PushChanges
  <2>8. Happens(hw)
    BY <1>2, <1>5, <2>1, <2>2, <2>6
  <2> QED BY <2>7, <2>8
<1>6. CASE LET handler == Alloc(heap, Closure("handler", {State}))
               node == Alloc(handler.heap, Node(handler.handle))
           IN Happens(Write(node.heap, Rows, List(Append(Items, node.handle))))
  <2>1. PICK v : v = Closure("handler", {State})
    OBVIOUS
  <2>2. PICK hq, h : hq = Alloc(heap, v).heap /\ h = Alloc(heap, v).handle
    OBVIOUS
  <2>3. Good(heap, v) /\ Leads(heap, v) /\ v.kind = "closure"
    <3>1. PICK s : s = {State}
      OBVIOUS
    <3>2. \A k \in s : Sane(heap, k) /\ Valid(heap, k)
      BY <1>2, <1>4, <3>1
    <3>3. "handler" \in Codes
      BY DEF Codes
    <3>4. Good(heap, Closure("handler", s)) /\ Leads(heap, Closure("handler", s))
      BY <3>2, <3>3, GoodClosure, LeadsTo
    <3> QED BY <2>1, <3>1, <3>4, KindOf
  <2>4. /\ Prepares(hq, getter, state, counter, count, rows, items)
        /\ h \in Handle /\ Sane(hq, h) /\ Valid(hq, h) /\ Get(hq, h) = v
    BY <1>3, <2>2, <2>3, PreparesMore
  <2>5. PICK hr, g : hr = Alloc(hq, Node(h)).heap /\ g = Alloc(hq, Node(h)).handle
    OBVIOUS
  <2>6. Good(hq, Node(h)) /\ Leads(hq, Node(h))
    BY <2>4, GoodValues, LeadsTo
  <2>7. /\ Prepares(hr, getter, state, counter, count, rows, items) /\ Keeps(hq, hr)
        /\ g \in Handle /\ Sane(hr, g) /\ Valid(hr, g) /\ Get(hr, g) = Node(h)
    BY <1>3, <2>4, <2>5, <2>6, PreparesMore
  <2>8. Valid(hr, h) /\ Get(hr, h).kind = "closure"
    BY <2>3, <2>4, <2>7 DEF Keeps
  <2>9. RowItem(hr, g, state, counter) /\ Get(hr, g).kind # "list"
    BY <2>4, <2>7, <2>8, KindOf DEF RowItem
  <2>10. PICK hw : hw = Write(hr, rows, List(Append(items, g)))
    OBVIOUS
  <2>11. Changes(hw)
    BY <2>7, <2>9, <2>10, PushChanges
  <2>12. Happens(hw)
    BY <1>2, <1>6, <2>1, <2>2, <2>5, <2>10
  <2> QED BY <2>11, <2>12
<1>7. CASE LET pop == Alloc(heap, Closure("pop", {State, Counter}))
           IN /\ Pops
              /\ Happens(Write(pop.heap, Rows, List(Append(Items, pop.handle))))
  <2>1. PICK both, v : both = {State, Counter} /\ v = Closure("pop", both)
    OBVIOUS
  <2>2. PICK hq, h : hq = Alloc(heap, v).heap /\ h = Alloc(heap, v).handle
    OBVIOUS
  <2>3. Good(heap, v) /\ Leads(heap, v) /\ v.kind = "closure"
    <3>1. \A k \in both : Sane(heap, k) /\ Valid(heap, k)
      BY <1>2, <1>4, <2>1
    <3>2. "pop" \in Codes
      BY <1>7 DEF Codes, Pops
    <3>3. Good(heap, Closure("pop", both)) /\ Leads(heap, Closure("pop", both))
      BY <3>1, <3>2, GoodClosure, LeadsTo
    <3> QED BY <2>1, <3>3, KindOf
  <2>4. /\ Prepares(hq, getter, state, counter, count, rows, items)
        /\ h \in Handle /\ Sane(hq, h) /\ Valid(hq, h) /\ Get(hq, h) = v
    BY <1>3, <2>2, <2>3, PreparesMore
  <2>5. v = Closure("pop", {state, counter})
    BY <1>2, <2>1
  <2>6. RowItem(hq, h, state, counter) /\ Get(hq, h).kind # "list"
    BY <2>3, <2>4, <2>5 DEF RowItem
  <2>7. PICK hw : hw = Write(hq, rows, List(Append(items, h)))
    OBVIOUS
  <2>8. Changes(hw)
    BY <2>4, <2>6, <2>7, PushChanges
  <2>9. Happens(hw)
    BY <1>2, <1>7, <2>1, <2>2, <2>7
  <2> QED BY <2>8, <2>9
<1> QED BY <1>5, <1>6, <1>7 DEF PushRow

LEMMA EventChanges ==
  ASSUME Alive(heap, instance), SetRow \/ PushRow \/ PopRow \/ NewRows \/ World
  PROVE  \E hw : Changes(hw) /\ Happens(hw)
<1>1. CASE SetRow
  <2>1. PICK i \in DOMAIN Items :
          LET new == Alloc(heap, Fresh)
              list == IF Nested(i) THEN Items[i] ELSE Rows
              at == IF Nested(i) THEN 1 ELSE i
          IN Happens(Write(new.heap, list,
                           List([Get(heap, list).items EXCEPT ![at] = new.handle])))
    BY <1>1 DEF SetRow
  <2>2. PICK n : Fresh = Number(n)
    BY DEF Fresh
  <2>3. PICK hq, h, list, at, hw :
          /\ hq = Alloc(heap, Number(n)).heap /\ h = Alloc(heap, Number(n)).handle
          /\ list = (IF Nested(i) THEN Items[i] ELSE Rows)
          /\ at = (IF Nested(i) THEN 1 ELSE i)
          /\ hw = Write(hq, list, List([Get(heap, list).items EXCEPT ![at] = h]))
    OBVIOUS
  <2>4. Changes(hw)
    BY <2>3, SetRowChanges
  <2>5. Happens(hw)
    BY <2>1, <2>2, <2>3
  <2> QED BY <2>4, <2>5
<1>2. CASE PushRow
  BY <1>2, PushRowChanges
<1>3. CASE PopRow
  BY <1>3, PopChanges DEF PopRow
<1>4. CASE NewRows
  <2>1. PICK n : Fresh = Number(n)
    BY DEF Fresh
  <2>2. PICK hq, h, hr, list, hw :
          /\ hq = Alloc(heap, Number(n)).heap /\ h = Alloc(heap, Number(n)).handle
          /\ hr = Alloc(hq, List(<<h>>)).heap /\ list = Alloc(hq, List(<<h>>)).handle
          /\ hw = Write(hr, State, Cell(list))
    OBVIOUS
  <2>3. Changes(hw)
    BY <2>2, NewRowsChanges
  <2>4. Happens(hw)
    BY <1>4, <2>1, <2>2 DEF NewRows
  <2> QED BY <2>3, <2>4
<1>5. CASE World
  <2>1. Changes(heap)
    BY LaterItself DEF Changes, Alive, WellFormed
  <2> QED BY <1>5, <2>1 DEF World
<1> QED BY <1>1, <1>2, <1>3, <1>4, <1>5

-----------------------------------------------------------------------------
(* The invariant: the heap has the program in it, and every handle that is *)
(* still in use was made by it.                                            *)

Elements(s) == {s[i] : i \in DOMAIN s}

InUse == Held \cup {root} \cup Elements(todo)

BindingsAre ==
  \A g \in DOMAIN bindings :
    bindings[g] = [value |-> bindings[g].value, reads |-> bindings[g].reads,
                   volatile |-> bindings[g].volatile, seen |-> bindings[g].seen]

Inv ==
  /\ view \in Seq(Getter)
  /\ Alive(heap, instance)
  /\ \A h \in InUse : Sane(heap, h)
  /\ instance \in pins
  /\ BindingsAre
  /\ todo \in Seq(Handle) /\ handlers \in Seq(Handle)
  /\ phase = "idle" => Held \subseteq pins /\ \A h \in pins : Valid(heap, h)

LEMMA InvImplies == Inv => NoAlias /\ NothingDangles
<1>1. ASSUME Inv PROVE NoAlias
  <2> SUFFICES ASSUME NEW h \in InUse, Valid(heap, h)
               PROVE  heap.slots[h.slot].created = h.born
    BY DEF NoAlias, InUse, Elements
  <2>1. Sane(heap, h)
    BY <1>1 DEF Inv
  <2> QED BY <2>1 DEF Sane, Valid
<1>2. ASSUME Inv PROVE NothingDangles
  BY <1>2 DEF Inv, NothingDangles
<1> QED BY <1>1, <1>2

LEMMA StaysAlive ==
  ASSUME view' = view, instance' = instance, NEW hq, hq = heap', Alive(hq, instance)
  PROVE  Alive(heap, instance)'
<1>1. Codes' = Codes
  BY DEF Codes
<1>2. \A v : Good(hq, v) <=> Good(hq, v)'
  BY <1>1 DEF Good, Sane, Kids
<1>3. WellFormed(hq)'
  BY <1>2 DEF Alive, WellFormed, Filled, IsHeap, IsSlot, FreeListed
<1>4. WellFormed(heap)'
  BY <1>3
<1> QED BY <1>4 DEF Alive

LEMMA Elements1 ==
  ASSUME NEW S, NEW s \in Seq(S), NEW t \in Seq(S), t # <<>>
  PROVE  /\ Head(t) \in Elements(t) /\ Tail(t) \in Seq(S) /\ Head(t) \in S
         /\ Elements(Tail(t)) \subseteq Elements(t)
         /\ s \o Tail(t) \in Seq(S)
         /\ Elements(s \o Tail(t)) \subseteq Elements(s) \cup Elements(t)
<1>1. PICK u : u = Tail(t)
  OBVIOUS
<1>2. Len(t) \in Nat /\ 1 <= Len(t) /\ 1 \in DOMAIN t /\ Head(t) = t[1]
  BY EmptySeq
<1>3. u \in Seq(S) /\ \A i \in DOMAIN u : u[i] \in Elements(t)
  <2>1. u \in Seq(S) /\ Len(u) = Len(t) - 1 /\ \A i \in 1 .. Len(u) : u[i] = t[i + 1]
    BY <1>1, <1>2
  <2>2. \A i \in 1 .. Len(u) : i + 1 \in DOMAIN t
    BY <1>2, <2>1
  <2>3. \A i \in DOMAIN u : \E j \in DOMAIN t : u[i] = t[j]
    <3>1. DOMAIN u = 1 .. Len(u)
      BY <2>1
    <3> SUFFICES ASSUME NEW i \in 1 .. Len(u) PROVE \E j \in DOMAIN t : u[i] = t[j]
      BY <3>1
    <3>2. PICK j : j = i + 1
      OBVIOUS
    <3>3. j \in DOMAIN t
      BY <2>2, <3>2
    <3>4. u[i] = t[j]
      BY <2>1, <3>2
    <3> QED BY <3>3, <3>4
  <2> QED BY <2>1, <2>3 DEF Elements
<1>4. PICK v : v = s \o u
  OBVIOUS
<1>5. /\ v \in Seq(S)
      /\ \A i \in DOMAIN v : (\E j \in DOMAIN s : v[i] = s[j])
                             \/ (\E j \in DOMAIN u : v[i] = u[j])
  <2>1. v \in Seq(S) /\ Len(v) = Len(s) + Len(u) /\ Len(s) \in Nat /\ Len(u) \in Nat
        /\ \A i \in 1 .. Len(s) + Len(u) :
             v[i] = IF i <= Len(s) THEN s[i] ELSE u[i - Len(s)]
    BY <1>3, <1>4
  <2>2. ASSUME NEW i \in DOMAIN v
        PROVE  (\E j \in DOMAIN s : v[i] = s[j]) \/ (\E j \in DOMAIN u : v[i] = u[j])
    <3>1. i \in 1 .. Len(s) + Len(u)
      BY <2>1
    <3>2. CASE i <= Len(s)
      BY <2>1, <3>1, <3>2
    <3>3. CASE ~(i <= Len(s))
      <4>1. i - Len(s) \in DOMAIN u
        BY <1>3, <2>1, <3>1, <3>3
      <4> QED BY <2>1, <3>1, <3>3, <4>1
    <3> QED BY <3>2, <3>3
  <2> QED BY <2>1, <2>2
<1>6. Head(t) \in Elements(t) /\ Head(t) \in S
  BY <1>2 DEF Elements
<1>7. Elements(u) \subseteq Elements(t)
  BY <1>3 DEF Elements
<1>8. Elements(v) \subseteq Elements(s) \cup Elements(u)
  BY <1>5 DEF Elements
<1> QED BY <1>1, <1>3, <1>4, <1>5, <1>6, <1>7, <1>8

(* Fewer bindings, or only their marks changed, pin no more.               *)
LEMMA FewerPins ==
  ASSUME NEW bs, NEW cs, DOMAIN cs \subseteq DOMAIN bs,
         \A g \in DOMAIN cs : cs[g].value = bs[g].value /\ cs[g].reads = bs[g].reads
  PROVE  BindingPins(cs) \subseteq BindingPins(bs)
BY DEF BindingPins

LEMMA MorePins ==
  ASSUME NEW bs, NEW g, NEW b, NEW cs,
         DOMAIN cs = DOMAIN bs \cup {g},
         \A k \in DOMAIN cs : cs[k] = IF k = g THEN b ELSE bs[k]
  PROVE  BindingPins(cs) \subseteq BindingPins(bs) \cup {g, b.value} \cup Sources(b.reads)
<1>1. DOMAIN cs = DOMAIN bs \cup {g}
  OBVIOUS
<1>2. cs[g] = b /\ \A k \in DOMAIN bs : k # g => cs[k] = bs[k]
  OBVIOUS
<1>3. ASSUME NEW h \in BindingPins(cs)
      PROVE  h \in BindingPins(bs) \cup {g, b.value} \cup Sources(b.reads)
  <2>1. CASE h \in DOMAIN cs
    BY <1>1, <2>1 DEF BindingPins
  <2>2. CASE \E k \in DOMAIN cs : h = cs[k].value
    BY <1>1, <1>2, <2>2 DEF BindingPins
  <2>3. CASE \E k \in DOMAIN cs : h \in Sources(cs[k].reads)
    BY <1>1, <1>2, <2>3 DEF BindingPins
  <2>4. \/ h \in DOMAIN cs
        \/ \E k \in DOMAIN cs : h = cs[k].value
        \/ \E k \in DOMAIN cs : h \in Sources(cs[k].reads)
    BY ONLY <1>3 DEF BindingPins
  <2> QED BY ONLY <2>1, <2>2, <2>3, <2>4
<1> QED BY <1>3

(* The heap the component starts with.                                     *)
LEMMA EmptyWellFormed ==
  ASSUME NEW hp, hp = [slots |-> <<>>, free |-> <<>>, allocations |-> 0]
  PROVE  WellFormed(hp)
<1>1. hp.slots = <<>> /\ hp.free = <<>> /\ hp.allocations = 0
      /\ hp = [slots |-> hp.slots, free |-> hp.free, allocations |-> hp.allocations]
  OBVIOUS
<1>2. Len(hp.slots) = 0 /\ Len(hp.free) = 0 /\ hp.free \in Seq(Nat)
  BY <1>1
<1>3. hp.slots = [i \in 1 .. Len(hp.slots) |-> hp.slots[i]]
  BY <1>1, <1>2
<1>4. \A i : i \notin 1 .. Len(hp.slots) /\ i \notin 1 .. Len(hp.free)
  BY <1>2
<1> QED BY <1>1, <1>2, <1>3, <1>4 DEF WellFormed, IsHeap, FreeListed, Filled

(* One allocation more, and what is there already.                         *)
LEMMA OneMore ==
  ASSUME NEW hp, WellFormed(hp), Closed(hp), NEW v, Good(hp, v), Leads(hp, v),
         NEW hq, NEW h, hq = Alloc(hp, v).heap, h = Alloc(hp, v).handle
  PROVE  /\ WellFormed(hq) /\ Closed(hq) /\ h \in Handle
         /\ Sane(hq, h) /\ Valid(hq, h) /\ Get(hq, h) = v
         /\ \A g \in Handle : Sane(hp, g) => Sane(hq, g)
         /\ \A g \in Handle : Valid(hp, g) => Valid(hq, g) /\ Get(hq, g) = Get(hp, g)
<1>1. WellFormed(hq) /\ Later(hp, hq) /\ Keeps(hp, hq) /\ New(hp, hq, h, v)
  BY Allocated
<1>2. Closed(hq)
  BY AllocatedClosed
<1> QED BY <1>1, <1>2 DEF Later, Keeps, New, Sane

LEMMA InitAlive == Init => Alive(heap, instance) /\ Closed(heap)
<1> SUFFICES ASSUME Init PROVE Alive(heap, instance) /\ Closed(heap)
  OBVIOUS
<1>0. PICK h0 : h0 = EmptyHeap
  OBVIOUS
<1>1. WellFormed(h0) /\ Closed(h0)
  <2>1. WellFormed(h0)
    BY <1>0, EmptyWellFormed DEF EmptyHeap
  <2>2. h0.slots = <<>>
    BY <1>0 DEF EmptyHeap
  <2> QED BY <2>1, <2>2 DEF Closed
<1>2. PICK values : values = <<Number(0), Number(1)>>
  OBVIOUS
<1>3. PICK leaves : leaves = AllocAll(h0, values)
  OBVIOUS
<1>4. PICK h1, one, two : /\ h1 = leaves.heap
                          /\ one = leaves.handles[1] /\ two = leaves.handles[2]
  OBVIOUS
<1>5. /\ WellFormed(h1) /\ Closed(h1) /\ one \in Handle /\ two \in Handle
      /\ Sane(h1, one) /\ Valid(h1, one) /\ Get(h1, one).kind = "number"
      /\ Sane(h1, two) /\ Valid(h1, two) /\ Get(h1, two).kind = "number"
  <2>1. Len(values) = 2 /\ Len(values) \in Nat /\ values[1] = Number(0) /\ values[2] = Number(1)
    BY <1>2
  <2>2. \A k \in 1 .. Len(values) : Good(h0, values[k]) /\ Leads(h0, values[k])
    BY <2>1, GoodValues, LeadsTo
  <2>3. MadeOf(h0, leaves.heap, leaves.handles, values, Len(values))
    BY <1>1, <1>3, <2>1, <2>2, AllocatedAll
  <2>4. WellFormed(h1) /\ New(h0, h1, one, Number(0)) /\ New(h0, h1, two, Number(1))
    BY <1>4, <2>1, <2>3 DEF MadeOf
  <2>5. Closed(h1)
    BY <1>1, <1>3, <1>4, <2>1, <2>2, AllocatedAllClosed
  <2> QED BY <2>4, <2>5, KindOf DEF New, Sane
<1>6. PICK s2 : s2 = <<two>>
  OBVIOUS
<1>7. PICK h2, inner : /\ h2 = Alloc(h1, List(s2)).heap
                       /\ inner = Alloc(h1, List(s2)).handle
  OBVIOUS
<1>8. /\ WellFormed(h2) /\ Closed(h2) /\ inner \in Handle
      /\ Sane(h2, inner) /\ Valid(h2, inner) /\ Get(h2, inner) = List(s2)
      /\ Sane(h2, one) /\ Valid(h2, one) /\ Get(h2, one).kind = "number"
      /\ Valid(h2, two) /\ Get(h2, two).kind = "number"
      /\ s2 \in Seq(Handle) /\ \A k \in DOMAIN s2 : s2[k] = two
  <2>1. s2 \in Seq(Handle) /\ \A k \in DOMAIN s2 : s2[k] = two
    BY <1>5, <1>6
  <2>2. Good(h1, List(s2)) /\ Leads(h1, List(s2))
    BY <1>5, <2>1, GoodValues, LeadsTo
  <2>3. /\ WellFormed(h2) /\ Closed(h2) /\ inner \in Handle
        /\ Sane(h2, inner) /\ Valid(h2, inner) /\ Get(h2, inner) = List(s2)
        /\ \A g \in Handle : Sane(h1, g) => Sane(h2, g)
        /\ \A g \in Handle : Valid(h1, g) => Valid(h2, g) /\ Get(h2, g) = Get(h1, g)
    BY <1>5, <1>7, <2>2, OneMore
  <2> QED BY <1>5, <2>1, <2>3
<1>9. PICK items : items = <<one, inner>>
  OBVIOUS
<1>10. PICK h3, rows : /\ h3 = Alloc(h2, List(items)).heap
                       /\ rows = Alloc(h2, List(items)).handle
  OBVIOUS
<1>11. /\ WellFormed(h3) /\ Closed(h3) /\ rows \in Handle
       /\ Sane(h3, rows) /\ Valid(h3, rows) /\ Get(h3, rows) = List(items)
       /\ \A g \in Handle : Sane(h2, g) => Sane(h3, g)
       /\ \A g \in Handle : Valid(h2, g) => Valid(h3, g) /\ Get(h3, g) = Get(h2, g)
       /\ items \in Seq(Handle) /\ items # <<>>
       /\ \A k \in DOMAIN items : items[k] \in {one, inner}
  <2>1. items \in Seq(Handle) /\ items # <<>>
        /\ \A k \in DOMAIN items : items[k] \in {one, inner}
    BY <1>5, <1>8, <1>9
  <2>2. Good(h2, List(items)) /\ Leads(h2, List(items))
    BY <1>8, <2>1, GoodValues, LeadsTo
  <2> QED BY <1>8, <1>10, <2>1, <2>2, OneMore
<1>12. PICK h4, state : /\ h4 = Alloc(h3, Cell(rows)).heap
                        /\ state = Alloc(h3, Cell(rows)).handle
  OBVIOUS
<1>13. /\ WellFormed(h4) /\ Closed(h4) /\ state \in Handle
       /\ Sane(h4, state) /\ Valid(h4, state) /\ Get(h4, state) = Cell(rows)
       /\ \A g \in Handle : Sane(h3, g) => Sane(h4, g)
       /\ \A g \in Handle : Valid(h3, g) => Valid(h4, g) /\ Get(h4, g) = Get(h3, g)
  <2>1. Good(h3, Cell(rows)) /\ Leads(h3, Cell(rows))
    BY <1>11, GoodValues, LeadsTo
  <2> QED BY <1>11, <1>12, <2>1, OneMore
<1>14. PICK h5, counter : /\ h5 = Alloc(h4, Cell(one)).heap
                          /\ counter = Alloc(h4, Cell(one)).handle
  OBVIOUS
<1>15. /\ WellFormed(h5) /\ Closed(h5) /\ counter \in Handle
       /\ Sane(h5, counter) /\ Valid(h5, counter) /\ Get(h5, counter) = Cell(one)
       /\ \A g \in Handle : Sane(h4, g) => Sane(h5, g)
       /\ \A g \in Handle : Valid(h4, g) => Valid(h5, g) /\ Get(h5, g) = Get(h4, g)
  <2>1. Sane(h4, one) /\ Valid(h4, one)
    BY <1>5, <1>8, <1>11, <1>13
  <2>2. Good(h4, Cell(one)) /\ Leads(h4, Cell(one))
    BY <2>1, GoodValues, LeadsTo
  <2> QED BY <1>13, <1>14, <2>2, OneMore
<1>16. PICK both : both = {state, counter}
  OBVIOUS
<1>17. PICK h6, getter : /\ h6 = Alloc(h5, Closure("view", both)).heap
                         /\ getter = Alloc(h5, Closure("view", both)).handle
  OBVIOUS
<1>18. /\ WellFormed(h6) /\ Closed(h6) /\ getter \in Handle
       /\ Sane(h6, getter) /\ Valid(h6, getter) /\ Get(h6, getter) = Closure("view", both)
       /\ \A g \in Handle : Sane(h5, g) => Sane(h6, g)
       /\ \A g \in Handle : Valid(h5, g) => Valid(h6, g) /\ Get(h6, g) = Get(h5, g)
  <2>1. \A h \in both : Sane(h5, h) /\ Valid(h5, h)
    BY <1>13, <1>15, <1>16
  <2>2. "view" \in Codes
    BY DEF Codes
  <2>3. Good(h5, Closure("view", both)) /\ Leads(h5, Closure("view", both))
    BY <2>1, <2>2, GoodClosure, LeadsTo
  <2> QED BY <1>15, <1>17, <2>3, OneMore
<1>19. PICK parts : parts = <<getter, state, counter>>
  OBVIOUS
<1>20. PICK h7, inst : /\ h7 = Alloc(h6, List(parts)).heap
                       /\ inst = Alloc(h6, List(parts)).handle
  OBVIOUS
<1>21. /\ WellFormed(h7) /\ Closed(h7) /\ inst \in Handle
       /\ Sane(h7, inst) /\ Valid(h7, inst) /\ Get(h7, inst) = List(parts)
       /\ \A g \in Handle : Valid(h6, g) => Valid(h7, g) /\ Get(h7, g) = Get(h6, g)
  <2>1. parts \in Seq(Handle) /\ \A k \in DOMAIN parts : parts[k] \in {getter, state, counter}
    BY <1>13, <1>15, <1>18, <1>19
  <2>2. /\ Sane(h6, getter) /\ Sane(h6, state) /\ Sane(h6, counter)
        /\ Valid(h6, getter) /\ Valid(h6, state) /\ Valid(h6, counter)
    BY <1>13, <1>15, <1>18
  <2>3. Good(h6, List(parts)) /\ Leads(h6, List(parts))
    BY <2>1, <2>2, GoodValues, LeadsTo
  <2> QED BY <1>18, <1>20, <2>3, OneMore
<1>22. heap = h7 /\ instance = inst
  <2>1. PICK first : first = FirstRows
    OBVIOUS
  <2>2. first.heap = h3 /\ first.rows = rows /\ first.count = one
    BY <1>0, <1>2, <1>3, <1>4, <1>6, <1>7, <1>9, <1>10, <2>1 DEF FirstRows
  <2>3. PICK top : top = Instance(first.heap, first.rows, first.count)
    OBVIOUS
  <2>4. top = Alloc(h6, List(<<getter, state, counter>>))
    BY <1>12, <1>14, <1>16, <1>17, <2>2, <2>3 DEF Instance
  <2>5. top.heap = h7 /\ top.handle = inst
    BY <1>19, <1>20, <2>4
  <2> QED BY <2>1, <2>3, <2>5 DEF Init
<1>23. /\ Valid(h7, one) /\ Get(h7, one).kind = "number"
       /\ Valid(h7, two) /\ Get(h7, two).kind = "number"
       /\ Valid(h7, inner) /\ Get(h7, inner) = List(s2)
  BY <1>5, <1>8, <1>11, <1>13, <1>15, <1>18, <1>21
<1>24. /\ Valid(h7, rows) /\ Get(h7, rows) = List(items)
       /\ Valid(h7, state) /\ Get(h7, state) = Cell(rows)
       /\ Valid(h7, counter) /\ Get(h7, counter) = Cell(one)
       /\ Valid(h7, getter) /\ Get(h7, getter) = Closure("view", {state, counter})
  BY <1>11, <1>13, <1>15, <1>16, <1>18, <1>21
<1>25. RowItem(h7, one, state, counter) /\ RowItem(h7, inner, state, counter)
  BY <1>5, <1>8, <1>23 DEF RowItem
<1>26. ProgramAt(h7, inst, getter, state, counter, one, rows, items)
  BY <1>5, <1>11, <1>13, <1>15, <1>18, <1>19, <1>21, <1>23, <1>24, <1>25 DEF ProgramAt
<1> QED BY <1>21, <1>22, <1>26 DEF Alive

LEMMA InitInv == Init => Inv
<1> SUFFICES ASSUME Init PROVE Inv
  OBVIOUS
<1>1. Alive(heap, instance)
  BY InitAlive
<1>2. /\ pins = {instance} /\ root = instance /\ DOMAIN bindings = {}
      /\ handlers = <<>> /\ todo = <<>> /\ view \in Views
  BY DEF Init
<1>3. BindingPins(bindings) = {}
  BY <1>2 DEF BindingPins
<1>4. handlers \in Seq(Handle) /\ todo \in Seq(Handle) /\ DOMAIN todo = {}
      /\ DOMAIN handlers = {}
  BY <1>2
<1>5. Held = {instance} /\ InUse = {instance}
  BY <1>2, <1>3, <1>4 DEF Held, InUse, Elements
<1>6. Sane(heap, instance) /\ Valid(heap, instance)
  BY <1>1 DEF Alive, ProgramAt
<1>7. view \in Seq(Getter)
  BY <1>2, ConstantsAssumption
<1> QED BY <1>1, <1>2, <1>4, <1>5, <1>6, <1>7 DEF Inv, BindingsAre

-----------------------------------------------------------------------------
(* The steps.                                                              *)

LEMMA InUseIs ==
  /\ \A h : h \in InUse <=> \/ h \in pins \/ h \in BindingPins(bindings)
                            \/ h \in Elements(handlers) \/ h = root \/ h \in Elements(todo)
  /\ \A h : h \in Held <=> \/ h \in pins \/ h \in BindingPins(bindings)
                           \/ h \in Elements(handlers)
BY DEF InUse, Held, Elements

LEMMA BeginFrameInv == ASSUME Inv, BeginFrame PROVE Inv'
<1>1. UNCHANGED <<view, heap, instance, root>> /\ phase' = "walk"
  BY DEF BeginFrame
<1>2. Alive(heap, instance)'
  BY <1>1, StaysAlive DEF Inv
<1>3. /\ DOMAIN bindings' = DOMAIN bindings /\ BindingsAre'
      /\ \A g \in DOMAIN bindings' : /\ bindings'[g].value = bindings[g].value
                                     /\ bindings'[g].reads = bindings[g].reads
  <2>1. PICK bs : bs = bindings'
    OBVIOUS
  <2>2. bs = [g \in DOMAIN bindings |-> [bindings[g] EXCEPT !.seen = FALSE]]
    BY <2>1 DEF BeginFrame
  <2>3. ASSUME NEW g \in DOMAIN bindings
        PROVE  /\ bs[g].value = bindings[g].value /\ bs[g].reads = bindings[g].reads
               /\ bs[g] = [value |-> bs[g].value, reads |-> bs[g].reads,
                           volatile |-> bs[g].volatile, seen |-> bs[g].seen]
    <3>1. PICK b, c : b = bindings[g] /\ c = bs[g]
      OBVIOUS
    <3>2. b = [value |-> b.value, reads |-> b.reads, volatile |-> b.volatile, seen |-> b.seen]
      BY <3>1 DEF Inv, BindingsAre
    <3>3. c = [b EXCEPT !.seen = FALSE]
      BY <2>2, <3>1
    <3>4. c = [value |-> b.value, reads |-> b.reads, volatile |-> b.volatile, seen |-> FALSE]
      BY <3>2, <3>3
    <3>5. c.value = b.value /\ c.reads = b.reads
          /\ c = [value |-> c.value, reads |-> c.reads, volatile |-> c.volatile,
                  seen |-> c.seen]
      BY <3>4
    <3> QED BY <3>1, <3>5
  <2>4. DOMAIN bs = DOMAIN bindings
    BY <2>2
  <2> QED BY <2>1, <2>3, <2>4 DEF BindingsAre
<1>4. BindingPins(bindings') \subseteq BindingPins(bindings)
  BY <1>3, FewerPins
<1>5. pins' = {instance} \cup BindingPins(bindings) /\ instance \in pins'
  BY DEF BeginFrame
<1>6. handlers' = <<>> /\ todo' = <<View>>
  BY DEF BeginFrame
<1>7. Sane(heap, View) /\ View \in Handle
  <2>1. PICK getter, state, counter, count, rows, items :
          ProgramAt(heap, instance, getter, state, counter, count, rows, items)
    BY DEF Inv, Alive
  <2> QED BY <2>1, Names, ProgramSane DEF Inv, Alive, Sane
<1>8. handlers' \in Seq(Handle) /\ Elements(handlers') = {}
      /\ todo' \in Seq(Handle) /\ Elements(todo') = {View}
  <2>1. PICK t, v : t = todo' /\ v = View
    OBVIOUS
  <2>2. t = <<v>> /\ v \in Handle
    BY <1>6, <1>7, <2>1
  <2>3. t \in Seq(Handle) /\ Elements(t) = {v}
    BY <2>2 DEF Elements
  <2> QED BY <1>6, <2>1, <2>3 DEF Elements
<1>9. \A h \in InUse' : h \in InUse \/ h = View
  <2> SUFFICES ASSUME NEW h, h \in InUse' PROVE h \in InUse \/ h = View
    OBVIOUS
  <2>1. \/ h \in pins' \/ h \in BindingPins(bindings')
        \/ h \in Elements(handlers') \/ h = root' \/ h \in Elements(todo')
    BY InUseIs DEF InUse, Held, Elements
  <2>2. h \in {instance} \cup BindingPins(bindings) \/ h = root \/ h = View
    BY <1>1, <1>4, <1>5, <1>8, <2>1
  <2>3. instance \in pins
    BY DEF Inv
  <2> QED BY <2>2, <2>3, InUseIs
<1>10. \A h \in InUse' : Sane(heap, h)
  BY <1>7, <1>9 DEF Inv
<1>11. (\A h \in InUse : Sane(heap, h))'
  BY <1>1, <1>10 DEF Sane
<1>12. view' \in Seq(Getter)
  BY <1>1 DEF Inv
<1>13. instance' \in pins' /\ (phase' = "idle") = FALSE
  BY <1>1, <1>5
<1> QED BY <1>2, <1>3, <1>8, <1>11, <1>12, <1>13 DEF Inv

(* What every step has to show.                                            *)
LEMMA StepInv ==
  ASSUME Inv, view' = view, instance' = instance,
         NEW hq, hq = heap', Alive(hq, instance), Later(heap, hq),
         \A h \in InUse' : h \in InUse \/ Sane(hq, h),
         instance \in pins', BindingsAre',
         todo' \in Seq(Handle), handlers' \in Seq(Handle),
         phase' = "idle" => Held' \subseteq pins' /\ \A h \in pins' : Valid(hq, h)
  PROVE  Inv'
<1>1. Alive(heap, instance)'
  BY StaysAlive
<1>2. \A h \in InUse' : Sane(hq, h)
  BY DEF Inv, Later, Sane
<1>3. (\A h \in InUse : Sane(heap, h))'
  BY <1>2 DEF Sane
<1>4. view' \in Seq(Getter) /\ instance' \in pins'
  BY DEF Inv
<1>5. (phase = "idle" => Held \subseteq pins /\ \A h \in pins : Valid(heap, h))'
  BY DEF Valid
<1> QED BY <1>1, <1>3, <1>4, <1>5 DEF Inv

LEMMA SameHeap == ASSUME Inv PROVE Alive(heap, instance) /\ Later(heap, heap)
BY LaterItself DEF Inv, Alive, WellFormed

(* A step of the walk takes the head of todo.                              *)
LEMMA WalkOn ==
  ASSUME Inv, Visiting, NEW s \in Seq(Handle), todo' = s \o Tail(todo)
  PROVE  /\ todo' \in Seq(Handle) /\ Head(todo) \in Elements(todo) /\ Head(todo) \in Handle
         /\ Elements(todo') \subseteq Elements(s) \cup Elements(todo)
<1>1. PICK t, u : t = todo /\ u = todo'
  OBVIOUS
<1>2. t \in Seq(Handle) /\ t # <<>> /\ u = s \o Tail(t)
  BY <1>1 DEF Inv, Visiting
<1>3. /\ Head(t) \in Elements(t) /\ Head(t) \in Handle
      /\ u \in Seq(Handle) /\ Elements(u) \subseteq Elements(s) \cup Elements(t)
  BY <1>2, Elements1
<1> QED BY <1>1, <1>3 DEF Elements

LEMMA ReuseInv == ASSUME Inv, Reuse PROVE Inv'
<1>1. UNCHANGED <<view, heap, instance, root, pins, handlers>> /\ phase' = "walk"
  BY DEF Reuse, Visiting
<1>2. PICK g, bs, cs : g = Head(todo) /\ bs = bindings /\ cs = bindings'
  OBVIOUS
<1>3. g \in DOMAIN bs /\ cs = [bs EXCEPT ![g].seen = TRUE]
  BY <1>2 DEF Reuse, Clean
<1>4. PICK b, c : b = bs[g] /\ c = [b EXCEPT !.seen = TRUE]
  OBVIOUS
<1>5. b = [value |-> b.value, reads |-> b.reads, volatile |-> b.volatile, seen |-> b.seen]
  BY <1>2, <1>3, <1>4 DEF Inv, BindingsAre
<1>6. c = [value |-> b.value, reads |-> b.reads, volatile |-> b.volatile, seen |-> TRUE]
  BY <1>4, <1>5
<1>7. cs = [bs EXCEPT ![g] = c]
  BY <1>3, <1>4
<1>8. /\ DOMAIN cs = DOMAIN bs
      /\ \A k \in DOMAIN cs : IF k = g THEN cs[k] = c ELSE cs[k] = bs[k]
  BY <1>7
<1>9. /\ c.value = b.value /\ c.reads = b.reads
      /\ c = [value |-> c.value, reads |-> c.reads, volatile |-> c.volatile, seen |-> c.seen]
  BY <1>6
<1>10. BindingPins(cs) \subseteq BindingPins(bs)
  BY <1>4, <1>8, <1>9, FewerPins
<1>11. \A k \in DOMAIN cs : cs[k] = [value |-> cs[k].value, reads |-> cs[k].reads,
                                     volatile |-> cs[k].volatile, seen |-> cs[k].seen]
  BY <1>2, <1>8, <1>9 DEF Inv, BindingsAre
<1>12. BindingsAre'
  BY <1>2, <1>11 DEF BindingsAre
<1>13. PICK v : v = b.value
  OBVIOUS
<1>14. v \in BindingPins(bindings)
  BY <1>2, <1>3, <1>4, <1>13 DEF BindingPins
<1>15. v \in Handle
  BY <1>14, InUseIs DEF Inv, Sane
<1>16. todo' = <<v>> \o Tail(todo)
  BY <1>2, <1>4, <1>13 DEF Reuse
<1>17. PICK s : s = <<v>>
  OBVIOUS
<1>18. s \in Seq(Handle) /\ Elements(s) = {v}
  BY <1>15, <1>17 DEF Elements
<1>19. todo' \in Seq(Handle) /\ Elements(todo') \subseteq {v} \cup Elements(todo)
  <2>1. Visiting /\ todo' = s \o Tail(todo)
    BY <1>16, <1>17 DEF Reuse
  <2> QED BY <1>18, <2>1, WalkOn
<1>20. \A h \in InUse' : h \in InUse
  <2> SUFFICES ASSUME NEW h, h \in InUse' PROVE h \in InUse
    OBVIOUS
  <2>1. \/ h \in pins' \/ h \in BindingPins(bindings')
        \/ h \in Elements(handlers') \/ h = root' \/ h \in Elements(todo')
    BY DEF InUse, Held, Elements
  <2>2. \/ h \in pins \/ h \in BindingPins(bindings) \/ h \in Elements(handlers)
        \/ h = root \/ h \in Elements(todo)
    BY <1>1, <1>2, <1>10, <1>14, <1>19, <2>1
  <2> QED BY <2>2, InUseIs
<1>21. instance \in pins' /\ handlers' \in Seq(Handle) /\ phase' # "idle"
  BY <1>1 DEF Inv
<1>22. PICK hq : hq = heap'
  OBVIOUS
<1>23. Alive(hq, instance) /\ Later(heap, hq)
  BY <1>1, <1>22, SameHeap
<1> QED BY <1>1, <1>12, <1>19, <1>20, <1>21, <1>22, <1>23, StepInv

LEMMA VisitInv == ASSUME Inv, Visit PROVE Inv'
<1>1. UNCHANGED <<view, heap, instance, root, pins, bindings>> /\ phase' = "walk"
      /\ Visiting /\ Valid(heap, Head(todo))
  BY DEF Visit, Visiting
<1>2. PICK value, s : /\ value = Get(heap, Head(todo))
                      /\ s = (IF value.kind = "list" THEN value.items ELSE <<>>)
  OBVIOUS
<1>3. Good(heap, value)
  BY <1>1, <1>2, GoodValue DEF Inv, Alive
<1>4. s \in Seq(Handle) /\ \A h \in Elements(s) : Sane(heap, h)
  <2>1. CASE value.kind = "list"
    <3>1. s = value.items /\ Kids(value) = {value.items[i] : i \in DOMAIN value.items}
      BY <1>2, <2>1 DEF Kids
    <3> QED BY <1>3, <2>1, <3>1 DEF Good, Elements
  <2>2. CASE value.kind # "list"
    BY <1>2, <2>2 DEF Elements
  <2> QED BY <2>1, <2>2
<1>5. /\ todo' \in Seq(Handle)
      /\ Elements(todo') \subseteq Elements(s) \cup Elements(todo)
  <2>1. todo' = s \o Tail(todo)
    BY <1>2 DEF Visit
  <2> QED BY <1>1, <1>4, <2>1, WalkOn
<1>6. /\ handlers' \in Seq(Handle)
      /\ \A h \in Elements(handlers') : h \in Elements(handlers) \/ Sane(heap, h)
  <2>1. PICK hs, ht : hs = handlers /\ ht = handlers'
    OBVIOUS
  <2>2. hs \in Seq(Handle)
    BY <2>1 DEF Inv
  <2>3. CASE value.kind = "node"
    <3>1. ht = Append(hs, value.on)
      BY <1>2, <2>1, <2>3 DEF Visit
    <3>2. Sane(heap, value.on) /\ value.on \in Handle
      BY <1>3, <2>3 DEF Good, Kids, Sane
    <3>3. ht \in Seq(Handle) /\ \A i \in DOMAIN ht : (i \in DOMAIN hs /\ ht[i] = hs[i])
                                                     \/ ht[i] = value.on
      BY <2>2, <3>1, <3>2
    <3> QED BY <2>1, <3>2, <3>3 DEF Elements
  <2>4. CASE value.kind # "node"
    BY <1>2, <2>1, <2>2, <2>4 DEF Visit, Elements
  <2> QED BY <2>3, <2>4
<1>7. PICK hq : hq = heap'
  OBVIOUS
<1>8. \A h \in InUse' : h \in InUse \/ Sane(hq, h)
  <2> SUFFICES ASSUME NEW h, h \in InUse' PROVE h \in InUse \/ Sane(heap, h)
    BY <1>1, <1>7
  <2>1. \/ h \in pins' \/ h \in BindingPins(bindings')
        \/ h \in Elements(handlers') \/ h = root' \/ h \in Elements(todo')
    BY DEF InUse, Held, Elements
  <2>2. \/ h \in pins \/ h \in BindingPins(bindings) \/ h \in Elements(handlers)
        \/ h = root \/ h \in Elements(todo) \/ Sane(heap, h)
    BY <1>1, <1>4, <1>5, <1>6, <2>1
  <2> QED BY <2>2, InUseIs
<1>9. instance \in pins' /\ phase' # "idle" /\ BindingsAre'
  BY <1>1 DEF Inv, BindingsAre
<1>10. Alive(hq, instance) /\ Later(heap, hq)
  BY <1>1, <1>7, SameHeap
<1> QED BY <1>1, <1>5, <1>6, <1>7, <1>8, <1>9, <1>10, StepInv

LEMMA FailFrameInv == ASSUME Inv, FailFrame PROVE Inv'
<1>1. UNCHANGED <<view, heap, instance, root, pins, bindings, handlers, todo>>
      /\ phase' = "error"
  BY DEF FailFrame
<1>2. InUse' = InUse /\ (BindingsAre' <=> BindingsAre)
  BY <1>1 DEF InUse, Held, Elements, BindingPins, BindingsAre
<1>3. PICK hq : hq = heap'
  OBVIOUS
<1>4. Alive(hq, instance) /\ Later(heap, hq)
  BY <1>1, <1>3, SameHeap
<1>5. /\ instance \in pins' /\ phase' # "idle" /\ BindingsAre'
      /\ todo' \in Seq(Handle) /\ handlers' \in Seq(Handle)
      /\ \A h \in InUse' : h \in InUse \/ Sane(hq, h)
  BY <1>1, <1>2 DEF Inv
<1> QED BY <1>1, <1>3, <1>4, <1>5, StepInv

LEMMA EvaluateInv == ASSUME Inv, Evaluate PROVE Inv'
<1>1. UNCHANGED <<view, instance, handlers>> /\ phase' = "walk" /\ Visiting
  BY DEF Evaluate, Visiting
<1>2. PICK g, code, e, hq :
        g = Head(todo) /\ code = Get(heap, g).code /\ e = Evaluation(code) /\ hq = heap'
  OBVIOUS
<1>3. PICK b, bs, cs : /\ b = [value |-> e.value, reads |-> e.reads,
                               volatile |-> e.volatile, seen |-> TRUE]
                       /\ bs = bindings /\ cs = bindings'
  OBVIOUS
<1>4. IsGetter(g) /\ Valid(heap, g) /\ code # "handler"
  BY <1>2 DEF Evaluate, IsGetter
<1>5. /\ hq = e.heap /\ root' = e.value /\ pins' = pins \cup {e.value} \cup Sources(e.reads)
      /\ todo' = <<e.value>> \o Tail(todo)
  BY <1>2 DEF Evaluate, ResultPins
<1>6. cs = [k \in DOMAIN bs \cup {g} |-> IF k = g THEN b ELSE bs[k]]
  BY <1>2, <1>3 DEF Evaluate
<1>7. code \in Codes \ {"handler"}
  <2>1. Good(heap, Get(heap, g))
    BY <1>4, GoodValue DEF Inv, Alive
  <2> QED BY <1>2, <1>4, <2>1 DEF Good, IsGetter
<1>8. /\ Alive(hq, instance) /\ Later(heap, hq) /\ Sane(hq, e.value)
      /\ \A h \in Sources(e.reads) : Sane(hq, h)
  <2>1. Alive(heap, instance) /\ view \in Seq(Getter) /\ instance \in pins
    BY DEF Inv
  <2>2. e = Evaluation(code)
    BY <1>2
  <2>3. /\ Alive(e.heap, instance) /\ Later(heap, e.heap) /\ Sane(e.heap, e.value)
        /\ \A h \in Sources(e.reads) : Sane(e.heap, h)
    BY ONLY <1>7, <2>1, <2>2, EvaluationIs
  <2> QED BY ONLY <1>5, <2>3
<1>9. b.value = e.value /\ b.reads = e.reads
      /\ b = [value |-> b.value, reads |-> b.reads, volatile |-> b.volatile, seen |-> b.seen]
  BY <1>3
<1>10. BindingPins(cs) \subseteq BindingPins(bs) \cup {g, e.value} \cup Sources(e.reads)
  <2>1. /\ DOMAIN cs = DOMAIN bs \cup {g}
        /\ \A k \in DOMAIN cs : cs[k] = IF k = g THEN b ELSE bs[k]
    BY ONLY <1>6
  <2>2. BindingPins(cs) \subseteq BindingPins(bs) \cup {g, b.value} \cup Sources(b.reads)
    BY ONLY <2>1, MorePins
  <2> QED BY ONLY <1>9, <2>2
<1>11. BindingsAre'
  <2>1. DOMAIN cs = DOMAIN bs \cup {g}
        /\ \A k \in DOMAIN cs : cs[k] = IF k = g THEN b ELSE bs[k]
    BY <1>6
  <2>2. \A k \in DOMAIN cs : cs[k] = [value |-> cs[k].value, reads |-> cs[k].reads,
                                      volatile |-> cs[k].volatile, seen |-> cs[k].seen]
    BY <1>3, <1>9, <2>1 DEF Inv, BindingsAre
  <2> QED BY <1>3, <2>2 DEF BindingsAre
<1>12. PICK v, s : v = e.value /\ s = <<v>>
  OBVIOUS
<1>13. s \in Seq(Handle) /\ Elements(s) = {v}
  <2>1. v \in Handle
    BY <1>8, <1>12 DEF Sane
  <2> QED BY <1>12, <2>1 DEF Elements
<1>14. /\ todo' \in Seq(Handle) /\ Elements(todo') \subseteq {v} \cup Elements(todo)
       /\ g \in Elements(todo)
  <2>1. todo' = s \o Tail(todo)
    BY <1>5, <1>12
  <2> QED BY <1>1, <1>2, <1>13, <2>1, WalkOn
<1>15. \A h \in InUse' : h \in InUse \/ Sane(hq, h)
  <2> SUFFICES ASSUME NEW h, h \in InUse' PROVE h \in InUse \/ Sane(hq, h)
    OBVIOUS
  <2>1. \/ h \in pins' \/ h \in BindingPins(bindings')
        \/ h \in Elements(handlers') \/ h = root' \/ h \in Elements(todo')
    BY DEF InUse, Held, Elements
  <2>2. \/ h \in pins \/ h \in BindingPins(bindings) \/ h \in Elements(handlers)
        \/ h \in Elements(todo) \/ h = e.value \/ h \in Sources(e.reads)
    BY <1>1, <1>3, <1>5, <1>10, <1>12, <1>14, <2>1
  <2> QED BY <1>8, <2>2, InUseIs
<1>16. instance \in pins' /\ handlers' \in Seq(Handle) /\ phase' # "idle"
  BY <1>1, <1>5 DEF Inv
<1> QED BY <1>1, <1>2, <1>8, <1>11, <1>14, <1>15, <1>16, StepInv

(* A frame that ends well leaves what it holds in the heap.                *)
LEMMA EndFrameInv == ASSUME Inv, EndFrame PROVE Inv'
<1>1. UNCHANGED <<view, instance, handlers, todo, root>>
  BY DEF EndFrame
<1>2. PICK bs, cs, ps, hq : bs = bindings /\ cs = bindings' /\ ps = pins' /\ hq = heap'
  OBVIOUS
<1>3. cs = [g \in {k \in DOMAIN bs : bs[k].seen} |-> bs[g]]
  BY <1>2 DEF EndFrame
<1>4. DOMAIN cs \subseteq DOMAIN bs /\ \A g \in DOMAIN cs : cs[g] = bs[g]
  BY <1>3
<1>5. BindingPins(cs) \subseteq BindingPins(bs)
  BY <1>4, FewerPins
<1>6. BindingsAre'
  <2>1. \A k \in DOMAIN cs : cs[k] = [value |-> cs[k].value, reads |-> cs[k].reads,
                                      volatile |-> cs[k].volatile, seen |-> cs[k].seen]
    BY <1>2, <1>4 DEF Inv, BindingsAre
  <2> QED BY <1>2, <2>1 DEF BindingsAre
<1>7. ps = {instance} \cup BindingPins(cs) \cup Elements(handlers)
  BY <1>2 DEF EndFrame, FramePins, Elements
<1>8. \A h : h \in ps => h \in InUse
  BY <1>2, <1>5, <1>7, InUseIs DEF Inv
<1>9. \A h \in InUse' : h \in InUse
  <2> SUFFICES ASSUME NEW h, h \in InUse' PROVE h \in InUse
    OBVIOUS
  <2>1. \/ h \in pins' \/ h \in BindingPins(bindings')
        \/ h \in Elements(handlers') \/ h = root' \/ h \in Elements(todo')
    BY DEF InUse, Held, Elements
  <2>2. \/ h \in ps \/ h \in BindingPins(bindings) \/ h \in Elements(handlers)
        \/ h = root \/ h \in Elements(todo)
    BY <1>1, <1>2, <1>5, <2>1
  <2> QED BY <1>8, <2>2, InUseIs
<1>10. Held' \subseteq pins'
  <2>1. ASSUME NEW h, h \in Held' PROVE h \in ps
    <3>1. h \in pins' \/ h \in BindingPins(bindings') \/ h \in Elements(handlers')
      BY <2>1 DEF Held, Elements
    <3> QED BY <1>1, <1>2, <1>7, <3>1
  <2> QED BY <1>2, <2>1
<1>11. instance \in ps /\ todo' \in Seq(Handle) /\ handlers' \in Seq(Handle)
  BY <1>1, <1>7 DEF Inv
<1>12. CASE (\A h \in ps : Valid(heap, h)) /\ hq = Collect(heap, ps \cup {root})
  <2>1. PICK roots : roots = ps \cup {root}
    OBVIOUS
  <2>2. Alive(hq, instance) /\ Later(heap, hq) /\ KeptIn(heap, hq, roots)
    BY <1>11, <1>12, <2>1, AliveCollected DEF Inv
  <2>3. \A h \in pins' : Valid(hq, h)
    BY <1>2, <1>12, <2>1, <2>2 DEF KeptIn
  <2> QED BY <1>1, <1>2, <1>6, <1>9, <1>10, <1>11, <2>2, <2>3, StepInv
<1>13. CASE phase' = "error" /\ hq = heap
  <2>1. Alive(hq, instance) /\ Later(heap, hq)
    BY <1>13, SameHeap
  <2> QED BY <1>1, <1>2, <1>6, <1>9, <1>11, <1>13, <2>1, StepInv
<1> QED BY <1>2, <1>12, <1>13 DEF EndFrame

LEMMA EventInv ==
  ASSUME Inv, SetRow \/ PushRow \/ PopRow \/ NewRows \/ World PROVE Inv'
<1>1. PICK hw : Changes(hw) /\ Happens(hw)
  BY EventChanges DEF Inv
<1>2. /\ UNCHANGED <<view, instance, pins, bindings, handlers, todo, root>>
      /\ phase = "idle"
  BY <1>1 DEF Happens
<1>3. PICK hq, roots : hq = heap' /\ roots = pins \cup {root}
  OBVIOUS
<1>4. hq = Collect(hw, roots) /\ instance \in roots
  BY <1>1, <1>3 DEF Happens, Inv
<1>5. Alive(hw, instance) /\ Later(heap, hw)
      /\ \A h \in Handle : Valid(heap, h) => Valid(hw, h)
  BY <1>1 DEF Changes
<1>6. Alive(hq, instance) /\ Later(hw, hq) /\ KeptIn(hw, hq, roots)
  BY <1>4, <1>5, AliveCollected
<1>7. Later(heap, hq)
  BY <1>5, <1>6, LaterStill DEF Inv, Alive, WellFormed
<1>8. Held' = Held /\ InUse' = InUse /\ (BindingsAre' <=> BindingsAre)
  BY <1>2 DEF InUse, Held, Elements, BindingPins, BindingsAre
<1>9. \A h \in pins : Valid(hq, h)
  <2> SUFFICES ASSUME NEW h \in pins PROVE Valid(hq, h)
    OBVIOUS
  <2>1. Valid(heap, h) /\ h \in Handle
    BY <1>2, InUseIs DEF Inv, Sane
  <2> QED BY <1>3, <1>5, <1>6, <2>1 DEF KeptIn
<1>10. /\ instance \in pins' /\ BindingsAre' /\ Held' \subseteq pins'
       /\ todo' \in Seq(Handle) /\ handlers' \in Seq(Handle)
       /\ \A h \in pins' : Valid(hq, h)
       /\ \A h \in InUse' : h \in InUse
  BY <1>2, <1>8, <1>9 DEF Inv
<1> QED BY <1>2, <1>3, <1>6, <1>7, <1>10, StepInv

LEMMA NextInv == ASSUME Inv, [Next]_vars PROVE Inv'
<1>1. CASE UNCHANGED vars
  <2>1. /\ UNCHANGED <<view, heap, instance, pins, bindings, handlers, phase, todo, root>>
    BY <1>1 DEF vars
  <2>2. InUse' = InUse /\ Held' = Held /\ (BindingsAre' <=> BindingsAre)
    BY <2>1 DEF InUse, Held, Elements, BindingPins, BindingsAre
  <2>3. PICK hq : hq = heap'
    OBVIOUS
  <2>4. Alive(hq, instance) /\ Later(heap, hq)
    BY <2>1, <2>3, SameHeap
  <2>5. /\ instance \in pins' /\ BindingsAre'
        /\ todo' \in Seq(Handle) /\ handlers' \in Seq(Handle)
        /\ \A h \in InUse' : h \in InUse
        /\ phase' = "idle" => Held' \subseteq pins' /\ \A h \in pins' : Valid(hq, h)
    BY <2>1, <2>2, <2>3 DEF Inv
  <2> QED BY <2>1, <2>3, <2>4, <2>5, StepInv
<1>2. CASE BeginFrame
  BY <1>2, BeginFrameInv
<1>3. CASE Reuse
  BY <1>3, ReuseInv
<1>4. CASE Evaluate
  BY <1>4, EvaluateInv
<1>5. CASE Visit
  BY <1>5, VisitInv
<1>6. CASE FailFrame
  BY <1>6, FailFrameInv
<1>7. CASE EndFrame
  BY <1>7, EndFrameInv
<1>8. CASE SetRow \/ PushRow \/ PopRow \/ NewRows \/ World
  BY <1>8, EventInv
<1> QED BY <1>1, <1>2, <1>3, <1>4, <1>5, <1>6, <1>7, <1>8 DEF Next

(* The program stays whole in the heap, and every handle in use was made by *)
(* it: by Heap::alloc, which evaluations and events call, and is kept from  *)
(* Heap::collect between frames.                                            *)
THEOREM InvHolds == Spec => []Inv
<1>1. Init => Inv
  BY InitInv
<1>2. Inv /\ [Next]_vars => Inv'
  BY NextInv
<1> QED BY <1>1, <1>2, PTL DEF Spec

(* A handle held by the component or by the walk of a frame never reaches   *)
(* another value than the one it was made for: Heap::collect gives a slot   *)
(* it frees a new generation, and Component::render walks over snapshots.   *)
THEOREM NoAliasHolds == Spec => []NoAlias
BY InvHolds, InvImplies, PTL

(* Between frames nothing the component may still use has been collected:   *)
(* Component::render pins what it caches, reads and listens with before     *)
(* Heap::collect runs, in evaluations, events and at the end of a frame.    *)
THEOREM NothingDanglesHolds == Spec => []NothingDangles
BY InvHolds, InvImplies, PTL

-----------------------------------------------------------------------------
(* What is cached.  A binding keeps what its getter evaluated to: of the   *)
(* rows it has read the cell of, as long as no entity that was read on the *)
(* way has changed.                                                        *)

LeafIn(hp, h) == <<"number", Get(hp, h).n>>

PrintableIn(hp, items) ==
  \A i \in DOMAIN items : Get(hp, items[i]).kind \in {"number", "list"}

PrintedIn(hp, items) ==
  [i \in DOMAIN items |->
     IF Get(hp, items[i]).kind = "list"
     THEN <<"list", [j \in DOMAIN Get(hp, items[i]).items |->
                       LeafIn(hp, Get(hp, items[i]).items[j])]>>
     ELSE LeafIn(hp, items[i])]

(* The entities that printing passes.                                      *)
OnWay(hp, rows) ==
  {rows} \cup Kids(Get(hp, rows))
    \cup UNION {Kids(Get(hp, k)) : k \in Kids(Get(hp, rows))}

Revision(hp, h) == hp.slots[h.slot].revision

Unmoved(hp, reads) ==
  \A d \in reads : d.read = ReadEntity => Revision(hp, d.object) = d.observed

Saw(reads, h, read) == \E d \in reads : d.object = h /\ d.read = read

Shows(hp, code, b, rows) ==
  /\ code = "children" => b.value = rows
  /\ code = "first" => \E d \in b.reads : /\ d.object = rows /\ d.read = ReadItem(1)
                                          /\ d.observed = b.value
  /\ code = "length" => \E d \in b.reads : /\ d.object = rows /\ d.read = ReadLength
                                           /\ Get(hp, b.value) = Number(d.observed)
  /\ code = "copy" =>
       /\ Saw(b.reads, rows, ReadEntity)
       /\ Unmoved(hp, b.reads) => Get(hp, b.value) = Number(Len(Get(hp, rows).items))
  /\ code = "print" /\ Unmoved(hp, b.reads) =>
       /\ Get(hp, rows).kind = "list" /\ PrintableIn(hp, Get(hp, rows).items)
       /\ Get(hp, b.value) = Text(PrintedIn(hp, Get(hp, rows).items))
       /\ \A h \in OnWay(hp, rows) : Saw(b.reads, h, ReadEntity)

Caching == {"children", "first", "length", "copy", "print"}

Right(hp, code, b, state) ==
  /\ Volatile(code) => b.volatile
  /\ \A d \in b.reads :
       /\ d.object \in Handle
       /\ d.read = ReadEntity => d.observed \in Nat /\ d.observed <= Revision(hp, d.object)
  /\ code \in Caching =>
       \E d \in b.reads : /\ d.object = state /\ d.read = ReadCell
                          /\ d.observed \in Handle /\ Shows(hp, code, b, d.observed)

(* A getter that has been taken from the rows in a frame may be collected  *)
(* before the frame ends.                                                  *)
Cached ==
  \A g \in DOMAIN bindings : Valid(heap, g) =>
    /\ Get(heap, g).kind = "closure" /\ Get(heap, g).code \in Codes \ {"handler"}
    /\ Right(heap, Get(heap, g).code, bindings[g], State)

(* What bindings keep, beside their getters, is pinned, and what is pinned *)
(* stays.                                                                  *)
Kept(b) == {b.value} \cup Sources(b.reads)

Pinned ==
  /\ \A g \in DOMAIN bindings : \A h \in Kept(bindings[g]) : h \in pins /\ Valid(heap, h)
  /\ phase # "error" => \A h \in pins : Valid(heap, h)

(* Printing sees nothing but what is on its way.                           *)
LEMMA PrintedSame ==
  ASSUME NEW hp, NEW hq, NEW rows, \A h \in OnWay(hp, rows) : Get(hq, h) = Get(hp, h),
         Get(hp, rows).kind = "list"
  PROVE  /\ OnWay(hq, rows) = OnWay(hp, rows)
         /\ PrintedIn(hq, Get(hq, rows).items) = PrintedIn(hp, Get(hp, rows).items)
         /\ PrintableIn(hq, Get(hq, rows).items) <=> PrintableIn(hp, Get(hp, rows).items)
<1>1. Get(hq, rows) = Get(hp, rows)
  BY DEF OnWay
<1>2. PICK items : items = Get(hp, rows).items
  OBVIOUS
<1>3. Kids(Get(hp, rows)) = {items[i] : i \in DOMAIN items}
  BY <1>2 DEF Kids
<1>4. \A i \in DOMAIN items : items[i] \in OnWay(hp, rows) /\ Get(hq, items[i]) = Get(hp, items[i])
  BY <1>3 DEF OnWay
<1>5. \A i \in DOMAIN items : \A k \in Kids(Get(hp, items[i])) :
        k \in OnWay(hp, rows) /\ Get(hq, k) = Get(hp, k)
  BY <1>3 DEF OnWay
<1>6. OnWay(hq, rows) = OnWay(hp, rows)
  <2>1. \A k \in Kids(Get(hp, rows)) : Kids(Get(hq, k)) = Kids(Get(hp, k))
    BY <1>3, <1>4
  <2> QED BY <1>1, <2>1 DEF OnWay
<1>7. \A i \in DOMAIN items : LeafIn(hq, items[i]) = LeafIn(hp, items[i])
  BY <1>4 DEF LeafIn
<1>8. ASSUME NEW i \in DOMAIN items, Get(hp, items[i]).kind = "list"
      PROVE  [j \in DOMAIN Get(hq, items[i]).items |-> LeafIn(hq, Get(hq, items[i]).items[j])]
             = [j \in DOMAIN Get(hp, items[i]).items |-> LeafIn(hp, Get(hp, items[i]).items[j])]
  <2>1. PICK s : s = Get(hp, items[i]).items
    OBVIOUS
  <2>2. Get(hq, items[i]).items = s
    BY <1>4, <2>1
  <2>3. \A j \in DOMAIN s : s[j] \in Kids(Get(hp, items[i]))
    BY <1>8, <2>1 DEF Kids
  <2>4. \A j \in DOMAIN s : LeafIn(hq, s[j]) = LeafIn(hp, s[j])
    BY <1>5, <2>3 DEF LeafIn
  <2> QED BY <2>1, <2>2, <2>4
<1>9. PrintedIn(hq, items) = PrintedIn(hp, items)
  BY <1>4, <1>7, <1>8 DEF PrintedIn
<1>10. PrintableIn(hq, items) <=> PrintableIn(hp, items)
  BY <1>4 DEF PrintableIn
<1> QED BY <1>1, <1>2, <1>6, <1>9, <1>10

LEMMA RightStays ==
  ASSUME NEW hp, NEW hq, IsHeap(hp), IsHeap(hq), Later(hp, hq), NEW code, NEW b, NEW state,
         Right(hp, code, b, state),
         \A h \in Kept(b) : Sane(hp, h) /\ Valid(hq, h)
  PROVE  Right(hq, code, b, state)
<1>1. \A h \in Kept(b) : /\ h \in Handle /\ Valid(hp, h)
                         /\ Get(hq, h).kind = Get(hp, h).kind
                         /\ Get(hp, h).kind \notin {"cell", "list"} => Get(hq, h) = Get(hp, h)
                         /\ Revision(hp, h) <= Revision(hq, h)
                         /\ Revision(hp, h) = Revision(hq, h) => Get(hq, h) = Get(hp, h)
  BY DEF Later, Sane, Revision
<1>2. NoHandle \notin Handle
  BY DEF NoHandle, Handle
<1>3. \A d \in b.reads : d.object \in Handle /\ d.object \in Kept(b)
  BY <1>2 DEF Right, Kept, Sources
<1>4. \A h \in Kept(b) : Revision(hp, h) \in Nat /\ Revision(hq, h) \in Nat
  <2>1. \A h \in Kept(b) : h.slot \in DOMAIN hp.slots /\ h.slot \in DOMAIN hq.slots
    BY <1>1 DEF Valid
  <2> QED BY <2>1, HeapTypes DEF Revision, IsHeap, IsSlot
<1>5. ASSUME NEW d \in b.reads, d.read = ReadEntity
      PROVE  /\ d.observed \in Nat /\ d.observed <= Revision(hq, d.object)
             /\ Revision(hq, d.object) = d.observed => Revision(hp, d.object) = d.observed
  <2>1. d.observed \in Nat /\ d.observed <= Revision(hp, d.object)
    BY <1>5 DEF Right
  <2>2. /\ Revision(hp, d.object) \in Nat /\ Revision(hq, d.object) \in Nat
        /\ Revision(hp, d.object) <= Revision(hq, d.object)
    BY <1>1, <1>3, <1>4
  <2> QED BY <2>1, <2>2
<1>6. ASSUME Unmoved(hq, b.reads)
      PROVE  /\ Unmoved(hp, b.reads)
             /\ \A h : Saw(b.reads, h, ReadEntity) => Get(hq, h) = Get(hp, h)
  <2>1. Unmoved(hp, b.reads)
    BY <1>5, <1>6 DEF Unmoved
  <2>2. ASSUME NEW d \in b.reads, d.read = ReadEntity
        PROVE  Get(hq, d.object) = Get(hp, d.object)
    BY <1>1, <1>3, <1>6, <2>1, <2>2 DEF Unmoved
  <2> QED BY <2>1, <2>2 DEF Saw
<1>7. /\ Volatile(code) => b.volatile
      /\ \A d \in b.reads :
           /\ d.object \in Handle
           /\ d.read = ReadEntity => d.observed \in Nat /\ d.observed <= Revision(hq, d.object)
  BY <1>3, <1>5 DEF Right
<1>8. b.value \in Kept(b)
  BY DEF Kept
<1>9. ASSUME NEW d \in b.reads, d.object = state, d.read = ReadCell, d.observed \in Handle,
             Shows(hp, code, b, d.observed)
      PROVE  Shows(hq, code, b, d.observed)
  <2>1. PICK rows : rows = d.observed
    OBVIOUS
  <2>2. CASE code = "length"
    <3>1. PICK c \in b.reads : /\ c.object = rows /\ c.read = ReadLength
                               /\ Get(hp, b.value) = Number(c.observed)
      BY <1>9, <2>1, <2>2 DEF Shows
    <3>2. Get(hq, b.value) = Number(c.observed)
      BY <1>1, <1>8, <3>1, KindOf
    <3> QED BY <2>1, <2>2, <3>1, <3>2 DEF Shows
  <2>3. CASE code = "copy"
    <3>1. /\ Saw(b.reads, rows, ReadEntity)
          /\ Unmoved(hp, b.reads) => Get(hp, b.value) = Number(Len(Get(hp, rows).items))
      BY <1>9, <2>1, <2>3 DEF Shows
    <3>2. ASSUME Unmoved(hq, b.reads)
          PROVE  Get(hq, b.value) = Number(Len(Get(hq, rows).items))
      <4>1. /\ Get(hp, b.value) = Number(Len(Get(hp, rows).items))
            /\ Get(hq, rows) = Get(hp, rows)
        BY <1>6, <3>1, <3>2
      <4> QED BY <1>1, <1>8, <4>1, KindOf
    <3> QED BY <2>1, <2>3, <3>1, <3>2 DEF Shows
  <2>4. CASE code = "print"
    <3>1. ASSUME Unmoved(hq, b.reads)
          PROVE  /\ Get(hq, rows).kind = "list" /\ PrintableIn(hq, Get(hq, rows).items)
                 /\ Get(hq, b.value) = Text(PrintedIn(hq, Get(hq, rows).items))
                 /\ \A h \in OnWay(hq, rows) : Saw(b.reads, h, ReadEntity)
      <4>1. /\ Get(hp, rows).kind = "list" /\ PrintableIn(hp, Get(hp, rows).items)
            /\ Get(hp, b.value) = Text(PrintedIn(hp, Get(hp, rows).items))
            /\ \A h \in OnWay(hp, rows) : Saw(b.reads, h, ReadEntity)
        BY <1>6, <1>9, <2>1, <2>4, <3>1 DEF Shows
      <4>2. \A h \in OnWay(hp, rows) : Get(hq, h) = Get(hp, h)
        BY <1>6, <3>1, <4>1
      <4>3. /\ OnWay(hq, rows) = OnWay(hp, rows)
            /\ PrintedIn(hq, Get(hq, rows).items) = PrintedIn(hp, Get(hp, rows).items)
            /\ PrintableIn(hq, Get(hq, rows).items)
        BY <4>1, <4>2, PrintedSame
      <4>4. Get(hq, rows) = Get(hp, rows)
        BY <4>2 DEF OnWay
      <4> QED BY <1>1, <1>8, <4>1, <4>3, <4>4, KindOf
    <3> QED BY <2>1, <2>4, <3>1 DEF Shows
  <2>5. CASE code \notin {"length", "copy", "print"}
    BY <1>9, <2>1, <2>5 DEF Shows
  <2> QED BY <2>2, <2>3, <2>4, <2>5
<1>10. code \in Caching =>
         \E d \in b.reads : /\ d.object = state /\ d.read = ReadCell
                            /\ d.observed \in Handle /\ Shows(hq, code, b, d.observed)
  BY <1>9 DEF Right
<1> QED BY <1>7, <1>10 DEF Right

LEMMA CapturedIs ==
  ASSUME NEW code
  PROVE  /\ \A d \in Captured(code) : \E r \in Reads(code) :
              d.object = r[1] /\ d.read = r[2] /\ d.observed = Observed(heap, r[1], r[2])
         /\ \A h, read : <<h, read>> \in Reads(code) =>
              \E d \in Captured(code) : /\ d.object = h /\ d.read = read
                                        /\ d.observed = Observed(heap, h, read)
<1>1. ASSUME NEW d \in Captured(code)
      PROVE  \E r \in Reads(code) :
               d.object = r[1] /\ d.read = r[2] /\ d.observed = Observed(heap, r[1], r[2])
  BY DEF Captured
<1>2. ASSUME NEW h, NEW read, <<h, read>> \in Reads(code)
      PROVE  \E d \in Captured(code) : /\ d.object = h /\ d.read = read
                                       /\ d.observed = Observed(heap, h, read)
  <2>1. PICK r : r = <<h, read>>
    OBVIOUS
  <2>2. PICK d : d = [object |-> r[1], read |-> r[2], observed |-> Observed(heap, r[1], r[2])]
    OBVIOUS
  <2>3. d \in Captured(code)
    BY <1>2, <2>1, <2>2 DEF Captured
  <2>4. d.object = h /\ d.read = read /\ d.observed = Observed(heap, h, read)
    BY <2>1, <2>2
  <2> QED BY <2>3, <2>4
<1> QED BY <1>1, <1>2

LEMMA PrintedHere == Printed = PrintedIn(heap, Items)
BY DEF Printed, PrintedIn, Leaf, LeafIn, Nested

LEMMA PrintableHere == Printable <=> PrintableIn(heap, Items)
BY DEF Printable, PrintableIn

(* What is cached is right when it has been evaluated.                     *)
LEMMA RightMade ==
  ASSUME Alive(heap, instance), view \in Seq(Getter), NEW code \in Codes \ {"handler"},
         ~Fails(code), NEW made, made = Outcome(code), NEW hw, hw = AfterWrites(code, made),
         NEW b, b.value = made.value, b.reads = Captured(code), b.volatile = Volatile(code)
  PROVE  Right(hw, code, b, State)
<1>1. WellFormed(heap)
  BY DEF Alive
<1>2. PICK getter, state, counter, count, rows, items :
        ProgramAt(heap, instance, getter, state, counter, count, rows, items)
  BY DEF Alive
<1>3. State = state /\ Rows = rows /\ Items = items
  BY <1>2, Names
<1>4. code \in {"view", "length", "pop", "print", "copy", "host", "count", "first", "children"}
  BY CodesAre
<1>5. /\ Later(heap, hw) /\ \A h \in Handle : Valid(heap, h) => Valid(hw, h)
      /\ code \notin {"count", "pop"} => hw = made.heap
  BY AfterWritesAlive
<1>6. PICK v : v = made.value
  OBVIOUS
<1>7. MadeBy(code, made.heap, v)
  BY <1>1, <1>2, <1>6, OutcomeMade
<1>8. /\ rows \in Handle /\ Valid(heap, rows) /\ Get(heap, rows) = List(items)
      /\ Get(heap, state) = Cell(rows) /\ items \in Seq(Handle) /\ items # <<>>
  BY <1>2 DEF ProgramAt
<1>9. ASSUME NEW d \in b.reads
      PROVE  /\ d.object \in Handle
             /\ d.read = ReadEntity =>
                  d.observed \in Nat /\ d.observed <= Revision(hw, d.object)
  <2>1. PICK r \in Reads(code) :
          d.object = r[1] /\ d.read = r[2] /\ d.observed = Observed(heap, r[1], r[2])
    BY CapturedIs
  <2>2. Sane(heap, d.object) /\ Valid(heap, d.object) /\ d.object \in Handle
    <3>1. Sane(heap, r[1]) /\ Valid(heap, r[1])
      BY <1>1, <1>2, <1>4, ReadsThere
    <3> QED BY <2>1, <3>1 DEF Sane
  <2>3. ASSUME d.read = ReadEntity
        PROVE  d.observed \in Nat /\ d.observed <= Revision(hw, d.object)
    <3>1. d.observed = Revision(heap, d.object)
      BY <1>8, <2>1, <2>3, ObservedIs DEF Revision
    <3>2. Revision(heap, d.object) <= Revision(hw, d.object)
      BY <1>5, <2>2 DEF Later, Revision
    <3>3. Revision(heap, d.object) \in Nat
      BY <1>1, <2>2, HeapTypes DEF WellFormed, IsHeap, IsSlot, Valid, Revision
    <3> QED BY <3>1, <3>2, <3>3
  <2> QED BY <2>2, <2>3
<1>10. ASSUME code \in Caching
       PROVE  \E d \in b.reads : /\ d.object = state /\ d.read = ReadCell
                                 /\ d.observed \in Handle /\ Shows(hw, code, b, d.observed)
  <2>1. /\ hw = made.heap /\ Keeps(heap, hw)
        /\ code \in Sized => Get(hw, v) = Number(Len(items))
        /\ code = "print" => Get(hw, v) = Text(Printed)
        /\ code = "first" => v = items[1]
        /\ code = "children" => v = rows
    BY <1>3, <1>5, <1>7, <1>10 DEF MadeBy, Caching
  <2>2. Get(hw, rows) = List(items)
    BY <1>8, <2>1 DEF Keeps
  <2>3. <<state, ReadCell>> \in Reads(code)
    BY <1>3, <1>4, <1>10 DEF Reads, Caching
  <2>4. PICK c \in b.reads : c.object = state /\ c.read = ReadCell
                             /\ c.observed = Observed(heap, state, ReadCell)
    BY <2>3, CapturedIs
  <2>5. c.observed = rows
    BY <1>8, <2>4, ObservedIs
  <2>6. CASE code = "children"
    <3>1. Shows(hw, code, b, rows)
      BY <1>6, <2>1, <2>6 DEF Shows
    <3> QED BY <1>8, <2>4, <2>5, <3>1
  <2>7. CASE code = "first"
    <3>1. <<rows, ReadItem(1)>> \in Reads(code)
      BY <1>3, <2>7 DEF Reads
    <3>2. PICK d \in b.reads : d.object = rows /\ d.read = ReadItem(1)
                               /\ d.observed = Observed(heap, rows, ReadItem(1))
      BY <3>1, CapturedIs
    <3>3. Item(items, 1) = items[1]
      <4>1. Len(items) \in Nat /\ 1 <= Len(items)
        BY <1>8, EmptySeq
      <4> QED BY <4>1 DEF Item
    <3>4. d.observed = v
      BY <1>8, <2>1, <2>7, <3>2, <3>3, ObservedIs
    <3>5. Shows(hw, code, b, rows)
      BY <1>6, <2>7, <3>2, <3>4 DEF Shows
    <3> QED BY <1>8, <2>4, <2>5, <3>5
  <2>8. CASE code = "length"
    <3>1. <<rows, ReadLength>> \in Reads(code)
      BY <1>3, <2>8 DEF Reads
    <3>2. PICK d \in b.reads : d.object = rows /\ d.read = ReadLength
                               /\ d.observed = Observed(heap, rows, ReadLength)
      BY <3>1, CapturedIs
    <3>3. d.observed = Len(items)
      BY <1>8, <3>2, ObservedIs
    <3>4. Get(hw, v) = Number(d.observed)
      BY <2>1, <2>8, <3>3 DEF Sized
    <3>5. Shows(hw, code, b, rows)
      BY <1>6, <2>8, <3>2, <3>4 DEF Shows
    <3> QED BY <1>8, <2>4, <2>5, <3>5
  <2>9. CASE code = "copy"
    <3>1. <<rows, ReadEntity>> \in Reads(code)
      BY <1>3, <2>9 DEF Reads
    <3>2. Saw(b.reads, rows, ReadEntity)
      BY <3>1, CapturedIs DEF Saw
    <3>3. Get(hw, v) = Number(Len(Get(hw, rows).items))
      BY <2>1, <2>2, <2>9, KindOf DEF Sized
    <3>4. Shows(hw, code, b, rows)
      BY <1>6, <2>9, <3>2, <3>3 DEF Shows
    <3> QED BY <1>8, <2>4, <2>5, <3>4
  <2>10. CASE code = "print"
    <3>1. ASSUME NEW h \in OnWay(heap, rows)
          PROVE  <<h, ReadEntity>> \in Reads(code) /\ Get(hw, h) = Get(heap, h)
                 /\ Saw(b.reads, h, ReadEntity)
      <4>1. <<h, ReadEntity>> \in Inspected
        <5>1. Kids(Get(heap, rows)) = {items[i] : i \in DOMAIN items}
          BY <1>8, KidsOf
        <5>2. h \in {rows} \cup Kids(Get(heap, rows))
                     \cup UNION {Kids(Get(heap, items[i])) : i \in DOMAIN items}
          BY <5>1 DEF OnWay
        <5> QED BY <1>3, <5>2 DEF Inspected
      <4>2. <<h, ReadEntity>> \in Reads(code)
        BY <2>10, <4>1 DEF Reads
      <4>3. PICK r : r = <<h, ReadEntity>>
        OBVIOUS
      <4>4. Sane(heap, r[1]) /\ Valid(heap, r[1])
        BY <1>1, <1>2, <1>4, <4>2, <4>3, ReadsThere
      <4>5. h \in Handle /\ Valid(heap, h)
        BY <4>3, <4>4 DEF Sane
      <4>6. Saw(b.reads, h, ReadEntity)
        BY <4>2, CapturedIs DEF Saw
      <4> QED BY <2>1, <4>2, <4>5, <4>6 DEF Keeps
    <3>2. Get(heap, rows).kind = "list" /\ Get(heap, rows).items = items
          /\ Get(hw, rows).kind = "list" /\ Get(hw, rows).items = items
      BY <1>8, <2>2, KindOf
    <3>3. /\ OnWay(hw, rows) = OnWay(heap, rows)
          /\ PrintedIn(hw, items) = PrintedIn(heap, items)
          /\ PrintableIn(hw, items) <=> PrintableIn(heap, items)
      <4>1. /\ OnWay(hw, rows) = OnWay(heap, rows)
            /\ PrintedIn(hw, Get(hw, rows).items) = PrintedIn(heap, Get(heap, rows).items)
            /\ PrintableIn(hw, Get(hw, rows).items)
                 <=> PrintableIn(heap, Get(heap, rows).items)
        <5>1. \A h \in OnWay(heap, rows) : Get(hw, h) = Get(heap, h)
          BY <3>1
        <5> QED BY ONLY <3>2, <5>1, PrintedSame
      <4> QED BY <3>2, <4>1
    <3>4. Printed = PrintedIn(heap, items)
      BY <1>3, PrintedHere
    <3>5. Get(hw, v) = Text(PrintedIn(hw, Get(hw, rows).items))
      BY <2>1, <2>10, <3>2, <3>3, <3>4
    <3>6. PrintableIn(hw, Get(hw, rows).items)
      BY <1>3, <2>10, <3>2, <3>3, PrintableHere DEF Fails
    <3>7. Shows(hw, code, b, rows)
      BY <1>6, <2>10, <3>1, <3>2, <3>3, <3>5, <3>6 DEF Shows
    <3> QED BY <1>8, <2>4, <2>5, <3>7
  <2> QED BY <1>10, <2>6, <2>7, <2>8, <2>9, <2>10 DEF Caching
<1> QED BY <1>3, <1>9, <1>10 DEF Right

LEMMA EvaluationRight ==
  ASSUME Alive(heap, instance), view \in Seq(Getter), NEW code \in Codes \ {"handler"},
         ~Fails(code), instance \in pins, NEW e, e = Evaluation(code),
         NEW b, b.value = e.value, b.reads = e.reads, b.volatile = e.volatile
  PROVE  Right(e.heap, code, b, State)
<1>1. PICK made, hw, roots :
        /\ made = Outcome(code) /\ hw = AfterWrites(code, made)
        /\ roots = pins \cup {made.value} \cup Sources(Captured(code))
  OBVIOUS
<1>2. e = [value |-> made.value, reads |-> Captured(code), volatile |-> Volatile(code),
           heap |-> Collect(hw, roots)]
  BY <1>1 DEF Evaluation
<1>3. PICK hq : hq = Collect(hw, roots)
  OBVIOUS
<1>4. /\ e.value = made.value /\ e.reads = Captured(code)
      /\ e.volatile = Volatile(code) /\ e.heap = hq
  BY <1>2, <1>3
<1>5. Alive(hw, instance) /\ Later(heap, hw) /\ Sane(hw, made.value)
  BY <1>1, AfterWritesAlive
<1>6. Alive(hq, instance) /\ Later(hw, hq)
  BY <1>1, <1>3, <1>5, AliveCollected
<1>7. Right(hw, code, b, State)
  BY <1>1, <1>4, RightMade
<1>8. ASSUME NEW h \in Kept(b) PROVE Sane(hw, h) /\ Valid(hq, h)
  <2>1. Valid(hq, h)
    BY <1>4, <1>8, EvaluationIs DEF Kept
  <2>2. Sane(hw, h)
    <3>1. CASE h = made.value
      BY <1>5, <3>1
    <3>2. CASE h \in Sources(Captured(code))
      <4>1. PICK getter, state, counter, count, rows, items :
              ProgramAt(heap, instance, getter, state, counter, count, rows, items)
        BY DEF Alive
      <4>2. Sane(heap, h) /\ h \in Handle
        BY <3>2, <4>1, CodesAre, SourcesThere DEF Alive, Sane
      <4> QED BY <1>5, <4>2 DEF Later
    <3> QED BY <1>4, <1>8, <3>1, <3>2 DEF Kept
  <2> QED BY <2>1, <2>2
<1>9. IsHeap(hw) /\ IsHeap(hq)
  BY <1>5, <1>6 DEF Alive, WellFormed
<1>10. Right(hq, code, b, State)
  BY <1>6, <1>7, <1>8, <1>9, RightStays
<1> QED BY <1>4, <1>10

(* A binding that is only marked keeps what it has cached.                 *)
AsBefore(c, b) == c.value = b.value /\ c.reads = b.reads /\ c.volatile = b.volatile

LEMMA RightMarked ==
  ASSUME NEW hp, NEW code, NEW b, NEW c, NEW state, AsBefore(c, b),
         Right(hp, code, b, state)
  PROVE  Right(hp, code, c, state)
<1>1. \A rows : Shows(hp, code, b, rows) => Shows(hp, code, c, rows)
  BY DEF Shows, AsBefore
<1> QED BY <1>1 DEF Right, AsBefore

LEMMA KeptInUse ==
  ASSUME NEW g \in DOMAIN bindings
  PROVE  g \in InUse /\ \A h \in Kept(bindings[g]) : h \in InUse /\ h \in BindingPins(bindings)
<1>1. g \in BindingPins(bindings) /\ \A h \in Kept(bindings[g]) : h \in BindingPins(bindings)
  BY DEF BindingPins, Kept
<1> QED BY <1>1, InUseIs

(* What every step has to show for what is cached.                         *)
LEMMA CachedStep ==
  ASSUME Inv, Pinned, Cached, view' = view, instance' = instance,
         NEW hq, hq = heap', IsHeap(hq), Later(heap, hq),
         Get(hq, instance) = Get(heap, instance),
         NEW cs, cs = bindings', NEW ps, ps = pins',
         \A g \in DOMAIN cs :
           \/ g \in DOMAIN bindings /\ AsBefore(cs[g], bindings[g])
           \/ Valid(hq, g) =>
                /\ Get(hq, g).kind = "closure" /\ Get(hq, g).code \in Codes \ {"handler"}
                /\ Right(hq, Get(hq, g).code, cs[g], State),
         \A g \in DOMAIN cs : \A h \in Kept(cs[g]) : h \in ps /\ Valid(hq, h),
         phase' # "error" => \A h \in ps : Valid(hq, h)
  PROVE  Pinned' /\ Cached'
<1>1. Codes' = Codes /\ State' = State
  <2>1. Codes' = Codes
    BY DEF Codes
  <2>2. State' = Get(hq, instance).items[2]
    BY DEF State, Get
  <2> QED BY <2>1, <2>2 DEF State
<1>2. Pinned'
  BY DEF Pinned, Valid, Kept
<1>3. ASSUME NEW g \in DOMAIN cs, Valid(hq, g)
      PROVE  /\ Get(hq, g).kind = "closure" /\ Get(hq, g).code \in Codes \ {"handler"}
             /\ Right(hq, Get(hq, g).code, cs[g], State)
  <2>1. CASE g \in DOMAIN bindings /\ AsBefore(cs[g], bindings[g])
    <3>1. PICK b : b = bindings[g]
      OBVIOUS
    <3>2. Sane(heap, g) /\ g \in Handle /\ \A h \in Kept(b) : Sane(heap, h)
      BY <2>1, <3>1, KeptInUse DEF Inv, Sane
    <3>3. Valid(heap, g) /\ Get(hq, g).kind = Get(heap, g).kind
          /\ (Get(heap, g).kind \notin {"cell", "list"} => Get(hq, g) = Get(heap, g))
      BY <1>3, <3>2 DEF Later
    <3>4. /\ Get(heap, g).kind = "closure" /\ Get(heap, g).code \in Codes \ {"handler"}
          /\ Right(heap, Get(heap, g).code, b, State)
      BY <2>1, <3>1, <3>3 DEF Cached
    <3>5. Get(hq, g) = Get(heap, g)
      BY <3>3, <3>4
    <3>6. Kept(b) = Kept(cs[g])
      BY <2>1, <3>1 DEF Kept, AsBefore
    <3>7. \A h \in Kept(b) : Sane(heap, h) /\ Valid(hq, h)
      BY <3>2, <3>6
    <3>8. IsHeap(heap)
      BY DEF Inv, Alive, WellFormed
    <3>9. Right(hq, Get(heap, g).code, b, State)
      BY <3>4, <3>7, <3>8, RightStays
    <3>10. Right(hq, Get(heap, g).code, cs[g], State)
      BY <2>1, <3>1, <3>9, RightMarked
    <3> QED BY <3>4, <3>5, <3>10
  <2> QED BY <1>3, <2>1
<1>4. \A code, b, state : Right(hq, code, b, state) => Right(heap, code, b, state)'
  <2>1. \A v : Kids(v)' = Kids(v)
    BY DEF Kids
  <2>2. \A h : OnWay(heap, h)' = OnWay(hq, h)
    BY <2>1 DEF OnWay, Get
  <2>3. \A items : PrintedIn(heap, items)' = PrintedIn(hq, items)
    BY DEF PrintedIn, LeafIn, Get
  <2>4. \A reads : Unmoved(heap, reads)' <=> Unmoved(hq, reads)
    BY DEF Unmoved, Revision
  <2>5. \A reads, h, read : Saw(reads, h, read)' <=> Saw(reads, h, read)
    BY DEF Saw
  <2>6. \A code, b, rows : Shows(hq, code, b, rows) => Shows(heap, code, b, rows)'
    BY <2>2, <2>3, <2>4, <2>5 DEF Shows, Get
  <2> QED BY <2>6 DEF Right, Revision
<1>5. Cached'
  BY <1>1, <1>3, <1>4 DEF Cached, Get, Valid
<1> QED BY <1>2, <1>5

CInv == Inv /\ Pinned /\ Cached

LEMMA BindingsMarked ==
  ASSUME NEW bs, NEW cs, NEW g \in DOMAIN bs,
         bs[g] = [value |-> bs[g].value, reads |-> bs[g].reads,
                  volatile |-> bs[g].volatile, seen |-> bs[g].seen],
         NEW mark, cs[g] = [bs[g] EXCEPT !.seen = mark]
  PROVE  AsBefore(cs[g], bs[g])
<1>1. PICK b, c : b = bs[g] /\ c = cs[g]
  OBVIOUS
<1>2. b = [value |-> b.value, reads |-> b.reads, volatile |-> b.volatile, seen |-> b.seen]
      /\ c = [b EXCEPT !.seen = mark]
  BY <1>1
<1>3. c = [value |-> b.value, reads |-> b.reads, volatile |-> b.volatile, seen |-> mark]
  BY <1>2
<1>4. c.value = b.value /\ c.reads = b.reads /\ c.volatile = b.volatile
  BY <1>3
<1> QED BY <1>1, <1>4 DEF AsBefore

(* Steps that leave the heap alone.                                        *)
LEMMA QuietCached ==
  ASSUME Inv, Pinned, Cached, UNCHANGED <<view, instance, heap>>,
         \A g \in DOMAIN bindings' :
           g \in DOMAIN bindings /\ AsBefore(bindings'[g], bindings[g]),
         \A g \in DOMAIN bindings : \A h \in Kept(bindings[g]) : h \in pins',
         phase' # "error" => \A h \in pins' : Valid(heap, h)
  PROVE  Pinned' /\ Cached'
<1>1. PICK hq, cs, ps : hq = heap' /\ cs = bindings' /\ ps = pins'
  OBVIOUS
<1>2. hq = heap /\ IsHeap(hq) /\ Later(heap, hq) /\ Get(hq, instance) = Get(heap, instance)
  BY <1>1, SameHeap DEF Inv, Alive, WellFormed
<1>3. \A g \in DOMAIN cs : g \in DOMAIN bindings /\ AsBefore(cs[g], bindings[g])
  BY <1>1
<1>4. \A g \in DOMAIN cs : \A h \in Kept(cs[g]) : h \in ps /\ Valid(hq, h)
  <2> SUFFICES ASSUME NEW g \in DOMAIN cs, NEW h \in Kept(cs[g])
               PROVE  h \in ps /\ Valid(hq, h)
    OBVIOUS
  <2>1. g \in DOMAIN bindings /\ h \in Kept(bindings[g])
    BY <1>3 DEF AsBefore, Kept
  <2> QED BY <1>1, <1>2, <2>1 DEF Pinned
<1>5. phase' # "error" => \A h \in ps : Valid(hq, h)
  BY <1>1, <1>2
<1> QED BY <1>1, <1>2, <1>3, <1>4, <1>5, CachedStep

LEMMA BeginFrameCached == ASSUME CInv, BeginFrame PROVE Pinned' /\ Cached'
<1>1. Inv /\ Pinned /\ Cached
  BY DEF CInv
<1>2. UNCHANGED <<view, instance, heap>> /\ phase = "idle"
      /\ pins' = {instance} \cup BindingPins(bindings)
  BY DEF BeginFrame
<1>3. PICK bs, cs : bs = bindings /\ cs = bindings'
  OBVIOUS
<1>4. cs = [g \in DOMAIN bs |-> [bs[g] EXCEPT !.seen = FALSE]]
  BY <1>3 DEF BeginFrame
<1>5. \A g \in DOMAIN cs : g \in DOMAIN bs /\ AsBefore(cs[g], bs[g])
  <2>1. DOMAIN cs = DOMAIN bs /\ \A g \in DOMAIN bs : cs[g] = [bs[g] EXCEPT !.seen = FALSE]
    BY <1>4
  <2>2. \A g \in DOMAIN bs : bs[g] = [value |-> bs[g].value, reads |-> bs[g].reads,
                                      volatile |-> bs[g].volatile, seen |-> bs[g].seen]
    BY <1>1, <1>3 DEF Inv, BindingsAre
  <2> SUFFICES ASSUME NEW g \in DOMAIN bs PROVE AsBefore(cs[g], bs[g])
    BY <2>1
  <2> QED BY <2>1, <2>2, BindingsMarked
<1>6. \A g \in DOMAIN bindings : \A h \in Kept(bindings[g]) : h \in pins'
  BY <1>2, KeptInUse
<1>7. \A h \in pins' : Valid(heap, h)
  <2>1. \A h \in Held : Valid(heap, h)
    BY <1>1, <1>2 DEF Inv
  <2>2. \A h \in pins : Valid(heap, h)
    BY <1>1, <1>2 DEF Inv
  <2>3. instance \in pins
    BY <1>1 DEF Inv
  <2> QED BY <1>2, <2>1, <2>2, <2>3, InUseIs
<1> QED BY <1>1, <1>2, <1>3, <1>5, <1>6, <1>7, QuietCached

LEMMA ReuseCached == ASSUME CInv, Reuse PROVE Pinned' /\ Cached'
<1>1. Inv /\ Pinned /\ Cached
  BY DEF CInv
<1>2. UNCHANGED <<view, instance, heap, pins>> /\ phase = "walk"
  BY DEF Reuse, Visiting
<1>3. PICK bs, cs, g : bs = bindings /\ cs = bindings' /\ g = Head(todo)
  OBVIOUS
<1>4. g \in DOMAIN bs /\ cs = [bs EXCEPT ![g].seen = TRUE]
  BY <1>3 DEF Reuse, Clean
<1>5. PICK b, c : b = bs[g] /\ c = [b EXCEPT !.seen = TRUE]
  OBVIOUS
<1>6. cs = [bs EXCEPT ![g] = c]
  BY <1>4, <1>5
<1>7. DOMAIN cs = DOMAIN bs /\ \A k \in DOMAIN bs : IF k = g THEN cs[k] = c ELSE cs[k] = bs[k]
  BY <1>6
<1>8. cs[g] = [bs[g] EXCEPT !.seen = TRUE]
  BY <1>4, <1>5, <1>7
<1>9. bs[g] = [value |-> bs[g].value, reads |-> bs[g].reads,
               volatile |-> bs[g].volatile, seen |-> bs[g].seen]
  BY <1>1, <1>3, <1>4 DEF Inv, BindingsAre
<1>10. AsBefore(cs[g], bs[g])
  BY <1>4, <1>8, <1>9, BindingsMarked
<1>11. \A k \in DOMAIN cs : k \in DOMAIN bs /\ AsBefore(cs[k], bs[k])
  BY <1>7, <1>10 DEF AsBefore
<1>12. /\ \A k \in DOMAIN bindings : \A h \in Kept(bindings[k]) : h \in pins'
       /\ \A h \in pins' : Valid(heap, h)
  BY <1>1, <1>2 DEF Pinned
<1> QED BY <1>1, <1>2, <1>3, <1>11, <1>12, QuietCached

LEMMA VisitCached ==
  ASSUME CInv, Visit \/ FailFrame \/ UNCHANGED vars PROVE Pinned' /\ Cached'
<1>1. Inv /\ Pinned /\ Cached
  BY DEF CInv
<1>2. /\ UNCHANGED <<view, instance, heap, pins, bindings>>
      /\ phase' # "error" => phase # "error"
  BY DEF Visit, FailFrame, vars, Visiting
<1>3. /\ \A g \in DOMAIN bindings' :
           g \in DOMAIN bindings /\ AsBefore(bindings'[g], bindings[g])
      /\ \A g \in DOMAIN bindings : \A h \in Kept(bindings[g]) : h \in pins'
      /\ phase' # "error" => \A h \in pins' : Valid(heap, h)
  BY <1>1, <1>2 DEF Pinned, AsBefore
<1> QED BY <1>1, <1>2, <1>3, QuietCached

LEMMA EvaluateCached == ASSUME CInv, Evaluate PROVE Pinned' /\ Cached'
<1>1. Inv /\ Pinned /\ Cached
  BY DEF CInv
<1>2. UNCHANGED <<view, instance>> /\ phase = "walk" /\ Visiting
  BY DEF Evaluate, Visiting
<1>3. PICK g, code, e, hq :
        g = Head(todo) /\ code = Get(heap, g).code /\ e = Evaluation(code) /\ hq = heap'
  OBVIOUS
<1>4. PICK b, bs, cs, ps :
        /\ b = [value |-> e.value, reads |-> e.reads, volatile |-> e.volatile, seen |-> TRUE]
        /\ bs = bindings /\ cs = bindings' /\ ps = pins'
  OBVIOUS
<1>5. /\ IsGetter(g) /\ Valid(heap, g) /\ code # "handler" /\ Get(heap, g).kind = "closure"
      /\ ~Fails(code)
  BY <1>3 DEF Evaluate, IsGetter
<1>6. /\ hq = e.heap /\ ps = pins \cup {e.value} \cup Sources(e.reads)
  BY <1>3, <1>4 DEF Evaluate, ResultPins
<1>7. cs = [k \in DOMAIN bs \cup {g} |-> IF k = g THEN b ELSE bs[k]]
  BY <1>3, <1>4 DEF Evaluate
<1>8. code \in Codes \ {"handler"}
  <2>1. Good(heap, Get(heap, g))
    BY <1>1, <1>5, GoodValue DEF Inv, Alive
  <2> QED BY <1>3, <1>5, <2>1 DEF Good
<1>9. Alive(heap, instance) /\ view \in Seq(Getter) /\ instance \in pins /\ e = Evaluation(code)
  BY <1>1, <1>3 DEF Inv
<1>10. /\ Alive(hq, instance) /\ Later(heap, hq) /\ Get(hq, instance) = Get(heap, instance)
       /\ Valid(hq, e.value) /\ \A h \in Sources(e.reads) : Valid(hq, h)
       /\ \A h \in pins : h \in Handle /\ Valid(heap, h) => Valid(hq, h)
  BY <1>6, <1>8, <1>9, EvaluationIs
<1>11. \A h \in pins : h \in Handle /\ Valid(heap, h)
  BY <1>1, <1>2, InUseIs DEF Inv, Pinned, Sane
<1>12. \A h \in ps : Valid(hq, h)
  BY <1>6, <1>10, <1>11
<1>13. b.value = e.value /\ b.reads = e.reads /\ b.volatile = e.volatile
  BY <1>4
<1>14. DOMAIN cs = DOMAIN bs \cup {g} /\ \A k \in DOMAIN cs : cs[k] = IF k = g THEN b ELSE bs[k]
  BY <1>7
<1>15. \A k \in DOMAIN cs : \A h \in Kept(cs[k]) : h \in ps /\ Valid(hq, h)
  <2> SUFFICES ASSUME NEW k \in DOMAIN cs, NEW h \in Kept(cs[k]) PROVE h \in ps
    BY <1>12
  <2>1. CASE k = g
    BY <1>6, <1>13, <1>14, <2>1 DEF Kept
  <2>2. CASE k # g
    BY <1>1, <1>4, <1>6, <1>14, <2>2 DEF Pinned
  <2> QED BY <2>1, <2>2
<1>16. Get(hq, g) = Get(heap, g) \/ ~Valid(hq, g)
  <2>1. Sane(heap, g) /\ g \in Handle
    <3>1. g \in Elements(todo)
      BY <1>1, <1>2, <1>3, Elements1 DEF Visiting, Inv
    <3> QED BY <1>1, <3>1, InUseIs DEF Inv, Sane
  <2> QED BY <1>5, <1>10, <2>1 DEF Later
<1>17. Right(hq, code, b, State)
  BY <1>5, <1>6, <1>8, <1>9, <1>13, EvaluationRight
<1>18. \A k \in DOMAIN cs :
         \/ k \in DOMAIN bindings /\ AsBefore(cs[k], bindings[k])
         \/ Valid(hq, k) =>
              /\ Get(hq, k).kind = "closure" /\ Get(hq, k).code \in Codes \ {"handler"}
              /\ Right(hq, Get(hq, k).code, cs[k], State)
  <2> SUFFICES ASSUME NEW k \in DOMAIN cs
               PROVE  \/ k \in DOMAIN bindings /\ AsBefore(cs[k], bindings[k])
                      \/ Valid(hq, k) =>
                           /\ Get(hq, k).kind = "closure"
                           /\ Get(hq, k).code \in Codes \ {"handler"}
                           /\ Right(hq, Get(hq, k).code, cs[k], State)
    OBVIOUS
  <2>1. CASE k = g
    BY <1>3, <1>5, <1>8, <1>14, <1>16, <1>17, <2>1
  <2>2. CASE k # g
    BY <1>4, <1>14, <2>2 DEF AsBefore
  <2> QED BY <2>1, <2>2
<1>19. IsHeap(hq)
  BY <1>10 DEF Alive, WellFormed
<1> QED BY <1>1, <1>2, <1>3, <1>4, <1>10, <1>12, <1>15, <1>18, <1>19, CachedStep

(* Steps that collect and evaluate nothing.                                *)
LEMMA CollectedCached ==
  ASSUME Inv, Pinned, Cached, view' = view, instance' = instance,
         NEW hq, hq = heap', IsHeap(hq), Later(heap, hq),
         Get(hq, instance) = Get(heap, instance),
         \A g \in DOMAIN bindings' : g \in DOMAIN bindings /\ bindings'[g] = bindings[g],
         \A g \in DOMAIN bindings' : \A h \in Kept(bindings'[g]) : h \in pins',
         \A h \in pins' : Valid(hq, h)
  PROVE  Pinned' /\ Cached'
<1>1. PICK cs, ps : cs = bindings' /\ ps = pins'
  OBVIOUS
<1>2. \A g \in DOMAIN cs : g \in DOMAIN bindings /\ AsBefore(cs[g], bindings[g])
  BY <1>1 DEF AsBefore
<1>3. \A g \in DOMAIN cs : \A h \in Kept(cs[g]) : h \in ps /\ Valid(hq, h)
  BY <1>1
<1>4. \A h \in ps : Valid(hq, h)
  BY <1>1
<1> QED BY <1>1, <1>2, <1>3, <1>4, CachedStep

LEMMA EndFrameCached == ASSUME CInv, EndFrame PROVE Pinned' /\ Cached'
<1>1. Inv /\ Pinned /\ Cached
  BY DEF CInv
<1>2. UNCHANGED <<view, instance>>
  BY DEF EndFrame
<1>3. PICK bs, cs, ps, hq : bs = bindings /\ cs = bindings' /\ ps = pins' /\ hq = heap'
  OBVIOUS
<1>4. cs = [g \in {k \in DOMAIN bs : bs[k].seen} |-> bs[g]]
      /\ ps = FramePins(cs)
  BY <1>3 DEF EndFrame
<1>5. \A g \in DOMAIN cs : g \in DOMAIN bs /\ cs[g] = bs[g]
  BY <1>4
<1>6. \A g \in DOMAIN cs : \A h \in Kept(cs[g]) : h \in ps
  BY <1>4 DEF FramePins, BindingPins, Kept
<1>7. CASE (\A h \in ps : Valid(heap, h)) /\ hq = Collect(heap, ps \cup {root})
  <2>1. PICK roots : roots = ps \cup {root}
    OBVIOUS
  <2>2. instance \in roots /\ Alive(heap, instance)
    BY <1>1, <1>4, <2>1 DEF FramePins, Inv
  <2>3. Alive(hq, instance) /\ Later(heap, hq) /\ KeptIn(heap, hq, roots)
    BY <1>7, <2>1, <2>2, AliveCollected
  <2>4. \A h \in ps : Valid(hq, h)
    BY <1>7, <2>1, <2>3 DEF KeptIn
  <2>5. Get(hq, instance) = Get(heap, instance)
    BY <2>2, <2>3 DEF KeptIn, Alive, ProgramAt
  <2>6. IsHeap(hq)
    BY <2>3 DEF Alive, WellFormed
  <2> QED BY <1>1, <1>2, <1>3, <1>5, <1>6, <2>3, <2>4, <2>5, <2>6, CollectedCached
<1>8. CASE phase' = "error" /\ hq = heap
  <2>1. \A g \in DOMAIN cs :
          \/ g \in DOMAIN bindings /\ AsBefore(cs[g], bindings[g])
          \/ Valid(hq, g) =>
               /\ Get(hq, g).kind = "closure" /\ Get(hq, g).code \in Codes \ {"handler"}
               /\ Right(hq, Get(hq, g).code, cs[g], State)
    BY <1>3, <1>5 DEF AsBefore
  <2>2. \A g \in DOMAIN cs : \A h \in Kept(cs[g]) : h \in ps /\ Valid(hq, h)
    BY <1>1, <1>3, <1>5, <1>6, <1>8 DEF Pinned
  <2>3. IsHeap(hq) /\ Later(heap, hq) /\ Get(hq, instance) = Get(heap, instance)
    BY <1>1, <1>8, SameHeap DEF Inv, Alive, WellFormed
  <2> QED BY <1>1, <1>2, <1>3, <1>8, <2>1, <2>2, <2>3, CachedStep
<1> QED BY <1>3, <1>7, <1>8 DEF EndFrame

LEMMA EventCached ==
  ASSUME CInv, SetRow \/ PushRow \/ PopRow \/ NewRows \/ World
  PROVE  Pinned' /\ Cached'
<1>1. Inv /\ Pinned /\ Cached
  BY DEF CInv
<1>2. PICK hw : Changes(hw) /\ Happens(hw)
  BY <1>1, EventChanges DEF Inv
<1>3. UNCHANGED <<view, instance, pins, bindings>> /\ phase = "idle"
  BY <1>2 DEF Happens
<1>4. PICK hq, roots : hq = heap' /\ roots = pins \cup {root}
  OBVIOUS
<1>5. hq = Collect(hw, roots) /\ instance \in roots
  BY <1>1, <1>2, <1>4 DEF Happens, Inv
<1>6. /\ Alive(hw, instance) /\ Later(heap, hw)
      /\ \A h \in Handle : Valid(heap, h) => Valid(hw, h)
      /\ Get(hw, instance) = Get(heap, instance)
  BY <1>2 DEF Changes
<1>7. Alive(hq, instance) /\ Later(hw, hq) /\ KeptIn(hw, hq, roots)
  BY <1>5, <1>6, AliveCollected
<1>8. Later(heap, hq) /\ IsHeap(hq)
  BY <1>1, <1>6, <1>7, LaterStill DEF Inv, Alive, WellFormed
<1>9. Get(hq, instance) = Get(heap, instance)
  BY <1>5, <1>6, <1>7 DEF KeptIn, Alive, ProgramAt
<1>10. \A h \in pins : Valid(hq, h)
  <2> SUFFICES ASSUME NEW h \in pins PROVE Valid(hq, h)
    OBVIOUS
  <2>1. Valid(heap, h) /\ h \in Handle
    BY <1>1, <1>3, InUseIs DEF Inv, Sane
  <2> QED BY <1>4, <1>6, <1>7, <2>1 DEF KeptIn
<1>11. /\ \A g \in DOMAIN bindings' : g \in DOMAIN bindings /\ bindings'[g] = bindings[g]
       /\ \A g \in DOMAIN bindings' : \A h \in Kept(bindings'[g]) : h \in pins'
       /\ \A h \in pins' : Valid(hq, h)
  BY <1>1, <1>3, <1>10 DEF Pinned
<1> QED BY <1>1, <1>3, <1>4, <1>8, <1>9, <1>11, CollectedCached

LEMMA CInvStays == ASSUME CInv, [Next]_vars PROVE CInv'
<1>1. Inv'
  BY NextInv DEF CInv
<1>2. Pinned' /\ Cached'
  BY BeginFrameCached, ReuseCached, VisitCached, EvaluateCached, EndFrameCached, EventCached
     DEF Next
<1> QED BY <1>1, <1>2 DEF CInv

LEMMA CInvStarts == ASSUME Init PROVE CInv
<1>1. Inv
  BY InitInv
<1>2. Pinned /\ Cached
  <2>1. bindings = [g \in {} |-> 0] /\ pins = {instance}
    BY DEF Init
  <2>2. DOMAIN bindings = {}
    BY <2>1
  <2>3. Valid(heap, instance)
    BY <1>1 DEF Inv, Alive, ProgramAt
  <2> QED BY <2>1, <2>2, <2>3 DEF Pinned, Cached
<1> QED BY <1>1, <1>2 DEF CInv

(* What is right and not dirty is what the getter would evaluate to.       *)
LEMMA RightMeans ==
  ASSUME Alive(heap, instance), view \in Seq(Getter),
         NEW code \in Codes \ {"handler", "view", "count", "pop"},
         NEW b, Right(heap, code, b, State), ~Dirty(b)
  PROVE  Get(heap, b.value) = Meaning(code)
<1>1. PICK getter, state, counter, count, rows, items :
        ProgramAt(heap, instance, getter, state, counter, count, rows, items)
  BY DEF Alive
<1>2. State = state /\ Rows = rows /\ Items = items
  BY <1>1, Names
<1>3. /\ Get(heap, rows) = List(items) /\ Get(heap, state) = Cell(rows)
      /\ items \in Seq(Handle) /\ items # <<>>
  BY <1>1 DEF ProgramAt
<1>4. ~b.volatile /\ \A d \in b.reads : Observed(heap, d.object, d.read) = d.observed
  BY DEF Dirty
<1>5. code \in Caching
  <2>1. code # "host"
    BY <1>4 DEF Right, Volatile
  <2> QED BY <2>1, CodesAre DEF Caching
<1>6. Unmoved(heap, b.reads)
  BY <1>3, <1>4, ObservedIs DEF Unmoved, Revision
<1>7. Shows(heap, code, b, rows)
  <2>1. PICK d \in b.reads : /\ d.object = state /\ d.read = ReadCell
                             /\ Shows(heap, code, b, d.observed)
    BY <1>2, <1>5 DEF Right
  <2>2. d.observed = rows
    BY <1>3, <1>4, <2>1, ObservedIs
  <2> QED BY <2>1, <2>2
<1>8. CASE code = "children"
  BY <1>2, <1>7, <1>8 DEF Shows, Meaning
<1>9. CASE code = "first"
  <2>1. PICK d \in b.reads : /\ d.object = rows /\ d.read = ReadItem(1)
                             /\ d.observed = b.value
    BY <1>7, <1>9 DEF Shows
  <2>2. b.value = Item(items, 1)
    BY <1>3, <1>4, <2>1, ObservedIs
  <2>3. Len(items) \in Nat /\ 1 <= Len(items)
    BY <1>3, EmptySeq
  <2>4. b.value = items[1]
    BY <2>2, <2>3 DEF Item
  <2> QED BY <1>2, <1>9, <2>4 DEF Meaning
<1>10. CASE code = "length"
  <2>1. PICK d \in b.reads : /\ d.object = rows /\ d.read = ReadLength
                             /\ Get(heap, b.value) = Number(d.observed)
    BY <1>7, <1>10 DEF Shows
  <2>2. d.observed = Len(items)
    BY <1>3, <1>4, <2>1, ObservedIs
  <2> QED BY <1>2, <1>10, <2>1, <2>2 DEF Meaning
<1>11. CASE code = "copy"
  <2>1. Get(heap, b.value) = Number(Len(Get(heap, rows).items))
    BY <1>6, <1>7, <1>11 DEF Shows
  <2>2. Get(heap, rows).items = items
    BY <1>3, KindOf
  <2> QED BY <1>2, <1>11, <2>1, <2>2 DEF Meaning
<1>12. CASE code = "print"
  <2>1. /\ Get(heap, b.value) = Text(PrintedIn(heap, Get(heap, rows).items))
        /\ PrintableIn(heap, Get(heap, rows).items)
    BY <1>6, <1>7, <1>12 DEF Shows
  <2>2. Get(heap, rows).items = items
    BY <1>3, KindOf
  <2>3. Printed = PrintedIn(heap, items) /\ (Printable <=> PrintableIn(heap, items))
    BY <1>2, PrintedHere, PrintableHere
  <2> QED BY <1>12, <2>1, <2>2, <2>3 DEF Meaning
<1> QED BY <1>5, <1>8, <1>9, <1>10, <1>11, <1>12 DEF Caching

LEMMA CInvImplies == CInv => CachedIsCurrent
<1> SUFFICES ASSUME CInv, NEW g \in DOMAIN bindings, NEW code, code = Get(heap, g).code,
                    Valid(heap, g), Clean(g), code \notin {"view", "count", "pop"}
             PROVE  Get(heap, bindings[g].value) = Meaning(code)
  BY DEF CachedIsCurrent
<1>1. code \in Codes \ {"handler"} /\ Right(heap, code, bindings[g], State)
  BY DEF CInv, Cached
<1>2. Alive(heap, instance) /\ view \in Seq(Getter) /\ ~Dirty(bindings[g])
  BY DEF CInv, Inv, Clean
<1> QED BY <1>1, <1>2, RightMeans

(* Everything a binding keeps is pinned, so that no handle it compares with *)
(* is used again, and what it keeps is right for as long as nothing that    *)
(* was read on the way has been written: Vm::invoke_sync captures the reads *)
(* and marks the rest volatile, Heap::replace and Heap::get_mut count the   *)
(* revision of what they write.                                             *)
THEOREM CachedInvariant == Spec => []CInv
<1>1. Init => CInv
  BY CInvStarts
<1>2. CInv /\ [Next]_vars => CInv'
  BY CInvStays
<1> QED BY <1>1, <1>2, PTL DEF Spec

(* A getter whose Dependencies::dirty finds nothing would evaluate to what  *)
(* its binding has cached, so that Component::resolve may use it instead:   *)
(* whatever events, other getters and Heap::collect have done in between.   *)
THEOREM CachedIsCurrentHolds == Spec => []CachedIsCurrent
BY CachedInvariant, CInvImplies, PTL

-----------------------------------------------------------------------------
(* Frames.  What a walk has still to visit is reached from the pins over   *)
(* values that no frame writes.                                            *)

(* A collection frees or leaves a slot as it is.                           *)
LEMMA CollectedSame ==
  ASSUME NEW hp, WellFormed(hp), NEW roots, NEW hq, hq = Collect(hp, roots),
         NEW h, Valid(hp, h), Valid(hq, h)
  PROVE  Get(hq, h) = Get(hp, h)
<1>1. IsHeap(hp) /\ DOMAIN hp.slots = 1 .. Len(hp.slots)
  BY HeapTypes DEF WellFormed
<1>2. PICK swept : swept = Swept(hp, roots)
  OBVIOUS
<1>3. /\ hq = [slots |-> hq.slots, free |-> hq.free, allocations |-> hq.allocations]
      /\ hq.allocations = hp.allocations
      /\ hq.free = FreeAfter(hp, swept)
      /\ hq.slots = [i \in 1 .. Len(hp.slots) |-> hq.slots[i]]
      /\ \A i \in 1 .. Len(hp.slots) :
              /\ i \notin swept => hq.slots[i] = hp.slots[i]
              /\ i \in swept =>
                   hq.slots[i] = [value |-> Free,
                                  generation |-> hp.slots[i].generation + 1,
                                  created |-> hp.slots[i].created,
                                  revision |-> hp.slots[i].revision]
  BY <1>1, <1>2, CollectIs
<1>4. PICK i, t : i = h.slot /\ t = hq.slots[i]
  OBVIOUS
<1>5. i \in 1 .. Len(hp.slots) /\ t.value # Free
  BY <1>1, <1>4 DEF Valid
<1>6. i \notin swept
  <2>1. SUFFICES ASSUME i \in swept PROVE FALSE
    OBVIOUS
  <2>2. t = [value |-> Free, generation |-> hp.slots[i].generation + 1,
             created |-> hp.slots[i].created, revision |-> hp.slots[i].revision]
    BY <1>3, <1>4, <1>5, <2>1
  <2> QED BY <1>5, <2>2
<1> QED BY <1>3, <1>4, <1>5, <1>6 DEF Get

(* An evaluation frees nothing that what is left leads to, and changes     *)
(* nothing but cells unless it pops.                                       *)
LEMMA EvaluationClosed ==
  ASSUME Alive(heap, instance), Closed(heap), view \in Seq(Getter),
         NEW code \in Codes \ {"handler"}, instance \in pins,
         \A h \in pins : Sane(heap, h), NEW e, e = Evaluation(code)
  PROVE  /\ Closed(e.heap)
         /\ code # "pop" =>
              \A h \in Handle : /\ Valid(heap, h) /\ Get(heap, h).kind # "cell"
                                /\ Valid(e.heap, h)
                                => Get(e.heap, h) = Get(heap, h)
<1>1. PICK made, hw, roots :
        /\ made = Outcome(code) /\ hw = AfterWrites(code, made)
        /\ roots = pins \cup {made.value} \cup Sources(Captured(code))
  OBVIOUS
<1>2. e = [value |-> made.value, reads |-> Captured(code), volatile |-> Volatile(code),
           heap |-> Collect(hw, roots)]
  BY <1>1 DEF Evaluation
<1>3. PICK hq : hq = Collect(hw, roots)
  OBVIOUS
<1>4. e.heap = hq
  BY <1>2, <1>3
<1>5. /\ Alive(hw, instance) /\ Later(heap, hw)
      /\ \A h \in Handle : Valid(heap, h) => Valid(hw, h)
      /\ Sane(hw, made.value)
  BY <1>1, AfterWritesAlive
<1>6. /\ Closed(hw)
      /\ code # "pop" => \A h \in Handle : Valid(heap, h) /\ Get(heap, h).kind # "cell"
                                             => Get(hw, h) = Get(heap, h)
  BY <1>1, AfterWritesClosed
<1>7. \A h \in roots : h.slot \in DOMAIN hw.slots
  <2> SUFFICES ASSUME NEW h \in roots PROVE Sane(hw, h)
    BY DEF Sane
  <2>1. CASE h \in Sources(Captured(code))
    <3>1. PICK getter, state, counter, count, rows, items :
            ProgramAt(heap, instance, getter, state, counter, count, rows, items)
      BY DEF Alive
    <3>2. Sane(heap, h) /\ h \in Handle
      BY <2>1, <3>1, CodesAre, SourcesThere DEF Alive, Sane
    <3> QED BY <1>5, <3>2 DEF Later
  <2>2. CASE h \in pins
    <3>1. Sane(heap, h) /\ h \in Handle
      BY <2>2 DEF Sane
    <3> QED BY <1>5, <3>1 DEF Later
  <2> QED BY <1>1, <1>5, <2>1, <2>2
<1>8. WellFormed(hw)
  BY <1>5 DEF Alive
<1>9. Closed(hq)
  BY <1>3, <1>6, <1>7, <1>8, CollectedClosed
<1>10. ASSUME code # "pop", NEW h \in Handle, Valid(heap, h), Get(heap, h).kind # "cell",
              Valid(hq, h)
       PROVE  Get(hq, h) = Get(heap, h)
  <2>1. Valid(hw, h) /\ Get(hw, h) = Get(heap, h)
    BY <1>5, <1>6, <1>10
  <2>2. Get(hq, h) = Get(hw, h)
    BY <1>3, <1>8, <1>10, <2>1, CollectedSame
  <2> QED BY <2>1, <2>2
<1> QED BY <1>4, <1>9, <1>10

(* Reached from the handles of ps over values that are not cells.          *)
Follows(hp, s) ==
  \A x \in s : Valid(hp, x) /\ Get(hp, x).kind # "cell" => Kids(Get(hp, x)) \subseteq s

Anchored(hp, ps, h) == \A s : ps \subseteq s /\ Follows(hp, s) => h \in s

LEMMA AnchoredPin ==
  ASSUME NEW hp, NEW ps, NEW h \in ps
  PROVE  Anchored(hp, ps, h)
BY DEF Anchored

LEMMA AnchoredKid ==
  ASSUME NEW hp, NEW ps, NEW h, Anchored(hp, ps, h), Valid(hp, h),
         Get(hp, h).kind # "cell", NEW k \in Kids(Get(hp, h))
  PROVE  Anchored(hp, ps, k)
BY DEF Anchored, Follows

LEMMA AnchoredValid ==
  ASSUME NEW hp, WellFormed(hp), Closed(hp), NEW ps, \A x \in ps : Sane(hp, x) /\ Valid(hp, x),
         NEW h, Anchored(hp, ps, h)
  PROVE  Valid(hp, h)
<1>1. PICK s : s = {x \in Handle : Valid(hp, x)}
  OBVIOUS
<1>2. ps \subseteq s
  BY <1>1 DEF Sane
<1>3. Follows(hp, s)
  <2> SUFFICES ASSUME NEW x \in s, NEW k \in Kids(Get(hp, x)) PROVE k \in s
    BY DEF Follows
  <2>1. Valid(hp, x) /\ Good(hp, Get(hp, x))
    BY <1>1, GoodValue
  <2>2. Valid(hp, k)
    BY <2>1, ClosedGet DEF WellFormed, Leads
  <2>3. k \in Handle
    BY <2>1 DEF Good, Sane
  <2> QED BY <1>1, <2>2, <2>3
<1> QED BY <1>1, <1>2, <1>3 DEF Anchored

(* What is anchored stays so, when the pins grow and are kept and nothing  *)
(* that is left but cells is written.                                      *)
LEMMA AnchoredStays ==
  ASSUME NEW hp, WellFormed(hp), NEW hq, Closed(hq), IsHeap(hq),
         NEW ps, NEW qs, ps \subseteq qs, \A x \in ps : Sane(hp, x) /\ Valid(hq, x),
         \A x \in Handle : /\ Valid(hp, x) /\ Get(hp, x).kind # "cell" /\ Valid(hq, x)
                           => Get(hq, x) = Get(hp, x),
         NEW h, Anchored(hp, ps, h)
  PROVE  Anchored(hq, qs, h)
<1> SUFFICES ASSUME NEW s, qs \subseteq s, Follows(hq, s) PROVE h \in s
  BY DEF Anchored
<1>1. PICK t : t = {x \in s : Sane(hp, x) /\ Valid(hq, x)}
  OBVIOUS
<1>2. ps \subseteq t
  BY <1>1
<1>3. Follows(hp, t)
  <2> SUFFICES ASSUME NEW x \in t, Valid(hp, x), Get(hp, x).kind # "cell",
                      NEW k \in Kids(Get(hp, x))
               PROVE  k \in t
    BY DEF Follows
  <2>1. x \in s /\ Valid(hq, x) /\ x \in Handle
    BY <1>1 DEF Sane
  <2>2. Get(hq, x) = Get(hp, x)
    BY <2>1
  <2>3. k \in s
    BY <2>1, <2>2 DEF Follows
  <2>4. Valid(hq, k)
    BY <2>1, <2>2, ClosedGet DEF Leads
  <2>5. Sane(hp, k)
    BY GoodValue DEF Good
  <2> QED BY <1>1, <2>3, <2>4, <2>5
<1> QED BY <1>1, <1>2, <1>3 DEF Anchored

(* No step leaves a value that leads to one that is freed.                 *)
LEMMA StaysClosed ==
  ASSUME NEW hq, hq = heap', Closed(hq)
  PROVE  Closed(heap)'
BY DEF Closed, Valid

LEMMA EvaluateIs ==
  ASSUME Inv, Evaluate, NEW g, g = Head(todo), NEW code, code = Get(heap, g).code,
         NEW e, e = Evaluation(code)
  PROVE  /\ code \in Codes \ {"handler"} /\ g \in Elements(todo)
         /\ Valid(heap, g) /\ Get(heap, g).kind = "closure"
         /\ heap' = e.heap /\ pins' = pins \cup {e.value} \cup Sources(e.reads)
         /\ todo' = <<e.value>> \o Tail(todo)
         /\ DOMAIN bindings' = DOMAIN bindings \cup {g}
<1>1. IsGetter(g) /\ Valid(heap, g) /\ code # "handler" /\ Get(heap, g).kind = "closure"
  BY DEF Evaluate, IsGetter
<1>2. code \in Codes
  <2>1. Good(heap, Get(heap, g))
    BY <1>1, GoodValue DEF Inv, Alive
  <2> QED BY <1>1, <2>1 DEF Good
<1>3. g \in Elements(todo)
  BY Elements1 DEF Evaluate, Visiting, Inv
<1>4. PICK bs, cs : bs = bindings /\ cs = bindings'
  OBVIOUS
<1>5. DOMAIN cs = DOMAIN bs \cup {g}
  <2>1. PICK b : b = [value |-> e.value, reads |-> e.reads, volatile |-> e.volatile,
                      seen |-> TRUE]
    OBVIOUS
  <2>2. cs = [k \in DOMAIN bs \cup {g} |-> IF k = g THEN b ELSE bs[k]]
    BY <1>4, <2>1 DEF Evaluate
  <2> QED BY <2>2
<1> QED BY <1>1, <1>2, <1>3, <1>4, <1>5 DEF Evaluate, ResultPins

LEMMA EvaluateClosed == ASSUME Inv, Closed(heap), Evaluate PROVE Closed(heap)'
<1>1. PICK g, code, e : g = Head(todo) /\ code = Get(heap, g).code /\ e = Evaluation(code)
  OBVIOUS
<1>2. code \in Codes \ {"handler"} /\ heap' = e.heap
  BY <1>1, EvaluateIs
<1>3. /\ Alive(heap, instance) /\ view \in Seq(Getter) /\ instance \in pins
      /\ \A h \in pins : Sane(heap, h)
  BY InUseIs DEF Inv
<1>4. Closed(e.heap)
  BY <1>1, <1>2, <1>3, EvaluationClosed
<1> QED BY <1>2, <1>4, StaysClosed

LEMMA EndFrameClosed == ASSUME Inv, Closed(heap), EndFrame PROVE Closed(heap)'
<1>1. PICK hq, ps, roots : hq = heap' /\ ps = pins' /\ roots = ps \cup {root}
  OBVIOUS
<1>2. CASE (\A h \in ps : Valid(heap, h)) /\ hq = Collect(heap, roots)
  <2>1. \A h \in roots : h.slot \in DOMAIN heap.slots
    BY <1>1, <1>2, InUseIs DEF Inv, Sane, Valid
  <2>2. WellFormed(heap)
    BY DEF Inv, Alive
  <2>3. Closed(hq)
    BY <1>2, <2>1, <2>2, CollectedClosed
  <2> QED BY <1>1, <2>3, StaysClosed
<1>3. CASE hq = heap
  BY <1>1, <1>3, StaysClosed
<1> QED BY <1>1, <1>2, <1>3 DEF EndFrame

LEMMA EventClosed ==
  ASSUME Inv, Closed(heap), SetRow \/ PushRow \/ PopRow \/ NewRows \/ World
  PROVE  Closed(heap)'
<1>1. PICK hw : Changes(hw) /\ Happens(hw)
  BY EventChanges DEF Inv
<1>2. PICK hq, roots : hq = heap' /\ roots = pins \cup {root}
  OBVIOUS
<1>3. WellFormed(hw) /\ Later(heap, hw) /\ Closed(hw)
  BY <1>1 DEF Changes, Alive
<1>4. \A h \in roots : h.slot \in DOMAIN hw.slots
  BY <1>2, <1>3, InUseIs DEF Inv, Later, Sane
<1>5. hq = Collect(hw, roots)
  BY <1>1, <1>2 DEF Happens
<1>6. Closed(hq)
  BY <1>3, <1>4, <1>5, CollectedClosed
<1> QED BY <1>2, <1>6, StaysClosed

LEMMA NextClosed == ASSUME Inv, Closed(heap), [Next]_vars PROVE Closed(heap)'
<1>1. CASE BeginFrame \/ Reuse \/ Visit \/ FailFrame \/ UNCHANGED vars
  <2>1. heap' = heap
    BY <1>1 DEF BeginFrame, Reuse, Visit, FailFrame, vars
  <2> QED BY <2>1, StaysClosed
<1> QED BY <1>1, EvaluateClosed, EndFrameClosed, EventClosed DEF Next

(* Unless getters pop, no frame fails, for whatever it has met or will yet *)
(* visit is anchored.                                                      *)
Walked == DOMAIN bindings \cup Elements(todo) \cup Elements(handlers)

Framed ==
  ~Pops => /\ phase = "error" => Unprinted
           /\ phase = "walk" => \A h \in Walked : Anchored(heap, pins, h)

FInv == CInv /\ Closed(heap) /\ Framed

LEMMA AnchoredThere ==
  ASSUME FInv, ~Pops, phase = "walk", NEW h \in Walked
  PROVE  Valid(heap, h) /\ Anchored(heap, pins, h)
<1>1. \A x \in pins : Sane(heap, x) /\ Valid(heap, x)
  BY InUseIs DEF FInv, CInv, Inv, Pinned
<1>2. WellFormed(heap) /\ Closed(heap) /\ Anchored(heap, pins, h)
  BY DEF FInv, CInv, Inv, Alive, Framed
<1> QED BY <1>1, <1>2, AnchoredValid

(* What a step of the walk has to show.                                    *)
LEMMA FramedStep ==
  ASSUME view' = view, phase' = "walk", NEW hq, hq = heap', NEW qs, qs = pins',
         ~Pops => \A h \in Walked' : Anchored(hq, qs, h)
  PROVE  Framed'
<1>1. Pops' <=> Pops
  BY DEF Pops
<1>2. \A h : Anchored(hq, qs, h) => Anchored(heap, pins, h)'
  BY DEF Anchored, Follows, Valid, Get
<1> QED BY <1>1, <1>2 DEF Framed

(* The same heap and the same pins.                                        *)
LEMMA FramedQuiet ==
  ASSUME FInv, phase = "walk", UNCHANGED <<view, heap, pins, phase>>,
         ~Pops => \A h \in Walked' : h \in Walked \/ Anchored(heap, pins, h)
  PROVE  Framed'
<1>1. PICK hq, qs : hq = heap' /\ qs = pins'
  OBVIOUS
<1>2. ~Pops => \A h \in Walked' : Anchored(hq, qs, h)
  BY <1>1, AnchoredThere
<1> QED BY <1>1, <1>2, FramedStep

(* A session's first, and the next, frame visits the view of the instance. *)
LEMMA BeginFrameFramed == ASSUME FInv, BeginFrame PROVE Framed'
<1>1. /\ UNCHANGED <<view, heap, instance>> /\ phase' = "walk"
      /\ pins' = {instance} \cup BindingPins(bindings) /\ handlers' = <<>>
      /\ todo' = <<View>>
  BY DEF BeginFrame
<1>2. PICK hq, qs, bs, t, v : /\ hq = heap' /\ qs = pins' /\ bs = bindings' /\ t = todo'
                              /\ v = View
  OBVIOUS
<1>3. DOMAIN bs \subseteq qs
  <2>1. DOMAIN bs = DOMAIN bindings
    BY <1>2 DEF BeginFrame
  <2> QED BY <1>1, <1>2, <2>1 DEF BindingPins
<1>4. Anchored(heap, qs, v)
  <2>1. PICK getter, state, counter, count, rows, items :
          ProgramAt(heap, instance, getter, state, counter, count, rows, items)
    BY DEF FInv, CInv, Inv, Alive
  <2>2. PICK parts : parts = <<getter, state, counter>>
    OBVIOUS
  <2>3. Get(heap, instance) = List(parts) /\ Valid(heap, instance)
    BY <2>1, <2>2 DEF ProgramAt
  <2>4. v = parts[1] /\ 1 \in DOMAIN parts
    <3>1. v = getter
      BY <1>2, <2>1, Names
    <3> QED BY <2>2, <3>1
  <2>5. v \in Kids(Get(heap, instance)) /\ Get(heap, instance).kind # "cell"
    BY <2>3, <2>4, KidsOf, KindOf
  <2>6. Anchored(heap, qs, instance)
    BY <1>1, <1>2, AnchoredPin
  <2> QED BY <2>3, <2>5, <2>6, AnchoredKid
<1>5. \A h \in Walked' : h = v \/ h \in DOMAIN bs
  <2>1. t = <<v>>
    BY <1>1, <1>2
  <2>2. Elements(t) = {v}
    BY <2>1 DEF Elements
  <2>3. Walked' = DOMAIN bs \cup Elements(t) \cup Elements(<<>>)
    BY <1>1, <1>2 DEF Walked, Elements
  <2>4. Elements(<<>>) = {}
    BY DEF Elements
  <2> QED BY <2>2, <2>3, <2>4
<1>6. \A h \in Walked' : Anchored(hq, qs, h)
  BY <1>1, <1>2, <1>3, <1>4, <1>5, AnchoredPin
<1> QED BY <1>1, <1>2, <1>6, FramedStep

LEMMA ReuseFramed == ASSUME FInv, Reuse PROVE Framed'
<1>1. UNCHANGED <<view, heap, pins, phase, handlers>> /\ phase = "walk" /\ Visiting
  BY DEF Reuse, Visiting
<1>2. PICK g, v, s : g = Head(todo) /\ v = bindings[g].value /\ s = <<v>>
  OBVIOUS
<1>3. g \in DOMAIN bindings /\ todo' = s \o Tail(todo) /\ DOMAIN bindings' = DOMAIN bindings
  BY <1>2 DEF Reuse, Clean
<1>4. v \in pins
  BY <1>2, <1>3 DEF FInv, CInv, Pinned, Kept
<1>5. s \in Seq(Handle) /\ Elements(s) = {v}
  <2>1. v \in Handle
    BY <1>4, InUseIs DEF FInv, CInv, Inv, Sane
  <2> QED BY <1>2, <2>1 DEF Elements
<1>6. Elements(todo') \subseteq Elements(s) \cup Elements(todo)
  BY <1>1, <1>3, <1>5, WalkOn DEF FInv, CInv
<1>7. \A h \in Walked' : h \in Walked \/ h = v
  <2>1. Walked' = DOMAIN bindings' \cup Elements(todo') \cup Elements(handlers')
    BY DEF Walked, Elements
  <2> QED BY <1>1, <1>3, <1>5, <1>6, <2>1 DEF Walked
<1>8. Anchored(heap, pins, v)
  BY <1>4, AnchoredPin
<1> QED BY <1>1, <1>7, <1>8, FramedQuiet

(* What a list or a node shows is anchored where it is.                    *)
LEMMA VisitFramed == ASSUME FInv, Visit PROVE Framed'
<1>1. UNCHANGED <<view, heap, pins, phase, bindings>> /\ phase = "walk" /\ Visiting
      /\ Valid(heap, Head(todo))
  BY DEF Visit, Visiting
<1>2. PICK x, value, s : /\ x = Head(todo) /\ value = Get(heap, x)
                         /\ s = (IF value.kind = "list" THEN value.items ELSE <<>>)
  OBVIOUS
<1>3. Good(heap, value)
  BY <1>1, <1>2, GoodValue DEF FInv, CInv, Inv, Alive
<1>4. s \in Seq(Handle) /\ \A h \in Elements(s) : value.kind = "list" /\ h \in Kids(value)
  <2>1. CASE value.kind = "list"
    BY <1>2, <1>3, <2>1 DEF Good, Elements, Kids
  <2>2. CASE value.kind # "list"
    BY <1>2, <2>2 DEF Elements
  <2> QED BY <2>1, <2>2
<1>5. Elements(todo') \subseteq Elements(s) \cup Elements(todo) /\ x \in Elements(todo)
  <2>1. todo' = s \o Tail(todo)
    BY <1>2 DEF Visit
  <2> QED BY <1>1, <1>2, <1>4, <2>1, WalkOn DEF FInv, CInv
<1>6. \A h \in Elements(handlers') : \/ h \in Elements(handlers)
                                     \/ value.kind = "node" /\ h \in Kids(value)
  <2>1. PICK hs, ht : hs = handlers /\ ht = handlers'
    OBVIOUS
  <2>2. hs \in Seq(Handle)
    BY <2>1 DEF FInv, CInv, Inv
  <2>3. CASE value.kind = "node"
    <3>1. ht = Append(hs, value.on)
      BY <1>2, <2>1, <2>3 DEF Visit
    <3>2. value.on \in Kids(value) /\ value.on \in Handle
      BY <1>3, <2>3 DEF Good, Kids, Sane
    <3>3. \A i \in DOMAIN ht : (i \in DOMAIN hs /\ ht[i] = hs[i]) \/ ht[i] = value.on
      BY <2>2, <3>1, <3>2
    <3> QED BY <2>1, <2>3, <3>2, <3>3 DEF Elements
  <2>4. CASE value.kind # "node"
    BY <1>2, <2>1, <2>4 DEF Visit, Elements
  <2> QED BY <2>3, <2>4
<1>7. ASSUME ~Pops, NEW h \in Walked' PROVE h \in Walked \/ Anchored(heap, pins, h)
  <2>1. Walked' = DOMAIN bindings' \cup Elements(todo') \cup Elements(handlers')
    BY DEF Walked, Elements
  <2>2. h \in Walked \/ (value.kind \in {"list", "node"} /\ h \in Kids(value))
    BY <1>1, <1>4, <1>5, <1>6, <1>7, <2>1 DEF Walked
  <2>3. x \in Walked
    BY <1>5 DEF Walked
  <2>4. Valid(heap, x) /\ Anchored(heap, pins, x)
    BY <1>1, <1>7, <2>3, AnchoredThere
  <2> QED BY <1>2, <2>2, <2>4, AnchoredKid
<1> QED BY <1>1, <1>7, FramedQuiet

(* An evaluation that does not pop keeps what is anchored.                 *)
LEMMA EvaluateFramed == ASSUME FInv, Evaluate PROVE Framed'
<1>1. UNCHANGED <<view, handlers>> /\ phase = "walk" /\ phase' = "walk" /\ Visiting
  BY DEF Evaluate, Visiting
<1>2. PICK g, code, e, s, hq, qs :
        /\ g = Head(todo) /\ code = Get(heap, g).code /\ e = Evaluation(code)
        /\ s = <<e.value>> /\ hq = heap' /\ qs = pins'
  OBVIOUS
<1>3. Inv /\ Pinned /\ Closed(heap)
  BY DEF FInv, CInv
<1>4. /\ code \in Codes \ {"handler"} /\ g \in Elements(todo)
      /\ hq = e.heap /\ qs = pins \cup {e.value} \cup Sources(e.reads)
      /\ todo' = s \o Tail(todo) /\ DOMAIN bindings' = DOMAIN bindings \cup {g}
  BY <1>2, <1>3, EvaluateIs
<1>5. /\ Alive(heap, instance) /\ view \in Seq(Getter) /\ instance \in pins
      /\ \A h \in pins : Sane(heap, h) /\ Valid(heap, h)
  BY <1>1, <1>3, InUseIs DEF Inv, Pinned
<1>6. /\ Closed(hq)
      /\ code # "pop" => \A h \in Handle : /\ Valid(heap, h) /\ Get(heap, h).kind # "cell"
                                           /\ Valid(hq, h)
                                           => Get(hq, h) = Get(heap, h)
  BY <1>2, <1>3, <1>4, <1>5, EvaluationClosed
<1>7. /\ Alive(hq, instance) /\ Sane(hq, e.value)
      /\ \A h \in pins : h \in Handle /\ Valid(heap, h) => Valid(hq, h)
  BY <1>2, <1>4, <1>5, EvaluationIs
<1>8. Elements(todo') \subseteq {e.value} \cup Elements(todo)
  <2>1. PICK v : v = e.value /\ v \in Handle
    BY <1>7 DEF Sane
  <2>2. s \in Seq(Handle) /\ Elements(s) = {v}
    BY <1>2, <2>1 DEF Elements
  <2> QED BY <1>1, <1>3, <1>4, <2>1, <2>2, WalkOn
<1>9. \A h \in Walked' : h \in Walked \/ h \in qs
  <2>1. Walked' = DOMAIN bindings' \cup Elements(todo') \cup Elements(handlers')
    BY DEF Walked, Elements
  <2> QED BY <1>1, <1>4, <1>8, <2>1 DEF Walked
<1>10. ASSUME ~Pops, NEW h \in Walked' PROVE Anchored(hq, qs, h)
  <2>1. CASE h \in qs
    BY <2>1, AnchoredPin
  <2>2. CASE h \in Walked
    <3>1. Anchored(heap, pins, h)
      BY <1>1, <1>10, <2>2, AnchoredThere
    <3>2. code # "pop"
      BY <1>4, <1>10 DEF Codes, Pops
    <3>3. WellFormed(heap) /\ IsHeap(hq) /\ pins \subseteq qs
      BY <1>4, <1>5, <1>7 DEF Alive, WellFormed
    <3>4. \A x \in pins : Sane(heap, x) /\ Valid(hq, x)
      BY <1>5, <1>7 DEF Sane
    <3>5. \A x \in Handle : /\ Valid(heap, x) /\ Get(heap, x).kind # "cell" /\ Valid(hq, x)
                            => Get(hq, x) = Get(heap, x)
      BY <1>6, <3>2
    <3> QED BY <1>6, <3>1, <3>3, <3>4, <3>5, AnchoredStays
  <2> QED BY <1>9, <1>10, <2>1, <2>2
<1> QED BY <1>1, <1>2, <1>10, FramedStep

(* No frame meets a stale handle, and none ends with one: it fails only as  *)
(* it prints what cannot be printed.                                       *)
LEMMA UnprintedStays ==
  ASSUME UNCHANGED <<view, heap, instance>>
  PROVE  Unprinted' <=> Unprinted
BY DEF Unprinted, Printable, Items, Rows, State, Get

LEMMA FailFrameFramed == ASSUME FInv, FailFrame PROVE Framed'
<1>1. /\ phase = "walk" /\ UNCHANGED <<view, heap, instance>> /\ phase' = "error"
      /\ Visiting
  BY DEF FailFrame, Visiting
<1>2. PICK g : g = Head(todo)
  OBVIOUS
<1>3. g \in Walked
  BY <1>1, <1>2, Elements1 DEF FInv, CInv, Inv, Visiting, Walked
<1>4. CASE ~Valid(heap, g)
  <2>1. Pops
    BY <1>1, <1>3, <1>4, AnchoredThere
  <2> QED BY <1>1, <2>1 DEF Framed, Pops
<1>5. CASE Valid(heap, g)
  <2>1. PICK code : code = Get(heap, g).code
    OBVIOUS
  <2>2. IsGetter(g) /\ Fails(code)
    BY <1>2, <1>5, <2>1 DEF FailFrame
  <2>3. code = "print" /\ ~Printable /\ Get(heap, g).kind = "closure"
    BY <2>2 DEF Fails, IsGetter
  <2>4. Good(heap, Get(heap, g))
    BY <1>5, GoodValue DEF FInv, CInv, Inv, Alive
  <2>5. \E i \in DOMAIN view : view[i] = "print"
    BY <2>1, <2>3, <2>4 DEF Good, Codes
  <2>6. Unprinted'
    BY <1>1, <2>3, <2>5, UnprintedStays DEF Unprinted
  <2> QED BY <1>1, <2>6 DEF Framed
<1> QED BY <1>4, <1>5

LEMMA EndFrameFramed == ASSUME FInv, EndFrame PROVE Framed'
<1>1. phase = "walk" /\ view' = view /\ phase' \in {"idle", "error"}
  BY DEF EndFrame
<1>2. PICK bs, cs, ps : bs = bindings /\ cs = bindings' /\ ps = pins'
  OBVIOUS
<1>3. cs = [k \in {j \in DOMAIN bs : bs[j].seen} |-> bs[k]] /\ ps = FramePins(cs)
  BY <1>2 DEF EndFrame
<1>4. \A g \in DOMAIN cs : g \in DOMAIN bs /\ cs[g] = bs[g]
  BY <1>3
<1>5. ASSUME ~Pops, NEW h \in ps PROVE Valid(heap, h)
  <2>1. CASE h = instance
    BY <2>1 DEF FInv, CInv, Inv, Alive, ProgramAt
  <2>2. CASE h \in DOMAIN cs \cup Elements(handlers)
    <3>1. h \in Walked
      BY <1>2, <1>4, <2>2 DEF Walked
    <3> QED BY <1>1, <1>5, <3>1, AnchoredThere
  <2>3. CASE \E g \in DOMAIN cs : h \in Kept(cs[g])
    BY <1>2, <1>4, <2>3 DEF FInv, CInv, Pinned
  <2>4. \/ h = instance \/ h \in DOMAIN cs \cup Elements(handlers)
        \/ \E g \in DOMAIN cs : h \in Kept(cs[g])
    BY <1>3, <1>5 DEF FramePins, BindingPins, Kept, Elements
  <2> QED BY <2>1, <2>2, <2>3, <2>4
<1>6. ~Pops => phase' = "idle"
  BY <1>2, <1>5 DEF EndFrame
<1> QED BY <1>1, <1>6 DEF Framed, Pops

LEMMA EventFramed ==
  ASSUME FInv, SetRow \/ PushRow \/ PopRow \/ NewRows \/ World PROVE Framed'
<1>1. PICK hw : Changes(hw) /\ Happens(hw)
  BY EventChanges DEF FInv, CInv, Inv
<1>2. phase = "idle" /\ phase' = "idle"
  BY <1>1 DEF Happens
<1> QED BY <1>2 DEF Framed

LEMMA IdleFramed == ASSUME FInv, UNCHANGED vars PROVE Framed'
<1>1. UNCHANGED <<view, heap, pins, phase, bindings, todo, handlers>>
  BY DEF vars
<1>2. Walked' = Walked
  BY <1>1 DEF Walked, Elements
<1>3. CASE phase = "walk"
  BY <1>1, <1>2, <1>3, FramedQuiet
<1>4. CASE phase # "walk"
  <2>1. Unprinted' <=> Unprinted
    BY UnprintedStays DEF vars
  <2> QED BY <1>1, <1>4, <2>1 DEF FInv, Framed, Pops
<1> QED BY <1>3, <1>4

LEMMA FInvStays == ASSUME FInv, [Next]_vars PROVE FInv'
<1>1. CInv'
  BY CInvStays DEF FInv
<1>2. Closed(heap)'
  BY NextClosed DEF FInv, CInv
<1>3. Framed'
  BY BeginFrameFramed, ReuseFramed, EvaluateFramed, VisitFramed, FailFrameFramed,
     EndFrameFramed, EventFramed, IdleFramed DEF Next
<1> QED BY <1>1, <1>2, <1>3 DEF FInv

LEMMA FInvStarts == ASSUME Init PROVE FInv
<1>1. CInv /\ Closed(heap)
  BY CInvStarts, InitAlive
<1>2. Framed
  BY DEF Init, Framed
<1> QED BY <1>1, <1>2 DEF FInv

(* Heap::collect frees nothing that a value in use leads to, and what a     *)
(* frame has met or will visit is reached from the pins of the component    *)
(* without crossing a cell, which evaluations may write while it is walked: *)
(* only the items of a list that a getter has popped can be missing.        *)
THEOREM FramesInvariant == Spec => []FInv
<1>1. Init => FInv
  BY FInvStarts
<1>2. FInv /\ [Next]_vars => FInv'
  BY FInvStays
<1> QED BY <1>1, <1>2, PTL DEF Spec

(* Component::render fails, which ends the session, only in programs whose  *)
(* getters take away what others show, or where Vm::inspect meets a closure *)
(* in the rows that a getter prints: whatever events and collections did.   *)
THEOREM FramesCompleteHolds == Spec => []FramesComplete
<1>1. FInv => FramesComplete
  BY DEF FInv, Framed, FramesComplete
<1> QED BY <1>1, FramesInvariant, PTL
=============================================================================
