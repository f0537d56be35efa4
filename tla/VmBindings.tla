------------------------------ MODULE VmBindings ------------------------------
(***************************************************************************)
(* The bindings of a native component: the heap of heap.rs, the reads it   *)
(* captures, and the frames of component.rs (src/crates/deka_vm/src).      *)
(*                                                                         *)
(* A component is rendered frame after frame.  Whatever is live in its     *)
(* view is a closure, a getter; its value is cached with the reads its     *)
(* evaluation made, and is used again as long as these read the same.      *)
(* Between two frames, events change the program's values.  Handles are    *)
(* traced from the component's pins, and nothing else keeps a value alive. *)
(*                                                                         *)
(* The program is fixed in its data: a cell holds a list of rows, which    *)
(* are numbers, nodes with a handler, getters, or lists of numbers; it is  *)
(* open in the getters of its view, each of which stands for the           *)
(* instructions that observe the heap in one way, and in its events.       *)
(*                                                                         *)
(* Definitions whose name ends in _Mutant are faulty forms of those that   *)
(* follow them; no specification uses them.                                *)
(***************************************************************************)
EXTENDS Integers, Sequences, FiniteSets

CONSTANTS
  Views,      (* the views considered: sequences of getters, see Getter     *)
  MaxFrames,  (* bound of the model: frames                                 *)
  MaxEvents,  (* bound of the model: events                                 *)
  MaxRows     (* bound of the model: rows                                   *)

\* What a getter evaluates: the length of the rows, its first row, the whole
\* list printed, the rows themselves as children, the length of a copy it
\* makes, an operation of the host, or a count of its own evaluations, which it
\* writes; "pop" also takes the last row away.
Getter == {"length", "first", "print", "children", "copy", "host", "count", "pop"}

ASSUME ConstantsAssumption ==
  /\ Views # {} /\ Views \subseteq Seq(Getter)
  /\ {MaxFrames, MaxEvents} \subseteq Nat /\ MaxRows \in Nat \ {0}

VARIABLES
  view,      (* the getters of the view                                    *)
  outside,   (* what the operation of the host answers                     *)
  heap,      (* the slots, the free ones, the count of allocations         *)
  instance,  (* the component: its view getter and its two cells           *)
  pins,      (* handles the VM keeps alive                                 *)
  bindings,  (* the cached getters, by handle                              *)
  handlers,  (* the events of the frame                                    *)
  phase,     (* "idle", "walk", or "error", which the window then shows    *)
  todo,      (* what the frame that is rendered still has to visit         *)
  root,      (* the result of the getter evaluated last                    *)
  frames, events

vars == <<view, outside, heap, instance, pins, bindings, handlers, phase, todo,
          root, frames, events>>

(***************************************************************************)
(* The heap.  A handle is a slot and its generation; born is history: the  *)
(* allocation it was made by.                                              *)
(***************************************************************************)
Number(n) == [kind |-> "number", n |-> n]
Text(v) == [kind |-> "text", of |-> v]
Cell(h) == [kind |-> "cell", of |-> h]
List(items) == [kind |-> "list", items |-> items]
Node(handler) == [kind |-> "node", on |-> handler]
Closure(code, captures) ==
  [kind |-> "closure", code |-> code, captures |-> captures]
Free == [kind |-> "free"]

NoHandle == [slot |-> 0, generation |-> 0, born |-> 0]

Valid(hp, h) ==
  /\ h.slot \in DOMAIN hp.slots
  /\ hp.slots[h.slot].generation = h.generation
  /\ hp.slots[h.slot].value # Free
Get(hp, h) == hp.slots[h.slot].value

\* Heap::alloc takes the free slot that was freed last.
FreeLeft_Mutant(free) == free

FreeLeft(free) == IF free = <<>> THEN <<>> ELSE SubSeq(free, 1, Len(free) - 1)

NextSlot(hp) == IF hp.free = <<>> THEN Len(hp.slots) + 1 ELSE hp.free[Len(hp.free)]
NextSlotGeneration(hp) == IF hp.free = <<>> THEN 0 ELSE hp.slots[NextSlot(hp)].generation

Allocation(hp, value) ==
  [slots |-> [k \in DOMAIN hp.slots \cup {NextSlot(hp)} |->
                IF k = NextSlot(hp)
                THEN [value |-> value, generation |-> NextSlotGeneration(hp),
                      created |-> hp.allocations + 1, revision |-> 0]
                ELSE hp.slots[k]],
   free |-> FreeLeft(hp.free),
   allocations |-> hp.allocations + 1]

Alloc(hp, value) ==
  [heap |-> Allocation(hp, value),
   handle |-> [slot |-> NextSlot(hp), generation |-> NextSlotGeneration(hp),
               born |-> hp.allocations + 1]]

\* Several values one after the other.
AllocAll(hp, values) ==
  LET upto[i \in 0 .. Len(values)] ==
        IF i = 0 THEN [heap |-> hp, handles |-> <<>>]
        ELSE LET before == upto[i - 1]
                 new == Alloc(before.heap, values[i])
             IN [heap |-> new.heap,
                 handles |-> Append(before.handles, new.handle)]
  IN upto[Len(values)]

\* Heap::replace and Heap::get_mut.
Write_Mutant(hp, h, value) == [hp EXCEPT !.slots[h.slot].value = value]

Write(hp, h, value) ==
  [hp EXCEPT !.slots[h.slot].value = value, !.slots[h.slot].revision = @ + 1]

Kids(value) ==
  CASE value.kind = "cell" -> {value.of}
    [] value.kind = "list" -> {value.items[i] : i \in DOMAIN value.items}
    [] value.kind = "node" -> {value.on}
    [] value.kind = "closure" -> value.captures
    [] OTHER -> {}

Reached(hp, roots) ==
  LET within[n \in 0 .. Cardinality(DOMAIN hp.slots)] ==
        IF n = 0 THEN roots
        ELSE LET near == within[n - 1]
             IN near \cup UNION {Kids(Get(hp, h)) : h \in near}
  IN within[Cardinality(DOMAIN hp.slots)]

\* Heap::collect.  A freed slot gets a new generation.
NextGeneration_Mutant(generation) == generation

NextGeneration(generation) == generation + 1

Swept(hp, roots) ==
  LET marked == {h.slot : h \in Reached(hp, roots)}
  IN {i \in DOMAIN hp.slots : hp.slots[i].value # Free /\ i \notin marked}

\* They are swept in the order of their indices.
FreeAfter(hp, swept) ==
  LET freed[i \in 0 .. Len(hp.slots)] ==
        IF i = 0 THEN hp.free
        ELSE IF i \in swept THEN Append(freed[i - 1], i) ELSE freed[i - 1]
  IN freed[Len(hp.slots)]

Collect(hp, roots) ==
  LET swept == Swept(hp, roots)
  IN [slots |-> [i \in DOMAIN hp.slots |->
                   IF i \in swept
                   THEN [hp.slots[i] EXCEPT !.value = Free,
                           !.generation = NextGeneration(@)]
                   ELSE hp.slots[i]],
      free |-> FreeAfter(hp, swept),
      allocations |-> hp.allocations]

(***************************************************************************)
(* Captured reads.  A read is of a cell, of an item by its index, of a     *)
(* length, or of a whole entity; what it saw is an address, a size or a    *)
(* revision.                                                               *)
(***************************************************************************)
ReadCell == <<"cell", 0>>
ReadItem(i) == <<"item", i>>
ReadLength == <<"length", 0>>
ReadEntity == <<"entity", 0>>

Item(items, i) == IF i <= Len(items) THEN items[i] ELSE NoHandle

Observed(hp, h, read) ==
  LET value == Get(hp, h) IN
  CASE read = ReadCell /\ value.kind = "cell" -> value.of
    [] read[1] = "item" /\ value.kind = "list" -> Item(value.items, read[2])
    [] read = ReadLength /\ value.kind = "list" -> Len(value.items)
    [] OTHER -> hp.slots[h.slot].revision

\* Dependencies::dirty.
Dirty(b) ==
  \/ b.volatile
  \/ \E d \in b.reads : \/ ~Valid(heap, d.object)
                        \/ Observed(heap, d.object, d.read) # d.observed

\* Dependency::roots.
Sources(reads) ==
  ({d.object : d \in reads}
    \cup {d.observed : d \in {r \in reads : r.read[1] \in {"cell", "item"}}})
    \ {NoHandle}

(***************************************************************************)
(* Getters.  Each captures the cell of the rows and a counter of its own.  *)
(***************************************************************************)
View == Get(heap, instance).items[1]
State == Get(heap, instance).items[2]
Counter == Get(heap, instance).items[3]
Rows == Get(heap, State).of
Items == Get(heap, Rows).items
Nested(i) == Get(heap, Items[i]).kind = "list"

\* Structured printing: what it makes of the rows.  A closure has no printed
\* form, and a node holds its handler, which is one; nested rows are numbers.
Printable == \A i \in DOMAIN Items : Get(heap, Items[i]).kind \in {"number", "list"}

Leaf(h) == <<"number", Get(heap, h).n>>

Printed ==
  [i \in DOMAIN Items |->
     IF Nested(i)
     THEN <<"list", [j \in DOMAIN Get(heap, Items[i]).items |->
                       Leaf(Get(heap, Items[i]).items[j])]>>
     ELSE Leaf(Items[i])]

\* inspect() observes every entity on its way.
Inspected_Mutant == {<<Rows, ReadEntity>>}

Inspected ==
  {<<h, ReadEntity>> : h \in {Rows} \cup Kids(Get(heap, Rows))
      \cup UNION {Kids(Get(heap, Items[i])) : i \in DOMAIN Items}}

\* What the code of a getter observes, and whether it is volatile: because of
\* an operation of the host, or of a write to what it did not make itself.
Reads(code) ==
  CASE code \in {"view", "host"} -> {}
    [] code \in {"children", "pop"} -> {<<State, ReadCell>>}
    [] code = "length" -> {<<State, ReadCell>>, <<Rows, ReadLength>>}
    [] code = "first" -> {<<State, ReadCell>>, <<Rows, ReadItem(1)>>}
    [] code = "print" -> {<<State, ReadCell>>} \cup Inspected
    [] code = "copy" -> {<<State, ReadCell>>, <<Rows, ReadEntity>>}
    [] code = "count" -> {<<Counter, ReadCell>>}

Volatile(code) == code \in {"host", "count", "pop"}

\* An instruction that returns an error ends the evaluation.
Fails(code) == code = "print" /\ ~Printable

\* What it allocates, the last one being its result; the getters that return
\* what they have found allocate nothing.
Made(code) ==
  CASE code = "view" -> [i \in DOMAIN view |-> Closure(view[i], {State, Counter})]
    [] code \in {"length", "pop"} -> <<Number(Len(Items))>>
    [] code = "print" -> <<Text(Printed)>>
    [] code = "copy" -> <<List(Items), Number(Len(Items))>>
    [] code = "host" -> <<Number(outside)>>
    [] code = "count" -> <<Number(Get(heap, Get(heap, Counter).of).n + 1)>>
    [] code \in {"first", "children"} -> <<>>

\* What it has made, and its result.
Outcome(code) ==
  LET made == AllocAll(heap, Made(code))
      list == Alloc(made.heap, List(made.handles))
  IN [heap |-> IF code = "view" THEN list.heap ELSE made.heap,
      value |-> CASE code = "view" -> list.handle
                  [] code = "first" -> Items[1]
                  [] code = "children" -> Rows
                  [] OTHER -> made.handles[Len(made.handles)]]

\* What it writes.
AfterWrites(code, made) ==
  CASE code = "count" -> Write(made.heap, Counter, Cell(made.value))
    [] code = "pop" /\ Len(Items) > 1 ->
         Write(made.heap, Rows, List(SubSeq(Items, 1, Len(Items) - 1)))
    [] OTHER -> made.heap

Captured(code) ==
  {[object |-> r[1], read |-> r[2],
    observed |-> Observed(heap, r[1], r[2])] : r \in Reads(code)}

\* Vm::invoke_sync between begin_reads and end_reads: the code runs, and the
\* collection at its end has the capture among its roots.
Evaluation(code) ==
  LET made == Outcome(code)
  IN [value |-> made.value, reads |-> Captured(code), volatile |-> Volatile(code),
      heap |-> Collect(AfterWrites(code, made),
                       pins \cup {made.value} \cup Sources(Captured(code)))]

(***************************************************************************)
(* Component::render.                                                      *)
(***************************************************************************)
BindingPins(bs) ==
  DOMAIN bs \cup {bs[g].value : g \in DOMAIN bs}
    \cup UNION {Sources(bs[g].reads) : g \in DOMAIN bs}

BeginFrame ==
  /\ phase = "idle" /\ frames < MaxFrames
  /\ phase' = "walk"
  /\ frames' = frames + 1
  /\ bindings' = [g \in DOMAIN bindings |-> [bindings[g] EXCEPT !.seen = FALSE]]
  /\ pins' = {instance} \cup BindingPins(bindings)
  /\ handlers' = <<>>
  /\ todo' = <<View>>
  /\ UNCHANGED <<view, outside, heap, instance, root, events>>

Visiting == phase = "walk" /\ todo # <<>>
IsGetter(h) ==
  Valid(heap, h) /\ Get(heap, h).kind = "closure" /\ Get(heap, h).code # "handler"
Clean(g) == g \in DOMAIN bindings /\ ~Dirty(bindings[g])

\* A getter whose reads have not changed keeps its value.
Reuse ==
  LET g == Head(todo) IN
  /\ Visiting /\ IsGetter(g) /\ Clean(g)
  /\ bindings' = [bindings EXCEPT ![g].seen = TRUE]
  /\ todo' = <<bindings[g].value>> \o Tail(todo)
  /\ UNCHANGED <<view, outside, heap, instance, pins, handlers, phase, root,
                 frames, events>>

\* The others are evaluated; their result is pinned at once, for the next
\* evaluation collects.
ResultPins_Mutant(e) == Sources(e.reads)

ResultPins(e) == {e.value} \cup Sources(e.reads)

Evaluate ==
  LET g == Head(todo)
      e == Evaluation(Get(heap, g).code)
      b == [value |-> e.value, reads |-> e.reads, volatile |-> e.volatile,
            seen |-> TRUE]
  IN
  /\ Visiting /\ IsGetter(g) /\ ~Clean(g) /\ ~Fails(Get(heap, g).code)
  /\ heap' = e.heap
  /\ root' = e.value
  /\ bindings' = [k \in DOMAIN bindings \cup {g} |->
                    IF k = g THEN b ELSE bindings[k]]
  /\ pins' = pins \cup ResultPins(e)
  /\ todo' = <<e.value>> \o Tail(todo)
  /\ UNCHANGED <<view, outside, instance, handlers, phase, frames, events>>

\* Lists are flattened into a snapshot of their items, nodes have their
\* handlers collected.
Visit ==
  LET h == Head(todo) IN
  /\ Visiting /\ Valid(heap, h) /\ ~IsGetter(h)
  /\ LET value == Get(heap, h) IN
     /\ todo' = (IF value.kind = "list" THEN value.items ELSE <<>>) \o Tail(todo)
     /\ handlers' = IF value.kind = "node" THEN Append(handlers, value.on)
                                           ELSE handlers
  /\ UNCHANGED <<view, outside, heap, instance, pins, bindings, phase, root,
                 frames, events>>

\* A stale handle, or a getter that fails, ends the frame, and with it the
\* session.
FailFrame ==
  /\ Visiting
  /\ LET g == Head(todo) IN
     \/ ~Valid(heap, g)
     \/ IsGetter(g) /\ ~Clean(g) /\ Fails(Get(heap, g).code)
  /\ phase' = "error"
  /\ UNCHANGED <<view, outside, heap, instance, pins, bindings, handlers, todo,
                 root, frames, events>>

\* Bindings that the frame has not met are dropped, and what only they and
\* the frame before kept alive is collected.
FramePins_Mutant(bs) == {instance} \cup BindingPins(bs)

FramePins(bs) ==
  {instance} \cup BindingPins(bs) \cup {handlers[i] : i \in DOMAIN handlers}

\* A collection that meets a stale handle fails.
EndFrame ==
  /\ phase = "walk" /\ todo = <<>>
  /\ bindings' = [g \in {k \in DOMAIN bindings : bindings[k].seen} |-> bindings[g]]
  /\ pins' = FramePins(bindings')
  /\ \/ /\ \A h \in pins' : Valid(heap, h)
        /\ phase' = "idle"
        /\ heap' = Collect(heap, pins' \cup {root})
     \/ /\ \E h \in pins' : ~Valid(heap, h)
        /\ phase' = "error"
        /\ heap' = heap
  /\ UNCHANGED <<view, outside, instance, handlers, todo, root, frames, events>>

(***************************************************************************)
(* Events: a handler or a method of the component has run to the end of a  *)
(* turn, which collects.                                                   *)
(***************************************************************************)
Happens(hp) ==
  /\ phase = "idle" /\ events < MaxEvents
  /\ events' = events + 1
  /\ heap' = Collect(hp, pins \cup {root})
  /\ UNCHANGED <<view, instance, pins, bindings, handlers, phase, todo, root,
                 frames>>

Fresh == Number(events + 2)

\* rows[i] = n, and rows[i][0] = n.
SetRow ==
  \E i \in DOMAIN Items :
    LET new == Alloc(heap, Fresh)
        list == IF Nested(i) THEN Items[i] ELSE Rows
        at == IF Nested(i) THEN 1 ELSE i
    IN /\ Happens(Write(new.heap, list,
                        List([Get(heap, list).items EXCEPT ![at] = new.handle])))
       /\ UNCHANGED outside

\* A number, a node, or a getter: the last only in programs whose getters
\* take rows away in any case.
Pops == \E i \in DOMAIN view : view[i] = "pop"

PushRow ==
  /\ Len(Items) < MaxRows
  /\ \/ LET new == Alloc(heap, Fresh)
        IN Happens(Write(new.heap, Rows, List(Append(Items, new.handle))))
     \/ LET handler == Alloc(heap, Closure("handler", {State}))
            node == Alloc(handler.heap, Node(handler.handle))
        IN Happens(Write(node.heap, Rows, List(Append(Items, node.handle))))
     \/ LET getter == Alloc(heap, Closure("pop", {State, Counter}))
        IN /\ Pops
           /\ Happens(Write(getter.heap, Rows, List(Append(Items, getter.handle))))
  /\ UNCHANGED outside

PopRow ==
  /\ Len(Items) > 1
  /\ Happens(Write(heap, Rows, List(SubSeq(Items, 1, Len(Items) - 1))))
  /\ UNCHANGED outside

\* The program puts another list in the place of its rows.
NewRows ==
  LET number == Alloc(heap, Fresh)
      list == Alloc(number.heap, List(<<number.handle>>))
  IN Happens(Write(list.heap, State, Cell(list.handle))) /\ UNCHANGED outside

World ==
  /\ Happens(heap)
  /\ outside' = events + 2

(***************************************************************************)
(* The specification.                                                      *)
(***************************************************************************)
EmptyHeap == [slots |-> <<>>, free |-> <<>>, allocations |-> 0]

\* The rows of the program: a number, and a list with a number in it.
FirstRows ==
  LET leaves == AllocAll(EmptyHeap, <<Number(0), Number(1)>>)
      inner == Alloc(leaves.heap, List(<<leaves.handles[2]>>))
      rows == Alloc(inner.heap, List(<<leaves.handles[1], inner.handle>>))
  IN [heap |-> rows.heap, rows |-> rows.handle, count |-> leaves.handles[1]]

\* Its component: the view getter and the two cells.
Instance(hp, rows, count) ==
  LET state == Alloc(hp, Cell(rows))
      counter == Alloc(state.heap, Cell(count))
      getter == Alloc(counter.heap, Closure("view", {state.handle, counter.handle}))
  IN Alloc(getter.heap, List(<<getter.handle, state.handle, counter.handle>>))

Init ==
  /\ view \in Views
  /\ outside = 0
  /\ LET first == FirstRows
         top == Instance(first.heap, first.rows, first.count)
     IN heap = top.heap /\ instance = top.handle
  /\ pins = {instance} /\ root = instance
  /\ bindings = [g \in {} |-> 0] /\ handlers = <<>>
  /\ phase = "idle" /\ todo = <<>>
  /\ frames = 0 /\ events = 0

Next ==
  \/ BeginFrame \/ Reuse \/ Evaluate \/ Visit \/ FailFrame \/ EndFrame
  \/ SetRow \/ PushRow \/ PopRow \/ NewRows \/ World

Spec == Init /\ [][Next]_vars

(***************************************************************************)
(* Properties.                                                             *)
(***************************************************************************)
Held ==
  pins \cup BindingPins(bindings) \cup {handlers[i] : i \in DOMAIN handlers}

\* The heap is well formed: a slot is free exactly if it is in the free list,
\* once, and what is allocated was allocated by a call of its own.
TypeOK ==
  /\ phase \in {"idle", "walk", "error"}
  /\ frames \in 0 .. MaxFrames /\ events \in 0 .. MaxEvents
  /\ LET free == {i \in DOMAIN heap.slots : heap.slots[i].value = Free} IN
     /\ {heap.free[i] : i \in DOMAIN heap.free} = free
     /\ Len(heap.free) = Cardinality(free)
  /\ \A i, j \in DOMAIN heap.slots :
       i # j => heap.slots[i].created # heap.slots[j].created
  /\ \A g \in DOMAIN bindings : bindings[g].seen \in BOOLEAN

\* The heart of the bindings: a getter that is not dirty would evaluate to
\* what is cached, and would not fail, whatever events, other getters and
\* collections have done since; nothing is shown that the program no longer
\* says.
Meaning(code) ==
  CASE code \in {"length", "copy"} -> Number(Len(Items))
    [] code = "first" -> Get(heap, Items[1])
    [] code = "print" -> IF Printable THEN Text(Printed) ELSE Free
    [] code = "children" -> Get(heap, Rows)
    [] code = "host" -> Number(outside)

CachedIsCurrent ==
  \A g \in DOMAIN bindings :
    LET code == Get(heap, g).code IN
    Valid(heap, g) /\ Clean(g) /\ code \notin {"view", "count", "pop"} =>
      Get(heap, bindings[g].value) = Meaning(code)

\* Between frames nothing the component may still use has been collected: the
\* events of the frame that is shown, the getters, what they have cached, and
\* the values their reads compare with.
NothingDangles == phase = "idle" => \A h \in Held : Valid(heap, h)

\* A handle never reaches a value it was not made for, although slots are
\* used again, frames walk over snapshots of lists, and getters may change
\* the list they are in: such a handle is stale instead.
NoAlias ==
  \A h \in Held \cup {todo[i] : i \in DOMAIN todo} :
    Valid(heap, h) => heap.slots[h.slot].created = h.born

\* A frame fails only because of its program: of a getter that takes away what
\* others show, or of one that prints rows among which there is a closure.
\* Neither the collections within and between frames nor what events have
\* changed since a getter was cached make one fail.
Unprinted == ~Printable /\ \E i \in DOMAIN view : view[i] = "print"

FramesComplete == phase = "error" => Pops \/ Unprinted
=============================================================================
