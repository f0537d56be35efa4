-------------------------- MODULE VmSchedulerProofs --------------------------
(***************************************************************************)
(* Proofs about VmScheduler, for every program and every bound: no wake is *)
(* lost, a combinator is settled by the input that was settled first, a    *)
(* timer that was cleared is gone, and the end of the VM answers whoever   *)
(* called a callback.                                                      *)
(*                                                                         *)
(* The four properties are parts of one inductive invariant, because they  *)
(* lean on the same types and on the same account of what a scan of a      *)
(* combinator has seen.                                                    *)
(***************************************************************************)
EXTENDS VmScheduler, TLAPS, SequenceTheorems, WellFoundedInduction

(***************************************************************************)
(* The types of the state.  Promises and tasks have identifiers below      *)
(* nextTask; the tables of outcomes and orders have one entry for each.    *)
(***************************************************************************)
Below(n) == {p \in 1 .. n : p < n}
Issued == Below(nextTask)
Settled == {"value", "thrown", "fault"}

CodeWork ==
  [kind : {"code"}, ops : Int, await : Nat, job : Nat, event : BOOLEAN]
HostWork ==
  [kind : {"host"}, ready : BOOLEAN, answer : {"none", "ok", "fail"},
   armed : BOOLEAN, job : Nat, repeat : BOOLEAN]
JoinWork ==
  [kind : {"join"}, race : BOOLEAN, inputs : Seq(Nat), cursor : Nat,
   created : Nat, scan : Nat, checked : Int, seen : SUBSET Nat,
   first : SUBSET (Nat \X Nat)]
WaitWork == [kind : {"wait"}, on : Nat]
AnyWork == CodeWork \cup HostWork \cup JoinWork \cup WaitWork
AnyTask == [work : AnyWork, waiting : Nat, call : Nat]

\* Only calls of callbacks from outside owe an answer.
Command == [op : {"spawn", "cancel", "call"}, job : Nat, repeat : BOOLEAN, call : Nat]
Commands == {c \in Command : c.call # 0 => c.op = "call" /\ c.job = 0}

Verdict == [race : BOOLEAN, inputs : Seq(Nat), created : Nat, winner : Nat]

TurnTypes ==
  /\ program \in Program
  /\ phase \in {"idle", "start", "tasks", "end", "closed"}
  /\ batch \in 0 .. Len(queue) /\ left \in Nat /\ slice \in 0 .. left
  /\ batch # 0 => phase \in {"start", "end"}
  /\ ids \subseteq Live /\ (phase # "tasks" => ids = {})
  /\ running \in {0} \cup Live
  /\ running = 0 => slice = 0
  /\ running # 0 => slice > 0 /\ phase = "tasks" /\ running \notin ids
  /\ progressed \in BOOLEAN /\ deferred \in BOOLEAN /\ wake \in BOOLEAN

TableTypes ==
  /\ Live \subseteq Issued
  /\ \A t \in Live : tasks[t] \in AnyTask
  /\ queue \in Seq(Commands)
  /\ nextJob \in Nat \ {0}
  /\ cancelled \subseteq Nat \ {0}
  /\ DOMAIN calls = 1 .. MaxCalls

PromiseTypes ==
  /\ nextTask \in Nat \ {0} /\ epoch \in Nat
  /\ outcome \in [Issued -> {"pending"} \cup Settled]
  /\ order \in [Issued -> Nat]
  /\ \A p \in Issued : /\ order[p] <= epoch
                       /\ (order[p] = 0) <=> Pending(p)

Types == TurnTypes /\ TableTypes /\ PromiseTypes

(***************************************************************************)
(* A combinator w.  What its scan has passed is accounted for: its claims  *)
(* in first, its values in seen.  An input that was settled behind the     *)
(* cursor is newer than the scan.                                          *)
(***************************************************************************)
Claims(w, i) ==
  /\ ~Pending(w.inputs[i])
  /\ w.race \/ outcome[w.inputs[i]] = "thrown"
Rank(w, i) == <<Clamped(w.inputs[i], w.created), i>>

\* The combinator has no input to settle on.
Idles(w) ==
  /\ \E i \in DOMAIN w.inputs : Pending(w.inputs[i])
  /\ \A i \in DOMAIN w.inputs :
       \/ Pending(w.inputs[i])
       \/ ~w.race /\ outcome[w.inputs[i]] = "value"

Leads(w) ==
  /\ \A c \in w.first :
       /\ c[2] \in DOMAIN w.inputs
       /\ Claims(w, c[2]) /\ c = Rank(w, c[2])
  /\ \A a, b \in w.first : Sooner(a, b)
  /\ \A i \in w.seen : i \in DOMAIN w.inputs /\ outcome[w.inputs[i]] = "value"

Passed(w, i) ==
  ~Pending(w.inputs[i]) /\ order[w.inputs[i]] <= w.scan =>
    /\ Claims(w, i) => \E c \in w.first : Sooner(c, Rank(w, i))
    /\ outcome[w.inputs[i]] = "value" => i \in w.seen
    /\ outcome[w.inputs[i]] # "fault"

ScanSound(w) ==
  /\ w.created <= w.scan /\ w.scan <= epoch /\ w.checked <= epoch
  /\ w.cursor <= Len(w.inputs)
  /\ Leads(w)
  /\ \A i \in 1 .. w.cursor : Passed(w, i)
  /\ w.checked = epoch => Idles(w)

(***************************************************************************)
(* A task k under the identifier t.                                        *)
(***************************************************************************)
InputsBelow(w, t) ==
  Len(w.inputs) # 0 /\ \A i \in DOMAIN w.inputs : 0 < w.inputs[i] /\ w.inputs[i] < t

Sound(t, k) ==
  /\ k.waiting < nextTask
  /\ k.work.kind = "code" => k.work.await < nextTask
  /\ k.work.kind = "wait" => k.work.on \in Issued
  /\ k.work.kind = "host" =>
       /\ k.waiting = 0 /\ k.call = 0
       /\ k.work.ready \/ (k.work.armed /\ k.work.answer = "none")
  /\ k.work.kind = "join" =>
       /\ k.waiting = 0
       /\ InputsBelow(k.work, t) /\ ScanSound(k.work)

TasksSound == \A t \in Live : Pending(t) /\ Sound(t, tasks[t])

(***************************************************************************)
(* The parts that belong to the four properties.                           *)
(***************************************************************************)
VerdictSound(v) ==
  /\ v \in Verdict /\ v.created <= epoch
  /\ \A i \in DOMAIN v.inputs : v.inputs[i] \in Issued
  /\ IF v.winner = 0
     THEN ~v.race /\ \A i \in DOMAIN v.inputs : outcome[v.inputs[i]] = "value"
     ELSE /\ v.winner \in DOMAIN v.inputs /\ Claims(v, v.winner)
          /\ \A i \in DOMAIN v.inputs :
               Claims(v, i) => Sooner(Rank(v, v.winner), Rank(v, i))

VerdictsSound == \A v \in verdicts : VerdictSound(v)

\* A task of a timer that was cleared has its end in the queue.
EndQueued(job) ==
  \E i \in DOMAIN queue : queue[i].op = "cancel" /\ queue[i].job = job

TimersEnd ==
  \A t \in Live : \A job \in cancelled : IsJob(t, job) => EndQueued(job)

\* Somebody owes an answer to this call.
Owed(call) ==
  \/ \E t \in Live : tasks[t].call = call
  \/ \E i \in DOMAIN queue : queue[i].op = "call" /\ queue[i].call = call

AnswersOwed ==
  /\ \A c \in DOMAIN calls : calls[c] = "made" => Owed(c)
  /\ phase = "closed" => Live = {} /\ queue = <<>>

\* A task that can do nothing, as it is left between two turns.
Waits(k) ==
  CASE k.work.kind \in {"code", "wait"} -> k.waiting # 0 /\ Pending(k.waiting)
    [] k.work.kind = "host" -> k.work.armed /\ k.work.answer = "none"
    [] k.work.kind = "join" -> Idles(k.work)

\* What makes the turn that runs ask for another one.
Busy == wake \/ progressed \/ deferred

WakesKept ==
  /\ phase = "idle" /\ ~wake =>
       /\ program.drive = "turn" \/ queue = <<>>
       /\ \A t \in Live : Waits(tasks[t])
  /\ phase = "tasks" /\ ~Busy =>
       \A t \in Live : Waits(tasks[t]) \/ t \in ids \/ t = running
  /\ phase = "end" /\ ~Busy => batch = 0 /\ \A t \in Live : Waits(tasks[t])

SchedulerInvariant ==
  /\ Types /\ TasksSound
  /\ VerdictsSound /\ TimersEnd /\ AnswersOwed /\ WakesKept

(***************************************************************************)
(* The order in which inputs claim a combinator.                           *)
(***************************************************************************)
Pairs == Nat \X Nat

\* Of two claims one is sooner.
LEMMA SoonerIsTotal ==
  ASSUME NEW a \in Pairs, NEW b \in Pairs
  PROVE  Sooner(a, b) \/ Sooner(b, a)
  BY DEF Sooner, Pairs

\* Being sooner carries over.
LEMMA SoonerIsTransitive ==
  ASSUME NEW a \in Pairs, NEW b \in Pairs, NEW c \in Pairs,
         Sooner(a, b), Sooner(b, c)
  PROVE  Sooner(a, c)
  BY DEF Sooner, Pairs

\* A set of natural numbers that is not empty has a least member.
LEMMA LeastNumber ==
  ASSUME NEW S \in SUBSET Nat, S # {}
  PROVE  \E n \in S : \A m \in S : n <= m
<1> DEFINE Less == OpToRel(<, Nat)
<1>1. PICK n \in S : \A m \in S : <<m, n>> \notin Less
  <2>1. IsWellFoundedOn(Less, Nat)
    BY NatLessThanWellFounded
  <2> HIDE DEF Less
  <2> QED
    BY <2>1, WFMin
<1>2. \A m \in S : ~(m < n)
  BY <1>1 DEF OpToRel
<1> QED
  BY <1>2

\* Among claims there is one that is sooner than every other.
LEMMA SoonestExists ==
  ASSUME NEW S \in SUBSET Pairs, S # {}
  PROVE  \E c \in Soonest(S) : \A b \in S : Sooner(c, b)
<1> DEFINE Firsts == {c[1] : c \in S}
<1>1. Firsts \in SUBSET Nat /\ Firsts # {}
  BY DEF Pairs
<1>2. PICK n \in Firsts : \A m \in Firsts : n <= m
  <2> HIDE DEF Firsts
  <2> QED
    BY <1>1, LeastNumber
<1> DEFINE Seconds == {c[2] : c \in {c \in S : c[1] = n}}
<1>3. Seconds \in SUBSET Nat /\ Seconds # {}
  BY <1>2 DEF Pairs
<1>4. PICK k \in Seconds : \A m \in Seconds : k <= m
  <2> HIDE DEF Seconds
  <2> QED
    BY <1>3, LeastNumber
<1>5. PICK c \in S : c[1] = n /\ c[2] = k
  BY <1>4
<1>6. ASSUME NEW b \in S PROVE Sooner(c, b)
  <2>1. n \in Nat /\ k \in Nat /\ b[1] \in Nat /\ b[2] \in Nat /\ n <= b[1]
    BY <1>1, <1>2, <1>3 DEF Pairs
  <2>2. b[1] = n => k <= b[2]
    BY <1>4
  <2> QED
    BY <1>5, <2>1, <2>2 DEF Sooner
<1> QED
  BY <1>6 DEF Soonest

LEMMA SoonestLeads ==
  ASSUME NEW S, NEW a \in Soonest(S)
  PROVE  a \in S /\ \A b \in S : Sooner(a, b)
  BY DEF Soonest

(***************************************************************************)
(* Time goes forward: promises are issued and settled, and what is settled *)
(* stays as it is.  What was said of a combinator before holds after.      *)
(***************************************************************************)
Advance ==
  /\ PromiseTypes /\ PromiseTypes'
  /\ nextTask <= nextTask' /\ epoch <= epoch'
  /\ \A p \in Issued :
       \/ outcome'[p] = outcome[p] /\ order'[p] = order[p]
       \/ Pending(p) /\ ~Pending(p)' /\ order'[p] > epoch /\ epoch' > epoch

\* The fields of a combinator.
LEMMA JoinTypes ==
  ASSUME NEW w \in JoinWork
  PROVE  /\ w.race \in BOOLEAN /\ w.inputs \in Seq(Nat) /\ w.cursor \in Nat
         /\ w.created \in Nat /\ w.scan \in Nat /\ w.checked \in Int
         /\ w.seen \in SUBSET Nat /\ w.first \in SUBSET Pairs
         /\ w.kind = "join"
         /\ DOMAIN w.inputs = 1 .. Len(w.inputs) /\ Len(w.inputs) \in Nat
<1>1. /\ w.race \in BOOLEAN /\ w.inputs \in Seq(Nat) /\ w.cursor \in Nat
      /\ w.created \in Nat /\ w.scan \in Nat /\ w.checked \in Int
      /\ w.seen \in SUBSET Nat /\ w.first \in SUBSET Pairs
      /\ w.kind = "join"
  BY DEF JoinWork, Pairs
<1> QED
  BY <1>1, LenProperties

LEMMA AdvanceTypes ==
  ASSUME Advance
  PROVE  /\ nextTask \in Nat /\ nextTask' \in Nat /\ nextTask <= nextTask'
         /\ epoch \in Nat /\ epoch' \in Nat /\ epoch <= epoch'
         /\ \A p \in Issued : /\ p \in Issued' /\ p \in Nat
                              /\ order[p] \in Nat /\ order[p] <= epoch
                              /\ order'[p] \in Nat /\ order'[p] <= epoch'
<1>1. /\ nextTask \in Nat /\ nextTask' \in Nat /\ nextTask <= nextTask'
      /\ epoch \in Nat /\ epoch' \in Nat /\ epoch <= epoch'
  BY DEF Advance, PromiseTypes
<1>2. \A p \in Issued : p \in Issued' /\ p \in Nat
  BY <1>1 DEF Issued, Below
<1> QED
  BY <1>1, <1>2 DEF Advance, PromiseTypes

\* A settled promise stays as it is.
LEMMA AdvanceSettled ==
  ASSUME Advance, NEW p \in Issued, ~Pending(p)
  PROVE  /\ p \in Issued' /\ outcome'[p] = outcome[p] /\ order'[p] = order[p]
         /\ ~Pending(p)'
<1>1. p \in Issued'
  BY AdvanceTypes
<1>2. outcome'[p] = outcome[p] /\ order'[p] = order[p]
  BY DEF Advance
<1> QED
  BY <1>1, <1>2 DEF Pending

\* A promise that is settled now is newer than all before.
LEMMA AdvancePending ==
  ASSUME Advance, NEW p \in Issued
  PROVE  /\ p \in Issued'
         /\ Pending(p)' => Pending(p)
         /\ epoch' = epoch => outcome'[p] = outcome[p] /\ order'[p] = order[p]
         /\ Pending(p) /\ ~Pending(p)' => order'[p] > epoch
<1>1. p \in Issued' /\ epoch \in Nat /\ epoch' \in Nat
  BY AdvanceTypes
<1>2. \/ outcome'[p] = outcome[p] /\ order'[p] = order[p]
      \/ Pending(p) /\ ~Pending(p)' /\ order'[p] > epoch /\ epoch' > epoch
  BY DEF Advance
<1> QED
  BY <1>1, <1>2 DEF Pending

\* The rank of an input that claims a combinator does not change, and a claim
\* that is new ranks behind all before.
LEMMA RankStays ==
  ASSUME Advance,
         NEW w, w.inputs \in Seq(Nat), w.created \in Nat, w.created <= epoch,
         w.race \in BOOLEAN,
         NEW i \in DOMAIN w.inputs, w.inputs[i] \in Issued
  PROVE  /\ Rank(w, i) \in Pairs /\ Rank(w, i)' \in Pairs
         /\ Claims(w, i) => Claims(w, i)' /\ Rank(w, i)' = Rank(w, i)
         /\ Rank(w, i)[1] <= epoch
         /\ Claims(w, i)' /\ ~Claims(w, i) => Rank(w, i)'[1] > epoch
<1>1. i \in Nat
  BY LenProperties
<1>2. PICK p \in Issued : p = w.inputs[i]
  OBVIOUS
<1>3. /\ order[p] \in Nat /\ order[p] <= epoch /\ order'[p] \in Nat /\ epoch \in Nat
  BY <1>2, AdvanceTypes
<1>4. /\ Clamped(p, w.created) \in Nat /\ Clamped(p, w.created) <= epoch
      /\ Clamped(p, w.created)' \in Nat
      /\ order'[p] > epoch => Clamped(p, w.created)' > epoch
      /\ order'[p] = order[p] => Clamped(p, w.created)' = Clamped(p, w.created)
  BY <1>3 DEF Clamped
<1>5. /\ Rank(w, i) = <<Clamped(p, w.created), i>>
      /\ Rank(w, i)' = <<Clamped(p, w.created)', i>>
  BY <1>2 DEF Rank
<1>6. Rank(w, i) \in Pairs /\ Rank(w, i)' \in Pairs /\ Rank(w, i)[1] <= epoch
  BY <1>1, <1>4, <1>5 DEF Pairs
<1>7. ASSUME Claims(w, i) PROVE Claims(w, i)' /\ Rank(w, i)' = Rank(w, i)
  <2>1. ~Pending(p) /\ (w.race \/ outcome[p] = "thrown")
    BY <1>2, <1>7 DEF Claims
  <2>2. outcome'[p] = outcome[p] /\ order'[p] = order[p] /\ ~Pending(p)'
    BY <2>1, AdvanceSettled
  <2> QED
    BY <1>2, <1>4, <1>5, <2>1, <2>2 DEF Claims
<1>8. ASSUME Claims(w, i)', ~Claims(w, i) PROVE Rank(w, i)'[1] > epoch
  <2>1. ~Pending(p)' /\ (w.race \/ outcome'[p] = "thrown")
    BY <1>2, <1>8 DEF Claims
  <2>2. Pending(p)
    <3>1. SUFFICES ASSUME ~Pending(p) PROVE Claims(w, i)
      BY <1>8
    <3>2. outcome'[p] = outcome[p]
      BY <3>1, AdvanceSettled
    <3> QED
      BY <1>2, <2>1, <3>1, <3>2 DEF Claims
  <2>3. order'[p] > epoch
    BY <2>1, <2>2, AdvancePending
  <2> QED
    BY <1>4, <1>5, <2>3
<1> QED
  BY <1>6, <1>7, <1>8

\* Whether a combinator idles depends on the outcomes of its inputs alone.
LEMMA IdlesStays ==
  ASSUME NEW w, \A i \in DOMAIN w.inputs : outcome'[w.inputs[i]] = outcome[w.inputs[i]],
         Idles(w)
  PROVE  Idles(w)'
  BY DEF Idles, Pending

\* The account of a scan stays true.
LEMMA ScanStays ==
  ASSUME Advance, NEW w \in JoinWork,
         \A i \in DOMAIN w.inputs : w.inputs[i] \in Issued,
         ScanSound(w)
  PROVE  ScanSound(w)'
<1>1. /\ w.created \in Nat /\ w.scan \in Nat /\ w.checked \in Int /\ w.cursor \in Nat
      /\ w.inputs \in Seq(Nat) /\ w.race \in BOOLEAN
      /\ DOMAIN w.inputs = 1 .. Len(w.inputs) /\ Len(w.inputs) \in Nat
  BY JoinTypes
<1>2. epoch \in Nat /\ epoch' \in Nat /\ epoch <= epoch'
  BY AdvanceTypes
<1>3. /\ w.created <= w.scan /\ w.scan <= epoch /\ w.checked <= epoch
      /\ w.cursor <= Len(w.inputs) /\ Leads(w)
      /\ \A i \in 1 .. w.cursor : Passed(w, i)
      /\ w.checked = epoch => Idles(w)
  BY DEF ScanSound
<1>4. w.created <= epoch
  BY <1>1, <1>2, <1>3
<1>5. ASSUME NEW i \in DOMAIN w.inputs
      PROVE  Claims(w, i) => Claims(w, i)' /\ Rank(w, i)' = Rank(w, i)
  BY <1>1, <1>4, <1>5, RankStays
<1>6. Leads(w)'
  <2>1. \A c \in w.first :
          c[2] \in DOMAIN w.inputs /\ Claims(w, c[2])' /\ c = Rank(w, c[2])'
    BY <1>3, <1>5 DEF Leads
  <2>2. \A a, b \in w.first : Sooner(a, b)
    BY <1>3 DEF Leads
  <2>3. ASSUME NEW i \in w.seen
        PROVE  i \in DOMAIN w.inputs /\ outcome'[w.inputs[i]] = "value"
    <3>1. i \in DOMAIN w.inputs /\ outcome[w.inputs[i]] = "value"
      BY <1>3 DEF Leads
    <3>2. ~Pending(w.inputs[i]) /\ w.inputs[i] \in Issued
      BY <3>1 DEF Pending
    <3> QED
      BY <3>1, <3>2, AdvanceSettled
  <2> QED
    BY <2>1, <2>2, <2>3 DEF Leads
<1>7. ASSUME NEW i \in 1 .. w.cursor PROVE Passed(w, i)'
  <2>1. i \in DOMAIN w.inputs
    BY <1>1, <1>3
  <2>2. PICK p \in Issued : p = w.inputs[i]
    BY <2>1
  <2>3. SUFFICES ASSUME ~Pending(p)', order'[p] <= w.scan
                 PROVE  /\ Claims(w, i)' => \E c \in w.first : Sooner(c, Rank(w, i)')
                        /\ outcome'[p] = "value" => i \in w.seen
                        /\ outcome'[p] # "fault"
    BY <2>2 DEF Passed
  <2>4. ~Pending(p)
    <3>1. order'[p] \in Nat /\ (Pending(p) => order'[p] > epoch)
      BY <2>3, AdvancePending, AdvanceTypes
    <3> QED
      BY <1>1, <1>2, <1>3, <2>3, <3>1
  <2>5. outcome'[p] = outcome[p] /\ order'[p] = order[p]
    BY <2>4, AdvanceSettled
  <2>6. /\ Claims(w, i) => \E c \in w.first : Sooner(c, Rank(w, i))
        /\ outcome[p] = "value" => i \in w.seen
        /\ outcome[p] # "fault"
    BY <1>3, <2>2, <2>3, <2>4, <2>5 DEF Passed
  <2>7. Claims(w, i)' => Claims(w, i)
    BY <2>2, <2>4, <2>5 DEF Claims
  <2> QED
    BY <1>5, <2>1, <2>5, <2>6, <2>7
<1>8. ASSUME w.checked = epoch' PROVE Idles(w)'
  <2>1. epoch' = epoch /\ w.checked = epoch
    BY <1>1, <1>2, <1>3, <1>8
  <2>2. \A i \in DOMAIN w.inputs : outcome'[w.inputs[i]] = outcome[w.inputs[i]]
    BY <2>1, AdvancePending
  <2> QED
    BY <1>3, <2>1, <2>2, IdlesStays
<1>9. w.scan <= epoch' /\ w.checked <= epoch'
  BY <1>1, <1>2, <1>3
<1> QED
  BY <1>3, <1>6, <1>7, <1>8, <1>9 DEF ScanSound

\* The verdict on a combinator stays true, whatever is settled later.
LEMMA VerdictStays ==
  ASSUME Advance, NEW v, VerdictSound(v)
  PROVE  VerdictSound(v)'
<1>1. /\ v \in Verdict /\ v.created <= epoch
      /\ \A i \in DOMAIN v.inputs : v.inputs[i] \in Issued
  BY DEF VerdictSound
<1>2. /\ v.race \in BOOLEAN /\ v.inputs \in Seq(Nat) /\ v.created \in Nat
      /\ epoch \in Nat /\ epoch' \in Nat /\ epoch <= epoch'
  BY <1>1, AdvanceTypes DEF Verdict
<1>3. v.created <= epoch' /\ \A i \in DOMAIN v.inputs : v.inputs[i] \in Issued'
  BY <1>1, <1>2, AdvanceTypes
<1>4. CASE v.winner = 0
  <2>1. ~v.race /\ \A i \in DOMAIN v.inputs : outcome[v.inputs[i]] = "value"
    BY <1>4 DEF VerdictSound
  <2>2. \A i \in DOMAIN v.inputs : outcome'[v.inputs[i]] = "value"
    BY <1>1, <2>1, AdvanceSettled DEF Pending
  <2> QED
    BY <1>1, <1>3, <1>4, <2>1, <2>2 DEF VerdictSound
<1>5. CASE v.winner # 0
  <2>1. /\ v.winner \in DOMAIN v.inputs /\ Claims(v, v.winner)
        /\ \A i \in DOMAIN v.inputs :
             Claims(v, i) => Sooner(Rank(v, v.winner), Rank(v, i))
    BY <1>5 DEF VerdictSound
  <2>2. /\ Claims(v, v.winner)' /\ Rank(v, v.winner)' = Rank(v, v.winner)
        /\ Rank(v, v.winner) \in Pairs /\ Rank(v, v.winner)[1] <= epoch
    BY <1>1, <1>2, <2>1, RankStays
  <2>3. ASSUME NEW i \in DOMAIN v.inputs, Claims(v, i)'
        PROVE  Sooner(Rank(v, v.winner), Rank(v, i))'
    <3>1. /\ Claims(v, i) => Rank(v, i)' = Rank(v, i)
          /\ ~Claims(v, i) => Rank(v, i)'[1] > epoch
          /\ Rank(v, i)' \in Pairs
      BY <1>1, <1>2, <2>3, RankStays
    <3>2. CASE Claims(v, i)
      BY <2>1, <2>2, <3>1, <3>2 DEF Sooner
    <3>3. CASE ~Claims(v, i)
      <4>1. PICK a \in Pairs, b \in Pairs :
              a = Rank(v, v.winner)' /\ b = Rank(v, i)' /\ a[1] <= epoch /\ b[1] > epoch
        BY <2>2, <3>1, <3>3
      <4>2. Sooner(a, b)
        BY <1>2, <4>1 DEF Sooner, Pairs
      <4> QED
        BY <4>1, <4>2 DEF Sooner
    <3> QED
      BY <3>2, <3>3
  <2> QED
    BY <1>1, <1>3, <1>5, <2>1, <2>2, <2>3 DEF VerdictSound
<1> QED
  BY <1>4, <1>5

(***************************************************************************)
(* One poll of a combinator: what Scanned makes of its account.            *)
(***************************************************************************)
InputsIssued(w) == \A i \in DOMAIN w.inputs : w.inputs[i] \in Issued

ScanEnd(w) == AtMost(w.cursor + slice, Len(w.inputs))
ScanSettled(w) == {i \in w.cursor + 1 .. ScanEnd(w) : ~Pending(w.inputs[i])}
ScanClaims(w) == {i \in ScanSettled(w) : w.race \/ outcome[w.inputs[i]] = "thrown"}
ScanFirst(w) == w.first \cup {Rank(w, i) : i \in ScanClaims(w)}

\* The fields of a combinator after a poll.
LEMMA ScannedIs ==
  ASSUME NEW w \in JoinWork
  PROVE  /\ Scanned(w).kind = "join"
         /\ Scanned(w).race = w.race /\ Scanned(w).inputs = w.inputs
         /\ Scanned(w).created = w.created /\ Scanned(w).checked = w.checked
         /\ Scanned(w).cursor = ScanEnd(w)
         /\ Scanned(w).scan = IF w.cursor = 0 THEN epoch ELSE w.scan
         /\ Scanned(w).seen =
              w.seen \cup {i \in ScanSettled(w) : outcome[w.inputs[i]] = "value"}
         /\ Scanned(w).first = Soonest(ScanFirst(w))
         /\ DOMAIN Scanned(w) = DOMAIN w
<1> DEFINE e == ScanEnd(w)
           sc == IF w.cursor = 0 THEN epoch ELSE w.scan
           se == w.seen \cup {i \in ScanSettled(w) : outcome[w.inputs[i]] = "value"}
           fi == Soonest(ScanFirst(w))
<1>1. Scanned(w) = [w EXCEPT !.cursor = e, !.scan = sc, !.seen = se, !.first = fi]
  BY DEF Scanned, ScanEnd, ScanSettled, ScanClaims, ScanFirst, Rank, JoinWork
<1> HIDE DEF e, sc, se, fi
<1>2. /\ Scanned(w).kind = "join"
      /\ Scanned(w).race = w.race /\ Scanned(w).inputs = w.inputs
      /\ Scanned(w).created = w.created /\ Scanned(w).checked = w.checked
      /\ Scanned(w).cursor = e /\ Scanned(w).scan = sc
      /\ Scanned(w).seen = se /\ Scanned(w).first = fi
      /\ DOMAIN Scanned(w) = DOMAIN w
  BY <1>1 DEF JoinWork
<1> QED
  BY <1>2 DEF e, sc, se, fi

LEMMA ScanBounds ==
  ASSUME PromiseTypes, NEW w \in JoinWork, InputsIssued(w), ScanSound(w),
         slice \in Nat
  PROVE  /\ ScanEnd(w) \in Nat /\ w.cursor <= ScanEnd(w)
         /\ ScanEnd(w) <= Len(w.inputs)
         /\ ScanEnd(w) <= w.cursor + slice
         /\ \A i \in ScanSettled(w) :
              i \in DOMAIN w.inputs /\ i \in Nat /\ ~Pending(w.inputs[i])
         /\ \A i \in 1 .. ScanEnd(w) :
              /\ i \in 1 .. w.cursor \/ i \in w.cursor + 1 .. ScanEnd(w)
              /\ i \in DOMAIN w.inputs
         /\ \A i \in DOMAIN w.inputs : Rank(w, i) \in Pairs
<1>1. /\ w.cursor \in Nat /\ Len(w.inputs) \in Nat /\ w.cursor <= Len(w.inputs)
      /\ DOMAIN w.inputs = 1 .. Len(w.inputs) /\ w.created \in Nat
  BY JoinTypes DEF ScanSound
<1>2. /\ ScanEnd(w) \in Nat /\ w.cursor <= ScanEnd(w)
      /\ ScanEnd(w) <= Len(w.inputs) /\ ScanEnd(w) <= w.cursor + slice
  BY <1>1 DEF ScanEnd, AtMost
<1>3. \A i \in ScanSettled(w) :
        i \in DOMAIN w.inputs /\ i \in Nat /\ ~Pending(w.inputs[i])
  BY <1>1, <1>2 DEF ScanSettled
<1>4. \A i \in 1 .. ScanEnd(w) :
        /\ i \in 1 .. w.cursor \/ i \in w.cursor + 1 .. ScanEnd(w)
        /\ i \in DOMAIN w.inputs
  BY <1>1, <1>2
<1>5. ASSUME NEW i \in DOMAIN w.inputs PROVE Rank(w, i) \in Pairs
  <2>1. PICK p \in Issued : p = w.inputs[i]
    BY DEF InputsIssued
  <2>2. Clamped(p, w.created) \in Nat /\ i \in Nat
    BY <1>1, <2>1 DEF Clamped, PromiseTypes
  <2> QED
    BY <2>1, <2>2 DEF Rank, Pairs
<1> QED
  BY <1>2, <1>3, <1>4, <1>5

LEMMA ScannedTypes ==
  ASSUME PromiseTypes, NEW w \in JoinWork, InputsIssued(w), ScanSound(w),
         slice \in Nat
  PROVE  /\ Scanned(w) \in JoinWork
         /\ ScanFirst(w) \in SUBSET Pairs
         /\ Scanned(w).first \in SUBSET ScanFirst(w)
<1>1. ScanFirst(w) \in SUBSET Pairs
  <2>1. w.first \in SUBSET Pairs
    BY JoinTypes
  <2>2. \A i \in ScanClaims(w) : Rank(w, i) \in Pairs
    BY ScanBounds DEF ScanClaims
  <2> QED
    BY <2>1, <2>2 DEF ScanFirst
<1>2. Scanned(w).first \in SUBSET ScanFirst(w)
  BY ScannedIs DEF Soonest
<1> DEFINE e == ScanEnd(w)
           sc == IF w.cursor = 0 THEN epoch ELSE w.scan
           se == w.seen \cup {i \in ScanSettled(w) : outcome[w.inputs[i]] = "value"}
           fi == Soonest(ScanFirst(w))
<1>3. Scanned(w) = [w EXCEPT !.cursor = e, !.scan = sc, !.seen = se, !.first = fi]
  BY DEF Scanned, ScanEnd, ScanSettled, ScanClaims, ScanFirst, Rank, JoinWork
<1>4. e \in Nat /\ sc \in Nat /\ se \in SUBSET Nat /\ fi \in SUBSET (Nat \X Nat)
  <2>1. e \in Nat
    BY ScanBounds
  <2>2. sc \in Nat
    BY JoinTypes DEF PromiseTypes
  <2>3. se \in SUBSET Nat
    BY JoinTypes, ScanBounds
  <2>4. fi \in SUBSET (Nat \X Nat)
    BY <1>1 DEF Soonest, Pairs
  <2> QED
    BY <2>1, <2>2, <2>3, <2>4
<1> HIDE DEF e, sc, se, fi
<1>5. Scanned(w) \in JoinWork
  BY <1>3, <1>4 DEF JoinWork
<1> QED
  BY <1>1, <1>2, <1>5

\* A poll keeps the account of the scan, and what it has passed without a
\* fault is accounted for.
LEMMA ScannedSound ==
  ASSUME PromiseTypes, NEW w \in JoinWork, InputsIssued(w), ScanSound(w),
         slice \in Nat
  PROVE  LET s == Scanned(w) IN
         /\ s.created <= s.scan /\ s.scan <= epoch /\ s.checked <= epoch
         /\ s.cursor <= Len(s.inputs)
         /\ Leads(s)
         /\ s.checked = epoch => Idles(s)
         /\ (\A i \in w.cursor + 1 .. s.cursor : outcome[w.inputs[i]] # "fault") =>
              \A i \in 1 .. s.cursor : Passed(s, i)
<1>1. PICK s : s = Scanned(w)
  OBVIOUS
<1>2. /\ s.race = w.race /\ s.inputs = w.inputs
      /\ s.created = w.created /\ s.checked = w.checked
      /\ s.cursor = ScanEnd(w)
      /\ s.scan = IF w.cursor = 0 THEN epoch ELSE w.scan
      /\ s.seen = w.seen \cup {i \in ScanSettled(w) : outcome[w.inputs[i]] = "value"}
      /\ s.first = Soonest(ScanFirst(w))
  BY <1>1, ScannedIs
<1>3. /\ w.created <= w.scan /\ w.scan <= epoch /\ w.checked <= epoch
      /\ Leads(w) /\ \A i \in 1 .. w.cursor : Passed(w, i)
      /\ w.checked = epoch => Idles(w)
  BY DEF ScanSound
<1>4. /\ w.created \in Nat /\ w.scan \in Nat /\ w.cursor \in Nat /\ epoch \in Nat
      /\ w.checked \in Int
  BY JoinTypes DEF PromiseTypes
<1>5. s.created <= s.scan /\ s.scan <= epoch /\ s.checked <= epoch
  BY <1>2, <1>3, <1>4
<1>6. s.cursor <= Len(s.inputs)
  BY <1>2, ScanBounds
<1>7. \A i : /\ Claims(s, i) <=> Claims(w, i)
             /\ Rank(s, i) = Rank(w, i)
  BY <1>2 DEF Claims, Rank
<1>8. Leads(s)
  <2>1. ASSUME NEW c \in s.first
        PROVE  /\ c[2] \in DOMAIN s.inputs
               /\ Claims(s, c[2]) /\ c = Rank(s, c[2])
    <3>1. c \in ScanFirst(w)
      BY <1>2, <2>1 DEF Soonest
    <3>2. CASE c \in w.first
      BY <1>2, <1>3, <1>7, <3>2 DEF Leads
    <3>3. CASE c \notin w.first
      <4>1. PICK i \in ScanClaims(w) : c = Rank(w, i)
        BY <3>1, <3>3 DEF ScanFirst
      <4>2. i \in ScanSettled(w) /\ (w.race \/ outcome[w.inputs[i]] = "thrown")
        BY <4>1 DEF ScanClaims
      <4>3. i \in DOMAIN w.inputs /\ ~Pending(w.inputs[i])
        BY <4>2, ScanBounds
      <4>4. c[2] = i
        BY <4>1 DEF Rank
      <4>5. Claims(w, i)
        BY <4>2, <4>3 DEF Claims
      <4> QED
        BY <1>2, <1>7, <4>1, <4>3, <4>4, <4>5
    <3> QED
      BY <3>2, <3>3
  <2>2. \A a, b \in s.first : Sooner(a, b)
    BY <1>2, SoonestLeads
  <2>3. ASSUME NEW i \in s.seen
        PROVE  i \in DOMAIN s.inputs /\ outcome[s.inputs[i]] = "value"
    <3>1. CASE i \in w.seen
      BY <1>2, <1>3, <3>1 DEF Leads
    <3>2. CASE i \notin w.seen
      BY <1>2, <2>3, <3>2, ScanBounds
    <3> QED
      BY <3>1, <3>2
  <2> QED
    BY <2>1, <2>2, <2>3 DEF Leads
<1>9. s.checked = epoch => Idles(s)
  BY <1>2, <1>3 DEF Idles
<1>10. ASSUME \A i \in w.cursor + 1 .. s.cursor : outcome[w.inputs[i]] # "fault",
              NEW i \in 1 .. s.cursor
       PROVE  Passed(s, i)
  <2>1. SUFFICES ASSUME ~Pending(w.inputs[i]), order[w.inputs[i]] <= s.scan
                 PROVE  /\ Claims(w, i) => \E c \in s.first : Sooner(c, Rank(w, i))
                        /\ outcome[w.inputs[i]] = "value" => i \in s.seen
                        /\ outcome[w.inputs[i]] # "fault"
    BY <1>2, <1>7 DEF Passed
  <2>2. /\ i \in DOMAIN w.inputs /\ Rank(w, i) \in Pairs
        /\ i \in 1 .. w.cursor \/ i \in w.cursor + 1 .. ScanEnd(w)
    BY <1>2, <1>10, ScanBounds
  <2>3. ASSUME NEW c \in ScanFirst(w), Sooner(c, Rank(w, i))
        PROVE  \E d \in s.first : Sooner(d, Rank(w, i))
    <3>1. ScanFirst(w) \in SUBSET Pairs
      BY ScannedTypes
    <3>2. PICK d \in Soonest(ScanFirst(w)) : \A b \in ScanFirst(w) : Sooner(d, b)
      BY <2>3, <3>1, SoonestExists
    <3>3. d \in Pairs /\ c \in Pairs /\ Sooner(d, c)
      BY <2>3, <3>1, <3>2 DEF Soonest
    <3>4. Sooner(d, Rank(w, i))
      BY <2>2, <2>3, <3>3, SoonerIsTransitive
    <3> QED
      BY <1>2, <3>2, <3>4
  <2>4. CASE i \in 1 .. w.cursor
    <3>1. s.scan = w.scan
      BY <1>2, <1>4, <2>4
    <3>2. /\ Claims(w, i) => \E c \in w.first : Sooner(c, Rank(w, i))
          /\ outcome[w.inputs[i]] = "value" => i \in w.seen
          /\ outcome[w.inputs[i]] # "fault"
      BY <1>3, <2>1, <2>4, <3>1 DEF Passed
    <3>3. w.first \subseteq ScanFirst(w) /\ w.seen \subseteq s.seen
      BY <1>2 DEF ScanFirst
    <3> QED
      BY <2>3, <3>2, <3>3
  <2>5. CASE i \in w.cursor + 1 .. ScanEnd(w)
    <3>1. i \in ScanSettled(w)
      BY <2>1, <2>5 DEF ScanSettled
    <3>2. ASSUME Claims(w, i) PROVE \E c \in s.first : Sooner(c, Rank(w, i))
      <4>1. i \in ScanClaims(w)
        BY <3>1, <3>2 DEF ScanClaims, Claims
      <4>2. Rank(w, i) \in ScanFirst(w)
        BY <4>1 DEF ScanFirst
      <4>3. Sooner(Rank(w, i), Rank(w, i))
        BY <2>2, SoonerIsTotal
      <4> QED
        BY <2>3, <4>2, <4>3
    <3>3. outcome[w.inputs[i]] = "value" => i \in s.seen
      BY <1>2, <3>1
    <3>4. outcome[w.inputs[i]] # "fault"
      BY <1>2, <1>10, <2>5
    <3> QED
      BY <3>2, <3>3, <3>4
  <2> QED
    BY <2>2, <2>4, <2>5
<1> QED
  BY <1>1, <1>5, <1>6, <1>8, <1>9, <1>10

(***************************************************************************)
(* What poll_join decides after a scan: it parks where the scan stopped,   *)
(* starts over, rests, or has its verdict.                                 *)
(***************************************************************************)
Faultless(w) ==
  \A i \in w.cursor + 1 .. Scanned(w).cursor : outcome[w.inputs[i]] # "fault"
Restarted(s, checked) == [s EXCEPT !.cursor = 0, !.checked = checked]
Undecided(s) ==
  s.cursor = Len(s.inputs) /\ s.first = {} /\ ~(~s.race /\ s.seen = DOMAIN s.inputs)

\* A combinator parked where its scan stopped is accounted for.
LEMMA ParkedScanSound ==
  ASSUME PromiseTypes, NEW w \in JoinWork, InputsIssued(w), ScanSound(w),
         slice \in Nat, Faultless(w)
  PROVE  Scanned(w) \in JoinWork /\ ScanSound(Scanned(w))
<1>1. Scanned(w) \in JoinWork
  BY ScannedTypes
<1> QED
  BY <1>1, ScannedSound DEF ScanSound, Faultless

\* Starting over changes nothing else.
LEMMA RestartedTypes ==
  ASSUME NEW s \in JoinWork, NEW c \in Int, NEW r, r = Restarted(s, c)
  PROVE  /\ r \in JoinWork /\ r.cursor = 0 /\ r.checked = c
         /\ r.created = s.created /\ r.scan = s.scan /\ r.first = s.first
         /\ r.seen = s.seen /\ r.inputs = s.inputs /\ r.race = s.race
  BY DEF JoinWork, Restarted

\* A combinator that starts over is accounted for.
LEMMA RestartedScanSound ==
  ASSUME PromiseTypes, NEW w \in JoinWork, InputsIssued(w), ScanSound(w),
         slice \in Nat, Faultless(w)
  PROVE  LET r == Restarted(Scanned(w), -1) IN
         r \in JoinWork /\ ScanSound(r) /\ r.inputs = w.inputs
<1> DEFINE s == Scanned(w)
           r == Restarted(s, -1)
<1>1. s \in JoinWork /\ s.inputs = w.inputs
  BY ScannedTypes, ScannedIs
<1>2. s.created <= s.scan /\ s.scan <= epoch /\ Leads(s)
  BY ScannedSound
<1> HIDE DEF s
<1>3. /\ r \in JoinWork /\ r.cursor = 0 /\ r.checked = -1
      /\ r.created = s.created /\ r.scan = s.scan /\ r.first = s.first
      /\ r.seen = s.seen /\ r.inputs = s.inputs /\ r.race = s.race
  <2>1. PICK c \in Int : c = -1
    OBVIOUS
  <2>2. r = Restarted(s, c)
    BY <2>1
  <2> HIDE DEF r
  <2> QED
    BY <1>1, <2>1, <2>2, RestartedTypes
<1> HIDE DEF r
<1>4. Leads(r)
  BY <1>2, <1>3 DEF Leads, Claims, Rank
<1>5. epoch \in Nat /\ Len(r.inputs) \in Nat
  BY <1>3, JoinTypes DEF PromiseTypes
<1>6. ScanSound(r)
  BY <1>2, <1>3, <1>4, <1>5 DEF ScanSound
<1> QED
  BY <1>1, <1>3, <1>6 DEF s, r

\* A combinator that rests until something is settled has nothing to settle on
\* if nothing was settled since its scan began.
LEMMA RestingScanSound ==
  ASSUME PromiseTypes, NEW w \in JoinWork, InputsIssued(w), ScanSound(w),
         slice \in Nat, Faultless(w), Len(w.inputs) # 0, Undecided(Scanned(w))
  PROVE  LET r == Restarted(Scanned(w), Scanned(w).scan) IN
         r \in JoinWork /\ ScanSound(r) /\ r.inputs = w.inputs
<1> DEFINE s == Scanned(w)
           r == Restarted(s, s.scan)
<1>1. s \in JoinWork /\ s.inputs = w.inputs /\ Undecided(s)
  BY ScannedTypes, ScannedIs
<1>2. /\ s.created <= s.scan /\ s.scan <= epoch /\ Leads(s)
      /\ \A i \in 1 .. s.cursor : Passed(s, i)
  BY ScannedSound DEF Faultless
<1> HIDE DEF s
<1>3. /\ s.scan \in Nat /\ s.race \in BOOLEAN /\ Len(s.inputs) \in Nat
      /\ DOMAIN s.inputs = 1 .. Len(s.inputs) /\ Len(s.inputs) # 0
  BY <1>1, JoinTypes
<1>4. /\ r \in JoinWork /\ r.cursor = 0 /\ r.checked = s.scan
      /\ r.created = s.created /\ r.scan = s.scan /\ r.first = s.first
      /\ r.seen = s.seen /\ r.inputs = s.inputs /\ r.race = s.race
  <2>1. PICK c \in Int : c = s.scan
    BY <1>3
  <2>2. r = Restarted(s, c)
    BY <2>1
  <2> HIDE DEF r
  <2>3. s \in JoinWork
    BY <1>1
  <2>4. /\ r \in JoinWork /\ r.cursor = 0 /\ r.checked = c
        /\ r.created = s.created /\ r.scan = s.scan /\ r.first = s.first
        /\ r.seen = s.seen /\ r.inputs = s.inputs /\ r.race = s.race
    BY <2>2, <2>3, RestartedTypes
  <2> QED
    BY <2>1, <2>4
<1> HIDE DEF r
<1>5. Leads(r)
  BY <1>2, <1>4 DEF Leads, Claims, Rank
<1>6. ASSUME s.scan = epoch PROVE Idles(s)
  <2>1. ASSUME NEW i \in DOMAIN s.inputs, ~Pending(s.inputs[i])
        PROVE  i \in s.seen /\ ~s.race /\ outcome[s.inputs[i]] = "value"
    <3>1. Passed(s, i) /\ s.inputs[i] \in Issued
      BY <1>1, <1>2, <1>3, <2>1 DEF Undecided, InputsIssued
    <3>2. order[s.inputs[i]] <= s.scan
      BY <1>6, <3>1 DEF PromiseTypes
    <3>3. /\ ~Claims(s, i)
          /\ outcome[s.inputs[i]] = "value" => i \in s.seen
          /\ outcome[s.inputs[i]] # "fault"
      BY <1>1, <2>1, <3>1, <3>2 DEF Passed, Undecided
    <3>4. outcome[s.inputs[i]] \in {"pending", "value", "thrown", "fault"}
      BY <3>1 DEF PromiseTypes, Settled
    <3> QED
      BY <2>1, <3>3, <3>4 DEF Claims, Pending
  <2>2. \E i \in DOMAIN s.inputs : Pending(s.inputs[i])
    <3>1. SUFFICES ASSUME \A i \in DOMAIN s.inputs : ~Pending(s.inputs[i])
                   PROVE  ~s.race /\ s.seen = DOMAIN s.inputs
      BY <1>1 DEF Undecided
    <3>2. 1 \in DOMAIN s.inputs
      BY <1>3
    <3>3. s.seen \subseteq DOMAIN s.inputs
      BY <1>2 DEF Leads
    <3> QED
      BY <2>1, <3>1, <3>2, <3>3
  <2> QED
    BY <2>1, <2>2 DEF Idles
<1>7. r.checked = epoch => Idles(r)
  BY <1>4, <1>6 DEF Idles
<1>8. r.cursor <= Len(r.inputs)
  BY <1>3, <1>4
<1>9. ScanSound(r)
  BY <1>2, <1>4, <1>5, <1>7, <1>8 DEF ScanSound
<1> QED
  BY <1>1, <1>4, <1>9 DEF s, r

\* The winner of a scan that is sure of itself is the input settled first.
LEMMA WinnerIsFirst ==
  ASSUME PromiseTypes, NEW w \in JoinWork, InputsIssued(w), ScanSound(w),
         slice \in Nat, Faultless(w), Scanned(w).cursor = Len(w.inputs),
         ~Unsure(Scanned(w)),
         NEW won, \E c \in Scanned(w).first : c[2] = won
  PROVE  /\ won \in DOMAIN w.inputs /\ ~Pending(w.inputs[won])
         /\ \A v \in Ruling(w, won) : VerdictSound(v)
<1>1. PICK s : s = Scanned(w)
  OBVIOUS
<1>2. /\ s \in JoinWork /\ s.inputs = w.inputs /\ s.race = w.race
      /\ s.created = w.created /\ s.cursor = Len(w.inputs) /\ ~Unsure(s)
  BY <1>1, ScannedTypes, ScannedIs
<1>3. /\ s.created <= s.scan /\ s.scan <= epoch /\ Leads(s)
      /\ \A i \in 1 .. s.cursor : Passed(s, i)
  BY <1>1, ScannedSound DEF Faultless
<1>4. PICK c \in s.first : c[2] = won
  BY <1>1
<1>5. /\ won \in DOMAIN w.inputs /\ Claims(s, won) /\ c = Rank(s, won)
      /\ \A d \in s.first : Sooner(c, d)
  BY <1>2, <1>3, <1>4 DEF Leads
<1>6. /\ s.created \in Nat /\ s.scan \in Nat /\ epoch \in Nat
      /\ w.race \in BOOLEAN /\ w.inputs \in Seq(Nat)
      /\ DOMAIN w.inputs = 1 .. Len(w.inputs) /\ Len(w.inputs) \in Nat
  BY <1>2, JoinTypes DEF PromiseTypes
<1>7. /\ s.first \in SUBSET Pairs
      /\ \A i \in DOMAIN w.inputs : Rank(w, i) \in Pairs /\ i \in Nat
  BY <1>2, <1>6, JoinTypes, ScanBounds
<1>8. \A i : Rank(s, i) = Rank(w, i) /\ (Claims(s, i) <=> Claims(w, i))
  BY <1>2 DEF Rank, Claims
<1>9. c \in Pairs /\ c[1] <= s.scan
  <2>1. c \in Pairs /\ ~(c[1] > s.scan)
    BY <1>2, <1>4, <1>7 DEF Unsure
  <2> QED
    BY <1>6, <2>1 DEF Pairs
<1>10. ASSUME NEW i \in DOMAIN w.inputs, Claims(w, i)
       PROVE  Sooner(c, Rank(w, i))
  <2>1. w.inputs[i] \in Issued /\ ~Pending(w.inputs[i]) /\ Claims(s, i)
    BY <1>8, <1>10 DEF Claims, InputsIssued
  <2>2. CASE order[w.inputs[i]] <= s.scan
    <3>1. Passed(s, i)
      BY <1>2, <1>3, <1>6, <1>10
    <3>2. PICK d \in s.first : Sooner(d, Rank(w, i))
      BY <1>2, <1>8, <2>1, <2>2, <3>1 DEF Passed
    <3> QED
      BY <1>5, <1>7, <1>9, <3>2, SoonerIsTransitive
  <2>3. CASE ~(order[w.inputs[i]] <= s.scan)
    <3>1. PICK n \in Nat : n = order[w.inputs[i]]
      BY <2>1 DEF PromiseTypes
    <3>2. Clamped(w.inputs[i], w.created) = n
      BY <1>2, <1>3, <1>6, <2>3, <3>1 DEF Clamped
    <3>3. Rank(w, i) = <<n, i>>
      BY <3>2 DEF Rank
    <3> QED
      BY <1>6, <1>9, <2>3, <3>1, <3>3 DEF Sooner, Pairs
  <2> QED
    BY <2>2, <2>3
<1>11. won # 0 /\ won \in Nat
  BY <1>5, <1>6
<1>12. PICK v : v = [race |-> w.race, inputs |-> w.inputs, created |-> w.created,
                     winner |-> won]
  OBVIOUS
<1>13. \A i : Rank(v, i) = Rank(w, i) /\ (Claims(v, i) <=> Claims(w, i))
  BY <1>12 DEF Rank, Claims
<1>14. v \in Verdict /\ v.created <= epoch
  BY <1>2, <1>3, <1>6, <1>11, <1>12 DEF Verdict
<1>15. VerdictSound(v)
  BY <1>5, <1>8, <1>10, <1>11, <1>12, <1>13, <1>14 DEF VerdictSound, InputsIssued
<1> QED
  BY <1>5, <1>8, <1>12, <1>15 DEF Ruling, Claims

\* Promise.all that has seen every input has their values.
LEMMA AllIsComplete ==
  ASSUME PromiseTypes, NEW w \in JoinWork, InputsIssued(w), ScanSound(w),
         slice \in Nat, ~w.race, Scanned(w).seen = DOMAIN w.inputs
  PROVE  \A v \in Ruling(w, 0) : VerdictSound(v)
<1>1. Leads(Scanned(w)) /\ Scanned(w).inputs = w.inputs
  BY ScannedSound, ScannedIs
<1>2. \A i \in DOMAIN w.inputs : outcome[w.inputs[i]] = "value"
  BY <1>1 DEF Leads
<1>3. /\ w.race \in BOOLEAN /\ w.inputs \in Seq(Nat) /\ w.created \in Nat
      /\ w.created <= epoch
  BY JoinTypes DEF ScanSound, PromiseTypes
<1>4. PICK v : v = [race |-> w.race, inputs |-> w.inputs, created |-> w.created,
                    winner |-> 0]
  OBVIOUS
<1>5. v \in Verdict
  BY <1>3, <1>4 DEF Verdict
<1>6. VerdictSound(v)
  BY <1>2, <1>3, <1>4, <1>5 DEF VerdictSound, InputsIssued
<1> QED
  BY <1>4, <1>6 DEF Ruling

(***************************************************************************)
(* What the steps do to the promises: nothing, settle one, issue one.      *)
(***************************************************************************)

LEMMA SameAdvance ==
  ASSUME PromiseTypes, UNCHANGED <<nextTask, promiseVars>>
  PROVE  Advance /\ Issued' = Issued /\ \A p : Pending(p)' <=> Pending(p)
<1>1. /\ nextTask' = nextTask /\ epoch' = epoch
      /\ outcome' = outcome /\ order' = order
  BY DEF promiseVars
<1>2. Issued' = Issued /\ \A p : Pending(p)' <=> Pending(p)
  BY <1>1 DEF Issued, Pending
<1>3. PromiseTypes'
  BY <1>1, <1>2 DEF PromiseTypes
<1>4. nextTask <= nextTask' /\ epoch <= epoch'
  BY <1>1 DEF PromiseTypes
<1> QED
  BY <1>1, <1>2, <1>3, <1>4 DEF Advance

\* settle_promise settles one promise, later than all that are settled.
LEMMA SettleAdvance ==
  ASSUME PromiseTypes, NEW p \in Issued, Pending(p), NEW how \in Settled,
         Settle(p, how), nextTask' = nextTask
  PROVE  /\ Advance /\ Issued' = Issued
         /\ \A q \in Issued : q # p => outcome'[q] = outcome[q]
<1>1. PICK last \in Nat : last = epoch + 1 /\ last = epoch'
  BY DEF Settle, PromiseTypes
<1>2. /\ outcome' = [outcome EXCEPT ![p] = how]
      /\ order' = [order EXCEPT ![p] = last]
  BY <1>1 DEF Settle
<1>3. Issued' = Issued
  BY DEF Issued
<1>4. /\ nextTask \in Nat \ {0} /\ epoch \in Nat /\ epoch <= last /\ epoch < last
      /\ last # 0
      /\ outcome \in [Issued -> {"pending"} \cup Settled]
      /\ order \in [Issued -> Nat]
      /\ \A q \in Issued : /\ order[q] <= epoch
                           /\ (order[q] = 0) <=> Pending(q)
  BY <1>1 DEF PromiseTypes
<1>5. /\ outcome' \in [Issued -> {"pending"} \cup Settled]
      /\ order' \in [Issued -> Nat]
  BY <1>2, <1>4
<1>6. ASSUME NEW q \in Issued, q # p
      PROVE  outcome'[q] = outcome[q] /\ order'[q] = order[q]
  BY <1>2, <1>4, <1>6
<1>7. outcome'[p] = how /\ order'[p] = last /\ how # "pending"
  BY <1>2, <1>4 DEF Settled
<1>8. ASSUME NEW q \in Issued
      PROVE  order'[q] <= last /\ ((order'[q] = 0) <=> Pending(q)')
  <2>1. CASE q = p
    BY <1>1, <1>4, <1>7, <2>1 DEF Pending
  <2>2. CASE q # p
    BY <1>1, <1>4, <1>6, <2>2 DEF Pending
  <2> QED
    BY <2>1, <2>2
<1>9. PromiseTypes'
  BY <1>1, <1>3, <1>4, <1>5, <1>8 DEF PromiseTypes
<1>10. ~Pending(p)' /\ order'[p] > epoch /\ epoch' > epoch
  BY <1>1, <1>4, <1>7 DEF Pending
<1>11. nextTask <= nextTask' /\ epoch <= epoch'
  BY <1>1, <1>4
<1> QED
  BY <1>3, <1>6, <1>9, <1>10, <1>11 DEF Advance

\* A table with one more entry.
Longer(g, f, n, x, S) ==
  g \in [Below(n + 1) -> S] /\ g[n] = x /\ \A p \in Below(n) : g[p] = f[p]

LEMMA AppendTypes ==
  ASSUME NEW S, NEW n \in Nat \ {0}, NEW f \in [Below(n) -> S], NEW x \in S,
         NEW g, g = Append(f, x)
  PROVE  Longer(g, f, n, x, S)
<1>1. PICK m \in Nat : m = n - 1
  OBVIOUS
<1>2. Below(n) = 1 .. m /\ Below(n + 1) = 1 .. n /\ n = m + 1
  BY <1>1 DEF Below
<1>3. f \in Seq(S)
  BY <1>2, SeqDef
<1>4. DOMAIN f = 1 .. m
  BY <1>2
<1>5. Len(f) = m
  BY <1>1, <1>3, <1>4, LenProperties
<1>6. /\ g \in Seq(S) /\ Len(g) = n /\ g[n] = x
      /\ \A i \in 1 .. m : g[i] = f[i]
  BY <1>2, <1>3, <1>5, AppendProperties
<1>7. g \in [1 .. n -> S]
  BY <1>6, LenProperties
<1> QED
  BY <1>2, <1>6, <1>7 DEF Longer

LEMMA NewIssued ==
  ASSUME nextTask \in Nat \ {0}, nextTask' = nextTask + 1
  PROVE  /\ Issued' = Below(nextTask + 1)
         /\ Issued' = Issued \cup {nextTask} /\ nextTask \notin Issued
  BY DEF Issued, Below

\* A promise is issued, pending or with the outcome of a reply that is ready.
LEMMA GrowAdvance ==
  ASSUME PromiseTypes, NEW how \in {"pending"} \cup Settled, NEW e \in Nat,
         nextTask' = nextTask + 1,
         outcome' = Append(outcome, how), order' = Append(order, e),
         IF how = "pending" THEN e = 0 /\ epoch' = epoch
                            ELSE e = epoch + 1 /\ epoch' = epoch + 1
  PROVE  /\ Advance /\ Issued' = Issued \cup {nextTask} /\ nextTask \notin Issued
         /\ \A q \in Issued : outcome'[q] = outcome[q]
         /\ outcome'[nextTask] = how
<1> DEFINE Results == {"pending"} \cup Settled
<1>1. /\ nextTask \in Nat \ {0} /\ epoch \in Nat
      /\ outcome \in [Issued -> Results]
      /\ order \in [Issued -> Nat]
      /\ \A q \in Issued : /\ order[q] <= epoch
                           /\ (order[q] = 0) <=> Pending(q)
  BY DEF PromiseTypes
<1>2. /\ Issued' = Below(nextTask + 1)
      /\ Issued' = Issued \cup {nextTask} /\ nextTask \notin Issued
  BY <1>1, NewIssued
<1>3. Longer(outcome', outcome, nextTask, how, Results)
  <2>1. how \in Results
    OBVIOUS
  <2> HIDE DEF Results
  <2> QED
    BY <1>1, <2>1, AppendTypes DEF Issued
<1>4. Longer(order', order, nextTask, e, Nat)
  BY <1>1, AppendTypes DEF Issued
<1>5. PICK last \in Nat : last = epoch' /\ epoch <= last /\ e <= last
  BY <1>1
<1>6. /\ outcome' \in [Issued' -> Results] /\ order' \in [Issued' -> Nat]
      /\ outcome'[nextTask] = how /\ order'[nextTask] = e
      /\ \A q \in Issued : outcome'[q] = outcome[q] /\ order'[q] = order[q]
  BY <1>2, <1>3, <1>4 DEF Longer, Issued
<1>7. (e = 0) <=> (how = "pending")
  BY <1>1 DEF Settled
<1>8. ASSUME NEW q \in Issued'
      PROVE  order'[q] <= last /\ ((order'[q] = 0) <=> Pending(q)')
  <2>1. CASE q = nextTask
    BY <1>5, <1>6, <1>7, <2>1 DEF Pending
  <2>2. CASE q \in Issued
    BY <1>1, <1>5, <1>6, <2>2 DEF Pending
  <2> QED
    BY <1>2, <1>8, <2>1, <2>2
<1>9. nextTask' \in Nat \ {0} /\ nextTask <= nextTask'
  BY <1>1
<1>10. PromiseTypes'
  BY <1>5, <1>6, <1>8, <1>9 DEF PromiseTypes
<1> QED
  BY <1>2, <1>5, <1>6, <1>9, <1>10 DEF Advance

\* Vm::spawn issues a pending promise.
LEMMA IssueAdvance ==
  ASSUME PromiseTypes, Issue
  PROVE  /\ Advance /\ Issued' = Issued \cup {nextTask} /\ nextTask \notin Issued
         /\ \A q \in Issued : outcome'[q] = outcome[q]
         /\ outcome'[nextTask] = "pending" /\ verdicts' = verdicts
<1>1. /\ nextTask' = nextTask + 1 /\ outcome' = Append(outcome, "pending")
      /\ order' = Append(order, 0) /\ epoch' = epoch /\ verdicts' = verdicts
  BY DEF Issue
<1> QED
  BY <1>1, GrowAdvance

(***************************************************************************)
(* What is said of a task stays true while time goes forward.              *)
(***************************************************************************)

LEMMA WorkKinds ==
  ASSUME NEW w \in AnyWork
  PROVE  /\ w.kind \in {"code", "host", "join", "wait"}
         /\ w.kind = "code" => w \in CodeWork
         /\ w.kind = "host" => w \in HostWork
         /\ w.kind = "join" => w \in JoinWork
         /\ w.kind = "wait" => w \in WaitWork
<1>1. CASE w \in CodeWork
  BY <1>1 DEF CodeWork
<1>2. CASE w \in HostWork
  BY <1>2 DEF HostWork
<1>3. CASE w \in JoinWork
  BY <1>3 DEF JoinWork
<1>4. CASE w \in WaitWork
  BY <1>4 DEF WaitWork
<1> QED
  BY <1>1, <1>2, <1>3, <1>4 DEF AnyWork

LEMMA TaskTypes ==
  ASSUME NEW k \in AnyTask
  PROVE  /\ k.work \in AnyWork /\ k.waiting \in Nat /\ k.call \in Nat
         /\ k = [work |-> k.work, waiting |-> k.waiting, call |-> k.call]
  BY DEF AnyTask

\* The inputs of a combinator were issued before it.
LEMMA InputsAreIssued ==
  ASSUME PromiseTypes, NEW t \in Issued, NEW w \in JoinWork, InputsBelow(w, t)
  PROVE  InputsIssued(w)
<1>1. SUFFICES ASSUME NEW i \in DOMAIN w.inputs PROVE w.inputs[i] \in Issued
  BY DEF InputsIssued
<1>2. PICK n : n = w.inputs[i]
  OBVIOUS
<1>3. n \in Nat /\ 0 < n /\ n < t
  <2>1. w.inputs \in Seq(Nat)
    BY JoinTypes
  <2> QED
    BY <1>2, <2>1 DEF InputsBelow
<1>4. nextTask \in Nat /\ t \in Nat /\ t < nextTask
  BY DEF PromiseTypes, Issued, Below
<1>5. n \in Issued
  BY <1>3, <1>4 DEF Issued, Below
<1> QED
  BY <1>2, <1>5

LEMMA SoundStays ==
  ASSUME Advance, NEW t \in Issued, NEW k \in AnyTask, Sound(t, k)
  PROVE  Sound(t, k)'
<1>1. /\ nextTask \in Nat /\ nextTask' \in Nat /\ nextTask <= nextTask'
      /\ \A p \in Issued : p \in Issued'
  BY AdvanceTypes
<1>2. k.work \in AnyWork /\ k.waiting \in Nat
  BY TaskTypes
<1>3. k.waiting < nextTask'
  BY <1>1, <1>2 DEF Sound
<1>4. k.work.kind = "code" => k.work.await < nextTask'
  <2>1. SUFFICES ASSUME k.work.kind = "code" PROVE k.work.await < nextTask'
    OBVIOUS
  <2>2. k.work.await \in Nat
    BY <1>2, <2>1, WorkKinds DEF CodeWork
  <2>3. k.work.await < nextTask
    BY <2>1 DEF Sound
  <2> QED
    BY <1>1, <2>2, <2>3
<1>5. k.work.kind = "wait" => k.work.on \in Issued'
  BY <1>1 DEF Sound
<1>6. ASSUME k.work.kind = "join" PROVE ScanSound(k.work)'
  <2>1. k.work \in JoinWork
    BY <1>2, <1>6, WorkKinds
  <2>2. InputsBelow(k.work, t) /\ ScanSound(k.work)
    BY <1>6 DEF Sound
  <2>3. InputsIssued(k.work)
    BY <2>1, <2>2, InputsAreIssued DEF Advance
  <2> QED
    BY <2>1, <2>2, <2>3, ScanStays DEF InputsIssued
<1> QED
  BY <1>3, <1>4, <1>5, <1>6 DEF Sound, InputsBelow

\* A task that waits goes on waiting if no promise is settled.
LEMMA WaitsStay ==
  ASSUME PromiseTypes, \A p \in Issued : outcome'[p] = outcome[p],
         NEW t \in Issued, NEW k \in AnyTask, Sound(t, k), Waits(k)
  PROVE  Waits(k)'
<1>1. k.work \in AnyWork /\ k.waiting \in Nat
  BY TaskTypes
<1>2. CASE k.work.kind \in {"code", "wait"}
  <2>1. k.waiting # 0 /\ Pending(k.waiting)
    BY <1>2 DEF Waits
  <2>2. k.waiting \in Issued
    <3>1. k.waiting < nextTask /\ nextTask \in Nat
      BY DEF Sound, PromiseTypes
    <3> QED
      BY <1>1, <2>1, <3>1 DEF Issued, Below
  <2>3. outcome'[k.waiting] = "pending"
    BY <2>1, <2>2 DEF Pending
  <2> QED
    BY <1>2, <2>1, <2>3 DEF Waits, Pending
<1>3. CASE k.work.kind = "host"
  BY <1>3 DEF Waits
<1>4. CASE k.work.kind = "join"
  <2>1. k.work \in JoinWork /\ InputsBelow(k.work, t) /\ Idles(k.work)
    BY <1>1, <1>4, WorkKinds DEF Sound, Waits
  <2>2. InputsIssued(k.work)
    BY <2>1, InputsAreIssued
  <2>3. Idles(k.work)'
    BY <2>1, <2>2, IdlesStays DEF InputsIssued
  <2> QED
    BY <1>4, <2>3 DEF Waits
<1> QED
  BY <1>1, <1>2, <1>3, <1>4, WorkKinds

LEMMA TasksStay ==
  ASSUME TableTypes, TasksSound, Advance,
         \A u \in Live' : /\ Pending(u)'
                          /\ \/ u \in Live /\ tasks'[u] = tasks[u]
                             \/ Sound(u, tasks[u])'
  PROVE  TasksSound'
<1>1. SUFFICES ASSUME NEW u \in Live' PROVE Sound(u, tasks[u])'
  BY DEF TasksSound
<1>2. CASE u \in Live /\ tasks'[u] = tasks[u]
  <2>1. PICK k \in AnyTask : k = tasks[u] /\ k = tasks'[u]
    BY <1>2 DEF TableTypes
  <2>2. u \in Issued /\ Sound(u, k)
    BY <1>2, <2>1 DEF TableTypes, TasksSound
  <2>3. Sound(u, k)'
    BY <2>2, SoundStays
  <2> QED
    BY <2>1, <2>3
<1> QED
  BY <1>2

LEMMA VerdictsStay ==
  ASSUME VerdictsSound, Advance,
         \A v \in verdicts' : v \in verdicts \/ VerdictSound(v)
  PROVE  VerdictsSound'
<1>1. SUFFICES ASSUME NEW v \in verdicts' PROVE VerdictSound(v)'
  BY DEF VerdictsSound
<1>2. VerdictSound(v)
  BY DEF VerdictsSound
<1> QED
  BY <1>2, VerdictStays

(***************************************************************************)
(* The forms of a step: the VM ends, the task that runs leaves the         *)
(* processor, is finished, or stays.                                       *)
(***************************************************************************)

\* Vm::cancel leaves nothing behind and answers every call.
LEMMA CloseKeeps ==
  ASSUME SchedulerInvariant, NEW failed, Close(failed)
  PROVE  SchedulerInvariant'
<1>1. /\ TurnTypes /\ TableTypes /\ PromiseTypes /\ VerdictsSound /\ AnswersOwed
  BY DEF SchedulerInvariant, Types
<1>2. /\ phase' = "closed" /\ tasks' = NoTasks /\ queue' = <<>>
      /\ cancelled' = 1 .. nextJob - 1 /\ nextJob' = nextJob
      /\ batch' = 0 /\ ids' = {} /\ left' = 0 /\ running' = 0 /\ slice' = 0
      /\ progressed' = FALSE /\ deferred' = FALSE
      /\ program' = program /\ wake' = wake /\ verdicts' = verdicts
      /\ UNCHANGED <<nextTask, promiseVars>>
      /\ calls' = [c \in DOMAIN calls |->
                 CASE c = failed -> "failed"
                   [] c # failed /\ c \in OwedCalls -> "cancelled"
                   [] OTHER -> calls[c]]
  BY DEF Close, promiseVars
<1>3. Live' = {}
  BY <1>2 DEF Live, NoTasks
<1>4. Advance /\ PromiseTypes'
  BY <1>1, <1>2, SameAdvance DEF Advance
<1>5. queue' \in Seq(Commands) /\ Len(queue') = 0
  BY <1>2
<1>6. TurnTypes'
  <2>1. batch' \in 0 .. Len(queue') /\ left' \in Nat /\ slice' \in 0 .. left'
    BY <1>2, <1>5
  <2>2. program' \in Program /\ wake' \in BOOLEAN
    BY <1>1, <1>2 DEF TurnTypes
  <2>3. ids' \subseteq Live' /\ running' \in {0} \cup Live'
    BY <1>2, <1>3
  <2> QED
    BY <1>2, <2>1, <2>2, <2>3 DEF TurnTypes
<1>7. cancelled' \subseteq Nat \ {0}
  BY <1>1, <1>2 DEF TableTypes
<1>8. TableTypes'
  BY <1>1, <1>2, <1>3, <1>5, <1>7 DEF TableTypes
<1>9. TasksSound' /\ TimersEnd'
  BY <1>3 DEF TasksSound, TimersEnd
<1>10. VerdictsSound'
  BY <1>1, <1>2, <1>4, VerdictsStay
<1>11. ASSUME NEW c \in DOMAIN calls' PROVE calls'[c] # "made"
  <2>1. c \in DOMAIN calls
    BY <1>2
  <2>2. calls[c] = "made" => c \in OwedCalls
    BY <1>1, <2>1 DEF AnswersOwed, Owed, OwedCalls
  <2> QED
    BY <1>2, <2>1, <2>2
<1>12. AnswersOwed'
  BY <1>2, <1>3, <1>11 DEF AnswersOwed
<1>13. WakesKept'
  BY <1>2 DEF WakesKept
<1> QED
  BY <1>4, <1>6, <1>8, <1>9, <1>10, <1>12, <1>13 DEF SchedulerInvariant, Types

\* A call stays owed while its task or its command is there.
LEMMA OwedStays ==
  ASSUME AnswersOwed, calls' = calls, phase' = phase, phase # "closed",
         \A c \in DOMAIN calls : \A u \in Live :
           tasks[u].call = c =>
             \/ u \in Live' /\ tasks'[u].call = c
             \/ \E i \in DOMAIN queue' : queue'[i].op = "call" /\ queue'[i].call = c,
         \A c \in DOMAIN calls : \A i \in DOMAIN queue :
           queue[i].op = "call" /\ queue[i].call = c =>
             \/ \E u \in Live' : tasks'[u].call = c
             \/ \E j \in DOMAIN queue' : queue'[j].op = "call" /\ queue'[j].call = c
  PROVE  AnswersOwed'
<1>1. SUFFICES ASSUME NEW c \in DOMAIN calls, calls[c] = "made"
               PROVE  \/ \E u \in Live' : tasks'[u].call = c
                      \/ \E j \in DOMAIN queue' :
                           queue'[j].op = "call" /\ queue'[j].call = c
  BY DEF AnswersOwed, Owed
<1>2. Owed(c)
  BY <1>1 DEF AnswersOwed
<1>3. CASE \E u \in Live : tasks[u].call = c
  <2>1. PICK u \in Live : tasks[u].call = c
    BY <1>3
  <2> QED
    BY <2>1
<1>4. CASE \E i \in DOMAIN queue : queue[i].op = "call" /\ queue[i].call = c
  BY <1>4
<1> QED
  BY <1>2, <1>3, <1>4 DEF Owed

\* The table after the task t was given other work.
LEMMA Replaced ==
  ASSUME TableTypes, NEW t \in Live, NEW work \in AnyWork, NEW waiting \in Nat,
         tasks' = [tasks EXCEPT ![t].work = work, ![t].waiting = waiting]
  PROVE  /\ Live' = Live
         /\ tasks'[t] = [work |-> work, waiting |-> waiting, call |-> tasks[t].call]
         /\ \A u \in Live : u # t => tasks'[u] = tasks[u]
         /\ \A u \in Live : tasks'[u] \in AnyTask
<1>1. /\ Live' = Live
      /\ \A u \in Live : u # t => tasks'[u] = tasks[u]
      /\ tasks'[t] = [[tasks[t] EXCEPT !.work = work] EXCEPT !.waiting = waiting]
  BY DEF Live
<1>2. PICK k \in AnyTask : k = tasks[t]
  BY DEF TableTypes
<1>3. /\ [[k EXCEPT !.work = work] EXCEPT !.waiting = waiting]
           = [work |-> work, waiting |-> waiting, call |-> k.call]
      /\ [work |-> work, waiting |-> waiting, call |-> k.call] \in AnyTask
  <2>1. PICK m \in AnyTask : m = [k EXCEPT !.work = work]
    BY DEF AnyTask
  <2>2. m.work = work /\ m.call = k.call
    BY <2>1 DEF AnyTask
  <2>3. PICK n \in AnyTask : n = [m EXCEPT !.waiting = waiting]
    BY DEF AnyTask
  <2>4. n.work = work /\ n.call = k.call /\ n.waiting = waiting
    BY <2>2, <2>3 DEF AnyTask
  <2>5. n = [work |-> work, waiting |-> waiting, call |-> k.call]
    BY <2>4, TaskTypes
  <2> QED
    BY <2>1, <2>3, <2>5
<1>4. /\ tasks'[t] = [work |-> work, waiting |-> waiting, call |-> tasks[t].call]
      /\ tasks'[t] \in AnyTask
  BY <1>1, <1>2, <1>3
<1>5. \A u \in Live : tasks'[u] \in AnyTask
  BY <1>1, <1>4 DEF TableTypes
<1> QED
  BY <1>1, <1>4, <1>5

\* A poll that leaves the processor: what it leaves is sound, and waits or is
\* progress.
LEMMA LeaveKeeps ==
  ASSUME SchedulerInvariant, running # 0, NEW t, t = running,
         NEW work \in AnyWork, NEW waiting \in Nat,
         NEW cost \in Nat, cost <= slice, NEW progress \in BOOLEAN,
         Leave(work, waiting, cost, progress), UNCHANGED <<wake, hostVars>>,
         NEW k, k = [work |-> work, waiting |-> waiting, call |-> tasks[t].call],
         Sound(t, k), progress \/ Waits(k),
         work.kind = "host" => Kind(running) = "host" /\ work.job = tasks[running].work.job
  PROVE  SchedulerInvariant'
<1>1. /\ TurnTypes /\ TableTypes /\ PromiseTypes /\ TasksSound
      /\ VerdictsSound /\ TimersEnd /\ AnswersOwed /\ WakesKept
  BY DEF SchedulerInvariant, Types
<1>2. /\ left' = left - cost /\ slice' = 0 /\ running' = 0
      /\ progressed' = (progressed \/ progress)
      /\ tasks' = [tasks EXCEPT ![t].work = work, ![t].waiting = waiting]
      /\ program' = program /\ phase' = phase /\ batch' = batch /\ ids' = ids
      /\ deferred' = deferred /\ wake' = wake /\ queue' = queue
      /\ nextJob' = nextJob /\ cancelled' = cancelled /\ calls' = calls
      /\ verdicts' = verdicts /\ epoch' = epoch /\ outcome' = outcome
      /\ UNCHANGED <<nextTask, promiseVars>>
  BY DEF Leave, hostVars, promiseVars
<1>3. t \in Live /\ phase = "tasks" /\ t \notin ids /\ batch = 0
  BY <1>1 DEF TurnTypes
<1>4. /\ Live' = Live /\ tasks'[t] = k
      /\ \A u \in Live : u # t => tasks'[u] = tasks[u]
      /\ \A u \in Live : tasks'[u] \in AnyTask
  <2>1. tasks' = [tasks EXCEPT ![t].work = work, ![t].waiting = waiting]
    BY <1>2
  <2>2. t \in Live
    BY <1>3
  <2>3. /\ Live' = Live
        /\ tasks'[t] = [work |-> work, waiting |-> waiting, call |-> tasks[t].call]
        /\ \A u \in Live : u # t => tasks'[u] = tasks[u]
        /\ \A u \in Live : tasks'[u] \in AnyTask
    BY <1>1, <2>1, <2>2, Replaced
  <2> QED
    BY <2>3
<1>5. k \in AnyTask
  BY <1>3, <1>4
<1>6. Advance /\ Issued' = Issued /\ \A p : Pending(p)' <=> Pending(p)
  BY <1>1, <1>2, SameAdvance
<1>7. Sound(t, k)'
  BY <1>1, <1>3, <1>5, <1>6, SoundStays DEF TableTypes
<1>8. TableTypes'
  BY <1>1, <1>2, <1>4, <1>6 DEF TableTypes
<1>9. left' \in Nat
  BY <1>1, <1>2 DEF TurnTypes
<1>10. slice' \in 0 .. left'
  BY <1>2, <1>9
<1>11. progressed' \in BOOLEAN
  BY <1>1, <1>2 DEF TurnTypes
<1>12. TurnTypes'
  BY <1>1, <1>2, <1>3, <1>4, <1>9, <1>10, <1>11 DEF TurnTypes
<1>13. TasksSound'
  <2>1. ASSUME NEW u \in Live'
        PROVE  /\ Pending(u)'
               /\ \/ u \in Live /\ tasks'[u] = tasks[u]
                  \/ Sound(u, tasks[u])'
    <3>1. Pending(u)'
      BY <1>1, <1>4, <1>6, <2>1 DEF TasksSound
    <3>2. CASE u = t
      BY <1>4, <1>7, <3>1, <3>2
    <3>3. CASE u # t
      BY <1>4, <2>1, <3>1, <3>3
    <3> QED
      BY <3>2, <3>3
  <2> QED
    BY <1>1, <1>6, <2>1, TasksStay
<1>14. VerdictsSound'
  BY <1>1, <1>2, <1>6, VerdictsStay
<1>15. TimersEnd'
  <2>1. SUFFICES ASSUME NEW u \in Live', NEW j \in cancelled, IsJob(u, j)'
                 PROVE  EndQueued(j)'
    BY <1>2 DEF TimersEnd
  <2>2. IsJob(u, j)
    <3>1. CASE u = t
      <4>1. work.kind = "host" /\ work.job = j
        BY <1>4, <2>1, <3>1 DEF IsJob, Kind
      <4> QED
        BY <3>1, <4>1 DEF IsJob, Kind
    <3>2. CASE u # t
      BY <1>4, <2>1, <3>2 DEF IsJob, Kind
    <3> QED
      BY <3>1, <3>2
  <2>3. EndQueued(j)
    BY <1>1, <1>4, <2>1, <2>2 DEF TimersEnd
  <2> QED
    BY <1>2, <2>3 DEF EndQueued
<1>16. AnswersOwed'
  <2>1. \A u \in Live : tasks'[u].call = tasks[u].call
    BY <1>4
  <2> QED
    BY <1>1, <1>2, <1>3, <1>4, <2>1, OwedStays
<1>17. WakesKept'
  <2>1. SUFFICES ASSUME ~Busy', NEW u \in Live
                 PROVE  Waits(tasks[u])' \/ u \in ids
    BY <1>2, <1>3, <1>4 DEF WakesKept
  <2>2. ~Busy /\ ~progress
    BY <1>1, <1>2, <2>1 DEF Busy, TurnTypes
  <2>3. CASE u = t
    <3>1. Waits(k)
      BY <2>2
    <3>2. Waits(k)'
      BY <1>1, <1>2, <1>3, <1>5, <3>1, WaitsStay DEF TableTypes
    <3> QED
      BY <1>4, <2>3, <3>2
  <2>4. CASE u # t
    <3>1. Waits(tasks[u]) \/ u \in ids
      BY <1>1, <1>3, <2>2, <2>4 DEF WakesKept
    <3>2. PICK j \in AnyTask : j = tasks[u] /\ tasks'[u] = j
      BY <1>1, <1>4, <2>4 DEF TableTypes
    <3>3. u \in Issued /\ Sound(u, j)
      BY <1>1, <3>2 DEF TableTypes, TasksSound
    <3>4. Waits(j) => Waits(j)'
      BY <1>1, <1>2, <3>3, WaitsStay
    <3> QED
      BY <3>1, <3>2, <3>4
  <2> QED
    BY <2>3, <2>4
<1> QED
  BY <1>6, <1>8, <1>12, <1>13, <1>14, <1>15, <1>16, <1>17
  DEF SchedulerInvariant, Types, Advance

\* A task that is finished: its promise is settled and its call answered.
LEMMA FinishKeeps ==
  ASSUME SchedulerInvariant, running # 0, NEW t, t = running,
         NEW how \in Settled, NEW cost \in Nat, cost <= slice,
         NEW ruling, \A v \in ruling : VerdictSound(v),
         Finish(how, cost, ruling)
  PROVE  SchedulerInvariant'
<1>1. /\ TurnTypes /\ TableTypes /\ PromiseTypes /\ TasksSound
      /\ VerdictsSound /\ TimersEnd /\ AnswersOwed /\ WakesKept
  BY DEF SchedulerInvariant, Types
<1>2. CASE Fatal(running, how)
  BY <1>2, CloseKeeps DEF Finish
<1>3. CASE ~Fatal(running, how)
  <2>1. /\ left' = left - cost /\ slice' = 0 /\ running' = 0
        /\ progressed' = TRUE
        /\ tasks' = Without(tasks, {t}) /\ Settle(t, how)
        /\ verdicts' = verdicts \cup ruling
        /\ calls' = Answered(tasks[t].call)
        /\ program' = program /\ phase' = phase /\ batch' = batch /\ ids' = ids
        /\ deferred' = deferred /\ wake' = wake /\ queue' = queue
        /\ nextJob' = nextJob /\ cancelled' = cancelled /\ nextTask' = nextTask
    BY <1>3 DEF Finish, hostVars
  <2>2. /\ t \in Live /\ phase = "tasks" /\ t \notin ids /\ batch = 0
        /\ t \in Issued /\ Pending(t)
    BY <1>1 DEF TurnTypes, TableTypes, TasksSound
  <2>3. Live' = Live \ {t} /\ \A u \in Live' : tasks'[u] = tasks[u]
    BY <2>1 DEF Live, Without
  <2>4. /\ Advance /\ Issued' = Issued
        /\ \A q \in Issued : q # t => outcome'[q] = outcome[q]
    BY <1>1, <2>1, <2>2, SettleAdvance
  <2>5. DOMAIN calls' = 1 .. MaxCalls
    BY <1>1, <2>1 DEF TableTypes, Answered
  <2>6. TableTypes'
    BY <1>1, <2>1, <2>3, <2>4, <2>5 DEF TableTypes
  <2>7. left' \in Nat
    BY <1>1, <2>1 DEF TurnTypes
  <2>8. slice' \in 0 .. left'
    BY <2>1, <2>7
  <2>9. ids' \subseteq Live'
    BY <1>1, <2>1, <2>2, <2>3 DEF TurnTypes
  <2>10. TurnTypes'
    BY <1>1, <2>1, <2>2, <2>7, <2>8, <2>9 DEF TurnTypes
  <2>11. TasksSound'
    <3>1. \A u \in Live' : Pending(u)' /\ u \in Live /\ tasks'[u] = tasks[u]
      BY <1>1, <2>3, <2>4 DEF TasksSound, TableTypes, Pending
    <3> QED
      BY <1>1, <2>4, <3>1, TasksStay
  <2>12. VerdictsSound'
    <3>1. \A v \in verdicts' : v \in verdicts \/ VerdictSound(v)
      BY <2>1
    <3> QED
      BY <1>1, <2>4, <3>1, VerdictsStay
  <2>13. TimersEnd'
    <3>1. SUFFICES ASSUME NEW u \in Live', NEW j \in cancelled, IsJob(u, j)'
                   PROVE  EndQueued(j)'
      BY <2>1 DEF TimersEnd
    <3>2. IsJob(u, j) /\ u \in Live
      BY <2>3, <3>1 DEF IsJob, Kind
    <3>3. EndQueued(j)
      BY <1>1, <3>1, <3>2 DEF TimersEnd
    <3> QED
      BY <2>1, <3>3 DEF EndQueued
  <2>14. AnswersOwed'
    <3>1. ASSUME NEW c \in DOMAIN calls, calls'[c] = "made"
          PROVE  Owed(c)'
      <4>1. c # tasks[t].call /\ calls[c] = "made"
        BY <2>1, <3>1 DEF Answered
      <4>2. Owed(c)
        BY <1>1, <3>1, <4>1 DEF AnswersOwed
      <4>3. CASE \E u \in Live : tasks[u].call = c
        <5>1. PICK u \in Live : tasks[u].call = c
          BY <4>3
        <5>2. u \in Live' /\ tasks'[u].call = c
          BY <2>3, <4>1, <5>1
        <5> QED
          BY <5>2 DEF Owed
      <4>4. CASE \E i \in DOMAIN queue : queue[i].op = "call" /\ queue[i].call = c
        BY <2>1, <4>4 DEF Owed
      <4> QED
        BY <4>2, <4>3, <4>4 DEF Owed
    <3>2. DOMAIN calls' = DOMAIN calls
      BY <2>1 DEF Answered
    <3> QED
      BY <2>1, <2>2, <3>1, <3>2 DEF AnswersOwed
  <2>15. WakesKept'
    BY <2>1, <2>2 DEF WakesKept, Busy
  <2> QED
    BY <2>4, <2>6, <2>10, <2>11, <2>12, <2>13, <2>14, <2>15
    DEF SchedulerInvariant, Types, Advance
<1> QED
  BY <1>2, <1>3

(***************************************************************************)
(* What an instruction does to the queue, and an instruction that leaves   *)
(* its task where it is.                                                   *)
(***************************************************************************)
QueueGrows ==
  /\ queue' \in Seq(Commands) /\ Len(queue) <= Len(queue')
  /\ \A i \in DOMAIN queue : i \in DOMAIN queue' /\ queue'[i] = queue[i]

LEMMA SameQueue ==
  ASSUME TableTypes, queue' = queue
  PROVE  QueueGrows
<1>1. queue \in Seq(Commands) /\ Len(queue) \in Nat
  BY LenProperties DEF TableTypes
<1>2. Len(queue') = Len(queue) /\ Len(queue) <= Len(queue)
  BY <1>1
<1> QED
  BY <1>1, <1>2 DEF QueueGrows

\* enqueue adds a command behind those that are there.
LEMMA EnqueueGrows ==
  ASSUME TableTypes, NEW c \in Commands, queue' = Append(queue, c)
  PROVE  /\ QueueGrows /\ queue' # <<>>
         /\ \E i \in DOMAIN queue' : queue'[i] = c
<1>1. queue \in Seq(Commands) /\ Len(queue) \in Nat
      /\ DOMAIN queue = 1 .. Len(queue)
  BY LenProperties DEF TableTypes
<1>2. PICK n \in Nat : n = Len(queue) + 1
  BY <1>1
<1>3. PICK q : q = queue'
  OBVIOUS
<1>4. /\ q \in Seq(Commands) /\ Len(q) = n /\ q[n] = c
      /\ \A i \in 1 .. Len(queue) : q[i] = queue[i]
  BY <1>1, <1>2, <1>3, AppendProperties
<1>5. DOMAIN q = 1 .. n
  BY <1>4, LenProperties
<1>6. /\ Len(queue) <= n /\ n \in DOMAIN q /\ q # <<>>
      /\ \A i \in DOMAIN queue : i \in DOMAIN q
  BY <1>1, <1>2, <1>4, <1>5
<1>7. \A i \in DOMAIN queue : i \in DOMAIN q /\ q[i] = queue[i]
  BY <1>1, <1>4, <1>6
<1>8. QueueGrows
  BY <1>3, <1>4, <1>6, <1>7 DEF QueueGrows
<1> QED
  BY <1>3, <1>4, <1>6, <1>8

LEMMA EndStaysQueued ==
  ASSUME QueueGrows, NEW j, EndQueued(j)
  PROVE  EndQueued(j)'
<1>1. PICK i \in DOMAIN queue : queue[i].op = "cancel" /\ queue[i].job = j
  BY DEF EndQueued
<1>2. i \in DOMAIN queue' /\ queue'[i] = queue[i]
  BY DEF QueueGrows
<1> QED
  BY <1>1, <1>2 DEF EndQueued

LEMMA OwedGrows ==
  ASSUME AnswersOwed, QueueGrows, calls' = calls, phase' = phase, phase # "closed",
         \A u \in Live : u \in Live' /\ tasks'[u].call = tasks[u].call
  PROVE  AnswersOwed'
<1>1. \A i \in DOMAIN queue : i \in DOMAIN queue' /\ queue'[i] = queue[i]
  BY DEF QueueGrows
<1> QED
  BY <1>1, OwedStays

\* The range of a turn's batch where there is none.
LEMMA NoBatch ==
  ASSUME QueueGrows
  PROVE  0 \in 0 .. Len(queue')
<1>1. PICK q \in Seq(Commands) : q = queue'
  BY DEF QueueGrows
<1>2. Len(q) \in Nat
  BY <1>1, LenProperties
<1>3. 0 \in 0 .. Len(q)
  BY <1>2
<1> QED
  BY <1>1, <1>3

\* An instruction: the table may grow, and so may the queue.
LEMMA StayKeeps ==
  ASSUME SchedulerInvariant, running # 0, NEW ts, Stay(ts), Advance, QueueGrows,
         calls' = calls, verdicts' = verdicts, TableTypes', wake' \in BOOLEAN,
         \A j \in cancelled' : j \in cancelled \/ EndQueued(j)',
         \A u \in Live : u \in Live' /\ tasks'[u].call = tasks[u].call,
         \A u \in Live' :
           /\ Pending(u)'
           /\ \/ u \in Live /\ tasks'[u] = tasks[u]
              \/ /\ Sound(u, tasks[u])'
                 /\ tasks'[u].work.kind = "host" => tasks'[u].work.job = 0
  PROVE  SchedulerInvariant'
<1>1. /\ TurnTypes /\ TableTypes /\ PromiseTypes /\ TasksSound
      /\ VerdictsSound /\ TimersEnd /\ AnswersOwed /\ WakesKept
  BY DEF SchedulerInvariant, Types
<1>2. /\ left' = left - 1 /\ slice' = slice - 1
      /\ running' = IF slice = 1 THEN 0 ELSE running
      /\ progressed' = TRUE
      /\ program' = program /\ phase' = phase /\ batch' = batch /\ ids' = ids
      /\ deferred' = deferred
  BY DEF Stay
<1>3. /\ running \in Live /\ phase = "tasks" /\ running \notin ids /\ batch = 0
      /\ Live \subseteq Live'
      /\ left \in Nat /\ slice \in 0 .. left /\ slice > 0
  BY <1>1 DEF TurnTypes
<1>4. PICK l \in Nat : l = left - 1 /\ left' = l
  BY <1>2, <1>3
<1>5. PICK s \in Nat : s = slice - 1 /\ slice' = s /\ s <= l
  BY <1>2, <1>3, <1>4
<1>6. /\ slice = 1 => s = 0
      /\ slice # 1 => s > 0
  BY <1>3, <1>5
<1>7. left' \in Nat /\ slice' \in 0 .. left'
  BY <1>4, <1>5
<1>8. /\ running' \in {0} \cup Live'
      /\ running' = 0 => slice' = 0
      /\ running' # 0 => slice' > 0 /\ running' = running
  BY <1>2, <1>3, <1>5, <1>6
<1>9. batch' \in 0 .. Len(queue')
  BY <1>2, <1>3, NoBatch
<1>10. ids' \subseteq Live'
  BY <1>1, <1>2, <1>3 DEF TurnTypes
<1>11. program' \in Program /\ deferred' \in BOOLEAN
  BY <1>1, <1>2 DEF TurnTypes
<1>12. TurnTypes'
  BY <1>2, <1>3, <1>7, <1>8, <1>9, <1>10, <1>11 DEF TurnTypes
<1>13. TasksSound'
  BY <1>1, TasksStay
<1>14. VerdictsSound'
  BY <1>1, VerdictsStay
<1>15. TimersEnd'
  <2>1. SUFFICES ASSUME NEW u \in Live', NEW j \in cancelled', IsJob(u, j)'
                 PROVE  EndQueued(j)'
    BY DEF TimersEnd
  <2>2. SUFFICES ASSUME j \in cancelled PROVE EndQueued(j)'
    OBVIOUS
  <2>3. j # 0
    BY <1>1, <2>2 DEF TableTypes
  <2>4. tasks'[u].work.kind = "host" /\ tasks'[u].work.job = j
    BY <2>1 DEF IsJob, Kind
  <2>5. u \in Live /\ tasks'[u] = tasks[u]
    BY <2>3, <2>4
  <2>6. IsJob(u, j)
    BY <2>4, <2>5 DEF IsJob, Kind
  <2>7. EndQueued(j)
    BY <1>1, <2>2, <2>5, <2>6 DEF TimersEnd
  <2> QED
    BY <2>7, EndStaysQueued
<1>16. AnswersOwed'
  BY <1>1, <1>2, <1>3, OwedGrows
<1>17. WakesKept'
  BY <1>2, <1>3 DEF WakesKept, Busy
<1> QED
  BY <1>12, <1>13, <1>14, <1>15, <1>16, <1>17
  DEF SchedulerInvariant, Types, Advance

\* The table with the instruction behind the task that runs.
LEMMA PastTypes ==
  ASSUME TableTypes, NEW t \in Live, Kind(t) = "code"
  PROVE  /\ DOMAIN Past(t) = Live
         /\ \A u \in Live : u # t => Past(t)[u] = tasks[u]
         /\ Past(t)[t] \in AnyTask
         /\ Past(t)[t].work.kind = "code" /\ Past(t)[t].work.await = 0
         /\ Past(t)[t].waiting = tasks[t].waiting
         /\ Past(t)[t].call = tasks[t].call
<1>1. PICK k \in AnyTask : k = tasks[t]
  BY DEF TableTypes
<1>2. k.work \in CodeWork
  BY <1>1, TaskTypes, WorkKinds DEF Kind
<1>3. PICK v \in CodeWork : v = k.work
  BY <1>2
<1>4. PICK n \in Int : n = v.ops - 1
  BY <1>3 DEF CodeWork
<1>5. PICK x \in CodeWork : x = [v EXCEPT !.ops = n]
  BY <1>4 DEF CodeWork
<1>6. PICK w \in CodeWork : w = [x EXCEPT !.await = 0]
  BY DEF CodeWork
<1>7. w.kind = "code" /\ w.await = 0
  BY <1>6 DEF CodeWork
<1>8. PICK m \in AnyTask : m = [k EXCEPT !.work = x]
  BY DEF AnyTask, AnyWork
<1>9. PICK p \in AnyTask : p = [m EXCEPT !.work = w]
  BY DEF AnyTask, AnyWork
<1>10. m.work = x /\ p.work = w /\ p.waiting = k.waiting /\ p.call = k.call
  BY <1>8, <1>9 DEF AnyTask
<1>11. /\ DOMAIN Past(t) = Live
       /\ \A u \in Live : u # t => Past(t)[u] = tasks[u]
  BY DEF Past, Live
<1>12. Past(t)[t] = p
  <2>1. m = [k EXCEPT !.work.ops = n]
    BY <1>3, <1>5, <1>8 DEF AnyTask
  <2>2. p = [m EXCEPT !.work.await = 0]
    BY <1>6, <1>9, <1>10 DEF AnyTask
  <2>3. Past(t)[t] = [[tasks[t] EXCEPT !.work.ops = tasks[t].work.ops - 1]
                        EXCEPT !.work.await = 0]
    BY DEF Past, Live
  <2> QED
    BY <1>1, <1>3, <1>4, <2>1, <2>2, <2>3
<1> QED
  BY <1>1, <1>7, <1>10, <1>11, <1>12

LEMMA PastSound ==
  ASSUME TableTypes, Advance, TasksSound, NEW t \in Live, Kind(t) = "code",
         NEW k, k = Past(t)[t]
  PROVE  Sound(t, k)'
<1>1. /\ k \in AnyTask /\ k.work.kind = "code" /\ k.work.await = 0
      /\ k.waiting = tasks[t].waiting
  BY PastTypes
<1>2. t \in Issued /\ k.waiting < nextTask /\ nextTask \in Nat \ {0}
  BY <1>1 DEF TableTypes, TasksSound, Sound, Advance, PromiseTypes
<1>3. Sound(t, k)
  BY <1>1, <1>2 DEF Sound
<1> QED
  BY <1>1, <1>2, <1>3, SoundStays

(***************************************************************************)
(* A turn.                                                                 *)
(***************************************************************************)

\* The parts that a step leaves true because it changes none of their tables.
LEMMA TablesStay ==
  ASSUME SchedulerInvariant, phase # "closed", phase' # "closed",
         UNCHANGED <<tasks, nextTask, promiseVars, hostVars, calls>>
  PROVE  /\ TableTypes' /\ PromiseTypes' /\ TasksSound' /\ VerdictsSound'
         /\ TimersEnd' /\ AnswersOwed'
         /\ Live' = Live /\ queue' = queue
         /\ \A u \in Live : Waits(tasks[u]) => Waits(tasks[u])'
<1>1. /\ TurnTypes /\ TableTypes /\ PromiseTypes /\ TasksSound
      /\ VerdictsSound /\ TimersEnd /\ AnswersOwed
  BY DEF SchedulerInvariant, Types
<1>2. /\ tasks' = tasks /\ queue' = queue /\ nextJob' = nextJob
      /\ cancelled' = cancelled /\ calls' = calls /\ verdicts' = verdicts
      /\ outcome' = outcome /\ Live' = Live
      /\ UNCHANGED <<nextTask, promiseVars>>
  BY DEF hostVars, promiseVars, Live
<1>3. Advance /\ PromiseTypes' /\ Issued' = Issued /\ \A p : Pending(p)' <=> Pending(p)
  BY <1>1, <1>2, SameAdvance DEF Advance
<1>4. TableTypes'
  BY <1>1, <1>2, <1>3 DEF TableTypes
<1>5. TasksSound'
  <2>1. \A u \in Live' : Pending(u)' /\ u \in Live /\ tasks'[u] = tasks[u]
    BY <1>1, <1>2, <1>3 DEF TasksSound
  <2> QED
    BY <1>1, <1>3, <2>1, TasksStay
<1>6. VerdictsSound'
  BY <1>1, <1>2, <1>3, VerdictsStay
<1>7. TimersEnd'
  BY <1>1, <1>2 DEF TimersEnd, IsJob, Kind, EndQueued
<1>8. AnswersOwed'
  BY <1>1, <1>2 DEF AnswersOwed, Owed
<1>9. ASSUME NEW u \in Live, Waits(tasks[u]) PROVE Waits(tasks[u])'
  <2>1. PICK k \in AnyTask : k = tasks[u] /\ tasks'[u] = k
    BY <1>1, <1>2 DEF TableTypes
  <2>2. u \in Issued /\ Sound(u, k) /\ Waits(k)
    BY <1>1, <1>9, <2>1 DEF TableTypes, TasksSound
  <2>3. Waits(k)'
    BY <1>1, <1>2, <2>2, WaitsStay
  <2> QED
    BY <2>1, <2>3
<1> QED
  BY <1>2, <1>3, <1>4, <1>5, <1>6, <1>7, <1>8, <1>9

LEMMA AtMostBounds ==
  ASSUME NEW n \in Nat, NEW bound \in Nat
  PROVE  /\ AtMost(n, bound) \in Nat /\ AtMost(n, bound) <= n
         /\ AtMost(n, bound) <= bound
         /\ n # 0 /\ bound # 0 => AtMost(n, bound) # 0
  BY DEF AtMost

LEMMA BudgetIsNat ==
  ASSUME TurnTypes
  PROVE  program.budget \in Nat
  BY DEF TurnTypes, Program

LEMMA StartTurnKeeps ==
  ASSUME SchedulerInvariant, StartTurn
  PROVE  SchedulerInvariant'
<1>1. TurnTypes /\ TableTypes /\ AnswersOwed /\ WakesKept
  BY DEF SchedulerInvariant, Types
<1>2. /\ phase = "idle" /\ phase' = "start" /\ wake' = FALSE
      /\ batch' = AtMost(Len(queue), program.budget)
      /\ left' = program.budget - batch'
      /\ progressed' = (batch' > 0) /\ deferred' = FALSE
      /\ program' = program /\ ids' = ids /\ running' = running /\ slice' = slice
      /\ UNCHANGED <<tasks, nextTask, promiseVars, hostVars, calls>>
  BY DEF StartTurn
<1>3. /\ TableTypes' /\ PromiseTypes' /\ TasksSound' /\ VerdictsSound'
      /\ TimersEnd' /\ AnswersOwed' /\ Live' = Live /\ queue' = queue
  BY <1>2, TablesStay
<1>4. running = 0 /\ slice = 0 /\ ids = {}
  BY <1>1, <1>2 DEF TurnTypes
<1>5. PICK b \in Nat : b = AtMost(Len(queue), program.budget) /\ b = batch'
  <2>1. Len(queue) \in Nat
    BY <1>1, LenProperties DEF TableTypes
  <2> QED
    BY <1>1, <1>2, <2>1, BudgetIsNat, AtMostBounds
<1>6. b <= Len(queue) /\ b <= program.budget
  <2>1. Len(queue) \in Nat
    BY <1>1, LenProperties DEF TableTypes
  <2> QED
    BY <1>1, <1>5, <2>1, BudgetIsNat, AtMostBounds
<1>7. PICK l \in Nat : l = left'
  BY <1>1, <1>2, <1>5, <1>6, BudgetIsNat
<1>8. left' \in Nat /\ slice' \in 0 .. left' /\ batch' \in 0 .. Len(queue')
  <2>1. slice' = 0
    BY <1>2, <1>4
  <2>2. Len(queue) \in Nat
    BY <1>1, LenProperties DEF TableTypes
  <2>3. b \in 0 .. Len(queue)
    BY <1>5, <1>6, <2>2
  <2> QED
    BY <1>3, <1>5, <1>7, <2>1, <2>3
<1>9. program' \in Program /\ progressed' \in BOOLEAN /\ deferred' \in BOOLEAN
  <2>1. progressed' \in BOOLEAN
    BY <1>2
  <2> QED
    BY <1>1, <1>2, <2>1 DEF TurnTypes
<1>10. TurnTypes'
  BY <1>2, <1>3, <1>4, <1>8, <1>9 DEF TurnTypes
<1>11. WakesKept'
  BY <1>2 DEF WakesKept
<1> QED
  BY <1>3, <1>10, <1>11 DEF SchedulerInvariant, Types

\* What the filter of drive passes over can do nothing.
LEMMA PassedOverWaits ==
  ASSUME TableTypes, PromiseTypes, TasksSound, NEW t \in Live, ~Runnable(t)
  PROVE  Waits(tasks[t])
<1>1. /\ tasks[t].work \in AnyWork /\ Sound(t, tasks[t])
      /\ tasks[t].work.kind \in {"code", "host", "join", "wait"}
  BY TaskTypes, WorkKinds DEF TableTypes, TasksSound
<1>2. \/ tasks[t].waiting # 0 /\ Pending(tasks[t].waiting)
      \/ Kind(t) = "host" /\ ~tasks[t].work.ready
      \/ Kind(t) = "join" /\ tasks[t].work.checked = epoch
  BY DEF Runnable
<1>3. CASE Kind(t) \in {"code", "wait"}
  BY <1>2, <1>3 DEF Waits, Kind
<1>4. CASE Kind(t) = "host"
  <2>1. tasks[t].waiting = 0 /\ ~tasks[t].work.ready
    BY <1>1, <1>2, <1>4 DEF Sound, Kind
  <2> QED
    BY <1>1, <1>4, <2>1 DEF Sound, Waits, Kind
<1>5. CASE Kind(t) = "join"
  <2>1. tasks[t].waiting = 0 /\ ScanSound(tasks[t].work)
    BY <1>1, <1>5 DEF Sound, Kind
  <2>2. tasks[t].work.checked = epoch
    BY <1>2, <1>5, <2>1
  <2>3. Idles(tasks[t].work)
    BY <2>1, <2>2 DEF ScanSound
  <2> QED
    BY <1>5, <2>3 DEF Waits, Kind
<1> QED
  BY <1>1, <1>3, <1>4, <1>5 DEF Kind

LEMMA ScheduleKeeps ==
  ASSUME SchedulerInvariant, Schedule
  PROVE  SchedulerInvariant'
<1>1. TurnTypes /\ TableTypes /\ PromiseTypes /\ TasksSound
  BY DEF SchedulerInvariant, Types
<1>2. /\ phase = "start" /\ phase' = "tasks" /\ batch = 0
      /\ ids' = {t \in Live : Runnable(t)}
      /\ program' = program /\ batch' = batch /\ left' = left
      /\ running' = running /\ slice' = slice /\ progressed' = progressed
      /\ deferred' = deferred /\ wake' = wake
      /\ UNCHANGED <<tasks, nextTask, promiseVars, hostVars, calls>>
  BY DEF Schedule
<1>3. /\ TableTypes' /\ PromiseTypes' /\ TasksSound' /\ VerdictsSound'
      /\ TimersEnd' /\ AnswersOwed' /\ Live' = Live /\ queue' = queue
      /\ \A u \in Live : Waits(tasks[u]) => Waits(tasks[u])'
  BY <1>2, TablesStay
<1>4. running = 0 /\ slice = 0
  BY <1>1, <1>2 DEF TurnTypes
<1>5. TurnTypes'
  BY <1>1, <1>2, <1>3, <1>4 DEF TurnTypes
<1>6. WakesKept'
  <2>1. \A u \in Live : u \in ids' \/ Waits(tasks[u])'
    BY <1>1, <1>2, <1>3, PassedOverWaits
  <2> QED
    BY <1>2, <1>3, <2>1 DEF WakesKept
<1> QED
  BY <1>3, <1>5, <1>6 DEF SchedulerInvariant, Types

LEMMA DeferKeeps ==
  ASSUME SchedulerInvariant, Defer
  PROVE  SchedulerInvariant'
<1>1. TurnTypes /\ TableTypes
  BY DEF SchedulerInvariant, Types
<1>2. /\ phase = "tasks" /\ phase' = phase /\ running = 0 /\ ids' = {}
      /\ deferred' = TRUE
      /\ program' = program /\ batch' = batch /\ left' = left
      /\ running' = running /\ slice' = slice /\ progressed' = progressed
      /\ wake' = wake
      /\ UNCHANGED <<tasks, nextTask, promiseVars, hostVars, calls>>
  BY DEF Defer
<1>3. /\ TableTypes' /\ PromiseTypes' /\ TasksSound' /\ VerdictsSound'
      /\ TimersEnd' /\ AnswersOwed' /\ Live' = Live /\ queue' = queue
  BY <1>2, TablesStay
<1>4. TurnTypes'
  BY <1>1, <1>2, <1>3 DEF TurnTypes
<1>5. WakesKept'
  BY <1>2 DEF WakesKept, Busy
<1> QED
  BY <1>3, <1>4, <1>5 DEF SchedulerInvariant, Types

LEMMA EndTasksKeeps ==
  ASSUME SchedulerInvariant, EndTasks
  PROVE  SchedulerInvariant'
<1>1. TurnTypes /\ TableTypes /\ WakesKept
  BY DEF SchedulerInvariant, Types
<1>2. /\ phase = "tasks" /\ phase' = "end" /\ running = 0 /\ ids = {}
      /\ batch' = AtMost(Len(queue), left) /\ left' = left - batch'
      /\ progressed' = (progressed \/ batch' > 0)
      /\ program' = program /\ ids' = ids /\ running' = running
      /\ slice' = slice /\ deferred' = deferred /\ wake' = wake
      /\ UNCHANGED <<tasks, nextTask, promiseVars, hostVars, calls>>
  BY DEF EndTasks
<1>3. /\ TableTypes' /\ PromiseTypes' /\ TasksSound' /\ VerdictsSound'
      /\ TimersEnd' /\ AnswersOwed' /\ Live' = Live /\ queue' = queue
      /\ \A u \in Live : Waits(tasks[u]) => Waits(tasks[u])'
  BY <1>2, TablesStay
<1>4. slice = 0 /\ left \in Nat
  BY <1>1, <1>2 DEF TurnTypes
<1>5. Len(queue) \in Nat
  BY <1>1, LenProperties DEF TableTypes
<1>6. PICK b \in Nat : b = AtMost(Len(queue), left) /\ b = batch'
                       /\ b <= Len(queue) /\ b <= left
  BY <1>2, <1>4, <1>5, AtMostBounds
<1>7. PICK l \in Nat : l = left'
  BY <1>2, <1>4, <1>6
<1>8. left' \in Nat /\ slice' \in 0 .. left' /\ batch' \in 0 .. Len(queue')
  <2>1. slice' = 0
    BY <1>2, <1>4
  <2>2. b \in 0 .. Len(queue)
    BY <1>5, <1>6
  <2> QED
    BY <1>3, <1>6, <1>7, <2>1, <2>2
<1>9. /\ program' \in Program /\ progressed' \in BOOLEAN /\ deferred' \in BOOLEAN
      /\ wake' \in BOOLEAN
  BY <1>1, <1>2 DEF TurnTypes
<1>10. TurnTypes'
  BY <1>2, <1>3, <1>4, <1>8, <1>9 DEF TurnTypes
<1>11. WakesKept'
  <2>1. SUFFICES ASSUME ~Busy'
                 PROVE  batch' = 0 /\ \A u \in Live : Waits(tasks[u])'
    BY <1>2, <1>3 DEF WakesKept
  <2>2. ~progressed /\ ~(b > 0)
    BY <1>1, <1>2, <1>6, <2>1 DEF Busy, TurnTypes
  <2>3. ~Busy
    BY <1>2, <2>1, <2>2 DEF Busy
  <2>4. 0 \notin Live
    BY <1>1 DEF TableTypes, Issued, Below
  <2>5. \A u \in Live : Waits(tasks[u])
    BY <1>1, <1>2, <2>3, <2>4 DEF WakesKept
  <2>6. b = 0
    BY <1>6, <2>2
  <2> QED
    BY <1>3, <1>6, <2>5, <2>6
<1> QED
  BY <1>3, <1>10, <1>11 DEF SchedulerInvariant, Types

LEMMA DispatchKeeps ==
  ASSUME SchedulerInvariant, NEW t \in Live, Dispatch(t)
  PROVE  SchedulerInvariant'
<1>1. /\ TurnTypes /\ TableTypes /\ PromiseTypes /\ TasksSound
      /\ VerdictsSound /\ TimersEnd /\ AnswersOwed /\ WakesKept
  BY DEF SchedulerInvariant, Types
<1>2. /\ phase = "tasks" /\ phase' = phase /\ running = 0 /\ left > 0 /\ t \in ids
      /\ ids' = ids \ {t} /\ running' = t /\ slice' = AtMost(Slice, left)
      /\ tasks' = [tasks EXCEPT ![t].waiting = 0]
      /\ program' = program /\ batch' = batch /\ left' = left
      /\ progressed' = progressed /\ deferred' = deferred /\ wake' = wake
      /\ queue' = queue /\ nextJob' = nextJob /\ cancelled' = cancelled
      /\ calls' = calls /\ verdicts' = verdicts /\ outcome' = outcome
      /\ UNCHANGED <<nextTask, promiseVars>>
  BY DEF Dispatch, hostVars, promiseVars
<1>3. PICK o \in AnyTask : o = tasks[t]
  BY <1>1 DEF TableTypes
<1>4. PICK k \in AnyTask : k = [work |-> o.work, waiting |-> 0, call |-> o.call]
  BY TaskTypes DEF AnyTask
<1>5. /\ k.work = o.work /\ k.waiting = 0 /\ k.call = o.call
      /\ k = [o EXCEPT !.waiting = 0]
  BY <1>4 DEF AnyTask
<1>6. /\ Live' = Live /\ tasks'[t] = k
      /\ \A u \in Live : u # t => tasks'[u] = tasks[u]
  BY <1>2, <1>3, <1>5 DEF Live
<1>7. Advance /\ Issued' = Issued /\ \A p : Pending(p)' <=> Pending(p)
  BY <1>1, <1>2, SameAdvance
<1>8. t \in Issued /\ t # 0
  BY <1>1 DEF TableTypes, Issued, Below
<1>9. Sound(t, k)
  <2>1. Sound(t, o)
    BY <1>1, <1>3 DEF TasksSound
  <2>2. 0 < nextTask
    BY <1>1 DEF PromiseTypes
  <2> QED
    BY <1>5, <2>1, <2>2 DEF Sound
<1>10. Sound(t, k)'
  BY <1>7, <1>8, <1>9, SoundStays
<1>11. TableTypes'
  <2>1. \A u \in Live' : tasks'[u] \in AnyTask
    BY <1>1, <1>6 DEF TableTypes
  <2> QED
    BY <1>1, <1>2, <1>6, <1>7, <2>1 DEF TableTypes
<1>12. left \in Nat /\ batch = 0
  BY <1>1, <1>2 DEF TurnTypes
<1>13. PICK s \in Nat : s = AtMost(Slice, left) /\ s <= left /\ s # 0 /\ s = slice'
  <2>1. Slice \in Nat /\ Slice # 0
    BY ConstantsAssumption
  <2>2. left # 0
    BY <1>2, <1>12
  <2> QED
    BY <1>2, <1>12, <2>1, <2>2, AtMostBounds
<1>14. slice' \in 0 .. left' /\ slice' > 0 /\ left' \in Nat
  BY <1>2, <1>12, <1>13
<1>15. batch' \in 0 .. Len(queue')
  BY <1>1, <1>2 DEF TurnTypes
<1>16. ids' \subseteq Live' /\ running' \notin ids' /\ running' \in Live'
  BY <1>1, <1>2, <1>6 DEF TurnTypes
<1>17. TurnTypes'
  BY <1>1, <1>2, <1>8, <1>12, <1>14, <1>15, <1>16 DEF TurnTypes
<1>18. TasksSound'
  <2>1. ASSUME NEW u \in Live'
        PROVE  /\ Pending(u)'
               /\ \/ u \in Live /\ tasks'[u] = tasks[u]
                  \/ Sound(u, tasks[u])'
    <3>1. Pending(u)'
      BY <1>1, <1>6, <1>7, <2>1 DEF TasksSound
    <3>2. CASE u = t
      BY <1>6, <1>10, <3>1, <3>2
    <3>3. CASE u # t
      BY <1>6, <2>1, <3>1, <3>3
    <3> QED
      BY <3>2, <3>3
  <2> QED
    BY <1>1, <1>7, <2>1, TasksStay
<1>19. VerdictsSound'
  BY <1>1, <1>2, <1>7, VerdictsStay
<1>20. TimersEnd'
  <2>1. SUFFICES ASSUME NEW u \in Live', NEW j \in cancelled, IsJob(u, j)'
                 PROVE  EndQueued(j)'
    BY <1>2 DEF TimersEnd
  <2>2. IsJob(u, j)
    <3>1. CASE u = t
      BY <1>3, <1>5, <1>6, <2>1, <3>1 DEF IsJob, Kind
    <3>2. CASE u # t
      BY <1>6, <2>1, <3>2 DEF IsJob, Kind
    <3> QED
      BY <3>1, <3>2
  <2>3. EndQueued(j)
    BY <1>1, <1>6, <2>1, <2>2 DEF TimersEnd
  <2> QED
    BY <1>2, <2>3 DEF EndQueued
<1>21. AnswersOwed'
  <2>1. \A u \in Live : u \in Live' /\ tasks'[u].call = tasks[u].call
    BY <1>3, <1>5, <1>6
  <2> QED
    BY <1>1, <1>2, <2>1, OwedStays
<1>22. WakesKept'
  <2>1. SUFFICES ASSUME ~Busy', NEW u \in Live
                 PROVE  Waits(tasks[u])' \/ u \in ids' \/ u = t
    BY <1>2, <1>6 DEF WakesKept
  <2>2. SUFFICES ASSUME u # t, u \notin ids PROVE Waits(tasks[u])'
    BY <1>2
  <2>3. ~Busy
    BY <1>2, <2>1 DEF Busy
  <2>4. Waits(tasks[u])
    <3>1. u # 0
      BY <1>1 DEF TableTypes, Issued, Below
    <3> QED
      BY <1>1, <1>2, <2>2, <2>3, <3>1 DEF WakesKept
  <2>5. PICK j \in AnyTask : j = tasks[u] /\ tasks'[u] = j
    BY <1>1, <1>6, <2>2 DEF TableTypes
  <2>6. u \in Issued /\ Sound(u, j) /\ Waits(j)
    BY <1>1, <2>4, <2>5 DEF TableTypes, TasksSound
  <2>7. Waits(j)'
    BY <1>1, <1>2, <2>6, WaitsStay
  <2> QED
    BY <2>5, <2>7
<1> QED
  BY <1>7, <1>11, <1>17, <1>18, <1>19, <1>20, <1>21, <1>22
  DEF SchedulerInvariant, Types, Advance

LEMMA EndTurnKeeps ==
  ASSUME SchedulerInvariant, EndTurn
  PROVE  SchedulerInvariant'
<1>1. TurnTypes /\ TableTypes /\ WakesKept
  BY DEF SchedulerInvariant, Types
<1>2. CASE Over
  <2>1. Close(0)
    BY <1>2 DEF EndTurn
  <2> QED
    BY <2>1, CloseKeeps
<1>3. CASE ~Over
  <2>1. /\ phase = "end" /\ batch = 0 /\ phase' = "idle"
        /\ wake' = (wake \/ AnotherTurn)
        /\ left' = 0 /\ progressed' = FALSE /\ deferred' = FALSE
        /\ program' = program /\ batch' = batch /\ ids' = ids
        /\ running' = running /\ slice' = slice
        /\ UNCHANGED <<tasks, nextTask, promiseVars, hostVars, calls>>
    BY <1>3 DEF EndTurn, GoOn
  <2>2. /\ TableTypes' /\ PromiseTypes' /\ TasksSound' /\ VerdictsSound'
        /\ TimersEnd' /\ AnswersOwed' /\ Live' = Live /\ queue' = queue
        /\ \A u \in Live : Waits(tasks[u]) => Waits(tasks[u])'
    BY <2>1, TablesStay
  <2>3. running = 0 /\ slice = 0
    BY <1>1, <2>1 DEF TurnTypes
  <2>4. wake' \in BOOLEAN
    BY <2>1
  <2>5. batch' \in 0 .. Len(queue') /\ slice' \in 0 .. left'
    BY <1>1, <2>1, <2>2, <2>3 DEF TurnTypes
  <2>6. TurnTypes'
    BY <1>1, <2>1, <2>2, <2>3, <2>4, <2>5 DEF TurnTypes
  <2>7. WakesKept'
    <3>1. SUFFICES ASSUME ~wake'
                   PROVE  queue = <<>> /\ \A u \in Live : Waits(tasks[u])'
      BY <2>1, <2>2 DEF WakesKept
    <3>2. ~wake /\ ~AnotherTurn
      BY <2>1, <3>1
    <3>3. queue = <<>>
      BY <3>2 DEF AnotherTurn
    <3>4. CASE ~Busy
      BY <1>1, <2>1, <2>2, <3>3, <3>4 DEF WakesKept
    <3>5. CASE Busy
      <4>1. Live = {}
        BY <3>2, <3>5 DEF AnotherTurn, Busy
      <4> QED
        BY <3>3, <4>1
    <3> QED
      BY <3>4, <3>5
  <2> QED
    BY <2>2, <2>6, <2>7 DEF SchedulerInvariant, Types
<1> QED
  BY <1>2, <1>3

(***************************************************************************)
(* A turn takes a command from the queue.                                  *)
(***************************************************************************)

LEMMA TakenQueue ==
  ASSUME TableTypes, batch \in 0 .. Len(queue), batch > 0, queue' = Tail(queue)
  PROVE  /\ queue' \in Seq(Commands) /\ Head(queue) \in Commands
         /\ batch - 1 \in 0 .. Len(queue')
         /\ \A i \in DOMAIN queue :
              \/ queue[i] = Head(queue)
              \/ \E j \in DOMAIN queue' : queue'[j] = queue[i]
<1>1. /\ queue \in Seq(Commands) /\ Len(queue) \in Nat
      /\ DOMAIN queue = 1 .. Len(queue)
  BY LenProperties DEF TableTypes
<1>2. batch \in Nat /\ batch <= Len(queue) /\ Len(queue) > 0
  BY <1>1
<1>3. queue # <<>>
  BY <1>1, <1>2
<1>4. PICK q : q = Tail(queue)
  OBVIOUS
<1>5. PICK n \in Nat : n = Len(queue) - 1
  <2>1. PICK m \in Nat : m = Len(queue) /\ m > 0
    BY <1>1, <1>2
  <2>2. m - 1 \in Nat
    BY <2>1
  <2> QED
    BY <2>1, <2>2
<1>6. /\ q \in Seq(Commands) /\ Head(queue) \in Commands /\ Len(q) = n
      /\ Head(queue) = queue[1]
      /\ \A i \in 1 .. n : q[i] = queue[i + 1]
  BY <1>1, <1>3, <1>4, <1>5, HeadTailProperties
<1>7. DOMAIN q = 1 .. n
  BY <1>6, LenProperties
<1>8. batch - 1 \in 0 .. n
  BY <1>1, <1>2, <1>5
<1>9. ASSUME NEW i \in DOMAIN queue, i # 1
      PROVE  \E j \in DOMAIN q : q[j] = queue[i]
  <2>1. i - 1 \in 1 .. n /\ (i - 1) + 1 = i
    BY <1>1, <1>5, <1>9
  <2>2. q[i - 1] = queue[i]
    BY <1>6, <2>1
  <2> QED
    BY <1>7, <2>1, <2>2
<1> QED
  BY <1>4, <1>6, <1>8, <1>9

\* What a command makes a task of: a callback, or the future of a timer.
SpawnsFrom(c, k) ==
  /\ Spawn(k) /\ k \in AnyTask /\ k.waiting = 0 /\ k.call = c.call
  /\ \/ c.op = "call" /\ k.work.kind = "code" /\ k.work.await = 0
     \/ /\ c.op = "spawn" /\ k.work.kind = "host" /\ k.call = 0
        /\ k.work.ready /\ k.work.job \notin cancelled

\* What host_commands does with a command.
Executes(c) ==
  \/ /\ UNCHANGED <<tasks, nextTask, promiseVars>>
     /\ c.op = "spawn" \/ (c.op = "call" /\ c.call = 0)
  \/ c.op = "cancel" /\ DropTimer(c)
  \/ \E k : SpawnsFrom(c, k)

LEMMA ExecuteForms ==
  ASSUME TableTypes, NEW c \in Commands,
         (CASE c.op = "spawn" -> SpawnTimer(c)
            [] c.op = "cancel" -> DropTimer(c)
            [] c.op = "call" -> StartCallback(c))
  PROVE  Executes(c)
<1>1. /\ c.op \in {"spawn", "cancel", "call"} /\ c.job \in Nat
      /\ c.repeat \in BOOLEAN /\ c.call \in Nat
      /\ c.call # 0 => c.op = "call" /\ c.job = 0
  BY DEF Commands, Command
<1>2. CASE c.op = "spawn"
  <2>1. SpawnTimer(c) /\ c.call = 0
    BY <1>1, <1>2
  <2>2. CASE c.job \in cancelled
    BY <1>2, <2>1, <2>2 DEF SpawnTimer, Executes
  <2>3. CASE c.job \notin cancelled
    <3>1. PICK w \in HostWork : w = Future(c.job, c.repeat)
      BY <1>1 DEF Future, HostWork
    <3>2. w.kind = "host" /\ w.ready /\ w.job = c.job
      BY <3>1 DEF Future
    <3>3. PICK k \in AnyTask : k = Task(w)
      BY DEF Task, AnyTask, AnyWork
    <3>4. k.work = w /\ k.waiting = 0 /\ k.call = 0
      BY <3>3 DEF Task
    <3>5. Spawn(k)
      BY <2>1, <2>3, <3>1, <3>3 DEF SpawnTimer
    <3>6. SpawnsFrom(c, k)
      BY <1>2, <2>1, <2>3, <3>2, <3>4, <3>5 DEF SpawnsFrom
    <3> QED
      BY <3>6 DEF Executes
  <2> QED
    BY <2>2, <2>3
<1>3. CASE c.op = "cancel"
  BY <1>3 DEF Executes
<1>4. CASE c.op = "call"
  <2>1. StartCallback(c)
    BY <1>4
  <2>2. CASE c.job \in cancelled
    <3>1. c.call = 0
      BY <1>1, <2>2 DEF TableTypes
    <3> QED
      BY <1>4, <2>1, <2>2, <3>1 DEF StartCallback, Executes
  <2>3. CASE c.job \notin cancelled
    <3>1. PICK w \in CodeWork : w = Code(c.job, FALSE)
      <4>1. MaxOps \in Int
        BY ConstantsAssumption
      <4> QED
        BY <1>1, <4>1 DEF Code, CodeWork
    <3>2. w.kind = "code" /\ w.await = 0
      BY <3>1 DEF Code
    <3>3. PICK o \in AnyTask : o = Task(w)
      BY DEF Task, AnyTask, AnyWork
    <3>4. PICK k \in AnyTask : k = [o EXCEPT !.call = c.call]
      BY <1>1 DEF AnyTask
    <3>5. o.work = w /\ o.waiting = 0
      BY <3>3 DEF Task
    <3>6. k.work = w /\ k.waiting = 0 /\ k.call = c.call
      BY <3>4, <3>5 DEF AnyTask
    <3>7. Spawn(k)
      BY <2>1, <2>3, <3>1, <3>3, <3>4 DEF StartCallback
    <3>8. SpawnsFrom(c, k)
      BY <1>4, <3>2, <3>6, <3>7 DEF SpawnsFrom
    <3> QED
      BY <3>8 DEF Executes
  <2> QED
    BY <2>2, <2>3
<1> QED
  BY <1>1, <1>2, <1>3, <1>4

\* The table with a task more.
LEMMA AddedTypes ==
  ASSUME TableTypes, Issued' = Issued \cup {nextTask}, nextTask \notin Issued,
         NEW k \in AnyTask, tasks' = Added(tasks, k)
  PROVE  /\ Live' = Live \cup {nextTask} /\ nextTask \notin Live
         /\ tasks'[nextTask] = k
         /\ \A u \in Live : tasks'[u] = tasks[u]
         /\ Live' \subseteq Issued' /\ \A u \in Live' : tasks'[u] \in AnyTask
<1>1. Live' = Live \cup {nextTask} /\ nextTask \notin Live
  BY DEF Live, Added, TableTypes
<1>2. tasks'[nextTask] = k /\ \A u \in Live : tasks'[u] = tasks[u]
  BY <1>1 DEF Added, Live
<1> QED
  BY <1>1, <1>2 DEF TableTypes

\* A task that was just made.
Fresh(k) ==
  /\ k \in AnyTask /\ k.waiting = 0
  /\ \/ k.work.kind = "code" /\ k.work.await = 0
     \/ k.work.kind = "host" /\ k.work.ready /\ k.call = 0

LEMMA FreshSound ==
  ASSUME Advance, NEW t, NEW k, Fresh(k)
  PROVE  Sound(t, k)'
<1>1. nextTask' \in Nat \ {0}
  BY DEF Advance, PromiseTypes
<1>2. 0 < nextTask'
  BY <1>1
<1> QED
  BY <1>2 DEF Fresh, Sound

LEMMA ExecuteHead ==
  ASSUME SchedulerInvariant, Execute
  PROVE  \E c \in Commands : c = Head(queue) /\ Executes(c)
<1>1. TurnTypes /\ TableTypes
  BY DEF SchedulerInvariant, Types
<1>2. PICK c : c = Head(queue)
  OBVIOUS
<1>3. /\ batch > 0 /\ queue' = Tail(queue)
      /\ (CASE c.op = "spawn" -> SpawnTimer(c)
            [] c.op = "cancel" -> DropTimer(c)
            [] c.op = "call" -> StartCallback(c))
  BY <1>2 DEF Execute
<1>4. batch \in 0 .. Len(queue)
  BY <1>1 DEF TurnTypes
<1>5. c \in Commands
  BY <1>1, <1>2, <1>3, <1>4, TakenQueue
<1>6. (CASE c.op = "spawn" -> SpawnTimer(c)
         [] c.op = "cancel" -> DropTimer(c)
         [] c.op = "call" -> StartCallback(c))
  BY <1>3
<1>7. Executes(c)
  BY <1>1, <1>5, <1>6, ExecuteForms
<1> QED
  BY <1>2, <1>5, <1>7

\* What the command c has done to the tables.
ExecuteTables(c) ==
  /\ Live' \subseteq Issued' /\ (\A u \in Live' : tasks'[u] \in AnyTask)
  /\ Advance /\ verdicts' = verdicts
  /\ \A u \in Live' :
       /\ Pending(u)'
       /\ \/ /\ u \in Live /\ tasks'[u] = tasks[u]
             /\ c.op = "cancel" => ~IsJob(u, c.job)
          \/ /\ Fresh(tasks'[u])
             /\ tasks'[u].work.kind = "host" => tasks'[u].work.job \notin cancelled
  /\ \A u \in Live : tasks[u].call # 0 => u \in Live' /\ tasks'[u].call = tasks[u].call
  /\ c.call # 0 => \E u \in Live' : tasks'[u].call = c.call

LEMMA ExecuteTablesHold ==
  ASSUME TableTypes, PromiseTypes, TasksSound, NEW c \in Commands, Executes(c)
  PROVE  ExecuteTables(c)
<1>1. c.call # 0 => c.op = "call"
  BY DEF Commands
<1>2. CASE /\ UNCHANGED <<tasks, nextTask, promiseVars>>
           /\ c.op = "spawn" \/ (c.op = "call" /\ c.call = 0)
  <2>1. Advance /\ Issued' = Issued /\ \A p : Pending(p)' <=> Pending(p)
    BY <1>2, SameAdvance
  <2>2. tasks' = tasks /\ Live' = Live /\ verdicts' = verdicts
    BY <1>2 DEF Live, promiseVars
  <2>3. \A u \in Live' : Pending(u)'
    BY <2>1, <2>2 DEF TasksSound
  <2> QED
    BY <1>1, <1>2, <2>1, <2>2, <2>3 DEF ExecuteTables, TableTypes
<1>3. CASE c.op = "cancel" /\ DropTimer(c)
  <2>1. /\ tasks' = Without(tasks, {t \in Live : IsJob(t, c.job)})
        /\ UNCHANGED <<nextTask, promiseVars>>
    BY <1>3 DEF DropTimer
  <2>2. Advance /\ Issued' = Issued /\ \A p : Pending(p)' <=> Pending(p)
    BY <2>1, SameAdvance
  <2>3. /\ Live' = Live \ {t \in Live : IsJob(t, c.job)}
        /\ \A u \in Live' : tasks'[u] = tasks[u]
        /\ verdicts' = verdicts
    BY <2>1 DEF Live, Without, promiseVars
  <2>4. \A u \in Live' : /\ Pending(u)' /\ u \in Live /\ tasks'[u] = tasks[u]
                         /\ ~IsJob(u, c.job)
    BY <2>2, <2>3 DEF TasksSound
  <2>5. ASSUME NEW u \in Live, tasks[u].call # 0
        PROVE  u \in Live' /\ tasks'[u].call = tasks[u].call
    <3>1. Kind(u) # "host"
      BY <2>5 DEF TasksSound, Sound, Kind
    <3> QED
      BY <2>3, <3>1 DEF IsJob
  <2>6. Live' \subseteq Issued' /\ \A u \in Live' : tasks'[u] \in AnyTask
    BY <2>2, <2>3 DEF TableTypes
  <2> QED
    BY <1>1, <1>3, <2>2, <2>3, <2>4, <2>5, <2>6 DEF ExecuteTables
<1>4. ASSUME NEW k, SpawnsFrom(c, k) PROVE ExecuteTables(c)
  <2>1. /\ k \in AnyTask /\ k.waiting = 0 /\ k.call = c.call
        /\ Issue /\ tasks' = Added(tasks, k)
        /\ \/ c.op = "call" /\ k.work.kind = "code" /\ k.work.await = 0
           \/ /\ c.op = "spawn" /\ k.work.kind = "host" /\ k.call = 0
              /\ k.work.ready /\ k.work.job \notin cancelled
    BY <1>4 DEF SpawnsFrom, Spawn
  <2>2. /\ Advance /\ Issued' = Issued \cup {nextTask} /\ nextTask \notin Issued
        /\ \A q \in Issued : outcome'[q] = outcome[q]
        /\ outcome'[nextTask] = "pending" /\ verdicts' = verdicts
    BY <2>1, IssueAdvance
  <2>3. /\ Live' = Live \cup {nextTask} /\ nextTask \notin Live
        /\ tasks'[nextTask] = k
        /\ \A u \in Live : tasks'[u] = tasks[u]
        /\ Live' \subseteq Issued' /\ \A u \in Live' : tasks'[u] \in AnyTask
    BY <2>1, <2>2, AddedTypes
  <2>4. Fresh(k) /\ (k.work.kind = "host" => k.work.job \notin cancelled)
        /\ c.op # "cancel"
    BY <2>1 DEF Fresh
  <2>5. \A u \in Live' : Pending(u)'
    BY <2>2, <2>3 DEF TasksSound, TableTypes, Pending
  <2>6. \A u \in Live' : \/ u \in Live /\ tasks'[u] = tasks[u]
                         \/ tasks'[u] = k
    BY <2>3
  <2> QED
    BY <2>1, <2>2, <2>3, <2>4, <2>5, <2>6 DEF ExecuteTables
<1> QED
  BY <1>2, <1>3, <1>4 DEF Executes

LEMMA ExecuteKeeps ==
  ASSUME SchedulerInvariant, Execute
  PROVE  SchedulerInvariant'
<1>1. /\ TurnTypes /\ TableTypes /\ PromiseTypes /\ TasksSound
      /\ VerdictsSound /\ TimersEnd /\ AnswersOwed /\ WakesKept
  BY DEF SchedulerInvariant, Types
<1>2. /\ batch > 0 /\ batch' = batch - 1 /\ queue' = Tail(queue)
      /\ program' = program /\ phase' = phase /\ ids' = ids /\ left' = left
      /\ running' = running /\ slice' = slice /\ progressed' = progressed
      /\ deferred' = deferred /\ wake' = wake /\ nextJob' = nextJob
      /\ cancelled' = cancelled /\ calls' = calls
  BY DEF Execute
<1>3. PICK c \in Commands : c = Head(queue) /\ Executes(c)
  BY ExecuteHead
<1>4. ExecuteTables(c)
  BY <1>1, <1>3, ExecuteTablesHold
<1>5. batch \in 0 .. Len(queue) /\ batch # 0
  BY <1>1, <1>2 DEF TurnTypes
<1>6. /\ queue' \in Seq(Commands) /\ batch' \in 0 .. Len(queue')
      /\ \A i \in DOMAIN queue :
           queue[i] = c \/ \E j \in DOMAIN queue' : queue'[j] = queue[i]
  BY <1>1, <1>2, <1>3, <1>5, TakenQueue
<1>7. /\ phase \in {"start", "end"} /\ running = 0 /\ slice = 0 /\ ids = {}
  BY <1>1, <1>5 DEF TurnTypes
<1>8. Advance /\ verdicts' = verdicts
  BY <1>4 DEF ExecuteTables
<1>9. TableTypes'
  BY <1>1, <1>2, <1>4, <1>6 DEF TableTypes, ExecuteTables
<1>10. TurnTypes'
  BY <1>1, <1>2, <1>6, <1>7 DEF TurnTypes
<1>11. TasksSound'
  <2>1. ASSUME NEW u \in Live'
        PROVE  /\ Pending(u)'
               /\ \/ u \in Live /\ tasks'[u] = tasks[u]
                  \/ Sound(u, tasks[u])'
    <3>1. Pending(u)' /\ ((u \in Live /\ tasks'[u] = tasks[u]) \/ Fresh(tasks'[u]))
      BY <1>4, <2>1 DEF ExecuteTables
    <3>2. PICK k : k = tasks'[u]
      OBVIOUS
    <3>3. Fresh(k) => Sound(u, k)'
      BY <1>8, FreshSound
    <3> QED
      BY <3>1, <3>2, <3>3
  <2> QED
    BY <1>1, <1>8, <2>1, TasksStay
<1>12. VerdictsSound'
  BY <1>1, <1>8, VerdictsStay
<1>13. TimersEnd'
  <2>1. SUFFICES ASSUME NEW u \in Live', NEW j \in cancelled, IsJob(u, j)'
                 PROVE  EndQueued(j)'
    BY <1>2 DEF TimersEnd
  <2>2. tasks'[u].work.kind = "host" /\ tasks'[u].work.job = j
    BY <2>1 DEF IsJob, Kind
  <2>3. u \in Live /\ tasks'[u] = tasks[u] /\ (c.op = "cancel" => ~IsJob(u, c.job))
    BY <1>4, <2>1, <2>2 DEF ExecuteTables
  <2>4. IsJob(u, j)
    BY <2>2, <2>3 DEF IsJob, Kind
  <2>5. EndQueued(j)
    BY <1>1, <2>1, <2>3, <2>4 DEF TimersEnd
  <2>6. PICK i \in DOMAIN queue : queue[i].op = "cancel" /\ queue[i].job = j
    BY <2>5 DEF EndQueued
  <2>7. queue[i] # c
    BY <2>3, <2>4, <2>6
  <2> QED
    BY <1>6, <2>6, <2>7 DEF EndQueued
<1>14. AnswersOwed'
  <2>1. \A x \in DOMAIN calls : x # 0
    BY <1>1 DEF TableTypes
  <2>2. ASSUME NEW x \in DOMAIN calls, NEW u \in Live, tasks[u].call = x
        PROVE  u \in Live' /\ tasks'[u].call = x
    BY <1>4, <2>1, <2>2 DEF ExecuteTables
  <2>3. ASSUME NEW x \in DOMAIN calls, NEW i \in DOMAIN queue,
               queue[i].op = "call", queue[i].call = x
        PROVE  \/ \E u \in Live' : tasks'[u].call = x
               \/ \E j \in DOMAIN queue' : queue'[j].op = "call" /\ queue'[j].call = x
    <3>1. CASE queue[i] = c
      BY <1>4, <2>1, <2>3, <3>1 DEF ExecuteTables
    <3>2. CASE queue[i] # c
      BY <1>6, <2>3, <3>2
    <3> QED
      BY <3>1, <3>2
  <2>4. phase # "closed"
    BY <1>7
  <2> QED
    BY <1>1, <1>2, <2>2, <2>3, <2>4, OwedStays
<1>15. WakesKept'
  <2>1. phase = "end" => Busy
    BY <1>1, <1>5 DEF WakesKept
  <2>2. Busy' <=> Busy
    BY <1>2 DEF Busy
  <2> QED
    BY <1>2, <1>7, <2>1, <2>2 DEF WakesKept
<1> QED
  BY <1>8, <1>9, <1>10, <1>11, <1>12, <1>13, <1>14, <1>15
  DEF SchedulerInvariant, Types, Advance

(***************************************************************************)
(* One poll of the work of a task that is not code.                        *)
(***************************************************************************)

\* What is known of the task that runs.
LEMMA RunningTask ==
  ASSUME SchedulerInvariant, NEW t \in Live, running = t
  PROVE  /\ t \in Issued /\ t # 0 /\ phase = "tasks" /\ batch = 0
         /\ Pending(t) /\ tasks[t] \in AnyTask /\ Sound(t, tasks[t])
         /\ tasks[t].work \in AnyWork /\ Kind(t) = tasks[t].work.kind
         /\ slice \in Nat /\ left \in Nat /\ 1 <= slice /\ slice <= left
         /\ t \notin ids
<1>1. TurnTypes /\ TableTypes /\ TasksSound
  BY DEF SchedulerInvariant, Types
<1>2. t \in Issued /\ t # 0 /\ tasks[t] \in AnyTask
  BY <1>1 DEF TableTypes, Issued, Below
<1>3. phase = "tasks" /\ batch = 0 /\ slice > 0 /\ t \notin ids
  BY <1>1, <1>2 DEF TurnTypes
<1>4. slice \in 0 .. left /\ left \in Nat
  BY <1>1 DEF TurnTypes
<1>5. slice \in Nat /\ left \in Nat /\ 1 <= slice /\ slice <= left
  BY <1>3, <1>4
<1>6. Pending(t) /\ Sound(t, tasks[t])
  BY <1>1 DEF TasksSound
<1> QED
  BY <1>2, <1>3, <1>5, <1>6, TaskTypes DEF Kind

\* A callback that follows a promise.
LEMMA PollWaitKeeps ==
  ASSUME SchedulerInvariant, NEW t \in Live, PollWait(t)
  PROVE  SchedulerInvariant'
<1>1. /\ running = t /\ Kind(t) = "wait" /\ PromiseTypes
  BY DEF PollWait, SchedulerInvariant, Types
<1>2. /\ t \in Issued /\ t # 0 /\ Sound(t, tasks[t]) /\ 1 <= slice
      /\ tasks[t] \in AnyTask /\ tasks[t].work \in AnyWork
      /\ tasks[t].work.kind = "wait"
  BY <1>1, RunningTask
<1>3. PICK w \in WaitWork : w = tasks[t].work
  BY <1>2, WorkKinds
<1>4. PICK p \in Nat : p = w.on
  BY DEF WaitWork
<1>5. w \in AnyWork /\ w.kind = "wait" /\ p \in Issued
  BY <1>2, <1>3, <1>4 DEF Sound
<1>6. CASE Pending(p)
  <2>1. Leave(w, p, 1, FALSE) /\ UNCHANGED <<wake, hostVars>>
    BY <1>3, <1>4, <1>6 DEF PollWait
  <2>2. PICK k : k = [work |-> w, waiting |-> p, call |-> tasks[t].call]
    OBVIOUS
  <2>3. p < nextTask /\ p # 0
    BY <1>1, <1>5 DEF Issued, Below, PromiseTypes
  <2>4. Sound(t, k)
    BY <1>4, <1>5, <2>2, <2>3 DEF Sound
  <2>5. Waits(k)
    BY <1>5, <1>6, <2>2, <2>3 DEF Waits
  <2> QED
    BY <1>1, <1>2, <1>5, <2>1, <2>2, <2>4, <2>5, LeaveKeeps
<1>7. CASE ~Pending(p)
  <2>1. Finish(outcome[p], 1, {})
    BY <1>3, <1>4, <1>7 DEF PollWait
  <2>2. outcome[p] \in Settled
    BY <1>1, <1>5, <1>7 DEF PromiseTypes, Pending
  <2> QED
    BY <1>1, <1>2, <2>1, <2>2, FinishKeeps
<1> QED
  BY <1>6, <1>7

\* A future that has no answer leaves its waker.
LEMMA ArmedKeeps ==
  ASSUME SchedulerInvariant, NEW t \in Live, running = t, Kind(t) = "host",
         tasks[t].work.answer = "none",
         Leave([tasks[t].work EXCEPT !.ready = FALSE, !.armed = TRUE], 0, 1, FALSE),
         UNCHANGED <<wake, hostVars>>
  PROVE  SchedulerInvariant'
<1>1. /\ t \in Issued /\ t # 0 /\ Sound(t, tasks[t]) /\ 1 <= slice
      /\ tasks[t] \in AnyTask /\ tasks[t].work \in AnyWork
      /\ tasks[t].work.kind = "host"
  BY RunningTask
<1>2. PICK w \in HostWork : w = tasks[t].work
  BY <1>1, WorkKinds
<1>3. PICK x \in HostWork : x = [w EXCEPT !.ready = FALSE, !.armed = TRUE]
  BY DEF HostWork
<1>4. /\ x.kind = "host" /\ ~x.ready /\ x.armed /\ x.answer = "none"
      /\ x.job = w.job
  BY <1>2, <1>3 DEF HostWork
<1>5. PICK k : k = [work |-> x, waiting |-> 0, call |-> tasks[t].call]
  OBVIOUS
<1>6. Sound(t, k)
  <2>1. tasks[t].call = 0 /\ 0 < nextTask
    BY <1>1 DEF Sound, SchedulerInvariant, Types, PromiseTypes
  <2> QED
    BY <1>4, <1>5, <2>1 DEF Sound
<1>7. Waits(k)
  BY <1>4, <1>5 DEF Waits
<1>8. x \in AnyWork /\ Leave(x, 0, 1, FALSE)
  BY <1>2, <1>3 DEF AnyWork
<1> QED
  BY <1>1, <1>2, <1>4, <1>5, <1>6, <1>7, <1>8, LeaveKeeps

LEMMA PollHostKeeps ==
  ASSUME SchedulerInvariant, NEW t \in Live, PollHost(t)
  PROVE  SchedulerInvariant'
<1>1. running = t /\ Kind(t) = "host" /\ t # 0 /\ 1 <= slice
  BY RunningTask DEF PollHost
<1>2. CASE /\ tasks[t].work.answer = "none"
           /\ Leave([tasks[t].work EXCEPT !.ready = FALSE, !.armed = TRUE], 0, 1, FALSE)
           /\ UNCHANGED <<wake, hostVars>>
  BY <1>1, <1>2, ArmedKeeps
<1>3. CASE Finish("value", 1, {})
  BY <1>1, <1>3, FinishKeeps DEF Settled
<1>4. CASE Finish("fault", 1, {})
  BY <1>1, <1>4, FinishKeeps DEF Settled
<1> QED
  BY <1>2, <1>3, <1>4 DEF PollHost

(***************************************************************************)
(* A timer that expires.                                                   *)
(***************************************************************************)

\* What an expiry has done to the tables.
ExpiredTables(t) ==
  /\ Live' \subseteq Issued' /\ \A u \in Live' : tasks'[u] \in AnyTask
  /\ Advance /\ verdicts' = verdicts /\ Live \ {t} \subseteq Live'
  /\ Live' \subseteq Live
  /\ \A u \in Live' :
       /\ Pending(u)'
       /\ \/ tasks'[u] = tasks[u]
          \/ /\ u = t /\ Sound(u, tasks[u])' /\ tasks'[u].work.kind = "host"
             /\ tasks'[u].work.job = tasks[t].work.job
  /\ \A u \in Live \ {t} : tasks'[u] = tasks[u]

\* An interval is armed again.
LEMMA RepeatedTables ==
  ASSUME TableTypes, PromiseTypes, TasksSound, NEW t \in Live,
         Kind(t) = "host", tasks[t].work.ready,
         tasks' = [tasks EXCEPT ![t].work =
                     [tasks[t].work EXCEPT !.answer = "none", !.armed = FALSE]],
         UNCHANGED <<nextTask, promiseVars>>
  PROVE  ExpiredTables(t)
<1>1. PICK o \in AnyTask : o = tasks[t]
  BY DEF TableTypes
<1>2. PICK w \in HostWork : w = o.work
  BY <1>1, TaskTypes, WorkKinds DEF Kind
<1>3. PICK x \in HostWork : x = [w EXCEPT !.answer = "none", !.armed = FALSE]
  BY DEF HostWork
<1>4. x.kind = "host" /\ x.ready /\ x.job = w.job
  BY <1>1, <1>2, <1>3 DEF HostWork
<1>5. PICK k \in AnyTask : k = [o EXCEPT !.work = x]
  BY DEF AnyTask, AnyWork
<1>6. k.work = x /\ k.waiting = o.waiting /\ k.call = o.call
  BY <1>5 DEF AnyTask
<1>7. /\ Live' = Live /\ tasks'[t] = k
      /\ \A u \in Live : u # t => tasks'[u] = tasks[u]
  BY <1>1, <1>2, <1>3, <1>5 DEF Live
<1>8. Advance /\ Issued' = Issued /\ \A p : Pending(p)' <=> Pending(p)
  BY SameAdvance
<1>9. Sound(t, k)
  <2>1. Sound(t, o) /\ o.work.kind = "host"
    BY <1>1 DEF TasksSound, Kind
  <2> QED
    BY <1>4, <1>6, <2>1 DEF Sound
<1>10. Sound(t, k)'
  BY <1>8, <1>9, SoundStays DEF TableTypes
<1>11. \A u \in Live' : Pending(u)' /\ tasks'[u] \in AnyTask
  BY <1>7, <1>8 DEF TasksSound, TableTypes
<1>12. ASSUME NEW u \in Live', u = t
       PROVE  /\ Sound(u, tasks[u])' /\ tasks'[u].work.kind = "host"
              /\ tasks'[u].work.job = tasks[t].work.job
  BY <1>1, <1>2, <1>4, <1>6, <1>7, <1>10, <1>12
<1>13. verdicts' = verdicts /\ Live' \subseteq Issued'
  BY <1>7, <1>8 DEF promiseVars, TableTypes
<1> QED
  BY <1>7, <1>8, <1>11, <1>12, <1>13 DEF ExpiredTables

\* A timeout is finished.
LEMMA ExpiredOnceTables ==
  ASSUME TableTypes, PromiseTypes, TasksSound, NEW t \in Live,
         tasks' = Without(tasks, {t}), Settle(t, "value"),
         nextTask' = nextTask, verdicts' = verdicts
  PROVE  ExpiredTables(t)
<1>1. Live' = Live \ {t} /\ \A u \in Live' : tasks'[u] = tasks[u]
  BY DEF Live, Without
<1>2. t \in Issued /\ Pending(t)
  BY DEF TableTypes, TasksSound
<1>3. /\ Advance /\ Issued' = Issued
      /\ \A q \in Issued : q # t => outcome'[q] = outcome[q]
  BY <1>2, SettleAdvance DEF Settled
<1>4. \A u \in Live' : Pending(u)' /\ tasks'[u] \in AnyTask
  BY <1>1, <1>3 DEF TasksSound, TableTypes, Pending
<1>5. Live' \subseteq Issued'
  BY <1>1, <1>3 DEF TableTypes
<1> QED
  BY <1>1, <1>3, <1>4, <1>5 DEF ExpiredTables

\* A timer expires: its callback is queued and the VM is awake.
LEMMA ExpiredKeeps ==
  ASSUME SchedulerInvariant, NEW t \in Live, running = t, Kind(t) = "host",
         ExpiredTables(t),
         NEW c \in Commands, queue' = Append(queue, c), wake' = TRUE,
         tasks[t].call = 0,
         left' = left - 1, slice' = 0, running' = 0, progressed' \in BOOLEAN,
         UNCHANGED <<program, phase, batch, ids, deferred, nextJob, cancelled, calls>>
  PROVE  SchedulerInvariant'
<1>1. /\ TurnTypes /\ TableTypes /\ PromiseTypes /\ TasksSound
      /\ VerdictsSound /\ TimersEnd /\ AnswersOwed /\ WakesKept
  BY DEF SchedulerInvariant, Types
<1>2. /\ phase = "tasks" /\ batch = 0 /\ t \notin ids /\ left \in Nat /\ 1 <= left
  <2>1. /\ phase = "tasks" /\ batch = 0 /\ t \notin ids /\ left \in Nat
        /\ slice \in Nat /\ 1 <= slice /\ slice <= left
    BY RunningTask
  <2> QED
    BY <2>1
<1>3. /\ Live' \subseteq Issued' /\ (\A u \in Live' : tasks'[u] \in AnyTask)
      /\ Advance /\ verdicts' = verdicts /\ Live \ {t} \subseteq Live'
      /\ Live' \subseteq Live
      /\ \A u \in Live \ {t} : tasks'[u] = tasks[u]
  BY DEF ExpiredTables
<1>4. QueueGrows
  BY <1>1, EnqueueGrows
<1>5. PICK l \in Nat : l = left - 1 /\ l = left'
  BY <1>2
<1>6. left' \in Nat /\ slice' \in 0 .. left' /\ batch' \in 0 .. Len(queue')
  <2>1. 0 \in 0 .. Len(queue')
    BY <1>4, NoBatch
  <2> QED
    BY <1>2, <1>5, <2>1
<1>7. ids' \subseteq Live'
  <2>1. ids \subseteq Live \ {t}
    BY <1>1, <1>2 DEF TurnTypes
  <2> QED
    BY <1>3, <2>1
<1>8. program' \in Program /\ deferred' \in BOOLEAN
  BY <1>1 DEF TurnTypes
<1>9. TurnTypes'
  BY <1>2, <1>6, <1>7, <1>8 DEF TurnTypes
<1>10. TableTypes'
  BY <1>1, <1>3, <1>4 DEF TableTypes, QueueGrows
<1>11. TasksSound'
  <2>1. \A u \in Live' : /\ Pending(u)'
                         /\ \/ u \in Live /\ tasks'[u] = tasks[u]
                            \/ Sound(u, tasks[u])'
    BY <1>3 DEF ExpiredTables
  <2> QED
    BY <1>1, <1>3, <2>1, TasksStay
<1>12. VerdictsSound'
  BY <1>1, <1>3, VerdictsStay
<1>13. TimersEnd'
  <2>1. SUFFICES ASSUME NEW u \in Live', NEW j \in cancelled, IsJob(u, j)'
                 PROVE  EndQueued(j)'
    BY DEF TimersEnd
  <2>2. tasks'[u].work.kind = "host" /\ tasks'[u].work.job = j /\ u \in Live
    BY <1>3, <2>1 DEF IsJob, Kind
  <2>3. IsJob(u, j)
    <3>1. CASE tasks'[u] = tasks[u]
      BY <2>2, <3>1 DEF IsJob, Kind
    <3>2. CASE tasks'[u] # tasks[u]
      <4>1. u = t /\ j = tasks[t].work.job
        BY <2>1, <2>2, <3>2 DEF ExpiredTables
      <4> QED
        BY <4>1 DEF IsJob, Kind
    <3> QED
      BY <3>1, <3>2
  <2>4. EndQueued(j)
    BY <1>1, <2>1, <2>2, <2>3 DEF TimersEnd
  <2> QED
    BY <1>4, <2>4, EndStaysQueued
<1>14. AnswersOwed'
  <2>1. \A x \in DOMAIN calls : x # 0
    BY <1>1 DEF TableTypes
  <2>2. \A i \in DOMAIN queue : i \in DOMAIN queue' /\ queue'[i] = queue[i]
    BY <1>4 DEF QueueGrows
  <2>3. ASSUME NEW x \in DOMAIN calls, NEW u \in Live, tasks[u].call = x
        PROVE  u \in Live' /\ tasks'[u].call = x
    BY <1>3, <2>1, <2>3
  <2> QED
    BY <1>1, <1>2, <2>2, <2>3, OwedStays
<1>15. WakesKept'
  BY <1>2 DEF WakesKept, Busy
<1> QED
  BY <1>3, <1>9, <1>10, <1>11, <1>12, <1>13, <1>14, <1>15
  DEF SchedulerInvariant, Types, Advance

\* The future of a timer: it ends when it was cleared, waits, or expires.
LEMMA PollTimerKeeps ==
  ASSUME SchedulerInvariant, NEW t \in Live, PollTimer(t)
  PROVE  SchedulerInvariant'
<1>1. /\ running = t /\ Kind(t) = "host" /\ TableTypes /\ PromiseTypes
      /\ TasksSound /\ TurnTypes
  BY DEF PollTimer, SchedulerInvariant, Types
<1>2. /\ t # 0 /\ 1 <= slice /\ Sound(t, tasks[t])
      /\ tasks[t].work \in AnyWork /\ tasks[t].work.kind = "host"
  BY <1>1, RunningTask
<1>3. PICK w \in HostWork : w = tasks[t].work
  BY <1>2, WorkKinds
<1>4. CASE w.job \in cancelled
  <2>1. Finish("value", 1, {})
    BY <1>3, <1>4 DEF PollTimer
  <2> QED
    BY <1>1, <1>2, <2>1, FinishKeeps DEF Settled
<1>5. CASE w.job \notin cancelled /\ w.answer = "none"
  <2>1. /\ Leave([tasks[t].work EXCEPT !.ready = FALSE, !.armed = TRUE], 0, 1, FALSE)
        /\ UNCHANGED <<wake, hostVars>>
    BY <1>3, <1>5 DEF PollTimer
  <2> QED
    BY <1>1, <1>3, <1>5, <2>1, ArmedKeeps
<1>6. CASE w.job \notin cancelled /\ w.answer # "none"
  <2>1. PICK c \in Commands :
          c = [op |-> "call", job |-> w.job, repeat |-> FALSE, call |-> 0]
    <3>1. w.job \in Nat
      BY DEF HostWork
    <3> QED
      BY <3>1 DEF Commands, Command
  <2>2. /\ queue' = Append(queue, c) /\ wake' = TRUE
        /\ nextJob' = nextJob /\ cancelled' = cancelled
        /\ left' = left - 1 /\ slice' = 0 /\ running' = 0
        /\ UNCHANGED <<program, phase, batch, ids, deferred, cursor, nextTask, calls>>
    BY <1>3, <1>6, <2>1 DEF PollTimer, Enqueue
  <2>3. tasks[t].call = 0 /\ w.ready
    BY <1>2, <1>3, <1>6 DEF Sound
  <2>4. ExpiredTables(t) /\ progressed' \in BOOLEAN
    <3>1. CASE w.repeat
      <4>1. /\ tasks' = [tasks EXCEPT ![t].work =
                           [tasks[t].work EXCEPT !.answer = "none", !.armed = FALSE]]
            /\ UNCHANGED promiseVars /\ progressed' = progressed
        BY <1>3, <1>6, <3>1 DEF PollTimer
      <4>2. UNCHANGED <<nextTask, promiseVars>>
        BY <2>2, <4>1
      <4>3. ExpiredTables(t)
        BY <1>1, <1>3, <2>3, <4>1, <4>2, RepeatedTables
      <4>4. progressed' \in BOOLEAN
        BY <1>1, <4>1 DEF TurnTypes
      <4> QED
        BY <4>3, <4>4
    <3>2. CASE ~w.repeat
      <4>1. /\ tasks' = Without(tasks, {t}) /\ Settle(t, "value")
            /\ progressed' = TRUE /\ verdicts' = verdicts
        BY <1>3, <1>6, <3>2 DEF PollTimer
      <4> QED
        BY <1>1, <2>2, <4>1, ExpiredOnceTables
    <3> QED
      BY <3>1, <3>2
  <2>5. UNCHANGED <<program, phase, batch, ids, deferred, nextJob, cancelled, calls>>
    BY <2>2
  <2> QED
    BY <1>1, <2>2, <2>3, <2>4, <2>5, ExpiredKeeps
<1> QED
  BY <1>4, <1>5, <1>6

(***************************************************************************)
(* A poll of a combinator.                                                 *)
(***************************************************************************)

\* The combinator is parked with the account s of its scan.
LEMMA ParkedJoinKeeps ==
  ASSUME SchedulerInvariant, NEW t \in Live, running = t, Kind(t) = "join",
         NEW s \in JoinWork, s.inputs = tasks[t].work.inputs, ScanSound(s),
         NEW cost \in Nat, cost <= slice,
         Leave(s, 0, cost, TRUE), UNCHANGED <<wake, hostVars>>
  PROVE  SchedulerInvariant'
<1>1. /\ t # 0 /\ Sound(t, tasks[t]) /\ tasks[t].work.kind = "join"
  BY RunningTask
<1>2. PICK k : k = [work |-> s, waiting |-> 0, call |-> tasks[t].call]
  OBVIOUS
<1>3. s.kind = "join" /\ s \in AnyWork
  BY DEF JoinWork, AnyWork
<1>4. Sound(t, k)
  <2>1. InputsBelow(s, t)
    BY <1>1 DEF Sound, InputsBelow
  <2>2. 0 < nextTask
    BY DEF SchedulerInvariant, Types, PromiseTypes
  <2> QED
    BY <1>2, <1>3, <2>1, <2>2 DEF Sound
<1> QED
  BY <1>1, <1>2, <1>3, <1>4, LeaveKeeps

LEMMA PollJoinKeeps ==
  ASSUME SchedulerInvariant, NEW t \in Live, PollJoin(t)
  PROVE  SchedulerInvariant'
<1>1. /\ running = t /\ Kind(t) = "join" /\ PromiseTypes
  BY DEF PollJoin, SchedulerInvariant, Types
<1>2. /\ t \in Issued /\ t # 0 /\ 1 <= slice /\ slice \in Nat /\ Sound(t, tasks[t])
      /\ tasks[t].work \in AnyWork /\ tasks[t].work.kind = "join"
  BY <1>1, RunningTask
<1>3. PICK w \in JoinWork : w = tasks[t].work
  BY <1>2, WorkKinds
<1>4. InputsBelow(w, t) /\ ScanSound(w) /\ Len(w.inputs) # 0
  BY <1>2, <1>3 DEF Sound, InputsBelow
<1>5. InputsIssued(w)
  BY <1>1, <1>2, <1>4, InputsAreIssued
<1>6. PICK s \in JoinWork : s = Scanned(w)
  BY <1>1, <1>2, <1>4, <1>5, ScannedTypes
<1>7. s.inputs = w.inputs /\ s.race = w.race /\ s.scan \in Nat
  BY <1>6, ScannedIs, JoinTypes
<1>8. PICK cost \in Nat :
        cost = AtMost(slice, Len(w.inputs) - w.cursor + 1) /\ cost <= slice
  <2>1. /\ w.cursor \in Nat /\ Len(w.inputs) \in Nat /\ w.cursor <= Len(w.inputs)
    BY <1>4, JoinTypes DEF ScanSound
  <2>2. PICK n \in Nat : n = Len(w.inputs) - w.cursor + 1
    BY <2>1
  <2> QED
    BY <1>2, <2>2, AtMostBounds
<1>9. PICK won : won = CHOOSE i \in DOMAIN w.inputs : \E c \in s.first : c[2] = i
  OBVIOUS
<1>10. IF ~Faultless(w) THEN Close(0)
       ELSE IF s.cursor < Len(w.inputs)
       THEN Leave(s, 0, cost, TRUE) /\ UNCHANGED <<wake, hostVars>>
       ELSE IF Unsure(s)
       THEN /\ Leave(Restarted(s, -1), 0, cost, TRUE)
            /\ UNCHANGED <<wake, hostVars>>
       ELSE IF s.first # {}
       THEN Finish(outcome[w.inputs[won]], cost, Ruling(w, won))
       ELSE IF ~w.race /\ s.seen = DOMAIN w.inputs
       THEN Finish("value", cost, Ruling(w, 0))
       ELSE /\ Leave(Restarted(s, s.scan), 0, cost, TRUE)
            /\ UNCHANGED <<wake, hostVars>>
  BY <1>3, <1>6, <1>8, <1>9 DEF PollJoin, Faultless, Restarted
<1>11. CASE ~Faultless(w)
  BY <1>10, <1>11, CloseKeeps
<1>12. CASE Faultless(w) /\ s.cursor < Len(w.inputs)
  <2>1. ScanSound(s)
    BY <1>1, <1>2, <1>4, <1>5, <1>6, <1>12, ParkedScanSound
  <2>2. Leave(s, 0, cost, TRUE) /\ UNCHANGED <<wake, hostVars>>
    BY <1>10, <1>12
  <2>3. s.inputs = tasks[t].work.inputs
    BY <1>3, <1>7
  <2> QED
    BY <1>1, <1>8, <2>1, <2>2, <2>3, ParkedJoinKeeps
<1>13. CASE Faultless(w) /\ ~(s.cursor < Len(w.inputs)) /\ Unsure(s)
  <2>1. PICK r : r = Restarted(s, -1)
    OBVIOUS
  <2>2. r \in JoinWork /\ ScanSound(r) /\ r.inputs = w.inputs
    BY <1>1, <1>2, <1>4, <1>5, <1>6, <1>13, <2>1, RestartedScanSound
  <2>3. Leave(r, 0, cost, TRUE) /\ UNCHANGED <<wake, hostVars>>
    BY <1>10, <1>13, <2>1
  <2>4. r.inputs = tasks[t].work.inputs
    BY <1>3, <2>2
  <2> QED
    BY <1>1, <1>8, <2>2, <2>3, <2>4, ParkedJoinKeeps
<1>14. ASSUME Faultless(w), ~(s.cursor < Len(w.inputs))
       PROVE  s.cursor = Len(w.inputs)
  <2>1. s.cursor <= Len(w.inputs) /\ s.cursor \in Nat /\ Len(w.inputs) \in Nat
    BY <1>1, <1>2, <1>4, <1>5, <1>6, <1>7, ScannedSound, JoinTypes
  <2> QED
    BY <1>14, <2>1
<1>15. CASE /\ Faultless(w) /\ ~(s.cursor < Len(w.inputs)) /\ ~Unsure(s)
            /\ s.first # {}
  <2>1. s.cursor = Len(w.inputs)
    BY <1>14, <1>15
  <2>2. \E i \in DOMAIN w.inputs : \E c \in s.first : c[2] = i
    <3>1. Leads(s)
      BY <1>1, <1>2, <1>4, <1>5, <1>6, ScannedSound
    <3> QED
      BY <1>7, <1>15, <3>1 DEF Leads
  <2>3. \E c \in s.first : c[2] = won
    BY <1>9, <2>2
  <2>4. /\ won \in DOMAIN w.inputs /\ ~Pending(w.inputs[won])
        /\ \A v \in Ruling(w, won) : VerdictSound(v)
    BY <1>1, <1>2, <1>4, <1>5, <1>6, <1>15, <2>1, <2>3, WinnerIsFirst
  <2>5. outcome[w.inputs[won]] \in Settled
    BY <1>1, <1>5, <2>4 DEF InputsIssued, PromiseTypes, Pending
  <2>6. Finish(outcome[w.inputs[won]], cost, Ruling(w, won))
    BY <1>10, <1>15
  <2> QED
    BY <1>1, <1>2, <1>8, <2>4, <2>5, <2>6, FinishKeeps
<1>16. CASE /\ Faultless(w) /\ ~(s.cursor < Len(w.inputs)) /\ ~Unsure(s)
            /\ s.first = {} /\ ~w.race /\ s.seen = DOMAIN w.inputs
  <2>1. \A v \in Ruling(w, 0) : VerdictSound(v)
    BY <1>1, <1>2, <1>4, <1>5, <1>6, <1>16, AllIsComplete
  <2>2. Finish("value", cost, Ruling(w, 0))
    BY <1>10, <1>16
  <2> QED
    BY <1>1, <1>2, <1>8, <2>1, <2>2, FinishKeeps DEF Settled
<1>17. CASE /\ Faultless(w) /\ ~(s.cursor < Len(w.inputs)) /\ ~Unsure(s)
            /\ s.first = {} /\ ~(~w.race /\ s.seen = DOMAIN w.inputs)
  <2>1. Undecided(s)
    BY <1>7, <1>14, <1>17 DEF Undecided
  <2>2. PICK r : r = Restarted(s, s.scan)
    OBVIOUS
  <2>3. r \in JoinWork /\ ScanSound(r) /\ r.inputs = w.inputs
    BY <1>1, <1>2, <1>4, <1>5, <1>6, <1>17, <2>1, <2>2, RestingScanSound
  <2>4. Leave(r, 0, cost, TRUE) /\ UNCHANGED <<wake, hostVars>>
    BY <1>10, <1>17, <2>2
  <2>5. r.inputs = tasks[t].work.inputs
    BY <1>3, <2>3
  <2> QED
    BY <1>1, <1>8, <2>3, <2>4, <2>5, ParkedJoinKeeps
<1> QED
  BY <1>11, <1>12, <1>13, <1>15, <1>16, <1>17

(***************************************************************************)
(* Instructions of code.                                                   *)
(***************************************************************************)

\* What an instruction has done to the table of tasks.
TasksKept ==
  /\ TableTypes'
  /\ \A u \in Live : u \in Live' /\ tasks'[u].call = tasks[u].call
  /\ \A u \in Live' :
       /\ Pending(u)'
       /\ \/ u \in Live /\ tasks'[u] = tasks[u]
          \/ /\ Sound(u, tasks[u])'
             /\ tasks'[u].work.kind = "host" => tasks'[u].work.job = 0

\* The instruction is behind the task, and no task was made.
LEMMA PastTables ==
  ASSUME TableTypes, TasksSound, Advance, NEW t \in Live, Kind(t) = "code",
         tasks' = Past(t),
         \A p \in Issued : outcome'[p] = outcome[p],
         queue' \in Seq(Commands), nextJob' \in Nat \ {0},
         cancelled' \subseteq Nat \ {0}, calls' = calls
  PROVE  TasksKept
<1>1. /\ Live' = Live
      /\ \A u \in Live : u # t => tasks'[u] = tasks[u]
      /\ tasks'[t].call = tasks[t].call
  BY PastTypes DEF Live
<1>2. PICK k : k = Past(t)[t] /\ k = tasks'[t]
  OBVIOUS
<1>3. k \in AnyTask /\ k.work.kind = "code"
  BY <1>2, PastTypes
<1>4. Sound(t, k)'
  BY <1>2, PastSound
<1>5. \A u \in Live' : tasks'[u] \in AnyTask
  BY <1>1, <1>2, <1>3 DEF TableTypes
<1>6. Live' \subseteq Issued'
  BY <1>1, AdvanceTypes DEF TableTypes
<1>7. TableTypes'
  BY <1>5, <1>6 DEF TableTypes
<1>8. \A u \in Live' : Pending(u)'
  BY <1>1 DEF TasksSound, TableTypes, Pending
<1>9. Sound(t, tasks[t])' /\ tasks'[t].work.kind = "code"
  BY <1>2, <1>3, <1>4
<1> QED
  BY <1>1, <1>7, <1>8, <1>9 DEF TasksKept

\* An instruction that makes a task.
LEMMA SpawnOpKeeps ==
  ASSUME SchedulerInvariant, NEW t \in Live, NEW work \in AnyWork, SpawnOp(t, work),
         NEW n, n = nextTask, Sound(n, Task(work))',
         work.kind = "host" => work.job = 0
  PROVE  SchedulerInvariant'
<1>1. /\ TurnTypes /\ TableTypes /\ PromiseTypes /\ TasksSound
  BY DEF SchedulerInvariant, Types
<1>2. /\ running = t /\ Kind(t) = "code" /\ Issue
      /\ Stay(Added(Past(t), Task(work)))
      /\ wake' = wake /\ queue' = queue /\ nextJob' = nextJob
      /\ cancelled' = cancelled /\ calls' = calls
  BY DEF SpawnOp, Ready, Active, hostVars
<1>3. running # 0
  BY <1>2, RunningTask
<1>4. /\ Advance /\ Issued' = Issued \cup {n} /\ n \notin Issued
      /\ \A q \in Issued : outcome'[q] = outcome[q]
      /\ outcome'[n] = "pending" /\ verdicts' = verdicts
  BY <1>1, <1>2, IssueAdvance
<1>5. PICK x \in AnyTask : x = Task(work)
  BY DEF Task, AnyTask
<1>6. Sound(n, x)' /\ x.work = work
  BY <1>5 DEF Task
<1>7. n \notin Live
  BY <1>1, <1>4 DEF TableTypes
<1>8. PICK k : k = Past(t)[t]
  OBVIOUS
<1>9. /\ DOMAIN Past(t) = Live
      /\ \A u \in Live : u # t => Past(t)[u] = tasks[u]
      /\ k \in AnyTask /\ k.work.kind = "code" /\ k.call = tasks[t].call
  BY <1>1, <1>2, <1>8, PastTypes
<1>10. Sound(t, k)'
  BY <1>1, <1>2, <1>4, <1>8, PastSound
<1>11. tasks' = Added(Past(t), x)
  BY <1>2, <1>5 DEF Stay
<1>12. /\ Live' = Live \cup {n} /\ tasks'[n] = x /\ tasks'[t] = k
       /\ \A u \in Live : u # t => tasks'[u] = tasks[u]
  BY <1>7, <1>8, <1>9, <1>11 DEF Added, Live
<1>13. Live' \subseteq Issued' /\ \A u \in Live' : tasks'[u] \in AnyTask
  BY <1>1, <1>4, <1>9, <1>12 DEF TableTypes
<1>14. TableTypes'
  BY <1>1, <1>2, <1>13 DEF TableTypes
<1>15. \A u \in Live : u \in Live' /\ tasks'[u].call = tasks[u].call
  BY <1>9, <1>12
<1>16. ASSUME NEW u \in Live'
       PROVE  /\ Pending(u)'
              /\ \/ u \in Live /\ tasks'[u] = tasks[u]
                 \/ /\ Sound(u, tasks[u])'
                    /\ tasks'[u].work.kind = "host" => tasks'[u].work.job = 0
  <2>1. Pending(u)'
    BY <1>1, <1>4, <1>12, <1>16 DEF TasksSound, TableTypes, Pending
  <2>2. CASE u = n
    BY <1>6, <1>12, <2>1, <2>2
  <2>3. CASE u = t
    BY <1>9, <1>10, <1>12, <2>1, <2>3
  <2>4. CASE u # n /\ u # t
    BY <1>12, <1>16, <2>1, <2>4
  <2> QED
    BY <2>2, <2>3, <2>4
<1>17. QueueGrows
  BY <1>1, <1>2, SameQueue
<1>18. wake' \in BOOLEAN /\ \A j \in cancelled' : j \in cancelled
  BY <1>1, <1>2 DEF TurnTypes
<1> QED
  BY <1>2, <1>3, <1>4, <1>14, <1>15, <1>16, <1>17, <1>18, StayKeeps

LEMMA CallChildKeeps ==
  ASSUME SchedulerInvariant, NEW t \in Live, CallChild(t)
  PROVE  SchedulerInvariant'
<1>1. PICK w \in CodeWork : w = Code(0, FALSE)
  <2>1. MaxOps \in Int
    BY ConstantsAssumption
  <2> QED
    BY <2>1 DEF Code, CodeWork
<1>2. SpawnOp(t, w) /\ w.kind = "code" /\ w.await = 0
  BY <1>1 DEF CallChild, Code
<1>3. PICK x \in AnyTask : x = Task(w)
  BY DEF Task, AnyTask, AnyWork
<1>4. Fresh(x)
  BY <1>2, <1>3 DEF Task, Fresh
<1>5. Advance
  BY <1>2, IssueAdvance DEF SpawnOp, SchedulerInvariant, Types
<1>6. PICK n : n = nextTask
  OBVIOUS
<1>7. Sound(n, x)'
  BY <1>4, <1>5, FreshSound
<1>8. Sound(n, Task(w))'
  BY <1>3, <1>7
<1> QED
  BY <1>2, <1>6, <1>8, SpawnOpKeeps DEF AnyWork

LEMMA CallHostKeeps ==
  ASSUME SchedulerInvariant, NEW t \in Live, CallHost(t)
  PROVE  SchedulerInvariant'
<1>1. PICK w \in HostWork : w = Future(0, FALSE)
  BY DEF Future, HostWork
<1>2. SpawnOp(t, w) /\ w.kind = "host" /\ w.ready /\ w.job = 0
  BY <1>1 DEF CallHost, Future
<1>3. PICK x \in AnyTask : x = Task(w)
  BY DEF Task, AnyTask, AnyWork
<1>4. Fresh(x)
  BY <1>2, <1>3 DEF Task, Fresh
<1>5. Advance
  BY <1>2, IssueAdvance DEF SpawnOp, SchedulerInvariant, Types
<1>6. PICK n : n = nextTask
  OBVIOUS
<1>7. Sound(n, x)'
  BY <1>4, <1>5, FreshSound
<1>8. Sound(n, Task(w))'
  BY <1>3, <1>7
<1> QED
  BY <1>2, <1>6, <1>8, SpawnOpKeeps DEF AnyWork

\* A combinator that was just made.
LEMMA NewJoinSound ==
  ASSUME PromiseTypes, PromiseTypes', epoch' = epoch, NEW race \in BOOLEAN,
         NEW n, NEW inputs \in Seq(Nat), Len(inputs) # 0,
         \A i \in DOMAIN inputs : 0 < inputs[i] /\ inputs[i] < n,
         NEW w, w = Combinator(race, inputs)
  PROVE  w \in JoinWork /\ w.kind = "join" /\ Sound(n, Task(w))'
<1>1. PICK e \in Nat : e = epoch
  BY DEF PromiseTypes
<1>2. /\ w.kind = "join" /\ w.race = race /\ w.inputs = inputs /\ w.cursor = 0
      /\ w.created = e /\ w.scan = e /\ w.checked = -1 /\ w.seen = {} /\ w.first = {}
  BY <1>1 DEF Combinator
<1>3. PICK minus \in Int : minus = -1 /\ minus < 0
  OBVIOUS
<1>4. w \in JoinWork
  <2>1. w = [kind |-> "join", race |-> race, inputs |-> inputs, cursor |-> 0,
             created |-> e, scan |-> e, checked |-> minus, seen |-> {}, first |-> {}]
    BY <1>1, <1>3 DEF Combinator
  <2> QED
    BY <2>1 DEF JoinWork
<1>5. Leads(w)'
  BY <1>2 DEF Leads
<1>6. w.checked # epoch' /\ w.checked <= epoch'
  BY <1>1, <1>2, <1>3
<1>7. \A i \in 1 .. w.cursor : Passed(w, i)'
  BY <1>2
<1>8. Len(inputs) \in Nat
  BY LenProperties
<1>9. ScanSound(w)'
  BY <1>1, <1>2, <1>5, <1>6, <1>7, <1>8 DEF ScanSound
<1>10. PICK k : k = Task(w)
  OBVIOUS
<1>11. k.work = w /\ k.waiting = 0
  BY <1>10 DEF Task
<1>12. InputsBelow(w, n)
  BY <1>2 DEF InputsBelow
<1>13. 0 < nextTask'
  BY DEF PromiseTypes
<1>14. Sound(n, k)'
  BY <1>2, <1>9, <1>11, <1>12, <1>13 DEF Sound, InputsBelow
<1> QED
  BY <1>2, <1>4, <1>10, <1>14

LEMMA JoinOpKeeps ==
  ASSUME SchedulerInvariant, NEW t \in Live, JoinOp(t)
  PROVE  SchedulerInvariant'
<1>1. PICK race \in BOOLEAN, inputs \in Inputs(t) : SpawnOp(t, Combinator(race, inputs))
  BY DEF JoinOp
<1>2. PICK p \in 1 .. nextTask - 1, q \in 1 .. nextTask - 1 : inputs = <<p, q>>
  BY DEF Inputs
<1>3. PICK n \in Nat : n = nextTask
  BY DEF SchedulerInvariant, Types, PromiseTypes
<1>4. p \in Nat /\ q \in Nat /\ 0 < p /\ 0 < q /\ p < n /\ q < n
  BY <1>2, <1>3
<1>5. /\ inputs \in Seq(Nat) /\ Len(inputs) # 0
      /\ \A i \in DOMAIN inputs : 0 < inputs[i] /\ inputs[i] < n
  BY <1>2, <1>4
<1>6. PICK w : w = Combinator(race, inputs)
  OBVIOUS
<1>7. SpawnOp(t, w) /\ PromiseTypes
  BY <1>1, <1>6 DEF SchedulerInvariant, Types
<1>8. PromiseTypes' /\ epoch' = epoch
  BY <1>7, IssueAdvance DEF SpawnOp, Issue, Advance
<1>9. w \in JoinWork /\ w.kind = "join" /\ Sound(n, Task(w))'
  BY <1>5, <1>6, <1>7, <1>8, NewJoinSound
<1> QED
  BY <1>3, <1>7, <1>9, SpawnOpKeeps DEF AnyWork

\* An instruction that goes on with the table it finds, or with the
\* instruction behind it.
LEMMA PassKeeps ==
  ASSUME SchedulerInvariant, NEW t \in Live, running = t, Kind(t) = "code",
         NEW ts, ts = tasks \/ ts = Past(t), Stay(ts),
         UNCHANGED <<nextTask, promiseVars, wake, hostVars, calls>>
  PROVE  SchedulerInvariant'
<1>1. TurnTypes /\ TableTypes /\ PromiseTypes /\ TasksSound
  BY DEF SchedulerInvariant, Types
<1>2. /\ queue' = queue /\ nextJob' = nextJob /\ cancelled' = cancelled
      /\ calls' = calls /\ wake' = wake /\ verdicts' = verdicts /\ outcome' = outcome
      /\ UNCHANGED <<nextTask, promiseVars>> /\ tasks' = ts
  BY DEF hostVars, promiseVars, Stay
<1>3. Advance /\ Issued' = Issued /\ \A p : Pending(p)' <=> Pending(p)
  BY <1>1, <1>2, SameAdvance
<1>4. TasksKept
  <2>1. CASE ts = tasks
    <3>1. tasks' = tasks /\ Live' = Live
      BY <1>2, <2>1 DEF Live
    <3>2. TableTypes' /\ \A u \in Live' : Pending(u)'
      BY <1>1, <1>2, <1>3, <3>1 DEF TableTypes, TasksSound
    <3> QED
      BY <3>1, <3>2 DEF TasksKept
  <2>2. CASE ts = Past(t)
    BY <1>1, <1>2, <1>3, <2>2, PastTables DEF TableTypes
  <2> QED
    BY <2>1, <2>2
<1>5. QueueGrows /\ running # 0
  BY <1>1, <1>2, SameQueue, RunningTask
<1>6. wake' \in BOOLEAN /\ \A j \in cancelled' : j \in cancelled
  BY <1>1, <1>2 DEF TurnTypes
<1> QED
  BY <1>2, <1>3, <1>4, <1>5, <1>6, StayKeeps DEF TasksKept

LEMMA CallReadyKeeps ==
  ASSUME SchedulerInvariant, NEW t \in Live, CallReady(t)
  PROVE  SchedulerInvariant'
<1>1. TurnTypes /\ TableTypes /\ PromiseTypes /\ TasksSound
  BY DEF SchedulerInvariant, Types
<1>2. PICK how \in Settled : outcome' = Append(outcome, how)
  BY DEF CallReady, Settled
<1>3. PICK e \in Nat : e = epoch + 1
  BY <1>1 DEF PromiseTypes
<1>4. /\ running = t /\ Kind(t) = "code" /\ nextTask' = nextTask + 1
      /\ order' = Append(order, e) /\ epoch' = epoch + 1
      /\ Stay(Past(t)) /\ tasks' = Past(t)
      /\ verdicts' = verdicts /\ wake' = wake /\ queue' = queue
      /\ nextJob' = nextJob /\ cancelled' = cancelled /\ calls' = calls
  BY <1>3 DEF CallReady, Ready, Active, Stay, hostVars
<1>5. how # "pending"
  BY DEF Settled
<1>6. Advance /\ \A q \in Issued : outcome'[q] = outcome[q]
  BY <1>1, <1>2, <1>3, <1>4, <1>5, GrowAdvance
<1>7. TasksKept
  BY <1>1, <1>4, <1>6, PastTables DEF TableTypes
<1>8. QueueGrows /\ running # 0
  BY <1>1, <1>4, SameQueue, RunningTask
<1>9. wake' \in BOOLEAN /\ \A j \in cancelled' : j \in cancelled
  BY <1>1, <1>4 DEF TurnTypes
<1> QED
  BY <1>4, <1>6, <1>7, <1>8, <1>9, StayKeeps DEF TasksKept

LEMMA SetTimerKeeps ==
  ASSUME SchedulerInvariant, NEW t \in Live, SetTimer(t)
  PROVE  SchedulerInvariant'
<1>1. TurnTypes /\ TableTypes /\ PromiseTypes /\ TasksSound
  BY DEF SchedulerInvariant, Types
<1>2. PICK repeat \in BOOLEAN :
        Enqueue([op |-> "spawn", job |-> nextJob, repeat |-> repeat, call |-> 0])
  BY DEF SetTimer
<1>3. PICK c \in Commands :
        c = [op |-> "spawn", job |-> nextJob, repeat |-> repeat, call |-> 0]
  <2>1. nextJob \in Nat
    BY <1>1 DEF TableTypes
  <2> QED
    BY <2>1 DEF Commands, Command
<1>4. queue' = Append(queue, c) /\ wake' = TRUE
  BY <1>2, <1>3 DEF Enqueue
<1>5. /\ running = t /\ Kind(t) = "code" /\ Stay(Past(t)) /\ tasks' = Past(t)
      /\ nextJob' = nextJob + 1 /\ cancelled' = cancelled /\ calls' = calls
      /\ UNCHANGED <<nextTask, promiseVars>>
  BY DEF SetTimer, Ready, Active, Stay
<1>6. Advance /\ verdicts' = verdicts /\ outcome' = outcome
  BY <1>1, <1>5, SameAdvance DEF promiseVars
<1>7. QueueGrows /\ running # 0
  BY <1>1, <1>4, <1>5, EnqueueGrows, RunningTask
<1>8. nextJob' \in Nat \ {0}
  BY <1>1, <1>5 DEF TableTypes
<1>9. TasksKept
  BY <1>1, <1>5, <1>6, <1>7, <1>8, PastTables DEF TableTypes, QueueGrows
<1>10. wake' \in BOOLEAN /\ \A j \in cancelled' : j \in cancelled
  BY <1>4, <1>5
<1> QED
  BY <1>5, <1>6, <1>7, <1>9, <1>10, StayKeeps DEF TasksKept

\* Clearing a timer queues its end.
LEMMA ClearTimerKeeps ==
  ASSUME SchedulerInvariant, NEW t \in Live, ClearTimer(t)
  PROVE  SchedulerInvariant'
<1>1. TurnTypes /\ TableTypes /\ PromiseTypes /\ TasksSound
  BY DEF SchedulerInvariant, Types
<1>2. PICK job \in 1 .. nextJob - 1 :
        /\ cancelled' = cancelled \cup {job}
        /\ Enqueue([op |-> "cancel", job |-> job, repeat |-> FALSE, call |-> 0])
  BY DEF ClearTimer
<1>3. job \in Nat \ {0}
  BY <1>1 DEF TableTypes
<1>4. PICK c \in Commands :
        c = [op |-> "cancel", job |-> job, repeat |-> FALSE, call |-> 0]
  BY <1>3 DEF Commands, Command
<1>5. queue' = Append(queue, c) /\ wake' = TRUE
  BY <1>2, <1>4 DEF Enqueue
<1>6. /\ running = t /\ Kind(t) = "code" /\ Stay(Past(t)) /\ tasks' = Past(t)
      /\ nextJob' = nextJob /\ calls' = calls
      /\ UNCHANGED <<nextTask, promiseVars>>
  BY DEF ClearTimer, Ready, Active, Stay
<1>7. Advance /\ verdicts' = verdicts /\ outcome' = outcome
  BY <1>1, <1>6, SameAdvance DEF promiseVars
<1>8. QueueGrows /\ running # 0 /\ \E i \in DOMAIN queue' : queue'[i] = c
  BY <1>1, <1>5, <1>6, EnqueueGrows, RunningTask
<1>9. cancelled' \subseteq Nat \ {0}
  BY <1>1, <1>2, <1>3 DEF TableTypes
<1>10. TasksKept
  BY <1>1, <1>6, <1>7, <1>8, <1>9, PastTables DEF TableTypes, QueueGrows
<1>11. EndQueued(job)'
  BY <1>4, <1>8 DEF EndQueued
<1>12. wake' \in BOOLEAN /\ \A j \in cancelled' : j \in cancelled \/ EndQueued(j)'
  BY <1>2, <1>5, <1>11
<1> QED
  BY <1>6, <1>7, <1>8, <1>10, <1>12, StayKeeps DEF TasksKept

LEMMA SpinKeeps ==
  ASSUME SchedulerInvariant, NEW t \in Live, Spin(t)
  PROVE  SchedulerInvariant'
<1>1. /\ running = t /\ Kind(t) = "code" /\ Stay(tasks)
      /\ UNCHANGED <<nextTask, promiseVars, wake, hostVars, calls>>
  BY DEF Spin, Active
<1> QED
  BY <1>1, PassKeeps

LEMMA ReturnKeeps ==
  ASSUME SchedulerInvariant, NEW t \in Live, Return(t)
  PROVE  SchedulerInvariant'
<1>1. running = t /\ running # 0 /\ 1 <= slice
  BY RunningTask DEF Return, Active
<1>2. PICK how \in Settled : Finish(how, 1, {})
  BY DEF Return, Settled
<1> QED
  BY <1>1, <1>2, FinishKeeps

\* A task parks on a promise it has found pending.
LEMMA ParkKeeps ==
  ASSUME SchedulerInvariant, NEW t \in Live, running = t, Kind(t) = "code",
         NEW p \in Issued, Pending(p), Park(t, p)
  PROVE  SchedulerInvariant'
<1>1. /\ t # 0 /\ 1 <= slice /\ tasks[t].work \in AnyWork
      /\ tasks[t].work.kind = "code"
  BY RunningTask
<1>2. PICK w \in CodeWork : w = tasks[t].work
  BY <1>1, WorkKinds
<1>3. p \in Nat /\ p # 0 /\ p < nextTask
  BY DEF Issued, Below, SchedulerInvariant, Types, PromiseTypes
<1>4. PICK x \in CodeWork : x = [w EXCEPT !.await = p]
  BY <1>3 DEF CodeWork
<1>5. x.kind = "code" /\ x.await = p /\ x \in AnyWork
  BY <1>4 DEF CodeWork, AnyWork
<1>6. PICK k : k = [work |-> x, waiting |-> p, call |-> tasks[t].call]
  OBVIOUS
<1>7. Sound(t, k) /\ Waits(k)
  BY <1>3, <1>5, <1>6 DEF Sound, Waits
<1>8. Leave(x, p, 1, FALSE) /\ UNCHANGED <<wake, hostVars>>
  BY <1>2, <1>4 DEF Park
<1> QED
  BY <1>1, <1>3, <1>5, <1>6, <1>7, <1>8, LeaveKeeps

LEMMA AwaitKeeps ==
  ASSUME SchedulerInvariant, NEW t \in Live, Await(t)
  PROVE  SchedulerInvariant'
<1>1. /\ running = t /\ Kind(t) = "code" /\ PromiseTypes
  BY DEF Await, Active, SchedulerInvariant, Types
<1>2. /\ t # 0 /\ 1 <= slice /\ Sound(t, tasks[t]) /\ tasks[t].work \in AnyWork
      /\ tasks[t].work.kind = "code"
  BY <1>1, RunningTask
<1>3. PICK p \in Ids :
       /\ IF tasks[t].work.await # 0 THEN p = tasks[t].work.await
                                     ELSE Ready(t) /\ Awaitable(t, p)
       /\ CASE Pending(p) -> Park(t, p)
            [] outcome[p] = "fault" -> Finish("fault", 1, {})
            [] outcome[p] \in {"value", "thrown"} ->
                 \/ /\ Stay(Past(t))
                    /\ UNCHANGED <<nextTask, promiseVars, wake, hostVars, calls>>
                 \/ /\ outcome[p] = "thrown" /\ ~Endless(t)
                    /\ Finish("thrown", 1, {})
  BY DEF Await
<1>4. p \in Issued
  <2>1. nextTask \in Nat
    BY <1>1 DEF PromiseTypes
  <2>2. CASE tasks[t].work.await # 0
    <3>1. tasks[t].work \in CodeWork
      BY <1>2, WorkKinds
    <3>2. PICK a \in Nat : a = tasks[t].work.await
      BY <3>1 DEF CodeWork
    <3>3. p = a /\ a # 0 /\ a < nextTask
      BY <1>2, <1>3, <2>2, <3>2 DEF Sound
    <3> QED
      BY <2>1, <3>2, <3>3 DEF Issued, Below
  <2>3. CASE tasks[t].work.await = 0
    <3>1. p \in 1 .. nextTask - 1
      BY <1>3, <2>3 DEF Awaitable
    <3> QED
      BY <2>1, <3>1 DEF Issued, Below
  <2> QED
    BY <2>2, <2>3
<1>5. outcome[p] \in {"pending", "value", "thrown", "fault"}
  BY <1>1, <1>4 DEF PromiseTypes, Settled
<1>6. CASE Pending(p)
  <2>1. outcome[p] = "pending"
    BY <1>6 DEF Pending
  <2>2. Park(t, p)
    BY <1>3, <1>6, <2>1
  <2> QED
    BY <1>1, <1>4, <1>6, <2>2, ParkKeeps
<1>7. CASE Finish("fault", 1, {})
  BY <1>1, <1>2, <1>7, FinishKeeps DEF Settled
<1>8. CASE Finish("thrown", 1, {})
  BY <1>1, <1>2, <1>8, FinishKeeps DEF Settled
<1>9. CASE /\ Stay(Past(t))
           /\ UNCHANGED <<nextTask, promiseVars, wake, hostVars, calls>>
  BY <1>1, <1>9, PassKeeps
<1> QED
  BY <1>3, <1>5, <1>6, <1>7, <1>8, <1>9 DEF Pending

\* A callback returns a promise: the task follows it.
LEMMA ReturnPromiseKeeps ==
  ASSUME SchedulerInvariant, NEW t \in Live, ReturnPromise(t)
  PROVE  SchedulerInvariant'
<1>1. running = t /\ UNCHANGED <<wake, hostVars>> /\ PromiseTypes
  BY DEF ReturnPromise, Active, SchedulerInvariant, Types
<1>2. t # 0 /\ 1 <= slice
  BY <1>1, RunningTask
<1>3. PICK p \in Ids : Awaitable(t, p) /\ Leave(Follow(p), p, 1, TRUE)
  BY DEF ReturnPromise
<1>4. PICK n \in Nat : n = nextTask
  BY <1>1 DEF PromiseTypes
<1>5. p \in 1 .. n - 1
  BY <1>3, <1>4 DEF Awaitable
<1>6. p \in Nat /\ p < nextTask /\ p \in Issued
  BY <1>4, <1>5 DEF Issued, Below
<1>7. PICK w \in WaitWork : w = Follow(p)
  BY <1>6 DEF Follow, WaitWork
<1>8. w.kind = "wait" /\ w.on = p /\ w \in AnyWork
  BY <1>7 DEF Follow, AnyWork
<1>9. PICK k : k = [work |-> w, waiting |-> p, call |-> tasks[t].call]
  OBVIOUS
<1>10. Sound(t, k)
  BY <1>6, <1>8, <1>9 DEF Sound
<1>11. Leave(w, p, 1, TRUE)
  BY <1>3, <1>7
<1> QED
  BY <1>1, <1>2, <1>6, <1>8, <1>9, <1>10, <1>11, LeaveKeeps

(***************************************************************************)
(* The world around the VM.                                                *)
(***************************************************************************)

\* The answer of an operation wakes the task that has left a waker there.
LEMMA HostAnswerKeeps ==
  ASSUME SchedulerInvariant, NEW t \in Live, HostAnswer(t)
  PROVE  SchedulerInvariant'
<1>1. /\ TurnTypes /\ TableTypes /\ PromiseTypes /\ TasksSound
      /\ VerdictsSound /\ TimersEnd /\ AnswersOwed /\ WakesKept
  BY DEF SchedulerInvariant, Types
<1>2. Kind(t) = "host" /\ t \in Issued /\ t # 0
  BY <1>1 DEF HostAnswer, TableTypes, Issued, Below
<1>3. PICK o \in AnyTask : o = tasks[t]
  BY <1>1 DEF TableTypes
<1>4. PICK w \in HostWork : w = o.work
  BY <1>2, <1>3, TaskTypes, WorkKinds DEF Kind
<1>5. PICK answer \in {"ok", "fail"} :
        tasks' = [tasks EXCEPT ![t].work.answer = answer,
                               ![t].work.ready = w.ready \/ w.armed]
  BY <1>3, <1>4 DEF HostAnswer
<1>6. /\ wake' = (wake \/ w.armed)
      /\ program' = program /\ phase' = phase /\ batch' = batch /\ ids' = ids
      /\ left' = left /\ running' = running /\ slice' = slice
      /\ progressed' = progressed /\ deferred' = deferred /\ queue' = queue
      /\ nextJob' = nextJob /\ cancelled' = cancelled /\ calls' = calls
      /\ verdicts' = verdicts /\ outcome' = outcome
      /\ UNCHANGED <<nextTask, promiseVars>>
  BY <1>3, <1>4 DEF HostAnswer, turnVars, hostVars, promiseVars
<1>7. w.ready \in BOOLEAN /\ w.armed \in BOOLEAN /\ w.kind = "host" /\ Sound(t, o)
  BY <1>1, <1>3 DEF HostWork, TasksSound
<1>8. w.ready \/ w.armed
  BY <1>3, <1>4, <1>7 DEF Sound
<1>9. PICK b \in BOOLEAN : b = (w.ready \/ w.armed) /\ b
  BY <1>8
<1>10. PICK x \in HostWork : x = [w EXCEPT !.answer = answer]
  BY DEF HostWork
<1>11. PICK v \in HostWork : v = [x EXCEPT !.ready = b]
  BY DEF HostWork
<1>12. v.kind = "host" /\ v.ready /\ v.job = w.job
  BY <1>9, <1>10, <1>11 DEF HostWork
<1>13. PICK m \in AnyTask : m = [o EXCEPT !.work = x]
  BY DEF AnyTask, AnyWork
<1>14. PICK k \in AnyTask : k = [m EXCEPT !.work = v]
  BY DEF AnyTask, AnyWork
<1>15. m.work = x /\ k.work = v /\ k.waiting = o.waiting /\ k.call = o.call
  BY <1>13, <1>14 DEF AnyTask
<1>16. tasks'[t] = k
  <2>1. m = [o EXCEPT !.work.answer = answer]
    BY <1>4, <1>10, <1>13 DEF AnyTask
  <2>2. k = [m EXCEPT !.work.ready = b]
    BY <1>11, <1>14, <1>15 DEF AnyTask
  <2>3. tasks'[t] = [[tasks[t] EXCEPT !.work.answer = answer]
                       EXCEPT !.work.ready = w.ready \/ w.armed]
    BY <1>5 DEF Live
  <2> QED
    BY <1>3, <1>9, <2>1, <2>2, <2>3
<1>17. Live' = Live /\ \A u \in Live : u # t => tasks'[u] = tasks[u]
  BY <1>5 DEF Live
<1>18. Advance /\ Issued' = Issued /\ \A p : Pending(p)' <=> Pending(p)
  BY <1>1, <1>6, SameAdvance
<1>19. Sound(t, k)
  BY <1>4, <1>7, <1>12, <1>15 DEF Sound
<1>20. Sound(t, k)'
  BY <1>2, <1>18, <1>19, SoundStays
<1>21. TableTypes'
  <2>1. \A u \in Live' : tasks'[u] \in AnyTask
    BY <1>1, <1>16, <1>17 DEF TableTypes
  <2> QED
    BY <1>1, <1>6, <1>17, <1>18, <2>1 DEF TableTypes
<1>22. wake' \in BOOLEAN
  BY <1>6
<1>23. batch' \in 0 .. Len(queue') /\ left' \in Nat /\ slice' \in 0 .. left'
  BY <1>1, <1>6 DEF TurnTypes
<1>24. TurnTypes'
  BY <1>1, <1>6, <1>17, <1>22, <1>23 DEF TurnTypes
<1>25. TasksSound'
  <2>1. ASSUME NEW u \in Live'
        PROVE  /\ Pending(u)'
               /\ \/ u \in Live /\ tasks'[u] = tasks[u]
                  \/ Sound(u, tasks[u])'
    <3>1. Pending(u)'
      BY <1>1, <1>17, <1>18, <2>1 DEF TasksSound
    <3>2. CASE u = t
      BY <1>16, <1>20, <3>1, <3>2
    <3>3. CASE u # t
      BY <1>17, <2>1, <3>1, <3>3
    <3> QED
      BY <3>2, <3>3
  <2> QED
    BY <1>1, <1>18, <2>1, TasksStay
<1>26. VerdictsSound'
  BY <1>1, <1>6, <1>18, VerdictsStay
<1>27. TimersEnd'
  <2>1. SUFFICES ASSUME NEW u \in Live', NEW j \in cancelled, IsJob(u, j)'
                 PROVE  EndQueued(j)'
    BY <1>6 DEF TimersEnd
  <2>2. IsJob(u, j)
    <3>1. CASE u = t
      <4>1. v.job = j
        BY <1>15, <1>16, <2>1, <3>1 DEF IsJob, Kind
      <4> QED
        BY <1>2, <1>3, <1>4, <1>12, <3>1, <4>1 DEF IsJob
    <3>2. CASE u # t
      BY <1>17, <2>1, <3>2 DEF IsJob, Kind
    <3> QED
      BY <3>1, <3>2
  <2>3. EndQueued(j)
    BY <1>1, <1>17, <2>1, <2>2 DEF TimersEnd
  <2> QED
    BY <1>6, <2>3 DEF EndQueued
<1>28. AnswersOwed'
  <2>1. \A u \in Live : tasks'[u].call = tasks[u].call
    BY <1>3, <1>15, <1>16, <1>17
  <2>3. \A c : Owed(c) => Owed(c)'
    BY <1>6, <1>17, <2>1 DEF Owed
  <2>4. phase # "closed"
    BY <1>1 DEF AnswersOwed
  <2> QED
    BY <1>1, <1>6, <2>3, <2>4 DEF AnswersOwed
<1>29. ASSUME ~wake', NEW u \in Live, Waits(tasks[u])
       PROVE  Waits(tasks[u])'
  <2>1. ~w.armed
    BY <1>6, <1>29
  <2>2. u # t
    <3>1. SUFFICES ASSUME u = t PROVE w.armed
      BY <2>1
    <3> QED
      BY <1>3, <1>4, <1>7, <1>29, <3>1 DEF Waits
  <2>3. PICK j \in AnyTask : j = tasks[u] /\ tasks'[u] = j
    BY <1>1, <1>17, <2>2 DEF TableTypes
  <2>4. u \in Issued /\ Sound(u, j) /\ Waits(j)
    BY <1>1, <1>29, <2>3 DEF TableTypes, TasksSound
  <2>5. Waits(j)'
    BY <1>1, <1>6, <2>4, WaitsStay
  <2> QED
    BY <2>3, <2>5
<1>30. WakesKept'
  <2>1. CASE wake'
    BY <2>1 DEF WakesKept, Busy
  <2>2. CASE ~wake'
    <3>1. ~wake /\ (Busy' <=> Busy)
      BY <1>6, <2>2 DEF Busy
    <3> QED
      BY <1>1, <1>6, <1>17, <1>29, <2>2, <3>1 DEF WakesKept
  <2> QED
    BY <2>1, <2>2
<1> QED
  BY <1>18, <1>21, <1>24, <1>25, <1>26, <1>27, <1>28, <1>30
  DEF SchedulerInvariant, Types, Advance

\* A call of a callback is queued, and the VM is awake.
LEMMA CallAsyncKeeps ==
  ASSUME SchedulerInvariant, NEW c \in 1 .. MaxCalls, CallAsync(c)
  PROVE  SchedulerInvariant'
<1>1. /\ TurnTypes /\ TableTypes /\ PromiseTypes /\ TasksSound
      /\ VerdictsSound /\ TimersEnd /\ AnswersOwed
  BY DEF SchedulerInvariant, Types
<1>2. MaxCalls \in Nat
  BY ConstantsAssumption
<1>3. c \in Nat /\ c # 0
  BY <1>2
<1>4. PICK d \in Commands : d = [op |-> "call", job |-> 0, repeat |-> FALSE, call |-> c]
  BY <1>3 DEF Commands, Command
<1>5. /\ queue' = Append(queue, d) /\ wake' = TRUE
      /\ calls' = [calls EXCEPT ![c] = "made"]
      /\ phase = "idle" \/ running # 0
      /\ program' = program /\ phase' = phase /\ batch' = batch /\ ids' = ids
      /\ left' = left /\ running' = running /\ slice' = slice
      /\ progressed' = progressed /\ deferred' = deferred
      /\ tasks' = tasks /\ nextJob' = nextJob /\ cancelled' = cancelled
      /\ verdicts' = verdicts
      /\ UNCHANGED <<nextTask, promiseVars>>
  BY <1>4 DEF CallAsync, Enqueue, turnVars, promiseVars
<1>6. phase \in {"idle", "tasks"} /\ batch = 0
  BY <1>1, <1>5 DEF TurnTypes
<1>7. QueueGrows /\ \E i \in DOMAIN queue' : queue'[i] = d
  BY <1>1, <1>5, EnqueueGrows
<1>8. Live' = Live
  BY <1>5 DEF Live
<1>9. Advance /\ Issued' = Issued /\ \A p : Pending(p)' <=> Pending(p)
  BY <1>1, <1>5, SameAdvance
<1>10. DOMAIN calls' = DOMAIN calls
  BY <1>5
<1>11. TableTypes'
  BY <1>1, <1>5, <1>7, <1>8, <1>9, <1>10 DEF TableTypes, QueueGrows
<1>12. batch' \in 0 .. Len(queue')
  BY <1>5, <1>6, <1>7, NoBatch
<1>13. left' \in Nat /\ slice' \in 0 .. left'
  BY <1>1, <1>5 DEF TurnTypes
<1>14. TurnTypes'
  BY <1>1, <1>5, <1>6, <1>8, <1>12, <1>13 DEF TurnTypes
<1>15. TasksSound'
  <2>1. \A u \in Live' : Pending(u)' /\ u \in Live /\ tasks'[u] = tasks[u]
    BY <1>1, <1>5, <1>8, <1>9 DEF TasksSound
  <2> QED
    BY <1>1, <1>9, <2>1, TasksStay
<1>16. VerdictsSound'
  BY <1>1, <1>5, <1>9, VerdictsStay
<1>17. TimersEnd'
  <2>1. SUFFICES ASSUME NEW u \in Live, NEW j \in cancelled, IsJob(u, j)
                 PROVE  EndQueued(j)'
    BY <1>5, <1>8 DEF TimersEnd, IsJob, Kind
  <2> QED
    BY <1>1, <1>7, <2>1, EndStaysQueued DEF TimersEnd
<1>18. AnswersOwed'
  <2>1. \A i \in DOMAIN queue : i \in DOMAIN queue' /\ queue'[i] = queue[i]
    BY <1>7 DEF QueueGrows
  <2>2. \A x : Owed(x) => Owed(x)'
    BY <1>5, <1>8, <2>1 DEF Owed
  <2>3. Owed(c)'
    BY <1>4, <1>7 DEF Owed
  <2>4. ASSUME NEW x \in DOMAIN calls', calls'[x] = "made"
        PROVE  Owed(x)'
    <3>1. x = c \/ (x \in DOMAIN calls /\ calls[x] = "made")
      BY <1>5, <1>10, <2>4
    <3> QED
      BY <1>1, <2>2, <2>3, <3>1 DEF AnswersOwed
  <2> QED
    BY <1>5, <1>6, <2>4 DEF AnswersOwed
<1>19. WakesKept'
  BY <1>5 DEF WakesKept, Busy
<1> QED
  BY <1>9, <1>11, <1>14, <1>15, <1>16, <1>17, <1>18, <1>19
  DEF SchedulerInvariant, Types, Advance

\* Between two turns tasks may be added, if the VM is awake for what can run.
LEMMA IdleGrowKeeps ==
  ASSUME SchedulerInvariant, phase = "idle", Advance, verdicts' = verdicts,
         UNCHANGED <<program, turnVars, hostVars, calls>>, wake' \in BOOLEAN,
         TasksKept,
         ~wake' => queue = <<>> /\ \A u \in Live' : Waits(tasks[u])'
  PROVE  SchedulerInvariant'
<1>1. /\ TurnTypes /\ TableTypes /\ PromiseTypes /\ TasksSound
      /\ VerdictsSound /\ TimersEnd /\ AnswersOwed
  BY DEF SchedulerInvariant, Types
<1>2. /\ program' = program /\ phase' = phase /\ batch' = batch /\ ids' = ids
      /\ left' = left /\ running' = running /\ slice' = slice
      /\ progressed' = progressed /\ deferred' = deferred /\ queue' = queue
      /\ nextJob' = nextJob /\ cancelled' = cancelled /\ calls' = calls
  BY DEF turnVars, hostVars
<1>3. /\ TableTypes'
      /\ \A u \in Live : u \in Live' /\ tasks'[u].call = tasks[u].call
  BY DEF TasksKept
<1>4. ids = {} /\ running = 0 /\ batch = 0
  BY <1>1 DEF TurnTypes
<1>5. QueueGrows
  BY <1>1, <1>2, SameQueue
<1>6. batch' \in 0 .. Len(queue') /\ left' \in Nat /\ slice' \in 0 .. left'
  BY <1>1, <1>2 DEF TurnTypes
<1>7. TurnTypes'
  BY <1>1, <1>2, <1>4, <1>6 DEF TurnTypes
<1>8. TasksSound'
  <2>1. \A u \in Live' : /\ Pending(u)'
                         /\ \/ u \in Live /\ tasks'[u] = tasks[u]
                            \/ Sound(u, tasks[u])'
    BY DEF TasksKept
  <2> QED
    BY <1>1, <2>1, TasksStay
<1>9. VerdictsSound'
  BY <1>1, VerdictsStay
<1>10. TimersEnd'
  <2>1. SUFFICES ASSUME NEW u \in Live', NEW j \in cancelled, IsJob(u, j)'
                 PROVE  EndQueued(j)'
    BY <1>2 DEF TimersEnd
  <2>2. tasks'[u].work.kind = "host" /\ tasks'[u].work.job = j /\ j # 0
    BY <1>1, <2>1 DEF IsJob, Kind, TableTypes
  <2>3. u \in Live /\ tasks'[u] = tasks[u]
    BY <2>1, <2>2 DEF TasksKept
  <2>4. IsJob(u, j)
    BY <2>2, <2>3 DEF IsJob, Kind
  <2>5. EndQueued(j)
    BY <1>1, <2>1, <2>3, <2>4 DEF TimersEnd
  <2> QED
    BY <1>2, <2>5 DEF EndQueued
<1>11. AnswersOwed'
  BY <1>1, <1>2, <1>3, <1>5, OwedGrows
<1>12. WakesKept'
  BY <1>2 DEF WakesKept
<1> QED
  BY <1>3, <1>7, <1>8, <1>9, <1>10, <1>11, <1>12
  DEF SchedulerInvariant, Types, Advance

LEMMA EventKeeps ==
  ASSUME SchedulerInvariant, Event
  PROVE  SchedulerInvariant'
<1>1. TurnTypes /\ TableTypes /\ PromiseTypes /\ TasksSound
  BY DEF SchedulerInvariant, Types
<1>2. /\ phase = "idle" /\ Issue /\ tasks' = Added(tasks, Task(Code(0, TRUE)))
      /\ wake' = TRUE /\ UNCHANGED <<program, turnVars, hostVars, calls>>
  BY DEF Event, Spawn
<1>3. PICK w \in CodeWork : w = Code(0, TRUE)
  <2>1. MaxOps \in Int
    BY ConstantsAssumption
  <2> QED
    BY <2>1 DEF Code, CodeWork
<1>4. PICK k \in AnyTask : k = Task(w)
  BY DEF Task, AnyTask, AnyWork
<1>5. Fresh(k) /\ k.work.kind = "code"
  BY <1>3, <1>4 DEF Task, Code, Fresh
<1>6. /\ Advance /\ Issued' = Issued \cup {nextTask} /\ nextTask \notin Issued
      /\ \A q \in Issued : outcome'[q] = outcome[q]
      /\ outcome'[nextTask] = "pending" /\ verdicts' = verdicts
  BY <1>1, <1>2, IssueAdvance
<1>7. tasks' = Added(tasks, k)
  BY <1>2, <1>3, <1>4
<1>8. PICK n : n = nextTask
  OBVIOUS
<1>9. /\ Live' = Live \cup {n} /\ tasks'[n] = k
      /\ \A u \in Live : tasks'[u] = tasks[u]
      /\ Live' \subseteq Issued' /\ \A u \in Live' : tasks'[u] \in AnyTask
  BY <1>1, <1>6, <1>7, <1>8, AddedTypes
<1>10. Sound(n, k)'
  BY <1>5, <1>6, FreshSound
<1>11. TableTypes'
  BY <1>1, <1>2, <1>9 DEF TableTypes, hostVars
<1>12. ASSUME NEW u \in Live'
       PROVE  /\ Pending(u)'
              /\ \/ u \in Live /\ tasks'[u] = tasks[u]
                 \/ /\ Sound(u, tasks[u])'
                    /\ tasks'[u].work.kind = "host" => tasks'[u].work.job = 0
  <2>1. Pending(u)'
    BY <1>1, <1>6, <1>8, <1>9, <1>12 DEF TasksSound, TableTypes, Pending
  <2>2. CASE u = n
    BY <1>5, <1>9, <1>10, <2>1, <2>2
  <2>3. CASE u # n
    BY <1>9, <1>12, <2>1, <2>3
  <2> QED
    BY <2>2, <2>3
<1>13. TasksKept
  BY <1>9, <1>11, <1>12 DEF TasksKept
<1> QED
  BY <1>2, <1>6, <1>13, IdleGrowKeeps

\* A table with one or two more entries.
Extended(g, f, n, m, s, S) ==
  /\ g \in [Below(n + m) -> S] /\ g[n] = s[1]
  /\ \A p \in Below(n) : g[p] = f[p]
  /\ m = 2 => g[n + 1] = s[2]

LEMMA ConcatTypes ==
  ASSUME NEW S, NEW n \in Nat \ {0}, NEW f \in [Below(n) -> S],
         NEW m \in {1, 2}, NEW s \in Seq(S), Len(s) = m, NEW g, g = f \o s
  PROVE  Extended(g, f, n, m, s, S)
<1>1. PICK l \in Nat : l = n - 1
  OBVIOUS
<1>2. Below(n) = 1 .. l /\ Below(n + m) = 1 .. l + m /\ n = l + 1
  BY <1>1 DEF Below
<1>3. f \in Seq(S)
  BY <1>2, SeqDef
<1>4. DOMAIN f = 1 .. l
  BY <1>2
<1>5. Len(f) = l
  BY <1>1, <1>3, <1>4, LenProperties
<1>6. /\ g \in Seq(S) /\ Len(g) = l + m
      /\ \A i \in 1 .. l + m : g[i] = IF i <= l THEN f[i] ELSE s[i - l]
  BY <1>3, <1>5, ConcatProperties
<1>7. g \in [1 .. l + m -> S]
  BY <1>6, LenProperties
<1>8. g[n] = s[1]
  <2>1. n \in 1 .. l + m /\ ~(n <= l) /\ n - l = 1
    BY <1>1, <1>2
  <2> QED
    BY <1>6, <2>1
<1>9. ASSUME NEW p \in Below(n) PROVE g[p] = f[p]
  <2>1. p \in 1 .. l + m /\ p <= l
    BY <1>1, <1>2
  <2> QED
    BY <1>6, <2>1
<1>10. ASSUME m = 2 PROVE g[n + 1] = s[2]
  <2>1. n + 1 \in 1 .. l + m /\ ~(n + 1 <= l) /\ (n + 1) - l = 2
    BY <1>1, <1>2, <1>10
  <2> QED
    BY <1>6, <2>1
<1> QED
  BY <1>2, <1>7, <1>8, <1>9, <1>10 DEF Extended

\* A binding issues its own promise, settled, and may leave another behind.
LEMMA BindingAdvance ==
  ASSUME PromiseTypes, NEW n, n = nextTask, NEW child \in BOOLEAN,
         NEW m, m = IF child THEN 2 ELSE 1, nextTask' = n + m,
         outcome' = outcome \o IF child THEN <<"value", "pending">> ELSE <<"value">>,
         order' = order \o IF child THEN <<epoch + 1, 0>> ELSE <<epoch + 1>>,
         epoch' = epoch + 1
  PROVE  /\ Advance /\ n \in Nat
         /\ Issued' = Issued \cup {n} \cup {u \in {n + 1} : child}
         /\ n + 1 \notin Issued
         /\ \A q \in Issued : outcome'[q] = outcome[q]
         /\ child => outcome'[n + 1] = "pending"
<1> DEFINE Results == {"pending"} \cup Settled
<1>1. /\ n \in Nat \ {0} /\ epoch \in Nat /\ m \in {1, 2}
      /\ outcome \in [Below(n) -> Results] /\ order \in [Below(n) -> Nat]
      /\ Issued = Below(n)
      /\ \A q \in Issued : order[q] <= epoch /\ ((order[q] = 0) <=> Pending(q))
  BY DEF PromiseTypes, Issued
<1>2. PICK e \in Nat : e = epoch + 1 /\ e = epoch' /\ epoch < e /\ epoch <= e /\ e # 0
  BY <1>1
<1>3. PICK s : s = IF child THEN <<"value", "pending">> ELSE <<"value">>
  OBVIOUS
<1>4. PICK r : r = IF child THEN <<e, 0>> ELSE <<e>>
  OBVIOUS
<1>5. /\ s \in Seq(Results) /\ Len(s) = m /\ s[1] = "value"
      /\ m = 2 => s[2] = "pending"
  <2>1. "value" \in Results /\ "pending" \in Results
    BY DEF Settled
  <2> HIDE DEF Results
  <2>2. CASE child
    BY <1>3, <2>1, <2>2
  <2>3. CASE ~child
    BY <1>3, <2>1, <2>3
  <2> QED
    BY <2>2, <2>3
<1>6. r \in Seq(Nat) /\ Len(r) = m /\ r[1] = e /\ (m = 2 => r[2] = 0)
  BY <1>4
<1>7. Extended(outcome', outcome, n, m, s, Results)
  <2>1. outcome' = outcome \o s
    BY <1>3
  <2> HIDE DEF Results
  <2> QED
    BY <1>1, <1>5, <2>1, ConcatTypes
<1>8. Extended(order', order, n, m, r, Nat)
  <2>1. order' = order \o r
    BY <1>2, <1>4
  <2> QED
    BY <1>1, <1>6, <2>1, ConcatTypes
<1>9. Issued' = Below(n + m)
  BY DEF Issued
<1>10. /\ Below(n + m) = Below(n) \cup {n} \cup {u \in {n + 1} : child}
       /\ n + 1 \notin Below(n) /\ n \notin Below(n) /\ n + 1 # n
       /\ n + m \in Nat \ {0} /\ n <= n + m
  <2>1. CASE child
    <3>1. m = 2
      BY <2>1
    <3> QED
      BY <1>1, <2>1, <3>1 DEF Below
  <2>2. CASE ~child
    <3>1. m = 1
      BY <2>2
    <3> QED
      BY <1>1, <2>2, <3>1 DEF Below
  <2> QED
    BY <2>1, <2>2
<1>11. /\ outcome' \in [Issued' -> Results] /\ order' \in [Issued' -> Nat]
       /\ outcome'[n] = "value" /\ order'[n] = e
       /\ \A q \in Issued : outcome'[q] = outcome[q] /\ order'[q] = order[q]
       /\ child => outcome'[n + 1] = "pending" /\ order'[n + 1] = 0
  <2>1. child => m = 2
    OBVIOUS
  <2> QED
    BY <1>1, <1>5, <1>6, <1>7, <1>8, <1>9, <2>1 DEF Extended
<1>12. ASSUME NEW q \in Issued'
       PROVE  order'[q] <= e /\ ((order'[q] = 0) <=> Pending(q)')
  <2>1. CASE q = n
    <3>1. outcome'[n] = "value" /\ order'[n] = e
      BY <1>11
    <3>2. e <= e
      BY <1>2
    <3>3. ~Pending(q)'
      BY <2>1, <3>1 DEF Pending
    <3> QED
      BY <1>2, <2>1, <3>1, <3>2, <3>3
  <2>2. CASE q = n + 1 /\ child
    <3>1. outcome'[q] = "pending" /\ order'[q] = 0
      BY <1>11, <2>2
    <3>2. 0 <= e
      BY <1>2
    <3> QED
      BY ONLY <3>1, <3>2 DEF Pending
  <2>3. CASE q \in Issued
    <3>1. order[q] \in Nat
      BY <1>1, <2>3
    <3>2. order[q] <= e
      BY <1>1, <1>2, <2>3, <3>1
    <3>3. outcome'[q] = outcome[q] /\ order'[q] = order[q]
      BY <1>11, <2>3
    <3>4. order[q] = 0 <=> outcome[q] = "pending"
      BY <1>1, <2>3 DEF Pending
    <3> QED
      BY ONLY <3>2, <3>3, <3>4 DEF Pending
  <2>4. q = n \/ (q = n + 1 /\ child) \/ q \in Issued
    <3>1. q \in Issued \cup {n} \cup {u \in {n + 1} : child}
      BY <1>1, <1>9, <1>10, <1>12
    <3> QED
      BY ONLY <3>1
  <2> QED
    BY ONLY <2>1, <2>2, <2>3, <2>4
<1>13. nextTask' \in Nat \ {0} /\ nextTask <= nextTask'
  BY <1>10
<1>14. PromiseTypes'
  BY <1>2, <1>11, <1>12, <1>13 DEF PromiseTypes
<1> QED
  BY <1>1, <1>2, <1>9, <1>10, <1>11, <1>13, <1>14 DEF Advance

LEMMA BindingKeeps ==
  ASSUME SchedulerInvariant, Binding
  PROVE  SchedulerInvariant'
<1>1. TurnTypes /\ TableTypes /\ PromiseTypes /\ TasksSound /\ WakesKept
  BY DEF SchedulerInvariant, Types
<1>2. PICK n : n = nextTask
  OBVIOUS
<1>3. PICK child \in BOOLEAN :
        /\ nextTask' = n + IF child THEN 2 ELSE 1
        /\ tasks' = [t \in Live \cup {u \in {n + 1} : child} |->
                       IF t \in Live THEN tasks[t] ELSE Task(Code(0, FALSE))]
        /\ outcome' = outcome \o IF child THEN <<"value", "pending">> ELSE <<"value">>
        /\ order' = order \o IF child THEN <<epoch + 1, 0>> ELSE <<epoch + 1>>
        /\ wake' = (wake \/ LeavesWork(child))
  BY <1>2 DEF Binding
<1>4. /\ phase = "idle" /\ epoch' = epoch + 1 /\ verdicts' = verdicts
      /\ UNCHANGED <<program, turnVars, hostVars, calls>>
  BY DEF Binding
<1>5. PICK m : m = IF child THEN 2 ELSE 1
  OBVIOUS
<1>6. nextTask' = n + m
  BY <1>3, <1>5
<1>7. /\ Advance /\ n \in Nat
      /\ Issued' = Issued \cup {n} \cup {u \in {n + 1} : child}
      /\ n + 1 \notin Issued
      /\ \A q \in Issued : outcome'[q] = outcome[q]
      /\ child => outcome'[n + 1] = "pending"
  BY <1>1, <1>2, <1>3, <1>4, <1>5, <1>6, BindingAdvance
<1>8. PICK r : r = n + 1
  OBVIOUS
<1>9. PICK w \in CodeWork : w = Code(0, FALSE)
  <2>1. MaxOps \in Int
    BY ConstantsAssumption
  <2> QED
    BY <2>1 DEF Code, CodeWork
<1>10. PICK k \in AnyTask : k = Task(w)
  BY DEF Task, AnyTask, AnyWork
<1>11. Fresh(k) /\ k.work.kind = "code"
  BY <1>9, <1>10 DEF Task, Code, Fresh
<1>12. Sound(r, k)'
  BY <1>7, <1>11, FreshSound
<1>13. r \notin Live
  BY <1>1, <1>7, <1>8 DEF TableTypes
<1>14. tasks' = [t \in Live \cup {u \in {r} : child} |->
                   IF t \in Live THEN tasks[t] ELSE k]
  BY <1>3, <1>8, <1>9, <1>10
<1>15. /\ Live' = Live \cup {u \in {r} : child}
       /\ \A u \in Live : tasks'[u] = tasks[u]
       /\ \A u \in Live' : u \notin Live => u = r /\ child /\ tasks'[u] = k
  BY <1>13, <1>14 DEF Live
<1>16. Live' \subseteq Issued' /\ \A u \in Live' : tasks'[u] \in AnyTask
  BY <1>1, <1>7, <1>8, <1>15 DEF TableTypes
<1>17. TableTypes'
  BY <1>1, <1>4, <1>16 DEF TableTypes, hostVars
<1>18. ASSUME NEW u \in Live'
       PROVE  /\ Pending(u)'
              /\ \/ u \in Live /\ tasks'[u] = tasks[u]
                 \/ /\ Sound(u, tasks[u])'
                    /\ tasks'[u].work.kind = "host" => tasks'[u].work.job = 0
  <2>1. CASE u \in Live
    <3>1. Pending(u)'
      BY <1>1, <1>7, <2>1 DEF TasksSound, TableTypes, Pending
    <3> QED
      BY <1>15, <2>1, <3>1
  <2>2. CASE u \notin Live
    <3>1. u = r /\ child /\ tasks'[u] = k
      BY <1>15, <1>18, <2>2
    <3>2. Pending(u)'
      BY <1>7, <1>8, <3>1 DEF Pending
    <3> QED
      BY <1>11, <1>12, <3>1, <3>2
  <2> QED
    BY <2>1, <2>2
<1>19. TasksKept
  BY <1>15, <1>17, <1>18 DEF TasksKept
<1>20. wake' \in BOOLEAN
  BY <1>3
<1>21. ASSUME ~wake' PROVE queue = <<>> /\ \A u \in Live' : Waits(tasks[u])'
  <2>1. ~wake /\ ~child /\ queue = <<>>
    BY <1>3, <1>21 DEF LeavesWork
  <2>2. Live' = Live
    BY <1>15, <2>1
  <2>3. ASSUME NEW u \in Live PROVE Waits(tasks[u])'
    <3>1. Waits(tasks[u])
      BY <1>1, <1>4, <2>1, <2>3 DEF WakesKept
    <3>2. PICK j \in AnyTask : j = tasks[u] /\ tasks'[u] = j
      BY <1>1, <1>15 DEF TableTypes
    <3>3. u \in Issued /\ Sound(u, j) /\ Waits(j)
      BY <1>1, <3>1, <3>2 DEF TableTypes, TasksSound
    <3>4. Waits(j)'
      BY <1>1, <1>7, <3>3, WaitsStay
    <3> QED
      BY <3>2, <3>4
  <2> QED
    BY <2>1, <2>2, <2>3
<1> QED
  BY <1>4, <1>7, <1>19, <1>20, <1>21, IdleGrowKeeps

(***************************************************************************)
(* The theorems.                                                           *)
(***************************************************************************)

LEMMA InitHolds ==
  ASSUME Init
  PROVE  SchedulerInvariant
<1>1. /\ program \in Programs /\ phase = "idle" /\ batch = 0 /\ ids = {} /\ left = 0
      /\ running = 0 /\ slice = 0 /\ progressed = FALSE /\ deferred = FALSE
      /\ tasks = [t \in {1} |-> Task(Code(0, FALSE))]
      /\ nextTask = 2 /\ outcome = <<"pending">> /\ order = <<0>> /\ epoch = 0
      /\ wake = TRUE /\ queue = <<>> /\ nextJob = 1 /\ cancelled = {}
      /\ calls = [c \in 1 .. MaxCalls |-> "idle"] /\ verdicts = {}
  BY DEF Init
<1>2. Live = {1} /\ Issued = {1}
  BY <1>1 DEF Live, Issued, Below
<1>3. PICK w \in CodeWork : w = Code(0, FALSE)
  <2>1. MaxOps \in Int
    BY ConstantsAssumption
  <2> QED
    BY <2>1 DEF Code, CodeWork
<1>4. PICK k \in AnyTask : k = Task(w)
  BY DEF Task, AnyTask, AnyWork
<1>5. tasks[1] = k /\ k.work = w /\ k.waiting = 0 /\ w.kind = "code" /\ w.await = 0
  BY <1>1, <1>3, <1>4 DEF Task, Code
<1>6. outcome[1] = "pending" /\ order[1] = 0
  BY <1>1
<1>7. PromiseTypes
  <2>1. outcome \in [{1} -> {"pending"} \cup Settled] /\ order \in [{1} -> Nat]
    BY <1>1
  <2> QED
    BY <1>1, <1>2, <1>6, <2>1 DEF PromiseTypes, Pending
<1>8. queue \in Seq(Commands) /\ Len(queue) = 0
  BY <1>1
<1>9. TableTypes
  <2>1. Live \subseteq Issued /\ \A t \in Live : tasks[t] \in AnyTask
    BY <1>2, <1>5
  <2>2. DOMAIN calls = 1 .. MaxCalls
    BY <1>1
  <2>3. nextJob \in Nat \ {0} /\ cancelled \subseteq Nat \ {0}
    BY <1>1
  <2> QED
    BY <1>8, <2>1, <2>2, <2>3 DEF TableTypes
<1>10. TurnTypes
  <2>1. program \in Program
    BY <1>1, ConstantsAssumption
  <2>2. batch \in 0 .. Len(queue) /\ slice \in 0 .. left /\ left \in Nat
    BY <1>1, <1>8
  <2> QED
    BY <1>1, <1>2, <2>1, <2>2 DEF TurnTypes
<1>11. TasksSound
  <2>1. 0 < nextTask
    BY <1>1
  <2>2. Sound(1, k)
    BY <1>5, <2>1 DEF Sound
  <2>3. Pending(1)
    BY <1>6 DEF Pending
  <2> QED
    BY <1>2, <1>5, <2>2, <2>3 DEF TasksSound
<1>12. VerdictsSound /\ TimersEnd /\ AnswersOwed /\ WakesKept
  BY <1>1 DEF VerdictsSound, TimersEnd, AnswersOwed, WakesKept
<1> QED
  BY <1>7, <1>9, <1>10, <1>11, <1>12 DEF SchedulerInvariant, Types

LEMMA PollKeeps ==
  ASSUME SchedulerInvariant, NEW t \in Live, Poll(t)
  PROVE  SchedulerInvariant'
  BY PollWaitKeeps, PollHostKeeps, PollTimerKeeps, PollJoinKeeps DEF Poll

LEMMA InstructionKeeps ==
  ASSUME SchedulerInvariant, NEW t \in Live, Instruction(t)
  PROVE  SchedulerInvariant'
  BY CallChildKeeps, CallHostKeeps, CallReadyKeeps, JoinOpKeeps, SetTimerKeeps,
     ClearTimerKeeps, AwaitKeeps, ReturnKeeps, ReturnPromiseKeeps, SpinKeeps
  DEF Instruction

LEMMA StepKeeps ==
  ASSUME SchedulerInvariant, Next
  PROVE  SchedulerInvariant'
<1>1. CASE StartTurn
  BY <1>1, StartTurnKeeps
<1>2. CASE Execute
  BY <1>2, ExecuteKeeps
<1>3. CASE Schedule
  BY <1>3, ScheduleKeeps
<1>4. CASE Defer
  BY <1>4, DeferKeeps
<1>5. CASE EndTasks
  BY <1>5, EndTasksKeeps
<1>6. CASE EndTurn
  BY <1>6, EndTurnKeeps
<1>7. ASSUME NEW t \in Live, Dispatch(t) PROVE SchedulerInvariant'
  BY <1>7, DispatchKeeps
<1>8. ASSUME NEW t \in Live, Poll(t) PROVE SchedulerInvariant'
  BY <1>8, PollKeeps
<1>9. ASSUME NEW t \in Live, Instruction(t) PROVE SchedulerInvariant'
  BY <1>9, InstructionKeeps
<1>10. ASSUME NEW t \in Live, HostAnswer(t) PROVE SchedulerInvariant'
  BY <1>10, HostAnswerKeeps
<1>11. ASSUME NEW c \in 1 .. MaxCalls, CallAsync(c) PROVE SchedulerInvariant'
  BY <1>11, CallAsyncKeeps
<1>12. CASE Event
  BY <1>12, EventKeeps
<1>13. CASE Binding
  BY <1>13, BindingKeeps
<1>14. CASE Cancel
  <2>1. Close(0)
    BY <1>14 DEF Cancel
  <2> QED
    BY <2>1, CloseKeeps
<1> QED
  BY <1>1, <1>2, <1>3, <1>4, <1>5, <1>6, <1>7, <1>8, <1>9, <1>10, <1>11, <1>12,
     <1>13, <1>14
  DEF Next, Turn, World

LEMMA StutterKeeps ==
  ASSUME SchedulerInvariant, UNCHANGED vars
  PROVE  SchedulerInvariant'
<1>1. /\ program' = program /\ phase' = phase /\ batch' = batch /\ ids' = ids
      /\ left' = left /\ running' = running /\ slice' = slice
      /\ progressed' = progressed /\ deferred' = deferred /\ wake' = wake
      /\ tasks' = tasks /\ queue' = queue /\ nextJob' = nextJob
      /\ cancelled' = cancelled /\ calls' = calls /\ verdicts' = verdicts
      /\ nextTask' = nextTask /\ outcome' = outcome /\ order' = order
      /\ epoch' = epoch
      /\ UNCHANGED <<nextTask, promiseVars>>
      /\ UNCHANGED <<tasks, nextTask, promiseVars, hostVars, calls>>
  BY DEF vars, turnVars, hostVars, promiseVars
<1>2. /\ TurnTypes /\ TableTypes /\ PromiseTypes /\ VerdictsSound /\ AnswersOwed
      /\ WakesKept
  BY DEF SchedulerInvariant, Types
<1>3. Live' = Live /\ Advance /\ Issued' = Issued
  BY <1>1, <1>2, SameAdvance DEF Live
<1>4. TurnTypes'
  BY <1>1, <1>2, <1>3 DEF TurnTypes
<1>5. CASE phase # "closed"
  <2>1. /\ TableTypes' /\ PromiseTypes' /\ TasksSound' /\ VerdictsSound'
        /\ TimersEnd' /\ AnswersOwed' /\ Live' = Live /\ queue' = queue
        /\ \A u \in Live : Waits(tasks[u]) => Waits(tasks[u])'
    BY <1>1, <1>5, TablesStay
  <2>2. WakesKept'
    BY <1>1, <1>2, <2>1 DEF WakesKept, Busy
  <2> QED
    BY <1>4, <2>1, <2>2 DEF SchedulerInvariant, Types
<1>6. CASE phase = "closed"
  <2>1. Live = {} /\ Live' = {}
    BY <1>2, <1>3, <1>6 DEF AnswersOwed
  <2>2. TasksSound' /\ TimersEnd'
    BY <2>1 DEF TasksSound, TimersEnd
  <2>3. TableTypes' /\ PromiseTypes'
    BY <1>1, <1>2, <1>3 DEF TableTypes, Advance
  <2>4. VerdictsSound'
    BY <1>1, <1>2, <1>3, VerdictsStay
  <2>5. AnswersOwed'
    BY <1>1, <1>2, <1>3 DEF AnswersOwed, Owed
  <2>6. WakesKept'
    BY <1>1, <1>6 DEF WakesKept
  <2> QED
    BY <1>4, <2>2, <2>3, <2>4, <2>5, <2>6 DEF SchedulerInvariant, Types
<1> QED
  BY <1>5, <1>6

\* The invariant of the scheduler: the tables are well formed, every task is
\* sound under its identifier, every scan of a combinator has accounted for
\* what it has passed, every verdict names the first settlement, the tasks of
\* cleared timers have their end in the queue, every call of a callback is
\* owed its answer by a task or a command, and a turn that leaves something to
\* do asks for another.
THEOREM SchedulerInvariantHolds == Spec => []SchedulerInvariant
<1>1. SchedulerInvariant /\ [Next]_vars => SchedulerInvariant'
  BY StepKeeps, StutterKeeps
<1> QED
  BY <1>1, InitHolds, PTL DEF Spec

\* No wake is lost: the flags of drive and run_turn, the wakers of ReadyWake
\* and the epochs of poll_join leave a VM that nobody will give a turn with
\* nothing it could do.
THEOREM NoLostWakeHolds == Spec => []NoLostWake
<1>1. SchedulerInvariant => NoLostWake
  <2>1. SUFFICES ASSUME SchedulerInvariant, phase = "idle", ~wake
                 PROVE  /\ program.drive = "turn" \/ queue = <<>>
                        /\ \A t \in Live :
                             LET w == tasks[t].work IN
                             CASE w.kind \in {"code", "wait"} ->
                                    tasks[t].waiting # 0 /\ Pending(tasks[t].waiting)
                               [] w.kind = "host" -> w.armed /\ w.answer = "none"
                               [] w.kind = "join" ->
                                    /\ \E i \in DOMAIN w.inputs : Pending(w.inputs[i])
                                    /\ \A i \in DOMAIN w.inputs :
                                         \/ Pending(w.inputs[i])
                                         \/ ~w.race /\ outcome[w.inputs[i]] = "value"
    BY DEF NoLostWake
  <2>2. /\ program.drive = "turn" \/ queue = <<>>
        /\ \A t \in Live : Waits(tasks[t])
    BY <2>1 DEF SchedulerInvariant, WakesKept
  <2> QED
    BY <2>2 DEF Waits, Idles
<1> QED
  BY <1>1, SchedulerInvariantHolds, PTL

\* A combinator is settled by the input that was settled first, although
\* poll_join scans its inputs a few at a time, in the order of the list, while
\* they are being settled; Promise.all has the values of all its inputs.
THEOREM FirstSettlementWinsHolds == Spec => []FirstSettlementWins
<1>1. SchedulerInvariant => FirstSettlementWins
  BY DEF SchedulerInvariant, VerdictsSound, VerdictSound, FirstSettlementWins,
         Claims, Rank
<1> QED
  BY <1>1, SchedulerInvariantHolds, PTL

\* Once the commands are taken, no task of a cleared timer is left, wherever
\* clearTimeout or clearInterval found the timer.
THEOREM ClearedTimersGoneHolds == Spec => []ClearedTimersGone
<1>1. SchedulerInvariant => ClearedTimersGone
  BY DEF SchedulerInvariant, TimersEnd, EndQueued, ClearedTimersGone
<1> QED
  BY <1>1, SchedulerInvariantHolds, PTL

\* The end of the VM answers every call of call_async: Vm::cancel drops the
\* tasks and the commands, and whatever owes an answer gives it when dropped.
THEOREM ClosedAnswersAllHolds == Spec => []ClosedAnswersAll
<1>1. SchedulerInvariant => ClosedAnswersAll
  BY DEF SchedulerInvariant, AnswersOwed, Owed, ClosedAnswersAll
<1> QED
  BY <1>1, SchedulerInvariantHolds, PTL
=============================================================================
