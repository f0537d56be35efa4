------------------------- MODULE TaskRunnerProofs -------------------------
(***************************************************************************)
(* Proofs about TaskRunner, for every set of tasks, every dependency graph *)
(* (with cycles and unknown names too) and every request.                  *)
(*                                                                         *)
(* The inductive invariant adds to the types who may be where: a thread    *)
(* that joins or runs owns its task, which is then in progress; a task has *)
(* one owner; a dependency that was joined, and a thread that returned     *)
(* with success, stand for a task that ended with success.  Last come the  *)
(* verdicts: without cycles every answer is the sequential run's.          *)
(***************************************************************************)
EXTENDS TaskRunner, FiniteSetTheorems, WellFoundedInduction, TLAPS

Owns(p) == threads[p].at \in {"joining", "running"}

\* An owned task exists and is in progress.
Owned ==
  \A p \in DOMAIN threads :
    Owns(p) => Name(p) \in Tasks /\ task[Name(p)] = InProgress

OneOwner ==
  \A p, q \in DOMAIN threads : Owns(p) /\ Owns(q) /\ Name(p) = Name(q) => p = q

\* What an owner has joined has ended with success, and it runs last.
JoinedOk ==
  \A p \in DOMAIN threads :
    Owns(p) =>
      /\ threads[p].left \subseteq deps[Name(p)]
      /\ \A d \in deps[Name(p)] \ threads[p].left : d \in Tasks /\ task[d] = Ok
      /\ threads[p].at = "running" => threads[p].left = {}

\* A thread that returned with success speaks of a task that did.
ReturnedOk ==
  \A p \in DOMAIN threads :
    threads[p].result = Ok => Name(p) \in Tasks /\ task[Name(p)] = Ok

\* Nobody has run the command of a task before its owner does.
Unrun ==
  /\ \A t \in Tasks : commands[t] \in {0, 1} /\ (task[t] = None => commands[t] = 0)
  /\ \A p \in DOMAIN threads : threads[p].at = "joining" => commands[Name(p)] = 0

\* Every dependency still to be joined has its thread.
Spawning ==
  \A p \in DOMAIN threads : Owns(p) =>
    \A d \in threads[p].left : Append(p, d) \in DOMAIN threads

Requested == \A n \in handles : <<n>> \in DOMAIN threads

IInv == TypeOK /\ Owned /\ OneOwner /\ JoinedOk /\ ReturnedOk /\ Unrun /\ Spawning /\ Requested

---------------------------------------------------------------------------
(* Paths and records.                                                      *)

LEMMA AppendName ==
  ASSUME NEW p \in Seq(Names), p # <<>>, NEW d \in Names
  PROVE  /\ Append(p, d) \in Seq(Names) /\ Append(p, d) # <<>>
         /\ Name(Append(p, d)) = d /\ Name(p) \in Names
         /\ Append(p, d) # p
BY DEF Name

LEMMA ResultKinds ==
  /\ None \notin Results /\ InProgress \notin Results /\ Ok \in Results
  /\ None # InProgress /\ None # Ok /\ InProgress # Ok
  /\ \A n \in Names : /\ Failed(n) \in Results \ {Ok} /\ Cycle(n) \in Results \ {Ok}
                      /\ Unknown(n) \in Results \ {Ok}
BY DEF None, InProgress, Ok, Results, Failed, Cycle, Unknown

LEMMA Records ==
  /\ Spawned \in Thread /\ Spawned.at = "looking" /\ Spawned.result = None
  /\ \A S \in SUBSET Names :
       /\ Joining(S) \in Thread /\ Joining(S).at = "joining"
       /\ Joining(S).left = S /\ Joining(S).result = None
  /\ \A r \in Results :
       Returned(r) \in Thread /\ Returned(r).at = "returned" /\ Returned(r).result = r
BY DEF Spawned, Joining, Returned, Thread

\* A step of the thread at p leaves the others what they are, or wakes them.
Others(p) ==
  \A q \in DOMAIN threads :
    q # p =>
      /\ threads'[q].left = threads[q].left /\ threads'[q].result = threads[q].result
      /\ threads'[q].at = threads[q].at
           \/ (threads[q].at = "asleep" /\ threads'[q].at = "looking")

\* A step that spawns nothing and gives p the record r.
Becomes(p, r) ==
  /\ threads' \in [DOMAIN threads -> Thread]
  /\ threads'[p] = r
  /\ Others(p)

LEMMA ExceptBecomes ==
  ASSUME TypeOK, NEW p \in DOMAIN threads, NEW r \in Thread,
         threads' = [threads EXCEPT ![p] = r]
  PROVE  Becomes(p, r)
BY DEF TypeOK, Becomes, Others

LEMMA FinishBecomes ==
  ASSUME TypeOK, NEW p \in DOMAIN threads, NEW r \in Results, Finish(p, r)
  PROVE  /\ Becomes(p, Returned(r))
         /\ task' = [task EXCEPT ![Name(p)] = r]
<1> DEFINE th == [threads EXCEPT ![p] = Returned(r)]
<1>1. th \in [DOMAIN threads -> Thread] /\ th[p] = Returned(r)
  BY Records DEF TypeOK
<1>2. threads' = [q \in DOMAIN threads |->
         IF th[q].at = "asleep" THEN [th[q] EXCEPT !.at = "looking"] ELSE th[q]]
  BY <1>1 DEF Finish, Woken
<1>3. \A q \in DOMAIN threads : q # p => th[q] = threads[q] /\ threads[q] \in Thread
  BY DEF TypeOK
<1> HIDE DEF th
<1>4. threads'[p] = Returned(r)
  BY <1>1, <1>2, Records
<1>5. \A q \in DOMAIN threads :
        /\ threads'[q] \in Thread
        /\ threads'[q].left = th[q].left /\ threads'[q].result = th[q].result
        /\ threads'[q].at = th[q].at
             \/ (th[q].at = "asleep" /\ threads'[q].at = "looking")
  <2> TAKE q \in DOMAIN threads
  <2>1. th[q] \in Thread
    BY <1>1
  <2>2. CASE th[q].at = "asleep"
    <3>1. threads'[q] = [th[q] EXCEPT !.at = "looking"]
      BY <1>2, <2>2
    <3> QED
      BY <2>1, <2>2, <3>1 DEF Thread
  <2>3. CASE th[q].at # "asleep"
    BY <1>2, <2>1, <2>3
  <2> QED
    BY <2>2, <2>3
<1>6. Others(p)
  BY <1>3, <1>5 DEF Others
<1>7. threads' \in [DOMAIN threads -> Thread]
  BY <1>2, <1>5
<1> QED
  BY <1>4, <1>6, <1>7 DEF Becomes, Finish

\* The types survive a step that gives one thread a well-formed record.
LEMMA BecomesTypes ==
  ASSUME IInv, NEW p \in DOMAIN threads, NEW r, Becomes(p, r),
         r.at = "returned" <=> r.result # None,
         UNCHANGED config, UNCHANGED handles, UNCHANGED exit,
         task' \in [Tasks -> Results \cup {None, InProgress}],
         commands' \in [Tasks -> Nat]
  PROVE  TypeOK' /\ Requested' /\ DOMAIN threads' = DOMAIN threads
<1>1. DOMAIN threads' = DOMAIN threads /\ threads'[p] = r
  BY DEF Becomes
<1>2. \A q \in DOMAIN threads : threads'[q].at = "returned" <=> threads'[q].result # None
  <2> TAKE q \in DOMAIN threads
  <2>1. CASE q = p
    BY <1>1, <2>1
  <2>2. CASE q # p
    <3>1. threads[q].at = "returned" <=> threads[q].result # None
      BY DEF IInv, TypeOK
    <3> QED
      BY <2>2, <3>1 DEF Becomes, Others
  <2> QED
    BY <2>1, <2>2
<1> QED
  BY <1>1, <1>2 DEF IInv, TypeOK, Requested, Becomes, config

LEMMA OthersOwn ==
  ASSUME IInv, NEW p \in DOMAIN threads, NEW r, Becomes(p, r)
  PROVE  /\ DOMAIN threads' = DOMAIN threads /\ threads'[p] = r
         /\ \A q \in DOMAIN threads : q # p =>
              /\ Owns(q)' <=> Owns(q)
              /\ Owns(q) => threads'[q].at = threads[q].at
              /\ threads'[q].left = threads[q].left
              /\ threads'[q].result = threads[q].result
              /\ threads'[q].at \in {"joining", "running"} => threads'[q].at = threads[q].at
BY DEF Becomes, Others, Owns

---------------------------------------------------------------------------
(* A step of a thread that does not own its task.                          *)

LEMMA Quiet ==
  ASSUME IInv, NEW p \in DOMAIN threads, NEW r, Becomes(p, r),
         ~Owns(p), r.at \notin {"joining", "running"},
         r.at = "returned" <=> r.result # None,
         r.result = Ok => Name(p) \in Tasks /\ task[Name(p)] = Ok,
         UNCHANGED <<config, task, handles, exit, commands>>
  PROVE  IInv'
<1>1. TypeOK' /\ Requested' /\ DOMAIN threads' = DOMAIN threads
  <2>1. task \in [Tasks -> Results \cup {None, InProgress}] /\ commands \in [Tasks -> Nat]
    BY DEF IInv, TypeOK
  <2> QED
    BY <2>1, BecomesTypes
<1>2. ~Owns(p)'
  BY OthersOwn DEF Owns
<1>3. \A q \in DOMAIN threads : Owns(q)' =>
        /\ Owns(q) /\ threads'[q].at = threads[q].at /\ threads'[q].left = threads[q].left
  BY <1>2, OthersOwn
<1>4. Owned' /\ OneOwner' /\ JoinedOk'
  BY <1>1, <1>3 DEF IInv, Owned, OneOwner, JoinedOk, config, Name
<1>5. ReturnedOk'
  BY <1>1, OthersOwn DEF IInv, ReturnedOk, Name
<1>6. Unrun'
  BY <1>1, <1>3 DEF IInv, Unrun, Owns, Name
<1>7. Spawning'
  BY <1>1, <1>3 DEF IInv, Spawning
<1> QED
  BY <1>1, <1>4, <1>5, <1>6, <1>7 DEF IInv

---------------------------------------------------------------------------
(* The end of a task.                                                      *)

LEMMA Ending ==
  ASSUME IInv, NEW p \in DOMAIN threads, NEW r \in Results, Finish(p, r),
         Owns(p), r = Ok => threads[p].at = "running",
         UNCHANGED <<config, handles, exit, commands>>
  PROVE  IInv'
<1> DEFINE n == Name(p)
<1>1. n \in Tasks /\ task[n] = InProgress
  BY DEF IInv, Owned
<1>2. Becomes(p, Returned(r)) /\ task' = [task EXCEPT ![n] = r]
  BY FinishBecomes DEF IInv
<1>3. /\ Returned(r).at = "returned" /\ Returned(r).result = r /\ r # None /\ r # InProgress
      /\ InProgress # Ok /\ InProgress # None
  BY Records, ResultKinds
<1>4. task \in [Tasks -> Results \cup {None, InProgress}] /\ commands \in [Tasks -> Nat]
  BY DEF IInv, TypeOK
<1>5. task'[n] = r /\ \A t \in Tasks : t # n => task'[t] = task[t]
  BY <1>1, <1>2, <1>4
<1>6. TypeOK' /\ Requested' /\ DOMAIN threads' = DOMAIN threads
  <2>1. task' \in [Tasks -> Results \cup {None, InProgress}] /\ commands' \in [Tasks -> Nat]
    BY <1>2, <1>4
  <2> HIDE DEF n
  <2> QED
    BY <1>2, <1>3, <2>1, BecomesTypes
<1>7. \A q \in DOMAIN threads : Owns(q)' =>
        /\ Owns(q) /\ threads'[q].at = threads[q].at /\ threads'[q].left = threads[q].left
        /\ q # p /\ Name(q) # n
  <2>1. ~Owns(p)'
    BY <1>2, <1>3, OthersOwn DEF Owns
  <2> QED
    BY <1>2, <2>1, OthersOwn DEF IInv, OneOwner
<1>8. \A t \in Tasks : task[t] = Ok => task'[t] = Ok
  BY <1>1, <1>3, <1>5
<1> HIDE DEF n
<1>9. Owned'
  BY <1>5, <1>6, <1>7 DEF IInv, Owned, Name
<1>10. OneOwner'
  BY <1>6, <1>7 DEF IInv, OneOwner, Name
<1>11. JoinedOk'
  BY <1>6, <1>7, <1>8 DEF IInv, JoinedOk, config, Name
<1>12. ReturnedOk'
  <2> SUFFICES ASSUME NEW q \in DOMAIN threads, threads'[q].result = Ok
               PROVE  Name(q) \in Tasks /\ task'[Name(q)] = Ok
    BY <1>6 DEF ReturnedOk, Name
  <2>1. CASE q = p
    BY <1>1, <1>2, <1>3, <1>5, <2>1, OthersOwn DEF n
  <2>2. CASE q # p
    BY <1>2, <1>8, <2>2, OthersOwn DEF IInv, ReturnedOk
  <2> QED
    BY <2>1, <2>2
<1>13. Unrun'
  BY <1>3, <1>5, <1>6, <1>7 DEF IInv, Unrun, Owns, Name
<1>14. Spawning'
  BY <1>6, <1>7 DEF IInv, Spawning
<1> QED
  BY <1>6, <1>9, <1>10, <1>11, <1>12, <1>13, <1>14 DEF IInv

---------------------------------------------------------------------------
(* A dependency that has ended with success.                               *)

LEMMA JoiningOk ==
  ASSUME IInv, NEW p \in DOMAIN threads, threads[p].at = "joining",
         NEW d \in threads[p].left, threads[Append(p, d)].result = Ok,
         threads' = [threads EXCEPT ![p].left = @ \ {d}],
         UNCHANGED <<config, task, handles, exit, commands>>
  PROVE  IInv'
<1> DEFINE r == [threads[p] EXCEPT !.left = @ \ {d}]
<1>1. threads[p] \in Thread /\ Owns(p) /\ p \in Seq(Names) /\ p # <<>>
  BY DEF IInv, TypeOK, Owns
<1>2. r \in Thread /\ r.at = "joining" /\ r.left = threads[p].left \ {d}
        /\ r.result = threads[p].result
  BY <1>1 DEF Thread
<1>3. threads' = [threads EXCEPT ![p] = r]
  BY DEF IInv, TypeOK
<1>4. d \in Tasks /\ task[d] = Ok
  <2>1. Append(p, d) \in DOMAIN threads
    BY <1>1 DEF IInv, Spawning
  <2>2. d \in Names
    BY <1>1 DEF Thread
  <2>3. Name(Append(p, d)) = d
    BY <1>1, <2>2, AppendName
  <2> QED
    BY <2>1, <2>3 DEF IInv, ReturnedOk
<1> HIDE DEF r
<1>5. Becomes(p, r)
  BY <1>2, <1>3, ExceptBecomes DEF IInv
<1>6. TypeOK' /\ Requested' /\ DOMAIN threads' = DOMAIN threads
  <2>1. task \in [Tasks -> Results \cup {None, InProgress}] /\ commands \in [Tasks -> Nat]
    BY DEF IInv, TypeOK
  <2>2. r.at = "returned" <=> r.result # None
    BY <1>2 DEF IInv, TypeOK
  <2> QED
    BY <1>5, <2>1, <2>2, BecomesTypes
<1>7. \A q \in DOMAIN threads :
        /\ Owns(q)' <=> Owns(q)
        /\ threads'[q].result = threads[q].result
        /\ threads'[q].left \subseteq threads[q].left
        /\ q # p => threads'[q].left = threads[q].left
        /\ Owns(q) => threads'[q].at = threads[q].at
  BY <1>1, <1>2, <1>5, OthersOwn DEF Owns
<1>8. threads'[p].left = threads[p].left \ {d} /\ threads'[p].at = "joining"
  BY <1>2, <1>5, OthersOwn
<1>9. Owned' /\ OneOwner' /\ ReturnedOk'
  BY <1>6, <1>7 DEF IInv, Owned, OneOwner, ReturnedOk, Name
<1>10. JoinedOk'
  <2> SUFFICES ASSUME NEW q \in DOMAIN threads, Owns(q)'
               PROVE  /\ threads'[q].left \subseteq deps[Name(q)]
                      /\ \A e \in deps[Name(q)] \ threads'[q].left : e \in Tasks /\ task[e] = Ok
                      /\ threads'[q].at = "running" => threads'[q].left = {}
    BY <1>6 DEF JoinedOk, config, Name
  <2>1. Owns(q) /\ threads'[q].at = threads[q].at
    BY <1>7
  <2>2. /\ threads[q].left \subseteq deps[Name(q)]
        /\ \A e \in deps[Name(q)] \ threads[q].left : e \in Tasks /\ task[e] = Ok
        /\ threads[q].at = "running" => threads[q].left = {}
    BY <2>1 DEF IInv, JoinedOk
  <2> QED
    BY <1>4, <1>7, <1>8, <2>1, <2>2
<1>11. Unrun'
  BY <1>6, <1>7 DEF IInv, Unrun, Owns, Name
<1>12. Spawning'
  BY <1>6, <1>7 DEF IInv, Spawning
<1> QED
  BY <1>6, <1>9, <1>10, <1>11, <1>12 DEF IInv

---------------------------------------------------------------------------
(* The command of a task, which its owner runs once.                       *)

LEMMA Running ==
  ASSUME IInv, NEW p \in DOMAIN threads, Run(p)
  PROVE  IInv'
<1> DEFINE r == [threads[p] EXCEPT !.at = "running"]
           n == Name(p)
<1>1. threads[p] \in Thread /\ Owns(p) /\ threads[p].at = "joining" /\ threads[p].left = {}
  BY DEF IInv, TypeOK, Owns, Run, At, Joined
<1>2. /\ r \in Thread /\ r.at = "running" /\ r.left = threads[p].left
      /\ r.result = threads[p].result
  BY <1>1 DEF Thread
<1>3. threads' = [threads EXCEPT ![p] = r]
  BY DEF IInv, TypeOK, Run
<1>4. /\ n \in Tasks /\ task[n] = InProgress /\ commands[n] = 0
      /\ commands' = [commands EXCEPT ![n] = @ + 1]
      /\ UNCHANGED <<config, task, handles, exit>>
  BY <1>1 DEF IInv, Owned, Unrun, Run
<1>5. task \in [Tasks -> Results \cup {None, InProgress}] /\ commands \in [Tasks -> Nat]
  BY DEF IInv, TypeOK
<1>6. commands'[n] = 1 /\ \A t \in Tasks : t # n => commands'[t] = commands[t]
  BY <1>4, <1>5
<1>7. commands' \in [Tasks -> Nat]
  BY <1>4, <1>5
<1> HIDE DEF r, n
<1>8. Becomes(p, r)
  BY <1>2, <1>3, ExceptBecomes DEF IInv
<1>9. TypeOK' /\ Requested' /\ DOMAIN threads' = DOMAIN threads
  <2>1. r.at = "returned" <=> r.result # None
    BY <1>1, <1>2 DEF IInv, TypeOK
  <2> QED
    BY <1>4, <1>5, <1>7, <1>8, <2>1, BecomesTypes
<1>10. \A q \in DOMAIN threads :
         /\ Owns(q)' <=> Owns(q)
         /\ threads'[q].result = threads[q].result
         /\ threads'[q].left = threads[q].left
         /\ q # p /\ Owns(q) => threads'[q].at = threads[q].at
  <2>1. /\ threads'[p].at = "running" /\ threads'[p].left = threads[p].left
        /\ threads'[p].result = threads[p].result /\ Owns(p)
    BY <1>1, <1>2, <1>8 DEF Becomes
  <2>2. Owns(p)' <=> Owns(p)
    BY ONLY <2>1 DEF Owns
  <2>3. \A q \in DOMAIN threads : q # p =>
          /\ Owns(q)' <=> Owns(q)
          /\ threads'[q].result = threads[q].result /\ threads'[q].left = threads[q].left
          /\ Owns(q) => threads'[q].at = threads[q].at
    BY <1>8, OthersOwn
  <2> QED BY ONLY <2>1, <2>2, <2>3
<1>11. threads'[p].at = "running" /\ threads'[p].left = {}
  BY <1>1, <1>2, <1>8, OthersOwn
<1>12. Owned' /\ OneOwner' /\ ReturnedOk'
  BY <1>4, <1>9, <1>10 DEF IInv, Owned, OneOwner, ReturnedOk, Name
<1>13. JoinedOk'
  BY <1>4, <1>9, <1>10, <1>11 DEF IInv, JoinedOk, config, Name
<1>14. Unrun'
  <2>1. \A t \in Tasks : commands'[t] \in {0, 1} /\ (task'[t] = None => commands'[t] = 0)
    BY <1>4, <1>6, ResultKinds DEF IInv, Unrun
  <2>2. ASSUME NEW q \in DOMAIN threads, threads'[q].at = "joining"
        PROVE  commands'[Name(q)] = 0
    <3>1. q # p /\ Owns(q)' /\ Owns(q)
      BY <1>10, <1>11, <2>2 DEF Owns
    <3>2. Name(q) \in Tasks /\ Name(q) # n /\ threads[q].at = "joining"
      BY <1>1, <1>10, <2>2, <3>1 DEF IInv, Owned, OneOwner, n
    <3> QED
      BY <1>6, <3>2 DEF IInv, Unrun
  <2> QED
    BY <1>9, <2>1, <2>2 DEF Unrun, Name
<1>15. Spawning'
  BY <1>9, <1>10 DEF IInv, Spawning
<1> QED
  BY <1>9, <1>12, <1>13, <1>14, <1>15 DEF IInv

---------------------------------------------------------------------------
(* A claim: the thread owns the task and spawns its dependencies.          *)

LEMMA Claiming ==
  ASSUME IInv, NEW p \in DOMAIN threads, Claim(p)
  PROVE  IInv'
<1> DEFINE n == Name(p)
           spawned == {Append(p, d) : d \in deps[n]}
           D == DOMAIN threads \cup spawned
<1>1. /\ p \in Seq(Names) /\ p # <<>> /\ ~Owns(p)
      /\ n \in Tasks /\ task[n] = None /\ deps[n] \subseteq Names
  BY DEF IInv, TypeOK, Claim, At, Rejected, Unclaimed, Owns
<1>2. /\ task' = [task EXCEPT ![n] = InProgress]
      /\ threads' = [q \in D |-> IF q = p THEN Joining(deps[n])
                                 ELSE IF q \in spawned THEN Spawned ELSE threads[q]]
      /\ UNCHANGED <<config, handles, exit, commands>>
  BY DEF Claim
<1>3. task \in [Tasks -> Results \cup {None, InProgress}]
  BY DEF IInv, TypeOK
<1>4. task'[n] = InProgress /\ \A t \in Tasks : t # n => task'[t] = task[t]
  BY <1>1, <1>2, <1>3
<1>5. \A q \in spawned : q \in Seq(Names) /\ q # <<>>
  BY <1>1, AppendName
<1> HIDE DEF n
<1>6. /\ DOMAIN threads' = D
      /\ threads'[p] = Joining(deps[n])
      /\ \A q \in D : q # p =>
           threads'[q] = Spawned \/ (q \in DOMAIN threads /\ threads'[q] = threads[q])
  BY <1>2
<1>7. /\ Joining(deps[n]) \in Thread /\ Joining(deps[n]).at = "joining"
      /\ Joining(deps[n]).left = deps[n] /\ Joining(deps[n]).result = None
      /\ Spawned \in Thread /\ Spawned.at = "looking" /\ Spawned.result = None
      /\ InProgress # None /\ Ok # None /\ InProgress # Ok
  BY <1>1, Records, ResultKinds
<1>8. TypeOK'
  <2>1. task' \in [Tasks -> Results \cup {None, InProgress}]
    BY <1>2, <1>3
  <2>2. threads' \in [D -> Thread]
    <3>1. \A q \in D : threads'[q] \in Thread
      BY <1>6, <1>7 DEF IInv, TypeOK
    <3> QED
      BY <1>2, <3>1
  <2>3. \A q \in D : /\ q \in Seq(Names) /\ q # <<>>
                     /\ threads'[q].at = "returned" <=> threads'[q].result # None
    BY <1>5, <1>6, <1>7 DEF IInv, TypeOK
  <2> HIDE DEF D
  <2> QED
    BY <1>2, <1>6, <2>1, <2>2, <2>3 DEF IInv, TypeOK, config
<1>9. \A q \in D : q # p /\ Owns(q)' =>
        q \in DOMAIN threads /\ threads'[q] = threads[q] /\ Owns(q) /\ Name(q) # n
  <2> TAKE q \in D
  <2> HAVE q # p /\ Owns(q)'
  <2>1. q \in DOMAIN threads /\ threads'[q] = threads[q]
    BY <1>6, <1>7 DEF Owns
  <2>2. Owns(q)
    BY <2>1 DEF Owns
  <2>3. task[Name(q)] = InProgress
    BY <2>1, <2>2 DEF IInv, Owned
  <2> QED
    BY <1>1, <1>7, <2>1, <2>2, <2>3
<1>10. p \in D /\ threads'[p].at = "joining" /\ threads'[p].left = deps[n] /\ Owns(p)'
  BY <1>6, <1>7 DEF Owns
<1>11. \A t \in Tasks : task[t] = Ok => task'[t] = Ok
  BY <1>1, <1>4, <1>7
<1>12. \A d \in deps[n] : Append(p, d) \in D
  OBVIOUS
<1> HIDE DEF D
<1>13. Owned'
  <2> SUFFICES ASSUME NEW q \in D, Owns(q)'
               PROVE  Name(q) \in Tasks /\ task'[Name(q)] = InProgress
    BY <1>6 DEF Owned, Name
  <2>1. CASE q = p
    BY <1>1, <1>4, <2>1 DEF n
  <2>2. CASE q # p
    BY <1>4, <1>9, <2>2 DEF IInv, Owned
  <2> QED
    BY <2>1, <2>2
<1>14. OneOwner'
  BY <1>6, <1>9 DEF IInv, OneOwner, Name, n
<1>15. JoinedOk'
  <2> SUFFICES ASSUME NEW q \in D, Owns(q)'
               PROVE  /\ threads'[q].left \subseteq deps[Name(q)]
                      /\ \A e \in deps[Name(q)] \ threads'[q].left : e \in Tasks /\ task'[e] = Ok
                      /\ threads'[q].at = "running" => threads'[q].left = {}
    BY <1>2, <1>6 DEF JoinedOk, config, Name
  <2>1. CASE q = p
    BY <1>10, <2>1 DEF n
  <2>2. CASE q # p
    BY <1>9, <1>11, <2>2 DEF IInv, JoinedOk
  <2> QED
    BY <2>1, <2>2
<1>16. ReturnedOk'
  <2> SUFFICES ASSUME NEW q \in D, threads'[q].result = Ok
               PROVE  Name(q) \in Tasks /\ task'[Name(q)] = Ok
    BY <1>6 DEF ReturnedOk, Name
  <2>1. q # p /\ q \in DOMAIN threads /\ threads[q].result = Ok
    BY <1>6, <1>7
  <2> QED
    BY <1>11, <2>1 DEF IInv, ReturnedOk
<1>17. Unrun'
  <2>1. \A t \in Tasks : commands'[t] \in {0, 1} /\ (task'[t] = None => commands'[t] = 0)
    BY <1>2, <1>4, <1>7 DEF IInv, Unrun
  <2>2. ASSUME NEW q \in D, threads'[q].at = "joining"
        PROVE  commands'[Name(q)] = 0
    <3>1. CASE q = p
      BY <1>1, <1>2, <3>1 DEF IInv, Unrun, n
    <3>2. CASE q # p
      <4>1. q \in DOMAIN threads /\ threads[q].at = "joining"
        BY <1>9, <2>2, <3>2 DEF Owns
      <4> QED
        BY <1>2, <4>1 DEF IInv, Unrun
    <3> QED
      BY <3>1, <3>2
  <2> QED
    BY <1>6, <2>1, <2>2 DEF Unrun, Name
<1>18. Spawning'
  <2>1. DOMAIN threads \subseteq D
    BY DEF D
  <2> QED
    BY <1>6, <1>9, <1>10, <1>12, <2>1 DEF IInv, Spawning
<1>19. Requested'
  BY <1>2, <1>6 DEF IInv, Requested, D
<1> QED
  BY <1>8, <1>13, <1>14, <1>15, <1>16, <1>17, <1>18, <1>19 DEF IInv

---------------------------------------------------------------------------
(* The main thread.                                                        *)

LEMMA Main ==
  ASSUME IInv, JoinRequested \/ Exit
  PROVE  IInv'
<1>1. UNCHANGED <<config, task, threads, commands>> /\ handles' \subseteq handles
        /\ exit' \in Results \cup {None}
  <2>1. CASE JoinRequested
    <3>1. PICK n \in NextHandle(handles) :
            /\ threads[<<n>>].at = "returned"
            /\ IF threads[<<n>>].result = Ok
               THEN handles' = handles \ {n} /\ UNCHANGED exit
               ELSE exit' = threads[<<n>>].result /\ UNCHANGED handles
      BY <2>1 DEF JoinRequested
    <3>2. threads[<<n>>] \in Thread
      BY DEF IInv, TypeOK, Requested, NextHandle
    <3> QED
      BY <2>1, <3>1, <3>2 DEF JoinRequested, IInv, TypeOK, Thread
  <2>2. CASE Exit
    BY <2>2, ResultKinds DEF Exit
  <2> QED
    BY <2>1, <2>2
<1>2. TypeOK' /\ Requested'
  BY <1>1 DEF IInv, TypeOK, Requested, config
<1>3. Owned' /\ OneOwner' /\ JoinedOk' /\ ReturnedOk' /\ Unrun' /\ Spawning'
  BY <1>1 DEF IInv, Owned, OneOwner, JoinedOk, ReturnedOk, Unrun, Spawning, Owns, config
<1> QED
  BY <1>2, <1>3 DEF IInv

---------------------------------------------------------------------------
(* Every step.                                                             *)

LEMMA ThreadSteps ==
  ASSUME IInv, NEW p \in DOMAIN threads,
         \/ Reject(p) \/ Reuse(p) \/ Claim(p) \/ Join(p) \/ Run(p) \/ Complete(p)
         \/ Sleep(p) \/ WakeSpuriously(p)
  PROVE  IInv'
<1>1. /\ threads[p] \in Thread /\ p \in Seq(Names) /\ p # <<>> /\ Name(p) \in Names
      /\ threads[p].at = "returned" <=> threads[p].result # None
  BY AppendName DEF IInv, TypeOK, Name
<1>2. CASE Reject(p)
  <2> DEFINE r == IF OnStack(p) THEN Cycle(Name(p)) ELSE Unknown(Name(p))
  <2>1. r \in Results /\ r # Ok
    BY <1>1, ResultKinds
  <2> HIDE DEF r
  <2>2. threads' = [threads EXCEPT ![p] = Returned(r)]
    BY <1>2 DEF Reject, r
  <2>3. Becomes(p, Returned(r))
    BY <2>1, <2>2, Records, ExceptBecomes DEF IInv
  <2>4. ~Owns(p) /\ UNCHANGED <<config, task, handles, exit, commands>>
    BY <1>2 DEF Reject, At, Owns
  <2> QED
    BY <2>1, <2>3, <2>4, Records, ResultKinds, Quiet
<1>3. CASE Reuse(p)
  <2> DEFINE r == task[Name(p)]
  <2>1. r \in Results /\ Name(p) \in Tasks
    BY <1>3, ResultKinds DEF IInv, TypeOK, Reuse, Done, Rejected
  <2>2. threads' = [threads EXCEPT ![p] = Returned(r)]
    BY <1>3 DEF Reuse
  <2>3. r = Ok => Name(p) \in Tasks /\ task[Name(p)] = Ok
    BY <2>1
  <2> HIDE DEF r
  <2>4. Becomes(p, Returned(r))
    BY <2>1, <2>2, Records, ExceptBecomes DEF IInv
  <2>5. ~Owns(p) /\ UNCHANGED <<config, task, handles, exit, commands>>
    BY <1>3 DEF Reuse, At, Owns
  <2> QED
    BY <2>1, <2>3, <2>4, <2>5, Records, ResultKinds, Quiet
<1>4. ASSUME NEW where \in {"looking", "asleep"},
             threads' = [threads EXCEPT ![p].at = where],
             threads[p].at \in {"looking", "asleep"},
             UNCHANGED <<config, task, handles, exit, commands>>
      PROVE  IInv'
  <2> DEFINE r == [threads[p] EXCEPT !.at = where]
  <2>1. r \in Thread /\ r.at = where /\ r.result = threads[p].result
    BY <1>1 DEF Thread
  <2>2. threads' = [threads EXCEPT ![p] = r]
    BY <1>4 DEF IInv, TypeOK
  <2> HIDE DEF r
  <2>3. Becomes(p, r)
    BY <2>1, <2>2, ExceptBecomes DEF IInv
  <2>4. r.result = None
    BY <1>1, <1>4, <2>1
  <2>5. ~Owns(p)
    BY <1>4 DEF Owns
  <2> QED
    BY <1>4, <2>1, <2>3, <2>4, <2>5, ResultKinds, Quiet
<1>5. CASE Sleep(p)
  BY <1>4, <1>5 DEF Sleep, At
<1>6. CASE WakeSpuriously(p)
  BY <1>4, <1>6 DEF WakeSpuriously, At
<1>7. CASE Join(p)
  <2>1. threads[p].at = "joining" /\ Owns(p)
        /\ UNCHANGED <<config, handles, exit, commands>>
    BY <1>7 DEF Join, At, Owns
  <2>2. PICK d \in NextHandle(threads[p].left) :
          /\ threads[Append(p, d)].at = "returned"
          /\ IF threads[Append(p, d)].result = Ok
             THEN /\ threads' = [threads EXCEPT ![p].left = @ \ {d}]
                  /\ UNCHANGED task
             ELSE Finish(p, threads[Append(p, d)].result)
    BY <1>7 DEF Join
  <2>3. d \in threads[p].left
    BY DEF NextHandle
  <2>4. CASE threads[Append(p, d)].result = Ok
    BY <2>1, <2>2, <2>3, <2>4, JoiningOk
  <2>5. CASE threads[Append(p, d)].result # Ok
    <3>1. Append(p, d) \in DOMAIN threads
      BY <2>1, <2>3 DEF IInv, Spawning
    <3>2. threads[Append(p, d)].result \in Results
      BY <2>2, <3>1 DEF IInv, TypeOK, Thread
    <3> QED
      BY <2>1, <2>2, <2>5, <3>2, Ending
  <2> QED
    BY <2>4, <2>5
<1>8. CASE Complete(p)
  <2>1. threads[p].at = "running" /\ Owns(p)
        /\ UNCHANGED <<config, handles, exit, commands>>
    BY <1>8 DEF Complete, At, Owns
  <2>2. Ok \in Results /\ Failed(Name(p)) \in Results
    BY <1>1, ResultKinds
  <2>3. PICK r \in Results : Finish(p, r)
    BY <1>8, <2>2 DEF Complete
  <2> QED
    BY <2>1, <2>3, Ending
<1> QED
  BY <1>2, <1>3, <1>5, <1>6, <1>7, <1>8, Running, Claiming

LEMMA Starts == ASSUME Init PROVE IInv
<1> DEFINE D == {<<n>> : n \in requested}
<1>1. /\ requested \subseteq Tasks /\ handles = requested /\ deps \in [Tasks -> SUBSET Names]
      /\ succeeds \subseteq Tasks
      /\ task = [t \in Tasks |-> None] /\ commands = [t \in Tasks |-> 0] /\ exit = None
      /\ threads = [p \in D |-> Spawned]
  BY NamesAssumption DEF Init
<1>2. \A p \in D : p \in Seq(Names) /\ p # <<>>
  <2>1. \A n \in requested : n \in Names
    BY <1>1, NamesAssumption
  <2>2. \A n \in Names : <<n>> \in Seq(Names) /\ <<n>> # <<>>
    OBVIOUS
  <2> QED
    BY <2>1, <2>2
<1>3. \A p \in D : threads[p] = Spawned
  BY <1>1
<1>4. DOMAIN threads = D /\ \A n \in handles : <<n>> \in D
  BY <1>1
<1> HIDE DEF D
<1>5. Spawned \in Thread /\ Spawned.at = "looking" /\ Spawned.result = None /\ Ok # None
  BY Records, ResultKinds
<1>6. TypeOK
  <2>1. threads \in [DOMAIN threads -> Thread]
    BY <1>1, <1>4, <1>5
  <2> QED
    BY <1>1, <1>2, <1>3, <1>4, <1>5, <2>1 DEF TypeOK
<1>7. \A p \in DOMAIN threads : ~Owns(p)
  BY <1>3, <1>4, <1>5 DEF Owns
<1>8. Owned /\ OneOwner /\ JoinedOk /\ Spawning /\ Requested
  BY <1>4, <1>7 DEF Owned, OneOwner, JoinedOk, Spawning, Requested
<1>9. ReturnedOk /\ Unrun
  BY <1>1, <1>3, <1>4, <1>5 DEF ReturnedOk, Unrun
<1> QED
  BY <1>6, <1>8, <1>9 DEF IInv

LEMMA Steps == ASSUME IInv, [Next]_vars PROVE IInv'
<1>1. CASE Next
  BY <1>1, ThreadSteps, Main DEF Next, Progress
<1>2. CASE UNCHANGED vars
  BY <1>2 DEF vars, config, IInv, TypeOK, Owned, OneOwner, JoinedOk, ReturnedOk, Unrun,
              Spawning, Requested, Owns
<1> QED
  BY <1>1, <1>2

\* The inductive invariant holds of every behaviour.
THEOREM Inductive == Spec => []IInv
  BY Starts, Steps, PTL DEF Spec

\* Types: whatever the graph, threads and task states are well formed and only
\* a thread that has returned has a result (run and run_tasks).
THEOREM TypesHold == Spec => []TypeOK
<1>1. IInv => TypeOK
  BY DEF IInv
<1> QED
  BY <1>1, Inductive, PTL

\* The command of a task starts, and runs, with every dependency ended with
\* success (the joins of run before run_task), in graphs with cycles too.
THEOREM DependenciesRunFirst == Spec => []DependenciesFirst
<1>1. IInv => DependenciesFirst
  BY DEF IInv, JoinedOk, DependenciesFirst, Owns
<1> QED
  BY <1>1, Inductive, PTL

\* However many threads look at the same task, its command runs once (the
\* claim under the mutex in run).
THEOREM CommandsRunOnce == Spec => []RunsOnce
<1>1. IInv => RunsOnce
  BY DEF IInv, Unrun, RunsOnce
<1> QED
  BY <1>1, Inductive, PTL

---------------------------------------------------------------------------
(* The tree of threads.  Every prefix of a path is the path of a thread;   *)
(* only owners have descendants; below a thread that returned with success *)
(* every thread has returned.                                              *)

Extends(q, p) == Len(p) <= Len(q) /\ \A i \in 1 .. Len(p) : q[i] = p[i]

Closed ==
  \A q \in DOMAIN threads : \A p \in Seq(Names) :
    p # <<>> /\ Extends(q, p) => p \in DOMAIN threads

Rooted == \A q \in DOMAIN threads : q[1] \in requested

\* A thread without its task has spawned nothing.
Childless ==
  \A p, q \in DOMAIN threads :
    threads[p].at \in {"looking", "asleep"} /\ Extends(q, p) => q = p

Below ==
  \A p, q \in DOMAIN threads :
    threads[p].result = Ok /\ Extends(q, p) => threads[q].at = "returned"

ChildrenOk ==
  \A p \in DOMAIN threads : Owns(p) =>
    \A d \in Names \ threads[p].left :
      Append(p, d) \in DOMAIN threads => threads[Append(p, d)].result = Ok

MainOk ==
  /\ \A n \in requested \ handles : <<n>> \in DOMAIN threads /\ threads[<<n>>].result = Ok
  /\ exit = Ok => handles = {}

Tree == Closed /\ Rooted /\ Childless /\ Below /\ ChildrenOk /\ MainOk

LEMMA ExtendsFacts ==
  ASSUME NEW p \in Seq(Names), NEW q \in Seq(Names)
  PROVE  /\ Extends(q, q)
         /\ Extends(q, p) /\ Len(q) = Len(p) => q = p
         /\ Extends(q, p) /\ q # p =>
              /\ q[Len(p) + 1] \in Names
              /\ Extends(q, Append(p, q[Len(p) + 1]))
         /\ \A d \in Names : Extends(Append(p, d), p)
<1>1. Extends(q, q)
  BY DEF Extends
<1>2. Extends(q, p) /\ Len(q) = Len(p) => q = p
  BY DEF Extends
<1>3. ASSUME Extends(q, p), q # p
      PROVE  /\ q[Len(p) + 1] \in Names
             /\ Extends(q, Append(p, q[Len(p) + 1]))
  <2>1. Len(p) + 1 <= Len(q) /\ Len(p) \in Nat /\ Len(q) \in Nat
    BY <1>2, <1>3 DEF Extends
  <2>2. q[Len(p) + 1] \in Names
    BY <2>1
  <2>3. \A i \in 1 .. Len(p) : q[i] = p[i]
    BY <1>3 DEF Extends
  <2> DEFINE c == Append(p, q[Len(p) + 1])
  <2>4. Len(c) = Len(p) + 1 /\ c[Len(p) + 1] = q[Len(p) + 1]
          /\ \A i \in 1 .. Len(p) : c[i] = p[i]
    BY <2>2
  <2> HIDE DEF c
  <2>5. \A i \in 1 .. Len(c) : q[i] = c[i]
    BY <2>1, <2>3, <2>4
  <2> QED
    BY <2>1, <2>2, <2>4, <2>5 DEF Extends, c
<1>4. \A d \in Names : Extends(Append(p, d), p)
  BY DEF Extends
<1> QED
  BY <1>1, <1>2, <1>3, <1>4

LEMMA ExtendsAppend ==
  ASSUME NEW p \in Seq(Names), NEW d \in Names, NEW b \in Seq(Names),
         Extends(Append(p, d), b), b # Append(p, d)
  PROVE  Extends(p, b)
<1>1. Append(p, d) \in Seq(Names) /\ Len(Append(p, d)) = Len(p) + 1
        /\ \A i \in 1 .. Len(p) : Append(p, d)[i] = p[i]
  OBVIOUS
<1>2. Len(b) # Len(p) + 1
  BY <1>1, ExtendsFacts
<1>3. Len(b) <= Len(p) /\ Len(b) \in Nat /\ Len(p) \in Nat
  BY <1>1, <1>2 DEF Extends
<1> QED
  BY <1>1, <1>3 DEF Extends

\* A step that spawns nothing, of a thread that has not returned.
LEMMA TreeBecomes ==
  ASSUME IInv, Tree, NEW p \in DOMAIN threads, NEW r, Becomes(p, r),
         threads[p].at # "returned",
         r.at \in {"looking", "asleep"} => threads[p].at \in {"looking", "asleep"},
         r.at \in {"joining", "running"} =>
           /\ Owns(p)
           /\ \A d \in threads[p].left \ r.left : threads[Append(p, d)].result = Ok,
         r.result = Ok =>
           /\ r.at = "returned"
           /\ \A q \in DOMAIN threads : Extends(q, p) /\ q # p => threads[q].at = "returned",
         UNCHANGED <<config, handles, exit>>
  PROVE  Tree'
<1>1. DOMAIN threads' = DOMAIN threads /\ threads'[p] = r
  BY OthersOwn
<1>2. \A q \in DOMAIN threads : q # p =>
        /\ Owns(q)' <=> Owns(q)
        /\ threads'[q].left = threads[q].left /\ threads'[q].result = threads[q].result
        /\ threads'[q].at \in {"looking", "asleep"} => threads[q].at \in {"looking", "asleep"}
        /\ threads[q].at = "returned" => threads'[q].at = "returned"
  BY OthersOwn DEF Becomes, Others
<1>3. threads[p].result # Ok
  BY ResultKinds DEF IInv, TypeOK
<1>4. Closed' /\ Rooted'
  BY <1>1 DEF Tree, Closed, Rooted, config
<1>5. Childless'
  BY <1>1, <1>2 DEF Tree, Childless
<1>6. Below'
  <2> SUFFICES ASSUME NEW b \in DOMAIN threads, NEW q \in DOMAIN threads,
                      threads'[b].result = Ok, Extends(q, b)
               PROVE  threads'[q].at = "returned"
    BY <1>1 DEF Below
  <2>1. CASE b = p
    BY <1>1, <1>2, <2>1
  <2>2. CASE b # p
    <3>1. threads[b].result = Ok
      BY <1>2, <2>2
    <3>2. threads[q].at = "returned"
      BY <3>1 DEF Tree, Below
    <3> QED
      BY <1>2, <3>2
  <2> QED
    BY <2>1, <2>2
<1>7. \A q \in DOMAIN threads : threads[q].result = Ok => threads'[q].result = Ok
  BY <1>2, <1>3
<1>8. ChildrenOk'
  <2> SUFFICES ASSUME NEW b \in DOMAIN threads, Owns(b)', NEW d \in Names \ threads'[b].left,
                      Append(b, d) \in DOMAIN threads
               PROVE  threads[Append(b, d)].result = Ok
    BY <1>1, <1>7 DEF ChildrenOk
  <2>1. CASE b = p
    <3>1. Owns(p) /\ \A e \in threads[p].left \ r.left : threads[Append(p, e)].result = Ok
      BY <1>1, <2>1 DEF Owns
    <3>2. CASE d \in threads[p].left
      BY <1>1, <2>1, <3>1, <3>2
    <3>3. CASE d \notin threads[p].left
      BY <2>1, <3>1, <3>3 DEF Tree, ChildrenOk
    <3> QED
      BY <3>2, <3>3
  <2>2. CASE b # p
    BY <1>2, <2>2 DEF Tree, ChildrenOk
  <2> QED
    BY <2>1, <2>2
<1>9. MainOk'
  BY <1>1, <1>7 DEF Tree, MainOk, config
<1> QED
  BY <1>4, <1>5, <1>6, <1>8, <1>9 DEF Tree

LEMMA TreeClaims ==
  ASSUME IInv, Tree, NEW p \in DOMAIN threads, Claim(p)
  PROVE  Tree'
<1> DEFINE n == Name(p)
           spawned == {Append(p, d) : d \in deps[n]}
           D == DOMAIN threads \cup spawned
<1>1. /\ p \in Seq(Names) /\ p # <<>> /\ ~Owns(p) /\ threads[p].at = "looking"
      /\ deps[n] \subseteq Names /\ threads[p].at # "returned"
  BY DEF IInv, TypeOK, Claim, At, Rejected, Unclaimed, Owns
<1>2. /\ threads' = [q \in D |-> IF q = p THEN Joining(deps[n])
                                 ELSE IF q \in spawned THEN Spawned ELSE threads[q]]
      /\ UNCHANGED <<config, handles, exit>>
  BY DEF Claim
<1>3. \A q \in spawned : /\ q \in Seq(Names) /\ q # <<>> /\ q # p /\ q \notin DOMAIN threads
                         /\ \E d \in Names : q = Append(p, d)
  <2> SUFFICES ASSUME NEW d \in deps[n]
               PROVE  /\ Append(p, d) \in Seq(Names) /\ Append(p, d) # <<>>
                      /\ Append(p, d) # p /\ Append(p, d) \notin DOMAIN threads
                      /\ d \in Names
    OBVIOUS
  <2>1. d \in Names
    BY <1>1
  <2>2. Append(p, d) \in Seq(Names) /\ Append(p, d) # <<>> /\ Append(p, d) # p
    BY <1>1, <2>1, AppendName
  <2>3. Extends(Append(p, d), p)
    BY <1>1, <2>1, ExtendsFacts
  <2> QED
    BY <1>1, <2>1, <2>2, <2>3 DEF Tree, Childless
<1>4. /\ \A d \in deps[n] : Append(p, d) \in spawned
      /\ \A d \in Names \ deps[n] : Append(p, d) \notin spawned
  <2>1. ASSUME NEW d \in Names, NEW e \in deps[n], Append(p, d) = Append(p, e)
        PROVE  d = e
    <3>1. e \in Names
      BY <1>1
    <3>2. Name(Append(p, d)) = d /\ Name(Append(p, e)) = e
      BY <1>1, <3>1, AppendName
    <3> QED
      BY <2>1, <3>2
  <2> QED
    BY <2>1
<1> HIDE DEF n
<1>5. /\ DOMAIN threads' = D /\ p \in D /\ DOMAIN threads \subseteq D
      /\ threads'[p] = Joining(deps[n])
      /\ \A q \in spawned : threads'[q] = Spawned
      /\ \A q \in DOMAIN threads : q # p => threads'[q] = threads[q]
  BY <1>2, <1>3
<1>6. /\ Joining(deps[n]).at = "joining" /\ Joining(deps[n]).left = deps[n]
      /\ Joining(deps[n]).result = None
      /\ Spawned.at = "looking" /\ Spawned.result = None /\ Ok # None
  BY <1>1, Records, ResultKinds
<1>7. \A q \in D : q \in DOMAIN threads \/ q \in spawned
  OBVIOUS
<1>8. \A q \in D : q \in Seq(Names) /\ q # <<>>
  BY <1>3 DEF IInv, TypeOK
<1> HIDE DEF D, spawned
<1>9. \A q \in spawned : \A b \in Seq(Names) : Extends(q, b) /\ b # q => Extends(p, b)
  <2> SUFFICES ASSUME NEW q \in spawned, NEW b \in Seq(Names), Extends(q, b), b # q
               PROVE  Extends(p, b)
    OBVIOUS
  <2>1. PICK d \in Names : q = Append(p, d)
    BY <1>3
  <2>2. Extends(Append(p, d), b) /\ b # Append(p, d)
    BY <2>1
  <2> QED
    BY <1>1, <2>2, ExtendsAppend
<1>10. Closed'
  <2> SUFFICES ASSUME NEW q \in D, NEW b \in Seq(Names), b # <<>>, Extends(q, b)
               PROVE  b \in D
    BY <1>5 DEF Closed, Extends
  <2>1. CASE q \in DOMAIN threads
    BY <1>5, <2>1 DEF Tree, Closed
  <2>2. CASE q \in spawned
    BY <1>5, <1>9, <2>2 DEF Tree, Closed
  <2> QED
    BY <1>7, <2>1, <2>2
<1>11. Rooted'
  <2>1. \A q \in spawned : q[1] = p[1]
    <3>1. \A d \in Names : Append(p, d)[1] = p[1]
      BY <1>1
    <3> QED
      BY <1>3, <3>1
  <2> QED
    BY <1>2, <1>5, <1>7, <2>1 DEF Tree, Rooted, config
<1>12. Childless'
  <2> SUFFICES ASSUME NEW b \in D, NEW q \in D,
                      threads'[b].at \in {"looking", "asleep"}, Extends(q, b), q # b
               PROVE  FALSE
    BY <1>5 DEF Childless, Extends
  <2>1. b # p
    BY <1>5, <1>6
  <2>2. CASE b \in DOMAIN threads
    <3>1. threads[b].at \in {"looking", "asleep"}
      BY <1>5, <2>1, <2>2
    <3>2. q \in spawned
      BY <1>7, <2>2, <3>1 DEF Tree, Childless
    <3>3. Extends(p, b)
      BY <1>8, <1>9, <3>2
    <3> QED
      BY <2>1, <2>2, <3>1, <3>3 DEF Tree, Childless
  <2>3. CASE b \in spawned
    <3>1. CASE q \in spawned
      <4>1. Extends(p, b)
        BY <1>8, <1>9, <3>1
      <4> QED
        BY <1>3, <1>8, <2>3, <4>1 DEF Tree, Closed
    <3>2. CASE q \in DOMAIN threads
      BY <1>3, <1>8, <2>3, <3>2 DEF Tree, Closed
    <3> QED
      BY <1>7, <3>1, <3>2
  <2> QED
    BY <1>7, <2>2, <2>3
<1>13. Below'
  <2> SUFFICES ASSUME NEW b \in D, NEW q \in D, threads'[b].result = Ok, Extends(q, b)
               PROVE  threads'[q].at = "returned"
    BY <1>5 DEF Below, Extends
  <2>1. b \in DOMAIN threads /\ b # p /\ threads[b].result = Ok
    BY <1>5, <1>6, <1>7
  <2>2. ~Extends(p, b)
    BY <1>1, <2>1 DEF Tree, Below
  <2>3. q # p /\ q \notin spawned
    BY <1>3, <1>8, <1>9, <2>1, <2>2
  <2> QED
    BY <1>5, <1>7, <2>1, <2>3 DEF Tree, Below
<1>14. ChildrenOk'
  <2> SUFFICES ASSUME NEW b \in D, Owns(b)', NEW d \in Names \ threads'[b].left,
                      Append(b, d) \in D
               PROVE  threads'[Append(b, d)].result = Ok
    BY <1>5 DEF ChildrenOk
  <2>1. Append(b, d) \in Seq(Names) /\ Extends(Append(b, d), b) /\ Append(b, d) # b
    BY <1>8, ExtendsFacts, AppendName
  <2>2. CASE b = p
    <3>1. Append(p, d) \notin spawned
      BY <1>4, <1>5, <1>6, <2>2 DEF n
    <3>2. Append(p, d) \in DOMAIN threads
      BY <1>7, <2>2, <3>1
    <3> QED
      BY <1>1, <2>1, <2>2, <3>2 DEF Tree, Childless
  <2>3. CASE b # p
    <3>1. b \in DOMAIN threads /\ threads'[b] = threads[b] /\ Owns(b)
      BY <1>5, <1>6, <1>7, <2>3 DEF Owns
    <3>2. Append(b, d) \notin spawned
      <4> SUFFICES ASSUME Append(b, d) \in spawned PROVE FALSE
        OBVIOUS
      <4>1. PICK e \in Names : Append(b, d) = Append(p, e)
        BY <1>3
      <4>2. Len(b) = Len(p) /\ \A i \in 1 .. Len(b) : b[i] = p[i]
        <5>1. /\ Len(Append(b, d)) = Len(b) + 1 /\ Len(Append(p, e)) = Len(p) + 1
              /\ \A i \in 1 .. Len(b) : Append(b, d)[i] = b[i]
              /\ \A i \in 1 .. Len(p) : Append(p, e)[i] = p[i]
              /\ Len(b) \in Nat /\ Len(p) \in Nat
          BY <1>1, <1>8
        <5> QED
          BY <4>1, <5>1
      <4> QED
        BY <1>1, <1>8, <2>3, <4>2
    <3>3. Append(b, d) \in DOMAIN threads /\ threads[Append(b, d)].result = Ok
      BY <1>7, <3>1, <3>2 DEF Tree, ChildrenOk
    <3>4. Append(b, d) # p
      BY <1>1, <3>3, ResultKinds DEF IInv, TypeOK
    <3> QED
      BY <1>5, <3>3, <3>4
  <2> QED
    BY <2>2, <2>3
<1>15. MainOk'
  <2>1. \A m \in requested \ handles :
          <<m>> \in D /\ <<m>> # p /\ threads'[<<m>>].result = Ok
    <3> TAKE m \in requested \ handles
    <3>1. <<m>> \in DOMAIN threads /\ threads[<<m>>].result = Ok
      BY DEF Tree, MainOk
    <3>2. <<m>> # p
      BY <1>1, <3>1, ResultKinds DEF IInv, TypeOK
    <3> QED
      BY <1>5, <3>1, <3>2
  <2> QED
    BY <1>2, <1>5, <2>1 DEF Tree, MainOk, config
<1> QED
  BY <1>10, <1>11, <1>12, <1>13, <1>14, <1>15 DEF Tree

LEMMA TreeSteps ==
  ASSUME IInv, Tree, NEW p \in DOMAIN threads,
         \/ Reject(p) \/ Reuse(p) \/ Join(p) \/ Run(p) \/ Complete(p)
         \/ Sleep(p) \/ WakeSpuriously(p)
  PROVE  Tree'
<1>1. /\ threads[p] \in Thread /\ p \in Seq(Names) /\ p # <<>> /\ Name(p) \in Names
      /\ threads[p].at = "returned" <=> threads[p].result # None
      /\ UNCHANGED <<config, handles, exit>> /\ threads[p].at # "returned"
  BY AppendName DEF IInv, TypeOK, Name, Reject, Reuse, Join, Run, Complete, Sleep,
                    WakeSpuriously, At
<1>2. threads[p].result = None /\ Ok # None
  BY <1>1, ResultKinds
\* The end of a thread.
<1>3. ASSUME NEW r \in Results, Becomes(p, Returned(r)),
             r = Ok => \A q \in DOMAIN threads :
                         Extends(q, p) /\ q # p => threads[q].at = "returned"
      PROVE  Tree'
  <2>1. Returned(r).at = "returned" /\ Returned(r).result = r
    BY Records
  <2> QED
    BY <1>1, <1>3, <2>1, TreeBecomes
\* Any other step gives the thread a place and fewer dependencies to join.
<1>4. ASSUME NEW r \in Thread, threads' = [threads EXCEPT ![p] = r],
             r.result = threads[p].result, r.left \subseteq threads[p].left,
             r.at \in {"looking", "asleep"} => threads[p].at \in {"looking", "asleep"},
             r.at \in {"joining", "running"} => Owns(p),
             \A d \in threads[p].left \ r.left : threads[Append(p, d)].result = Ok
      PROVE  Tree'
  <2>1. Becomes(p, r)
    BY <1>4, ExceptBecomes DEF IInv
  <2> QED
    BY <1>1, <1>2, <1>4, <2>1, TreeBecomes
<1>5. CASE Reject(p)
  <2> DEFINE r == IF OnStack(p) THEN Cycle(Name(p)) ELSE Unknown(Name(p))
  <2>1. r \in Results /\ r # Ok
    BY <1>1, ResultKinds
  <2> HIDE DEF r
  <2>2. threads' = [threads EXCEPT ![p] = Returned(r)]
    BY <1>5 DEF Reject, r
  <2>3. Becomes(p, Returned(r))
    BY <2>1, <2>2, Records, ExceptBecomes DEF IInv
  <2> QED
    BY <1>3, <2>1, <2>3
<1>6. CASE Reuse(p)
  <2> DEFINE r == task[Name(p)]
  <2>1. r \in Results
    BY <1>6, ResultKinds DEF IInv, TypeOK, Reuse, Done, Rejected
  <2>2. threads' = [threads EXCEPT ![p] = Returned(r)]
    BY <1>6 DEF Reuse
  <2> HIDE DEF r
  <2>3. Becomes(p, Returned(r))
    BY <2>1, <2>2, Records, ExceptBecomes DEF IInv
  <2>4. threads[p].at = "looking"
    BY <1>6 DEF Reuse, At
  <2> QED
    BY <1>3, <2>1, <2>3, <2>4 DEF Tree, Childless
<1>7. ASSUME NEW where \in {"looking", "asleep", "running"},
             threads' = [threads EXCEPT ![p].at = where],
             where \in {"looking", "asleep"} => threads[p].at \in {"looking", "asleep"},
             where = "running" => Owns(p)
      PROVE  Tree'
  <2> DEFINE r == [threads[p] EXCEPT !.at = where]
  <2>1. /\ r \in Thread /\ r.at = where /\ r.result = threads[p].result
        /\ r.left = threads[p].left
    BY <1>1 DEF Thread
  <2>2. threads' = [threads EXCEPT ![p] = r]
    BY <1>7 DEF IInv, TypeOK
  <2> HIDE DEF r
  <2> QED
    BY <1>4, <1>7, <2>1, <2>2
<1>8. CASE Sleep(p)
  BY <1>7, <1>8 DEF Sleep, At
<1>9. CASE WakeSpuriously(p)
  BY <1>7, <1>9 DEF WakeSpuriously, At
<1>10. CASE Run(p)
  BY <1>7, <1>10 DEF Run, At, Owns
<1>11. CASE Join(p)
  <2>1. threads[p].at = "joining" /\ Owns(p)
    BY <1>11 DEF Join, At, Owns
  <2>2. PICK d \in NextHandle(threads[p].left) :
          /\ threads[Append(p, d)].at = "returned"
          /\ IF threads[Append(p, d)].result = Ok
             THEN /\ threads' = [threads EXCEPT ![p].left = @ \ {d}]
                  /\ UNCHANGED task
             ELSE Finish(p, threads[Append(p, d)].result)
    BY <1>11 DEF Join
  <2>3. d \in threads[p].left
    BY DEF NextHandle
  <2>4. CASE threads[Append(p, d)].result = Ok
    <3> DEFINE r == [threads[p] EXCEPT !.left = @ \ {d}]
    <3>1. /\ r \in Thread /\ r.at = "joining" /\ r.result = threads[p].result
          /\ r.left = threads[p].left \ {d}
      BY <1>1, <2>1 DEF Thread
    <3>2. threads' = [threads EXCEPT ![p] = r]
      BY <2>2, <2>4 DEF IInv, TypeOK
    <3> HIDE DEF r
    <3> QED
      BY <1>4, <2>1, <2>4, <3>1, <3>2
  <2>5. CASE threads[Append(p, d)].result # Ok
    <3>1. Append(p, d) \in DOMAIN threads
      BY <2>1, <2>3 DEF IInv, Spawning
    <3>2. threads[Append(p, d)].result \in Results
      BY <2>2, <3>1 DEF IInv, TypeOK, Thread
    <3>3. Becomes(p, Returned(threads[Append(p, d)].result))
      BY <2>2, <2>5, <3>2, FinishBecomes DEF IInv
    <3> QED
      BY <1>3, <2>5, <3>2, <3>3
  <2> QED
    BY <2>4, <2>5
<1>12. CASE Complete(p)
  <2>1. threads[p].at = "running" /\ Owns(p) /\ threads[p].left = {}
    BY <1>12 DEF Complete, At, Owns, IInv, JoinedOk
  <2>2. Ok \in Results /\ Failed(Name(p)) \in Results
    BY <1>1, ResultKinds
  <2>3. PICK r \in Results : Finish(p, r)
    BY <1>12, <2>2 DEF Complete
  <2>4. Becomes(p, Returned(r))
    BY <2>3, FinishBecomes DEF IInv
  <2>5. ASSUME NEW q \in DOMAIN threads, Extends(q, p), q # p
        PROVE  threads[q].at = "returned"
    <3> DEFINE d == q[Len(p) + 1]
    <3>1. q \in Seq(Names)
      BY DEF IInv, TypeOK
    <3>2. d \in Names /\ Extends(q, Append(p, d))
      BY <1>1, <2>5, <3>1, ExtendsFacts
    <3> HIDE DEF d
    <3>3. Append(p, d) \in Seq(Names) /\ Append(p, d) # <<>>
      BY <1>1, <3>2, AppendName
    <3>4. Append(p, d) \in DOMAIN threads
      BY <3>2, <3>3 DEF Tree, Closed
    <3>5. threads[Append(p, d)].result = Ok
      BY <2>1, <3>2, <3>4 DEF Tree, ChildrenOk
    <3> QED
      BY <3>2, <3>4, <3>5 DEF Tree, Below
  <2> QED
    BY <1>3, <2>4, <2>5
<1> QED
  BY <1>5, <1>6, <1>8, <1>9, <1>10, <1>11, <1>12

LEMMA TreeMain ==
  ASSUME IInv, Tree, JoinRequested \/ Exit
  PROVE  Tree'
<1>1. UNCHANGED <<config, threads>>
  BY DEF JoinRequested, Exit
<1>2. MainOk'
  <2>1. CASE JoinRequested
    <3>1. PICK n \in NextHandle(handles) :
            /\ threads[<<n>>].at = "returned"
            /\ IF threads[<<n>>].result = Ok
               THEN handles' = handles \ {n} /\ UNCHANGED exit
               ELSE exit' = threads[<<n>>].result /\ UNCHANGED handles
      BY <2>1 DEF JoinRequested
    <3>2. <<n>> \in DOMAIN threads /\ n \in handles /\ exit = None
      BY <2>1 DEF IInv, Requested, NextHandle, JoinRequested
    <3> QED
      BY <1>1, <3>1, <3>2, ResultKinds DEF Tree, MainOk, config
  <2>2. CASE Exit
    BY <1>1, <2>2 DEF Exit, Awaited, Tree, MainOk, config
  <2> QED
    BY <2>1, <2>2
<1> QED
  BY <1>1, <1>2 DEF Tree, Closed, Rooted, Childless, Below, ChildrenOk, Owns, config

LEMMA TreeStarts == ASSUME Init PROVE Tree
<1> DEFINE D == {<<n>> : n \in requested}
<1>1. /\ handles = requested /\ exit = None /\ requested \subseteq Names
      /\ threads = [p \in D |-> Spawned]
  BY NamesAssumption DEF Init
<1>2. \A q \in D : q \in Seq(Names) /\ Len(q) = 1 /\ q[1] \in requested
  <2>1. \A n \in Names : <<n>> \in Seq(Names) /\ Len(<<n>>) = 1 /\ <<n>>[1] = n
    OBVIOUS
  <2> QED
    BY <1>1, <2>1
<1>3. DOMAIN threads = D /\ \A p \in D : threads[p] = Spawned
  BY <1>1
<1> HIDE DEF D
<1>4. \A q \in D : \A p \in Seq(Names) : p # <<>> /\ Extends(q, p) => q = p
  <2> SUFFICES ASSUME NEW q \in D, NEW p \in Seq(Names), p # <<>>, Extends(q, p)
               PROVE  q = p
    OBVIOUS
  <2>1. Len(p) = 1
    BY <1>2 DEF Extends
  <2> QED
    BY <1>2, <2>1, ExtendsFacts
<1>5. Spawned.at = "looking" /\ Spawned.result = None /\ Ok # None
  BY Records, ResultKinds
<1>6. \A p \in D : p # <<>>
  BY <1>2
<1> QED
  BY <1>1, <1>2, <1>3, <1>4, <1>5, <1>6
     DEF Tree, Closed, Rooted, Childless, Below, ChildrenOk, MainOk, Owns

\* The tree of threads, in every reachable state.
THEOREM TreeHolds == Spec => []Tree
<1>1. Init => Tree
  BY TreeStarts
<1>2. IInv /\ Tree /\ [Next]_vars => Tree'
  <2> SUFFICES ASSUME IInv, Tree, [Next]_vars PROVE Tree'
    OBVIOUS
  <2>1. CASE Next
    BY <2>1, TreeSteps, TreeClaims, TreeMain DEF Next, Progress
  <2>2. CASE UNCHANGED vars
    BY <2>2 DEF vars, config, Tree, Closed, Rooted, Childless, Below, ChildrenOk, MainOk, Owns
  <2> QED
    BY <2>1, <2>2
<1> QED
  BY <1>1, <1>2, Inductive, PTL DEF Spec

\* When run_tasks returns Ok nothing that was started still runs: every thread,
\* of a dependency of a dependency too, has returned.
THEOREM SuccessIsQuiet == Spec => []NothingLeftRunning
<1>1. IInv /\ Tree => NothingLeftRunning
  <2> SUFFICES ASSUME IInv, Tree, exit = Ok, NEW q \in DOMAIN threads
               PROVE  threads[q].at = "returned"
    BY DEF NothingLeftRunning
  <2> DEFINE root == <<q[1]>>
  <2>1. q \in Seq(Names) /\ q # <<>>
    BY DEF IInv, TypeOK
  <2>2. root \in DOMAIN threads /\ threads[root].result = Ok
    BY DEF Tree, Rooted, MainOk
  <2>3. Extends(q, root)
    BY <2>1 DEF Extends
  <2> HIDE DEF root
  <2> QED
    BY <2>2, <2>3 DEF Tree, Below
<1> QED
  BY <1>1, Inductive, TreeHolds, PTL

---------------------------------------------------------------------------
(* The verdicts.  Induction over the naturals is the minimality of a least *)
(* counterexample.                                                         *)

LEMMA LeastNatural ==
  ASSUME NEW S \in SUBSET Nat, S # {}
  PROVE  \E m \in S : \A k \in S : m <= k
<1>1. PICK m \in S : \A k \in S : <<k, m>> \notin OpToRel(<, Nat)
  BY WFMin, NatLessThanWellFounded, Zenon
<1>2. \A k \in S : ~(k < m)
  BY <1>1, Zenon DEF OpToRel
<1> QED
  BY <1>2

\* f lists the first n iterations of g on x0.
Iterates(f, n, g, x0, X) ==
  f \in [0 .. n -> X] /\ f[0] = x0 /\ \A k \in 1 .. n : f[k] = g[f[k - 1]]

\* A function can be iterated any number of times.
LEMMA Iterated ==
  ASSUME NEW X, NEW g \in [X -> X], NEW x0 \in X, NEW n \in Nat
  PROVE  \E f : Iterates(f, n, g, x0, X)
<1> DEFINE Sol(i, f) == /\ f \in [0 .. i -> X] /\ f[0] = x0
                        /\ \A k \in 1 .. i : f[k] = g[f[k - 1]]
           Bad == {i \in Nat : ~ \E f : Sol(i, f)}
<1>1. Bad = {}
  <2> SUFFICES ASSUME Bad # {} PROVE FALSE
    OBVIOUS
  <2>1. PICK m \in Bad : \A k \in Bad : m <= k
    <3>1. Bad \in SUBSET Nat
      OBVIOUS
    <3> HIDE DEF Bad
    <3> QED
      BY <3>1, LeastNatural
  <2>2. m # 0
    <3>1. Sol(0, [k \in 0 .. 0 |-> x0])
      OBVIOUS
    <3>2. 0 \notin Bad
      BY <3>1
    <3> QED
      BY <2>1, <3>2
  <2>3. m - 1 \in Nat /\ m - 1 \notin Bad
    <3>1. m \in Nat
      BY <2>1
    <3>2. m - 1 \in Nat /\ ~(m <= m - 1)
      BY <2>2, <3>1
    <3> HIDE DEF Bad
    <3> QED
      BY <2>1, <3>2
  <2>4. PICK f : Sol(m - 1, f)
    BY <2>3
  <2> DEFINE h == [k \in 0 .. m |-> IF k = m THEN g[f[m - 1]] ELSE f[k]]
  <2>5. Sol(m, h)
    <3>1. m \in Nat /\ f[m - 1] \in X /\ g[f[m - 1]] \in X
      BY <2>2, <2>4
    <3>2. \A k \in 0 .. m : h[k] \in X
      BY <2>4, <3>1
    <3>3. h \in [0 .. m -> X] /\ h[0] = x0
      BY <2>2, <2>4, <3>2
    <3>4. \A k \in 1 .. m : h[k] = g[h[k - 1]]
      BY <2>2, <2>4, <3>1
    <3> QED
      BY <3>3, <3>4
  <2> QED
    BY <2>1, <2>5
<1> QED
  BY <1>1 DEF Iterates

Answers == [Names -> Results \cup {None}]

Failing(v, t) == {d \in deps[t] : v[d] # Ok}

LEMMA JudgedAt ==
  ASSUME NEW v
  PROVE  /\ \A n \in Names \ Tasks : Judged(v)[n] = Unknown(n)
         /\ \A t \in Tasks : Failing(v, t) = {} =>
              Judged(v)[t] = IF t \in succeeds THEN Ok ELSE Failed(t)
         /\ \A t \in Tasks : Failing(v, t) # {} =>
              Judged(v)[t] = v[CHOOSE d \in Failing(v, t) : \A e \in Failing(v, t) : d <= e]
<1> USE NamesAssumption
<1>1. \A n \in Names \ Tasks : Judged(v)[n] = Unknown(n)
  BY DEF Judged
<1>2. ASSUME NEW t \in Tasks
      PROVE  Judged(v)[t] =
               IF Failing(v, t) # {}
               THEN v[CHOOSE d \in Failing(v, t) : \A e \in Failing(v, t) : d <= e]
               ELSE IF t \in succeeds THEN Ok ELSE Failed(t)
  BY DEF Judged, Failing
<1> QED
  BY <1>1, <1>2

\* The first, by name, of the dependencies that have an error.
LEMMA FirstFailing ==
  ASSUME TypeOK, NEW v, NEW t \in Tasks, Failing(v, t) # {}
  PROVE  LET d == CHOOSE d \in Failing(v, t) : \A e \in Failing(v, t) : d <= e
         IN d \in Failing(v, t) /\ \A e \in Failing(v, t) : d <= e
<1>1. Failing(v, t) \in SUBSET Nat
  BY NamesAssumption DEF TypeOK, Failing
<1>2. \E d \in Failing(v, t) : \A e \in Failing(v, t) : d <= e
  BY <1>1, LeastNatural
<1> QED
  BY <1>2

LEMMA JudgedTypes ==
  ASSUME TypeOK, NEW v \in Answers
  PROVE  Judged(v) \in Answers
<1>1. \A n \in Names : Judged(v)[n] \in Results \cup {None}
  <2> TAKE n \in Names
  <2>1. CASE n \notin Tasks
    BY <2>1, JudgedAt, ResultKinds
  <2>2. CASE n \in Tasks /\ Failing(v, n) = {}
    BY <2>2, JudgedAt, ResultKinds
  <2>3. CASE n \in Tasks /\ Failing(v, n) # {}
    <3>1. PICK d \in Failing(v, n) : Judged(v)[n] = v[d]
      BY <2>3, JudgedAt, FirstFailing
    <3>2. d \in Names
      BY <2>3 DEF Failing, TypeOK
    <3> QED
      BY <3>1, <3>2 DEF Answers
  <2> QED
    BY <2>1, <2>2, <2>3
<1>2. Judged(v) = [n \in Names |-> Judged(v)[n]]
  BY DEF Judged
<1> QED
  BY <1>1, <1>2 DEF Answers

\* What a task answers depends on what its dependencies answer only.
LEMMA JudgedAgree ==
  ASSUME NEW v, NEW w, NEW t \in Tasks, \A d \in deps[t] : v[d] = w[d], TypeOK
  PROVE  Judged(v)[t] = Judged(w)[t]
<1>1. Failing(v, t) = Failing(w, t)
  BY DEF Failing
<1>2. CASE Failing(v, t) = {}
  BY <1>1, <1>2, JudgedAt
<1>3. CASE Failing(v, t) # {}
  <2> DEFINE d == CHOOSE d \in Failing(v, t) : \A e \in Failing(v, t) : d <= e
  <2>1. d \in deps[t]
    BY <1>3, FirstFailing DEF Failing
  <2>2. Judged(v)[t] = v[d] /\ Judged(w)[t] = w[d]
    BY <1>1, <1>3, JudgedAt
  <2> QED
    BY <2>1, <2>2
<1> QED
  BY <1>2, <1>3

Unjudged == [n \in Names |-> IF n \in Tasks THEN None ELSE Unknown(n)]

LEMMA Size == Cardinality(Tasks) \in Nat
BY NamesAssumption, FS_CardinalityType

\* The rounds of Verdicts exist and answer for every name.
LEMMA VerdictRounds ==
  ASSUME TypeOK
  PROVE  \E R \in [0 .. Cardinality(Tasks) + 1 -> Answers] :
           /\ R[0] = Unjudged
           /\ \A k \in 1 .. Cardinality(Tasks) + 1 : R[k] = Judged(R[k - 1])
           /\ Verdicts = R[Cardinality(Tasks) + 1]
<1> DEFINE n == Cardinality(Tasks) + 1
           Rounds(R) == R = [k \in 0 .. n |-> IF k = 0 THEN Unjudged ELSE Judged(R[k - 1])]
           round == CHOOSE R : Rounds(R)
           g == [v \in Answers |-> Judged(v)]
<1>1. n \in Nat /\ n >= 1
  BY Size
<1>2. Unjudged \in Answers
  BY ResultKinds DEF Unjudged, Answers
<1>3. g \in [Answers -> Answers] /\ \A v \in Answers : g[v] = Judged(v)
  BY JudgedTypes
<1>4. Verdicts = round[n]
  BY DEF Verdicts, Unjudged
<1> HIDE DEF n, g
<1>5. \E R : Rounds(R)
  <2>1. PICK f \in [0 .. n -> Answers] : f[0] = Unjudged /\ \A k \in 1 .. n : f[k] = g[f[k - 1]]
    <3>1. n \in Nat /\ Unjudged \in Answers /\ g \in [Answers -> Answers]
      BY <1>1, <1>2, <1>3
    <3>2. \E f : Iterates(f, n, g, Unjudged, Answers)
      BY ONLY <3>1, Iterated
    <3> QED
      BY <3>2 DEF Iterates
  <2>2. \A k \in 0 .. n : f[k] = IF k = 0 THEN Unjudged ELSE Judged(f[k - 1])
    <3> TAKE k \in 0 .. n
    <3>1. CASE k = 0
      BY <2>1, <3>1
    <3>2. CASE k # 0
      <4>1. k \in 1 .. n /\ k - 1 \in 0 .. n
        BY <1>1, <3>2
      <4>2. f[k - 1] \in Answers
        BY <4>1
      <4> QED
        BY <1>3, <2>1, <3>2, <4>1, <4>2
    <3> QED
      BY <3>1, <3>2
  <2>3. f = [k \in 0 .. n |-> f[k]]
    OBVIOUS
  <2> QED
    BY <2>2, <2>3
<1>6. Rounds(round)
  BY <1>5
<1> HIDE DEF round
<1>7. /\ round[0] = Unjudged
      /\ \A k \in 1 .. n : round[k] = Judged(round[k - 1])
      /\ round = [k \in 0 .. n |-> round[k]]
  <2>1. round = [k \in 0 .. n |-> IF k = 0 THEN Unjudged ELSE Judged(round[k - 1])]
    BY <1>6
  <2>2. \A k \in 0 .. n : round[k] = IF k = 0 THEN Unjudged ELSE Judged(round[k - 1])
    BY ONLY <2>1, Zenon
  <2>3. 0 \in 0 .. n /\ \A k \in 1 .. n : k \in 0 .. n /\ k # 0
    BY <1>1
  <2>4. round = [k \in 0 .. n |-> round[k]]
    BY ONLY <2>1, <2>2
  <2> QED
    BY <2>2, <2>3, <2>4
<1>8. \A k \in 0 .. n : round[k] \in Answers
  <2> DEFINE Bad == {k \in 0 .. n : round[k] \notin Answers}
  <2> SUFFICES ASSUME Bad # {} PROVE FALSE
    OBVIOUS
  <2>1. PICK k \in Bad : \A i \in Bad : k <= i
    <3>1. Bad \in SUBSET Nat
      BY <1>1
    <3> HIDE DEF Bad
    <3> QED
      BY <3>1, LeastNatural
  <2>2. k \in 1 .. n
    BY <1>1, <1>2, <1>7
  <2>3. k - 1 \in 0 .. n /\ ~(k <= k - 1)
    BY <1>1, <2>2
  <2>4. round[k - 1] \in Answers
    BY <2>1, <2>3
  <2> QED
    BY <1>7, <2>1, <2>2, <2>4, JudgedTypes
<1>9. round \in [0 .. n -> Answers]
  BY <1>7, <1>8
<1> QED
  BY <1>4, <1>7, <1>9 DEF n

\* A task is settled from a round on when no later round judges it otherwise.
\* Without cycles every round settles one more, so the last ones are the same.
LEMMA VerdictsFixed ==
  ASSUME TypeOK, Acyclic
  PROVE  Verdicts \in Answers /\ Judged(Verdicts) = Verdicts
<1> DEFINE n == Cardinality(Tasks)
<1>1. PICK R \in [0 .. n + 1 -> Answers] :
        /\ R[0] = Unjudged
        /\ \A k \in 1 .. n + 1 : R[k] = Judged(R[k - 1])
        /\ Verdicts = R[n + 1]
  BY VerdictRounds
<1> DEFINE Settled(k) == {t \in Tasks : \A j \in k .. n + 1 : R[j][t] = R[k][t]}
           Bad == {k \in 0 .. n : Settled(k) # Tasks /\ Cardinality(Settled(k)) < k}
<1>2. n \in Nat /\ IsFiniteSet(Tasks)
  BY Size, NamesAssumption
<1>3. \A S \in SUBSET Tasks : IsFiniteSet(S) /\ Cardinality(S) \in Nat
  BY <1>2, FS_Subset, FS_CardinalityType
<1> HIDE DEF n
<1>4. \A j \in 0 .. n + 1 : \A m \in Names \ Tasks : R[j][m] = Unknown(m)
  <2> SUFFICES ASSUME NEW j \in 0 .. n + 1, NEW m \in Names \ Tasks
               PROVE  R[j][m] = Unknown(m)
    OBVIOUS
  <2>1. CASE j = 0
    BY <1>1, <2>1 DEF Unjudged
  <2>2. CASE j # 0
    <3>1. j \in 1 .. n + 1
      BY <1>2, <2>2
    <3> QED
      BY <1>1, <3>1, JudgedAt
  <2> QED
    BY <2>1, <2>2
<1>5. ASSUME NEW k \in 1 .. n PROVE Settled(k - 1) \subseteq Settled(k)
  <2> SUFFICES ASSUME NEW t \in Settled(k - 1), NEW j \in k .. n + 1
               PROVE  R[j][t] = R[k][t]
    OBVIOUS
  <2>1. j \in k - 1 .. n + 1 /\ k \in k - 1 .. n + 1
    BY <1>2
  <2> QED
    BY <2>1
<1>6. ASSUME NEW k \in 1 .. n, NEW t \in Tasks, deps[t] \cap Tasks \subseteq Settled(k - 1)
      PROVE  t \in Settled(k)
  <2> SUFFICES ASSUME NEW j \in k .. n + 1
               PROVE  R[j][t] = R[k][t]
    OBVIOUS
  <2>1. /\ j \in 1 .. n + 1 /\ k \in 1 .. n + 1
        /\ j - 1 \in k - 1 .. n + 1 /\ j - 1 \in 0 .. n + 1 /\ k - 1 \in 0 .. n + 1
    BY <1>2
  <2>2. \A d \in deps[t] : R[j - 1][d] = R[k - 1][d]
    <3> TAKE d \in deps[t]
    <3>1. CASE d \in Tasks
      BY <1>6, <2>1, <3>1
    <3>2. CASE d \notin Tasks
      <4>1. d \in Names \ Tasks
        BY <3>2 DEF TypeOK
      <4> HIDE DEF Settled
      <4>2. R[j - 1][d] = Unknown(d)
        BY <1>4, <2>1, <4>1
      <4>3. R[k - 1][d] = Unknown(d)
        BY <1>4, <2>1, <4>1
      <4> QED
        BY <4>2, <4>3
    <3> QED
      BY <3>1, <3>2
  <2>3. Judged(R[j - 1])[t] = Judged(R[k - 1])[t]
    BY <2>2, JudgedAgree
  <2> QED
    BY <1>1, <2>1, <2>3
<1>7. \A k \in 0 .. n : Settled(k) \in SUBSET Tasks
  OBVIOUS
<1>8. Settled(n) = Tasks => \A t \in Tasks : R[n + 1][t] = R[n][t]
  <2>1. n + 1 \in n .. n + 1
    BY <1>2
  <2> QED
    BY <2>1
<1> HIDE DEF Settled
<1>9. Bad = {}
  <2> SUFFICES ASSUME Bad # {} PROVE FALSE
    OBVIOUS
  <2>1. PICK k \in Bad : \A i \in Bad : k <= i
    <3>1. Bad \in SUBSET Nat
      BY <1>2
    <3> HIDE DEF Bad
    <3> QED
      BY <3>1, LeastNatural
  <2>2. k \in 0 .. n /\ Settled(k) # Tasks /\ Cardinality(Settled(k)) < k
    BY <2>1
  <2>3. k \in 1 .. n /\ k - 1 \in 0 .. n /\ ~(k <= k - 1)
    <3>1. Cardinality(Settled(k)) \in Nat
      BY <1>3, <1>7, <2>2
    <3> QED
      BY <1>2, <2>2, <3>1
  <2> DEFINE before == Settled(k - 1)
  <2>4. before \subseteq Settled(k) /\ Settled(k) \in SUBSET Tasks /\ before \in SUBSET Tasks
    BY <1>5, <1>7, <2>2, <2>3
  <2>5. before # Tasks
    BY <2>2, <2>4
  <2>6. Cardinality(before) >= k - 1
    <3>1. k - 1 \notin Bad
      BY <2>1, <2>3
    <3>2. ~(Cardinality(before) < k - 1)
      BY <2>3, <2>5, <3>1
    <3> HIDE DEF before
    <3>3. Cardinality(before) \in Nat
      BY <1>3, <2>4
    <3> QED
      BY <1>2, <2>3, <3>2, <3>3
  <2>7. PICK t \in Tasks \ before : deps[t] \cap (Tasks \ before) = {}
    BY <2>4, <2>5 DEF Acyclic
  <2>8. t \in Settled(k)
    <3>1. deps[t] \cap Tasks \subseteq before
      BY <2>7
    <3> QED
      BY <1>6, <2>3, <3>1
  <2> HIDE DEF before
  <2>9. Cardinality(before \cup {t}) = Cardinality(before) + 1
    BY <1>3, <2>4, <2>7, FS_AddElement
  <2>10. Cardinality(before \cup {t}) <= Cardinality(Settled(k))
    <3>1. before \cup {t} \in SUBSET Settled(k) /\ IsFiniteSet(Settled(k))
      BY <1>3, <2>4, <2>8
    <3> QED
      BY <3>1, FS_Subset
  <2>11. Cardinality(before) \in Nat /\ Cardinality(Settled(k)) \in Nat
    BY <1>3, <2>4
  <2> QED
    BY <1>2, <2>2, <2>3, <2>6, <2>9, <2>10, <2>11
<1>10. Settled(n) = Tasks
  <2>1. n \in 0 .. n /\ n \notin Bad
    BY <1>2, <1>9
  <2>2. Settled(n) = Tasks \/ ~(Cardinality(Settled(n)) < n)
    BY <2>1
  <2>3. /\ Settled(n) \in SUBSET Tasks /\ Cardinality(Settled(n)) \in Nat
        /\ Cardinality(Settled(n)) <= n
        /\ Cardinality(Settled(n)) = n => Settled(n) = Tasks
    BY <1>2, <1>3, <1>7, <2>1, FS_Subset DEF n
  <2> QED
    BY <1>2, <2>2, <2>3
<1>11. n \in 0 .. n + 1 /\ n + 1 \in 0 .. n + 1 /\ n + 1 \in 1 .. n + 1 /\ (n + 1) - 1 = n
  BY <1>2
<1>12. R[n] \in Answers /\ R[n + 1] \in Answers
  BY <1>11
<1>13. \A m \in Names : R[n + 1][m] = R[n][m]
  <2> TAKE m \in Names
  <2>1. CASE m \in Tasks
    BY <1>8, <1>10, <2>1
  <2>2. CASE m \notin Tasks
    <3>1. R[n + 1][m] = Unknown(m)
      BY <1>4, <1>11, <2>2
    <3>2. R[n][m] = Unknown(m)
      BY <1>4, <1>11, <2>2
    <3> QED
      BY <3>1, <3>2
  <2> QED
    BY <2>1, <2>2
<1>14. R[n + 1] = R[n]
  BY <1>12, <1>13 DEF Answers
<1>15. R[n + 1] = Judged(R[n])
  BY <1>1, <1>11
<1> QED
  BY <1>1, <1>12, <1>14, <1>15

---------------------------------------------------------------------------
(* Every thread that has an answer has the one of the verdicts, whichever  *)
(* order brought it: v is any assignment of answers that judges itself.    *)

Fixed(v) ==
  /\ \A n \in Names \ Tasks : v[n] = Unknown(n)
  /\ \A t \in Tasks : (\A d \in deps[t] : v[d] = Ok) =>
       v[t] = IF t \in succeeds THEN Ok ELSE Failed(t)
  /\ \A t \in Tasks : \A d \in deps[t] :
       v[d] # Ok /\ (\A e \in deps[t] : v[e] # Ok => d <= e) => v[t] = v[d]

\* A path follows the dependencies.
Paths ==
  \A p \in DOMAIN threads : \A i \in 1 .. Len(p) - 1 :
    p[i] \in Tasks /\ p[i + 1] \in deps[p[i]]

TasksAgree(v) == \A t \in Tasks : Done(t) => task[t] = v[t]

ThreadsAgree(v) ==
  \A p \in DOMAIN threads : threads[p].result # None => threads[p].result = v[Name(p)]

\* What the process reports: success of all, or the first failure by name.
Reported(v) ==
  \/ exit = None
  \/ exit = Ok /\ \A n \in requested : v[n] = Ok
  \/ \E n \in requested :
       v[n] # Ok /\ exit = v[n] /\ \A m \in requested : v[m] # Ok => n <= m

Agrees(v) == TasksAgree(v) /\ ThreadsAgree(v) /\ Reported(v)

Consistent == \A v : Acyclic /\ Fixed(v) => Agrees(v)

LEMMA VerdictsJudge ==
  ASSUME TypeOK, Acyclic
  PROVE  Fixed(Verdicts)
<1> DEFINE v == Verdicts
<1>1. Judged(v) = v
  BY VerdictsFixed
<1> HIDE DEF v
<1>2. \A n \in Names \ Tasks : v[n] = Unknown(n)
  BY <1>1, JudgedAt
<1>3. ASSUME NEW t \in Tasks, \A d \in deps[t] : v[d] = Ok
      PROVE  v[t] = IF t \in succeeds THEN Ok ELSE Failed(t)
  <2>1. Failing(v, t) = {}
    BY <1>3 DEF Failing
  <2> QED
    BY <1>1, <2>1, JudgedAt
<1>4. ASSUME NEW t \in Tasks, NEW d \in deps[t], v[d] # Ok,
             \A e \in deps[t] : v[e] # Ok => d <= e
      PROVE  v[t] = v[d]
  <2> DEFINE first == CHOOSE f \in Failing(v, t) : \A e \in Failing(v, t) : f <= e
  <2>1. d \in Failing(v, t) /\ \A e \in Failing(v, t) : d <= e
    BY <1>4 DEF Failing
  <2>2. first \in Failing(v, t) /\ \A e \in Failing(v, t) : first <= e
    BY <2>1, FirstFailing
  <2>3. Judged(v)[t] = v[first]
    BY <2>1, JudgedAt
  <2> HIDE DEF first
  <2>4. d <= first /\ first <= d /\ d \in Nat /\ first \in Nat
    BY <2>1, <2>2, NamesAssumption DEF Failing, TypeOK
  <2>5. d = first
    BY <2>4
  <2> QED
    BY <1>1, <2>3, <2>5
<1> QED
  BY <1>2, <1>3, <1>4 DEF Fixed, v

\* In an acyclic graph no path meets itself.
LEMMA StraightPaths ==
  ASSUME IInv, Paths, Acyclic, NEW p \in DOMAIN threads
  PROVE  ~OnStack(p)
<1> SUFFICES ASSUME OnStack(p) PROVE FALSE
  OBVIOUS
<1>1. p \in Seq(Names) /\ Len(p) \in Nat
  BY DEF IInv, TypeOK
<1>2. PICK i \in 1 .. Len(p) - 1 : p[i] = p[Len(p)]
  BY DEF OnStack, Name
<1> DEFINE S == {p[k] : k \in i .. Len(p) - 1}
<1>3. S \in SUBSET Tasks /\ S # {}
  <2>1. \A k \in i .. Len(p) - 1 : k \in 1 .. Len(p) - 1
    BY <1>1
  <2>2. i \in i .. Len(p) - 1
    BY <1>1
  <2> QED
    BY <2>1, <2>2 DEF Paths
<1>4. PICK t \in S : deps[t] \cap S = {}
  BY <1>3 DEF Acyclic
<1>5. PICK k \in i .. Len(p) - 1 : t = p[k]
  OBVIOUS
<1>6. k \in 1 .. Len(p) - 1 /\ (k + 1 \in i .. Len(p) - 1 \/ k + 1 = Len(p))
        /\ i \in i .. Len(p) - 1
  BY <1>1
<1>7. p[k + 1] \in deps[t]
  BY <1>5, <1>6 DEF Paths
<1>8. p[k + 1] \in S
  BY <1>2, <1>6
<1> QED
  BY <1>4, <1>7, <1>8

LEMMA SameGraph ==
  ASSUME UNCHANGED config
  PROVE  (Acyclic' <=> Acyclic) /\ \A v : Fixed(v)' <=> Fixed(v)
BY DEF config, Acyclic, Fixed

LEMMA ConfigFixed == ASSUME [Next]_vars PROVE UNCHANGED config
BY DEF Next, Progress, vars, config, Reject, Reuse, Sleep, WakeSpuriously, Claim, Join, Run,
       Complete, JoinRequested, Exit

\* A step that spawns nothing, and gives p the record r.
LEMMA AgreesBecomes ==
  ASSUME IInv, NEW v, Agrees(v), NEW p \in DOMAIN threads, NEW r, Becomes(p, r),
         r.result # None => r.result = v[Name(p)], TasksAgree(v)',
         UNCHANGED <<config, exit>>
  PROVE  Agrees(v)'
<1>1. ThreadsAgree(v)'
  <2> SUFFICES ASSUME NEW q \in DOMAIN threads, threads'[q].result # None
               PROVE  threads'[q].result = v[Name(q)]
    BY OthersOwn DEF ThreadsAgree, Name
  <2>1. CASE q = p
    BY <2>1, OthersOwn
  <2>2. CASE q # p
    BY <2>2, OthersOwn DEF Agrees, ThreadsAgree
  <2> QED
    BY <2>1, <2>2
<1>2. Reported(v)'
  BY DEF Agrees, Reported, config
<1> QED
  BY <1>1, <1>2 DEF Agrees

\* The end of a task with the answer of the verdicts.
LEMMA AgreesEnding ==
  ASSUME IInv, NEW v, Agrees(v), NEW p \in DOMAIN threads, NEW r \in Results,
         Owns(p), Finish(p, r), r = v[Name(p)], UNCHANGED <<config, exit>>
  PROVE  Agrees(v)'
<1>1. Becomes(p, Returned(r)) /\ task' = [task EXCEPT ![Name(p)] = r]
  BY FinishBecomes DEF IInv
<1>2. TasksAgree(v)'
  <2>1. Name(p) \in Tasks /\ task \in [Tasks -> Results \cup {None, InProgress}]
    BY DEF IInv, TypeOK, Owned
  <2>2. task'[Name(p)] = v[Name(p)] /\ \A t \in Tasks : t # Name(p) => task'[t] = task[t]
    BY <1>1, <2>1
  <2> QED
    BY <2>2 DEF Agrees, TasksAgree, Done
<1> QED
  BY <1>1, <1>2, Records, AgreesBecomes

\* A dependency that was joined, or failed to be, has the verdict's answer.
LEMMA OwnersAgree ==
  ASSUME IInv, NEW v, Agrees(v), NEW p \in DOMAIN threads, Owns(p)
  PROVE  /\ Name(p) \in Tasks /\ deps[Name(p)] \subseteq Names
         /\ threads[p].left \subseteq deps[Name(p)]
         /\ \A d \in deps[Name(p)] \ threads[p].left : v[d] = Ok
         /\ \A d \in threads[p].left :
              /\ Append(p, d) \in DOMAIN threads
              /\ threads[Append(p, d)].result # None => threads[Append(p, d)].result = v[d]
<1>1. /\ Name(p) \in Tasks /\ threads[p].left \subseteq deps[Name(p)]
      /\ \A d \in deps[Name(p)] \ threads[p].left : d \in Tasks /\ task[d] = Ok
  BY DEF IInv, Owned, JoinedOk
<1>2. p \in Seq(Names) /\ p # <<>> /\ deps[Name(p)] \subseteq Names
  BY <1>1 DEF IInv, TypeOK
<1>3. \A d \in deps[Name(p)] \ threads[p].left : v[d] = Ok
  BY <1>1, ResultKinds DEF Agrees, TasksAgree, Done
<1>4. ASSUME NEW d \in threads[p].left
      PROVE  /\ Append(p, d) \in DOMAIN threads
             /\ threads[Append(p, d)].result # None => threads[Append(p, d)].result = v[d]
  <2>1. Append(p, d) \in DOMAIN threads
    BY DEF IInv, Spawning
  <2>2. Name(Append(p, d)) = d
    BY <1>1, <1>2, AppendName
  <2> QED
    BY <2>1, <2>2 DEF Agrees, ThreadsAgree
<1> QED
  BY <1>1, <1>2, <1>3, <1>4

LEMMA ClaimAgrees ==
  ASSUME IInv, NEW v, Agrees(v), NEW p \in DOMAIN threads, Claim(p)
  PROVE  Agrees(v)'
<1> DEFINE n == Name(p)
           spawned == {Append(p, d) : d \in deps[n]}
           D == DOMAIN threads \cup spawned
<1>1. /\ task' = [task EXCEPT ![n] = InProgress] /\ n \in Tasks
      /\ task \in [Tasks -> Results \cup {None, InProgress}]
      /\ threads' = [q \in D |-> IF q = p THEN Joining(deps[n])
                                 ELSE IF q \in spawned THEN Spawned ELSE threads[q]]
      /\ UNCHANGED <<config, exit>> /\ deps[n] \subseteq Names
  BY DEF IInv, TypeOK, Claim, Rejected
<1> HIDE DEF n
<1>2. /\ DOMAIN threads' = D
      /\ \A q \in D : threads'[q] = Joining(deps[n]) \/ threads'[q] = Spawned
                        \/ (q \in DOMAIN threads /\ threads'[q] = threads[q])
  BY <1>1
<1> HIDE DEF D, spawned
<1>3. ThreadsAgree(v)'
  <2>1. Joining(deps[n]).result = None /\ Spawned.result = None
    BY <1>1, Records
  <2> SUFFICES ASSUME NEW q \in D, threads'[q].result # None
               PROVE  threads'[q].result = v[Name(q)]
    BY <1>2 DEF ThreadsAgree, Name
  <2>2. q \in DOMAIN threads /\ threads'[q] = threads[q]
    BY <1>2, <2>1
  <2> QED
    BY <2>2 DEF Agrees, ThreadsAgree
<1>4. TasksAgree(v)'
  <2>1. task'[n] = InProgress /\ \A t \in Tasks : t # n => task'[t] = task[t]
    BY <1>1
  <2> QED
    BY <2>1 DEF Agrees, TasksAgree, Done
<1>5. Reported(v)'
  BY <1>1 DEF Agrees, Reported, config
<1> QED
  BY <1>3, <1>4, <1>5 DEF Agrees

LEMMA ThreadsStayAgreed ==
  ASSUME IInv, Paths, Acyclic, NEW v, Fixed(v), Agrees(v), NEW p \in DOMAIN threads,
         \/ Reject(p) \/ Reuse(p) \/ Join(p) \/ Run(p) \/ Complete(p)
         \/ Sleep(p) \/ WakeSpuriously(p)
  PROVE  Agrees(v)'
<1>1. /\ threads[p] \in Thread /\ p \in Seq(Names) /\ p # <<>> /\ Name(p) \in Names
      /\ threads[p].at = "returned" <=> threads[p].result # None
      /\ UNCHANGED <<config, exit>> /\ threads[p].at # "returned"
  BY AppendName DEF IInv, TypeOK, Name, Reject, Reuse, Join, Run, Complete, Sleep,
                    WakeSpuriously, At
<1>2. threads[p].result = None /\ Ok # None
  BY <1>1, ResultKinds
<1>3. UNCHANGED task => TasksAgree(v)'
  BY DEF Agrees, TasksAgree, Done
\* The thread gets another place, or fewer dependencies to join.
<1>4. ASSUME NEW r \in Thread, threads' = [threads EXCEPT ![p] = r],
             r.result = threads[p].result, UNCHANGED task
      PROVE  Agrees(v)'
  <2>1. Becomes(p, r)
    BY <1>4, ExceptBecomes DEF IInv
  <2> QED
    BY <1>1, <1>2, <1>3, <1>4, <2>1, AgreesBecomes
\* The thread returns without having owned its task.
<1>5. ASSUME NEW r \in Results, threads' = [threads EXCEPT ![p] = Returned(r)],
             r = v[Name(p)], UNCHANGED task
      PROVE  Agrees(v)'
  <2>1. Returned(r) \in Thread /\ Returned(r).result = r
    BY Records
  <2>2. Becomes(p, Returned(r))
    BY <1>5, <2>1, ExceptBecomes DEF IInv
  <2> QED
    BY <1>1, <1>3, <1>5, <2>1, <2>2, AgreesBecomes
<1>6. CASE Reject(p)
  <2>1. ~OnStack(p)
    BY StraightPaths
  <2>2. Name(p) \notin Tasks /\ threads' = [threads EXCEPT ![p] = Returned(Unknown(Name(p)))]
          /\ UNCHANGED task
    BY <1>6, <2>1 DEF Reject, Rejected
  <2>3. Unknown(Name(p)) \in Results /\ Unknown(Name(p)) = v[Name(p)]
    BY <1>1, <2>2, ResultKinds DEF Fixed
  <2> QED
    BY <1>5, <2>2, <2>3
<1>7. CASE Reuse(p)
  <2>1. /\ Name(p) \in Tasks /\ Done(Name(p))
        /\ threads' = [threads EXCEPT ![p] = Returned(task[Name(p)])] /\ UNCHANGED task
    BY <1>7 DEF Reuse, Rejected
  <2>2. task[Name(p)] \in Results /\ task[Name(p)] = v[Name(p)]
    BY <2>1 DEF IInv, TypeOK, Agrees, TasksAgree, Done
  <2> QED
    BY <1>5, <2>1, <2>2
<1>8. ASSUME NEW where \in {"looking", "asleep", "running"},
             threads' = [threads EXCEPT ![p].at = where], UNCHANGED task
      PROVE  Agrees(v)'
  <2> DEFINE r == [threads[p] EXCEPT !.at = where]
  <2>1. r \in Thread /\ r.result = threads[p].result
    BY <1>1 DEF Thread
  <2>2. threads' = [threads EXCEPT ![p] = r]
    BY <1>8 DEF IInv, TypeOK
  <2> HIDE DEF r
  <2> QED
    BY <1>4, <1>8, <2>1, <2>2
<1>9. CASE Sleep(p)
  BY <1>8, <1>9 DEF Sleep
<1>10. CASE WakeSpuriously(p)
  BY <1>8, <1>10 DEF WakeSpuriously
<1>11. CASE Run(p)
  BY <1>8, <1>11 DEF Run
<1>12. CASE Join(p)
  <2>1. Owns(p)
    BY <1>12 DEF Join, At, Owns
  <2>2. PICK d \in NextHandle(threads[p].left) :
          /\ threads[Append(p, d)].at = "returned"
          /\ IF threads[Append(p, d)].result = Ok
             THEN /\ threads' = [threads EXCEPT ![p].left = @ \ {d}]
                  /\ UNCHANGED task
             ELSE Finish(p, threads[Append(p, d)].result)
    BY <1>12 DEF Join
  <2>3. d \in threads[p].left /\ \A e \in threads[p].left : d <= e
    BY DEF NextHandle
  <2>4. CASE threads[Append(p, d)].result = Ok
    <3> DEFINE r == [threads[p] EXCEPT !.left = @ \ {d}]
    <3>1. r \in Thread /\ r.result = threads[p].result
      BY <1>1 DEF Thread
    <3>2. threads' = [threads EXCEPT ![p] = r]
      BY <2>2, <2>4 DEF IInv, TypeOK
    <3> HIDE DEF r
    <3> QED
      BY <1>4, <2>2, <2>4, <3>1, <3>2
  <2>5. CASE threads[Append(p, d)].result # Ok
    <3> DEFINE r == threads[Append(p, d)].result
    <3>1. Append(p, d) \in DOMAIN threads
      BY <2>1, <2>3 DEF IInv, Spawning
    <3>2. r \in Results /\ r # None
      BY <2>2, <3>1, ResultKinds DEF IInv, TypeOK, Thread
    <3>3. r = v[d] /\ v[d] # Ok
      BY <2>1, <2>3, <2>5, <3>2, OwnersAgree
    <3>4. d \in deps[Name(p)] /\ \A e \in deps[Name(p)] : v[e] # Ok => d <= e
      BY <2>1, <2>3, OwnersAgree
    <3>5. v[Name(p)] = v[d]
      BY <2>1, <3>3, <3>4, OwnersAgree DEF Fixed
    <3>6. Finish(p, r)
      BY <2>2, <2>5
    <3> HIDE DEF r
    <3> QED
      BY <1>1, <2>1, <3>2, <3>3, <3>5, <3>6, AgreesEnding
  <2> QED
    BY <2>4, <2>5
<1>13. CASE Complete(p)
  <2> DEFINE r == IF Name(p) \in succeeds THEN Ok ELSE Failed(Name(p))
  <2>1. threads[p].at = "running" /\ Owns(p) /\ threads[p].left = {} /\ Finish(p, r)
    BY <1>13 DEF Complete, At, Owns, IInv, JoinedOk
  <2>2. r \in Results
    BY <1>1, ResultKinds
  <2>3. Name(p) \in Tasks /\ \A d \in deps[Name(p)] : v[d] = Ok
    BY <2>1, OwnersAgree
  <2>4. r = v[Name(p)]
    BY <2>3 DEF Fixed
  <2> HIDE DEF r
  <2> QED
    BY <1>1, <2>1, <2>2, <2>4, AgreesEnding
<1> QED
  BY <1>6, <1>7, <1>9, <1>10, <1>11, <1>12, <1>13

LEMMA MainStaysAgreed ==
  ASSUME IInv, Tree, NEW v, Agrees(v), JoinRequested \/ Exit
  PROVE  Agrees(v)'
<1>1. UNCHANGED <<config, task, threads>>
  BY DEF JoinRequested, Exit
<1>2. TasksAgree(v)' /\ ThreadsAgree(v)'
  BY <1>1 DEF Agrees, TasksAgree, ThreadsAgree, Done
<1>3. \A n \in requested \ handles : v[n] = Ok
  <2> TAKE n \in requested \ handles
  <2>1. <<n>> \in DOMAIN threads /\ threads[<<n>>].result = Ok /\ Name(<<n>>) = n
    BY DEF Tree, MainOk, Name
  <2> QED
    BY <2>1, ResultKinds DEF Agrees, ThreadsAgree
<1>4. Reported(v)'
  <2>1. CASE JoinRequested
    <3>1. PICK n \in NextHandle(handles) :
            /\ threads[<<n>>].at = "returned"
            /\ IF threads[<<n>>].result = Ok
               THEN handles' = handles \ {n} /\ UNCHANGED exit
               ELSE exit' = threads[<<n>>].result /\ UNCHANGED handles
      BY <2>1 DEF JoinRequested
    <3>2. /\ <<n>> \in DOMAIN threads /\ n \in handles /\ n \in requested
          /\ \A m \in handles : n <= m
      BY DEF IInv, TypeOK, Requested, NextHandle
    <3>3. exit = None
      BY <2>1 DEF JoinRequested
    <3>4. CASE threads[<<n>>].result = Ok
      BY <3>1, <3>3, <3>4 DEF Reported
    <3>5. CASE threads[<<n>>].result # Ok
      <4>1. threads[<<n>>].result # None /\ Name(<<n>>) = n
        BY <3>1, <3>2 DEF IInv, TypeOK, Name
      <4>2. exit' = v[n] /\ v[n] # Ok
        BY <3>1, <3>2, <3>5, <4>1 DEF Agrees, ThreadsAgree
      <4>3. \A m \in requested : v[m] # Ok => n <= m
        BY <1>3, <3>2
      <4> QED
        BY <1>1, <3>2, <4>2, <4>3 DEF Reported, config
    <3> QED
      BY <3>4, <3>5
  <2>2. CASE Exit
    BY <1>1, <1>3, <2>2 DEF Exit, Awaited, Reported, config
  <2> QED
    BY <2>1, <2>2
<1> QED
  BY <1>2, <1>4 DEF Agrees

LEMMA PathsKept ==
  ASSUME IInv, Paths, [Next]_vars
  PROVE  Paths'
<1>1. UNCHANGED config
  BY ConfigFixed
<1>2. ASSUME NEW p \in DOMAIN threads, Claim(p) PROVE Paths'
  <2> DEFINE spawned == {Append(p, d) : d \in deps[Name(p)]}
  <2>1. /\ DOMAIN threads' = DOMAIN threads \cup spawned /\ Name(p) \in Tasks
        /\ p \in Seq(Names) /\ p # <<>> /\ deps[Name(p)] \subseteq Names
    BY <1>2 DEF Claim, Rejected, IInv, TypeOK
  <2> SUFFICES ASSUME NEW q \in DOMAIN threads \cup spawned, NEW i \in 1 .. Len(q) - 1
               PROVE  q[i] \in Tasks /\ q[i + 1] \in deps[q[i]]
    BY <1>1, <2>1 DEF Paths, config
  <2>2. CASE q \in DOMAIN threads
    BY <2>2 DEF Paths
  <2>3. CASE q \notin DOMAIN threads
    <3>1. PICK d \in deps[Name(p)] : q = Append(p, d)
      BY <2>3
    <3>2. Len(p) \in Nat \ {0} /\ Len(q) = Len(p) + 1 /\ q[Len(p) + 1] = d
            /\ \A k \in 1 .. Len(p) : q[k] = p[k]
      BY <2>1, <3>1
    <3> HIDE DEF spawned
    <3>3. CASE i = Len(p)
      BY <2>1, <3>2, <3>3 DEF Name
    <3>4. CASE i # Len(p)
      <4>1. i \in 1 .. Len(p) - 1 /\ i \in 1 .. Len(p) /\ i + 1 \in 1 .. Len(p)
        BY <3>2, <3>4
      <4>2. p[i] \in Tasks /\ p[i + 1] \in deps[p[i]]
        BY <4>1 DEF Paths
      <4> QED
        BY <3>2, <4>1, <4>2
    <3> QED
      BY <3>3, <3>4
  <2> QED
    BY <2>2, <2>3
<1>3. ASSUME DOMAIN threads' = DOMAIN threads PROVE Paths'
  BY <1>1, <1>3 DEF Paths, config
<1>4. ASSUME NEW p \in DOMAIN threads,
             \/ Reject(p) \/ Reuse(p) \/ Join(p) \/ Run(p) \/ Complete(p)
             \/ Sleep(p) \/ WakeSpuriously(p)
      PROVE  DOMAIN threads' = DOMAIN threads
  BY <1>4 DEF Reject, Reuse, Join, Run, Complete, Sleep, WakeSpuriously, Finish, Woken
<1>5. CASE JoinRequested \/ Exit \/ UNCHANGED vars
  BY <1>3, <1>5 DEF JoinRequested, Exit, vars
<1> QED
  BY <1>2, <1>3, <1>4, <1>5 DEF Next, Progress

LEMMA ConsistentSteps ==
  ASSUME IInv, Tree, Paths, Consistent, [Next]_vars
  PROVE  Consistent'
<1>1. (Acyclic' <=> Acyclic) /\ \A v : Fixed(v)' <=> Fixed(v)
  BY ConfigFixed, SameGraph
<1>2. ASSUME NEW v, Acyclic, Fixed(v) PROVE Agrees(v)'
  <2>1. Agrees(v)
    BY <1>2 DEF Consistent
  <2>2. CASE Next
    BY <1>2, <2>1, <2>2, ThreadsStayAgreed, ClaimAgrees, MainStaysAgreed DEF Next, Progress
  <2>3. CASE UNCHANGED vars
    BY <2>1, <2>3 DEF vars, config, Agrees, TasksAgree, ThreadsAgree, Reported, Done
  <2> QED
    BY <2>2, <2>3
<1> QED
  BY <1>1, <1>2 DEF Consistent

LEMMA ConsistentStarts == ASSUME Init PROVE Paths /\ Consistent
<1> DEFINE D == {<<n>> : n \in requested}
<1>1. task = [t \in Tasks |-> None] /\ exit = None /\ threads = [p \in D |-> Spawned]
  BY DEF Init
<1>2. \A p \in D : Len(p) = 1
  OBVIOUS
<1>3. DOMAIN threads = D /\ \A p \in D : threads[p] = Spawned
  BY <1>1
<1> HIDE DEF D
<1>4. Paths
  BY <1>2, <1>3 DEF Paths
<1>5. ASSUME NEW v PROVE Agrees(v)
  BY <1>1, <1>3, Records DEF Agrees, TasksAgree, ThreadsAgree, Reported, Done
<1> QED
  BY <1>4, <1>5 DEF Consistent

\* Paths follow the graph, and every answer is the one of the verdicts.
THEOREM ConsistencyHolds == Spec => [](Paths /\ Consistent)
<1>1. Init => Paths /\ Consistent
  BY ConsistentStarts
<1>2. IInv /\ Tree /\ Paths /\ Consistent /\ [Next]_vars => (Paths /\ Consistent)'
  BY PathsKept, ConsistentSteps
<1> QED
  BY <1>1, <1>2, Inductive, TreeHolds, PTL DEF Spec

\* Without cycles every order of the threads and commands ends each task, and
\* the process, as a sequential run would (the sorted joins of run and
\* run_tasks): the test dependency_failure_order_is_deterministic, of any graph.
THEOREM OrderIsImmaterial == Spec => []Deterministic
<1>1. IInv /\ Consistent => Deterministic
  <2> SUFFICES ASSUME IInv, Consistent, Acyclic PROVE
        /\ \A t \in Tasks : Done(t) => task[t] = Verdict(t)
        /\ exit # None =>
             LET bad == {n \in requested : Verdict(n) # Ok}
             IN exit = IF bad = {} THEN Ok
                       ELSE Verdict(CHOOSE n \in bad : \A m \in bad : n <= m)
    BY DEF Deterministic
  <2> DEFINE v == Verdicts
             bad == {n \in requested : v[n] # Ok}
             first == CHOOSE n \in bad : \A m \in bad : n <= m
  <2>1. Agrees(v)
    BY VerdictsJudge DEF IInv, Consistent
  <2> HIDE DEF v
  <2>2. \A t \in Tasks : Done(t) => task[t] = v[t]
    BY <2>1 DEF Agrees, TasksAgree
  <2>3. ASSUME exit # None PROVE exit = IF bad = {} THEN Ok ELSE v[first]
    <3>1. CASE exit = Ok /\ \A n \in requested : v[n] = Ok
      BY <3>1
    <3>2. ASSUME NEW n \in requested, v[n] # Ok, exit = v[n],
                 \A m \in requested : v[m] # Ok => n <= m
          PROVE  exit = IF bad = {} THEN Ok ELSE v[first]
      <4>1. n \in bad /\ \A m \in bad : n <= m
        BY <3>2
      <4>2. bad \subseteq Nat
        BY NamesAssumption DEF IInv, TypeOK
      <4> HIDE DEF bad
      <4>3. first \in bad /\ \A m \in bad : first <= m
        BY <4>1
      <4> HIDE DEF first
      <4>4. first = n
        BY <4>1, <4>2, <4>3
      <4> QED
        BY <3>2, <4>1, <4>4
    <3> QED
      BY <2>1, <2>3, <3>1, <3>2 DEF Agrees, Reported
  <2> QED
    BY <2>2, <2>3 DEF v, Verdict
<1> QED
  BY <1>1, Inductive, ConsistencyHolds, PTL
===========================================================================
