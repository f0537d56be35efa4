------------------------------ MODULE NamedLock ------------------------------
(***************************************************************************)
(* The named locks the runtime offers to isolates:                         *)
(* crates/deka_host/src/modules/concurrency.rs.                            *)
(*                                                                         *)
(* A client is an asynchronous task of an isolate: it awaits lock_acquire  *)
(* and later calls lock_release with the token it was given.  The registry *)
(* is behind one mutex that is never held across an await, so each visit   *)
(* is one action; what lies between two visits is not atomic.  Each waiter *)
(* has a oneshot channel: the sender sits in the queue of the lock, the    *)
(* receiver is awaited under a timeout.  A client is                       *)
(*                                                                         *)
(*   idle      outside lock_acquire, holding any number of locks           *)
(*   waiting   awaiting the receiver                                       *)
(*   granted   it took a token out of the channel; the registry does not   *)
(*             know yet that the token is in use again                     *)
(*   expiring  the timer elapsed, the receiver is still open: it is        *)
(*             dropped an instant later, and the isolate of the releasing  *)
(*             client may be on another thread                             *)
(*   expired   the receiver is dropped; its sender may still be queued     *)
(*   dead      the task was dropped with its isolate, at any await         *)
(*                                                                         *)
(* The arm of lock_acquire that retries after its sender was dropped is    *)
(* left out: WaitersQueued shows that it cannot be reached.                *)
(*                                                                         *)
(* Definitions whose name ends in _Mutant are faulty forms of those that   *)
(* follow them; no specification uses them.                                *)
(***************************************************************************)
EXTENDS Integers, FiniteSets

CONSTANTS
  Clients,        (* tasks that use locks                                  *)
  Names,          (* names of locks                                        *)
  NoName,         (* an absent entry of token_to_name                      *)
  MaxToken,       (* bound of the model: calls of lock_acquire             *)
  Settings,       (* the processes considered, see Setting                 *)
  StaleReleases   (* clients may release a token again                     *)

(* A process: whether all its isolates run on one thread, and the clients  *)
(* whose isolate may be torn down.                                         *)
Setting == [oneThread : BOOLEAN, mortal : SUBSET Clients]

ASSUME ConstantsAssumption ==
  /\ NoName \notin Names
  /\ MaxToken \in Nat
  /\ Settings \subseteq Setting
  /\ StaleReleases \in BOOLEAN

VARIABLES
  setting,        (* the process                                           *)
  locks,          (* names with an entry in the registry                   *)
  holder,         (* the token that holds each lock                        *)
  waiters,        (* queued senders; the ticket is the order of arrival    *)
  tokenName,      (* token_to_name                                         *)
  nextToken,      (* next_token                                            *)
  client,         (* where each client is, and what its channel holds      *)
  held,           (* the grants lock_acquire returned and not released     *)
  spent           (* history: the tokens each client has released          *)

registry == <<locks, holder, waiters, tokenName>>
vars == <<setting, registry, nextToken, client, held, spent>>

-----------------------------------------------------------------------------
NoToken == 0
Token == 1 .. MaxToken

Waiter == [client : Clients, ticket : Token]
Grant == [token : Token, name : Names]

(* name is the lock last asked for; token is what its channel holds.       *)
Client == [pc : {"idle", "waiting", "granted", "expiring", "expired", "dead"},
           name : Names \cup {NoName},
           token : Token \cup {NoToken}]

(* The receiver is there: !tx.is_closed().                                 *)
Open(c) == client[c].pc \in {"waiting", "expiring"}

OpenWaiters(n) == {w \in waiters[n] : Open(w.client)}

(* The waiter the release loop pops: the first whose channel is open.      *)
NextWaiter_Mutant(n) ==
  {w \in OpenWaiters(n) : \A x \in OpenWaiters(n) : x.ticket <= w.ticket}

NextWaiterClosed_Mutant(n) ==
  {w \in waiters[n] : \A x \in waiters[n] : w.ticket <= x.ticket}

NextWaiter(n) ==
  {w \in OpenWaiters(n) : \A x \in OpenWaiters(n) : w.ticket <= x.ticket}

AllocToken == nextToken

-----------------------------------------------------------------------------
(* lock_acquire: the first visit to the registry.                          *)

Asks(c) ==
  /\ client[c].pc = "idle"
  /\ nextToken <= MaxToken
  /\ nextToken' = nextToken + 1

AcquireFree(c, n) ==
  /\ Asks(c)
  /\ holder[n] = NoToken
  /\ locks' = locks \cup {n}
  /\ holder' = [holder EXCEPT ![n] = AllocToken]
  /\ tokenName' = [tokenName EXCEPT ![AllocToken] = n]
  /\ held' = [held EXCEPT ![c] = @ \cup {[token |-> AllocToken, name |-> n]}]
  /\ UNCHANGED <<waiters, client, spent>>

(* The token just allocated is not used for anything else.                 *)
Enqueue(c, n) ==
  /\ Asks(c)
  /\ holder[n] # NoToken
  /\ waiters' = [waiters EXCEPT ![n] = @ \cup {[client |-> c, ticket |-> AllocToken]}]
  /\ client' = [client EXCEPT ![c] = [pc |-> "waiting", name |-> n, token |-> NoToken]]
  /\ UNCHANGED <<locks, holder, tokenName, held, spent>>

(* The wait.  timeout() polls the receiver before the timer.               *)
Receive(c) ==
  /\ client[c].pc = "waiting"
  /\ client[c].token # NoToken
  /\ client' = [client EXCEPT ![c].pc = "granted"]
  /\ UNCHANGED <<registry, nextToken, held, spent>>

Elapse_Mutant(c) == FALSE /\ UNCHANGED vars

Elapse(c) ==
  /\ client[c].pc = "waiting"
  /\ client[c].token = NoToken
  /\ client' = [client EXCEPT ![c].pc = IF setting.oneThread THEN "expired" ELSE "expiring"]
  /\ UNCHANGED <<registry, nextToken, held, spent>>

(* Whatever was sent in the meantime goes down with the receiver.          *)
DropReceiver(c) ==
  /\ client[c].pc = "expiring"
  /\ client' = [client EXCEPT ![c].pc = "expired"]
  /\ UNCHANGED <<registry, nextToken, held, spent>>

(* The second visit: the token is registered again, under its new holder.  *)
RegisterGrant(c) ==
  LET n == client[c].name
      t == client[c].token
  IN  /\ client[c].pc = "granted"
      /\ tokenName' = [tokenName EXCEPT ![t] = n]
      /\ held' = [held EXCEPT ![c] = @ \cup {[token |-> t, name |-> n]}]
      /\ client' = [client EXCEPT ![c] = [pc |-> "idle", name |-> n, token |-> NoToken]]
      /\ UNCHANGED <<locks, holder, waiters, nextToken, spent>>

(* Or the timeout is reported, and the closed channels leave the queue.    *)
CleanUp_Mutant(c) ==
  LET n == client[c].name
  IN  /\ client[c].pc = "expired"
      /\ waiters' = [waiters EXCEPT ![n] = {}]
      /\ locks' = IF holder[n] = NoToken THEN locks \ {n} ELSE locks
      /\ client' = [client EXCEPT ![c] = [pc |-> "idle", name |-> n, token |-> NoToken]]
      /\ UNCHANGED <<holder, tokenName, nextToken, held, spent>>

CleanUp(c) ==
  LET n == client[c].name
  IN  /\ client[c].pc = "expired"
      /\ waiters' = [waiters EXCEPT ![n] = OpenWaiters(n)]
      /\ locks' = IF OpenWaiters(n) = {} /\ holder[n] = NoToken THEN locks \ {n} ELSE locks
      /\ client' = [client EXCEPT ![c] = [pc |-> "idle", name |-> n, token |-> NoToken]]
      /\ UNCHANGED <<holder, tokenName, nextToken, held, spent>>

-----------------------------------------------------------------------------
(* lock_release: one visit.                                                *)

Releasable(c) ==
  {g.token : g \in held[c]} \cup (IF StaleReleases THEN spent[c] ELSE {})

(* The lock goes to the first waiter listening, under the same token, or   *)
(* is removed from the registry.                                           *)
HandOver_Mutant(n, t) ==
  \/ \E w \in NextWaiter(n) :
       /\ waiters' = [waiters EXCEPT ![n] = {x \in @ : x.ticket > w.ticket}]
       /\ client' = [client EXCEPT ![w.client].token = t]
       /\ holder' = [holder EXCEPT ![n] = NoToken]
       /\ UNCHANGED locks
  \/ /\ OpenWaiters(n) = {}
     /\ waiters' = [waiters EXCEPT ![n] = {}]
     /\ holder' = [holder EXCEPT ![n] = NoToken]
     /\ locks' = locks \ {n}
     /\ UNCHANGED client

HandOver(n, t) ==
  \/ \E w \in NextWaiter(n) :
       /\ waiters' = [waiters EXCEPT ![n] = {x \in @ : x.ticket > w.ticket}]
       /\ client' = [client EXCEPT ![w.client].token = t]
       /\ UNCHANGED <<locks, holder>>
  \/ /\ OpenWaiters(n) = {}
     /\ waiters' = [waiters EXCEPT ![n] = {}]
     /\ holder' = [holder EXCEPT ![n] = NoToken]
     /\ locks' = locks \ {n}
     /\ UNCHANGED client

(* The token leaves the map before the holder is compared with it.         *)
Unregistered_Mutant(t) == tokenName

Unregistered(t) == [tokenName EXCEPT ![t] = NoName]

Release(c, t) ==
  LET n == tokenName[t]
  IN  /\ client[c].pc = "idle"
      /\ t \in Releasable(c)
      /\ held' = [held EXCEPT ![c] = {g \in @ : g.token # t}]
      /\ spent' = [spent EXCEPT ![c] = @ \cup {t}]
      /\ tokenName' = Unregistered(t)
      /\ IF n # NoName /\ n \in locks /\ holder[n] = t
         THEN HandOver(n, t)
         ELSE UNCHANGED <<locks, holder, waiters, client>>
      /\ UNCHANGED nextToken

(* The isolate is torn down: its task is dropped, and the receiver with it.*)
Abandon(c) ==
  /\ c \in setting.mortal
  /\ client[c].pc # "dead"
  /\ client' = [client EXCEPT ![c].pc = "dead"]
  /\ UNCHANGED <<registry, nextToken, held, spent>>

-----------------------------------------------------------------------------
Init ==
  /\ setting \in Settings
  /\ locks = {}
  /\ holder = [n \in Names |-> NoToken]
  /\ waiters = [n \in Names |-> {}]
  /\ tokenName = [t \in Token |-> NoName]
  /\ nextToken = 1
  /\ client = [c \in Clients |-> [pc |-> "idle", name |-> NoName, token |-> NoToken]]
  /\ held = [c \in Clients |-> {}]
  /\ spent = [c \in Clients |-> {}]

(* The steps of a pending lock_acquire that need nobody else.              *)
Progress(c) ==
  Receive(c) \/ Elapse(c) \/ DropReceiver(c) \/ RegisterGrant(c) \/ CleanUp(c)

Next ==
  /\ \E c \in Clients :
       \/ \E n \in Names : AcquireFree(c, n) \/ Enqueue(c, n)
       \/ Progress(c)
       \/ \E t \in Token : Release(c, t)
       \/ Abandon(c)
  /\ UNCHANGED setting

Spec == Init /\ [][Next]_vars

(* The timer fires, the executor polls a ready task and the mutex of the   *)
(* registry is fair; nobody has to call lock_release.                      *)
FairSpec == Spec /\ \A c \in Clients : WF_vars(Progress(c) /\ UNCHANGED setting)

-----------------------------------------------------------------------------
TypeOK ==
  /\ setting \in Settings
  /\ locks \subseteq Names
  /\ holder \in [Names -> Token \cup {NoToken}]
  /\ waiters \in [Names -> SUBSET Waiter]
  /\ tokenName \in [Token -> Names \cup {NoName}]
  /\ nextToken \in 1 .. (MaxToken + 1)
  /\ client \in [Clients -> Client]
  /\ held \in [Clients -> SUBSET Grant]
  /\ spent \in [Clients -> SUBSET Token]

(* The clients that hold the lock n, or will once they are polled.         *)
Bearers(n) ==
  {c \in Clients :
     \/ \E g \in held[c] : g.name = n
     \/ /\ client[c].pc \in {"waiting", "granted"}
        /\ client[c].name = n
        /\ client[c].token # NoToken}

(* Access is serialized as long as each grant is released once: no second  *)
(* client gets the lock, whichever timeouts and teardowns race with the    *)
(* release (lock_acquire_impl, lock_release_impl).                         *)
MutualExclusion ==
  \A n \in Names : \A c, d \in Bearers(n) : c = d

(* A client without an answer has its sender in the queue of a lock that   *)
(* somebody holds: it waits for no one in vain, and its channel never      *)
(* closes under it ("this should not happen" in lock_acquire_impl).        *)
WaitersQueued ==
  \A c \in Clients :
    client[c].pc = "waiting" /\ client[c].token = NoToken =>
      /\ holder[client[c].name] # NoToken
      /\ \E w \in waiters[client[c].name] : w.client = c

(* A registered token holds its lock, even if clients release tokens more  *)
(* than once: "lock_state_missing" and "lock_token_not_holder" are never   *)
(* returned by lock_release_impl.                                          *)
RegisteredIsHolder ==
  \A t \in Token :
    tokenName[t] # NoName => tokenName[t] \in locks /\ holder[tokenName[t]] = t

(* lock_release passes ownership to the next waiter or frees the lock: a   *)
(* lock that is held is held by, or on its way to, some client.            *)
OwnershipPassed == \A n \in Names : holder[n] # NoToken => Bearers(n) # {}

(* The promise is made to isolates on one thread that are not torn down.   *)
Promised == setting.oneThread /\ setting.mortal = {}

Owners == [n \in Names |-> IF Promised THEN Bearers(n) ELSE {}]

(* The waiters listening, with the tokens they drew on arrival.            *)
Lines == [n \in Names |-> IF Promised THEN OpenWaiters(n) ELSE {}]

Service == INSTANCE LockService WITH Tickets <- Token, owner <- Owners, line <- Lines

(* The registry keeps the promise: whatever the timeouts, a released lock  *)
(* passes to the first waiter in line within the same visit of             *)
(* lock_release_impl, no waiter overtakes another, and nobody waits for a  *)
(* lock without an owner.                                                  *)
ImplementsService == Service!ServiceSpec

(* Every lock_acquire returns: it takes the grant or times out.            *)
AcquireReturns ==
  \A c \in Clients : client[c].pc = "waiting" ~> client[c].pc \in {"idle", "dead"}

=============================================================================
