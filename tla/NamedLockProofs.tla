--------------------------- MODULE NamedLockProofs ---------------------------
(***************************************************************************)
(* Proofs about NamedLock for every set of clients, names and tokens.      *)
(***************************************************************************)
EXTENDS NamedLock, TLAPS

-----------------------------------------------------------------------------
(* The inductive invariant.  None of its parts mentions the discipline of  *)
(* the clients: they may release a token as often as they like.            *)

InFlight(c) == client[c].pc \in {"waiting", "granted"} /\ client[c].token # NoToken

(* A pending call knows its lock, and a grant taken is a token.            *)
Asking ==
  \A c \in Clients :
    /\ client[c].pc \notin {"idle", "dead"} => client[c].name \in Names
    /\ client[c].pc = "granted" => client[c].token # NoToken

(* A queued sender belongs to a call that is pending on that lock with     *)
(* nothing sent to it, or to one that was dropped; once per client.        *)
Queues ==
  \A n \in Names : \A w \in waiters[n] :
    /\ client[w.client].pc \in {"waiting", "expiring", "expired", "dead"}
    /\ client[w.client].pc # "dead" => client[w.client].name = n
    /\ Open(w.client) => client[w.client].token = NoToken
    /\ \A x \in waiters[n] : x.client = w.client => x = w

(* A token on its way to a client holds the lock, is not registered, and   *)
(* is on its way to that client only.                                      *)
Flights ==
  \A c \in Clients : InFlight(c) =>
    /\ holder[client[c].name] = client[c].token
    /\ tokenName[client[c].token] = NoName
    /\ \A d \in Clients : InFlight(d) /\ client[d].token = client[c].token => c = d

(* No token is issued twice.                                               *)
Fresh ==
  \A n \in Names :
    /\ holder[n] < nextToken
    /\ holder[n] # NoToken => n \in locks
    /\ \A m \in Names : holder[n] = holder[m] /\ holder[n] # NoToken => n = m

Registry == Asking /\ Queues /\ Flights /\ Fresh /\ RegisteredIsHolder

IInv == TypeOK /\ Registry

-----------------------------------------------------------------------------
(* What a step does to a client, field by field.                           *)
MovesClient(c, p) == client' = [client EXCEPT ![c].pc = p]

SendsToken(c, t) == client' = [client EXCEPT ![c].token = t]

LEMMA MovedClient ==
  ASSUME TypeOK, NEW c \in Clients,
         NEW p \in {"waiting", "granted", "expiring", "expired", "dead"},
         MovesClient(c, p)
  PROVE  /\ client' \in [Clients -> Client]
         /\ \A d \in Clients : /\ client'[d].pc = IF d = c THEN p ELSE client[d].pc
                               /\ client'[d].name = client[d].name
                               /\ client'[d].token = client[d].token
<1>1. client[c] \in Client
  BY DEF TypeOK
<1>2. /\ [client[c] EXCEPT !.pc = p] \in Client
      /\ [client[c] EXCEPT !.pc = p].pc = p
      /\ [client[c] EXCEPT !.pc = p].name = client[c].name
      /\ [client[c] EXCEPT !.pc = p].token = client[c].token
  BY <1>1 DEF Client
<1> QED BY <1>2 DEF TypeOK, MovesClient

(* What tx.send does to the client that listens, field by field.           *)
LEMMA SentClient ==
  ASSUME TypeOK, NEW c \in Clients, NEW t \in Token,
         SendsToken(c, t)
  PROVE  /\ client' \in [Clients -> Client]
         /\ \A d \in Clients : /\ client'[d].pc = client[d].pc
                               /\ client'[d].name = client[d].name
                               /\ client'[d].token = IF d = c THEN t ELSE client[d].token
<1>1. client[c] \in Client
  BY DEF TypeOK
<1>2. /\ [client[c] EXCEPT !.token = t] \in Client
      /\ [client[c] EXCEPT !.token = t].pc = client[c].pc
      /\ [client[c] EXCEPT !.token = t].name = client[c].name
      /\ [client[c] EXCEPT !.token = t].token = t
  BY <1>1 DEF Client
<1> QED BY <1>2 DEF TypeOK, SendsToken

(* alloc_token returns a token not issued before.                          *)
LEMMA AllocatedToken ==
  ASSUME TypeOK, NEW c \in Clients, Asks(c)
  PROVE  /\ AllocToken \in Token /\ AllocToken = nextToken
         /\ nextToken' = nextToken + 1 /\ nextToken' \in 1 .. (MaxToken + 1)
         /\ client[c].pc = "idle"
  BY ConstantsAssumption DEF Asks, AllocToken, TypeOK, Token

-----------------------------------------------------------------------------
(* lock_acquire on a free lock.                                            *)
LEMMA AcquireFreeStep ==
  ASSUME IInv, NEW c \in Clients, NEW n \in Names, AcquireFree(c, n),
         UNCHANGED setting
  PROVE  IInv'
<1>1. /\ AllocToken \in Token /\ AllocToken = nextToken
      /\ nextToken' = nextToken + 1 /\ nextToken' \in 1 .. (MaxToken + 1)
  BY AllocatedToken DEF IInv, AcquireFree
<1>2. TypeOK'
  <2>1. [token |-> AllocToken, name |-> n] \in Grant
    BY <1>1 DEF Grant
  <2> QED BY <1>1, <2>1 DEF AcquireFree, IInv, TypeOK
<1>3. Asking' /\ Queues'
  BY DEF AcquireFree, IInv, Registry, Asking, Queues, Open
<1>4. /\ \A m \in Names : holder'[m] = IF m = n THEN nextToken ELSE holder[m]
      /\ \A t \in Token : tokenName'[t] = IF t = nextToken THEN n ELSE tokenName[t]
      /\ holder[n] = NoToken
  BY <1>1 DEF AcquireFree, IInv, TypeOK
<1>5. Fresh'
  <2>1. \A m \in Names : holder[m] \in Token \cup {NoToken} /\ nextToken \in Token
    BY <1>1 DEF IInv, TypeOK
  <2> QED BY <1>1, <1>4, <2>1
          DEF AcquireFree, IInv, Registry, Fresh, Token, NoToken
<1>6. Flights'
  <2>1. ASSUME NEW d \in Clients, InFlight(d)
        PROVE  client[d].name \in Names \ {n} /\ client[d].token \in Token \ {nextToken}
    <3>1. /\ client[d].token \in Token /\ client[d].name \in Names
          /\ holder[client[d].name] = client[d].token
      BY <2>1 DEF InFlight, IInv, TypeOK, Client, Registry, Asking, Flights
    <3> QED BY <1>4, <3>1, <2>1 DEF IInv, TypeOK, Registry, Fresh, InFlight, Token
  <2>2. \A d \in Clients : InFlight(d)' <=> InFlight(d)
    BY DEF AcquireFree, InFlight
  <2> QED BY <1>4, <2>1, <2>2 DEF AcquireFree, IInv, Registry, Flights
<1>7. RegisteredIsHolder'
  <2>1. ASSUME NEW t \in Token, tokenName'[t] # NoName
        PROVE  tokenName'[t] \in locks' /\ holder'[tokenName'[t]] = t
    <3>1. CASE t = nextToken
      BY <1>4, <3>1 DEF AcquireFree
    <3>2. CASE t # nextToken
      <4>1. tokenName[t] \in Names /\ tokenName[t] \in locks /\ holder[tokenName[t]] = t
        BY <1>4, <2>1, <3>2 DEF IInv, TypeOK, Registry, RegisteredIsHolder
      <4>2. tokenName[t] # n
        BY <1>4, <4>1 DEF Token, NoToken
      <4> QED BY <1>4, <3>2, <4>1, <4>2 DEF AcquireFree
    <3> QED BY <3>1, <3>2
  <2> QED BY <2>1 DEF RegisteredIsHolder
<1> QED BY <1>2, <1>3, <1>5, <1>6, <1>7 DEF IInv, Registry

(* lock_acquire on a held lock.                                            *)
LEMMA EnqueueStep ==
  ASSUME IInv, NEW c \in Clients, NEW n \in Names, Enqueue(c, n),
         UNCHANGED setting
  PROVE  IInv'
<1> DEFINE entry == [client |-> c, ticket |-> nextToken]
<1>1. /\ nextToken \in Token /\ AllocToken = nextToken
      /\ nextToken' = nextToken + 1 /\ nextToken' \in 1 .. (MaxToken + 1)
      /\ client[c].pc = "idle"
  BY AllocatedToken DEF IInv, Enqueue
<1>2. /\ waiters' = [waiters EXCEPT ![n] = @ \cup {entry}]
      /\ client' = [client EXCEPT ![c] = [pc |-> "waiting", name |-> n, token |-> NoToken]]
      /\ UNCHANGED <<locks, holder, tokenName, held, spent>>
  BY <1>1 DEF Enqueue
<1>3. TypeOK'
  <2>1. entry \in Waiter
    BY <1>1 DEF Waiter
  <2>2. [pc |-> "waiting", name |-> n, token |-> NoToken] \in Client
    BY DEF Client
  <2> HIDE DEF entry
  <2> QED BY <1>1, <1>2, <2>1, <2>2 DEF IInv, TypeOK
<1>4. /\ client'[c].pc = "waiting" /\ client'[c].name = n /\ client'[c].token = NoToken
      /\ \A d \in Clients \ {c} : client'[d] = client[d]
  BY <1>2 DEF IInv, TypeOK
<1>5. \A m \in Names : \A w \in waiters'[m] : w \in waiters[m] \/ (m = n /\ w = entry)
  BY <1>2 DEF IInv, TypeOK
<1>6. \A m \in Names : \A w \in waiters[m] : w.client \in Clients \ {c}
  <2>1. \A m \in Names : \A w \in waiters[m] : w.client \in Clients
    BY DEF IInv, TypeOK, Waiter
  <2> QED BY <1>1, <2>1 DEF IInv, Registry, Queues
<1>7. entry.client = c
  OBVIOUS
<1> HIDE DEF entry
<1>8. Queues'
  <2> SUFFICES ASSUME NEW m \in Names, NEW w \in waiters'[m]
               PROVE  /\ client'[w.client].pc \in {"waiting", "expiring", "expired", "dead"}
                      /\ client'[w.client].pc # "dead" => client'[w.client].name = m
                      /\ Open(w.client)' => client'[w.client].token = NoToken
                      /\ \A x \in waiters'[m] : x.client = w.client => x = w
    BY DEF Queues
  <2>1. CASE w \in waiters[m]
    BY <1>4, <1>5, <1>6, <1>7, <2>1 DEF IInv, Registry, Queues, Open
  <2>2. CASE m = n /\ w = entry
    BY <1>4, <1>5, <1>6, <1>7, <2>2 DEF Open
  <2> QED BY <1>5, <2>1, <2>2
<1>9. Asking'
  BY <1>4 DEF IInv, Registry, Asking
<1>10. Flights'
  <2>1. \A d \in Clients : InFlight(d)' => d # c /\ InFlight(d)
    BY <1>4 DEF InFlight
  <2> QED BY <1>2, <1>4, <2>1 DEF IInv, Registry, Flights
<1>11. Fresh' /\ RegisteredIsHolder'
  BY <1>1, <1>2 DEF IInv, TypeOK, Registry, Fresh, RegisteredIsHolder, Token, NoToken
<1> QED BY <1>3, <1>8, <1>9, <1>10, <1>11 DEF IInv, Registry

(* The steps of a client that do not visit the registry.                   *)
LEMMA AwaitStep ==
  ASSUME IInv, NEW c \in Clients,
         Receive(c) \/ Elapse(c) \/ DropReceiver(c) \/ Abandon(c),
         UNCHANGED setting
  PROVE  IInv'
<1>1. PICK p \in {"granted", "expiring", "expired", "dead"} :
        /\ client' = [client EXCEPT ![c].pc = p]
        /\ p = "granted" => client[c].pc = "waiting" /\ client[c].token # NoToken
        /\ p \in {"expiring", "expired"} => client[c].pc \in {"waiting", "expiring"}
  BY DEF Receive, Elapse, DropReceiver, Abandon
<1>2. UNCHANGED <<locks, holder, waiters, tokenName, nextToken, held, spent>>
  BY DEF Receive, Elapse, DropReceiver, Abandon, registry
<1>3. /\ client' \in [Clients -> Client]
      /\ \A d \in Clients : /\ client'[d].pc = IF d = c THEN p ELSE client[d].pc
                            /\ client'[d].name = client[d].name
                            /\ client'[d].token = client[d].token
  <2>1. /\ TypeOK /\ c \in Clients
        /\ p \in {"waiting", "granted", "expiring", "expired", "dead"}
    BY <1>1 DEF IInv
  <2>2. MovesClient(c, p)
    BY <1>1 DEF MovesClient
  <2> QED BY ONLY <2>1, <2>2, MovedClient
<1>4. TypeOK'
  BY <1>2, <1>3 DEF IInv, TypeOK
<1>5. Asking'
  BY <1>1, <1>3 DEF IInv, Registry, Asking
<1>6. Queues'
  <2>1. \A n \in Names : \A w \in waiters[n] : w.client \in Clients
    BY DEF IInv, TypeOK, Waiter
  <2> QED BY <1>1, <1>2, <1>3, <2>1 DEF IInv, Registry, Queues, Open
<1>7. Flights'
  <2>1. \A d \in Clients : InFlight(d)' => InFlight(d)
    BY <1>1, <1>3 DEF InFlight
  <2> QED BY <1>2, <1>3, <2>1 DEF IInv, Registry, Flights
<1>8. Fresh' /\ RegisteredIsHolder'
  BY <1>2 DEF IInv, Registry, Fresh, RegisteredIsHolder
<1> QED BY <1>4, <1>5, <1>6, <1>7, <1>8 DEF IInv, Registry

(* A client registers the token it was handed.                             *)
LEMMA RegisterGrantStep ==
  ASSUME IInv, NEW c \in Clients, RegisterGrant(c),
         UNCHANGED setting
  PROVE  IInv'
<1> DEFINE n == client[c].name
           t == client[c].token
<1>1. /\ client[c].pc = "granted" /\ n \in Names /\ t \in Token /\ t # NoToken
      /\ InFlight(c) /\ holder[n] = t /\ tokenName[t] = NoName
  BY DEF RegisterGrant, IInv, TypeOK, Client, Registry, Asking, InFlight, Flights
<1>2. /\ tokenName' = [tokenName EXCEPT ![t] = n]
      /\ held' = [held EXCEPT ![c] = @ \cup {[token |-> t, name |-> n]}]
      /\ client' = [client EXCEPT ![c] = [pc |-> "idle", name |-> n, token |-> NoToken]]
      /\ UNCHANGED <<locks, holder, waiters, nextToken, spent>>
  BY DEF RegisterGrant
<1> HIDE DEF n, t
<1>3. TypeOK'
  <2>1. /\ [token |-> t, name |-> n] \in Grant
        /\ [pc |-> "idle", name |-> n, token |-> NoToken] \in Client
    BY <1>1 DEF Grant, Client
  <2> QED BY <1>1, <1>2, <2>1 DEF IInv, TypeOK
<1>4. /\ client'[c].pc = "idle" /\ client'[c].token = NoToken
      /\ \A d \in Clients \ {c} : client'[d] = client[d]
      /\ \A u \in Token : tokenName'[u] = IF u = t THEN n ELSE tokenName[u]
  BY <1>2 DEF IInv, TypeOK
<1>5. Asking'
  BY <1>4 DEF IInv, Registry, Asking
<1>6. Queues'
  <2>1. \A m \in Names : \A w \in waiters[m] : w.client \in Clients \ {c}
    BY <1>1 DEF IInv, TypeOK, Waiter, Registry, Queues
  <2> QED BY <1>2, <1>4, <2>1 DEF IInv, Registry, Queues, Open
<1>7. Flights'
  <2>1. ASSUME NEW d \in Clients, InFlight(d)'
        PROVE  d # c /\ InFlight(d) /\ client[d].token \in Token \ {t}
    <3>1. d # c /\ InFlight(d)
      BY <1>4, <2>1 DEF InFlight
    <3>2. client[d].token # t
      BY <1>1, <3>1 DEF IInv, Registry, Flights, t
    <3> QED BY <3>1, <3>2 DEF IInv, TypeOK, Client, InFlight
  <2> QED BY <1>2, <1>4, <2>1 DEF IInv, Registry, Flights
<1>8. Fresh' /\ RegisteredIsHolder'
  BY <1>1, <1>2, <1>4 DEF IInv, Registry, Fresh, RegisteredIsHolder
<1> QED BY <1>3, <1>5, <1>6, <1>7, <1>8 DEF IInv, Registry

(* A client that timed out leaves the queue.                               *)
LEMMA CleanUpStep ==
  ASSUME IInv, NEW c \in Clients, CleanUp(c),
         UNCHANGED setting
  PROVE  IInv'
<1> DEFINE n == client[c].name
<1>1. client[c].pc = "expired" /\ n \in Names
  BY DEF CleanUp, IInv, Registry, Asking
<1>2. /\ waiters' = [waiters EXCEPT ![n] = OpenWaiters(n)]
      /\ locks' = IF OpenWaiters(n) = {} /\ holder[n] = NoToken THEN locks \ {n} ELSE locks
      /\ client' = [client EXCEPT ![c] = [pc |-> "idle", name |-> n, token |-> NoToken]]
      /\ UNCHANGED <<holder, tokenName, nextToken, held, spent>>
  BY DEF CleanUp
<1>3. /\ OpenWaiters(n) \subseteq waiters[n]
      /\ \A w \in OpenWaiters(n) : w.client # c
  BY <1>1 DEF OpenWaiters, Open
<1>4. \A m \in Names : \A w \in waiters[m] : w.client \in Clients /\ (w.client = c => m = n)
  BY <1>1 DEF IInv, TypeOK, Waiter, Registry, Queues
<1> HIDE DEF n
<1>5. TypeOK'
  <2>1. [pc |-> "idle", name |-> n, token |-> NoToken] \in Client
    BY <1>1 DEF Client
  <2>2. OpenWaiters(n) \in SUBSET Waiter
    BY <1>1, <1>3 DEF IInv, TypeOK
  <2> QED BY <1>1, <1>2, <2>1, <2>2 DEF IInv, TypeOK
<1>6. /\ client'[c].pc = "idle" /\ client'[c].token = NoToken
      /\ \A d \in Clients \ {c} : client'[d] = client[d]
      /\ \A m \in Names : waiters'[m] \subseteq waiters[m]
      /\ \A m \in Names : \A w \in waiters'[m] : w.client \in Clients \ {c}
  BY <1>1, <1>2, <1>3, <1>4 DEF IInv, TypeOK
<1>7. Asking'
  BY <1>6 DEF IInv, Registry, Asking
<1>8. Queues'
  BY <1>6 DEF IInv, Registry, Queues, Open
<1>9. Flights'
  <2>1. \A d \in Clients : InFlight(d)' => d # c /\ InFlight(d)
    BY <1>6 DEF InFlight
  <2> QED BY <1>2, <1>6, <2>1 DEF IInv, Registry, Flights
<1>10. Fresh'
  BY <1>2 DEF IInv, Registry, Fresh
<1>11. RegisteredIsHolder'
  BY <1>2 DEF IInv, TypeOK, Registry, RegisteredIsHolder, Token, NoToken
<1> QED BY <1>5, <1>7, <1>8, <1>9, <1>10, <1>11 DEF IInv, Registry

(* The release hands the token over, frees the lock, or is refused.        *)
LEMMA ReleaseStep ==
  ASSUME IInv, NEW c \in Clients, NEW t \in Token, Release(c, t),
         UNCHANGED setting
  PROVE  IInv'
<1> DEFINE n == tokenName[t]
<1>1. /\ tokenName' = [tokenName EXCEPT ![t] = NoName]
      /\ held' = [held EXCEPT ![c] = {g \in @ : g.token # t}]
      /\ spent' = [spent EXCEPT ![c] = @ \cup {t}]
      /\ nextToken' = nextToken
      /\ n \in Names \cup {NoName}
      /\ \A u \in Token : tokenName'[u] = IF u = t THEN NoName ELSE tokenName[u]
  BY DEF Release, Unregistered, IInv, TypeOK
<1>2. ASSUME NEW d \in Clients, InFlight(d)
      PROVE  /\ client[d].token \in Token /\ client[d].name \in Names
             /\ n # NoName => client[d].token # t
  BY <1>2 DEF InFlight, IInv, TypeOK, Client, Registry, Asking, Flights
<1>3. CASE n # NoName /\ n \in locks /\ holder[n] = t /\ HandOver(n, t)
  <2>1. n \in Names
    BY <1>1, <1>3
  <2>2. CASE \E w \in NextWaiter(n) :
               /\ waiters' = [waiters EXCEPT ![n] = {x \in @ : x.ticket > w.ticket}]
               /\ client' = [client EXCEPT ![w.client].token = t]
               /\ UNCHANGED <<locks, holder>>
    <3>1. PICK w \in NextWaiter(n) :
            /\ waiters' = [waiters EXCEPT ![n] = {x \in @ : x.ticket > w.ticket}]
            /\ client' = [client EXCEPT ![w.client].token = t]
            /\ UNCHANGED <<locks, holder>>
      BY <2>2
    <3> DEFINE b == w.client
    <3>2. /\ w \in waiters[n] /\ w \in Waiter /\ b \in Clients /\ Open(b)
          /\ client[b].name = n /\ client[b].token = NoToken
          /\ client[b].pc \in {"waiting", "expiring"}
      BY <2>1 DEF NextWaiter, OpenWaiters, Open, IInv, TypeOK, Waiter, Registry, Queues
    <3>3. /\ client' \in [Clients -> Client]
          /\ \A d \in Clients : /\ client'[d].pc = client[d].pc
                                /\ client'[d].name = client[d].name
                                /\ client'[d].token = IF d = b THEN t ELSE client[d].token
      <4>1. TypeOK /\ w.client \in Clients /\ t \in Token
        BY <3>2 DEF IInv
      <4>2. SendsToken(w.client, t)
        BY <3>1 DEF SendsToken
      <4> QED BY ONLY <4>1, <4>2, SentClient
    <3>4. /\ \A m \in Names : waiters'[m] \subseteq waiters[m]
          /\ \A m \in Names : \A x \in waiters'[m] : x.client \in Clients \ {b}
      <4>1. \A m \in Names : \A x \in waiters[m] :
              /\ x.client \in Clients /\ x.ticket \in Int
              /\ x.client = b => m = n /\ x = w
        BY <3>2 DEF IInv, TypeOK, Waiter, Token, Registry, Queues
      <4>2. /\ \A m \in Names : waiters'[m] \subseteq waiters[m]
            /\ \A x \in waiters'[n] : x.ticket > w.ticket
        BY <2>1, <3>1 DEF IInv, TypeOK
      <4>3. w.ticket \in Int
        BY <3>2 DEF Waiter, Token
      <4> QED BY <2>1, <4>1, <4>2, <4>3
    <3>5. TypeOK'
      <4>1. {x \in waiters[n] : x.ticket > w.ticket} \in SUBSET Waiter
        BY <2>1 DEF IInv, TypeOK
      <4>2. waiters' \in [Names -> SUBSET Waiter]
        BY <2>1, <3>1, <4>1 DEF IInv, TypeOK
      <4>3. held' \in [Clients -> SUBSET Grant] /\ spent' \in [Clients -> SUBSET Token]
        BY <1>1 DEF IInv, TypeOK
      <4> QED BY <1>1, <3>1, <3>3, <4>2, <4>3 DEF IInv, TypeOK
    <3>6. Asking'
      BY <3>3 DEF IInv, Registry, Asking, Token, NoToken
    <3>7. Queues'
      BY <3>3, <3>4 DEF IInv, Registry, Queues, Open
    <3>8. Flights'
      <4>1. \A d \in Clients : InFlight(d)' => d = b \/ InFlight(d)
        BY <3>3 DEF InFlight
      <4>2. b \in Clients /\ holder'[n] = t /\ tokenName'[t] = NoName
        BY <1>1, <1>3, <3>1, <3>2
      <4> HIDE DEF b, n
      <4>3. ASSUME NEW d \in Clients, InFlight(d)'
            PROVE  /\ holder'[client'[d].name] = client'[d].token
                   /\ tokenName'[client'[d].token] = NoName
        <5>1. CASE d = b
          BY <3>2, <3>3, <4>2, <5>1
        <5>2. CASE d # b
          <6>1. InFlight(d)
            BY <4>1, <4>3, <5>2
          <6> QED BY <1>1, <1>2, <3>1, <3>3, <5>2, <6>1 DEF IInv, Registry, Flights
        <5> QED BY <5>1, <5>2
      <4>4. ASSUME NEW d \in Clients, NEW e \in Clients, InFlight(d)', InFlight(e)',
                   client'[d].token = client'[e].token
            PROVE  d = e
        <5>1. CASE d # b /\ e # b
          <6>1. InFlight(d) /\ InFlight(e)
            BY <4>1, <4>4, <5>1
          <6> QED BY <3>3, <4>4, <5>1, <6>1 DEF IInv, Registry, Flights
        <5>2. CASE d = b \/ e = b
          BY <1>2, <1>3, <3>3, <4>1, <4>4, <5>2
        <5> QED BY <5>1, <5>2
      <4> QED BY <4>3, <4>4 DEF Flights
    <3>9. Fresh'
      BY <1>1, <3>1 DEF IInv, Registry, Fresh
    <3>10. RegisteredIsHolder'
      BY <1>1, <3>1 DEF IInv, Registry, RegisteredIsHolder
    <3> QED BY <3>5, <3>6, <3>7, <3>8, <3>9, <3>10 DEF IInv, Registry
  <2>3. CASE /\ waiters' = [waiters EXCEPT ![n] = {}]
             /\ holder' = [holder EXCEPT ![n] = NoToken]
             /\ locks' = locks \ {n}
             /\ UNCHANGED client
    <3>1. /\ \A m \in Names : waiters'[m] \subseteq waiters[m]
          /\ \A m \in Names : holder'[m] = IF m = n THEN NoToken ELSE holder[m]
      BY <2>1, <2>3 DEF IInv, TypeOK
    <3>2. TypeOK'
      BY <1>1, <2>1, <2>3 DEF IInv, TypeOK
    <3>3. Asking' /\ Queues'
      BY <2>3, <3>1 DEF IInv, Registry, Asking, Queues, Open
    <3>4. Flights'
      <4>1. \A d \in Clients : InFlight(d)' <=> InFlight(d)
        BY <2>3 DEF InFlight
      <4>2. \A d \in Clients : InFlight(d) => client[d].name # n
        BY <1>2, <1>3 DEF IInv, Registry, Flights
      <4> HIDE DEF n
      <4> QED BY <1>1, <1>2, <2>3, <3>1, <4>1, <4>2 DEF IInv, Registry, Flights
    <3>5. Fresh'
      BY <1>1, <2>3, <3>1 DEF IInv, TypeOK, Registry, Fresh, Token, NoToken
    <3>6. RegisteredIsHolder'
      <4>1. ASSUME NEW u \in Token, tokenName'[u] # NoName
            PROVE  tokenName'[u] \in locks' /\ holder'[tokenName'[u]] = u
        <5>1. u # t /\ tokenName'[u] = tokenName[u]
          BY <1>1, <4>1
        <5>2. /\ tokenName[u] \in Names /\ tokenName[u] \in locks
              /\ holder[tokenName[u]] = u
          BY <4>1, <5>1 DEF IInv, TypeOK, Registry, RegisteredIsHolder
        <5>3. tokenName[u] # n
          BY <1>3, <5>1, <5>2
        <5> QED BY <2>3, <3>1, <5>1, <5>2, <5>3
      <4> QED BY <4>1 DEF RegisteredIsHolder
    <3> QED BY <3>2, <3>3, <3>4, <3>5, <3>6 DEF IInv, Registry
  <2> QED BY <1>3, <2>2, <2>3 DEF HandOver
<1>4. CASE UNCHANGED <<locks, holder, waiters, client>>
  <2>1. TypeOK'
    BY <1>1, <1>4 DEF IInv, TypeOK
  <2>2. Asking' /\ Queues' /\ Fresh'
    BY <1>1, <1>4 DEF IInv, Registry, Asking, Queues, Fresh, Open
  <2>3. Flights'
    <3>1. \A d \in Clients : InFlight(d)' <=> InFlight(d)
      BY <1>4 DEF InFlight
    <3> QED BY <1>1, <1>2, <1>4, <3>1 DEF IInv, Registry, Flights
  <2>4. RegisteredIsHolder'
    BY <1>1, <1>4 DEF IInv, Registry, RegisteredIsHolder
  <2> QED BY <2>1, <2>2, <2>3, <2>4 DEF IInv, Registry
<1> QED BY <1>3, <1>4 DEF Release

-----------------------------------------------------------------------------
(* The empty registry satisfies the invariant.                             *)
LEMMA InitInvariant == Init => IInv
<1> SUFFICES ASSUME Init PROVE IInv
  OBVIOUS
<1>1. TypeOK
  BY ConstantsAssumption DEF Init, TypeOK, Client, Token, NoToken
<1>2. Asking /\ Queues /\ Flights
  BY DEF Init, Asking, Queues, Flights, InFlight
<1>3. Fresh /\ RegisteredIsHolder
  BY DEF Init, Fresh, RegisteredIsHolder, NoToken
<1> QED BY <1>1, <1>2, <1>3 DEF IInv, Registry

(* Every visit to the registry and every await keeps the invariant.        *)
LEMMA NextInvariant == IInv /\ [Next]_vars => IInv'
<1> SUFFICES ASSUME IInv, [Next]_vars PROVE IInv'
  OBVIOUS
<1>1. CASE Next
  BY <1>1, AcquireFreeStep, EnqueueStep, AwaitStep, RegisterGrantStep, CleanUpStep,
     ReleaseStep DEF Next, Progress
<1>2. CASE UNCHANGED vars
  BY <1>2 DEF vars, registry, IInv, TypeOK, Registry, Asking, Queues, Flights, Fresh,
              RegisteredIsHolder, InFlight, Open
<1> QED BY <1>1, <1>2

(* The invariant of the registry holds whatever the clients do.            *)
THEOREM RegistryInvariant == Spec => []IInv
  BY InitInvariant, NextInvariant, PTL DEF Spec

(* The state of the registry is well typed, for every set of clients,      *)
(* names and tokens.                                                       *)
THEOREM TypeCorrect == Spec => []TypeOK
<1>1. IInv => TypeOK
  BY DEF IInv
<1> QED BY <1>1, RegistryInvariant, PTL

(* lock_release_impl never answers "lock_state_missing" or                 *)
(* "lock_token_not_holder", even to clients that release tokens twice.     *)
THEOREM TokensHold == Spec => []RegisteredIsHolder
<1>1. IInv => RegisteredIsHolder
  BY DEF IInv, Registry
<1> QED BY <1>1, RegistryInvariant, PTL

-----------------------------------------------------------------------------
(* Mutual exclusion, of clients that release each grant once.              *)

(* A grant not yet released is registered, and no two clients have it.     *)
Grants ==
  \A c \in Clients : \A g \in held[c] :
    /\ tokenName[g.token] = g.name
    /\ \A d \in Clients : \A h \in held[d] : h.token = g.token => c = d

(* What lock_acquire returned is a token and the name of a lock.           *)
LEMMA GrantTypes ==
  ASSUME TypeOK, NEW c \in Clients, NEW g \in held[c]
  PROVE  g \in Grant /\ g.token \in Token /\ g.name \in Names
  BY DEF TypeOK, Grant

(* The invariant and the discipline of the clients exclude a second owner. *)
LEMMA ExclusiveGrants == IInv /\ Grants => MutualExclusion
<1> SUFFICES ASSUME IInv, Grants, NEW n \in Names, NEW c \in Bearers(n), NEW d \in Bearers(n)
             PROVE  c = d
  BY DEF MutualExclusion
<1>1. ASSUME NEW b \in Bearers(n)
      PROVE  /\ b \in Clients
             /\ \/ \E g \in held[b] : g.token = holder[n] /\ tokenName[holder[n]] = n
                \/ InFlight(b) /\ client[b].token = holder[n] /\ tokenName[holder[n]] = NoName
  <2>1. b \in Clients
    BY DEF Bearers
  <2>2. CASE \E g \in held[b] : g.name = n
    <3>1. PICK g \in held[b] : g.name = n
      BY <2>2
    <3>2. tokenName[g.token] = n /\ g.token \in Token
      BY <2>1, <3>1, GrantTypes DEF Grants, IInv
    <3>3. holder[n] = g.token
      BY <3>2, ConstantsAssumption DEF IInv, Registry, RegisteredIsHolder
    <3> QED BY <2>1, <3>2, <3>3
  <2>3. CASE client[b].pc \in {"waiting", "granted"} /\ client[b].name = n
             /\ client[b].token # NoToken
    BY <2>1, <2>3 DEF InFlight, IInv, Registry, Flights
  <2> QED BY <2>1, <2>2, <2>3 DEF Bearers
<1>2. n # NoName
  BY ConstantsAssumption
<1> QED BY <1>1, <1>2 DEF Grants, IInv, Registry, Flights

(* Clients that release each grant once keep their grants registered.      *)
LEMMA NextGrants ==
  ASSUME IInv, Grants, ~StaleReleases, [Next]_vars
  PROVE  Grants'
<1> USE DEF registry
<1>0. TypeOK
  BY DEF IInv
<1>1. ASSUME NEW c \in Clients, NEW n \in Names, AcquireFree(c, n) PROVE Grants'
  <2> DEFINE new == [token |-> nextToken, name |-> n]
  <2>1. AllocToken = nextToken /\ nextToken \in Token
    BY <1>0, <1>1, AllocatedToken DEF AcquireFree
  <2>2. /\ \A d \in Clients : \A g \in held'[d] : g \in held[d] \/ (d = c /\ g = new)
        /\ \A t \in Token : tokenName'[t] = IF t = nextToken THEN n ELSE tokenName[t]
    BY <1>0, <1>1, <2>1 DEF AcquireFree, TypeOK
  <2>3. ASSUME NEW d \in Clients, NEW g \in held[d]
        PROVE  g.token \in Token \ {nextToken} /\ tokenName[g.token] = g.name
    <3>1. g.token \in Token /\ g.name \in Names /\ tokenName[g.token] = g.name
      BY <1>0, GrantTypes DEF Grants
    <3>2. holder[g.name] = g.token
      BY <3>1, ConstantsAssumption DEF IInv, Registry, RegisteredIsHolder
    <3>3. g.token < nextToken
      BY <3>1, <3>2 DEF IInv, Registry, Fresh
    <3> QED BY <2>1, <3>1, <3>3 DEF Token
  <2>4. new.token = nextToken /\ new.name = n
    OBVIOUS
  <2> HIDE DEF new
  <2> QED BY <2>1, <2>2, <2>3, <2>4 DEF Grants
<1>2. ASSUME NEW c \in Clients, RegisterGrant(c) PROVE Grants'
  <2> DEFINE n == client[c].name
             t == client[c].token
             new == [token |-> t, name |-> n]
  <2>1. InFlight(c) /\ t \in Token /\ tokenName[t] = NoName
    BY <1>2 DEF RegisterGrant, IInv, TypeOK, Client, Registry, Asking, InFlight, Flights
  <2>2. /\ \A d \in Clients : \A g \in held'[d] : g \in held[d] \/ (d = c /\ g = new)
        /\ \A u \in Token : tokenName'[u] = IF u = t THEN n ELSE tokenName[u]
    BY <1>0, <1>2, <2>1 DEF RegisterGrant, TypeOK
  <2>3. new.token = t /\ new.name = n
    OBVIOUS
  <2> HIDE DEF new, t, n
  <2>4. ASSUME NEW d \in Clients, NEW g \in held[d]
        PROVE  g.token \in Token \ {t} /\ tokenName[g.token] = g.name
    BY <1>0, <2>1, GrantTypes, ConstantsAssumption DEF Grants
  <2> QED BY <2>1, <2>2, <2>3, <2>4 DEF Grants
<1>3. ASSUME NEW c \in Clients, NEW t \in Token, Release(c, t) PROVE Grants'
  <2>1. /\ \A d \in Clients : held'[d] \subseteq held[d]
        /\ \A g \in held'[c] : g.token # t
        /\ \A u \in Token : tokenName'[u] = IF u = t THEN NoName ELSE tokenName[u]
    BY <1>0, <1>3 DEF Release, Unregistered, TypeOK
  <2>2. \E h \in held[c] : h.token = t
    BY <1>3 DEF Release, Releasable
  <2>3. ASSUME NEW d \in Clients, NEW g \in held'[d]
        PROVE  g \in held[d] /\ g.token \in Token \ {t}
    <3>1. g \in held[d] /\ g.token \in Token
      BY <1>0, <2>1, GrantTypes
    <3>2. g.token # t
      BY <2>1, <2>2, <3>1 DEF Grants
    <3> QED BY <3>1, <3>2
  <2> QED BY <2>1, <2>3 DEF Grants
<1>4. ASSUME NEW c \in Clients,
             \/ \E n \in Names : Enqueue(c, n)
             \/ Receive(c) \/ Elapse(c) \/ DropReceiver(c) \/ CleanUp(c) \/ Abandon(c)
      PROVE  Grants'
  BY <1>4 DEF Enqueue, Receive, Elapse, DropReceiver, CleanUp, Abandon, Grants
<1>5. CASE UNCHANGED vars
  BY <1>5 DEF vars, Grants
<1> QED BY <1>1, <1>2, <1>3, <1>4, <1>5 DEF Next, Progress

(* As long as clients release each grant once, no two of them hold a lock  *)
(* or are about to, whichever timeouts, teardowns and re-registrations of  *)
(* tokens race with lock_acquire_impl and lock_release_impl.               *)
THEOREM LocksExclude ==
  ASSUME ~StaleReleases
  PROVE  Spec => []MutualExclusion
<1>1. Init => Grants
  BY DEF Init, Grants
<1>2. IInv /\ Grants /\ [Next]_vars => IInv' /\ Grants'
  BY NextInvariant, NextGrants
<1> QED BY <1>1, <1>2, InitInvariant, ExclusiveGrants, PTL DEF Spec

-----------------------------------------------------------------------------
(* Nobody waits in vain.                                                   *)

(* The tickets of a queue are distinct, so a hand-over that discards the   *)
(* closed senders in front discards nobody who listens.                    *)
Tickets ==
  \A n \in Names : \A w \in waiters[n] :
    /\ w.ticket < nextToken
    /\ \A x \in waiters[n] : x.ticket = w.ticket => x = w

Waiting(c) == client[c].pc = "waiting" /\ client[c].token = NoToken

(* Steps that take nobody who waits out of a queue.                        *)
LEMMA KeptQueues ==
  ASSUME Tickets, WaitersQueued, NEW next \in Int, nextToken' = next, nextToken \in Int,
         nextToken <= next, TypeOK,
         \A n \in Names : waiters'[n] \subseteq waiters[n],
         \A c \in Clients : Waiting(c)' =>
           /\ Waiting(c) /\ client'[c].name = client[c].name
           /\ holder[client[c].name] # NoToken => holder'[client[c].name] # NoToken
           /\ \A w \in waiters[client[c].name] :
                w.client = c => w \in waiters'[client[c].name]
  PROVE  Tickets' /\ WaitersQueued'
<1>1. \A n \in Names : \A w \in waiters[n] : w.ticket \in Int
  BY DEF TypeOK, Waiter, Token
<1>2. Tickets'
  BY <1>1 DEF Tickets
<1>3. WaitersQueued'
  BY DEF WaitersQueued, Waiting
<1> QED BY <1>2, <1>3

(* Every step leaves those who still wait in the queue of a held lock.     *)
LEMMA NextWaiting ==
  ASSUME IInv, Tickets, WaitersQueued, [Next]_vars
  PROVE  Tickets' /\ WaitersQueued'
<1> USE DEF registry
<1>0. TypeOK /\ nextToken \in Int
  BY DEF IInv, TypeOK
<1>1. ASSUME NEW c \in Clients, NEW n \in Names, AcquireFree(c, n)
      PROVE  Tickets' /\ WaitersQueued'
  <2>1. nextToken' = nextToken + 1 /\ AllocToken \in Token
    BY <1>0, <1>1, AllocatedToken DEF AcquireFree
  <2>2. /\ UNCHANGED <<waiters, client>>
        /\ \A m \in Names : holder[m] # NoToken => holder'[m] # NoToken
    BY <1>0, <1>1, <2>1 DEF AcquireFree, TypeOK, Token, NoToken
  <2>3. \A d \in Clients : Waiting(d) => client[d].name \in Names
    BY DEF Waiting, IInv, Registry, Asking
  <2> QED BY <1>0, <2>1, <2>2, <2>3, KeptQueues DEF Waiting
<1>2. ASSUME NEW c \in Clients, NEW n \in Names, Enqueue(c, n)
      PROVE  Tickets' /\ WaitersQueued'
  <2> DEFINE entry == [client |-> c, ticket |-> nextToken]
  <2>1. /\ AllocToken = nextToken /\ nextToken' = nextToken + 1
        /\ waiters' = [waiters EXCEPT ![n] = @ \cup {entry}]
        /\ client' = [client EXCEPT ![c] = [pc |-> "waiting", name |-> n, token |-> NoToken]]
        /\ holder[n] # NoToken /\ holder' = holder
    BY <1>0, <1>2, AllocatedToken DEF Enqueue
  <2>2. /\ \A m \in Names : waiters'[m] = IF m = n THEN waiters[n] \cup {entry} ELSE waiters[m]
        /\ client'[c].name = n
        /\ \A d \in Clients \ {c} : client'[d] = client[d]
    BY <1>0, <2>1 DEF TypeOK
  <2>3. entry.client = c /\ entry.ticket = nextToken
    OBVIOUS
  <2> HIDE DEF entry
  <2>4. \A m \in Names : \A w \in waiters[m] : w.ticket \in Int /\ w.ticket < nextToken
    BY <1>0 DEF TypeOK, Waiter, Token, Tickets
  <2>5. Tickets'
    BY <1>0, <2>1, <2>2, <2>3, <2>4 DEF Tickets
  <2>6. \A d \in Clients : Waiting(d) => client[d].name \in Names
    BY DEF Waiting, IInv, Registry, Asking
  <2>7. WaitersQueued'
    <3> SUFFICES ASSUME NEW d \in Clients, Waiting(d)'
                 PROVE  /\ holder'[client'[d].name] # NoToken
                        /\ \E w \in waiters'[client'[d].name] : w.client = d
      BY DEF WaitersQueued, Waiting
    <3>1. CASE d = c
      BY <2>1, <2>2, <2>3, <3>1
    <3>2. CASE d # c
      <4>1. Waiting(d) /\ client'[d] = client[d] /\ client[d].name \in Names
        BY <2>2, <2>6, <3>2 DEF Waiting
      <4>2. waiters[client[d].name] \subseteq waiters'[client[d].name]
        BY <2>2, <4>1
      <4> QED BY <2>1, <4>1, <4>2 DEF WaitersQueued, Waiting
    <3> QED BY <3>1, <3>2
  <2> QED BY <2>5, <2>7
<1>3. ASSUME NEW c \in Clients, Receive(c) \/ Elapse(c) \/ DropReceiver(c) \/ Abandon(c)
      PROVE  Tickets' /\ WaitersQueued'
  <2>1. UNCHANGED <<holder, waiters, nextToken>>
    BY <1>3 DEF Receive, Elapse, DropReceiver, Abandon
  <2>2. \A d \in Clients : Waiting(d)' => Waiting(d) /\ client'[d].name = client[d].name
    BY <1>0, <1>3 DEF Receive, Elapse, DropReceiver, Abandon, Waiting, TypeOK, Client
  <2> QED BY <1>0, <2>1, <2>2, KeptQueues
<1>4. ASSUME NEW c \in Clients, RegisterGrant(c) PROVE Tickets' /\ WaitersQueued'
  <2>1. UNCHANGED <<holder, waiters, nextToken>>
    BY <1>4 DEF RegisterGrant
  <2>2. \A d \in Clients : Waiting(d)' => Waiting(d) /\ client'[d].name = client[d].name
    BY <1>0, <1>4 DEF RegisterGrant, Waiting, TypeOK, Client
  <2> QED BY <1>0, <2>1, <2>2, KeptQueues
<1>5. ASSUME NEW c \in Clients, CleanUp(c) PROVE Tickets' /\ WaitersQueued'
  <2>1. /\ UNCHANGED <<holder, nextToken>>
        /\ waiters' = [waiters EXCEPT ![client[c].name] = OpenWaiters(client[c].name)]
    BY <1>5 DEF CleanUp
  <2>2. \A d \in Clients : Waiting(d)' => Waiting(d) /\ client'[d].name = client[d].name
    BY <1>0, <1>5 DEF CleanUp, Waiting, TypeOK, Client
  <2>3. /\ \A n \in Names : waiters'[n] \subseteq waiters[n]
        /\ \A n \in Names : \A w \in waiters[n] : Open(w.client) => w \in waiters'[n]
    BY <1>0, <2>1 DEF OpenWaiters, TypeOK
  <2>4. \A d \in Clients : Waiting(d) => Open(d) /\ client[d].name \in Names
    BY DEF Waiting, Open, IInv, Registry, Asking
  <2> QED BY <1>0, <2>1, <2>2, <2>3, <2>4, KeptQueues
<1>6. ASSUME NEW c \in Clients, NEW t \in Token, Release(c, t)
      PROVE  Tickets' /\ WaitersQueued'
  <2> DEFINE n == tokenName[t]
  <2>1. \A d \in Clients : Waiting(d) => Open(d) /\ client[d].name \in Names
    BY DEF Waiting, Open, IInv, Registry, Asking
  <2>2. nextToken' = nextToken
    BY <1>6 DEF Release
  <2>3. CASE n # NoName /\ n \in locks /\ holder[n] = t /\ HandOver(n, t)
    <3>1. n \in Names
      BY <1>0, <2>3 DEF TypeOK
    <3>2. CASE \E w \in NextWaiter(n) :
                 /\ waiters' = [waiters EXCEPT ![n] = {x \in @ : x.ticket > w.ticket}]
                 /\ client' = [client EXCEPT ![w.client].token = t]
                 /\ UNCHANGED <<locks, holder>>
      <4>1. PICK w \in NextWaiter(n) :
              /\ waiters' = [waiters EXCEPT ![n] = {x \in @ : x.ticket > w.ticket}]
              /\ client' = [client EXCEPT ![w.client].token = t]
              /\ UNCHANGED <<locks, holder>>
        BY <3>2
      <4>2. w \in waiters[n] /\ w.client \in Clients
        BY <1>0, <3>1, <4>1 DEF NextWaiter, OpenWaiters, TypeOK, Waiter
      <4>3. \A d \in Clients : Waiting(d)' =>
              Waiting(d) /\ d # w.client /\ client'[d].name = client[d].name
        <5>1. \A d \in Clients : /\ client'[d].pc = client[d].pc
                                 /\ client'[d].name = client[d].name
                                 /\ client'[d].token = IF d = w.client THEN t ELSE client[d].token
          <6>1. w.client \in Clients /\ t \in Token
            BY <4>2
          <6>2. SendsToken(w.client, t)
            BY <4>1 DEF SendsToken
          <6> QED BY ONLY <1>0, <6>1, <6>2, SentClient
        <5>2. t # NoToken
          BY DEF Token, NoToken
        <5> QED BY <5>1, <5>2 DEF Waiting
      <4>4. \A m \in Names : waiters'[m] \subseteq waiters[m]
        BY <1>0, <4>1 DEF TypeOK
      <4>5. ASSUME NEW d \in Clients, Waiting(d)', NEW x \in waiters[client[d].name],
                   x.client = d
            PROVE  x \in waiters'[client[d].name]
        <5>1. Open(d) /\ client[d].name \in Names /\ d # w.client
          BY <2>1, <4>3, <4>5
        <5>2. CASE client[d].name # n
          BY <1>0, <4>1, <5>1, <5>2 DEF TypeOK
        <5>3. CASE client[d].name = n
          <6>1. x \in OpenWaiters(n)
            BY <4>5, <5>1, <5>3 DEF OpenWaiters
          <6>2. w.ticket <= x.ticket /\ x.ticket \in Int /\ w.ticket \in Int
            BY <1>0, <3>1, <4>1, <4>2, <5>3, <6>1 DEF NextWaiter, TypeOK, Waiter, Token
          <6>3. x.ticket # w.ticket
            BY <3>1, <4>2, <4>5, <5>1, <5>3 DEF Tickets
          <6>4. waiters'[n] = {y \in waiters[n] : y.ticket > w.ticket}
            BY <1>0, <3>1, <4>1 DEF TypeOK
          <6> QED BY <4>5, <5>3, <6>2, <6>3, <6>4
        <5> QED BY <5>2, <5>3
      <4> QED BY <1>0, <2>2, <4>1, <4>3, <4>4, <4>5, KeptQueues
    <3>3. CASE /\ OpenWaiters(n) = {}
               /\ waiters' = [waiters EXCEPT ![n] = {}]
               /\ holder' = [holder EXCEPT ![n] = NoToken]
               /\ UNCHANGED client
      <4>1. \A d \in Clients : Waiting(d) => client[d].name # n
        BY <2>1, <3>3 DEF WaitersQueued, Waiting, OpenWaiters
      <4>2. /\ \A m \in Names : waiters'[m] \subseteq waiters[m]
            /\ \A m \in Names \ {n} : waiters'[m] = waiters[m] /\ holder'[m] = holder[m]
        BY <1>0, <3>3 DEF TypeOK
      <4>3. \A d \in Clients : Waiting(d)' <=> Waiting(d)
        BY <3>3 DEF Waiting
      <4> QED BY <1>0, <2>1, <2>2, <3>3, <4>1, <4>2, <4>3, KeptQueues
    <3> QED BY <2>3, <3>2, <3>3 DEF HandOver
  <2>4. CASE UNCHANGED <<locks, holder, waiters, client>>
    BY <1>0, <2>2, <2>4, KeptQueues DEF Waiting
  <2> QED BY <1>6, <2>3, <2>4 DEF Release
<1>7. CASE UNCHANGED vars
  BY <1>7 DEF vars, Tickets, WaitersQueued
<1> QED BY <1>1, <1>2, <1>3, <1>4, <1>5, <1>6, <1>7 DEF Next, Progress

(* A client without an answer is in the queue of a held lock: its sender   *)
(* is never dropped, so the arm of lock_acquire_impl that retries ("this   *)
(* should not happen") cannot be reached.                                  *)
THEOREM NoneWaitsInVain == Spec => []WaitersQueued
<1>1. Init => Tickets /\ WaitersQueued
  BY DEF Init, Tickets, WaitersQueued
<1>2. IInv /\ Tickets /\ WaitersQueued /\ [Next]_vars
        => IInv' /\ Tickets' /\ WaitersQueued'
  BY NextInvariant, NextWaiting
<1> QED BY <1>1, <1>2, InitInvariant, PTL DEF Spec

-----------------------------------------------------------------------------
(* The promise of LockService, to clients on one thread that are not torn  *)
(* down.                                                                   *)

(* Nobody is between the timer and the drop of the receiver, or dead, and  *)
(* every lock that is held has a client that holds it.                     *)
Serving ==
  Promised =>
    /\ \A c \in Clients : client[c].pc \notin {"expiring", "dead"}
    /\ \A n \in Names : holder[n] # NoToken => Bearers(n) # {}

LockInv == IInv /\ Grants /\ Tickets /\ WaitersQueued /\ Serving

(* What a step shows to those who know the service only.                   *)
Seen == [Service!ServiceNext]_<<Owners, Lines>>

(* A grant not yet released is the holder of its lock.                     *)
LEMMA GrantHolds ==
  ASSUME IInv, Grants, NEW c \in Clients, NEW g \in held[c]
  PROVE  /\ g.token \in Token /\ g.name \in Names \ {NoName} /\ g.name \in locks
         /\ tokenName[g.token] = g.name /\ holder[g.name] = g.token
<1>1. g.token \in Token /\ g.name \in Names
  BY GrantTypes DEF IInv
<1>2. tokenName[g.token] = g.name /\ g.name # NoName
  BY <1>1, ConstantsAssumption DEF Grants
<1> QED BY <1>1, <1>2 DEF IInv, Registry, RegisteredIsHolder

(* Nobody owns a free lock.                                                *)
LEMMA FreeUnowned ==
  ASSUME IInv, Grants, NEW n \in Names, holder[n] = NoToken
  PROVE  Bearers(n) = {}
<1> SUFFICES ASSUME NEW b \in Bearers(n) PROVE FALSE
  OBVIOUS
<1>1. b \in Clients
  BY DEF Bearers
<1>2. CASE \E g \in held[b] : g.name = n
  <2>1. PICK g \in held[b] : g.name = n
    BY <1>2
  <2>2. g.token \in Token /\ holder[n] = g.token
    BY <1>1, <2>1, GrantHolds
  <2> QED BY <2>2 DEF Token, NoToken
<1>3. CASE InFlight(b) /\ client[b].name = n
  BY <1>1, <1>3 DEF IInv, Registry, Flights, InFlight
<1> QED BY <1>2, <1>3 DEF Bearers, InFlight

(* A lock has one owner.                                                   *)
LEMMA OnlyOwner ==
  ASSUME IInv, Grants, NEW n \in Names, NEW c \in Bearers(n)
  PROVE  Bearers(n) = {c}
BY ExclusiveGrants DEF MutualExclusion

(* A queued sender is a waiter, and its client is a client.                *)
LEMMA QueuedTypes ==
  ASSUME IInv, NEW n \in Names, NEW w \in waiters[n]
  PROVE  w \in Waiter /\ w.client \in Clients /\ w.ticket \in Token
BY DEF IInv, TypeOK, Waiter

(* The setting does not change, and where nothing is promised nothing is   *)
(* seen.                                                                   *)
LEMMA NothingPromised ==
  ASSUME ~Promised, UNCHANGED setting
  PROVE  Seen /\ Serving'
<1>1. Promised' = FALSE
  BY DEF Promised
<1>2. Owners' = Owners /\ Lines' = Lines
  BY <1>1 DEF Owners, Lines
<1> QED BY <1>1, <1>2 DEF Seen, Serving

(* A step that moves no owner and nobody in line is not seen.              *)
LEMMA Unseen ==
  ASSUME Serving, Promised, UNCHANGED setting,
         \A n \in Names : /\ Bearers(n)' = Bearers(n)
                          /\ OpenWaiters(n)' = OpenWaiters(n)
                          /\ holder'[n] = holder[n],
         \A c \in Clients : client'[c].pc \notin {"expiring", "dead"}
  PROVE  Seen /\ Serving'
<1>1. Promised' = TRUE
  BY DEF Promised
<1>2. Owners' = Owners /\ Lines' = Lines
  BY <1>1 DEF Owners, Lines
<1>3. Serving'
  BY DEF Serving
<1> QED BY <1>2, <1>3 DEF Seen

(* A step that changes the owner of a lock or its line is seen as such.    *)
LEMMA SeenOwner ==
  ASSUME Promised, UNCHANGED setting, NEW n \in Names, NEW S,
         Bearers(n)' = S,
         \A m \in Names \ {n} : Bearers(m)' = Bearers(m)
  PROVE  Owners' = [Owners EXCEPT ![n] = S]
<1>1. Promised' = TRUE
  BY DEF Promised
<1>2. /\ Owners = [m \in Names |-> Bearers(m)]
      /\ Owners' = [m \in Names |-> Bearers(m)']
  BY <1>1 DEF Owners
<1> QED BY <1>2

LEMMA SeenLine ==
  ASSUME Promised, UNCHANGED setting, NEW n \in Names, NEW S,
         OpenWaiters(n)' = S,
         \A m \in Names \ {n} : OpenWaiters(m)' = OpenWaiters(m)
  PROVE  Lines' = [Lines EXCEPT ![n] = S]
<1>1. Promised' = TRUE
  BY DEF Promised
<1>2. /\ Lines = [m \in Names |-> OpenWaiters(m)]
      /\ Lines' = [m \in Names |-> OpenWaiters(m)']
  BY <1>1 DEF Lines
<1> QED BY <1>2

(* What the service sees of a lock.                                        *)
LEMMA SeenNow ==
  ASSUME Promised, NEW n \in Names
  PROVE  Owners[n] = Bearers(n) /\ Lines[n] = OpenWaiters(n)
BY DEF Owners, Lines

LEMMA SameLines ==
  ASSUME Promised, UNCHANGED setting, \A n \in Names : OpenWaiters(n)' = OpenWaiters(n)
  PROVE  Lines' = Lines
<1>1. Promised' = TRUE
  BY DEF Promised
<1> QED BY <1>1 DEF Lines

LEMMA SameOwners ==
  ASSUME Promised, UNCHANGED setting, \A n \in Names : Bearers(n)' = Bearers(n)
  PROVE  Owners' = Owners
<1>1. Promised' = TRUE
  BY DEF Promised
<1> QED BY <1>1 DEF Owners

(* A step that moves no client and no queue keeps every line.              *)
LEMMA SameQueues ==
  ASSUME UNCHANGED <<waiters, client>>
  PROVE  \A n \in Names : OpenWaiters(n)' = OpenWaiters(n)
BY DEF OpenWaiters, Open

(* lock_acquire on a free lock takes it.                                   *)
LEMMA TakeStep ==
  ASSUME LockInv, Promised, UNCHANGED setting, NEW c \in Clients, NEW n \in Names,
         AcquireFree(c, n)
  PROVE  Seen /\ Serving'
<1> DEFINE new == [token |-> nextToken, name |-> n]
<1>1. IInv /\ Grants /\ TypeOK /\ Serving
  BY DEF LockInv, IInv
<1>2. /\ AllocToken = nextToken /\ nextToken \in Token
      /\ holder[n] = NoToken
      /\ UNCHANGED <<waiters, client>>
      /\ \A d \in Clients : held'[d] = IF d = c THEN held[c] \cup {new} ELSE held[d]
      /\ \A m \in Names \ {n} : holder'[m] = holder[m]
  BY <1>1, AllocatedToken DEF AcquireFree, TypeOK
<1>3. Bearers(n) = {}
  BY <1>1, <1>2, FreeUnowned
<1>4. new.name = n
  OBVIOUS
<1> HIDE DEF new
<1>5. ASSUME NEW m \in Names, NEW d \in Clients
      PROVE  d \in Bearers(m)' <=> d \in Bearers(m) \/ (d = c /\ m = n)
  BY <1>2, <1>4 DEF Bearers
<1>6. /\ Bearers(n)' = {c}
      /\ \A m \in Names \ {n} : Bearers(m)' = Bearers(m)
  <2>1. \A m \in Names : Bearers(m) \subseteq Clients /\ Bearers(m)' \subseteq Clients
    BY DEF Bearers
  <2> QED BY <1>3, <1>5, <2>1
<1>7. Owners' = [Owners EXCEPT ![n] = {c}]
  BY <1>6, SeenOwner
<1>8. Lines' = Lines
  BY <1>2, SameQueues, SameLines
<1>9. Owners[n] = {}
  BY <1>3, SeenNow
<1>10. Service!Take(c, n)
  BY <1>7, <1>8, <1>9, Zenon DEF Service!Take
<1>11. Serving'
  BY <1>1, <1>2, <1>6 DEF Serving
<1> QED BY <1>10, <1>11, Zenon DEF Seen, Service!ServiceNext

(* lock_acquire on a held lock joins its line, behind everybody.           *)
LEMMA JoinStep ==
  ASSUME LockInv, Promised, UNCHANGED setting, NEW c \in Clients, NEW n \in Names,
         Enqueue(c, n)
  PROVE  Seen /\ Serving'
<1> DEFINE entry == [client |-> c, ticket |-> nextToken]
<1>1. IInv /\ Tickets /\ TypeOK /\ Serving
  BY DEF LockInv, IInv
<1>2. /\ AllocToken = nextToken /\ nextToken \in Token
      /\ client[c].pc = "idle" /\ holder[n] # NoToken
      /\ waiters' = [waiters EXCEPT ![n] = @ \cup {entry}]
      /\ client' = [client EXCEPT ![c] = [pc |-> "waiting", name |-> n, token |-> NoToken]]
      /\ UNCHANGED <<holder, held>>
  BY <1>1, AllocatedToken DEF Enqueue
<1>3. /\ client'[c].pc = "waiting" /\ client'[c].token = NoToken
      /\ \A d \in Clients \ {c} : client'[d] = client[d]
      /\ \A m \in Names : waiters'[m] = IF m = n THEN waiters[n] \cup {entry} ELSE waiters[m]
  BY <1>1, <1>2 DEF TypeOK
<1>4. entry.client = c
  OBVIOUS
<1> HIDE DEF entry
<1>5. \A m \in Names : \A w \in waiters[m] : w.client \in Clients \ {c}
  <2>1. \A m \in Names : \A w \in waiters[m] : w.client \in Clients
    BY <1>1, QueuedTypes
  <2> QED BY <1>1, <1>2, <2>1 DEF IInv, Registry, Queues
<1>6. \A m \in Names : Bearers(m)' = Bearers(m)
  BY <1>2, <1>3 DEF Bearers
<1>7. /\ OpenWaiters(n)' = OpenWaiters(n) \cup {entry}
      /\ \A m \in Names \ {n} : OpenWaiters(m)' = OpenWaiters(m)
  BY <1>3, <1>4, <1>5 DEF OpenWaiters, Open
<1>8. Lines' = [Lines EXCEPT ![n] = OpenWaiters(n) \cup {entry}]
  <2> DEFINE S == OpenWaiters(n) \cup {entry}
  <2>1. OpenWaiters(n)' = S
    BY <1>7
  <2> HIDE DEF S
  <2>2. Lines' = [Lines EXCEPT ![n] = S]
    BY <1>7, <2>1, SeenLine
  <2> QED BY <2>2 DEF S
<1>9. Owners' = Owners
  BY <1>6, SameOwners
<1>10. Owners[n] # {} /\ Lines[n] = OpenWaiters(n)
  BY <1>1, <1>2, SeenNow DEF Serving
<1>11. \A w \in Lines[n] : w.ticket < nextToken
  BY <1>1, <1>10 DEF Tickets, OpenWaiters
<1>12. Lines' = [Lines EXCEPT ![n] = @ \cup {entry}]
  BY <1>8, <1>10
<1>13. Service!Join(c, n)
  BY <1>2, <1>9, <1>10, <1>11, <1>12, Zenon DEF Service!Join, entry
<1>14. Serving'
  BY <1>1, <1>2, <1>3, <1>6 DEF Serving
<1> QED BY <1>13, <1>14, Zenon DEF Seen, Service!ServiceNext

(* A timer that elapses takes its client out of line.                      *)
LEMMA GiveUpStep ==
  ASSUME LockInv, Promised, UNCHANGED setting, NEW c \in Clients, Elapse(c)
  PROVE  Seen /\ Serving'
<1>1. IInv /\ TypeOK /\ Serving /\ WaitersQueued
  BY DEF LockInv, IInv
<1>0. PICK n \in Names : client[c].name = n
  BY <1>1 DEF Elapse, IInv, Registry, Asking
<1>2. /\ client[c].pc = "waiting" /\ client[c].token = NoToken
      /\ client' = [client EXCEPT ![c].pc = "expired"]
      /\ UNCHANGED <<holder, waiters, held>>
  BY DEF Elapse, registry, Promised
<1>3. \A d \in Clients : /\ client'[d].pc = IF d = c THEN "expired" ELSE client[d].pc
                         /\ client'[d].name = client[d].name
                         /\ client'[d].token = client[d].token
  BY <1>1, <1>2, MovedClient DEF MovesClient
<1>4. \A m \in Names : Bearers(m)' = Bearers(m)
  BY <1>2, <1>3 DEF Bearers
<1>5. \A m \in Names : \A w \in waiters[m] : w.client \in Clients /\ (w.client = c => m = n)
  <2>1. \A m \in Names : \A w \in waiters[m] : w.client \in Clients
    BY <1>1, QueuedTypes
  <2> QED BY <1>0, <1>1, <1>2, <2>1 DEF IInv, Registry, Queues
<1>6. /\ OpenWaiters(n)' = {w \in OpenWaiters(n) : w.client # c}
      /\ \A m \in Names \ {n} : OpenWaiters(m)' = OpenWaiters(m)
  BY <1>2, <1>3, <1>5 DEF OpenWaiters, Open
<1>7. \E w \in OpenWaiters(n) : w.client = c
  BY <1>0, <1>1, <1>2 DEF WaitersQueued, OpenWaiters, Open
<1>8. Lines[n] = OpenWaiters(n)
  BY <1>2, SeenNow
<1>9. Lines' = [Lines EXCEPT ![n] = {w \in @ : w.client # c}]
  <2> DEFINE S == {w \in OpenWaiters(n) : w.client # c}
  <2>1. OpenWaiters(n)' = S
    BY <1>6
  <2> HIDE DEF S
  <2>2. Lines' = [Lines EXCEPT ![n] = S]
    BY <1>2, <1>6, <2>1, SeenLine
  <2> QED BY <1>8, <2>2 DEF S
<1>10. Owners' = Owners
  BY <1>4, SameOwners
<1>11. Service!GiveUp(c, n)
  BY <1>7, <1>8, <1>9, <1>10, Zenon DEF Service!GiveUp
<1>12. Serving'
  BY <1>1, <1>2, <1>3, <1>4 DEF Serving
<1> QED BY <1>2, <1>11, <1>12, Zenon DEF Seen, Service!ServiceNext

(* A grant taken, registered, or a queue swept of closed channels is       *)
(* nothing the service knows of.                                           *)
LEMMA UnseenSteps ==
  ASSUME LockInv, Promised, UNCHANGED setting, NEW c \in Clients,
         Receive(c) \/ RegisterGrant(c) \/ CleanUp(c)
  PROVE  Seen /\ Serving'
<1>1. IInv /\ TypeOK /\ Serving
  BY DEF LockInv, IInv
<1>2. \A m \in Names : \A w \in waiters[m] : w.client \in Clients
  BY <1>1, QueuedTypes
<1>3. CASE Receive(c)
  <2>1. /\ client[c].pc = "waiting" /\ client[c].token # NoToken
        /\ client' = [client EXCEPT ![c].pc = "granted"]
        /\ UNCHANGED <<holder, waiters, held>>
    BY <1>3 DEF Receive, registry
  <2>2. \A d \in Clients : /\ client'[d].pc = IF d = c THEN "granted" ELSE client[d].pc
                           /\ client'[d].name = client[d].name
                           /\ client'[d].token = client[d].token
    BY <1>1, <2>1, MovedClient DEF MovesClient
  <2>3. \A m \in Names : \A w \in waiters[m] : w.client # c
    BY <1>1, <2>1 DEF IInv, Registry, Queues, Open
  <2>4. \A m \in Names : Bearers(m)' = Bearers(m)
    BY <2>1, <2>2 DEF Bearers
  <2>5. \A m \in Names : OpenWaiters(m)' = OpenWaiters(m)
    BY <1>2, <2>1, <2>2, <2>3 DEF OpenWaiters, Open
  <2>6. \A d \in Clients : client'[d].pc \notin {"expiring", "dead"}
    BY <1>1, <2>2 DEF Serving
  <2> QED BY <1>1, <2>1, <2>4, <2>5, <2>6, Unseen
<1>4. CASE RegisterGrant(c)
  <2> DEFINE n == client[c].name
             new == [token |-> client[c].token, name |-> n]
  <2>1. /\ client[c].pc = "granted" /\ client[c].token # NoToken /\ n \in Names
        /\ client' = [client EXCEPT ![c] = [pc |-> "idle", name |-> n, token |-> NoToken]]
        /\ held' = [held EXCEPT ![c] = @ \cup {new}]
        /\ UNCHANGED <<holder, waiters>>
    BY <1>1, <1>4 DEF RegisterGrant, IInv, Registry, Asking
  <2>2. new.name = n
    OBVIOUS
  <2> HIDE DEF new
  <2>3. /\ client'[c].pc = "idle"
        /\ \A d \in Clients \ {c} : client'[d] = client[d]
        /\ \A d \in Clients : held'[d] = IF d = c THEN held[c] \cup {new} ELSE held[d]
    BY <1>1, <2>1 DEF TypeOK
  <2>4. \A m \in Names : Bearers(m)' = Bearers(m)
    <3> SUFFICES ASSUME NEW m \in Names, NEW d \in Clients
                 PROVE  d \in Bearers(m)' <=> d \in Bearers(m)
      BY DEF Bearers
    <3>1. CASE d # c
      BY <2>3, <3>1 DEF Bearers
    <3>2. CASE d = c
      BY <2>1, <2>2, <2>3, <3>2 DEF Bearers
    <3> QED BY <3>1, <3>2
  <2>5. \A m \in Names : OpenWaiters(m)' = OpenWaiters(m)
    BY <1>2, <2>1, <2>3 DEF OpenWaiters, Open
  <2>6. \A d \in Clients : client'[d].pc \notin {"expiring", "dead"}
    BY <1>1, <2>3 DEF Serving
  <2> QED BY <1>1, <2>1, <2>4, <2>5, <2>6, Unseen
<1>5. CASE CleanUp(c)
  <2> DEFINE n == client[c].name
  <2>1. /\ client[c].pc = "expired" /\ n \in Names
        /\ client' = [client EXCEPT ![c] = [pc |-> "idle", name |-> n, token |-> NoToken]]
        /\ waiters' = [waiters EXCEPT ![n] = OpenWaiters(n)]
        /\ UNCHANGED <<holder, held>>
    BY <1>1, <1>5 DEF CleanUp, IInv, Registry, Asking
  <2> HIDE DEF n
  <2>2. /\ client'[c].pc = "idle"
        /\ \A d \in Clients \ {c} : client'[d] = client[d]
        /\ \A m \in Names : waiters'[m] = IF m = n THEN OpenWaiters(n) ELSE waiters[m]
    BY <1>1, <2>1 DEF TypeOK
  <2>3. \A m \in Names : Bearers(m)' = Bearers(m)
    BY <2>1, <2>2 DEF Bearers
  <2>4. \A d \in Clients : Open(d)' <=> Open(d)
    BY <2>1, <2>2 DEF Open
  <2>5. \A m \in Names : OpenWaiters(m)' = OpenWaiters(m)
    <3>1. \A m \in Names : OpenWaiters(m) = {w \in waiters[m] : Open(w.client)}
      BY DEF OpenWaiters
    <3>2. \A m \in Names : OpenWaiters(m)' = {w \in waiters'[m] : Open(w.client)'}
      BY DEF OpenWaiters
    <3> QED BY <1>2, <2>2, <2>4, <3>1, <3>2
  <2>6. \A d \in Clients : client'[d].pc \notin {"expiring", "dead"}
    BY <1>1, <2>2 DEF Serving
  <2> QED BY <1>1, <2>1, <2>3, <2>5, <2>6, Unseen
<1> QED BY <1>3, <1>4, <1>5

(* A release passes the lock to the first in line, or frees it.            *)
LEMMA PassStep ==
  ASSUME LockInv, Promised, ~StaleReleases, UNCHANGED setting,
         NEW c \in Clients, NEW t \in Token, Release(c, t)
  PROVE  Seen /\ Serving'
<1>1. IInv /\ TypeOK /\ Serving /\ Grants /\ Tickets
  BY DEF LockInv, IInv
<1>2. PICK g \in held[c] : g.token = t
  BY DEF Release, Releasable
<1>0. PICK n \in Names : n = tokenName[t] /\ g.name = n
  BY <1>1, <1>2, GrantHolds
<1>3. n # NoName /\ n \in locks /\ holder[n] = t
  BY <1>0, <1>1, <1>2, GrantHolds
<1>4. /\ client[c].pc = "idle" /\ HandOver(n, t)
      /\ held' = [held EXCEPT ![c] = {h \in @ : h.token # t}]
  BY <1>0, <1>3 DEF Release
<1>5. /\ \A d \in Clients \ {c} : held'[d] = held[d]
      /\ held'[c] = {h \in held[c] : h.token # t}
  BY <1>1, <1>4 DEF TypeOK
<1>6. ASSUME NEW h \in held[c]
      PROVE  h.token = t <=> h.name = n
  <2>1. h.token \in Token /\ tokenName[h.token] = h.name /\ holder[h.name] = h.token
    BY <1>1, GrantHolds
  <2> QED BY <1>0, <1>3, <2>1
<1>7. Bearers(n) = {c}
  <2>1. c \in Bearers(n)
    BY <1>0, <1>2 DEF Bearers
  <2> QED BY <1>1, <1>3, <2>1, OnlyOwner
<1>8. /\ ~ \E h \in held'[c] : h.name = n
      /\ \A m \in Names \ {n} : (\E h \in held'[c] : h.name = m) <=> (\E h \in held[c] : h.name = m)
  BY <1>5, <1>6
<1>9. \A d \in Clients \ {c} : d \notin Bearers(n)
  BY <1>7
<1>10. Owners[n] = {c} /\ Lines[n] = OpenWaiters(n)
  BY <1>3, <1>7, SeenNow
<1>11. CASE \E w \in NextWaiter(n) :
              /\ waiters' = [waiters EXCEPT ![n] = {x \in @ : x.ticket > w.ticket}]
              /\ client' = [client EXCEPT ![w.client].token = t]
              /\ UNCHANGED <<locks, holder>>
  <2>1. PICK w \in NextWaiter(n) :
          /\ waiters' = [waiters EXCEPT ![n] = {x \in @ : x.ticket > w.ticket}]
          /\ client' = [client EXCEPT ![w.client].token = t]
          /\ UNCHANGED <<locks, holder>>
    BY <1>11
  <2> DEFINE b == w.client
  <2>2. /\ w \in OpenWaiters(n) /\ w \in waiters[n] /\ w.ticket \in Token
        /\ \A x \in OpenWaiters(n) : w.ticket <= x.ticket
    BY <1>1, <1>3, <2>1, QueuedTypes DEF NextWaiter, OpenWaiters
  <2>3. /\ b \in Clients /\ client[b].pc = "waiting" /\ client[b].name = n /\ b # c
    <3>1. b \in Clients
      BY <1>1, <1>3, <2>2, QueuedTypes
    <3>2. Open(b) /\ client[b].pc = "waiting"
      BY <1>1, <2>2, <3>1 DEF OpenWaiters, Open, Serving
    <3> QED BY <1>1, <1>3, <1>4, <2>2, <3>1, <3>2 DEF IInv, Registry, Queues
  <2> HIDE DEF b
  <2>4. \A d \in Clients : /\ client'[d].pc = client[d].pc
                           /\ client'[d].name = client[d].name
                           /\ client'[d].token = IF d = b THEN t ELSE client[d].token
    BY <1>1, <2>1, <2>3, SentClient DEF SendsToken, b
  <2>5. t # NoToken
    BY DEF Token, NoToken
  <2>6. b \in Bearers(n)'
    BY <2>3, <2>4, <2>5 DEF Bearers
  <2>7. \A d \in Clients \ {b} : d \notin Bearers(n)'
    <3>1. c \notin Bearers(n)'
      BY <1>4, <1>8, <2>3, <2>4 DEF Bearers
    <3>2. ASSUME NEW d \in Clients \ {b, c} PROVE d \notin Bearers(n)'
      BY <1>5, <1>9, <2>4 DEF Bearers
    <3> QED BY <3>1, <3>2
  <2>8. Bearers(n)' = {b}
    BY <2>3, <2>6, <2>7 DEF Bearers
  <2>9. \A m \in Names \ {n} : Bearers(m)' = Bearers(m)
    <3> SUFFICES ASSUME NEW m \in Names \ {n}, NEW d \in Clients
                 PROVE  d \in Bearers(m)' <=> d \in Bearers(m)
      BY DEF Bearers
    <3>1. CASE d = c
      BY <1>4, <1>8, <2>3, <2>4, <3>1 DEF Bearers
    <3>2. CASE d = b
      BY <1>5, <2>3, <2>4, <3>2 DEF Bearers
    <3>3. CASE d # c /\ d # b
      BY <1>5, <2>4, <3>3 DEF Bearers
    <3> QED BY <3>1, <3>2, <3>3
  <2>10. /\ waiters'[n] = {x \in waiters[n] : x.ticket > w.ticket}
         /\ \A m \in Names \ {n} : waiters'[m] = waiters[m]
    BY <1>1, <1>3, <2>1 DEF TypeOK
  <2>11. \A m \in Names : \A x \in waiters[m] :
           x.client \in Clients /\ (Open(x.client)' <=> Open(x.client))
    BY <1>1, <2>4, QueuedTypes DEF Open
  <2>12. OpenWaiters(n)' = OpenWaiters(n) \ {w}
    <3>1. ASSUME NEW x \in OpenWaiters(n) PROVE x.ticket > w.ticket <=> x # w
      <4>1. x \in waiters[n] /\ x.ticket \in Int /\ w.ticket \in Int
        BY <1>1, <1>3, <2>2, QueuedTypes DEF OpenWaiters, Token
      <4>2. x.ticket = w.ticket => x = w
        BY <1>1, <1>3, <2>2, <4>1 DEF Tickets
      <4> QED BY <2>2, <4>1, <4>2
    <3> QED BY <1>3, <2>10, <2>11, <3>1 DEF OpenWaiters
  <2>13. \A m \in Names \ {n} : OpenWaiters(m)' = OpenWaiters(m)
    BY <2>10, <2>11 DEF OpenWaiters
  <2>14. Owners' = [Owners EXCEPT ![n] = {b}]
    BY <1>3, <2>8, <2>9, SeenOwner
  <2>15. Lines' = [Lines EXCEPT ![n] = @ \ {w}]
    <3> DEFINE S == OpenWaiters(n) \ {w}
    <3>1. OpenWaiters(n)' = S
      BY <2>12
    <3> HIDE DEF S
    <3>2. Lines' = [Lines EXCEPT ![n] = S]
      BY <1>3, <2>13, <3>1, SeenLine
    <3> QED BY <1>10, <3>2 DEF S
  <2>16. w \in Service!First(n)
    BY <1>10, <2>2 DEF Service!First
  <2>17. Service!Pass(c, n)
    <3>1. Lines[n] # {}
      BY <1>10, <2>2
    <3> QED BY <1>10, <2>14, <2>15, <2>16, <3>1, Zenon DEF Service!Pass, b
  <2>18. Serving'
    BY <1>1, <2>1, <2>4, <2>8, <2>9 DEF Serving
  <2> QED BY <1>3, <2>17, <2>18, Zenon DEF Seen, Service!ServiceNext
<1>12. CASE /\ OpenWaiters(n) = {}
            /\ waiters' = [waiters EXCEPT ![n] = {}]
            /\ holder' = [holder EXCEPT ![n] = NoToken]
            /\ UNCHANGED client
  <2>1. /\ waiters'[n] = {} /\ holder'[n] = NoToken
        /\ \A m \in Names \ {n} : waiters'[m] = waiters[m] /\ holder'[m] = holder[m]
    BY <1>1, <1>3, <1>12 DEF TypeOK
  <2>2. \A d \in Clients : d \notin Bearers(n)'
    <3>1. c \notin Bearers(n)'
      BY <1>4, <1>8, <1>12 DEF Bearers
    <3>2. ASSUME NEW d \in Clients \ {c} PROVE d \notin Bearers(n)'
      BY <1>5, <1>9, <1>12 DEF Bearers
    <3> QED BY <3>1, <3>2
  <2>3. Bearers(n)' = {}
    BY <2>2 DEF Bearers
  <2>4. \A m \in Names \ {n} : Bearers(m)' = Bearers(m)
    <3> SUFFICES ASSUME NEW m \in Names \ {n}, NEW d \in Clients
                 PROVE  d \in Bearers(m)' <=> d \in Bearers(m)
      BY DEF Bearers
    <3>1. CASE d = c
      BY <1>4, <1>8, <1>12, <3>1 DEF Bearers
    <3>2. CASE d # c
      BY <1>5, <1>12, <3>2 DEF Bearers
    <3> QED BY <3>1, <3>2
  <2>5. \A m \in Names : OpenWaiters(m)' = OpenWaiters(m)
    BY <1>12, <2>1 DEF OpenWaiters, Open
  <2>6. Owners' = [Owners EXCEPT ![n] = {}]
    BY <1>3, <2>3, <2>4, SeenOwner
  <2>7. Lines' = Lines
    BY <2>5, SameLines
  <2>8. Service!Pass(c, n)
    BY <1>10, <1>12, <2>6, <2>7, Zenon DEF Service!Pass
  <2>9. Serving'
    BY <1>1, <1>12, <2>1, <2>4 DEF Serving
  <2> QED BY <1>3, <2>8, <2>9, Zenon DEF Seen, Service!ServiceNext
<1> QED BY <1>4, <1>11, <1>12 DEF HandOver

(* Every step of the registry is one of the service, or none.              *)
LEMMA NextSeen ==
  ASSUME LockInv, ~StaleReleases, [Next]_vars
  PROVE  Seen /\ Serving'
<1>1. CASE UNCHANGED vars
  <2>1. /\ Owners' = Owners /\ Lines' = Lines
        /\ Serving' <=> Serving
    BY <1>1 DEF vars, registry, Owners, Lines, Promised, Bearers, OpenWaiters, Open, Serving
  <2> QED BY <2>1 DEF Seen, LockInv
<1>2. CASE Next /\ ~Promised
  BY <1>2, NothingPromised DEF Next
<1>3. CASE Next /\ Promised
  <2>1. UNCHANGED setting
    BY <1>3 DEF Next
  <2>2. ASSUME NEW c \in Clients PROVE ~DropReceiver(c) /\ ~Abandon(c)
    BY <1>3 DEF DropReceiver, Abandon, Promised, LockInv, Serving
  <2> QED BY <1>3, <2>1, <2>2, TakeStep, JoinStep, GiveUpStep, UnseenSteps, PassStep
          DEF Next, Progress
<1> QED BY <1>1, <1>2, <1>3

(* The invariant of the locks that the refinement rests on.                *)
LEMMA LockInvariant ==
  ASSUME ~StaleReleases
  PROVE  Spec => []LockInv
<1>1. Init => LockInv
  <2>1. Init => Grants /\ Tickets /\ WaitersQueued /\ Serving
    BY DEF Init, Grants, Tickets, WaitersQueued, Serving
  <2> QED BY <2>1, InitInvariant DEF LockInv
<1>2. LockInv /\ [Next]_vars => LockInv'
  BY NextInvariant, NextGrants, NextWaiting, NextSeen DEF LockInv
<1> QED BY <1>1, <1>2, PTL DEF Spec

(* To isolates on one thread that are not torn down, lock_acquire_impl and *)
(* lock_release_impl keep the promise of LockService, for every set of     *)
(* clients that release each grant once: one owner, first come first       *)
(* served, a released lock passed on in the same visit.                    *)
THEOREM Implements ==
  ASSUME ~StaleReleases
  PROVE  Spec => ImplementsService
<1>1. Init => Service!ServiceInit
  <2> SUFFICES ASSUME Init PROVE Service!ServiceInit
    OBVIOUS
  <2>1. \A n \in Names : Bearers(n) = {} /\ OpenWaiters(n) = {}
    BY DEF Init, Bearers, OpenWaiters
  <2>2. Owners = [n \in Names |-> {}] /\ Lines = [n \in Names |-> {}]
    BY <2>1 DEF Owners, Lines
  <2> QED BY <2>2 DEF Service!ServiceInit
<1>2. LockInv /\ [Next]_vars => [Service!ServiceNext]_<<Owners, Lines>>
  BY NextSeen DEF Seen
<1> QED BY <1>1, <1>2, LockInvariant, PTL
        DEF Spec, ImplementsService, Service!ServiceSpec, Service!serviceVars

(* On one thread, and without teardowns, no grant is lost on its way: a    *)
(* lock that is held is held by some client.                               *)
THEOREM GrantsArrive ==
  ASSUME ~StaleReleases
  PROVE  Spec => [](Promised => OwnershipPassed)
<1>1. LockInv => (Promised => OwnershipPassed)
  BY DEF LockInv, Serving, OwnershipPassed
<1> QED BY <1>1, LockInvariant, PTL

=============================================================================
