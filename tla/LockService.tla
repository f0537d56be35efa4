----------------------------- MODULE LockService -----------------------------
(***************************************************************************)
(* What the named locks promise a client that releases each grant once:    *)
(* one owner at a time, waiters served in order of arrival, a released     *)
(* lock passed on in the same step, and no lock that nobody can release.   *)
(*                                                                         *)
(* Those who wait have tickets, as at a counter: each one's is later than  *)
(* any in the line it joins, and the earliest is served.                   *)
(***************************************************************************)
EXTENDS Integers

CONSTANTS Clients, Names, Tickets

VARIABLES
  owner,   (* the client that owns each lock, if any                       *)
  line     (* the clients that wait for it, with their tickets             *)

serviceVars == <<owner, line>>

First(n) == {w \in line[n] : \A x \in line[n] : w.ticket <= x.ticket}

Take(c, n) ==
  /\ owner[n] = {}
  /\ owner' = [owner EXCEPT ![n] = {c}]
  /\ UNCHANGED line

Join(c, n) ==
  /\ owner[n] # {}
  /\ \E t \in Tickets :
       /\ \A w \in line[n] : w.ticket < t
       /\ line' = [line EXCEPT ![n] = @ \cup {[client |-> c, ticket |-> t]}]
  /\ UNCHANGED owner

GiveUp(c, n) ==
  /\ \E w \in line[n] : w.client = c
  /\ line' = [line EXCEPT ![n] = {w \in @ : w.client # c}]
  /\ UNCHANGED owner

Pass(c, n) ==
  /\ owner[n] = {c}
  /\ IF line[n] = {}
     THEN owner' = [owner EXCEPT ![n] = {}] /\ UNCHANGED line
     ELSE \E w \in First(n) :
            /\ owner' = [owner EXCEPT ![n] = {w.client}]
            /\ line' = [line EXCEPT ![n] = @ \ {w}]

ServiceInit ==
  /\ owner = [n \in Names |-> {}]
  /\ line = [n \in Names |-> {}]

ServiceNext ==
  \E c \in Clients, n \in Names : Take(c, n) \/ Join(c, n) \/ GiveUp(c, n) \/ Pass(c, n)

ServiceSpec == ServiceInit /\ [][ServiceNext]_serviceVars

=============================================================================
