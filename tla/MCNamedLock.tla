----------------------------- MODULE MCNamedLock -----------------------------
(***************************************************************************)
(* Instances of NamedLock for model checking.                              *)
(***************************************************************************)
EXTENDS NamedLock

(* Isolates on one thread, and on several, where one may be torn down.     *)
MCSettings == {[oneThread |-> TRUE, mortal |-> {}],
               [oneThread |-> FALSE, mortal |-> {CHOOSE c \in Clients : TRUE}]}

MCThreads == {[oneThread |-> FALSE, mortal |-> {}]}

=============================================================================
