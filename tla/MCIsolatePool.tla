---------------------------- MODULE MCIsolatePool ----------------------------
(***************************************************************************)
(* IsolatePool on small instances.  Calls and handlers are numbers; the    *)
(* handlers' homes alternate between the workers.                          *)
(***************************************************************************)
EXTENDS IsolatePool, TLC

MCHome == [h \in Handlers |-> h % Cardinality(Workers)]

(* Handlers 1 and 2 belong to one tenant.                                  *)
MCPrefixes == {{1, 2}}

(* Calls differ in nothing but their names.                                *)
MCSymmetry == Permutations(Calls)

=============================================================================
