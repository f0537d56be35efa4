----------------------------- MODULE MCVmBindings -----------------------------
(***************************************************************************)
(* Views for the model of the bindings: the rows as children before and    *)
(* after every other getter, and getters that write next to those that     *)
(* cache.                                                                  *)
(***************************************************************************)
EXTENDS VmBindings

MCViews ==
  {<<"children", g>> : g \in Getter}
    \cup {<<"pop", "children">>, <<"count", "print">>, <<"first", "pop">>,
          <<"length", "host">>, <<"copy", "count">>}
=============================================================================
