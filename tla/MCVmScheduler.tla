---------------------------- MODULE MCVmScheduler ----------------------------
(***************************************************************************)
(* Programs for the model of the scheduler.                                *)
(***************************************************************************)
EXTENDS VmScheduler

\* Race, all, callbacks next to a loop for ever, timers, and the callbacks,
\* events and bindings of an interface.
MCPrograms == {
  [drive |-> "poll", budget |-> 3, endless |-> FALSE, ids |-> 5,
   uses |-> {"child", "host", "race"}],
  [drive |-> "poll", budget |-> 3, endless |-> FALSE, ids |-> 5,
   uses |-> {"child", "ready", "all", "throw", "fault"}],
  [drive |-> "turn", budget |-> 2, endless |-> TRUE, ids |-> 5,
   uses |-> {"host", "call"}],
  [drive |-> "poll", budget |-> 3, endless |-> FALSE, ids |-> 6,
   uses |-> {"timeout", "interval", "clear"}],
  [drive |-> "turn", budget |-> 3, endless |-> FALSE, ids |-> 4,
   uses |-> {"host", "follow", "fault", "throw", "call"}],
  [drive |-> "turn", budget |-> 3, endless |-> FALSE, ids |-> 4,
   uses |-> {"host", "throw", "event", "binding", "cancel"}]}
=============================================================================
