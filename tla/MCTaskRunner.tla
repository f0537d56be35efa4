--------------------------- MODULE MCTaskRunner ---------------------------
(***************************************************************************)
(* Four tasks and a name (5) that is none of them.                         *)
(***************************************************************************)
EXTENDS TaskRunner

MCTasks == 1 .. 4
MCNames == 1 .. 5

Needs(a, b, c, d) == <<a, b, c, d>>

MCGraphs == {
  Needs({2, 3}, {4}, {4}, {}),     \* a diamond
  Needs({3, 4}, {3, 4}, {}, {}),   \* two tasks that share both dependencies
  Needs({}, {1, 4}, {1, 2}, {}),   \* a shared chain
  Needs({2, 5}, {}, {5}, {3}),     \* a dependency that no task defines
  Needs({1}, {}, {}, {}),          \* a task that needs itself
  Needs({2}, {3}, {1}, {}),        \* a cycle of three
  Needs({2, 3}, {3}, {2}, {4})}    \* a cycle two threads enter from both ends

MCRequests == {{1}, {2}, {1, 2}, {2, 3}, 1 .. 4}
===========================================================================
