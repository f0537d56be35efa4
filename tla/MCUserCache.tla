----------------------------- MODULE MCUserCache -----------------------------
(***************************************************************************)
(* Instances of UserCache for model checking.                              *)
(***************************************************************************)
EXTENDS UserCache, TLC

(* Two small entries fit the budget of bytes, the large one only alone.    *)
MCSize == [k \in Keys |-> k]

(* Pids, files and compilers are interchangeable.                          *)
MCSymmetry ==
  {p @@ f @@ c : p \in Permutations(Pids), f \in Permutations(Files), c \in Permutations(Compilers)}

=============================================================================
