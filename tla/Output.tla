------------------------------- MODULE Output -------------------------------
(***************************************************************************)
(* What the publication of builds promises a project (publish.rs of        *)
(* deka_build): there is one current output, and it only moves on to the   *)
(* output of a later build; a build that fails or is killed leaves it.     *)
(*                                                                         *)
(* The promise ends where recovery is misled: superseded output of which   *)
(* the removal was cut short may be taken for the current one, and so may  *)
(* any backup once a recovery has failed.                                  *)
(***************************************************************************)
EXTENDS Integers

VARIABLES
  current,   (* the build whose output is current, 0 before the first       *)
  misled     (* one of the two has happened                                 *)

OutputInit == current = 0 /\ misled = FALSE

\* A later build takes effect, at one instant.
Supersede ==
  /\ current' > current
  /\ UNCHANGED misled

Mislead == misled' = TRUE /\ UNCHANGED current

\* An older output may be taken for the current one.
Regress ==
  /\ misled
  /\ current' \in 0 .. current
  /\ UNCHANGED misled

OutputNext == Supersede \/ Mislead \/ Regress

OutputSpec == OutputInit /\ [][OutputNext]_<<current, misled>>
=============================================================================
