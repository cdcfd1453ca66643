-------------------------------- MODULE Runs --------------------------------
(* Loops over a sequence, as a sequence of functions on the loop's state: the i-th is what
   the i-th element does to it. *)
EXTENDS Naturals, Sequences

(* The states of the loop: base, and the one after each element. *)
Course(steps, base) ==
  LET at[i \in 0 .. Len(steps)] == IF i = 0 THEN base ELSE steps[i][at[i - 1]]
  IN at

(* The state the loop ends in. *)
Run(steps, base) == Course(steps, base)[Len(steps)]
=============================================================================
