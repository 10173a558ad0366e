---------------------------- MODULE MCEnrollment ----------------------------
(* Two owners, three codes and a rate-limit table of three rows. *)
EXTENDS Enrollment, TLC

Alike == Permutations(Owner) \cup Permutations(Code)
           \cup Permutations(Runner) \cup Permutations(Machine)
=============================================================================
