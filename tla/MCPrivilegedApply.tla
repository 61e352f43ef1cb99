-------------------------- MODULE MCPrivilegedApply --------------------------
(***************************************************************************)
(* PrivilegedApply for TLC: a machine with the distribution's theme and a  *)
(* greeter configuration of its own, on which nothing was applied yet.     *)
(***************************************************************************)
EXTENDS PrivilegedApply, TLC

MCFrames == <<"throbber">>

MCStartFiles == [f \in File |-> IF f = "slick" THEN "theirs" ELSE "absent"]

\* Nothing tells one invocation, or one image, from another.
Symmetry == Permutations(Helper) \cup Permutations(Image)
=============================================================================
