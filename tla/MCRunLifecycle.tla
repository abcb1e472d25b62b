--------------------------- MODULE MCRunLifecycle ---------------------------
(* RunLifecycle on small instances. *)
EXTENDS RunLifecycle, TLC

(* The runs are interchangeable: no action or safety property names one.  *)
RunSymmetry == Permutations(Runs)

=============================================================================
