----------------------------- MODULE MCIdentity -----------------------------
(* Identity on a small instance; passwords and seeds are interchangeable.  *)
EXTENDS Identity, TLC

Symmetry == Permutations(Passwords) \cup Permutations(Seeds)
=============================================================================
