----------------------------- MODULE MCLicensing -----------------------------
(* TLC instance of Licensing: keys and callers are interchangeable.        *)
EXTENDS Licensing, TLC

Symmetry ==
  Permutations(Keys) \cup Permutations(Issuers) \cup Permutations(Checkers)
=============================================================================
