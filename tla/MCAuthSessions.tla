--------------------------- MODULE MCAuthSessions ---------------------------
(* TLC instances of AuthSessions: sets and bounds are given in the .cfg.   *)
EXTENDS AuthSessions, TLC

(* Requests are interchangeable, and so are tokens and users: nothing but   *)
(* equality is ever asked of them.  Used in safety runs only.              *)
Symmetry == Permutations(Requests) \cup Permutations(Tokens)
              \cup Permutations(Users)
=============================================================================
