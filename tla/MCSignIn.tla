------------------------------- MODULE MCSignIn -------------------------------
(* Two browsers and three tokens.  Neither is told apart by the module, so    *)
(* both are symmetry sets: every property of the run is about states or       *)
(* single steps.                                                              *)
EXTENDS SignIn, TLC

Symmetric == Permutations(Clients) \cup Permutations(Tokens)
=============================================================================
