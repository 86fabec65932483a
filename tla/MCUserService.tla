---------------------------- MODULE MCUserService -----------------------------
(***************************************************************************)
(* Values of the constants for TLC.                                        *)
(***************************************************************************)
EXTENDS UserService, TLC

CONSTANTS h1, h2, anna, erik

TwoHandlers ==
  (h1 :> {"CreateUser", "bootstrap"}) @@ (h2 :> {"CreateUser", "Login", "UpdateUserRole"})

\* Addresses are interchangeable.
EmailSymmetry == Permutations(Emails)
=============================================================================
