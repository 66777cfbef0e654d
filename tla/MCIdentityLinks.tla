--------------------------- MODULE MCIdentityLinks ---------------------------
(* IdentityLinks for TLC, with callers that create memberships in a        *)
(* transaction of their own, as the acceptance of an invitation does.      *)
EXTENDS IdentityLinks, TLC

MCSymmetry == Permutations(Session) \cup Permutations(Person)
=============================================================================
