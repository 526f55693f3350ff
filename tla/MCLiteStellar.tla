--------------------------- MODULE MCLiteStellar ----------------------------
(***************************************************************************)
(* LiteStellar with one issuer, two accounts that hold its asset or pay    *)
(* for calls, and two interchangeable round trips.                         *)
(***************************************************************************)
EXTENDS LiteStellar, TLC
MCIssuerOf == [t \in Assets |-> "issuer"]
Symmetry == Permutations(RoundTrips)
=============================================================================
