----------------------------- MODULE MCListing -----------------------------
(* One partition of up to four rows, listed by one of the functions. *)
EXTENDS Listing, TLC

CONSTANTS a, b, c, d

MCRows == {a, b, c, d}
MCPlace == a :> 1 @@ b :> 2 @@ c :> 3 @@ d :> 4
=============================================================================
