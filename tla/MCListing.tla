----------------------------- MODULE MCListing -----------------------------
(* TLC instances of Listing.                                             *)
EXTENDS Listing, TLC

CONSTANTS a, b, c

ThreeBoxes == <<a, b, c>>
=============================================================================
