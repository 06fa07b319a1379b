------------------------------- MODULE MCListing -------------------------------
(* Listing on a small instance.                                            *)
EXTENDS Listing, TLC

MCListings == {S : S \in SUBSET Names}
===============================================================================
