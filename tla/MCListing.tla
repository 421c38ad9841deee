------------------------------ MODULE MCListing ------------------------------
(* A list by creation instant: the notifications of a user.                *)
EXTENDS Listing
=============================================================================
