----------------------------- MODULE MCUploads ------------------------------
(***************************************************************************)
(* Uploads for TLC, and the checks of what is made of an uploaded file.    *)
(***************************************************************************)
EXTENDS Uploads, ReadingChecks, TLC

MCSymmetry == Permutations(Requests) \cup Permutations(Tickets)
=============================================================================
