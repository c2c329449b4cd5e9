--------------------------- MODULE MCOwnersMeeting ---------------------------
(* One unit, two people, two requests in flight; symmetric people and slots. *)
EXTENDS OwnersMeeting, TLC

Interchangeable == Permutations(User) \cup Permutations(Request)
=============================================================================
