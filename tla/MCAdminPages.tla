----------------------------- MODULE MCAdminPages -----------------------------
(* A small instance of AdminPages for TLC; the keys of a table are alike. *)
EXTENDS AdminPages, TLC

IdSymmetry == Permutations(Ids)
=============================================================================
