---------------------------- MODULE MCSavedStore ----------------------------
(* TLC instance of SavedStore. *)
EXTENDS SavedStore, TLC

StoreSymmetry == Permutations(Ids) \cup Permutations(Labels)
=============================================================================
