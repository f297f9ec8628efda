------------------------- MODULE MCCatalogLifecycle -------------------------
(* Two data sets, so that the files can be of different ones.              *)
EXTENDS CatalogLifecycle, TLC

CONSTANTS d1, d2

MCDataset == {d1, d2}
Alike == Permutations(MCDataset)
=============================================================================
