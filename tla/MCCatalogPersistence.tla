------------------------ MODULE MCCatalogPersistence ------------------------
\* Small instances of CatalogPersistence for TLC.
EXTENDS CatalogPersistence, TLC

HashSymmetry == Permutations(Hashes)
==============================================================================
