---------------------------- MODULE MCCatalogPool ----------------------------
(* CatalogPool for TLC: one key whose database can be sick, one whose fleet *)
(* entry has a typo, and one with a typo whose login sees no user database.  *)
EXTENDS CatalogPool
=============================================================================
