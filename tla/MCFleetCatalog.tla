--------------------------- MODULE MCFleetCatalog ---------------------------
(* Small instances of FleetCatalog. *)
EXTENDS FleetCatalog
=============================================================================
