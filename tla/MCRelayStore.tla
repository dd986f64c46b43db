--------------------------- MODULE MCRelayStore ---------------------------
(* RelayStore under arbitrary clients: every id may be registered, decided *)
(* and registered again.  Limit is below the number of ids, so the table   *)
(* fills up; SweepAfter > 0, so expired entries linger before removal.     *)
EXTENDS RelayStore
===========================================================================
