------------------------- MODULE MCDatabaseProtection -------------------------
(* TLC instances of DatabaseProtection.                                     *)
EXTENDS DatabaseProtection

=============================================================================
