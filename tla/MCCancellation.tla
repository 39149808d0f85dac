--------------------------- MODULE MCCancellation ---------------------------
(* Two extraction threads, then dbt.                                       *)
EXTENDS Cancellation

CONSTANTS first, second
=============================================================================
