--------------------------- MODULE MCExpiringStore ---------------------------
(* Small instances of ExpiringStore for TLC. *)
EXTENDS ExpiringStore, TLC

=============================================================================
