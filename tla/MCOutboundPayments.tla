------------------------- MODULE MCOutboundPayments -------------------------
(* Small instances of OutboundPayments for TLC. *)
EXTENDS OutboundPayments
=============================================================================
