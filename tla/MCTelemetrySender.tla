------------------------- MODULE MCTelemetrySender -------------------------
(* TelemetrySender on small instances.                                      *)
EXTENDS TelemetrySender

SevereEvents == {2}
=============================================================================
