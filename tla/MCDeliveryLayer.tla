--------------------------- MODULE MCDeliveryLayer ---------------------------
(* DeliveryLayer with a display ring smaller than the number of alerts. *)
EXTENDS DeliveryLayer
=============================================================================
