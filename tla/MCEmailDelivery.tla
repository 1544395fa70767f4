-------------------------- MODULE MCEmailDelivery --------------------------
(* E-mail delivery on a small instance. *)
EXTENDS EmailDelivery
=============================================================================
