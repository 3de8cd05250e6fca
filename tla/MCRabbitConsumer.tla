-------------------------- MODULE MCRabbitConsumer ---------------------------
(* Instances of RabbitConsumer for TLC. *)
EXTENDS RabbitConsumer
=============================================================================
