------------------------------- MODULE MCMqtt -------------------------------
(* A small instance of Mqtt: two topics, listed in falling order and one of *)
(* them without a callback.                                                  *)
EXTENDS Mqtt

MCArray == <<2, 1>>
=============================================================================
