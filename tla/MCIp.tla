-------------------------------- MODULE MCIp --------------------------------
(* A small instance of Ip.                                                   *)
EXTENDS Ip
=============================================================================
