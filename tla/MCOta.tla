------------------------------- MODULE MCOta --------------------------------
(* A small instance of Ota: two blocks of two units, images of three and of  *)
(* two units.                                                                *)
EXTENDS Ota

CONSTANTS imA, imB

MCImgLen == [im \in Images |-> IF im = imA THEN 3 ELSE 2]
=============================================================================
