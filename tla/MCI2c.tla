-------------------------------- MODULE MCI2c -------------------------------
(* A small instance of I2c: two tasks, lines 0 to 2, of which a scan visits  *)
(* the last two.                                                             *)
EXTENDS I2c

CONSTANTS t1, t2
=============================================================================
