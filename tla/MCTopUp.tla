-------------------------------- MODULE MCTopUp --------------------------------
(***************************************************************************)
(* One daemon and two recoveries at a gateway.                             *)
(***************************************************************************)
EXTENDS TopUp

CONSTANTS t, u, v, w, f, r1, r2
===============================================================================
