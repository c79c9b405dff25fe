----------------------------- MODULE MCVirtualLab -----------------------------
(***************************************************************************)
(* A lab that is given every command, beside one that is stopped.          *)
(***************************************************************************)
EXTENDS VirtualLab, TLC

CONSTANTS a, b

MCOps == a :> AllOps @@ b :> {"stop"}
MCMaxCommands == a :> 3 @@ b :> 1
=============================================================================
