----------------------------- MODULE MCTransfer -----------------------------
(***************************************************************************)
(* The instance of Transfer for the gateway as it is wired.                *)
(***************************************************************************)
EXTENDS Transfer
=============================================================================
