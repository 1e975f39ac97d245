----------------------- MODULE MCTF_PowerFlex525_Core -----------------------
(* TLC instance of the emitted function block beside the Python core. *)
EXTENDS TF_PowerFlex525_Core, MCPowerFlex525Core
=============================================================================
