-------------------------------- MODULE MCWinV --------------------------------
(* TLC instances of WinV.                                                   *)
EXTENDS WinV

=============================================================================
