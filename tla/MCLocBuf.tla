------------------------------- MODULE MCLocBuf -------------------------------
(* Instances of LocBuf for TLC.                                             *)
EXTENDS LocBuf
CONSTANTS x

MCByte == {CR, Dee, x}
=============================================================================
