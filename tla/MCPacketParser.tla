---------------------------- MODULE MCPacketParser ----------------------------
(* An instance of PacketParser for TLC.                                     *)
EXTENDS PacketParser, TLC

CONSTANTS s1, s2   \* two device servers

\* The servers are interchangeable.
ServerSymmetry == Permutations(Servers)
=============================================================================
