--------------------------- MODULE MCPortHandover ---------------------------
(* PortHandover for TLC: the collectors of small sets of keys. *)
EXTENDS PortHandover

Collectors == Key \X (1 .. MaxInc)
=============================================================================
