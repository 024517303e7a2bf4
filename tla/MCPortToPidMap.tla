--------------------------- MODULE MCPortToPidMap ---------------------------
(* Instances of PortToPidMap for TLC. *)
EXTENDS PortToPidMap

CONSTANTS t1, t2, u1

\* Two TCP sockets and a UDP socket of one port.
MCSockOf ==
    [i \in {t1, t2, u1} |-> [proto |-> IF i = u1 THEN "U" ELSE "T", port |-> 1]]

=============================================================================
