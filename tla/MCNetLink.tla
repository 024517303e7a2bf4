----------------------------- MODULE MCNetLink -----------------------------
(* Instances of NetLinkSystem for TLC. *)
EXTENDS NetLinkRefinement, TLC

\* Packets 1 and 2 belong to one flow, 3 and 4 to another.
MCFlowOf == [m \in 1 .. 4 |-> (m + 1) \div 2]

\* PIDs of one program are interchangeable, and so are addresses and CPUs.
MCSymmetry == Permutations(Addrs) \cup Permutations(Daemons) \cup Permutations(Hunters)
              \cup Permutations(Cpus)

=============================================================================
