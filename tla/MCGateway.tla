----------------------------- MODULE MCGateway -----------------------------
\* Gateway with interchangeable processes, requests and orders.
EXTENDS Gateway, TLC

MCSymmetry == Permutations(Process) \cup Permutations(Request)
                \cup Permutations(Order)
=============================================================================
