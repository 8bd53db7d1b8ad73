------------------------------ MODULE MCQueue ------------------------------
EXTENDS QueueProofs

\* The pcbs differ only in their priorities, so the initial states in which
\* these grow with the number of the pcb stand for all the others.
MCInit == Init /\ \A p, r \in Item : p < r => priority[p] <= priority[r]

MCSpec == MCInit /\ [][Next]_vars

=============================================================================
