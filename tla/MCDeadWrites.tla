---------------------------- MODULE MCDeadWrites ----------------------------
\* The same small functions, reduced and executed after the analysis.
EXTENDS MCLiveness, DeadWriteElimination
=============================================================================
