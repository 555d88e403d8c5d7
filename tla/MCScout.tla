------------------------------ MODULE MCScout ------------------------------
\* The scout with two applications and two interfaces.
EXTENDS Scout

CONSTANTS p1, p2, nobody, wifi, cell

AllProcs == {p1, p2}
AllIfaces == {wifi, cell}
============================================================================
