---------------------------- MODULE MCInterfaces ----------------------------
\* Interfaces with the bounds of Interfaces.cfg.
EXTENDS Interfaces
=============================================================================
