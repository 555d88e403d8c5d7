---------------------------- MODULE MCForeground ----------------------------
\* Foreground with the bounds of Foreground.cfg.
EXTENDS Foreground, TLC

CsockSymmetry == Permutations(Csocks)
=============================================================================
