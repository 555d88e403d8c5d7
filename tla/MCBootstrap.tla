---------------------------- MODULE MCBootstrap ----------------------------
\* Bootstrap with the bounds of Bootstrap.cfg.
EXTENDS Bootstrap
============================================================================
