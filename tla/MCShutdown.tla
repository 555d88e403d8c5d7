---------------------------- MODULE MCShutdown ----------------------------
\* Shutdown on two connections.
EXTENDS Shutdown

CONSTANTS c1, c2, any

\* NeverStuck says nothing of a state in which an IROB was late, and no step makes
\* late empty again: states beyond it need not be visited.  The connection that
\* breaks is one that was there from the start: one that has been made since is no
\* different from it, so only a break while it connects is left out.
Explored == late = {} /\ broken \subseteq Initial

AllConns == {c1, c2}
OneConn == {c1}
===========================================================================
