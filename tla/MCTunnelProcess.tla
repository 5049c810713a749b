--------------------------- MODULE MCTunnelProcess ---------------------------
\* Instances of TunnelProcess for TLC: the callers of Close are interchangeable.
EXTENDS TunnelProcess, TLC

CloserSymmetry == Permutations(Closers)
=============================================================================
