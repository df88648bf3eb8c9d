----------------------------- MODULE MCLifecycle -----------------------------
EXTENDS Lifecycle, TLC
Servers == Permutations(Server)
=============================================================================
