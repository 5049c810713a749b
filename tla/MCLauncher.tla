----------------------------- MODULE MCLauncher -----------------------------
\* Instances of Launcher for TLC: one agent of the old version, two that can be
\* started, one launcher; liveness rules out symmetry.
EXTENDS Launcher

CONSTANTS old, a1, a2, l1, none
=============================================================================
