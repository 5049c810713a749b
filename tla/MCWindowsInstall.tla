-------------------------- MODULE MCWindowsInstall --------------------------
\* Instances of WindowsInstall for TLC: versions as model values, which are
\* interchangeable.
EXTENDS WindowsInstall

CONSTANTS v1, v2

symmetry == Permutations({v1, v2})
=============================================================================
