---------------------------- MODULE MCClipboardAPI ----------------------------
\* Instances of ClipboardAPI for TLC.
EXTENDS ClipboardAPI

CONSTANTS r1, r2
=============================================================================
