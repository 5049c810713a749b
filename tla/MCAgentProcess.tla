---------------------------- MODULE MCAgentProcess ----------------------------
\* AgentProcess has no parameters: one process, with and without a tray.
EXTENDS AgentProcess
=============================================================================
