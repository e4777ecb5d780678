--------------------------- MODULE MCPushToTalk ---------------------------
\* A few presses, releases and toggles, with and without the gate.
EXTENDS PushToTalk
===========================================================================
