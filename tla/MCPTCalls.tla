----------------------------- MODULE MCPTCalls ------------------------------
EXTENDS PTCalls, MCPTEdit
=============================================================================
