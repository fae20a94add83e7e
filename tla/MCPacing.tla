------------------------------ MODULE MCPacing ------------------------------
EXTENDS Pacing
=============================================================================
