----------------------------- MODULE MCPtWorker -----------------------------
EXTENDS PtWorker
=============================================================================
