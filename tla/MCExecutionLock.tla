-------------------------- MODULE MCExecutionLock --------------------------
EXTENDS ExecutionLock
=============================================================================
