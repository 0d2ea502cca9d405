----------------------------- MODULE MCRunExecution -----------------------------
EXTENDS RunExecution

CONSTANTS old, new
=============================================================================
