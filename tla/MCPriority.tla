----------------------------- MODULE MCPriority -----------------------------
EXTENDS PrioritySched

MCSleepTimes == {-1, 0}
=============================================================================
