------------------------------ MODULE MCFcfs ------------------------------
EXTENDS FcfsSched
=============================================================================
