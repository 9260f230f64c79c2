--------------------------- MODULE MCProcessTable ---------------------------
EXTENDS ProcessTable
=============================================================================
