-------------------------- MODULE MCNetworkDispatch -------------------------
EXTENDS NetworkDispatch
=============================================================================
