--------------------------- MODULE MCChainPipeline ---------------------------
EXTENDS ChainPipeline
=============================================================================
