----------------------------- MODULE MCChainSync -----------------------------
\* TLC instances of start-up and chain synchronisation.
EXTENDS ChainSync
==============================================================================
