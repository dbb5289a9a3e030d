------------------------------ MODULE MCShutdown ------------------------------
\* TLC instances of the node's tasks and its shutdown.
EXTENDS Shutdown
===============================================================================
