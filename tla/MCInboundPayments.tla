-------------------------- MODULE MCInboundPayments --------------------------
\* TLC instances of the inbound payment record.
EXTENDS InboundPayments
==============================================================================
