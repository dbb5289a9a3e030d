--------------------------- MODULE MCOnChainWallet ---------------------------
\* TLC instances of the on-chain wallet.
EXTENDS OnChainWallet
==============================================================================
