-------------------------- MODULE MCBridgePortfolio --------------------------
EXTENDS BridgePortfolio
=============================================================================
