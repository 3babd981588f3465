------------------------ MODULE MCPrimeFirstInstall ------------------------
EXTENDS PrimeFirstInstall
=============================================================================
