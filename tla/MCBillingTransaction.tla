----------------------- MODULE MCBillingTransaction ------------------------
EXTENDS BillingTransaction
=============================================================================
