--------------------------- MODULE MCCanaryEvidence ---------------------------
EXTENDS CanaryEvidence
===============================================================================
