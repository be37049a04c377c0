-------------------------- MODULE MCReceiptRecovery --------------------------
EXTENDS ReceiptRecovery
=============================================================================
