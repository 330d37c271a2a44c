----------------------------- MODULE MCRefunds -----------------------------
EXTENDS Refunds
=============================================================================
