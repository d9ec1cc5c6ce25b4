---------------------------- MODULE MCLoraSend ------------------------------
EXTENDS LoraSendProofs
=============================================================================
