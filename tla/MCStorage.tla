----------------------------- MODULE MCStorage -----------------------------
EXTENDS Storage, TLC
=============================================================================
