----------------------------- MODULE MCTransport -----------------------------
EXTENDS Transport, TLC
=============================================================================
