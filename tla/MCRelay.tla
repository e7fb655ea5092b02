------------------------------- MODULE MCRelay -------------------------------
EXTENDS Relay
=============================================================================
