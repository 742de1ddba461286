------------------------------ MODULE MCRelay -------------------------------
EXTENDS Relay
=============================================================================
