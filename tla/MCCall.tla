------------------------------- MODULE MCCall -------------------------------
EXTENDS Call
=============================================================================
