------------------------------ MODULE MCLogFiles ------------------------------
EXTENDS LogFiles
==============================================================================
