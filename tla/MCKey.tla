-------------------------------- MODULE MCKey --------------------------------
EXTENDS Key
=============================================================================
