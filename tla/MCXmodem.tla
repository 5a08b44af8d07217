------------------------------- MODULE MCXmodem -------------------------------
EXTENDS Xmodem
=============================================================================
