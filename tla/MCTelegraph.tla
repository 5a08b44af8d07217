----------------------------- MODULE MCTelegraph -----------------------------
EXTENDS Telegraph
=============================================================================
