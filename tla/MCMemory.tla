------------------------------- MODULE MCMemory -------------------------------
EXTENDS Memory

\* A leading part, whole pages, a final part, and their combinations.
MCWrites == {<<1, 1, FALSE>>, <<1, 3, FALSE>>, <<0, 3, FALSE>>, <<1, 4, FALSE>>, <<1, 4, TRUE>>}
MCReads == {<<1, 4>>}
=============================================================================
