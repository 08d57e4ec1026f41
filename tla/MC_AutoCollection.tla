------------------------- MODULE MC_AutoCollection -------------------------
EXTENDS AutoCollection
CONSTANTS e1, e2
=============================================================================
