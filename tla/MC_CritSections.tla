--------------------------- MODULE MC_CritSections ---------------------------
EXTENDS CritSections
=============================================================================
