------------------------- MODULE MCHarvestFallback -------------------------
EXTENDS HarvestFallback
=============================================================================
