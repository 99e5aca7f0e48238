----------------------------- MODULE MCSourceSweep -----------------------------
EXTENDS SourceSweep
CONSTANT r1
================================================================================
