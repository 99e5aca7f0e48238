---------------------------- MODULE MCXRateGovernor ----------------------------
EXTENDS XRateGovernor
CONSTANTS k1, k2, k3
================================================================================
