----------------------------- MODULE MCLiveIndex -----------------------------
EXTENDS LiveIndex
CONSTANTS a, b
==============================================================================
