----------------------------- MODULE MCBspRules -----------------------------
EXTENDS BspRules, MCBspTree
=============================================================================
