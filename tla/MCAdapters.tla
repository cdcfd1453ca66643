---------------------------- MODULE MCAdapters ----------------------------
EXTENDS Adapters
CONSTANTS b1
==========================================================================
