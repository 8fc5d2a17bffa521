----------------------------- MODULE MCSequence -----------------------------
EXTENDS Sequence
=============================================================================
