--------------------------- MODULE MCMutableBuffer ---------------------------
EXTENDS MutableBuffer
=============================================================================
