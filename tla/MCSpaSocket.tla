---------------------------- MODULE MCSpaSocket ----------------------------
EXTENDS SpaSocket

CONSTANTS u1, u2, w1, w2, w3, w4
=============================================================================
