---------------------------- MODULE MCServerPool ----------------------------
EXTENDS ServerPool
=============================================================================
