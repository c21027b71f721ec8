--------------------------- MODULE MCApplication ----------------------------
EXTENDS Application
=============================================================================
