------------------------ MODULE MCClientStatistics -------------------------
EXTENDS ClientStatistics
=============================================================================
