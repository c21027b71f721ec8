------------------------------ MODULE MCBabbler ------------------------------
EXTENDS BabblerInvariant
=============================================================================
