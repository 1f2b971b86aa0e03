-------------------------------- MODULE MCHIL --------------------------------
EXTENDS HIL
=============================================================================
