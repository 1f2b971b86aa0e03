---------------------------- MODULE MCPageMapping ----------------------------
EXTENDS PageMapping

NoFormat == {}
AllPages == {LPN}
=============================================================================
