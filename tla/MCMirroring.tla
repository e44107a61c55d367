------------------------------ MODULE MCMirroring ------------------------------
EXTENDS Mirroring
PhoneScreens == {<<1080, 2520>>}
================================================================================
