-------------------------------- MODULE MCLaunch --------------------------------
EXTENDS Launch

CONSTANTS p, secret, approval

MCOrder == <<secret, approval>>
=============================================================================
