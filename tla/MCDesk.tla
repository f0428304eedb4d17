-------------------------------- MODULE MCDesk --------------------------------
\* Instances of Desk: every constant is given by the cfgs.
EXTENDS Desk
================================================================================
