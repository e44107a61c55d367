-------------------------------- MODULE MCWfdProto --------------------------------
EXTENDS WfdProto
================================================================================
