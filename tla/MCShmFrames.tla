-------------------------------- MODULE MCShmFrames --------------------------------
EXTENDS ShmFrames
================================================================================
