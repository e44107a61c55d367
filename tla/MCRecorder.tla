------------------------------- MODULE MCRecorder -------------------------------
EXTENDS Recorder
================================================================================
