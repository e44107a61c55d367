------------------------------ MODULE MCAudioRouting ------------------------------
EXTENDS AudioRouting
================================================================================
