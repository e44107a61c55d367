------------------------------- MODULE MCConnect -------------------------------
EXTENDS Connect
================================================================================
