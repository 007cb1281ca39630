------------------------------- MODULE MCLogs -------------------------------
EXTENDS Logs
=============================================================================
