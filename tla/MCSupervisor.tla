---------------------------- MODULE MCSupervisor ----------------------------
EXTENDS Supervisor

\* One program to start.
OneCommand == <<CHOOSE e \in Exe : TRUE>>
=============================================================================
