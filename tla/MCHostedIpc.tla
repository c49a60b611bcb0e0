---------------------------- MODULE MCHostedIpc ----------------------------
EXTENDS HostedIpc
=============================================================================
