---------------------------- MODULE MCRelayMesh ----------------------------
EXTENDS RelayMesh
=============================================================================
