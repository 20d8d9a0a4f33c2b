----------------------------- MODULE MCCluster -----------------------------
EXTENDS Cluster
=============================================================================
