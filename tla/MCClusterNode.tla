---- MODULE MCClusterNode ----
EXTENDS ClusterNode
====
