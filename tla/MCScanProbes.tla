---------------------------- MODULE MCScanProbes ----------------------------
EXTENDS ScanProbes, TLC

\* Three IPv4 addresses and an fe80 address.
Devices == {1, 2, 3, 101}
Resolvables == {1, 3, 101}
LinkLocal == {101}
=============================================================================
