---------------------------- MODULE MCSSHDevice ----------------------------
EXTENDS SSHDevice

CONSTANTS c1, p1, p2, k1, k2

MCPolls == {p1, p2}
MCClients == {k1, k2}
MCOneChallenge == {c1}

=============================================================================
