----------------------------- MODULE MCRemotes ------------------------------
EXTENDS Remotes, TLC

MCSymmetry == Permutations(Procs)

Address(proto, host, port) == [NoAddress EXCEPT !.proto = proto, !.host = host, !.port = port]

\* The remotes of the manifest are not in the configuration, and one has an address
\* without key; in the configuration are two on other ports of the same host.
MCReview == [origin |-> Address("ssh", "h", 22), sso |-> Address("sso", "h", 0),
             second |-> Address("ssh", "h", 29418), third |-> Address("http", "h", 8080)]
MCOrder == <<"sso", "origin">>
MCType == [n \in DOMAIN MCReview |-> ""]
MCServer(ssh, https, http) == [h |-> [ssh |-> ssh, https |-> https, http |-> http]]
MCServers == {MCServer("", "<html>", "agit")}
=============================================================================
