--------------------------- MODULE MCFileRequests ---------------------------
(* Constants for TLC: a host behind a bastion, as a user's ~/.ssh/config    *)
(* says, a third host that only takes a password, and the page's requests.  *)
EXTENDS FileRequests, SshConfig

CONSTANTS inner, bastion, vault, t1, t2, good, p2200, p2222

UserConfig == <<HostLine({Name(inner)}), Line("proxyjump", bastion), Line("port", p2200),
                HostLine({Wildcard(Hosts)}), Line("port", p2222)>>

JumpFromConfig == [h \in Hosts |-> GetHostConfig(UserConfig, h)["proxyjump"]]

GoodEverywhere == [h \in Hosts |-> good]

Requested == {<<inner, "file">>, <<bastion, "home">>, <<vault, "tree">>}

Transfers == Hosts \X {"stat", "download"}

TaskSymmetry == {[x \in Tasks |-> x], [x \in Tasks |-> IF x = t1 THEN t2 ELSE t1]}
=============================================================================
