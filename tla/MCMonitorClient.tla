-------------------------- MODULE MCMonitorClient --------------------------
(* TLC instances of MonitorClient: two recyclable session identities next  *)
(* to the channel of Wait.                                                 *)
EXTENDS MonitorClient, TLC

CONSTANTS s1, s2, w

MCSubscribers == {s1, s2, w}
MCSubscribersOne == {s1, w}

(* Two words that are not "master", so that a transition can leave the     *)
(* gate shut, and one that the parser renames.                             *)
MCWireRoles == {"master", "slave", "sentinel"}
MCWireRolesTwo == {"master", "slave"}

(* Session identities are interchangeable.                                 *)
MCSymmetry == Permutations({s1, s2})
=============================================================================
