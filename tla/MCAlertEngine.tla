--------------------------- MODULE MCAlertEngine ---------------------------
(* TLC instances of the alert engine with a Pushgateway channel.           *)
EXTENDS Pushgateway

CONSTANTS u1, u2

MCTwoKeys == {"FLUSHALL|ip1", "CONFIG|ip2"}
MCUrls == {u1, u2}
=============================================================================
