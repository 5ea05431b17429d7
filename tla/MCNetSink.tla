----------------------------- MODULE MCNetSink -----------------------------
(* TLC instances of NetSink: a file and a network output, or the latter    *)
(* alone.                                                                  *)
EXTENDS NetSink

MCTwoNames == <<"file", "net">>
MCTwoKinds == {<<"none", "tcp">>, <<"none", "udp">>}

MCOneName == <<"net">>
MCOneKind == {<<"tcp">>}
=============================================================================
