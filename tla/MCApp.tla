------------------------------- MODULE MCApp -------------------------------
(* Instances of App for TLC. *)
EXTENDS App, TLC

CONSTANTS p1, p2, a1, a2, stdout, stderr

TwoPids == {p1, p2}

OneStream == {stdout}

TwoStreams == {stdout, stderr}

\* One server, kill switch on; split tunneling on and off.
OneServer == [killswitch : {TRUE}, tun : {TRUE}, addr : {a1}, split : BOOLEAN]

\* Everything an edit can change.
AnyEdit == [killswitch : BOOLEAN, tun : BOOLEAN, addr : {a1, a2}, split : BOOLEAN]

Symmetry == Permutations(TwoPids) \cup Permutations(TwoStreams)
=============================================================================
