----------------------------- MODULE MCEchoServers -----------------------------
(* Two clients are enough for one connection to be served while another is    *)
(* accepted, and for two children to end while the handler runs. The threaded *)
(* server gets three: two threads can then work on one descriptor when it is  *)
(* given to the third connection.                                             *)
EXTENDS EchoServers

CONSTANTS c1, c2, c3

MCClients == {c1, c2, c3}
MCFew     == {c1, c2}
===============================================================================
