------------------------------ MODULE MCFibServer ------------------------------
(* Two clients that each type two commands, and a pool of two workers: one    *)
(* task can wait, or be in a worker's hands, while another is handled.        *)
EXTENDS FibServer

CONSTANTS c1, c2, w1, w2

MCClients == {c1, c2}
MCWorkers == {w1, w2}
MCFds == 4..6
================================================================================
