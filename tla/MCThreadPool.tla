---------------------------- MODULE MCThreadPool ----------------------------
(* ThreadPool with two workers and three calls of enqueue: one worker can   *)
(* sleep, wake and sleep again while the other runs a task.                 *)
EXTENDS ThreadPool, TLC

CONSTANTS w1, w2, t1, t2, t3

MCWorkers == {w1, w2}
MCTasks   == {t1, t2, t3}
=============================================================================
