----------------------------- MODULE MCThreadPool -----------------------------
(* Two workers, two jobs that are enqueued again and again, one thread that   *)
(* enqueues them and one that starts, pauses, stops and joins at will.         *)
EXTENDS ThreadPool

CONSTANTS main, j1, j2

MCCallers == {main}
MCTasks == {j1, j2}

==============================================================================
