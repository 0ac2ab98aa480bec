---------------------------- MODULE MCXThreadPool ----------------------------
(* A small instance of XThreadPool: three workers (thread_nums_ is 3 on a      *)
(* machine with one core) and three tasks, those of one file.                  *)
EXTENDS XThreadPool
==============================================================================
