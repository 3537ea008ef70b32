----------------------------- MODULE MCEventLoop -----------------------------
(* EventLoop with two foreign threads and three functors.                   *)
EXTENDS EventLoop

CONSTANTS t1, t2, f1, f2, f3

MCCallers == {t1, t2}
MCFunctors == {f1, f2, f3}
==============================================================================
