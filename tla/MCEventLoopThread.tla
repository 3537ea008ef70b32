-------------------------- MODULE MCEventLoopThread --------------------------
(* One EventLoopThread, its owner and two functors.                         *)
EXTENDS EventLoopThread

CONSTANTS main, f1, f2

MCCallers == {main}
MCFunctors == {f1, f2}
==============================================================================
