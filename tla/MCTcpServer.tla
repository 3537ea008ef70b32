----------------------------- MODULE MCTcpServer -----------------------------
(* The setups that TcpServer is checked in: two connections on two loops    *)
(* and on the base loop alone, one connection with several requests or with *)
(* a second thread that uses it, and three connections that stay silent.    *)
EXTENDS TcpServer

CONSTANTS c1, c2, c3, base, io1, io2, u1

Setup(cs, loops, us, n) ==
  [conns |-> cs, pool |-> loops, users |-> us, requests |-> n]

TwoLoops == Setup({c1, c2}, <<io1, io2>>, {}, 1)
BaseOnly == Setup({c1, c2}, <<>>, {}, 1)
Stream == Setup({c1}, <<io1>>, {}, 3)
Shared == Setup({c1}, <<io1>>, {u1}, 1)
Silent == Setup({c1, c2, c3}, <<io1, io2>>, {}, 0)

AllSetups == {TwoLoops, BaseOnly, Stream, Shared, Silent}
LiveSetups == {Stream, Shared}
==============================================================================
