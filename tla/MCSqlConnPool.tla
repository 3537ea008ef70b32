---------------------------- MODULE MCSqlConnPool ----------------------------
(* Users, connection objects and a name for the pool and UserVerify.        *)
EXTENDS UserVerify

CONSTANTS u1, u2, u3, d1, d2, d3, n1

MCUsers == {u1, u2, u3}
MCObjects == {d1, d2, d3}
MCNames == {n1}
==============================================================================
