------------------------------ MODULE UserVerify ------------------------------
(***************************************************************************)
(* HttpRequest::UserVerify (src/src/Http/httpRequest.cpp), the one user of *)
(* the connection pool: a loop's thread that has parsed a login or a       *)
(* registration takes a connection, asks the database for the name,        *)
(* inserts a row for a new one, and gives the connection back on every     *)
(* way out, by the deleter of its shared_ptr.                              *)
(*                                                                         *)
(* The two queries are steps of their own, since other threads and their   *)
(* connections run between them.  A query may fail.  The table has no      *)
(* constraint that this code knows of; rows counts the rows of each name.  *)
(* A login reads the table and leaves it alone, whatever its verdict.      *)
(***************************************************************************)
EXTENDS SqlConnPool

CONSTANT Names   \* the names that are registered

VARIABLES
  at,      \* each user: where in UserVerify it is, or the name it will insert
  rows,    \* the table: the number of rows of each name
  raced    \* history: the names two users were about to insert at once

verifyVars == <<vars, at, rows, raced>>

ASSUME NamesAssumption == Names \cap {"none", "select", "done"} = {}

VerifyInit ==
  /\ Init
  /\ at = [u \in Users |-> "none"]
  /\ rows = [n \in Names |-> 0]
  /\ raced = {}

------------------------------------------------------------------------------
\* An empty name or password is refused before a connection is taken; else
\* getConnection is called and returns.
Connect(u) ==
  \/ GetChecks(u) /\ UNCHANGED <<at, rows, raced>>
  \/ GetTakes(u) /\ at' = [at EXCEPT ![u] = "select"] /\ UNCHANGED <<rows, raced>>

Asks(u, next) ==
  /\ at[u] = "select"
  /\ at' = [at EXCEPT ![u] = next]
  /\ UNCHANGED <<vars, rows>>

\* The SELECT fails, or it is a login's, or the name is taken.
SelectDecides(u) == Asks(u, "done") /\ UNCHANGED raced

\* Mutant: a registration does not look at what the SELECT found.
SelectFindsNone_Untested(u, n) ==
  /\ Asks(u, n)
  /\ raced' = IF \E v \in Users : at[v] = n THEN raced \cup {n} ELSE raced

\* A registration finds no row of its name and is about to insert one.
SelectFindsNone(u, n) ==
  /\ rows[n] = 0
  /\ Asks(u, n)
  /\ raced' = IF \E v \in Users : at[v] = n THEN raced \cup {n} ELSE raced

\* The INSERT, which may fail; either way the registration is reported done.
Insert(u, n) ==
  /\ at[u] = n
  /\ rows' \in {rows, [rows EXCEPT ![n] = @ + 1]}
  /\ at' = [at EXCEPT ![u] = "done"]
  /\ UNCHANGED <<vars, raced>>

Return(u) ==
  /\ at[u] = "done"
  /\ GiveBack(u)
  /\ at' = [at EXCEPT ![u] = "none"]
  /\ UNCHANGED <<rows, raced>>

Verify(u) ==
  \/ Connect(u) \/ SelectDecides(u) \/ Return(u)
  \/ \E n \in Names : SelectFindsNone(u, n) \/ Insert(u, n)

PoolItself ==
  \/ InitAdds \/ InitStarts
  \/ Producer \/ ProducerWakes
  \/ RemoveConn
  \/ \E c \in Objects : Drops(c) \/ Ages(c)

VerifyNext ==
  \/ PoolItself /\ UNCHANGED <<at, rows, raced>>
  \/ \E u \in Users : Verify(u)

VerifySpec == VerifyInit /\ [][VerifyNext]_verifyVars

\* As in the pool: nobody has to finish a query and give a connection back.
VerifyFairSpec ==
  /\ VerifySpec
  /\ WF_verifyVars(Producer /\ UNCHANGED <<at, rows, raced>>)
  /\ \A u \in Users : SF_verifyVars(GetTakes(u) /\ Connect(u))

------------------------------------------------------------------------------
\* A name gets one row at most, whatever queries fail and through whatever
\* connections they go, as long as no two registrations of it are between
\* their SELECT and their INSERT at once: nothing in the code keeps those two
\* apart (httpRequest.cpp:204 and 234), and then both insert.
NameTakenOnce ==
  \A n \in Names \ raced :
    rows[n] + Cardinality({ u \in Users : at[u] = n }) <= 1
==============================================================================
