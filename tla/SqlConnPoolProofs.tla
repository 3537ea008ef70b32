-------------------------- MODULE SqlConnPoolProofs --------------------------
(***************************************************************************)
(* The connection pool under its users' calls of UserVerify, for any       *)
(* number of threads and connections, and any database.                    *)
(***************************************************************************)
EXTENDS UserVerify, FiniteSetTheorems, TLAPS

\* Sequences without duplicates.  Such a sequence has as many elements as it is
\* long,
LEMMA InjectiveSize ==
  ASSUME NEW S, NEW q \in Seq(S), IsInjective(q)
  PROVE  /\ IsFiniteSet(ToSet(q))
         /\ Cardinality(ToSet(q)) = Len(q)
<1>1. q \in Bijection(1..Len(q), ToSet(q))
  BY DEF Bijection, Injection, Surjection, IsInjective, ToSet
<1>2. IsFiniteSet(1..Len(q)) /\ Cardinality(1..Len(q)) = Len(q)
  <2>1. 1 \in Int /\ Len(q) \in Int /\ Len(q) >= 0
    OBVIOUS
  <2>. QED BY <2>1, FS_Interval
<1>. QED BY <1>1, <1>2, FS_Bijection DEF ExistsBijection

\* an element that is not in it can be put behind it,
LEMMA InjectiveAppend ==
  ASSUME NEW S, NEW q \in Seq(S), IsInjective(q), NEW c \in S, c \notin ToSet(q)
  PROVE  /\ Append(q, c) \in Seq(S)
         /\ IsInjective(Append(q, c))
         /\ ToSet(Append(q, c)) = ToSet(q) \cup {c}
<1> DEFINE r == Append(q, c)
<1>1. /\ r \in Seq(S) /\ DOMAIN r = 1..(Len(q) + 1) /\ DOMAIN q = 1..Len(q)
      /\ \A i \in 1..Len(q) : r[i] = q[i]
      /\ r[Len(q) + 1] = c /\ Len(q) \in Nat
  OBVIOUS
<1> HIDE DEF r
<1>2. \A i \in 1..Len(q) : q[i] # c
  BY <1>1 DEF ToSet
<1>3. IsInjective(r)
  <2> SUFFICES ASSUME NEW i \in DOMAIN r, NEW j \in DOMAIN r, r[i] = r[j]
               PROVE  i = j
    BY DEF IsInjective
  <2>1. CASE i \in 1..Len(q) /\ j \in 1..Len(q)
    BY <1>1, <2>1 DEF IsInjective
  <2>2. CASE i = Len(q) + 1 \/ j = Len(q) + 1
    BY <1>1, <1>2, <2>2
  <2>. QED BY <1>1, <2>1, <2>2
<1>4. ToSet(r) = ToSet(q) \cup {c}
  <2>1. ToSet(r) \subseteq ToSet(q) \cup {c}
    BY <1>1 DEF ToSet
  <2>2. ToSet(q) \cup {c} \subseteq ToSet(r)
    BY <1>1 DEF ToSet
  <2>. QED BY <2>1, <2>2
<1>. QED BY <1>1, <1>3, <1>4 DEF r

\* and when it is cut in two, neither part has an element of the other.
LEMMA InjectiveCut ==
  ASSUME NEW S, NEW q \in Seq(S), IsInjective(q), NEW k \in 0..Len(q)
  PROVE  LET a == SubSeq(q, 1, k)
             b == SubSeq(q, k + 1, Len(q))
         IN  /\ a \in Seq(S) /\ IsInjective(a) /\ Len(a) = k
             /\ b \in Seq(S) /\ IsInjective(b)
             /\ ToSet(q) = ToSet(a) \cup ToSet(b)
             /\ ToSet(a) \cap ToSet(b) = {}
<1> DEFINE a == SubSeq(q, 1, k)
           b == SubSeq(q, k + 1, Len(q))
           m == Len(q) - k
<1>0. k \in Nat /\ m \in Nat /\ k + m = Len(q) /\ DOMAIN q = 1..Len(q)
  OBVIOUS
<1>1. /\ a \in Seq(S) /\ Len(a) = k /\ DOMAIN a = 1..k
      /\ \A i \in 1..k : a[i] = q[i]
  OBVIOUS
<1>2. /\ b \in Seq(S) /\ DOMAIN b = 1..m
      /\ \A i \in 1..m : b[i] = q[k + i]
  OBVIOUS
<1> HIDE DEF a, b, m
<1>3. /\ \A i \in DOMAIN a : i \in DOMAIN q /\ i <= k /\ a[i] = q[i]
      /\ \A i \in DOMAIN b : k + i \in DOMAIN q /\ i >= 1 /\ b[i] = q[k + i]
  BY <1>0, <1>1, <1>2
<1>4. IsInjective(a)
  BY <1>3 DEF IsInjective
<1>5. IsInjective(b)
  <2> SUFFICES ASSUME NEW i \in DOMAIN b, NEW j \in DOMAIN b, b[i] = b[j]
               PROVE  i = j
    BY DEF IsInjective
  <2>1. k + i = k + j
    BY <1>3 DEF IsInjective
  <2>. QED BY <1>0, <1>2, <2>1
<1>6. ToSet(a) \cap ToSet(b) = {}
  <2>1. ASSUME NEW i \in DOMAIN a, NEW j \in DOMAIN b PROVE a[i] # b[j]
    <3>1. i \in DOMAIN q /\ k + j \in DOMAIN q /\ i # k + j
      BY <1>0, <1>1, <1>2, <1>3
    <3>. QED BY <1>3, <3>1 DEF IsInjective
  <2>. QED BY <2>1 DEF ToSet
<1>7. ToSet(a) \subseteq ToSet(q) /\ ToSet(b) \subseteq ToSet(q)
  BY <1>3 DEF ToSet
<1>8. ASSUME NEW x \in ToSet(q) PROVE x \in ToSet(a) \cup ToSet(b)
  <2>1. PICK i \in 1..Len(q) : q[i] = x
    BY <1>0 DEF ToSet
  <2>2. CASE i <= k
    <3>1. i \in DOMAIN a /\ a[i] = x
      BY <1>0, <1>1, <2>1, <2>2
    <3>. QED BY <3>1 DEF ToSet
  <2>3. CASE i > k
    <3>1. i - k \in 1..m /\ k + (i - k) = i
      BY <1>0, <2>3
    <3>2. b[i - k] = x
      BY <1>2, <2>1, <3>1
    <3>. QED BY <1>2, <3>1, <3>2 DEF ToSet
  <2>. QED BY <1>0, <2>2, <2>3
<1>. QED BY <1>1, <1>2, <1>4, <1>5, <1>6, <1>7, <1>8 DEF a, b

------------------------------------------------------------------------------
\* The three invariants of the pool are inductive together: that the counter
\* stays in Nat needs that it is exact, and that a connection which leaves the
\* queue is nowhere else needs that it was there once.
PoolInv == TypeOK /\ Exclusive /\ CountExact

\* The sets of connections are finite.
LEMMA OpenFinite ==
  ASSUME TypeOK
  PROVE  /\ Queued \subseteq Objects /\ Held \subseteq Objects
         /\ Open \subseteq Objects
         /\ IsFiniteSet(Open) /\ Cardinality(Open) \in Nat
<1>1. Queued \subseteq Objects /\ Held \subseteq Objects
  BY DEF TypeOK, Queued, Held, ToSet
<1>2. Open \subseteq Objects
  BY <1>1 DEF Open
<1>. QED BY <1>1, <1>2, PoolAssumption, FS_Subset, FS_CardinalityType

\* The pool starts with nothing.
LEMMA PoolInit == Init => PoolInv
<1> SUFFICES ASSUME Init PROVE PoolInv
  OBVIOUS
<1>1. Queued = {} /\ Held = {} /\ Open = {}
  BY DEF Init, Queued, Held, Open, ToSet
<1>2. TypeOK
  BY <1>1 DEF Init, TypeOK
<1>3. Exclusive
  BY <1>1 DEF Init, Exclusive, IsInjective
<1>. QED BY <1>1, <1>2, <1>3, FS_EmptySet DEF Init, PoolInv, CountExact

\* addConn queues a connection that was not open.
LEMMA AddStep ==
  ASSUME PoolInv, AddConn, UNCHANGED <<pc, held>>,
         producer' \in {"init", "running", "waiting"}
  PROVE  PoolInv'
<1> USE DEF PoolInv
<1>1. PICK c \in Closed :
        /\ connectionQueue_' = Append(connectionQueue_, c)
        /\ currentSize_' = currentSize_ + 1
        /\ valid' = valid \cup {c} \/ valid' = valid
        /\ aged' = aged
  BY DEF AddConn
<1>2. c \in Objects /\ c \notin Queued /\ c \notin Held /\ c \notin Open
  BY DEF Closed, Open
<1>3. /\ connectionQueue_' \in Seq(Objects)
      /\ IsInjective(connectionQueue_')
      /\ Queued' = Queued \cup {c}
  BY <1>1, <1>2, InjectiveAppend DEF TypeOK, Exclusive, Queued
<1>4. Held' = Held
  BY DEF Held
<1>5. Open' = Open \cup {c}
  BY <1>3, <1>4 DEF Open
<1>6. TypeOK'
  BY <1>1, <1>3, <1>5 DEF TypeOK
<1>7. Exclusive'
  <2>1. \A u \in Users : held[u] # c
    BY <1>2, PoolAssumption DEF Held
  <2>. QED BY <1>3, <2>1 DEF Exclusive
<1>8. CountExact'
  BY <1>1, <1>2, <1>5, OpenFinite, FS_AddElement DEF CountExact
<1>. QED BY <1>6, <1>7, <1>8

\* getConnection empties a queue whose head is dead: the open connections that
\* are left are those handed out.
LEMMA ChecksStep ==
  ASSUME PoolInv, NEW u \in Users, GetChecks(u)
  PROVE  PoolInv'
<1> USE DEF PoolInv
<1>0. pc[u] = "idle" /\ pc' = [pc EXCEPT ![u] = "waiting"]
      /\ UNCHANGED <<producer, held>>
  BY DEF GetChecks
<1>1. CASE UNCHANGED <<connectionQueue_, currentSize_, valid, aged>>
  <2>1. Open' = Open /\ Queued' = Queued
    BY <1>0, <1>1 DEF Open, Queued, Held
  <2>. QED BY <1>0, <1>1, <2>1 DEF TypeOK, Exclusive, CountExact
<1>2. CASE /\ connectionQueue_' = <<>>
           /\ currentSize_' = currentSize_ - Len(connectionQueue_)
           /\ valid' = valid \ Queued
           /\ aged' = {}
  <2>1. Queued' = {}
    BY <1>2 DEF Queued, ToSet
  <2>2. Held' = Held
    BY <1>0 DEF Held
  <2>3. Queued \cap Held = {}
    BY DEF Exclusive, Held
  <2>4. Open' = Open \ Queued
    BY <2>1, <2>2, <2>3 DEF Open
  <2>5. Cardinality(Queued) = Len(connectionQueue_)
    BY InjectiveSize DEF TypeOK, Exclusive, Queued
  <2>6. Open \cap Queued = Queued
    BY DEF Open
  <2>7. /\ IsFiniteSet(Open')
        /\ Cardinality(Open') = Cardinality(Open) - Len(connectionQueue_)
    <3>1. /\ IsFiniteSet(Open \ Queued)
          /\ Cardinality(Open \ Queued)
               = Cardinality(Open) - Cardinality(Open \cap Queued)
      BY OpenFinite, FS_Difference
    <3>. QED BY <2>4, <2>5, <2>6, <3>1
  <2>8. CountExact'
    BY <1>2, <2>7 DEF CountExact
  <2>9. currentSize_' \in Nat
    BY <2>7, <2>8, FS_CardinalityType DEF CountExact
  <2>10. TypeOK'
    BY <1>0, <1>2, <2>1, <2>4, <2>9 DEF TypeOK
  <2>11. Exclusive'
    BY <1>0, <1>2, <2>1 DEF Exclusive, IsInjective
  <2>. QED BY <2>8, <2>10, <2>11
<1>. QED BY <1>1, <1>2 DEF GetChecks

\* getConnection moves the head of the queue to the user's hands.
LEMMA TakesStep ==
  ASSUME PoolInv, NEW u \in Users, GetTakes(u)
  PROVE  PoolInv'
<1> USE DEF PoolInv
<1> DEFINE c == Head(connectionQueue_)
<1>1. /\ pc[u] = "waiting" /\ connectionQueue_ # <<>>
      /\ held' = [held EXCEPT ![u] = c]
      /\ connectionQueue_' = Tail(connectionQueue_)
      /\ pc' = [pc EXCEPT ![u] = "holding"]
      /\ producer' = Notified
      /\ aged' = aged \ {c}
      /\ UNCHANGED <<currentSize_, valid>>
  BY DEF GetTakes
<1>2. /\ connectionQueue_ \in Seq(Objects) /\ IsInjective(connectionQueue_)
      /\ held \in [Users -> Objects \cup {None}] /\ held[u] = None
  BY <1>1 DEF TypeOK, Exclusive
<1>3. /\ c \in Objects /\ c \in Queued
      /\ connectionQueue_' \in Seq(Objects)
      /\ IsInjective(connectionQueue_')
      /\ Queued' = Queued \ {c}
  <2>1. 1 \in 0..Len(connectionQueue_) /\ c = connectionQueue_[1]
    BY <1>1, <1>2
  <2>2. Tail(connectionQueue_)
          = SubSeq(connectionQueue_, 1 + 1, Len(connectionQueue_))
    BY <1>1, <1>2
  <2>3. ToSet(SubSeq(connectionQueue_, 1, 1)) = {c}
    BY <1>1, <1>2, <2>1 DEF ToSet
  <2> DEFINE rest == SubSeq(connectionQueue_, 1 + 1, Len(connectionQueue_))
  <2>5. /\ rest \in Seq(Objects) /\ IsInjective(rest)
        /\ ToSet(connectionQueue_)
             = ToSet(SubSeq(connectionQueue_, 1, 1)) \cup ToSet(rest)
        /\ ToSet(SubSeq(connectionQueue_, 1, 1)) \cap ToSet(rest) = {}
    BY <1>2, <2>1, InjectiveCut
  <2>4. /\ connectionQueue_' \in Seq(Objects) /\ IsInjective(connectionQueue_')
        /\ Queued = {c} \cup Queued' /\ {c} \cap Queued' = {}
    BY <1>1, <2>2, <2>3, <2>5 DEF Queued
  <2>. QED BY <1>1, <1>2, <2>1, <2>4
<1> HIDE DEF c
<1>4. Held' = Held \cup {c}
  BY <1>1, <1>2, <1>3, PoolAssumption DEF Held
<1>5. Open' = Open
  BY <1>3, <1>4 DEF Open
<1>6. TypeOK'
  BY <1>1, <1>3, <1>5, PoolAssumption DEF TypeOK, Notified
<1>7. Exclusive'
  <2>1. \A v \in Users : held[v] # c
    BY <1>3 DEF Exclusive
  <2>. QED BY <1>1, <1>2, <1>3, <2>1 DEF Exclusive
<1>8. CountExact'
  BY <1>1, <1>5 DEF CountExact
<1>. QED BY <1>6, <1>7, <1>8

\* The deleter moves the connection from the user's hands to the queue.
LEMMA BackStep ==
  ASSUME PoolInv, NEW u \in Users, GiveBack(u)
  PROVE  PoolInv'
<1> USE DEF PoolInv
<1> DEFINE c == held[u]
<1>1. /\ pc[u] = "holding"
      /\ connectionQueue_' = Append(connectionQueue_, c)
      /\ held' = [held EXCEPT ![u] = None]
      /\ pc' = [pc EXCEPT ![u] = "idle"]
      /\ UNCHANGED <<currentSize_, producer, valid, aged>>
  BY DEF GiveBack
<1>2. /\ c \in Objects /\ c # None /\ c \notin Queued /\ c \in Held
      /\ \A v \in Users : v # u => held[v] # c
  BY <1>1, PoolAssumption DEF TypeOK, Exclusive, Held
<1>3. /\ connectionQueue_' \in Seq(Objects)
      /\ IsInjective(connectionQueue_')
      /\ Queued' = Queued \cup {c}
  BY <1>1, <1>2, InjectiveAppend DEF TypeOK, Exclusive, Queued
<1>4. held \in [Users -> Objects \cup {None}]
  BY DEF TypeOK
<1>5. Held' = Held \ {c}
  BY <1>1, <1>2, <1>4 DEF Held
<1>6. Open' = Open
  BY <1>2, <1>3, <1>5 DEF Open
<1>7. TypeOK'
  BY <1>1, <1>3, <1>4, <1>6 DEF TypeOK
<1>8. Exclusive'
  <2>1. None \notin Queued'
    BY <1>3, OpenFinite, <1>2, PoolAssumption
  <2>2. \A v \in Users : held'[v] = IF v = u THEN None ELSE held[v]
    BY <1>1, <1>4
  <2>3. \A v \in Users : held'[v] \notin Queued'
    BY <1>2, <1>3, <2>1, <2>2 DEF Exclusive
  <2>4. \A v, w \in Users :
          held'[v] = held'[w] => v = w \/ held'[v] = None
    BY <1>2, <2>2 DEF Exclusive
  <2>. QED BY <1>3, <2>3, <2>4 DEF Exclusive
<1>9. CountExact'
  BY <1>1, <1>6 DEF CountExact
<1>. QED BY <1>7, <1>8, <1>9

\* A pass of the recycler closes the first k of the queue.
LEMMA RemoveStep ==
  ASSUME PoolInv, RemoveConn
  PROVE  PoolInv'
<1> USE DEF PoolInv
<1>1. PICK k \in 1..Len(connectionQueue_) :
        Passes(k) /\ currentSize_' = currentSize_ - k
  BY DEF RemoveConn
<1> DEFINE closed == SubSeq(connectionQueue_, 1, k)
<1>2. /\ connectionQueue_' = SubSeq(connectionQueue_, k + 1, Len(connectionQueue_))
      /\ valid' = valid \ ToSet(closed) /\ aged' = aged \ ToSet(closed)
      /\ producer' = Notified
      /\ UNCHANGED <<pc, held>>
  BY <1>1 DEF Passes
<1>3. connectionQueue_ \in Seq(Objects) /\ IsInjective(connectionQueue_)
      /\ k \in 0..Len(connectionQueue_)
  BY DEF TypeOK, Exclusive
<1>4. /\ closed \in Seq(Objects) /\ IsInjective(closed) /\ Len(closed) = k
      /\ connectionQueue_' \in Seq(Objects) /\ IsInjective(connectionQueue_')
      /\ Queued = ToSet(closed) \cup Queued'
      /\ ToSet(closed) \cap Queued' = {}
  <2> DEFINE rest == SubSeq(connectionQueue_, k + 1, Len(connectionQueue_))
  <2>1. /\ closed \in Seq(Objects) /\ IsInjective(closed) /\ Len(closed) = k
        /\ rest \in Seq(Objects) /\ IsInjective(rest)
        /\ ToSet(connectionQueue_) = ToSet(closed) \cup ToSet(rest)
        /\ ToSet(closed) \cap ToSet(rest) = {}
    BY <1>3, InjectiveCut
  <2>. QED BY <1>2, <2>1 DEF Queued
<1>5. Cardinality(ToSet(closed)) = k
  BY <1>4, InjectiveSize
<1> HIDE DEF closed
<1>6. Held' = Held
  BY <1>2 DEF Held
<1>7. Queued \cap Held = {}
  BY DEF Exclusive, Held
<1>8. Open' = Open \ ToSet(closed) /\ Open \cap ToSet(closed) = ToSet(closed)
  BY <1>4, <1>6, <1>7 DEF Open
<1>9. /\ IsFiniteSet(Open')
      /\ Cardinality(Open') = Cardinality(Open) - k
  BY <1>5, <1>8, OpenFinite, FS_Difference
<1>10. CountExact'
  BY <1>1, <1>9 DEF CountExact
<1>11. currentSize_' \in Nat
  BY <1>9, <1>10, FS_CardinalityType DEF CountExact
<1>12. TypeOK'
  BY <1>2, <1>4, <1>8, <1>11 DEF TypeOK, Notified
<1>13. Exclusive'
  BY <1>2, <1>4 DEF Exclusive
<1>. QED BY <1>10, <1>12, <1>13

\* What the threads do but for the connections, and the database and the clock.
LEMMA OtherStep ==
  ASSUME PoolInv,
         \/ InitStarts \/ ProducerWaits \/ ProducerWakes \/ UNCHANGED vars
         \/ \E c \in Objects : Drops(c) \/ Ages(c)
  PROVE  PoolInv'
<1> USE DEF PoolInv
<1>1. /\ UNCHANGED <<connectionQueue_, currentSize_, pc, held>>
      /\ producer' \in {"init", "running", "waiting"}
      /\ valid' \subseteq valid /\ aged' \subseteq aged \cup Queued
  BY DEF InitStarts, ProducerWaits, ProducerWakes, Drops, Ages, vars, TypeOK
<1>2. Queued' = Queued /\ Open' = Open
  BY <1>1 DEF Queued, Open, Held
<1>. QED BY <1>1, <1>2 DEF TypeOK, Exclusive, CountExact

\* Each step of the pool keeps the invariant.
LEMMA PoolStep == PoolInv /\ [Next]_vars => PoolInv'
<1> SUFFICES ASSUME PoolInv, [Next]_vars PROVE PoolInv'
  OBVIOUS
<1>1. CASE InitAdds \/ ProducerAdds
  <2>1. AddConn /\ UNCHANGED <<pc, held>> /\ producer' = producer
    BY <1>1 DEF InitAdds, ProducerAdds
  <2>2. producer' \in {"init", "running", "waiting"}
    BY <2>1 DEF PoolInv, TypeOK
  <2>. QED BY <2>1, <2>2, AddStep
<1>2. ASSUME NEW u \in Users, User(u) PROVE PoolInv'
  BY <1>2, ChecksStep, TakesStep, BackStep DEF User
<1>3. CASE RemoveConn
  BY <1>3, RemoveStep
<1>4. CASE \/ InitStarts \/ ProducerWaits \/ ProducerWakes \/ UNCHANGED vars
           \/ \E c \in Objects : Drops(c) \/ Ages(c)
  BY <1>4, OtherStep
<1>. QED BY <1>1, <1>2, <1>3, <1>4 DEF Next, Producer

------------------------------------------------------------------------------
\* A step of a call of UserVerify is one of the pool, or leaves the pool alone.
LEMMA VerifyIsPool == [VerifyNext]_verifyVars => [Next]_vars
<1>1. ASSUME NEW u \in Users, Verify(u) PROVE [Next]_vars
  <2>1. Connect(u) => User(u)
    BY DEF Connect, User
  <2>2. SelectDecides(u) => UNCHANGED vars
    BY DEF SelectDecides, Asks
  <2>3. Return(u) => User(u)
    BY DEF Return, User
  <2>4. ASSUME NEW n \in Names, SelectFindsNone(u, n) \/ Insert(u, n)
        PROVE  UNCHANGED vars
    BY <2>4 DEF SelectFindsNone, Asks, Insert
  <2>. QED BY <1>1, <2>1, <2>2, <2>3, <2>4 DEF Verify, Next
<1>2. PoolItself => Next
  BY DEF PoolItself, Next
<1>3. UNCHANGED verifyVars => UNCHANGED vars
  BY DEF verifyVars
<1>. QED BY <1>1, <1>2, <1>3 DEF VerifyNext

LEMMA PoolAlways == VerifySpec => []PoolInv
<1>1. VerifyInit => PoolInv
  BY PoolInit DEF VerifyInit
<1>2. PoolInv /\ [VerifyNext]_verifyVars => PoolInv'
  BY PoolStep, VerifyIsPool
<1>. QED BY <1>1, <1>2, PTL DEF VerifySpec

\* The pool and its users keep their types, whatever the database does.
THEOREM PoolTypeOK == VerifySpec => []TypeOK
<1>1. PoolInv => TypeOK
  BY DEF PoolInv
<1>. QED BY PoolAlways, <1>1, PTL

\* No two threads ever use one connection, and none is used while it is queued
\* (getConnection and the deleter of its shared_ptr), for any pool.
THEOREM PoolExclusive == VerifySpec => []Exclusive
<1>1. PoolInv => Exclusive
  BY DEF PoolInv
<1>. QED BY PoolAlways, <1>1, PTL

\* currentSize_ is exact through every way in and out of the pool.
THEOREM PoolCountExact == VerifySpec => []CountExact
<1>1. PoolInv => CountExact
  BY DEF PoolInv
<1>. QED BY PoolAlways, <1>1, PTL

------------------------------------------------------------------------------
\* Unless two registrations of a name raced, there is one row of it and nobody
\* about to insert another, or none and at most one who is.
OneRow(n) ==
  \/ rows[n] = 0 /\ \A u, v \in Users : at[u] = n /\ at[v] = n => u = v
  \/ rows[n] = 1 /\ \A u \in Users : at[u] # n

RowInv ==
  /\ at \in [Users -> Names \cup {"none", "select", "done"}]
  /\ rows \in [Names -> Nat]
  /\ \A n \in Names \ raced : OneRow(n)

LEMMA RowInit == VerifyInit => RowInv
  BY NamesAssumption DEF VerifyInit, RowInv, OneRow

LEMMA RowStep ==
  ASSUME RowInv, [VerifyNext]_verifyVars
  PROVE  RowInv'
<1>0. /\ at \in [Users -> Names \cup {"none", "select", "done"}]
      /\ rows \in [Names -> Nat]
      /\ \A n \in Names \ raced : OneRow(n)
  BY DEF RowInv
<1>1. ASSUME UNCHANGED <<rows, raced>>,
             NEW u \in Users, NEW w \in {"select", "done", "none"},
             at' = [at EXCEPT ![u] = w]
      PROVE  RowInv'
  <2>1. \A n \in Names, v \in Users : at'[v] = n => at[v] = n
    BY <1>0, <1>1, NamesAssumption
  <2>. QED BY <1>0, <1>1, <2>1 DEF RowInv, OneRow
<1>2. CASE UNCHANGED <<at, rows, raced>>
  BY <1>2 DEF RowInv, OneRow
<1>3. ASSUME NEW u \in Users, NEW n \in Names, SelectFindsNone(u, n)
      PROVE  RowInv'
  <2>1. /\ rows[n] = 0 /\ rows' = rows
        /\ at[u] = "select" /\ at' = [at EXCEPT ![u] = n]
        /\ raced' = IF \E v \in Users : at[v] = n THEN raced \cup {n} ELSE raced
    BY <1>3 DEF SelectFindsNone, Asks
  <2>2. ASSUME NEW m \in Names \ raced' PROVE OneRow(m)'
    <3>1. m \in Names \ raced
      BY <2>1
    <3>2. CASE m # n
      <4>1. \A v \in Users : at'[v] = m <=> at[v] = m
        BY <1>0, <2>1, <3>2, NamesAssumption
      <4>. QED BY <1>0, <2>1, <3>1, <4>1 DEF OneRow
    <3>3. CASE m = n
      <4>1. \A v \in Users : at[v] # n
        BY <2>1, <3>3
      <4>2. \A v \in Users : at'[v] = n => v = u
        BY <1>0, <2>1, <4>1
      <4>. QED BY <2>1, <3>3, <4>2 DEF OneRow
    <3>. QED BY <3>2, <3>3
  <2>3. at' \in [Users -> Names \cup {"none", "select", "done"}]
    BY <1>0, <2>1
  <2>. QED BY <1>0, <2>1, <2>2, <2>3 DEF RowInv
<1>4. ASSUME NEW u \in Users, NEW n \in Names, Insert(u, n)
      PROVE  RowInv'
  <2>1. /\ at[u] = n /\ at' = [at EXCEPT ![u] = "done"] /\ raced' = raced
        /\ rows' = rows \/ rows' = [rows EXCEPT ![n] = rows[n] + 1]
    BY <1>4 DEF Insert
  <2>2. \A m \in Names, v \in Users : at'[v] = m => at[v] = m /\ v # u
    BY <1>0, <2>1, NamesAssumption
  <2>3. ASSUME NEW m \in Names \ raced' PROVE OneRow(m)'
    <3>1. OneRow(m)
      BY <1>0, <2>1
    <3>2. CASE rows' = rows \/ m # n
      <4>1. rows'[m] = rows[m]
        BY <1>0, <2>1, <3>2
      <4>. QED BY <2>2, <3>1, <4>1 DEF OneRow
    <3>3. CASE m = n /\ rows' = [rows EXCEPT ![n] = rows[n] + 1]
      <4>1. /\ rows[n] = 0
            /\ \A v \in Users : at[v] = n => v = u
        BY <2>1, <3>1, <3>3 DEF OneRow
      <4>2. rows'[n] = 1
        BY <1>0, <3>3, <4>1
      <4>. QED BY <2>2, <3>3, <4>1, <4>2 DEF OneRow
    <3>. QED BY <2>1, <3>2, <3>3
  <2>4. /\ at' \in [Users -> Names \cup {"none", "select", "done"}]
        /\ rows' \in [Names -> Nat]
    BY <1>0, <2>1
  <2>. QED BY <2>3, <2>4 DEF RowInv
<1>5. ASSUME NEW u \in Users, Verify(u) PROVE RowInv'
  <2>1. CASE Connect(u)
    BY <1>1, <1>2, <2>1 DEF Connect
  <2>2. CASE SelectDecides(u)
    BY <1>1, <2>2 DEF SelectDecides, Asks
  <2>3. CASE Return(u)
    BY <1>1, <2>3 DEF Return
  <2>. QED BY <1>3, <1>4, <1>5, <2>1, <2>2, <2>3 DEF Verify
<1>. QED BY <1>2, <1>5 DEF VerifyNext, verifyVars

\* For any number of threads and names: registrations that do not overlap leave
\* one row of a name at most (httpRequest.cpp:204-242).
THEOREM RowsUnique == VerifySpec => []NameTakenOnce
<1>1. ASSUME RowInv PROVE NameTakenOnce
  <2> SUFFICES ASSUME NEW n \in Names \ raced
               PROVE  rows[n] + Cardinality({u \in Users : at[u] = n}) <= 1
    BY DEF NameTakenOnce
  <2> DEFINE inserting == {u \in Users : at[u] = n}
  <2>1. OneRow(n)
    BY <1>1 DEF RowInv
  <2>2. CASE inserting = {}
    <3>1. Cardinality(inserting) = 0
      BY <2>2, FS_EmptySet
    <3>. QED BY <2>1, <3>1 DEF OneRow
  <2>3. CASE inserting # {}
    <3>1. PICK u \in Users : at[u] = n
      BY <2>3
    <3>2. rows[n] = 0 /\ inserting = {u}
      BY <2>1, <3>1 DEF OneRow
    <3>3. Cardinality(inserting) = 1
      BY <3>2, FS_Singleton
    <3>. QED BY <3>2, <3>3
  <2>. QED BY <2>2, <2>3
<1>. QED BY RowInit, RowStep, <1>1, PTL DEF VerifySpec
==============================================================================
