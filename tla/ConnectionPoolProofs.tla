------------------------- MODULE ConnectionPoolProofs -------------------------
(***************************************************************************)
(* Connections of the pool are private and come back, for any number of    *)
(* threads and pool objects and any sizes, whatever is opened, closed,     *)
(* lost or fails in between.                                               *)
(***************************************************************************)
EXTENDS ConnectionPool, TLAPS

-----------------------------------------------------------------------------
(* The inductive invariant. *)

\* A transaction may be open on the connection.
Using == {"body", "commit", "rollback", "release"}

\* A thread has a connection.
Holding == Using \cup {"examine", "replace", "begin", "query", "drop", "put"}

\* A connection is lent to one thread, which knows it.
Lending ==
  /\ \A t, u \in Threads : held[t] = held[u] /\ held[t] # NoConnection => t = u
  /\ \A c \in Connections : place[c] = "lent" => \E t \in Threads : held[t] = c
  /\ \A t \in Threads : held[t] # NoConnection <=> pc[t] \in Holding

\* A transaction is open only where it is used.
Clean ==
  /\ \A c \in Connections : place[c] # "lent" => ~inTx[c]
  /\ \A t \in Threads : pc[t] \in Holding \ Using => ~inTx[held[t]]

\* A pool object is there as long as something refers to it, and has its connections
\* only then.
Referenced ==
  /\ pool # NoPool => made[pool] # "free"
  /\ \A t \in Threads : mine[t] # NoPool => made[mine[t]] # "free"
  /\ \A c \in Connections : made[c[1]] = "free" => place[c] = "absent"

\* A pool that open() has not published yet is its own, and has lent nothing.
Unpublished ==
  \A t \in Threads : pc[t] = "publish" =>
    /\ mine[t] \in Pools /\ mine[t] # pool
    /\ \A u \in Threads : u # t => mine[u] # mine[t]
    /\ \A c \in Connections : c[1] = mine[t] => place[c] \in {"idle", "absent"}

\* A connection is closed by the code only when its pool is not the current one, and
\* a pool that was replaced does not become the current one again.
LostWithPool == \A c \in Connections : place[c] = "gone" => c[1] # pool

IInv == TypeOK /\ Lending /\ Clean /\ Referenced /\ Unpublished /\ LostWithPool

-----------------------------------------------------------------------------
(* Connections and the pools they are of. *)

LEMMA PoolOf ==
  ASSUME NEW c \in Connections
  PROVE  /\ c[1] \in Pools /\ c[1] # NoPool
         /\ \A p : c \in ConnectionsOf(p) <=> c[1] = p
BY PoolAssumption DEF Connections, ConnectionsOf

LEMMA ConnectionsOfPool ==
  ASSUME NEW p \in Pools, NEW c \in ConnectionsOf(p)
  PROVE  c \in Connections /\ c[1] = p
BY DEF Connections, ConnectionsOf

LEMMA InitInv == Init => IInv
<1>. SUFFICES ASSUME Init PROVE IInv
  OBVIOUS
<1>1. TypeOK
  BY DEF Init, TypeOK
<1>2. Lending /\ Clean /\ Unpublished /\ LostWithPool
  BY ConnectionAssumption DEF Init, Lending, Clean, Unpublished, LostWithPool, Holding, Using
<1>3. Referenced
  BY PoolOf DEF Init, Referenced
<1>. QED
  BY <1>1, <1>2, <1>3 DEF IInv

-----------------------------------------------------------------------------
(* What the steps of a thread do to connections and pools, whatever method  *)
(* they are of.                                                              *)

\* It goes on, with the connection it has or without one.
Moves(t) ==
  /\ pc'[t] # "publish"
  /\ (pc'[t] \in Holding) <=> (pc[t] \in Holding)
  /\ (pc'[t] \in Holding \ Using) => ~inTx'[held[t]]
  /\ \A u \in Threads \ {t} : pc'[u] = pc[u]
  /\ \A c \in Connections : inTx'[c] => inTx[c] \/ c = held[t]
  /\ UNCHANGED <<pool, made, mine, place, held>>

LEMMA MovesKeep ==
  ASSUME IInv, NEW t \in Threads, Moves(t), TypeOK' PROVE IInv'
<1>1. /\ pc'[t] # "publish"
      /\ (pc'[t] \in Holding) <=> (pc[t] \in Holding)
      /\ (pc'[t] \in Holding \ Using) => ~inTx'[held[t]]
  BY DEF Moves
<1>2. /\ \A c \in Connections : inTx'[c] => inTx[c] \/ c = held[t]
      /\ UNCHANGED <<pool, made, mine, place, held>>
  BY DEF Moves
<1>3. TypeOK
  BY DEF IInv
<1>4. \A u \in Threads \ {t} : pc'[u] = pc[u]
  BY DEF Moves
<1>5. Lending'
  <2>1. \A u \in Threads : pc'[u] \in Holding <=> pc[u] \in Holding
    BY <1>1, <1>4
  <2>. QED
    BY <1>2, <2>1 DEF IInv, Lending
<1>6. Clean'
  <2>1. ASSUME NEW c \in Connections, place'[c] # "lent" PROVE ~inTx'[c]
    BY <1>2, <1>3, <2>1, ConnectionAssumption DEF IInv, Clean, TypeOK
  <2>2. ASSUME NEW u \in Threads, pc'[u] \in Holding \ Using PROVE ~inTx'[held'[u]]
    <3>1. CASE u = t
      BY <1>1, <1>2, <2>2, <3>1
    <3>2. CASE u # t
      <4>1. held[u] # held[t] /\ held[u] \in Connections /\ ~inTx[held[u]]
        BY <1>3, <1>4, <2>2, <3>2 DEF IInv, Lending, Clean, TypeOK
      <4>. QED
        BY <1>2, <4>1
    <3>. QED
      BY <3>1, <3>2
  <2>. QED
    BY <2>1, <2>2 DEF Clean
<1>7. Referenced' /\ Unpublished' /\ LostWithPool'
  BY <1>1, <1>2, <1>4 DEF IInv, Referenced, Unpublished, LostWithPool
<1>. QED
  BY <1>5, <1>6, <1>7 DEF IInv

\* It gives its connection back, or closes it.
GivesBack(t, c) ==
  /\ c = held[t]
  /\ place'[c] \in {"idle", "absent", "gone"} /\ (place'[c] = "gone" => c[1] # pool)
  /\ \A d \in Connections \ {c} : place'[d] = place[d]
  /\ ~inTx'[c] /\ \A d \in Connections \ {c} : inTx'[d] = inTx[d]
  /\ held'[t] = NoConnection /\ pc'[t] \in {"idle", "again"}
  /\ \A u \in Threads \ {t} : held'[u] = held[u] /\ pc'[u] = pc[u]
  /\ UNCHANGED <<pool, made, mine>>

LEMMA GivesBackKeeps ==
  ASSUME IInv, NEW t \in Threads, NEW c \in Connections, GivesBack(t, c), TypeOK'
  PROVE  IInv'
<1>1. TypeOK
  BY DEF IInv
<1>2. /\ c = held[t] /\ place[c] = "lent" /\ c # NoConnection
      /\ \A u \in Threads \ {t} : held[u] # c
  BY ConnectionAssumption DEF GivesBack, IInv, TypeOK, Lending
<1>3. /\ place'[c] \in {"idle", "absent", "gone"}
      /\ place'[c] = "gone" => c[1] # pool
      /\ \A d \in Connections \ {c} : place'[d] = place[d]
  BY <1>1 DEF GivesBack, TypeOK
<1>4. ~inTx'[c] /\ \A d \in Connections \ {c} : inTx'[d] = inTx[d]
  BY DEF GivesBack
<1>5. /\ held'[t] = NoConnection /\ pc'[t] \notin Holding /\ pc'[t] # "publish"
      /\ \A u \in Threads \ {t} : held'[u] = held[u] /\ pc'[u] = pc[u]
  BY <1>1 DEF GivesBack, TypeOK, Holding, Using
<1>6. UNCHANGED <<pool, made, mine>>
  BY DEF GivesBack
<1>7. Lending'
  BY <1>2, <1>3, <1>5 DEF IInv, Lending
<1>8. Clean'
  <2>1. \A d \in Connections : place'[d] # "lent" => ~inTx'[d]
    BY <1>3, <1>4 DEF IInv, Clean
  <2>2. ASSUME NEW u \in Threads, pc'[u] \in Holding \ Using PROVE ~inTx'[held'[u]]
    <3>1. u # t /\ held'[u] = held[u] /\ ~inTx[held[u]] /\ held[u] \in Connections \ {c}
      BY <1>1, <1>2, <1>5, <2>2 DEF IInv, Clean, Lending, TypeOK
    <3>. QED
      BY <1>4, <3>1
  <2>. QED
    BY <2>1, <2>2 DEF Clean
<1>9. Referenced'
  BY <1>2, <1>3, <1>6 DEF IInv, Referenced
<1>10. Unpublished'
  BY <1>2, <1>3, <1>5, <1>6 DEF IInv, Unpublished
<1>11. LostWithPool'
  BY <1>3, <1>6 DEF IInv, LostWithPool
<1>. QED
  BY <1>7, <1>8, <1>9, <1>10, <1>11 DEF IInv

-----------------------------------------------------------------------------
(* The steps that do not give a connection back. *)

\* The helpers of the actions.
LEMMA GotoStep ==
  ASSUME TypeOK, NEW t \in Threads, NEW q, Goto(t, q)
  PROVE  pc'[t] = q /\ \A u \in Threads \ {t} : pc'[u] = pc[u]
BY DEF Goto, TypeOK

LEMMA ReturnStep ==
  ASSUME TypeOK, NEW t \in Threads, Return(t)
  PROVE  /\ pc'[t] = "idle" /\ held'[t] = NoConnection
         /\ \A u \in Threads \ {t} : pc'[u] = pc[u] /\ held'[u] = held[u]
BY DEF Return, Goto, TypeOK

LEMMA ReturnKeeps ==
  ASSUME IInv, NEW t \in Threads, pc[t] \notin Holding, Return(t),
         UNCHANGED <<pool, made, mine, place, health, inTx>>
  PROVE  IInv'
<1>1. TypeOK /\ held[t] = NoConnection
  BY DEF IInv, Lending
<1>2. held' = held
  BY <1>1 DEF Return, TypeOK
<1>3. TypeOK'
  BY <1>1, <1>2 DEF Return, Goto, TypeOK
<1>4. Moves(t)
  BY <1>1, <1>2, ReturnStep DEF Moves, Holding, Using
<1>. QED
  BY <1>3, <1>4, MovesKeep

LEMMA CallKeeps ==
  ASSUME IInv, NEW t \in Threads, Call(t) PROVE IInv'
<1>1. TypeOK
  BY DEF IInv
<1>2. /\ pc'[t] \in {"swap", "open"} /\ \A u \in Threads \ {t} : pc'[u] = pc[u]
      /\ TypeOK'
  BY <1>1 DEF Call, Goto, TypeOK, connections
<1>3. Moves(t)
  BY <1>2 DEF Moves, Call, connections, Holding, Using
<1>. QED
  BY <1>2, <1>3, MovesKeep

LEMMA OpenedKeeps ==
  ASSUME IInv, NEW t \in Threads, pc[t] \notin Holding, Opened(t),
         UNCHANGED <<pool, made, mine, place, health, inTx>>
  PROVE  IInv'
<1>1. CASE Return(t)
  BY <1>1, ReturnKeeps
<1>2. CASE Goto(t, "get") /\ UNCHANGED <<call, held>>
  <2>1. TypeOK' /\ pc'[t] = "get" /\ \A u \in Threads \ {t} : pc'[u] = pc[u]
    BY <1>2 DEF IInv, Goto, TypeOK
  <2>2. Moves(t)
    BY <1>2, <2>1 DEF Moves, Holding, Using
  <2>. QED
    BY <2>1, <2>2, MovesKeep
<1>. QED
  BY <1>1, <1>2 DEF Opened

LEMMA OpenKeeps ==
  ASSUME IInv, NEW t \in Threads, Open(t) PROVE IInv'
<1>1. TypeOK /\ pc[t] \notin Holding /\ UNCHANGED <<pool, made, mine, place, health, inTx>>
  BY DEF IInv, Open, connections, Holding, Using
<1>2. CASE Opened(t)
  BY <1>1, <1>2, OpenedKeeps
<1>3. CASE Goto(t, "create") /\ UNCHANGED <<call, held>>
  <2>1. TypeOK' /\ pc'[t] = "create" /\ \A u \in Threads \ {t} : pc'[u] = pc[u]
    BY <1>1, <1>3 DEF Goto, TypeOK
  <2>2. Moves(t)
    BY <1>1, <1>3, <2>1 DEF Moves, Holding, Using
  <2>. QED
    BY <2>1, <2>2, MovesKeep
<1>. QED
  BY <1>2, <1>3 DEF Open

LEMMA ExamineKeeps ==
  ASSUME IInv, NEW t \in Threads, Examine(t) PROVE IInv'
<1>1. TypeOK /\ pc[t] = "examine" /\ ~inTx[held[t]]
  BY DEF IInv, Clean, Examine, Holding, Using
<1>2. /\ pc'[t] \in {"replace", "begin", "query"} /\ \A u \in Threads \ {t} : pc'[u] = pc[u]
      /\ UNCHANGED <<pool, made, connections, call, held, mine>>
      /\ TypeOK'
  BY <1>1 DEF Examine, FirstUse, Goto, TypeOK, connections
<1>3. Moves(t)
  BY <1>1, <1>2 DEF Moves, connections, Holding, Using
<1>. QED
  BY <1>2, <1>3, MovesKeep

LEMMA BodyKeeps ==
  ASSUME IInv, NEW t \in Threads, Body(t) PROVE IInv'
<1>1. TypeOK /\ pc[t] = "body"
  BY DEF IInv, Body
<1>2. /\ pc'[t] \in {"commit", "rollback"} /\ \A u \in Threads \ {t} : pc'[u] = pc[u]
      /\ UNCHANGED <<pool, made, connections, call, held, mine>>
      /\ TypeOK'
  BY <1>1 DEF Body, Goto, TypeOK, connections
<1>3. Moves(t)
  BY <1>1, <1>2 DEF Moves, connections, Holding, Using
<1>. QED
  BY <1>2, <1>3, MovesKeep

\* Whoever is in a step that needs a connection has one.
LEMMA HeldConnection ==
  ASSUME IInv, NEW t \in Threads, pc[t] \in Holding
  PROVE  held[t] \in Connections /\ place[held[t]] = "lent"
BY DEF IInv, TypeOK, Lending

LEMMA NoticeTyped ==
  ASSUME TypeOK, NEW c \in Connections, Notice(c)
  PROVE  health' \in [Connections -> {"ok", "dead", "closed"}]
BY DEF Notice, TypeOK

LEMMA UseKeeps ==
  ASSUME IInv, NEW t \in Threads, Use(t) PROVE IInv'
<1>1. TypeOK /\ pc[t] \in Holding /\ held[t] \in Connections
  BY HeldConnection DEF IInv, Use, Holding, Using
<1>2. UNCHANGED <<pool, made, place, call, held, mine>>
  BY DEF Use
<1>3. /\ pc'[t] \in {"body", "release", "rollback"}
      /\ \A u \in Threads \ {t} : pc'[u] = pc[u]
      /\ pc' \in [Threads ->
           {"idle", "open", "create", "publish", "swap", "closing", "get", "examine", "replace",
            "again", "begin", "query", "body", "commit", "rollback", "release", "drop", "put"}]
  BY <1>1 DEF Use, Goto, TypeOK
<1>4. /\ inTx' \in [Connections -> BOOLEAN]
      /\ \A c \in Connections \ {held[t]} : inTx'[c] = inTx[c]
  BY <1>1 DEF Use, TypeOK
<1>5. health' \in [Connections -> {"ok", "dead", "closed"}]
  BY <1>1, NoticeTyped DEF Use, TypeOK
<1>6. TypeOK'
  BY <1>1, <1>2, <1>3, <1>4, <1>5 DEF TypeOK
<1>7. Moves(t)
  BY <1>1, <1>2, <1>3, <1>4 DEF Moves, Holding, Using
<1>. QED
  BY <1>6, <1>7, MovesKeep

\* commit(), rollback() and release() leave no transaction open.
LEMMA EndsTxKeeps ==
  ASSUME IInv, NEW t \in Threads, pc[t] \in Holding,
         inTx' = [inTx EXCEPT ![held[t]] = FALSE], Notice(held[t]),
         NEW q \in {"release", "put", "drop"}, Goto(t, q),
         UNCHANGED <<pool, made, place, call, held, mine>>
  PROVE  IInv'
<1>1. TypeOK /\ held[t] \in Connections
  BY HeldConnection DEF IInv
<1>2. pc'[t] = q /\ \A u \in Threads \ {t} : pc'[u] = pc[u]
  BY <1>1, GotoStep
<1>3. /\ inTx' \in [Connections -> BOOLEAN] /\ ~inTx'[held[t]]
      /\ \A c \in Connections \ {held[t]} : inTx'[c] = inTx[c]
  BY <1>1 DEF TypeOK
<1>4. health' \in [Connections -> {"ok", "dead", "closed"}]
  BY <1>1, NoticeTyped
<1>5. TypeOK'
  BY <1>1, <1>3, <1>4 DEF TypeOK, Goto
<1>6. Moves(t)
  BY <1>1, <1>2, <1>3 DEF Moves, Holding, Using
<1>. QED
  BY <1>5, <1>6, MovesKeep

LEMMA FinishKeeps ==
  ASSUME IInv, NEW t \in Threads, Finish(t) PROVE IInv'
BY EndsTxKeeps DEF Finish, Holding, Using

LEMMA ReleaseKeeps ==
  ASSUME IInv, NEW t \in Threads, Release(t) PROVE IInv'
BY EndsTxKeeps DEF Release, Holding, Using

-----------------------------------------------------------------------------
(* The steps that give a connection back, or close it. *)

LEMMA RenewFields ==
  ASSUME TypeOK, NEW cs, NEW where \in {"idle", "absent", "gone"}, Renew(cs, where)
  PROVE  /\ place' \in [Connections -> {"absent", "idle", "lent", "gone"}]
         /\ health' \in [Connections -> {"ok", "dead", "closed"}]
         /\ inTx' \in [Connections -> BOOLEAN]
         /\ \A c \in Connections : c \in cs => place'[c] = where /\ ~inTx'[c]
         /\ \A c \in Connections : c \notin cs => place'[c] = place[c] /\ inTx'[c] = inTx[c]
BY DEF Renew, TypeOK

\* A connection out of the hands of its thread.
PutAway(c) ==
  /\ place' \in [Connections -> {"absent", "idle", "lent", "gone"}]
  /\ health' \in [Connections -> {"ok", "dead", "closed"}]
  /\ inTx' \in [Connections -> BOOLEAN]
  /\ place'[c] \in {"idle", "absent", "gone"} /\ (place'[c] = "gone" => c[1] # pool)
  /\ \A d \in Connections \ {c} : place'[d] = place[d] /\ inTx'[d] = inTx[d]
  /\ ~inTx'[c]

LEMMA CloseAway ==
  ASSUME TypeOK, NEW c \in Connections, CloseConnection(c), c[1] # pool PROVE PutAway(c)
BY RenewFields DEF CloseConnection, PutAway

LEMMA RenewAway ==
  ASSUME TypeOK, NEW c \in Connections, Renew({c}, "idle") \/ Renew({c}, "absent")
  PROVE  PutAway(c)
BY RenewFields DEF PutAway

LEMMA DiscardAway ==
  ASSUME TypeOK, NEW c \in Connections, Discard(c) PROVE PutAway(c)
<1>1. CASE Accepts(pool, c)
  BY <1>1, RenewAway DEF Discard
<1>2. CASE ~Accepts(pool, c)
  BY <1>2, CloseAway DEF Discard, Accepts
<1>. QED
  BY <1>1, <1>2

\* putconn does not roll back: the connection must be clean by then.
LEMMA PutBackAway ==
  ASSUME TypeOK, NEW c \in Connections, ~inTx[c], PutBack(pool, c) PROVE PutAway(c)
<1>1. CASE health[c] = "closed"
  BY <1>1, RenewAway DEF PutBack
<1>2. CASE health[c] # "closed"
  BY <1>2 DEF PutBack, PutAway, TypeOK
<1>. QED
  BY <1>1, <1>2

LEMMA PutAwayKeeps ==
  ASSUME IInv, NEW t \in Threads, pc[t] \in Holding, PutAway(held[t]),
         NEW q \in {"idle", "again"}, Goto(t, q), held' = [held EXCEPT ![t] = NoConnection],
         call' \in [Threads -> {"none", "open", "transaction", "health_check", "close"}],
         UNCHANGED <<pool, made, mine>>
  PROVE  IInv'
<1>. DEFINE c == held[t]
<1>1. TypeOK /\ c \in Connections /\ \A u \in Threads \ {t} : held[u] # c
  BY HeldConnection, ConnectionAssumption DEF IInv, Lending
<1>2. pc'[t] = q /\ \A u \in Threads \ {t} : pc'[u] = pc[u]
  BY <1>1, GotoStep
<1>3. /\ held' \in [Threads -> Connections \cup {NoConnection}]
      /\ held'[t] = NoConnection /\ \A u \in Threads \ {t} : held'[u] = held[u]
  BY <1>1 DEF TypeOK
<1>4. TypeOK'
  <2>1. \A u \in Threads : held'[u] # NoConnection => place'[held'[u]] = "lent"
    BY <1>1, <1>3 DEF PutAway, TypeOK
  <2>. QED
    BY <1>1, <1>3, <2>1 DEF PutAway, Goto, TypeOK
<1>5. GivesBack(t, c)
  BY <1>2, <1>3 DEF GivesBack, PutAway
<1>. QED
  BY <1>1, <1>4, <1>5, GivesBackKeeps

LEMMA ReplaceKeeps ==
  ASSUME IInv, NEW t \in Threads, Replace(t) PROVE IInv'
<1>1. /\ pc[t] \in Holding /\ PutAway(held[t])
      /\ call' \in [Threads -> {"none", "open", "transaction", "health_check", "close"}]
  BY HeldConnection, DiscardAway DEF IInv, Replace, Holding, Using, TypeOK
<1>. QED
  BY <1>1, PutAwayKeeps DEF Replace

\* release() without a pool, and its last step.
LEMMA LastStepKeeps ==
  ASSUME IInv, NEW t \in Threads, ReleaseClosed(t) \/ Drop(t) \/ Put(t) PROVE IInv'
<1>1. /\ TypeOK /\ pc[t] \in {"release", "drop", "put"} /\ pc[t] \in Holding
      /\ Return(t) /\ UNCHANGED <<pool, made, mine>>
  BY DEF IInv, ReleaseClosed, Drop, Put, Holding, Using
<1>2. held[t] \in Connections
  BY <1>1, HeldConnection
<1>3. PutAway(held[t])
  <2>1. CASE ReleaseClosed(t)
    BY <1>1, <1>2, <2>1, CloseAway, PoolOf DEF ReleaseClosed
  <2>2. CASE Drop(t)
    BY <1>1, <1>2, <2>2, DiscardAway DEF Drop
  <2>3. CASE Put(t)
    <3>1. ~inTx[held[t]]
      BY <2>3 DEF IInv, Clean, Put, Holding, Using
    <3>2. CASE Accepts(pool, held[t])
      BY <1>1, <1>2, <2>3, <3>1, <3>2, PutBackAway DEF Put
    <3>3. CASE ~Accepts(pool, held[t])
      BY <1>1, <1>2, <2>3, <3>3, CloseAway DEF Put, Accepts
    <3>. QED
      BY <3>2, <3>3
  <2>. QED
    BY <2>1, <2>2, <2>3
<1>4. /\ Goto(t, "idle") /\ held' = [held EXCEPT ![t] = NoConnection]
      /\ call' \in [Threads -> {"none", "open", "transaction", "health_check", "close"}]
  BY <1>1 DEF Return, TypeOK
<1>. QED
  BY <1>1, <1>3, <1>4, PutAwayKeeps

-----------------------------------------------------------------------------
(* getconn *)

LEMMA GetFailsKeeps ==
  ASSUME IInv, NEW t \in Threads, GetFails(t) \/ CreateFails(t) PROVE IInv'
<1>1. /\ pc[t] \notin Holding /\ Return(t)
      /\ UNCHANGED <<pool, made, mine, place, health, inTx>>
  BY DEF GetFails, CreateFails, connections, Holding, Using
<1>. QED
  BY <1>1, ReturnKeeps

\* It lends a connection nobody has, of the current pool, without a transaction.
LEMMA GetKeeps ==
  ASSUME IInv, NEW t \in Threads, Get(t) PROVE IInv'
<1>1. /\ TypeOK /\ pc[t] \notin Holding /\ pool \in Pools
      /\ UNCHANGED <<pool, made, call, mine>>
  BY DEF IInv, Get, Holding, Using, TypeOK
<1>2. PICK c \in ConnectionsOf(pool) :
        /\ place[c] \in {"idle", "absent"}
        /\ \/ UNCHANGED <<health, inTx>>
           \/ health' = [health EXCEPT ![c] = "ok"] /\ inTx' = [inTx EXCEPT ![c] = FALSE]
        /\ place' = [place EXCEPT ![c] = "lent"]
        /\ held' = [held EXCEPT ![t] = c]
  BY DEF Get, GetFrom
<1>3. c \in Connections /\ c[1] = pool /\ c # NoConnection
  BY <1>1, <1>2, ConnectionsOfPool, ConnectionAssumption
<1>4. ~inTx[c] /\ \A u \in Threads : held[u] # c
  BY <1>1, <1>2, <1>3 DEF IInv, Clean, TypeOK
<1>5. /\ place'[c] = "lent" /\ \A d \in Connections \ {c} : place'[d] = place[d]
      /\ held'[t] = c /\ \A u \in Threads \ {t} : held'[u] = held[u]
      /\ ~inTx'[c] /\ \A d \in Connections \ {c} : inTx'[d] = inTx[d]
  BY <1>1, <1>2, <1>3, <1>4 DEF TypeOK
<1>6. /\ pc'[t] \in {"examine", "begin", "query"}
      /\ \A u \in Threads \ {t} : pc'[u] = pc[u]
  BY <1>1 DEF Get, FirstUse, Goto, TypeOK
<1>7. pc'[t] \in Holding \ Using
  BY <1>6 DEF Holding, Using
<1>8. TypeOK'
  <2>1. \A u \in Threads : held'[u] # NoConnection => place'[held'[u]] = "lent"
    BY <1>1, <1>3, <1>4, <1>5 DEF TypeOK
  <2>2. pc' \in [Threads ->
           {"idle", "open", "create", "publish", "swap", "closing", "get", "examine", "replace",
            "again", "begin", "query", "body", "commit", "rollback", "release", "drop", "put"}]
    BY <1>1 DEF Get, FirstUse, Goto, TypeOK
  <2>3. /\ health' \in [Connections -> {"ok", "dead", "closed"}]
        /\ inTx' \in [Connections -> BOOLEAN]
        /\ place' \in [Connections -> {"absent", "idle", "lent", "gone"}]
        /\ held' \in [Threads -> Connections \cup {NoConnection}]
    BY <1>1, <1>2, <1>3 DEF TypeOK
  <2>. QED
    BY <1>1, <2>1, <2>2, <2>3 DEF TypeOK
<1>9. Lending'
  <2>1. \A u, v \in Threads : held'[u] = held'[v] /\ held'[u] # NoConnection => u = v
    BY <1>4, <1>5 DEF IInv, Lending
  <2>2. ASSUME NEW d \in Connections, place'[d] = "lent" PROVE \E u \in Threads : held'[u] = d
    <3>1. CASE d = c
      BY <1>5, <3>1
    <3>2. CASE d # c
      <4>1. PICK u \in Threads : held[u] = d
        BY <1>5, <2>2, <3>2 DEF IInv, Lending
      <4>2. u # t
        BY <1>1, <4>1, ConnectionAssumption DEF IInv, Lending
      <4>. QED
        BY <1>5, <4>1, <4>2
    <3>. QED
      BY <3>1, <3>2
  <2>3. \A u \in Threads : held'[u] # NoConnection <=> pc'[u] \in Holding
    BY <1>3, <1>5, <1>6, <1>7 DEF IInv, Lending
  <2>. QED
    BY <2>1, <2>2, <2>3 DEF Lending
<1>10. Clean'
  <2>1. \A d \in Connections : place'[d] # "lent" => ~inTx'[d]
    BY <1>5 DEF IInv, Clean
  <2>2. ASSUME NEW u \in Threads, u # t, pc[u] \in Holding \ Using PROVE ~inTx'[held[u]]
    <3>1. held[u] \in Connections \ {c} /\ ~inTx[held[u]]
      BY <1>4, <2>2, HeldConnection DEF IInv, Clean
    <3>. QED
      BY <1>5, <3>1
  <2>. QED
    BY <1>5, <1>6, <2>1, <2>2 DEF Clean
<1>11. Referenced'
  BY <1>1, <1>3, <1>5, PoolAssumption DEF IInv, Referenced
<1>12. Unpublished'
  BY <1>1, <1>3, <1>5, <1>6 DEF IInv, Unpublished
<1>13. LostWithPool'
  BY <1>1, <1>5 DEF IInv, LostWithPool
<1>. QED
  BY <1>8, <1>9, <1>10, <1>11, <1>12, <1>13 DEF IInv

-----------------------------------------------------------------------------
(* Pool objects come and go. *)

\* Connections nobody has are made or closed.
LEMMA RenewIdleKeeps ==
  ASSUME IInv, NEW cs, NEW where \in {"idle", "absent"}, Renew(cs, where),
         \A c \in Connections : c \in cs => place[c] # "lent", UNCHANGED held,
         \A t \in Threads : (pc'[t] \in Holding \/ pc[t] \in Holding) => pc'[t] = pc[t]
  PROVE  /\ Lending' /\ Clean'
         /\ \A t \in Threads : held'[t] # NoConnection => place'[held'[t]] = "lent"
<1>1. TypeOK /\ Lending /\ Clean
  BY DEF IInv
<1>2. /\ \A c \in Connections : c \in cs => place'[c] # "lent" /\ ~inTx'[c]
      /\ \A c \in Connections : c \notin cs => place'[c] = place[c] /\ inTx'[c] = inTx[c]
  BY <1>1, RenewFields
<1>3. \A t \in Threads : held[t] # NoConnection =>
        held[t] \in Connections /\ held[t] \notin cs /\ place[held[t]] = "lent"
  BY <1>1 DEF TypeOK
<1>4. \A c \in Connections : place'[c] = "lent" => place[c] = "lent"
  BY <1>2
<1>5. \A t \in Threads : pc'[t] \in Holding <=> pc[t] \in Holding
  OBVIOUS
<1>6. Lending'
  BY <1>1, <1>4, <1>5 DEF Lending
<1>7. Clean'
  <2>1. \A c \in Connections : place'[c] # "lent" => ~inTx'[c]
    BY <1>1, <1>2 DEF Clean
  <2>2. ASSUME NEW t \in Threads, pc'[t] \in Holding \ Using PROVE ~inTx'[held'[t]]
    <3>1. pc[t] \in Holding \ Using /\ held[t] # NoConnection
      BY <1>1, <2>2 DEF Lending
    <3>. QED
      BY <1>1, <1>2, <1>3, <3>1 DEF Clean
  <2>. QED
    BY <2>1, <2>2 DEF Clean
<1>. QED
  BY <1>2, <1>3, <1>6, <1>7

LEMMA CreateKeeps ==
  ASSUME IInv, NEW t \in Threads, Create(t) PROVE IInv'
<1>. DEFINE p == CHOOSE q \in Pools : made[q] = "free"
            cs == {p} \X (1..MinSize)
<1>1. /\ TypeOK /\ p \in Pools /\ made[p] = "free" /\ pc[t] = "create"
      /\ made' = [made EXCEPT ![p] = "open"] /\ mine' = [mine EXCEPT ![t] = p]
      /\ Renew(cs, "idle") /\ Goto(t, "publish") /\ UNCHANGED <<pool, call, held>>
  BY DEF IInv, Create
<1>2. \A c \in Connections : c \in cs => c[1] = p
  BY DEF Connections
<1>. HIDE DEF p, cs
<1>3. \A c \in Connections : c[1] = p => place[c] = "absent"
  BY <1>1 DEF IInv, Referenced
<1>4. pc'[t] = "publish" /\ \A u \in Threads \ {t} : pc'[u] = pc[u]
  BY <1>1, GotoStep
<1>5. /\ Lending' /\ Clean'
      /\ \A u \in Threads : held'[u] # NoConnection => place'[held'[u]] = "lent"
  <2>1. \A c \in Connections : c \in cs => place[c] # "lent"
    BY <1>2, <1>3
  <2>2. pc[t] \notin Holding /\ pc'[t] \notin Holding
    BY <1>1, <1>4 DEF Holding, Using
  <2>. QED
    BY <1>1, <1>4, <2>1, <2>2, RenewIdleKeeps
<1>6. /\ \A c \in Connections : c \in cs => place'[c] = "idle"
      /\ \A c \in Connections : c \notin cs => place'[c] = place[c]
  BY <1>1, RenewFields
<1>7. /\ made'[p] = "open" /\ \A q \in Pools \ {p} : made'[q] = made[q]
      /\ mine'[t] = p /\ \A u \in Threads \ {t} : mine'[u] = mine[u]
  BY <1>1 DEF TypeOK
<1>8. pool # p /\ \A u \in Threads : mine[u] # p
  BY <1>1, PoolAssumption DEF IInv, Referenced
<1>9. TypeOK'
  <2>1. /\ place' \in [Connections -> {"absent", "idle", "lent", "gone"}]
        /\ health' \in [Connections -> {"ok", "dead", "closed"}]
        /\ inTx' \in [Connections -> BOOLEAN]
    BY <1>1, RenewFields
  <2>. QED
    BY <1>1, <1>5, <2>1 DEF TypeOK, Goto
<1>10. Referenced'
  <2>1. pool' # NoPool => made'[pool'] # "free"
    BY <1>1, <1>7, <1>8 DEF IInv, Referenced, TypeOK
  <2>2. \A u \in Threads : mine'[u] # NoPool => made'[mine'[u]] # "free"
    BY <1>1, <1>7, <1>8 DEF IInv, Referenced, TypeOK
  <2>3. \A c \in Connections : made'[c[1]] = "free" => place'[c] = "absent"
    BY <1>2, <1>6, <1>7, PoolOf DEF IInv, Referenced
  <2>. QED
    BY <2>1, <2>2, <2>3 DEF Referenced
<1>11. Unpublished'
  <2>1. ASSUME NEW u \in Threads, pc'[u] = "publish"
        PROVE  /\ mine'[u] \in Pools /\ mine'[u] # pool'
               /\ \A v \in Threads : v # u => mine'[v] # mine'[u]
               /\ \A c \in Connections : c[1] = mine'[u] => place'[c] \in {"idle", "absent"}
    <3>1. CASE u = t
      BY <1>1, <1>3, <1>6, <1>7, <1>8, <3>1
    <3>2. CASE u # t
      <4>1. pc[u] = "publish" /\ mine'[u] = mine[u] /\ mine[u] # p
        BY <1>4, <1>7, <1>8, <2>1, <3>2
      <4>2. \A v \in Threads : v # u => mine'[v] # mine[u]
        BY <1>7, <4>1 DEF IInv, Unpublished
      <4>3. \A c \in Connections : c[1] = mine[u] => place'[c] \in {"idle", "absent"}
        BY <1>6, <4>1 DEF IInv, Unpublished
      <4>. QED
        BY <1>1, <4>1, <4>2, <4>3 DEF IInv, Unpublished
    <3>. QED
      BY <3>1, <3>2
  <2>. QED
    BY <2>1 DEF Unpublished
<1>12. LostWithPool'
  BY <1>1, <1>6 DEF IInv, LostWithPool
<1>. QED
  BY <1>5, <1>9, <1>10, <1>11, <1>12 DEF IInv

LEMMA SameConnectionsKeep ==
  ASSUME IInv, UNCHANGED <<place, inTx, held>>, NEW t \in Threads,
         pc[t] \notin Holding, pc'[t] \notin Holding,
         \A u \in Threads \ {t} : pc'[u] = pc[u]
  PROVE  Lending' /\ Clean'
<1>1. \A u \in Threads : pc'[u] \in Holding <=> pc[u] \in Holding
  OBVIOUS
<1>2. Lending'
  BY <1>1 DEF IInv, Lending
<1>3. \A u \in Threads : pc'[u] \in Holding \ Using => pc[u] \in Holding \ Using
  OBVIOUS
<1>4. Clean'
  BY <1>3 DEF IInv, Clean
<1>. QED
  BY <1>2, <1>4

\* The pool published was never the current one, so none of its connections is lost.
LEMMA PublishKeeps ==
  ASSUME IInv, NEW t \in Threads, Publish(t) PROVE IInv'
<1>. DEFINE p == mine[t]
<1>1. /\ TypeOK /\ pc[t] = "publish" /\ held[t] = NoConnection
      /\ pool' = p /\ mine' = [mine EXCEPT ![t] = NoPool] /\ Opened(t)
      /\ UNCHANGED <<made, place, health, inTx>>
  BY DEF IInv, Publish, Lending, Holding, Using, connections
<1>2. /\ p \in Pools /\ p # NoPool /\ made[p] # "free"
      /\ \A u \in Threads : u # t => mine[u] # p
      /\ \A c \in Connections : c[1] = p => place[c] \in {"idle", "absent"}
  BY <1>1, PoolAssumption DEF IInv, Unpublished, Referenced
<1>3. /\ held' = held /\ pc'[t] \in {"idle", "get"}
      /\ \A u \in Threads \ {t} : pc'[u] = pc[u]
  BY <1>1 DEF Opened, Return, Goto, TypeOK
<1>4. TypeOK'
  BY <1>1, <1>2, <1>3 DEF Opened, Return, Goto, TypeOK
<1>5. Lending' /\ Clean'
  BY <1>1, <1>3, SameConnectionsKeep DEF Holding, Using
<1>6. mine'[t] = NoPool /\ \A u \in Threads \ {t} : mine'[u] = mine[u]
  BY <1>1 DEF TypeOK
<1>7. Referenced'
  BY <1>1, <1>2, <1>6 DEF IInv, Referenced
<1>8. Unpublished'
  <2>1. ASSUME NEW u \in Threads, pc'[u] = "publish"
        PROVE  /\ mine'[u] \in Pools /\ mine'[u] # pool'
               /\ \A v \in Threads : v # u => mine'[v] # mine'[u]
               /\ \A c \in Connections : c[1] = mine'[u] => place'[c] \in {"idle", "absent"}
    <3>1. u # t /\ pc[u] = "publish" /\ mine'[u] = mine[u]
      BY <1>3, <1>6, <2>1
    <3>. QED
      BY <1>1, <1>2, <1>6, <3>1, PoolAssumption DEF IInv, Unpublished
  <2>. QED
    BY <2>1 DEF Unpublished
<1>9. LostWithPool'
  BY <1>1, <1>2 DEF LostWithPool
<1>. QED
  BY <1>4, <1>5, <1>7, <1>8, <1>9 DEF IInv

LEMMA SwapKeeps ==
  ASSUME IInv, NEW t \in Threads, Swap(t) PROVE IInv'
<1>1. /\ TypeOK /\ pc[t] = "swap" /\ held[t] = NoConnection
      /\ pool' = NoPool /\ mine' = [mine EXCEPT ![t] = pool]
      /\ UNCHANGED <<made, place, health, inTx>>
  BY DEF IInv, Swap, Lending, Holding, Using, connections
<1>2. /\ held' = held /\ pc'[t] \in {"idle", "closing"}
      /\ \A u \in Threads \ {t} : pc'[u] = pc[u]
  BY <1>1 DEF Swap, Return, Goto, TypeOK
<1>3. TypeOK'
  BY <1>1, <1>2 DEF Swap, Return, Goto, TypeOK
<1>4. Lending' /\ Clean'
  BY <1>1, <1>2, SameConnectionsKeep DEF Holding, Using
<1>5. mine'[t] = pool /\ \A u \in Threads \ {t} : mine'[u] = mine[u]
  BY <1>1 DEF TypeOK
<1>6. Referenced'
  BY <1>1, <1>5 DEF IInv, Referenced
<1>7. Unpublished'
  <2>1. ASSUME NEW u \in Threads, pc'[u] = "publish"
        PROVE  /\ mine'[u] \in Pools /\ mine'[u] # pool'
               /\ \A v \in Threads : v # u => mine'[v] # mine'[u]
               /\ \A c \in Connections : c[1] = mine'[u] => place'[c] \in {"idle", "absent"}
    <3>1. u # t /\ pc[u] = "publish" /\ mine'[u] = mine[u]
      BY <1>2, <1>5, <2>1
    <3>. QED
      BY <1>1, <1>5, <3>1, PoolAssumption DEF IInv, Unpublished
  <2>. QED
    BY <2>1 DEF Unpublished
<1>8. LostWithPool'
  BY <1>1, PoolOf DEF LostWithPool
<1>. QED
  BY <1>3, <1>4, <1>6, <1>7, <1>8 DEF IInv

\* The idle connections of the pool are closed, the others are left to their threads.
LEMMA ClosePoolKeeps ==
  ASSUME IInv, NEW t \in Threads, ClosePool(t) PROVE IInv'
<1>. DEFINE cs == {c \in ConnectionsOf(mine[t]) : place[c] = "idle"}
<1>1. /\ TypeOK /\ pc[t] = "closing" /\ held[t] = NoConnection
      /\ made' = [made EXCEPT ![mine[t]] = "closed"]
      /\ mine' = [mine EXCEPT ![t] = NoPool]
      /\ Renew(cs, "absent") /\ Return(t) /\ UNCHANGED pool
  BY DEF IInv, ClosePool, Lending, Holding, Using
<1>2. \A c \in Connections : c \in cs => place[c] = "idle"
  OBVIOUS
<1>. HIDE DEF cs
<1>3. /\ held' = held /\ pc'[t] = "idle"
      /\ \A u \in Threads \ {t} : pc'[u] = pc[u]
  BY <1>1 DEF Return, Goto, TypeOK
<1>4. /\ Lending' /\ Clean'
      /\ \A u \in Threads : held'[u] # NoConnection => place'[held'[u]] = "lent"
  <2>1. pc[t] \notin Holding /\ pc'[t] \notin Holding
    BY <1>1, <1>3 DEF Holding, Using
  <2>. QED
    BY <1>1, <1>2, <1>3, <2>1, RenewIdleKeeps
<1>5. \A c \in Connections : place'[c] = place[c] \/ place'[c] = "absent"
  BY <1>1, RenewFields
<1>6. /\ \A q \in Pools : made'[q] = made[q] \/ made'[q] = "closed"
      /\ mine'[t] = NoPool /\ \A u \in Threads \ {t} : mine'[u] = mine[u]
  BY <1>1 DEF TypeOK
<1>7. TypeOK'
  <2>1. /\ place' \in [Connections -> {"absent", "idle", "lent", "gone"}]
        /\ health' \in [Connections -> {"ok", "dead", "closed"}]
        /\ inTx' \in [Connections -> BOOLEAN]
    BY <1>1, RenewFields
  <2>. QED
    BY <1>1, <1>3, <1>4, <2>1 DEF TypeOK, Return, Goto
<1>8. Referenced'
  <2>1. pool' # NoPool => made'[pool'] # "free"
    BY <1>1, <1>6 DEF IInv, Referenced, TypeOK
  <2>2. \A u \in Threads : mine'[u] # NoPool => made'[mine'[u]] # "free"
    BY <1>1, <1>6 DEF IInv, Referenced, TypeOK
  <2>3. \A c \in Connections : made'[c[1]] = "free" => place'[c] = "absent"
    BY <1>5, <1>6, PoolOf DEF IInv, Referenced
  <2>. QED
    BY <2>1, <2>2, <2>3 DEF Referenced
<1>9. Unpublished'
  <2>1. ASSUME NEW u \in Threads, pc'[u] = "publish"
        PROVE  /\ mine'[u] \in Pools /\ mine'[u] # pool'
               /\ \A v \in Threads : v # u => mine'[v] # mine'[u]
               /\ \A c \in Connections : c[1] = mine'[u] => place'[c] \in {"idle", "absent"}
    <3>1. u # t /\ pc[u] = "publish" /\ mine'[u] = mine[u]
      BY <1>3, <1>6, <2>1
    <3>. QED
      BY <1>1, <1>5, <1>6, <3>1, PoolAssumption DEF IInv, Unpublished
  <2>. QED
    BY <2>1 DEF Unpublished
<1>10. LostWithPool'
  BY <1>1, <1>5 DEF IInv, LostWithPool
<1>. QED
  BY <1>4, <1>7, <1>8, <1>9, <1>10 DEF IInv

-----------------------------------------------------------------------------
(* The server and the garbage collector. *)

LEMMA LoseKeeps ==
  ASSUME IInv, NEW c \in Connections, Lose(c) PROVE IInv'
<1>1. /\ TypeOK /\ UNCHANGED <<pool, made, place, pc, call, held, mine>>
      /\ inTx' = [inTx EXCEPT ![c] = FALSE]
      /\ health' \in [Connections -> {"ok", "dead", "closed"}]
  BY DEF IInv, Lose, TypeOK
<1>2. TypeOK'
  BY <1>1 DEF TypeOK
<1>3. \A d \in Connections : inTx'[d] => inTx[d]
  BY <1>1 DEF TypeOK
<1>4. Clean'
  <2>1. \A d \in Connections : place'[d] # "lent" => ~inTx'[d]
    BY <1>1, <1>3 DEF IInv, Clean
  <2>2. ASSUME NEW t \in Threads, pc'[t] \in Holding \ Using PROVE ~inTx'[held'[t]]
    <3>1. held[t] \in Connections /\ ~inTx[held[t]]
      BY <1>1, <2>2, HeldConnection DEF IInv, Clean
    <3>. QED
      BY <1>1, <1>3, <3>1
  <2>. QED
    BY <2>1, <2>2 DEF Clean
<1>5. Lending' /\ Referenced' /\ Unpublished' /\ LostWithPool'
  BY <1>1 DEF IInv, Lending, Referenced, Unpublished, LostWithPool
<1>. QED
  BY <1>2, <1>4, <1>5 DEF IInv

LEMMA CollectKeeps ==
  ASSUME IInv, NEW p \in Pools, Collect(p) PROVE IInv'
<1>. DEFINE cs == ConnectionsOf(p)
<1>1. /\ TypeOK /\ pool # p /\ \A t \in Threads : mine[t] # p
      /\ \A c \in cs : place[c] # "lent"
      /\ made' = [made EXCEPT ![p] = "free"] /\ Renew(cs, "absent")
      /\ UNCHANGED <<pool, pc, call, held, mine>>
  BY DEF IInv, Collect
<1>2. \A c \in Connections : c \in cs <=> c[1] = p
  BY PoolOf
<1>. HIDE DEF cs
<1>3. /\ Lending' /\ Clean'
      /\ \A t \in Threads : held'[t] # NoConnection => place'[held'[t]] = "lent"
  BY <1>1, RenewIdleKeeps
<1>4. /\ \A c \in Connections : c \in cs => place'[c] = "absent"
      /\ \A c \in Connections : c \notin cs => place'[c] = place[c]
  BY <1>1, RenewFields
<1>5. made'[p] = "free" /\ \A q \in Pools \ {p} : made'[q] = made[q]
  BY <1>1 DEF TypeOK
<1>6. TypeOK'
  <2>1. /\ place' \in [Connections -> {"absent", "idle", "lent", "gone"}]
        /\ health' \in [Connections -> {"ok", "dead", "closed"}]
        /\ inTx' \in [Connections -> BOOLEAN]
    BY <1>1, RenewFields
  <2>. QED
    BY <1>1, <1>3, <2>1 DEF TypeOK
<1>7. Referenced'
  <2>1. pool' # NoPool => made'[pool'] # "free"
    BY <1>1, <1>5 DEF IInv, Referenced, TypeOK
  <2>2. \A t \in Threads : mine'[t] # NoPool => made'[mine'[t]] # "free"
    BY <1>1, <1>5 DEF IInv, Referenced, TypeOK
  <2>3. \A c \in Connections : made'[c[1]] = "free" => place'[c] = "absent"
    BY <1>2, <1>4, <1>5, PoolOf DEF IInv, Referenced
  <2>. QED
    BY <2>1, <2>2, <2>3 DEF Referenced
<1>8. Unpublished'
  BY <1>1, <1>4 DEF IInv, Unpublished
<1>9. LostWithPool'
  BY <1>1, <1>4 DEF IInv, LostWithPool
<1>. QED
  BY <1>3, <1>6, <1>7, <1>8, <1>9 DEF IInv

LEMMA StepInv == IInv /\ [Next]_vars => IInv'
<1>. SUFFICES ASSUME IInv, [Next]_vars PROVE IInv'
  OBVIOUS
<1>1. ASSUME NEW t \in Threads, Call(t) \/ Work(t) PROVE IInv'
  BY <1>1, CallKeeps, OpenKeeps, CreateKeeps, GetFailsKeeps, PublishKeeps, GetKeeps,
     ExamineKeeps, ReplaceKeeps, UseKeeps, BodyKeeps, FinishKeeps, LastStepKeeps,
     ReleaseKeeps, SwapKeeps, ClosePoolKeeps DEF Work
<1>2. CASE UNCHANGED vars
  BY <1>2 DEF vars, IInv, TypeOK, Lending, Clean, Referenced, Unpublished, LostWithPool
<1>. QED
  BY <1>1, <1>2, LoseKeeps, CollectKeeps DEF Next

THEOREM Inductive == Spec => []IInv
BY InitInv, StepInv, PTL DEF Spec

-----------------------------------------------------------------------------
(* What the pool promises. *)

\* The values of the variables, and no thread has a connection that the pool does
\* not count as lent.
THEOREM PoolTyped == Spec => []TypeOK
<1>1. IInv => TypeOK
  BY DEF IInv
<1>. QED
  BY <1>1, Inductive, PTL

\* A connection serves one thread at a time, and comes without a transaction.
THEOREM TransactionsPrivate == Spec => []TransactionsArePrivate
<1>1. IInv => TransactionsArePrivate
  BY DEF IInv, Lending, Clean, Holding, Using, TransactionsArePrivate
<1>. QED
  BY <1>1, Inductive, PTL

\* With no call running, the current pool has back all it has lent, and none of its
\* connections was closed behind its back.
THEOREM CapacityRecovered == Spec => []CapacityIsRecovered
<1>1. ASSUME IInv PROVE CapacityIsRecovered
  <2>. SUFFICES ASSUME AtRest, NEW c \in Connections, c[1] = pool
                PROVE  place[c] \in {"idle", "absent"}
    BY DEF CapacityIsRecovered
  <2>1. \A t \in Threads : held[t] = NoConnection
    BY <1>1 DEF AtRest, IInv, Lending, Holding, Using
  <2>2. place[c] # "lent"
    BY <1>1, <2>1, ConnectionAssumption DEF IInv, Lending
  <2>3. place[c] # "gone"
    BY <1>1 DEF IInv, LostWithPool
  <2>. QED
    BY <1>1, <2>2, <2>3 DEF IInv, TypeOK
<1>. QED
  BY <1>1, Inductive, PTL

=============================================================================
