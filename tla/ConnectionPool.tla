--------------------------- MODULE ConnectionPool ---------------------------
(***************************************************************************)
(* PostgreSQLBackend of database_backend.py, and the transaction() it      *)
(* inherits, used by threads that share one backend: open, acquire,        *)
(* discard, release, health_check and close.                               *)
(*                                                                         *)
(* The pool itself (psycopg_pool), the server and the garbage collector    *)
(* are external, modelled as far as the code relies on them.  No lock      *)
(* protects _pool, and every read of it is a step of its own.              *)
(***************************************************************************)
EXTENDS Integers, FiniteSets

CONSTANTS
  Threads,
  Pools,      \* the pool objects that may exist at a time
  NoPool,
  NoConnection,
  MinSize, MaxSize

\* One pool per thread and the current one can be in use at a time.
ASSUME PoolAssumption ==
  /\ NoPool \notin Pools
  /\ Cardinality(Pools) >= Cardinality(Threads)
  /\ MinSize \in Nat \ {0} /\ MaxSize \in Nat /\ MinSize <= MaxSize

Connections == Pools \X (1..MaxSize)

ConnectionsOf(p) == {p} \X (1..MaxSize)

ASSUME ConnectionAssumption == NoConnection \notin Connections

VARIABLES
  pool,    \* _pool
  made,    \* the pool objects: free, open or closed
  place,   \* where a connection is; "gone": closed by the code, not by its pool
  health,  \* "dead": the server has dropped it, and the client does not know
  inTx,    \* the server has a transaction open on it
  pc,
  call,    \* the method a thread is in
  held,    \* its connection
  mine     \* the pool object in a local variable of open() or close()

vars == <<pool, made, place, health, inTx, pc, call, held, mine>>

connections == <<place, health, inTx>>

Init ==
  /\ pool = NoPool
  /\ made = [p \in Pools |-> "free"]
  /\ place = [c \in Connections |-> "absent"]
  /\ health = [c \in Connections |-> "ok"]
  /\ inTx = [c \in Connections |-> FALSE]
  /\ pc = [t \in Threads |-> "idle"]
  /\ call = [t \in Threads |-> "none"]
  /\ held = [t \in Threads |-> NoConnection]
  /\ mine = [t \in Threads |-> NoPool]

Goto(t, p) == pc' = [pc EXCEPT ![t] = p]

\* Returns or raises; nobody but the caller can tell.
Return(t) ==
  /\ Goto(t, "idle")
  /\ call' = [call EXCEPT ![t] = "none"]
  /\ held' = [held EXCEPT ![t] = NoConnection]

\* The connections of cs are made anew, or closed; the server then rolls back.
Renew(cs, where) ==
  /\ place' = [c \in Connections |-> IF c \in cs THEN where ELSE place[c]]
  /\ health' = [c \in Connections |-> IF c \in cs THEN "ok" ELSE health[c]]
  /\ inTx' = [c \in Connections |-> IF c \in cs THEN FALSE ELSE inTx[c]]

CloseConnection(c) == Renew({c}, "gone")

-----------------------------------------------------------------------------
(* open() and close() *)

Call(t) ==
  /\ pc[t] = "idle"
  /\ \E m \in {"open", "transaction", "health_check", "close"} :
       /\ call' = [call EXCEPT ![t] = m]
       /\ Goto(t, IF m = "close" THEN "swap" ELSE "open")
  /\ UNCHANGED <<pool, made, connections, held, mine>>

Opened(t) ==
  IF call[t] = "open" THEN Return(t) ELSE Goto(t, "get") /\ UNCHANGED <<call, held>>

\* if self._pool is not None: return self
Open(t) ==
  /\ pc[t] = "open"
  /\ IF pool # NoPool THEN Opened(t) ELSE Goto(t, "create") /\ UNCHANGED <<call, held>>
  /\ UNCHANGED <<pool, made, connections, mine>>

\* A new pool with its first connections, in a local variable until it has them.
Create(t) ==
  /\ pc[t] = "create"
  /\ \E q \in Pools : made[q] = "free"
  /\ LET p == CHOOSE q \in Pools : made[q] = "free" IN
       /\ made' = [made EXCEPT ![p] = "open"]
       /\ mine' = [mine EXCEPT ![t] = p]
       /\ Renew({p} \X (1..MinSize), "idle")
  /\ Goto(t, "publish")
  /\ UNCHANGED <<pool, call, held>>

\* The server is not reached in time: the pool closes itself, open() raises.
CreateFails(t) ==
  /\ pc[t] = "create"
  /\ Return(t)
  /\ UNCHANGED <<pool, made, connections, mine>>

\* self._pool = pool, whatever is there by now.
Publish(t) ==
  /\ pc[t] = "publish"
  /\ pool' = mine[t]
  /\ mine' = [mine EXCEPT ![t] = NoPool]
  /\ Opened(t)
  /\ UNCHANGED <<made, connections>>

\* pool, self._pool = self._pool, None
Swap(t) ==
  /\ pc[t] = "swap"
  /\ pool' = NoPool
  /\ mine' = [mine EXCEPT ![t] = pool]
  /\ IF pool = NoPool THEN Return(t) ELSE Goto(t, "closing") /\ UNCHANGED <<call, held>>
  /\ UNCHANGED <<made, connections>>

\* pool.close(): the idle connections are closed, those lent when they come back.
ClosePool(t) ==
  /\ pc[t] = "closing"
  /\ made' = [made EXCEPT ![mine[t]] = "closed"]
  /\ Renew({c \in ConnectionsOf(mine[t]) : place[c] = "idle"}, "absent")
  /\ mine' = [mine EXCEPT ![t] = NoPool]
  /\ Return(t)
  /\ UNCHANGED pool

-----------------------------------------------------------------------------
(* acquire() *)

\* getconn lends a connection that is idle, or makes one more.
GetFrom(t, p) ==
  \E c \in ConnectionsOf(p) :
    /\ \/ place[c] = "idle" /\ UNCHANGED <<health, inTx>>
       \/ /\ place[c] = "absent"
          /\ \A d \in ConnectionsOf(p) : place[d] # "idle"
          /\ health' = [health EXCEPT ![c] = "ok"]
          /\ inTx' = [inTx EXCEPT ![c] = FALSE]
    /\ place' = [place EXCEPT ![c] = "lent"]
    /\ held' = [held EXCEPT ![t] = c]

FirstUse(t) == IF call[t] = "transaction" THEN "begin" ELSE "query"

\* self._pool.getconn(); its answer is examined the first time only.
Get(t) ==
  /\ pc[t] \in {"get", "again"}
  /\ pool # NoPool /\ GetFrom(t, pool)
  /\ Goto(t, IF pc[t] = "get" THEN "examine" ELSE FirstUse(t))
  /\ UNCHANGED <<pool, made, call, mine>>

\* close() was faster (None has no getconn), or no connection is free or can be
\* made within acquisition_timeout: acquire() raises.
GetFails(t) ==
  /\ pc[t] \in {"get", "again"}
  /\ \A c \in Connections : c[1] = pool => place[c] # "idle"
  /\ Return(t)
  /\ UNCHANGED <<pool, made, connections, mine>>

Examine(t) ==
  /\ pc[t] = "examine"
  /\ Goto(t, IF health[held[t]] = "closed" THEN "replace" ELSE FirstUse(t))
  /\ UNCHANGED <<pool, made, connections, call, held, mine>>

\* putconn accepts the connections of its own pool; a closed one is replaced, or
\* its place is free.
Accepts(p, c) == p = c[1]

PutBack(p, c) ==
  IF health[c] = "closed"
    THEN Renew({c}, "idle") \/ Renew({c}, "absent")
    ELSE place' = [place EXCEPT ![c] = "idle"] /\ UNCHANGED <<health, inTx>>

DiscardOnlyCloses(c) ==  \* Mutant: a discarded connection is not given back
  CloseConnection(c)

\* _discard(): putconn has no argument "destroy", so the connection is closed and
\* given back; what putconn raises is ignored.
Discard(c) ==
  IF Accepts(pool, c)
    THEN Renew({c}, "idle") \/ Renew({c}, "absent")
    ELSE CloseConnection(c)

ReplaceForgotten(t) ==  \* Mutant: acquire() goes on with the one it discarded
  /\ pc[t] = "replace" /\ Discard(held[t]) /\ Goto(t, FirstUse(t))
  /\ UNCHANGED <<pool, made, call, held, mine>>

\* It is exchanged for another one, once.
Replace(t) ==
  /\ pc[t] = "replace"
  /\ Discard(held[t])
  /\ held' = [held EXCEPT ![t] = NoConnection]
  /\ Goto(t, "again")
  /\ UNCHANGED <<pool, made, call, mine>>

-----------------------------------------------------------------------------
(* transaction() and health_check() *)

\* A statement on a connection the server has dropped raises, and is the first
\* to notice.
Notice(c) == health' = [health EXCEPT ![c] = IF @ = "ok" THEN @ ELSE "closed"]

\* BEGIN, or SELECT 1, before which the driver begins a transaction by itself.
Use(t) ==
  /\ pc[t] \in {"begin", "query"}
  /\ LET c == held[t] IN
       IF health[c] = "ok"
         THEN /\ inTx' = [inTx EXCEPT ![c] = TRUE]
              /\ IF pc[t] = "begin" THEN Goto(t, "body")
                 ELSE Goto(t, "release") \/ Goto(t, "rollback")
              /\ UNCHANGED health
         ELSE /\ Notice(c)
              /\ Goto(t, IF pc[t] = "begin" THEN "release" ELSE "rollback")
              /\ UNCHANGED inTx
  /\ UNCHANGED <<pool, made, place, call, held, mine>>

\* The block ends, or raises.
Body(t) ==
  /\ pc[t] = "body"
  /\ Goto(t, "commit") \/ Goto(t, "rollback")
  /\ UNCHANGED <<pool, made, connections, call, held, mine>>

\* commit() or rollback(), with or without success: the server has no transaction
\* left on a connection it still has.
Finish(t) ==
  /\ pc[t] \in {"commit", "rollback"}
  /\ inTx' = [inTx EXCEPT ![held[t]] = FALSE]
  /\ Notice(held[t])
  /\ Goto(t, "release")
  /\ UNCHANGED <<pool, made, place, call, held, mine>>

-----------------------------------------------------------------------------
(* release() *)

ReleaseAbandons(t) ==  \* Mutant: without a pool, release() has nothing to do
  /\ pc[t] = "release" /\ pool = NoPool /\ Return(t)
  /\ UNCHANGED <<pool, made, connections, mine>>

\* if self._pool is None: connection.close()
ReleaseClosed(t) ==
  /\ pc[t] = "release" /\ pool = NoPool
  /\ CloseConnection(held[t])
  /\ Return(t)
  /\ UNCHANGED <<pool, made, mine>>

ReleaseUnfinished(t) ==  \* Mutant: the rollback is left to commit and rollback
  /\ pc[t] = "release" /\ pool # NoPool
  /\ Goto(t, IF health[held[t]] = "closed" THEN "drop" ELSE "put")
  /\ UNCHANGED <<pool, made, connections, call, held, mine>>

\* It rolls back whatever was left open, and finds out whether the connection is
\* good.
Release(t) ==
  /\ pc[t] = "release" /\ pool # NoPool
  /\ Notice(held[t])
  /\ inTx' = [inTx EXCEPT ![held[t]] = FALSE]
  /\ Goto(t, IF health[held[t]] = "ok" THEN "put" ELSE "drop")
  /\ UNCHANGED <<pool, made, place, call, held, mine>>

Drop(t) ==
  /\ pc[t] = "drop"
  /\ Discard(held[t])
  /\ Return(t)
  /\ UNCHANGED <<pool, made, mine>>

PutOrLeave(t) ==  \* Mutant: what putconn raises is ignored here as well
  /\ pc[t] = "put" /\ Return(t)
  /\ IF Accepts(pool, held[t]) THEN PutBack(pool, held[t]) ELSE UNCHANGED connections
  /\ UNCHANGED <<pool, made, mine>>

\* putconn, of the pool that is there by now; if it raises, the connection is closed.
Put(t) ==
  /\ pc[t] = "put"
  /\ IF Accepts(pool, held[t])
       THEN PutBack(pool, held[t])
       ELSE CloseConnection(held[t])
  /\ Return(t)
  /\ UNCHANGED <<pool, made, mine>>

-----------------------------------------------------------------------------
(* The world *)

\* The server drops a connection, at once noticed or not.
Lose(c) ==
  /\ place[c] \in {"idle", "lent"} /\ health[c] = "ok"
  /\ \E h \in {"dead", "closed"} : health' = [health EXCEPT ![c] = h]
  /\ inTx' = [inTx EXCEPT ![c] = FALSE]
  /\ UNCHANGED <<pool, made, place, pc, call, held, mine>>

\* Nothing refers to the pool object any more, neither the backend, nor a method
\* that is running, nor a connection it has lent.
Collect(p) ==
  /\ made[p] # "free" /\ pool # p
  /\ \A t \in Threads : mine[t] # p
  /\ \A c \in ConnectionsOf(p) : place[c] # "lent"
  /\ made' = [made EXCEPT ![p] = "free"]
  /\ Renew(ConnectionsOf(p), "absent")
  /\ UNCHANGED <<pool, pc, call, held, mine>>

\* A call that has begun.
Work(t) ==
  \/ Open(t) \/ Create(t) \/ CreateFails(t) \/ Publish(t)
  \/ Get(t) \/ GetFails(t) \/ Examine(t) \/ Replace(t)
  \/ Use(t) \/ Body(t) \/ Finish(t)
  \/ ReleaseClosed(t) \/ Release(t) \/ Drop(t) \/ Put(t)
  \/ Swap(t) \/ ClosePool(t)

Next ==
  \/ \E t \in Threads : Call(t) \/ Work(t)
  \/ \E c \in Connections : Lose(c)
  \/ \E p \in Pools : Collect(p)

\* Threads go on with a call they are in (the blocks of transaction() end), and
\* objects nothing refers to are freed.
Spec ==
  /\ Init /\ [][Next]_vars
  /\ \A t \in Threads : WF_vars(Work(t))
  /\ \A p \in Pools : WF_vars(Collect(p))

-----------------------------------------------------------------------------

TypeOK ==
  /\ pool \in Pools \cup {NoPool}
  /\ made \in [Pools -> {"free", "open", "closed"}]
  /\ place \in [Connections -> {"absent", "idle", "lent", "gone"}]
  /\ health \in [Connections -> {"ok", "dead", "closed"}]
  /\ inTx \in [Connections -> BOOLEAN]
  /\ held \in [Threads -> Connections \cup {NoConnection}]
  /\ mine \in [Threads -> Pools \cup {NoPool}]
  /\ call \in [Threads -> {"none", "open", "transaction", "health_check", "close"}]
  /\ pc \in [Threads ->
       {"idle", "open", "create", "publish", "swap", "closing", "get", "examine", "replace",
        "again", "begin", "query", "body", "commit", "rollback", "release", "drop", "put"}]
  /\ \A t \in Threads : held[t] # NoConnection => place[held[t]] = "lent"

\* A connection serves one thread at a time, and whoever gets it finds nothing of
\* the transaction of another: the commits, rollbacks and health checks before
\* it, failed or not, have left none open.
TransactionsArePrivate ==
  \A t \in Threads : held[t] # NoConnection =>
    /\ \A u \in Threads \ {t} : held[u] # held[t]
    /\ pc[t] \in {"examine", "begin", "query"} => ~inTx[held[t]]

AtRest == \A t \in Threads : pc[t] = "idle"

\* Whatever broke, failed, raced or was reopened: when no call is running, the
\* pool has back all it has lent, so its capacity does not shrink.
CapacityIsRecovered ==
  AtRest => \A c \in Connections : c[1] = pool => place[c] \in {"idle", "absent"}

Live == {c \in Connections : place[c] \in {"idle", "lent"} /\ health[c] = "ok"}

\* Two threads may open two pools, and then hold more connections than max_size
\* allows; but not for good, if the backend is not closed again and again.
\* "bounded pool acquisition, ... broken-connection disposal" (README.md:194)
BoundIsRestored ==
  <>[](\A t \in Threads : call[t] # "close") => <>[](Cardinality(Live) <= MaxSize)

\* After close(), no connection is left at the server, even one that was lent at
\* the time, or that of a pool which another one replaced, unless the backend is
\* used again.  "clean pool shutdown" (README.md:194)
ShutdownIsClean == (pool = NoPool /\ AtRest) ~> (Live = {} \/ ~AtRest)

=============================================================================
