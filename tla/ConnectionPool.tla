--------------------------- MODULE ConnectionPool ---------------------------
(***************************************************************************)
(* The connection pool of core/db.py: _get_pool with its double-checked    *)
(* lock, _get_conn around every statement, and close_pool, which the       *)
(* lifespan calls while worker threads of cancelled tasks may still be in  *)
(* the middle of a statement and which does not take the lock.             *)
(* psycopg2's ThreadedConnectionPool is external: it raises when it is     *)
(* closed or exhausted, and closing it closes the connections that are     *)
(* borrowed as well.                                                       *)
(***************************************************************************)
EXTENDS Integers, FiniteSets

CONSTANTS
  Threads,   \* worker threads of asyncio.to_thread
  Pools,     \* pool objects that may be built
  NoPool,    \* None
  MaxConn    \* DB_POOL_MAXCONN

ASSUME PoolAssumption == NoPool \notin Pools /\ MaxConn \in Nat \ {0}

VARIABLES
  pool,      \* the global _pool
  built,     \* pools that were constructed
  closed,    \* pools that were closed
  used,      \* used[p]: threads that hold a connection of p
  mine,      \* mine[t]: the local pool of _get_conn
  at         \* at[t]: where thread t is

poolVars == <<pool, built, closed, used, mine, at>>

PoolInit ==
  /\ pool = NoPool /\ built = {} /\ closed = {}
  /\ used = [p \in Pools |-> {}]
  /\ mine = [t \in Threads |-> NoPool] /\ at = [t \in Threads |-> "idle"]

Move(t, place) == at' = [at EXCEPT ![t] = place]

(* "if _pool is not None" outside the lock                                 *)
LookForPool(t) ==
  /\ at[t] = "idle"
  /\ Move(t, IF pool = NoPool THEN "waiting" ELSE "found")
  /\ UNCHANGED <<pool, built, closed, used, mine>>

BuildUnchecked(t) ==   \* mutant: the lock without the second check
  /\ at[t] = "waiting"
  /\ \/ /\ \E p \in Pools \ built : pool' = p /\ built' = built \cup {p}
        /\ Move(t, "found")
     \/ Move(t, "idle") /\ UNCHANGED <<pool, built>>
  /\ UNCHANGED <<closed, used, mine>>

(* The body of the lock.  The database may not be reachable.               *)
BuildPool(t) ==
  /\ at[t] = "waiting"
  /\ \/ pool # NoPool /\ Move(t, "found") /\ UNCHANGED <<pool, built>>
     \/ /\ pool = NoPool
        /\ \E p \in Pools \ built : pool' = p /\ built' = built \cup {p}
        /\ Move(t, "found")
     \/ pool = NoPool /\ Move(t, "idle") /\ UNCHANGED <<pool, built>>
  /\ UNCHANGED <<closed, used, mine>>

(* "return _pool" reads the global again, which close_pool may have reset. *)
ReturnPool(t) ==
  /\ at[t] = "found"
  /\ mine' = [mine EXCEPT ![t] = pool]
  /\ Move(t, IF pool = NoPool THEN "idle" ELSE "asking")
  /\ UNCHANGED <<pool, built, closed, used>>

(* Closed, exhausted or without a connection to the server: it raises.     *)
GetConn(t) ==
  /\ at[t] = "asking"
  /\ \/ /\ mine[t] \notin closed /\ Cardinality(used[mine[t]]) < MaxConn
        /\ used' = [used EXCEPT ![mine[t]] = @ \cup {t}]
        /\ Move(t, "borrowed")
     \/ Move(t, "idle") /\ UNCHANGED used
  /\ UNCHANGED <<pool, built, closed, mine>>

(* The statement and its commit, or an error and the rollback, which may   *)
(* raise too: the finally clause comes after each of them.                 *)
EndStatement(t) ==
  /\ at[t] = "borrowed"
  /\ Move(t, "returning")
  /\ UNCHANGED <<pool, built, closed, used, mine>>

(* putconn raises when the pool was closed meanwhile.                      *)
PutConn(t) ==
  /\ at[t] = "returning"
  /\ used' = IF mine[t] \in closed THEN used ELSE [used EXCEPT ![mine[t]] = @ \ {t}]
  /\ Move(t, "idle")
  /\ UNCHANGED <<pool, built, closed, mine>>

(* close_pool: closeall, then the reset of the global                      *)
CloseAll ==
  /\ pool # NoPool /\ pool \notin closed
  /\ closed' = closed \cup {pool}
  /\ UNCHANGED <<pool, built, used, mine, at>>

ForgetPool ==
  /\ pool \in closed
  /\ pool' = NoPool
  /\ UNCHANGED <<built, closed, used, mine, at>>

ThreadStep(t) ==
  \/ LookForPool(t) \/ BuildPool(t) \/ ReturnPool(t)
  \/ GetConn(t) \/ EndStatement(t) \/ PutConn(t)

PoolNext == (\E t \in Threads : ThreadStep(t)) \/ CloseAll \/ ForgetPool

PoolSpec == PoolInit /\ [][PoolNext]_poolVars

-----------------------------------------------------------------------------
(* Types of the pool's state.                                              *)
PoolTypeOK ==
  /\ pool \in Pools \cup {NoPool}
  /\ built \subseteq Pools /\ closed \subseteq built
  /\ used \in [Pools -> SUBSET Threads]
  /\ mine \in [Threads -> Pools \cup {NoPool}]
  /\ at \in [Threads -> {"idle", "waiting", "found", "asking", "borrowed", "returning"}]

(* No connection is out of reach: every pool that is open is the current   *)
(* one, however many threads found none at the same time and whenever it   *)
(* was closed, and what an open pool has lent is held by threads that will *)
(* give it back, at most MaxConn of them (_get_pool, _get_conn).           *)
NothingLeaks ==
  /\ built \ closed \subseteq {pool}
  /\ \A p \in built \ closed :
       /\ used[p] = {t \in Threads : mine[t] = p /\ at[t] \in {"borrowed", "returning"}}
       /\ Cardinality(used[p]) <= MaxConn
=============================================================================
