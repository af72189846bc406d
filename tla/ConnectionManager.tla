-------------------------- MODULE ConnectionManager --------------------------
(***************************************************************************)
(* The client's simple connection manager for one data group               *)
(* (src/src/client/simple_connection_manager.c).  Client threads ask for   *)
(* a connection to any server of the group (get_connection, which fails    *)
(* over across the servers and their service addresses), to the group's   *)
(* master (get_master_connection, which caches the master's address) or   *)
(* to a readable server; they give it back with release_connection (to    *)
(* the pool) or close_connection (after an error).  A connection to the    *)
(* master is tagged with data_group_id so that closing it clears the       *)
(* master cache.                                                           *)
(*                                                                         *)
(* The pool (conn_pool_*, libfastcommon) and the query RPCs               *)
(* (fs_client_proto_get_master / get_readable_server) are not in this      *)
(* repository.  Here a connect succeeds iff the address is reachable, the *)
(* pool hands back an idle connection to the same address if it has one  *)
(* (with whatever data_group_id it carries) or makes a new one, and a     *)
(* query answers the current master, or some reachable server, when some  *)
(* server can be reached.                                                  *)
(***************************************************************************)
EXTENDS Integers, FiniteSets

CONSTANTS
    Threads,    \* client threads sharing the manager
    NServers,   \* servers of the data group
    NAddr,      \* service addresses per server
    NONE,       \* a thread holds no connection
    FAIL,       \* a thread's last get returned NULL
    MaxEvents   \* failovers and address changes in a behaviour

Servers == 0..(NServers - 1)
Addrs == 0..(NAddr - 1)

\* A pooled connection: its server, address and data_group_id.
Conns == [srv : Servers, addr : Addrs, dg : {0, 1}]

VARIABLES
    up,         \* server -> address -> reachable
    master,     \* the data group's current master
    cache,      \* master_cache.conn: NONE (port 0) or the cached server
    addrIndex,  \* server -> addr_array->index
    held,       \* thread -> NONE or the connection it holds
    how,        \* thread -> which get it last called (ghost)
    idle,       \* idle pooled connections
    events      \* environment events so far

vars == <<up, master, cache, addrIndex, held, how, idle, events>>

TypeOK ==
    /\ up \in [Servers -> [Addrs -> BOOLEAN]]
    /\ master \in Servers
    /\ cache \in Servers \cup {NONE}
    /\ addrIndex \in [Servers -> Addrs]
    /\ held \in [Threads -> Conns \cup {NONE, FAIL}]
    /\ how \in [Threads -> {"any", "master", "readable", "none"}]
    /\ idle \subseteq Conns
    /\ events \in 0..MaxEvents

\* init_data_group_array: the master cache starts empty (port 0).
Init ==
    /\ up = [s \in Servers |-> [k \in Addrs |-> TRUE]]
    /\ master \in Servers
    /\ cache = NONE
    /\ addrIndex = [s \in Servers |-> 0]
    /\ held = [t \in Threads |-> NONE]
    /\ how = [t \in Threads |-> "none"]
    /\ idle = {}
    /\ events = 0

MinOf(S) == CHOOSE x \in S : \A y \in S : x <= y

\* get_spec_connection to address a of server s: the data_group_id values
\* the returned connection may carry (an idle one's, or 0 for a new one).
SpecTags(s, a) == {c.dg : c \in {c \in idle : c.srv = s /\ c.addr = a}} \cup {0}

(***************************************************************************)
(* make_connection: the address at addr_array->index if it connects; else, *)
(* with more than one address, the first other address in array order    *)
(* that connects, which becomes the new index.  -1 if none connects.      *)
(***************************************************************************)
OtherAddrsBefore(s, cur) == {k \in Addrs : k < cur}

OtherAddrs(s, cur) == Addrs \ {cur}

MakeConnectionIndexPastAddr(s) ==
    LET ok == {k \in OtherAddrs(s, addrIndex[s]) : up[s][k]}
    IN  IF up[s][addrIndex[s]] THEN addrIndex[s]
        ELSE IF NAddr = 1 \/ ok = {} THEN -1
        ELSE MinOf(ok) + 1

MakeConnection(s) ==
    LET cur == addrIndex[s]
        ok  == {k \in OtherAddrs(s, cur) : up[s][k]}
    IN  IF up[s][cur] THEN cur
        ELSE IF NAddr = 1 \/ ok = {} THEN -1
        ELSE MinOf(ok)

\* Hand thread t the connection to (s, a), taken from the pool if one is idle.
Connect(t, s, a, kind) ==
    \E dg \in SpecTags(s, a) :
        /\ held' = [held EXCEPT ![t] = [srv |-> s, addr |-> a, dg |-> dg]]
        /\ idle' = idle \ {[srv |-> s, addr |-> a, dg |-> dg]}
        /\ how' = [how EXCEPT ![t] = kind]

(***************************************************************************)
(* get_connection: a random server first (rand() % count), then the other  *)
(* servers in index order, each through make_connection; the first that   *)
(* connects is used.  If none does, the call returns NULL.                 *)
(*                                                                         *)
(***************************************************************************)
GetConnection(t) ==
    /\ held[t] = NONE
    /\ \E first \in Servers :
        LET good  == {s \in Servers \ {first} : MakeConnection(s) >= 0}
            s     == IF MakeConnection(first) >= 0 THEN first ELSE MinOf(good)
        IN  IF MakeConnection(first) < 0 /\ good = {}
              THEN /\ held' = [held EXCEPT ![t] = FAIL]
                   /\ how' = [how EXCEPT ![t] = "any"]
                   /\ UNCHANGED <<idle, addrIndex>>
              ELSE /\ Connect(t, s, MakeConnection(s), "any")
                   /\ addrIndex' = [addrIndex EXCEPT ![s] = MakeConnection(s)]
    /\ UNCHANGED <<up, master, cache, events>>
(***************************************************************************)
(* get_master_connection.  With a cached master (port > 0) it connects to  *)
(* the cached address and returns the result, NULL included; the cache is *)
(* left as it is.  Otherwise it asks for the master, connects to it and   *)
(* caches its address.  A master connection gets data_group_id = index+1. *)
(***************************************************************************)
SomeReachable == \E s \in Servers, k \in Addrs : up[s][k]

GetMasterConnection(t) ==
    /\ held[t] = NONE
    /\ IF cache # NONE
         THEN IF up[cache][0]
                THEN \E dg \in SpecTags(cache, 0) :
                       /\ held' = [held EXCEPT ![t] = [srv |-> cache, addr |-> 0, dg |-> 1]]
                       /\ idle' = idle \ {[srv |-> cache, addr |-> 0, dg |-> dg]}
                       /\ how' = [how EXCEPT ![t] = "master"]
                       /\ UNCHANGED cache
                ELSE /\ held' = [held EXCEPT ![t] = FAIL]
                     /\ how' = [how EXCEPT ![t] = "master"]
                     /\ UNCHANGED <<cache, idle>>
         ELSE IF SomeReachable /\ up[master][0]
                THEN \E dg \in SpecTags(master, 0) :
                       /\ held' = [held EXCEPT ![t] = [srv |-> master, addr |-> 0, dg |-> 1]]
                       /\ idle' = idle \ {[srv |-> master, addr |-> 0, dg |-> dg]}
                       /\ how' = [how EXCEPT ![t] = "master"]
                       /\ cache' = master
                ELSE /\ held' = [held EXCEPT ![t] = FAIL]
                     /\ how' = [how EXCEPT ![t] = "master"]
                     /\ UNCHANGED <<cache, idle>>
    /\ UNCHANGED <<up, master, addrIndex, events>>

\* get_readable_connection: ask for a readable server and connect to it.
GetReadableConnection(t) ==
    /\ held[t] = NONE
    /\ IF SomeReachable
         THEN \E s \in {s \in Servers : up[s][0]} : Connect(t, s, 0, "readable")
         ELSE /\ held' = [held EXCEPT ![t] = FAIL]
              /\ how' = [how EXCEPT ![t] = "readable"]
              /\ UNCHANGED idle
    /\ UNCHANGED <<up, master, cache, addrIndex, events>>

\* release_connection: clear data_group_id and put the connection back in
\* the pool.
ReleaseKeepTag(c) == c

ReleasedConn(c) == [c EXCEPT !.dg = 0]

ReleaseConnection(t) ==
    /\ held[t] \in Conns
    /\ idle' = idle \cup {ReleasedConn(held[t])}
    /\ held' = [held EXCEPT ![t] = NONE]
    /\ how' = [how EXCEPT ![t] = "none"]
    /\ UNCHANGED <<up, master, cache, addrIndex, events>>

\* close_connection: a tagged connection clears the master cache (port =
\* 0); the connection is destroyed.
CloseConnection(t) ==
    /\ held[t] \in Conns
    /\ cache' = IF held[t].dg > 0 THEN NONE ELSE cache
    /\ held' = [held EXCEPT ![t] = NONE]
    /\ how' = [how EXCEPT ![t] = "none"]
    /\ UNCHANGED <<up, master, addrIndex, idle, events>>

\* The caller sees the NULL and will ask again.
Retry(t) ==
    /\ held[t] = FAIL
    /\ held' = [held EXCEPT ![t] = NONE]
    /\ how' = [how EXCEPT ![t] = "none"]
    /\ UNCHANGED <<up, master, cache, addrIndex, idle, events>>

\* The data group elects another master.
Failover(s) ==
    /\ events < MaxEvents /\ s # master
    /\ master' = s
    /\ events' = events + 1
    /\ UNCHANGED <<up, cache, addrIndex, held, how, idle>>

\* A service address becomes unreachable or reachable again.
ToggleAddress(s, k) ==
    /\ events < MaxEvents
    /\ up' = [up EXCEPT ![s][k] = ~@]
    /\ events' = events + 1
    /\ UNCHANGED <<master, cache, addrIndex, held, how, idle>>

Next ==
    \/ \E t \in Threads :
          \/ GetConnection(t) \/ GetMasterConnection(t) \/ GetReadableConnection(t)
          \/ ReleaseConnection(t) \/ CloseConnection(t) \/ Retry(t)
    \/ \E s \in Servers : Failover(s)
    \/ \E s \in Servers, k \in Addrs : ToggleAddress(s, k)

\* Threads give back what they hold and retry after a NULL; an application
\* that keeps writing keeps asking for the master connection.
Fairness ==
    \A t \in Threads :
        /\ WF_vars(ReleaseConnection(t) \/ CloseConnection(t))
        /\ WF_vars(Retry(t))
        /\ SF_vars(GetMasterConnection(t))

Spec == Init /\ [][Next]_vars /\ Fairness

-----------------------------------------------------------------------------
\* A connection returned by get_connection or get_readable_connection never
\* carries a data_group_id, however pooled connections were used before:
\* release_connection clears it, so closing a non-master connection never
\* drops the master cache.
NonMasterConnsUntagged ==
    \A t \in Threads :
        held[t] \in Conns /\ how[t] # "master" => held[t].dg = 0

\* get_connection returns NULL only when no service address of any server
\* of the group is reachable (the server and address failover of
\* get_connection and make_connection).
GetConnectionFailsOnlyIfUnreachable ==
    [][\A t \in Threads :
         held[t] = NONE /\ held'[t] = FAIL /\ how'[t] = "any"
            => ~SomeReachable]_vars

\* Once the current master stays reachable (and a former master the cache
\* may still name stays unreachable, so no connection to it can fail over
\* to close_connection), a client that keeps asking for the master
\* connection keeps getting one to the current master.
StaleCacheDown == cache \in Servers /\ cache # master => ~up[cache][0]

MasterEventuallyReachable ==
    (<>[](up[master][0] /\ StaleCacheDown)) =>
        []<>(\E t \in Threads : held[t] \in Conns /\ how[t] = "master"
                              /\ held[t].srv = master)

====
