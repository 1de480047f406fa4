---------------------------- MODULE Agent_proofs ----------------------------
(***************************************************************************)
(* The agent loses no socket, and two agents agree in the end on the       *)
(* connections they have, whatever the number of connections, failures and *)
(* signals.                                                                *)
(***************************************************************************)
EXTENDS Agent, FiniteSetTheorems, TLAPS

Types ==
  /\ open \in [Sides -> SUBSET Conns]
  /\ fd \in [Sides -> Conns \cup {None}] /\ held \in [Sides -> Conns \cup {None}]
  /\ whand \in [Sides -> Conns \cup {None}]
  /\ mtx \in [Sides -> {"free", "connector", "notify"}]
  /\ wpc \in [Sides -> {"none", "connect", "end"}] /\ starts \in [Sides -> Nat]
  /\ connecting \in [Sides -> BOOLEAN]
  /\ up \in [Sides -> BOOLEAN] /\ raced \in [Sides -> BOOLEAN]

\* Who has which socket in his hands.
Hands(s) ==
  /\ IF mtx[s] = "free" THEN held[s] = None ELSE held[s] \in Conns
  /\ mtx[s] # "free" => fd[s] = None
  /\ wpc[s] # "end" => whand[s] = None

\* A reconnect is under way on behalf of one thread only.
OneReconnect(s) ==
  /\ up[s] => (connecting[s] <=> mtx[s] = "notify" \/ wpc[s] \in {"connect", "end"})
  /\ ~(mtx[s] = "notify" /\ wpc[s] \in {"connect", "end"})

\* An agent that has stopped has nothing.
Stopped(s) == ~up[s] => /\ open[s] = {} /\ fd[s] = None
                        /\ mtx[s] = "free" /\ wpc[s] = "none" /\ starts[s] = 0

Kept(s) == ~raced[s] => open[s] \subseteq {fd[s], held[s], whand[s]}

Side(s) == Hands(s) /\ OneReconnect(s) /\ Stopped(s) /\ Kept(s)

AInv == Types /\ \A s \in Sides : Side(s)

-----------------------------------------------------------------------------
\* What the proof looks at of one side.
Same(s) ==
  /\ open'[s] = open[s] /\ fd'[s] = fd[s] /\ held'[s] = held[s] /\ whand'[s] = whand[s]
  /\ mtx'[s] = mtx[s] /\ wpc'[s] = wpc[s] /\ connecting'[s] = connecting[s]
  /\ up'[s] = up[s] /\ raced'[s] = raced[s] /\ starts'[s] = starts[s]

(* A side that a step leaves alone stays as it should be.                  *)
LEMMA SameSide ==
  ASSUME NEW s \in Sides, Side(s), Same(s)
  PROVE  Side(s)'
  BY Zenon DEF Side, Same, Hands, OneReconnect, Stopped, Kept

(* The connector.                                                          *)
LEMMA Connector_thread_funcStep ==
  ASSUME AInv, NEW s \in Sides, connector_thread_func(s)
  PROVE  AInv'
  <1>1. Types /\ Side(s)
    BY Zenon DEF AInv
  <1>2. Types'
    BY <1>1 DEF connector_thread_func, Connects, ConnectFails, node, locks, worker,
           Types
  <1>3. \A q \in Sides \ {s} : Same(q)
    BY <1>1, ZenonT(30), ZenonT(30) DEF connector_thread_func, Connects,
       ConnectFails, node, locks, worker, Types, Same
  <1>4. Hands(s)' /\ OneReconnect(s)' /\ Stopped(s)'
    BY <1>1, SidesAssumption, ZenonT(30), ZenonT(30) DEF connector_thread_func,
       Connects, ConnectFails, node, locks, worker, Types, Side, Hands,
       OneReconnect, Stopped
  <1>5. Kept(s)'
    BY <1>1, SidesAssumption DEF connector_thread_func, Connects, ConnectFails,
           node, locks, worker, Types, Side, Hands, Stopped, Kept
  <1> QED
    BY <1>2, <1>3, <1>4, <1>5, SameSide, Zenon DEF AInv, Side

LEMMA ConnectorEndsStep ==
  ASSUME AInv, NEW s \in Sides, ConnectorEnds(s)
  PROVE  AInv'
  <1>1. Types /\ Side(s)
    BY Zenon DEF AInv
  <1>2. /\ \/ /\ fd' = [fd EXCEPT ![s] = held[s]] /\ open' = open
              /\ status' = [status EXCEPT ![s] = "CONNECTED"]
           \/ /\ open' = [open EXCEPT ![s] = @ \ {held[s]}] /\ fd' = fd
              /\ \E t \in {status[s], "OFFLINE"} : status' = [status EXCEPT ![s] = t]
        /\ mtx' = [mtx EXCEPT ![s] = "free"] /\ held' = [held EXCEPT ![s] = None]
        /\ connecting' = connecting
        /\ UNCHANGED <<up, whand, wpc, starts, raced>>
    BY Zenon DEF ConnectorEnds, TakesSocket, DropsSocket, Release, worker
  <1>21. held[s] \in Conns
    BY <1>1, Zenon DEF ConnectorEnds, Side, Hands
  <1>6. Types'
    <2>1. open' \in [Sides -> SUBSET Conns] /\ fd' \in [Sides -> Conns \cup {None}]
      BY <1>1, <1>2, <1>21 DEF Types
    <2> QED
      BY <1>1, <1>2, <2>1, Zenon DEF Types
  <1>3. \A q \in Sides \ {s} : Same(q)
    BY <1>1, Zenon DEF ConnectorEnds, TakesSocket, DropsSocket, Release, node, locks, worker,
       Types, Same
  <1>4. Hands(s)' /\ OneReconnect(s)' /\ Stopped(s)'
    BY <1>1, SidesAssumption, Zenon DEF ConnectorEnds, TakesSocket, DropsSocket, Release,
       node, locks, worker, Types, Side, Hands, OneReconnect, Stopped
  <1>5. Kept(s)'
    BY <1>1, <1>2, <1>21, SidesAssumption DEF ConnectorEnds, Types, Side, Hands, Stopped, Kept
  <1> QED
    BY <1>3, <1>4, <1>5, <1>6, SameSide, Zenon DEF AInv, Side

(* The sysfs checker.                                                      *)
LEMMA GetSessionStep ==
  ASSUME AInv, NEW s \in Sides, GetSession(s)
  PROVE  AInv'
  <1>1. Types /\ Side(s)
    BY Zenon DEF AInv
  <1>2. Types'
    <2>1. /\ whand' = whand /\ wpc' = wpc /\ starts' = starts
          /\ up' = up /\ raced' = raced
      BY <1>1, Zenon DEF GetSession, worker, Types
    <2>2. open' \in [Sides -> SUBSET Conns]
      BY <1>1 DEF GetSession, node, CloseFd, Types
    <2>3. fd' \in [Sides -> Conns \cup {None}]
      BY <1>1, Zenon DEF GetSession, node, Types
    <2>7. /\ held' = held \/ \E i \in Conns : held' = [held EXCEPT ![s] = i]
          /\ mtx' = mtx \/ mtx' = [mtx EXCEPT ![s] = "notify"]
      BY Zenon DEF GetSession, locks
    <2>4. held' \in [Sides -> Conns \cup {None}]
      BY <1>1, <2>7, Zenon DEF Types
    <2>5. mtx' \in [Sides -> {"free", "connector", "notify"}]
      BY <1>1, <2>7, Zenon DEF Types
    <2>6. connecting' \in [Sides -> BOOLEAN]
      BY <1>1, Zenon DEF GetSession, node, locks, Types
    <2> QED
      BY <1>1, <2>1, <2>2, <2>3, <2>4, <2>5, <2>6, Zenon DEF Types
  <1>3. \A q \in Sides \ {s} : Same(q)
    BY <1>1, ZenonT(30), ZenonT(30) DEF GetSession, Connects, ConnectFails,
       CloseFd, node, locks, worker, Types, Same
  <1>4. Hands(s)' /\ OneReconnect(s)' /\ Stopped(s)'
    BY <1>1, SidesAssumption DEF GetSession, Connects, ConnectFails, CloseFd, node,
           locks, worker, Types, Side, Hands, OneReconnect, Stopped
  <1>5. Kept(s)'
    BY <1>1, SidesAssumption DEF GetSession, Connects, ConnectFails, CloseFd, node,
           locks, worker, Types, Side, Hands, Stopped, Kept
  <1> QED
    BY <1>2, <1>3, <1>4, <1>5, SameSide, Zenon DEF AInv, Side

LEMMA GetSessionEndsStep ==
  ASSUME AInv, NEW s \in Sides, GetSessionEnds(s)
  PROVE  AInv'
  <1>1. Types /\ Side(s)
    BY Zenon DEF AInv
  <1>2. /\ \/ /\ fd' = [fd EXCEPT ![s] = held[s]] /\ open' = open
              /\ status' = [status EXCEPT ![s] = "CONNECTED"]
           \/ /\ open' = [open EXCEPT ![s] = @ \ {held[s]}] /\ fd' = fd
              /\ \E t \in {status[s], "OFFLINE"} : status' = [status EXCEPT ![s] = t]
        /\ mtx' = [mtx EXCEPT ![s] = "free"] /\ held' = [held EXCEPT ![s] = None]
        /\ connecting' = [connecting EXCEPT ![s] = FALSE]
        /\ UNCHANGED <<up, whand, wpc, starts, raced>>
    BY Zenon DEF GetSessionEnds, TakesSocket, DropsSocket, Release, worker
  <1>21. held[s] \in Conns
    BY <1>1, Zenon DEF GetSessionEnds, Side, Hands
  <1>6. Types'
    <2>1. open' \in [Sides -> SUBSET Conns] /\ fd' \in [Sides -> Conns \cup {None}]
      BY <1>1, <1>2, <1>21 DEF Types
    <2> QED
      BY <1>1, <1>2, <2>1, Zenon DEF Types
  <1>3. \A q \in Sides \ {s} : Same(q)
    BY <1>1, Zenon DEF GetSessionEnds, TakesSocket, DropsSocket, Release, node, locks, worker,
       Types, Same
  <1>4. Hands(s)' /\ OneReconnect(s)' /\ Stopped(s)'
    BY <1>1, SidesAssumption, Zenon DEF GetSessionEnds, TakesSocket, DropsSocket, Release,
       node, locks, worker, Types, Side, Hands, OneReconnect, Stopped
  <1>5. Kept(s)'
    BY <1>1, <1>2, <1>21, SidesAssumption DEF GetSessionEnds, Types, Side, Hands, Stopped, Kept
  <1> QED
    BY <1>3, <1>4, <1>5, <1>6, SameSide, Zenon DEF AInv, Side

LEMMA NotifyOfflineStep ==
  ASSUME AInv, NEW s \in Sides, NotifyOffline(s)
  PROVE  AInv'
  <1>1. Types /\ Side(s)
    BY Zenon DEF AInv
  <1>2. Types'
    BY <1>1, Zenon DEF NotifyOffline, CloseFd, node, locks, worker, Types
  <1>3. \A q \in Sides \ {s} : Same(q)
    BY <1>1, Zenon DEF NotifyOffline, CloseFd, node, locks, worker, Types, Same
  <1>4. Hands(s)' /\ OneReconnect(s)' /\ Stopped(s)'
    BY <1>1, SidesAssumption, Zenon DEF NotifyOffline, CloseFd, node, locks, worker, Types,
       Side, Hands, OneReconnect, Stopped
  <1>5. Kept(s)'
    BY <1>1, SidesAssumption, Zenon DEF NotifyOffline, CloseFd, node, locks, worker, Types,
       Side, Hands, Stopped, Kept
  <1> QED
    BY <1>2, <1>3, <1>4, <1>5, SameSide, Zenon DEF AInv, Side

(* The net-up signal and its worker.                                       *)
LEMMA Netup_listener_thread_funcStep ==
  ASSUME AInv, NEW s \in Sides, netup_listener_thread_func(s)
  PROVE  AInv'
  <1>1. Types /\ Side(s)
    BY Zenon DEF AInv
  <1>2. Types'
    <2>1. starts' \in [Sides -> Nat]
      BY <1>1 DEF netup_listener_thread_func, Types
    <2> QED
      BY <1>1, <2>1, Zenon DEF netup_listener_thread_func, node, locks, Types
  <1>3. \A q \in Sides \ {s} : Same(q)
    BY <1>1, Zenon DEF netup_listener_thread_func, node, locks, worker, Types, Same
  <1>4. Hands(s)' /\ OneReconnect(s)' /\ Stopped(s)'
    BY <1>1, SidesAssumption, Zenon DEF netup_listener_thread_func, node, locks, worker,
       Types, Side, Hands, OneReconnect, Stopped
  <1>5. Kept(s)'
    BY <1>1, SidesAssumption, Zenon DEF netup_listener_thread_func, node, locks, worker,
       Types, Side, Hands, Stopped, Kept
  <1> QED
    BY <1>2, <1>3, <1>4, <1>5, SameSide, Zenon DEF AInv, Side

LEMMA Try_reconnect_nodeStep ==
  ASSUME AInv, NEW s \in Sides, try_reconnect_node(s)
  PROVE  AInv'
  <1>1. Types /\ Side(s)
    BY Zenon DEF AInv
  <1>2. Types'
    <2>1. starts' \in [Sides -> Nat]
      BY <1>1 DEF try_reconnect_node, Types
    <2> QED
      BY <1>1, <2>1, Zenon DEF try_reconnect_node, locks, Types
  <1>3. \A q \in Sides \ {s} : Same(q)
    BY <1>1, Zenon DEF try_reconnect_node, node, locks, worker, Types, Same
  <1>4. Hands(s)' /\ OneReconnect(s)' /\ Stopped(s)'
    <2>1. starts[s] # 0
      BY <1>1 DEF try_reconnect_node, Types
    <2> QED
      BY <1>1, <2>1, SidesAssumption, Zenon DEF try_reconnect_node, locks, Types, Side, Hands,
         OneReconnect, Stopped
  <1>5. Kept(s)'
    BY <1>1, SidesAssumption, Zenon DEF try_reconnect_node, node, locks, worker, Types, Side,
       Hands, Stopped, Kept
  <1> QED
    BY <1>2, <1>3, <1>4, <1>5, SameSide, Zenon DEF AInv, Side

LEMMA WorkerConnectsStep ==
  ASSUME AInv, NEW s \in Sides, WorkerConnects(s)
  PROVE  AInv'
  <1>1. Types /\ Side(s)
    BY Zenon DEF AInv
  <1>2. Types'
    BY <1>1 DEF WorkerConnects, Connects, ConnectFails, node, locks, worker, Types
  <1>3. \A q \in Sides \ {s} : Same(q)
    BY <1>1, Zenon DEF WorkerConnects, Connects, ConnectFails, node, locks, worker, Types,
       Same
  <1>4. Hands(s)' /\ OneReconnect(s)' /\ Stopped(s)'
    BY <1>1, SidesAssumption, Zenon DEF WorkerConnects, Connects, ConnectFails, node, locks,
       worker, Types, Side, Hands, OneReconnect, Stopped
  <1>5. Kept(s)'
    BY <1>1, SidesAssumption DEF WorkerConnects, Connects, ConnectFails, node,
           locks, worker, Types, Side, Hands, Stopped, Kept
  <1> QED
    BY <1>2, <1>3, <1>4, <1>5, SameSide, Zenon DEF AInv, Side

LEMMA WorkerEndsStep ==
  ASSUME AInv, NEW s \in Sides, WorkerEnds(s)
  PROVE  AInv'
  <1>1. Types /\ Side(s)
    BY Zenon DEF AInv
  <1>2. Types'
    <2>1. \/ fd' = [fd EXCEPT ![s] = whand[s]] /\ open' = open
          \/ open' = [open EXCEPT ![s] = @ \ {whand[s]}] /\ fd' = fd
          \/ open' = open /\ fd' = fd
      BY Zenon DEF WorkerEnds, TakesSocket, DropsSocket
    <2>2. open' \in [Sides -> SUBSET Conns] /\ fd' \in [Sides -> Conns \cup {None}]
      BY <1>1, <2>1 DEF Types
    <2>3. /\ wpc' = [wpc EXCEPT ![s] = "none"] /\ whand' = [whand EXCEPT ![s] = None]
          /\ connecting' = [connecting EXCEPT ![s] = FALSE]
          /\ raced' = [raced EXCEPT ![s] = @ \/ fd[s] # None]
          /\ UNCHANGED <<up, mtx, held, starts>>
      BY Zenon DEF WorkerEnds, locks
    <2> QED
      BY <1>1, <2>2, <2>3, Zenon DEF Types
  <1>3. \A q \in Sides \ {s} : Same(q)
    BY <1>1, Zenon DEF WorkerEnds, TakesSocket, DropsSocket, node, locks, worker, Types, Same
  <1>4. Hands(s)' /\ OneReconnect(s)' /\ Stopped(s)'
    BY <1>1, SidesAssumption, Zenon DEF WorkerEnds, TakesSocket, DropsSocket, node, locks,
       worker, Types, Side, Hands, OneReconnect, Stopped
  <1>5. Kept(s)'
    <2>1. /\ wpc[s] = "end" /\ mtx[s] = "free"
          /\ \/ fd' = [fd EXCEPT ![s] = whand[s]] /\ open' = open
             \/ open' = [open EXCEPT ![s] = @ \ {whand[s]}] /\ fd' = fd
             \/ whand[s] = None /\ open' = open /\ fd' = fd
          /\ raced' = [raced EXCEPT ![s] = @ \/ fd[s] # None]
          /\ whand' = [whand EXCEPT ![s] = None]
          /\ UNCHANGED <<up, held>>
      BY Zenon DEF WorkerEnds, TakesSocket, DropsSocket, locks
    <2> QED
      BY <1>1, <2>1, SidesAssumption DEF Types, Side, Hands, Stopped, Kept
  <1> QED
    BY <1>2, <1>3, <1>4, <1>5, SameSide, Zenon DEF AInv, Side

(* The listener.                                                           *)
LEMMA Handle_new_connectionStep ==
  ASSUME AInv, NEW s \in Sides, handle_new_connection(s)
  PROVE  AInv'
  <1>1. Types /\ Side(s)
    BY Zenon DEF AInv
  <1>2. PICK i \in Conns :
          /\ \/ UNCHANGED <<open, fd, status>>
             \/ /\ open' = [open EXCEPT ![s] = (@ \ {fd[s]}) \cup {i}]
                /\ fd' = [fd EXCEPT ![s] = i] /\ status' = [status EXCEPT ![s] = "CONNECTED"]
             \/ /\ open' = [open EXCEPT ![s] = @ \ {fd[s]}]
                /\ fd' = [fd EXCEPT ![s] = None] /\ status' = status
          /\ UNCHANGED <<up, connecting, mtx, held, starts, wpc, whand, raced>>
    BY Zenon DEF handle_new_connection, CloseFd, locks, worker
  <1>6. Types'
    <2>1. open' \in [Sides -> SUBSET Conns] /\ fd' \in [Sides -> Conns \cup {None}]
      BY <1>1, <1>2 DEF Types
    <2> QED
      BY <1>1, <1>2, <2>1, Zenon DEF Types
  <1>3. \A q \in Sides \ {s} : Same(q)
    BY <1>1, ZenonT(30), ZenonT(30) DEF handle_new_connection, CloseFd, node,
       locks, worker, Types, Same
  <1>4. Hands(s)' /\ OneReconnect(s)' /\ Stopped(s)'
    BY <1>1, SidesAssumption, Zenon DEF handle_new_connection, CloseFd, node, locks, worker,
       Types, Side, Hands, OneReconnect, Stopped
  <1>5. Kept(s)'
    BY <1>1, <1>2, SidesAssumption DEF Types, Side, Hands, Stopped, Kept
  <1> QED
    BY <1>3, <1>4, <1>5, <1>6, SameSide, Zenon DEF AInv, Side

(* The agent stops and starts.                                             *)
LEMMA Cleanup_agentStep ==
  ASSUME AInv, NEW s \in Sides, cleanup_agent(s)
  PROVE  AInv'
  <1>1. Types /\ Side(s)
    BY Zenon DEF AInv
  <1>2. Types'
    BY <1>1, Zenon DEF cleanup_agent, node, locks, worker, Types
  <1>3. \A q \in Sides \ {s} : Same(q)
    BY <1>1, Zenon DEF cleanup_agent, node, locks, worker, Types, Same
  <1>4. Hands(s)' /\ OneReconnect(s)' /\ Stopped(s)'
    BY <1>1, SidesAssumption, Zenon DEF cleanup_agent, node, locks, worker, Types, Side,
       Hands, OneReconnect, Stopped
  <1>5. Kept(s)'
    BY <1>1, SidesAssumption, Zenon DEF cleanup_agent, node, locks, worker, Types, Side,
       Hands, Stopped, Kept
  <1> QED
    BY <1>2, <1>3, <1>4, <1>5, SameSide, Zenon DEF AInv, Side

LEMMA StartsStep ==
  ASSUME AInv, NEW s \in Sides, Starts(s)
  PROVE  AInv'
  <1>1. Types /\ Side(s)
    BY Zenon DEF AInv
  <1>2. Types'
    BY <1>1, Zenon DEF Starts, node, locks, worker, Types
  <1>3. \A q \in Sides \ {s} : Same(q)
    BY <1>1, ZenonT(30), ZenonT(30) DEF Starts, node, locks, worker, Types, Same
  <1>4. Hands(s)' /\ OneReconnect(s)' /\ Stopped(s)'
    BY <1>1, SidesAssumption, Zenon DEF Starts, node, locks, worker, Types, Side, Hands,
       OneReconnect, Stopped
  <1>5. Kept(s)'
    BY <1>1, SidesAssumption, Zenon DEF Starts, node, locks, worker, Types, Side, Hands,
       Stopped, Kept
  <1> QED
    BY <1>2, <1>3, <1>4, <1>5, SameSide, Zenon DEF AInv, Side

(* The kernel and the network do not touch what an agent has.              *)
LEMMA OutsideStep ==
  ASSUME AInv,
         \/ \E s \in Sides : \/ connection_handshake_recv_handler(s)
                             \/ hmdfs_reget_connection(s) \/ hmdfs_sendmessage(s) \/ PeerGone(s)
         \/ NetworkBreaks
         \/ UNCHANGED vars
  PROVE  AInv'
  <1>1. UNCHANGED <<open, fd, held, whand, mtx, wpc, connecting, up, raced, starts>>
    BY ZenonT(30) DEF connection_handshake_recv_handler, hmdfs_reget_connection,
       hmdfs_sendmessage, PeerGone, NetworkBreaks, vars, node, locks, worker
  <1>2. Types'
    BY <1>1, Zenon DEF AInv, Types
  <1>3. \A s \in Sides : Same(s)
    BY <1>1, Zenon DEF Same
  <1> QED
    BY <1>2, <1>3, SameSide, Zenon DEF AInv

LEMMA AgentInit ==
  ASSUME Init
  PROVE  AInv
  BY SidesAssumption, Zenon DEF Init, AInv, Types, Side, Hands, OneReconnect, Stopped, Kept

LEMMA AgentNext ==
  ASSUME AInv, [Next]_vars
  PROVE  AInv'
  BY Connector_thread_funcStep, ConnectorEndsStep, GetSessionStep, GetSessionEndsStep,
     NotifyOfflineStep, Netup_listener_thread_funcStep, Try_reconnect_nodeStep,
     WorkerConnectsStep, WorkerEndsStep, Handle_new_connectionStep, Cleanup_agentStep,
     StartsStep, OutsideStep, Zenon DEF Next, Threads

-----------------------------------------------------------------------------
(* The agent loses no socket: every one it has open is the node's or in    *)
(* the hands of a thread, for any number of connections, failures, signals *)
(* and restarts, unless a worker came back to a node to which another      *)
(* thread had given a socket meanwhile (hmdfs_agent.c, try_reconnect_node  *)
(* against handle_new_connection).                                         *)
THEOREM SocketsKept == Spec => []NoSocketLost
  <1>1. Init => AInv
    BY AgentInit, Zenon
  <1>2. AInv /\ [Next]_vars => AInv'
    BY AgentNext, Zenon
  <1>3. AInv => NoSocketLost
    BY Zenon DEF AInv, Side, Kept, NoSocketLost
  <1> QED
    BY <1>1, <1>2, <1>3, PTL DEF Spec

-----------------------------------------------------------------------------
\* What the connections and the kernels add.
NetTypes ==
  /\ tcp \in [Conns -> [Sides -> {"est", "wait", "shut"}]]
  /\ broken \subseteq Conns
  /\ backlog \in [Conns -> Sides \cup {None}]
  /\ kern \in [Sides -> SUBSET Conns]
  /\ notices \in [Sides -> Seq({"GET_SESSION", "OFFLINE"})]
  /\ status \in [Sides -> {"ONLINE", "OFFLINE", "CONNECTED"}]

\* An end that believes in its connection is in the kernel's list, waits to
\* be accepted or is in the hands of a thread.
Owned(i, s) ==
  tcp[i][s] = "est" =>
    \/ i \in kern[s] \/ backlog[i] = s
    \/ i \in open[s] /\ i \in {held[s], whand[s]}

\* An end that learned that the other one is gone is right.
Rightly(i, s) == tcp[i][s] = "wait" => i \in broken \/ tcp[i][Other(s)] = "shut"

Asked(s) == \E k \in 1 .. Len(notices[s]) : notices[s][k] = "GET_SESSION"

\* The kernel of a connected node has a connection or has asked for one, or
\* a thread is about to give it one.
Cared(s) ==
  up[s] /\ ~raced[s] /\ ~refused /\ status[s] = "CONNECTED" =>
    kern[s] # {} \/ Asked(s) \/ wpc[s] \in {"connect", "end"} \/ mtx[s] = "notify"

\* Only a connected node has a socket.
Plugged(s) == ~raced[s] /\ status[s] # "CONNECTED" => fd[s] = None

Ends == \A i \in Conns : \A s \in Sides : Owned(i, s) /\ Rightly(i, s)

NInv == NetTypes /\ Ends /\ \A s \in Sides : Cared(s) /\ Plugged(s)

(* There are two sides, each the other one of the other.                   *)
LEMMA TwoSides ==
  \A s \in Sides : /\ Other(s) \in Sides /\ Other(s) # s /\ Other(Other(s)) = s
                   /\ \A q \in Sides : q = s \/ q = Other(s)
  <1> SUFFICES ASSUME NEW s \in Sides
               PROVE  /\ Other(s) \in Sides /\ Other(s) # s /\ Other(Other(s)) = s
                      /\ \A q \in Sides : q = s \/ q = Other(s)
    BY Zenon
  <1>1. IsFiniteSet(Sides \ {s}) /\ Cardinality(Sides \ {s}) = 1
    BY SidesAssumption, FS_RemoveElement
  <1>2. PICK o : Sides \ {s} = {o}
    BY <1>1, FS_Singleton, Zenon
  <1>3. o \in Sides /\ o # s /\ \A q \in Sides : q = s \/ q = o
    BY <1>2, Zenon
  <1>4. Other(s) = o
    BY <1>3, Zenon DEF Other
  <1>5. Other(o) = s
    BY <1>3, Zenon DEF Other
  <1> QED
    BY <1>3, <1>4, <1>5, Zenon

\* The states t of the ends are the present ones, but that the ends of the
\* connections in C at side s are shut.
Shut(s, C, t) ==
  /\ t \in [Conns -> [Sides -> {"est", "wait", "shut"}]]
  /\ \A i \in Conns : \A q \in Sides :
       t[i][q] = IF q = s /\ i \in C THEN "shut" ELSE tcp[i][q]

LEMMA ClosedShut ==
  ASSUME NetTypes, NEW s \in Sides, NEW C
  PROVE  Shut(s, C \ kern[s], Closed(s, C))
  BY Zenon DEF NetTypes, Closed, Shut

LEMMA TcpShut ==
  ASSUME NetTypes, NEW s \in Sides
  PROVE  Shut(s, {}, tcp)
  BY Zenon DEF NetTypes, Shut

\* A step changes nothing that the other side has but the states of ends.
Elsewhere(s) ==
  \A q \in Sides \ {s} :
    /\ kern'[q] = kern[q] /\ open'[q] = open[q]
    /\ held'[q] = held[q] /\ whand'[q] = whand[q]

(* A step of side s shuts the ends of connections in C and makes no new    *)
(* connection: what it lets go of in another way the kernel has got.       *)
LEMMA ShutKeeps ==
  ASSUME AInv, NInv, NEW s \in Sides, NEW C, Shut(s, C, tcp'), broken' = broken,
         Elsewhere(s),
         \A i \in Conns : \/ backlog'[i] = backlog[i]
                          \/ backlog[i] = s /\ (i \in C \/ i \in kern'[s] \/ tcp[i][s] # "est"),
         \A i \in kern[s] : i \in kern'[s] \/ i \in C,
         \A i \in open[s] : i \in open'[s] \/ i \in kern'[s] \/ i \in C,
         \A i \in Conns : i \in {held[s], whand[s]} =>
           \/ i \in {held'[s], whand'[s]} \/ i \notin open[s]
           \/ i \in kern'[s] \/ i \in C \/ tcp[i][s] # "est"
  PROVE  Ends'
  <1> SUFFICES ASSUME NEW i \in Conns, NEW q \in Sides
               PROVE  Owned(i, q)' /\ Rightly(i, q)'
    BY Zenon DEF Ends
  <1>1. Owned(i, q) /\ Rightly(i, q) /\ Other(q) \in Sides
    BY TwoSides, Zenon DEF NInv, Ends
  <1>2. Rightly(i, q)'
    BY <1>1, ZenonT(30) DEF Rightly, Shut
  <1>3. CASE q = s
    <2>1. tcp'[i][s] = "est" => tcp[i][s] = "est" /\ i \notin C
      BY Zenon DEF Shut
    <2> QED
      BY <1>1, <1>2, <1>3, <2>1, Zenon DEF Owned
  <1>4. CASE q # s
    <2>1. /\ tcp'[i][q] = tcp[i][q] /\ kern'[q] = kern[q] /\ open'[q] = open[q]
          /\ held'[q] = held[q] /\ whand'[q] = whand[q]
      BY <1>4, Zenon DEF Shut, Elsewhere
    <2>2. backlog[i] = q => backlog'[i] = q
      BY <1>4, Zenon
    <2> QED
      BY <1>1, <1>2, <2>1, <2>2, Zenon DEF Owned
  <1> QED
    BY <1>3, <1>4, Zenon

\* What a connect does to the connections.
LEMMA ConnectsView ==
  ASSUME NetTypes, NEW s \in Sides, NEW i \in Conns, NEW C, NEW t, Shut(s, C, t),
         Connects(s, i, t)
  PROVE  /\ tcp' \in [Conns -> [Sides -> {"est", "wait", "shut"}]]
         /\ \A q \in Sides : tcp'[i][q] = "est"
         /\ \A j \in Conns \ {i} : \A q \in Sides :
              tcp'[j][q] = IF q = s /\ j \in C THEN "shut" ELSE tcp[j][q]
         /\ backlog' \in [Conns -> Sides \cup {None}]
         /\ backlog'[i] = Other(s) /\ \A j \in Conns \ {i} : backlog'[j] = backlog[j]
         /\ broken' \subseteq Conns /\ broken' = broken \ {i}
  <1>1. /\ tcp' = [t EXCEPT ![i] = [e \in Sides |-> "est"]]
        /\ t \in [Conns -> [Sides -> {"est", "wait", "shut"}]]
    BY Zenon DEF Connects, Shut
  <1>2. /\ tcp' \in [Conns -> [Sides -> {"est", "wait", "shut"}]]
        /\ \A q \in Sides : tcp'[i][q] = "est"
        /\ \A j \in Conns \ {i} : tcp'[j] = t[j]
    BY <1>1, Zenon
  <1>3. \A j \in Conns \ {i} : \A q \in Sides :
          tcp'[j][q] = IF q = s /\ j \in C THEN "shut" ELSE tcp[j][q]
    BY <1>2 DEF Shut
  <1>4. /\ backlog' = [backlog EXCEPT ![i] = Other(s)] /\ Other(s) \in Sides
        /\ broken' = broken \ {i}
    BY TwoSides, Zenon DEF Connects
  <1> QED
    BY <1>2, <1>3, <1>4, Zenon DEF NetTypes

(* A thread of side s makes a new connection.                              *)
LEMMA ConnectsKeeps ==
  ASSUME AInv, NInv, NEW s \in Sides, NEW i \in Conns, NEW C, NEW t, Shut(s, C, t),
         Connects(s, i, t), Elsewhere(s), kern' = kern,
         \A j \in open[s] : j \in open'[s] \/ j \in kern[s] \/ j \in C,
         \A j \in Conns : j \in {held[s], whand[s]} => j \in {held'[s], whand'[s]},
         i \in open'[s] /\ i \in {held'[s], whand'[s]}
  PROVE  Ends'
  <1>1. NetTypes
    BY Zenon DEF NInv
  <1> SUFFICES ASSUME NEW j \in Conns, NEW q \in Sides
               PROVE  Owned(j, q)' /\ Rightly(j, q)'
    BY Zenon DEF Ends
  <1>2. Owned(j, q) /\ Rightly(j, q) /\ Other(q) \in Sides
    BY TwoSides, Zenon DEF NInv, Ends
  <1>3. CASE j = i
    <2>1. tcp'[j][q] = "est" /\ backlog'[j] = Other(s) /\ (q = s \/ q = Other(s))
      BY <1>1, <1>3, ConnectsView, TwoSides
    <2> QED
      BY <1>3, <2>1, Zenon DEF Owned, Rightly
  <1>4. CASE j # i
    <2>1. /\ tcp'[j][q] = IF q = s /\ j \in C THEN "shut" ELSE tcp[j][q]
          /\ tcp'[j][Other(q)] \in {tcp[j][Other(q)], "shut"}
          /\ backlog'[j] = backlog[j] /\ (j \in broken => j \in broken')
      BY <1>1, <1>2, <1>4, ConnectsView
    <2>2. Rightly(j, q)'
      BY <1>2, <2>1, Zenon DEF Rightly
    <2>3. CASE q = s
      BY <1>2, <2>1, <2>2, <2>3, Zenon DEF Owned
    <2>4. CASE q # s
      <3>1. kern'[q] = kern[q] /\ open'[q] = open[q] /\ held'[q] = held[q] /\ whand'[q] = whand[q]
        BY <2>4, Zenon DEF Elsewhere
      <3> QED
        BY <1>2, <2>1, <2>2, <2>4, <3>1, Zenon DEF Owned
    <2> QED
      BY <2>3, <2>4, Zenon
  <1> QED
    BY <1>3, <1>4, Zenon

\* What the kernel does with a socket it is given.
LEMMA Update_socketView ==
  ASSUME NetTypes, NEW s \in Sides, NEW i \in Conns, NEW o, update_socket(s, i, o)
  PROVE  /\ kern' \in [Sides -> SUBSET Conns]
         /\ \A q \in Sides \ {s} : kern'[q] = kern[q]
         /\ kern[s] \subseteq kern'[s] /\ (refused => refused')
         /\ IF tcp[i][s] = "est" THEN i \in kern'[s] ELSE refused'
  <1>1. CASE tcp[i][s] = "est"
    <2>1. kern' = [kern EXCEPT ![s] = @ \cup {i}] /\ refused' = refused
      BY <1>1, Zenon DEF update_socket
    <2> QED
      BY <1>1, <2>1, Zenon DEF NetTypes
  <1>2. CASE tcp[i][s] # "est"
    <2>1. kern' = kern /\ refused'
      BY <1>2, Zenon DEF update_socket, lists
    <2> QED
      BY <1>2, <2>1, Zenon DEF NetTypes
  <1> QED
    BY <1>1, <1>2, Zenon

\* What Cared and Plugged look at of one side.
Unmoved(s) ==
  /\ kern'[s] = kern[s] /\ notices'[s] = notices[s] /\ status'[s] = status[s]
  /\ up'[s] = up[s] /\ raced'[s] = raced[s] /\ fd'[s] = fd[s]
  /\ wpc'[s] = wpc[s] /\ mtx'[s] = mtx[s] /\ (refused => refused')

LEMMA UnmovedSide ==
  ASSUME NInv, NEW s \in Sides, Unmoved(s)
  PROVE  Cared(s)' /\ Plugged(s)'
  BY Zenon DEF NInv, Unmoved, Cared, Plugged, Asked

(* The connector.                                                          *)
LEMMA Connector_thread_funcNet ==
  ASSUME AInv, NInv, NEW s \in Sides, connector_thread_func(s)
  PROVE  NInv'
  <1>1. Types /\ NetTypes /\ Side(s) /\ Cared(s) /\ Plugged(s)
    BY Zenon DEF AInv, NInv
  <1> DEFINE C == {}
             t == tcp
  <1>2. Shut(s, C, t) /\ Elsewhere(s) /\ kern' = kern
    <2>1. Shut(s, C, t)
      BY <1>1, TcpShut, Zenon
    <2>2. kern' = kern
      BY Zenon DEF connector_thread_func, kernel, lists
    <2>3. Elsewhere(s)
      BY <1>1, <2>2, Zenon DEF connector_thread_func, node, locks, worker, Types, Elsewhere
    <2> QED
      BY <2>1, <2>2, <2>3, Zenon
  <1> HIDE DEF C
  <1>3. /\ \A j \in open[s] : j \in open'[s] \/ j \in kern[s] \/ j \in C
        /\ \A j \in Conns : j \in {held[s], whand[s]} => j \in {held'[s], whand'[s]}
    <2>1. \/ open' = open
          \/ \E i \in Conns : open' = [open EXCEPT ![s] = open[s] \cup {i}]
      BY Zenon DEF connector_thread_func
    <2>2. \A j \in open[s] : j \in open'[s] \/ j \in kern[s] \/ j \in C
      BY <1>1, <2>1, ZenonT(30), ZenonT(30) DEF C, Types
    <2>3. held[s] = None /\ whand' = whand
      BY <1>1, Zenon DEF connector_thread_func, Side, Hands, worker, locks
    <2> QED
      BY <2>2, <2>3, SidesAssumption, Zenon
  <1>4. /\ notices' \in [Sides -> Seq({"GET_SESSION", "OFFLINE"})]
        /\ status' \in [Sides -> {"ONLINE", "OFFLINE", "CONNECTED"}]
    BY <1>1, Zenon DEF connector_thread_func, kernel, lists, node, NetTypes
  <1>5. NetTypes' /\ Ends'
    <2>1. CASE \E i \in Conns : /\ Connects(s, i, t)
                              /\ i \in open'[s] /\ i \in {held'[s], whand'[s]}
      <3>1. PICK i \in Conns : /\ Connects(s, i, t)
                              /\ i \in open'[s] /\ i \in {held'[s], whand'[s]}
        BY <2>1, Zenon
      <3>2. Ends'
        BY <1>2, <1>3, <3>1, ConnectsKeeps, ZenonT(30)
      <3>3. /\ tcp' \in [Conns -> [Sides -> {"est", "wait", "shut"}]]
            /\ backlog' \in [Conns -> Sides \cup {None}] /\ broken' \subseteq Conns
        BY <1>1, <1>2, <3>1, ConnectsView, Zenon
      <3> QED
        BY <1>1, <1>2, <1>4, <3>2, <3>3, Zenon DEF NetTypes
    <2>2. CASE tcp' = t /\ UNCHANGED <<broken, backlog>>
      <3>1. Ends'
        BY <1>2, <1>3, <2>2, ShutKeeps, ZenonT(30)
      <3> QED
        BY <1>1, <1>2, <1>4, <2>2, <3>1, ZenonT(30) DEF NetTypes, Shut
    <2> QED
      BY <1>1, <2>1, <2>2 DEF connector_thread_func, ConnectFails, Types
  <1> HIDE DEF t
  <1>6. Cared(s)' /\ Plugged(s)'
    BY <1>1, <1>2, Zenon DEF connector_thread_func, kernel, lists, node, locks, worker, Types,
       NetTypes, Side, Hands, OneReconnect, Stopped, Cared, Plugged, Asked
  <1>7. \A q \in Sides \ {s} : Unmoved(q)
    BY <1>1, <1>2, ZenonT(30), ZenonT(30) DEF connector_thread_func, kernel,
       lists, node, locks, worker, Types, NetTypes, Unmoved
  <1> QED
    BY <1>5, <1>6, <1>7, UnmovedSide, Zenon DEF NInv

LEMMA ConnectorEndsNet ==
  ASSUME AInv, NInv, NEW s \in Sides, ConnectorEnds(s)
  PROVE  NInv'
  <1>1. Types /\ NetTypes /\ Side(s) /\ Cared(s) /\ Plugged(s)
    BY Zenon DEF AInv, NInv
  <1>2. /\ broken' = broken /\ backlog' = backlog /\ notices' = notices
        /\ whand'[s] = whand[s]
        /\ \A q \in Sides \ {s} : held'[q] = held[q] /\ whand'[q] = whand[q]
    BY <1>1, Zenon DEF ConnectorEnds, Release, locks, worker, Types
  <1>3. NetTypes' /\ Ends'
    <2>1. CASE TakesSocket(s, held[s])
      <3>1. held[s] \in Conns /\ update_socket(s, held[s], TRUE) /\ UNCHANGED <<open, tcp>>
        BY <1>1, <2>1, Zenon DEF TakesSocket, Side, Hands, ConnectorEnds
      <3>2. /\ kern' \in [Sides -> SUBSET Conns] /\ kern[s] \subseteq kern'[s]
            /\ \A q \in Sides \ {s} : kern'[q] = kern[q]
            /\ held[s] \in kern'[s] \/ tcp[held[s]][s] # "est"
        BY <1>1, <3>1, Update_socketView, Zenon
      <3>3. Elsewhere(s)
        BY <1>2, <3>1, <3>2, ZenonT(30) DEF Elsewhere
      <3>4. Shut(s, {}, tcp')
        BY <1>1, <3>1, TcpShut, Zenon
      <3>5. \A i \in Conns : i \in {held[s], whand[s]} =>
              i \in {held'[s], whand'[s]} \/ i \in kern'[s] \/ tcp[i][s] # "est"
        BY <1>2, <3>2, Zenon
      <3>6. Ends'
        BY <1>2, <3>1, <3>2, <3>3, <3>4, <3>5, ShutKeeps, ZenonT(30)
      <3>7. status' \in [Sides -> {"ONLINE", "OFFLINE", "CONNECTED"}]
        BY <1>1, <2>1, Zenon DEF TakesSocket, NetTypes
      <3> QED
        BY <1>1, <1>2, <3>1, <3>2, <3>6, <3>7, Zenon DEF NetTypes
    <2>2. CASE DropsSocket(s, held[s], status[s])
      <3> DEFINE C == {held[s]} \ kern[s]
      <3>1. /\ kern' = kern /\ tcp' = Closed(s, {held[s]})
            /\ open' = [open EXCEPT ![s] = @ \ {held[s]}]
        BY <2>2, ZenonT(30) DEF DropsSocket, lists
      <3>2. Shut(s, C, tcp')
        BY <1>1, <3>1, ClosedShut, Zenon
      <3>3. /\ \A i \in open[s] : i \in open'[s] \/ i \in kern'[s] \/ i \in C
            /\ \A i \in Conns : i \in {held[s], whand[s]} =>
                 i \in {held'[s], whand'[s]} \/ i \in kern'[s] \/ i \in C
            /\ Elsewhere(s)
        BY <1>1, <1>2, <3>1, Zenon DEF Types, Elsewhere
      <3> HIDE DEF C
      <3>4. Ends'
        BY <1>2, <3>1, <3>2, <3>3, ShutKeeps, ZenonT(30)
      <3>5. status' \in [Sides -> {"ONLINE", "OFFLINE", "CONNECTED"}]
        BY <1>1, <2>2, Zenon DEF DropsSocket, NetTypes
      <3> QED
        BY <1>1, <1>2, <3>1, <3>2, <3>4, <3>5, ZenonT(30) DEF NetTypes, Shut
    <2> QED
      BY <2>1, <2>2, Zenon DEF ConnectorEnds
  <1>4. Cared(s)' /\ Plugged(s)'
    <2>1. CASE TakesSocket(s, held[s])
      <3>1. held[s] \in Conns /\ update_socket(s, held[s], TRUE)
        BY <1>1, <2>1, Zenon DEF TakesSocket, Side, Hands, ConnectorEnds
      <3>2. kern'[s] # {} \/ refused'
        BY <1>1, <3>1, Update_socketView, Zenon
      <3>3. status'[s] = "CONNECTED"
        BY <1>1, <2>1, Zenon DEF TakesSocket, NetTypes
      <3> QED
        BY <3>2, <3>3, Zenon DEF Cared, Plugged
    <2>2. CASE DropsSocket(s, held[s], status[s])
      <3>1. UNCHANGED <<kern, fd, refused>>
        BY <2>2, Zenon DEF DropsSocket, lists
      <3>2. status'[s] = status[s]
        BY <1>1, <2>2, Zenon DEF DropsSocket, NetTypes
      <3>3. Asked(s)' <=> Asked(s)
        BY <1>2, Zenon DEF Asked
      <3> QED
        BY <1>1, <3>1, <3>2, <3>3, <1>2, Zenon DEF ConnectorEnds, Release, worker, Types,
           Side, Hands, Stopped, Cared, Plugged
    <2> QED
      BY <2>1, <2>2, Zenon DEF ConnectorEnds
  <1>5. \A q \in Sides \ {s} : Unmoved(q)
    <2>1. /\ \A q \in Sides \ {s} : /\ kern'[q] = kern[q] /\ status'[q] = status[q]
                                      /\ fd'[q] = fd[q]
          /\ refused => refused'
      BY <1>1 DEF ConnectorEnds, TakesSocket, DropsSocket, update_socket, lists, Types,
             NetTypes
    <2> QED
      BY <1>1, <1>2, <2>1, Zenon DEF ConnectorEnds, Release, worker, locks, Types, Unmoved
  <1> QED
    BY <1>2, <1>3, <1>4, <1>5, UnmovedSide, Zenon DEF NInv

(* The sysfs checker.                                                      *)
LEMMA GetSessionNet ==
  ASSUME AInv, NInv, NEW s \in Sides, GetSession(s)
  PROVE  NInv'
  <1>1. Types /\ NetTypes /\ Side(s) /\ Cared(s) /\ Plugged(s)
    BY Zenon DEF AInv, NInv
  <1> DEFINE C == {fd[s]} \ kern[s]
             t == Closed(s, {fd[s]})
  <1>2. Shut(s, C, t) /\ Elsewhere(s) /\ kern' = kern
    <2>1. Shut(s, C, t)
      BY <1>1, ClosedShut, Zenon
    <2>2. kern' = kern
      BY Zenon DEF GetSession, kernel, lists
    <2>3. Elsewhere(s)
      BY <1>1, <2>2, ZenonT(30), ZenonT(30) DEF GetSession, CloseFd, node,
         locks, worker, Types, Elsewhere
    <2> QED
      BY <2>1, <2>2, <2>3, Zenon
  <1> HIDE DEF C
  <1>3. /\ \A j \in open[s] : j \in open'[s] \/ j \in kern[s] \/ j \in C
        /\ \A j \in Conns : j \in {held[s], whand[s]} => j \in {held'[s], whand'[s]}
    <2>1. \/ open' = open \/ open' = [open EXCEPT ![s] = open[s] \ {fd[s]}]
          \/ \E i \in Conns : open' = [open EXCEPT ![s] = (open[s] \ {fd[s]}) \cup {i}]
      BY Zenon DEF GetSession, CloseFd
    <2>2. \A j \in open[s] : j \in open'[s] \/ j \in kern[s] \/ j \in C
      BY <1>1, <2>1 DEF C, Types
    <2>3. held[s] = None /\ whand' = whand
      BY <1>1, Zenon DEF GetSession, Side, Hands, worker, locks
    <2> QED
      BY <2>2, <2>3, SidesAssumption, Zenon
  <1>4. /\ notices' \in [Sides -> Seq({"GET_SESSION", "OFFLINE"})]
        /\ status' \in [Sides -> {"ONLINE", "OFFLINE", "CONNECTED"}]
    <2>1. /\ notices' = [notices EXCEPT ![s] = Tail(notices[s])] /\ notices[s] # <<>>
          /\ status' = status \/ status' = [status EXCEPT ![s] = "OFFLINE"]
      BY Zenon DEF GetSession, node
    <2>2. Tail(notices[s]) \in Seq({"GET_SESSION", "OFFLINE"})
      BY <1>1, <2>1 DEF NetTypes
    <2> QED
      BY <1>1, <2>1, <2>2, Zenon DEF NetTypes
  <1>5. NetTypes' /\ Ends'
    <2>1. CASE \E i \in Conns : /\ Connects(s, i, t)
                              /\ i \in open'[s] /\ i \in {held'[s], whand'[s]}
      <3>1. PICK i \in Conns : /\ Connects(s, i, t)
                              /\ i \in open'[s] /\ i \in {held'[s], whand'[s]}
        BY <2>1, Zenon
      <3>2. Ends'
        BY <1>2, <1>3, <3>1, ConnectsKeeps, ZenonT(30)
      <3>3. /\ tcp' \in [Conns -> [Sides -> {"est", "wait", "shut"}]]
            /\ backlog' \in [Conns -> Sides \cup {None}] /\ broken' \subseteq Conns
        BY <1>1, <1>2, <3>1, ConnectsView, Zenon
      <3> QED
        BY <1>1, <1>2, <1>4, <3>2, <3>3, Zenon DEF NetTypes
    <2>2. CASE tcp' = t /\ UNCHANGED <<broken, backlog>>
      <3>1. Ends'
        BY <1>2, <1>3, <2>2, ShutKeeps, ZenonT(30)
      <3> QED
        BY <1>1, <1>2, <1>4, <2>2, <3>1, ZenonT(30) DEF NetTypes, Shut
    <2>3. CASE connecting[s]
      <3>1. tcp' = tcp /\ UNCHANGED <<broken, backlog, open, held, whand>>
        BY <2>3, Zenon DEF GetSession, net, locks, worker
      <3>2. Ends'
        BY <1>1, <1>2, <3>1, TcpShut, ShutKeeps, ZenonT(30)
      <3> QED
        BY <1>1, <1>2, <1>4, <3>1, <3>2, Zenon DEF NetTypes
    <2> QED
      <3>1. CASE \E i \in Conns : /\ Connects(s, i, t)
                                  /\ open' = [open EXCEPT ![s] = CloseFd(s) \cup {i}]
                                  /\ held' = [held EXCEPT ![s] = i]
        BY <1>1, <2>1, <3>1 DEF Types
      <3>2. CASE ConnectFails(s, t)
        BY <2>2, <3>2, Zenon DEF ConnectFails
      <3> QED
        BY <2>3, <3>1, <3>2, Zenon DEF GetSession
  <1> HIDE DEF t
  <1>6. Cared(s)' /\ Plugged(s)'
    BY <1>1, <1>2 DEF GetSession, kernel, lists, node, locks, worker, Types, NetTypes, Side,
           Hands, OneReconnect, Stopped, Cared, Plugged, Asked
  <1>7. \A q \in Sides \ {s} : Unmoved(q)
    BY <1>1, <1>2, ZenonT(30), ZenonT(30) DEF GetSession, kernel, lists, node,
       locks, worker, Types, NetTypes, Unmoved
  <1> QED
    BY <1>5, <1>6, <1>7, UnmovedSide, Zenon DEF NInv

LEMMA GetSessionEndsNet ==
  ASSUME AInv, NInv, NEW s \in Sides, GetSessionEnds(s)
  PROVE  NInv'
  <1>1. Types /\ NetTypes /\ Side(s) /\ Cared(s) /\ Plugged(s)
    BY Zenon DEF AInv, NInv
  <1>2. /\ broken' = broken /\ backlog' = backlog /\ notices' = notices
        /\ whand'[s] = whand[s]
        /\ \A q \in Sides \ {s} : held'[q] = held[q] /\ whand'[q] = whand[q]
    BY <1>1, Zenon DEF GetSessionEnds, Release, locks, worker, Types
  <1>3. NetTypes' /\ Ends'
    <2>1. CASE TakesSocket(s, held[s])
      <3>1. held[s] \in Conns /\ update_socket(s, held[s], TRUE) /\ UNCHANGED <<open, tcp>>
        BY <1>1, <2>1, ZenonT(30), ZenonT(30) DEF TakesSocket, Side, Hands,
           GetSessionEnds
      <3>2. /\ kern' \in [Sides -> SUBSET Conns] /\ kern[s] \subseteq kern'[s]
            /\ \A q \in Sides \ {s} : kern'[q] = kern[q]
            /\ held[s] \in kern'[s] \/ tcp[held[s]][s] # "est"
        BY <1>1, <3>1, Update_socketView, Zenon
      <3>3. Elsewhere(s)
        BY <1>2, <3>1, <3>2, ZenonT(30) DEF Elsewhere
      <3>4. Shut(s, {}, tcp')
        BY <1>1, <3>1, TcpShut, Zenon
      <3>5. \A i \in Conns : i \in {held[s], whand[s]} =>
              i \in {held'[s], whand'[s]} \/ i \in kern'[s] \/ tcp[i][s] # "est"
        BY <1>2, <3>2, Zenon
      <3>6. Ends'
        BY <1>2, <3>1, <3>2, <3>3, <3>4, <3>5, ShutKeeps, ZenonT(30)
      <3>7. status' \in [Sides -> {"ONLINE", "OFFLINE", "CONNECTED"}]
        BY <1>1, <2>1, Zenon DEF TakesSocket, NetTypes
      <3> QED
        BY <1>1, <1>2, <3>1, <3>2, <3>6, <3>7, Zenon DEF NetTypes
    <2>2. CASE DropsSocket(s, held[s], "OFFLINE")
      <3> DEFINE C == {held[s]} \ kern[s]
      <3>1. /\ kern' = kern /\ tcp' = Closed(s, {held[s]})
            /\ open' = [open EXCEPT ![s] = @ \ {held[s]}]
        BY <2>2, ZenonT(30), ZenonT(30) DEF DropsSocket, lists
      <3>2. Shut(s, C, tcp')
        BY <1>1, <3>1, ClosedShut, Zenon
      <3>3. /\ \A i \in open[s] : i \in open'[s] \/ i \in kern'[s] \/ i \in C
            /\ \A i \in Conns : i \in {held[s], whand[s]} =>
                 i \in {held'[s], whand'[s]} \/ i \in kern'[s] \/ i \in C
            /\ Elsewhere(s)
        BY <1>1, <1>2, <3>1, Zenon DEF Types, Elsewhere
      <3> HIDE DEF C
      <3>4. Ends'
        BY <1>2, <3>1, <3>2, <3>3, ShutKeeps, ZenonT(30)
      <3>5. status' \in [Sides -> {"ONLINE", "OFFLINE", "CONNECTED"}]
        BY <1>1, <2>2, Zenon DEF DropsSocket, NetTypes
      <3> QED
        BY <1>1, <1>2, <3>1, <3>2, <3>4, <3>5, ZenonT(30) DEF NetTypes, Shut
    <2> QED
      BY <2>1, <2>2, ZenonT(30) DEF GetSessionEnds
  <1>4. Cared(s)' /\ Plugged(s)'
    <2>1. CASE TakesSocket(s, held[s])
      <3>1. held[s] \in Conns /\ update_socket(s, held[s], TRUE)
        BY <1>1, <2>1, ZenonT(30) DEF TakesSocket, Side, Hands, GetSessionEnds
      <3>2. kern'[s] # {} \/ refused'
        BY <1>1, <3>1, Update_socketView, Zenon
      <3>3. status'[s] = "CONNECTED"
        BY <1>1, <2>1, Zenon DEF TakesSocket, NetTypes
      <3> QED
        BY <3>2, <3>3, Zenon DEF Cared, Plugged
    <2>2. CASE DropsSocket(s, held[s], "OFFLINE")
      <3>1. UNCHANGED <<kern, fd, refused>>
        BY <2>2, Zenon DEF DropsSocket, lists
      <3>2. status'[s] = "OFFLINE"
        BY <1>1, <2>2, Zenon DEF DropsSocket, NetTypes
      <3> QED
        BY <1>1, <3>1, <3>2, Zenon DEF GetSessionEnds, Release, worker, Types, Side, Hands,
           Stopped, Cared, Plugged
    <2> QED
      BY <2>1, <2>2, ZenonT(30) DEF GetSessionEnds
  <1>5. \A q \in Sides \ {s} : Unmoved(q)
    <2>1. /\ \A q \in Sides \ {s} : /\ kern'[q] = kern[q] /\ status'[q] = status[q]
                                      /\ fd'[q] = fd[q]
          /\ refused => refused'
      BY <1>1 DEF GetSessionEnds, TakesSocket, DropsSocket, update_socket, lists, Types,
             NetTypes
    <2> QED
      BY <1>1, <1>2, <2>1, Zenon DEF GetSessionEnds, Release, worker, locks, Types, Unmoved
  <1> QED
    BY <1>2, <1>3, <1>4, <1>5, UnmovedSide, Zenon DEF NInv

LEMMA NotifyOfflineNet ==
  ASSUME AInv, NInv, NEW s \in Sides, NotifyOffline(s)
  PROVE  NInv'
  <1>1. Types /\ NetTypes /\ Side(s) /\ Cared(s) /\ Plugged(s)
    BY Zenon DEF AInv, NInv
  <1>2. Shut(s, {fd[s]} \ kern[s], tcp') /\ broken' = broken /\ backlog' = backlog
    <2>1. tcp' = Closed(s, {fd[s]}) /\ broken' = broken /\ backlog' = backlog
      BY Zenon DEF NotifyOffline
    <2> QED
      BY <1>1, <2>1, ClosedShut, Zenon
  <1>3. NetTypes' /\ Ends'
    <2>1. /\ Elsewhere(s) /\ kern' = kern
          /\ \A i \in open[s] : i \in open'[s] \/ i \in kern'[s] \/ i \in {fd[s]} \ kern[s]
          /\ \A i \in Conns : i \in {held[s], whand[s]} => i \in {held'[s], whand'[s]}
      BY <1>1, Zenon DEF NotifyOffline, CloseFd, kernel, lists, locks, worker, Types,
         Elsewhere
    <2>2. Ends'
      BY <1>2, <2>1, ShutKeeps, ZenonT(30)
    <2>3. /\ notices' \in [Sides -> Seq({"GET_SESSION", "OFFLINE"})]
          /\ status' \in [Sides -> {"ONLINE", "OFFLINE", "CONNECTED"}]
      BY <1>1 DEF NotifyOffline, kernel, lists, node, NetTypes
    <2> QED
      BY <1>1, <1>2, <2>1, <2>2, <2>3, ZenonT(30) DEF NetTypes, Shut
  <1>4. Cared(s)' /\ Plugged(s)'
    BY <1>1, Zenon DEF NotifyOffline, kernel, lists, node, locks, worker, Types, NetTypes,
       Side, Hands, OneReconnect, Stopped, Cared, Plugged, Asked
  <1>5. \A q \in Sides \ {s} : Unmoved(q)
    BY <1>1, Zenon DEF NotifyOffline, kernel, lists, node, locks, worker, Types, NetTypes,
       Unmoved
  <1> QED
    BY <1>2, <1>3, <1>4, <1>5, UnmovedSide, Zenon DEF NInv

(* The net-up signal and its worker.                                       *)
LEMMA Netup_listener_thread_funcNet ==
  ASSUME AInv, NInv, NEW s \in Sides, netup_listener_thread_func(s)
  PROVE  NInv'
  <1>1. Types /\ NetTypes /\ Side(s) /\ Cared(s) /\ Plugged(s)
    BY Zenon DEF AInv, NInv
  <1>2. Shut(s, {}, tcp') /\ broken' = broken /\ backlog' = backlog
    <2>1. tcp' = tcp /\ broken' = broken /\ backlog' = backlog
      BY Zenon DEF netup_listener_thread_func, net
    <2> QED
      BY <1>1, <2>1, TcpShut, Zenon
  <1>3. NetTypes' /\ Ends'
    <2>1. /\ Elsewhere(s) /\ kern' = kern
          /\ \A i \in open[s] : i \in open'[s] \/ i \in kern'[s] \/ i \in {}
          /\ \A i \in Conns : i \in {held[s], whand[s]} => i \in {held'[s], whand'[s]}
      BY <1>1, Zenon DEF netup_listener_thread_func, kernel, lists, locks, worker, Types,
         Elsewhere
    <2>2. Ends'
      BY <1>2, <2>1, ShutKeeps, ZenonT(30)
    <2>3. /\ notices' \in [Sides -> Seq({"GET_SESSION", "OFFLINE"})]
          /\ status' \in [Sides -> {"ONLINE", "OFFLINE", "CONNECTED"}]
      BY <1>1, Zenon DEF netup_listener_thread_func, kernel, lists, node, NetTypes
    <2> QED
      BY <1>1, <1>2, <2>1, <2>2, <2>3, ZenonT(30) DEF NetTypes, Shut
  <1>4. Cared(s)' /\ Plugged(s)'
    BY <1>1, Zenon DEF netup_listener_thread_func, kernel, lists, node, locks, worker, Types,
       NetTypes, Side, Hands, OneReconnect, Stopped, Cared, Plugged, Asked
  <1>5. \A q \in Sides \ {s} : Unmoved(q)
    BY <1>1, ZenonT(30), ZenonT(30) DEF netup_listener_thread_func, kernel,
       lists, node, locks, worker, Types, NetTypes, Unmoved
  <1> QED
    BY <1>2, <1>3, <1>4, <1>5, UnmovedSide, Zenon DEF NInv

LEMMA Try_reconnect_nodeNet ==
  ASSUME AInv, NInv, NEW s \in Sides, try_reconnect_node(s)
  PROVE  NInv'
  <1>1. Types /\ NetTypes /\ Side(s) /\ Cared(s) /\ Plugged(s)
    BY Zenon DEF AInv, NInv
  <1>2. Shut(s, {}, tcp') /\ broken' = broken /\ backlog' = backlog
    <2>1. tcp' = tcp /\ broken' = broken /\ backlog' = backlog
      BY ZenonT(30) DEF try_reconnect_node, net
    <2> QED
      BY <1>1, <2>1, TcpShut, Zenon
  <1>3. NetTypes' /\ Ends'
    <2>1. /\ Elsewhere(s) /\ kern' = kern
          /\ \A i \in open[s] : i \in open'[s] \/ i \in kern'[s] \/ i \in {}
          /\ \A i \in Conns : i \in {held[s], whand[s]} => i \in {held'[s], whand'[s]}
      BY <1>1, Zenon DEF try_reconnect_node, kernel, lists, locks, worker, Types, Elsewhere
    <2>2. Ends'
      BY <1>2, <2>1, ShutKeeps, ZenonT(30)
    <2>3. /\ notices' \in [Sides -> Seq({"GET_SESSION", "OFFLINE"})]
          /\ status' \in [Sides -> {"ONLINE", "OFFLINE", "CONNECTED"}]
      BY <1>1, Zenon DEF try_reconnect_node, kernel, lists, node, NetTypes
    <2> QED
      BY <1>1, <1>2, <2>1, <2>2, <2>3, ZenonT(30) DEF NetTypes, Shut
  <1>4. Cared(s)' /\ Plugged(s)'
    BY <1>1, Zenon DEF try_reconnect_node, kernel, lists, node, locks, worker, Types,
       NetTypes, Side, Hands, OneReconnect, Stopped, Cared, Plugged, Asked
  <1>5. \A q \in Sides \ {s} : Unmoved(q)
    BY <1>1, ZenonT(30), ZenonT(30) DEF try_reconnect_node, kernel, lists, node,
       locks, worker, Types, NetTypes, Unmoved
  <1> QED
    BY <1>2, <1>3, <1>4, <1>5, UnmovedSide, Zenon DEF NInv

LEMMA WorkerConnectsNet ==
  ASSUME AInv, NInv, NEW s \in Sides, WorkerConnects(s)
  PROVE  NInv'
  <1>1. Types /\ NetTypes /\ Side(s) /\ Cared(s) /\ Plugged(s)
    BY Zenon DEF AInv, NInv
  <1> DEFINE C == {}
             t == tcp
  <1>2. Shut(s, C, t) /\ Elsewhere(s) /\ kern' = kern
    <2>1. Shut(s, C, t)
      BY <1>1, TcpShut, Zenon
    <2>2. kern' = kern
      BY Zenon DEF WorkerConnects, kernel, lists
    <2>3. Elsewhere(s)
      BY <1>1, <2>2, Zenon DEF WorkerConnects, node, locks, worker, Types, Elsewhere
    <2> QED
      BY <2>1, <2>2, <2>3, Zenon
  <1> HIDE DEF C
  <1>3. /\ \A j \in open[s] : j \in open'[s] \/ j \in kern[s] \/ j \in C
        /\ \A j \in Conns : j \in {held[s], whand[s]} => j \in {held'[s], whand'[s]}
    <2>1. \/ open' = open
          \/ \E i \in Conns : open' = [open EXCEPT ![s] = open[s] \cup {i}]
      BY Zenon DEF WorkerConnects
    <2>2. \A j \in open[s] : j \in open'[s] \/ j \in kern[s] \/ j \in C
      BY <1>1, <2>1, ZenonT(30) DEF C, Types
    <2>3. whand[s] = None /\ held' = held
      BY <1>1, Zenon DEF WorkerConnects, Side, Hands, worker, locks
    <2> QED
      BY <2>2, <2>3, SidesAssumption, Zenon
  <1>4. /\ notices' \in [Sides -> Seq({"GET_SESSION", "OFFLINE"})]
        /\ status' \in [Sides -> {"ONLINE", "OFFLINE", "CONNECTED"}]
    BY <1>1, Zenon DEF WorkerConnects, kernel, lists, node, NetTypes
  <1>5. NetTypes' /\ Ends'
    <2>1. CASE \E i \in Conns : /\ Connects(s, i, t)
                              /\ i \in open'[s] /\ i \in {held'[s], whand'[s]}
      <3>1. PICK i \in Conns : /\ Connects(s, i, t)
                              /\ i \in open'[s] /\ i \in {held'[s], whand'[s]}
        BY <2>1, Zenon
      <3>2. Ends'
        BY <1>2, <1>3, <3>1, ConnectsKeeps, ZenonT(30)
      <3>3. /\ tcp' \in [Conns -> [Sides -> {"est", "wait", "shut"}]]
            /\ backlog' \in [Conns -> Sides \cup {None}] /\ broken' \subseteq Conns
        BY <1>1, <1>2, <3>1, ConnectsView, Zenon
      <3> QED
        BY <1>1, <1>2, <1>4, <3>2, <3>3, Zenon DEF NetTypes
    <2>2. CASE tcp' = t /\ UNCHANGED <<broken, backlog>>
      <3>1. Ends'
        BY <1>2, <1>3, <2>2, ShutKeeps, ZenonT(30)
      <3> QED
        BY <1>1, <1>2, <1>4, <2>2, <3>1, ZenonT(30) DEF NetTypes, Shut
    <2> QED
      BY <1>1, <2>1, <2>2 DEF WorkerConnects, ConnectFails, Types
  <1> HIDE DEF t
  <1>6. Cared(s)' /\ Plugged(s)'
    BY <1>1, <1>2, Zenon DEF WorkerConnects, kernel, lists, node, locks, worker, Types,
       NetTypes, Side, Hands, OneReconnect, Stopped, Cared, Plugged, Asked
  <1>7. \A q \in Sides \ {s} : Unmoved(q)
    BY <1>1, <1>2, Zenon DEF WorkerConnects, kernel, lists, node, locks, worker, Types,
       NetTypes, Unmoved
  <1> QED
    BY <1>5, <1>6, <1>7, UnmovedSide, Zenon DEF NInv

LEMMA WorkerEndsNet ==
  ASSUME AInv, NInv, NEW s \in Sides, WorkerEnds(s)
  PROVE  NInv'
  <1>1. Types /\ NetTypes /\ Side(s) /\ Cared(s) /\ Plugged(s)
    BY Zenon DEF AInv, NInv
  <1>2. /\ broken' = broken /\ backlog' = backlog /\ notices' = notices
        /\ held'[s] = held[s]
        /\ \A q \in Sides \ {s} : held'[q] = held[q] /\ whand'[q] = whand[q]
    BY <1>1, Zenon DEF WorkerEnds, locks, worker, Types
  <1>3. NetTypes' /\ Ends'
    <2>1. CASE whand[s] # None /\ TakesSocket(s, whand[s])
      <3>1. whand[s] \in Conns /\ update_socket(s, whand[s], TRUE) /\ UNCHANGED <<open, tcp>>
        BY <1>1, <2>1, ZenonT(30) DEF TakesSocket, Types
      <3>2. /\ kern' \in [Sides -> SUBSET Conns] /\ kern[s] \subseteq kern'[s]
            /\ \A q \in Sides \ {s} : kern'[q] = kern[q]
            /\ whand[s] \in kern'[s] \/ tcp[whand[s]][s] # "est"
        BY <1>1, <3>1, Update_socketView, Zenon
      <3>3. Elsewhere(s)
        BY <1>2, <3>1, <3>2, ZenonT(30) DEF Elsewhere
      <3>4. Shut(s, {}, tcp')
        BY <1>1, <3>1, TcpShut, Zenon
      <3>5. \A i \in Conns : i \in {held[s], whand[s]} =>
              i \in {held'[s], whand'[s]} \/ i \in kern'[s] \/ tcp[i][s] # "est"
        BY <1>2, <3>2, Zenon
      <3>6. Ends'
        BY <1>2, <3>1, <3>2, <3>3, <3>4, <3>5, ShutKeeps, ZenonT(30)
      <3>7. status' \in [Sides -> {"ONLINE", "OFFLINE", "CONNECTED"}]
        BY <1>1, <2>1, Zenon DEF TakesSocket, NetTypes
      <3> QED
        BY <1>1, <1>2, <3>1, <3>2, <3>6, <3>7, Zenon DEF NetTypes
    <2>2. CASE whand[s] # None /\ DropsSocket(s, whand[s], "OFFLINE")
      <3> DEFINE C == {whand[s]} \ kern[s]
      <3>1. /\ kern' = kern /\ tcp' = Closed(s, {whand[s]})
            /\ open' = [open EXCEPT ![s] = @ \ {whand[s]}]
        BY <2>2, Zenon DEF DropsSocket, lists
      <3>2. Shut(s, C, tcp')
        BY <1>1, <3>1, ClosedShut, Zenon
      <3>3. /\ \A i \in open[s] : i \in open'[s] \/ i \in kern'[s] \/ i \in C
            /\ \A i \in Conns : i \in {held[s], whand[s]} =>
                 i \in {held'[s], whand'[s]} \/ i \in kern'[s] \/ i \in C
            /\ Elsewhere(s)
        BY <1>1, <1>2, <3>1, Zenon DEF Types, Elsewhere
      <3> HIDE DEF C
      <3>4. Ends'
        BY <1>2, <3>1, <3>2, <3>3, ShutKeeps, ZenonT(30)
      <3>5. status' \in [Sides -> {"ONLINE", "OFFLINE", "CONNECTED"}]
        BY <1>1, <2>2, Zenon DEF DropsSocket, NetTypes
      <3> QED
        BY <1>1, <1>2, <3>1, <3>2, <3>4, <3>5, ZenonT(30) DEF NetTypes, Shut
    <2>3. CASE whand[s] = None
      <3>1. UNCHANGED <<kern, open, tcp>>
        BY <2>3, Zenon DEF WorkerEnds, lists
      <3>2. Elsewhere(s) /\ Shut(s, {}, tcp')
        BY <1>1, <1>2, <3>1, TcpShut, Zenon DEF Elsewhere
      <3>3. \A i \in Conns : i \in {held[s], whand[s]} => i \in {held'[s], whand'[s]}
        BY <1>2, <2>3, SidesAssumption, Zenon
      <3>4. Ends'
        BY <1>2, <3>1, <3>2, <3>3, ShutKeeps, ZenonT(30)
      <3>5. status' \in [Sides -> {"ONLINE", "OFFLINE", "CONNECTED"}]
        BY <1>1, <2>3, Zenon DEF WorkerEnds, NetTypes
      <3> QED
        BY <1>1, <1>2, <3>1, <3>4, <3>5, Zenon DEF NetTypes
    <2> QED
      BY <2>1, <2>2, <2>3, Zenon DEF WorkerEnds
  <1>4. Cared(s)' /\ Plugged(s)'
    <2>1. CASE whand[s] # None /\ TakesSocket(s, whand[s])
      <3>1. whand[s] \in Conns /\ update_socket(s, whand[s], TRUE)
        BY <1>1, <2>1, Zenon DEF TakesSocket, Types
      <3>2. kern'[s] # {} \/ refused'
        BY <1>1, <3>1, Update_socketView, Zenon
      <3>3. status'[s] = "CONNECTED"
        BY <1>1, <2>1, Zenon DEF TakesSocket, NetTypes
      <3> QED
        BY <3>2, <3>3, Zenon DEF Cared, Plugged
    <2>2. CASE whand[s] # None /\ DropsSocket(s, whand[s], "OFFLINE")
      <3>1. UNCHANGED <<kern, fd, refused>>
        BY <2>2, Zenon DEF DropsSocket, lists
      <3>2. status'[s] = "OFFLINE"
        BY <1>1, <2>2, Zenon DEF DropsSocket, NetTypes
      <3> QED
        BY <1>1, <3>1, <3>2, Zenon DEF WorkerEnds, worker, Types, Side, Hands, Stopped, Cared,
           Plugged
    <2>3. CASE whand[s] = None
      BY <1>1, <2>3, Zenon DEF WorkerEnds, lists, Types, NetTypes, Cared, Plugged
    <2> QED
      BY <2>1, <2>2, <2>3, Zenon DEF WorkerEnds
  <1>5. \A q \in Sides \ {s} : Unmoved(q)
    <2>1. /\ \A q \in Sides \ {s} : /\ kern'[q] = kern[q] /\ status'[q] = status[q]
                                      /\ fd'[q] = fd[q]
          /\ refused => refused'
      BY <1>1, ZenonT(30), ZenonT(30) DEF WorkerEnds, TakesSocket, DropsSocket,
         update_socket, lists, Types, NetTypes
    <2> QED
      BY <1>1, <1>2, <2>1, ZenonT(30) DEF WorkerEnds, worker, locks, Types, Unmoved
  <1> QED
    BY <1>2, <1>3, <1>4, <1>5, UnmovedSide, Zenon DEF NInv

(* The listener.                                                           *)
LEMMA Handle_new_connectionNet ==
  ASSUME AInv, NInv, NEW s \in Sides, handle_new_connection(s)
  PROVE  NInv'
  <1>1. Types /\ NetTypes /\ Side(s) /\ Cared(s) /\ Plugged(s)
    BY Zenon DEF AInv, NInv
  <1>2. /\ broken' = broken /\ notices' = notices
        /\ UNCHANGED <<up, raced, mtx, held, wpc, whand>>
    BY Zenon DEF handle_new_connection, locks, worker
  <1>3. PICK i \in Conns :
          /\ backlog[i] = s /\ backlog' = [backlog EXCEPT ![i] = None]
          /\ \/ /\ tcp' = Closed(s, {i})
                /\ UNCHANGED <<open, fd, status, kern, refused>>
             \/ /\ update_socket(s, i, FALSE)
                /\ open' = [open EXCEPT ![s] = CloseFd(s) \cup {i}]
                /\ tcp' = Closed(s, {fd[s]})
                /\ fd' = [fd EXCEPT ![s] = i]
                /\ status' = [status EXCEPT ![s] = "CONNECTED"]
             \/ /\ open' = [open EXCEPT ![s] = CloseFd(s)]
                /\ tcp' = Closed(s, {fd[s], i})
                /\ fd' = [fd EXCEPT ![s] = None]
                /\ UNCHANGED <<status, kern, refused>>
    BY Zenon DEF handle_new_connection, lists
  <1>4. /\ backlog' \in [Conns -> Sides \cup {None}]
        /\ \A j \in Conns \ {i} : backlog'[j] = backlog[j]
    BY <1>1, <1>3, Zenon DEF NetTypes
  <1>5. CASE tcp' = Closed(s, {i}) /\ UNCHANGED <<open, fd, status, kern, refused>>
    <2>1. Shut(s, {i} \ kern[s], tcp')
      BY <1>1, <1>5, ClosedShut, Zenon
    <2>2. Elsewhere(s)
      BY <1>2, <1>5, ZenonT(30) DEF Elsewhere
    <2>3. \A j \in Conns : \/ backlog'[j] = backlog[j]
                           \/ backlog[j] = s /\ (j \in {i} \ kern[s] \/ j \in kern'[s])
      BY <1>3, <1>4, <1>5, Zenon
    <2>4. Ends'
      BY <1>2, <1>5, <2>1, <2>2, <2>3, ShutKeeps, ZenonT(30), ZenonT(30)
    <2>5. \A q \in Sides : Unmoved(q)
      BY <1>2, <1>5, Zenon DEF Unmoved
    <2> QED
      BY <1>1, <1>2, <1>4, <1>5, <2>1, <2>4, <2>5, UnmovedSide, ZenonT(30) DEF NInv, NetTypes, Shut
  <1>6. CASE /\ update_socket(s, i, FALSE)
             /\ open' = [open EXCEPT ![s] = CloseFd(s) \cup {i}]
             /\ tcp' = Closed(s, {fd[s]})
             /\ fd' = [fd EXCEPT ![s] = i]
             /\ status' = [status EXCEPT ![s] = "CONNECTED"]
    <2> DEFINE C == {fd[s]} \ kern[s]
    <2>1. Shut(s, C, tcp')
      BY <1>1, <1>6, ClosedShut, Zenon
    <2>2. /\ kern' \in [Sides -> SUBSET Conns] /\ kern[s] \subseteq kern'[s]
          /\ \A q \in Sides \ {s} : kern'[q] = kern[q]
          /\ (refused => refused') /\ (IF tcp[i][s] = "est" THEN i \in kern'[s] ELSE refused')
      BY <1>1, <1>6, Update_socketView, Zenon
    <2>3. /\ \A j \in open[s] : j \in open'[s] \/ j \in kern[s] \/ j \in C
          /\ \A q \in Sides \ {s} : open'[q] = open[q] /\ fd'[q] = fd[q]
      BY <1>1, <1>6, Zenon DEF CloseFd, Types
    <2> HIDE DEF C
    <2>4. Elsewhere(s)
      BY <1>2, <2>2, <2>3, ZenonT(30) DEF Elsewhere
    <2>5. \A j \in Conns : \/ backlog'[j] = backlog[j]
                           \/ backlog[j] = s /\ (j \in kern'[s] \/ tcp[j][s] # "est")
      BY <1>3, <1>4, <2>2, Zenon
    <2>6. Ends'
      BY <1>2, <2>1, <2>2, <2>3, <2>4, <2>5, ShutKeeps, ZenonT(30)
    <2>7. /\ status' \in [Sides -> {"ONLINE", "OFFLINE", "CONNECTED"}] /\ status'[s] = "CONNECTED"
          /\ \A q \in Sides \ {s} : status'[q] = status[q]
      BY <1>1, <1>6, Zenon DEF NetTypes
    <2>8. Cared(s)' /\ Plugged(s)'
      BY <2>2, <2>7, Zenon DEF Cared, Plugged
    <2>9. \A q \in Sides \ {s} : Unmoved(q)
      BY <1>2, <2>2, <2>3, <2>7, Zenon DEF Unmoved
    <2> QED
      BY <1>1, <1>2, <1>4, <2>1, <2>2, <2>6, <2>7, <2>8, <2>9, UnmovedSide, ZenonT(30) DEF NInv,
         NetTypes, Shut
  <1>7. CASE /\ open' = [open EXCEPT ![s] = CloseFd(s)]
             /\ tcp' = Closed(s, {fd[s], i})
             /\ fd' = [fd EXCEPT ![s] = None]
             /\ UNCHANGED <<status, kern, refused>>
    <2> DEFINE C == {fd[s], i} \ kern[s]
    <2>1. Shut(s, C, tcp')
      BY <1>1, <1>7, ClosedShut, Zenon
    <2>2. /\ \A j \in open[s] : j \in open'[s] \/ j \in kern'[s] \/ j \in C
          /\ \A q \in Sides \ {s} : open'[q] = open[q] /\ fd'[q] = fd[q]
          /\ fd'[s] = None /\ kern' = kern
      BY <1>1, <1>7, Zenon DEF CloseFd, Types
    <2>3. \A j \in Conns : \/ backlog'[j] = backlog[j]
                           \/ backlog[j] = s /\ (j \in C \/ j \in kern'[s])
      BY <1>3, <1>4, <2>2, Zenon
    <2> HIDE DEF C
    <2>4. Elsewhere(s)
      BY <1>2, <2>2, ZenonT(30) DEF Elsewhere
    <2>5. Ends'
      BY <1>2, <2>1, <2>2, <2>3, <2>4, ShutKeeps, ZenonT(30)
    <2>6. Cared(s)' /\ Plugged(s)'
      BY <1>1, <1>2, <1>7, <2>2, Zenon DEF Cared, Plugged, Asked
    <2>7. \A q \in Sides \ {s} : Unmoved(q)
      BY <1>2, <1>7, <2>2, Zenon DEF Unmoved
    <2> QED
      BY <1>1, <1>2, <1>4, <1>7, <2>1, <2>5, <2>6, <2>7, UnmovedSide, ZenonT(30) DEF NInv,
         NetTypes, Shut
  <1> QED
    BY <1>3, <1>5, <1>6, <1>7, Zenon

(* The agent stops and starts.                                             *)
LEMMA Cleanup_agentNet ==
  ASSUME AInv, NInv, NEW s \in Sides, cleanup_agent(s)
  PROVE  NInv'
  <1>1. Types /\ NetTypes /\ Side(s) /\ Cared(s) /\ Plugged(s)
    BY Zenon DEF AInv, NInv
  <1> DEFINE Down(off) == off \cup (open[s] \ kern[s]) \cup {i \in Conns : backlog[i] = s}
  <1>2. /\ backlog' = [i \in Conns |-> IF backlog[i] = s THEN None ELSE backlog[i]]
        /\ open' = [open EXCEPT ![s] = {}] /\ fd' = [fd EXCEPT ![s] = None]
        /\ up' = [up EXCEPT ![s] = FALSE]
        /\ wpc' = [wpc EXCEPT ![s] = "none"] /\ whand' = [whand EXCEPT ![s] = None]
        /\ UNCHANGED <<broken, refused, notices, status, held, mtx, raced>>
    BY Zenon DEF cleanup_agent, locks
  <1>3. PICK off \in SUBSET kern[s] :
          /\ kern' = [kern EXCEPT ![s] = @ \ off]
          /\ tcp' = [i \in Conns |-> IF i \in Down(off) THEN [tcp[i] EXCEPT ![s] = "shut"]
                                                       ELSE tcp[i]]
    <2>1. CASE /\ kern' = [kern EXCEPT ![s] = {}]
               /\ tcp' = [i \in Conns |-> IF i \in Down(kern[s]) THEN [tcp[i] EXCEPT ![s] = "shut"]
                                                                ELSE tcp[i]]
      <3>1. kern' = [kern EXCEPT ![s] = @ \ kern[s]]
        BY <1>1, <2>1, Zenon DEF NetTypes
      <3> QED
        BY <2>1, <3>1, Zenon
    <2>2. CASE /\ kern' = kern
               /\ tcp' = [i \in Conns |-> IF i \in Down({}) THEN [tcp[i] EXCEPT ![s] = "shut"]
                                                           ELSE tcp[i]]
      <3>1. kern' = [kern EXCEPT ![s] = @ \ {}]
        BY <1>1, <2>2, Zenon DEF NetTypes
      <3> QED
        BY <2>2, <3>1, Zenon
    <2> QED
      BY <2>1, <2>2, Zenon DEF cleanup_agent, off_line, lists
  <1> DEFINE down == Down(off)
  <1>20. /\ off \subseteq down /\ off \subseteq kern[s] /\ open[s] \ kern[s] \subseteq down
         /\ \A i \in Conns : backlog[i] = s => i \in down
    BY Zenon
  <1>21. tcp' = [i \in Conns |-> IF i \in down THEN [tcp[i] EXCEPT ![s] = "shut"] ELSE tcp[i]]
    BY <1>3, Zenon
  <1> HIDE DEF Down, down
  <1>4. Shut(s, down, tcp')
    BY <1>1, <1>21, Zenon DEF NetTypes, Shut
  <1>5. /\ kern' \in [Sides -> SUBSET Conns] /\ kern'[s] = kern[s] \ off
        /\ \A q \in Sides \ {s} : kern'[q] = kern[q]
        /\ backlog' \in [Conns -> Sides \cup {None}]
    BY <1>1, <1>2, <1>3, Zenon DEF NetTypes
  <1>6. /\ \A i \in kern[s] : i \in kern'[s] \/ i \in down
        /\ \A i \in open[s] : i \in kern'[s] \/ i \in down
        /\ \A i \in Conns : backlog'[i] = backlog[i] \/ (backlog[i] = s /\ i \in down)
    BY <1>2, <1>5, <1>20, Zenon
  <1>7. Elsewhere(s)
    BY <1>1, <1>2, <1>5, Zenon DEF Types, Elsewhere
  <1>8. Ends'
    <2>1. \A i \in Conns : i \in {held[s], whand[s]} =>
            i \notin open[s] \/ i \in kern'[s] \/ i \in down
      BY <1>6, Zenon
    <2> QED
      BY <1>2, <1>4, <1>6, <1>7, <2>1, ShutKeeps, Zenon
  <1>9. Cared(s)' /\ Plugged(s)'
    BY <1>1, <1>2, Zenon DEF Types, Cared, Plugged
  <1>10. \A q \in Sides \ {s} : Unmoved(q)
    BY <1>1, <1>2, <1>5, ZenonT(30), ZenonT(30) DEF Types, Unmoved
  <1> QED
    BY <1>1, <1>2, <1>4, <1>5, <1>8, <1>9, <1>10, UnmovedSide, ZenonT(30) DEF NInv, NetTypes,
       Shut

LEMMA StartsNet ==
  ASSUME AInv, NInv, NEW s \in Sides, Starts(s)
  PROVE  NInv'
  <1>1. Types /\ NetTypes /\ Side(s) /\ Cared(s) /\ Plugged(s)
    BY Zenon DEF AInv, NInv
  <1>2. Shut(s, {}, tcp') /\ broken' = broken /\ backlog' = backlog
    <2>1. tcp' = tcp /\ broken' = broken /\ backlog' = backlog
      BY Zenon DEF Starts, net
    <2> QED
      BY <1>1, <2>1, TcpShut, Zenon
  <1>3. NetTypes' /\ Ends'
    <2>1. /\ Elsewhere(s) /\ kern' = kern
          /\ \A i \in open[s] : i \in open'[s] \/ i \in kern'[s] \/ i \in {}
          /\ \A i \in Conns : i \in {held[s], whand[s]} => i \in {held'[s], whand'[s]}
      BY <1>1, Zenon DEF Starts, kernel, lists, locks, worker, Types, Elsewhere
    <2>2. Ends'
      BY <1>2, <2>1, ShutKeeps, ZenonT(30)
    <2>3. /\ notices' \in [Sides -> Seq({"GET_SESSION", "OFFLINE"})]
          /\ status' \in [Sides -> {"ONLINE", "OFFLINE", "CONNECTED"}]
      BY <1>1, Zenon DEF Starts, kernel, lists, node, NetTypes
    <2> QED
      BY <1>1, <1>2, <2>1, <2>2, <2>3, ZenonT(30) DEF NetTypes, Shut
  <1>4. Cared(s)' /\ Plugged(s)'
    BY <1>1, Zenon DEF Starts, kernel, lists, node, locks, worker, Types, NetTypes, Side,
       Hands, OneReconnect, Stopped, Cared, Plugged, Asked
  <1>5. \A q \in Sides \ {s} : Unmoved(q)
    BY <1>1, Zenon DEF Starts, kernel, lists, node, locks, worker, Types, NetTypes, Unmoved
  <1> QED
    BY <1>2, <1>3, <1>4, <1>5, UnmovedSide, Zenon DEF NInv

(* The kernel.                                                             *)
LEMMA Hmdfs_reget_connectionNet ==
  ASSUME AInv, NInv, NEW s \in Sides, hmdfs_reget_connection(s)
  PROVE  NInv'
  <1>1. Types /\ NetTypes /\ Side(s) /\ Cared(s) /\ Plugged(s)
    BY Zenon DEF AInv, NInv
  <1>0. CASE UNCHANGED <<kern, tcp, notices>>
    <2>1. UNCHANGED <<broken, backlog, refused, up, open, fd, status, mtx, held, wpc,
                      whand, raced>>
      BY Zenon DEF hmdfs_reget_connection, node, locks, worker
    <2>2. \A q \in Sides : Unmoved(q)
      BY <1>0, <2>1, Zenon DEF Unmoved
    <2>3. Ends'
      <3>1. Elsewhere(s) /\ Shut(s, {}, tcp')
        BY <1>0, <1>1, <2>1, TcpShut, Zenon DEF Elsewhere
      <3> QED
        BY <1>0, <2>1, <3>1, ShutKeeps, Zenon
    <2> QED
      BY <1>0, <1>1, <2>1, <2>2, <2>3, UnmovedSide, Zenon DEF NInv, NetTypes
  <1> SUFFICES ASSUME ~UNCHANGED <<kern, tcp, notices>> PROVE NInv'
    BY <1>0, Zenon
  <1>2. PICK i \in kern[s] :
          /\ kern' = [kern EXCEPT ![s] = @ \ {i}] /\ tcp' = [tcp EXCEPT ![i][s] = "shut"]
          /\ notices' = [notices EXCEPT ![s] = Append(@, "GET_SESSION")]
          /\ UNCHANGED <<broken, backlog, refused, up, open, fd, status, mtx, held, wpc,
                         whand, raced>>
    BY Zenon DEF hmdfs_reget_connection, Notices, node, locks, worker
  <1>3. i \in Conns
    BY <1>1, Zenon DEF NetTypes
  <1>4. Shut(s, {i}, tcp')
    BY <1>1, <1>2, <1>3, Zenon DEF NetTypes, Shut
  <1>5. /\ kern' \in [Sides -> SUBSET Conns] /\ kern'[s] = kern[s] \ {i}
        /\ \A q \in Sides \ {s} : kern'[q] = kern[q] /\ notices'[q] = notices[q]
        /\ notices'[s] = Append(notices[s], "GET_SESSION")
        /\ notices[s] \in Seq({"GET_SESSION", "OFFLINE"})
        /\ notices' \in [Sides -> Seq({"GET_SESSION", "OFFLINE"})]
    BY <1>1, <1>2 DEF NetTypes
  <1>6. Ends'
    <2>1. Elsewhere(s)
      BY <1>2, <1>5, ZenonT(30) DEF Elsewhere
    <2> QED
      BY <1>2, <1>4, <1>5, <2>1, ShutKeeps, Zenon
  <1>7. Asked(s)'
    <2>1. /\ Len(notices'[s]) = Len(notices[s]) + 1 /\ Len(notices[s]) \in Nat
          /\ notices'[s][Len(notices[s]) + 1] = "GET_SESSION"
      BY <1>5
    <2> QED
      BY <2>1 DEF Asked
  <1>8. \A q \in Sides \ {s} : Unmoved(q)
    BY <1>2, <1>5, Zenon DEF Unmoved
  <1>9. Cared(s)' /\ Plugged(s)'
    BY <1>1, <1>2, <1>7, Zenon DEF Cared, Plugged
  <1> QED
    BY <1>1, <1>2, <1>4, <1>5, <1>6, <1>8, <1>9, UnmovedSide, ZenonT(30) DEF NInv, NetTypes,
       Shut

LEMMA Hmdfs_sendmessageNet ==
  ASSUME AInv, NInv, NEW s \in Sides, hmdfs_sendmessage(s)
  PROVE  NInv'
  <1>1. Types /\ NetTypes /\ Side(s) /\ Cared(s) /\ Plugged(s)
    BY Zenon DEF AInv, NInv
  <1>2. /\ notices' = [notices EXCEPT ![s] = Append(@, "OFFLINE")]
        /\ UNCHANGED <<tcp, kern, broken, backlog, refused, up, open, fd, status, mtx, held,
                       wpc, whand, raced>>
    BY Zenon DEF hmdfs_sendmessage, Notices, net, lists, node, locks, worker
  <1>3. /\ \A q \in Sides \ {s} : notices'[q] = notices[q]
        /\ notices'[s] = Append(notices[s], "OFFLINE")
        /\ notices[s] \in Seq({"GET_SESSION", "OFFLINE"})
        /\ notices' \in [Sides -> Seq({"GET_SESSION", "OFFLINE"})]
    BY <1>1, <1>2 DEF NetTypes
  <1>4. Ends'
    <2>1. Elsewhere(s) /\ Shut(s, {}, tcp')
      BY <1>1, <1>2, TcpShut, Zenon DEF Elsewhere
    <2> QED
      BY <1>2, <2>1, ShutKeeps, Zenon
  <1>5. Asked(s) => Asked(s)'
    <2>1. /\ Len(notices'[s]) = Len(notices[s]) + 1 /\ Len(notices[s]) \in Nat
          /\ \A k \in 1 .. Len(notices[s]) : notices'[s][k] = notices[s][k]
      BY <1>3
    <2> QED
      BY <2>1 DEF Asked
  <1>6. \A q \in Sides \ {s} : Unmoved(q)
    BY <1>2, <1>3, Zenon DEF Unmoved
  <1>7. Cared(s)' /\ Plugged(s)'
    BY <1>1, <1>2, <1>5, Zenon DEF Cared, Plugged
  <1> QED
    BY <1>1, <1>2, <1>3, <1>4, <1>6, <1>7, UnmovedSide, Zenon DEF NInv, NetTypes

LEMMA HandshakeNet ==
  ASSUME AInv, NInv, NEW s \in Sides, connection_handshake_recv_handler(s)
  PROVE  NInv'
  <1>1. Types /\ NetTypes /\ Side(s) /\ Cared(s) /\ Plugged(s)
    BY Zenon DEF AInv, NInv
  <1>2. /\ notices' = notices \/ notices' = [notices EXCEPT ![s] = Append(@, "OFFLINE")]
        /\ UNCHANGED <<tcp, kern, broken, backlog, refused, up, open, fd, status, mtx, held,
                       wpc, whand, raced>>
    BY Zenon DEF connection_handshake_recv_handler, Notices, node, locks, worker
  <1>3. /\ \A q \in Sides \ {s} : notices'[q] = notices[q]
        /\ notices'[s] \in {notices[s], Append(notices[s], "OFFLINE")}
        /\ notices[s] \in Seq({"GET_SESSION", "OFFLINE"})
        /\ notices' \in [Sides -> Seq({"GET_SESSION", "OFFLINE"})]
    <2>1. CASE notices' = notices
      BY <1>1, <2>1, Zenon DEF NetTypes
    <2>2. CASE notices' = [notices EXCEPT ![s] = Append(@, "OFFLINE")]
      BY <1>1, <2>2 DEF NetTypes
    <2> QED
      BY <1>2, <2>1, <2>2, Zenon
  <1>4. Ends'
    <2>1. Elsewhere(s) /\ Shut(s, {}, tcp')
      BY <1>1, <1>2, TcpShut, Zenon DEF Elsewhere
    <2> QED
      BY <1>2, <2>1, ShutKeeps, Zenon
  <1>5. Asked(s) => Asked(s)'
    <2>1. /\ Len(notices'[s]) >= Len(notices[s]) /\ Len(notices[s]) \in Nat
          /\ Len(notices'[s]) \in Nat
          /\ \A k \in 1 .. Len(notices[s]) : notices'[s][k] = notices[s][k]
      BY <1>3
    <2> QED
      BY <2>1 DEF Asked
  <1>6. \A q \in Sides \ {s} : Unmoved(q)
    BY <1>2, <1>3, Zenon DEF Unmoved
  <1>7. Cared(s)' /\ Plugged(s)'
    BY <1>1, <1>2, <1>5, Zenon DEF Cared, Plugged
  <1> QED
    BY <1>1, <1>2, <1>3, <1>4, <1>6, <1>7, UnmovedSide, Zenon DEF NInv, NetTypes

(* The network breaks a connection, or an end learns of it.                *)
LEMMA NetworkNet ==
  ASSUME AInv, NInv, (\E s \in Sides : PeerGone(s)) \/ NetworkBreaks \/ UNCHANGED vars
  PROVE  NInv'
  <1>1. UNCHANGED <<backlog, kern, notices, refused, up, open, fd, status, mtx, held, wpc, whand,
                    raced>>
    BY Zenon DEF PeerGone, NetworkBreaks, vars, net, kernel, lists, node, locks, worker
  <1>2. NetTypes
    BY Zenon DEF NInv
  <1>3. /\ tcp' \in [Conns -> [Sides -> {"est", "wait", "shut"}]]
        /\ broken' \subseteq Conns /\ \A i \in broken : i \in broken'
        /\ \A i \in Conns : \A q \in Sides :
             tcp'[i][q] = tcp[i][q] \/ (tcp'[i][q] = "wait" /\ Gone(i, q))
    <2>1. CASE \E s \in Sides : PeerGone(s)
      <3>1. PICK s \in Sides, i \in Conns : /\ Gone(i, s) /\ tcp' = [tcp EXCEPT ![i][s] = "wait"]
                                            /\ broken' = broken
        BY <2>1, Zenon DEF PeerGone
      <3> QED
        BY <1>2, <3>1, Zenon DEF NetTypes
    <2>2. CASE NetworkBreaks
      BY <1>2, <2>2, Zenon DEF NetworkBreaks, NetTypes
    <2>3. CASE UNCHANGED vars
      BY <1>2, <2>3, Zenon DEF vars, net, NetTypes
    <2> QED
      BY <2>1, <2>2, <2>3, Zenon
  <1>4. \A i \in Conns : \A q \in Sides : Owned(i, q)'
    BY <1>1, <1>3, Zenon DEF NInv, Ends, Owned
  <1>5. \A i \in Conns : \A q \in Sides : Rightly(i, q)'
    <2> SUFFICES ASSUME NEW i \in Conns, NEW q \in Sides
                 PROVE  Rightly(i, q)'
      BY Zenon
    <2>1. Rightly(i, q) /\ Other(q) \in Sides
      BY TwoSides, Zenon DEF NInv, Ends
    <2>2. tcp[i][Other(q)] = "shut" => tcp'[i][Other(q)] = "shut"
      BY <1>3, <2>1, Zenon DEF Gone
    <2> QED
      BY <1>3, <2>1, <2>2 DEF Rightly, Gone
  <1>6. \A s \in Sides : Unmoved(s)
    BY <1>1, Zenon DEF Unmoved
  <1> QED
    BY <1>1, <1>2, <1>3, <1>4, <1>5, <1>6, UnmovedSide, ZenonT(30) DEF NInv, NetTypes, Ends

LEMMA InitNet ==
  ASSUME Init
  PROVE  NInv
  BY SidesAssumption DEF Init, NInv, NetTypes, Ends, Owned, Rightly, Cared, Plugged

LEMMA NextNet ==
  ASSUME AInv, NInv, [Next]_vars
  PROVE  NInv'
  BY Connector_thread_funcNet, ConnectorEndsNet, GetSessionNet, GetSessionEndsNet,
     NotifyOfflineNet, Netup_listener_thread_funcNet, Try_reconnect_nodeNet,
     WorkerConnectsNet, WorkerEndsNet, Handle_new_connectionNet, Cleanup_agentNet, StartsNet,
     HandshakeNet, Hmdfs_reget_connectionNet, Hmdfs_sendmessageNet, NetworkNet, Zenon DEF
     Next, Threads

-----------------------------------------------------------------------------
\* What was let go silently is down and stays on the list.
Dead ==
  /\ dead \in [Sides -> SUBSET Conns]
  /\ \A s \in Sides : dead[s] \subseteq kern[s] /\ \A i \in dead[s] : tcp[i][s] # "est"

(* A step that revives no end and takes nothing off a list.                *)
LEMMA DeadKept ==
  ASSUME Dead, UNCHANGED dead, \A s \in Sides : kern[s] \subseteq kern'[s],
         \A s \in Sides : \A i \in dead[s] : tcp'[i][s] = "est" => tcp[i][s] = "est"
  PROVE  Dead'
  BY Zenon DEF Dead

(* A thread connects: only a connection nobody holds is used again.        *)
LEMMA ConnectsDead ==
  ASSUME NetTypes, Dead, NEW s \in Sides, NEW t, NEW C, Shut(s, C, t), UNCHANGED lists,
         (\E i \in Conns : Connects(s, i, t)) \/ ConnectFails(s, t) \/ tcp' = tcp
  PROVE  Dead'
  <1>1. UNCHANGED <<kern, dead>>
    BY Zenon DEF lists
  <1>2. ASSUME NEW i \in Conns, Connects(s, i, t), NEW q \in Sides, NEW j \in dead[q],
               tcp'[j][q] = "est"
        PROVE  tcp[j][q] = "est"
    <2>1. j \in Conns /\ j # i
      BY <1>2, Zenon DEF Connects, Free, Dead
    <2>2. \A k \in Conns \ {i} : \A p \in Sides :
            tcp'[k][p] = IF p = s /\ k \in C THEN "shut" ELSE tcp[k][p]
      BY <1>2, ConnectsView, ZenonT(30)
    <2>3. tcp'[j][q] = IF q = s /\ j \in C THEN "shut" ELSE tcp[j][q]
      BY <2>1, <2>2, Zenon
    <2> QED
      BY <1>2, <2>3, Zenon
  <1>3. ASSUME ConnectFails(s, t), NEW q \in Sides, NEW j \in dead[q], tcp'[j][q] = "est"
        PROVE  tcp[j][q] = "est"
    <2>1. j \in Conns /\ tcp' = t
      BY <1>3, Zenon DEF ConnectFails, Dead
    <2> QED
      BY <1>3, <2>1, Zenon DEF Shut
  <1> QED
    BY <1>1, <1>2, <1>3, DeadKept, Zenon

(* The agent closes sockets, and the kernel perhaps takes one.             *)
LEMMA ClosesDead ==
  ASSUME NetTypes, Dead, NEW s \in Sides, NEW C, tcp' = tcp \/ tcp' = Closed(s, C),
         \/ UNCHANGED lists
         \/ \E i \in Conns, o \in BOOLEAN : update_socket(s, i, o)
  PROVE  Dead'
  <1>1. UNCHANGED dead
    BY Zenon DEF update_socket, lists
  <1>2. \A q \in Sides : kern[q] \subseteq kern'[q]
    BY Update_socketView, Zenon DEF lists
  <1>3. Shut(s, C \ kern[s], tcp') \/ tcp' = tcp
    BY ClosedShut, Zenon
  <1>4. \A q \in Sides : \A i \in dead[q] : tcp'[i][q] = "est" => tcp[i][q] = "est"
    BY <1>3, Zenon DEF Shut, Dead
  <1> QED
    BY <1>1, <1>2, <1>4, DeadKept, Zenon

LEMMA NextDead ==
  ASSUME AInv, NInv, Dead, [Next]_vars
  PROVE  Dead'
  <1>1. NetTypes /\ Types /\ \A s \in Sides : Side(s)
    BY Zenon DEF NInv, AInv
  <1>2. ASSUME NEW s \in Sides, connector_thread_func(s) \/ WorkerConnects(s) PROVE Dead'
    <2>1. UNCHANGED lists /\ ((\E i \in Conns : Connects(s, i, tcp)) \/ ConnectFails(s, tcp))
      BY <1>2, Zenon DEF connector_thread_func, WorkerConnects, kernel
    <2>2. Shut(s, {}, tcp)
      BY <1>1, TcpShut, Zenon
    <2> QED
      BY <1>1, <2>1, <2>2, ConnectsDead, Zenon
  <1>3. ASSUME NEW s \in Sides, GetSession(s) PROVE Dead'
    <2> DEFINE t == Closed(s, {fd[s]})
    <2>1. /\ UNCHANGED lists
          /\ (\E i \in Conns : Connects(s, i, t)) \/ ConnectFails(s, t) \/ tcp' = tcp
      BY <1>3, Zenon DEF GetSession, net
    <2>2. Shut(s, {fd[s]} \ kern[s], t)
      BY <1>1, ClosedShut, Zenon
    <2> HIDE DEF t
    <2> QED
      BY <1>1, <2>1, <2>2, ConnectsDead, Zenon
  <1>4. ASSUME NEW s \in Sides, ConnectorEnds(s) \/ GetSessionEnds(s) PROVE Dead'
    <2>1. held[s] \in Conns
      BY <1>1, <1>4, Zenon DEF ConnectorEnds, GetSessionEnds, Side, Hands
    <2>2. /\ tcp' = tcp \/ tcp' = Closed(s, {held[s]})
          /\ UNCHANGED lists \/ update_socket(s, held[s], TRUE)
      BY <1>4, Zenon DEF ConnectorEnds, GetSessionEnds, TakesSocket, DropsSocket
    <2> QED
      BY <1>1, <2>1, <2>2, ClosesDead, Zenon
  <1>5. ASSUME NEW s \in Sides, WorkerEnds(s) PROVE Dead'
    <2>1. /\ tcp' = tcp \/ tcp' = Closed(s, {whand[s]})
          /\ UNCHANGED lists \/ (whand[s] # None /\ update_socket(s, whand[s], TRUE))
      BY <1>5, Zenon DEF WorkerEnds, TakesSocket, DropsSocket
    <2>2. whand[s] # None => whand[s] \in Conns
      BY <1>1, Zenon DEF Types
    <2> QED
      BY <1>1, <2>1, <2>2, ClosesDead, Zenon
  <1>6. ASSUME NEW s \in Sides, handle_new_connection(s) PROVE Dead'
    <2>1. PICK i \in Conns :
            /\ \E C \in {{i}, {fd[s]}, {fd[s], i}} : tcp' = Closed(s, C)
            /\ UNCHANGED lists \/ update_socket(s, i, FALSE)
      BY <1>6, Zenon DEF handle_new_connection
    <2> QED
      BY <1>1, <2>1, ClosesDead, Zenon
  <1>7. ASSUME NEW s \in Sides, NotifyOffline(s) PROVE Dead'
    <2>1. tcp' = Closed(s, {fd[s]}) /\ UNCHANGED lists
      BY <1>7, Zenon DEF NotifyOffline
    <2> QED
      BY <1>1, <2>1, ClosesDead, Zenon
  <1>8. ASSUME NEW s \in Sides,
               \/ netup_listener_thread_func(s) \/ try_reconnect_node(s) \/ Starts(s)
               \/ hmdfs_sendmessage(s) \/ connection_handshake_recv_handler(s)
        PROVE  Dead'
    <2>1. UNCHANGED <<kern, dead, tcp>>
      BY <1>8, Zenon DEF netup_listener_thread_func, try_reconnect_node, Starts,
         hmdfs_sendmessage, connection_handshake_recv_handler, net, kernel, lists
    <2> QED
      BY <2>1, Zenon DEF Dead
  <1>9. CASE NetworkBreaks \/ UNCHANGED vars
    <2>1. UNCHANGED <<kern, dead, tcp>>
      BY <1>9, Zenon DEF NetworkBreaks, vars, net, kernel, lists
    <2> QED
      BY <2>1, Zenon DEF Dead
  <1>10. ASSUME NEW s \in Sides, PeerGone(s) PROVE Dead'
    <2>1. PICK i \in Conns : tcp' = [tcp EXCEPT ![i][s] = "wait"]
      BY <1>10, Zenon DEF PeerGone
    <2>2. UNCHANGED <<kern, dead>>
      BY <1>10, Zenon DEF PeerGone, kernel, lists
    <2>3. \A j \in Conns, q \in Sides : tcp'[j][q] = tcp[j][q] \/ tcp'[j][q] = "wait"
      BY <1>1, <2>1, Zenon DEF NetTypes
    <2> QED
      BY <2>2, <2>3, Zenon DEF Dead
  <1>11. ASSUME NEW s \in Sides, hmdfs_reget_connection(s) PROVE Dead'
    <2>1. PICK i \in kern[s] \ dead[s] :
            /\ tcp[i][s] # "est"
            /\ \/ /\ kern' = [kern EXCEPT ![s] = @ \ {i}]
                  /\ tcp' = [tcp EXCEPT ![i][s] = "shut"] /\ UNCHANGED dead
               \/ dead' = [dead EXCEPT ![s] = @ \cup {i}] /\ UNCHANGED <<kern, tcp>>
      BY <1>11, Zenon DEF hmdfs_reget_connection
    <2>2. i \in Conns
      BY <1>1, Zenon DEF NetTypes
    <2>3. CASE dead' = [dead EXCEPT ![s] = @ \cup {i}] /\ UNCHANGED <<kern, tcp>>
      BY <1>1, <2>1, <2>2, <2>3, Zenon DEF Dead, NetTypes
    <2>4. CASE /\ kern' = [kern EXCEPT ![s] = @ \ {i}]
               /\ tcp' = [tcp EXCEPT ![i][s] = "shut"] /\ UNCHANGED dead
      <3>1. \A q \in Sides : dead[q] \subseteq kern'[q]
        BY <1>1, <2>1, <2>4, Zenon DEF Dead, NetTypes
      <3>2. \A j \in Conns, q \in Sides : tcp'[j][q] = tcp[j][q] \/ tcp'[j][q] = "shut"
        BY <1>1, <2>2, <2>4, Zenon DEF NetTypes
      <3>3. \A q \in Sides : dead[q] \subseteq Conns
        BY Zenon DEF Dead
      <3> QED
        BY <2>4, <3>1, <3>2, <3>3 DEF Dead
    <2> QED
      BY <2>1, <2>3, <2>4, Zenon
  <1>12. ASSUME NEW s \in Sides, cleanup_agent(s) PROVE Dead'
    <2>1. \/ /\ kern' = [kern EXCEPT ![s] = {}] /\ dead' = [dead EXCEPT ![s] = {}]
          \/ UNCHANGED <<kern, dead>>
      BY <1>12, Zenon DEF cleanup_agent, off_line, lists
    <2>2. PICK C : tcp' = [i \in Conns |-> IF i \in C THEN [tcp[i] EXCEPT ![s] = "shut"]
                                                      ELSE tcp[i]]
      BY <1>12, Zenon DEF cleanup_agent
    <2>3. \A j \in Conns, q \in Sides : tcp'[j][q] = tcp[j][q] \/ tcp'[j][q] = "shut"
      BY <1>1, <2>2, Zenon DEF NetTypes
    <2> QED
      BY <1>1, <2>1, <2>3, ZenonT(30) DEF Dead, NetTypes
  <1> QED
    BY <1>2, <1>3, <1>4, <1>5, <1>6, <1>7, <1>8, <1>9, <1>10, <1>11, <1>12, Zenon DEF Next,
       Threads

(* The invariants hold together.                                           *)
LEMMA NetInvariant == Spec => [](AInv /\ NInv /\ Dead)
  <1>1. Init => AInv /\ NInv /\ Dead
    <2>1. Init => Dead
      BY ZenonT(30) DEF Init, Dead
    <2> QED
      BY <2>1, AgentInit, InitNet, Zenon
  <1>2. AInv /\ NInv /\ Dead /\ [Next]_vars => AInv' /\ NInv' /\ Dead'
    BY AgentNext, NextNet, NextDead, Zenon
  <1> QED
    BY <1>1, <1>2, PTL DEF Spec

LEMMA BothUse == AInv /\ NInv /\ Dead => NoOneSided
  <1> SUFFICES ASSUME AInv, NInv, Dead, Settled, NEW s \in Sides, NEW i \in kern[s] \ dead[s],
                      NEW q \in Sides
               PROVE  i \in kern[q] \ dead[q]
    BY Zenon DEF NoOneSided, Shared
  <1>1. i \in Conns /\ tcp[i][s] = "est" /\ ~Gone(i, s)
    BY ZenonT(30), ZenonT(30) DEF NInv, NetTypes, Settled
  <1> DEFINE o == Other(s)
  <1>2. o \in Sides /\ Other(o) = s /\ (q = s \/ q = o)
    BY TwoSides, Zenon
  <1>3. i \notin broken /\ tcp[i][o] # "shut"
    BY <1>1, Zenon DEF Gone
  <1> HIDE DEF o
  <1>4. tcp[i][o] # "wait"
    BY <1>1, <1>2, <1>3, Zenon DEF NInv, Ends, Rightly
  <1>5. tcp[i][o] = "est"
    BY <1>1, <1>2, <1>3, <1>4, ZenonT(30) DEF NInv, NetTypes
  <1>6. Owned(i, o) /\ Side(o) /\ backlog[i] # o /\ mtx[o] = "free" /\ wpc[o] = "none"
    <2>1. backlog[i] # o /\ mtx[o] = "free" /\ wpc[o] = "none"
      BY <1>1, <1>2 DEF Settled
    <2>2. Owned(i, o) /\ Side(o)
      BY <1>1, <1>2, Zenon DEF AInv, NInv, Ends
    <2> QED
      BY <2>1, <2>2, Zenon
  <1>7. i # held[o] /\ i # whand[o]
    BY <1>1, <1>6, SidesAssumption, Zenon DEF Side, Hands
  <1> QED
    BY <1>2, <1>5, <1>6, <1>7, Zenon DEF Owned, Dead

(* Once everything has settled, a connection one kernel uses is used by    *)
(* the other one, for any number of connections, breaks, failures, signals *)
(* and restarts (hmdfs_agent.c, handle_new_connection and cleanup_agent    *)
(* against the threads of the other side).                                 *)
THEOREM SidesAgree == Spec => []NoOneSided
  BY NetInvariant, BothUse, PTL

(* Two settled devices without a common connection have the node OFFLINE   *)
(* and no socket, which is what the net-up signal looks for, so that the   *)
(* next signal can bring them together again (hmdfs_agent.c,               *)
(* netup_listener_thread_func and HandleAllNotify): for any number of      *)
(* connections, breaks, failures, signals and restarts, unless a worker    *)
(* came back to a node with another socket, a kernel was given a dead one, *)
(* or a connection ended before its handshake while the kernel's node was  *)
(* OFFLINE (comm/transport.c, tcp_recv_thread).                            *)
THEOREM RecoveryOpen == Spec => []Recoverable
  <1>1. AInv /\ NInv /\ Dead /\ NoOneSided => Recoverable
    <2> SUFFICES ASSUME AInv, NInv, NoOneSided, Settled, \A i \in Conns : ~Shared(i), ~refused,
                        NEW s \in Sides, ~raced[s], dead[s] = {}
                 PROVE  fd[s] = None /\ status[s] = "OFFLINE"
      BY Zenon DEF Recoverable
    <2>1. kern[s] = {}
      BY Zenon DEF NoOneSided, NInv, NetTypes
    <2>2. /\ up[s] /\ mtx[s] = "free" /\ wpc[s] = "none" /\ notices[s] = <<>>
          /\ ~(status[s] = "ONLINE" /\ fd[s] = None)
      BY Zenon DEF Settled
    <2>3. ~Asked(s)
      BY <2>2 DEF Asked
    <2>4. status[s] # "CONNECTED"
      BY <2>1, <2>2, <2>3, Zenon DEF NInv, Cared
    <2>5. fd[s] = None
      BY <2>4, Zenon DEF NInv, Plugged
    <2> QED
      BY <2>2, <2>4, <2>5, Zenon DEF NInv, NetTypes
  <1> QED
    BY <1>1, NetInvariant, BothUse, PTL
=============================================================================
