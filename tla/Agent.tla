------------------------------- MODULE Agent --------------------------------
(***************************************************************************)
(* The user-space agents of two devices (hmdfs_agent.c).  An agent makes   *)
(* TCP connections to the other one, hands their sockets to its kernel     *)
(* module through the cmd file, and makes new ones when the kernel asks.   *)
(*                                                                         *)
(* Threads of an agent, all but the worker's connect under g_device_mutex: *)
(*   - the connector (a node that was never connected),                    *)
(*   - the listener (connections of the other agent),                      *)
(*   - the sysfs checker (notices of the kernel),                          *)
(*   - workers started by the net-up signal (a node that is OFFLINE).      *)
(*                                                                         *)
(* The kernel takes a socket that is established and holds it whatever the *)
(* agent does with its fd; it shakes hands with the other kernel, and when *)
(* a connection breaks it shuts it and sends NOTIFY_GET_SESSION, unless    *)
(* its node is OFFLINE (PeerConn has the details).  A connection number    *)
(* stands for a TCP connection and is used again when nobody holds it.     *)
(***************************************************************************)
EXTENDS Integers, Sequences, FiniteSets

CONSTANTS
  Sides,      \* the two devices
  Conns,      \* numbers for TCP connections
  None,       \* no connection (fd = -1)
  MaxBreak,   \* connections the network breaks
  MaxFail,    \* calls that fail: connect though the other agent listens,
              \* or writing the cmd file
  MaxSignal,  \* net-up signals
  MaxMsg,     \* messages sent without a connection
  MaxExit,    \* agents that stop
  MaxEvent    \* all these together

ASSUME SidesAssumption == IsFiniteSet(Sides) /\ Cardinality(Sides) = 2 /\ None \notin Conns
ASSUME LimitsAssumption == {MaxBreak, MaxFail, MaxSignal, MaxMsg, MaxExit, MaxEvent} \subseteq Nat

VARIABLES
  tcp,        \* state of each end: est, wait (the other end is gone), shut
  broken,     \* connections the network broke
  backlog,    \* the side at which a connection waits to be accepted
  kern,       \* connections in the list of a side's kernel
  work,       \* those that are CONNECT_STAT_WORKING
  dead,       \* those whose receive thread ended while the node was OFFLINE
  kstat,      \* the status of the kernel's node
  mail,       \* the handshake message on its way to an end
  notices,    \* notices of a side's kernel
  up,         \* whether the agent runs
  open,       \* sockets the agent has open
  fd,         \* node->fd
  status,     \* node->status
  connecting, \* node->connecting
  mtx,        \* the thread that holds g_device_mutex over a connect
  held,       \* the socket that thread has connected
  starts,     \* net-up workers that have not looked at the node yet
  wpc, whand, \* the one that reconnects: where it is, and its socket
  raced,      \* history: a worker came back to a node with another socket
  refused,    \* history: a kernel was given a socket that was down already
  breaks, fails, signals, msgs, exits \* bounded counters

net == <<tcp, broken, backlog, mail>>
lists == <<kern, work, dead, kstat>>
kernel == <<lists, notices, refused>>
node == <<fd, status, connecting>>
locks == <<mtx, held>>
worker == <<starts, wpc, whand>>
bounds == <<breaks, fails, signals, msgs, exits>>
vars == <<net, kernel, up, open, node, locks, worker, raced, bounds>>

\* Another of the events counted by n may happen.
More(n, max) == n < max /\ breaks + fails + signals + msgs + exits < MaxEvent

Other(s) == CHOOSE o \in Sides : o # s

Init ==
  /\ tcp = [i \in Conns |-> [s \in Sides |-> "shut"]]
  /\ broken = {} /\ backlog = [i \in Conns |-> None]
  /\ kern = [s \in Sides |-> {}] /\ work = [s \in Sides |-> {}] /\ dead = [s \in Sides |-> {}]
  /\ kstat = [s \in Sides |-> "SHAKING"]
  /\ mail = [i \in Conns |-> [s \in Sides |-> "none"]]
  /\ notices = [s \in Sides |-> <<>>]
  /\ up = [s \in Sides |-> TRUE]
  /\ open = [s \in Sides |-> {}]
  /\ fd = [s \in Sides |-> None] /\ status = [s \in Sides |-> "ONLINE"]
  /\ connecting = [s \in Sides |-> FALSE]
  /\ mtx = [s \in Sides |-> "free"] /\ held = [s \in Sides |-> None]
  /\ starts = [s \in Sides |-> 0]
  /\ wpc = [s \in Sides |-> "none"] /\ whand = [s \in Sides |-> None]
  /\ raced = [s \in Sides |-> FALSE] /\ refused = FALSE
  /\ breaks = 0 /\ fails = 0 /\ signals = 0 /\ msgs = 0 /\ exits = 0

-----------------------------------------------------------------------------
(* TCP and system calls, external.                                         *)

\* Nobody holds an end of i any more.
Free(i) == \A s \in Sides : tcp[i][s] = "shut" /\ i \notin open[s] /\ i \notin kern[s]

\* The states of the ends after the agent of s closed the sockets in C: an
\* end goes down when the kernel does not hold it.
Closed(s, C) ==
  [i \in Conns |-> IF i \in C \ kern[s] THEN [tcp[i] EXCEPT ![s] = "shut"] ELSE tcp[i]]

Established(i, s) == i # None /\ tcp[i][s] = "est"

(* connect: the connection waits at the other side; given the states t.    *)
Connects(s, i, t) ==
  /\ Free(i) /\ up[Other(s)]
  /\ tcp' = [t EXCEPT ![i] = [e \in Sides |-> "est"]]
  /\ broken' = broken \ {i}
  /\ backlog' = [backlog EXCEPT ![i] = Other(s)]
  /\ mail' = [mail EXCEPT ![i] = [e \in Sides |-> "none"]]
  /\ UNCHANGED fails

\* A call fails.
Fails == More(fails, MaxFail) /\ fails' = fails + 1

ConnectFails(s, t) ==
  /\ tcp' = t
  /\ IF up[Other(s)] THEN Fails ELSE UNCHANGED fails
  /\ UNCHANGED <<broken, backlog, mail>>

\* The handshake message m is sent to the end of s of connection i.
Sends(i, s, m) == mail' = [mail EXCEPT ![i][s] = IF i \in broken THEN @ ELSE m]

(* CMD_UPDATE_SOCKET: the kernel takes a socket that is established, and   *)
(* says nothing about one that is not.  A socket the agent has opened      *)
(* itself starts the handshake.                                            *)
update_socket(s, i, opened) ==
  IF tcp[i][s] = "est"
    THEN /\ kern' = [kern EXCEPT ![s] = @ \cup {i}]
         /\ IF opened THEN Sends(i, Other(s), "request") ELSE UNCHANGED mail
         /\ UNCHANGED <<work, dead, kstat, refused>>
    ELSE refused' = TRUE /\ UNCHANGED <<lists, mail>>

-----------------------------------------------------------------------------
(* The connector: a node that is ONLINE and has no socket.                 *)
connector_thread_func(s) ==
  /\ up[s] /\ mtx[s] = "free"
  /\ status[s] = "ONLINE" /\ fd[s] = None
  /\ \/ \E i \in Conns : /\ Connects(s, i, tcp)
                         /\ open' = [open EXCEPT ![s] = @ \cup {i}]
                         /\ held' = [held EXCEPT ![s] = i]
                         /\ mtx' = [mtx EXCEPT ![s] = "connector"]
     \/ ConnectFails(s, tcp) /\ UNCHANGED <<open, locks>>
  /\ UNCHANGED <<kernel, up, node, worker, raced, breaks, signals, msgs, exits>>

\* What a thread does with the socket i it has connected.
TakesSocket(s, i) ==
  /\ update_socket(s, i, TRUE)
  /\ fd' = [fd EXCEPT ![s] = i]
  /\ status' = [status EXCEPT ![s] = "CONNECTED"]
  /\ UNCHANGED <<open, tcp, fails>>

\* The cmd file cannot be written; the connector leaves the node's status.
DropsSocket(s, i, st) ==
  /\ Fails
  /\ open' = [open EXCEPT ![s] = @ \ {i}]
  /\ tcp' = Closed(s, {i})
  /\ status' = [status EXCEPT ![s] = st]
  /\ UNCHANGED <<lists, refused, fd, mail>>

Release(s) == mtx' = [mtx EXCEPT ![s] = "free"] /\ held' = [held EXCEPT ![s] = None]

ConnectorEnds(s) ==
  /\ mtx[s] = "connector"
  /\ TakesSocket(s, held[s]) \/ DropsSocket(s, held[s], status[s])
  /\ Release(s)
  /\ UNCHANGED <<broken, backlog, notices, up, connecting, worker, raced, breaks, signals, msgs, exits>>

-----------------------------------------------------------------------------
(* The sysfs checker: HandleAllNotify.                                     *)

CloseFd_Forgets(s) == open[s]           \* mutant: node->fd is overwritten, not closed

\* Close node->fd if there is one.
CloseFd(s) == open[s] \ {fd[s]}

GetSession_KeepsStatus(s) ==              \* mutant: a failed connect leaves the status
  /\ up[s] /\ mtx[s] = "free"
  /\ notices[s] # <<>> /\ Head(notices[s]) = "GET_SESSION"
  /\ notices' = [notices EXCEPT ![s] = Tail(@)]
  /\ IF connecting[s]
       THEN UNCHANGED <<net, open, node, locks, fails>>
       ELSE /\ fd' = [fd EXCEPT ![s] = None]
            /\ \/ \E i \in Conns :
                    /\ Connects(s, i, Closed(s, {fd[s]}))
                    /\ open' = [open EXCEPT ![s] = CloseFd(s) \cup {i}]
                    /\ held' = [held EXCEPT ![s] = i]
                    /\ mtx' = [mtx EXCEPT ![s] = "notify"]
                    /\ connecting' = [connecting EXCEPT ![s] = TRUE]
                    /\ UNCHANGED status
               \/ /\ ConnectFails(s, Closed(s, {fd[s]}))
                  /\ open' = [open EXCEPT ![s] = CloseFd(s)]
                  /\ UNCHANGED <<status, connecting, locks>>
  /\ UNCHANGED <<lists, refused, up, worker, raced, breaks, signals, msgs, exits>>

(* NOTIFY_GET_SESSION: unless a reconnect is under way, close the socket   *)
(* whatever its state, and connect.                                        *)
GetSession(s) ==
  /\ up[s] /\ mtx[s] = "free"
  /\ notices[s] # <<>> /\ Head(notices[s]) = "GET_SESSION"
  /\ notices' = [notices EXCEPT ![s] = Tail(@)]
  /\ IF connecting[s]
       THEN UNCHANGED <<net, open, node, locks, fails>>
       ELSE /\ fd' = [fd EXCEPT ![s] = None]
            /\ \/ \E i \in Conns :
                    /\ Connects(s, i, Closed(s, {fd[s]}))
                    /\ open' = [open EXCEPT ![s] = CloseFd(s) \cup {i}]
                    /\ held' = [held EXCEPT ![s] = i]
                    /\ mtx' = [mtx EXCEPT ![s] = "notify"]
                    /\ connecting' = [connecting EXCEPT ![s] = TRUE]
                    /\ UNCHANGED status
               \/ /\ ConnectFails(s, Closed(s, {fd[s]}))
                  /\ open' = [open EXCEPT ![s] = CloseFd(s)]
                  /\ status' = [status EXCEPT ![s] = "OFFLINE"]
                  /\ UNCHANGED <<connecting, locks>>
  /\ UNCHANGED <<lists, refused, up, worker, raced, breaks, signals, msgs, exits>>

GetSessionEnds(s) ==
  /\ mtx[s] = "notify"
  /\ TakesSocket(s, held[s]) \/ DropsSocket(s, held[s], "OFFLINE")
  /\ connecting' = [connecting EXCEPT ![s] = FALSE]
  /\ Release(s)
  /\ UNCHANGED <<broken, backlog, notices, up, worker, raced, breaks, signals, msgs, exits>>

(* NOTIFY_OFFLINE                                                          *)
NotifyOffline(s) ==
  /\ up[s] /\ mtx[s] = "free"
  /\ notices[s] # <<>> /\ Head(notices[s]) = "OFFLINE"
  /\ notices' = [notices EXCEPT ![s] = Tail(@)]
  /\ status' = [status EXCEPT ![s] = "OFFLINE"]
  /\ fd' = [fd EXCEPT ![s] = None]
  /\ open' = [open EXCEPT ![s] = CloseFd(s)]
  /\ tcp' = Closed(s, {fd[s]})
  /\ UNCHANGED <<broken, backlog, mail, lists, refused, up, connecting, locks, worker, raced, bounds>>

-----------------------------------------------------------------------------
(* The net-up signal starts a worker for a node that is OFFLINE, and does  *)
(* nothing for another one.                                                *)
netup_listener_thread_func(s) ==
  /\ up[s] /\ mtx[s] = "free" /\ More(signals, MaxSignal)
  /\ signals' = signals + 1
  /\ fd[s] = None /\ status[s] = "OFFLINE" /\ ~connecting[s]
  /\ starts' = [starts EXCEPT ![s] = @ + 1]
  /\ UNCHANGED <<net, kernel, up, open, node, locks, wpc, whand, raced, breaks, fails, msgs, exits>>

try_reconnect_node(s) ==
  /\ starts[s] > 0 /\ mtx[s] = "free"
  /\ starts' = [starts EXCEPT ![s] = @ - 1]
  /\ IF connecting[s]
       THEN UNCHANGED <<wpc, connecting>>
       ELSE /\ wpc' = [wpc EXCEPT ![s] = "connect"]
            /\ connecting' = [connecting EXCEPT ![s] = TRUE]
  /\ UNCHANGED <<net, kernel, up, open, fd, status, locks, whand, raced, bounds>>

\* connect_to_remote_node, without the mutex
WorkerConnects(s) ==
  /\ wpc[s] = "connect"
  /\ wpc' = [wpc EXCEPT ![s] = "end"]
  /\ \/ \E i \in Conns : /\ Connects(s, i, tcp)
                         /\ open' = [open EXCEPT ![s] = @ \cup {i}]
                         /\ whand' = [whand EXCEPT ![s] = i]
     \/ ConnectFails(s, tcp) /\ UNCHANGED <<open, whand>>
  /\ UNCHANGED <<kernel, up, node, locks, starts, raced, breaks, signals, msgs, exits>>

WorkerEnds(s) ==
  /\ wpc[s] = "end" /\ mtx[s] = "free"
  /\ connecting' = [connecting EXCEPT ![s] = FALSE]
  /\ IF whand[s] # None
       THEN TakesSocket(s, whand[s]) \/ DropsSocket(s, whand[s], "OFFLINE")
       ELSE status' = [status EXCEPT ![s] = "OFFLINE"] /\ UNCHANGED <<lists, refused, fd, open, tcp, mail, fails>>
  /\ raced' = [raced EXCEPT ![s] = @ \/ fd[s] # None]
  /\ wpc' = [wpc EXCEPT ![s] = "none"] /\ whand' = [whand EXCEPT ![s] = None]
  /\ UNCHANGED <<broken, backlog, notices, up, locks, starts, breaks, signals, msgs, exits>>

-----------------------------------------------------------------------------
handle_new_connection_KeepsRejected(s) == \* mutant: the rejected socket is not closed
  /\ up[s] /\ mtx[s] = "free"
  /\ \E i \in Conns :
       /\ backlog[i] = s
       /\ backlog' = [backlog EXCEPT ![i] = None]
       /\ \/ /\ Established(fd[s], s)
             /\ open' = [open EXCEPT ![s] = @ \cup {i}]
             /\ UNCHANGED <<tcp, fd, status, mail, lists, refused, fails>>
          \/ /\ ~Established(fd[s], s)
             /\ update_socket(s, i, FALSE)
             /\ open' = [open EXCEPT ![s] = CloseFd(s) \cup {i}]
             /\ tcp' = Closed(s, {fd[s]})
             /\ fd' = [fd EXCEPT ![s] = i]
             /\ status' = [status EXCEPT ![s] = "CONNECTED"]
             /\ UNCHANGED fails
          \/ /\ ~Established(fd[s], s) /\ Fails
             /\ open' = [open EXCEPT ![s] = CloseFd(s)]
             /\ tcp' = Closed(s, {fd[s], i})
             /\ fd' = [fd EXCEPT ![s] = None]
             /\ UNCHANGED <<status, mail, lists, refused>>
  /\ UNCHANGED <<broken, notices, up, connecting, locks, worker, raced, breaks, signals, msgs, exits>>

(* The listener: accept and handle_new_connection.  A node with a socket   *)
(* that is established keeps it, a stale one is replaced.                  *)
handle_new_connection(s) ==
  /\ up[s] /\ mtx[s] = "free"
  /\ \E i \in Conns :
       /\ backlog[i] = s
       /\ backlog' = [backlog EXCEPT ![i] = None]
       /\ \/ /\ Established(fd[s], s)
             /\ tcp' = Closed(s, {i})
             /\ UNCHANGED <<open, fd, status, mail, lists, refused, fails>>
          \/ /\ ~Established(fd[s], s)
             /\ update_socket(s, i, FALSE)
             /\ open' = [open EXCEPT ![s] = CloseFd(s) \cup {i}]
             /\ tcp' = Closed(s, {fd[s]})
             /\ fd' = [fd EXCEPT ![s] = i]
             /\ status' = [status EXCEPT ![s] = "CONNECTED"]
             /\ UNCHANGED fails
          \/ /\ ~Established(fd[s], s) /\ Fails
             /\ open' = [open EXCEPT ![s] = CloseFd(s)]
             /\ tcp' = Closed(s, {fd[s], i})
             /\ fd' = [fd EXCEPT ![s] = None]
             /\ UNCHANGED <<status, mail, lists, refused>>
  /\ UNCHANGED <<broken, notices, up, connecting, locks, worker, raced, breaks, signals, msgs, exits>>

-----------------------------------------------------------------------------
\* CMD_OFF_LINE of node s: the kernel drops all connections without a notice.
off_line(s) ==
  /\ kern' = [kern EXCEPT ![s] = {}] /\ work' = [work EXCEPT ![s] = {}]
  /\ dead' = [dead EXCEPT ![s] = {}] /\ kstat' = [kstat EXCEPT ![s] = "OFFLINE"]

(* The agent stops: cleanup_agent closes the socket and, if the node is    *)
(* connected, takes it off line, which may fail.  Whatever waits to be     *)
(* accepted is reset, and the workers end with the process.                *)
cleanup_agent(s) ==
  /\ up[s] /\ mtx[s] = "free" /\ More(exits, MaxExit)
  /\ exits' = exits + 1
  /\ up' = [up EXCEPT ![s] = FALSE]
  /\ LET connected == fd[s] # None /\ status[s] = "CONNECTED"
         down(off) == off \cup (open[s] \ kern[s]) \cup {i \in Conns : backlog[i] = s}
         Down(off) == tcp' = [i \in Conns |-> IF i \in down(off) THEN [tcp[i] EXCEPT ![s] = "shut"]
                                                               ELSE tcp[i]]
     IN \/ connected /\ off_line(s) /\ Down(kern[s]) /\ UNCHANGED fails
        \/ connected /\ Fails /\ Down({}) /\ UNCHANGED lists
        \/ ~connected /\ Down({}) /\ UNCHANGED <<lists, fails>>
  /\ backlog' = [i \in Conns |-> IF backlog[i] = s THEN None ELSE backlog[i]]
  /\ open' = [open EXCEPT ![s] = {}]
  /\ fd' = [fd EXCEPT ![s] = None]
  /\ starts' = [starts EXCEPT ![s] = 0]
  /\ wpc' = [wpc EXCEPT ![s] = "none"] /\ whand' = [whand EXCEPT ![s] = None]
  /\ UNCHANGED <<broken, mail, refused, notices, status, connecting, locks, raced, breaks, signals, msgs>>

\* main: a fresh configuration.
Starts(s) ==
  /\ ~up[s]
  /\ up' = [up EXCEPT ![s] = TRUE]
  /\ status' = [status EXCEPT ![s] = "ONLINE"]
  /\ connecting' = [connecting EXCEPT ![s] = FALSE]
  /\ raced' = [raced EXCEPT ![s] = FALSE]
  /\ UNCHANGED <<net, kernel, open, fd, locks, worker, bounds>>

-----------------------------------------------------------------------------
(* The kernel module.                                                      *)

Notices(s, n) == notices' = [notices EXCEPT ![s] = Append(@, n)]

(* The handshake: a request is answered, the response and its ack make a   *)
(* connection work and the node ONLINE, if their data is acceptable.       *)
connection_handshake_recv_handler(s) ==
  \E i \in kern[s] \ dead[s] :
    /\ tcp[i][s] = "est" /\ mail[i][s] # "none"
    /\ LET answer == CASE mail[i][s] = "request" -> "response"
                       [] mail[i][s] = "response" -> "ack"
                       [] OTHER -> "none"
           read == [mail EXCEPT ![i][s] = "none"]
           replied == IF i \in broken THEN read ELSE [read EXCEPT ![i][Other(s)] = answer]
       IN \/ /\ mail[i][s] = "request"
             /\ mail' = replied
             /\ kstat' = [kstat EXCEPT ![s] = "SHAKING"]
             /\ UNCHANGED <<work, notices, fails>>
          \/ /\ mail[i][s] # "request"
             /\ mail' = replied
             /\ work' = [work EXCEPT ![s] = @ \cup {i}]
             /\ kstat' = [kstat EXCEPT ![s] = "ONLINE"]
             /\ UNCHANGED <<notices, fails>>
          \/ /\ mail[i][s] # "request" /\ Fails
             /\ mail' = read
             /\ Notices(s, "OFFLINE")
             /\ UNCHANGED <<work, kstat>>
    /\ UNCHANGED <<tcp, broken, backlog, kern, dead, refused, up, open, node, locks, worker, raced,
                   breaks, signals, msgs, exits>>

(* tcp_recv_thread: a connection that is down is shut and its session      *)
(* asked for again.  While the node is OFFLINE only the thread ends: the   *)
(* connection stays on the list, and nobody is told.                       *)
hmdfs_reget_connection(s) ==
  \E i \in kern[s] \ dead[s] :
    /\ tcp[i][s] # "est"
    /\ work' = [work EXCEPT ![s] = @ \ {i}]
    /\ IF kstat[s] # "OFFLINE"
         THEN /\ kern' = [kern EXCEPT ![s] = @ \ {i}]
              /\ tcp' = [tcp EXCEPT ![i][s] = "shut"]
              /\ Notices(s, "GET_SESSION")
              /\ UNCHANGED dead
         ELSE /\ dead' = [dead EXCEPT ![s] = @ \cup {i}]
              /\ UNCHANGED <<kern, tcp, notices>>
    /\ UNCHANGED <<broken, backlog, kstat, mail, refused, up, open, node, locks, worker, raced, bounds>>

\* A message finds no connection that works.
hmdfs_sendmessage(s) ==
  /\ kstat[s] = "ONLINE" /\ work[s] = {} /\ More(msgs, MaxMsg)
  /\ msgs' = msgs + 1
  /\ Notices(s, "OFFLINE")
  /\ UNCHANGED <<net, lists, refused, up, open, node, locks, worker, raced, breaks, fails, signals, exits>>

(* External: an end learns that the other one is gone, by a FIN or, when   *)
(* the network broke the connection, by its keepalive.                     *)
Gone(i, s) == tcp[i][s] = "est" /\ (i \in broken \/ tcp[i][Other(s)] = "shut")

PeerGone(s) ==
  \E i \in Conns :
    /\ Gone(i, s)
    /\ tcp' = [tcp EXCEPT ![i][s] = "wait"]
    /\ UNCHANGED <<broken, backlog, mail, kernel, up, open, node, locks, worker, raced, bounds>>

NetworkBreaks ==
  /\ More(breaks, MaxBreak)
  /\ \E i \in Conns \ broken :
       /\ \A s \in Sides : tcp[i][s] = "est"
       /\ broken' = broken \cup {i}
  /\ breaks' = breaks + 1
  /\ UNCHANGED <<tcp, backlog, mail, kernel, up, open, node, locks, worker, raced, fails, signals, msgs, exits>>

-----------------------------------------------------------------------------
\* The threads of an agent, and what the kernel and TCP do by themselves.
Threads(s) ==
  \/ connector_thread_func(s) \/ ConnectorEnds(s)
  \/ GetSession(s) \/ GetSessionEnds(s) \/ NotifyOffline(s)
  \/ try_reconnect_node(s) \/ WorkerConnects(s) \/ WorkerEnds(s)

Next ==
  \/ \E s \in Sides :
       \/ Threads(s) \/ handle_new_connection(s)
       \/ netup_listener_thread_func(s) \/ cleanup_agent(s) \/ Starts(s)
       \/ connection_handshake_recv_handler(s)
       \/ hmdfs_reget_connection(s) \/ hmdfs_sendmessage(s) \/ PeerGone(s)
  \/ NetworkBreaks

Spec == Init /\ [][Next]_vars

\* Threads that can go on do, the listener gets the mutex, a stopped agent is
\* started again, and the loss of a connection is noticed in the end.
FairSpec ==
  /\ Spec
  /\ \A s \in Sides :
       /\ WF_vars(Threads(s)) /\ SF_vars(handle_new_connection(s)) /\ WF_vars(Starts(s))
       /\ WF_vars(connection_handshake_recv_handler(s))
       /\ WF_vars(hmdfs_reget_connection(s)) /\ WF_vars(PeerGone(s))

-----------------------------------------------------------------------------
(* The variables keep their types.                                         *)
TypeOK ==
  /\ tcp \in [Conns -> [Sides -> {"est", "wait", "shut"}]]
  /\ broken \subseteq Conns
  /\ backlog \in [Conns -> Sides \cup {None}]
  /\ kern \in [Sides -> SUBSET Conns]
  /\ work \in [Sides -> SUBSET Conns] /\ dead \in [Sides -> SUBSET Conns]
  /\ \A s \in Sides : work[s] \subseteq kern[s] /\ dead[s] \subseteq kern[s]
  /\ kstat \in [Sides -> {"SHAKING", "ONLINE", "OFFLINE"}]
  /\ mail \in [Conns -> [Sides -> {"none", "request", "response", "ack"}]]
  /\ notices \in [Sides -> Seq({"GET_SESSION", "OFFLINE"})]
  /\ up \in [Sides -> BOOLEAN]
  /\ open \in [Sides -> SUBSET Conns]
  /\ fd \in [Sides -> Conns \cup {None}]
  /\ status \in [Sides -> {"ONLINE", "OFFLINE", "CONNECTED"}]
  /\ connecting \in [Sides -> BOOLEAN] /\ raced \in [Sides -> BOOLEAN] /\ refused \in BOOLEAN
  /\ mtx \in [Sides -> {"free", "connector", "notify"}]
  /\ held \in [Sides -> Conns \cup {None}]
  /\ wpc \in [Sides -> {"none", "connect", "end"}] /\ starts \in [Sides -> Nat]
  /\ whand \in [Sides -> Conns \cup {None}]
  /\ {breaks, fails, signals, msgs, exits} \subseteq Nat

\* Nothing goes on any more: no thread is at work or has work, no connection
\* waits, every end and every kernel knows of what is gone.
Settled ==
  /\ \A s \in Sides :
       /\ up[s] /\ mtx[s] = "free" /\ starts[s] = 0 /\ wpc[s] = "none" /\ notices[s] = <<>>
       /\ ~(status[s] = "ONLINE" /\ fd[s] = None)
       /\ \A i \in Conns : ~Gone(i, s) /\ backlog[i] # s
       /\ \A i \in kern[s] \ dead[s] : tcp[i][s] = "est" /\ mail[i][s] = "none"

Shared(i) == \A s \in Sides : i \in kern[s] \ dead[s]

(* Once everything has settled, a connection one kernel uses is used by    *)
(* the other one: neither sends into a connection that nobody reads        *)
(* (a rejected or refused socket is closed by handle_new_connection).      *)
NoOneSided ==
  Settled => \A s \in Sides : \A i \in kern[s] \ dead[s] : Shared(i)

(* Two devices that end up without a common connection can be brought      *)
(* together again: an agent has the node OFFLINE and no socket, which is   *)
(* what the net-up signal looks for.  The exceptions are a worker that     *)
(* gave the node a second socket (try_reconnect_node), a dead socket given *)
(* to a kernel, and a connection that ended before its handshake while the *)
(* kernel's node was OFFLINE: tcp_recv_thread leaves it on the list and    *)
(* tells nobody.                                                           *)
Recoverable ==
  Settled /\ (\A i \in Conns : ~Shared(i)) /\ ~refused =>
    \A s \in Sides : ~raced[s] => \/ fd[s] = None /\ status[s] = "OFFLINE"
                                  \/ dead[s] # {}

(* The agent loses no socket: every one it has open is the node's or in    *)
(* the hands of a thread, unless a worker came back to a node to which     *)
(* another thread had given a socket meanwhile (try_reconnect_node).       *)
NoSocketLost ==
  \A s \in Sides : ~raced[s] => open[s] \subseteq {fd[s], held[s], whand[s]}

(* hmdfs_agent.c, handle_new_connection: when both sides lost the          *)
(* connection, accepting in place of a stale socket makes them converge at *)
(* once.  So when nothing fails any more everything settles.               *)
Converges == <>[]Settled
=============================================================================
