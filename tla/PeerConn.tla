------------------------------ MODULE PeerConn ------------------------------
(***************************************************************************)
(* The connections of one device to one peer: the list of connections, the *)
(* receive thread of each, the handshake that makes a connection usable    *)
(* and the peer online, and the three ways a connection is taken down      *)
(* (hmdfs/comm/connection.c, hmdfs/comm/transport.c,                       *)
(* hmdfs/comm/socket_adapter.c, hmdfs/comm/device_node.c).                 *)
(*                                                                         *)
(*   - the command thread runs the agent's commands, one at a time         *)
(*     (cmd_handler_mutex): update_socket adds a connection, off_line      *)
(*     disconnects the peer;                                               *)
(*   - a receive thread per connection reads messages under close_mutex,   *)
(*     runs the handshake handler, and ends when the socket is down or it  *)
(*     is stopped;                                                         *)
(*   - a sender runs hmdfs_sendmessage; when the socket is down it queues   *)
(*     reget_work, which runs on the unbound workqueue reget_conn_wq.      *)
(*                                                                         *)
(* The far end answers the handshake, its data perhaps not acceptable, and *)
(* may vanish; the agent hands over each socket once, so that the branches *)
(* of hmdfs_get_conn_tcp for a known socket are never taken.  The order of *)
(* the list is left out: a sender takes any working connection.  The queue *)
(* behind hmdfs_queue_raw_node_evt is the subject of NodeEvents, requests  *)
(* (msg_idr_process) that of MsgIdr; here only the last event counts.      *)
(***************************************************************************)
EXTENDS Integers, FiniteSets

CONSTANTS
  Conns,        \* sockets the agent can hand over, each used once
  Accepted, Opened, \* those the device may have accepted, have opened itself
  None,         \* no connection
  MaxOff,       \* off_line commands the agent gives of its own accord
  MaxBreak,     \* sockets that break
  Disagree,     \* connections whose far end may send data not acceptable
  MayTimeout    \* whether the wait for conn_deleting_list may time out

ASSUME NoneAssumption ==
  /\ None \notin Conns /\ None # "cmd"
  /\ Conns \cap {"cmd", "free", "recv"} = {}
ASSUME BoundsAssumption ==
  /\ MaxOff \in Nat /\ MaxBreak \in Nat
  /\ Disagree \subseteq Conns /\ Accepted \subseteq Conns /\ Opened \subseteq Conns
  /\ MayTimeout \in BOOLEAN

VARIABLES
  st,      \* conn->status
  where,   \* the list conn->list is on
  ref,     \* conn->ref_cnt
  rtask,   \* tcp->recv_task # NULL
  stop,    \* kthread_stop has been called on the receive thread
  mtx,     \* holder of tcp->close_mutex
  tpc,     \* where the receive thread is
  tmsg,    \* the message it handles
  sock,    \* whether the socket is up
  inb,     \* the message in the socket
  far,     \* what the far end does next
  nstat,   \* node->status
  evt,     \* the last event given to hmdfs_queue_raw_node_evt
  asked,   \* a NOTIFY_GET_SESSION the agent has not answered
  dropped, \* history: a NOTIFY_GET_SESSION found the fifo of notices full
  kpc,     \* where the command thread ("cmd") and the reget works are
  kc,      \* the connection the command thread is at
  cop,     \* the command it runs
  late,    \* whether the last disconnect ran into its timeout
  wq,      \* whether reget_work is queued
  spc,     \* where the sender is
  sc,      \* the connection it holds
  offs, breaks, \* bounded counters
  stale    \* history: a handshake message set the node's status during a
           \* disconnect or on a connection already off the list

conn == <<st, where, ref>>
thread == <<rtask, stop, mtx, tpc, tmsg>>
wire == <<sock, inb, far>>
node == <<nstat, evt, asked, dropped, stale>>
closers == <<kpc, kc, cop, late, wq>>
sender == <<spc, sc>>
bounds == <<offs, breaks>>
vars == <<conn, thread, wire, node, closers, sender, bounds>>

Closers == {"cmd"} \cup Conns

\* The connection a closer is at: a reget work belongs to its connection.
At(k) == IF k = "cmd" THEN kc ELSE k

Init ==
  /\ st = [c \in Conns |-> "STOP"]
  /\ where = [c \in Conns |-> "new"]
  /\ ref = [c \in Conns |-> 0]
  /\ rtask = [c \in Conns |-> FALSE]
  /\ stop = [c \in Conns |-> FALSE]
  /\ mtx = [c \in Conns |-> "free"]
  /\ tpc = [c \in Conns |-> "none"]
  /\ tmsg = [c \in Conns |-> "none"]
  /\ sock = [c \in Conns |-> TRUE]
  /\ inb = [c \in Conns |-> "none"]
  /\ far = [c \in Conns |-> "none"]
  /\ nstat = "SHAKING" /\ evt = "none" /\ asked = FALSE /\ dropped = FALSE /\ stale = FALSE
  /\ kpc = [k \in Closers |-> "idle"] /\ kc = None /\ cop = "none"
  /\ late = FALSE /\ wq = [c \in Conns |-> FALSE]
  /\ spc = "idle" /\ sc = None
  /\ offs = 0 /\ breaks = 0

-----------------------------------------------------------------------------
(* connection_put, given where the connections are: the last reference     *)
(* frees the connection and takes it off the deleting list.                *)
connection_put(c, w) ==
  /\ ref' = [ref EXCEPT ![c] = @ - 1]
  /\ where' = [w EXCEPT ![c] = IF ref[c] = 1 THEN "freed" ELSE @]

(* hmdfs_reget_connection up to the unlock: only whoever finds the         *)
(* connection on conn_impl_list takes it down and drops the list's         *)
(* reference.                                                              *)
OnList(c) == where[c] = "impl"
ToDeleting(c) == where' = [where EXCEPT ![c] = "deleting"]

(* tcp_send_message of a handshake message.                                *)
CanSend(c) == sock[c] /\ st[c] # "STOP"

(* kernel_sock_shutdown                                                    *)
Shutdown(c) == /\ sock' = [sock EXCEPT ![c] = FALSE]
               /\ inb' = [inb EXCEPT ![c] = "none"]

(* peer_online: the exchange of the node's status.                         *)
Online == nstat' = "ONLINE"

(* The agent is asked for a session, and not told when the fifo of notices *)
(* is full: notify() drops what does not fit.                              *)
connection_notify_to_close ==
  \/ asked' = TRUE /\ UNCHANGED dropped
  \/ dropped' = TRUE /\ UNCHANGED asked

Disconnecting == cop = "off"

-----------------------------------------------------------------------------
(* The command thread.                                                     *)

(* ctrl_cmd_update_socket_handler, hmdfs_get_conn_tcp: allocate, put on    *)
(* the list, wake the receive thread.  References: the command's, the      *)
(* thread's, the list's.  A socket that is not established, or for which   *)
(* memory is short, is refused, which changes nothing.                     *)
update_socket(c) ==
  /\ kpc["cmd"] = "idle"
  /\ where[c] = "new" /\ sock[c]
  /\ \E role \in {"WAIT_REQUEST", "WAIT_RESPONSE"} :
       /\ c \in IF role = "WAIT_REQUEST" THEN Accepted ELSE Opened
       /\ st' = [st EXCEPT ![c] = role]
       /\ far' = [far EXCEPT ![c] = IF role = "WAIT_REQUEST" THEN "request" ELSE "idle"]
       /\ kpc' = [kpc EXCEPT !["cmd"] = IF role = "WAIT_RESPONSE" THEN "hello" ELSE "drop"]
  /\ where' = [where EXCEPT ![c] = "impl"]
  /\ ref' = [ref EXCEPT ![c] = 3]
  /\ rtask' = [rtask EXCEPT ![c] = TRUE]
  /\ tpc' = [tpc EXCEPT ![c] = "loop"]
  /\ kc' = c /\ cop' = "add"
  /\ asked' = FALSE
  /\ UNCHANGED <<stop, mtx, tmsg, sock, inb, nstat, evt, dropped, stale, late, wq, sender, bounds>>

(* connection_send_handshake of the request; if it cannot be sent, the     *)
(* command thread takes the connection down.                               *)
SendRequest ==
  /\ kpc["cmd"] = "hello"
  /\ IF CanSend(kc)
       THEN /\ far' = [far EXCEPT ![kc] = "response"]
            /\ kpc' = [kpc EXCEPT !["cmd"] = "drop"]
       ELSE /\ kpc' = [kpc EXCEPT !["cmd"] = "take"]
            /\ UNCHANGED far
  /\ UNCHANGED <<conn, thread, sock, inb, node, kc, cop, late, wq, sender, bounds>>

(* The command drops its reference.                                        *)
PutCmd ==
  /\ kpc["cmd"] = "drop"
  /\ connection_put(kc, where)
  /\ kpc' = [kpc EXCEPT !["cmd"] = "idle"]
  /\ kc' = None /\ cop' = "none"
  /\ UNCHANGED <<st, thread, wire, node, late, wq, sender, bounds>>

(* hmdfs_disconnect_node: the status first, then, under the list's lock,   *)
(* all connections at once.  NOTIFY_OFFLINE does not make the agent give   *)
(* the command: it may come at any time.                                   *)
off_line ==
  /\ kpc["cmd"] = "idle"
  /\ offs < MaxOff /\ offs' = offs + 1
  /\ nstat' = "OFFLINE"
  /\ cop' = "off"
  /\ kpc' = [kpc EXCEPT !["cmd"] = "grab"]
  /\ UNCHANGED <<conn, thread, wire, evt, asked, dropped, stale, kc, late, wq, sender, breaks>>

GrabList ==
  /\ kpc["cmd"] = "grab"
  /\ where' = [c \in Conns |-> IF OnList(c) THEN "local" ELSE where[c]]
  /\ kpc' = [kpc EXCEPT !["cmd"] = "next"]
  /\ UNCHANGED <<st, ref, thread, wire, node, kc, cop, late, wq, sender, bounds>>

NextLocal ==
  /\ kpc["cmd"] = "next"
  /\ \/ \E c \in Conns : /\ where[c] = "local"
                         /\ kc' = c
                         /\ kpc' = [kpc EXCEPT !["cmd"] = "shut"]
     \/ /\ \A c \in Conns : where[c] # "local"
        /\ kc' = None
        /\ kpc' = [kpc EXCEPT !["cmd"] = "wait"]
  /\ UNCHANGED <<conn, thread, wire, node, cop, late, wq, sender, bounds>>

(* wait_event_interruptible_timeout on an empty conn_deleting_list.        *)
\* mutant: the wait is left out
WaitDeleting_Skipped ==
  /\ kpc["cmd"] = "wait"
  /\ late' = FALSE
  /\ kpc' = [kpc EXCEPT !["cmd"] = "report"]
  /\ UNCHANGED <<conn, thread, wire, node, kc, cop, wq, sender, bounds>>

WaitDeleting ==
  /\ kpc["cmd"] = "wait"
  /\ \/ (\A c \in Conns : where[c] # "deleting") /\ late' = FALSE
     \/ MayTimeout /\ late' = TRUE
  /\ kpc' = [kpc EXCEPT !["cmd"] = "report"]
  /\ UNCHANGED <<conn, thread, wire, node, kc, cop, wq, sender, bounds>>

ReportOff ==
  /\ kpc["cmd"] = "report"
  /\ evt' = "OFF"
  /\ kpc' = [kpc EXCEPT !["cmd"] = "idle"]
  /\ cop' = "none" /\ late' = FALSE
  /\ UNCHANGED <<conn, thread, wire, nstat, asked, dropped, stale, kc, wq, sender, bounds>>

-----------------------------------------------------------------------------
(* Taking a connection down: hmdfs_reget_connection by the command thread  *)
(* or a reget work, and the loop body of hmdfs_disconnect_node.            *)

Take(k) ==
  /\ kpc[k] = "take"
  /\ IF OnList(At(k))
       THEN ToDeleting(At(k)) /\ kpc' = [kpc EXCEPT ![k] = "shut"]
       ELSE kpc' = [kpc EXCEPT ![k] = IF k = "cmd" THEN "drop" ELSE "put"] /\ UNCHANGED where
  /\ UNCHANGED <<st, ref, thread, wire, node, kc, cop, late, wq, sender, bounds>>

CloserShutdown(k) ==
  /\ kpc[k] = "shut"
  /\ Shutdown(At(k))
  /\ kpc' = [kpc EXCEPT ![k] = "lock"]
  /\ UNCHANGED <<conn, thread, far, node, kc, cop, late, wq, sender, bounds>>

(* tcp_close_socket: kthread_stop is called with close_mutex held, and     *)
(* returns when the thread has ended.                                      *)
tcp_close_socket(k) ==
  /\ kpc[k] = "lock"
  /\ mtx[At(k)] = "free"
  /\ IF rtask[At(k)]
       THEN /\ mtx' = [mtx EXCEPT ![At(k)] = k]
            /\ stop' = [stop EXCEPT ![At(k)] = TRUE]
            /\ kpc' = [kpc EXCEPT ![k] = "join"]
       ELSE kpc' = [kpc EXCEPT ![k] = "close"] /\ UNCHANGED <<mtx, stop>>
  /\ UNCHANGED <<conn, rtask, tpc, tmsg, wire, node, kc, cop, late, wq, sender, bounds>>

kthread_stop(k) ==
  /\ kpc[k] = "join"
  /\ tpc[At(k)] = "gone"
  /\ rtask' = [rtask EXCEPT ![At(k)] = FALSE]
  /\ mtx' = [mtx EXCEPT ![At(k)] = "free"]
  /\ kpc' = [kpc EXCEPT ![k] = "close"]
  /\ UNCHANGED <<conn, stop, tpc, tmsg, wire, node, kc, cop, late, wq, sender, bounds>>

(* The list's reference goes.  A disconnect takes the connection off its   *)
(* own list; a reget leaves it on the deleting list and asks the agent for *)
(* a new session.                                                          *)
DropList(k) ==
  /\ kpc[k] = "close"
  /\ IF k = "cmd" /\ Disconnecting
       THEN /\ connection_put(kc, [where EXCEPT ![kc] = "off"])
            /\ kpc' = [kpc EXCEPT !["cmd"] = "next"]
            /\ UNCHANGED <<asked, dropped>>
       ELSE /\ connection_put(At(k), where)
            /\ kpc' = [kpc EXCEPT ![k] = IF k = "cmd" THEN "drop" ELSE "put"]
            /\ connection_notify_to_close
  /\ UNCHANGED <<st, thread, wire, nstat, evt, stale, kc, cop, late, wq, sender, bounds>>

(* hmdfs_reget_connection_work_fn: start, and the put at the end.          *)
RegetWork(c) ==
  /\ wq[c] /\ kpc[c] = "idle"
  /\ wq' = [wq EXCEPT ![c] = FALSE]
  /\ kpc' = [kpc EXCEPT ![c] = "take"]
  /\ UNCHANGED <<conn, thread, wire, node, kc, cop, late, sender, bounds>>

RegetWorkEnd(c) ==
  /\ kpc[c] = "put"
  /\ connection_put(c, where)
  /\ kpc' = [kpc EXCEPT ![c] = "idle"]
  /\ UNCHANGED <<st, thread, wire, node, kc, cop, late, wq, sender, bounds>>

-----------------------------------------------------------------------------
(* The receive thread of connection c: tcp_recv_thread.                    *)

(* kthread_should_stop                                                     *)
RecvStop(c) ==
  /\ tpc[c] = "loop" /\ stop[c]
  /\ tpc' = [tpc EXCEPT ![c] = "exit"]
  /\ UNCHANGED <<conn, rtask, stop, mtx, tmsg, wire, node, closers, sender, bounds>>

(* tcp_receive_from_sock, up to the handler: close_mutex stays held while  *)
(* the message is handled.                                                 *)
tcp_receive_from_sock(c) ==
  /\ tpc[c] = "loop" /\ ~stop[c] /\ mtx[c] = "free"
  /\ sock[c] /\ inb[c] # "none"
  /\ mtx' = [mtx EXCEPT ![c] = "recv"]
  /\ tmsg' = [tmsg EXCEPT ![c] = inb[c]]
  /\ inb' = [inb EXCEPT ![c] = "none"]
  /\ tpc' = [tpc EXCEPT ![c] = IF inb[c] = "BAD" THEN "nego"
                               ELSE IF inb[c] = "ACK" THEN "status" ELSE "reply"]
  /\ UNCHANGED <<conn, rtask, stop, sock, far, node, closers, sender, bounds>>

(* The socket is down: recv_task is cleared under close_mutex, so that     *)
(* nobody stops a thread that ends by itself.                              *)
\* mutant: recv_task is left as it is
RecvDown_KeepsTask(c) ==
  /\ tpc[c] = "loop" /\ ~stop[c] /\ mtx[c] = "free"
  /\ ~sock[c]
  /\ tpc' = [tpc EXCEPT ![c] = "tail"]
  /\ UNCHANGED <<conn, rtask, stop, mtx, tmsg, wire, node, closers, sender, bounds>>

RecvDown(c) ==
  /\ tpc[c] = "loop" /\ ~stop[c] /\ mtx[c] = "free"
  /\ ~sock[c]
  /\ rtask' = [rtask EXCEPT ![c] = FALSE]
  /\ tpc' = [tpc EXCEPT ![c] = "tail"]
  /\ UNCHANGED <<conn, stop, mtx, tmsg, wire, node, closers, sender, bounds>>

(* What the thread does about a socket that is down: unless the peer is    *)
(* offline already, take the connection down.                              *)
RecvTail(c) ==
  /\ tpc[c] = "tail"
  /\ st' = [st EXCEPT ![c] = "STOP"]
  /\ tpc' = [tpc EXCEPT ![c] = IF nstat # "OFFLINE" THEN "take" ELSE "exit"]
  /\ UNCHANGED <<where, ref, rtask, stop, mtx, tmsg, wire, node, closers, sender, bounds>>

(* hmdfs_reget_connection called by the receive thread itself, at its end  *)
(* or from the handler ("htake"): it does not stop itself.                 *)
\* mutant: the reference is dropped by whoever comes, on the list or not
RecvTake_Always(c) ==
  /\ tpc[c] \in {"take", "htake"}
  /\ where' = [where EXCEPT ![c] = IF OnList(c) THEN "deleting" ELSE @]
  /\ tpc' = [tpc EXCEPT ![c] = IF @ = "take" THEN "fin" ELSE "hfin"]
  /\ UNCHANGED <<st, ref, rtask, stop, mtx, tmsg, wire, node, closers, sender, bounds>>

\* mutant: the handler stops its own thread, whose mutex it holds
RecvTake_StopsItself(c) ==
  /\ tpc[c] \in {"take", "htake"}
  /\ IF OnList(c)
       THEN /\ ToDeleting(c)
            /\ tpc' = [tpc EXCEPT ![c] = IF @ = "take" THEN "fin" ELSE "stuck"]
       ELSE /\ tpc' = [tpc EXCEPT ![c] = IF @ = "take" THEN "exit" ELSE "status"]
            /\ UNCHANGED where
  /\ UNCHANGED <<st, ref, rtask, stop, mtx, tmsg, wire, node, closers, sender, bounds>>

RecvTake(c) ==
  /\ tpc[c] \in {"take", "htake"}
  /\ IF OnList(c)
       THEN /\ ToDeleting(c)
            /\ tpc' = [tpc EXCEPT ![c] = IF @ = "take" THEN "fin" ELSE "hfin"]
       ELSE /\ tpc' = [tpc EXCEPT ![c] = IF @ = "take" THEN "exit" ELSE "status"]
            /\ UNCHANGED where
  /\ UNCHANGED <<st, ref, rtask, stop, mtx, tmsg, wire, node, closers, sender, bounds>>

\* mutant: the agent is not notified
RecvFin_Silent(c) ==
  /\ tpc[c] \in {"fin", "hfin"}
  /\ Shutdown(c)
  /\ connection_put(c, where)
  /\ tpc' = [tpc EXCEPT ![c] = IF @ = "fin" THEN "exit" ELSE "status"]
  /\ UNCHANGED <<st, rtask, stop, mtx, tmsg, far, node, closers, sender, bounds>>

RecvFin(c) ==
  /\ tpc[c] \in {"fin", "hfin"}
  /\ Shutdown(c)
  /\ connection_notify_to_close
  /\ connection_put(c, where)
  /\ tpc' = [tpc EXCEPT ![c] = IF @ = "fin" THEN "exit" ELSE "status"]
  /\ UNCHANGED <<st, rtask, stop, mtx, tmsg, far, nstat, evt, stale, closers, sender, bounds>>

RecvExit(c) ==
  /\ tpc[c] = "exit"
  /\ connection_put(c, where)
  /\ tpc' = [tpc EXCEPT ![c] = "gone"]
  /\ UNCHANGED <<st, rtask, stop, mtx, tmsg, wire, node, closers, sender, bounds>>

-----------------------------------------------------------------------------
(* connection_handshake_recv_handler, step by step.                        *)

(* The handler returns, close_mutex is released.                           *)
HandlerEnds(c) ==
  /\ tpc' = [tpc EXCEPT ![c] = "loop"]
  /\ tmsg' = [tmsg EXCEPT ![c] = "none"]
  /\ mtx' = [mtx EXCEPT ![c] = "free"]

(* A request is answered, a response acknowledged; what cannot be sent     *)
(* takes the connection down, and the handler goes on.                     *)
HandlerReply(c) ==
  /\ tpc[c] = "reply"
  /\ IF CanSend(c)
       THEN /\ far' = [far EXCEPT ![c] = IF tmsg[c] = "REQUEST" THEN "ack" ELSE "idle"]
            /\ tpc' = [tpc EXCEPT ![c] = "status"]
       ELSE /\ tpc' = [tpc EXCEPT ![c] = "htake"]
            /\ UNCHANGED far
  /\ UNCHANGED <<conn, rtask, stop, mtx, tmsg, sock, inb, node, closers, sender, bounds>>

(* The connection's status.  Setting up TLS may fail, on a socket that is  *)
(* up as well, which ends the handler.                                     *)
HandlerStatus(c) ==
  /\ tpc[c] = "status"
  /\ \/ /\ st' = [st EXCEPT ![c] = IF tmsg[c] = "REQUEST" THEN "WAIT_ACK" ELSE "WORKING"]
        /\ tpc' = [tpc EXCEPT ![c] = "node"]
        /\ UNCHANGED <<mtx, tmsg>>
     \/ /\ tmsg[c] # "REQUEST"
        /\ HandlerEnds(c)
        /\ UNCHANGED st
  /\ UNCHANGED <<where, ref, rtask, stop, wire, node, closers, sender, bounds>>

(* The node's status: a request makes it SHAKING, the end of a handshake   *)
(* ONLINE; only whoever changes it to ONLINE reports the event.            *)
\* mutant: an event only if the node was SHAKING
HandlerNode_FromShaking(c) ==
  /\ tpc[c] = "node"
  /\ nstat' = IF tmsg[c] = "REQUEST" THEN "SHAKING" ELSE "ONLINE"
  /\ IF tmsg[c] = "REQUEST" \/ nstat # "SHAKING"
       THEN HandlerEnds(c)
       ELSE tpc' = [tpc EXCEPT ![c] = "event"] /\ UNCHANGED <<mtx, tmsg>>
  /\ stale' = (stale \/ Disconnecting \/ ~OnList(c))
  /\ UNCHANGED <<conn, rtask, stop, wire, evt, asked, dropped, closers, sender, bounds>>

HandlerNode(c) ==
  /\ tpc[c] = "node"
  /\ nstat' = IF tmsg[c] = "REQUEST" THEN "SHAKING" ELSE "ONLINE"
  /\ IF tmsg[c] = "REQUEST" \/ nstat = "ONLINE"
       THEN HandlerEnds(c)
       ELSE tpc' = [tpc EXCEPT ![c] = "event"] /\ UNCHANGED <<mtx, tmsg>>
  /\ stale' = (stale \/ Disconnecting \/ ~OnList(c))
  /\ UNCHANGED <<conn, rtask, stop, wire, evt, asked, dropped, closers, sender, bounds>>

HandlerEvent(c) ==
  /\ tpc[c] = "event"
  /\ evt' = "ON"
  /\ HandlerEnds(c)
  /\ UNCHANGED <<conn, rtask, stop, wire, nstat, asked, dropped, stale, closers, sender, bounds>>

(* The far end's data is not acceptable.                                   *)
HandlerNego(c) ==
  /\ tpc[c] = "nego"
  /\ st' = [st EXCEPT ![c] = "NEGO_FAIL"]
  /\ HandlerEnds(c)
  /\ UNCHANGED <<where, ref, rtask, stop, wire, node, closers, sender, bounds>>

-----------------------------------------------------------------------------
(* The sender: hmdfs_sendmessage.                                          *)
SendStart ==
  /\ spc = "idle" /\ nstat = "ONLINE"
  /\ spc' = "get"
  /\ UNCHANGED <<conn, thread, wire, node, closers, sc, bounds>>

Usable(c) == where[c] = "impl" /\ st[c] = "WORKING"

get_conn_impl ==
  /\ spc = "get"
  /\ \/ \E c \in Conns : /\ Usable(c)
                         /\ ref' = [ref EXCEPT ![c] = @ + 1]
                         /\ sc' = c /\ spc' = "send"
     \/ /\ \A c \in Conns : ~Usable(c)
        /\ spc' = "idle"
        /\ UNCHANGED <<ref, sc>>
  /\ UNCHANGED <<st, where, thread, wire, node, closers, bounds>>

(* send_message: a stopped connection and a success end the call; on a     *)
(* socket that is down the connection is stopped.                          *)
send_message ==
  /\ spc = "send"
  /\ IF st[sc] # "STOP" /\ ~sock[sc]
       THEN /\ st' = [st EXCEPT ![sc] = "STOP"]
            /\ spc' = "queue"
            /\ UNCHANGED <<where, ref, sc>>
       ELSE /\ connection_put(sc, where)
            /\ spc' = "idle" /\ sc' = None
            /\ UNCHANGED st
  /\ UNCHANGED <<thread, wire, node, closers, bounds>>

(* Queue reget_work with a reference of its own, given back if the work is *)
(* queued already; drop the sender's reference and try again.              *)
queue_reget ==
  /\ spc = "queue"
  /\ IF nstat # "OFFLINE" /\ ~wq[sc]
       THEN wq' = [wq EXCEPT ![sc] = TRUE] /\ UNCHANGED <<ref, where>>
       ELSE connection_put(sc, where) /\ UNCHANGED wq
  /\ sc' = None
  /\ spc' = IF nstat # "OFFLINE" THEN "get" ELSE "idle"
  /\ UNCHANGED <<st, thread, wire, node, kpc, kc, cop, late, bounds>>

-----------------------------------------------------------------------------
(* External: the far end sends its part of the handshake, and sockets      *)
(* break.                                                                  *)
FarSend(c) ==
  /\ sock[c] /\ inb[c] = "none"
  /\ far[c] \in {"request", "response", "ack"}
  /\ inb' = [inb EXCEPT ![c] = CASE far[c] = "request" -> "REQUEST"
                                 [] far[c] = "response" -> "RESPONSE"
                                 [] far[c] = "ack" -> "ACK"]
  /\ far' = [far EXCEPT ![c] = "idle"]
  /\ UNCHANGED <<conn, thread, sock, node, closers, sender, bounds>>

FarRefuses(c) ==
  /\ c \in Disagree
  /\ sock[c] /\ inb[c] = "none"
  /\ far[c] \in {"response", "ack"}
  /\ inb' = [inb EXCEPT ![c] = "BAD"]
  /\ far' = [far EXCEPT ![c] = "idle"]
  /\ UNCHANGED <<conn, thread, sock, node, closers, sender, bounds>>

SocketBreaks(c) ==
  /\ sock[c] /\ breaks < MaxBreak /\ where[c] # "new"
  /\ Shutdown(c)
  /\ breaks' = breaks + 1
  /\ UNCHANGED <<conn, thread, far, node, closers, sender, offs>>

Thread(c) ==
  \/ RecvStop(c) \/ tcp_receive_from_sock(c) \/ RecvDown(c) \/ RecvTail(c)
  \/ RecvTake(c) \/ RecvFin(c) \/ RecvExit(c)
  \/ HandlerReply(c) \/ HandlerStatus(c) \/ HandlerNode(c) \/ HandlerEvent(c)
  \/ HandlerNego(c)

Closer(k) == Take(k) \/ CloserShutdown(k) \/ tcp_close_socket(k) \/ kthread_stop(k) \/ DropList(k)

Command == SendRequest \/ PutCmd \/ GrabList \/ NextLocal \/ WaitDeleting \/ ReportOff

Next ==
  \/ \E c \in Conns : update_socket(c)
  \/ off_line
  \/ Command
  \/ \E k \in Closers : Closer(k)
  \/ \E c \in Conns : Thread(c) \/ RegetWork(c) \/ RegetWorkEnd(c)
  \/ SendStart \/ get_conn_impl \/ send_message \/ queue_reget
  \/ \E c \in Conns : FarSend(c) \/ FarRefuses(c) \/ SocketBreaks(c)

Spec == Init /\ [][Next]_vars

\* Kernel threads, works and system calls that can run do run.
FairSpec ==
  /\ Spec
  /\ WF_vars(Command)
  /\ \A k \in Closers : WF_vars(Closer(k))
  /\ \A c \in Conns : WF_vars(Thread(c)) /\ WF_vars(RegetWork(c) \/ RegetWorkEnd(c))
  /\ WF_vars(get_conn_impl \/ send_message \/ queue_reget)

-----------------------------------------------------------------------------
(* The variables keep their types.                                         *)
TypeOK ==
  /\ st \in [Conns -> {"WAIT_REQUEST", "WAIT_RESPONSE", "WAIT_ACK", "WORKING", "STOP", "NEGO_FAIL"}]
  /\ where \in [Conns -> {"new", "impl", "deleting", "local", "off", "freed"}]
  /\ ref \in [Conns -> Nat]
  /\ rtask \in [Conns -> BOOLEAN] /\ stop \in [Conns -> BOOLEAN]
  /\ mtx \in [Conns -> {"free", "recv"} \cup Closers]
  /\ tpc \in [Conns -> {"none", "loop", "reply", "htake", "hfin", "status", "node", "event",
                        "nego", "tail", "take", "fin", "exit", "gone"}]
  /\ tmsg \in [Conns -> {"none", "REQUEST", "RESPONSE", "ACK", "BAD"}]
  /\ sock \in [Conns -> BOOLEAN]
  /\ inb \in [Conns -> {"none", "REQUEST", "RESPONSE", "ACK", "BAD"}]
  /\ far \in [Conns -> {"none", "idle", "request", "response", "ack"}]
  /\ nstat \in {"SHAKING", "ONLINE", "OFFLINE"}
  /\ evt \in {"none", "ON", "OFF"}
  /\ asked \in BOOLEAN /\ dropped \in BOOLEAN
  /\ kpc \in [Closers -> {"idle", "hello", "drop", "grab", "next", "wait", "report", "take",
                          "shut", "lock", "join", "close", "put"}]
  /\ kc \in Conns \cup {None}
  /\ cop \in {"none", "add", "off"}
  /\ late \in BOOLEAN /\ stale \in BOOLEAN
  /\ wq \in [Conns -> BOOLEAN]
  /\ spc \in {"idle", "get", "send", "queue"}
  /\ sc \in Conns \cup {None}
  /\ offs \in Nat /\ breaks \in Nat

\* A closer that has taken c off conn_impl_list holds the list's reference.
TakerOf(k, c) == /\ kpc[k] \in {"shut", "lock", "join", "close"}
                 /\ At(k) = c /\ ~(k = "cmd" /\ Disconnecting)

Uses == {"list", "thread", "thread closes", "command", "command closes",
         "work queued", "work", "work closes", "sender"}

\* Those who use connection c.
Users(c) ==
  {u \in Uses :
     \/ u = "list" /\ where[c] \in {"impl", "local"}
     \/ u = "thread" /\ tpc[c] \notin {"none", "gone"}
     \/ u = "thread closes" /\ tpc[c] \in {"fin", "hfin"}
     \/ u = "command" /\ kc = c /\ cop = "add"
     \/ u = "command closes" /\ TakerOf("cmd", c)
     \/ u = "work queued" /\ wq[c]
     \/ u = "work" /\ kpc[c] # "idle"
     \/ u = "work closes" /\ TakerOf(c, c)
     \/ u = "sender" /\ sc = c}

(* The reference count of a connection is the number of those who use it:  *)
(* the list or whoever took it off the list, the receive thread, the       *)
(* command, the queued and the running reget work, the sender.  So nobody  *)
(* uses a freed connection and none is kept for ever (connection_get and   *)
(* connection_put across transport.c, connection.c, socket_adapter.c).     *)
RefExact ==
  \A c \in Conns :
    /\ ref[c] = Cardinality(Users(c))
    /\ where[c] = "freed" <=> ref[c] = 0 /\ where[c] # "new"

(* kthread_stop is only called on a thread that has not ended by itself:   *)
(* recv_task is set only while the thread runs or obeys the stop           *)
(* (tcp_recv_thread clears it under close_mutex before it leaves).         *)
RecvTaskLive ==
  \A c \in Conns :
    /\ rtask[c] => tpc[c] # "none" /\ (tpc[c] \in {"tail", "take", "fin", "exit", "gone"} => stop[c])
    /\ stop[c] => \E k \in Closers : (kpc[k] = "join" /\ At(k) = c) \/ tpc[c] = "gone"

(* When hmdfs_disconnect_node reports the peer offline, and its wait has   *)
(* not timed out, no receive thread handles a message and none will: the   *)
(* offline callbacks do not race with the receive threads.  Requests that  *)
(* were queued for the server before may still run.                        *)
QuietAfterOff ==
  kpc["cmd"] = "report" /\ ~late =>
    \A c \in Conns : tpc[c] \in {"none", "tail", "take", "exit", "gone"}

\* No command and no handler is at work.
Settled == kpc["cmd"] = "idle" /\ \A c \in Conns : mtx[c] = "free"

(* The node's status over a working connection tells the truth, unless a   *)
(* handshake ended on a connection that was down already (peer_online      *)
(* against hmdfs_disconnect_node).  A peer that is ONLINE was reported     *)
(* online last.  SHAKING, which a second connection's request sets though  *)
(* the first one works, lasts only while some connection has not finished  *)
(* its handshake or is being taken down, or the agent was asked to act, or *)
(* could not be asked because the fifo of notices was full.                *)
StatusTrue ==
  (\E c \in Conns : Usable(c)) /\ ~stale =>
    /\ Settled /\ nstat = "ONLINE" => evt = "ON"
    /\ nstat = "SHAKING" =>
         \/ asked \/ dropped
         \/ \E c \in Conns : /\ where[c] \in {"impl", "deleting"}
                             /\ st[c] # "WORKING" \/ tpc[c] \in {"node", "event"}

(* No connection is lost in silence: a peer that is online and has no      *)
(* connection left has asked the agent for a new session, whoever took     *)
(* the last one down (connection_notify_to_close), unless a handshake      *)
(* ended during a disconnect or a notice found the fifo full.              *)
LossNotified ==
  nstat = "ONLINE" /\ ~stale /\ (\A c \in Conns : where[c] \in {"new", "off", "freed"}) => asked \/ dropped

(* Taking down ends: a disconnect returns, and every connection off the    *)
(* list is freed.  Nobody who waits, for close_mutex, for a thread to stop *)
(* or for the deleting list, waits for himself.                            *)
TeardownEnds ==
  (cop = "off" \/ \E c \in Conns : where[c] \in {"deleting", "local", "off"})
    ~> (cop # "off" /\ \A c \in Conns : where[c] \notin {"deleting", "local", "off"})
=============================================================================
