--------------------------- MODULE PeerConn_proofs ---------------------------
(***************************************************************************)
(* The references of connections are counted exactly, only living receive  *)
(* threads are stopped, a disconnect leaves no message being handled, the  *)
(* node's status is true and the loss of the last connection is notified,  *)
(* for any set of connections and any number of losses and commands.       *)
(***************************************************************************)
EXTENDS PeerConn, FiniteSetTheorems, TLAPS

\* Where a receive thread is while it handles a message, and at its end.
Handling == {"reply", "htake", "hfin", "status", "node", "event", "nego"}
Ending == {"tail", "take", "fin", "exit", "gone"}
Closing == {"shut", "lock", "join", "close"}

Types ==
  /\ where \in [Conns -> {"new", "impl", "deleting", "local", "off", "freed"}]
  /\ ref \in [Conns -> Int]
  /\ rtask \in [Conns -> BOOLEAN] /\ stop \in [Conns -> BOOLEAN]
  /\ mtx \in [Conns -> {"free", "recv"} \cup Closers]
  /\ tpc \in [Conns -> {"none", "loop"} \cup Handling \cup Ending]
  /\ wq \in [Conns -> BOOLEAN]
  /\ kpc \in [Closers -> {"idle", "hello", "drop", "grab", "next", "wait", "report", "take",
                          "shut", "lock", "join", "close", "put"}]

\* The command thread: its command, the connection it is at.
Cmd ==
  /\ kpc["cmd"] = "idle" => kc = None /\ cop = "none"
  /\ kpc["cmd"] \in {"hello", "drop", "take"} => kc \in Conns /\ cop = "add"
  /\ kpc["cmd"] \in {"grab", "next", "wait", "report"} => cop = "off"
  /\ kpc["cmd"] \in {"grab", "wait", "report"} => kc = None
  /\ kpc["cmd"] \in Closing => kc \in Conns /\ cop \in {"add", "off"}
  /\ kpc["cmd"] # "put"

Sender ==
  /\ spc \in {"idle", "get", "send", "queue"}
  /\ spc \in {"idle", "get"} => sc = None
  /\ spc \in {"send", "queue"} => sc \in Conns

\* How far a disconnect has emptied the lists.
Sweep ==
  \A c \in Conns :
    /\ cop = "off" /\ kpc["cmd"] # "grab" => where[c] # "impl"
    /\ kpc["cmd"] \in {"wait", "report"} => where[c] # "local"
    /\ kpc["cmd"] = "report" /\ ~late => where[c] # "deleting"

CmdJoins(c) == kc = c /\ kpc["cmd"] = "join"
CmdCloses(c) == kc = c /\ kpc["cmd"] = "close"
CmdShuts(c) == kc = c /\ cop = "off" /\ kpc["cmd"] \in Closing

Count(c) ==
  /\ ref[c] = Cardinality(Users(c))
  /\ where[c] = "freed" <=> ref[c] = 0 /\ where[c] # "new"
  /\ where[c] = "new" => ref[c] = 0 /\ tpc[c] = "none"

\* The list a connection is on, as whoever closes it knows it.
Listed(c) ==
  /\ tpc[c] \in {"fin", "hfin"} \/ TakerOf("cmd", c) \/ TakerOf(c, c) => where[c] = "deleting"
  /\ CmdShuts(c) => where[c] = "local"
  /\ where[c] = "off" => ~rtask[c]
  /\ kpc[c] = "close" \/ CmdCloses(c) => ~rtask[c] /\ where[c] # "new"

Task(c) ==
  /\ rtask[c] => tpc[c] # "none" /\ (tpc[c] \in Ending => stop[c])
  /\ ~rtask[c] => tpc[c] \in {"none"} \cup Ending
  /\ stop[c] => mtx[c] \in Closers \/ tpc[c] = "gone"
  /\ mtx[c] = "cmd" <=> CmdJoins(c)
  /\ mtx[c] = c <=> kpc[c] = "join"
  /\ mtx[c] \in Conns => mtx[c] = c
  /\ tpc[c] \in Handling => mtx[c] = "recv"

Local(c) == Count(c) /\ Listed(c) /\ Task(c)

PInv == Types /\ Cmd /\ Sender /\ Sweep /\ \A c \in Conns : Local(c)

-----------------------------------------------------------------------------
(* What the proof knows of a connection that a step leaves alone.          *)
Same(q) ==
  /\ ref'[q] = ref[q] /\ where'[q] = where[q] /\ rtask'[q] = rtask[q] /\ stop'[q] = stop[q]
  /\ mtx'[q] = mtx[q] /\ tpc'[q] = tpc[q] /\ wq'[q] = wq[q] /\ kpc'[q] = kpc[q]
  /\ (kc' = q /\ cop' = "add") <=> (kc = q /\ cop = "add")
  /\ TakerOf("cmd", q)' <=> TakerOf("cmd", q)
  /\ CmdJoins(q)' <=> CmdJoins(q)
  /\ CmdCloses(q)' <=> CmdCloses(q)
  /\ CmdShuts(q)' <=> CmdShuts(q)
  /\ sc' = q <=> sc = q

(* A connection that a step leaves alone stays as it should be.            *)
LEMMA SameLocal ==
  ASSUME NEW q \in Conns, Local(q), Same(q)
  PROVE  Local(q)'
  <1>1. q # "cmd"
    BY NoneAssumption, Zenon
  <1>2. TakerOf(q, q)' <=> TakerOf(q, q)
    BY <1>1, Zenon DEF Same, TakerOf, At
  <1>3. Users(q)' = Users(q)
    BY <1>2, ZenonT(30) DEF Same, Users
  <1>4. Count(q)'
    BY <1>3, Zenon DEF Same, Local, Count
  <1>5. Listed(q)'
    BY <1>2, Zenon DEF Same, Local, Listed
  <1>6. Task(q)'
    BY Zenon DEF Same, Local, Task
  <1> QED
    BY <1>4, <1>5, <1>6, Zenon DEF Local

(* The users of a connection are few; one more or one less is one          *)
(* reference more or less.                                                 *)
LEMMA UsersFinite ==
  \A c : IsFiniteSet(Users(c)) /\ Cardinality(Users(c)) \in Nat
  <1>1. IsFiniteSet(Uses)
    <2>1. /\ IsFiniteSet({"list"} \cup {"thread"} \cup {"thread closes"})
          /\ IsFiniteSet({"command"} \cup {"command closes"} \cup {"work queued"})
          /\ IsFiniteSet({"work"} \cup {"work closes"} \cup {"sender"})
      BY FS_Singleton, FS_AddElement
    <2>2. IsFiniteSet(({"list"} \cup {"thread"} \cup {"thread closes"})
                        \cup ({"command"} \cup {"command closes"} \cup {"work queued"}))
      BY <2>1, FS_Union, Zenon
    <2>3. IsFiniteSet((({"list"} \cup {"thread"} \cup {"thread closes"})
                         \cup ({"command"} \cup {"command closes"} \cup {"work queued"}))
                        \cup ({"work"} \cup {"work closes"} \cup {"sender"}))
      BY <2>1, <2>2, FS_Union, Zenon
    <2>4. Uses \subseteq ((({"list"} \cup {"thread"} \cup {"thread closes"})
                         \cup ({"command"} \cup {"command closes"} \cup {"work queued"}))
                        \cup ({"work"} \cup {"work closes"} \cup {"sender"}))
      BY Zenon DEF Uses
    <2> QED
      BY <2>3, <2>4, FS_Subset, Zenon
  <1>2. ASSUME NEW c PROVE IsFiniteSet(Users(c))
    BY <1>1, FS_Subset, Zenon DEF Users
  <1> QED
    BY <1>2, FS_CardinalityType, Zenon

(* The users stay, or one takes the place of another.                      *)
LEMMA CountKeeps ==
  ASSUME NEW c \in Conns, Count(c), ref'[c] = ref[c], tpc'[c] = "none" <=> tpc[c] = "none",
         \/ Users(c)' = Users(c)
         \/ \E u \in Users(c) : \E v \in Uses \ Users(c) : Users(c)' = (Users(c) \ {u}) \cup {v},
         \/ where'[c] = where[c]
         \/ where'[c] \notin {"freed", "new"} /\ where[c] \notin {"freed", "new"}
  PROVE  Count(c)'
  <1>1. ASSUME NEW u \in Users(c), NEW v \in Uses \ Users(c)
        PROVE  Cardinality((Users(c) \ {u}) \cup {v}) = Cardinality(Users(c))
    <2>1. /\ IsFiniteSet(Users(c) \ {u})
          /\ Cardinality(Users(c) \ {u}) = Cardinality(Users(c)) - 1
      BY <1>1, UsersFinite, FS_RemoveElement, Zenon
    <2>2. Cardinality((Users(c) \ {u}) \cup {v}) = Cardinality(Users(c) \ {u}) + 1
      BY <1>1, <2>1, FS_AddElement, Zenon
    <2> QED
      BY <2>1, <2>2, UsersFinite
  <1>2. Cardinality(Users(c)') = Cardinality(Users(c))
    BY <1>1
  <1> QED
    BY <1>2 DEF Count

(* connection_put: one user goes, and the last one frees the connection.   *)
LEMMA CountPuts ==
  ASSUME NEW c \in Conns, Count(c), NEW u \in Users(c), Users(c)' = Users(c) \ {u},
         ref'[c] = ref[c] - 1,
         ref[c] = 1 => where'[c] = "freed",
         ref[c] # 1 => where'[c] \in {where[c], "off"}
  PROVE  Count(c)'
  <1>1. Cardinality(Users(c)') = Cardinality(Users(c)) - 1
    BY UsersFinite, FS_RemoveElement, Zenon
  <1>2. Cardinality(Users(c)) \in Nat /\ Cardinality(Users(c)) # 0
    BY UsersFinite, FS_EmptySet, Zenon
  <1>3. ref'[c] = Cardinality(Users(c)')
    BY <1>1, Zenon DEF Count
  <1>4. ref[c] \in Nat /\ ref[c] > 0 /\ where[c] # "new" /\ where[c] # "freed"
    BY <1>2 DEF Count
  <1>5. where'[c] = "freed" <=> ref'[c] = 0
    BY <1>4
  <1>6. where'[c] # "new"
    BY <1>4, Zenon
  <1> QED
    BY <1>3, <1>5, <1>6, Zenon DEF Count

(* connection_get: one user comes.                                         *)
LEMMA CountGets ==
  ASSUME NEW c \in Conns, Count(c), NEW u \in Uses \ Users(c), Users(c)' = Users(c) \cup {u},
         ref'[c] = ref[c] + 1, tpc'[c] = tpc[c],
         where'[c] = where[c], where[c] \notin {"new", "freed"}
  PROVE  Count(c)'
  <1>1. Cardinality(Users(c)') = Cardinality(Users(c)) + 1
    BY UsersFinite, FS_AddElement, Zenon
  <1>2. Cardinality(Users(c)) \in Nat
    BY UsersFinite, Zenon
  <1> QED
    BY <1>1, <1>2 DEF Count

-----------------------------------------------------------------------------
(* The uses of a connection other than those in R are as they were.       *)
SameUse(c, R) ==
  /\ "list" \notin R => ((where[c] \in {"impl", "local"})' <=> where[c] \in {"impl", "local"})
  /\ "thread" \notin R => ((tpc[c] \notin {"none", "gone"})' <=> tpc[c] \notin {"none", "gone"})
  /\ "thread closes" \notin R => ((tpc[c] \in {"fin", "hfin"})' <=> tpc[c] \in {"fin", "hfin"})
  /\ "command" \notin R => (((kc = c /\ cop = "add"))' <=> (kc = c /\ cop = "add"))
  /\ "command closes" \notin R => ((TakerOf("cmd", c))' <=> TakerOf("cmd", c))
  /\ "work queued" \notin R => ((wq[c])' <=> wq[c])
  /\ "work" \notin R => ((kpc[c] # "idle")' <=> kpc[c] # "idle")
  /\ "work closes" \notin R => ((TakerOf(c, c))' <=> TakerOf(c, c))
  /\ "sender" \notin R => ((sc = c)' <=> sc = c)

LEMMA SameUsers ==
  ASSUME NEW c, NEW R, SameUse(c, R)
  PROVE  Users(c)' \ R = Users(c) \ R
  <1>1. "list" \notin R => ("list" \in Users(c)' <=> "list" \in Users(c))
    BY Zenon DEF SameUse, Users, Uses
  <1>2. "thread" \notin R => ("thread" \in Users(c)' <=> "thread" \in Users(c))
    BY Zenon DEF SameUse, Users, Uses
  <1>3. "thread closes" \notin R => ("thread closes" \in Users(c)' <=> "thread closes" \in Users(c))
    BY Zenon DEF SameUse, Users, Uses
  <1>4. "command" \notin R => ("command" \in Users(c)' <=> "command" \in Users(c))
    BY Zenon DEF SameUse, Users, Uses
  <1>5. "command closes" \notin R => ("command closes" \in Users(c)' <=> "command closes" \in Users(c))
    BY Zenon DEF SameUse, Users, Uses
  <1>6. "work queued" \notin R => ("work queued" \in Users(c)' <=> "work queued" \in Users(c))
    BY Zenon DEF SameUse, Users, Uses
  <1>7. "work" \notin R => ("work" \in Users(c)' <=> "work" \in Users(c))
    BY Zenon DEF SameUse, Users, Uses
  <1>8. "work closes" \notin R => ("work closes" \in Users(c)' <=> "work closes" \in Users(c))
    BY Zenon DEF SameUse, Users, Uses
  <1>9. "sender" \notin R => ("sender" \in Users(c)' <=> "sender" \in Users(c))
    BY Zenon DEF SameUse, Users, Uses
  <1>10. Users(c) \subseteq Uses /\ Users(c)' \subseteq Uses
    BY Zenon DEF Users
  <1>11. ASSUME NEW u \in Uses, u \notin R PROVE u \in Users(c)' <=> u \in Users(c)
    BY <1>1, <1>2, <1>3, <1>4, <1>5, <1>6, <1>7, <1>8, <1>9, <1>11, Zenon DEF
       Uses
  <1> QED
    BY <1>10, <1>11, ZenonT(30)

(* Who is a user of a connection.                                         *)
LEMMA UserIs ==
  ASSUME NEW c
  PROVE  /\ "list" \in Users(c) <=> where[c] \in {"impl", "local"}
         /\ "thread" \in Users(c) <=> tpc[c] \notin {"none", "gone"}
         /\ "thread closes" \in Users(c) <=> tpc[c] \in {"fin", "hfin"}
         /\ "command" \in Users(c) <=> (kc = c /\ cop = "add")
         /\ "command closes" \in Users(c) <=> TakerOf("cmd", c)
         /\ "work queued" \in Users(c) <=> wq[c]
         /\ "work" \in Users(c) <=> kpc[c] # "idle"
         /\ "work closes" \in Users(c) <=> TakerOf(c, c)
         /\ "sender" \in Users(c) <=> sc = c
  BY Zenon DEF Users, Uses

(* Whoever holds the only reference is the only user.                      *)
LEMMA OnlyUser ==
  ASSUME NEW c \in Conns, Count(c), ref[c] = 1, NEW u \in Users(c)
  PROVE  Users(c) = {u}
  <1>0. Cardinality(Users(c)) = 1
    BY Zenon DEF Count
  <1>1. Cardinality(Users(c) \ {u}) = 0 /\ IsFiniteSet(Users(c) \ {u})
    BY <1>0, UsersFinite, FS_RemoveElement
  <1>2. Users(c) \ {u} = {}
    BY <1>1, FS_EmptySet, Zenon
  <1> QED
    BY <1>2, ZenonT(30)

(* So nobody else is.                                                      *)
LEMMA Alone ==
  ASSUME NEW c \in Conns, Count(c), ref[c] = 1, NEW u \in Users(c)
  PROVE  /\ u # "list" => where[c] \notin {"impl", "local"}
         /\ u # "thread" => tpc[c] \in {"none", "gone"}
         /\ u # "thread closes" => tpc[c] \notin {"fin", "hfin"}
         /\ u # "command" => ~(kc = c /\ cop = "add")
         /\ u # "command closes" => ~TakerOf("cmd", c)
         /\ u # "work queued" => ~wq[c]
         /\ u # "work" => kpc[c] = "idle"
         /\ u # "work closes" => ~TakerOf(c, c)
         /\ u # "sender" => sc # c
  <1>1. Users(c) = {u}
    BY OnlyUser, Zenon
  <1>2. u # "list" => where[c] \notin {"impl", "local"}
    BY <1>1, UserIs, Zenon
  <1>3. u # "thread" => tpc[c] \in {"none", "gone"}
    BY <1>1, UserIs, Zenon
  <1>4. u # "thread closes" => tpc[c] \notin {"fin", "hfin"}
    BY <1>1, UserIs, Zenon
  <1>5. u # "command" => ~(kc = c /\ cop = "add")
    BY <1>1, UserIs, Zenon
  <1>6. u # "command closes" => ~TakerOf("cmd", c)
    BY <1>1, UserIs, Zenon
  <1>7. u # "work queued" => ~wq[c]
    BY <1>1, UserIs, Zenon
  <1>8. u # "work" => kpc[c] = "idle"
    BY <1>1, UserIs, Zenon
  <1>9. u # "work closes" => ~TakerOf(c, c)
    BY <1>1, UserIs, Zenon
  <1>10. u # "sender" => sc # c
    BY <1>1, UserIs, Zenon
  <1> QED
    BY <1>2, <1>3, <1>4, <1>5, <1>6, <1>7, <1>8, <1>9, <1>10, ZenonT(30)

(* A step of the receive thread of c: it goes on, takes or releases        *)
(* close_mutex, or clears recv_task at its end; it drops no reference.     *)
ThreadMove(c) ==
  /\ {tpc[c], tpc'[c]} \cap {"none", "gone", "fin", "hfin"} = {}
  /\ mtx'[c] = mtx[c] \/ {mtx[c], mtx'[c]} \subseteq {"free", "recv"}
  /\ rtask'[c] => rtask[c] /\ (tpc'[c] \in Ending => stop[c])
  /\ ~rtask'[c] => tpc'[c] \in Ending
  /\ tpc'[c] \in Handling => mtx'[c] = "recv"
  /\ \A q \in Conns \ {c} : tpc'[q] = tpc[q] /\ mtx'[q] = mtx[q] /\ rtask'[q] = rtask[q]
  /\ UNCHANGED <<where, ref, stop, wq, kpc, kc, cop, late, spc, sc>>

(* Such a step keeps the invariant.                                        *)
LEMMA ThreadMoves ==
  ASSUME PInv, NEW c \in Conns, Types', ThreadMove(c)
  PROVE  PInv'
  <1>0. Types /\ Cmd /\ Sender /\ Sweep
    BY Zenon DEF PInv
  <1>1. c # "cmd" /\ c # "free" /\ c # "recv"
    BY NoneAssumption, Zenon
  <1>2. Local(c)
    BY Zenon DEF PInv
  <1>3. Cmd' /\ Sender' /\ Sweep'
    BY <1>0, Zenon DEF ThreadMove, Cmd, Sender, Sweep
  <1>4. \A q \in Conns \ {c} : Same(q)
    BY Zenon DEF ThreadMove, Same, CmdJoins, CmdCloses, CmdShuts, TakerOf, At,
       Disconnecting
  <1>5. SameUse(c, {})
    BY Zenon DEF ThreadMove, SameUse, TakerOf, At, Disconnecting
  <1>6. Users(c)' \ {} = Users(c) \ {}
    BY <1>5, SameUsers, Zenon
  <1>7. Users(c)' = Users(c)
    BY <1>6, Zenon
  <1>8. Count(c)'
    <2>1. ref'[c] = ref[c] /\ where'[c] = where[c] /\ tpc[c] # "none" /\ tpc'[c] # "none"
      BY Zenon DEF ThreadMove
    <2> QED
      BY <1>2, <1>7, <2>1, CountKeeps, ZenonT(30) DEF Local
  <1>9. Listed(c)'
    BY <1>2, Zenon DEF Local, Listed, ThreadMove, TakerOf, At, Disconnecting,
       CmdShuts, CmdCloses
  <1>10. Task(c)'
    <2>1. /\ rtask'[c] => rtask[c] /\ (tpc'[c] \in Ending => stop[c])
          /\ ~rtask'[c] => tpc'[c] \in Ending
          /\ tpc[c] \notin {"none", "gone"} /\ tpc'[c] \notin {"none", "gone"}
          /\ tpc'[c] \in Handling => mtx'[c] = "recv"
          /\ UNCHANGED <<stop, kpc, kc>>
      BY Zenon DEF ThreadMove
    <2>2. mtx'[c] = mtx[c] \/ (mtx[c] \in {"free", "recv"} /\ mtx'[c] \in {"free", "recv"})
      BY Zenon DEF ThreadMove
    <2>3. stop'[c] => mtx'[c] \in Closers
      BY <1>2, <2>1, <2>2, NoneAssumption, Zenon DEF Local, Task, Closers
    <2>4. /\ mtx'[c] = "cmd" <=> CmdJoins(c)'
          /\ mtx'[c] = c <=> kpc'[c] = "join"
          /\ mtx'[c] \in Conns => mtx'[c] = c
      BY <1>1, <1>2, <2>1, <2>2, NoneAssumption, Zenon DEF Local, Task, CmdJoins
    <2> QED
      BY <2>1, <2>3, <2>4, Zenon DEF Task
  <1> QED
    BY <1>3, <1>4, <1>8, <1>9, <1>10, SameLocal, ZenonT(30) DEF PInv, Local

(* The receive thread is told to stop.                                     *)
LEMMA RecvStopStep ==
  ASSUME PInv, NEW c \in Conns, RecvStop(c)
  PROVE  PInv'
  <1>1. Types /\ Task(c)
    BY Zenon DEF PInv, Local
  <1>2. Types'
    BY <1>1, Zenon DEF Types, Handling, Ending, RecvStop, conn, thread, closers,
       sender
  <1>3. ThreadMove(c)
    BY <1>1, Zenon DEF Types, Task, Handling, Ending, ThreadMove, RecvStop,
       conn, thread, closers, sender
  <1> QED
    BY <1>2, <1>3, ThreadMoves, Zenon

(* It receives a message.                                                  *)
LEMMA Tcp_receive_from_sockStep ==
  ASSUME PInv, NEW c \in Conns, tcp_receive_from_sock(c)
  PROVE  PInv'
  <1>1. Types /\ Task(c)
    BY Zenon DEF PInv, Local
  <1>2. Types'
    BY <1>1, Zenon DEF Types, Handling, Ending, tcp_receive_from_sock, conn,
       thread, closers, sender
  <1>3. ThreadMove(c)
    BY <1>1, Zenon DEF Types, Task, Handling, Ending, ThreadMove,
       tcp_receive_from_sock, conn, thread, closers, sender
  <1> QED
    BY <1>2, <1>3, ThreadMoves, Zenon

(* It finds its socket down.                                               *)
LEMMA RecvDownStep ==
  ASSUME PInv, NEW c \in Conns, RecvDown(c)
  PROVE  PInv'
  <1>1. Types /\ Task(c)
    BY Zenon DEF PInv, Local
  <1>2. Types'
    BY <1>1, Zenon DEF Types, Handling, Ending, RecvDown, conn, thread, closers,
       sender
  <1>3. ThreadMove(c)
    BY <1>1, Zenon DEF Types, Task, Handling, Ending, ThreadMove, RecvDown,
       conn, thread, closers, sender
  <1> QED
    BY <1>2, <1>3, ThreadMoves, Zenon

(* It asks whether the peer is offline already.                            *)
LEMMA RecvTailStep ==
  ASSUME PInv, NEW c \in Conns, RecvTail(c)
  PROVE  PInv'
  <1>1. Types /\ Task(c)
    BY Zenon DEF PInv, Local
  <1>2. Types'
    BY <1>1, Zenon DEF Types, Handling, Ending, RecvTail, conn, thread, closers,
       sender
  <1>3. ThreadMove(c)
    BY <1>1, Zenon DEF Types, Task, Handling, Ending, ThreadMove, RecvTail,
       conn, thread, closers, sender
  <1> QED
    BY <1>2, <1>3, ThreadMoves, Zenon

(* The handshake handler answers.                                          *)
LEMMA HandlerReplyStep ==
  ASSUME PInv, NEW c \in Conns, HandlerReply(c)
  PROVE  PInv'
  <1>1. Types /\ Task(c)
    BY Zenon DEF PInv, Local
  <1>2. Types'
    BY <1>1, Zenon DEF Types, Handling, Ending, HandlerReply, conn, thread,
       closers, sender
  <1>3. ThreadMove(c)
    BY <1>1 DEF Types, Task, Handling, Ending, ThreadMove, HandlerReply, conn,
           thread, closers, sender
  <1> QED
    BY <1>2, <1>3, ThreadMoves, Zenon

(* It sets the connection's status.                                        *)
LEMMA HandlerStatusStep ==
  ASSUME PInv, NEW c \in Conns, HandlerStatus(c)
  PROVE  PInv'
  <1>1. Types /\ Task(c)
    BY Zenon DEF PInv, Local
  <1>2. Types'
    BY <1>1, Zenon DEF Types, Handling, Ending, HandlerStatus, HandlerEnds,
       conn, thread, closers, sender
  <1>3. ThreadMove(c)
    BY <1>1 DEF Types, Task, Handling, Ending, ThreadMove, HandlerStatus,
           HandlerEnds, conn, thread, closers, sender
  <1> QED
    BY <1>2, <1>3, ThreadMoves, Zenon

(* It sets the node's status.                                              *)
LEMMA HandlerNodeStep ==
  ASSUME PInv, NEW c \in Conns, HandlerNode(c)
  PROVE  PInv'
  <1>1. Types /\ Task(c)
    BY Zenon DEF PInv, Local
  <1>2. Types'
    BY <1>1, ZenonT(30) DEF Types, Handling, Ending, HandlerNode, HandlerEnds,
       conn, thread, closers, sender
  <1>3. ThreadMove(c)
    BY <1>1 DEF Types, Task, Handling, Ending, ThreadMove, HandlerNode, HandlerEnds,
           conn, thread, closers, sender
  <1> QED
    BY <1>2, <1>3, ThreadMoves, Zenon

(* It reports the event.                                                   *)
LEMMA HandlerEventStep ==
  ASSUME PInv, NEW c \in Conns, HandlerEvent(c)
  PROVE  PInv'
  <1>1. Types /\ Task(c)
    BY Zenon DEF PInv, Local
  <1>2. Types'
    BY <1>1, Zenon DEF Types, Handling, Ending, HandlerEvent, HandlerEnds, conn,
       thread, closers, sender
  <1>3. ThreadMove(c)
    BY <1>1, Zenon DEF Types, Task, Handling, Ending, ThreadMove, HandlerEvent,
       HandlerEnds, conn, thread, closers, sender
  <1> QED
    BY <1>2, <1>3, ThreadMoves, Zenon

(* It refuses the far end.                                                 *)
LEMMA HandlerNegoStep ==
  ASSUME PInv, NEW c \in Conns, HandlerNego(c)
  PROVE  PInv'
  <1>1. Types /\ Task(c)
    BY Zenon DEF PInv, Local
  <1>2. Types'
    BY <1>1, Zenon DEF Types, Handling, Ending, HandlerNego, HandlerEnds, conn,
       thread, closers, sender
  <1>3. ThreadMove(c)
    BY <1>1, Zenon DEF Types, Task, Handling, Ending, ThreadMove, HandlerNego,
       HandlerEnds, conn, thread, closers, sender
  <1> QED
    BY <1>2, <1>3, ThreadMoves, Zenon

(* The receive thread finds its connection off the list already.           *)
LEMMA RecvTakeNotStep ==
  ASSUME PInv, NEW c \in Conns, ~OnList(c), RecvTake(c)
  PROVE  PInv'
  <1>1. Types /\ Task(c)
    BY Zenon DEF PInv, Local
  <1>2. Types'
    BY <1>1, Zenon DEF Types, Handling, Ending, RecvTake, OnList, conn, thread,
       closers, sender
  <1>3. ThreadMove(c)
    BY <1>1, ZenonT(30) DEF Types, Task, Handling, Ending, ThreadMove, RecvTake,
       OnList, conn, thread, closers, sender
  <1> QED
    BY <1>2, <1>3, ThreadMoves, Zenon

(* The receive thread has taken its connection down.                       *)
LEMMA RecvFinStep ==
  ASSUME PInv, NEW c \in Conns, RecvFin(c)
  PROVE  PInv'
  <1>0. Types /\ Cmd /\ Sender /\ Sweep
    BY Zenon DEF PInv
  <1>1. c \in Conns /\ c # "cmd" /\ c # None
    BY <1>0, NoneAssumption, Zenon DEF RecvFin, connection_notify_to_close, Cmd, Sender, Closing
  <1>2. Local(c)
    BY <1>1, Zenon DEF PInv
  <1>e. /\ tpc[c] \in {"fin", "hfin"}
        /\ ref' = [ref EXCEPT ![c] = @ - 1]
        /\ where' = [where EXCEPT ![c] = IF ref[c] = 1 THEN "freed" ELSE @]
        /\ tpc' = [tpc EXCEPT ![c] = IF @ = "fin" THEN "exit" ELSE "status"]
        /\ UNCHANGED <<rtask, stop, mtx, wq, kpc, kc, cop, late, spc, sc>>
    BY <1>0, <1>1, Zenon DEF RecvFin, connection_notify_to_close, connection_put, At,
       Disconnecting, conn, thread, closers, sender
  <1>a. "thread closes" \in Users(c)
    <2>1. tpc[c] \in {"fin", "hfin"}
      BY <1>e, <1>0, <1>1, <1>2, NoneAssumption, Zenon DEF Cmd, Sender, TakerOf,
         At, Disconnecting, Types, Closing, Closers, Local, Listed, CmdShuts
    <2> QED
      BY <2>1, Zenon DEF Users, Uses
  <1>b. ref[c] = 1 =>
          /\ where[c] \notin {"impl", "local"}
          /\ tpc[c] \in {"none", "gone"}
          /\ ~(kc = c /\ cop = "add")
          /\ ~TakerOf("cmd", c)
          /\ ~wq[c]
          /\ kpc[c] = "idle"
          /\ ~TakerOf(c, c)
          /\ sc # c
    BY <1>1, <1>2, <1>a, Alone, Zenon DEF Local
  <1>3. Types'
    BY <1>e, <1>0, <1>1 DEF Types, Closers, At, Handling, Ending
  <1>4. Cmd' /\ Sender'
    BY <1>e, <1>0, <1>1, Zenon DEF Types, Cmd, Sender, Closing, Closers, At,
       Disconnecting
  <1>5. Sweep'
    BY <1>e, <1>0, <1>1, Zenon DEF Types, Cmd, Sweep, Closing, Closers, At,
       Disconnecting
  <1>6. \A q \in Conns \ {c} : Same(q)
    BY <1>e, <1>0, <1>1, NoneAssumption, ZenonT(30) DEF Types, Cmd, Sender, Same,
       CmdJoins, CmdCloses, CmdShuts, TakerOf, At, Disconnecting, Closers, Closing
  <1>7. Count(c)'
    <2>1. SameUse(c, {"thread closes"})
      BY <1>e, <1>0, <1>1, <1>2, NoneAssumption, <1>b, Zenon DEF SameUse, Cmd,
         Sender, TakerOf, At, Disconnecting, Types, Closing, Closers, Local,
         Listed, CmdShuts
    <2>2. Users(c)' \ {"thread closes"} = Users(c) \ {"thread closes"}
      BY <2>1, SameUsers, Zenon
    <2>3. ~(tpc[c] \in {"fin", "hfin"})'
      BY <1>e, <1>0, <1>1, <1>2, NoneAssumption, Zenon DEF Cmd, Sender, TakerOf,
         At, Disconnecting, Types, Closing, Closers, Local, Listed, CmdShuts
    <2>4. "thread closes" \notin Users(c)'
      BY <2>3, Zenon DEF Users, Uses
    <2>5. Users(c)' = Users(c) \ {"thread closes"}
      BY <2>2, <2>4, Zenon
    <2>6. /\ ref'[c] = ref[c] - 1
          /\ ref[c] = 1 => where'[c] = "freed"
          /\ ref[c] # 1 => where'[c] \in {where[c], "off"}
      BY <1>e, <1>0, <1>1, Zenon DEF Types, Disconnecting, At
    <2> QED
      BY <1>1, <1>2, <1>a, <2>5, <2>6, CountPuts, Zenon DEF Local
  <1>8. Listed(c)'
    BY <1>e, <1>0, <1>1, <1>2, <1>b, Zenon DEF Types, Cmd, Local, Listed, Task,
       CmdJoins, CmdCloses, CmdShuts, TakerOf, At, Disconnecting, Closing, Closers,
       Ending, Handling
  <1>9. Task(c)'
    BY <1>e, <1>0, <1>1, <1>2, NoneAssumption, ZenonT(30) DEF Types, Cmd, Local,
       Task, CmdJoins, At, Disconnecting, Closing, Closers, Ending, Handling
  <1> QED
    BY <1>3, <1>4, <1>5, <1>6, <1>7, <1>8, <1>9, SameLocal, ZenonT(30) DEF PInv,
       Local

(* The receive thread ends.                                                *)
LEMMA RecvExitStep ==
  ASSUME PInv, NEW c \in Conns, RecvExit(c)
  PROVE  PInv'
  <1>0. Types /\ Cmd /\ Sender /\ Sweep
    BY Zenon DEF PInv
  <1>1. c \in Conns /\ c # "cmd" /\ c # None
    BY <1>0, NoneAssumption, Zenon DEF RecvExit, Cmd, Sender, Closing
  <1>2. Local(c)
    BY <1>1, Zenon DEF PInv
  <1>e. /\ tpc[c] = "exit"
        /\ ref' = [ref EXCEPT ![c] = @ - 1]
        /\ where' = [where EXCEPT ![c] = IF ref[c] = 1 THEN "freed" ELSE @]
        /\ tpc' = [tpc EXCEPT ![c] = "gone"]
        /\ UNCHANGED <<rtask, stop, mtx, wq, kpc, kc, cop, late, spc, sc>>
    BY <1>0, <1>1, Zenon DEF RecvExit, connection_put, At, Disconnecting, conn,
       thread, closers, sender
  <1>a. "thread" \in Users(c)
    <2>1. tpc[c] \notin {"none", "gone"}
      BY <1>e, <1>0, <1>1, <1>2, NoneAssumption, Zenon DEF Cmd, Sender, TakerOf,
         At, Disconnecting, Types, Closing, Closers, Local, Listed, CmdShuts
    <2> QED
      BY <2>1, Zenon DEF Users, Uses
  <1>b. ref[c] = 1 =>
          /\ where[c] \notin {"impl", "local"}
          /\ tpc[c] \notin {"fin", "hfin"}
          /\ ~(kc = c /\ cop = "add")
          /\ ~TakerOf("cmd", c)
          /\ ~wq[c]
          /\ kpc[c] = "idle"
          /\ ~TakerOf(c, c)
          /\ sc # c
    BY <1>1, <1>2, <1>a, Alone, Zenon DEF Local
  <1>3. Types'
    BY <1>e, <1>0, <1>1 DEF Types, Closers, At, Handling, Ending
  <1>4. Cmd' /\ Sender'
    BY <1>e, <1>0, <1>1, Zenon DEF Types, Cmd, Sender, Closing, Closers, At,
       Disconnecting
  <1>5. Sweep'
    BY <1>e, <1>0, <1>1, Zenon DEF Types, Cmd, Sweep, Closing, Closers, At,
       Disconnecting
  <1>6. \A q \in Conns \ {c} : Same(q)
    BY <1>e, <1>0, <1>1, NoneAssumption, ZenonT(30) DEF Types, Cmd, Sender, Same,
       CmdJoins, CmdCloses, CmdShuts, TakerOf, At, Disconnecting, Closers, Closing
  <1>7. Count(c)'
    <2>1. SameUse(c, {"thread"})
      BY <1>e, <1>0, <1>1, <1>2, NoneAssumption, <1>b, Zenon DEF SameUse, Cmd,
         Sender, TakerOf, At, Disconnecting, Types, Closing, Closers, Local,
         Listed, CmdShuts
    <2>2. Users(c)' \ {"thread"} = Users(c) \ {"thread"}
      BY <2>1, SameUsers, Zenon
    <2>3. ~(tpc[c] \notin {"none", "gone"})'
      BY <1>e, <1>0, <1>1, <1>2, NoneAssumption, Zenon DEF Cmd, Sender, TakerOf,
         At, Disconnecting, Types, Closing, Closers, Local, Listed, CmdShuts
    <2>4. "thread" \notin Users(c)'
      BY <2>3, Zenon DEF Users, Uses
    <2>5. Users(c)' = Users(c) \ {"thread"}
      BY <2>2, <2>4, Zenon
    <2>6. /\ ref'[c] = ref[c] - 1
          /\ ref[c] = 1 => where'[c] = "freed"
          /\ ref[c] # 1 => where'[c] \in {where[c], "off"}
      BY <1>e, <1>0, <1>1, Zenon DEF Types, Disconnecting, At
    <2> QED
      BY <1>1, <1>2, <1>a, <2>5, <2>6, CountPuts, Zenon DEF Local
  <1>8. Listed(c)'
    BY <1>e, <1>0, <1>1, <1>2, <1>b, Zenon DEF Types, Cmd, Local, Listed, Task,
       CmdJoins, CmdCloses, CmdShuts, TakerOf, At, Disconnecting, Closing, Closers,
       Ending, Handling
  <1>9. Task(c)'
    BY <1>e, <1>0, <1>1, <1>2, NoneAssumption, ZenonT(30) DEF Types, Cmd, Local,
       Task, CmdJoins, At, Disconnecting, Closing, Closers, Ending, Handling
  <1> QED
    BY <1>3, <1>4, <1>5, <1>6, <1>7, <1>8, <1>9, SameLocal, ZenonT(30) DEF PInv,
       Local

(* The reget work starts.                                                  *)
LEMMA RegetWorkStep ==
  ASSUME PInv, NEW c \in Conns, RegetWork(c)
  PROVE  PInv'
  <1>0. Types /\ Cmd /\ Sender /\ Sweep
    BY Zenon DEF PInv
  <1>1. c \in Conns /\ c # "cmd" /\ c # None
    BY <1>0, NoneAssumption, Zenon DEF RegetWork, Cmd, Sender, Closing
  <1>2. Local(c)
    BY <1>1, Zenon DEF PInv
  <1>e. /\ wq[c] /\ kpc[c] = "idle"
        /\ wq' = [wq EXCEPT ![c] = FALSE]
        /\ kpc' = [kpc EXCEPT ![c] = "take"]
        /\ UNCHANGED <<where, ref, rtask, stop, mtx, tpc, kc, cop, late, spc, sc>>
    BY <1>0, <1>1, Zenon DEF RegetWork, At, Disconnecting, conn, thread,
       closers, sender
  <1>3. Types'
    BY <1>e, <1>0, <1>1, Zenon DEF Types, Closers, At, Handling, Ending
  <1>4. Cmd' /\ Sender'
    BY <1>e, <1>0, <1>1, Zenon DEF Types, Cmd, Sender, Closing, Closers, At,
       Disconnecting
  <1>5. Sweep'
    BY <1>e, <1>0, <1>1, Zenon DEF Types, Cmd, Sweep, Closing, Closers, At,
       Disconnecting
  <1>6. \A q \in Conns \ {c} : Same(q)
    BY <1>e, <1>0, <1>1, NoneAssumption, ZenonT(30) DEF Types, Cmd, Sender, Same,
       CmdJoins, CmdCloses, CmdShuts, TakerOf, At, Disconnecting, Closers, Closing
  <1>7. Count(c)'
    <2>1. SameUse(c, {"work queued", "work"})
      BY <1>e, <1>0, <1>1, <1>2, NoneAssumption, Zenon DEF SameUse, Cmd, Sender,
         TakerOf, At, Disconnecting, Types, Closing, Closers, Local, Listed,
         CmdShuts
    <2>2. Users(c)' \ {"work queued", "work"} = Users(c) \ {"work queued", "work"}
      BY <2>1, SameUsers, Zenon
    <2>5. /\ wq[c]
          /\ ~(wq[c])'
          /\ ~(kpc[c] # "idle")
          /\ (kpc[c] # "idle")'
      BY <1>e, <1>0, <1>1, <1>2, NoneAssumption, Zenon DEF Cmd, Sender, TakerOf,
         At, Disconnecting, Types, Closing, Closers, Local, Listed, CmdShuts
    <2>6. /\ "work queued" \in Users(c) /\ "work" \in Uses \ Users(c)
          /\ "work" \in Users(c)' /\ "work queued" \notin Users(c)'
      BY <2>5, Zenon DEF Users, Uses
    <2>3. Users(c)' = (Users(c) \ {"work queued"}) \cup {"work"}
      BY <2>2, <2>6, Zenon
    <2>4. /\ ref'[c] = ref[c]
          /\ tpc'[c] = "none" <=> tpc[c] = "none"
          /\ \/ where'[c] = where[c]
             \/ where'[c] \notin {"freed", "new"} /\ where[c] \notin {"freed", "new"}
      BY <1>e, <1>0, <1>1, Zenon DEF OnList, Types
    <2> QED
      BY <1>1, <1>2, <2>3, <2>4, <2>6, CountKeeps, ZenonT(30) DEF Local
  <1>8. Listed(c)'
    BY <1>e, <1>0, <1>1, <1>2, Zenon DEF Types, Cmd, Local, Listed, Task,
       CmdJoins, CmdCloses, CmdShuts, TakerOf, At, Disconnecting, Closing, Closers,
       Ending, Handling
  <1>9. Task(c)'
    BY <1>e, <1>0, <1>1, <1>2, NoneAssumption, ZenonT(30) DEF Types, Cmd, Local,
       Task, CmdJoins, At, Disconnecting, Closing, Closers, Ending, Handling
  <1> QED
    BY <1>3, <1>4, <1>5, <1>6, <1>7, <1>8, <1>9, SameLocal, ZenonT(30) DEF PInv,
       Local

(* The reget work ends.                                                    *)
LEMMA RegetWorkEndStep ==
  ASSUME PInv, NEW c \in Conns, RegetWorkEnd(c)
  PROVE  PInv'
  <1>0. Types /\ Cmd /\ Sender /\ Sweep
    BY Zenon DEF PInv
  <1>1. c \in Conns /\ c # "cmd" /\ c # None
    BY <1>0, NoneAssumption, Zenon DEF RegetWorkEnd, Cmd, Sender, Closing
  <1>2. Local(c)
    BY <1>1, Zenon DEF PInv
  <1>e. /\ kpc[c] = "put"
        /\ ref' = [ref EXCEPT ![c] = @ - 1]
        /\ where' = [where EXCEPT ![c] = IF ref[c] = 1 THEN "freed" ELSE @]
        /\ kpc' = [kpc EXCEPT ![c] = "idle"]
        /\ UNCHANGED <<rtask, stop, mtx, tpc, wq, kc, cop, late, spc, sc>>
    BY <1>0, <1>1, Zenon DEF RegetWorkEnd, connection_put, At, Disconnecting,
       conn, thread, closers, sender
  <1>a. "work" \in Users(c)
    <2>1. kpc[c] # "idle"
      BY <1>e, <1>0, <1>1, <1>2, NoneAssumption, Zenon DEF Cmd, Sender, TakerOf,
         At, Disconnecting, Types, Closing, Closers, Local, Listed, CmdShuts
    <2> QED
      BY <2>1, Zenon DEF Users, Uses
  <1>b. ref[c] = 1 =>
          /\ where[c] \notin {"impl", "local"}
          /\ tpc[c] \in {"none", "gone"}
          /\ tpc[c] \notin {"fin", "hfin"}
          /\ ~(kc = c /\ cop = "add")
          /\ ~TakerOf("cmd", c)
          /\ ~wq[c]
          /\ ~TakerOf(c, c)
          /\ sc # c
    BY <1>1, <1>2, <1>a, Alone, Zenon DEF Local
  <1>3. Types'
    BY <1>e, <1>0, <1>1 DEF Types, Closers, At, Handling, Ending
  <1>4. Cmd' /\ Sender'
    BY <1>e, <1>0, <1>1, Zenon DEF Types, Cmd, Sender, Closing, Closers, At,
       Disconnecting
  <1>5. Sweep'
    BY <1>e, <1>0, <1>1, Zenon DEF Types, Cmd, Sweep, Closing, Closers, At,
       Disconnecting
  <1>6. \A q \in Conns \ {c} : Same(q)
    BY <1>e, <1>0, <1>1, NoneAssumption, ZenonT(30) DEF Types, Cmd, Sender, Same,
       CmdJoins, CmdCloses, CmdShuts, TakerOf, At, Disconnecting, Closers, Closing
  <1>7. Count(c)'
    <2>1. SameUse(c, {"work"})
      BY <1>e, <1>0, <1>1, <1>2, NoneAssumption, <1>b, Zenon DEF SameUse, Cmd,
         Sender, TakerOf, At, Disconnecting, Types, Closing, Closers, Local,
         Listed, CmdShuts
    <2>2. Users(c)' \ {"work"} = Users(c) \ {"work"}
      BY <2>1, SameUsers, Zenon
    <2>3. ~(kpc[c] # "idle")'
      BY <1>e, <1>0, <1>1, <1>2, NoneAssumption, Zenon DEF Cmd, Sender, TakerOf,
         At, Disconnecting, Types, Closing, Closers, Local, Listed, CmdShuts
    <2>4. "work" \notin Users(c)'
      BY <2>3, Zenon DEF Users, Uses
    <2>5. Users(c)' = Users(c) \ {"work"}
      BY <2>2, <2>4, Zenon
    <2>6. /\ ref'[c] = ref[c] - 1
          /\ ref[c] = 1 => where'[c] = "freed"
          /\ ref[c] # 1 => where'[c] \in {where[c], "off"}
      BY <1>e, <1>0, <1>1, Zenon DEF Types, Disconnecting, At
    <2> QED
      BY <1>1, <1>2, <1>a, <2>5, <2>6, CountPuts, Zenon DEF Local
  <1>8. Listed(c)'
    BY <1>e, <1>0, <1>1, <1>2, <1>b, Zenon DEF Types, Cmd, Local, Listed, Task,
       CmdJoins, CmdCloses, CmdShuts, TakerOf, At, Disconnecting, Closing, Closers,
       Ending, Handling
  <1>9. Task(c)'
    BY <1>e, <1>0, <1>1, <1>2, NoneAssumption, ZenonT(30) DEF Types, Cmd, Local,
       Task, CmdJoins, At, Disconnecting, Closing, Closers, Ending, Handling
  <1> QED
    BY <1>3, <1>4, <1>5, <1>6, <1>7, <1>8, <1>9, SameLocal, ZenonT(30) DEF PInv,
       Local

(* The command thread.                                                     *)
LEMMA SendRequestStep ==
  ASSUME PInv, NEW c, c = kc, SendRequest
  PROVE  PInv'
  <1>0. Types /\ Cmd /\ Sender /\ Sweep
    BY Zenon DEF PInv
  <1>1. c \in Conns /\ c # "cmd" /\ c # None
    BY <1>0, NoneAssumption, Zenon DEF SendRequest, Cmd, Sender, Closing
  <1>2. Local(c)
    BY <1>1, Zenon DEF PInv
  <1>e. /\ kpc["cmd"] = "hello"
        /\ \E x \in {"drop", "take"} : kpc' = [kpc EXCEPT !["cmd"] = x]
        /\ UNCHANGED <<where, ref, rtask, stop, mtx, tpc, wq, kc, cop, late, spc, sc>>
    BY <1>0, <1>1, Zenon DEF SendRequest, At, Disconnecting, conn, thread,
       closers, sender
  <1>3. Types'
    BY <1>e, <1>0, <1>1 DEF Types, Closers, At, Handling, Ending
  <1>4. Cmd' /\ Sender'
    BY <1>e, <1>0, <1>1, Zenon DEF Types, Cmd, Sender, Closing, Closers, At,
       Disconnecting
  <1>5. Sweep'
    BY <1>e, <1>0, <1>1, Zenon DEF Types, Cmd, Sweep, Closing, Closers, At,
       Disconnecting
  <1>6. \A q \in Conns \ {c} : Same(q)
    BY <1>e, <1>0, <1>1, NoneAssumption, ZenonT(30) DEF Types, Cmd, Sender, Same,
       CmdJoins, CmdCloses, CmdShuts, TakerOf, At, Disconnecting, Closers, Closing
  <1>7. Count(c)'
    <2>1. SameUse(c, {})
      BY <1>e, <1>0, <1>1, <1>2, NoneAssumption, ZenonT(30) DEF SameUse, Cmd, Sender,
         TakerOf, At, Disconnecting, Types, Closing, Closers, Local, Listed,
         CmdShuts
    <2>2. Users(c)' \ {} = Users(c) \ {}
      BY <2>1, SameUsers, Zenon
    <2>3. Users(c)' = Users(c)
      BY <2>2, Zenon
    <2>4. /\ ref'[c] = ref[c]
          /\ tpc'[c] = "none" <=> tpc[c] = "none"
          /\ \/ where'[c] = where[c]
             \/ where'[c] \notin {"freed", "new"} /\ where[c] \notin {"freed", "new"}
      BY <1>e, <1>0, <1>1, Zenon DEF Types
    <2> QED
      BY <1>1, <1>2, <2>3, <2>4, CountKeeps, ZenonT(30) DEF Local
  <1>8. Listed(c)'
    BY <1>e, <1>0, <1>1, <1>2, Zenon DEF Types, Cmd, Local, Listed, Task,
       CmdJoins, CmdCloses, CmdShuts, TakerOf, At, Disconnecting, Closing, Closers,
       Ending, Handling
  <1>9. Task(c)'
    BY <1>e, <1>0, <1>1, <1>2, NoneAssumption, ZenonT(30) DEF Types, Cmd, Local,
       Task, CmdJoins, At, Disconnecting, Closing, Closers, Ending, Handling
  <1> QED
    BY <1>3, <1>4, <1>5, <1>6, <1>7, <1>8, <1>9, SameLocal, ZenonT(30) DEF PInv,
       Local

LEMMA PutCmdStep ==
  ASSUME PInv, NEW c, c = kc, PutCmd
  PROVE  PInv'
  <1>0. Types /\ Cmd /\ Sender /\ Sweep
    BY Zenon DEF PInv
  <1>1. c \in Conns /\ c # "cmd" /\ c # None
    BY <1>0, NoneAssumption, Zenon DEF PutCmd, Cmd, Sender, Closing
  <1>2. Local(c)
    BY <1>1, Zenon DEF PInv
  <1>e. /\ kpc["cmd"] = "drop"
        /\ ref' = [ref EXCEPT ![c] = @ - 1]
        /\ where' = [where EXCEPT ![c] = IF ref[c] = 1 THEN "freed" ELSE @]
        /\ kpc' = [kpc EXCEPT !["cmd"] = "idle"]
        /\ kc' = None /\ cop' = "none"
        /\ UNCHANGED <<rtask, stop, mtx, tpc, wq, late, spc, sc>>
    BY <1>0, <1>1, Zenon DEF PutCmd, connection_put, At, Disconnecting, conn,
       thread, closers, sender
  <1>a. "command" \in Users(c)
    <2>1. (kc = c /\ cop = "add")
      BY <1>e, <1>0, <1>1, <1>2, NoneAssumption, Zenon DEF Cmd, Sender, TakerOf,
         At, Disconnecting, Types, Closing, Closers, Local, Listed, CmdShuts
    <2> QED
      BY <2>1, Zenon DEF Users, Uses
  <1>b. ref[c] = 1 =>
          /\ where[c] \notin {"impl", "local"}
          /\ tpc[c] \in {"none", "gone"}
          /\ tpc[c] \notin {"fin", "hfin"}
          /\ ~TakerOf("cmd", c)
          /\ ~wq[c]
          /\ kpc[c] = "idle"
          /\ ~TakerOf(c, c)
          /\ sc # c
    BY <1>1, <1>2, <1>a, Alone, Zenon DEF Local
  <1>3. Types'
    BY <1>e, <1>0, <1>1 DEF Types, Closers, At, Handling, Ending
  <1>4. Cmd' /\ Sender'
    BY <1>e, <1>0, <1>1, Zenon DEF Types, Cmd, Sender, Closing, Closers, At,
       Disconnecting
  <1>5. Sweep'
    BY <1>e, <1>0, <1>1, Zenon DEF Types, Cmd, Sweep, Closing, Closers, At,
       Disconnecting
  <1>6. \A q \in Conns \ {c} : Same(q)
    BY <1>e, <1>0, <1>1, NoneAssumption, ZenonT(30) DEF Types, Cmd, Sender, Same,
       CmdJoins, CmdCloses, CmdShuts, TakerOf, At, Disconnecting, Closers, Closing
  <1>7. Count(c)'
    <2>1. SameUse(c, {"command"})
      BY <1>e, <1>0, <1>1, <1>2, NoneAssumption, <1>b, Zenon DEF SameUse, Cmd,
         Sender, TakerOf, At, Disconnecting, Types, Closing, Closers, Local,
         Listed, CmdShuts
    <2>2. Users(c)' \ {"command"} = Users(c) \ {"command"}
      BY <2>1, SameUsers, Zenon
    <2>3. ~((kc = c /\ cop = "add"))'
      BY <1>e, <1>0, <1>1, <1>2, NoneAssumption, Zenon DEF Cmd, Sender, TakerOf,
         At, Disconnecting, Types, Closing, Closers, Local, Listed, CmdShuts
    <2>4. "command" \notin Users(c)'
      BY <2>3, Zenon DEF Users, Uses
    <2>5. Users(c)' = Users(c) \ {"command"}
      BY <2>2, <2>4, Zenon
    <2>6. /\ ref'[c] = ref[c] - 1
          /\ ref[c] = 1 => where'[c] = "freed"
          /\ ref[c] # 1 => where'[c] \in {where[c], "off"}
      BY <1>e, <1>0, <1>1, Zenon DEF Types, Disconnecting, At
    <2> QED
      BY <1>1, <1>2, <1>a, <2>5, <2>6, CountPuts, Zenon DEF Local
  <1>8. Listed(c)'
    BY <1>e, <1>0, <1>1, <1>2, <1>b, Zenon DEF Types, Cmd, Local, Listed, Task,
       CmdJoins, CmdCloses, CmdShuts, TakerOf, At, Disconnecting, Closing, Closers,
       Ending, Handling
  <1>9. Task(c)'
    BY <1>e, <1>0, <1>1, <1>2, NoneAssumption, ZenonT(30) DEF Types, Cmd, Local,
       Task, CmdJoins, At, Disconnecting, Closing, Closers, Ending, Handling
  <1> QED
    BY <1>3, <1>4, <1>5, <1>6, <1>7, <1>8, <1>9, SameLocal, ZenonT(30) DEF PInv,
       Local

(* The command thread takes a connection down.                             *)
LEMMA CloserShutdownCmdStep ==
  ASSUME PInv, NEW c, c = kc, CloserShutdown("cmd")
  PROVE  PInv'
  <1>0. Types /\ Cmd /\ Sender /\ Sweep
    BY Zenon DEF PInv
  <1>1. c \in Conns /\ c # "cmd" /\ c # None
    BY <1>0, NoneAssumption, Zenon DEF CloserShutdown, Cmd, Sender, Closing
  <1>2. Local(c)
    BY <1>1, Zenon DEF PInv
  <1>e. /\ kpc["cmd"] = "shut"
        /\ kpc' = [kpc EXCEPT !["cmd"] = "lock"]
        /\ UNCHANGED <<where, ref, rtask, stop, mtx, tpc, wq, kc, cop, late, spc, sc>>
    BY <1>0, <1>1, Zenon DEF CloserShutdown, Shutdown, At, Disconnecting, conn,
       thread, closers, sender
  <1>3. Types'
    BY <1>e, <1>0, <1>1, Zenon DEF Types, Closers, At, Handling, Ending
  <1>4. Cmd' /\ Sender'
    BY <1>e, <1>0, <1>1, Zenon DEF Types, Cmd, Sender, Closing, Closers, At,
       Disconnecting
  <1>5. Sweep'
    BY <1>e, <1>0, <1>1, Zenon DEF Types, Cmd, Sweep, Closing, Closers, At,
       Disconnecting
  <1>6. \A q \in Conns \ {c} : Same(q)
    BY <1>e, <1>0, <1>1, NoneAssumption, ZenonT(30) DEF Types, Cmd, Sender, Same,
       CmdJoins, CmdCloses, CmdShuts, TakerOf, At, Disconnecting, Closers, Closing
  <1>7. Count(c)'
    <2>1. SameUse(c, {})
      BY <1>e, <1>0, <1>1, <1>2, NoneAssumption, ZenonT(30) DEF SameUse, Cmd, Sender,
         TakerOf, At, Disconnecting, Types, Closing, Closers, Local, Listed,
         CmdShuts
    <2>2. Users(c)' \ {} = Users(c) \ {}
      BY <2>1, SameUsers, Zenon
    <2>3. Users(c)' = Users(c)
      BY <2>2, Zenon
    <2>4. /\ ref'[c] = ref[c]
          /\ tpc'[c] = "none" <=> tpc[c] = "none"
          /\ \/ where'[c] = where[c]
             \/ where'[c] \notin {"freed", "new"} /\ where[c] \notin {"freed", "new"}
      BY <1>e, <1>0, <1>1, Zenon DEF Types
    <2> QED
      BY <1>1, <1>2, <2>3, <2>4, CountKeeps, ZenonT(30) DEF Local
  <1>8. Listed(c)'
    BY <1>e, <1>0, <1>1, <1>2, Zenon DEF Types, Cmd, Local, Listed, Task,
       CmdJoins, CmdCloses, CmdShuts, TakerOf, At, Disconnecting, Closing, Closers,
       Ending, Handling
  <1>9. Task(c)'
    BY <1>e, <1>0, <1>1, <1>2, NoneAssumption, ZenonT(30) DEF Types, Cmd, Local,
       Task, CmdJoins, At, Disconnecting, Closing, Closers, Ending, Handling
  <1> QED
    BY <1>3, <1>4, <1>5, <1>6, <1>7, <1>8, <1>9, SameLocal, ZenonT(30) DEF PInv,
       Local

LEMMA Tcp_close_socketCmdStep ==
  ASSUME PInv, NEW c, c = kc, rtask[c], tcp_close_socket("cmd")
  PROVE  PInv'
  <1>0. Types /\ Cmd /\ Sender /\ Sweep
    BY Zenon DEF PInv
  <1>1. c \in Conns /\ c # "cmd" /\ c # None
    BY <1>0, NoneAssumption, Zenon DEF tcp_close_socket, Cmd, Sender, Closing
  <1>2. Local(c)
    BY <1>1, Zenon DEF PInv
  <1>e. /\ kpc["cmd"] = "lock" /\ mtx[c] = "free"
        /\ mtx' = [mtx EXCEPT ![c] = "cmd"]
        /\ stop' = [stop EXCEPT ![c] = TRUE]
        /\ kpc' = [kpc EXCEPT !["cmd"] = "join"]
        /\ UNCHANGED <<where, ref, rtask, tpc, wq, kc, cop, late, spc, sc>>
    BY <1>0, <1>1, Zenon DEF tcp_close_socket, At, Disconnecting, conn, thread,
       closers, sender
  <1>3. Types'
    BY <1>e, <1>0, <1>1, Zenon DEF Types, Closers, At, Handling, Ending
  <1>4. Cmd' /\ Sender'
    BY <1>e, <1>0, <1>1, Zenon DEF Types, Cmd, Sender, Closing, Closers, At,
       Disconnecting
  <1>5. Sweep'
    BY <1>e, <1>0, <1>1, Zenon DEF Types, Cmd, Sweep, Closing, Closers, At,
       Disconnecting
  <1>6. \A q \in Conns \ {c} : Same(q)
    BY <1>e, <1>0, <1>1, NoneAssumption, ZenonT(30) DEF Types, Cmd, Sender, Same,
       CmdJoins, CmdCloses, CmdShuts, TakerOf, At, Disconnecting, Closers, Closing
  <1>7. Count(c)'
    <2>1. SameUse(c, {})
      BY <1>e, <1>0, <1>1, <1>2, NoneAssumption, ZenonT(30) DEF SameUse, Cmd, Sender,
         TakerOf, At, Disconnecting, Types, Closing, Closers, Local, Listed,
         CmdShuts
    <2>2. Users(c)' \ {} = Users(c) \ {}
      BY <2>1, SameUsers, Zenon
    <2>3. Users(c)' = Users(c)
      BY <2>2, Zenon
    <2>4. /\ ref'[c] = ref[c]
          /\ tpc'[c] = "none" <=> tpc[c] = "none"
          /\ \/ where'[c] = where[c]
             \/ where'[c] \notin {"freed", "new"} /\ where[c] \notin {"freed", "new"}
      BY <1>e, <1>0, <1>1, Zenon DEF Types
    <2> QED
      BY <1>1, <1>2, <2>3, <2>4, CountKeeps, ZenonT(30) DEF Local
  <1>8. Listed(c)'
    BY <1>e, <1>0, <1>1, <1>2, Zenon DEF Types, Cmd, Local, Listed, Task,
       CmdJoins, CmdCloses, CmdShuts, TakerOf, At, Disconnecting, Closing, Closers,
       Ending, Handling
  <1>9. Task(c)'
    BY <1>e, <1>0, <1>1, <1>2, NoneAssumption DEF Types, Cmd, Local, Task, CmdJoins,
           At, Disconnecting, Closing, Closers, Ending, Handling
  <1> QED
    BY <1>3, <1>4, <1>5, <1>6, <1>7, <1>8, <1>9, SameLocal, ZenonT(30) DEF PInv,
       Local

LEMMA NoThreadCmdStep ==
  ASSUME PInv, NEW c, c = kc, ~rtask[c], tcp_close_socket("cmd")
  PROVE  PInv'
  <1>0. Types /\ Cmd /\ Sender /\ Sweep
    BY Zenon DEF PInv
  <1>1. c \in Conns /\ c # "cmd" /\ c # None
    BY <1>0, NoneAssumption, Zenon DEF tcp_close_socket, Cmd, Sender, Closing
  <1>2. Local(c)
    BY <1>1, Zenon DEF PInv
  <1>e. /\ kpc["cmd"] = "lock"
        /\ kpc' = [kpc EXCEPT !["cmd"] = "close"]
        /\ UNCHANGED <<where, ref, rtask, stop, mtx, tpc, wq, kc, cop, late, spc, sc>>
    BY <1>0, <1>1, Zenon DEF tcp_close_socket, At, Disconnecting, conn, thread,
       closers, sender
  <1>3. Types'
    BY <1>e, <1>0, <1>1, Zenon DEF Types, Closers, At, Handling, Ending
  <1>4. Cmd' /\ Sender'
    BY <1>e, <1>0, <1>1, Zenon DEF Types, Cmd, Sender, Closing, Closers, At,
       Disconnecting
  <1>5. Sweep'
    BY <1>e, <1>0, <1>1, Zenon DEF Types, Cmd, Sweep, Closing, Closers, At,
       Disconnecting
  <1>6. \A q \in Conns \ {c} : Same(q)
    BY <1>e, <1>0, <1>1, NoneAssumption, ZenonT(30) DEF Types, Cmd, Sender, Same,
       CmdJoins, CmdCloses, CmdShuts, TakerOf, At, Disconnecting, Closers, Closing
  <1>7. Count(c)'
    <2>1. SameUse(c, {})
      BY <1>e, <1>0, <1>1, <1>2, NoneAssumption, ZenonT(30) DEF SameUse, Cmd, Sender,
         TakerOf, At, Disconnecting, Types, Closing, Closers, Local, Listed,
         CmdShuts
    <2>2. Users(c)' \ {} = Users(c) \ {}
      BY <2>1, SameUsers, Zenon
    <2>3. Users(c)' = Users(c)
      BY <2>2, Zenon
    <2>4. /\ ref'[c] = ref[c]
          /\ tpc'[c] = "none" <=> tpc[c] = "none"
          /\ \/ where'[c] = where[c]
             \/ where'[c] \notin {"freed", "new"} /\ where[c] \notin {"freed", "new"}
      BY <1>e, <1>0, <1>1, Zenon DEF Types
    <2> QED
      BY <1>1, <1>2, <2>3, <2>4, CountKeeps, ZenonT(30) DEF Local
  <1>8. Listed(c)'
    BY <1>e, <1>0, <1>1, <1>2, Zenon DEF Types, Cmd, Local, Listed, Task,
       CmdJoins, CmdCloses, CmdShuts, TakerOf, At, Disconnecting, Closing, Closers,
       Ending, Handling
  <1>9. Task(c)'
    BY <1>e, <1>0, <1>1, <1>2, NoneAssumption, ZenonT(30) DEF Types, Cmd, Local,
       Task, CmdJoins, At, Disconnecting, Closing, Closers, Ending, Handling
  <1> QED
    BY <1>3, <1>4, <1>5, <1>6, <1>7, <1>8, <1>9, SameLocal, ZenonT(30) DEF PInv,
       Local

LEMMA Kthread_stopCmdStep ==
  ASSUME PInv, NEW c, c = kc, kthread_stop("cmd")
  PROVE  PInv'
  <1>0. Types /\ Cmd /\ Sender /\ Sweep
    BY Zenon DEF PInv
  <1>1. c \in Conns /\ c # "cmd" /\ c # None
    BY <1>0, NoneAssumption, Zenon DEF kthread_stop, Cmd, Sender, Closing
  <1>2. Local(c)
    BY <1>1, Zenon DEF PInv
  <1>e. /\ kpc["cmd"] = "join" /\ tpc[c] = "gone"
        /\ rtask' = [rtask EXCEPT ![c] = FALSE]
        /\ mtx' = [mtx EXCEPT ![c] = "free"]
        /\ kpc' = [kpc EXCEPT !["cmd"] = "close"]
        /\ UNCHANGED <<where, ref, stop, tpc, wq, kc, cop, late, spc, sc>>
    BY <1>0, <1>1, Zenon DEF kthread_stop, At, Disconnecting, conn, thread,
       closers, sender
  <1>3. Types'
    BY <1>e, <1>0, <1>1, Zenon DEF Types, Closers, At, Handling, Ending
  <1>4. Cmd' /\ Sender'
    BY <1>e, <1>0, <1>1, Zenon DEF Types, Cmd, Sender, Closing, Closers, At,
       Disconnecting
  <1>5. Sweep'
    BY <1>e, <1>0, <1>1, Zenon DEF Types, Cmd, Sweep, Closing, Closers, At,
       Disconnecting
  <1>6. \A q \in Conns \ {c} : Same(q)
    BY <1>e, <1>0, <1>1, NoneAssumption, ZenonT(30) DEF Types, Cmd, Sender,
       Same, CmdJoins, CmdCloses, CmdShuts, TakerOf, At, Disconnecting, Closers,
       Closing
  <1>7. Count(c)'
    <2>1. SameUse(c, {})
      BY <1>e, <1>0, <1>1, <1>2, NoneAssumption, ZenonT(30) DEF SameUse, Cmd,
         Sender, TakerOf, At, Disconnecting, Types, Closing, Closers, Local,
         Listed, CmdShuts
    <2>2. Users(c)' \ {} = Users(c) \ {}
      BY <2>1, SameUsers, Zenon
    <2>3. Users(c)' = Users(c)
      BY <2>2, Zenon
    <2>4. /\ ref'[c] = ref[c]
          /\ tpc'[c] = "none" <=> tpc[c] = "none"
          /\ \/ where'[c] = where[c]
             \/ where'[c] \notin {"freed", "new"} /\ where[c] \notin {"freed", "new"}
      BY <1>e, <1>0, <1>1, Zenon DEF Types
    <2> QED
      BY <1>1, <1>2, <2>3, <2>4, CountKeeps, ZenonT(30) DEF Local
  <1>8. Listed(c)'
    BY <1>e, <1>0, <1>1, <1>2, Zenon DEF Types, Cmd, Local, Listed, Task,
       CmdJoins, CmdCloses, CmdShuts, TakerOf, At, Disconnecting, Closing, Closers,
       Ending, Handling
  <1>9. Task(c)'
    BY <1>e, <1>0, <1>1, <1>2, NoneAssumption, ZenonT(30) DEF Types, Cmd, Local,
       Task, CmdJoins, At, Disconnecting, Closing, Closers, Ending, Handling
  <1> QED
    BY <1>3, <1>4, <1>5, <1>6, <1>7, <1>8, <1>9, SameLocal, ZenonT(30) DEF PInv,
       Local

LEMMA TakeCmdStep ==
  ASSUME PInv, NEW c, c = kc, OnList(c), Take("cmd")
  PROVE  PInv'
  <1>0. Types /\ Cmd /\ Sender /\ Sweep
    BY Zenon DEF PInv
  <1>1. c \in Conns /\ c # "cmd" /\ c # None
    BY <1>0, NoneAssumption, Zenon DEF Take, Cmd, Sender, Closing
  <1>2. Local(c)
    BY <1>1, Zenon DEF PInv
  <1>e. /\ kpc["cmd"] = "take" /\ where[c] = "impl"
        /\ where' = [where EXCEPT ![c] = "deleting"]
        /\ kpc' = [kpc EXCEPT !["cmd"] = "shut"]
        /\ UNCHANGED <<ref, rtask, stop, mtx, tpc, wq, kc, cop, late, spc, sc>>
    BY <1>0, <1>1, Zenon DEF Take, OnList, ToDeleting, At, Disconnecting, conn,
       thread, closers, sender
  <1>3. Types'
    BY <1>e, <1>0, <1>1, Zenon DEF Types, Closers, At, Handling, Ending
  <1>4. Cmd' /\ Sender'
    BY <1>e, <1>0, <1>1, Zenon DEF Types, Cmd, Sender, Closing, Closers, At,
       Disconnecting
  <1>5. Sweep'
    BY <1>e, <1>0, <1>1, Zenon DEF Types, Cmd, Sweep, Closing, Closers, At,
       Disconnecting
  <1>6. \A q \in Conns \ {c} : Same(q)
    BY <1>e, <1>0, <1>1, NoneAssumption, ZenonT(30) DEF Types, Cmd, Sender, Same,
       CmdJoins, CmdCloses, CmdShuts, TakerOf, At, Disconnecting, Closers, Closing
  <1>7. Count(c)'
    <2>1. SameUse(c, {"list", "command closes"})
      BY <1>e, <1>0, <1>1, <1>2, NoneAssumption, Zenon DEF SameUse, Cmd, Sender,
         TakerOf, At, Disconnecting, Types, Closing, Closers, Local, Listed,
         CmdShuts
    <2>2. Users(c)' \ {"list", "command closes"} = Users(c) \ {"list", "command closes"}
      BY <2>1, SameUsers, Zenon
    <2>5. /\ where[c] \in {"impl", "local"}
          /\ ~(where[c] \in {"impl", "local"})'
          /\ ~(TakerOf("cmd", c))
          /\ (TakerOf("cmd", c))'
      BY <1>e, <1>0, <1>1, <1>2, NoneAssumption, Zenon DEF Cmd, Sender, TakerOf,
         At, Disconnecting, Types, Closing, Closers, Local, Listed, CmdShuts
    <2>6. /\ "list" \in Users(c) /\ "command closes" \in Uses \ Users(c)
          /\ "command closes" \in Users(c)' /\ "list" \notin Users(c)'
      BY <2>5, Zenon DEF Users, Uses
    <2>3. Users(c)' = (Users(c) \ {"list"}) \cup {"command closes"}
      BY <2>2, <2>6, Zenon
    <2>4. /\ ref'[c] = ref[c]
          /\ tpc'[c] = "none" <=> tpc[c] = "none"
          /\ \/ where'[c] = where[c]
             \/ where'[c] \notin {"freed", "new"} /\ where[c] \notin {"freed", "new"}
      BY <1>e, <1>0, <1>1, Zenon DEF OnList, Types
    <2> QED
      BY <1>1, <1>2, <2>3, <2>4, <2>6, CountKeeps, ZenonT(30) DEF Local
  <1>8. Listed(c)'
    BY <1>e, <1>0, <1>1, <1>2, Zenon DEF Types, Cmd, Local, Listed, Task,
       CmdJoins, CmdCloses, CmdShuts, TakerOf, At, Disconnecting, Closing, Closers,
       Ending, Handling
  <1>9. Task(c)'
    BY <1>e, <1>0, <1>1, <1>2, NoneAssumption, ZenonT(30) DEF Types, Cmd, Local,
       Task, CmdJoins, At, Disconnecting, Closing, Closers, Ending, Handling
  <1> QED
    BY <1>3, <1>4, <1>5, <1>6, <1>7, <1>8, <1>9, SameLocal, ZenonT(30) DEF PInv,
       Local

LEMMA TakeNotCmdStep ==
  ASSUME PInv, NEW c, c = kc, ~OnList(c), Take("cmd")
  PROVE  PInv'
  <1>0. Types /\ Cmd /\ Sender /\ Sweep
    BY Zenon DEF PInv
  <1>1. c \in Conns /\ c # "cmd" /\ c # None
    BY <1>0, NoneAssumption, Zenon DEF Take, Cmd, Sender, Closing
  <1>2. Local(c)
    BY <1>1, Zenon DEF PInv
  <1>e. /\ kpc["cmd"] = "take"
        /\ kpc' = [kpc EXCEPT !["cmd"] = "drop"]
        /\ UNCHANGED <<where, ref, rtask, stop, mtx, tpc, wq, kc, cop, late, spc, sc>>
    BY <1>0, <1>1, Zenon DEF Take, OnList, At, Disconnecting, conn, thread,
       closers, sender
  <1>3. Types'
    BY <1>e, <1>0, <1>1, Zenon DEF Types, Closers, At, Handling, Ending
  <1>4. Cmd' /\ Sender'
    BY <1>e, <1>0, <1>1, Zenon DEF Types, Cmd, Sender, Closing, Closers, At,
       Disconnecting
  <1>5. Sweep'
    BY <1>e, <1>0, <1>1, Zenon DEF Types, Cmd, Sweep, Closing, Closers, At,
       Disconnecting
  <1>6. \A q \in Conns \ {c} : Same(q)
    BY <1>e, <1>0, <1>1, NoneAssumption, ZenonT(30) DEF Types, Cmd, Sender, Same,
       CmdJoins, CmdCloses, CmdShuts, TakerOf, At, Disconnecting, Closers, Closing
  <1>7. Count(c)'
    <2>1. SameUse(c, {})
      BY <1>e, <1>0, <1>1, <1>2, NoneAssumption, ZenonT(30) DEF SameUse, Cmd, Sender,
         TakerOf, At, Disconnecting, Types, Closing, Closers, Local, Listed,
         CmdShuts
    <2>2. Users(c)' \ {} = Users(c) \ {}
      BY <2>1, SameUsers, Zenon
    <2>3. Users(c)' = Users(c)
      BY <2>2, Zenon
    <2>4. /\ ref'[c] = ref[c]
          /\ tpc'[c] = "none" <=> tpc[c] = "none"
          /\ \/ where'[c] = where[c]
             \/ where'[c] \notin {"freed", "new"} /\ where[c] \notin {"freed", "new"}
      BY <1>e, <1>0, <1>1, Zenon DEF Types
    <2> QED
      BY <1>1, <1>2, <2>3, <2>4, CountKeeps, ZenonT(30) DEF Local
  <1>8. Listed(c)'
    BY <1>e, <1>0, <1>1, <1>2, Zenon DEF Types, Cmd, Local, Listed, Task,
       CmdJoins, CmdCloses, CmdShuts, TakerOf, At, Disconnecting, Closing, Closers,
       Ending, Handling
  <1>9. Task(c)'
    BY <1>e, <1>0, <1>1, <1>2, NoneAssumption, ZenonT(30) DEF Types, Cmd, Local,
       Task, CmdJoins, At, Disconnecting, Closing, Closers, Ending, Handling
  <1> QED
    BY <1>3, <1>4, <1>5, <1>6, <1>7, <1>8, <1>9, SameLocal, ZenonT(30) DEF PInv,
       Local

(* The reget work takes its connection down.                               *)
LEMMA CloserShutdownWorkStep ==
  ASSUME PInv, NEW c \in Conns, CloserShutdown(c)
  PROVE  PInv'
  <1>0. Types /\ Cmd /\ Sender /\ Sweep
    BY Zenon DEF PInv
  <1>1. c \in Conns /\ c # "cmd" /\ c # None
    BY <1>0, NoneAssumption, Zenon DEF CloserShutdown, Cmd, Sender, Closing
  <1>2. Local(c)
    BY <1>1, Zenon DEF PInv
  <1>e. /\ kpc[c] = "shut"
        /\ kpc' = [kpc EXCEPT ![c] = "lock"]
        /\ UNCHANGED <<where, ref, rtask, stop, mtx, tpc, wq, kc, cop, late, spc, sc>>
    BY <1>0, <1>1, Zenon DEF CloserShutdown, Shutdown, At, Disconnecting, conn,
       thread, closers, sender
  <1>3. Types'
    BY <1>e, <1>0, <1>1, Zenon DEF Types, Closers, At, Handling, Ending
  <1>4. Cmd' /\ Sender'
    BY <1>e, <1>0, <1>1, Zenon DEF Types, Cmd, Sender, Closing, Closers, At,
       Disconnecting
  <1>5. Sweep'
    BY <1>e, <1>0, <1>1, Zenon DEF Types, Cmd, Sweep, Closing, Closers, At,
       Disconnecting
  <1>6. \A q \in Conns \ {c} : Same(q)
    BY <1>e, <1>0, <1>1, NoneAssumption, ZenonT(30) DEF Types, Cmd, Sender, Same,
       CmdJoins, CmdCloses, CmdShuts, TakerOf, At, Disconnecting, Closers, Closing
  <1>7. Count(c)'
    <2>1. SameUse(c, {})
      BY <1>e, <1>0, <1>1, <1>2, NoneAssumption, ZenonT(30) DEF SameUse, Cmd, Sender,
         TakerOf, At, Disconnecting, Types, Closing, Closers, Local, Listed,
         CmdShuts
    <2>2. Users(c)' \ {} = Users(c) \ {}
      BY <2>1, SameUsers, Zenon
    <2>3. Users(c)' = Users(c)
      BY <2>2, Zenon
    <2>4. /\ ref'[c] = ref[c]
          /\ tpc'[c] = "none" <=> tpc[c] = "none"
          /\ \/ where'[c] = where[c]
             \/ where'[c] \notin {"freed", "new"} /\ where[c] \notin {"freed", "new"}
      BY <1>e, <1>0, <1>1, Zenon DEF Types
    <2> QED
      BY <1>1, <1>2, <2>3, <2>4, CountKeeps, ZenonT(30) DEF Local
  <1>8. Listed(c)'
    BY <1>e, <1>0, <1>1, <1>2, Zenon DEF Types, Cmd, Local, Listed, Task,
       CmdJoins, CmdCloses, CmdShuts, TakerOf, At, Disconnecting, Closing, Closers,
       Ending, Handling
  <1>9. Task(c)'
    BY <1>e, <1>0, <1>1, <1>2, NoneAssumption, ZenonT(30) DEF Types, Cmd, Local,
       Task, CmdJoins, At, Disconnecting, Closing, Closers, Ending, Handling
  <1> QED
    BY <1>3, <1>4, <1>5, <1>6, <1>7, <1>8, <1>9, SameLocal, ZenonT(30) DEF PInv,
       Local

LEMMA Tcp_close_socketWorkStep ==
  ASSUME PInv, NEW c \in Conns, rtask[c], tcp_close_socket(c)
  PROVE  PInv'
  <1>0. Types /\ Cmd /\ Sender /\ Sweep
    BY Zenon DEF PInv
  <1>1. c \in Conns /\ c # "cmd" /\ c # None
    BY <1>0, NoneAssumption, Zenon DEF tcp_close_socket, Cmd, Sender, Closing
  <1>2. Local(c)
    BY <1>1, Zenon DEF PInv
  <1>e. /\ kpc[c] = "lock" /\ mtx[c] = "free"
        /\ mtx' = [mtx EXCEPT ![c] = c]
        /\ stop' = [stop EXCEPT ![c] = TRUE]
        /\ kpc' = [kpc EXCEPT ![c] = "join"]
        /\ UNCHANGED <<where, ref, rtask, tpc, wq, kc, cop, late, spc, sc>>
    BY <1>0, <1>1, Zenon DEF tcp_close_socket, At, Disconnecting, conn, thread,
       closers, sender
  <1>3. Types'
    BY <1>e, <1>0, <1>1, Zenon DEF Types, Closers, At, Handling, Ending
  <1>4. Cmd' /\ Sender'
    BY <1>e, <1>0, <1>1, Zenon DEF Types, Cmd, Sender, Closing, Closers, At,
       Disconnecting
  <1>5. Sweep'
    BY <1>e, <1>0, <1>1, Zenon DEF Types, Cmd, Sweep, Closing, Closers, At,
       Disconnecting
  <1>6. \A q \in Conns \ {c} : Same(q)
    BY <1>e, <1>0, <1>1, NoneAssumption, ZenonT(30) DEF Types, Cmd, Sender, Same,
       CmdJoins, CmdCloses, CmdShuts, TakerOf, At, Disconnecting, Closers, Closing
  <1>7. Count(c)'
    <2>1. SameUse(c, {})
      BY <1>e, <1>0, <1>1, <1>2, NoneAssumption, ZenonT(30) DEF SameUse, Cmd, Sender,
         TakerOf, At, Disconnecting, Types, Closing, Closers, Local, Listed,
         CmdShuts
    <2>2. Users(c)' \ {} = Users(c) \ {}
      BY <2>1, SameUsers, Zenon
    <2>3. Users(c)' = Users(c)
      BY <2>2, Zenon
    <2>4. /\ ref'[c] = ref[c]
          /\ tpc'[c] = "none" <=> tpc[c] = "none"
          /\ \/ where'[c] = where[c]
             \/ where'[c] \notin {"freed", "new"} /\ where[c] \notin {"freed", "new"}
      BY <1>e, <1>0, <1>1, Zenon DEF Types
    <2> QED
      BY <1>1, <1>2, <2>3, <2>4, CountKeeps, ZenonT(30) DEF Local
  <1>8. Listed(c)'
    BY <1>e, <1>0, <1>1, <1>2, Zenon DEF Types, Cmd, Local, Listed, Task,
       CmdJoins, CmdCloses, CmdShuts, TakerOf, At, Disconnecting, Closing, Closers,
       Ending, Handling
  <1>9. Task(c)'
    BY <1>e, <1>0, <1>1, <1>2, NoneAssumption, ZenonT(30) DEF Types, Cmd, Local,
       Task, CmdJoins, At, Disconnecting, Closing, Closers, Ending, Handling
  <1> QED
    BY <1>3, <1>4, <1>5, <1>6, <1>7, <1>8, <1>9, SameLocal, ZenonT(30) DEF PInv,
       Local

LEMMA NoThreadWorkStep ==
  ASSUME PInv, NEW c \in Conns, ~rtask[c], tcp_close_socket(c)
  PROVE  PInv'
  <1>0. Types /\ Cmd /\ Sender /\ Sweep
    BY Zenon DEF PInv
  <1>1. c \in Conns /\ c # "cmd" /\ c # None
    BY <1>0, NoneAssumption, Zenon DEF tcp_close_socket, Cmd, Sender, Closing
  <1>2. Local(c)
    BY <1>1, Zenon DEF PInv
  <1>e. /\ kpc[c] = "lock"
        /\ kpc' = [kpc EXCEPT ![c] = "close"]
        /\ UNCHANGED <<where, ref, rtask, stop, mtx, tpc, wq, kc, cop, late, spc, sc>>
    BY <1>0, <1>1, Zenon DEF tcp_close_socket, At, Disconnecting, conn, thread,
       closers, sender
  <1>3. Types'
    BY <1>e, <1>0, <1>1, Zenon DEF Types, Closers, At, Handling, Ending
  <1>4. Cmd' /\ Sender'
    BY <1>e, <1>0, <1>1, Zenon DEF Types, Cmd, Sender, Closing, Closers, At,
       Disconnecting
  <1>5. Sweep'
    BY <1>e, <1>0, <1>1, Zenon DEF Types, Cmd, Sweep, Closing, Closers, At,
       Disconnecting
  <1>6. \A q \in Conns \ {c} : Same(q)
    BY <1>e, <1>0, <1>1, NoneAssumption, ZenonT(30) DEF Types, Cmd, Sender, Same,
       CmdJoins, CmdCloses, CmdShuts, TakerOf, At, Disconnecting, Closers, Closing
  <1>7. Count(c)'
    <2>1. SameUse(c, {})
      BY <1>e, <1>0, <1>1, <1>2, NoneAssumption, ZenonT(30) DEF SameUse, Cmd, Sender,
         TakerOf, At, Disconnecting, Types, Closing, Closers, Local, Listed,
         CmdShuts
    <2>2. Users(c)' \ {} = Users(c) \ {}
      BY <2>1, SameUsers, Zenon
    <2>3. Users(c)' = Users(c)
      BY <2>2, Zenon
    <2>4. /\ ref'[c] = ref[c]
          /\ tpc'[c] = "none" <=> tpc[c] = "none"
          /\ \/ where'[c] = where[c]
             \/ where'[c] \notin {"freed", "new"} /\ where[c] \notin {"freed", "new"}
      BY <1>e, <1>0, <1>1, Zenon DEF Types
    <2> QED
      BY <1>1, <1>2, <2>3, <2>4, CountKeeps, ZenonT(30) DEF Local
  <1>8. Listed(c)'
    BY <1>e, <1>0, <1>1, <1>2, Zenon DEF Types, Cmd, Local, Listed, Task,
       CmdJoins, CmdCloses, CmdShuts, TakerOf, At, Disconnecting, Closing, Closers,
       Ending, Handling
  <1>9. Task(c)'
    BY <1>e, <1>0, <1>1, <1>2, NoneAssumption, ZenonT(30) DEF Types, Cmd, Local,
       Task, CmdJoins, At, Disconnecting, Closing, Closers, Ending, Handling
  <1> QED
    BY <1>3, <1>4, <1>5, <1>6, <1>7, <1>8, <1>9, SameLocal, ZenonT(30) DEF PInv,
       Local

LEMMA Kthread_stopWorkStep ==
  ASSUME PInv, NEW c \in Conns, kthread_stop(c)
  PROVE  PInv'
  <1>0. Types /\ Cmd /\ Sender /\ Sweep
    BY Zenon DEF PInv
  <1>1. c \in Conns /\ c # "cmd" /\ c # None
    BY <1>0, NoneAssumption, Zenon DEF kthread_stop, Cmd, Sender, Closing
  <1>2. Local(c)
    BY <1>1, Zenon DEF PInv
  <1>e. /\ kpc[c] = "join" /\ tpc[c] = "gone"
        /\ rtask' = [rtask EXCEPT ![c] = FALSE]
        /\ mtx' = [mtx EXCEPT ![c] = "free"]
        /\ kpc' = [kpc EXCEPT ![c] = "close"]
        /\ UNCHANGED <<where, ref, stop, tpc, wq, kc, cop, late, spc, sc>>
    BY <1>0, <1>1, Zenon DEF kthread_stop, At, Disconnecting, conn, thread,
       closers, sender
  <1>3. Types'
    BY <1>e, <1>0, <1>1, Zenon DEF Types, Closers, At, Handling, Ending
  <1>4. Cmd' /\ Sender'
    BY <1>e, <1>0, <1>1, Zenon DEF Types, Cmd, Sender, Closing, Closers, At,
       Disconnecting
  <1>5. Sweep'
    BY <1>e, <1>0, <1>1, Zenon DEF Types, Cmd, Sweep, Closing, Closers, At,
       Disconnecting
  <1>6. \A q \in Conns \ {c} : Same(q)
    BY <1>e, <1>0, <1>1, NoneAssumption, ZenonT(30) DEF Types, Cmd, Sender,
       Same, CmdJoins, CmdCloses, CmdShuts, TakerOf, At, Disconnecting, Closers,
       Closing
  <1>7. Count(c)'
    <2>1. SameUse(c, {})
      BY <1>e, <1>0, <1>1, <1>2, NoneAssumption, ZenonT(30) DEF SameUse, Cmd,
         Sender, TakerOf, At, Disconnecting, Types, Closing, Closers, Local,
         Listed, CmdShuts
    <2>2. Users(c)' \ {} = Users(c) \ {}
      BY <2>1, SameUsers, Zenon
    <2>3. Users(c)' = Users(c)
      BY <2>2, Zenon
    <2>4. /\ ref'[c] = ref[c]
          /\ tpc'[c] = "none" <=> tpc[c] = "none"
          /\ \/ where'[c] = where[c]
             \/ where'[c] \notin {"freed", "new"} /\ where[c] \notin {"freed", "new"}
      BY <1>e, <1>0, <1>1, Zenon DEF Types
    <2> QED
      BY <1>1, <1>2, <2>3, <2>4, CountKeeps, ZenonT(30) DEF Local
  <1>8. Listed(c)'
    BY <1>e, <1>0, <1>1, <1>2, Zenon DEF Types, Cmd, Local, Listed, Task,
       CmdJoins, CmdCloses, CmdShuts, TakerOf, At, Disconnecting, Closing, Closers,
       Ending, Handling
  <1>9. Task(c)'
    BY <1>e, <1>0, <1>1, <1>2, NoneAssumption, ZenonT(30) DEF Types, Cmd, Local,
       Task, CmdJoins, At, Disconnecting, Closing, Closers, Ending, Handling
  <1> QED
    BY <1>3, <1>4, <1>5, <1>6, <1>7, <1>8, <1>9, SameLocal, ZenonT(30) DEF PInv,
       Local

LEMMA TakeWorkStep ==
  ASSUME PInv, NEW c \in Conns, OnList(c), Take(c)
  PROVE  PInv'
  <1>0. Types /\ Cmd /\ Sender /\ Sweep
    BY Zenon DEF PInv
  <1>1. c \in Conns /\ c # "cmd" /\ c # None
    BY <1>0, NoneAssumption, Zenon DEF Take, Cmd, Sender, Closing
  <1>2. Local(c)
    BY <1>1, Zenon DEF PInv
  <1>e. /\ kpc[c] = "take" /\ where[c] = "impl"
        /\ where' = [where EXCEPT ![c] = "deleting"]
        /\ kpc' = [kpc EXCEPT ![c] = "shut"]
        /\ UNCHANGED <<ref, rtask, stop, mtx, tpc, wq, kc, cop, late, spc, sc>>
    BY <1>0, <1>1, Zenon DEF Take, OnList, ToDeleting, At, Disconnecting, conn,
       thread, closers, sender
  <1>3. Types'
    BY <1>e, <1>0, <1>1, Zenon DEF Types, Closers, At, Handling, Ending
  <1>4. Cmd' /\ Sender'
    BY <1>e, <1>0, <1>1, Zenon DEF Types, Cmd, Sender, Closing, Closers, At,
       Disconnecting
  <1>5. Sweep'
    BY <1>e, <1>0, <1>1, Zenon DEF Types, Cmd, Sweep, Closing, Closers, At,
       Disconnecting
  <1>6. \A q \in Conns \ {c} : Same(q)
    BY <1>e, <1>0, <1>1, NoneAssumption, ZenonT(30) DEF Types, Cmd, Sender, Same,
       CmdJoins, CmdCloses, CmdShuts, TakerOf, At, Disconnecting, Closers, Closing
  <1>7. Count(c)'
    <2>1. SameUse(c, {"list", "work closes"})
      BY <1>e, <1>0, <1>1, <1>2, NoneAssumption, Zenon DEF SameUse, Cmd, Sender,
         TakerOf, At, Disconnecting, Types, Closing, Closers, Local, Listed,
         CmdShuts
    <2>2. Users(c)' \ {"list", "work closes"} = Users(c) \ {"list", "work closes"}
      BY <2>1, SameUsers, Zenon
    <2>5. /\ where[c] \in {"impl", "local"}
          /\ ~(where[c] \in {"impl", "local"})'
          /\ ~(TakerOf(c, c))
          /\ (TakerOf(c, c))'
      BY <1>e, <1>0, <1>1, <1>2, NoneAssumption, Zenon DEF Cmd, Sender, TakerOf,
         At, Disconnecting, Types, Closing, Closers, Local, Listed, CmdShuts
    <2>6. /\ "list" \in Users(c) /\ "work closes" \in Uses \ Users(c)
          /\ "work closes" \in Users(c)' /\ "list" \notin Users(c)'
      BY <2>5, Zenon DEF Users, Uses
    <2>3. Users(c)' = (Users(c) \ {"list"}) \cup {"work closes"}
      BY <2>2, <2>6, Zenon
    <2>4. /\ ref'[c] = ref[c]
          /\ tpc'[c] = "none" <=> tpc[c] = "none"
          /\ \/ where'[c] = where[c]
             \/ where'[c] \notin {"freed", "new"} /\ where[c] \notin {"freed", "new"}
      BY <1>e, <1>0, <1>1, Zenon DEF OnList, Types
    <2> QED
      BY <1>1, <1>2, <2>3, <2>4, <2>6, CountKeeps, ZenonT(30) DEF Local
  <1>8. Listed(c)'
    BY <1>e, <1>0, <1>1, <1>2, Zenon DEF Types, Cmd, Local, Listed, Task,
       CmdJoins, CmdCloses, CmdShuts, TakerOf, At, Disconnecting, Closing, Closers,
       Ending, Handling
  <1>9. Task(c)'
    BY <1>e, <1>0, <1>1, <1>2, NoneAssumption, ZenonT(30) DEF Types, Cmd, Local,
       Task, CmdJoins, At, Disconnecting, Closing, Closers, Ending, Handling
  <1> QED
    BY <1>3, <1>4, <1>5, <1>6, <1>7, <1>8, <1>9, SameLocal, ZenonT(30) DEF PInv,
       Local

LEMMA TakeNotWorkStep ==
  ASSUME PInv, NEW c \in Conns, ~OnList(c), Take(c)
  PROVE  PInv'
  <1>0. Types /\ Cmd /\ Sender /\ Sweep
    BY Zenon DEF PInv
  <1>1. c \in Conns /\ c # "cmd" /\ c # None
    BY <1>0, NoneAssumption, Zenon DEF Take, Cmd, Sender, Closing
  <1>2. Local(c)
    BY <1>1, Zenon DEF PInv
  <1>e. /\ kpc[c] = "take"
        /\ kpc' = [kpc EXCEPT ![c] = "put"]
        /\ UNCHANGED <<where, ref, rtask, stop, mtx, tpc, wq, kc, cop, late, spc, sc>>
    BY <1>0, <1>1, Zenon DEF Take, OnList, At, Disconnecting, conn, thread,
       closers, sender
  <1>3. Types'
    BY <1>e, <1>0, <1>1, Zenon DEF Types, Closers, At, Handling, Ending
  <1>4. Cmd' /\ Sender'
    BY <1>e, <1>0, <1>1, Zenon DEF Types, Cmd, Sender, Closing, Closers, At,
       Disconnecting
  <1>5. Sweep'
    BY <1>e, <1>0, <1>1, Zenon DEF Types, Cmd, Sweep, Closing, Closers, At,
       Disconnecting
  <1>6. \A q \in Conns \ {c} : Same(q)
    BY <1>e, <1>0, <1>1, NoneAssumption, ZenonT(30) DEF Types, Cmd, Sender, Same,
       CmdJoins, CmdCloses, CmdShuts, TakerOf, At, Disconnecting, Closers, Closing
  <1>7. Count(c)'
    <2>1. SameUse(c, {})
      BY <1>e, <1>0, <1>1, <1>2, NoneAssumption, ZenonT(30) DEF SameUse, Cmd, Sender,
         TakerOf, At, Disconnecting, Types, Closing, Closers, Local, Listed,
         CmdShuts
    <2>2. Users(c)' \ {} = Users(c) \ {}
      BY <2>1, SameUsers, Zenon
    <2>3. Users(c)' = Users(c)
      BY <2>2, Zenon
    <2>4. /\ ref'[c] = ref[c]
          /\ tpc'[c] = "none" <=> tpc[c] = "none"
          /\ \/ where'[c] = where[c]
             \/ where'[c] \notin {"freed", "new"} /\ where[c] \notin {"freed", "new"}
      BY <1>e, <1>0, <1>1, Zenon DEF Types
    <2> QED
      BY <1>1, <1>2, <2>3, <2>4, CountKeeps, ZenonT(30) DEF Local
  <1>8. Listed(c)'
    BY <1>e, <1>0, <1>1, <1>2, Zenon DEF Types, Cmd, Local, Listed, Task,
       CmdJoins, CmdCloses, CmdShuts, TakerOf, At, Disconnecting, Closing, Closers,
       Ending, Handling
  <1>9. Task(c)'
    BY <1>e, <1>0, <1>1, <1>2, NoneAssumption, ZenonT(30) DEF Types, Cmd, Local,
       Task, CmdJoins, At, Disconnecting, Closing, Closers, Ending, Handling
  <1> QED
    BY <1>3, <1>4, <1>5, <1>6, <1>7, <1>8, <1>9, SameLocal, ZenonT(30) DEF PInv,
       Local

LEMMA DropListWorkStep ==
  ASSUME PInv, NEW c \in Conns, DropList(c)
  PROVE  PInv'
  <1>0. Types /\ Cmd /\ Sender /\ Sweep
    BY Zenon DEF PInv
  <1>1. c \in Conns /\ c # "cmd" /\ c # None
    BY <1>0, NoneAssumption, Zenon DEF DropList, connection_notify_to_close, Cmd, Sender, Closing
  <1>2. Local(c)
    BY <1>1, Zenon DEF PInv
  <1>e. /\ kpc[c] = "close"
        /\ ref' = [ref EXCEPT ![c] = @ - 1]
        /\ where' = [where EXCEPT ![c] = IF ref[c] = 1 THEN "freed" ELSE @]
        /\ kpc' = [kpc EXCEPT ![c] = "put"]
        /\ UNCHANGED <<rtask, stop, mtx, tpc, wq, kc, cop, late, spc, sc>>
    BY <1>0, <1>1, Zenon DEF DropList, connection_notify_to_close, connection_put, At,
       Disconnecting, conn, thread, closers, sender
  <1>a. "work closes" \in Users(c)
    <2>1. TakerOf(c, c)
      BY <1>e, <1>0, <1>1, <1>2, NoneAssumption, Zenon DEF Cmd, Sender, TakerOf,
         At, Disconnecting, Types, Closing, Closers, Local, Listed, CmdShuts
    <2> QED
      BY <2>1, Zenon DEF Users, Uses
  <1>b. ref[c] = 1 =>
          /\ where[c] \notin {"impl", "local"}
          /\ tpc[c] \in {"none", "gone"}
          /\ tpc[c] \notin {"fin", "hfin"}
          /\ ~(kc = c /\ cop = "add")
          /\ ~TakerOf("cmd", c)
          /\ ~wq[c]
          /\ kpc[c] = "idle"
          /\ sc # c
    BY <1>1, <1>2, <1>a, Alone, Zenon DEF Local
  <1>3. Types'
    BY <1>e, <1>0, <1>1 DEF Types, Closers, At, Handling, Ending
  <1>4. Cmd' /\ Sender'
    BY <1>e, <1>0, <1>1, Zenon DEF Types, Cmd, Sender, Closing, Closers, At,
       Disconnecting
  <1>5. Sweep'
    BY <1>e, <1>0, <1>1, Zenon DEF Types, Cmd, Sweep, Closing, Closers, At,
       Disconnecting
  <1>6. \A q \in Conns \ {c} : Same(q)
    BY <1>e, <1>0, <1>1, NoneAssumption, ZenonT(30) DEF Types, Cmd, Sender, Same,
       CmdJoins, CmdCloses, CmdShuts, TakerOf, At, Disconnecting, Closers, Closing
  <1>7. Count(c)'
    <2>1. SameUse(c, {"work closes"})
      BY <1>e, <1>0, <1>1, <1>2, NoneAssumption, <1>b, Zenon DEF SameUse, Cmd,
         Sender, TakerOf, At, Disconnecting, Types, Closing, Closers, Local,
         Listed, CmdShuts
    <2>2. Users(c)' \ {"work closes"} = Users(c) \ {"work closes"}
      BY <2>1, SameUsers, Zenon
    <2>3. ~(TakerOf(c, c))'
      BY <1>e, <1>0, <1>1, <1>2, NoneAssumption, Zenon DEF Cmd, Sender, TakerOf,
         At, Disconnecting, Types, Closing, Closers, Local, Listed, CmdShuts
    <2>4. "work closes" \notin Users(c)'
      BY <2>3, Zenon DEF Users, Uses
    <2>5. Users(c)' = Users(c) \ {"work closes"}
      BY <2>2, <2>4, Zenon
    <2>6. /\ ref'[c] = ref[c] - 1
          /\ ref[c] = 1 => where'[c] = "freed"
          /\ ref[c] # 1 => where'[c] \in {where[c], "off"}
      BY <1>e, <1>0, <1>1, Zenon DEF Types, Disconnecting, At
    <2> QED
      BY <1>1, <1>2, <1>a, <2>5, <2>6, CountPuts, Zenon DEF Local
  <1>8. Listed(c)'
    BY <1>e, <1>0, <1>1, <1>2, <1>b, Zenon DEF Types, Cmd, Local, Listed, Task,
       CmdJoins, CmdCloses, CmdShuts, TakerOf, At, Disconnecting, Closing, Closers,
       Ending, Handling
  <1>9. Task(c)'
    BY <1>e, <1>0, <1>1, <1>2, NoneAssumption, ZenonT(30) DEF Types, Cmd, Local,
       Task, CmdJoins, At, Disconnecting, Closing, Closers, Ending, Handling
  <1> QED
    BY <1>3, <1>4, <1>5, <1>6, <1>7, <1>8, <1>9, SameLocal, ZenonT(30) DEF PInv,
       Local

LEMMA DropListAddStep ==
  ASSUME PInv, NEW c, c = kc, cop = "add", DropList("cmd")
  PROVE  PInv'
  <1>0. Types /\ Cmd /\ Sender /\ Sweep
    BY Zenon DEF PInv
  <1>1. c \in Conns /\ c # "cmd" /\ c # None
    BY <1>0, NoneAssumption, Zenon DEF DropList, connection_notify_to_close, Cmd, Sender, Closing
  <1>2. Local(c)
    BY <1>1, Zenon DEF PInv
  <1>e. /\ kpc["cmd"] = "close"
        /\ ref' = [ref EXCEPT ![c] = @ - 1]
        /\ where' = [where EXCEPT ![c] = IF ref[c] = 1 THEN "freed" ELSE @]
        /\ kpc' = [kpc EXCEPT !["cmd"] = "drop"]
        /\ UNCHANGED <<rtask, stop, mtx, tpc, wq, kc, cop, late, spc, sc>>
    BY <1>0, <1>1, Zenon DEF DropList, connection_notify_to_close, connection_put, At,
       Disconnecting, conn, thread, closers, sender
  <1>a. "command closes" \in Users(c)
    <2>1. TakerOf("cmd", c)
      BY <1>e, <1>0, <1>1, <1>2, NoneAssumption, Zenon DEF Cmd, Sender, TakerOf,
         At, Disconnecting, Types, Closing, Closers, Local, Listed, CmdShuts
    <2> QED
      BY <2>1, Zenon DEF Users, Uses
  <1>b. ref[c] = 1 =>
          /\ where[c] \notin {"impl", "local"}
          /\ tpc[c] \in {"none", "gone"}
          /\ tpc[c] \notin {"fin", "hfin"}
          /\ ~(kc = c /\ cop = "add")
          /\ ~wq[c]
          /\ kpc[c] = "idle"
          /\ ~TakerOf(c, c)
          /\ sc # c
    BY <1>1, <1>2, <1>a, Alone, Zenon DEF Local
  <1>3. Types'
    BY <1>e, <1>0, <1>1 DEF Types, Closers, At, Handling, Ending
  <1>4. Cmd' /\ Sender'
    BY <1>e, <1>0, <1>1, Zenon DEF Types, Cmd, Sender, Closing, Closers, At,
       Disconnecting
  <1>5. Sweep'
    BY <1>e, <1>0, <1>1, Zenon DEF Types, Cmd, Sweep, Closing, Closers, At,
       Disconnecting
  <1>6. \A q \in Conns \ {c} : Same(q)
    BY <1>e, <1>0, <1>1, NoneAssumption, ZenonT(30) DEF Types, Cmd, Sender, Same,
       CmdJoins, CmdCloses, CmdShuts, TakerOf, At, Disconnecting, Closers, Closing
  <1>7. Count(c)'
    <2>1. SameUse(c, {"command closes"})
      BY <1>e, <1>0, <1>1, <1>2, NoneAssumption, <1>b, Zenon DEF SameUse, Cmd,
         Sender, TakerOf, At, Disconnecting, Types, Closing, Closers, Local,
         Listed, CmdShuts
    <2>2. Users(c)' \ {"command closes"} = Users(c) \ {"command closes"}
      BY <2>1, SameUsers, Zenon
    <2>3. ~(TakerOf("cmd", c))'
      BY <1>e, <1>0, <1>1, <1>2, NoneAssumption, Zenon DEF Cmd, Sender, TakerOf,
         At, Disconnecting, Types, Closing, Closers, Local, Listed, CmdShuts
    <2>4. "command closes" \notin Users(c)'
      BY <2>3, Zenon DEF Users, Uses
    <2>5. Users(c)' = Users(c) \ {"command closes"}
      BY <2>2, <2>4, Zenon
    <2>6. /\ ref'[c] = ref[c] - 1
          /\ ref[c] = 1 => where'[c] = "freed"
          /\ ref[c] # 1 => where'[c] \in {where[c], "off"}
      BY <1>e, <1>0, <1>1, Zenon DEF Types, Disconnecting, At
    <2> QED
      BY <1>1, <1>2, <1>a, <2>5, <2>6, CountPuts, Zenon DEF Local
  <1>8. Listed(c)'
    BY <1>e, <1>0, <1>1, <1>2, <1>b, Zenon DEF Types, Cmd, Local, Listed, Task,
       CmdJoins, CmdCloses, CmdShuts, TakerOf, At, Disconnecting, Closing, Closers,
       Ending, Handling
  <1>9. Task(c)'
    BY <1>e, <1>0, <1>1, <1>2, NoneAssumption, ZenonT(30) DEF Types, Cmd, Local,
       Task, CmdJoins, At, Disconnecting, Closing, Closers, Ending, Handling
  <1> QED
    BY <1>3, <1>4, <1>5, <1>6, <1>7, <1>8, <1>9, SameLocal, ZenonT(30) DEF PInv,
       Local

LEMMA DropListOffStep ==
  ASSUME PInv, NEW c, c = kc, cop # "add", DropList("cmd")
  PROVE  PInv'
  <1>0. Types /\ Cmd /\ Sender /\ Sweep
    BY Zenon DEF PInv
  <1>1. c \in Conns /\ c # "cmd" /\ c # None
    BY <1>0, NoneAssumption, Zenon DEF DropList, connection_notify_to_close, Cmd, Sender, Closing
  <1>2. Local(c)
    BY <1>1, Zenon DEF PInv
  <1>e. /\ kpc["cmd"] = "close" /\ cop = "off"
        /\ ref' = [ref EXCEPT ![c] = @ - 1]
        /\ where' = [where EXCEPT ![c] = IF ref[c] = 1 THEN "freed" ELSE "off"]
        /\ kpc' = [kpc EXCEPT !["cmd"] = "next"]
        /\ UNCHANGED <<rtask, stop, mtx, tpc, wq, kc, cop, late, spc, sc>>
    BY <1>0, <1>1, Zenon DEF DropList, connection_notify_to_close, connection_put, At,
       Disconnecting, conn, thread, closers, sender, Types, Cmd, Closing
  <1>a. "list" \in Users(c)
    <2>1. where[c] \in {"impl", "local"}
      BY <1>e, <1>0, <1>1, <1>2, NoneAssumption, Zenon DEF Cmd, Sender, TakerOf,
         At, Disconnecting, Types, Closing, Closers, Local, Listed, CmdShuts
    <2> QED
      BY <2>1, Zenon DEF Users, Uses
  <1>b. ref[c] = 1 =>
          /\ tpc[c] \in {"none", "gone"}
          /\ tpc[c] \notin {"fin", "hfin"}
          /\ ~(kc = c /\ cop = "add")
          /\ ~TakerOf("cmd", c)
          /\ ~wq[c]
          /\ kpc[c] = "idle"
          /\ ~TakerOf(c, c)
          /\ sc # c
    BY <1>1, <1>2, <1>a, Alone, Zenon DEF Local
  <1>3. Types'
    BY <1>e, <1>0, <1>1 DEF Types, Closers, At, Handling, Ending
  <1>4. Cmd' /\ Sender'
    BY <1>e, <1>0, <1>1, Zenon DEF Types, Cmd, Sender, Closing, Closers, At,
       Disconnecting
  <1>5. Sweep'
    BY <1>e, <1>0, <1>1, Zenon DEF Types, Cmd, Sweep, Closing, Closers, At,
       Disconnecting
  <1>6. \A q \in Conns \ {c} : Same(q)
    BY <1>e, <1>0, <1>1, NoneAssumption, ZenonT(30) DEF Types, Cmd, Sender, Same,
       CmdJoins, CmdCloses, CmdShuts, TakerOf, At, Disconnecting, Closers, Closing
  <1>7. Count(c)'
    <2>1. SameUse(c, {"list"})
      BY <1>e, <1>0, <1>1, <1>2, NoneAssumption, <1>b, ZenonT(30) DEF SameUse,
         Cmd, Sender, TakerOf, At, Disconnecting, Types, Closing, Closers, Local,
         Listed, CmdShuts
    <2>2. Users(c)' \ {"list"} = Users(c) \ {"list"}
      BY <2>1, SameUsers, Zenon
    <2>3. ~(where[c] \in {"impl", "local"})'
      BY <1>e, <1>0, <1>1, <1>2, NoneAssumption, Zenon DEF Cmd, Sender, TakerOf,
         At, Disconnecting, Types, Closing, Closers, Local, Listed, CmdShuts
    <2>4. "list" \notin Users(c)'
      BY <2>3, Zenon DEF Users, Uses
    <2>5. Users(c)' = Users(c) \ {"list"}
      BY <2>2, <2>4, Zenon
    <2>6. /\ ref'[c] = ref[c] - 1
          /\ ref[c] = 1 => where'[c] = "freed"
          /\ ref[c] # 1 => where'[c] \in {where[c], "off"}
      BY <1>e, <1>0, <1>1, Zenon DEF Types, Disconnecting, At
    <2> QED
      BY <1>1, <1>2, <1>a, <2>5, <2>6, CountPuts, Zenon DEF Local
  <1>8. Listed(c)'
    BY <1>e, <1>0, <1>1, <1>2, <1>b, Zenon DEF Types, Cmd, Local, Listed, Task,
       CmdJoins, CmdCloses, CmdShuts, TakerOf, At, Disconnecting, Closing, Closers,
       Ending, Handling
  <1>9. Task(c)'
    BY <1>e, <1>0, <1>1, <1>2, NoneAssumption, ZenonT(30) DEF Types, Cmd, Local,
       Task, CmdJoins, At, Disconnecting, Closing, Closers, Ending, Handling
  <1> QED
    BY <1>3, <1>4, <1>5, <1>6, <1>7, <1>8, <1>9, SameLocal, ZenonT(30) DEF PInv,
       Local

(* The receive thread takes its connection down.                           *)
LEMMA RecvTakeStep ==
  ASSUME PInv, NEW c \in Conns, OnList(c), RecvTake(c)
  PROVE  PInv'
  <1>0. Types /\ Cmd /\ Sender /\ Sweep
    BY Zenon DEF PInv
  <1>1. c \in Conns /\ c # "cmd" /\ c # None
    BY <1>0, NoneAssumption, Zenon DEF RecvTake, Cmd, Sender, Closing
  <1>2. Local(c)
    BY <1>1, Zenon DEF PInv
  <1>e. /\ tpc[c] \in {"take", "htake"} /\ where[c] = "impl"
        /\ where' = [where EXCEPT ![c] = "deleting"]
        /\ tpc' = [tpc EXCEPT ![c] = IF @ = "take" THEN "fin" ELSE "hfin"]
        /\ UNCHANGED <<ref, rtask, stop, mtx, wq, kpc, kc, cop, late, spc, sc>>
    BY <1>0, <1>1, Zenon DEF RecvTake, OnList, ToDeleting, At, Disconnecting,
       conn, thread, closers, sender
  <1>3. Types'
    BY <1>e, <1>0, <1>1, Zenon DEF Types, Closers, At, Handling, Ending
  <1>4. Cmd' /\ Sender'
    BY <1>e, <1>0, <1>1, Zenon DEF Types, Cmd, Sender, Closing, Closers, At,
       Disconnecting
  <1>5. Sweep'
    BY <1>e, <1>0, <1>1, Zenon DEF Types, Cmd, Sweep, Closing, Closers, At,
       Disconnecting
  <1>6. \A q \in Conns \ {c} : Same(q)
    BY <1>e, <1>0, <1>1, NoneAssumption, ZenonT(30) DEF Types, Cmd, Sender, Same,
       CmdJoins, CmdCloses, CmdShuts, TakerOf, At, Disconnecting, Closers, Closing
  <1>7. Count(c)'
    <2>1. SameUse(c, {"list", "thread closes"})
      BY <1>e, <1>0, <1>1, <1>2, NoneAssumption, Zenon DEF SameUse, Cmd, Sender,
         TakerOf, At, Disconnecting, Types, Closing, Closers, Local, Listed,
         CmdShuts
    <2>2. Users(c)' \ {"list", "thread closes"} = Users(c) \ {"list", "thread closes"}
      BY <2>1, SameUsers, Zenon
    <2>5. /\ where[c] \in {"impl", "local"}
          /\ ~(where[c] \in {"impl", "local"})'
          /\ ~(tpc[c] \in {"fin", "hfin"})
          /\ (tpc[c] \in {"fin", "hfin"})'
      BY <1>e, <1>0, <1>1, <1>2, NoneAssumption, Zenon DEF Cmd, Sender, TakerOf,
         At, Disconnecting, Types, Closing, Closers, Local, Listed, CmdShuts
    <2>6. /\ "list" \in Users(c) /\ "thread closes" \in Uses \ Users(c)
          /\ "thread closes" \in Users(c)' /\ "list" \notin Users(c)'
      BY <2>5, Zenon DEF Users, Uses
    <2>3. Users(c)' = (Users(c) \ {"list"}) \cup {"thread closes"}
      BY <2>2, <2>6, Zenon
    <2>4. /\ ref'[c] = ref[c]
          /\ tpc'[c] = "none" <=> tpc[c] = "none"
          /\ \/ where'[c] = where[c]
             \/ where'[c] \notin {"freed", "new"} /\ where[c] \notin {"freed", "new"}
      BY <1>e, <1>0, <1>1, Zenon DEF OnList, Types
    <2> QED
      BY <1>1, <1>2, <2>3, <2>4, <2>6, CountKeeps, ZenonT(30) DEF Local
  <1>8. Listed(c)'
    BY <1>e, <1>0, <1>1, <1>2, Zenon DEF Types, Cmd, Local, Listed, Task,
       CmdJoins, CmdCloses, CmdShuts, TakerOf, At, Disconnecting, Closing, Closers,
       Ending, Handling
  <1>9. Task(c)'
    BY <1>e, <1>0, <1>1, <1>2, NoneAssumption, ZenonT(30) DEF Types, Cmd, Local,
       Task, CmdJoins, At, Disconnecting, Closing, Closers, Ending, Handling
  <1> QED
    BY <1>3, <1>4, <1>5, <1>6, <1>7, <1>8, <1>9, SameLocal, ZenonT(30) DEF PInv,
       Local

(* A new connection: for the list, the thread and the command.             *)
LEMMA Update_socketStep ==
  ASSUME PInv, NEW c \in Conns, update_socket(c)
  PROVE  PInv'
  <1>0. Types /\ Cmd /\ Sender /\ Sweep
    BY Zenon DEF PInv
  <1>1. c \in Conns /\ c # "cmd" /\ c # None
    BY <1>0, NoneAssumption, Zenon DEF update_socket, Cmd, Sender, Closing
  <1>2. Local(c)
    BY <1>1, Zenon DEF PInv
  <1>e. /\ kpc["cmd"] = "idle" /\ where[c] = "new"
        /\ where' = [where EXCEPT ![c] = "impl"]
        /\ ref' = [ref EXCEPT ![c] = 3]
        /\ rtask' = [rtask EXCEPT ![c] = TRUE]
        /\ tpc' = [tpc EXCEPT ![c] = "loop"]
        /\ \E x \in {"hello", "drop"} : kpc' = [kpc EXCEPT !["cmd"] = x]
        /\ kc' = c /\ cop' = "add"
        /\ UNCHANGED <<stop, mtx, wq, late, spc, sc>>
    BY <1>0, <1>1, Zenon DEF update_socket, At, Disconnecting, conn, thread,
       closers, sender
  <1>b. Users(c) = {} /\ ~wq[c] /\ kpc[c] = "idle" /\ sc # c
    <2>1. Users(c) = {}
      <3>1. Cardinality(Users(c)) = 0
        BY <1>e, <1>2, Zenon DEF Local, Count
      <3> QED
        BY <3>1, UsersFinite, FS_EmptySet, Zenon
    <2> QED
      BY <2>1, UserIs, Zenon
  <1>3. Types'
    BY <1>e, <1>0, <1>1 DEF Types, Closers, At, Handling, Ending
  <1>4. Cmd' /\ Sender'
    BY <1>e, <1>0, <1>1, Zenon DEF Types, Cmd, Sender, Closing, Closers, At,
       Disconnecting
  <1>5. Sweep'
    BY <1>e, <1>0, <1>1, Zenon DEF Types, Cmd, Sweep, Closing, Closers, At,
       Disconnecting
  <1>6. \A q \in Conns \ {c} : Same(q)
    BY <1>e, <1>0, <1>1, NoneAssumption DEF Types, Cmd, Sender, Same, CmdJoins,
           CmdCloses, CmdShuts, TakerOf, At, Disconnecting, Closers, Closing
  <1>7. Count(c)'
    <2>1. /\ "list" \in Users(c)' /\ "thread" \in Users(c)' /\ "command" \in Users(c)'
          /\ SameUse(c, {"list", "thread", "command"})
      BY <1>e, <1>0, <1>1, <1>b, NoneAssumption, Zenon DEF Users, Uses, SameUse,
         TakerOf, At, Types, Closers
    <2>2. Users(c)' \ {"list", "thread", "command"} = {}
      BY <2>1, <1>b, SameUsers, Zenon
    <2>3. Users(c)' = {"list", "thread", "command"}
      BY <2>1, <2>2, Zenon
    <2>4. Cardinality({"list", "thread", "command"}) = 3
      <3>1. IsFiniteSet({"list"}) /\ Cardinality({"list"}) = 1
        BY FS_Singleton, Zenon
      <3>2. IsFiniteSet({"list"} \cup {"thread"}) /\ Cardinality({"list"} \cup {"thread"}) = 2
        BY <3>1, FS_AddElement
      <3>3. Cardinality(({"list"} \cup {"thread"}) \cup {"command"}) = 3
        BY <3>2, FS_AddElement
      <3>4. ({"list"} \cup {"thread"}) \cup {"command"} = {"list", "thread", "command"}
        BY Zenon
      <3> QED
        BY <3>3, <3>4, ZenonT(30)
    <2>5. ref'[c] = 3 /\ where'[c] = "impl"
      BY <1>e, <1>0, <1>1 DEF Types
    <2> QED
      BY <2>3, <2>4, <2>5 DEF Count
  <1>8. Listed(c)'
    BY <1>e, <1>0, <1>1, <1>2, <1>b, Zenon DEF Types, Cmd, Local, Listed, Task,
       CmdJoins, CmdCloses, CmdShuts, TakerOf, At, Disconnecting, Closing, Closers,
       Ending, Handling
  <1>9. Task(c)'
    <2>1. /\ kpc'["cmd"] \in {"hello", "drop"} /\ kpc'[c] = "idle"
          /\ rtask'[c] /\ tpc'[c] = "loop" /\ mtx'[c] = mtx[c] /\ stop'[c] = stop[c]
      BY <1>e, <1>0, <1>1, <1>b DEF Types, Closers
    <2>2. /\ mtx[c] # "cmd" /\ mtx[c] # c /\ tpc[c] = "none"
      BY <1>e, <1>b, <1>2, Zenon DEF Local, Task, Count, CmdJoins
    <2> QED
      BY <2>1, <2>2, <1>1, <1>2, Zenon DEF Local, Task, CmdJoins, Ending,
         Handling
  <1> QED
    BY <1>3, <1>4, <1>5, <1>6, <1>7, <1>8, <1>9, SameLocal, ZenonT(30) DEF PInv,
       Local

(* A disconnect comes to its next connection.                              *)
LEMMA NextLocalStep ==
  ASSUME PInv, NEW c \in Conns, where[c] = "local", kc' = c, NextLocal
  PROVE  PInv'
  <1>0. Types /\ Cmd /\ Sender /\ Sweep
    BY Zenon DEF PInv
  <1>1. c \in Conns /\ c # "cmd" /\ c # None
    BY <1>0, NoneAssumption, Zenon DEF NextLocal, Cmd, Sender, Closing
  <1>2. Local(c)
    BY <1>1, Zenon DEF PInv
  <1>e. /\ kpc["cmd"] = "next" /\ kc' = c
        /\ kpc' = [kpc EXCEPT !["cmd"] = "shut"]
        /\ UNCHANGED <<where, ref, rtask, stop, mtx, tpc, wq, cop, late, spc, sc>>
    BY <1>0, <1>1, Zenon DEF NextLocal, At, Disconnecting, conn, thread,
       closers, sender
  <1>3. Types'
    BY <1>e, <1>0, <1>1, Zenon DEF Types, Closers, At, Handling, Ending
  <1>4. Cmd' /\ Sender'
    BY <1>e, <1>0, <1>1, Zenon DEF Types, Cmd, Sender, Closing, Closers, At,
       Disconnecting
  <1>5. Sweep'
    BY <1>e, <1>0, <1>1, Zenon DEF Types, Cmd, Sweep, Closing, Closers, At,
       Disconnecting
  <1>6. \A q \in Conns \ {c} : Same(q)
    BY <1>e, <1>0, <1>1, NoneAssumption, ZenonT(30) DEF Types, Cmd, Sender, Same,
       CmdJoins, CmdCloses, CmdShuts, TakerOf, At, Disconnecting, Closers, Closing
  <1>7. Count(c)'
    <2>1. SameUse(c, {})
      BY <1>e, <1>0, <1>1, <1>2, NoneAssumption, ZenonT(30) DEF SameUse, Cmd, Sender,
         TakerOf, At, Disconnecting, Types, Closing, Closers, Local, Listed,
         CmdShuts
    <2>2. Users(c)' \ {} = Users(c) \ {}
      BY <2>1, SameUsers, Zenon
    <2>3. Users(c)' = Users(c)
      BY <2>2, Zenon
    <2>4. /\ ref'[c] = ref[c]
          /\ tpc'[c] = "none" <=> tpc[c] = "none"
          /\ \/ where'[c] = where[c]
             \/ where'[c] \notin {"freed", "new"} /\ where[c] \notin {"freed", "new"}
      BY <1>e, <1>0, <1>1, Zenon DEF Types
    <2> QED
      BY <1>1, <1>2, <2>3, <2>4, CountKeeps, ZenonT(30) DEF Local
  <1>8. Listed(c)'
    BY <1>e, <1>0, <1>1, <1>2, Zenon DEF Types, Cmd, Local, Listed, Task,
       CmdJoins, CmdCloses, CmdShuts, TakerOf, At, Disconnecting, Closing, Closers,
       Ending, Handling
  <1>9. Task(c)'
    BY <1>e, <1>0, <1>1, <1>2, NoneAssumption, ZenonT(30) DEF Types, Cmd, Local,
       Task, CmdJoins, At, Disconnecting, Closing, Closers, Ending, Handling
  <1> QED
    BY <1>3, <1>4, <1>5, <1>6, <1>7, <1>8, <1>9, SameLocal, ZenonT(30) DEF PInv,
       Local

(* The sender.                                                             *)
LEMMA Get_conn_implStep ==
  ASSUME PInv, NEW c \in Conns, sc' = c, get_conn_impl
  PROVE  PInv'
  <1>0. Types /\ Cmd /\ Sender /\ Sweep
    BY Zenon DEF PInv
  <1>1. c \in Conns /\ c # "cmd" /\ c # None
    BY <1>0, NoneAssumption, Zenon DEF get_conn_impl, Cmd, Sender, Closing
  <1>2. Local(c)
    BY <1>1, Zenon DEF PInv
  <1>e. /\ spc = "get" /\ where[c] = "impl"
        /\ ref' = [ref EXCEPT ![c] = @ + 1]
        /\ sc' = c /\ spc' = "send"
        /\ UNCHANGED <<where, rtask, stop, mtx, tpc, wq, kpc, kc, cop, late>>
    BY <1>0, <1>1, Zenon DEF get_conn_impl, Usable, At, Disconnecting, conn,
       thread, closers, sender, Sender
  <1>3. Types'
    BY <1>e, <1>0, <1>1 DEF Types, Closers, At, Handling, Ending
  <1>4. Cmd' /\ Sender'
    BY <1>e, <1>0, <1>1, Zenon DEF Types, Cmd, Sender, Closing, Closers, At,
       Disconnecting
  <1>5. Sweep'
    BY <1>e, <1>0, <1>1, Zenon DEF Types, Cmd, Sweep, Closing, Closers, At,
       Disconnecting
  <1>6. \A q \in Conns \ {c} : Same(q)
    BY <1>e, <1>0, <1>1, NoneAssumption, ZenonT(30) DEF Types, Cmd, Sender, Same,
       CmdJoins, CmdCloses, CmdShuts, TakerOf, At, Disconnecting, Closers, Closing
  <1>7. Count(c)'
    <2>1. SameUse(c, {"sender"})
      BY <1>e, <1>0, <1>1, <1>2, NoneAssumption, Zenon DEF SameUse, Cmd, Sender,
         TakerOf, At, Disconnecting, Types, Closing, Closers, Local, Listed,
         CmdShuts
    <2>2. Users(c)' \ {"sender"} = Users(c) \ {"sender"}
      BY <2>1, SameUsers, Zenon
    <2>3. ~(sc = c) /\ (sc = c)'
      BY <1>e, <1>0, <1>1, <1>2, NoneAssumption, Zenon DEF Cmd, Sender, TakerOf,
         At, Disconnecting, Types, Closing, Closers, Local, Listed, CmdShuts
    <2>4. "sender" \in Users(c)' /\ "sender" \in Uses \ Users(c)
      BY <2>3, Zenon DEF Users, Uses
    <2>5. Users(c)' = Users(c) \cup {"sender"}
      BY <2>2, <2>4, Zenon
    <2>6. /\ ref'[c] = ref[c] + 1 /\ tpc'[c] = tpc[c]
          /\ where'[c] = where[c] /\ where[c] \notin {"new", "freed"}
      BY <1>e, <1>0, <1>1, Zenon DEF Types
    <2> QED
      BY <1>1, <1>2, <2>4, <2>5, <2>6, CountGets, Zenon DEF Local
  <1>8. Listed(c)'
    BY <1>e, <1>0, <1>1, <1>2, Zenon DEF Types, Cmd, Local, Listed, Task,
       CmdJoins, CmdCloses, CmdShuts, TakerOf, At, Disconnecting, Closing, Closers,
       Ending, Handling
  <1>9. Task(c)'
    BY <1>e, <1>0, <1>1, <1>2, NoneAssumption, ZenonT(30) DEF Types, Cmd, Local,
       Task, CmdJoins, At, Disconnecting, Closing, Closers, Ending, Handling
  <1> QED
    BY <1>3, <1>4, <1>5, <1>6, <1>7, <1>8, <1>9, SameLocal, ZenonT(30) DEF PInv,
       Local

LEMMA SendStopsStep ==
  ASSUME PInv, NEW c, c = sc, st[c] # "STOP" /\ ~sock[c], send_message
  PROVE  PInv'
  <1>0. Types /\ Cmd /\ Sender /\ Sweep
    BY Zenon DEF PInv
  <1>1. c \in Conns /\ c # "cmd" /\ c # None
    BY <1>0, NoneAssumption, Zenon DEF send_message, Cmd, Sender, Closing
  <1>2. Local(c)
    BY <1>1, Zenon DEF PInv
  <1>e. /\ spc = "send"
        /\ spc' = "queue"
        /\ UNCHANGED <<where, ref, rtask, stop, mtx, tpc, wq, kpc, kc, cop, late, sc>>
    BY <1>0, <1>1, Zenon DEF send_message, At, Disconnecting, conn, thread,
       closers, sender
  <1>3. Types'
    BY <1>e, <1>0, <1>1, Zenon DEF Types, Closers, At, Handling, Ending
  <1>4. Cmd' /\ Sender'
    BY <1>e, <1>0, <1>1, Zenon DEF Types, Cmd, Sender, Closing, Closers, At,
       Disconnecting
  <1>5. Sweep'
    BY <1>e, <1>0, <1>1, Zenon DEF Types, Cmd, Sweep, Closing, Closers, At,
       Disconnecting
  <1>6. \A q \in Conns \ {c} : Same(q)
    BY <1>e, <1>0, <1>1, NoneAssumption, ZenonT(30) DEF Types, Cmd, Sender,
       Same, CmdJoins, CmdCloses, CmdShuts, TakerOf, At, Disconnecting, Closers,
       Closing
  <1>7. Count(c)'
    <2>1. SameUse(c, {})
      BY <1>e, <1>0, <1>1, <1>2, NoneAssumption, ZenonT(30) DEF SameUse, Cmd, Sender,
         TakerOf, At, Disconnecting, Types, Closing, Closers, Local, Listed,
         CmdShuts
    <2>2. Users(c)' \ {} = Users(c) \ {}
      BY <2>1, SameUsers, Zenon
    <2>3. Users(c)' = Users(c)
      BY <2>2, Zenon
    <2>4. /\ ref'[c] = ref[c]
          /\ tpc'[c] = "none" <=> tpc[c] = "none"
          /\ \/ where'[c] = where[c]
             \/ where'[c] \notin {"freed", "new"} /\ where[c] \notin {"freed", "new"}
      BY <1>e, <1>0, <1>1, Zenon DEF Types
    <2> QED
      BY <1>1, <1>2, <2>3, <2>4, CountKeeps, ZenonT(30) DEF Local
  <1>8. Listed(c)'
    BY <1>e, <1>0, <1>1, <1>2, Zenon DEF Types, Cmd, Local, Listed, Task,
       CmdJoins, CmdCloses, CmdShuts, TakerOf, At, Disconnecting, Closing, Closers,
       Ending, Handling
  <1>9. Task(c)'
    BY <1>e, <1>0, <1>1, <1>2, NoneAssumption, ZenonT(30) DEF Types, Cmd, Local,
       Task, CmdJoins, At, Disconnecting, Closing, Closers, Ending, Handling
  <1> QED
    BY <1>3, <1>4, <1>5, <1>6, <1>7, <1>8, <1>9, SameLocal, ZenonT(30) DEF PInv,
       Local

LEMMA SendPutsStep ==
  ASSUME PInv, NEW c, c = sc, ~(st[c] # "STOP" /\ ~sock[c]), send_message
  PROVE  PInv'
  <1>0. Types /\ Cmd /\ Sender /\ Sweep
    BY Zenon DEF PInv
  <1>1. c \in Conns /\ c # "cmd" /\ c # None
    BY <1>0, NoneAssumption, Zenon DEF send_message, Cmd, Sender, Closing
  <1>2. Local(c)
    BY <1>1, Zenon DEF PInv
  <1>e. /\ spc = "send"
        /\ ref' = [ref EXCEPT ![c] = @ - 1]
        /\ where' = [where EXCEPT ![c] = IF ref[c] = 1 THEN "freed" ELSE @]
        /\ spc' = "idle" /\ sc' = None
        /\ UNCHANGED <<rtask, stop, mtx, tpc, wq, kpc, kc, cop, late>>
    BY <1>0, <1>1, Zenon DEF send_message, connection_put, At, Disconnecting,
       conn, thread, closers, sender
  <1>a. "sender" \in Users(c)
    <2>1. sc = c
      BY <1>e, <1>0, <1>1, <1>2, NoneAssumption, Zenon DEF Cmd, Sender, TakerOf,
         At, Disconnecting, Types, Closing, Closers, Local, Listed, CmdShuts
    <2> QED
      BY <2>1, Zenon DEF Users, Uses
  <1>b. ref[c] = 1 =>
          /\ where[c] \notin {"impl", "local"}
          /\ tpc[c] \in {"none", "gone"}
          /\ tpc[c] \notin {"fin", "hfin"}
          /\ ~(kc = c /\ cop = "add")
          /\ ~TakerOf("cmd", c)
          /\ ~wq[c]
          /\ kpc[c] = "idle"
          /\ ~TakerOf(c, c)
    BY <1>1, <1>2, <1>a, Alone, Zenon DEF Local
  <1>3. Types'
    BY <1>e, <1>0, <1>1 DEF Types, Closers, At, Handling, Ending
  <1>4. Cmd' /\ Sender'
    BY <1>e, <1>0, <1>1, Zenon DEF Types, Cmd, Sender, Closing, Closers, At,
       Disconnecting
  <1>5. Sweep'
    BY <1>e, <1>0, <1>1, Zenon DEF Types, Cmd, Sweep, Closing, Closers, At,
       Disconnecting
  <1>6. \A q \in Conns \ {c} : Same(q)
    BY <1>e, <1>0, <1>1, NoneAssumption, ZenonT(30) DEF Types, Cmd, Sender, Same,
       CmdJoins, CmdCloses, CmdShuts, TakerOf, At, Disconnecting, Closers, Closing
  <1>7. Count(c)'
    <2>1. SameUse(c, {"sender"})
      BY <1>e, <1>0, <1>1, <1>2, NoneAssumption, <1>b, Zenon DEF SameUse, Cmd,
         Sender, TakerOf, At, Disconnecting, Types, Closing, Closers, Local,
         Listed, CmdShuts
    <2>2. Users(c)' \ {"sender"} = Users(c) \ {"sender"}
      BY <2>1, SameUsers, Zenon
    <2>3. ~(sc = c)'
      BY <1>e, <1>0, <1>1, <1>2, NoneAssumption, Zenon DEF Cmd, Sender, TakerOf,
         At, Disconnecting, Types, Closing, Closers, Local, Listed, CmdShuts
    <2>4. "sender" \notin Users(c)'
      BY <2>3, Zenon DEF Users, Uses
    <2>5. Users(c)' = Users(c) \ {"sender"}
      BY <2>2, <2>4, Zenon
    <2>6. /\ ref'[c] = ref[c] - 1
          /\ ref[c] = 1 => where'[c] = "freed"
          /\ ref[c] # 1 => where'[c] \in {where[c], "off"}
      BY <1>e, <1>0, <1>1, Zenon DEF Types, Disconnecting, At
    <2> QED
      BY <1>1, <1>2, <1>a, <2>5, <2>6, CountPuts, Zenon DEF Local
  <1>8. Listed(c)'
    BY <1>e, <1>0, <1>1, <1>2, <1>b, Zenon DEF Types, Cmd, Local, Listed, Task,
       CmdJoins, CmdCloses, CmdShuts, TakerOf, At, Disconnecting, Closing, Closers,
       Ending, Handling
  <1>9. Task(c)'
    BY <1>e, <1>0, <1>1, <1>2, NoneAssumption, ZenonT(30) DEF Types, Cmd, Local,
       Task, CmdJoins, At, Disconnecting, Closing, Closers, Ending, Handling
  <1> QED
    BY <1>3, <1>4, <1>5, <1>6, <1>7, <1>8, <1>9, SameLocal, ZenonT(30) DEF PInv,
       Local

LEMMA QueueQueuesStep ==
  ASSUME PInv, NEW c, c = sc, nstat # "OFFLINE" /\ ~wq[c], queue_reget
  PROVE  PInv'
  <1>0. Types /\ Cmd /\ Sender /\ Sweep
    BY Zenon DEF PInv
  <1>1. c \in Conns /\ c # "cmd" /\ c # None
    BY <1>0, NoneAssumption, Zenon DEF queue_reget, Cmd, Sender, Closing
  <1>2. Local(c)
    BY <1>1, Zenon DEF PInv
  <1>e. /\ spc = "queue" /\ ~wq[c]
        /\ wq' = [wq EXCEPT ![c] = TRUE]
        /\ spc' = "get" /\ sc' = None
        /\ UNCHANGED <<where, ref, rtask, stop, mtx, tpc, kpc, kc, cop, late>>
    BY <1>0, <1>1, Zenon DEF queue_reget, At, Disconnecting, conn, thread,
       closers, sender
  <1>3. Types'
    BY <1>e, <1>0, <1>1, Zenon DEF Types, Closers, At, Handling, Ending
  <1>4. Cmd' /\ Sender'
    BY <1>e, <1>0, <1>1, Zenon DEF Types, Cmd, Sender, Closing, Closers, At,
       Disconnecting
  <1>5. Sweep'
    BY <1>e, <1>0, <1>1, Zenon DEF Types, Cmd, Sweep, Closing, Closers, At,
       Disconnecting
  <1>6. \A q \in Conns \ {c} : Same(q)
    BY <1>e, <1>0, <1>1, NoneAssumption, ZenonT(30) DEF Types, Cmd, Sender, Same,
       CmdJoins, CmdCloses, CmdShuts, TakerOf, At, Disconnecting, Closers, Closing
  <1>7. Count(c)'
    <2>1. SameUse(c, {"sender", "work queued"})
      BY <1>e, <1>0, <1>1, <1>2, NoneAssumption, Zenon DEF SameUse, Cmd, Sender,
         TakerOf, At, Disconnecting, Types, Closing, Closers, Local, Listed,
         CmdShuts
    <2>2. Users(c)' \ {"sender", "work queued"} = Users(c) \ {"sender", "work queued"}
      BY <2>1, SameUsers, Zenon
    <2>5. /\ sc = c
          /\ ~(sc = c)'
          /\ ~(wq[c])
          /\ (wq[c])'
      BY <1>e, <1>0, <1>1, <1>2, NoneAssumption, Zenon DEF Cmd, Sender, TakerOf,
         At, Disconnecting, Types, Closing, Closers, Local, Listed, CmdShuts
    <2>6. /\ "sender" \in Users(c) /\ "work queued" \in Uses \ Users(c)
          /\ "work queued" \in Users(c)' /\ "sender" \notin Users(c)'
      BY <2>5, Zenon DEF Users, Uses
    <2>3. Users(c)' = (Users(c) \ {"sender"}) \cup {"work queued"}
      BY <2>2, <2>6, Zenon
    <2>4. /\ ref'[c] = ref[c]
          /\ tpc'[c] = "none" <=> tpc[c] = "none"
          /\ \/ where'[c] = where[c]
             \/ where'[c] \notin {"freed", "new"} /\ where[c] \notin {"freed", "new"}
      BY <1>e, <1>0, <1>1, Zenon DEF OnList, Types
    <2> QED
      BY <1>1, <1>2, <2>3, <2>4, <2>6, CountKeeps, ZenonT(30) DEF Local
  <1>8. Listed(c)'
    BY <1>e, <1>0, <1>1, <1>2, Zenon DEF Types, Cmd, Local, Listed, Task,
       CmdJoins, CmdCloses, CmdShuts, TakerOf, At, Disconnecting, Closing, Closers,
       Ending, Handling
  <1>9. Task(c)'
    BY <1>e, <1>0, <1>1, <1>2, NoneAssumption, ZenonT(30) DEF Types, Cmd, Local,
       Task, CmdJoins, At, Disconnecting, Closing, Closers, Ending, Handling
  <1> QED
    BY <1>3, <1>4, <1>5, <1>6, <1>7, <1>8, <1>9, SameLocal, ZenonT(30) DEF PInv,
       Local

LEMMA QueuePutsStep ==
  ASSUME PInv, NEW c, c = sc, ~(nstat # "OFFLINE" /\ ~wq[c]), queue_reget
  PROVE  PInv'
  <1>0. Types /\ Cmd /\ Sender /\ Sweep
    BY Zenon DEF PInv
  <1>1. c \in Conns /\ c # "cmd" /\ c # None
    BY <1>0, NoneAssumption, Zenon DEF queue_reget, Cmd, Sender, Closing
  <1>2. Local(c)
    BY <1>1, Zenon DEF PInv
  <1>e. /\ spc = "queue"
        /\ ref' = [ref EXCEPT ![c] = @ - 1]
        /\ where' = [where EXCEPT ![c] = IF ref[c] = 1 THEN "freed" ELSE @]
        /\ spc' \in {"get", "idle"} /\ sc' = None
        /\ UNCHANGED <<rtask, stop, mtx, tpc, wq, kpc, kc, cop, late>>
    BY <1>0, <1>1, Zenon DEF queue_reget, connection_put, At, Disconnecting,
       conn, thread, closers, sender
  <1>a. "sender" \in Users(c)
    <2>1. sc = c
      BY <1>e, <1>0, <1>1, <1>2, NoneAssumption, Zenon DEF Cmd, Sender, TakerOf,
         At, Disconnecting, Types, Closing, Closers, Local, Listed, CmdShuts
    <2> QED
      BY <2>1, Zenon DEF Users, Uses
  <1>b. ref[c] = 1 =>
          /\ where[c] \notin {"impl", "local"}
          /\ tpc[c] \in {"none", "gone"}
          /\ tpc[c] \notin {"fin", "hfin"}
          /\ ~(kc = c /\ cop = "add")
          /\ ~TakerOf("cmd", c)
          /\ ~wq[c]
          /\ kpc[c] = "idle"
          /\ ~TakerOf(c, c)
    BY <1>1, <1>2, <1>a, Alone, Zenon DEF Local
  <1>3. Types'
    BY <1>e, <1>0, <1>1 DEF Types, Closers, At, Handling, Ending
  <1>4. Cmd' /\ Sender'
    BY <1>e, <1>0, <1>1, Zenon DEF Types, Cmd, Sender, Closing, Closers, At,
       Disconnecting
  <1>5. Sweep'
    BY <1>e, <1>0, <1>1, Zenon DEF Types, Cmd, Sweep, Closing, Closers, At,
       Disconnecting
  <1>6. \A q \in Conns \ {c} : Same(q)
    BY <1>e, <1>0, <1>1, NoneAssumption, ZenonT(30) DEF Types, Cmd, Sender,
       Same, CmdJoins, CmdCloses, CmdShuts, TakerOf, At, Disconnecting, Closers,
       Closing
  <1>7. Count(c)'
    <2>1. SameUse(c, {"sender"})
      BY <1>e, <1>0, <1>1, <1>2, NoneAssumption, <1>b, Zenon DEF SameUse, Cmd,
         Sender, TakerOf, At, Disconnecting, Types, Closing, Closers, Local,
         Listed, CmdShuts
    <2>2. Users(c)' \ {"sender"} = Users(c) \ {"sender"}
      BY <2>1, SameUsers, Zenon
    <2>3. ~(sc = c)'
      BY <1>e, <1>0, <1>1, <1>2, NoneAssumption, Zenon DEF Cmd, Sender, TakerOf,
         At, Disconnecting, Types, Closing, Closers, Local, Listed, CmdShuts
    <2>4. "sender" \notin Users(c)'
      BY <2>3, Zenon DEF Users, Uses
    <2>5. Users(c)' = Users(c) \ {"sender"}
      BY <2>2, <2>4, Zenon
    <2>6. /\ ref'[c] = ref[c] - 1
          /\ ref[c] = 1 => where'[c] = "freed"
          /\ ref[c] # 1 => where'[c] \in {where[c], "off"}
      BY <1>e, <1>0, <1>1, Zenon DEF Types, Disconnecting, At
    <2> QED
      BY <1>1, <1>2, <1>a, <2>5, <2>6, CountPuts, Zenon DEF Local
  <1>8. Listed(c)'
    BY <1>e, <1>0, <1>1, <1>2, <1>b, Zenon DEF Types, Cmd, Local, Listed, Task,
       CmdJoins, CmdCloses, CmdShuts, TakerOf, At, Disconnecting, Closing, Closers,
       Ending, Handling
  <1>9. Task(c)'
    BY <1>e, <1>0, <1>1, <1>2, NoneAssumption, ZenonT(30) DEF Types, Cmd, Local,
       Task, CmdJoins, At, Disconnecting, Closing, Closers, Ending, Handling
  <1> QED
    BY <1>3, <1>4, <1>5, <1>6, <1>7, <1>8, <1>9, SameLocal, ZenonT(30) DEF PInv,
       Local

(* The rest of a disconnect.                                               *)
LEMMA Off_lineStep ==
  ASSUME PInv, off_line
  PROVE  PInv'
  <1>0. Types /\ Cmd /\ Sender /\ Sweep
    BY Zenon DEF PInv
  <1>e. /\ kpc["cmd"] = "idle"
        /\ kpc' = [kpc EXCEPT !["cmd"] = "grab"]
        /\ cop' = "off"
        /\ UNCHANGED <<where, ref, rtask, stop, mtx, tpc, wq, kc, late, spc, sc>>
    BY <1>0, Zenon DEF off_line, conn, thread, closers, sender
  <1>1. Types'
    BY <1>e, <1>0, Zenon DEF Types, Closers
  <1>2. Cmd' /\ Sender'
    BY <1>e, <1>0, NoneAssumption, Zenon DEF Types, Cmd, Sender, Closers,
       Closing
  <1>3. Sweep'
    BY <1>e, <1>0, Zenon DEF Types, Cmd, Sweep, Closers
  <1>4. \A q \in Conns : Same(q)
    BY <1>e, <1>0, NoneAssumption, ZenonT(30) DEF Types, Cmd, Sender, Same, CmdJoins,
       CmdCloses, CmdShuts, TakerOf, At, Disconnecting, Closers, Closing
  <1> QED
    BY <1>1, <1>2, <1>3, <1>4, SameLocal, Zenon DEF PInv

LEMMA NoLocalStep ==
  ASSUME PInv, kc' = None, \A c \in Conns : where[c] # "local", NextLocal
  PROVE  PInv'
  <1>0. Types /\ Cmd /\ Sender /\ Sweep
    BY Zenon DEF PInv
  <1>e. /\ kpc["cmd"] = "next" /\ kc' = None
        /\ \A c \in Conns : where[c] # "local"
        /\ kpc' = [kpc EXCEPT !["cmd"] = "wait"]
        /\ UNCHANGED <<where, ref, rtask, stop, mtx, tpc, wq, cop, late, spc, sc>>
    BY <1>0, Zenon DEF NextLocal, conn, thread, closers, sender
  <1>1. Types'
    BY <1>e, <1>0, Zenon DEF Types, Closers
  <1>2. Cmd' /\ Sender'
    BY <1>e, <1>0, NoneAssumption, Zenon DEF Types, Cmd, Sender, Closers,
       Closing
  <1>3. Sweep'
    BY <1>e, <1>0, Zenon DEF Types, Cmd, Sweep, Closers
  <1>4. \A q \in Conns : Same(q)
    BY <1>e, <1>0, NoneAssumption, ZenonT(30) DEF Types, Cmd, Sender, Same,
       CmdJoins, CmdCloses, CmdShuts, TakerOf, At, Disconnecting, Closers, Closing
  <1> QED
    BY <1>1, <1>2, <1>3, <1>4, SameLocal, Zenon DEF PInv

LEMMA WaitDeletingStep ==
  ASSUME PInv, WaitDeleting
  PROVE  PInv'
  <1>0. Types /\ Cmd /\ Sender /\ Sweep
    BY Zenon DEF PInv
  <1>e. /\ kpc["cmd"] = "wait"
        /\ ~late' => \A c \in Conns : where[c] # "deleting"
        /\ kpc' = [kpc EXCEPT !["cmd"] = "report"]
        /\ UNCHANGED <<where, ref, rtask, stop, mtx, tpc, wq, kc, cop, spc, sc>>
    BY <1>0, Zenon DEF WaitDeleting, conn, thread, closers, sender
  <1>1. Types'
    BY <1>e, <1>0, Zenon DEF Types, Closers
  <1>2. Cmd' /\ Sender'
    BY <1>e, <1>0, NoneAssumption, Zenon DEF Types, Cmd, Sender, Closers,
       Closing
  <1>3. Sweep'
    BY <1>e, <1>0, Zenon DEF Types, Cmd, Sweep, Closers
  <1>4. \A q \in Conns : Same(q)
    BY <1>e, <1>0, NoneAssumption, ZenonT(30) DEF Types, Cmd, Sender, Same, CmdJoins,
       CmdCloses, CmdShuts, TakerOf, At, Disconnecting, Closers, Closing
  <1> QED
    BY <1>1, <1>2, <1>3, <1>4, SameLocal, Zenon DEF PInv

LEMMA ReportOffStep ==
  ASSUME PInv, ReportOff
  PROVE  PInv'
  <1>0. Types /\ Cmd /\ Sender /\ Sweep
    BY Zenon DEF PInv
  <1>e. /\ kpc["cmd"] = "report"
        /\ cop' = "none" /\ late' = FALSE
        /\ kpc' = [kpc EXCEPT !["cmd"] = "idle"]
        /\ UNCHANGED <<where, ref, rtask, stop, mtx, tpc, wq, kc, spc, sc>>
    BY <1>0, Zenon DEF ReportOff, conn, thread, closers, sender
  <1>1. Types'
    BY <1>e, <1>0, Zenon DEF Types, Closers
  <1>2. Cmd' /\ Sender'
    BY <1>e, <1>0, NoneAssumption, Zenon DEF Types, Cmd, Sender, Closers,
       Closing
  <1>3. Sweep'
    BY <1>e, <1>0, Zenon DEF Types, Cmd, Sweep, Closers
  <1>4. \A q \in Conns : Same(q)
    BY <1>e, <1>0, NoneAssumption, ZenonT(30) DEF Types, Cmd, Sender, Same, CmdJoins,
       CmdCloses, CmdShuts, TakerOf, At, Disconnecting, Closers, Closing
  <1> QED
    BY <1>1, <1>2, <1>3, <1>4, SameLocal, Zenon DEF PInv

(* The sender before it has a connection.                                  *)
LEMMA NoConnStep ==
  ASSUME PInv, sc' = sc, spc' \in {"get", "idle"}, spc \in {"get", "idle"},
         UNCHANGED <<where, ref, rtask, stop, mtx, tpc, wq, kpc, kc, cop, late>>
  PROVE  PInv'
  <1>0. Types /\ Cmd /\ Sender /\ Sweep
    BY Zenon DEF PInv
  <1>1. Types'
    BY <1>0, Zenon DEF Types, Closers
  <1>2. Cmd' /\ Sender'
    BY <1>0, NoneAssumption, Zenon DEF Types, Cmd, Sender, Closers, Closing
  <1>3. Sweep'
    BY <1>0, Zenon DEF Types, Cmd, Sweep, Closers
  <1>4. \A q \in Conns : Same(q)
    BY <1>0, NoneAssumption, ZenonT(30) DEF Types, Cmd, Sender, Same, CmdJoins,
       CmdCloses, CmdShuts, TakerOf, At, Disconnecting, Closers, Closing
  <1> QED
    BY <1>1, <1>2, <1>3, <1>4, SameLocal, Zenon DEF PInv

(* The far end and the socket.                                             *)
LEMMA QuietStep ==
  ASSUME PInv, UNCHANGED <<where, ref, rtask, stop, mtx, tpc, wq, kpc, kc, cop, late, spc, sc>>
  PROVE  PInv'
  <1>0. Types /\ Cmd /\ Sender /\ Sweep
    BY Zenon DEF PInv
  <1>1. Types'
    BY <1>0, Zenon DEF Types, Closers
  <1>2. Cmd' /\ Sender'
    BY <1>0, NoneAssumption, Zenon DEF Types, Cmd, Sender, Closers, Closing
  <1>3. Sweep'
    BY <1>0, Zenon DEF Types, Cmd, Sweep, Closers
  <1>4. \A q \in Conns : Same(q)
    BY <1>0, NoneAssumption, ZenonT(30) DEF Types, Cmd, Sender, Same, CmdJoins,
       CmdCloses, CmdShuts, TakerOf, At, Disconnecting, Closers, Closing
  <1> QED
    BY <1>1, <1>2, <1>3, <1>4, SameLocal, Zenon DEF PInv

(* All connections leave conn_impl_list at once.                           *)
LEMMA GrabListStep ==
  ASSUME PInv, GrabList
  PROVE  PInv'
  <1>0. Types /\ Cmd /\ Sender /\ Sweep
    BY Zenon DEF PInv
  <1>e. /\ kpc["cmd"] = "grab"
        /\ where' = [c \in Conns |-> IF where[c] = "impl" THEN "local" ELSE where[c]]
        /\ kpc' = [kpc EXCEPT !["cmd"] = "next"]
        /\ UNCHANGED <<ref, rtask, stop, mtx, tpc, wq, kc, cop, late, spc, sc>>
    BY Zenon DEF GrabList, OnList, conn, thread, closers, sender
  <1>1. Types'
    BY <1>e, <1>0, Zenon DEF Types, Closers
  <1>2. Cmd' /\ Sender'
    BY <1>e, <1>0, Zenon DEF Types, Cmd, Sender, Closers, Closing
  <1>3. Sweep'
    BY <1>e, <1>0, Zenon DEF Types, Cmd, Sweep, Closers
  <1>4. ASSUME NEW c \in Conns PROVE Local(c)'
    <2>1. Local(c) /\ c # "cmd"
      BY NoneAssumption, Zenon DEF PInv
    <2>2. /\ kpc'["cmd"] = "next" /\ kpc'[c] = kpc[c]
          /\ where'[c] = IF where[c] = "impl" THEN "local" ELSE where[c]
      BY <1>e, <1>0, <1>4, <2>1, Zenon DEF Types, Closers
    <2>3. SameUse(c, {})
      BY <1>e, <2>1, <2>2, Zenon DEF SameUse, TakerOf, At, Disconnecting
    <2>4. Users(c)' \ {} = Users(c) \ {}
      BY <2>3, SameUsers, Zenon
    <2>5. Users(c)' = Users(c)
      BY <2>4, Zenon
    <2>6. Count(c)'
      BY <1>e, <1>4, <2>1, <2>2, <2>5, CountKeeps, Zenon DEF Local
    <2>7. Listed(c)'
      BY <1>e, <2>1, <2>2, Zenon DEF Local, Listed, TakerOf, At, Disconnecting,
         CmdShuts, CmdCloses, Closing
    <2>8. Task(c)'
      BY <1>e, <2>1, <2>2, Zenon DEF Local, Task, CmdJoins
    <2> QED
      BY <2>6, <2>7, <2>8, Zenon DEF Local
  <1> QED
    BY <1>1, <1>2, <1>3, <1>4, Zenon DEF PInv

(* At the start there is no connection.                                    *)
LEMMA InitPInv == Init => PInv
  <1> SUFFICES ASSUME Init PROVE PInv
    BY Zenon
  <1>1. Types
    BY DEF Init, Types, Handling, Ending
  <1>2. Cmd /\ Sender /\ Sweep
    BY Zenon DEF Init, Cmd, Sender, Sweep, Closers, Closing
  <1>3. ASSUME NEW c \in Conns PROVE Local(c)
    <2>0. c \in Closers /\ "cmd" \in Closers /\ c # None /\ c # "cmd" /\ c # "free"
      BY <1>3, NoneAssumption, Zenon DEF Closers
    <2>1. /\ ref[c] = 0 /\ where[c] = "new" /\ tpc[c] = "none" /\ ~rtask[c] /\ ~stop[c]
          /\ mtx[c] = "free" /\ ~wq[c] /\ kpc[c] = "idle" /\ kpc["cmd"] = "idle"
          /\ kc = None /\ sc = None /\ cop = "none"
      BY <1>3, <2>0, Zenon DEF Init
    <2>2. Users(c) = {}
      BY <2>0, <2>1, Zenon DEF Users, TakerOf
    <2>3. Count(c)
      BY <2>1, <2>2, FS_EmptySet, Zenon DEF Count
    <2>4. Listed(c)
      BY <2>0, <2>1, Zenon DEF Listed, TakerOf, CmdShuts, CmdCloses, Closing
    <2>5. Task(c)
      BY <2>0, <2>1, NoneAssumption, Zenon DEF Task, CmdJoins, Ending, Handling,
         Closers
    <2> QED
      BY <2>3, <2>4, <2>5, Zenon DEF Local
  <1> QED
    BY <1>1, <1>2, <1>3, Zenon DEF PInv

(* Every step keeps the invariant.                                         *)
LEMMA NextPInv == PInv /\ [Next]_vars => PInv'
  <1> SUFFICES ASSUME PInv, [Next]_vars PROVE PInv'
    BY Zenon
  <1>1. ASSUME NEW c \in Conns, update_socket(c) PROVE PInv'
    BY <1>1, Update_socketStep, Zenon
  <1>2. CASE off_line
    BY <1>2, Off_lineStep, Zenon
  <1>3. CASE Command
    <2>1. CASE SendRequest
      BY <2>1, SendRequestStep, Zenon
    <2>2. CASE PutCmd
      BY <2>2, PutCmdStep, Zenon
    <2>3. CASE GrabList
      BY <2>3, GrabListStep, Zenon
    <2>4. CASE NextLocal
      <3>1. \/ \E c \in Conns : where[c] = "local" /\ kc' = c
            \/ kc' = None /\ \A c \in Conns : where[c] # "local"
        BY <2>4, Zenon DEF NextLocal
      <3> QED
        BY <2>4, <3>1, NextLocalStep, NoLocalStep, Zenon
    <2>5. CASE WaitDeleting
      BY <2>5, WaitDeletingStep, Zenon
    <2>6. CASE ReportOff
      BY <2>6, ReportOffStep, Zenon
    <2> QED
      BY <1>3, <2>1, <2>2, <2>3, <2>4, <2>5, <2>6, Zenon DEF Command
  <1>4. ASSUME NEW k \in Closers, Closer(k) PROVE PInv'
    <2>1. CASE k = "cmd"
      <3>1. CASE Take("cmd")
        BY <3>1, TakeCmdStep, TakeNotCmdStep, Zenon
      <3>2. CASE CloserShutdown("cmd")
        BY <3>2, CloserShutdownCmdStep, Zenon
      <3>3. CASE tcp_close_socket("cmd")
        BY <3>3, Tcp_close_socketCmdStep, NoThreadCmdStep, Zenon
      <3>4. CASE kthread_stop("cmd")
        BY <3>4, Kthread_stopCmdStep, Zenon
      <3>5. CASE DropList("cmd")
        BY <3>5, DropListAddStep, DropListOffStep, Zenon
      <3> QED
        BY <1>4, <2>1, <3>1, <3>2, <3>3, <3>4, <3>5, ZenonT(30) DEF Closer
    <2>2. CASE k \in Conns
      <3>1. CASE Take(k)
        BY <2>2, <3>1, TakeWorkStep, TakeNotWorkStep, Zenon
      <3>2. CASE CloserShutdown(k)
        BY <2>2, <3>2, CloserShutdownWorkStep, Zenon
      <3>3. CASE tcp_close_socket(k)
        BY <2>2, <3>3, Tcp_close_socketWorkStep, NoThreadWorkStep, ZenonT(30)
      <3>4. CASE kthread_stop(k)
        BY <2>2, <3>4, Kthread_stopWorkStep, Zenon
      <3>5. CASE DropList(k)
        BY <2>2, <3>5, DropListWorkStep, Zenon
      <3> QED
        BY <1>4, <3>1, <3>2, <3>3, <3>4, <3>5, ZenonT(30) DEF Closer
    <2> QED
      BY <1>4, <2>1, <2>2, Zenon DEF Closers
  <1>5. ASSUME NEW c \in Conns, Thread(c) PROVE PInv'
    <2>1. CASE RecvStop(c) \/ tcp_receive_from_sock(c) \/ RecvDown(c) \/ RecvTail(c)
      BY <2>1, RecvStopStep, Tcp_receive_from_sockStep, RecvDownStep,
         RecvTailStep, Zenon
    <2>2. CASE RecvTake(c)
      BY <2>2, RecvTakeStep, RecvTakeNotStep, Zenon
    <2>3. CASE RecvFin(c) \/ RecvExit(c)
      BY <2>3, RecvFinStep, RecvExitStep, Zenon
    <2>4. CASE HandlerReply(c) \/ HandlerStatus(c) \/ HandlerNode(c)
      BY <2>4, HandlerReplyStep, HandlerStatusStep, HandlerNodeStep, ZenonT(30)
    <2>5. CASE HandlerEvent(c) \/ HandlerNego(c)
      BY <2>5, HandlerEventStep, HandlerNegoStep, Zenon
    <2> QED
      BY <1>5, <2>1, <2>2, <2>3, <2>4, <2>5, ZenonT(30) DEF Thread
  <1>6. ASSUME NEW c \in Conns, RegetWork(c) \/ RegetWorkEnd(c) PROVE PInv'
    BY <1>6, RegetWorkStep, RegetWorkEndStep, Zenon
  <1>7. CASE SendStart
    BY <1>7, NoConnStep, Zenon DEF SendStart, conn, thread, closers
  <1>8. CASE get_conn_impl
    <2>1. ASSUME NEW c \in Conns, sc' = c PROVE PInv'
      BY <1>8, <2>1, Get_conn_implStep, Zenon
    <2>2. CASE sc' \notin Conns
      BY <1>8, <2>2, NoConnStep, Zenon DEF get_conn_impl, conn, thread, closers
    <2> QED
      BY <2>1, <2>2, ZenonT(30)
  <1>9. CASE send_message
    BY <1>9, SendStopsStep, SendPutsStep, Zenon
  <1>10. CASE queue_reget
    BY <1>10, QueueQueuesStep, QueuePutsStep, Zenon
  <1>11. ASSUME NEW c \in Conns, FarSend(c) \/ FarRefuses(c) \/ SocketBreaks(c) PROVE PInv'
    BY <1>11, QuietStep, Zenon DEF FarSend, FarRefuses, SocketBreaks, conn,
       thread, closers, sender
  <1>12. CASE UNCHANGED vars
    BY <1>12, QuietStep, Zenon DEF vars, conn, thread, closers, sender
  <1> QED
    BY <1>1, <1>2, <1>3, <1>4, <1>5, <1>6, <1>7, <1>8, <1>9, <1>10, <1>11,
       <1>12, ZenonT(30) DEF Next

-----------------------------------------------------------------------------
(* The reference count of every connection is the number of those who use  *)
(* it, so that none is freed under a user (connection_get and              *)
(* connection_put): for any set of connections, any number of disconnects  *)
(* and of broken sockets.                                                  *)
THEOREM ConnectionsSafe == Spec => []RefExact
  <1>1. PInv => RefExact
    BY Zenon DEF PInv, Local, Count, RefExact
  <1> QED
    BY <1>1, InitPInv, NextPInv, PTL DEF Spec

(* kthread_stop is only called on a receive thread that runs or obeys it,  *)
(* whichever of the thread itself, reget_work and the disconnect closes    *)
(* the socket first (tcp_close_socket and tcp_recv_thread): for any set of *)
(* connections.                                                            *)
THEOREM TasksLive == Spec => []RecvTaskLive
  <1>1. PInv => RecvTaskLive
    <2> SUFFICES ASSUME PInv, NEW c \in Conns
                 PROVE  /\ rtask[c] => /\ tpc[c] # "none"
                                       /\ tpc[c] \in {"tail", "take", "fin", "exit", "gone"} => stop[c]
                        /\ stop[c] => \E k \in Closers :
                                        (kpc[k] = "join" /\ At(k) = c) \/ tpc[c] = "gone"
      BY Zenon DEF RecvTaskLive
    <2>1. Task(c) /\ c # "cmd"
      BY NoneAssumption, Zenon DEF PInv, Local
    <2>2. mtx[c] \in Closers => mtx[c] = "cmd" \/ mtx[c] = c
      BY <2>1, Zenon DEF Task, Closers
    <2>3. mtx[c] = "cmd" => kpc["cmd"] = "join" /\ At("cmd") = c
      BY <2>1, Zenon DEF Task, CmdJoins, At
    <2>4. mtx[c] = c => kpc[c] = "join" /\ At(c) = c
      BY <2>1, Zenon DEF Task, At
    <2>5. "cmd" \in Closers /\ c \in Closers
      BY Zenon DEF Closers
    <2>6. stop[c] => mtx[c] \in Closers \/ tpc[c] = "gone"
      BY <2>1, Zenon DEF Task
    <2>7. rtask[c] => tpc[c] # "none" /\ (tpc[c] \in {"tail", "take", "fin", "exit", "gone"} => stop[c])
      BY <2>1, Zenon DEF Task, Ending
    <2> QED
      BY <2>2, <2>3, <2>4, <2>5, <2>6, <2>7, ZenonT(30)
  <1> QED
    BY <1>1, InitPInv, NextPInv, PTL DEF Spec

(* After hmdfs_disconnect_node, unless its wait timed out, no message of   *)
(* the peer is handled any more when the OFF event is reported: for any    *)
(* set of connections, any number of disconnects and of broken sockets.    *)
THEOREM DisconnectQuiet == Spec => []QuietAfterOff
  <1>1. PInv => QuietAfterOff
    <2> SUFFICES ASSUME PInv, kpc["cmd"] = "report", ~late, NEW c \in Conns
                 PROVE  tpc[c] \in {"none", "tail", "take", "exit", "gone"}
      BY Zenon DEF QuietAfterOff
    <2>1. Types /\ Cmd /\ Sweep /\ Count(c) /\ Listed(c) /\ Task(c)
      BY Zenon DEF PInv, Local
    <2>2. where[c] \in {"new", "off", "freed"}
      BY <2>1, Zenon DEF Types, Cmd, Sweep
    <2>3. CASE where[c] = "new"
      BY <2>1, <2>3, Zenon DEF Count
    <2>4. CASE where[c] = "off"
      BY <2>1, <2>4, Zenon DEF Listed, Task, Ending
    <2>5. CASE where[c] = "freed"
      <3>1. Users(c) = {}
        BY <2>1, <2>5, UsersFinite, FS_EmptySet, Zenon DEF Count
      <3> QED
        BY <3>1, UserIs, Zenon
    <2> QED
      BY <2>2, <2>3, <2>4, <2>5, ZenonT(30)
  <1> QED
    BY <1>1, InitPInv, NextPInv, PTL DEF Spec
-----------------------------------------------------------------------------
(* The status of the node and the notices to the agent.                    *)

\* Somebody has taken connection c off the list and has yet to notify.
Taken(c) ==
  \/ tpc[c] \in {"fin", "hfin"}
  \/ kpc["cmd"] \in Closing /\ kc = c /\ cop # "off"
  \/ kpc[c] \in Closing

Held(c) == where[c] = "impl" \/ Taken(c)

\* A connection that has not finished its handshake.
Unfinished(c) == Held(c) /\ (st[c] # "WORKING" \/ tpc[c] = "node")

STypes ==
  /\ st \in [Conns -> {"WAIT_REQUEST", "WAIT_RESPONSE", "WAIT_ACK", "WORKING", "STOP", "NEGO_FAIL"}]
  /\ tmsg \in [Conns -> {"none", "REQUEST", "RESPONSE", "ACK", "BAD"}]
  /\ inb \in [Conns -> {"none", "REQUEST", "RESPONSE", "ACK", "BAD"}]

\* A request leaves its connection short of WORKING.
Requested(c) == tpc[c] = "node" /\ tmsg[c] = "REQUEST" => st[c] # "WORKING"

\* During a disconnect the node is OFFLINE.
OffSeen == cop = "off" => nstat = "OFFLINE" \/ stale

\* A node that is ONLINE was reported so, or is about to be; it has a
\* connection, or somebody is about to ask for one, or has asked.
OnlineTrue ==
  nstat = "ONLINE" /\ ~stale => /\ evt = "ON" \/ \E c \in Conns : tpc[c] = "event"
                                /\ asked \/ dropped \/ \E c \in Conns : Held(c)

\* A node that is SHAKING has a connection that has not finished.
ShakingTrue ==
  nstat = "SHAKING" /\ ~stale => \/ asked \/ dropped
                                 \/ \A c \in Conns : where[c] = "new"
                                 \/ \E c \in Conns : Unfinished(c)

SInv ==
  /\ STypes /\ OffSeen /\ OnlineTrue /\ ShakingTrue
  /\ \A c \in Conns : Requested(c)

\* What a step that leaves the node's status does to the rest of the node.
Scalars ==
  /\ nstat' = nstat /\ stale' = stale
  /\ cop' = "off" => cop = "off"
  /\ evt' \in {evt, "ON"} \/ cop = "off"
  /\ (asked => asked') /\ (dropped => dropped')

\* ... and to one connection.
Stays(q) ==
  /\ Requested(q)'
  /\ tpc[q] = "event" => tpc'[q] = "event" \/ evt' = "ON"
  /\ Held(q) => Held(q)' \/ asked' \/ dropped' \/ cop = "off"
  /\ st[q] # "WORKING" \/ tpc[q] = "node" => st'[q] # "WORKING" \/ tpc'[q] = "node"
  /\ where[q] = "new" => where'[q] = "new"

(* A step that leaves the node's status, and no connection unnoticed,      *)
(* leaves the status true.                                                 *)
LEMMA SKeeps ==
  ASSUME SInv, STypes', Scalars, \A q \in Conns : Stays(q)
  PROVE  SInv'
  <1>1. OffSeen'
    BY Zenon DEF SInv, OffSeen, Scalars
  <1>2. OnlineTrue'
    <2>1. cop # "off" \/ ~(nstat' = "ONLINE" /\ ~stale')
      BY Zenon DEF SInv, OffSeen, Scalars
    <2> SUFFICES ASSUME nstat' = "ONLINE", ~stale'
                 PROVE  /\ evt' = "ON" \/ \E c \in Conns : tpc'[c] = "event"
                        /\ asked' \/ dropped' \/ \E c \in Conns : Held(c)'
      BY Zenon DEF OnlineTrue
    <2>2. /\ evt = "ON" \/ \E c \in Conns : tpc[c] = "event"
          /\ asked \/ dropped \/ \E c \in Conns : Held(c)
      BY Zenon DEF SInv, OnlineTrue, Scalars
    <2>3. evt = "ON" => evt' = "ON"
      BY <2>1, Zenon DEF Scalars
    <2>4. (asked => asked') /\ (dropped => dropped')
      BY Zenon DEF Scalars
    <2>5. ASSUME NEW c \in Conns, tpc[c] = "event" PROVE tpc'[c] = "event" \/ evt' = "ON"
      BY <2>5, Zenon DEF Stays
    <2>6. ASSUME NEW c \in Conns, Held(c) PROVE Held(c)' \/ asked' \/ dropped'
      BY <2>1, <2>6, Zenon DEF Stays
    <2> QED
      BY <2>2, <2>3, <2>4, <2>5, <2>6, ZenonT(30)
  <1>3. ShakingTrue'
    <2>1. cop # "off" \/ ~(nstat' = "SHAKING" /\ ~stale')
      BY Zenon DEF SInv, OffSeen, Scalars
    <2>2. ASSUME NEW q \in Conns, Unfinished(q), cop # "off" PROVE Unfinished(q)' \/ asked' \/ dropped'
      BY <2>2, Zenon DEF Unfinished, Stays
    <2> SUFFICES ASSUME nstat' = "SHAKING", ~stale'
                 PROVE  \/ asked' \/ dropped'
                        \/ \A c \in Conns : where'[c] = "new"
                        \/ \E c \in Conns : Unfinished(c)'
      BY Zenon DEF ShakingTrue
    <2>3. \/ asked \/ dropped
          \/ \A c \in Conns : where[c] = "new"
          \/ \E c \in Conns : Unfinished(c)
      BY Zenon DEF SInv, ShakingTrue, Scalars
    <2>4. (asked => asked') /\ (dropped => dropped')
      BY Zenon DEF Scalars
    <2>5. ASSUME NEW c \in Conns, where[c] = "new" PROVE where'[c] = "new"
      BY <2>5, Zenon DEF Stays
    <2> QED
      BY <2>1, <2>2, <2>3, <2>4, <2>5, ZenonT(30)
  <1> QED
    BY <1>1, <1>2, <1>3, Zenon DEF SInv, Stays

(* The step RecvStop leaves the status of the node true.                   *)
LEMMA RecvStopStatus ==
  ASSUME PInv, SInv, NEW c \in Conns, RecvStop(c)
  PROVE  SInv'
  <1>0. /\ Types /\ Cmd /\ Sender /\ Sweep /\ STypes /\ OffSeen
        /\ \A q \in Conns : Requested(q) /\ Local(q)
    BY Zenon DEF PInv, SInv
  <1>1. STypes'
    BY <1>0, Zenon DEF STypes, RecvStop, conn, thread, wire, node, closers
  <1>2. Scalars
    BY <1>0, Zenon DEF Scalars, Cmd, RecvStop, conn, thread, wire, node, closers
  <1>3. ASSUME NEW q \in Conns
        PROVE  Stays(q)
    <2>1. Requested(q) /\ q # "cmd" /\ q # None
      BY <1>0, NoneAssumption, Zenon
    <2> QED
      BY <1>0, <2>1, NoneAssumption, Zenon DEF Types, STypes, Cmd, Closing,
         Stays, Held, Taken, Requested, RecvStop, conn, thread, wire, node, closers
  <1> QED
    BY <1>1, <1>2, <1>3, SKeeps, Zenon

(* The step Tcp_receive_from_sock leaves the status of the node true.      *)
LEMMA Tcp_receive_from_sockStatus ==
  ASSUME PInv, SInv, NEW c \in Conns, tcp_receive_from_sock(c)
  PROVE  SInv'
  <1>0. /\ Types /\ Cmd /\ Sender /\ Sweep /\ STypes /\ OffSeen
        /\ \A q \in Conns : Requested(q) /\ Local(q)
    BY Zenon DEF PInv, SInv
  <1>1. STypes'
    BY <1>0, Zenon DEF STypes, tcp_receive_from_sock, conn, thread, wire, node,
       closers
  <1>2. Scalars
    BY <1>0, Zenon DEF Scalars, Cmd, tcp_receive_from_sock, conn, thread, wire,
       node, closers
  <1>3. ASSUME NEW q \in Conns
        PROVE  Stays(q)
    <2>1. Requested(q) /\ q # "cmd" /\ q # None
      BY <1>0, NoneAssumption, Zenon
    <2> QED
      BY <1>0, <2>1, NoneAssumption, ZenonT(30) DEF Types, STypes, Cmd, Closing,
         Stays, Held, Taken, Requested, tcp_receive_from_sock, conn, thread, wire,
         node, closers
  <1> QED
    BY <1>1, <1>2, <1>3, SKeeps, Zenon

(* The step RecvDown leaves the status of the node true.                   *)
LEMMA RecvDownStatus ==
  ASSUME PInv, SInv, NEW c \in Conns, RecvDown(c)
  PROVE  SInv'
  <1>0. /\ Types /\ Cmd /\ Sender /\ Sweep /\ STypes /\ OffSeen
        /\ \A q \in Conns : Requested(q) /\ Local(q)
    BY Zenon DEF PInv, SInv
  <1>1. STypes'
    BY <1>0, Zenon DEF STypes, RecvDown, conn, thread, wire, node, closers
  <1>2. Scalars
    BY <1>0, Zenon DEF Scalars, Cmd, RecvDown, conn, thread, wire, node, closers
  <1>3. ASSUME NEW q \in Conns
        PROVE  Stays(q)
    <2>1. Requested(q) /\ q # "cmd" /\ q # None
      BY <1>0, NoneAssumption, Zenon
    <2> QED
      BY <1>0, <2>1, NoneAssumption, ZenonT(30) DEF Types, STypes, Cmd, Closing,
         Stays, Held, Taken, Requested, RecvDown, conn, thread, wire, node, closers
  <1> QED
    BY <1>1, <1>2, <1>3, SKeeps, Zenon

(* The step RecvTail leaves the status of the node true.                   *)
LEMMA RecvTailStatus ==
  ASSUME PInv, SInv, NEW c \in Conns, RecvTail(c)
  PROVE  SInv'
  <1>0. /\ Types /\ Cmd /\ Sender /\ Sweep /\ STypes /\ OffSeen
        /\ \A q \in Conns : Requested(q) /\ Local(q)
    BY Zenon DEF PInv, SInv
  <1>1. STypes'
    BY <1>0, Zenon DEF STypes, RecvTail, conn, thread, wire, node, closers
  <1>2. Scalars
    BY <1>0, Zenon DEF Scalars, Cmd, RecvTail, conn, thread, wire, node, closers
  <1>3. ASSUME NEW q \in Conns
        PROVE  Stays(q)
    <2>1. Requested(q) /\ q # "cmd" /\ q # None
      BY <1>0, NoneAssumption, Zenon
    <2> QED
      BY <1>0, <2>1, NoneAssumption, ZenonT(30) DEF Types, STypes, Cmd, Closing,
         Stays, Held, Taken, Requested, RecvTail, conn, thread, wire, node, closers
  <1> QED
    BY <1>1, <1>2, <1>3, SKeeps, Zenon

(* The step RecvTake leaves the status of the node true.                   *)
LEMMA RecvTakeStatus ==
  ASSUME PInv, SInv, NEW c \in Conns, RecvTake(c)
  PROVE  SInv'
  <1>0. /\ Types /\ Cmd /\ Sender /\ Sweep /\ STypes /\ OffSeen
        /\ \A q \in Conns : Requested(q) /\ Local(q)
    BY Zenon DEF PInv, SInv
  <1>1. STypes'
    BY <1>0, Zenon DEF STypes, RecvTake, OnList, ToDeleting, conn, thread, wire,
       node, closers
  <1>2. Scalars
    BY <1>0, Zenon DEF Scalars, Cmd, RecvTake, OnList, ToDeleting, conn, thread,
       wire, node, closers
  <1>3. ASSUME NEW q \in Conns
        PROVE  Stays(q)
    <2>1. Requested(q) /\ q # "cmd" /\ q # None
      BY <1>0, NoneAssumption, Zenon
    <2> QED
      BY <1>0, <2>1, NoneAssumption DEF Types, STypes, Cmd, Closing, Stays, Held,
         Taken, Requested, RecvTake, OnList, ToDeleting, conn, thread, wire, node,
         closers
  <1> QED
    BY <1>1, <1>2, <1>3, SKeeps, Zenon

(* The step RecvFin leaves the status of the node true.                    *)
LEMMA RecvFinStatus ==
  ASSUME PInv, SInv, NEW c \in Conns, RecvFin(c)
  PROVE  SInv'
  <1>0. /\ Types /\ Cmd /\ Sender /\ Sweep /\ STypes /\ OffSeen
        /\ \A q \in Conns : Requested(q) /\ Local(q)
    BY Zenon DEF PInv, SInv
  <1>p. c \in Conns /\ (ref[c] = 1 => where[c] \notin {"impl", "new"})
    <2>1. c \in Conns /\ Count(c)
      BY <1>0, Zenon DEF Local, Cmd, Sender, RecvFin, connection_notify_to_close, Shutdown,
         connection_put
    <2>2. "thread closes" \in Users(c)
      BY <1>0, <2>1, UserIs, NoneAssumption, Zenon DEF Cmd, Sender, TakerOf, At,
         RecvFin, connection_notify_to_close, Shutdown, connection_put
    <2>3. ref[c] = 1 => where[c] \notin {"impl", "local"}
      BY <2>1, <2>2, Alone, Zenon
    <2> QED
      BY <2>1, <2>3 DEF Count
  <1>1. STypes'
    BY <1>0, Zenon DEF STypes, RecvFin, connection_notify_to_close, Shutdown, connection_put,
       conn, thread, wire, node, closers
  <1>2. Scalars
    <2>1. (asked => asked') /\ (dropped => dropped')
      BY DEF RecvFin, connection_notify_to_close
    <2>2. UNCHANGED <<nstat, stale, cop, evt>>
      BY Zenon DEF RecvFin, connection_notify_to_close, closers
    <2> QED
      BY <2>1, <2>2, Zenon DEF Scalars
  <1>3. ASSUME NEW q \in Conns
        PROVE  Stays(q)
    <2>1. Requested(q) /\ q # "cmd" /\ q # None
      BY <1>0, NoneAssumption, Zenon
    <2> QED
      BY <1>0, <1>p, <2>1, NoneAssumption, ZenonT(30) DEF Types, STypes, Cmd, Closing, Stays,
         Held, Taken, Requested, RecvFin, connection_notify_to_close, Shutdown,
         connection_put, conn, thread, wire, node, closers
  <1> QED
    BY <1>1, <1>2, <1>3, SKeeps, Zenon

(* The step RecvExit leaves the status of the node true.                   *)
LEMMA RecvExitStatus ==
  ASSUME PInv, SInv, NEW c \in Conns, RecvExit(c)
  PROVE  SInv'
  <1>0. /\ Types /\ Cmd /\ Sender /\ Sweep /\ STypes /\ OffSeen
        /\ \A q \in Conns : Requested(q) /\ Local(q)
    BY Zenon DEF PInv, SInv
  <1>p. c \in Conns /\ (ref[c] = 1 => where[c] \notin {"impl", "new"})
    <2>1. c \in Conns /\ Count(c)
      BY <1>0, Zenon DEF Local, Cmd, Sender, RecvExit, connection_put
    <2>2. "thread" \in Users(c)
      BY <1>0, <2>1, UserIs, NoneAssumption, Zenon DEF Cmd, Sender, TakerOf, At,
         RecvExit, connection_put
    <2>3. ref[c] = 1 => where[c] \notin {"impl", "local"}
      BY <2>1, <2>2, Alone, Zenon
    <2> QED
      BY <2>1, <2>3 DEF Count
  <1>1. STypes'
    BY <1>0, Zenon DEF STypes, RecvExit, connection_put, conn, thread, wire,
       node, closers
  <1>2. Scalars
    BY <1>0, Zenon DEF Scalars, Cmd, RecvExit, connection_put, conn, thread,
       wire, node, closers
  <1>3. ASSUME NEW q \in Conns
        PROVE  Stays(q)
    <2>1. Requested(q) /\ q # "cmd" /\ q # None
      BY <1>0, NoneAssumption, Zenon
    <2> QED
      BY <1>0, <1>p, <2>1, NoneAssumption, ZenonT(30) DEF Types, STypes, Cmd,
         Closing, Stays, Held, Taken, Requested, RecvExit, connection_put, conn,
         thread, wire, node, closers
  <1> QED
    BY <1>1, <1>2, <1>3, SKeeps, Zenon

(* The step HandlerReply leaves the status of the node true.               *)
LEMMA HandlerReplyStatus ==
  ASSUME PInv, SInv, NEW c \in Conns, HandlerReply(c)
  PROVE  SInv'
  <1>0. /\ Types /\ Cmd /\ Sender /\ Sweep /\ STypes /\ OffSeen
        /\ \A q \in Conns : Requested(q) /\ Local(q)
    BY Zenon DEF PInv, SInv
  <1>1. STypes'
    BY <1>0, Zenon DEF STypes, HandlerReply, conn, thread, wire, node, closers
  <1>2. Scalars
    BY <1>0, Zenon DEF Scalars, Cmd, HandlerReply, conn, thread, wire, node,
       closers
  <1>3. ASSUME NEW q \in Conns
        PROVE  Stays(q)
    <2>1. Requested(q) /\ q # "cmd" /\ q # None
      BY <1>0, NoneAssumption, Zenon
    <2> QED
      BY <1>0, <2>1, NoneAssumption DEF Types, STypes, Cmd, Closing, Stays, Held,
         Taken, Requested, HandlerReply, conn, thread, wire, node, closers
  <1> QED
    BY <1>1, <1>2, <1>3, SKeeps, Zenon

(* The step HandlerStatus leaves the status of the node true.              *)
LEMMA HandlerStatusStatus ==
  ASSUME PInv, SInv, NEW c \in Conns, HandlerStatus(c)
  PROVE  SInv'
  <1>0. /\ Types /\ Cmd /\ Sender /\ Sweep /\ STypes /\ OffSeen
        /\ \A q \in Conns : Requested(q) /\ Local(q)
    BY Zenon DEF PInv, SInv
  <1>1. STypes'
    BY <1>0, Zenon DEF STypes, HandlerStatus, HandlerEnds, conn, thread, wire,
       node, closers
  <1>2. Scalars
    BY <1>0, Zenon DEF Scalars, Cmd, HandlerStatus, HandlerEnds, conn, thread,
       wire, node, closers
  <1>3. ASSUME NEW q \in Conns
        PROVE  Stays(q)
    <2>1. Requested(q) /\ q # "cmd" /\ q # None
      BY <1>0, NoneAssumption, Zenon
    <2> QED
      BY <1>0, <2>1, NoneAssumption DEF Types, STypes, Cmd, Closing, Stays, Held,
         Taken, Requested, HandlerStatus, HandlerEnds, conn, thread, wire, node,
         closers
  <1> QED
    BY <1>1, <1>2, <1>3, SKeeps, Zenon

(* The step HandlerEvent leaves the status of the node true.               *)
LEMMA HandlerEventStatus ==
  ASSUME PInv, SInv, NEW c \in Conns, HandlerEvent(c)
  PROVE  SInv'
  <1>0. /\ Types /\ Cmd /\ Sender /\ Sweep /\ STypes /\ OffSeen
        /\ \A q \in Conns : Requested(q) /\ Local(q)
    BY Zenon DEF PInv, SInv
  <1>1. STypes'
    BY <1>0, Zenon DEF STypes, HandlerEvent, HandlerEnds, conn, thread, wire,
       node, closers
  <1>2. Scalars
    BY <1>0, Zenon DEF Scalars, Cmd, HandlerEvent, HandlerEnds, conn, thread,
       wire, node, closers
  <1>3. ASSUME NEW q \in Conns
        PROVE  Stays(q)
    <2>1. Requested(q) /\ q # "cmd" /\ q # None
      BY <1>0, NoneAssumption, Zenon
    <2> QED
      BY <1>0, <2>1, NoneAssumption, ZenonT(30) DEF Types, STypes, Cmd, Closing,
         Stays, Held, Taken, Requested, HandlerEvent, HandlerEnds, conn, thread,
         wire, node, closers
  <1> QED
    BY <1>1, <1>2, <1>3, SKeeps, Zenon

(* The step HandlerNego leaves the status of the node true.                *)
LEMMA HandlerNegoStatus ==
  ASSUME PInv, SInv, NEW c \in Conns, HandlerNego(c)
  PROVE  SInv'
  <1>0. /\ Types /\ Cmd /\ Sender /\ Sweep /\ STypes /\ OffSeen
        /\ \A q \in Conns : Requested(q) /\ Local(q)
    BY Zenon DEF PInv, SInv
  <1>1. STypes'
    BY <1>0, Zenon DEF STypes, HandlerNego, HandlerEnds, conn, thread, wire,
       node, closers
  <1>2. Scalars
    BY <1>0, Zenon DEF Scalars, Cmd, HandlerNego, HandlerEnds, conn, thread,
       wire, node, closers
  <1>3. ASSUME NEW q \in Conns
        PROVE  Stays(q)
    <2>1. Requested(q) /\ q # "cmd" /\ q # None
      BY <1>0, NoneAssumption, Zenon
    <2> QED
      BY <1>0, <2>1, NoneAssumption, ZenonT(30) DEF Types, STypes, Cmd, Closing,
         Stays, Held, Taken, Requested, HandlerNego, HandlerEnds, conn, thread,
         wire, node, closers
  <1> QED
    BY <1>1, <1>2, <1>3, SKeeps, Zenon

(* The step RegetWork leaves the status of the node true.                  *)
LEMMA RegetWorkStatus ==
  ASSUME PInv, SInv, NEW c \in Conns, RegetWork(c)
  PROVE  SInv'
  <1>0. /\ Types /\ Cmd /\ Sender /\ Sweep /\ STypes /\ OffSeen
        /\ \A q \in Conns : Requested(q) /\ Local(q)
    BY Zenon DEF PInv, SInv
  <1>1. STypes'
    BY <1>0, Zenon DEF STypes, RegetWork, conn, thread, wire, node, closers
  <1>2. Scalars
    BY <1>0, Zenon DEF Scalars, Cmd, RegetWork, conn, thread, wire, node,
       closers
  <1>3. ASSUME NEW q \in Conns
        PROVE  Stays(q)
    <2>1. Requested(q) /\ q # "cmd" /\ q # None
      BY <1>0, NoneAssumption, Zenon
    <2>2. /\ UNCHANGED <<where, st, tpc, tmsg, kc, cop>> /\ kpc[c] = "idle"
          /\ kpc' = [kpc EXCEPT ![c] = "take"]
      BY Zenon DEF RegetWork, conn, thread, wire, node, closers
    <2>3. kpc'["cmd"] = kpc["cmd"] /\ (q # c => kpc'[q] = kpc[q])
      BY <1>0, <2>2, NoneAssumption, ZenonT(30) DEF Types, Closers
    <2> QED
      BY <2>1, <2>2, <2>3, ZenonT(30) DEF Closing, Stays, Held, Taken, Requested
  <1> QED
    BY <1>1, <1>2, <1>3, SKeeps, Zenon

(* The step RegetWorkEnd leaves the status of the node true.               *)
LEMMA RegetWorkEndStatus ==
  ASSUME PInv, SInv, NEW c \in Conns, RegetWorkEnd(c)
  PROVE  SInv'
  <1>0. /\ Types /\ Cmd /\ Sender /\ Sweep /\ STypes /\ OffSeen
        /\ \A q \in Conns : Requested(q) /\ Local(q)
    BY Zenon DEF PInv, SInv
  <1>p. c \in Conns /\ (ref[c] = 1 => where[c] \notin {"impl", "new"})
    <2>1. c \in Conns /\ Count(c)
      BY <1>0, Zenon DEF Local, Cmd, Sender, RegetWorkEnd, connection_put
    <2>2. "work" \in Users(c)
      BY <1>0, <2>1, UserIs, NoneAssumption, Zenon DEF Cmd, Sender, TakerOf, At,
         RegetWorkEnd, connection_put
    <2>3. ref[c] = 1 => where[c] \notin {"impl", "local"}
      BY <2>1, <2>2, Alone, Zenon
    <2> QED
      BY <2>1, <2>3 DEF Count
  <1>1. STypes'
    BY <1>0, Zenon DEF STypes, RegetWorkEnd, connection_put, conn, thread, wire,
       node, closers
  <1>2. Scalars
    BY <1>0, Zenon DEF Scalars, Cmd, RegetWorkEnd, connection_put, conn, thread,
       wire, node, closers
  <1>3. ASSUME NEW q \in Conns
        PROVE  Stays(q)
    <2>1. Requested(q) /\ q # "cmd" /\ q # None
      BY <1>0, NoneAssumption, Zenon
    <2>2. /\ UNCHANGED <<st, tpc, tmsg, kc, cop>> /\ kpc[c] = "put"
          /\ \E to : kpc' = [kpc EXCEPT ![c] = to]
      BY Zenon DEF RegetWorkEnd, connection_put, conn, thread, wire, node,
         closers
    <2>3. kpc'["cmd"] = kpc["cmd"] /\ (q # c => kpc'[q] = kpc[q])
      BY <1>0, <2>1, <2>2, NoneAssumption, ZenonT(30) DEF Types, Closers
    <2>4. where[q] \in {"impl", "new"} => where'[q] = where[q]
      <3>1. where' = [where EXCEPT ![c] = IF ref[c] = 1 THEN "freed" ELSE where[c]]
        BY <2>1, Zenon DEF RegetWorkEnd, connection_put, conn, thread, wire,
           node, closers
      <3> QED
        BY <1>0, <1>p, <3>1, Zenon DEF Types
    <2> QED
      BY <2>1, <2>2, <2>3, <2>4, ZenonT(30) DEF Closing, Stays, Held, Taken,
         Requested
  <1> QED
    BY <1>1, <1>2, <1>3, SKeeps, Zenon

(* The step SendRequest leaves the status of the node true.                *)
LEMMA SendRequestStatus ==
  ASSUME PInv, SInv, SendRequest
  PROVE  SInv'
  <1>0. /\ Types /\ Cmd /\ Sender /\ Sweep /\ STypes /\ OffSeen
        /\ \A q \in Conns : Requested(q) /\ Local(q)
    BY Zenon DEF PInv, SInv
  <1>1. STypes'
    BY <1>0, Zenon DEF STypes, SendRequest, conn, thread, wire, node, closers
  <1>2. Scalars
    BY <1>0, Zenon DEF Scalars, Cmd, SendRequest, conn, thread, wire, node,
       closers
  <1>3. ASSUME NEW q \in Conns
        PROVE  Stays(q)
    <2>1. Requested(q) /\ q # "cmd" /\ q # None
      BY <1>0, NoneAssumption, Zenon
    <2>2. kpc["cmd"] = "hello" /\ UNCHANGED <<where, st, tpc, tmsg, kc, cop>>
      BY Zenon DEF SendRequest, conn, thread, wire, node, closers
    <2>3. \E to : kpc' = [kpc EXCEPT !["cmd"] = to]
      BY Zenon DEF SendRequest, conn, thread, wire, node, closers
    <2>4. kpc'[q] = kpc[q]
      BY <1>0, <2>1, <2>3 DEF Types
    <2> QED
      BY <2>1, <2>2, <2>4, ZenonT(30) DEF Closing, Stays, Held, Taken, Requested
  <1> QED
    BY <1>1, <1>2, <1>3, SKeeps, Zenon

(* The step PutCmd leaves the status of the node true.                     *)
LEMMA PutCmdStatus ==
  ASSUME PInv, SInv, PutCmd
  PROVE  SInv'
  <1>0. /\ Types /\ Cmd /\ Sender /\ Sweep /\ STypes /\ OffSeen
        /\ \A q \in Conns : Requested(q) /\ Local(q)
    BY Zenon DEF PInv, SInv
  <1>p. kc \in Conns /\ (ref[kc] = 1 => where[kc] \notin {"impl", "new"})
    <2>1. kc \in Conns /\ Count(kc)
      BY <1>0, Zenon DEF Local, Cmd, Sender, PutCmd, connection_put
    <2>2. "command" \in Users(kc)
      BY <1>0, <2>1, UserIs, NoneAssumption, Zenon DEF Cmd, Sender, TakerOf, At,
         PutCmd, connection_put
    <2>3. ref[kc] = 1 => where[kc] \notin {"impl", "local"}
      BY <2>1, <2>2, Alone, Zenon
    <2> QED
      BY <2>1, <2>3 DEF Count
  <1>1. STypes'
    BY <1>0, Zenon DEF STypes, PutCmd, connection_put, conn, thread, wire, node,
       closers
  <1>2. Scalars
    BY <1>0, Zenon DEF Scalars, Cmd, PutCmd, connection_put, conn, thread, wire,
       node, closers
  <1>3. ASSUME NEW q \in Conns
        PROVE  Stays(q)
    <2>1. Requested(q) /\ q # "cmd" /\ q # None
      BY <1>0, NoneAssumption, Zenon
    <2>2. /\ UNCHANGED <<st, tpc, tmsg>> /\ kpc["cmd"] = "drop"
          /\ \E to : kpc' = [kpc EXCEPT !["cmd"] = to]
      BY Zenon DEF PutCmd, connection_put, conn, thread, wire, node, closers
    <2>3. kpc'[q] = kpc[q]
      BY <1>0, <2>1, <2>2, NoneAssumption, Zenon DEF Types, Closers
    <2>4. where[q] \in {"impl", "new"} => where'[q] = where[q]
      <3>1. where' = [where EXCEPT ![kc] = IF ref[kc] = 1 THEN "freed" ELSE where[kc]]
        BY <2>1, Zenon DEF PutCmd, connection_put, conn, thread, wire, node,
           closers
      <3> QED
        BY <1>0, <1>p, <3>1, Zenon DEF Types
    <2> QED
      BY <2>1, <2>2, <2>3, <2>4, ZenonT(30) DEF Closing, Stays, Held, Taken,
         Requested
  <1> QED
    BY <1>1, <1>2, <1>3, SKeeps, Zenon

(* The step GrabList leaves the status of the node true.                   *)
LEMMA GrabListStatus ==
  ASSUME PInv, SInv, GrabList
  PROVE  SInv'
  <1>0. /\ Types /\ Cmd /\ Sender /\ Sweep /\ STypes /\ OffSeen
        /\ \A q \in Conns : Requested(q) /\ Local(q)
    BY Zenon DEF PInv, SInv
  <1>1. STypes'
    BY <1>0, Zenon DEF STypes, GrabList, OnList, conn, thread, wire, node,
       closers
  <1>2. Scalars
    BY <1>0, Zenon DEF Scalars, Cmd, GrabList, OnList, conn, thread, wire, node,
       closers
  <1>3. ASSUME NEW q \in Conns
        PROVE  Stays(q)
    <2>1. Requested(q) /\ q # "cmd" /\ q # None
      BY <1>0, NoneAssumption, Zenon
    <2> QED
      BY <1>0, <2>1, NoneAssumption, ZenonT(30) DEF Types, STypes, Cmd, Closing,
         Stays, Held, Taken, Requested, GrabList, OnList, conn, thread, wire, node,
         closers
  <1> QED
    BY <1>1, <1>2, <1>3, SKeeps, Zenon

(* The step NextLocal leaves the status of the node true.                  *)
LEMMA NextLocalStatus ==
  ASSUME PInv, SInv, NextLocal
  PROVE  SInv'
  <1>0. /\ Types /\ Cmd /\ Sender /\ Sweep /\ STypes /\ OffSeen
        /\ \A q \in Conns : Requested(q) /\ Local(q)
    BY Zenon DEF PInv, SInv
  <1>1. STypes'
    BY <1>0, Zenon DEF STypes, NextLocal, conn, thread, wire, node, closers
  <1>2. Scalars
    BY <1>0, Zenon DEF Scalars, Cmd, NextLocal, conn, thread, wire, node,
       closers
  <1>3. ASSUME NEW q \in Conns
        PROVE  Stays(q)
    <2>1. Requested(q) /\ q # "cmd" /\ q # None
      BY <1>0, NoneAssumption, Zenon
    <2> QED
      BY <1>0, <2>1, NoneAssumption, ZenonT(30) DEF Types, STypes, Cmd, Closing,
         Stays, Held, Taken, Requested, NextLocal, conn, thread, wire, node,
         closers
  <1> QED
    BY <1>1, <1>2, <1>3, SKeeps, Zenon

(* The step WaitDeleting leaves the status of the node true.               *)
LEMMA WaitDeletingStatus ==
  ASSUME PInv, SInv, WaitDeleting
  PROVE  SInv'
  <1>0. /\ Types /\ Cmd /\ Sender /\ Sweep /\ STypes /\ OffSeen
        /\ \A q \in Conns : Requested(q) /\ Local(q)
    BY Zenon DEF PInv, SInv
  <1>1. STypes'
    BY <1>0, Zenon DEF STypes, WaitDeleting, conn, thread, wire, node, closers
  <1>2. Scalars
    BY <1>0, Zenon DEF Scalars, Cmd, WaitDeleting, conn, thread, wire, node,
       closers
  <1>3. ASSUME NEW q \in Conns
        PROVE  Stays(q)
    <2>1. Requested(q) /\ q # "cmd" /\ q # None
      BY <1>0, NoneAssumption, Zenon
    <2> QED
      BY <1>0, <2>1, NoneAssumption, ZenonT(30) DEF Types, STypes, Cmd, Closing,
         Stays, Held, Taken, Requested, WaitDeleting, conn, thread, wire, node,
         closers
  <1> QED
    BY <1>1, <1>2, <1>3, SKeeps, Zenon

(* The step ReportOff leaves the status of the node true.                  *)
LEMMA ReportOffStatus ==
  ASSUME PInv, SInv, ReportOff
  PROVE  SInv'
  <1>0. /\ Types /\ Cmd /\ Sender /\ Sweep /\ STypes /\ OffSeen
        /\ \A q \in Conns : Requested(q) /\ Local(q)
    BY Zenon DEF PInv, SInv
  <1>1. STypes'
    BY <1>0, Zenon DEF STypes, ReportOff, conn, thread, wire, node, closers
  <1>2. Scalars
    BY <1>0, Zenon DEF Scalars, Cmd, ReportOff, conn, thread, wire, node,
       closers
  <1>3. ASSUME NEW q \in Conns
        PROVE  Stays(q)
    <2>1. Requested(q) /\ q # "cmd" /\ q # None
      BY <1>0, NoneAssumption, Zenon
    <2> QED
      BY <1>0, <2>1, NoneAssumption, Zenon DEF Types, STypes, Cmd, Closing,
         Stays, Held, Taken, Requested, ReportOff, conn, thread, wire, node,
         closers
  <1> QED
    BY <1>1, <1>2, <1>3, SKeeps, Zenon

(* The step Take leaves the status of the node true.                       *)
LEMMA TakeStatus ==
  ASSUME PInv, SInv, NEW k \in Closers, Take(k)
  PROVE  SInv'
  <1>0. /\ Types /\ Cmd /\ Sender /\ Sweep /\ STypes /\ OffSeen
        /\ \A q \in Conns : Requested(q) /\ Local(q)
    BY Zenon DEF PInv, SInv
  <1>1. STypes'
    BY <1>0, Zenon DEF STypes, Take, OnList, ToDeleting, At, conn, thread, wire,
       node, closers
  <1>2. Scalars
    BY <1>0, Zenon DEF Scalars, Cmd, Take, OnList, ToDeleting, At, conn, thread,
       wire, node, closers
  <1>3. ASSUME NEW q \in Conns
        PROVE  Stays(q)
    <2>1. Requested(q) /\ q # "cmd" /\ q # None
      BY <1>0, NoneAssumption, Zenon
    <2>2. /\ kpc[k] = "take" /\ UNCHANGED <<st, tpc, tmsg, kc, cop>>
          /\ OnList(At(k)) => /\ where' = [where EXCEPT ![At(k)] = "deleting"]
                             /\ kpc' = [kpc EXCEPT ![k] = "shut"]
          /\ ~OnList(At(k)) => /\ where' = where
                              /\ \E to : kpc' = [kpc EXCEPT ![k] = to]
      BY Zenon DEF Take, ToDeleting, Take, OnList, ToDeleting, At, conn, thread,
         wire, node, closers
    <2>3. CASE ~OnList(At(k))
      <3>1. UNCHANGED where /\ (k # q => kpc'[q] = kpc[q]) /\ (k # "cmd" => kpc'["cmd"] = kpc["cmd"])
        BY <1>0, <2>2, <2>3, Zenon DEF Types, Closers
      <3> QED
        BY <2>1, <2>2, <3>1, ZenonT(30) DEF Closing, Stays, Held, Taken, Requested
    <2>4. CASE OnList(At(k)) /\ At(k) = q
      <3>1. /\ kpc'[k] = "shut" /\ where'[q] = "deleting" /\ where[q] = "impl"
            /\ k = "cmd" \/ k = q
        BY <1>0, <2>2, <2>4, Zenon DEF Types, OnList, At
      <3>2. k = "cmd" => kc' = q /\ cop' # "off"
        BY <1>0, <2>2, <2>4, Zenon DEF Cmd, At
      <3> QED
        BY <2>1, <2>2, <3>1, <3>2, ZenonT(30) DEF Closing, Stays, Held, Taken,
           Requested
    <2>5. CASE OnList(At(k)) /\ At(k) # q
      <3>1. /\ where'[q] = where[q] /\ (k # q => kpc'[q] = kpc[q]) /\ k # q
            /\ kpc'["cmd"] = IF k = "cmd" THEN "shut" ELSE kpc["cmd"]
        BY <1>0, <2>1, <2>2, <2>5, ZenonT(30) DEF Types, Closers, At
      <3> QED
        BY <2>1, <2>2, <3>1, ZenonT(30) DEF Closing, Stays, Held, Taken, Requested
    <2> QED
      BY <2>3, <2>4, <2>5, ZenonT(30)
  <1> QED
    BY <1>1, <1>2, <1>3, SKeeps, Zenon

(* The step CloserShutdown leaves the status of the node true.             *)
LEMMA CloserShutdownStatus ==
  ASSUME PInv, SInv, NEW k \in Closers, CloserShutdown(k)
  PROVE  SInv'
  <1>0. /\ Types /\ Cmd /\ Sender /\ Sweep /\ STypes /\ OffSeen
        /\ \A q \in Conns : Requested(q) /\ Local(q)
    BY Zenon DEF PInv, SInv
  <1>1. STypes'
    BY <1>0, Zenon DEF STypes, CloserShutdown, Shutdown, At, conn, thread, wire,
       node, closers
  <1>2. Scalars
    BY <1>0, Zenon DEF Scalars, Cmd, CloserShutdown, Shutdown, At, conn, thread,
       wire, node, closers
  <1>3. ASSUME NEW q \in Conns
        PROVE  Stays(q)
    <2>1. Requested(q) /\ q # "cmd" /\ q # None
      BY <1>0, NoneAssumption, Zenon
    <2>2. /\ kpc[k] = "shut" /\ UNCHANGED <<where, st, tpc, tmsg, kc, cop>>
          /\ kpc' = [kpc EXCEPT ![k] = "lock"]
      BY Zenon DEF CloserShutdown, Shutdown, At, conn, thread, wire, node,
         closers
    <2>3. /\ kpc'[q] = kpc[q] \/ kpc'[q] \in Closing
          /\ kpc'["cmd"] = kpc["cmd"] \/ kpc'["cmd"] \in Closing
      BY <1>0, <2>2, ZenonT(30) DEF Types, Closers, Closing
    <2> QED
      BY <2>1, <2>2, <2>3, ZenonT(30) DEF Stays, Held, Taken, Requested
  <1> QED
    BY <1>1, <1>2, <1>3, SKeeps, Zenon

(* The step Tcp_close_socket leaves the status of the node true.           *)
LEMMA Tcp_close_socketStatus ==
  ASSUME PInv, SInv, NEW k \in Closers, tcp_close_socket(k)
  PROVE  SInv'
  <1>0. /\ Types /\ Cmd /\ Sender /\ Sweep /\ STypes /\ OffSeen
        /\ \A q \in Conns : Requested(q) /\ Local(q)
    BY Zenon DEF PInv, SInv
  <1>1. STypes'
    BY <1>0, Zenon DEF STypes, tcp_close_socket, At, conn, thread, wire, node,
       closers
  <1>2. Scalars
    BY <1>0, Zenon DEF Scalars, Cmd, tcp_close_socket, At, conn, thread, wire,
       node, closers
  <1>3. ASSUME NEW q \in Conns
        PROVE  Stays(q)
    <2>1. Requested(q) /\ q # "cmd" /\ q # None
      BY <1>0, NoneAssumption, Zenon
    <2>2. /\ kpc[k] = "lock" /\ UNCHANGED <<where, st, tpc, tmsg, kc, cop>>
          /\ \E to \in Closing : kpc' = [kpc EXCEPT ![k] = to]
      BY Zenon DEF Closing, tcp_close_socket, At, conn, thread, wire, node,
         closers
    <2>3. /\ kpc'[q] = kpc[q] \/ kpc'[q] \in Closing
          /\ kpc'["cmd"] = kpc["cmd"] \/ kpc'["cmd"] \in Closing
      BY <1>0, <2>2, ZenonT(30) DEF Types, Closers
    <2> QED
      BY <2>1, <2>2, <2>3, ZenonT(30) DEF Stays, Held, Taken, Requested
  <1> QED
    BY <1>1, <1>2, <1>3, SKeeps, Zenon

(* The step Kthread_stop leaves the status of the node true.               *)
LEMMA Kthread_stopStatus ==
  ASSUME PInv, SInv, NEW k \in Closers, kthread_stop(k)
  PROVE  SInv'
  <1>0. /\ Types /\ Cmd /\ Sender /\ Sweep /\ STypes /\ OffSeen
        /\ \A q \in Conns : Requested(q) /\ Local(q)
    BY Zenon DEF PInv, SInv
  <1>1. STypes'
    BY <1>0, Zenon DEF STypes, kthread_stop, At, conn, thread, wire, node,
       closers
  <1>2. Scalars
    BY <1>0, Zenon DEF Scalars, Cmd, kthread_stop, At, conn, thread, wire, node,
       closers
  <1>3. ASSUME NEW q \in Conns
        PROVE  Stays(q)
    <2>1. Requested(q) /\ q # "cmd" /\ q # None
      BY <1>0, NoneAssumption, Zenon
    <2>2. /\ kpc[k] = "join" /\ UNCHANGED <<where, st, tpc, tmsg, kc, cop>>
          /\ kpc' = [kpc EXCEPT ![k] = "close"]
      BY Zenon DEF kthread_stop, At, conn, thread, wire, node, closers
    <2>3. /\ kpc'[q] = kpc[q] \/ kpc'[q] \in Closing
          /\ kpc'["cmd"] = kpc["cmd"] \/ kpc'["cmd"] \in Closing
      BY <1>0, <2>2, ZenonT(30) DEF Types, Closers, Closing
    <2> QED
      BY <2>1, <2>2, <2>3, ZenonT(30) DEF Stays, Held, Taken, Requested
  <1> QED
    BY <1>1, <1>2, <1>3, SKeeps, Zenon

(* The step DropListCmd leaves the status of the node true.                *)
LEMMA DropListCmdStatus ==
  ASSUME PInv, SInv, DropList("cmd")
  PROVE  SInv'
  <1>0. /\ Types /\ Cmd /\ Sender /\ Sweep /\ STypes /\ OffSeen
        /\ \A q \in Conns : Requested(q) /\ Local(q)
    BY Zenon DEF PInv, SInv
  <1>p. kc \in Conns /\ where[kc] # "new"
    <2>1. kc \in Conns /\ kpc["cmd"] = "close"
      BY <1>0, Zenon DEF Cmd, Closing, DropList
    <2> QED
      BY <1>0, <2>1, Zenon DEF Local, Listed, CmdCloses
  <1>1. STypes'
    BY <1>0, Zenon DEF STypes, DropList, connection_notify_to_close, Disconnecting, At,
       connection_put, conn, thread, wire, node, closers
  <1>2. Scalars
    BY <1>0, Zenon DEF Scalars, Cmd, DropList, connection_notify_to_close, Disconnecting, At,
       connection_put, conn, thread, wire, node, closers
  <1>3. ASSUME NEW q \in Conns
        PROVE  Stays(q)
    <2>1. Requested(q) /\ q # "cmd" /\ q # None
      BY <1>0, NoneAssumption, Zenon
    <2>2. UNCHANGED <<st, tpc, tmsg, kc, cop>> /\ kpc["cmd"] = "close" /\ (cop = "off" \/ asked' \/ dropped')
      BY Zenon DEF DropList, connection_notify_to_close, Disconnecting, At, connection_put,
         conn, thread, wire, node, closers
    <2>3. \E to : kpc' = [kpc EXCEPT !["cmd"] = to]
      BY Zenon DEF DropList, connection_notify_to_close, Disconnecting, At, connection_put,
         conn, thread, wire, node, closers
    <2>4. kpc'[q] = kpc[q]
      BY <1>0, <2>1, <2>3 DEF Types
    <2>5. q # kc => where'[q] = where[q]
      BY <1>0, Zenon DEF Types, DropList, Disconnecting, At, connection_put,
         conn, thread, wire, node, closers
    <2> QED
      BY <1>p, <2>1, <2>2, <2>4, <2>5, ZenonT(30) DEF Stays, Held, Taken, Requested
  <1> QED
    BY <1>1, <1>2, <1>3, SKeeps, Zenon

(* The step DropListWork leaves the status of the node true.               *)
LEMMA DropListWorkStatus ==
  ASSUME PInv, SInv, NEW c \in Conns, DropList(c)
  PROVE  SInv'
  <1>0. /\ Types /\ Cmd /\ Sender /\ Sweep /\ STypes /\ OffSeen
        /\ \A q \in Conns : Requested(q) /\ Local(q)
    BY Zenon DEF PInv, SInv
  <1>p. c \in Conns /\ (ref[c] = 1 => where[c] \notin {"impl", "new"})
    <2>1. c \in Conns /\ Count(c)
      BY <1>0, Zenon DEF Local, Cmd, Sender, DropList, Disconnecting, At,
         connection_put
    <2>2. "work closes" \in Users(c)
      BY <1>0, <2>1, UserIs, NoneAssumption, Zenon DEF Cmd, Sender, TakerOf, At,
         DropList, Disconnecting, At, connection_put
    <2>3. ref[c] = 1 => where[c] \notin {"impl", "local"}
      BY <2>1, <2>2, Alone, Zenon
    <2> QED
      BY <2>1, <2>3 DEF Count
  <1>1. STypes'
    BY <1>0, Zenon DEF STypes, DropList, connection_notify_to_close, Disconnecting, At,
       connection_put, conn, thread, wire, node, closers
  <1>2. Scalars
    BY <1>0, Zenon DEF Scalars, Cmd, DropList, connection_notify_to_close, Disconnecting, At,
       connection_put, conn, thread, wire, node, closers
  <1>3. ASSUME NEW q \in Conns
        PROVE  Stays(q)
    <2>1. Requested(q) /\ q # "cmd" /\ q # None
      BY <1>0, NoneAssumption, Zenon
    <2>2. /\ UNCHANGED <<st, tpc, tmsg, kc, cop>> /\ kpc[c] = "close" /\ (asked' \/ dropped')
          /\ \E to : kpc' = [kpc EXCEPT ![c] = to]
      BY NoneAssumption, Zenon DEF DropList, connection_notify_to_close, Disconnecting, At,
         connection_put, conn, thread, wire, node, closers
    <2>3. kpc'["cmd"] = kpc["cmd"] /\ (q # c => kpc'[q] = kpc[q])
      BY <1>0, <2>1, <2>2, NoneAssumption, ZenonT(30) DEF Types, Closers
    <2>4. where[q] \in {"impl", "new"} => where'[q] = where[q]
      <3>1. where' = [where EXCEPT ![c] = IF ref[c] = 1 THEN "freed" ELSE where[c]]
        BY <2>1, NoneAssumption, ZenonT(30) DEF DropList, connection_notify_to_close,
           Disconnecting, At, connection_put, conn, thread, wire, node, closers
      <3> QED
        BY <1>0, <1>p, <3>1, Zenon DEF Types
    <2> QED
      BY <2>1, <2>2, <2>3, <2>4, ZenonT(30) DEF Closing, Stays, Held, Taken,
         Requested
  <1> QED
    BY <1>1, <1>2, <1>3, SKeeps, Zenon

(* The step SendStart leaves the status of the node true.                  *)
LEMMA SendStartStatus ==
  ASSUME PInv, SInv, SendStart
  PROVE  SInv'
  <1>0. /\ Types /\ Cmd /\ Sender /\ Sweep /\ STypes /\ OffSeen
        /\ \A q \in Conns : Requested(q) /\ Local(q)
    BY Zenon DEF PInv, SInv
  <1>1. STypes'
    BY <1>0, Zenon DEF STypes, SendStart, conn, thread, wire, node, closers
  <1>2. Scalars
    BY <1>0, Zenon DEF Scalars, Cmd, SendStart, conn, thread, wire, node,
       closers
  <1>3. ASSUME NEW q \in Conns
        PROVE  Stays(q)
    <2>1. Requested(q) /\ q # "cmd" /\ q # None
      BY <1>0, NoneAssumption, Zenon
    <2> QED
      BY <1>0, <2>1, NoneAssumption, ZenonT(30) DEF Types, STypes, Cmd, Closing,
         Stays, Held, Taken, Requested, SendStart, conn, thread, wire, node,
         closers
  <1> QED
    BY <1>1, <1>2, <1>3, SKeeps, Zenon

(* The step Get_conn_impl leaves the status of the node true.              *)
LEMMA Get_conn_implStatus ==
  ASSUME PInv, SInv, get_conn_impl
  PROVE  SInv'
  <1>0. /\ Types /\ Cmd /\ Sender /\ Sweep /\ STypes /\ OffSeen
        /\ \A q \in Conns : Requested(q) /\ Local(q)
    BY Zenon DEF PInv, SInv
  <1>1. STypes'
    BY <1>0, Zenon DEF STypes, get_conn_impl, conn, thread, wire, node, closers
  <1>2. Scalars
    BY <1>0, Zenon DEF Scalars, Cmd, get_conn_impl, conn, thread, wire, node,
       closers
  <1>3. ASSUME NEW q \in Conns
        PROVE  Stays(q)
    <2>1. Requested(q) /\ q # "cmd" /\ q # None
      BY <1>0, NoneAssumption, Zenon
    <2> QED
      BY <1>0, <2>1, NoneAssumption, ZenonT(30) DEF Types, STypes, Cmd, Closing,
         Stays, Held, Taken, Requested, get_conn_impl, conn, thread, wire, node,
         closers
  <1> QED
    BY <1>1, <1>2, <1>3, SKeeps, Zenon

(* The step Send_message leaves the status of the node true.               *)
LEMMA Send_messageStatus ==
  ASSUME PInv, SInv, send_message
  PROVE  SInv'
  <1>0. /\ Types /\ Cmd /\ Sender /\ Sweep /\ STypes /\ OffSeen
        /\ \A q \in Conns : Requested(q) /\ Local(q)
    BY Zenon DEF PInv, SInv
  <1>p. sc \in Conns /\ (ref[sc] = 1 => where[sc] \notin {"impl", "new"})
    <2>1. sc \in Conns /\ Count(sc)
      BY <1>0, Zenon DEF Local, Cmd, Sender, send_message, connection_put
    <2>2. "sender" \in Users(sc)
      BY <1>0, <2>1, UserIs, NoneAssumption, Zenon DEF Cmd, Sender, TakerOf, At,
         send_message, connection_put
    <2>3. ref[sc] = 1 => where[sc] \notin {"impl", "local"}
      BY <2>1, <2>2, Alone, Zenon
    <2> QED
      BY <2>1, <2>3 DEF Count
  <1>1. STypes'
    BY <1>0, Zenon DEF STypes, send_message, connection_put, conn, thread, wire,
       node, closers
  <1>2. Scalars
    BY <1>0, Zenon DEF Scalars, Cmd, send_message, connection_put, conn, thread,
       wire, node, closers
  <1>3. ASSUME NEW q \in Conns
        PROVE  Stays(q)
    <2>1. Requested(q) /\ q # "cmd" /\ q # None
      BY <1>0, NoneAssumption, Zenon
    <2> QED
      BY <1>0, <1>p, <2>1, NoneAssumption DEF Types, STypes, Cmd, Closing, Stays,
         Held, Taken, Requested, send_message, connection_put, conn, thread, wire,
         node, closers
  <1> QED
    BY <1>1, <1>2, <1>3, SKeeps, Zenon

(* The step Queue_reget leaves the status of the node true.                *)
LEMMA Queue_regetStatus ==
  ASSUME PInv, SInv, queue_reget
  PROVE  SInv'
  <1>0. /\ Types /\ Cmd /\ Sender /\ Sweep /\ STypes /\ OffSeen
        /\ \A q \in Conns : Requested(q) /\ Local(q)
    BY Zenon DEF PInv, SInv
  <1>p. sc \in Conns /\ (ref[sc] = 1 => where[sc] \notin {"impl", "new"})
    <2>1. sc \in Conns /\ Count(sc)
      BY <1>0, Zenon DEF Local, Cmd, Sender, queue_reget, connection_put
    <2>2. "sender" \in Users(sc)
      BY <1>0, <2>1, UserIs, NoneAssumption, ZenonT(30) DEF Cmd, Sender,
         TakerOf, At, queue_reget, connection_put
    <2>3. ref[sc] = 1 => where[sc] \notin {"impl", "local"}
      BY <2>1, <2>2, Alone, Zenon
    <2> QED
      BY <2>1, <2>3 DEF Count
  <1>1. STypes'
    BY <1>0, Zenon DEF STypes, queue_reget, connection_put, conn, thread, wire,
       node, closers
  <1>2. Scalars
    BY <1>0, Zenon DEF Scalars, Cmd, queue_reget, connection_put, conn, thread,
       wire, node, closers
  <1>3. ASSUME NEW q \in Conns
        PROVE  Stays(q)
    <2>1. Requested(q) /\ q # "cmd" /\ q # None
      BY <1>0, NoneAssumption, Zenon
    <2> QED
      BY <1>0, <1>p, <2>1, NoneAssumption DEF Types, STypes, Cmd, Closing, Stays,
         Held, Taken, Requested, queue_reget, connection_put, conn, thread, wire,
         node, closers
  <1> QED
    BY <1>1, <1>2, <1>3, SKeeps, Zenon

(* The step FarSend leaves the status of the node true.                    *)
LEMMA FarSendStatus ==
  ASSUME PInv, SInv, NEW c \in Conns, FarSend(c)
  PROVE  SInv'
  <1>0. /\ Types /\ Cmd /\ Sender /\ Sweep /\ STypes /\ OffSeen
        /\ \A q \in Conns : Requested(q) /\ Local(q)
    BY Zenon DEF PInv, SInv
  <1>1. STypes'
    BY <1>0, Zenon DEF STypes, FarSend, conn, thread, wire, node, closers
  <1>2. Scalars
    BY <1>0, Zenon DEF Scalars, Cmd, FarSend, conn, thread, wire, node, closers
  <1>3. ASSUME NEW q \in Conns
        PROVE  Stays(q)
    <2>1. Requested(q) /\ q # "cmd" /\ q # None
      BY <1>0, NoneAssumption, Zenon
    <2> QED
      BY <1>0, <2>1, NoneAssumption, ZenonT(30) DEF Types, STypes, Cmd, Closing,
         Stays, Held, Taken, Requested, FarSend, conn, thread, wire, node, closers
  <1> QED
    BY <1>1, <1>2, <1>3, SKeeps, Zenon

(* The step FarRefuses leaves the status of the node true.                 *)
LEMMA FarRefusesStatus ==
  ASSUME PInv, SInv, NEW c \in Conns, FarRefuses(c)
  PROVE  SInv'
  <1>0. /\ Types /\ Cmd /\ Sender /\ Sweep /\ STypes /\ OffSeen
        /\ \A q \in Conns : Requested(q) /\ Local(q)
    BY Zenon DEF PInv, SInv
  <1>1. STypes'
    BY <1>0, Zenon DEF STypes, FarRefuses, conn, thread, wire, node, closers
  <1>2. Scalars
    BY <1>0, Zenon DEF Scalars, Cmd, FarRefuses, conn, thread, wire, node,
       closers
  <1>3. ASSUME NEW q \in Conns
        PROVE  Stays(q)
    <2>1. Requested(q) /\ q # "cmd" /\ q # None
      BY <1>0, NoneAssumption, Zenon
    <2> QED
      BY <1>0, <2>1, NoneAssumption, ZenonT(30) DEF Types, STypes, Cmd, Closing,
         Stays, Held, Taken, Requested, FarRefuses, conn, thread, wire, node,
         closers
  <1> QED
    BY <1>1, <1>2, <1>3, SKeeps, Zenon

(* The step SocketBreaks leaves the status of the node true.               *)
LEMMA SocketBreaksStatus ==
  ASSUME PInv, SInv, NEW c \in Conns, SocketBreaks(c)
  PROVE  SInv'
  <1>0. /\ Types /\ Cmd /\ Sender /\ Sweep /\ STypes /\ OffSeen
        /\ \A q \in Conns : Requested(q) /\ Local(q)
    BY Zenon DEF PInv, SInv
  <1>1. STypes'
    BY <1>0, Zenon DEF STypes, SocketBreaks, Shutdown, conn, thread, wire, node,
       closers
  <1>2. Scalars
    BY <1>0, Zenon DEF Scalars, Cmd, SocketBreaks, Shutdown, conn, thread, wire,
       node, closers
  <1>3. ASSUME NEW q \in Conns
        PROVE  Stays(q)
    <2>1. Requested(q) /\ q # "cmd" /\ q # None
      BY <1>0, NoneAssumption, Zenon
    <2> QED
      BY <1>0, <2>1, NoneAssumption, ZenonT(30) DEF Types, STypes, Cmd, Closing,
         Stays, Held, Taken, Requested, SocketBreaks, Shutdown, conn, thread, wire,
         node, closers
  <1> QED
    BY <1>1, <1>2, <1>3, SKeeps, Zenon

(* The steps off_line, update_socket and HandlerNode set the status, or    *)
(* the request of a new session, themselves.                               *)
LEMMA Off_lineStatus ==
  ASSUME PInv, SInv, off_line
  PROVE  SInv'
  <1>1. /\ nstat' = "OFFLINE" /\ UNCHANGED <<st, tmsg, inb, tpc, where>>
    BY Zenon DEF off_line, conn, thread, wire
  <1> QED
    BY <1>1, Zenon DEF SInv, STypes, OffSeen, OnlineTrue, ShakingTrue, Requested

(* The step update_socket brings a connection that has not finished.       *)
LEMMA Update_socketStatus ==
  ASSUME PInv, SInv, NEW c \in Conns, update_socket(c)
  PROVE  SInv'
  <1>0. /\ Types /\ Cmd /\ STypes /\ OnlineTrue /\ \A q \in Conns : Requested(q) /\ Local(q)
    BY Zenon DEF PInv, SInv
  <1>1. /\ UNCHANGED <<nstat, evt, stale, tmsg, inb>>
        /\ where' = [where EXCEPT ![c] = "impl"]
        /\ tpc' = [tpc EXCEPT ![c] = "loop"]
        /\ \E s \in {"WAIT_REQUEST", "WAIT_RESPONSE"} : st' = [st EXCEPT ![c] = s]
        /\ cop' = "add" /\ where[c] = "new"
    BY Zenon DEF update_socket
  <1>2. /\ where'[c] = "impl" /\ st'[c] # "WORKING" /\ tpc'[c] = "loop"
        /\ \A q \in Conns \ {c} : tpc'[q] = tpc[q] /\ st'[q] = st[q]
    BY <1>0, <1>1, Zenon DEF Types, STypes
  <1>3. STypes' /\ OffSeen'
    BY <1>0, <1>1, Zenon DEF STypes, OffSeen
  <1>4. Unfinished(c)'
    BY <1>2, Zenon DEF Unfinished, Held
  <1>5. ASSUME NEW q \in Conns PROVE Requested(q)'
    BY <1>0, <1>1, <1>2, ZenonT(30) DEF Requested
  <1>6. tpc[c] # "event"
    BY <1>0, <1>1, Zenon DEF Local, Count
  <1>7. OnlineTrue'
    BY <1>0, <1>1, <1>2, <1>4, <1>6, Zenon DEF OnlineTrue, Unfinished
  <1> QED
    BY <1>3, <1>4, <1>5, <1>7, Zenon DEF SInv, ShakingTrue

(* The step HandlerNode: whoever makes the node ONLINE reports it.         *)
LEMMA HandlerNodeStatus ==
  ASSUME PInv, SInv, NEW c \in Conns, HandlerNode(c)
  PROVE  SInv'
  <1>0. /\ Types /\ STypes /\ OnlineTrue /\ OffSeen /\ \A q \in Conns : Requested(q)
    BY Zenon DEF PInv, SInv
  <1>1. /\ UNCHANGED <<evt, st, inb, where, cop, kpc, kc>>
        /\ tpc[c] = "node" /\ nstat' = (IF tmsg[c] = "REQUEST" THEN "SHAKING" ELSE "ONLINE")
        /\ ~stale' => ~stale /\ cop # "off" /\ where[c] = "impl"
    BY Zenon DEF HandlerNode, Disconnecting, OnList, conn, wire, closers
  <1>2. \/ /\ tpc' = [tpc EXCEPT ![c] = "loop"] /\ tmsg' = [tmsg EXCEPT ![c] = "none"]
           /\ tmsg[c] = "REQUEST" \/ nstat = "ONLINE"
        \/ tpc' = [tpc EXCEPT ![c] = "event"] /\ tmsg' = tmsg
    BY Zenon DEF HandlerNode, HandlerEnds
  <1>3. /\ tpc'[c] \in {"loop", "event"}
        /\ \A q \in Conns \ {c} : tpc'[q] = tpc[q] /\ tmsg'[q] = tmsg[q]
        /\ tpc'[c] = "loop" => tmsg[c] = "REQUEST" \/ nstat = "ONLINE"
    BY <1>0, <1>2 DEF Types, STypes
  <1>4. STypes' /\ OffSeen'
    BY <1>0, <1>1, <1>2, Zenon DEF STypes, OffSeen
  <1>5. ASSUME NEW q \in Conns PROVE Requested(q)'
    BY <1>0, <1>1, <1>3, ZenonT(30) DEF Requested
  <1>6. OnlineTrue'
    <2> SUFFICES ASSUME nstat' = "ONLINE", ~stale'
                 PROVE  /\ evt' = "ON" \/ \E q \in Conns : tpc'[q] = "event"
                        /\ \E q \in Conns : Held(q)'
      BY Zenon DEF OnlineTrue
    <2>1. Held(c)'
      BY <1>1, Zenon DEF Held
    <2>2. CASE tpc'[c] = "event"
      BY <2>1, <2>2, Zenon
    <2>3. CASE tpc'[c] # "event"
      <3>1. nstat = "ONLINE" /\ ~stale
        BY <1>1, <1>3, <2>3, Zenon
      <3>2. evt = "ON" \/ \E q \in Conns : tpc[q] = "event"
        BY <1>0, <3>1, Zenon DEF OnlineTrue
      <3>3. \A q \in Conns : tpc[q] = "event" => tpc'[q] = "event"
        BY <1>1, <1>3, Zenon
      <3> QED
        BY <1>1, <2>1, <3>2, <3>3, ZenonT(30)
    <2> QED
      BY <2>2, <2>3, ZenonT(30)
  <1>7. ShakingTrue'
    <2> SUFFICES ASSUME nstat' = "SHAKING", ~stale' PROVE Unfinished(c)'
      BY Zenon DEF ShakingTrue
    <2>1. st'[c] # "WORKING" /\ where'[c] = "impl"
      BY <1>0, <1>1, Zenon DEF Requested
    <2> QED
      BY <2>1, Zenon DEF Unfinished, Held
  <1> QED
    BY <1>4, <1>5, <1>6, <1>7, Zenon DEF SInv

(* The first state satisfies the invariant.                                *)
LEMMA InitStatus == Init => SInv
  BY DEF Init, SInv, STypes, OffSeen, OnlineTrue, ShakingTrue, Requested

(* Every step keeps the node's status true.                                *)
LEMMA NextStatus == PInv /\ SInv /\ [Next]_vars => SInv'
  <1> SUFFICES ASSUME PInv, SInv, [Next]_vars PROVE SInv'
    BY ZenonT(30)
  <1>1. ASSUME NEW c \in Conns, Thread(c) PROVE SInv'
    BY <1>1, RecvStopStatus, Tcp_receive_from_sockStatus, RecvDownStatus,
       RecvTailStatus, RecvTakeStatus, RecvFinStatus, RecvExitStatus,
       HandlerReplyStatus, HandlerStatusStatus, HandlerNodeStatus,
       HandlerEventStatus, HandlerNegoStatus, Zenon DEF Thread
  <1>2. ASSUME NEW k \in Closers, Closer(k) PROVE SInv'
    <2>1. CASE DropList(k)
      BY <2>1, DropListCmdStatus, DropListWorkStatus, Zenon DEF Closers
    <2> QED
      BY <1>2, <2>1, TakeStatus, CloserShutdownStatus, Tcp_close_socketStatus,
         Kthread_stopStatus, ZenonT(30) DEF Closer
  <1>3. ASSUME Command \/ off_line PROVE SInv'
    BY <1>3, SendRequestStatus, PutCmdStatus, GrabListStatus, NextLocalStatus,
       WaitDeletingStatus, ReportOffStatus, Off_lineStatus, ZenonT(30) DEF Command
  <1>4. ASSUME NEW c \in Conns, update_socket(c) \/ RegetWork(c) \/ RegetWorkEnd(c) PROVE SInv'
    BY <1>4, Update_socketStatus, RegetWorkStatus, RegetWorkEndStatus,
       ZenonT(30)
  <1>5. ASSUME SendStart \/ get_conn_impl \/ send_message \/ queue_reget PROVE SInv'
    BY <1>5, SendStartStatus, Get_conn_implStatus, Send_messageStatus,
       Queue_regetStatus, ZenonT(30)
  <1>6. ASSUME NEW c \in Conns, FarSend(c) \/ FarRefuses(c) \/ SocketBreaks(c) PROVE SInv'
    BY <1>6, FarSendStatus, FarRefusesStatus, SocketBreaksStatus, ZenonT(30)
  <1>7. CASE UNCHANGED vars
    BY <1>7, Zenon DEF SInv, STypes, OffSeen, OnlineTrue, ShakingTrue,
       Requested, Unfinished, Held, Taken, vars, conn, thread, wire, node, closers
  <1> QED
    BY <1>1, <1>2, <1>3, <1>4, <1>5, <1>6, <1>7, Zenon DEF Next

(* A connection taken out of the list is being deleted.                    *)
LEMMA TakenIsDeleting ==
  ASSUME PInv, NEW c \in Conns, Taken(c)
  PROVE  where[c] = "deleting"
  <1>1. Local(c) /\ c # "cmd"
    BY NoneAssumption, Zenon DEF PInv
  <1> QED
    BY <1>1, Zenon DEF Local, Listed, Taken, TakerOf, At, Closing,
       Disconnecting

(* Over a working connection the node's status tells the truth: ONLINE was *)
(* reported ON last, and SHAKING lasts only while a handshake is           *)
(* unfinished or the agent was asked to act or the fifo of notices full    *)
(* (connection_handshake_recv_handler and hmdfs_reget_connection): for any *)
(* set of connections and any number of commands and breaks, unless a      *)
(* handshake ended on a connection that was down already.                  *)
THEOREM StatusKept == Spec => []StatusTrue
  <1>1. PInv /\ SInv => StatusTrue
    <2> SUFFICES ASSUME PInv, SInv, NEW u \in Conns, Usable(u), ~stale
                 PROVE  /\ Settled /\ nstat = "ONLINE" => evt = "ON"
                        /\ nstat = "SHAKING" =>
                             \/ asked \/ dropped
                             \/ \E c \in Conns : /\ where[c] \in {"impl", "deleting"}
                                                 /\ st[c] # "WORKING" \/ tpc[c] \in {"node", "event"}
      BY Zenon DEF StatusTrue
    <2>1. ASSUME NEW c \in Conns, tpc[c] = "event" PROVE ~Settled
      BY <2>1, Zenon DEF PInv, Local, Task, Handling, Settled
    <2>2. Settled /\ nstat = "ONLINE" => evt = "ON"
      BY <2>1, Zenon DEF SInv, OnlineTrue
    <2>3. where[u] # "new"
      BY Zenon DEF Usable
    <2>4. ASSUME NEW c \in Conns, Unfinished(c)
          PROVE  where[c] \in {"impl", "deleting"} /\ (st[c] # "WORKING" \/ tpc[c] = "node")
      BY <2>4, TakenIsDeleting, Zenon DEF Unfinished, Held
    <2>5. ASSUME nstat = "SHAKING", ~asked, ~dropped
          PROVE  \E c \in Conns : Unfinished(c)
      BY <2>3, <2>5, Zenon DEF SInv, ShakingTrue
    <2> QED
      BY <2>2, <2>4, <2>5, ZenonT(30)
  <1> QED
    BY <1>1, InitPInv, NextPInv, InitStatus, NextStatus, PTL DEF Spec

(* A peer that is online and has no connection left has asked the agent    *)
(* for a new session (hmdfs_reget_connection, reget_work and               *)
(* hmdfs_disconnect_node), unless a handshake ended on a connection that   *)
(* was down already or a notice found the fifo full: for any set of        *)
(* connections and any number of commands and breaks.                      *)
THEOREM LossesNotified == Spec => []LossNotified
  <1>1. PInv /\ SInv => LossNotified
    BY TakenIsDeleting, Zenon DEF SInv, OnlineTrue, LossNotified, Held
  <1> QED
    BY <1>1, InitPInv, NextPInv, InitStatus, NextStatus, PTL DEF Spec
=============================================================================
