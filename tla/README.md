# Verification of hmdfs

hmdfs is the distributed file system this repository fuzzes: a Linux kernel
module (`hmdfs/`) that shows the files of nearby devices in one tree, and a
user-space agent (`hmdfs_agent.c`) that gives it sockets. The fuzzer around it
(`src/`, a fork of syzkaller called Monarch) and a comparison script
(`HorcruxSourceCode/`) are the other programs. This directory models hmdfs and
its agent where threads, lost connections and reboots meet: what a device does
with its peers and their files while those peers come and go.

## The system and its parts

A device keeps one `struct hmdfs_peer` per other device. The agent gives it
sockets; a handshake makes the peer on line, a broken socket or a command of
the agent makes it off line.

| part | state | operations | interacts with |
|---|---|---|---|
| node events (`comm/connection.c`, `node_cb.c`) | counters of waiting events, ring of sequence numbers, two mutexes | report ON/OFF, run sync and async callbacks, ADD, DEL | everything below is a callback of it |
| requests and responses (`comm/socket_adapter.c`, `hmdfs_client.c`) | `msg_idr`, reference counts, delayed works | send (three kinds), receive, time out, wake all at OFFLINE | node events, writeback, file ids |
| writeback of remote files (`file_remote.c`, `hmdfs_client.c`) | dirty pages, `wpage_sem`, retry contexts | write, background writeback, flush, retry, redirty | requests, stash |
| remote file ids (`file_remote.c`, `hmdfs_server.c`) | `fid`, its flags, the server's table | open, close, reopen, read, write, server offline | requests, node events |
| stash (`stash.c`) | `stash_status`, lists of inodes, stash files on disk | prepare, stash, rebuild after reboot, restore, clean up | node events, writeback |
| connections (`comm/transport.c`, `connection.c`, `device_node.c`) | list of connections, receive threads, handshake states | update_socket, off_line, handshake, receive, send, reget work | node events, agent |
| merge view (`inode_merge.c`, `file_merge.c`) | comrades of a name, open lower files, tree of names seen | parallel lookup, open, readdir, release | device views |
| agent (`hmdfs_agent.c`) | `node->fd`, its status, `connecting` | accept, connect, GET_SESSION, OFFLINE, net-up signal | connections, through the cmd file |
| dentry cache, share table, throttling, cloud view | tables | lookup, create | requests |
| fuzzer, manager, hub, executor, checker | queues, corpora, processes | | hmdfs through its mounts |

`PROJECT.json` lists every part with its status, and under "hazards" what is
hard to test in each, at the line where it bites. The hard behaviours are: a
report of the node's state while the previous one is still worked off; a
response, a timeout and a disconnect racing for one request; a page redirtied
by one thread while another waits for it; a file id that becomes stale twice; a
disconnect or a crash between any two steps of stashing and restoring; a
connection taken down by four kinds of threads at once; agents that connect to
each other at the same time.

## Modules

| module | models | translated from (`PROJECT.json` "map" gives the lines) |
|---|---|---|
| `NodeEvents` | the event queue of one peer | `comm/connection.c`, `comm/connection.h`, one callback of `stash.c` |
| `RequestReply` | abstract: what the request layer promises | the sending functions of `comm/socket_adapter.c` |
| `MsgIdr` | the table of requests in flight; implements `RequestReply` | `comm/socket_adapter.c`, `comm/connection.c`, `comm/transport.c`, `hmdfs_client.c` |
| `Writepage` | the pages of one remote inode | `file_remote.c`, `hmdfs_client.c`, `stash.c` |
| `FidReopen` | the file id of one remote inode, client and server | `file_remote.c`, `hmdfs_client.c`, `hmdfs_server.c` |
| `StashFiles` | stashing and restoring all inodes of one peer | `stash.c`, `file_remote.c`, `comm/connection.c`, `comm/transport.c` |
| `PeerConn` | the connections of one peer, their receive threads and handshakes | `comm/connection.c`, `comm/transport.c`, `comm/socket_adapter.c`, `comm/device_node.c` |
| `MergeView` | lookup and listing of one directory of the merge view | `inode_merge.c`, `file_merge.c`, `file_remote.c`, `file_local.c` |
| `Agent` | the agents of two devices and the sockets between them | `hmdfs_agent.c`, two functions of `comm/` |
| `MC...` | instances of these for TLC | |
| `..._proofs` | theorems about the module of that name | |

Variables have the names of the fields they stand for; actions have the names
of functions where an action is a whole function. A function that releases a
lock, sleeps or is preempted where another thread can see it is several
actions (`StartSync`, `EndSync`, `ScheduleWork`). Operators marked `mutant:`
are variants with a plausible mistake; no specification uses them. They show
that the property named beside them in `PROJECT.json` would notice the mistake.

### NodeEvents
A report of ON or OFF drops duplicates, merges opposite waiting events and runs
the synchronous callbacks in the reporting thread; `evt_dwork` runs the
asynchronous ones. The queue is two counters, a ring of four sequence numbers
and two byte indices that wrap at 256 and start at 255, all modelled as they
are. The callbacks themselves are opaque, except that the asynchronous OFFLINE
callback may release and retake `seq_lock`, as the one of the stash does.

### RequestReply and MsgIdr
`RequestReply` says that a request is finished once and its outcome never
changes. `MsgIdr` has a request that sleeps, a request with a callback in a
delayed work, and a readpage, each with the reference counts of its entry. Any
response may be lost or late. The disconnect is modelled step by step: mark,
stop the connections, wait (bounded) for receive threads, wait for
`msg_idr_process`, walk the table. `Linger` says whether a receive thread may
outlive the bounded wait. A message id is the request itself, since
`idr_alloc_cyclic` does not repeat an id while it is in use.

### Writepage
Each page has its own progress (`where`) from being picked to the end of its
writeback; its content is a version number. `wpage_sem` is a count of readers
and a writer; the stash of the inode (`hmdfs_flush_stash_file_data`) and
`flush()` are the two threads that write all pages and wait for them. One
off-line episode is covered.

### FidReopen
Opens, closes, reopens, reads and writes of several processes, the server's
table of files and its version cookie. A close is not waited for. A disconnect
loses the requests on their way and makes the server forget the client's files
some time later.

### StashFiles
An inode's data is a version number; the pages are in `Writepage` and the event
queue (a sequence here) in `NodeEvents`. Three actors run: the disconnecting
thread with the synchronous OFFLINE callback, the work with the asynchronous
callbacks, and the threads that look up, open, write and close files. Beside
them the connection breaks (`LinkDies`), a sender or receive thread notices and
counts the loss in two steps, a second handshake shakes it, the agent replaces it,
and the device crashes and remounts (`Boot`), which keeps only `file` and `srv`.

Three ways in which a loss is not seen by `hmdfs_is_node_offlined` are
recorded by the operator `Uncounted`: the sender has stopped the connection and
not yet incremented `evt_seq`; the ON event took its number after the loss was
counted (`late_on`); the status is `NODE_STAT_SHAKING`, which is never counted.
`raced` collects the inodes dropped in such a state. `exposed` collects those
that were writable and still had a stash file when the device crashed.

### PeerConn
One action per step between two lock operations of: the command thread
(`update_socket`, `off_line`), a receive thread per connection with the
handshake handler, the reget works, and a sender. `where` is the list a
connection is on; whoever moves it off `conn_impl_list` owns the list's
reference. `Users(c)` is the set of those who hold a reference, and `RefExact`
says that `ref_cnt` is its size. `late` records that the bounded wait of the
disconnect timed out, `stale` that a handshake ended during a disconnect or on
a connection already off the list. The event queue behind the reported events
is `NodeEvents`; the requests are `MsgIdr`.

### MergeView
A user looks a directory up, reads it with buffers of every size until a call
returns nothing, and looks up one of the names it was shown. The works of the
lookup run in any order; a peer may go off line at any time. Names are model
strings, and a decorated name is a pair of the name and its decoration, because
`hmdfs_get_real_dname` takes apart exactly what the renames put together. What
a device holds is chosen in `Init`, over all clashes.

### Agent
Two agents, each with its connector, listener, notice thread and net-up worker,
a kernel that takes a socket and asks for a new session when it is down, and
TCP connections whose two ends go down separately. `raced` records that a
worker came back to a node with another socket, `refused` that a kernel was
given a socket that was down.

## Runs

| run | instance | states | what it shows |
|---|---|---|---|
| `node_events` | 2 threads, `evt_seq` to 7 | 103,498 | the ring and the counters describe one queue; callbacks are in the order of the reports and asynchronous after synchronous; the last report wins; a stale ON is noticed; every report is worked off |
| `msg_idr` | 1 request of each kind, the readpage's receiver may linger, 1 disconnect | 207,832 | reference counts are exact; a request is completed once, and in the end though no response need come; the OFFLINE callback leaves no one waiting; a successful request has its buffer; `RequestReply` is implemented; the disconnect ends |
| `writepage` | 2 pages, 2 versions, stash, disk faults | 2,599,604 | the semaphore is released once; no version is dropped silently; pages do not change while they are stashed |
| `writepage_live` | 1 page, flush, stash, no memory | 29,164 | no background writeback runs under flush(); flush() and the stash end |
| `fid_reopen` | 1 process that uses the file, 1 that holds it open, 2 disconnects | 90,843 | no file is leaked at the server; an undisturbed read succeeds; a reopen ends |
| `stash_files` | 1 inode, 2 versions, 2 disconnects, 1 loss, 1 crash | 819,744 | what is stashed is kept until the peer has it and never replaces newer data; references are exact; the list is walked alone; stashing and restoring end |
| `merge_view` | 3 devices, 2 names, every clash, 1 loss of a peer | 1,696,214 | no name is listed twice and every object has one; lookups do not mix kinds; a listed name leads back to what it was made from; reading ends |
| `peer_conn` | 1 accepted and 1 opened connection, 1 break, 1 disconnect | 539,876 | reference counts are exact; no ended thread is stopped; callbacks do not race with receive threads; the status is true; no loss is silent; taking down ends |
| `agent` | 2 devices, 2 connections, 1 break, 2 failing calls, 1 signal, 1 restart | 2,379,384 | no connection is held by one kernel alone; two devices can be brought together again by a net-up signal of either; no socket is lost |

Three more runs are expected to fail; each shows a disagreement between the
code and what the repository says of it (see Findings).

### Bounds
Every counter that could grow has a named bound: `MaxSeq`, `MaxOff`,
`MaxBreak`, `MaxBoot`, `MaxVer`, `MaxId`, `MaxOffline`, `MaxRoom`, `MaxFail`,
`MaxSignal`, `MaxMsg`, `MaxExit`, `MaxBusy`. They are chosen so that the
interesting cases happen: seven event numbers fill the ring, merge and wrap the
byte index past 255; one disconnect can meet a request or a connection in any of
its states; two versions let an old one meet a newer one; two disconnects let a
second one meet an interrupted restore; one crash can fall in any state; two
names and buffers from one entry up interrupt a listing at every entry and
every clash; two connection numbers, used again, let agents cross. The
theorems lift these bounds for what they state. Symmetry is used for pages,
devices and connections in runs without liveness properties: the next-state
relations treat them alike.

`CHECK_DEADLOCK FALSE` is set where the system may really stop (all requests
done, the peer deleted, every bound used up). `StashFiles` never
stops.

### Fairness
Weak fairness is given only to threads that have already begun something: a
thread inside the kernel is scheduled, a queued work runs, a timer fires, a
mutex is granted. No fairness is given to an event from outside: no response
need come, no peer need return, no process need call. Strong fairness is given
where a thread waits for a lock that others take again and again (`FlushPage`,
`StashPage`, `FlushStep`, `StashStep` for page locks and `wpage_sem`; `Reopen`
for `inode_lock`): these kernel locks queue their waiters. `FidReopen` also assumes that an
interrupted connection comes back, since a reopen waits for it. The second part
of `StashEnds` is stated for behaviours in which, from some time on, the peer
stays connected and no loss was counted since its last ON event (`Steady`; see
Findings for why). `Agent`'s `FairSpec` also lets an ended connection be noticed
and a stopped agent be started again, and gives the listener strong fairness,
as `g_device_mutex` is free again and again while the other threads run.

## Proofs

TLAPS checks these for every value of the constants, under the assumptions
each module names (`ActorAssumption`, `BoundAssumption`, `KindAssumption`,
`PageAssumption`, ...): sets of threads, requests, pages, processes or
connections are finite where they are counted, model values such as `None` are
not members of them, and bounds are natural numbers. Every safety property the
passing runs check, state invariant or action property, has a theorem of its
own; three theorems (`RestoringKnown`, `UsersSafe`, `ForwardSafe`) state what no
run checks.

| theorem | module | states | inductive invariant |
|---|---|---|---|
| `RingSafe` | `NodeEvents_proofs` | `[](TypeOK /\ RingMatchesQueue)` | `RInv` |
| `ReportsKept` |  | `[]LastReportWins` | `RInv /\ OInv` |
| `StaleNoticed` |  | `[]StaleOnlineNoticed` | `RInv /\ OInv` |
| `CallbackOrder` |  | `CallbacksInOrder` | `RInv /\ OInv` |
| `EntriesSafe` | `MsgIdr_proofs` | `[]RefExact` | `MInv` |
| `CompletionsSafe` |  | `[]CompletedOnce` | `MInv` |
| `DisconnectSafe` |  | `[]OffWakesAll` | `MInv /\ DInv` |
| `RepliesSafe` |  | `[]ReplyHasBuffer` | `MInv /\ BInv` |
| `Implements` |  | `FinishedOnce`, the refinement of `RequestReply` | `MInv` |
| `SemaphoreSafe` | `Writepage_proofs` | `[]ReadersExact` | `PInv` |
| `FlushAlone` |  | `[]FlushExcludesBackground` | `PInv` |
| `PagesFrozen` |  | `StashFreezesPages` | `PInv /\ FInv` |
| `PagesSaved` |  | `[]CleanIsSaved` if `Flusher = FALSE` | `PInv /\ FInv /\ SInv` |
| `StashComplete` |  | `[]StashSaves` if `Flusher = FALSE` | `PInv /\ FInv /\ SInv` |
| `FidsSafe` | `FidReopen_proofs` | `[]NoLeak` if `OneUser` | `FInv` |
| `ReadsSafe` |  | `[]ReadSucceeds` if `OneUser` | `FInv` |
| `UsersSafe` |  | `[]UsersCounted` | `CInv` |
| `PinsSafe` | `StashFiles_proofs` | `[]PinsExact` | `SInv` |
| `RestoringKnown` |  | `[]RestoringTracked` | `SInv` |
| `StashSafe` |  | `[]StashNotLost` | `SInv` |
| `WritesWait` |  | `[]WritableHasNoStash` | `SInv` |
| `RestoreNeverOlder` |  | `NeverOlder` | `SInv` |
| `RestoresAlone` |  | `[]RestoreAlone` | `RInv` |
| `LookupSafe` | `MergeView_proofs` | `[]LookupExact` | `LInv` |
| `ListingSafe` |  | `[]ListingExact` | `LInv /\ WInv` |
| `ListedSafe` |  | `[]ListedResolves` | `LInv /\ WInv /\ Chosen` |
| `ForwardSafe` |  | `ListingForward` | `LInv /\ WInv` |
| `ConnectionsSafe` | `PeerConn_proofs` | `[]RefExact` | `PInv` |
| `TasksLive` |  | `[]RecvTaskLive` | `PInv` |
| `DisconnectQuiet` |  | `[]QuietAfterOff` | `PInv` |
| `StatusKept` |  | `[]StatusTrue` | `PInv /\ SInv` |
| `LossesNotified` |  | `[]LossNotified` | `PInv /\ SInv` |
| `SocketsKept` | `Agent_proofs` | `[]NoSocketLost` | `AInv` |
| `SidesAgree` |  | `[]NoOneSided` | `AInv /\ NInv` |
| `RecoveryOpen` |  | `[]Recoverable` | `AInv /\ NInv` |

Each invariant was first checked with TLC on the instances above, then proved
action by action, one lemma per action. A leaf that is a matter of first-order
logic names Zenon; the others are left to SMT.

**`NodeEvents`.** The equality of the ring's length and the queue's is not
inductive. `RInv` adds who holds which mutex in which state (`Locks`), that a
pending event is in exactly one pair of hands, its first thread's, the timer's
or the worker's (`OneOwner`), and that waiting events alternate, so that the
merge happens before a counter passes 2 (`Alternating`). `OInv` says what the
ring contains: `Event(k)` and `Number(k)` are the event and the sequence number
at place `k` of the queue; the queue ends with the last report (`LastWord`), its
numbers ascend above those already called back (`Ascending`), and each event in
it has had its synchronous callback or its thread is in it (`Reported`).

**`MsgIdr`.** `MInv` ties, request by request, the place of its issuer, its
timeout, its response and the walk of the table to the users of its entry
(`Shape`); the count and the single completion follow (`Count`, `Once`). The
refinement maps a request to what its issuer sees (`CallOf`); every step maps to
a step of `RequestReply` or a stutter. `DInv` adds that the walk of the OFFLINE
callback starts only after `msg_idr_process` has fallen to zero, so that whoever
is in the table by then is visited and whoever comes later is refused
(`WokenIfVisited`). `BInv` follows the buffer of a response to its waiter.

**`Writepage`.** `PInv`: the readers of `wpage_sem` are the pages in background
writeback, and a page is written either for a thread that waits or under the
semaphore, never both (`PLocal`). `FInv`: once the stash has passed
the inode lock nobody is inside `write()` (`Frozen`). `SInv`: a page that is neither dirty nor on its way is
saved, and a page the stash has passed is saved or on its way. It needs
`Flusher = FALSE`, as the run does: a writepage refused under a flusher ends
clean (see Findings).

**`FidReopen`.** `FInv` says whose turn a reopen is (`Locking`, `Reopener`),
that the inode's file id is open at the server or `NEED_OPEN` is set (`Fid`),
and for every file of the server who will close it (`Kept`). The hypothesis
`OneUser` is that at most one process reads, writes and reopens, any number of
others holding the file open: `hmdfs_remote_wait_opening_file` does not keep two
reopens apart, and both properties are false with two (see Findings).
`UsersSafe` needs no such hypothesis: however many processes use the file, the
count of openers is exact and only one of them at a time waits for the answer to
an open. What the wait fails to protect is the file id a reopen has read before
it gets `inode_lock`, not the count.

**`StashFiles`.** `SInv == PInv /\ Events /\ Files`:

* `PInv` is about the inodes in memory: which inodes may be on which list in
  which step of the disconnect and of the work, and that references and counts
  follow from that. `Preparing` and `Working` are needed because the lists are
  emptied by the asynchronous callback, several steps after the synchronous one
  filled them.
* `Events`: numbers of waiting events are not ahead of `evt_seq`, and an ON
  event whose number is current tells the truth about the connection
  (`Truthful`), unless one of the three uncounted losses happened. This is what
  makes "the restore failed and the event number has not changed" imply
  `Uncounted`.
* `Files`: a stash file is known to the list or will be when its inode is looked
  up (`Known`, `Rebuilding`), the restore walks exactly the stash files
  (`RestoreWalk`), and one that may still be restored holds the newest version
  (`Newest`), which needs `WritableHasNoStash`.

`RInv` counts the inodes whose status is being rebuilt: `rebuild_inode_status_nr`
is their number, so the wait of the ON callback leaves none.

**`MergeView`.** `LInv`: the comrades linked so far are what the works that have
finished found, all of one kind, this device in front (`List`, `Found`).

`WInv` is about the listing. `Walk` says where it is: in front of the device at
hand (`cur`) every device is drained, behind it none has been touched, and
between two calls the next entry is one that did not fit (`Held`); without
`Held` a call could return nothing with entries left, and the reader would stop.
`Listings` says, for each name, that there is a set `P` of devices whose entry
of that name has been walked over, that the tree knows the name exactly if `P`
is not empty and a directory exactly if `P` has one, and that the names shown
are as many as the objects of `P` (`ShownOf(n) = Objects(n, P)`). One entry adds
one device to `P`; counting what that adds to both sides is the heart of the
proof (`EntryMerged`, `EntryShown`). `P` is a witness and not a variable because
a device that went off line is skipped at a place the model does not record.
At the end `P` lies between the devices walked without the skipped ones and all
of them, which is what `ListingExact` says. The order of `Names` is only used
through `Ahead(d)`, the set of places a device has entries at beyond its
position, so no induction over a sequence is needed. `Chosen` (a type that was
not asked for comes from a comrade) and `Somewhere` (the name that is looked up
was an entry of some device) give `ListedResolves`.

**`PeerConn`.** `PInv` ties the place of each actor to the references it holds
(`Count`), the list a connection is on to who may take it off (`Listed`), and the
receive thread to `recv_task` (`Task`). `SInv` adds that a node that is ONLINE was
reported so or is about to be and has a connection somebody holds or will be
notified of its loss (`OnlineTrue`), and that one that is SHAKING has a handshake
that is unfinished (`ShakingTrue`).

**`Agent`.** `AInv`: who has which socket in his hands, and that a reconnect is
under way for one thread only. `NInv`: an end that believes in its connection is
in the kernel's list, waits to be accepted or is in the hands of a thread
(`Owned`); an end that knows the other one is gone is right (`Rightly`); the
kernel of a node that is CONNECTED has a connection, has asked for one or is
about to be given one (`Cared`). When everything has settled, `Owned` and
`Rightly` leave only connections both kernels have, and `Cared` leaves no node
CONNECTED without one, so a failed write of the cmd file in
`handle_new_connection` is made good by the kernel's next notice.

**Only model-checked.** Liveness under fairness is out of the prover's reach:
`ReportsDrain`, `Served`, `OffEnds`, `WritebackEnds`, `ReopenEnds`, `StashEnds`,
`ReadingEnds`, `TeardownEnds`. Of `ReadingEnds` the half that is a safety
property is proved: `ForwardSafe` says that a listing never goes back.

## Findings

Shown by a run that TLC finds violated:

* `stash_files_lost`: a stash file is deleted though its restore failed, when
  the loss of the connection was not counted (`stash.c:1656`); the architecture
  document says that such entries stay.
* `merge_view_empty`: a device that emits nothing is taken for a full buffer
  (`file_merge.c:384`), so a directory that is empty on its first device is
  listed as empty. `ListingExact` says what remains true.
* `agent_converges`: GET_SESSION reconnects whatever the state of the socket,
  and the other agent rejects what it does not need (`hmdfs_agent.c:1257`,
  `:1061`): after crossed connects at start-up one reconnects and the other
  rejects for ever, though nothing fails.

Seen while modelling, without a run of their own:

* `hmdfs_writepage_remote` ends the writeback and releases `wpage_sem`
  (`file_remote.c:767`) before it redirties the page, the opposite of the order
  `inode.h:148` describes; flush() can return 0 between the two.
* `hmdfs_stash_writepage` completes a page before it counts it
  (`stash.c:2104`), so `hmdfs_close_stash_file` can drop as empty a stash file
  with a page in it; `stash.c:512` says 0 is returned if nothing is stashed.
* `hmdfs_remote_wait_opening_file` waits for the wrong value of the flag
  (`file_remote.c:201`), so two reopens can both take the same old file id, then
  open one after the other under `inode_lock`; the first one's file stays open at
  the server, which the comment at `file_remote.c:245` means to prevent. `NoLeak` is therefore
  checked with one process that reopens.
* A writepage refused under a flusher (`file_remote.c:733`) ends clean without
  an error; `CleanIsSaved` is checked without a flusher.
* A crash between `hmdfs_reset_stashed_inode` and `hmdfs_del_stash_file` leaves a
  writable inode with a stash file; after the reboot the older version wins.
  `NeverOlder` excludes exactly this window.
* When the agent replaces a broken connection without an OFFLINE command no ON
  event follows, so inodes whose restore was interrupted refuse writes until the
  next OFFLINE and ON. This is why `StashEnds` has its premise.
* Without memory for its context a page ends clean with an error
  (`file_remote.c:739`), where the comment at line 719 promises mercy.
* `hmdfs_writepage_cb` does not set `NEED_OPEN` for `-EBADF`, which the comment
  at `file_remote.c:255` relies on.
* A handshake that ends during a disconnect (`connection.c:583`, `:871`) leaves
  the node ONLINE: `peer_online` queued its ON event before the OFF event, so
  no restore of the stash follows, as `docs/hmdfs_architecture.md:569` expects.
  `StatusTrue` and `LossNotified` exclude it (`stale`).
* A net-up worker overwrites `node->fd` that another thread set while it was
  connecting (`hmdfs_agent.c:756`), and a worker whose connect failed marks such
  a node OFFLINE though it has a socket, so that no net-up signal retries it.
* A NOTIFY_OFFLINE that waited behind a reconnect closes the socket of the new
  session, and no NOTIFY_OFFLINE leads to the command `off_line`.
* If the command file cannot be written, `handle_new_connection` leaves a node
  CONNECTED without a socket, until the kernel asks for a session.
* `docs/hmdfs-bug-writepage-async-lock-handoff.md` suspects that a callback runs
  twice; `CompletedOnce` holds for all interleavings, by the theorem
  `CompletionsSafe`.

## Not modelled

* The contents of messages and of the stash file, encryption, permissions: no
  property here tells their values apart.
* In `StashFiles`: stash files that are damaged or whose destination was replaced
  at the peer (`hmdfs_need_abort_restore`), and a repeated
  `hmdfs_disconnect_node` of a node that is already off line (only its duplicate
  event, in `NodeEvents`).
* In `MsgIdr`: slices of a directory listing and the server's dispatch.
* In `FidReopen`: `atomic_open`, `create`, and answers that come after a timeout.
* In `PeerConn`: the crypto negotiation beyond its failure, TLS, and the order of
  the list of connections (a sender takes any working one).
* In `MergeView`: creating, renaming and removing, and rewinding a directory.
* In `Agent`: the configuration file and more than one remote node.
* Local, device and cloud views: each operation is one call of another file
  system. `hmdfs-bak/` is an older copy.
* Random generation and text encoding in the fuzzer; VM and report
  infrastructure; Horcrux.

The map covers well under a tenth of the repository's lines: four fifths of
them are one generated header (`src/tools/vmlinux.h`), and most of the rest is the fuzzer
inherited from syzkaller.

## Plan

1. Directory slices (`F_ITERATE`), the dentry cache's bitmap of slots, the two
   queues of inodes of the throttling.
2. The fuzzer: work queue and corpus, the gate of concurrent executions, the
   exchange through the hub, the algorithms over the graph of calls.
