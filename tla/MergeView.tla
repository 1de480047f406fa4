----------------------------- MODULE MergeView -----------------------------
(***************************************************************************)
(* The merge view of hmdfs shows one directory tree made of the trees of   *)
(* every device (hmdfs/inode_merge.c, hmdfs/file_merge.c).  One user looks  *)
(* a directory up, opens it, reads it with getdents until a call returns   *)
(* nothing, and then looks up a name the listing showed.                   *)
(*                                                                         *)
(* Looking a name up starts one work per device on the system workqueue;   *)
(* the works finish in any order and link a comrade each.  Opening keeps a  *)
(* lower file per comrade; reading walks the lower files one after the     *)
(* other and renames what clashes.  A peer may go offline at any time.     *)
(*                                                                         *)
(* Device 0 is this device.  An entry is a name and a kind: DT_DIR, or     *)
(* DT_REG (DT_LNK takes the same branches).  A name as the user sees it is  *)
(* the name and how it was decorated: as it is, with the suffix            *)
(* "_remote_directory", or with "_conflict_dev<id>"; no device's own name  *)
(* carries such a suffix.  "." and ".." are left out: the actor swallows   *)
(* them and touches nothing.  A position in a lower file is a place in the *)
(* order of names: the walk goes on with the first entry from there.       *)
(* Memory may run out wherever the walk allocates some, and a lower read   *)
(* may fail.                                                               *)
(***************************************************************************)
EXTENDS Integers, Sequences, FiniteSets, Functions

CONSTANTS
  Peers,      \* device ids of the peers in node_list
  Names,      \* names of directory entries, in the order they are stored
  LongNames,  \* names too long to be given a suffix (both need 17 places)
  MaxRoom,    \* entries the buffer of one getdents call may hold
  MaxFault,   \* how often a peer goes offline, a read fails or memory runs out
  DirKinds    \* what the directory's own name may be on a device

ASSUME PeersAssumption == Peers \subseteq Nat \ {0} /\ IsFiniteSet(Peers)
ASSUME NamesAssumption == Names \in Seq(STRING) /\ IsInjective(Names)
ASSUME DirKindsAssumption == DirKinds \subseteq {"NONE", "DIR", "REG"}

Devs == {0} \cup Peers
Kinds == {"NONE", "DIR", "REG"}
NameSet == Range(Names)

\* How a name is decorated in the merge view.
Plain == <<"plain", 0>>
ConfDir == <<"dir", 0>>
ConfReg(d) == <<"reg", d>>
Decorations == {Plain, ConfDir} \cup {ConfReg(d) : d \in Devs}
Shown == NameSet \X Decorations

VARIABLES
  dirKind,    \* per device: what the directory's name is there
  kind,       \* per device and name: what the name is in the directory
  online,     \* peers whose node status is NODE_STAT_ONLINE
  offs,       \* times a peer has gone offline
  fails,      \* times a lower read failed or memory ran out
  pc,         \* where the user's thread is
  target,     \* the lookup at hand: what its name is on each device, and how
              \* the name is decorated
  mtype,      \* mdi->type
  works,      \* devices whose lookup work has not finished (work_count)
  comrades,   \* mdi->comrade_list, as device ids
  fis,        \* fi_head->comrade_list: devices with an open lower file
  cur,        \* fi_head->cur_dev
  pos,        \* per device: position of the lower file
  eof,        \* ctx->pos = -1
  tree,       \* fi_head->root: per name seen so far, its file_type
  result,     \* ctx_merge.result
  room,       \* entries the caller's buffer still takes
  sent,       \* entries put into the buffer by this call
  listed,     \* how often each shown name has been put into a buffer
  skipped     \* opened devices of which something was left out: the peer was
              \* offline, the lower read failed, or an entry got no name

dirs == <<dirKind, kind>>
peer == <<online, offs, fails>>
mdi == <<target, mtype, works, comrades>>
head == <<fis, cur, pos, eof, tree, listed, skipped>>
call == <<result, room, sent>>
vars == <<dirs, peer, pc, mdi, head, call>>
-----------------------------------------------------------------------------
\* The places of the entries of device d from its position on.
Ahead(d) == {i \in pos[d] .. Len(Names) : kind[d][Names[i]] # "NONE"}

Reachable(d) == d = 0 \/ d \in online

\* Whether n is in the range of a sequence of devices.
In(d, s) == d \in Range(s)

Init ==
  /\ dirKind \in [Devs -> DirKinds]
  /\ kind \in [Devs -> [NameSet -> Kinds]]
  /\ \A d \in Devs : dirKind[d] # "DIR" => \A n \in NameSet : kind[d][n] = "NONE"
  /\ online = Peers /\ offs = 0 /\ fails = 0
  /\ pc = "start"
  /\ target = [on |-> dirKind, deco |-> Plain]
  /\ mtype = "UNKNOWN" /\ works = {} /\ comrades = <<>>
  /\ fis = <<>> /\ cur = 0 /\ pos = [d \in Devs |-> 1] /\ eof = FALSE
  /\ tree = [n \in NameSet |-> "NONE"]
  /\ listed = [s \in Shown |-> 0] /\ skipped = {}
  /\ result = FALSE /\ room = 0 /\ sent = 0
-----------------------------------------------------------------------------
(* hmdfs_get_real_dname: what the decoration of a name says of its type.   *)
\* mutant: the type in the decorated name is ignored
TypeOfName_Lost(deco) == "UNKNOWN"

TypeOfName(deco) ==
  CASE deco[1] = "reg" -> "REG"
    [] deco[1] = "dir" -> "DIR"
    [] deco[1] = "plain" -> "UNKNOWN"

(* hmdfs_lookup_merge up to the wait: with work_lock and node_lock held,   *)
(* lookup_merge_normal schedules a work for every device, or, for a name   *)
(* decorated with a device id, for that device alone.                      *)
StartLookup(on, deco) ==
  /\ target' = [on |-> on, deco |-> deco]
  /\ mtype' = TypeOfName(deco)
  /\ works' = IF TypeOfName(deco) = "REG" THEN {deco[2]} \cap Devs ELSE Devs
  /\ comrades' = <<>>

hmdfs_lookup_merge ==
  /\ pc = "start"
  /\ \E deco \in {Plain, ConfDir} : StartLookup(dirKind, deco)
  /\ pc' = "wait"
  /\ UNCHANGED <<dirs, peer, head, call>>

(* The handle goes, its lower files and its tree with it.                  *)
hmdfs_dir_release_merge ==
  /\ fis' = <<>> /\ cur' = 0 /\ pos' = [d \in Devs |-> 1] /\ eof' = FALSE
  /\ tree' = [n \in NameSet |-> "NONE"]
  /\ listed' = [s \in Shown |-> 0] /\ skipped' = {}

(* The user closes the directory (hmdfs_dir_release_merge), keeps a name    *)
(* the listing has shown and looks it up.                                  *)
LookupListed ==
  /\ pc = "ended"
  /\ \E s \in Shown :
       /\ listed[s] > 0
       /\ StartLookup([d \in Devs |-> kind[d][s[1]]], s[2])
  /\ pc' = "resolve"
  /\ hmdfs_dir_release_merge
  /\ UNCHANGED <<dirs, peer, call>>

(* is_valid_comrade                                                        *)
ValidComrade(k) ==
  \/ mtype = "UNKNOWN"
  \/ mtype = "DIR" /\ k = "DIR"
  \/ mtype = "REG" /\ comrades = <<>> /\ k # "DIR"

(* link_comrade: this device goes to the head of the list, a peer to its   *)
(* tail.                                                                   *)
link_comrade(d) == IF d = 0 THEN <<d>> \o comrades ELSE Append(comrades, d)

(* merge_lookup_work_func: the path lookup fails for a peer that is not    *)
(* online; the rest runs under work_lock.                                  *)
\* mutant: the first comrade that is found ends the lookup
merge_lookup_work_func_First(d) ==
  LET k == target.on[d] IN
  /\ d \in works
  /\ IF Reachable(d) /\ k # "NONE" /\ ValidComrade(k)
       THEN /\ comrades' = link_comrade(d)
            /\ mtype' = IF mtype = "UNKNOWN" THEN k ELSE mtype
            /\ works' = {}
       ELSE UNCHANGED <<comrades, mtype>> /\ works' = works \ {d}
  /\ UNCHANGED <<dirs, peer, pc, target, head, call>>

merge_lookup_work_func(d) ==
  LET k == target.on[d] IN
  /\ d \in works
  /\ works' = works \ {d}
  /\ IF Reachable(d) /\ k # "NONE" /\ ValidComrade(k)
       THEN /\ comrades' = link_comrade(d)
            /\ mtype' = IF mtype = "UNKNOWN" THEN k ELSE mtype
       ELSE UNCHANGED <<comrades, mtype>>
  /\ UNCHANGED <<dirs, peer, pc, target, head, call>>

(* wait_event(is_merge_lookup_end), and what the lookup returns.           *)
is_merge_lookup_end == works = {}

LookupReturn ==
  /\ pc \in {"wait", "resolve"}
  /\ is_merge_lookup_end
  /\ pc' = CASE pc = "resolve" -> "done"
             [] pc = "wait" /\ comrades # <<>> /\ mtype = "DIR" -> "found"
             [] pc = "wait" /\ ~(comrades # <<>> /\ mtype = "DIR") -> "nodir"
  /\ UNCHANGED <<dirs, peer, mdi, head, call>>
-----------------------------------------------------------------------------
(* The elements of S, in the order they have in the sequence s.            *)
Sublists(s, S) ==
  {t \in [1 .. Cardinality(S) -> S] :
     /\ Range(t) = S
     /\ \A i, j \in 1 .. Cardinality(S) :
          i < j => \E k, l \in 1 .. Len(s) : k < l /\ s[k] = t[i] /\ s[l] = t[j]}

(* hmdfs_dir_open_merge: a comrade whose lower open fails is left out; the *)
(* open fails when nothing could be opened.                                *)
hmdfs_dir_open_merge ==
  /\ pc = "found"
  /\ \E opened \in SUBSET Range(comrades) :
       /\ \A d \in opened : Reachable(d)
       /\ In(0, comrades) => 0 \in opened
       /\ fis' \in Sublists(comrades, opened)
  /\ pc' = IF fis' = <<>> THEN "nodir" ELSE "open"
  /\ UNCHANGED <<dirs, peer, mdi, cur, pos, eof, tree, listed, skipped, call>>

(* The entry of hmdfs_iterate_merge: the device to resume with is cur_dev, *)
(* or the first of the list.  A call after the end returns nothing.        *)
hmdfs_iterate_merge ==
  /\ pc = "open"
  /\ IF eof
       THEN pc' = "ended" /\ UNCHANGED <<cur, call>>
       ELSE /\ cur' = IF In(cur, fis) THEN cur ELSE Head(fis)
            /\ room' \in 1 .. MaxRoom
            /\ result' = FALSE /\ sent' = 0
            /\ pc' = "enter"
  /\ UNCHANGED <<dirs, peer, mdi, fis, pos, eof, tree, listed, skipped>>

MayFail == offs + fails < MaxFault

\* A lower read fails or an allocation does: device cur will not be complete.
Fails ==
  /\ MayFail
  /\ fails' = fails + 1
  /\ skipped' = skipped \cup {cur}
  /\ UNCHANGED <<online, offs>>

\* The position of the lower file at hand moves to the end.
AtEnd == pos' = [pos EXCEPT ![cur] = Len(Names) + 1]

(* The entry of iterate_dir on the lower file: hmdfs_iterate_remote looks  *)
(* its peer up, and without it moves the position to the end; so it does   *)
(* when analysis_dentry_file_from_con finds no memory, which is an error.  *)
hmdfs_iterate_remote ==
  /\ pc = "enter"
  /\ \/ Reachable(cur) /\ pc' = "walk" /\ UNCHANGED <<peer, pos, skipped>>
     \/ /\ ~Reachable(cur) /\ pc' = "leave" /\ AtEnd /\ UNCHANGED peer
        /\ skipped' = IF Ahead(cur) = {} THEN skipped ELSE skipped \cup {cur}
     \/ cur # 0 /\ Reachable(cur) /\ pc' = "stop" /\ AtEnd /\ Fails
  /\ UNCHANGED <<dirs, mdi, fis, cur, eof, tree, listed, call>>
-----------------------------------------------------------------------------
(* The name insert_filename and the renames give an entry.                 *)
Decorated(d, n) ==
  CASE kind[d][n] = "DIR" /\ tree[n] = "REG" -> ConfDir
    [] kind[d][n] = "REG" /\ tree[n] # "NONE" -> ConfReg(d)
    [] OTHER -> Plain

\* A directory whose name was shown as one before.
Merged(d, n) == kind[d][n] = "DIR" /\ tree[n] = "DIR"

\* The name that is to be shown has a suffix and no place for it.
TooLong(d, n) == Decorated(d, n) # Plain /\ n \in LongNames

(* The actor returns false: analysis_dentry_file_from_con then returns 1,  *)
(* the file system of this device 0.                                       *)
ActorStops == pc' = IF cur = 0 THEN "leave" ELSE "stop"

(* A directory shown before is merged into it.                             *)
MergeEntry(i) ==
  /\ Merged(cur, Names[i])
  /\ pos' = [pos EXCEPT ![cur] = i + 1]
  /\ UNCHANGED <<peer, pc, tree, listed, skipped, call>>

(* The entry goes to the caller's buffer, under its own name when there is *)
(* no memory for rename_conflicting_file.                                  *)
EmitEntry(i) ==
  LET n == Names[i] IN
  /\ ~Merged(cur, n) /\ ~TooLong(cur, n) /\ room > 0
  /\ tree' = [tree EXCEPT ![n] = IF kind[cur][n] = "DIR" \/ @ = "NONE"
                                 THEN kind[cur][n] ELSE @]
  /\ pos' = [pos EXCEPT ![cur] = i + 1]
  /\ \/ /\ listed' = [listed EXCEPT ![<<n, Decorated(cur, n)>>] = @ + 1]
        /\ UNCHANGED <<peer, skipped>>
     \/ /\ Decorated(cur, n) = ConfReg(cur)
        /\ listed' = [listed EXCEPT ![<<n, Plain>>] = @ + 1]
        /\ Fails
  /\ result' = TRUE /\ room' = room - 1 /\ sent' = sent + 1
  /\ UNCHANGED pc

(* The buffer is full: the tree is put back as it was, and the walk of     *)
(* this device stops before the entry.                                     *)
\* mutant: the entry stays in the tree when the buffer is full
BufferFull_KeepsEntry(i) ==
  LET n == Names[i] IN
  /\ ~Merged(cur, n) /\ ~TooLong(cur, n) /\ room = 0
  /\ tree' = [tree EXCEPT ![n] = IF kind[cur][n] = "DIR" \/ @ = "NONE"
                                 THEN kind[cur][n] ELSE @]
  /\ result' = FALSE
  /\ ActorStops
  /\ UNCHANGED <<peer, pos, listed, skipped, room, sent>>

BufferFull(i) ==
  /\ ~Merged(cur, Names[i]) /\ ~TooLong(cur, Names[i]) /\ room = 0
  /\ result' = FALSE
  /\ ActorStops
  /\ UNCHANGED <<peer, tree, pos, listed, skipped, room, sent>>

(* The entry gets no name: its suffix does not fit or there is no memory   *)
(* for the name, and the walk stops before it; or there is no memory for   *)
(* the cache entry, whose error code makes the actor return true.  result  *)
(* stays as the last emit left it.                                         *)
LoseEntry(i) ==
  /\ \/ /\ TooLong(cur, Names[i]) /\ ActorStops
        /\ skipped' = skipped \cup {cur}
        /\ UNCHANGED <<peer, pos>>
     \/ Fails /\ ActorStops /\ UNCHANGED pos
     \/ Fails /\ pos' = [pos EXCEPT ![cur] = i + 1] /\ UNCHANGED pc
  /\ UNCHANGED <<tree, listed, call>>

(* hmdfs_actor_merge for the next entry of the lower file.                 *)
hmdfs_actor_merge ==
  /\ pc = "walk"
  /\ \E i \in Ahead(cur) :
       /\ \A j \in Ahead(cur) : i <= j
       /\ MergeEntry(i) \/ EmitEntry(i) \/ BufferFull(i) \/ LoseEntry(i)
  /\ UNCHANGED <<dirs, mdi, fis, cur, eof>>

(* iterate_dir returns because the lower file has no more entries.         *)
LowerExhausted ==
  /\ pc = "walk"
  /\ Ahead(cur) = {}
  /\ pc' = "leave"
  /\ UNCHANGED <<dirs, peer, mdi, head, call>>

(* iterate_dir returns early: the cached listing of a peer cannot be read, *)
(* which is no error, or the file system of this device fails, which is.   *)
LowerFails ==
  /\ pc = "walk"
  /\ AtEnd /\ Fails
  /\ pc' = IF cur = 0 THEN "stop" ELSE "leave"
  /\ UNCHANGED <<dirs, mdi, fis, cur, eof, tree, listed, call>>

(* get_next_hmdfs_file_info: the device after d in the list, -1 for none.  *)
\* mutant: at the end of the list the first device is taken for the next
NextDev_First(d) ==
  LET i == CHOOSE i \in 1 .. Len(fis) : fis[i] = d
  IN IF i < Len(fis) THEN fis[i + 1] ELSE fis[1]

NextDev(d) ==
  LET i == CHOOSE i \in 1 .. Len(fis) : fis[i] = d
  IN IF i < Len(fis) THEN fis[i + 1] ELSE -1

(* getdents hands the buffer to the user, who stops at an empty one; the   *)
(* call's own variables are gone.                                          *)
GetdentsReturns ==
  /\ pc' = IF sent > 0 THEN "open" ELSE "ended"
  /\ result' = FALSE /\ room' = 0 /\ sent' = 0

(* The loop of hmdfs_iterate_merge after iterate_dir.  When that returned  *)
(* an error or 1 (pc "stop"), or the last emit did not succeed, the call   *)
(* ends here and the next one resumes this device; otherwise the walk goes *)
(* on with the next device, or the end is reached.                         *)
LeaveDevice ==
  LET go == pc = "leave" /\ result IN
  /\ pc \in {"leave", "stop"}
  /\ IF go
       THEN cur' = NextDev(cur) /\ eof' = (NextDev(cur) = -1)
       ELSE UNCHANGED <<cur, eof>>
  /\ IF go /\ ~eof'
       THEN pc' = "enter" /\ UNCHANGED call
       ELSE GetdentsReturns
  /\ UNCHANGED <<dirs, peer, mdi, fis, pos, tree, listed, skipped>>
-----------------------------------------------------------------------------
(* External: a peer goes offline.                                          *)
PeerOffline ==
  /\ MayFail
  /\ \E d \in online : online' = online \ {d}
  /\ offs' = offs + 1
  /\ UNCHANGED <<fails, dirs, pc, mdi, head, call>>

Next ==
  \/ hmdfs_lookup_merge
  \/ LookupListed
  \/ \E d \in Devs : merge_lookup_work_func(d)
  \/ LookupReturn
  \/ hmdfs_dir_open_merge
  \/ hmdfs_iterate_merge
  \/ hmdfs_iterate_remote
  \/ hmdfs_actor_merge
  \/ LowerExhausted
  \/ LowerFails
  \/ LeaveDevice
  \/ PeerOffline

Spec == Init /\ [][Next]_vars

\* The workqueue runs what is queued, and a thread inside the kernel runs on.
FairSpec ==
  /\ Spec
  /\ \A d \in Devs : WF_vars(merge_lookup_work_func(d))
  /\ WF_vars(LookupReturn) /\ WF_vars(hmdfs_dir_open_merge)
  /\ WF_vars(hmdfs_iterate_merge) /\ WF_vars(hmdfs_iterate_remote)
  /\ WF_vars(hmdfs_actor_merge) /\ WF_vars(LowerExhausted)
  /\ WF_vars(LeaveDevice)
-----------------------------------------------------------------------------
(* The variables keep their types.                                         *)
TypeOK ==
  /\ dirKind \in [Devs -> Kinds]
  /\ kind \in [Devs -> [NameSet -> Kinds]]
  /\ online \subseteq Peers
  /\ offs \in 0 .. MaxFault /\ fails \in 0 .. MaxFault
  /\ pc \in {"start", "wait", "found", "nodir", "open", "enter", "walk", "leave", "stop",
             "ended", "resolve", "done"}
  /\ target \in [on : [Devs -> Kinds], deco : Decorations]
  /\ mtype \in {"UNKNOWN", "DIR", "REG"}
  /\ works \subseteq Devs
  /\ comrades \in Seq(Devs)
  /\ fis \in Seq(Devs)
  /\ cur \in Devs \cup {-1}
  /\ pos \in [Devs -> 1 .. Len(Names) + 1]
  /\ tree \in [NameSet -> Kinds]
  /\ result \in BOOLEAN /\ eof \in BOOLEAN
  /\ room \in 0 .. MaxRoom /\ sent \in 0 .. MaxRoom
  /\ listed \in [Shown -> Nat]
  /\ skipped \subseteq Devs

\* Objects of name n on the devices of D: the directories are one, every file
\* is one of its own.
Objects(n, D) ==
  Cardinality({d \in D : kind[d][n] = "REG"}) +
  (IF \E d \in D : kind[d][n] = "DIR" THEN 1 ELSE 0)

ShownOf(n) == Cardinality({x \in Decorations : listed[<<n, x>>] > 0})

\* The devices the listing has got past when the user stops reading.
Walked ==
  IF eof THEN Range(fis)
  ELSE {fis[i] : i \in {i \in 1 .. Len(fis) : \A j \in 1 .. i - 1 : fis[j] # cur}}

(* No name is listed twice, however the entries of the devices clash and   *)
(* wherever a full buffer interrupts the walk (hmdfs_actor_merge: the      *)
(* tree, the renames, the restart at the entry that did not fit), but a    *)
(* file that no memory could be found to rename.  When the user stops,     *)
(* every object of the devices walked has a name of its own in the         *)
(* listing, those of a device of which something was left out perhaps      *)
(* missing; and the listing stops before the last device only at such a    *)
(* device, or at a first device that has no entries (hmdfs_iterate_merge   *)
(* takes a device that emits nothing for a full buffer).                   *)
ListingExact ==
  /\ \A s \in Shown : \/ listed[s] <= 1
                      \/ s[2] = Plain /\ \E d \in skipped : kind[d][s[1]] = "REG"
  /\ pc = "ended" =>
       /\ \A n \in NameSet : /\ ShownOf(n) <= Objects(n, Walked)
                             /\ ShownOf(n) >= Objects(n, Walked \ skipped)
       /\ ~eof => cur \in skipped \/ (cur = fis[1] /\ \A n \in NameSet : kind[cur][n] = "NONE")

(* What docs/hmdfs-bug-merge-view-missing-comrade.md promises of the same  *)
(* loop: a call ends early only because the buffer is full, so a user who  *)
(* reads to the end has seen every entry of every opened device.           *)
ListingComplete ==
  pc = "ended" /\ skipped = {} =>
    \A n \in NameSet : ShownOf(n) = Objects(n, Range(fis))

\* The lookup that has returned.
Returned == pc \in {"found", "nodir", "done"}

\* The devices the lookup asked.
Asked == IF target.deco[1] = "reg" THEN {target.deco[2]} ELSE Devs

(* In whatever order the works finish, a lookup returns what the devices   *)
(* hold: the directories of all reachable devices together, or one file;   *)
(* never a mixture; nothing only when no reachable device it asked has the *)
(* name in the kind the decoration asks for; this device in front          *)
(* (merge_lookup_work_func, is_valid_comrade, link_comrade).               *)
LookupExact ==
  Returned =>
    LET holds(k) == {d \in Asked : target.on[d] = k}
        up(k) == {d \in holds(k) : Reachable(d)}
        got == Range(comrades)
    IN /\ got \subseteq holds(mtype) /\ Cardinality(got) = Len(comrades)
       /\ mtype = "DIR" => up("DIR") \subseteq got
       /\ mtype = "REG" => Len(comrades) <= 1
       /\ comrades = <<>> => IF mtype = "UNKNOWN" THEN up("DIR") \cup up("REG") = {}
                            ELSE up(mtype) = {}
       /\ In(0, comrades) => comrades[1] = 0

(* The names of a listing can be used: as long as no peer went offline,    *)
(* looking one up finds something; a name that was decorated leads back to *)
(* exactly the directories, or the one device's file, it was made from     *)
(* (hmdfs_actor_merge's renames against hmdfs_get_real_dname).             *)
ListedResolves ==
  pc = "done" /\ offs = 0 =>
    /\ comrades # <<>>
    /\ target.deco = ConfDir => /\ mtype = "DIR"
                               /\ Range(comrades) = {d \in Devs : target.on[d] = "DIR"}
    /\ target.deco[1] = "reg" => /\ mtype = "REG"
                                /\ comrades = <<target.deco[2]>>

(* A user who keeps reading comes to the end: the lookup's wait is woken,  *)
(* every call of hmdfs_iterate_merge returns, and the calls do not go      *)
(* round and round the devices.                                            *)
ReadingEnds == (pc = "wait") ~> (pc \in {"nodir", "ended"})
=============================================================================
