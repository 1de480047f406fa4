-------------------------- MODULE MergeView_proofs --------------------------
(***************************************************************************)
(* Proofs about looking a name up in the merge view and about listing a    *)
(* directory of it, for any finite set of devices, whatever they hold, any *)
(* order of the works, any buffers, and peers that go offline at any time. *)
(***************************************************************************)
(* LInv is inductive by itself and proves LookupExact.  WInv, inductive    *)
(* with it, says where the walk of a listing is and, for each name, that   *)
(* the names shown are those of the devices whose entry was walked over.   *)
(***************************************************************************)
EXTENDS MergeView, FiniteSetTheorems, TLAPS

(* The types of what a lookup uses.                                        *)
Types ==
  /\ dirKind \in [Devs -> Kinds] /\ kind \in [Devs -> [NameSet -> Kinds]]
  /\ target.on \in [Devs -> Kinds] /\ target.deco \in Decorations
  /\ mtype \in {"UNKNOWN", "DIR", "REG"}
  /\ works \subseteq Devs
  /\ comrades \in Seq(Devs)

(* The works that have finished.                                           *)
Finished == Asked \ works

Got == Range(comrades)

(* The list of comrades has each device once, this one in front, and none  *)
(* whose work is still to run.                                             *)
List ==
  /\ Got \cap works = {}
  /\ \A i, j \in 1 .. Len(comrades) : comrades[i] = comrades[j] => i = j
  /\ 0 \in Got => comrades[1] = 0

(* What mdi->type and the list say of the works that have finished.        *)
Found ==
  /\ works \subseteq Asked
  /\ \A d \in Got : d \in Asked /\ target.on[d] = mtype
  /\ mtype = "UNKNOWN" => comrades = <<>> /\ \A d \in Finished : Reachable(d) => target.on[d] = "NONE"
  /\ mtype = "DIR" => \A d \in Finished : Reachable(d) /\ target.on[d] = "DIR" => d \in Got
  /\ mtype = "REG" => /\ Len(comrades) <= 1
                      /\ comrades = <<>> => \A d \in Finished : Reachable(d) => target.on[d] # "REG"

LInv ==
  /\ Types /\ List
  /\ pc # "start" => Found
  /\ pc \notin {"wait", "resolve"} => works = {}

-----------------------------------------------------------------------------
(* link_comrade adds the device, wherever it puts it.                      *)
LEMMA Linked ==
  ASSUME comrades \in Seq(Devs), NEW d \in Devs, d \notin Got,
         \A i, j \in 1 .. Len(comrades) : comrades[i] = comrades[j] => i = j,
         0 \in Got => comrades[1] = 0,
         comrades' = link_comrade(d)
  PROVE  /\ comrades' \in Seq(Devs) /\ Len(comrades') = Len(comrades) + 1
         /\ Got' = Got \cup {d}
         /\ \A i, j \in 1 .. Len(comrades') : comrades'[i] = comrades'[j] => i = j
         /\ 0 \in Got' => comrades'[1] = 0
  <1>1. Got = {comrades[i] : i \in 1 .. Len(comrades)}
    BY DEF Got, Range
  <1>2. CASE d = 0
    <2>1. comrades' = <<d>> \o comrades
      BY <1>2, Zenon DEF link_comrade
    <2>2. /\ comrades' \in Seq(Devs) /\ Len(comrades') = Len(comrades) + 1
          /\ comrades'[1] = d
          /\ \A i \in 2 .. Len(comrades') : i - 1 \in 1 .. Len(comrades) /\ comrades'[i] = comrades[i - 1]
          /\ \A i \in 1 .. Len(comrades) : i + 1 \in 1 .. Len(comrades') /\ comrades'[i + 1] = comrades[i]
      BY <2>1
    <2>3. Got' = {comrades'[i] : i \in 1 .. Len(comrades')}
      <3>1. comrades' \in Seq(Devs)
        BY <2>2, Zenon
      <3> QED
        BY <3>1 DEF Got, Range
    <2>4. Got' = Got \cup {d}
      <3>1. ASSUME NEW x \in Got' PROVE x \in Got \cup {d}
        <4>1. PICK i \in 1 .. Len(comrades') : x = comrades'[i]
          BY <2>3, Zenon
        <4>2. CASE i = 1
          BY <2>2, <4>1, <4>2, ZenonT(30)
        <4>3. CASE i # 1
          <5>1. i \in 2 .. Len(comrades')
            BY <2>2, <4>3
          <5>2. i - 1 \in 1 .. Len(comrades) /\ x = comrades[i - 1]
            BY <2>2, <4>1, <5>1, Zenon
          <5> QED
            BY <1>1, <5>2, ZenonT(30)
        <4> QED
          BY <4>2, <4>3, ZenonT(30)
      <3>2. ASSUME NEW x \in Got PROVE x \in Got'
        BY <1>1, <2>2, <2>3
      <3>3. d \in Got'
        BY <2>2, <2>3
      <3> QED
        BY <3>1, <3>2, <3>3, ZenonT(30)
    <2>5. ASSUME NEW i \in 1 .. Len(comrades'), NEW j \in 1 .. Len(comrades'), comrades'[i] = comrades'[j]
          PROVE  i = j
      <3>1. \A k \in 2 .. Len(comrades') : comrades'[k] # d
        BY <1>1, <2>2
      <3>2. \A k \in 1 .. Len(comrades') : k = 1 \/ k \in 2 .. Len(comrades')
        BY <2>2
      <3>3. CASE i = 1 \/ j = 1
        BY <2>2, <2>5, <3>1, <3>2, <3>3, ZenonT(30)
      <3>4. CASE i \in 2 .. Len(comrades') /\ j \in 2 .. Len(comrades')
        <4>1. /\ i - 1 \in 1 .. Len(comrades) /\ j - 1 \in 1 .. Len(comrades)
              /\ comrades[i - 1] = comrades[j - 1]
          BY <2>2, <2>5, <3>4, Zenon
        <4>2. i - 1 = j - 1
          BY <4>1, Zenon
        <4> QED
          BY <3>4, <4>2
      <3> QED
        BY <3>2, <3>3, <3>4, ZenonT(30)
    <2> QED
      BY <1>2, <2>2, <2>4, <2>5, ZenonT(30)
  <1>3. CASE d # 0
    <2>1. comrades' = Append(comrades, d)
      BY <1>3, Zenon DEF link_comrade
    <2>2. /\ comrades' \in Seq(Devs) /\ Len(comrades') = Len(comrades) + 1
          /\ comrades'[Len(comrades')] = d
          /\ \A i \in 1 .. Len(comrades) : i \in 1 .. Len(comrades') /\ comrades'[i] = comrades[i]
      BY <2>1
    <2>3. Got' = {comrades'[i] : i \in 1 .. Len(comrades')}
      BY <2>2 DEF Got, Range
    <2>4. \A i \in 1 .. Len(comrades') : i = Len(comrades') \/ i \in 1 .. Len(comrades)
      BY <2>2
    <2>5. Got' = Got \cup {d}
      <3>1. ASSUME NEW x \in Got' PROVE x \in Got \cup {d}
        BY <1>1, <2>2, <2>3, <2>4
      <3>2. ASSUME NEW x \in Got PROVE x \in Got'
        BY <1>1, <2>2, <2>3
      <3>3. d \in Got'
        BY <2>2, <2>3
      <3> QED
        BY <3>1, <3>2, <3>3, ZenonT(30)
    <2>6. ASSUME NEW i \in 1 .. Len(comrades'), NEW j \in 1 .. Len(comrades'), comrades'[i] = comrades'[j]
          PROVE  i = j
      <3>1. \A k \in 1 .. Len(comrades) : comrades'[k] # d
        BY <1>1, <2>2, ZenonT(30), ZenonT(30)
      <3> QED
        BY <2>2, <2>4, <2>6, <3>1
    <2>7. 0 \in Got' => comrades'[1] = 0
      <3>1. 0 \in Got => 1 \in 1 .. Len(comrades)
        BY <1>1
      <3> QED
        BY <1>3, <2>2, <2>5, <3>1, ZenonT(30)
    <2> QED
      BY <2>2, <2>5, <2>6, <2>7, ZenonT(30)
  <1> QED
    BY <1>2, <1>3, ZenonT(30)

(* A lookup begins: nothing has been found, nobody has been asked.         *)
LEMMA StartLInv ==
  ASSUME Types, NEW on \in [Devs -> Kinds], NEW deco \in Decorations, StartLookup(on, deco)
  PROVE  /\ target'.on \in [Devs -> Kinds] /\ target'.deco \in Decorations
         /\ mtype' \in {"UNKNOWN", "DIR", "REG"} /\ works' \subseteq Devs
         /\ comrades' \in Seq(Devs) /\ List' /\ Found'
  <1>1. target'.on = on /\ target'.deco = deco /\ comrades' = <<>>
    BY Zenon DEF StartLookup
  <1>2. Got' = {}
    BY <1>1 DEF Got, Range
  <1>3. deco[1] \in {"plain", "dir", "reg"} /\ (deco[1] = "reg" => deco[2] \in Devs)
    BY DEF Decorations, Plain, ConfDir, ConfReg
  <1>4. /\ mtype' = TypeOfName(deco) /\ TypeOfName(deco) \in {"UNKNOWN", "DIR", "REG"}
        /\ TypeOfName(deco) = "REG" <=> deco[1] = "reg"
    BY <1>3, Zenon DEF StartLookup, TypeOfName
  <1>5. works' = Asked' /\ works' \subseteq Devs
    BY <1>1, <1>3, <1>4, Zenon DEF StartLookup, Asked
  <1>6. Finished' = {}
    BY <1>5, Zenon DEF Finished
  <1>7. List'
    BY <1>1, <1>2 DEF List
  <1>8. Found'
    BY <1>1, <1>2, <1>5, <1>6 DEF Found
  <1> QED
    BY <1>1, <1>4, <1>5, <1>7, <1>8

(* The work of one device.                                                 *)
LEMMA WorkLInv ==
  ASSUME LInv, NEW d \in Devs, merge_lookup_work_func(d)
  PROVE  LInv'
  <1>1. /\ UNCHANGED <<dirKind, kind, online, pc, target>> /\ d \in works /\ works' = works \ {d}
        /\ pc \in {"wait", "resolve"} /\ target.on[d] \in Kinds
        /\ mtype \in {"UNKNOWN", "DIR", "REG"} /\ Types /\ List /\ Found
    BY Zenon DEF merge_lookup_work_func, LInv, Types, dirs, peer
  <1>2. Asked' = Asked /\ \A e \in Devs : Reachable(e)' <=> Reachable(e)
    BY <1>1, Zenon DEF Asked, Reachable
  <1>3. Finished' = Finished \cup {d} /\ d \in Asked
    BY <1>1, <1>2, Zenon DEF Finished, Found
  <1>4. CASE Reachable(d) /\ target.on[d] # "NONE" /\ ValidComrade(target.on[d])
    <2>1. /\ comrades' = link_comrade(d)
          /\ mtype' = IF mtype = "UNKNOWN" THEN target.on[d] ELSE mtype
      BY <1>4, Zenon DEF merge_lookup_work_func
    <2>2. d \notin Got
      BY <1>1, Zenon DEF List
    <2>3. /\ comrades' \in Seq(Devs) /\ Len(comrades') = Len(comrades) + 1
          /\ Got' = Got \cup {d}
          /\ \A i, j \in 1 .. Len(comrades') : comrades'[i] = comrades'[j] => i = j
          /\ 0 \in Got' => comrades'[1] = 0
      BY <1>1, <2>1, <2>2, Linked, ZenonT(30) DEF List, Types
    <2>4. List'
      BY <1>1, <2>3, ZenonT(30) DEF List
    <2>5. /\ target.on[d] = mtype' /\ mtype' \in {"DIR", "REG"}
          /\ mtype' = mtype \/ (mtype = "UNKNOWN" /\ comrades = <<>>)
          /\ mtype' = "REG" => comrades = <<>>
      BY <1>1, <1>4, <2>1, ZenonT(30) DEF ValidComrade, Kinds, Found
    <2>6. mtype' = "DIR" => \A e \in Finished' : Reachable(e)' /\ target'.on[e] = "DIR" => e \in Got'
      <3> SUFFICES ASSUME mtype' = "DIR", NEW e \in Finished, Reachable(e)', target.on[e] = "DIR"
                   PROVE  e \in Got
        BY <1>1, <1>3, <2>3, ZenonT(30)
      <3>1. e \in Devs
        BY <1>1 DEF Types, Finished, Asked, Decorations, Plain, ConfDir, ConfReg
      <3> QED
        BY <1>1, <1>2, <2>5, <3>1, ZenonT(30) DEF Found
    <2>7. Len(comrades') >= 1 /\ comrades' # <<>> /\ (comrades = <<>> => Len(comrades') = 1)
      BY <1>1, <2>3 DEF Types
    <2>8. \A e \in Got : comrades # <<>>
      BY DEF Got, Range
    <2>9. \A e \in Got' : e \in Asked' /\ target'.on[e] = mtype'
      BY <1>1, <1>2, <1>3, <2>3, <2>5, <2>8, ZenonT(30) DEF Found
    <2>10. Found'
      BY <1>1, <1>2, <2>5, <2>6, <2>7, <2>9, ZenonT(30) DEF Found
    <2>11. Types'
      BY <1>1, <2>3, <2>5, ZenonT(30) DEF Types
    <2> QED
      BY <1>1, <2>4, <2>10, <2>11, ZenonT(30) DEF LInv
  <1>5. CASE ~(Reachable(d) /\ target.on[d] # "NONE" /\ ValidComrade(target.on[d]))
    <2>1. UNCHANGED <<comrades, mtype>> /\ Got' = Got
      BY <1>5, Zenon DEF merge_lookup_work_func, Got
    <2>2. List' /\ Types'
      BY <1>1, <2>1, Zenon DEF List, Types
    <2>3. \A e \in Finished : e \in Devs
      BY <1>1 DEF Types, Finished, Asked, Decorations, Plain, ConfDir, ConfReg
    <2>4. Found'
      BY <1>1, <1>2, <1>3, <1>5, <2>1, <2>3, Zenon DEF Found, ValidComrade, Kinds
    <2> QED
      BY <1>1, <2>2, <2>4, ZenonT(30) DEF LInv
  <1> QED
    BY <1>4, <1>5, ZenonT(30)

(* Every step.                                                             *)
LEMMA NextLInv == LInv /\ [Next]_vars => LInv'
  <1> SUFFICES ASSUME LInv, [Next]_vars PROVE LInv'
    BY Zenon
  <1>1. ASSUME NEW d \in Devs, merge_lookup_work_func(d) PROVE LInv'
    BY <1>1, WorkLInv, Zenon
  <1>2. CASE hmdfs_lookup_merge
    <2>1. PICK deco \in Decorations : StartLookup(dirKind, deco)
      BY <1>2, Zenon DEF hmdfs_lookup_merge, Decorations
    <2>2. UNCHANGED <<dirKind, kind>> /\ pc' = "wait" /\ Types
      BY <1>2, Zenon DEF hmdfs_lookup_merge, dirs, LInv
    <2> QED
      BY <2>1, <2>2, StartLInv, ZenonT(30) DEF LInv, Types
  <1>3. CASE LookupListed
    <2>1. PICK s \in Shown : StartLookup([d \in Devs |-> kind[d][s[1]]], s[2])
      BY <1>3, Zenon DEF LookupListed
    <2>2. UNCHANGED <<dirKind, kind>> /\ pc' = "resolve" /\ Types
      BY <1>3, Zenon DEF LookupListed, dirs, LInv
    <2>3. [d \in Devs |-> kind[d][s[1]]] \in [Devs -> Kinds] /\ s[2] \in Decorations
      BY <2>2, Zenon DEF Shown, Types
    <2> QED
      BY <2>1, <2>2, <2>3, StartLInv, ZenonT(30) DEF LInv, Types
  <1>4. CASE PeerOffline
    <2>1. UNCHANGED <<dirKind, kind, pc, target, mtype, works, comrades>> /\ online' \subseteq online
      BY <1>4, Zenon DEF PeerOffline, dirs, mdi
    <2>2. Asked' = Asked /\ Finished' = Finished /\ Got' = Got
      BY <2>1, Zenon DEF Asked, Finished, Got
    <2>3. \A d \in Asked : Reachable(d)' => Reachable(d)
      BY <2>1, Zenon DEF Reachable
    <2>4. Types' /\ List'
      BY <2>1, <2>2, Zenon DEF LInv, Types, List
    <2>5. Found => Found'
      BY <2>1, <2>2, <2>3, ZenonT(30) DEF Found, Finished
    <2> QED
      BY <2>1, <2>4, <2>5, ZenonT(30) DEF LInv
  <1>5. CASE \/ LookupReturn \/ hmdfs_dir_open_merge \/ hmdfs_iterate_merge \/ hmdfs_iterate_remote
             \/ hmdfs_actor_merge \/ LowerExhausted \/ LowerFails \/ LeaveDevice
             \/ UNCHANGED vars
    <2>1. UNCHANGED <<dirs, online, mdi>>
      <3>1. CASE \/ LookupReturn \/ hmdfs_dir_open_merge \/ hmdfs_iterate_merge
                 \/ hmdfs_iterate_remote
        BY <3>1, Zenon DEF LookupReturn, hmdfs_dir_open_merge, hmdfs_iterate_merge,
           hmdfs_iterate_remote, peer, Fails
      <3>2. CASE hmdfs_actor_merge
        BY <3>2, Zenon DEF hmdfs_actor_merge, MergeEntry, EmitEntry, BufferFull, LoseEntry,
           peer, Fails
      <3>3. CASE LowerExhausted \/ LowerFails \/ LeaveDevice \/ UNCHANGED vars
        BY <3>3, Zenon DEF LowerExhausted, LowerFails, LeaveDevice, vars, peer, Fails
      <3> QED
        BY <1>5, <3>1, <3>2, <3>3, ZenonT(30)
    <2>2. /\ pc' = pc \/ (pc # "start" /\ (pc \in {"wait", "resolve"} => works = {}))
          /\ pc' = "start" => pc = "start"
          /\ pc' \in {"wait", "resolve"} => pc \in {"wait", "resolve"}
      <3>1. CASE LookupReturn
        BY <3>1, Zenon DEF LookupReturn, is_merge_lookup_end
      <3>2. CASE hmdfs_dir_open_merge \/ hmdfs_iterate_merge \/ hmdfs_iterate_remote
        BY <3>2, Zenon DEF hmdfs_dir_open_merge, hmdfs_iterate_merge, hmdfs_iterate_remote
      <3>3. CASE hmdfs_actor_merge \/ LowerExhausted \/ LowerFails
        BY <3>3, Zenon DEF hmdfs_actor_merge, MergeEntry, EmitEntry, BufferFull, LoseEntry,
           ActorStops, LowerExhausted, LowerFails, call
      <3>4. CASE LeaveDevice
        BY <3>4, Zenon DEF LeaveDevice, GetdentsReturns
      <3>5. CASE UNCHANGED vars
        BY <3>5, Zenon DEF vars
      <3> QED
        BY <1>5, <3>1, <3>2, <3>3, <3>4, <3>5, ZenonT(30)
    <2>3. Asked' = Asked /\ Finished' = Finished /\ Got' = Got
      BY <2>1, Zenon DEF Asked, Finished, Got, mdi
    <2>4. Types' /\ List'
      BY <2>1, <2>3, Zenon DEF LInv, Types, List, dirs, mdi
    <2>5. Found => Found'
      BY <2>1, <2>3, Zenon DEF Found, Reachable, mdi
    <2>6. pc' \notin {"wait", "resolve"} => works' = {}
      BY <2>1, <2>2, Zenon DEF LInv, mdi
    <2>7. pc' # "start" => pc # "start"
      BY <2>2, Zenon
    <2> QED
      BY <2>4, <2>5, <2>6, <2>7, ZenonT(30) DEF LInv
  <1> QED
    BY <1>1, <1>2, <1>3, <1>4, <1>5, ZenonT(30) DEF Next

(* Nothing has been looked up yet.                                         *)
LEMMA InitLInv == Init => LInv
  <1> SUFFICES ASSUME Init PROVE LInv
    BY Zenon
  <1>1. Types
    <2>1. dirKind \in [Devs -> Kinds]
      BY DirKindsAssumption, Zenon DEF Init, Kinds
    <2>2. target.on = dirKind /\ target.deco = Plain /\ Plain \in Decorations
      BY Zenon DEF Init, Decorations
    <2>3. comrades \in Seq(Devs) /\ works \subseteq Devs /\ kind \in [Devs -> [NameSet -> Kinds]]
      BY DEF Init
    <2>4. mtype \in {"UNKNOWN", "DIR", "REG"}
      BY Zenon DEF Init
    <2> QED
      BY <2>1, <2>2, <2>3, <2>4, ZenonT(30) DEF Types
  <1>2. Got = {}
    BY DEF Init, Got, Range
  <1>3. List
    BY <1>2 DEF Init, List
  <1> QED
    BY <1>1, <1>3, Zenon DEF Init, LInv

(* A list without repetitions is as long as its set is large.              *)
LEMMA ListCount ==
  ASSUME LInv
  PROVE  Cardinality(Got) = Len(comrades)
  <1>1. comrades \in Seq(Devs) /\ \A i, j \in 1 .. Len(comrades) : comrades[i] = comrades[j] => i = j
    BY Zenon DEF LInv, Types, List
  <1>2. Got = {comrades[i] : i \in 1 .. Len(comrades)} /\ Len(comrades) \in Nat
    BY <1>1 DEF Got, Range
  <1>3. comrades \in Bijection(1 .. Len(comrades), Got)
    BY <1>1, <1>2 DEF Bijection, Injection, Surjection, IsInjective
  <1>4. ExistsBijection(1 .. Len(comrades), Got)
    BY <1>3, Zenon DEF ExistsBijection
  <1> QED
    BY <1>2, <1>4, FS_CountingElements, Zenon

(* In whatever order the works of a lookup finish, and whoever goes off    *)
(* line meanwhile, it returns the directories of all reachable devices, or *)
(* one file, and never a mixture (merge_lookup_work_func,                  *)
(* is_valid_comrade, link_comrade): for any number of devices.             *)
THEOREM LookupSafe == Spec => []LookupExact
  <1>1. LInv => LookupExact
    <2> SUFFICES ASSUME LInv, Returned PROVE LookupExact
      BY Zenon DEF LookupExact
    <2>1. works = {} /\ Found /\ List /\ Types
      BY Zenon DEF LInv, Returned
    <2>2. Finished = Asked
      BY <2>1, Zenon DEF Finished
    <2>3. Cardinality(Range(comrades)) = Len(comrades)
      BY ListCount, Zenon DEF Got
    <2>4. Range(comrades) \subseteq {d \in Asked : target.on[d] = mtype}
      BY <2>1, Zenon DEF Found, Got
    <2>5. mtype = "DIR" => {d \in {d \in Asked : target.on[d] = "DIR"} : Reachable(d)} \subseteq Range(comrades)
      BY <2>1, <2>2, Zenon DEF Found, Got
    <2>6. mtype = "REG" => Len(comrades) <= 1
      BY <2>1, Zenon DEF Found
    <2>7. comrades = <<>> =>
            IF mtype = "UNKNOWN"
            THEN {d \in {d \in Asked : target.on[d] = "DIR"} : Reachable(d)}
                   \cup {d \in {d \in Asked : target.on[d] = "REG"} : Reachable(d)} = {}
            ELSE {d \in {d \in Asked : target.on[d] = mtype} : Reachable(d)} = {}
      <3>1. comrades = <<>> => Got = {}
        BY DEF Got, Range
      <3> QED
        BY <2>1, <2>2, <3>1, ZenonT(30) DEF Found, Types
    <2>8. In(0, comrades) => comrades[1] = 0
      BY <2>1, Zenon DEF List, In, Got
    <2> QED
      BY <2>3, <2>4, <2>5, <2>6, <2>7, <2>8, ZenonT(30) DEF LookupExact
  <1> QED
    BY <1>1, InitLInv, NextLInv, PTL DEF Spec

(***************************************************************************)
(* Listing: the list of open lower files and what the walk has done to it. *)
(***************************************************************************)

(* The types of what a listing uses.                                       *)
LTypes ==
  /\ pc \in {"start", "wait", "found", "nodir", "open", "enter", "walk", "leave", "stop",
             "ended", "resolve", "done"}
  /\ fis \in Seq(Devs) /\ cur \in Devs \cup {-1}
  /\ pos \in [Devs -> 1 .. Len(Names) + 1]
  /\ tree \in [NameSet -> Kinds] /\ listed \in [Shown -> Nat]
  /\ skipped \subseteq Devs
  /\ room \in Nat /\ sent \in Nat /\ result \in BOOLEAN /\ eof \in BOOLEAN

(* Each device has one open lower file, this device's comes first.         *)
Files ==
  /\ \A i, j \in 1 .. Len(fis) : fis[i] = fis[j] => i = j
  /\ \A i \in 1 .. Len(fis) : fis[i] = 0 => i = 1

(* Nothing has been read from the handle yet.                              *)
Untouched ==
  /\ cur = 0 /\ ~eof /\ skipped = {}
  /\ \A d \in Devs : pos[d] = 1
  /\ \A n \in NameSet : tree[n] = "NONE"
  /\ \A s \in Shown : listed[s] = 0

(* Device d has nothing more to give, or something of it was left out.     *)
Drained(d) == Ahead(d) = {} \/ d \in skipped

(* The walk has got to cur: the devices in front of it are drained, those  *)
(* behind it are untouched.                                                *)
Reached(c) ==
  \E k \in 1 .. Len(fis) :
    /\ fis[k] = c
    /\ \A i \in 1 .. k - 1 : Drained(fis[i])
    /\ \A i \in k + 1 .. Len(fis) : pos[fis[i]] = 1

(* The first device, before anything has been read.                        *)
Fresh(c) ==
  /\ c = fis[1] /\ pos[c] = 1
  /\ \A n \in NameSet : tree[n] = "NONE"

(* The next entry of device c did not fit into a buffer, or something of c *)
(* was left out.                                                           *)
Held(c) ==
  \/ c \in skipped
  \/ \E i \in Ahead(c) : (\A j \in Ahead(c) : i <= j) /\ ~Merged(c, Names[i])

(* Where the walk is.                                                      *)
Walk ==
  /\ pc \in {"start", "wait", "found"} => Untouched /\ fis = <<>>
  /\ pc = "open" =>
       /\ fis # <<>>
       /\ \/ Untouched
          \/ eof /\ \A i \in 1 .. Len(fis) : Drained(fis[i])
          \/ ~eof /\ Reached(cur) /\ Held(cur)
  /\ pc \in {"enter", "walk"} =>
       /\ ~eof /\ Reached(cur) /\ room + sent > 0
       /\ sent = 0 => ~result /\ (Fresh(cur) \/ Held(cur))
       /\ sent > 0 => result
  /\ pc = "leave" =>
       /\ ~eof /\ Reached(cur) /\ (sent > 0 \/ ~result)
       /\ \/ Drained(cur) /\ (result <=> sent > 0)
          \/ ~result /\ sent > 0 /\ Held(cur)
       /\ sent = 0 => \/ cur \in skipped
                      \/ cur = fis[1] /\ \A n \in NameSet : kind[cur][n] = "NONE"
  /\ pc = "stop" =>
       /\ ~eof /\ Reached(cur) /\ Held(cur)
       /\ sent = 0 => cur \in skipped
  /\ pc = "ended" =>
       \/ eof /\ \A i \in 1 .. Len(fis) : Drained(fis[i])
       \/ /\ ~eof /\ Reached(cur) /\ Drained(cur)
          /\ \/ cur \in skipped
             \/ cur = fis[1] /\ \A n \in NameSet : kind[cur][n] = "NONE"

(* What the listing shows of name n, the entries of the devices in P       *)
(* having been walked over and given a name of their own.                  *)
Listing(n, P) ==
  /\ \A d \in P : kind[d][n] # "NONE"
  /\ \A i \in 1 .. Len(Names) : Names[i] = n =>
       /\ \A d \in P : d \in Range(fis) /\ i < pos[d]
       /\ \A d \in Range(fis) \ skipped : i < pos[d] /\ kind[d][n] # "NONE" => d \in P
  /\ tree[n] = "NONE" <=> P = {}
  /\ tree[n] = "DIR" <=> \E d \in P : kind[d][n] = "DIR"
  /\ listed[<<n, Plain>>] > 0 <=> P # {}
  /\ listed[<<n, Plain>>] <= 1 \/ \E d \in skipped : kind[d][n] = "REG"
  /\ listed[<<n, ConfDir>>] <= 1
  /\ listed[<<n, ConfDir>>] > 0 => tree[n] = "DIR"
  /\ \A d \in Devs : /\ listed[<<n, ConfReg(d)>>] <= 1
                     /\ listed[<<n, ConfReg(d)>>] > 0 => d \in P /\ kind[d][n] = "REG"
  /\ ShownOf(n) = Objects(n, P)

(* The name of a lookup of a listed name is somewhere, as it says.         *)
Somewhere ==
  pc \in {"resolve", "done"} =>
    /\ target.deco = Plain => \E d \in Devs : target.on[d] # "NONE"
    /\ target.deco = ConfDir => \E d \in Devs : target.on[d] = "DIR"
    /\ target.deco[1] = "reg" => target.deco[2] \in Devs /\ target.on[target.deco[2]] = "REG"

(* What the decoration of a name asks for, the lookup keeps to.            *)
Kept ==
  /\ offs = 0 => online = Peers
  /\ offs \in Nat
  /\ pc # "start" /\ target.deco # Plain => mtype = TypeOfName(target.deco)

(* Every name is listed as the entries walked over say.                    *)
Listings == \A n \in NameSet : \E P \in SUBSET Devs : Listing(n, P)

WInv ==
  /\ LTypes /\ Files /\ Walk /\ Somewhere /\ Kept
  /\ Listings

-----------------------------------------------------------------------------
(* The names of a directory, each at one place.                            *)
LEMMA NameFacts ==
  /\ Len(Names) \in Nat
  /\ \A i \in 1 .. Len(Names) : Names[i] \in NameSet
  /\ \A n \in NameSet : \E i \in 1 .. Len(Names) : Names[i] = n
  /\ \A i, j \in 1 .. Len(Names) : Names[i] = Names[j] => i = j
  <1>1. Names \in Seq(STRING) /\ IsInjective(Names)
    BY NamesAssumption, Zenon
  <1>2. DOMAIN Names = 1 .. Len(Names) /\ Len(Names) \in Nat
    BY <1>1
  <1> QED
    BY <1>1, <1>2, ZenonT(30) DEF NameSet, Range, IsInjective

(* Device ids.                                                             *)
LEMMA DevFacts == IsFiniteSet(Devs) /\ 0 \in Devs /\ -1 \notin Devs /\ Devs \subseteq Nat
  <1>1. IsFiniteSet(Devs)
    BY PeersAssumption, FS_Singleton, FS_Union, ZenonT(30) DEF Devs
  <1> QED
    BY <1>1, PeersAssumption DEF Devs

(* The decorations of a name differ.                                       *)
LEMMA DecoFacts ==
  /\ Plain \in Decorations /\ ConfDir \in Decorations /\ Plain # ConfDir
  /\ \A d \in Devs : ConfReg(d) \in Decorations /\ ConfReg(d) # Plain /\ ConfReg(d) # ConfDir
  /\ \A d, e \in Devs : ConfReg(d) = ConfReg(e) => d = e
  /\ \A x \in Decorations : x = Plain \/ x = ConfDir \/ \E d \in Devs : x = ConfReg(d)
  /\ \A d \in Devs : ConfReg(d)[1] = "reg" /\ ConfReg(d)[2] = d
  /\ Plain[1] = "plain" /\ ConfDir[1] = "dir"
  /\ \A x \in Decorations : x # Plain => x[1] \in {"dir", "reg"}
  BY DEF Decorations, Plain, ConfDir, ConfReg

LEMMA DecorationsFinite == IsFiniteSet(Decorations)
  <1>1. IsFiniteSet({ConfReg(d) : d \in Devs})
    <2>1. IsFiniteSet(Devs)
      BY DevFacts, Zenon
    <2>2. [d \in Devs |-> ConfReg(d)] \in Surjection(Devs, {ConfReg(d) : d \in Devs})
      BY Zenon DEF Surjection
    <2> QED
      BY <2>1, <2>2, FS_Surjection, Zenon
  <1>2. IsFiniteSet({Plain} \cup {ConfDir})
    BY FS_Singleton, FS_Union, ZenonT(30)
  <1>3. Decorations = ({Plain} \cup {ConfDir}) \cup {ConfReg(d) : d \in Devs}
    BY Zenon DEF Decorations
  <1> QED
    BY <1>1, <1>2, <1>3, FS_Union, Zenon

(* Counting objects: an entry of a device not counted yet adds one, unless *)
(* it is a directory and there is one already; fewer devices, fewer        *)
(* objects.                                                                *)
Regs(n, D) == {d \in D : kind[d][n] = "REG"}
DirCount(n, D) == IF \E d \in D : kind[d][n] = "DIR" THEN 1 ELSE 0

LEMMA ObjectsIs ==
  ASSUME NEW n, NEW P \in SUBSET Devs
  PROVE  /\ Objects(n, P) = Cardinality(Regs(n, P)) + DirCount(n, P)
         /\ IsFiniteSet(Regs(n, P)) /\ Cardinality(Regs(n, P)) \in Nat
         /\ DirCount(n, P) \in {0, 1}
  <1>1. IsFiniteSet(Regs(n, P))
    BY DevFacts, FS_Subset, ZenonT(30) DEF Regs
  <1>2. Cardinality(Regs(n, P)) \in Nat
    BY <1>1, FS_CardinalityType, ZenonT(30)
  <1> QED
    BY <1>1, <1>2, ZenonT(30) DEF Objects, Regs, DirCount

LEMMA ObjectsMore ==
  ASSUME NEW n, NEW P \in SUBSET Devs, NEW Q \in SUBSET Devs,
         \A d \in P : kind[d][n] # "NONE" => d \in Q
  PROVE  Objects(n, P) <= Objects(n, Q)
  <1>1. Regs(n, P) \subseteq Regs(n, Q) /\ DirCount(n, P) <= DirCount(n, Q)
    BY DEF Regs, DirCount
  <1>2. Cardinality(Regs(n, P)) <= Cardinality(Regs(n, Q))
    BY <1>1, ObjectsIs, FS_Subset, ZenonT(30)
  <1> QED
    BY <1>1, <1>2, ObjectsIs

LEMMA ObjectsAdd ==
  ASSUME NEW n, NEW P \in SUBSET Devs, NEW d \in Devs \ P, kind[d][n] \in {"REG", "DIR"}
  PROVE  Objects(n, P \cup {d}) = Objects(n, P)
           + IF kind[d][n] = "DIR" /\ (\E e \in P : kind[e][n] = "DIR") THEN 0 ELSE 1
  <1>0. P \cup {d} \in SUBSET Devs
    BY Zenon
  <1>1. CASE kind[d][n] = "REG"
    <2>1. /\ Regs(n, P \cup {d}) = Regs(n, P) \cup {d} /\ d \notin Regs(n, P)
          /\ DirCount(n, P \cup {d}) = DirCount(n, P)
      BY <1>1, Zenon DEF Regs, DirCount
    <2>2. Cardinality(Regs(n, P \cup {d})) = Cardinality(Regs(n, P)) + 1
      <3>1. IsFiniteSet(Regs(n, P))
        BY ObjectsIs, Zenon
      <3> QED
        BY <2>1, <3>1, FS_AddElement, Zenon
    <2> QED
      BY <1>0, <1>1, <2>1, <2>2, ObjectsIs
  <1>2. CASE kind[d][n] = "DIR"
    <2>1. /\ Regs(n, P \cup {d}) = Regs(n, P) /\ DirCount(n, P \cup {d}) = 1
          /\ DirCount(n, P) = IF \E e \in P : kind[e][n] = "DIR" THEN 1 ELSE 0
      BY <1>2, Zenon DEF Regs, DirCount
    <2> QED
      BY <1>0, <1>2, <2>1, ObjectsIs
  <1> QED
    BY <1>1, <1>2, ZenonT(30)

-----------------------------------------------------------------------------
(* What a step that leaves the handle and the directories alone keeps.     *)
LEMMA SameHandle ==
  ASSUME UNCHANGED <<kind, fis, cur, pos, eof, tree, listed, skipped>>
  PROVE  /\ Files' <=> Files
         /\ Untouched' <=> Untouched
         /\ Listings' <=> Listings
         /\ Reached(cur)' <=> Reached(cur)
         /\ Held(cur)' <=> Held(cur)
         /\ Fresh(cur)' <=> Fresh(cur)
         /\ \A d : Drained(d)' <=> Drained(d)
  <1>1. \A d : Ahead(d)' = Ahead(d)
    BY Zenon DEF Ahead
  <1>2. \A d, n : Merged(d, n)' <=> Merged(d, n)
    BY Zenon DEF Merged
  <1>3. \A n, P : Listing(n, P)' <=> Listing(n, P)
    BY DEF Listing, ShownOf, Objects
  <1>4. \A d : Drained(d)' <=> Drained(d)
    BY <1>1, Zenon DEF Drained
  <1>5. Reached(cur)' <=> Reached(cur)
    BY <1>4, Zenon DEF Reached
  <1>6. Held(cur)' <=> Held(cur)
    BY <1>1, <1>2, Zenon DEF Held
  <1> QED
    BY <1>3, <1>4, <1>5, <1>6, Zenon DEF Files, Untouched, Listings, Fresh

(* A lookup, its works and a peer that goes off line leave the handle      *)
(* alone.                                                                  *)
LEMMA LookupWInv ==
  ASSUME LInv, WInv,
         \/ hmdfs_lookup_merge \/ LookupReturn \/ PeerOffline \/ UNCHANGED vars
         \/ \E d \in Devs : merge_lookup_work_func(d)
  PROVE  WInv'
  <1>1. UNCHANGED <<kind, fis, cur, pos, eof, tree, listed, skipped, result, room, sent>>
    BY Zenon DEF hmdfs_lookup_merge, LookupReturn, PeerOffline, vars, merge_lookup_work_func,
       dirs, head, call
  <1>2. \/ pc' = pc
        \/ pc = "start" /\ pc' = "wait"
        \/ pc = "wait" /\ pc' \in {"found", "nodir"}
        \/ pc = "resolve" /\ pc' = "done"
    BY Zenon DEF hmdfs_lookup_merge, LookupReturn, PeerOffline, vars, merge_lookup_work_func
  <1>3. LTypes' /\ Files' /\ Listings'
    BY <1>1, <1>2, SameHandle, ZenonT(30) DEF WInv, LTypes
  <1>4. Walk'
    <2>1. CASE pc' = pc
      BY <1>1, <2>1, SameHandle, ZenonT(30) DEF WInv, Walk
    <2>2. CASE pc' # pc
      BY <1>1, <1>2, <2>2, SameHandle, ZenonT(30) DEF WInv, Walk
    <2> QED
      BY <2>1, <2>2, ZenonT(30)
  <1>5. Somewhere' /\ Kept'
    <2>1. CASE hmdfs_lookup_merge
      <3>1. PICK deco \in {Plain, ConfDir} : StartLookup(dirKind, deco)
        BY <2>1, Zenon DEF hmdfs_lookup_merge
      <3>2. target'.deco = deco /\ mtype' = TypeOfName(deco) /\ UNCHANGED <<online, offs>> /\ pc' = "wait"
        BY <2>1, <3>1, ZenonT(30) DEF StartLookup, hmdfs_lookup_merge, peer
      <3> QED
        BY <3>2, ZenonT(30) DEF WInv, Somewhere, Kept
    <2>2. CASE \E d \in Devs : merge_lookup_work_func(d)
      <3>1. UNCHANGED <<online, offs, pc, target>>
        BY <2>2, Zenon DEF merge_lookup_work_func, peer
      <3>2. mtype' = mtype \/ mtype = "UNKNOWN"
        BY <2>2, Zenon DEF merge_lookup_work_func
      <3>3. pc # "start"
        BY <2>2, Zenon DEF merge_lookup_work_func, LInv
      <3>4. target.deco # Plain => TypeOfName(target.deco) # "UNKNOWN"
        <4>0. target.deco \in Decorations
          BY Zenon DEF LInv, Types
        <4>1. target.deco # Plain => target.deco[1] \in {"dir", "reg"}
          BY <4>0, DecoFacts, ZenonT(30)
        <4> QED
          BY <4>1, Zenon DEF TypeOfName
      <3> QED
        BY <3>1, <3>2, <3>3, <3>4, ZenonT(30) DEF WInv, Somewhere, Kept
    <2>3. CASE PeerOffline
      <3>1. UNCHANGED <<pc, target, mtype>> /\ offs' = offs + 1
        BY <2>3, Zenon DEF PeerOffline, mdi
      <3>2. offs' \in Nat /\ offs' # 0
        BY <3>1 DEF WInv, Kept
      <3> QED
        BY <3>1, <3>2, ZenonT(30) DEF WInv, Somewhere, Kept
    <2>4. CASE LookupReturn \/ UNCHANGED vars
      <3>1. UNCHANGED <<online, offs, target, mtype>>
        BY <2>4, Zenon DEF LookupReturn, vars, mdi, peer
      <3> QED
        BY <1>2, <2>4, <3>1, ZenonT(30) DEF WInv, Somewhere, Kept, LookupReturn, vars
    <2> QED
      BY <2>1, <2>2, <2>3, <2>4, ZenonT(30)
  <1> QED
    BY <1>3, <1>4, <1>5, ZenonT(30) DEF WInv

(* The steps of a listing leave the lookup alone.                          *)
LEMMA TargetKept ==
  ASSUME WInv, UNCHANGED <<online, offs, mdi>>, pc' \notin {"start", "resolve", "done"}, pc # "start"
  PROVE  Somewhere' /\ Kept'
  BY Zenon DEF WInv, Somewhere, Kept, mdi

(* The walk of names that nothing has been read of.                        *)
LEMMA NothingListed == Untouched /\ fis \in Seq(Devs) => Listings
  <1> SUFFICES ASSUME Untouched, fis \in Seq(Devs), NEW n \in NameSet
               PROVE  Listing(n, {})
    BY Zenon DEF Listings
  <1>1. \A x \in Decorations : listed[<<n, x>>] = 0
    BY Zenon DEF Untouched, Shown
  <1>2. ShownOf(n) = 0
    <2>1. {x \in Decorations : listed[<<n, x>>] > 0} = {}
      BY <1>1
    <2> QED
      BY <2>1, FS_EmptySet, ZenonT(30) DEF ShownOf
  <1>3. Objects(n, {}) = 0
    <2>1. {d \in {} : kind[d][n] = "REG"} = {}
      BY Zenon
    <2> QED
      BY <2>1, FS_EmptySet DEF Objects
  <1>4. \A d \in Range(fis) : pos[d] = 1
    BY DEF Range, Untouched
  <1>5. \A i \in 1 .. Len(Names) : ~(i < 1)
    BY NameFacts
  <1>6. tree[n] = "NONE"
    BY Zenon DEF Untouched
  <1>7. /\ listed[<<n, Plain>>] = 0 /\ listed[<<n, ConfDir>>] = 0
        /\ \A d \in Devs : listed[<<n, ConfReg(d)>>] = 0
    BY <1>1, DecoFacts, Zenon
  <1> QED
    BY <1>2, <1>3, <1>4, <1>5, <1>6, <1>7 DEF Listing

(* The directory is opened: the comrades keep their order.                 *)
LEMMA OpenWInv ==
  ASSUME LInv, WInv, hmdfs_dir_open_merge
  PROVE  WInv'
  <1>1. PICK S \in SUBSET Range(comrades) : fis' \in Sublists(comrades, S)
    BY Zenon DEF hmdfs_dir_open_merge
  <1>2. /\ UNCHANGED <<kind, online, offs, mdi, cur, pos, eof, tree, listed, skipped, result, room, sent>>
        /\ pc = "found" /\ pc' = IF fis' = <<>> THEN "nodir" ELSE "open"
    BY Zenon DEF hmdfs_dir_open_merge, dirs, peer, call
  <1>3. /\ comrades \in Seq(Devs)
        /\ \A k, l \in 1 .. Len(comrades) : comrades[k] = comrades[l] => k = l
        /\ \A k \in 1 .. Len(comrades) : comrades[k] = 0 => comrades[1] = 0
    BY DEF LInv, Types, List, Got, Range
  <1>4. S \subseteq Devs /\ Cardinality(S) \in Nat
    <2>1. Range(comrades) \subseteq Devs
      BY <1>3 DEF Range
    <2>2. IsFiniteSet(S)
      BY <2>1, DevFacts, FS_Subset, Zenon
    <2> QED
      BY <2>1, <2>2, FS_CardinalityType, Zenon
  <1>5. fis' \in [1 .. Cardinality(S) -> S]
    BY <1>1, ZenonT(30) DEF Sublists
  <1>6. fis' \in Seq(Devs) /\ Len(fis') = Cardinality(S)
    BY <1>4, <1>5
  <1>7. \A i, j \in 1 .. Len(fis') : i < j =>
          \E k, l \in 1 .. Len(comrades) : k < l /\ comrades[k] = fis'[i] /\ comrades[l] = fis'[j]
    <2>1. \A i, j \in 1 .. Cardinality(S) : i < j =>
            \E k, l \in 1 .. Len(comrades) : k < l /\ comrades[k] = fis'[i] /\ comrades[l] = fis'[j]
      BY <1>1, ZenonT(30) DEF Sublists
    <2> TAKE i, j \in 1 .. Len(fis')
    <2> HAVE i < j
    <2>2. i \in 1 .. Cardinality(S) /\ j \in 1 .. Cardinality(S)
      BY <1>6, Zenon
    <2> QED
      BY <2>1, <2>2, ZenonT(30)
  <1>8. Files'
    <2>1. ASSUME NEW i \in 1 .. Len(fis'), NEW j \in 1 .. Len(fis'), fis'[i] = fis'[j], i < j
          PROVE  FALSE
      <3>1. PICK k \in 1 .. Len(comrades), l \in 1 .. Len(comrades) :
              k < l /\ comrades[k] = fis'[i] /\ comrades[l] = fis'[j]
        BY <1>7, <2>1, ZenonT(30)
      <3>2. k = l
        BY <1>3, <2>1, <3>1, ZenonT(30)
      <3> QED
        BY <3>1, <3>2
    <2>2. ASSUME NEW i \in 1 .. Len(fis'), fis'[i] = 0, i # 1
          PROVE  FALSE
      <3>1. 1 \in 1 .. Len(fis') /\ 1 < i
        BY <1>6, <2>2
      <3>2. PICK k \in 1 .. Len(comrades), l \in 1 .. Len(comrades) :
              k < l /\ comrades[k] = fis'[1] /\ comrades[l] = fis'[i]
        BY <1>7, <3>1, ZenonT(30)
      <3>3. 1 \in 1 .. Len(comrades) /\ comrades[l] = comrades[1]
        BY <1>3, <2>2, <3>2
      <3>4. l = 1
        BY <1>3, <3>3, Zenon
      <3> QED
        BY <3>2, <3>4
    <2>3. \A i, j \in 1 .. Len(fis') : i < j \/ j < i \/ i = j
      BY <1>6
    <2> QED
      BY <2>1, <2>2, <2>3, ZenonT(30) DEF Files
  <1>9. Untouched /\ Untouched'
    <2>1. Untouched
      BY <1>2, ZenonT(30) DEF WInv, Walk
    <2> QED
      BY <1>2, <2>1, ZenonT(30) DEF Untouched
  <1>10. Walk'
    BY <1>2, <1>9, ZenonT(30) DEF Walk
  <1>11. Listings'
    <2>1. (Untouched /\ fis \in Seq(Devs))'
      BY <1>6, <1>9, ZenonT(30)
    <2> QED
      BY <2>1, NothingListed, PTL
  <1>12. LTypes'
    BY <1>2, <1>6, ZenonT(30) DEF WInv, LTypes
  <1>13. Somewhere' /\ Kept'
    BY <1>2, TargetKept, ZenonT(30)
  <1> QED
    BY <1>8, <1>10, <1>11, <1>12, <1>13, ZenonT(30) DEF WInv

(* The handle is released, and a name it has shown is looked up.           *)
LEMMA ListedWInv ==
  ASSUME LInv, WInv, LookupListed
  PROVE  WInv'
  <1>1. PICK s \in Shown : listed[s] > 0 /\ StartLookup([d \in Devs |-> kind[d][s[1]]], s[2])
    BY Zenon DEF LookupListed
  <1>2. /\ UNCHANGED <<kind, peer, result, room, sent>> /\ pc = "ended" /\ pc' = "resolve"
        /\ hmdfs_dir_release_merge
    BY Zenon DEF LookupListed, dirs, call
  <1>3. PICK n \in NameSet, x \in Decorations : s = <<n, x>>
    BY DEF Shown
  <1>4. PICK P \in SUBSET Devs : Listing(n, P)
    BY <1>3, ZenonT(30) DEF WInv, Listings
  <1>5. /\ target'.deco = x /\ mtype' = TypeOfName(x)
        /\ target'.on = [d \in Devs |-> kind[d][n]]
    BY <1>1, <1>3, ZenonT(30) DEF StartLookup
  <1>6. Somewhere'
    <2>1. x = Plain => \E d \in Devs : kind[d][n] # "NONE"
      BY <1>1, <1>3, <1>4, Zenon DEF Listing
    <2>2. x = ConfDir => \E d \in Devs : kind[d][n] = "DIR"
      BY <1>1, <1>3, <1>4, Zenon DEF Listing
    <2>3. ASSUME NEW d \in Devs, x = ConfReg(d) PROVE kind[d][n] = "REG"
      BY <1>1, <1>3, <1>4, <2>3, Zenon DEF Listing
    <2>4. x[1] = "reg" => x[2] \in Devs /\ kind[x[2]][n] = "REG"
      <3>1. CASE x = Plain \/ x = ConfDir
        BY <3>1, DecoFacts, ZenonT(30)
      <3>2. ASSUME NEW d \in Devs, x = ConfReg(d) PROVE x[2] \in Devs /\ kind[x[2]][n] = "REG"
        BY <2>3, <3>2, DecoFacts, ZenonT(30)
      <3> QED
        BY <3>1, <3>2, DecoFacts, ZenonT(30)
    <2> QED
      BY <1>5, <2>1, <2>2, <2>4, ZenonT(30) DEF Somewhere
  <1>7. Kept'
    BY <1>2, <1>5, ZenonT(30) DEF WInv, Kept, peer
  <1>8. /\ fis' = <<>> /\ cur' = 0 /\ pos' = [d \in Devs |-> 1] /\ eof' = FALSE
        /\ tree' = [m \in NameSet |-> "NONE"] /\ listed' = [t \in Shown |-> 0] /\ skipped' = {}
    BY <1>2, Zenon DEF hmdfs_dir_release_merge
  <1>9. Untouched'
    BY <1>8, ZenonT(30) DEF Untouched
  <1>10. LTypes'
    <2>1. fis' \in Seq(Devs) /\ cur' \in Devs \cup {-1}
      BY <1>8, DevFacts
    <2>2. pos' \in [Devs -> 1 .. Len(Names) + 1]
      BY <1>8, NameFacts
    <2> QED
      BY <1>2, <1>8, <2>1, <2>2, ZenonT(30) DEF WInv, LTypes, Kinds
  <1>11. Files' /\ Walk'
    BY <1>2, <1>8 DEF Files, Walk
  <1>12. Listings'
    <2>1. (Untouched /\ fis \in Seq(Devs))'
      BY <1>9, <1>10, ZenonT(30) DEF LTypes
    <2> QED
      BY <2>1, NothingListed, PTL
  <1> QED
    BY <1>6, <1>7, <1>10, <1>11, <1>12, ZenonT(30) DEF WInv

(* A step that enters a device.                                            *)
LEMMA StepEnter ==
  ASSUME WInv, pc # "start",
         UNCHANGED <<kind, online, offs, mdi, fis, pos, eof, tree, listed, skipped>>,
         ~eof, pc' = "enter", Reached(cur)', room' \in Nat, sent' \in Nat, room' + sent' > 0,
         result' \in BOOLEAN, result' <=> sent' > 0, sent' = 0 => Fresh(cur)' \/ Held(cur)'
  PROVE  WInv'
  <1>1. cur' \in Devs
    BY DEF Reached, WInv, LTypes
  <1>2. LTypes' /\ Files'
    BY <1>1, Zenon DEF WInv, LTypes, Files
  <1>3. Walk'
    <2>1. /\ sent' = 0 => ~result'
          /\ sent' > 0 => result'
      OBVIOUS
    <2>2. ~eof' /\ (room + sent > 0)'
      BY Zenon
    <2> QED
      BY <2>1, <2>2, ZenonT(30) DEF Walk
  <1>4. Listings'
    <2>1. \A n, P : Listing(n, P)' <=> Listing(n, P)
      BY DEF Listing, ShownOf, Objects
    <2> QED
      BY <2>1, Zenon DEF WInv, Listings
  <1> QED
    BY <1>2, <1>3, <1>4, TargetKept, ZenonT(30) DEF WInv

(* A call of getdents begins with the device the last one stopped at, or   *)
(* with the first.                                                         *)
LEMMA IterateWInv ==
  ASSUME LInv, WInv, hmdfs_iterate_merge
  PROVE  WInv'
  <1>1. /\ UNCHANGED <<kind, online, offs, mdi, fis, pos, eof, tree, listed, skipped>>
        /\ pc = "open" /\ fis # <<>>
    BY Zenon DEF hmdfs_iterate_merge, dirs, peer, WInv, Walk
  <1>2. LTypes /\ Files /\ Walk
    BY Zenon DEF WInv
  <1>3. CASE eof
    <2>1. pc' = "ended" /\ UNCHANGED <<cur, result, room, sent>>
      BY <1>3, ZenonT(30) DEF hmdfs_iterate_merge, call
    <2>2. \A i \in 1 .. Len(fis) : Drained(fis[i])
      BY <1>1, <1>2, <1>3, ZenonT(30) DEF Walk, Untouched, Reached
    <2>3. Walk' /\ Files' /\ Listings'
      BY <1>1, <1>3, <2>1, <2>2, SameHandle, ZenonT(30) DEF WInv, Walk
    <2>4. LTypes'
      BY <1>1, <1>2, <2>1, ZenonT(30) DEF LTypes
    <2> QED
      BY <1>1, <2>1, <2>3, <2>4, TargetKept, ZenonT(30) DEF WInv
  <1>4. CASE ~eof
    <2>1. /\ cur' = IF In(cur, fis) THEN cur ELSE Head(fis)
          /\ room' \in Nat /\ room' > 0 /\ result' = FALSE /\ sent' = 0 /\ pc' = "enter"
      BY <1>4 DEF hmdfs_iterate_merge
    <2>8. sent' = 0 /\ room' \in Nat /\ room' > 0
      BY <2>1, ZenonT(30)
    <2>9. sent' \in Nat /\ room' + sent' > 0 /\ ~(sent' > 0)
      <3>1. sent' \in Nat
        BY <2>8, Zenon
      <3>2. ~(sent' > 0)
        BY <2>8
      <3>3. \A r, t \in Nat : r > 0 => r + t > 0
        OBVIOUS
      <3> QED
        BY <2>8, <3>1, <3>2, <3>3, ZenonT(30), ZenonT(30)
    <2>10. (result' <=> sent' > 0) /\ result' \in BOOLEAN
      BY <2>1, <2>9, ZenonT(30)
    <2>2. Len(fis) \in Nat /\ 1 \in 1 .. Len(fis) /\ Head(fis) = fis[1] /\ fis[1] \in Devs
          /\ Range(fis) = {fis[i] : i \in 1 .. Len(fis)}
      BY <1>1, <1>2 DEF LTypes, Range
    <2>3. \A d : Drained(d)' <=> Drained(d)
      BY <1>1, Zenon DEF Drained, Ahead
    <2>4. CASE Untouched
      <3>1. cur' = fis[1]
        BY <1>2, <2>1, <2>2, <2>4 DEF Files, Untouched, In
      <3>2. Fresh(cur)'
        BY <1>1, <2>2, <2>4, <3>1, Zenon DEF Fresh, Untouched
      <3>3. \A i \in 1 .. Len(fis) : pos[fis[i]] = 1
        <4>1. \A i \in 1 .. Len(fis) : fis[i] \in Devs
          BY <1>2 DEF LTypes
        <4> QED
          BY <2>4, <4>1, ZenonT(30) DEF Untouched
      <3>4. /\ \A i \in 1 .. 1 - 1 : FALSE
            /\ \A i \in 1 + 1 .. Len(fis) : i \in 1 .. Len(fis)
        BY <2>2
      <3>5. Reached(cur)'
        BY <1>1, <2>2, <3>1, <3>3, <3>4, ZenonT(30) DEF Reached
      <3> QED
        BY <1>1, <1>4, <2>1, <2>9, <2>10, <3>2, <3>5, StepEnter, ZenonT(30)
    <2>5. CASE ~Untouched
      <3>1. Reached(cur) /\ Held(cur)
        BY <1>1, <1>2, <1>4, <2>5, ZenonT(30) DEF Walk
      <3>2. cur' = cur
        BY <2>1, <2>2, <3>1, ZenonT(30) DEF Reached, In
      <3>3. Reached(cur)' /\ Held(cur)'
        BY <1>1, <3>1, <3>2, SameHandle, ZenonT(30)
      <3> QED
        BY <1>1, <1>4, <2>1, <2>9, <2>10, <3>3, StepEnter, ZenonT(30)
    <2> QED
      BY <2>4, <2>5, ZenonT(30)
  <1> QED
    BY <1>3, <1>4, ZenonT(30)

(* The position of the device at hand moves: where the walk has got to     *)
(* stays.                                                                  *)
LEMMA ReachedKept ==
  ASSUME WInv, Reached(cur), UNCHANGED <<kind, fis, cur>>, skipped \subseteq skipped',
         NEW p, pos' = [pos EXCEPT ![cur] = p]
  PROVE  Reached(cur)' /\ pos'[cur] = p /\ \A d \in Devs : d # cur => pos'[d] = pos[d]
  <1>1. fis \in Seq(Devs) /\ pos \in [Devs -> 1 .. Len(Names) + 1] /\ Files
    BY Zenon DEF WInv, LTypes
  <1>2. PICK k \in 1 .. Len(fis) :
          /\ fis[k] = cur
          /\ \A i \in 1 .. k - 1 : Drained(fis[i])
          /\ \A i \in k + 1 .. Len(fis) : pos[fis[i]] = 1
    BY Zenon DEF Reached
  <1>3. /\ Len(fis) \in Nat /\ cur \in Devs /\ \A i \in 1 .. Len(fis) : fis[i] \in Devs
        /\ \A i \in 1 .. k - 1 : i \in 1 .. Len(fis) /\ i # k
        /\ \A i \in k + 1 .. Len(fis) : i \in 1 .. Len(fis) /\ i # k
    BY <1>1, <1>2
  <1>4. \A d \in Devs : d # cur => pos'[d] = pos[d]
    BY <1>1, Zenon
  <1>5. \A i \in 1 .. Len(fis) : i # k => fis[i] # cur
    BY <1>1, <1>2, ZenonT(30) DEF Files
  <1>6. \A i \in 1 .. k - 1 : Drained(fis[i])'
    <2>1. ASSUME NEW i \in 1 .. k - 1 PROVE Drained(fis[i])'
      <3>1. pos'[fis[i]] = pos[fis[i]]
        BY <1>3, <1>4, <1>5, ZenonT(30)
      <3>2. Drained(fis[i])
        BY <1>2, Zenon
      <3> QED
        BY <3>1, <3>2, ZenonT(30) DEF Drained, Ahead
    <2> QED
      BY <2>1, ZenonT(30)
  <1>7. \A i \in k + 1 .. Len(fis) : pos'[fis[i]] = 1
    BY <1>2, <1>3, <1>4, <1>5, ZenonT(30)
  <1>8. pos'[cur] = p
    BY <1>1, <1>3, ZenonT(30)
  <1>9. k \in 1 .. Len(fis') /\ fis'[k] = cur'
    BY <1>2, ZenonT(30)
  <1> QED
    BY <1>4, <1>6, <1>7, <1>8, <1>9 DEF Reached

(* The walk moves on in the device at hand, or stops in it, with something *)
(* of the device left out.                                                 *)
LEMMA SkipWInv ==
  ASSUME WInv, pc \in {"enter", "walk"}, UNCHANGED <<kind, online, offs, mdi, fis, cur, eof, tree>>,
         pc' \in {"walk", "leave", "stop"},
         NEW p \in 1 .. Len(Names) + 1, pos[cur] <= p, pos' = [pos EXCEPT ![cur] = p],
         skipped' = skipped \cup {cur}, listed' \in [Shown -> Nat],
         \A n \in NameSet, x \in Decorations :
           \/ listed'[<<n, x>>] = listed[<<n, x>>]
           \/ x = Plain /\ listed[<<n, x>>] > 0 /\ listed'[<<n, x>>] > 0 /\ kind[cur][n] = "REG",
         room' \in Nat, sent' \in Nat, room' + sent' > 0, result' \in BOOLEAN,
         result' <=> sent' > 0
  PROVE  WInv'
  <1>1. /\ LTypes /\ Files /\ ~eof /\ Reached(cur)
        /\ fis \in Seq(Devs) /\ pos \in [Devs -> 1 .. Len(Names) + 1] /\ Len(Names) \in Nat
    BY NameFacts, Zenon DEF WInv, Walk, LTypes
  <1>2. cur \in Devs /\ Range(fis) \subseteq Devs
    BY <1>1 DEF Reached, Range
  <1>3. Reached(cur)' /\ pos'[cur] = p /\ \A d \in Devs : d # cur => pos'[d] = pos[d]
    BY <1>1, ReachedKept, Zenon
  <1>4. cur' \in skipped' /\ Drained(cur)' /\ Held(cur)'
    BY Zenon DEF Drained, Held
  <1>5. Walk'
    <2>1. (sent' = 0 \/ sent' > 0) /\ ~(sent' = 0 /\ sent' > 0)
      OBVIOUS
    <2> QED
      BY <1>1, <1>3, <1>4, <2>1, ZenonT(30) DEF Walk
  <1>6. LTypes' /\ Files'
    <2>1. pos' \in [Devs -> 1 .. Len(Names) + 1]
      BY <1>1, <1>2, ZenonT(30)
    <2>2. skipped' \subseteq Devs
      BY <1>1, <1>2, Zenon DEF LTypes
    <2> QED
      BY <1>1, <2>1, <2>2, ZenonT(30) DEF LTypes, Files
  <1>7. ASSUME NEW n \in NameSet, NEW P \in SUBSET Devs, Listing(n, P) PROVE Listing(n, P)'
    <2>1. ASSUME NEW i \in 1 .. Len(Names), Names[i] = n
          PROVE  /\ \A d \in P : d \in Range(fis) /\ i < pos'[d]
                 /\ \A d \in Range(fis) \ skipped' : i < pos'[d] /\ kind[d][n] # "NONE" => d \in P
      <3>1. ASSUME NEW d \in P PROVE d \in Range(fis) /\ i < pos'[d]
        <4>1. d \in Range(fis) /\ i < pos[d]
          BY <1>7, <2>1, ZenonT(30) DEF Listing
        <4>2. i < pos[cur] => i < p
          BY <1>1, <1>2
        <4> QED
          BY <1>3, <4>1, <4>2, ZenonT(30)
      <3>2. ASSUME NEW d \in Range(fis) \ skipped', i < pos'[d], kind[d][n] # "NONE" PROVE d \in P
        <4>1. d # cur /\ d \notin skipped /\ d \in Devs
          BY <1>2, Zenon
        <4> QED
          BY <1>3, <1>7, <2>1, <3>2, <4>1, ZenonT(30) DEF Listing
      <3> QED
        BY <3>1, <3>2, ZenonT(30)
    <2>2. \A x \in Decorations : listed'[<<n, x>>] > 0 <=> listed[<<n, x>>] > 0
      BY Zenon
    <2>3. ShownOf(n)' = ShownOf(n) /\ Objects(n, P)' = Objects(n, P)
      <3>1. {x \in Decorations : listed'[<<n, x>>] > 0} = {x \in Decorations : listed[<<n, x>>] > 0}
        BY <2>2, Zenon
      <3> QED
        BY <3>1, Zenon DEF ShownOf, Objects
    <2>4. /\ listed'[<<n, Plain>>] > 0 <=> listed[<<n, Plain>>] > 0
          /\ listed'[<<n, Plain>>] <= 1 \/ \E d \in skipped' : kind[d][n] = "REG"
      BY <1>7, <2>2, DecoFacts, ZenonT(30) DEF Listing
    <2>5. /\ listed'[<<n, ConfDir>>] = listed[<<n, ConfDir>>]
          /\ \A d \in Devs : listed'[<<n, ConfReg(d)>>] = listed[<<n, ConfReg(d)>>]
      BY DecoFacts, ZenonT(30)
    <2> QED
      BY <1>7, <2>1, <2>3, <2>4, <2>5, ZenonT(30) DEF Listing
  <1>8. Listings'
    BY <1>7, Zenon DEF WInv, Listings
  <1> QED
    BY <1>5, <1>6, <1>8, TargetKept, ZenonT(30) DEF WInv

(* The lower file is entered, or its peer is gone and its position moves   *)
(* to the end.                                                             *)
LEMMA RemoteWInv ==
  ASSUME LInv, WInv, hmdfs_iterate_remote
  PROVE  WInv'
  <1>1. /\ UNCHANGED <<kind, online, offs, mdi, fis, cur, eof, tree, listed, result, room, sent>>
        /\ pc = "enter" /\ pc' \in {"walk", "leave", "stop"}
    BY Zenon DEF hmdfs_iterate_remote, dirs, call, peer, Fails
  <1>2. /\ LTypes /\ Files
        /\ ~eof /\ Reached(cur) /\ room + sent > 0
        /\ sent = 0 => ~result /\ (Fresh(cur) \/ Held(cur))
        /\ sent > 0 => result
    BY <1>1, ZenonT(30) DEF WInv, Walk
  <1>3. Somewhere' /\ Kept'
    BY <1>1, TargetKept, ZenonT(30)
  <1>4. CASE pc' = "walk" /\ UNCHANGED <<pos, skipped>>
    <2>1. pc' = "walk" /\ UNCHANGED <<pos, skipped>>
      BY <1>4, Zenon
    <2>2. /\ Files' /\ Listings' /\ Reached(cur)'
          /\ Fresh(cur) \/ Held(cur) => Fresh(cur)' \/ Held(cur)'
      BY <1>1, <1>2, <2>1, SameHandle, ZenonT(30) DEF WInv
    <2>3. LTypes'
      BY <1>1, <1>2, <2>1, ZenonT(30) DEF LTypes
    <2>4. Walk'
      BY <1>1, <1>2, <2>1, <2>2, ZenonT(30) DEF Walk
    <2> QED
      BY <1>3, <2>2, <2>3, <2>4, ZenonT(30) DEF WInv
  <1>5. CASE /\ pc' = "leave"
             /\ pos' = [pos EXCEPT ![cur] = Len(Names) + 1]
             /\ skipped' = IF Ahead(cur) = {} THEN skipped ELSE skipped \cup {cur}
    <2>1. /\ pc' = "leave"
          /\ pos' = [pos EXCEPT ![cur] = Len(Names) + 1]
          /\ skipped' = IF Ahead(cur) = {} THEN skipped ELSE skipped \cup {cur}
          /\ skipped \subseteq skipped'
      BY <1>5, Zenon
    <2>2. Reached(cur)' /\ pos'[cur] = Len(Names) + 1 /\ \A d \in Devs : d # cur => pos'[d] = pos[d]
      BY <1>1, <1>2, <2>1, ReachedKept, ZenonT(30)
    <2>3. cur \in Devs /\ \A d \in Range(fis) : d \in Devs
      BY <1>2 DEF Reached, LTypes, Range
    <2>4. LTypes' /\ Files'
      <3>1. pos' \in [Devs -> 1 .. Len(Names) + 1]
        BY <1>2, <2>1, <2>3, NameFacts DEF LTypes
      <3> QED
        BY <1>1, <1>2, <2>1, <2>3, <3>1, ZenonT(30) DEF LTypes, Files
    <2>5. Drained(cur)'
      <3>1. {i \in Len(Names) + 1 .. Len(Names) : kind[cur][Names[i]] # "NONE"} = {}
        BY NameFacts
      <3> QED
        BY <1>1, <2>2, <3>1, ZenonT(30) DEF Drained, Ahead
    <2>6. sent = 0 => \/ cur \in skipped'
                      \/ cur = fis[1] /\ \A n \in NameSet : kind[cur][n] = "NONE"
      <3>1. ASSUME sent = 0, Ahead(cur) = {}, cur \notin skipped
            PROVE  cur = fis[1] /\ \A n \in NameSet : kind[cur][n] = "NONE"
        <4>1. cur = fis[1] /\ pos[cur] = 1
          BY <1>2, <3>1, ZenonT(30) DEF Fresh, Held
        <4>2. \A i \in 1 .. Len(Names) : kind[cur][Names[i]] = "NONE"
          BY <3>1, <4>1, ZenonT(30) DEF Ahead
        <4> QED
          BY <4>1, <4>2, NameFacts
      <3> QED
        BY <2>1, <3>1, ZenonT(30)
    <2>7. (sent = 0 \/ sent > 0) /\ ~(sent = 0 /\ sent > 0)
      BY <1>2 DEF LTypes
    <2>8. Walk'
      BY <1>1, <1>2, <2>1, <2>2, <2>5, <2>6, <2>7, ZenonT(30), ZenonT(30) DEF Walk
    <2>9. Listings'
      <3>1. ASSUME NEW n \in NameSet, NEW P \in SUBSET Devs, Listing(n, P) PROVE Listing(n, P)'
        <4>1. ASSUME NEW i \in 1 .. Len(Names), Names[i] = n
              PROVE  /\ \A d \in P : d \in Range(fis) /\ i < pos'[d]
                     /\ \A d \in Range(fis) \ skipped' : i < pos'[d] /\ kind[d][n] # "NONE" => d \in P
          <5>1. ASSUME NEW d \in P PROVE d \in Range(fis) /\ i < pos'[d]
            <6>1. d \in Range(fis) /\ i < pos[d]
              BY <3>1, <4>1, ZenonT(30) DEF Listing
            <6>2. i < Len(Names) + 1
              BY NameFacts
            <6> QED
              BY <2>2, <6>1, <6>2, ZenonT(30)
          <5>2. ASSUME NEW d \in Range(fis) \ skipped', i < pos'[d], kind[d][n] # "NONE" PROVE d \in P
            <6>1. d \notin skipped /\ d \in Devs
              BY <2>1, <2>3, Zenon
            <6>2. i < pos[d]
              <7>1. CASE d # cur
                BY <2>2, <5>2, <6>1, <7>1, ZenonT(30)
              <7>2. CASE d = cur
                <8>1. Ahead(cur) = {}
                  BY <2>1, <5>2, <7>2, ZenonT(30)
                <8>2. i \notin pos[cur] .. Len(Names)
                  BY <4>1, <5>2, <7>2, <8>1, ZenonT(30) DEF Ahead
                <8>3. pos[cur] \in Int /\ Len(Names) \in Nat
                  BY <1>2, <2>3, NameFacts DEF LTypes
                <8> QED
                  BY <7>2, <8>2, <8>3
              <7> QED
                BY <7>1, <7>2, ZenonT(30)
            <6> QED
              BY <3>1, <4>1, <5>2, <6>1, <6>2, ZenonT(30) DEF Listing
          <5> QED
            BY <5>1, <5>2, ZenonT(30)
        <4>2. ShownOf(n)' = ShownOf(n) /\ Objects(n, P)' = Objects(n, P)
          BY <1>1, Zenon DEF ShownOf, Objects
        <4>3. listed[<<n, Plain>>] <= 1 \/ \E d \in skipped' : kind[d][n] = "REG"
          BY <2>1, <3>1, Zenon DEF Listing
        <4> QED
          BY <1>1, <3>1, <4>1, <4>2, <4>3, ZenonT(30), ZenonT(30), ZenonT(30)
             DEF Listing
      <3> QED
        BY <3>1, Zenon DEF WInv, Listings
    <2> QED
      BY <1>3, <2>4, <2>8, <2>9, ZenonT(30) DEF WInv
  <1>6. CASE pc' = "stop" /\ AtEnd /\ Fails
    <2>1. /\ Len(Names) + 1 \in 1 .. Len(Names) + 1 /\ pos[cur] <= Len(Names) + 1
          /\ cur \in Devs
      BY <1>2, NameFacts DEF LTypes, Reached
    <2>2. (result <=> sent > 0) /\ result \in BOOLEAN /\ room \in Nat /\ sent \in Nat
      BY <1>2 DEF LTypes
    <2> QED
      BY <1>1, <1>2, <1>6, <2>1, <2>2, SkipWInv, Zenon DEF AtEnd, Fails, LTypes
  <1> QED
    BY <1>4, <1>5, <1>6, Zenon DEF hmdfs_iterate_remote, AtEnd

(* iterate_dir has failed.                                                 *)
LEMMA FailsWInv ==
  ASSUME LInv, WInv, LowerFails
  PROVE  WInv'
  <1>1. /\ UNCHANGED <<kind, online, offs, mdi, fis, cur, eof, tree, listed, result, room, sent>>
        /\ pc = "walk" /\ pc' \in {"leave", "stop"} /\ AtEnd /\ Fails
    BY Zenon DEF LowerFails, dirs, call, Fails
  <1>2. /\ LTypes /\ Reached(cur) /\ room + sent > 0
        /\ sent = 0 => ~result
        /\ sent > 0 => result
    BY <1>1, ZenonT(30) DEF WInv, Walk
  <1>3. /\ Len(Names) + 1 \in 1 .. Len(Names) + 1 /\ pos[cur] <= Len(Names) + 1
        /\ cur \in Devs
    BY <1>2, NameFacts DEF LTypes, Reached
  <1>4. (result <=> sent > 0) /\ result \in BOOLEAN /\ room \in Nat /\ sent \in Nat
    BY <1>2 DEF LTypes
  <1> QED
    BY <1>1, <1>2, <1>3, <1>4, SkipWInv, Zenon DEF AtEnd, Fails, LTypes

(* iterate_dir has come to the end of the lower file.                      *)
LEMMA ExhaustedWInv ==
  ASSUME LInv, WInv, LowerExhausted
  PROVE  WInv'
  <1>1. /\ UNCHANGED <<kind, online, offs, mdi, fis, cur, pos, eof, tree, listed, skipped, result, room, sent>>
        /\ pc = "walk" /\ pc' = "leave" /\ Ahead(cur) = {}
    BY Zenon DEF LowerExhausted, dirs, peer, call, head
  <1>2. /\ LTypes /\ Files
        /\ ~eof /\ Reached(cur) /\ room + sent > 0
        /\ sent = 0 => ~result /\ (Fresh(cur) \/ Held(cur))
        /\ sent > 0 => result
    BY <1>1, ZenonT(30) DEF WInv, Walk
  <1>3. sent = 0 => \/ cur \in skipped
                    \/ cur = fis[1] /\ \A n \in NameSet : kind[cur][n] = "NONE"
    <2>1. SUFFICES ASSUME sent = 0, cur \notin skipped
                   PROVE  cur = fis[1] /\ \A n \in NameSet : kind[cur][n] = "NONE"
      BY Zenon
    <2>2. cur = fis[1] /\ pos[cur] = 1
      BY <1>1, <1>2, <2>1, ZenonT(30) DEF Fresh, Held
    <2>3. \A i \in 1 .. Len(Names) : kind[cur][Names[i]] = "NONE"
      BY <1>1, <2>2, ZenonT(30) DEF Ahead
    <2> QED
      BY <2>2, <2>3, NameFacts
  <1>4. (sent = 0 \/ sent > 0) /\ ~(sent = 0 /\ sent > 0)
    BY <1>2 DEF LTypes
  <1>5. Files' /\ Listings' /\ Reached(cur)' /\ Drained(cur)'
    BY <1>1, <1>2, SameHandle, ZenonT(30) DEF WInv, Drained
  <1>6. Walk'
    BY <1>1, <1>2, <1>3, <1>4, <1>5, ZenonT(30), ZenonT(30) DEF Walk
  <1>7. LTypes'
    BY <1>1, <1>2, ZenonT(30) DEF LTypes
  <1> QED
    BY <1>1, <1>5, <1>6, <1>7, TargetKept, ZenonT(30) DEF WInv

(* What a step that moves only cur or eof of the handle keeps.             *)
LEMMA SameFiles ==
  ASSUME UNCHANGED <<kind, fis, pos, tree, listed, skipped>>
  PROVE  /\ Files' <=> Files
         /\ Listings' <=> Listings
         /\ \A d : Drained(d)' <=> Drained(d)
  <1>1. \A n, P : Listing(n, P)' <=> Listing(n, P)
    BY DEF Listing, ShownOf, Objects
  <1> QED
    BY <1>1, Zenon DEF Files, Listings, Drained, Ahead

(* The loop over the devices ends, goes on, or ends the call.              *)
LEMMA LeaveWInv ==
  ASSUME LInv, WInv, LeaveDevice
  PROVE  WInv'
  <1>1. /\ UNCHANGED <<kind, online, offs, mdi, fis, pos, tree, listed, skipped>>
        /\ pc \in {"leave", "stop"}
    BY Zenon DEF LeaveDevice, dirs, peer
  <1>2. /\ LTypes /\ Files
        /\ ~eof /\ Reached(cur)
        /\ pc = "leave" /\ result => Drained(cur) /\ sent > 0
        /\ ~(pc = "leave" /\ result) /\ sent > 0 => Held(cur)
        /\ sent = 0 => /\ Drained(cur)
                       /\ \/ cur \in skipped
                          \/ cur = fis[1] /\ \A n \in NameSet : kind[cur][n] = "NONE"
    <2>1. (sent = 0 \/ sent > 0) /\ ~(sent = 0 /\ sent > 0)
      BY DEF WInv, LTypes
    <2> QED
      BY <1>1, <2>1, ZenonT(30) DEF WInv, Walk, Drained
  <1>3. /\ fis \in Seq(Devs) /\ room \in Nat /\ sent \in Nat
        /\ result \in BOOLEAN /\ eof \in BOOLEAN
    BY <1>2, Zenon DEF LTypes
  <1>4. (sent = 0 \/ sent > 0) /\ ~(sent = 0 /\ sent > 0)
    BY <1>3
  <1>5. PICK k \in 1 .. Len(fis) :
          /\ fis[k] = cur
          /\ \A i \in 1 .. k - 1 : Drained(fis[i])
          /\ \A i \in k + 1 .. Len(fis) : pos[fis[i]] = 1
    BY <1>2, Zenon DEF Reached
  <1>6. k \in Nat /\ Len(fis) \in Nat /\ 1 <= k /\ k <= Len(fis) /\ cur \in Devs /\ fis # <<>>
    BY <1>3, <1>5
  <1>7. NextDev(cur) = IF k < Len(fis) THEN fis[k + 1] ELSE -1
    <2> DEFINE c == CHOOSE i \in 1 .. Len(fis) : fis[i] = cur
    <2>1. c \in 1 .. Len(fis) /\ fis[c] = cur
      BY <1>5, Zenon
    <2>2. NextDev(cur) = IF c < Len(fis) THEN fis[c + 1] ELSE -1
      BY Zenon DEF NextDev
    <2> HIDE DEF c
    <2>3. c = k
      BY <1>2, <1>5, <2>1, ZenonT(30) DEF Files
    <2> QED
      BY <2>2, <2>3, ZenonT(30)
  <1>8. Files' /\ Listings' /\ \A d : Drained(d)' <=> Drained(d)
    BY <1>1, SameFiles, ZenonT(30) DEF WInv
  <1>9. \A i : Drained(fis[i])' <=> Drained(fis[i])
    BY <1>1, ZenonT(30) DEF Drained, Ahead
  <1>10. CASE pc = "leave" /\ result /\ k < Len(fis)
    <2>1. k + 1 \in 1 .. Len(fis) /\ fis[k + 1] \in Devs /\ fis[k + 1] # -1
      BY <1>3, <1>6, <1>10, DevFacts
    <2>2. cur' = fis[k + 1] /\ ~eof'
      BY <1>7, <1>10, <2>1, ZenonT(30) DEF LeaveDevice
    <2>3. eof' = eof /\ pc' = "enter" /\ UNCHANGED <<result, room, sent>>
      BY <1>2, <1>3, <1>7, <1>10, <2>1, <2>2, ZenonT(30) DEF LeaveDevice, call
    <2>4. Drained(cur) /\ sent > 0
      BY <1>2, <1>10, ZenonT(30)
    <2>5. Reached(cur)'
      <3>1. \A i \in 1 .. k + 1 - 1 : i \in 1 .. k - 1 \/ i = k
        BY <1>6
      <3>2. \A i \in 1 .. k + 1 - 1 : Drained(fis[i])'
        BY <1>5, <1>9, <2>4, <3>1, Zenon
      <3>3. \A i \in k + 1 + 1 .. Len(fis) : i \in k + 1 .. Len(fis)
        BY <1>6
      <3> QED
        BY <1>1, <1>5, <2>1, <2>2, <3>2, <3>3 DEF Reached
    <2>6. room + sent > 0
      BY <1>3, <2>4
    <2>7. /\ room' \in Nat /\ sent' \in Nat /\ room' + sent' > 0
          /\ result' \in BOOLEAN /\ (result' <=> sent' > 0) /\ sent' # 0
      BY <1>3, <1>4, <1>10, <2>3, <2>4, <2>6, ZenonT(30)
    <2> QED
      BY <1>1, <1>2, <2>3, <2>5, <2>7, StepEnter, ZenonT(30)
  <1>11. CASE pc = "leave" /\ result /\ ~(k < Len(fis))
    <2>1. cur' = -1 /\ eof' = TRUE
      BY <1>7, <1>11, ZenonT(30) DEF LeaveDevice
    <2>2. sent > 0 /\ Drained(cur)
      BY <1>2, <1>11, ZenonT(30)
    <2>3. pc' = "open" /\ result' = FALSE /\ room' = 0 /\ sent' = 0
      BY <2>1, <2>2, ZenonT(30) DEF LeaveDevice, GetdentsReturns
    <2>4. \A i \in 1 .. Len(fis) : i \in 1 .. k - 1 \/ i = k
      BY <1>6, <1>11
    <2>5. \A i \in 1 .. Len(fis) : Drained(fis[i])'
      BY <1>5, <1>9, <2>2, <2>4, ZenonT(30)
    <2>6. Walk'
      BY <1>1, <1>6, <2>1, <2>3, <2>5, ZenonT(30) DEF Walk
    <2>7. LTypes'
      BY <1>1, <1>2, <2>1, <2>3, ZenonT(30) DEF LTypes
    <2> QED
      BY <1>1, <1>8, <2>3, <2>6, <2>7, TargetKept, ZenonT(30) DEF WInv
  <1>12. CASE ~(pc = "leave" /\ result)
    <2>1. /\ UNCHANGED <<cur, eof>> /\ pc' = IF sent > 0 THEN "open" ELSE "ended"
          /\ result' = FALSE /\ room' = 0 /\ sent' = 0
      BY <1>12, Zenon DEF LeaveDevice, GetdentsReturns
    <2>2. /\ Reached(cur)'
          /\ Held(cur)' <=> Held(cur)
      BY <1>1, <1>2, <2>1, SameHandle, ZenonT(30)
    <2>3. Walk'
      <3>1. CASE sent > 0
        <4>1. Held(cur)
          BY <1>2, <1>12, <3>1, ZenonT(30)
        <4> QED
          BY <1>1, <1>2, <1>6, <2>1, <2>2, <3>1, <4>1, ZenonT(30) DEF Walk
      <3>2. CASE sent = 0
        <4>1. Drained(cur)
          BY <1>2, <1>4, <3>2, ZenonT(30)
        <4>2. Drained(cur)'
          BY <1>8, <2>1, <4>1, ZenonT(30) DEF Drained, Ahead
        <4>3. pc' = "ended"
          BY <1>4, <2>1, <3>2, ZenonT(30)
        <4> QED
          BY <1>1, <1>2, <2>1, <2>2, <3>2, <4>2, <4>3, ZenonT(30), ZenonT(30)
             DEF Walk
      <3> QED
        BY <1>4, <3>1, <3>2, ZenonT(30)
    <2>4. LTypes'
      BY <1>1, <1>2, <2>1, ZenonT(30) DEF LTypes
    <2> QED
      BY <1>1, <1>8, <2>1, <2>3, <2>4, TargetKept, ZenonT(30) DEF WInv
  <1> QED
    BY <1>10, <1>11, <1>12, ZenonT(30)

(* The walk of the device at hand goes past entry i, the first ahead.      *)
Past(i) ==
  /\ i \in Ahead(cur) /\ \A j \in Ahead(cur) : i <= j
  /\ pos' = [pos EXCEPT ![cur] = i + 1]
  /\ cur \in Range(fis)
  /\ UNCHANGED <<kind, fis, cur, skipped>>

(* The names of the other entries are listed as before.                    *)
LEMMA OtherNames ==
  ASSUME WInv, NEW i, Past(i), NEW n \in NameSet, n # Names[i], NEW P \in SUBSET Devs,
         Listing(n, P), tree'[n] = tree[n],
         \A x \in Decorations : listed'[<<n, x>>] = listed[<<n, x>>]
  PROVE  Listing(n, P)'
  <1>1. /\ fis \in Seq(Devs) /\ pos \in [Devs -> 1 .. Len(Names) + 1]
        /\ Range(fis) \subseteq Devs /\ cur \in Devs /\ Len(Names) \in Nat
    BY NameFacts DEF WInv, LTypes, Past, Range
  <1>2. pos'[cur] = i + 1 /\ \A d \in Devs : d # cur => pos'[d] = pos[d]
    BY <1>1, Zenon DEF Past
  <1>3. i \in Nat /\ pos[cur] <= i /\ pos[cur] \in Nat
    BY <1>1 DEF Past, Ahead
  <1>4. ASSUME NEW j \in 1 .. Len(Names), Names[j] = n
        PROVE  /\ \A d \in P : d \in Range(fis) /\ j < pos'[d]
               /\ \A d \in Range(fis) \ skipped : j < pos'[d] /\ kind[d][n] # "NONE" => d \in P
    <2>1. ASSUME NEW d \in P PROVE d \in Range(fis) /\ j < pos'[d]
      <3>1. d \in Range(fis) /\ j < pos[d]
        BY <1>4, ZenonT(30) DEF Listing
      <3>2. j < pos[cur] => j < i + 1
        BY <1>3
      <3> QED
        BY <1>2, <3>1, <3>2, ZenonT(30)
    <2>2. ASSUME NEW d \in Range(fis) \ skipped, j < pos'[d], kind[d][n] # "NONE" PROVE d \in P
      <3>1. CASE d # cur
        BY <1>1, <1>2, <1>4, <2>2, <3>1, ZenonT(30) DEF Listing
      <3>2. CASE d = cur
        <4>1. j # i /\ j < i
          BY <1>2, <1>3, <1>4, <2>2, <3>2
        <4>2. j \notin Ahead(cur)
          BY <1>3, <4>1 DEF Past
        <4>3. j \notin pos[cur] .. Len(Names)
          BY <1>4, <2>2, <3>2, <4>2, Zenon DEF Ahead
        <4>4. j < pos[cur]
          BY <1>1, <1>3, <4>3
        <4> QED
          BY <1>4, <2>2, <3>2, <4>4, ZenonT(30) DEF Listing
      <3> QED
        BY <3>1, <3>2, ZenonT(30)
    <2> QED
      BY <2>1, <2>2, ZenonT(30)
  <1>5. ShownOf(n)' = ShownOf(n) /\ Objects(n, P)' = Objects(n, P)
    <2>1. {x \in Decorations : listed'[<<n, x>>] > 0} = {x \in Decorations : listed[<<n, x>>] > 0}
      BY Zenon
    <2> QED
      BY <2>1, Zenon DEF ShownOf, Objects, Past
  <1>6. /\ listed'[<<n, Plain>>] = listed[<<n, Plain>>]
        /\ listed'[<<n, ConfDir>>] = listed[<<n, ConfDir>>]
        /\ \A d \in Devs : listed'[<<n, ConfReg(d)>>] = listed[<<n, ConfReg(d)>>]
    BY DecoFacts, Zenon
  <1>7. kind' = kind /\ fis' = fis /\ skipped' = skipped
    BY Zenon DEF Past
  <1> QED
    BY <1>4, <1>5, <1>6, <1>7, ZenonT(30), ZenonT(30), ZenonT(30) DEF Listing

(* The entry itself: its device joins those walked over.                   *)
LEMMA EntryPast ==
  ASSUME WInv, NEW i, Past(i), NEW P \in SUBSET Devs, Listing(Names[i], P)
  PROVE  /\ cur \in Devs \ P /\ P \cup {cur} \in SUBSET Devs
         /\ Names[i] \in NameSet /\ kind[cur][Names[i]] # "NONE"
         /\ \A d \in P \cup {cur} : kind[d][Names[i]] # "NONE"
         /\ \A j \in 1 .. Len(Names) : Names[j] = Names[i] =>
              /\ \A d \in P \cup {cur} : d \in Range(fis) /\ j < pos'[d]
              /\ \A d \in Range(fis) \ skipped :
                   j < pos'[d] /\ kind[d][Names[i]] # "NONE" => d \in P \cup {cur}
  <1>1. /\ fis \in Seq(Devs) /\ pos \in [Devs -> 1 .. Len(Names) + 1]
        /\ Range(fis) \subseteq Devs /\ cur \in Devs /\ Len(Names) \in Nat
    BY NameFacts DEF WInv, LTypes, Past, Range
  <1>2. pos'[cur] = i + 1 /\ \A d \in Devs : d # cur => pos'[d] = pos[d]
    BY <1>1, Zenon DEF Past
  <1>3. /\ i \in Nat /\ pos[cur] <= i /\ pos[cur] \in Nat /\ i \in 1 .. Len(Names)
        /\ kind[cur][Names[i]] # "NONE"
    BY <1>1 DEF Past, Ahead
  <1>4. \A d \in P : kind[d][Names[i]] # "NONE" /\ d \in Range(fis) /\ i < pos[d]
    BY <1>3, Zenon DEF Listing
  <1>5. cur \notin P
    BY <1>3, <1>4
  <1>6. Names[i] \in NameSet /\ \A j \in 1 .. Len(Names) : Names[j] = Names[i] => j = i
    BY <1>3, NameFacts, ZenonT(30)
  <1>7. \A d \in P \cup {cur} : d \in Range(fis) /\ i < pos'[d]
    BY <1>1, <1>2, <1>3, <1>4, <1>5 DEF Past
  <1>8. \A d \in Range(fis) \ skipped :
          i < pos'[d] /\ kind[d][Names[i]] # "NONE" => d \in P \cup {cur}
    BY <1>1, <1>2, <1>3, Zenon DEF Listing
  <1> QED
    BY <1>1, <1>3, <1>4, <1>5, <1>6, <1>7, <1>8, ZenonT(30)

(* A directory merged into one that was shown before.                      *)
LEMMA EntryMerged ==
  ASSUME LInv, WInv, NEW i, Past(i), NEW P \in SUBSET Devs, Listing(Names[i], P),
         Merged(cur, Names[i]), UNCHANGED <<tree, listed>>
  PROVE  Listing(Names[i], P \cup {cur})'
  <1> DEFINE n == Names[i]
             Q == P \cup {cur}
  <1>1. /\ kind[cur][n] = "DIR" /\ tree[n] = "DIR"
        /\ \E d \in P : kind[d][n] = "DIR"
    BY Zenon DEF Merged, Listing
  <1>2. Objects(n, Q) = Objects(n, P)
    <2>1. Objects(n, P) \in Int
      BY ObjectsIs
    <2>2. cur \in Devs \ P
      BY EntryPast, ZenonT(30)
    <2>3. Objects(n, Q) = Objects(n, P)
            + IF kind[cur][n] = "DIR" /\ (\E e \in P : kind[e][n] = "DIR") THEN 0 ELSE 1
      BY <1>1, <2>2, ObjectsAdd, ZenonT(30)
    <2> QED
      BY <1>1, <2>1, <2>3
  <1>3. ShownOf(n)' = ShownOf(n) /\ Objects(n, Q)' = Objects(n, Q)
    BY Zenon DEF ShownOf, Objects, Past
  <1>4. kind' = kind /\ fis' = fis /\ skipped' = skipped /\ cur' = cur
    BY Zenon DEF Past
  <1>5. /\ \A d \in Q : kind[d][n] # "NONE"
        /\ \A j \in 1 .. Len(Names) : Names[j] = n =>
              /\ \A d \in Q : d \in Range(fis) /\ j < pos'[d]
              /\ \A d \in Range(fis) \ skipped : j < pos'[d] /\ kind[d][n] # "NONE" => d \in Q
    BY EntryPast, Zenon
  <1>6. Q # {} /\ P # {}
    BY <1>1, Zenon
  <1> QED
    BY <1>1, <1>2, <1>3, <1>4, <1>5, <1>6, ZenonT(30), ZenonT(30) DEF Listing

(* A name that was not shown before is counted once.                       *)
LEMMA ShownMore ==
  ASSUME NEW n \in NameSet, NEW x \in Decorations, listed \in [Shown -> Nat],
         listed[<<n, x>>] = 0, listed' = [listed EXCEPT ![<<n, x>>] = @ + 1]
  PROVE  /\ ShownOf(n)' = ShownOf(n) + 1
         /\ listed' \in [Shown -> Nat] /\ listed'[<<n, x>>] = 1
         /\ \A y \in Decorations : y # x => listed'[<<n, y>>] = listed[<<n, y>>]
         /\ \A m \in NameSet, y \in Decorations : m # n => listed'[<<m, y>>] = listed[<<m, y>>]
  <1> DEFINE A == {y \in Decorations : listed[<<n, y>>] > 0}
             B == {y \in Decorations : listed'[<<n, y>>] > 0}
  <1>1. \A m \in NameSet, y \in Decorations : <<m, y>> \in Shown /\ (<<m, y>> = <<n, x>> <=> m = n /\ y = x)
    BY Zenon DEF Shown
  <1>2. /\ listed' \in [Shown -> Nat] /\ listed'[<<n, x>>] = 1
        /\ \A s \in Shown : s # <<n, x>> => listed'[s] = listed[s]
    <2>1. <<n, x>> \in Shown
      BY <1>1, Zenon
    <2> QED
      BY <2>1
  <1>3. /\ \A y \in Decorations : y # x => listed'[<<n, y>>] = listed[<<n, y>>]
        /\ \A m \in NameSet, y \in Decorations : m # n => listed'[<<m, y>>] = listed[<<m, y>>]
    BY <1>1, <1>2, Zenon
  <1>4. B = A \cup {x} /\ x \notin A
    BY <1>2, <1>3
  <1>5. IsFiniteSet(A)
    BY DecorationsFinite, FS_Subset, Zenon
  <1>6. Cardinality(B) = Cardinality(A) + 1
    BY <1>4, <1>5, FS_AddElement, ZenonT(30), ZenonT(30)
  <1> QED
    BY <1>2, <1>3, <1>6, ZenonT(30) DEF ShownOf

(* An entry that is shown, under a name of its own.                        *)
LEMMA EntryShown ==
  ASSUME LInv, WInv, NEW i, Past(i), NEW P \in SUBSET Devs, Listing(Names[i], P),
         ~Merged(cur, Names[i]),
         listed' = [listed EXCEPT ![<<Names[i], Decorated(cur, Names[i])>>] = @ + 1],
         tree'[Names[i]] = IF kind[cur][Names[i]] = "DIR" \/ tree[Names[i]] = "NONE"
                           THEN kind[cur][Names[i]] ELSE tree[Names[i]]
  PROVE  /\ Listing(Names[i], P \cup {cur})'
         /\ listed' \in [Shown -> Nat]
         /\ \A m \in NameSet, y \in Decorations : m # Names[i] => listed'[<<m, y>>] = listed[<<m, y>>]
  <1> DEFINE n == Names[i]
             Q == P \cup {cur}
             x == Decorated(cur, n)
             K == kind[cur][n]
             T == tree[n]
  <1>1. /\ n \in NameSet /\ cur \in Devs \ P /\ K # "NONE"
        /\ \A d \in Q : kind[d][n] # "NONE"
        /\ \A j \in 1 .. Len(Names) : Names[j] = n =>
              /\ \A d \in Q : d \in Range(fis) /\ j < pos'[d]
              /\ \A d \in Range(fis) \ skipped : j < pos'[d] /\ kind[d][n] # "NONE" => d \in Q
    BY EntryPast, Zenon
  <1>2. K \in {"DIR", "REG"} /\ T \in {"NONE", "DIR", "REG"}
    BY <1>1 DEF LInv, Types, WInv, LTypes, Kinds
  <1>3. /\ T = "NONE" <=> P = {}
        /\ T = "DIR" <=> \E d \in P : kind[d][n] = "DIR"
        /\ listed[<<n, Plain>>] > 0 <=> P # {}
        /\ listed[<<n, Plain>>] <= 1 \/ \E d \in skipped : kind[d][n] = "REG"
        /\ listed[<<n, ConfDir>>] <= 1
        /\ listed[<<n, ConfDir>>] > 0 => T = "DIR"
        /\ \A d \in Devs : /\ listed[<<n, ConfReg(d)>>] <= 1
                           /\ listed[<<n, ConfReg(d)>>] > 0 => d \in P /\ kind[d][n] = "REG"
        /\ ShownOf(n) = Objects(n, P)
    BY Zenon DEF Listing
  <1>4. listed \in [Shown -> Nat] /\ \A y \in Decorations : listed[<<n, y>>] \in Nat
    BY <1>1, Zenon DEF WInv, LTypes, Shown
  <1>5. ~(K = "DIR" /\ T = "DIR")
    BY Zenon DEF Merged
  <1>6. Objects(n, Q) = Objects(n, P) + 1
    BY <1>1, <1>2, <1>3, <1>5, ObjectsAdd, Zenon
  <1>7. kind' = kind /\ fis' = fis /\ skipped' = skipped /\ cur' = cur
    BY Zenon DEF Past
  <1>8. Objects(n, Q)' = Objects(n, Q)
    BY <1>7, ZenonT(30) DEF Objects
  <1>9. x \in Decorations /\ listed[<<n, x>>] = 0
    <2>1. CASE T = "NONE"
      <3>1. x = Plain
        BY <1>2, <2>1, ZenonT(30) DEF Decorated
      <3> QED
        BY <1>3, <1>4, <2>1, <3>1, DecoFacts
    <2>2. CASE T = "REG" /\ K = "DIR"
      <3>1. x = ConfDir
        BY <2>2, Zenon DEF Decorated
      <3> QED
        BY <1>3, <1>4, <2>2, <3>1, DecoFacts
    <2>3. CASE T # "NONE" /\ K = "REG"
      <3>1. x = ConfReg(cur)
        BY <2>3, Zenon DEF Decorated
      <3> QED
        BY <1>1, <1>3, <1>4, <2>3, <3>1, DecoFacts
    <2> QED
      BY <1>2, <1>5, <2>1, <2>2, <2>3, ZenonT(30)
  <1>10. /\ ShownOf(n)' = ShownOf(n) + 1
         /\ listed' \in [Shown -> Nat] /\ listed'[<<n, x>>] = 1
         /\ \A y \in Decorations : y # x => listed'[<<n, y>>] = listed[<<n, y>>]
         /\ \A m \in NameSet, y \in Decorations : m # n => listed'[<<m, y>>] = listed[<<m, y>>]
    BY <1>1, <1>4, <1>9, ShownMore, ZenonT(30)
  <1>11. /\ tree'[n] # "NONE" /\ Q # {}
         /\ tree'[n] = "DIR" <=> \E d \in Q : kind[d][n] = "DIR"
    BY <1>2, <1>3, <1>5, ZenonT(30)
  <1>12. /\ listed'[<<n, Plain>>] > 0
         /\ listed'[<<n, Plain>>] <= 1 \/ \E d \in skipped : kind[d][n] = "REG"
         /\ listed'[<<n, ConfDir>>] <= 1
         /\ listed'[<<n, ConfDir>>] > 0 => tree'[n] = "DIR"
         /\ \A d \in Devs : /\ listed'[<<n, ConfReg(d)>>] <= 1
                            /\ listed'[<<n, ConfReg(d)>>] > 0 => d \in Q /\ kind[d][n] = "REG"
    <2>1. CASE T = "NONE"
      <3>1. x = Plain
        BY <1>2, <2>1, ZenonT(30) DEF Decorated
      <3> QED
        <4>1. 1 > 0 /\ 1 <= 1
          OBVIOUS
        <4> QED
          BY <1>3, <1>10, <2>1, <3>1, <4>1, DecoFacts, ZenonT(30), ZenonT(30)
    <2>2. CASE T = "REG" /\ K = "DIR"
      <3>1. x = ConfDir
        BY <2>2, Zenon DEF Decorated
      <3> QED
        BY <1>3, <1>10, <2>2, <3>1, DecoFacts
    <2>3. CASE T # "NONE" /\ K = "REG"
      <3>1. x = ConfReg(cur)
        BY <2>3, Zenon DEF Decorated
      <3>2. tree'[n] = T
        BY <2>3, ZenonT(30)
      <3>3. ASSUME NEW d \in Devs
            PROVE  /\ listed'[<<n, ConfReg(d)>>] <= 1
                   /\ listed'[<<n, ConfReg(d)>>] > 0 => d \in Q /\ kind[d][n] = "REG"
        <4>1. CASE d = cur
          BY <1>10, <2>3, <3>1, <4>1
        <4>2. CASE d # cur
          <5>1. listed'[<<n, ConfReg(d)>>] = listed[<<n, ConfReg(d)>>]
            BY <1>1, <1>10, <3>1, <4>2, DecoFacts
          <5> QED
            BY <1>3, <5>1, ZenonT(30)
        <4> QED
          BY <4>1, <4>2, ZenonT(30)
      <3>4. /\ listed'[<<n, Plain>>] = listed[<<n, Plain>>]
            /\ listed'[<<n, ConfDir>>] = listed[<<n, ConfDir>>]
        BY <1>1, <1>10, <3>1, DecoFacts, ZenonT(30), ZenonT(30)
      <3> QED
        BY <1>3, <2>3, <3>2, <3>3, <3>4, ZenonT(30)
    <2> QED
      BY <1>2, <1>5, <2>1, <2>2, <2>3, ZenonT(30)
  <1>13. ShownOf(n)' = Objects(n, Q)'
    BY <1>3, <1>6, <1>8, <1>10, Zenon
  <1>14. Listing(n, Q)'
    BY <1>1, <1>7, <1>11, <1>12, <1>13, ZenonT(60), ZenonT(30) DEF Listing
  <1> QED
    BY <1>10, <1>14, ZenonT(30)

(* The actor: the entry is merged, shown, or does not fit.                 *)
LEMMA ActorWInv ==
  ASSUME LInv, WInv, hmdfs_actor_merge
  PROVE  WInv'
  <1>1. /\ UNCHANGED <<kind, online, offs, mdi, fis, cur, eof>>
        /\ pc = "walk"
    BY Zenon DEF hmdfs_actor_merge, dirs, peer, MergeEntry, EmitEntry, BufferFull, LoseEntry,
       Fails
  <1>2. /\ LTypes /\ Files
        /\ ~eof /\ Reached(cur) /\ room + sent > 0
        /\ sent = 0 => ~result /\ (Fresh(cur) \/ Held(cur))
        /\ sent > 0 => result
    BY <1>1, ZenonT(30) DEF WInv, Walk
  <1>3. /\ room \in Nat /\ sent \in Nat /\ result \in BOOLEAN /\ fis \in Seq(Devs)
        /\ pos \in [Devs -> 1 .. Len(Names) + 1] /\ Len(Names) \in Nat
        /\ tree \in [NameSet -> Kinds]
    BY <1>2, NameFacts, ZenonT(30) DEF LTypes
  <1>4. cur \in Range(fis) /\ cur \in Devs
    BY <1>2, <1>3 DEF Reached, Range
  <1>5. PICK i \in Ahead(cur) :
          /\ \A j \in Ahead(cur) : i <= j
          /\ MergeEntry(i) \/ EmitEntry(i) \/ BufferFull(i) \/ LoseEntry(i)
    BY Zenon DEF hmdfs_actor_merge
  <1>6. /\ i \in Nat /\ i \in 1 .. Len(Names) /\ i + 1 \in 1 .. Len(Names) + 1
        /\ Names[i] \in NameSet /\ kind[cur][Names[i]] \in Kinds
    <2>1. i \in pos[cur] .. Len(Names) /\ pos[cur] \in 1 .. Len(Names) + 1
      BY <1>3, <1>4, Zenon DEF Ahead
    <2>2. i \in Nat /\ i \in 1 .. Len(Names) /\ i + 1 \in 1 .. Len(Names) + 1
      BY <1>3, <2>1
    <2> QED
      BY <1>4, <2>2, NameFacts DEF LInv, Types
  <1>7. \A j \in Ahead(cur) : (\A l \in Ahead(cur) : j <= l) => j = i
    <2>1. \A j \in Ahead(cur) : j \in Int
      BY <1>3, <1>4 DEF Ahead
    <2> QED
      BY <1>5, <1>6, <2>1
  <1>8. (sent = 0 \/ sent > 0) /\ ~(sent = 0 /\ sent > 0)
    BY <1>3
  <1>9. CASE /\ Merged(cur, Names[i])
             /\ pos' = [pos EXCEPT ![cur] = i + 1]
             /\ UNCHANGED <<pc, tree, listed, skipped, result, room, sent>>
    <2>1. (sent # 0 /\ sent > 0) \/ cur \in skipped
      <3>1. ~Fresh(cur)
        BY <1>6, <1>9, ZenonT(30) DEF Fresh, Merged
      <3>2. Held(cur) => cur \in skipped
        BY <1>7, <1>9, ZenonT(30) DEF Held
      <3> QED
        BY <1>2, <1>8, <3>1, <3>2, ZenonT(30), ZenonT(30)
    <2>2. Reached(cur)'
      BY <1>1, <1>2, <1>9, ReachedKept, ZenonT(30), ZenonT(30)
    <2>3. Walk'
      <3>1. cur \in skipped => Held(cur)'
        BY <1>1, <1>9, Zenon DEF Held
      <3> QED
        BY <1>1, <1>2, <1>9, <2>1, <2>2, <3>1, ZenonT(30), ZenonT(30),
           ZenonT(30) DEF Walk
    <2>4. LTypes' /\ Files'
      <3>1. pos' \in [Devs -> 1 .. Len(Names) + 1]
        BY <1>3, <1>4, <1>6, <1>9, ZenonT(30), ZenonT(30)
      <3> QED
        BY <1>1, <1>2, <1>9, <3>1, ZenonT(30), ZenonT(30) DEF LTypes, Files
    <2>5. Past(i)
      BY <1>1, <1>4, <1>5, <1>9, ZenonT(30), ZenonT(30) DEF Past
    <2>6. Listings'
      <3>1. ASSUME NEW n \in NameSet PROVE \E P \in SUBSET Devs : Listing(n, P)'
        <4>1. PICK P \in SUBSET Devs : Listing(n, P)
          BY ZenonT(30) DEF WInv, Listings
        <4>2. CASE n = Names[i]
          <5>1. Listing(Names[i], P \cup {cur})'
            BY <1>9, <2>5, <4>1, <4>2, EntryMerged, ZenonT(30)
          <5> QED
            BY <1>1, <1>4, <4>2, <5>1, ZenonT(30)
        <4>3. CASE n # Names[i]
          BY <1>9, <2>5, <4>1, <4>3, OtherNames, ZenonT(30)
        <4> QED
          BY <4>2, <4>3, ZenonT(30)
      <3> QED
        BY <3>1, ZenonT(30) DEF Listings
    <2> QED
      BY <1>1, <1>9, <2>3, <2>4, <2>6, TargetKept, ZenonT(30), ZenonT(30) DEF
         WInv
  <1>10. CASE /\ ~Merged(cur, Names[i])
              /\ room > 0
              /\ tree' = [tree EXCEPT ![Names[i]] = IF kind[cur][Names[i]] = "DIR" \/ @ = "NONE"
                                                    THEN kind[cur][Names[i]] ELSE @]
              /\ pos' = [pos EXCEPT ![cur] = i + 1]
              /\ listed' = [listed EXCEPT ![<<Names[i], Decorated(cur, Names[i])>>] = @ + 1]
              /\ result' = TRUE /\ room' = room - 1 /\ sent' = sent + 1
              /\ UNCHANGED <<pc, skipped>>
    <2>1. /\ tree' \in [NameSet -> Kinds]
          /\ tree'[Names[i]] = IF kind[cur][Names[i]] = "DIR" \/ tree[Names[i]] = "NONE"
                               THEN kind[cur][Names[i]] ELSE tree[Names[i]]
          /\ \A n \in NameSet : n # Names[i] => tree'[n] = tree[n]
      BY <1>3, <1>6, <1>10, ZenonT(30)
    <2>2. room' \in Nat /\ sent' \in Nat /\ sent' # 0 /\ sent' > 0 /\ room' + sent' > 0
      BY <1>3, <1>10
    <2>3. Reached(cur)'
      BY <1>1, <1>2, <1>10, ReachedKept, ZenonT(30)
    <2>4. Walk'
      BY <1>1, <1>2, <1>10, <2>2, <2>3, ZenonT(30), ZenonT(30) DEF Walk
    <2>5. Past(i)
      BY <1>1, <1>4, <1>5, <1>10, ZenonT(30) DEF Past
    <2>6. ASSUME NEW P \in SUBSET Devs, Listing(Names[i], P)
          PROVE  /\ Listing(Names[i], P \cup {cur})'
                 /\ listed' \in [Shown -> Nat]
                 /\ \A m \in NameSet, y \in Decorations :
                      m # Names[i] => listed'[<<m, y>>] = listed[<<m, y>>]
      BY <1>10, <2>1, <2>5, <2>6, EntryShown, ZenonT(30), ZenonT(30)
    <2>7. PICK P \in SUBSET Devs : Listing(Names[i], P)
      BY <1>6, Zenon DEF WInv, Listings
    <2>8. LTypes' /\ Files'
      <3>1. pos' \in [Devs -> 1 .. Len(Names) + 1]
        BY <1>3, <1>4, <1>6, <1>10, ZenonT(30)
      <3>2. listed' \in [Shown -> Nat] /\ result' \in BOOLEAN
        BY <1>10, <2>6, <2>7, ZenonT(30)
      <3> QED
        BY <1>1, <1>2, <1>10, <2>1, <2>2, <3>1, <3>2, ZenonT(30), ZenonT(30) DEF
           LTypes, Files
    <2>9. Listings'
      <3>1. ASSUME NEW n \in NameSet PROVE \E R \in SUBSET Devs : Listing(n, R)'
        <4>1. CASE n = Names[i]
          BY <1>1, <1>4, <2>6, <2>7, <4>1, ZenonT(30)
        <4>2. CASE n # Names[i]
          <5>1. PICK R \in SUBSET Devs : Listing(n, R)
            BY ZenonT(30) DEF WInv, Listings
          <5>2. /\ tree'[n] = tree[n]
                /\ \A x \in Decorations : listed'[<<n, x>>] = listed[<<n, x>>]
            BY <2>1, <2>6, <2>7, <4>2, ZenonT(30)
          <5>3. Listing(n, R)'
            BY <2>5, <4>2, <5>1, <5>2, OtherNames, ZenonT(30)
          <5> QED
            BY <5>3, ZenonT(30)
        <4> QED
          BY <4>1, <4>2, ZenonT(30)
      <3> QED
        BY <3>1, ZenonT(30) DEF Listings
    <2> QED
      BY <1>1, <1>10, <2>4, <2>8, <2>9, TargetKept, ZenonT(30) DEF WInv
  <1>11. CASE /\ ~Merged(cur, Names[i])
              /\ room = 0
              /\ result' = FALSE
              /\ pc' \in {"leave", "stop"}
              /\ UNCHANGED <<tree, pos, listed, skipped, room, sent>>
    <2>1. sent # 0 /\ sent > 0
      BY <1>2, <1>3, <1>11
    <2>2. Held(cur)
      BY <1>5, <1>11, ZenonT(30) DEF Held
    <2>3. Files' /\ Listings' /\ Reached(cur)' /\ Held(cur)'
      BY <1>1, <1>2, <1>11, <2>2, SameHandle, ZenonT(30), ZenonT(30) DEF WInv
    <2>4. Walk'
      BY <1>1, <1>2, <1>11, <2>1, <2>3, ZenonT(30), ZenonT(30), ZenonT(30) DEF
         Walk
    <2>5. LTypes'
      BY <1>1, <1>2, <1>11, ZenonT(30) DEF LTypes
    <2> QED
      BY <1>1, <1>11, <2>3, <2>4, <2>5, TargetKept, ZenonT(30) DEF WInv
  <1>12. ASSUME EmitEntry(i), Fails, listed' = [listed EXCEPT ![<<Names[i], Plain>>] = @ + 1],
                Decorated(cur, Names[i]) = ConfReg(cur)
         PROVE  WInv'
    <2>1. kind[cur][Names[i]] = "REG" /\ tree[Names[i]] # "NONE"
      <3>1. Decorated(cur, Names[i]) # Plain /\ Decorated(cur, Names[i]) # ConfDir
        BY <1>4, <1>12, DecoFacts, Zenon
      <3> QED
        BY <3>1, Zenon DEF Decorated
    <2>2. tree' = tree
      BY <1>3, <1>6, <1>12, <2>1, Zenon DEF EmitEntry
    <2>3. listed[<<Names[i], Plain>>] > 0
      <3>1. PICK P \in SUBSET Devs : Listing(Names[i], P)
        BY <1>6, Zenon DEF WInv, Listings
      <3> QED
        BY <2>1, <3>1, ZenonT(30) DEF Listing
    <2>4. listed \in [Shown -> Nat] /\ <<Names[i], Plain>> \in Shown
      BY <1>2, <1>6, DecoFacts, Zenon DEF LTypes, Shown
    <2>5. listed' \in [Shown -> Nat] /\ listed'[<<Names[i], Plain>>] > 0
      BY <1>12, <2>4
    <2>6. ASSUME NEW n \in NameSet, NEW x \in Decorations
          PROVE  \/ listed'[<<n, x>>] = listed[<<n, x>>]
                 \/ /\ x = Plain /\ listed[<<n, x>>] > 0 /\ listed'[<<n, x>>] > 0
                    /\ kind[cur][n] = "REG"
      <3>1. CASE <<n, x>> = <<Names[i], Plain>>
        <4>1. n = Names[i] /\ x = Plain
          BY <3>1, Zenon
        <4> QED
          BY <2>1, <2>3, <2>5, <4>1, ZenonT(30), ZenonT(30)
      <3>2. CASE <<n, x>> # <<Names[i], Plain>>
        <4>1. <<n, x>> \in Shown
          BY Zenon DEF Shown
        <4> QED
          BY <1>12, <2>4, <3>2, <4>1, ZenonT(30), ZenonT(30)
      <3> QED
        BY <3>1, <3>2, ZenonT(30)
    <2>7. /\ room' \in Nat /\ sent' \in Nat /\ room' + sent' > 0 /\ result' \in BOOLEAN
          /\ result' <=> sent' > 0
      <3>1. room > 0 /\ result' = TRUE /\ room' = room - 1 /\ sent' = sent + 1
        BY <1>12, Zenon DEF EmitEntry
      <3> QED
        BY <1>3, <3>1
    <2>8. pos[cur] <= i + 1 /\ pos' = [pos EXCEPT ![cur] = i + 1] /\ pc' = "walk"
      BY <1>1, <1>3, <1>4, <1>12 DEF EmitEntry, Ahead
    <2>9. skipped' = skipped \cup {cur}
      BY <1>12, Zenon DEF Fails
    <2> QED
      BY <1>1, <1>6, <2>2, <2>5, <2>6, <2>7, <2>8, <2>9, SkipWInv, ZenonT(30)
  <1>13. CASE LoseEntry(i)
    <2>1. /\ UNCHANGED <<tree, listed, result, room, sent>> /\ skipped' = skipped \cup {cur}
          /\ pc' \in {"walk", "leave", "stop"}
          /\ pos' = pos \/ pos' = [pos EXCEPT ![cur] = i + 1]
      BY <1>1, <1>13, Zenon DEF LoseEntry, Fails, ActorStops, call
    <2>2. (result <=> sent > 0) /\ room + sent > 0 /\ listed \in [Shown -> Nat]
      BY <1>2, <1>8, Zenon DEF LTypes
    <2>3. pos[cur] <= i + 1 /\ pos[cur] <= pos[cur] /\ pos[cur] \in 1 .. Len(Names) + 1
      BY <1>3, <1>4 DEF Ahead
    <2>4. CASE pos' = [pos EXCEPT ![cur] = i + 1]
      BY <1>1, <1>3, <1>6, <2>1, <2>2, <2>3, <2>4, SkipWInv, ZenonT(30)
    <2>5. CASE pos' = pos
      <3>1. pos' = [pos EXCEPT ![cur] = pos[cur]]
        BY <1>3, <1>4, <2>5, Zenon
      <3> QED
        BY <1>1, <1>3, <1>6, <2>1, <2>2, <2>3, <3>1, SkipWInv, ZenonT(30)
    <2> QED
      BY <2>1, <2>4, <2>5, ZenonT(30)
  <1>14. CASE MergeEntry(i)
    BY <1>9, <1>14, Zenon DEF MergeEntry, call
  <1>15. CASE BufferFull(i)
    BY <1>11, <1>15, Zenon DEF BufferFull, ActorStops
  <1>16. CASE EmitEntry(i)
    BY <1>10, <1>12, <1>16, Zenon DEF EmitEntry
  <1> QED
    BY <1>5, <1>13, <1>14, <1>15, <1>16, ZenonT(30), ZenonT(30)

(* mdi->type of a name that asks for no type is that of a comrade.         *)
Chosen == target.deco = Plain /\ mtype # "UNKNOWN" => comrades # <<>>

LEMMA NextChosen ==
  ASSUME LInv, Chosen, [Next]_vars
  PROVE  Chosen'
  <1>1. CASE hmdfs_lookup_merge \/ LookupListed
    <2>1. PICK on, deco : StartLookup(on, deco)
      BY <1>1, ZenonT(30) DEF hmdfs_lookup_merge, LookupListed
    <2>2. target'.deco = deco /\ mtype' = TypeOfName(deco)
      BY <2>1, ZenonT(30) DEF StartLookup
    <2> QED
      BY <2>2, DecoFacts, ZenonT(30) DEF Chosen, TypeOfName
  <1>2. ASSUME NEW d \in Devs, merge_lookup_work_func(d) PROVE Chosen'
    <2>1. target' = target
      BY <1>2, ZenonT(30) DEF merge_lookup_work_func
    <2>2. CASE comrades' = comrades /\ mtype' = mtype
      BY <2>1, <2>2, ZenonT(30) DEF Chosen
    <2>3. CASE comrades' = link_comrade(d)
      <3>1. comrades \in Seq(Devs)
        BY Zenon DEF LInv, Types
      <3>2. Len(comrades') = Len(comrades) + 1 /\ Len(comrades) \in Nat
        BY <1>2, <2>3, <3>1 DEF link_comrade
      <3> QED
        BY <3>2 DEF Chosen
    <2> QED
      BY <1>2, <2>2, <2>3, ZenonT(30) DEF merge_lookup_work_func
  <1>3. CASE UNCHANGED mdi
    BY <1>3, ZenonT(30) DEF Chosen, mdi
  <1>4. \/ hmdfs_lookup_merge \/ LookupListed
        \/ \E d \in Devs : merge_lookup_work_func(d)
        \/ UNCHANGED mdi
    BY Zenon DEF Next, vars, mdi, LookupReturn, hmdfs_dir_open_merge, hmdfs_iterate_merge,
       hmdfs_iterate_remote, hmdfs_actor_merge, LowerExhausted, LowerFails, LeaveDevice,
       PeerOffline
  <1> QED
    BY <1>1, <1>2, <1>3, <1>4, ZenonT(30)

LEMMA NextWInv ==
  ASSUME LInv, WInv, [Next]_vars
  PROVE  WInv'
  BY LookupWInv, OpenWInv, ListedWInv, IterateWInv, RemoteWInv, ActorWInv, ExhaustedWInv,
     FailsWInv, LeaveWInv, ZenonT(30), ZenonT(30) DEF Next

LEMMA InitWInv == Init => WInv /\ Chosen
  <1> SUFFICES ASSUME Init PROVE WInv /\ Chosen
    BY Zenon
  <1>1. Untouched /\ fis = <<>> /\ pc = "start"
    BY Zenon DEF Init, Untouched
  <1>2. Files /\ Walk
    BY <1>1 DEF Files, Walk
  <1>3. LTypes
    <2>1. fis \in Seq(Devs) /\ cur \in Devs \cup {-1}
      BY DevFacts DEF Init
    <2>2. pos \in [Devs -> 1 .. Len(Names) + 1]
      BY NameFacts DEF Init
    <2> QED
      BY <2>1, <2>2, ZenonT(30) DEF Init, LTypes, Kinds
  <1>4. Listings
    BY <1>1, <1>3, NothingListed, Zenon DEF LTypes
  <1>5. Somewhere /\ Kept /\ Chosen
    BY Zenon DEF Init, Somewhere, Kept, Chosen
  <1> QED
    BY <1>2, <1>3, <1>4, <1>5, ZenonT(30) DEF WInv

(* What the walk has done to the entries of name n when the user stops.    *)
LEMMA EndedCounts ==
  ASSUME WInv, pc = "ended", NEW n \in NameSet
  PROVE  /\ ShownOf(n) <= Objects(n, Walked)
         /\ ShownOf(n) >= Objects(n, Walked \ skipped)
  <1>1. PICK P \in SUBSET Devs : Listing(n, P)
    BY ZenonT(30) DEF WInv, Listings
  <1>2. PICK i \in 1 .. Len(Names) : Names[i] = n
    BY NameFacts, Zenon
  <1>3. /\ fis \in Seq(Devs) /\ pos \in [Devs -> 1 .. Len(Names) + 1] /\ Files
        /\ Len(Names) \in Nat /\ eof \in BOOLEAN
    BY NameFacts, Zenon DEF WInv, LTypes
  <1>4. /\ Len(fis) \in Nat /\ \A j \in 1 .. Len(fis) : fis[j] \in Devs
        /\ Range(fis) = {fis[j] : j \in 1 .. Len(fis)}
    BY <1>3 DEF Range
  <1>5. /\ ShownOf(n) = Objects(n, P)
        /\ \A d \in P : d \in Range(fis) /\ i < pos[d]
        /\ \A d \in Range(fis) \ skipped : i < pos[d] /\ kind[d][n] # "NONE" => d \in P
    BY <1>1, <1>2, Zenon DEF Listing
  <1>6. /\ Walked \in SUBSET Devs /\ Walked \subseteq Range(fis)
        /\ P \subseteq Walked
        /\ \A d \in Walked : Drained(d)
    <2>1. CASE eof
      <3>1. \A j \in 1 .. Len(fis) : Drained(fis[j])
        BY <2>1, Zenon DEF WInv, Walk
      <3>2. Walked = Range(fis)
        BY <2>1, Zenon DEF Walked
      <3> QED
        BY <1>4, <1>5, <3>1, <3>2, ZenonT(30)
    <2>2. CASE ~eof
      <3>1. Reached(cur) /\ Drained(cur)
        BY <2>2, Zenon DEF WInv, Walk
      <3>2. PICK k \in 1 .. Len(fis) :
              /\ fis[k] = cur
              /\ \A j \in 1 .. k - 1 : Drained(fis[j])
              /\ \A j \in k + 1 .. Len(fis) : pos[fis[j]] = 1
        BY <3>1, ZenonT(30) DEF Reached
      <3>3. ASSUME NEW j \in 1 .. Len(fis)
            PROVE  (\A l \in 1 .. j - 1 : fis[l] # cur) <=> j <= k
        <4>1. ASSUME j <= k, NEW l \in 1 .. j - 1 PROVE fis[l] # cur
          <5>1. l \in 1 .. Len(fis) /\ l # k
            BY <1>4, <4>1
          <5> QED
            BY <1>3, <3>2, <5>1, ZenonT(30) DEF Files
        <4>2. ASSUME ~(j <= k) PROVE k \in 1 .. j - 1
          BY <1>4, <4>2
        <4> QED
          BY <3>2, <4>1, <4>2, ZenonT(30)
      <3>4. Walked = {fis[j] : j \in {j \in 1 .. Len(fis) : j <= k}}
        BY <2>2, <3>3, ZenonT(30) DEF Walked
      <3>5. ASSUME NEW j \in 1 .. Len(fis), j <= k PROVE Drained(fis[j])
        <4>1. j = k \/ j \in 1 .. k - 1
          BY <1>4, <3>5
        <4> QED
          BY <3>1, <3>2, <4>1, ZenonT(30)
      <3>6. ASSUME NEW j \in 1 .. Len(fis), fis[j] \in P PROVE j <= k
        <4>1. ASSUME ~(j <= k) PROVE FALSE
          <5>1. pos[fis[j]] = 1
            BY <1>4, <3>2, <4>1
          <5>2. i < pos[fis[j]]
            BY <1>5, <3>6, Zenon
          <5> QED
            BY <1>3, <5>1, <5>2
        <4> QED
          BY <4>1, ZenonT(30)
      <3> QED
        BY <1>4, <1>5, <3>4, <3>5, <3>6, ZenonT(30), ZenonT(30)
    <2> QED
      BY <2>1, <2>2, ZenonT(30)
  <1>7. \A d \in Walked \ skipped : kind[d][n] # "NONE" => d \in P
    <2>1. ASSUME NEW d \in Walked \ skipped, kind[d][n] # "NONE" PROVE d \in P
      <3>1. d \in Devs /\ d \in Range(fis) /\ Ahead(d) = {}
        BY <1>6, <2>1, ZenonT(30) DEF Drained
      <3>2. i \notin pos[d] .. Len(Names)
        BY <1>2, <2>1, <3>1, ZenonT(30) DEF Ahead
      <3>3. i < pos[d]
        BY <1>3, <3>1, <3>2
      <3> QED
        BY <1>5, <2>1, <3>1, <3>3, ZenonT(30)
    <2> QED
      BY <2>1, ZenonT(30)
  <1>8. Objects(n, P) <= Objects(n, Walked)
    BY <1>6, ObjectsMore, Zenon
  <1>9. Objects(n, Walked \ skipped) <= Objects(n, P)
    BY <1>6, <1>7, ObjectsMore, Zenon
  <1>10. Objects(n, P) \in Int /\ Objects(n, Walked \ skipped) \in Int
    BY <1>6, ObjectsIs
  <1> QED
    BY <1>5, <1>8, <1>9, <1>10, ZenonT(30)

(* The listing of a merged directory, for any devices, entries, clashes    *)
(* and buffers: hmdfs_iterate_merge and hmdfs_actor_merge show no name     *)
(* twice but a file that could not be renamed, give every object of the    *)
(* devices walked a name of its own, and stop short only at a first device *)
(* with nothing to give or at one of which something had to be left out,   *)
(* however often peers go offline, reads fail and memory runs out.         *)
THEOREM ListingSafe == Spec => []ListingExact
  <1>1. WInv => ListingExact
    <2> SUFFICES ASSUME WInv PROVE ListingExact
      BY Zenon
    <2>1. ASSUME NEW s \in Shown
          PROVE  \/ listed[s] <= 1
                 \/ s[2] = Plain /\ \E d \in skipped : kind[d][s[1]] = "REG"
      <3>1. PICK n \in NameSet, x \in Decorations : s = <<n, x>>
        BY DEF Shown
      <3>2. PICK P \in SUBSET Devs : Listing(n, P)
        BY ZenonT(30) DEF WInv, Listings
      <3>3. /\ listed[<<n, Plain>>] <= 1 \/ \E d \in skipped : kind[d][n] = "REG"
            /\ listed[<<n, ConfDir>>] <= 1
            /\ \A d \in Devs : listed[<<n, ConfReg(d)>>] <= 1
        BY <3>2, Zenon DEF Listing
      <3>4. s[1] = n /\ s[2] = x
        BY <3>1, Zenon
      <3> QED
        BY <3>1, <3>3, <3>4, DecoFacts, ZenonT(30)
    <2>2. pc = "ended" /\ ~eof =>
            cur \in skipped \/ (cur = fis[1] /\ \A n \in NameSet : kind[cur][n] = "NONE")
      BY Zenon DEF WInv, Walk
    <2> QED
      BY <2>1, <2>2, EndedCounts, ZenonT(30) DEF ListingExact
  <1> QED
    BY <1>1, InitLInv, NextLInv, InitWInv, NextWInv, PTL DEF Spec

(* A name that the listing showed leads back to what it was made from, for *)
(* any devices and entries: the renames of hmdfs_actor_merge against       *)
(* hmdfs_get_real_dname and merge_lookup_work_func.                        *)
THEOREM ListedSafe == Spec => []ListedResolves
  <1>1. LInv /\ WInv /\ Chosen => ListedResolves
    <2> SUFFICES ASSUME LInv, WInv, Chosen, pc = "done", offs = 0 PROVE ListedResolves
      BY Zenon DEF ListedResolves
    <2>1. Found /\ works = {} /\ Types /\ List
      BY Zenon DEF LInv
    <2>2. \A d \in Devs : Reachable(d)
      BY Zenon DEF WInv, Kept, Reachable, Devs
    <2>3. Finished = Asked
      BY <2>1, Zenon DEF Finished
    <2>4. target.deco \in Decorations
      BY <2>1, ZenonT(30) DEF Types
    <2>5. comrades \in Seq(Devs) /\ (comrades = <<>> => Got = {}) /\ Got = {comrades[i] : i \in 1 .. Len(comrades)}
      BY <2>1 DEF Types, Got, Range
    <2>6. CASE target.deco = Plain
      <3>1. Asked = Devs /\ target.deco[1] = "plain" /\ target.deco # ConfDir
        BY <2>6, DecoFacts, Zenon DEF Asked
      <3>2. PICK d \in Devs : target.on[d] # "NONE"
        BY <2>6, Zenon DEF WInv, Somewhere
      <3>3. mtype # "UNKNOWN"
        BY <2>1, <2>2, <2>3, <3>1, <3>2, ZenonT(30) DEF Found
      <3>4. comrades # <<>>
        BY <2>6, <3>3, ZenonT(30) DEF Chosen
      <3> QED
        BY <3>1, <3>4, ZenonT(30) DEF ListedResolves
    <2>7. CASE target.deco = ConfDir
      <3>1. Asked = Devs /\ target.deco[1] = "dir"
        BY <2>7, DecoFacts, ZenonT(30) DEF Asked
      <3>2. mtype = "DIR"
        BY <2>7, <3>1, DecoFacts, ZenonT(30) DEF WInv, Kept, TypeOfName
      <3>3. PICK d \in Devs : target.on[d] = "DIR"
        BY <2>7, ZenonT(30) DEF WInv, Somewhere
      <3>4. Got = {e \in Devs : target.on[e] = "DIR"}
        BY <2>1, <2>2, <2>3, <3>1, <3>2, ZenonT(30) DEF Found
      <3>5. comrades # <<>>
        BY <2>5, <3>3, <3>4, ZenonT(30)
      <3> QED
        BY <3>1, <3>2, <3>4, <3>5, ZenonT(30) DEF ListedResolves, Got
    <2>8. ASSUME NEW d \in Devs, target.deco = ConfReg(d) PROVE ListedResolves
      <3>1. target.deco[1] = "reg" /\ target.deco[2] = d /\ target.deco # ConfDir /\ target.deco # Plain
        BY <2>8, DecoFacts, ZenonT(30)
      <3>2. Asked = {d}
        BY <3>1, ZenonT(30) DEF Asked
      <3>3. mtype = "REG"
        BY <3>1, Zenon DEF WInv, Kept, TypeOfName
      <3>4. target.on[d] = "REG"
        BY <3>1, Zenon DEF WInv, Somewhere
      <3>5. comrades # <<>> /\ Len(comrades) <= 1 /\ Got \subseteq {d}
        BY <2>1, <2>2, <2>3, <3>2, <3>3, <3>4, ZenonT(30) DEF Found
      <3>6. Len(comrades) = 1 /\ comrades[1] = d
        <4>1. Len(comrades) \in Nat /\ Len(comrades) # 0
          BY <2>5, <3>5
        <4>2. Len(comrades) = 1
          <5>1. \A l \in Nat : l # 0 /\ l <= 1 => l = 1
            OBVIOUS
          <5> QED
            BY <3>5, <4>1, <5>1, ZenonT(30), ZenonT(30)
        <4>3. comrades[1] \in Got
          BY <2>5, <4>2
        <4> QED
          BY <3>5, <4>2, <4>3, ZenonT(30)
      <3>7. comrades = <<d>>
        BY <2>5, <3>6
      <3> QED
        BY <3>1, <3>3, <3>5, <3>7, ZenonT(30) DEF ListedResolves
    <2> QED
      BY <2>4, <2>6, <2>7, <2>8, DecoFacts, ZenonT(30)
  <1> QED
    BY <1>1, InitLInv, NextLInv, InitWInv, NextWInv, NextChosen, PTL DEF Spec

-----------------------------------------------------------------------------
(* A step of a listing.                                                    *)
Forward ==
  fis # <<>> /\ fis' = fis =>
    /\ \A d \in Devs : pos'[d] >= pos[d]
    /\ \A s \in Shown : listed'[s] >= listed[s]
    /\ \A k, l \in 1 .. Len(fis) : cur = fis[k] /\ cur' = fis[l] => k <= l
    /\ eof => eof'

(* As long as a directory is open, its listing only goes forward, over all *)
(* calls of getdents: no position of a lower file moves back, what has     *)
(* been shown is not taken back, a device that was left is not entered     *)
(* again, and the end, once reached, stays (hmdfs_iterate_merge's resuming *)
(* with cur_dev and get_next_hmdfs_file_info).                             *)
ListingForward == [][Forward]_vars

(* A step that leaves the place of the walk alone, or moves one position.  *)
LEMMA StaysForward ==
  ASSUME WInv, UNCHANGED <<fis, cur, eof>>,
         pos' = pos \/ \E p \in Nat : p >= pos[cur] /\ pos' = [pos EXCEPT ![cur] = p],
         listed' = listed \/ \E s : listed' = [listed EXCEPT ![s] = @ + 1]
  PROVE  Forward
  <1>1. /\ fis \in Seq(Devs) /\ pos \in [Devs -> 1 .. Len(Names) + 1] /\ listed \in [Shown -> Nat]
        /\ Files /\ Len(Names) \in Nat
    BY NameFacts, Zenon DEF WInv, LTypes
  <1>2. \A d \in Devs : pos[d] \in Nat /\ pos'[d] >= pos[d]
    <2>1. \A d \in Devs : pos[d] \in Nat
      BY <1>1
    <2>2. CASE pos' = pos
      BY <2>1, <2>2
    <2>3. CASE \E p \in Nat : p >= pos[cur] /\ pos' = [pos EXCEPT ![cur] = p]
      BY <1>1, <2>1, <2>3
    <2> QED
      BY <2>1, <2>2, <2>3, ZenonT(30)
  <1>3. \A s \in Shown : listed'[s] >= listed[s]
    <2>1. CASE listed' = listed
      BY <1>1, <2>1
    <2>2. CASE \E s : listed' = [listed EXCEPT ![s] = @ + 1]
      BY <1>1, <2>2
    <2> QED
      BY <2>1, <2>2, ZenonT(30)
  <1>4. \A k, l \in 1 .. Len(fis) : fis[k] = fis[l] => k <= l
    <2>1. \A k, l \in 1 .. Len(fis) : fis[k] = fis[l] => k = l
      BY <1>1, Zenon DEF Files
    <2>2. \A k \in 1 .. Len(fis) : k <= k
      BY <1>1
    <2> QED
      BY <2>1, <2>2, ZenonT(30)
  <1> QED
    BY <1>2, <1>3, <1>4, ZenonT(30) DEF Forward

(* The device at hand inside a call.                                       *)
LEMMA AtDevice ==
  ASSUME WInv, pc \in {"enter", "walk", "leave", "stop"}
  PROVE  cur \in Devs /\ ~eof
  <1>1. ~eof /\ Reached(cur)
    BY Zenon DEF WInv, Walk
  <1>2. PICK k \in 1 .. Len(fis) : fis[k] = cur
    BY <1>1, Zenon DEF Reached
  <1>3. fis \in Seq(Devs)
    BY Zenon DEF WInv, LTypes
  <1>4. \A i \in 1 .. Len(fis) : fis[i] \in Devs
    BY <1>3
  <1> QED
    BY <1>1, <1>2, <1>4, ZenonT(30)

LEMMA NextForward ==
  ASSUME LInv, WInv, Next
  PROVE  Forward
  <1>1. /\ fis \in Seq(Devs) /\ pos \in [Devs -> 1 .. Len(Names) + 1] /\ listed \in [Shown -> Nat]
        /\ Files /\ Len(Names) \in Nat /\ \A d \in Devs : pos[d] \in Nat
    BY NameFacts DEF WInv, LTypes
  <1>2. ASSUME UNCHANGED <<fis, cur, eof, pos, listed>> PROVE Forward
    BY <1>2, StaysForward, Zenon
  <1>3. CASE \/ hmdfs_lookup_merge \/ LookupReturn \/ PeerOffline \/ LowerExhausted
             \/ \E d \in Devs : merge_lookup_work_func(d)
    <2>1. UNCHANGED <<fis, cur, eof, pos, listed>>
      BY <1>3, Zenon DEF hmdfs_lookup_merge, LookupReturn, PeerOffline,
         LowerExhausted, merge_lookup_work_func, head
    <2> QED
      BY <1>2, <2>1, ZenonT(30)
  <1>4. CASE hmdfs_dir_open_merge
    <2>1. fis = <<>>
      BY <1>4, Zenon DEF hmdfs_dir_open_merge, WInv, Walk
    <2> QED
      BY <2>1, ZenonT(30) DEF Forward
  <1>5. CASE LookupListed
    <2>1. fis' = <<>>
      BY <1>5, Zenon DEF LookupListed, hmdfs_dir_release_merge
    <2> QED
      BY <2>1, ZenonT(30) DEF Forward
  <1>6. CASE hmdfs_iterate_merge
    <2>1. UNCHANGED <<fis, pos, listed, eof>> /\ cur' \in {cur, IF In(cur, fis) THEN cur ELSE Head(fis)}
      BY <1>6, Zenon DEF hmdfs_iterate_merge
    <2>2. CASE cur' = cur
      BY <1>2, <2>1, <2>2, Zenon
    <2>3. CASE ~In(cur, fis)
      <3>1. \A k \in 1 .. Len(fis) : cur # fis[k]
        BY <1>1, <2>3 DEF In, Range
      <3>2. \A d \in Devs : pos[d] >= pos[d]
        BY <1>1
      <3>3. \A s \in Shown : listed[s] >= listed[s]
        BY <1>1
      <3> QED
        BY <2>1, <3>1, <3>2, <3>3, ZenonT(30) DEF Forward
    <2> QED
      BY <2>1, <2>2, <2>3, ZenonT(30)
  <1>7. CASE hmdfs_iterate_remote
    <2>1. cur \in Devs
      BY <1>7, AtDevice, Zenon DEF hmdfs_iterate_remote
    <2>2. Len(Names) + 1 \in Nat /\ Len(Names) + 1 >= pos[cur]
      BY <1>1, <2>1
    <2>3. /\ UNCHANGED <<fis, cur, eof, listed>>
          /\ pos' = pos \/ pos' = [pos EXCEPT ![cur] = Len(Names) + 1]
      BY <1>7, Zenon DEF hmdfs_iterate_remote, AtEnd
    <2> QED
      BY <2>2, <2>3, StaysForward, Zenon
  <1>8. CASE hmdfs_actor_merge
    <2>1. cur \in Devs
      BY <1>8, AtDevice, Zenon DEF hmdfs_actor_merge
    <2>2. PICK i \in Ahead(cur) :
            /\ pos' = pos \/ pos' = [pos EXCEPT ![cur] = i + 1]
            /\ listed' = listed \/ \E s : listed' = [listed EXCEPT ![s] = @ + 1]
      BY <1>8, Zenon DEF hmdfs_actor_merge, MergeEntry, EmitEntry, BufferFull, LoseEntry
    <2>3. i + 1 \in Nat /\ i + 1 >= pos[cur]
      BY <1>1, <2>1 DEF Ahead
    <2>4. UNCHANGED <<fis, cur, eof>>
      BY <1>8, Zenon DEF hmdfs_actor_merge
    <2> QED
      BY <2>2, <2>3, <2>4, StaysForward, Zenon
  <1>9. CASE LeaveDevice
    <2>1. UNCHANGED <<fis, pos, listed>> /\ ~eof
      BY <1>9, AtDevice, Zenon DEF LeaveDevice
    <2>2. CASE ~(pc = "leave" /\ result)
      <3>1. UNCHANGED <<cur, eof>>
        BY <1>9, <2>2, Zenon DEF LeaveDevice
      <3> QED
        BY <1>2, <2>1, <3>1, ZenonT(30)
    <2>3. CASE pc = "leave" /\ result
      <3>1. cur' = NextDev(cur)
        BY <1>9, <2>3, Zenon DEF LeaveDevice
      <3>2. ASSUME NEW k \in 1 .. Len(fis), NEW l \in 1 .. Len(fis), cur = fis[k], cur' = fis[l]
            PROVE  k <= l
        <4> DEFINE c == CHOOSE i \in 1 .. Len(fis) : fis[i] = cur
        <4>1. c \in 1 .. Len(fis) /\ fis[c] = cur
          BY <3>2, Zenon
        <4>2. NextDev(cur) = IF c < Len(fis) THEN fis[c + 1] ELSE -1
          BY Zenon DEF NextDev
        <4> HIDE DEF c
        <4>3. c = k
          BY <1>1, <3>2, <4>1, ZenonT(30) DEF Files
        <4>4. fis[l] \in Devs /\ fis[l] # -1 /\ Len(fis) \in Nat
          BY <1>1, DevFacts
        <4>5. k < Len(fis) /\ fis[l] = fis[k + 1]
          BY <3>1, <3>2, <4>2, <4>3, <4>4, Zenon
        <4>6. k + 1 \in 1 .. Len(fis)
          BY <4>4, <4>5
        <4>7. l = k + 1
          BY <1>1, <4>5, <4>6, Zenon DEF Files
        <4> QED
          BY <4>4, <4>7
      <3>3. \A d \in Devs : pos[d] >= pos[d]
        BY <1>1
      <3>4. \A s \in Shown : listed[s] >= listed[s]
        BY <1>1
      <3> QED
        BY <2>1, <3>2, <3>3, <3>4, ZenonT(30) DEF Forward
    <2> QED
      BY <2>2, <2>3, ZenonT(30)
  <1>10. CASE LowerFails
    <2>1. cur \in Devs
      BY <1>10, AtDevice, ZenonT(30) DEF LowerFails
    <2>2. Len(Names) + 1 \in Nat /\ Len(Names) + 1 >= pos[cur]
      BY <1>1, <2>1
    <2>3. UNCHANGED <<fis, cur, eof, listed>> /\ pos' = [pos EXCEPT ![cur] = Len(Names) + 1]
      BY <1>10, Zenon DEF LowerFails, AtEnd
    <2> QED
      BY <2>2, <2>3, StaysForward, Zenon
  <1> QED
    BY <1>3, <1>4, <1>5, <1>6, <1>7, <1>8, <1>9, <1>10, ZenonT(30) DEF Next

(* For any devices, entries and buffers, and whoever goes offline: the     *)
(* calls of getdents on an open directory never go back to a device or an  *)
(* entry that hmdfs_iterate_merge has left, so that a reader who stops at  *)
(* the end has gone over every device once.                                *)
THEOREM ForwardSafe == Spec => ListingForward
  <1>1. LInv /\ WInv /\ [Next]_vars => [Forward]_vars
    BY NextForward, Zenon
  <1> QED
    BY <1>1, InitLInv, NextLInv, InitWInv, NextWInv, PTL DEF Spec, ListingForward

=============================================================================
