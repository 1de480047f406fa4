---------------------------- MODULE RequestReply ----------------------------
(***************************************************************************)
(* What the request layer of hmdfs promises: a request that was issued is  *)
(* finished exactly once, by a reply, by giving up on it, or because it    *)
(* could not be sent.                                                      *)
(***************************************************************************)
CONSTANT Reqs

VARIABLE call

Outcomes == {"replied", "abandoned", "failed"}

Init == call = [r \in Reqs |-> "idle"]

Issue(r) ==
  /\ call[r] = "idle"
  /\ call' = [call EXCEPT ![r] = "issued"]

Finish(r) ==
  /\ call[r] = "issued"
  /\ \E o \in Outcomes : call' = [call EXCEPT ![r] = o]

(* The peer is off line, or just going off line.                           *)
Refuse(r) ==
  /\ call[r] = "idle"
  /\ call' = [call EXCEPT ![r] = "failed"]

Next == \E r \in Reqs : Issue(r) \/ Finish(r) \/ Refuse(r)

Spec == Init /\ [][Next]_call

=============================================================================
