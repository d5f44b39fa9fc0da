----------------------------- MODULE KeyService ------------------------------
(***************************************************************************)
(* What the LLKI promises to software: a server of one core's key that     *)
(* takes requests in order and answers each of them once, truthfully.  A   *)
(* request acts on the key only while it is the oldest one unanswered.     *)
(*                                                                         *)
(* Several things may happen in one clock cycle, so a step combines a new  *)
(* request or none, the reading of the oldest response or not, and some    *)
(* work on the oldest request or its answer.                               *)
(***************************************************************************)
EXTENDS LlkiPkg, Sequences

CONSTANTS
  Requests,       \* what may be asked: records with msg_id, key_index and rsvd
  Keys            \* the two words each key index stands for

VARIABLES
  requests,       \* requests not yet answered
  responses,      \* responses not yet read
  key             \* the two key words the core holds

serviceVars == <<requests, responses, key>>

Unlocked == <<ZeroWord, ZeroWord>>

Init == requests = <<>> /\ responses = <<>> /\ key = Unlocked

IsLoad(r)   == r.msg_id = LLKI_MID_C2LOADKEYREQ
IsClear(r)  == r.msg_id = LLKI_MID_C2CLEARKEYREQ
IsStatus(r) == r.msg_id = LLKI_MID_C2KEYSTATUSREQ

\* A load puts the words of its key in, a clear takes both out.
ChangesKey(r) ==
  \/ IsLoad(r) /\ \E w \in {1, 2} : key' = [key EXCEPT ![w] = Keys[r.key_index][w]]
  \/ IsClear(r) /\ key' = Unlocked

\* The answers that may be given to r: an acknowledgement only of what is done.
MayAnswer(r, id, st) ==
  \/ /\ IsLoad(r) /\ key = Keys[r.key_index]
     /\ id = LLKI_MID_C2LOADKEYACK /\ st = LLKI_STATUS_GOOD
  \/ /\ IsClear(r) /\ key = Unlocked
     /\ id = LLKI_MID_C2CLEARKEYACK /\ st = LLKI_STATUS_GOOD
  \/ /\ IsStatus(r) /\ id = LLKI_MID_C2KEYSTATUSRESP
     /\ \/ st = LLKI_STATUS_KEY_PRESENT /\ key = Keys[r.key_index]
        \/ st = LLKI_STATUS_KEY_NOT_PRESENT

\* The oldest request is worked on, or nothing happens to it.
Work(sent, left) ==
  /\ requests' = requests \o sent /\ responses' = left
  /\ UNCHANGED key \/ (requests # <<>> /\ ChangesKey(Head(requests)))

\* The oldest request is answered, under its own tag.
Reply(sent, left) ==
  /\ requests # <<>> /\ requests' = Tail(requests) \o sent
  /\ \E id, st \in Byte :
       /\ MayAnswer(Head(requests), id, st)
       /\ responses' = Append(left, [msg_id |-> id, status |-> st,
                                     rsvd |-> Head(requests).rsvd])
  /\ UNCHANGED key

Step(sent, left) == Work(sent, left) \/ Reply(sent, left)

Next ==
  \E sent \in { <<>> } \cup { <<r>> : r \in Requests } :
    \/ Step(sent, responses)
    \/ responses # <<>> /\ Step(sent, Tail(responses))

Spec == Init /\ [][Next]_serviceVars
=============================================================================
