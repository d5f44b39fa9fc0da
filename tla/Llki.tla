-------------------------------- MODULE Llki ---------------------------------
(***************************************************************************)
(* The whole Logic Locking Key Interface: the processor's driver, the SRoT,*)
(* the TileLink fabric, the LLKI-PP of the AES core and its mock TSS, all  *)
(* in one clock domain.                                                    *)
(*                                                                         *)
(* The fabric and the OpenTitan bus adapters are not in the repository.    *)
(* They are modelled from how the wrappers use them: a request is accepted *)
(* in a cycle with host_req_i and gnt, reaches the LLKI-PP in that cycle   *)
(* or any later one, and is answered at least one cycle later; the LLKI-PP *)
(* side has one access at a time.                                          *)
(***************************************************************************)
EXTENDS Driver, PpTss

CONSTANTS
  StableGrant,    \* is a_ready high whenever no request is waiting?
  Keys            \* the two key words Setup stores under each key index used

KeyWordIfForKeyRam(w) == InKeyRam(w.addr) => w.data \in Word

ASSUME LlkiAssumption ==
  /\ StableGrant \in BOOLEAN
  /\ \A w \in StrayWrites : KeyWordIfForKeyRam(w)
  /\ \A i \in DOMAIN Setup : KeyWordIfForKeyRam(Setup[i])

VARIABLES
  fab_req,     \* requests accepted from the SRoT that the LLKI-PP has not seen
  fab_rsp      \* response the SRoT has not seen, or None

fabricVars == <<fab_req, fab_rsp>>
vars == <<srotVars, driverVars, pairVars, fabricVars>>

Init ==
  /\ keyindexram = [s \in IndexSlots |-> InvalidEntry]
  /\ keyram = [s \in KeySlots |-> ZeroWord]
  /\ SrotInit /\ DriverInit
  /\ PpInit /\ TssInit
  /\ fab_req = <<>> /\ fab_rsp = None

Grants == IF StableGrant THEN { fab_req = <<>> }
          ELSE IF Len(fab_req) < 2 THEN BOOLEAN ELSE { FALSE }

WriteAck == [op |-> "ack"]

\* What the LLKI-PP's register decode returns.
RegisterValue(acc) ==
  CASE acc.op = "write" -> WriteAck
    [] acc.op = "read_ctrlsts" -> pp_ctrlstatus
    [] acc.op = "read_sendrecv" -> pp_response_word

\* Requests at the door of the LLKI-PP in this cycle.
Pending(gnt) == fab_req \o (IF gnt /\ host # NoAccess THEN <<host>> ELSE <<>>)

\* The access the LLKI-PP sees and the response the SRoT sees in this cycle.
Delivered(gnt, deliver) == IF deliver THEN Head(Pending(gnt)) ELSE NoAccess
Returned(respond) == IF respond THEN fab_rsp ELSE None

\* The fabric delivers a request or not, and returns the response it holds or not.
Fabric(gnt, deliver, respond) ==
  /\ deliver => Pending(gnt) # <<>> /\ fab_rsp = None
  /\ respond => fab_rsp # None
  /\ fab_req' = IF deliver THEN Tail(Pending(gnt)) ELSE Pending(gnt)
  /\ fab_rsp' = IF respond THEN None
                ELSE IF deliver THEN RegisterValue(Delivered(gnt, deliver)) ELSE fab_rsp

\* One rising edge for everything.
Cycle(acc, gnt, deliver, respond) ==
  /\ Fabric(gnt, deliver, respond)
  /\ DriverStep(acc) /\ Ports(acc)
  /\ Stm(gnt, FALSE, Returned(respond))
  /\ PairEdge(Delivered(gnt, deliver))

Next ==
  \E gnt \in Grants, deliver, respond \in BOOLEAN :
    \E acc \in DriverAccesses : Cycle(acc, gnt, deliver, respond)

Delivers == \E gnt \in Grants, acc \in DriverAccesses : Cycle(acc, gnt, TRUE, FALSE)

Responds == \E gnt \in Grants, acc \in DriverAccesses : Cycle(acc, gnt, FALSE, TRUE)

\* The polling loop of send_srot_message never gives up.
DriverWorks ==
  \E gnt \in Grants, deliver, respond \in BOOLEAN :
    \E acc \in {PollStatus, ReadMsg} : Cycle(acc, gnt, deliver, respond)

\* The clock runs, the fabric drops nothing, the processor keeps polling.
Fairness ==
  /\ WF_vars(Next) /\ WF_vars(Delivers) /\ WF_vars(Responds) /\ WF_vars(DriverWorks)

Spec == Init /\ [][Next]_vars

FairSpec == Spec /\ Fairness
-----------------------------------------------------------------------------
\* The SRoT is about to report what the LLKI-PP answered: a request it rejected
\* itself keeps the msg_id it came with, whatever it is, next to an error status.
Reports(id) ==
  srot_state = "C2_RESPONSE" /\ msg.msg_id = id /\ msg.status \in GoodStatus

AwaitsBus == { "KL_REQ_ISSUE", "KL_REQ_WAIT_FOR_ACK", "KL_CHECK_READY_STATUS",
               "KL_LOAD_KEY_WORD", "KL_LOAD_KEY_WORD_WAIT_FOR_ACK",
               "KL_CHECK_RESP_STATUS", "KL_RESP_READ" }

(* Every bus transaction the SRoT waits for is under way, exactly once, and *)
(* none is under way when it waits for none: a request is neither withdrawn *)
(* before it is accepted nor accepted twice.                                *)
OneTransaction ==
  Len(Slot(fab_rsp)) + Len(fab_req) + (IF host = NoAccess THEN 0 ELSE 1)
    = (IF srot_state \in AwaitsBus THEN 1 ELSE 0)

(* The LLKI-PP never rejects what the SRoT sends: the SRoT writes a key word*)
(* only when the TSS can take it, although the ready bit it polls is two    *)
(* registers old, and never a message the LLKI-PP does not know.            *)
NoLossOfSync == ~(pp_state = "RESPONSE" /\ pp_msg_id = LLKI_MID_KLERRORRESP)

(* A load is acknowledged only when the TSS holds the words the key index   *)
(* entry of that very request points to, in order.                          *)
LoadAckMeansLoaded ==
  Reports(LLKI_MID_KLLOADKEYACK) =>
    /\ Current.msg_id = LLKI_MID_C2LOADKEYREQ
    /\ tss_key = Keys[Current.key_index]

(* The key status tells the truth both ways: PRESENT is said only of a      *)
(* complete key, NOT_PRESENT only of a TSS that holds no key word.          *)
StatusTruthful ==
  Reports(LLKI_MID_KLKEYSTATUSRESP) =>
    /\ Current.msg_id = LLKI_MID_C2KEYSTATUSREQ
    /\ msg.status = LLKI_STATUS_KEY_PRESENT => tss_state = "KEY1_LOADED"
    /\ msg.status = LLKI_STATUS_KEY_NOT_PRESENT => tss_key = NoKey

(* The LLKI implements the key service: the requests queued in it anywhere  *)
(* are one queue, the response FIFO with its write port another, and the    *)
(* core's key is what the TSS holds.                                        *)
Service == INSTANCE KeyService WITH
  Requests  <- { [r EXCEPT !.rsvd = t] : r \in Requests, t \in 0 .. Window },
  Keys      <- Keys,
  requests  <- SubSeq(unanswered, Len(Responses) + 1, Len(unanswered)),
  responses <- Responses,
  key       <- tss_key

ImplementsKeyService == Service!Spec

(* Every request gets an answer the processor reads.                        *)
EveryRequestAnswered ==
  \A t \in 0 .. Window : (\E i \in DOMAIN unanswered : unanswered[i].rsvd = t)
                           ~> ~ \E i \in DOMAIN unanswered : unanswered[i].rsvd = t
=============================================================================
