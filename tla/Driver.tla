------------------------------- MODULE Driver --------------------------------
(***************************************************************************)
(* The processor's side of the SRoT, after cepSrotTest.cc: it programs the *)
(* RAMs and sets the mode, then sends LLKI-C2 requests, polls the status   *)
(* register and reads one response per request.  The test keeps one        *)
(* request in flight; Window generalises it to software that queues more.  *)
(*                                                                         *)
(* Every request carries a tag in the RSVD field, which the SRoT echoes.   *)
(***************************************************************************)
EXTENDS Srot

CONSTANTS
  Setup,          \* the register writes made first, in order
  StrayWrites,    \* register writes that may come at any later time
  Requests,       \* the requests sent, without their tag
  Window          \* requests sent and not yet answered, at most

\* The fields of a request as the SRoT decodes it, and of a Key Index RAM entry.
C2Message  == [msg_id : Byte, status : Byte, msg_len : Byte, key_index : Nat, rsvd : Nat]
IndexEntry == [valid : BOOLEAN, core : Nat, high : Nat, low : Nat]

IsEntryIfForIndexRam(w) == InKeyIndexRam(w.addr) => w.data \in IndexEntry

ASSUME DriverAssumption ==
  /\ Window \in Nat \ {0}
  /\ Requests \subseteq C2Message
  /\ \A w \in StrayWrites : w.addr \in Nat /\ IsEntryIfForIndexRam(w)
  /\ Len(Setup) \in Nat /\ DOMAIN Setup = 1 .. Len(Setup)
  /\ \A i \in DOMAIN Setup : Setup[i].addr \in Nat /\ IsEntryIfForIndexRam(Setup[i])
  /\ \A w \in StrayWrites : w.op = "write" /\ w.addr # SROT_LLKIC2_SENDRECV_ADDR
  /\ \A i \in DOMAIN Setup :
       Setup[i].op = "write" /\ Setup[i].addr # SROT_LLKIC2_SENDRECV_ADDR

VARIABLES
  drv_setup,      \* setup writes already made
  drv_tag,        \* tag of the next request
  unanswered,     \* requests sent whose response has not been read
  seen,           \* the last poll showed RESP_WAITING
  slave_busy      \* the SRoT's register adapter owes the processor a response

driverVars == <<drv_setup, drv_tag, unanswered, seen, slave_busy>>

DriverInit ==
  /\ drv_setup = 0 /\ drv_tag = 0
  /\ unanswered = <<>> /\ seen = FALSE
  /\ slave_busy = FALSE

RegWrite(a, d) == [op |-> "write", addr |-> a, data |-> d]
RegRead(a)     == [op |-> "read", addr |-> a]
Request(r, t)  == RegWrite(SROT_LLKIC2_SENDRECV_ADDR, [r EXCEPT !.rsvd = t])
PollStatus     == RegRead(SROT_CTRLSTS_ADDR)
ReadMsg        == RegRead(SROT_LLKIC2_SENDRECV_ADDR)

DriverAccesses ==
  {NoAccess, PollStatus, ReadMsg} \cup StrayWrites
    \cup { Setup[i] : i \in DOMAIN Setup }
    \cup { Request(r, drv_tag) : r \in Requests }

SetupDone == drv_setup = Len(Setup)

DriverIdle(acc) ==
  /\ acc = NoAccess
  /\ UNCHANGED <<drv_setup, drv_tag, unanswered, seen>>

DriverSetup(acc) ==
  /\ ~SetupDone /\ acc = Setup[drv_setup + 1]
  /\ drv_setup' = drv_setup + 1
  /\ UNCHANGED <<drv_tag, unanswered, seen>>

DriverStrayWrite(acc) ==
  /\ SetupDone /\ acc \in StrayWrites
  /\ UNCHANGED <<drv_setup, drv_tag, unanswered, seen>>

\* A request whose write is answered with an error has not been sent.
DriverSend(acc) ==
  /\ SetupDone /\ Len(unanswered) < Window
  /\ \E r \in Requests : acc = Request(r, drv_tag)
  /\ IF AccessError(acc) THEN UNCHANGED <<unanswered, drv_tag>>
     ELSE /\ unanswered' = Append(unanswered, acc.data)
          /\ drv_tag' = (drv_tag + 1) % (Window + 1)
  /\ UNCHANGED <<drv_setup, seen>>

DriverPoll(acc) ==
  /\ acc = PollStatus
  /\ unanswered # <<>> /\ ~seen
  /\ seen' = resp_waiting
  /\ UNCHANGED <<drv_setup, drv_tag, unanswered>>

DriverReadMsg(acc) ==
  /\ acc = ReadMsg
  /\ seen
  /\ seen' = FALSE
  /\ unanswered' = Tail(unanswered)
  /\ UNCHANGED <<drv_setup, drv_tag>>

\* tlul_adapter_reg: no two accesses in consecutive cycles.
DriverStep(acc) ==
  /\ slave_busy => acc = NoAccess
  /\ slave_busy' = (acc # NoAccess)
  /\ \/ DriverIdle(acc)
     \/ DriverSetup(acc)
     \/ DriverStrayWrite(acc)
     \/ DriverSend(acc)
     \/ DriverPoll(acc)
     \/ DriverReadMsg(acc)
-----------------------------------------------------------------------------
TagsOf(msgs) == [i \in DOMAIN msgs |-> msgs[i].rsvd]

Slot(entry) == IF entry = None THEN <<>> ELSE <<entry>>

\* Each FIFO with its registered port is one queue.
Responses == respfifo \o Slot(respfifo_w)
Queue == (IF reqfifo_rready THEN Tail(reqfifo) ELSE reqfifo) \o Slot(reqfifo_w)

\* Responses on their way, then the request being processed, then those queued.
InFlight ==
  Responses \o (IF srot_state = "IDLE" THEN <<>> ELSE <<msg>>)
            \o (IF reqfifo_clr THEN <<>> ELSE Queue)

\* The request the SRoT is working on is the oldest one without a response.
Current == unanswered[Len(Responses) + 1]

(* Requests are neither lost, duplicated nor reordered between the register *)
(* write and the response read, through both FIFOs and their registered     *)
(* ports.  After an error has set the clear of the request FIFO they can be *)
(* lost, but those still in flight are the oldest ones, in order.           *)
RequestsConserved ==
  LET inflight == TagsOf(InFlight)
      sent     == TagsOf(unanswered)
  IN  /\ Len(inflight) <= Len(sent)
      /\ inflight = SubSeq(sent, 1, Len(inflight))
      /\ ~reqfifo_clr => Len(inflight) = Len(sent)

(* A processor that saw RESP_WAITING finds a response to read: the bit is a *)
(* cycle older than the FIFO, and the adapter's turnaround has to cover it. *)
PolledMeansThere == seen => respfifo # <<>>

(* A request the processor believes to be sent had room in the FIFO.        *)
SentHadRoom == Len(unanswered') > Len(unanswered) => ~ReqFifoFull

(* Once the setup is done every Key Index RAM slot holds the entry last     *)
(* written to its address.                                                  *)
EntriesProgrammed ==
  SetupDone /\ ram_w = None =>
    \A i \in DOMAIN Setup :
      LET slot == Setup[i].addr - SROT_KEYINDEXRAM_ADDR
      IN  /\ slot \in IndexSlots
          /\ \A j \in DOMAIN Setup : j > i => Setup[j].addr # Setup[i].addr
          => keyindexram[slot] = Setup[i].data

RamsFrozen == Operational => keyindexram' = keyindexram /\ keyram' = keyram
=============================================================================
