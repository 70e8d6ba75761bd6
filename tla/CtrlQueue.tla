------------------------------ MODULE CtrlQueue ------------------------------
(***************************************************************************)
(* The control-message send queue of the PSM3 ips protocol                 *)
(* (src/prov/psm3/psm3/ptl_ips/ips_proto.c: ctrlq_init,                    *)
(* psm3_ips_proto_timer_ctrlq_callback, psm3_ips_proto_send_ctrl_message). *)
(*                                                                         *)
(* A control message is sent at once when the HAL has send resources.      *)
(* When it has none, an ACK, NAK or BECN is parked in a ring of QSize      *)
(* elements, at most one of each type per peer (ipsaddr), tracked by the   *)
(* peer's ctrl_msg_queued mask; a queued ACK is overwritten in place by a  *)
(* newer one (flow->ack_index).  A full ring drops the message and counts  *)
(* ctrl_msg_queue_overflow.  The ring is drained from its tail by the      *)
(* ctrlq timer and before every new control message.                      *)
(*                                                                         *)
(* Every step runs under the endpoint progress lock, so each call is one   *)
(* atomic action.  Whether psmi_hal_transfer_frame finds send resources is *)
(* the environment's choice: the NIC frees them concurrently, so two       *)
(* transfers in one call may get different answers.                        *)
(***************************************************************************)
EXTENDS Naturals, FiniteSets

CONSTANTS
  Peers,        \* the ipsaddrs control messages go to
  QSize,        \* CTRL_MSG_QEUEUE_SIZE
  MaxAcks,      \* bound on the ACKs issued per peer (their psn)
  NULL

ASSUME QSize \in Nat \ {0}
ASSUME MaxAcks \in Nat

\* OPCODE_ERR_CHK stands for the control messages that are never queued.
Types == {"ACK", "NAK", "BECN", "ERR_CHK"}

\* ctrlq_init: proto->ctrl_msg_queue_enqueue
Enqueued == {"ACK", "NAK", "BECN"}

Slots == 0 .. QSize - 1

Msg == [peer : Peers, type : Enqueued, psn : 0 .. MaxAcks]

VARIABLES
  ring,      \* ctrlq->ctrlq_cqe; NULL = msg_queue_mask cleared (free slot)
  head,      \* ctrlq->ctrlq_head
  tail,      \* ctrlq->ctrlq_tail
  mask,      \* ipsaddr->ctrl_msg_queued, as the set of queued types
  ackIndex,  \* ipsaddr->flows[msgflowid].ack_index
  timer,     \* ctrlq->ctrlq_timer is requested
  acked,     \* psn of the latest ACK the receive side asked to send
  sentAck    \* psn of the latest ACK put on the wire to the peer

vars == <<ring, head, tail, mask, ackIndex, timer, acked, sentAck>>

Cur == [ring |-> ring, head |-> head, tail |-> tail, mask |-> mask,
        ackIndex |-> ackIndex, timer |-> timer, sentAck |-> sentAck]

Apply(S) == /\ ring' = S.ring /\ head' = S.head /\ tail' = S.tail
            /\ mask' = S.mask /\ ackIndex' = S.ackIndex /\ timer' = S.timer
            /\ sentAck' = S.sentAck

\* A message on the wire: the peer has seen it.
Transmit(S, m) ==
  IF m.type = "ACK" THEN [S EXCEPT !.sentAck[m.peer] = m.psn] ELSE S

(* Slips the properties below are meant to catch, each defined just before *)
(* the operator it would replace.                                          *)

\* One pass of the callback loop that succeeds: the tail element goes out,
\* its bit leaves the peer's mask, the slot is freed and the tail advances.
SendTail(S) ==
  LET m == S.ring[S.tail]
  IN [Transmit(S, m) EXCEPT !.mask[m.peer] = @ \ {m.type},
                            !.ring[S.tail] = NULL,
                            !.tail = (@ + 1) % QSize]

RECURSIVE SendTails(_, _)
SendTails(S, k) == IF k = 0 THEN S ELSE SendTails(SendTail(S), k - 1)

Pending(S) == Cardinality({i \in Slots : S.ring[i] # NULL})

\* The callback giving up on no resources without requesting the timer.
CtrlqCallbackNoRetry(S, k) == SendTails(S, k)

\* psm3_ips_proto_timer_ctrlq_callback: send from the tail while the slot is
\* in use; k transfers succeed and, if the queue is not then empty, the
\* next one finds no resources and the timer is requested again.
CtrlqCallback(S, k) ==
  LET S1 == SendTails(S, k)
  IN IF S1.ring[S1.tail] # NULL THEN [S1 EXCEPT !.timer = TRUE] ELSE S1

\* Enqueueing at the head without checking that the slot is free.
ParkIgnoresFull(S, m) ==
  LET p == m.peer
  IN CASE m.type \notin Enqueued -> S
       [] m.type \in S.mask[p] ->
            IF m.type = "ACK" THEN [S EXCEPT !.ring[S.ackIndex[p]] = m] ELSE S
       [] OTHER ->
            [S EXCEPT !.ackIndex[p] = IF m.type = "ACK" THEN S.head ELSE @,
                      !.mask[p] = @ \cup {m.type},
                      !.ring[S.head] = m,
                      !.head = (@ + 1) % QSize,
                      !.timer = TRUE]

\* Parking every type, ctrl_msg_queue_enqueue not consulted.
ParkAnyType(S, m) ==
  LET p == m.peer
  IN CASE m.type \in S.mask[p] ->
            IF m.type = "ACK" THEN [S EXCEPT !.ring[S.ackIndex[p]] = m] ELSE S
       [] S.ring[S.head] = NULL ->
            [S EXCEPT !.ackIndex[p] = IF m.type = "ACK" THEN S.head ELSE @,
                      !.mask[p] = @ \cup {m.type},
                      !.ring[S.head] = m,
                      !.head = (@ + 1) % QSize,
                      !.timer = TRUE]
       [] OTHER -> S

\* A newer ACK dropped like a NAK when one is already queued.
ParkKeepsOldAck(S, m) ==
  LET p == m.peer
  IN CASE m.type \notin Enqueued -> S
       [] m.type \in S.mask[p] -> S
       [] S.ring[S.head] = NULL ->
            [S EXCEPT !.ackIndex[p] = IF m.type = "ACK" THEN S.head ELSE @,
                      !.mask[p] = @ \cup {m.type},
                      !.ring[S.head] = m,
                      !.head = (@ + 1) % QSize,
                      !.timer = TRUE]
       [] OTHER -> S

\* The no-resources branch of psm3_ips_proto_send_ctrl_message.  A message
\* that finds the ring full is lost; ctrl_msg_queue_overflow only counts it.
Park(S, m) ==
  LET p == m.peer
  IN CASE m.type \notin Enqueued -> S
       [] m.type \in S.mask[p] ->
            IF m.type = "ACK" THEN [S EXCEPT !.ring[S.ackIndex[p]] = m] ELSE S
       [] S.ring[S.head] = NULL ->
            [S EXCEPT !.ackIndex[p] = IF m.type = "ACK" THEN S.head ELSE @,
                      !.mask[p] = @ \cup {m.type},
                      !.ring[S.head] = m,
                      !.head = (@ + 1) % QSize,
                      !.timer = TRUE]
       [] OTHER -> S

-----------------------------------------------------------------------------

\* psm3_ips_proto_send_ctrl_message(flow, type): drain the queue if its tail
\* is in use (k of its elements go out), then transfer the new message;
\* sendOk is whether that transfer found resources.  An ACK carries the
\* next psn the receive side acknowledges.
SendCtrlMessage(p, t) ==
  /\ t = "ACK" => acked[p] < MaxAcks
  /\ LET psn == IF t = "ACK" THEN acked[p] + 1 ELSE 0
         m   == [peer |-> p, type |-> t, psn |-> psn]
         S0  == Cur
     IN \E k \in 0 .. Pending(S0), sendOk \in BOOLEAN :
          LET S1 == IF S0.ring[S0.tail] # NULL THEN CtrlqCallback(S0, k) ELSE S0
          IN /\ S0.ring[S0.tail] = NULL => k = 0
             /\ Apply(IF sendOk THEN Transmit(S1, m) ELSE Park(S1, m))
  /\ acked' = [acked EXCEPT ![p] = IF t = "ACK" THEN @ + 1 ELSE @]

\* The ctrlq timer expires and runs the callback.
CtrlqTimer ==
  /\ timer
  /\ \E k \in 0 .. Pending(Cur) :
       Apply(CtrlqCallback([Cur EXCEPT !.timer = FALSE], k))
  /\ UNCHANGED acked

\* ctrlq_init: an empty ring, no peer with anything queued.
Init ==
  /\ ring = [i \in Slots |-> NULL]
  /\ head = 0 /\ tail = 0
  /\ mask = [p \in Peers |-> {}]
  /\ ackIndex = [p \in Peers |-> 0]
  /\ timer = FALSE
  /\ acked = [p \in Peers |-> 0]
  /\ sentAck = [p \in Peers |-> 0]

Next ==
  \/ \E p \in Peers, t \in Types : SendCtrlMessage(p, t)
  \/ CtrlqTimer

Spec == Init /\ [][Next]_vars

-----------------------------------------------------------------------------
(* Properties.                                                             *)

TypeOK ==
  /\ ring \in [Slots -> Msg \cup {NULL}]
  /\ head \in Slots /\ tail \in Slots
  /\ mask \in [Peers -> SUBSET Enqueued]
  /\ ackIndex \in [Peers -> Slots]
  /\ timer \in BOOLEAN
  /\ acked \in [Peers -> 0 .. MaxAcks]
  /\ sentAck \in [Peers -> 0 .. MaxAcks]

\* The slots in use are exactly the run from the tail up to the head (all
\* of them when the ring is full), so the callback, which stops at the
\* first free slot, reaches every queued message; and a peer's
\* ctrl_msg_queued bit for a type is set exactly when one message of that
\* type to that peer is in the ring (send_ctrl_message, ctrlq callback).
RingMatchesMasks ==
  LET n == Pending(Cur)
  IN /\ {i \in Slots : ring[i] # NULL} = {(tail + j) % QSize : j \in 0 .. n - 1}
     /\ (n < QSize) => head = (tail + n) % QSize
     /\ \A p \in Peers, t \in Enqueued :
          /\ t \in mask[p] <=> \E i \in Slots : ring[i] # NULL /\ ring[i].peer = p
                                                         /\ ring[i].type = t
          /\ \A i, j \in Slots :
               (/\ ring[i] # NULL /\ ring[j] # NULL
                /\ ring[i].peer = p /\ ring[j].peer = p
                /\ ring[i].type = t /\ ring[j].type = t) => i = j

\* While a peer's ACK is queued, flow->ack_index points at it and it carries
\* the latest psn that did not get onto the wire: overwriting the queued
\* ACK in place never loses a newer acknowledgement (send_ctrl_message).
QueuedAckIsCurrent ==
  \A p \in Peers :
    "ACK" \in mask[p] =>
      /\ ring[ackIndex[p]] # NULL
      /\ ring[ackIndex[p]].peer = p /\ ring[ackIndex[p]].type = "ACK"
      /\ ring[ackIndex[p]].psn = acked[p] \/ sentAck[p] = acked[p]

\* A queued message is never stranded: whenever the ring holds one, the
\* ctrlq timer is requested (enqueue, and the callback's re-request after
\* a transfer finds no resources).
QueuedHasTimer ==
  ring[tail] # NULL => timer

=============================================================================
