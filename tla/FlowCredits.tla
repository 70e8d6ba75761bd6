----------------------------- MODULE FlowCredits -----------------------------
(***************************************************************************)
(* Credit flow control and retransmission of one PSM3 ips flow             *)
(* (src/prov/psm3/psm3/ptl_ips/ips_proto.c: psm3_ips_proto_flow_enqueue,   *)
(* psm3_ips_proto_flow_flush_pio, psm3_ips_proto_timer_ack_callback,      *)
(* psm3_ips_proto_timer_send_callback), with the peer that receives its    *)
(* packets.                                                                *)
(*                                                                         *)
(* An scb is put on the flow's unacked queue when it is enqueued; the      *)
(* pending list is a suffix of that queue (its head points into it).       *)
(* Flushing sends pending scbs while the flow has credits; each send       *)
(* costs a credit and arms the ack timer.  When the ack timer finds the    *)
(* oldest scb overdue it sends an ERR_CHK and shrinks max_credits; a flush *)
(* that runs out of credits for long enough grows it.                      *)
(*                                                                         *)
(* The queue's psns are consecutive (one psn per scb: the verbs HAL sends  *)
(* one fragment per scb), so it is kept as the psn of its oldest scb and   *)
(* two lengths.  Packet and control channels are FIFO and lossy.           *)
(*                                                                         *)
(* The receive side and ACK/NAK processing are in ips_proto_recv.c, which  *)
(* is not part of this tree; they are modelled from the specification      *)
(* (section 4.5): the receiver accepts the next psn in order, answers a    *)
(* gap with a NAK, a duplicate with an ACK, and an ERR_CHK with the state  *)
(* it has; an ACK retires the scbs it covers and returns their credits, a  *)
(* NAK also moves the pending head back to the psn it names.  Both then    *)
(* flush ("ACKs/NAKs reclaim recredit", flush_pio).                        *)
(***************************************************************************)
EXTENDS Integers, Sequences

CONSTANTS
  PsnMod,        \* proto->psn_mask + 1
  MinCredits,    \* proto->min_credits
  CeilCredits,   \* proto->max_credits
  FlowCredits,   \* proto->flow_credits, a new flow's max_credits
  Adjust,        \* proto->credits_adjust
  IncThresh,     \* proto->credits_inc_thresh
  MaxQueued,     \* bound on the scbs on the unacked queue at once
  Total,         \* bound on the scbs the application enqueues
  ChanCap,       \* bound on the packets a channel holds
  MaxLoss,       \* bound on the packets the network loses
  StartPsn       \* the psn the flow is at when the model starts

ASSUME /\ 0 < MinCredits /\ MinCredits <= FlowCredits /\ FlowCredits <= CeilCredits
       /\ Adjust \in Nat /\ IncThresh \in Nat
       /\ 2 * MaxQueued < PsnMod /\ StartPsn \in 0 .. PsnMod - 1

Psn == 0 .. PsnMod - 1

VARIABLES
  una,        \* psn of the oldest scb on flow->scb_unacked
  nUnacked,   \* length of flow->scb_unacked
  nPending,   \* length of flow->scb_pend, the unacked queue's suffix
  credits,    \* flow->credits
  maxCredits, \* flow->max_credits
  incPsn,     \* flow->credits_inc_psn
  timerAck,   \* flow->timer_ack is requested
  timerSend,  \* flow->timer_send is requested
  data,       \* packets on the wire to the peer, by psn
  errChk,     \* ERR_CHKs on the wire to the peer, by psn
  ctrl,       \* ACKs and NAKs on the wire back, [type, psn]
  recvNext,   \* the peer's next expected psn
  enqueued,   \* scbs enqueued so far
  lost        \* packets the network lost so far

vars == <<una, nUnacked, nPending, credits, maxCredits, incPsn, timerAck,
          timerSend, data, errChk, ctrl, recvNext, enqueued, lost>>

Cur == [una |-> una, nUnacked |-> nUnacked, nPending |-> nPending,
        credits |-> credits, maxCredits |-> maxCredits, incPsn |-> incPsn,
        timerAck |-> timerAck, timerSend |-> timerSend, data |-> data,
        errChk |-> errChk]

Apply(S) ==
  /\ una' = S.una /\ nUnacked' = S.nUnacked /\ nPending' = S.nPending
  /\ credits' = S.credits /\ maxCredits' = S.maxCredits /\ incPsn' = S.incPsn
  /\ timerAck' = S.timerAck /\ timerSend' = S.timerSend
  /\ data' = S.data /\ errChk' = S.errChk

MinOf(a, b) == IF a <= b THEN a ELSE b

\* flow->xmit_seq_num: the psn the next enqueued scb gets.
Xmit(S) == (S.una + S.nUnacked) % PsnMod

\* psn of the pending head.
FirstPending(S) == (Xmit(S) - S.nPending) % PsnMod

\* between(first, last, seq): seq lies in the window first..last, which
\* may wrap around the psn space.
Between(first, last, seq) ==
  IF first <= last THEN first <= seq /\ seq <= last
                   ELSE first <= seq \/ seq <= last

\* How far psn b is ahead of psn a.
Dist(a, b) == (b - a) % PsnMod

\* psn b is after psn a in the half of the psn space ahead of a.
Ahead(a, b) == Dist(a, b) > 0 /\ 2 * Dist(a, b) < PsnMod

\* A control message that finds its channel full is lost (an ERR_CHK is
\* never queued; an ACK or NAK can overflow the control-message ring).
Send(ch, m) == IF Len(ch) < ChanCap THEN Append(ch, m) ELSE ch

-----------------------------------------------------------------------------
(* Slips the properties below are meant to catch, each defined just before *)
(* the operator it would replace.                                          *)

\* psm3_ips_proto_flow_enqueue: the scb goes on the tail of the unacked
\* queue and becomes the pending head only if nothing was pending.
FlowEnqueue(S) == [S EXCEPT !.nUnacked = @ + 1, !.nPending = @ + 1]

\* One successful psmi_hal_spio_transfer_frame in the flush loop: the
\* ack timer is requested, a credit is spent and the scb leaves pending.
TransferOk(S) ==
  [S EXCEPT !.data = Append(@, FirstPending(S)), !.timerAck = TRUE,
            !.credits = @ - 1, !.nPending = @ - 1]

\* The flush loop: while scbs are pending and credits last, transfer; the
\* HAL accepts budget transfers, or as many as the wire has room for, and
\* then reports no resources (break).
RECURSIVE FlushLoop(_, _)
FlushLoop(S, budget) ==
  IF S.nPending > 0 /\ S.credits > 0 /\ budget > 0 /\ Len(S.data) < ChanCap
    THEN FlushLoop(TransferOk(S), budget - 1)
    ELSE S

\* The grow step raising max_credits but not the credits with it.
IncreaseCreditsMaxOnly(S) ==
  IF /\ S.credits <= 0
     /\ S.maxCredits < CeilCredits
     /\ ~Between(S.incPsn, (S.incPsn + IncThresh) % PsnMod, Xmit(S))
    THEN LET adj == MinOf(Adjust + (Xmit(S) % 16), CeilCredits - S.maxCredits)
         IN [S EXCEPT !.maxCredits = @ + adj, !.incPsn = Xmit(S)]
    ELSE S

\* The grow step without the min() against the ceiling.
IncreaseCreditsUnclipped(S) ==
  IF /\ S.credits <= 0
     /\ S.maxCredits < CeilCredits
     /\ ~Between(S.incPsn, (S.incPsn + IncThresh) % PsnMod, Xmit(S))
    THEN LET adj == Adjust + (Xmit(S) % 16)
         IN [S EXCEPT !.maxCredits = @ + adj, !.credits = @ + adj,
                      !.incPsn = Xmit(S)]
    ELSE S

\* The grow step at the end of flush_pio, taken when the flow is out of
\* credits, below the ceiling, and has sent more than credits_inc_thresh
\* psns since credits_inc_psn.
IncreaseCredits(S) ==
  IF /\ S.credits <= 0
     /\ S.maxCredits < CeilCredits
     /\ ~Between(S.incPsn, (S.incPsn + IncThresh) % PsnMod, Xmit(S))
    THEN LET adj == MinOf(Adjust + (Xmit(S) % 16), CeilCredits - S.maxCredits)
         IN [S EXCEPT !.maxCredits = @ + adj, !.credits = @ + adj,
                      !.incPsn = Xmit(S)]
    ELSE S

\* psm3_ips_proto_flow_flush_pio.  Out of credits it returns at once;
\* otherwise it runs the loop and, if scbs are still pending, may grow the
\* credits and requests the send timer.
FlowFlushPio(S, budget) ==
  IF S.credits <= 0 THEN S
  ELSE LET S1 == FlushLoop(S, budget)
       IN IF S1.nPending > 0
            THEN [IncreaseCredits(S1) EXCEPT !.timerSend = TRUE]
            ELSE S1

\* The shrink step of the ack timer: max_credits drops by the jittered
\* step, not below min_credits, and credits with it, clamped at zero.
DecreaseCredits(S) ==
  IF S.maxCredits > MinCredits
    THEN LET adj == MinOf(Adjust + (Xmit(S) % 16), S.maxCredits - MinCredits)
         IN [S EXCEPT !.maxCredits = @ - adj,
                      !.credits = IF @ > adj THEN @ - adj ELSE 0]
    ELSE S

\* The ERR_CHK psn computed without the psn mask.
AckTimeoutNoMask(S) ==
  LET chk == IF S.nPending > 0 THEN FirstPending(S) ELSE Xmit(S)
  IN [DecreaseCredits([S EXCEPT !.errChk = Send(@, chk - 1),
                                !.incPsn = S.una])
        EXCEPT !.timerAck = TRUE]

AckTimeout(S) ==
  LET chk == IF S.nPending > 0 THEN FirstPending(S) ELSE Xmit(S)
  IN [DecreaseCredits([S EXCEPT !.errChk = Send(@, (chk - 1) % PsnMod),
                                !.incPsn = S.una])
        EXCEPT !.timerAck = TRUE]


\* The callback requesting the timer again only after a timeout.
TimerAckCallbackNoRearm(S, timedOut) ==
  CASE S.nUnacked = 0 -> S
    [] timedOut       -> AckTimeout(S)
    [] OTHER          -> S

\* psm3_ips_proto_timer_ack_callback, run when flow->timer_ack expires:
\* nothing to do on an empty unacked queue; otherwise, whether or not the
\* oldest scb is overdue (timedOut), the timer is requested again.
TimerAckCallback(S, timedOut) ==
  CASE S.nUnacked = 0 -> S
    [] timedOut       -> AckTimeout(S)
    [] OTHER          -> [S EXCEPT !.timerAck = TRUE]

\* psm3_ips_proto_timer_send_callback: flush if anything is pending.
TimerSendCallback(S, budget) ==
  IF S.nPending > 0 THEN FlowFlushPio(S, budget) ELSE S

\* ACK processing (ips_proto_recv.c, from the specification): an ACK for
\* psn a retires the scbs before a, returning the credits of those that
\* were on the wire; an empty queue cancels both timers.  An ACK that is
\* older than the queue retires nothing.
ProcessAck(S, a) ==
  LET k    == Dist(S.una, a)
      left == S.nUnacked - k
  IN IF k = 0 \/ k > S.nUnacked THEN S
     ELSE [S EXCEPT !.una = a, !.nUnacked = left,
                    !.nPending = MinOf(@, left),
                    !.credits = @ + MinOf(k, S.nUnacked - S.nPending),
                    !.timerAck = IF left = 0 THEN FALSE ELSE @,
                    !.timerSend = IF left = 0 THEN FALSE ELSE @]

\* NAK processing (from the specification): retire what is before a, then
\* make every scb from a on pending again; their credits come back.
ProcessNak(S, a) ==
  LET S1 == ProcessAck(S, a)
  IN IF S1.una = a /\ S1.nUnacked > 0
       THEN [S1 EXCEPT !.credits = @ + (S1.nUnacked - S1.nPending),
                       !.nPending = S1.nUnacked]
       ELSE S1

\* An ACK or NAK reaches the flow; the flow is flushed if scbs are pending.
ProcessCtrl(S, m, budget) ==
  LET S1 == IF m.type = "ACK" THEN ProcessAck(S, m.psn) ELSE ProcessNak(S, m.psn)
  IN IF S1.nPending > 0 THEN FlowFlushPio(S1, budget) ELSE S1

-----------------------------------------------------------------------------

Budgets == 0 .. MaxQueued

\* The application enqueues an scb and flushes the flow (the ips send
\* paths call flow_enqueue and then flow->flush).
AppSend ==
  /\ enqueued < Total /\ nUnacked < MaxQueued
  /\ \E b \in Budgets : Apply(FlowFlushPio(FlowEnqueue(Cur), b))
  /\ enqueued' = enqueued + 1
  /\ UNCHANGED <<ctrl, recvNext, lost>>

\* flow->timer_ack expires (it leaves the timer queue before the callback).
AckTimer(timedOut) ==
  /\ timerAck
  /\ Apply(TimerAckCallback([Cur EXCEPT !.timerAck = FALSE], timedOut))
  /\ UNCHANGED <<ctrl, recvNext, enqueued, lost>>

\* flow->timer_send expires.
SendTimer(b) ==
  /\ timerSend
  /\ Apply(TimerSendCallback([Cur EXCEPT !.timerSend = FALSE], b))
  /\ UNCHANGED <<ctrl, recvNext, enqueued, lost>>

\* The flow receives the oldest ACK or NAK on the wire.
RecvCtrl(b) ==
  /\ ctrl # <<>>
  /\ Apply(ProcessCtrl(Cur, Head(ctrl), b))
  /\ ctrl' = Tail(ctrl)
  /\ UNCHANGED <<recvNext, enqueued, lost>>

\* The peer receives a packet (from the specification): the expected psn
\* is accepted and acknowledged now or later (ACKREQ coalescing); a psn
\* ahead of it is a gap, answered with a NAK; an older one is a duplicate,
\* answered with an ACK.
PeerRecvData ==
  /\ data # <<>>
  /\ LET p == Head(data)
     IN IF p = recvNext
          THEN /\ recvNext' = (p + 1) % PsnMod
               /\ \E ackNow \in BOOLEAN :
                    ctrl' = IF ackNow
                              THEN Send(ctrl, [type |-> "ACK", psn |-> recvNext'])
                              ELSE ctrl
          ELSE /\ ctrl' = Send(ctrl, [type |-> IF Ahead(recvNext, p)
                                                 THEN "NAK" ELSE "ACK",
                                      psn |-> recvNext])
               /\ UNCHANGED recvNext
  /\ data' = Tail(data)
  /\ UNCHANGED <<una, nUnacked, nPending, credits, maxCredits, incPsn,
                 timerAck, timerSend, errChk, enqueued, lost>>

\* The peer answers an ERR_CHK for psn p with its receive state: an ACK if
\* it has everything up to p, a NAK for its next expected psn if not.
PeerRecvErrChk ==
  /\ errChk # <<>>
  /\ LET p == Head(errChk)
     IN ctrl' = Send(ctrl, [type |-> IF Ahead(recvNext, (p + 1) % PsnMod)
                                       THEN "NAK" ELSE "ACK",
                            psn |-> recvNext])
  /\ errChk' = Tail(errChk)
  /\ UNCHANGED <<una, nUnacked, nPending, credits, maxCredits, incPsn,
                 timerAck, timerSend, data, recvNext, enqueued, lost>>

Drop(ch, i) == SubSeq(ch, 1, i - 1) \o SubSeq(ch, i + 1, Len(ch))

\* The network loses a packet, up to MaxLoss of them.
Lose ==
  /\ lost < MaxLoss
  /\ \/ \E i \in 1 .. Len(data) : data' = Drop(data, i) /\ UNCHANGED <<errChk, ctrl>>
     \/ \E i \in 1 .. Len(errChk) : errChk' = Drop(errChk, i) /\ UNCHANGED <<data, ctrl>>
     \/ \E i \in 1 .. Len(ctrl) : ctrl' = Drop(ctrl, i) /\ UNCHANGED <<data, errChk>>
  /\ lost' = lost + 1
  /\ UNCHANGED <<una, nUnacked, nPending, credits, maxCredits, incPsn,
                 timerAck, timerSend, recvNext, enqueued>>

\* Everything enqueued is acknowledged and nothing is left to happen.
Done ==
  /\ enqueued = Total /\ nUnacked = 0
  /\ data = <<>> /\ errChk = <<>> /\ ctrl = <<>>
  /\ ~timerAck /\ ~timerSend
  /\ UNCHANGED vars

\* A flow with nothing outstanding, max_credits and credits at
\* flow_credits, both ends at psn StartPsn (0 for a new flow; close to the
\* wrap of the psn space for one that has run for long).
Init ==
  /\ una = StartPsn /\ nUnacked = 0 /\ nPending = 0
  /\ credits = FlowCredits /\ maxCredits = FlowCredits
  /\ incPsn = StartPsn
  /\ timerAck = FALSE /\ timerSend = FALSE
  /\ data = <<>> /\ errChk = <<>> /\ ctrl = <<>>
  /\ recvNext = StartPsn /\ enqueued = 0 /\ lost = 0

Next ==
  \/ AppSend
  \/ \E t \in BOOLEAN : AckTimer(t)
  \/ \E b \in Budgets : SendTimer(b) \/ RecvCtrl(b)
  \/ PeerRecvData
  \/ PeerRecvErrChk
  \/ Lose
  \/ Done

Spec == Init /\ [][Next]_vars

\* Timers are run by the progress loop once their deadline passes, and the
\* deadline of the oldest scb does pass; the HAL runs out of send buffers
\* only for a while (VerbsRcQp's PoolReplenishes), so a flush that is
\* retried eventually gets every transfer through; the peer keeps polling.
FairSpec ==
  /\ Spec
  /\ WF_vars(AckTimer(TRUE))
  /\ WF_vars(SendTimer(MaxQueued)) /\ WF_vars(RecvCtrl(MaxQueued))
  /\ WF_vars(PeerRecvData) /\ WF_vars(PeerRecvErrChk)

-----------------------------------------------------------------------------
(* Properties.                                                             *)

\* scbs transferred and not yet acknowledged.
InFlight == nUnacked - nPending

TypeOK ==
  /\ una \in Psn /\ recvNext \in Psn /\ incPsn \in Psn
  /\ nUnacked \in 0 .. MaxQueued /\ nPending \in 0 .. nUnacked
  /\ credits \in Int /\ maxCredits \in Int
  /\ timerAck \in BOOLEAN /\ timerSend \in BOOLEAN
  /\ data \in Seq(Psn) /\ errChk \in Seq(Psn)
  /\ ctrl \in Seq([type : {"ACK", "NAK"}, psn : Psn])
  /\ enqueued \in 0 .. Total /\ lost \in 0 .. MaxLoss


\* No credit is ever lost: the credits the flow holds plus the scbs on the
\* wire cover max_credits, through sends, ACKs, NAKs, the grow step of
\* flush_pio and the shrink step of the ack timer (whose clamp at zero
\* only ever hands out extra).  A leak would leave a flow with nothing in
\* flight and no credit to send its pending scbs with.
NoCreditLeak ==
  credits + InFlight >= maxCredits

\* The grow and shrink steps keep max_credits between min_credits and the
\* ceiling proto->max_credits, whatever the jitter (xmit psn & 0xF) adds.
MaxCreditsInRange ==
  MinCredits <= maxCredits /\ maxCredits <= CeilCredits

\* An scb on the wire is always covered by a requested ack timer, so a lost
\* packet or ACK is always followed by an ERR_CHK (flush_pio requests it,
\* the ack timer callback requests itself again, only an empty queue
\* cancels it).
InFlightHasAckTimer ==
  InFlight > 0 => timerAck

CreditConservation ==
  /\ 0 <= InFlight /\ InFlight <= maxCredits
  /\ MaxCreditsInRange

=============================================================================
