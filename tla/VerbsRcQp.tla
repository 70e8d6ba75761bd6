------------------------------ MODULE VerbsRcQp ------------------------------
(***************************************************************************)
(* The PSM3 verbs HAL send-buffer pool and the user-space RC QP drain      *)
(* protocol (src/prov/psm3/psm3/hal_verbs/verbs_ep.c).                     *)
(*                                                                         *)
(* One endpoint talks to one peer (ipsaddr) over RC QPs.  All send buffers *)
(* (sbufs) come from one shared pool; each rc_qp has its own allocator     *)
(* whose list holds its sbufs in posting order.  A send WQE asks for a     *)
(* completion only every Coallesce sends, so one completion frees several  *)
(* sbufs.  On an error an rc_qp is drained: no more work is posted, a      *)
(* drain marker WQE with a bad lkey is posted behind any outstanding       *)
(* sends, and the rc_qp is freed once its posted send and receive counts   *)
(* both reach zero.                                                        *)
(*                                                                         *)
(* The NIC is part of the environment: it executes the head WQE of a send  *)
(* queue (in order), fails a QP, delivers or flushes receive WQEs.  All    *)
(* program steps run under the endpoint progress lock, so they are atomic  *)
(* with respect to each other; only the NIC runs concurrently with them.   *)
(* psm3_verbs_completion_update polls the CQ in a loop while the NIC keeps *)
(* adding completions, so it is split into start, one step per CQE, end.   *)
(***************************************************************************)
EXTENDS Naturals, Sequences, SequencesExt, FiniteSets

CONSTANTS
  Bufs,           \* the send buffers of the pool (send_total of them)
  QPs,            \* rc_qp objects; a freed one may be allocated again
  Coallesce,      \* VERBS_SEND_CQ_COALLESCE
  HfiReapThresh,  \* ep->verbs_ep.hfi_send_reap_thresh (PSM3_SEND_REAP_THRESH)
  RecvTotal,      \* receive WQEs preposted on each rc_qp
  MoveToErr,      \* the move_to_err arguments a reconnect may pass to drain
  DrainArgs,      \* the drain arguments callers pass to completion_update
  DriverFailures, \* whether ibv_modify_qp / ibv_post_send may fail
  MaxRdma,        \* bound on the RDMA writes outstanding at once
  NULL

ASSUME Coallesce \in Nat \ {0}
ASSUME Cardinality(Bufs) % Coallesce = 0   \* send_total is ROUNDDOWN'd to it
ASSUME HfiReapThresh \in Nat \ {0}
ASSUME RecvTotal \in Nat \ {0}
ASSUME MoveToErr \subseteq BOOLEAN /\ MoveToErr # {}
ASSUME DriverFailures \in BOOLEAN
ASSUME MaxRdma \in Nat
ASSUME FALSE \in DrainArgs /\ DrainArgs \subseteq BOOLEAN

VARIABLES
  free,      \* pool->send_free, head of the sequence = head of the list
  qp,        \* software state of each rc_qp, its allocator included
  hw,        \* NIC state of each QP: state, send queue, receive WQEs, recv CQEs
  cq,        \* the send CQ shared by all QPs (ep->verbs_ep.send_cq)
  conn,      \* ipsaddr->verbs.rc_qps, head = the active rc_qp
  dout,      \* ep->verbs_ep.send_drain_outstanding
  rdmaOut,   \* ep->verbs_ep.send_rdma_outstanding
  posting,   \* sbuf allocated and not yet posted (between alloc and post)
  inUpdate,  \* inside the poll loop of psm3_verbs_completion_update
  fatal      \* a fatal error was reported; the process terminates

vars == <<free, qp, hw, cq, conn, dout, rdmaOut, posting, inUpdate, fatal>>

SendTotal == Cardinality(Bufs)

\* verbs_ep.c:615, send_reap_thresh = min(hfi_send_reap_thresh, send_total/2)
ReapThresh == IF HfiReapThresh < SendTotal \div 2
                THEN HfiReapThresh ELSE SendTotal \div 2

Wqe == [kind : {"send"}, buf : Bufs, sig : BOOLEAN]
         \cup [kind : {"marker", "rdma"}, buf : {NULL}, sig : {TRUE}]
Cqe == [qp : QPs, kind : {"send", "marker", "rdma"}, buf : Bufs \cup {NULL},
        status : {"ok", "flush", "err"}]

QpRec == [st : {"unused", "live", "freed"}, initialized : BOOLEAN,
          draining : BOOLEAN, sendPosted : Nat, recvPosted : Nat,
          alloc : Seq(Bufs), tilCo : 1..Coallesce]
HwRec == [state : {"RESET", "RTS", "ERR"}, sq : Seq(Wqe),
          rq : Nat, rcq : Seq({"ok", "flush"})]

NewQp == [st |-> "live", initialized |-> FALSE, draining |-> FALSE,
          sendPosted |-> 0, recvPosted |-> 0, alloc |-> <<>>,
          tilCo |-> Coallesce]
NewHw == [state |-> "RESET", sq |-> <<>>, rq |-> 0, rcq |-> <<>>]

(***************************************************************************)
(* The program steps below compute on a record S of the state they may     *)
(* change, so that a handler that calls several functions in a row is the  *)
(* composition of their operators, in the code's order.                    *)
(***************************************************************************)
Cur == [qp |-> qp, hw |-> hw, free |-> free, conn |-> conn, dout |-> dout,
        rdma |-> rdmaOut, fatal |-> fatal]

Apply(S) == /\ qp' = S.qp
            /\ hw' = S.hw
            /\ free' = S.free
            /\ conn' = S.conn
            /\ dout' = S.dout
            /\ rdmaOut' = S.rdma
            /\ fatal' = S.fatal

(***************************************************************************)
(* Slips the properties below are meant to catch, each defined just before *)
(* the operator it would replace: a missing decrement, a test of one count *)
(* instead of two, a list not returned, a search that ignores its target,  *)
(* a repost on a draining pool, a drain without its marker, an allocator  *)
(* left zeroed, and an undo applied to the wrong end of a list.            *)
(***************************************************************************)

\* free_rc_qp forgetting send_drain_outstanding--.
FreeRcQpKeepsDout(S, q) ==
  [S EXCEPT !.qp[q].st = "freed", !.qp[q].draining = FALSE,
            !.conn = Remove(@, q)]

\* psm3_verbs_free_rc_qp: leave the ipsaddr list, free recv pool and QP.
FreeRcQp(S, q) ==
  [S EXCEPT !.qp[q].st = "freed", !.qp[q].draining = FALSE,
            !.dout = IF S.qp[q].draining THEN @ - 1 ELSE @,
            !.conn = Remove(@, q)]

\* free_rc_qp_if_empty looking at send_posted only.
FreeRcQpIfSendsDone(S, q) ==
  IF S.qp[q].sendPosted = 0 THEN FreeRcQp(S, q) ELSE S

\* psm3_verbs_free_rc_qp_if_empty
FreeRcQpIfEmpty(S, q) ==
  IF S.qp[q].sendPosted + S.qp[q].recvPosted = 0 THEN FreeRcQp(S, q) ELSE S

\* psm3_verbs_free_rc_qp_if_drained (verbs_ep.h)
FreeRcQpIfDrained(S, q) ==
  IF S.qp[q].draining THEN FreeRcQpIfEmpty(S, q) ELSE S

\* free_sbuf popping count sbufs without stopping at buf.
FreeSbufIgnoresBuf(S, q, buf, count, canFree) ==
  LET al     == S.qp[q].alloc
      k      == IF count <= Len(al) THEN count ELSE Len(al)
      S1     == [S EXCEPT !.qp[q].alloc = SubSeq(al, k + 1, Len(al)),
                          !.qp[q].sendPosted = @ - k,
                          !.free = Reverse(SubSeq(al, 1, k)) \o @]
  IN IF canFree THEN FreeRcQpIfDrained(S1, q) ELSE S1

\* psm3_ep_verbs_free_sbuf: pop the allocator list head-first, at most
\* count sbufs, stopping after buf; each one goes back to the free list
\* head and drops the rc_qp's send_posted.
FreeSbuf(S, q, buf, count, canFree) ==
  LET al     == S.qp[q].alloc
      pos    == SelectInSeq(al, LAMBDA b : b = buf)
      k      == IF pos # 0 /\ pos <= count THEN pos
                ELSE IF count <= Len(al) THEN count ELSE Len(al)
      popped == SubSeq(al, 1, k)
      S1     == [S EXCEPT !.qp[q].alloc = SubSeq(al, k + 1, Len(al)),
                          !.qp[q].sendPosted = @ - k,
                          !.free = Reverse(popped) \o @]
  IN IF canFree THEN FreeRcQpIfDrained(S1, q) ELSE S1

\* send_drained emptying the allocator list without freeing its sbufs.
SendDrainedLeaks(S, q) ==
  [S EXCEPT !.qp[q].alloc = <<>>, !.qp[q].sendPosted = @ - Len(S.qp[q].alloc)]

\* psm3_ep_verbs_send_drained: every sbuf of the allocator is done.
SendDrained(S, q) ==
  LET al == S.qp[q].alloc
  IN [S EXCEPT !.qp[q].alloc = <<>>, !.qp[q].sendPosted = @ - Len(al),
               !.free = Reverse(al) \o @]

\* psm3_verbs_post_send_drain: a signaled marker WQE behind every send.
\* It returns [s, err]; err when ibv_post_send fails other than EINTR.
PostSendDrain(S, q, postOk) ==
  IF postOk
    THEN [s |-> [S EXCEPT !.qp[q].sendPosted = @ + 1,
                  !.hw[q].sq = Append(@, [kind |-> "marker", buf |-> NULL,
                                          sig |-> TRUE])],
          err |-> FALSE]
    ELSE [s |-> S, err |-> TRUE]

\* modify_rc_qp_to_err: a failed modify is fine if the QP is already ERR.
ModifyRcQpToErr(S, q, modifyOk) ==
  IF modifyOk \/ S.hw[q].state = "ERR"
    THEN [s |-> [S EXCEPT !.hw[q].state = "ERR"], err |-> FALSE]
    ELSE [s |-> S, err |-> TRUE]

\* drain_rc_qp without the drain marker.
DrainRcQpNoMarker(S, q, moveToErr, modifyOk, postOk) ==
  IF S.qp[q].draining
    THEN [s |-> FreeRcQpIfEmpty(S, q), err |-> FALSE]
    ELSE
      LET m  == IF moveToErr /\ S.qp[q].initialized
                  THEN ModifyRcQpToErr(S, q, modifyOk)
                  ELSE [s |-> S, err |-> FALSE]
          S3 == [m.s EXCEPT !.dout = @ + 1, !.qp[q].draining = TRUE]
      IN [s |-> FreeRcQpIfEmpty(S3, q), err |-> m.err]

\* psm3_verbs_drain_rc_qp; returns [s, err].
DrainRcQp(S, q, moveToErr, modifyOk, postOk) ==
  IF S.qp[q].draining
    THEN [s |-> FreeRcQpIfEmpty(S, q), err |-> FALSE]
    ELSE
      LET m  == IF moveToErr /\ S.qp[q].initialized
                  THEN ModifyRcQpToErr(S, q, modifyOk)
                  ELSE [s |-> S, err |-> FALSE]
          p  == IF ~m.err /\ m.s.qp[q].alloc # <<>>
                  THEN PostSendDrain(m.s, q, postOk)
                  ELSE [s |-> m.s, err |-> m.err]
          S3 == [p.s EXCEPT !.dout = @ + 1, !.qp[q].draining = TRUE]
      IN [s |-> FreeRcQpIfEmpty(S3, q), err |-> p.err]

\* psm3_ips_proto_connection_error with reconnection allowed: drain the
\* rc_qp (moving it to ERR); a drain error is fatal.
ConnectionError(S, q, modifyOk, postOk) ==
  LET r == DrainRcQp(S, q, TRUE, modifyOk, postOk)
  IN IF r.err THEN [r.s EXCEPT !.fatal = TRUE] ELSE r.s

\* ips_protoexp_rdma_write_completion (outside this tree, from the
\* specification): the RDMA write's tidsendc is done and its rc_qp's
\* send_posted drops; a draining rc_qp left empty is freed.
RdmaWriteCompletion(S, q) ==
  FreeRcQpIfDrained([S EXCEPT !.qp[q].sendPosted = @ - 1], q)

\* ips_protoexp_rdma_write_completion_error with reconnection allowed
\* (outside this tree, from the specification): the tidsendc will be
\* retried on the new rc_qp; its rc_qp's send_posted drops.
RdmaWriteCompletionError(S, q) ==
  [S EXCEPT !.qp[q].sendPosted = @ - 1]

\* psm3_verbs_send_wc_error for an RC QP with reconnection allowed: the
\* sbuf, RDMA write or drain marker the CQE is about is retired, then the
\* first error on the rc_qp starts its recovery.
SendWcError(S, c, modifyOk, postOk) ==
  LET q  == c.qp
      S1 == CASE c.kind = "send" -> FreeSbuf(S, q, c.buf, Coallesce, FALSE)
              [] c.kind = "rdma" ->
                   RdmaWriteCompletionError([S EXCEPT !.rdma = @ - 1], q)
              [] OTHER -> [SendDrained(S, q) EXCEPT !.qp[q].sendPosted = @ - 1]
  IN IF ~S1.qp[q].draining
       THEN ConnectionError(S1, q, modifyOk, postOk)
       ELSE FreeRcQpIfEmpty(S1, q)

\* post_recv reposting on a draining pool.
PostRecvWhileDraining(S, q, postOk) ==
  IF postOk THEN [S EXCEPT !.qp[q].recvPosted = @ + 1, !.hw[q].rq = @ + 1]
  ELSE S

\* psm3_ep_verbs_post_recv: a draining pool is not reposted; a failed
\* ibv_post_recv returns PSM2_INTERNAL_ERR before pool->posted++, so the
\* buffer is lost to the receive queue.
PostRecv(S, q, postOk) ==
  IF S.qp[q].draining
    THEN FreeRcQpIfEmpty(S, q)
    ELSE IF postOk
      THEN [S EXCEPT !.qp[q].recvPosted = @ + 1, !.hw[q].rq = @ + 1]
      ELSE S

\* psm3_ep_verbs_prepost_recv
PrepostRecv(S, q) ==
  [S EXCEPT !.qp[q].recvPosted = @ + RecvTotal, !.hw[q].rq = @ + RecvTotal]

\* The outcomes a driver call may have.
Outcomes == IF DriverFailures THEN BOOLEAN ELSE {TRUE}

\* Program steps hold the progress lock: none runs inside another.
Idle == ~fatal /\ ~inUpdate /\ posting = NULL

-----------------------------------------------------------------------------
(* Program actions.                                                        *)

\* The rc_qp left as psmi_calloc returned it, its send allocator never
\* initialized (send_num_til_coallesce = 0).
CreateRcQpAllocatorZeroed(q) ==
  /\ Idle
  /\ IF conn = <<>> THEN TRUE ELSE qp[Head(conn)].draining
  /\ qp[q].st # "live"
  /\ qp' = [qp EXCEPT ![q] = [NewQp EXCEPT !.tilCo = 0]]
  /\ hw' = [hw EXCEPT ![q] = NewHw]
  /\ conn' = <<q>> \o conn
  /\ UNCHANGED <<free, cq, dout, rdmaOut, posting, inUpdate, fatal>>

\* psm3_verbs_create_rc_qp: a new rc_qp at the head of ipsaddr's list,
\* created when the peer has no usable rc_qp (first connect, reconnect),
\* its send allocator set up by psm_verbs_init_send_allocator.
CreateRcQp(q) ==
  /\ Idle
  /\ IF conn = <<>> THEN TRUE ELSE qp[Head(conn)].draining
  /\ qp[q].st # "live"
  /\ qp' = [qp EXCEPT ![q] = NewQp]
  /\ hw' = [hw EXCEPT ![q] = NewHw]
  /\ conn' = <<q>> \o conn
  /\ UNCHANGED <<free, cq, dout, rdmaOut, posting, inUpdate, fatal>>

\* The connect handshake brings the new rc_qp to RTS and preposts its
\* receive WQEs (modify_rc_qp_to_init/rtr/rts, psm3_ep_verbs_prepost_recv).
ConnectRcQp(q) ==
  /\ Idle
  /\ qp[q].st = "live" /\ ~qp[q].initialized /\ ~qp[q].draining
  /\ LET S == PrepostRecv(Cur, q)
     IN Apply([S EXCEPT !.qp[q].initialized = TRUE, !.hw[q].state = "RTS"])
  /\ UNCHANGED <<cq, posting, inUpdate>>

\* psm3_ep_verbs_alloc_sbuf on the active rc_qp (psm3_verbs_active_rc_qp).
AllocSbuf ==
  /\ Idle
  /\ conn # <<>> /\ free # <<>>
  /\ LET q == Head(conn)
         b == Head(free)
     IN /\ qp[q].initialized /\ ~qp[q].draining
        /\ free' = Tail(free)
        /\ qp' = [qp EXCEPT ![q].alloc = Append(@, b),
                            ![q].sendPosted = @ + 1]
        /\ posting' = [qp |-> q, buf |-> b]
  /\ UNCHANGED <<hw, cq, conn, dout, rdmaOut, inUpdate, fatal>>

\* The send WQE for the sbuf just allocated is posted, signaled once every
\* Coallesce sends (send_num_til_coallesce).
PostSend ==
  /\ posting # NULL
  /\ LET q   == posting.qp
         sig == qp[q].tilCo = 1
     IN /\ hw' = [hw EXCEPT ![q].sq = Append(@, [kind |-> "send",
                                     buf |-> posting.buf, sig |-> sig])]
        /\ qp' = [qp EXCEPT ![q].tilCo = IF sig THEN Coallesce ELSE @ - 1]
  /\ posting' = NULL
  /\ UNCHANGED <<free, cq, conn, dout, rdmaOut, inUpdate, fatal>>

\* psm3_ep_verbs_unalloc_sbuf after ibv_post_send failed: take the sbuf off
\* the end of the allocator list and put it back at the free list head.
UnallocSbuf ==
  /\ DriverFailures
  /\ posting # NULL
  /\ LET q == posting.qp
     IN /\ Last(qp[q].alloc) = posting.buf
        /\ qp' = [qp EXCEPT ![q].alloc = Front(@),
                            ![q].sendPosted = @ - 1]
        /\ free' = <<posting.buf>> \o free
  /\ posting' = NULL
  /\ UNCHANGED <<hw, cq, conn, dout, rdmaOut, inUpdate, fatal>>

\* psm3_verbs_post_rdma_write_immed on the active rc_qp (user RC QP RDMA
\* mode): a signaled RDMA write WQE, counted in send_rdma_outstanding and
\* in the rc_qp's send_posted.  A failed ibv_post_send undoes the count
\* and returns PSM2_TIMEOUT, leaving the state as it was.
PostRdmaWrite ==
  /\ Idle
  /\ conn # <<>> /\ rdmaOut < MaxRdma
  /\ LET q == Head(conn)
     IN /\ qp[q].initialized /\ ~qp[q].draining
        /\ qp' = [qp EXCEPT ![q].sendPosted = @ + 1]
        /\ hw' = [hw EXCEPT ![q].sq = Append(@, [kind |-> "rdma", buf |-> NULL,
                                                  sig |-> TRUE])]
  /\ rdmaOut' = rdmaOut + 1
  /\ UNCHANGED <<free, cq, conn, dout, posting, inUpdate, fatal>>

\* A reconnect replaces a live rc_qp: psm3_verbs_drain_rc_qp(move_to_err).
DrainForReconnect(q) ==
  /\ Idle
  /\ qp[q].st = "live" /\ ~qp[q].draining
  /\ \E m \in MoveToErr, modifyOk, postOk \in Outcomes :
       LET r == DrainRcQp(Cur, q, m, modifyOk, postOk)
       IN Apply([r.s EXCEPT !.fatal = r.err])
  /\ UNCHANGED <<cq, posting, inUpdate>>

\* psm3_verbs_completion_update: the early return unless enough sends are
\* outstanding, a drain is outstanding, or the caller asks to drain.  A
\* call that finds the CQ empty returns having changed nothing, so the loop
\* is entered only when there is a CQE to poll.
UpdateStart(drain) ==
  /\ Idle
  /\ cq # <<>>
  /\ \/ drain
     \/ rdmaOut > 0
     \/ Len(free) <= SendTotal - ReapThresh
     \/ dout > 0
  /\ inUpdate' = TRUE
  /\ UNCHANGED <<free, qp, hw, cq, conn, dout, rdmaOut, posting, fatal>>

\* The poll loop forgetting send_rdma_outstanding-- for a good RDMA write.
UpdatePollKeepsRdmaOut ==
  /\ inUpdate /\ ~fatal /\ cq # <<>>
  /\ LET c == Head(cq)
     IN \E modifyOk, postOk \in Outcomes :
          Apply(CASE c.status # "ok" -> SendWcError(Cur, c, modifyOk, postOk)
                  [] c.kind = "send" ->
                       FreeSbuf(Cur, c.qp, c.buf, Coallesce, TRUE)
                  [] OTHER -> RdmaWriteCompletion(Cur, c.qp))
  /\ cq' = Tail(cq)
  /\ UNCHANGED <<posting, inUpdate>>

\* One CQE of the poll loop: a good send completion frees its coalesced
\* sbufs, a good RDMA write completion drops send_rdma_outstanding and
\* completes the tidsendc, an error one goes to psm3_verbs_send_wc_error.
UpdatePoll ==
  /\ inUpdate /\ ~fatal /\ cq # <<>>
  /\ LET c == Head(cq)
     IN \E modifyOk, postOk \in Outcomes :
          Apply(CASE c.status # "ok" -> SendWcError(Cur, c, modifyOk, postOk)
                  [] c.kind = "send" ->
                       FreeSbuf(Cur, c.qp, c.buf, Coallesce, TRUE)
                  [] OTHER ->
                       RdmaWriteCompletion([Cur EXCEPT !.rdma = @ - 1], c.qp))
  /\ cq' = Tail(cq)
  /\ UNCHANGED <<posting, inUpdate>>

\* The poll loop ends once ibv_poll_cq returns nothing.
UpdateEnd ==
  /\ inUpdate /\ cq = <<>>
  /\ inUpdate' = FALSE
  /\ UNCHANGED <<free, qp, hw, cq, conn, dout, rdmaOut, posting, fatal>>

\* The receive completion handler: a good packet's buffer is reposted with
\* psm3_ep_verbs_post_recv; an error starts connection recovery.
RecvReap(q) ==
  /\ Idle
  /\ hw[q].rcq # <<>>
  /\ LET st == Head(hw[q].rcq)
         S1 == [Cur EXCEPT !.qp[q].recvPosted = @ - 1, !.hw[q].rcq = Tail(@)]
     IN \E modifyOk, postOk \in Outcomes :
          Apply(IF st = "ok" THEN PostRecv(S1, q, postOk)
                ELSE IF ~S1.qp[q].draining
                       THEN ConnectionError(S1, q, modifyOk, postOk)
                       ELSE FreeRcQpIfEmpty(S1, q))
  /\ UNCHANGED <<cq, posting, inUpdate>>

-----------------------------------------------------------------------------
(* The NIC.                                                                *)

\* The NIC runs the head send WQE.  On an RTS QP a send succeeds (with a
\* CQE only if signaled) and the drain marker fails on its bad lkey and
\* puts the QP in ERR; on an ERR QP every WQE completes with a flush error.
NicExecute(q) ==
  /\ hw[q].sq # <<>> /\ hw[q].state # "RESET"
  /\ LET w   == Head(hw[q].sq)
         err == hw[q].state = "ERR"
         cqe == [qp |-> q, kind |-> w.kind, buf |-> w.buf,
                 status |-> IF err THEN "flush"
                            ELSE IF w.kind = "marker" THEN "err" ELSE "ok"]
     IN /\ hw' = [hw EXCEPT ![q].sq = Tail(@),
                   ![q].state = IF w.kind = "marker" THEN "ERR" ELSE @]
        /\ cq' = IF err \/ w.sig THEN Append(cq, cqe) ELSE cq
  /\ UNCHANGED <<free, qp, conn, dout, rdmaOut, posting, inUpdate, fatal>>

\* A transport error (e.g. retry exceeded) on the head WQE puts the QP in ERR.
NicFail(q) ==
  /\ hw[q].state = "RTS"
  /\ hw' = [hw EXCEPT ![q].state = "ERR",
                      ![q].sq = IF @ = <<>> THEN @ ELSE Tail(@)]
  /\ cq' = IF hw[q].sq = <<>> THEN cq
           ELSE Append(cq, [qp |-> q, kind |-> Head(hw[q].sq).kind,
                            buf |-> Head(hw[q].sq).buf, status |-> "err"])
  /\ UNCHANGED <<free, qp, conn, dout, rdmaOut, posting, inUpdate, fatal>>

\* A packet from the peer consumes a receive WQE of an RTS QP.
NicRecv(q) ==
  /\ hw[q].state = "RTS" /\ hw[q].rq > 0
  /\ hw' = [hw EXCEPT ![q].rq = @ - 1, ![q].rcq = Append(@, "ok")]
  /\ UNCHANGED <<free, qp, cq, conn, dout, rdmaOut, posting, inUpdate, fatal>>

\* An ERR QP flushes its receive WQEs.
NicRecvFlush(q) ==
  /\ hw[q].state = "ERR" /\ hw[q].rq > 0
  /\ hw' = [hw EXCEPT ![q].rq = @ - 1, ![q].rcq = Append(@, "flush")]
  /\ UNCHANGED <<free, qp, cq, conn, dout, rdmaOut, posting, inUpdate, fatal>>

-----------------------------------------------------------------------------

\* psm_verbs_alloc_send_pool pushes every sbuf on the free list.  Which
\* buffer ends up where is a matter of naming only (sbufs are addresses),
\* so any order is allowed and the buffers may be treated symmetrically.
Init ==
  /\ free \in SetToSeqs(Bufs)
  /\ qp = [q \in QPs |-> [NewQp EXCEPT !.st = "unused"]]
  /\ hw = [q \in QPs |-> NewHw]
  /\ cq = <<>>
  /\ conn = <<>>
  /\ dout = 0
  /\ rdmaOut = 0
  /\ posting = NULL
  /\ inUpdate = FALSE
  /\ fatal = FALSE

Program ==
  \/ \E q \in QPs : CreateRcQp(q) \/ ConnectRcQp(q) \/ DrainForReconnect(q)
                    \/ RecvReap(q)
  \/ AllocSbuf \/ PostSend \/ UnallocSbuf \/ PostRdmaWrite
  \/ \E d \in DrainArgs : UpdateStart(d)
  \/ UpdatePoll \/ UpdateEnd

Nic ==
  \E q \in QPs : NicExecute(q) \/ NicFail(q) \/ NicRecv(q) \/ NicRecvFlush(q)

\* A fatal error terminates the process (psm3_handle_error on a drain
\* failure): the endpoint takes no further step.
Terminated == fatal /\ UNCHANGED vars

Next == Program \/ Nic \/ Terminated

\* The NIC makes progress on its queues.  The application keeps calling the
\* progress engine, which finishes a started post and polls the CQs on
\* every call; sends posted between two calls do not stop the next call
\* from reaping, so the reaping steps, which need the endpoint idle, are
\* strongly fair.
Fairness ==
  /\ \A q \in QPs : WF_vars(NicExecute(q)) /\ WF_vars(NicRecvFlush(q))
                    /\ SF_vars(RecvReap(q))
  /\ WF_vars(PostSend)
  /\ SF_vars(UpdateStart(FALSE)) /\ WF_vars(UpdatePoll) /\ WF_vars(UpdateEnd)

Spec == Init /\ [][Next]_vars
FairSpec == Spec /\ Fairness

-----------------------------------------------------------------------------
(* Properties.                                                             *)

TypeOK ==
  /\ free \in Seq(Bufs)
  /\ qp \in [QPs -> QpRec]
  /\ hw \in [QPs -> HwRec]
  /\ cq \in Seq(Cqe)
  /\ conn \in Seq(QPs)
  /\ dout \in Nat
  /\ rdmaOut \in 0 .. MaxRdma
  /\ posting \in {NULL} \cup [qp : QPs, buf : Bufs]
  /\ inUpdate \in BOOLEAN /\ fatal \in BOOLEAN

Live == {q \in QPs : qp[q].st = "live"}

\* The WQEs of a kind that q's send queue and the send CQ still hold.
Pending(q, kind) ==
  Len(SelectSeq(hw[q].sq, LAMBDA w : w.kind = kind))
    + Len(SelectSeq(cq, LAMBDA c : c.qp = q /\ c.kind = kind))

\* The counters the drain protocol trusts are exact: an rc_qp's send_posted
\* is its allocated sbufs plus its unreaped drain marker and RDMA writes,
\* its posted receives are the receive WQEs and CQEs the NIC still holds,
\* send_drain_outstanding counts the draining rc_qps not yet freed, and
\* send_rdma_outstanding the RDMA writes not yet reaped on any rc_qp
\* (psm3_ep_verbs_alloc_sbuf/unalloc_sbuf/free_sbuf, drain_rc_qp,
\* free_rc_qp, post_rdma_write_immed, send_wc_error).
CountersTrackPosted ==
  /\ \A q \in Live :
       /\ qp[q].sendPosted =
            Len(qp[q].alloc) + Pending(q, "marker") + Pending(q, "rdma")
       /\ qp[q].recvPosted = hw[q].rq + Len(hw[q].rcq)
  /\ dout = Cardinality({q \in Live : qp[q].draining})
  /\ rdmaOut = SumFunction([q \in Live |-> Pending(q, "rdma")])

\* An rc_qp is never freed while the NIC holds any of its send or receive
\* WQEs or completions, nor while it still owns an sbuf: a later completion
\* would touch freed memory (psm3_verbs_free_rc_qp_if_empty, drain marker).
NoFreeWithWorkPosted ==
  \A q \in QPs \ Live :
    /\ hw[q].sq = <<>> /\ hw[q].rq = 0 /\ hw[q].rcq = <<>>
    /\ \A i \in 1..Len(cq) : cq[i].qp # q
    /\ qp[q].alloc = <<>>
    /\ ~Contains(conn, q)

\* Every send buffer is in exactly one place: on the free list or on the
\* allocator list of one live rc_qp; none is lost or freed twice.
BuffersConserved ==
  /\ Len(free) + SumFunction([q \in Live |-> Len(qp[q].alloc)]) = SendTotal
  /\ ToSet(free) \cup UNION {ToSet(qp[q].alloc) : q \in Live} = Bufs

\* The CQE about to be reaped names an sbuf within the Coallesce oldest
\* sbufs of its allocator, so psm3_ep_verbs_free_sbuf finds it before its
\* count runs out (psmi_assert_always(b == buf)).
ReapFindsBuffer ==
  cq # <<>> /\ Head(cq).kind = "send" /\ ~fatal =>
    LET al == qp[Head(cq).qp].alloc
    IN \E i \in 1..Len(al) : i <= Coallesce /\ al[i] = Head(cq).buf

\* A draining rc_qp never gets new work: its send and receive queues only
\* shrink until it is freed (psm3_ep_verbs_alloc_sbuf, post_recv draining).
DrainingGetsNoWork ==
  [][\A q \in QPs :
       qp[q].draining =>
         /\ Len(hw'[q].sq) <= Len(hw[q].sq)
         /\ hw'[q].rq <= hw[q].rq
         /\ (qp'[q].draining \/ qp'[q].st = "freed")]_vars

\* Every rc_qp that starts draining is eventually freed.
DrainCompletes ==
  \A q \in QPs : qp[q].draining ~> qp[q].st = "freed"

\* An exhausted send pool is refilled: some sbuf always asks for a
\* completion, so the unsignaled sends before it are reaped with it and
\* psm3_ep_verbs_alloc_sbuf does not fail for ever (the coalescing of
\* send_num_til_coallesce, completion_update's reap threshold).
PoolReplenishes ==
  free = <<>> ~> free # <<>>

=============================================================================
