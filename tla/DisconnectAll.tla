---------------------------- MODULE DisconnectAll ----------------------------
(***************************************************************************)
(* The close-time disconnect of the PSM3 ips protocol                      *)
(* (src/prov/psm3/psm3/ptl_ips/ips_proto.c: psm3_ips_proto_disconnect_all) *)
(* as psm3_ep_close calls it, with the peers whose disconnect requests     *)
(* arrive meanwhile.                                                       *)
(*                                                                         *)
(* The endpoint first disconnects its outgoing connections, then waits in  *)
(* a grace loop: each pass blocks (polling, so peers' requests are         *)
(* processed) until no incoming connection is left or, once timeout_in    *)
(* has passed, the grace interval or the grace period ends; a pass during  *)
(* which no disconnect request arrived ends the loop, and so does the end  *)
(* of the grace period.                                                    *)
(*                                                                         *)
(* Time is a tick counter that advances while the endpoint busy-waits.    *)
(* psm3_cycles_left(start, t), for the positive t used here, is            *)
(* now - start < t.  The outgoing disconnect itself                        *)
(* (psm3_ips_proto_disconnect) and the handling of a peer's request are in *)
(* ips_proto_connect.c, not in this tree, and are modelled from the        *)
(* specification: the former waits at most timeout_in for the replies.    *)
(***************************************************************************)
EXTENDS Integers

CONSTANTS
  Peers,           \* the peer endpoints
  Timeout,         \* timeout_in as psm3_ep_close passes it: > 0
  MinCloseTimeout, \* PSMI_MIN_EP_CLOSE_TIMEOUT
  Interval,        \* t_grace_interval, already clamped to its bounds
  MaxDup,          \* bound on repeated disconnect requests from a peer
  MaxTime,         \* bound on the clock
  AllocCanFail     \* whether the psmi_calloc calls may fail

ASSUME /\ MinCloseTimeout > 1 /\ Timeout >= MinCloseTimeout /\ Interval > 0
       /\ MaxDup \in Nat /\ MaxTime \in Nat /\ AllocCanFail \in BOOLEAN

\* t_grace_time with PSM3_CLOSE_GRACE_PERIOD unset: half of the close
\* timeout, but at least PSMI_MIN_EP_CLOSE_TIMEOUT.
GraceTime ==
  LET half == Timeout \div 2
  IN IF half > 0 /\ half < MinCloseTimeout THEN MinCloseTimeout ELSE half

CyclesLeft(now, start, t) == now - start < t

VARIABLES
  pc,            \* where psm3_ips_proto_disconnect_all is
  now,           \* the clock
  tStart,        \* t_start
  tGraceStart,   \* t_grace_start
  tIntervalStart,\* t_grace_interval_start
  snapshot,      \* num_disconnect_requests at the start of the pass
  numReq,        \* proto->num_disconnect_requests
  incoming,      \* peers with an incoming connection still up
  outgoing,      \* peers with an outgoing connection still up
  lastDisc,      \* when the last disconnect (either way) happened, -1: none
  dups           \* repeated requests received so far

vars == <<pc, now, tStart, tGraceStart, tIntervalStart, snapshot, numReq,
          incoming, outgoing, lastDisc, dups>>

(* Slips the properties below are meant to catch, each defined just before *)
(* the operator it would replace.                                          *)

\* Waiting for the incoming connections only.
BlockDoneIncomingOnly == incoming = {}

\* The condition of the PSMI_BLOCKUNTIL in the grace loop.
BlockDone ==
  \/ incoming = {}
  \/ /\ ~CyclesLeft(now, tStart, Timeout)
     /\ \/ ~CyclesLeft(now, tIntervalStart, Interval)
        \/ ~CyclesLeft(now, tGraceStart, GraceTime)

\* The endpoint polls once more and starts the clock (t_start); it
\* disconnects its outgoing connections if it has any.
Init ==
  /\ pc = "outgoing"
  /\ now = 0 /\ tStart = 0 /\ tGraceStart = 0 /\ tIntervalStart = 0
  /\ snapshot = 0 /\ numReq = 0
  /\ incoming \in SUBSET Peers /\ outgoing \in SUBSET Peers
  /\ lastDisc = -1 /\ dups = 0

\* The outgoing disconnects: with the calloc'd arrays in hand,
\* psm3_ips_proto_disconnect returns once every peer replied or timeout_in
\* passed; then the grace period starts.  A failed calloc returns
\* PSM2_NO_MEMORY without the grace loop.
DisconnectOutgoing ==
  /\ pc = "outgoing"
  /\ \/ /\ outgoing = {} \/ ~CyclesLeft(now, tStart, Timeout)
        /\ pc' = "loop" /\ tGraceStart' = now
     \/ /\ AllocCanFail /\ outgoing # {}
        /\ pc' = "failed" /\ UNCHANGED tGraceStart
  /\ UNCHANGED <<now, tStart, tIntervalStart, snapshot, numReq, incoming,
                 outgoing, lastDisc, dups>>

\* A pass that records its deadline where its start belongs.
LoopTopDeadline ==
  /\ pc = "loop"
  /\ IF CyclesLeft(now, tGraceStart, GraceTime)
       THEN /\ pc' = "block" /\ tIntervalStart' = now + Interval
            /\ snapshot' = numReq
       ELSE /\ pc' = "expired" /\ UNCHANGED <<tIntervalStart, snapshot>>
  /\ UNCHANGED <<now, tStart, tGraceStart, numReq, incoming, outgoing,
                 lastDisc, dups>>

\* The top of the grace loop: while the grace period lasts, start a pass.
LoopTop ==
  /\ pc = "loop"
  /\ IF CyclesLeft(now, tGraceStart, GraceTime)
       THEN /\ pc' = "block" /\ tIntervalStart' = now /\ snapshot' = numReq
       ELSE /\ pc' = "expired" /\ UNCHANGED <<tIntervalStart, snapshot>>
  /\ UNCHANGED <<now, tStart, tGraceStart, numReq, incoming, outgoing,
                 lastDisc, dups>>

\* PSMI_BLOCKUNTIL returns; a pass with no new disconnect request breaks.
BlockReturn ==
  /\ pc = "block"
  /\ BlockDone
  /\ pc' = IF snapshot = numReq THEN "broke" ELSE "loop"
  /\ UNCHANGED <<now, tStart, tGraceStart, tIntervalStart, snapshot, numReq,
                 incoming, outgoing, lastDisc, dups>>

\* Time passes while the endpoint waits.
Tick ==
  /\ \/ pc = "outgoing" /\ outgoing # {} /\ CyclesLeft(now, tStart, Timeout)
     \/ pc = "block" /\ ~BlockDone
  /\ now < MaxTime
  /\ now' = now + 1
  /\ UNCHANGED <<pc, tStart, tGraceStart, tIntervalStart, snapshot, numReq,
                 incoming, outgoing, lastDisc, dups>>

Polling == pc \in {"outgoing", "block"}

\* A peer's disconnect request is processed by the polling (from the
\* specification): its incoming connection goes and the count goes up.
PeerDisconnect(p) ==
  /\ Polling /\ p \in incoming
  /\ incoming' = incoming \ {p}
  /\ numReq' = numReq + 1 /\ lastDisc' = now
  /\ UNCHANGED <<pc, now, tStart, tGraceStart, tIntervalStart, snapshot,
                 outgoing, dups>>

\* A peer repeats a request whose reply it did not get.
PeerRepeat ==
  /\ Polling /\ dups < MaxDup
  /\ numReq' = numReq + 1 /\ dups' = dups + 1 /\ lastDisc' = now
  /\ UNCHANGED <<pc, now, tStart, tGraceStart, tIntervalStart, snapshot,
                 incoming, outgoing>>

\* A peer replies to the endpoint's disconnect request.
PeerReply(p) ==
  /\ pc = "outgoing" /\ p \in outgoing
  /\ outgoing' = outgoing \ {p} /\ lastDisc' = now
  /\ UNCHANGED <<pc, now, tStart, tGraceStart, tIntervalStart, snapshot,
                 numReq, incoming, dups>>

Finished == pc \in {"broke", "expired", "failed"}

\* disconnect_all has returned; nothing of it is left to happen.
Returned == Finished /\ UNCHANGED vars

Next ==
  \/ DisconnectOutgoing \/ LoopTop \/ BlockReturn \/ Tick
  \/ \E p \in Peers : PeerDisconnect(p) \/ PeerReply(p)
  \/ PeerRepeat
  \/ Returned

Spec == Init /\ [][Next]_vars

\* The endpoint's own steps run: it busy-waits and the clock advances.
\* Peers may never answer.
FairSpec ==
  /\ Spec
  /\ WF_vars(DisconnectOutgoing) /\ WF_vars(LoopTop)
  /\ WF_vars(BlockReturn) /\ WF_vars(Tick)

-----------------------------------------------------------------------------
(* Properties.                                                             *)

TypeOK ==
  /\ pc \in {"outgoing", "loop", "block", "broke", "expired", "failed"}
  /\ now \in 0 .. MaxTime
  /\ tStart <= tGraceStart /\ tGraceStart <= now
  /\ tIntervalStart \in 0 .. now
  /\ snapshot \in 0 .. numReq /\ numReq \in Nat
  /\ incoming \subseteq Peers /\ outgoing \subseteq Peers
  /\ lastDisc \in -1 .. now /\ dups \in 0 .. MaxDup

\* psm3_ep_close gets past disconnect_all whatever the peers do: peers
\* that never answer cannot hold the close beyond its timeout.
Terminates == <>Finished

\* The comment above the grace loop: the loop waits one extra grace
\* interval during which no disconnect request arrives, so that the time
\* wait of every prior inbound or outbound disconnect has completed when
\* it breaks out.
QuietIntervalBeforeExit ==
  (pc = "broke" /\ lastDisc >= 0) => now - lastDisc >= Interval

=============================================================================
