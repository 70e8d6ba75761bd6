------------------------------- MODULE Params -------------------------------
(***************************************************************************)
(* Pure selections PSM3 makes at start-up from the environment and the    *)
(* hardware, each checked over bounded inputs against what the rest of    *)
(* the stack relies on or against an independent reference:               *)
(*   - the per-flow credit configuration: parse_flow_credits and the       *)
(*     PSM3_FLOW_CREDITS block of psm3_ips_proto_init (ips_proto.c);       *)
(*   - the static rate of a port: verbs_get_rate (verbs_ep.c);             *)
(*   - the RDMA mode and the MR cache mode: psm3_verbs_parse_rdmamode and  *)
(*     psm3_verbs_parse_mr_cache_mode (verbs_ep.c), on a fresh parse;      *)
(*   - the device list: psm3_parse_devices on a fresh parse, and the check *)
(*     of psm3_ep_open_internal that some device is enabled (psm_ep.c);    *)
(*   - the send queue sizes: ud_qp_create, the send pool of                *)
(*     psm3_verbs_ips_proto_init and psm_verbs_alloc_send_pool, and        *)
(*     rc_qp_create (verbs_ep.c);                                          *)
(*   - the buffer pools of psm3_verbs_ips_proto_init, built step by step   *)
(*     with any step failing, and released by psm3_ep_free_verbs.          *)
(*                                                                         *)
(* The variable holds one input; the specification never changes it, so   *)
(* the reachable states are exactly the inputs.                            *)
(***************************************************************************)
EXTENDS Integers, Sequences, FiniteSets, TLC
LOCAL INSTANCE SequencesExt

CONSTANTS
  MaxCredit,        \* IPS_MAX_CREDIT
  MinDefault,       \* IPS_PROTO_FLOW_CREDITS_MIN_DEFAULT
  MaxDefault,       \* IPS_PROTO_FLOW_CREDITS_MAX_DEFAULT
  RcMinDefault,     \* IPS_PROTO_FLOW_CREDITS_RC_MIN_DEFAULT
  RcMaxDefault,     \* IPS_PROTO_FLOW_CREDITS_RC_MAX_DEFAULT
  StepDefault,      \* IPS_PROTO_FLOW_CREDITS_STEP_DEFAULT
  Psm2FlowCredits,  \* PSM2_FLOW_CREDITS
  FieldVals,        \* integers an env tuple field may hold
  SendDescs,        \* values of num_of_send_desc
  Widths, Speeds,   \* port active_width and active_speed codes
  RdmaEnvs,         \* PSM3_RDMA values (Keep: unset)
  MrEnvs,           \* PSM3_MR_CACHE_MODE values (Keep: unset)
  PtlMaxInit,       \* PTL_MAX_INIT
  DevWords,         \* words a PSM3_DEVICES value may hold
  MaxDevWords,      \* bound on the words of a PSM3_DEVICES value
  Coallesce,        \* VERBS_SEND_CQ_COALLESCE
  SendWqesVals,     \* PSM3_NUM_SEND_WQES values
  SendRdmaVals,     \* PSM3_NUM_SEND_RDMA values
  HwMaxWrVals,      \* the most send WQEs the HCA grants a QP
  Keep, Bad         \* an empty tuple field; a field that is not a number

ASSUME /\ 0 < MinDefault /\ MinDefault <= MaxDefault /\ MaxDefault <= MaxCredit
       /\ 0 < RcMinDefault /\ RcMinDefault <= RcMaxDefault
       /\ RcMaxDefault <= MaxCredit /\ 0 < StepDefault
       /\ StepDefault <= MaxCredit /\ Psm2FlowCredits > 0
       /\ SendDescs \subseteq Nat \ {0} /\ Coallesce > 0
       /\ HwMaxWrVals \subseteq Nat \ {0}

MinOf(a, b) == IF a < b THEN a ELSE b

-----------------------------------------------------------------------------
(* PSM3_FLOW_CREDITS.                                                      *)

\* psm3_parse_str_tuples (psm_utils.c, not in this tree): the first fields
\* overwrite the defaults in order, an empty field keeps its default, and a
\* field that is not a number fails the parse.
ParseStrTuples(fields, tvals) ==
  IF \E i \in DOMAIN fields : fields[i] = Bad THEN [ret |-> -1, t |-> tvals]
  ELSE [ret |-> 0,
        t   |-> [i \in 1 .. 3 |-> IF i <= Len(fields) /\ fields[i] # Keep
                                    THEN fields[i] ELSE tvals[i]]]

\* parse_flow_credits: parse min:max:adjust over tvals and validate it.
\* A lone value means min = max with no adjust.
ParseFlowCredits(fields, tvals) ==
  LET p  == ParseStrTuples(fields, tvals)
      t  == IF Len(fields) = 1
              THEN [p.t EXCEPT ![2] = p.t[1], ![3] = 0] ELSE p.t
      ok == /\ p.ret >= 0
            /\ \A i \in 1 .. 3 : 0 <= t[i] /\ t[i] <= MaxCredit
            /\ t[1] # 0 /\ t[2] # 0
            /\ ~(t[2] > t[1] /\ t[3] = 0)
            /\ t[1] <= t[2]
  IN [ok |-> ok, t |-> t]

\* The default tuple: the RC defaults in PSM3_RDMA=3 mode, both bounded by
\* the send descriptors.
CreditDefaults(userRc, nsd) ==
  <<IF userRc THEN MinOf(RcMinDefault, nsd) ELSE MinOf(MinDefault, nsd),
    IF userRc THEN MinOf(RcMaxDefault, nsd) ELSE MinOf(MaxDefault, nsd),
    StepDefault>>

\* Bounding min but not max by the send descriptors.
CreditsInitNoClamp(fields, userRc, nsd, advCtrl) ==
  LET def == CreditDefaults(userRc, nsd)
      env == IF ParseFlowCredits(fields, def).ok THEN fields ELSE def
      t   == ParseFlowCredits(env, def).t
      lo  == MinOf(t[1], nsd)
      hi  == t[2]
      df  == MinOf(Psm2FlowCredits, nsd)
      fc  == IF df > lo /\ df < hi THEN df ELSE (lo + hi) \div 2
  IN IF advCtrl THEN [flow |-> fc, min |-> lo, max |-> hi, adjust |-> t[3]]
     ELSE [flow |-> fc, min |-> fc, max |-> fc, adjust |-> 0]

\* The PSM3_FLOW_CREDITS block of psm3_ips_proto_init: psm3_getenv_range
\* falls back to the default string when the check rejects the value; the
\* result is parsed again, bounded by num_of_send_desc, and the initial
\* credits are PSM2_FLOW_CREDITS when strictly inside the range, else the
\* middle.  Without PSM3_ADV_FLOW_CONTROL the credits are fixed.
CreditsInit(fields, userRc, nsd, advCtrl) ==
  LET def == CreditDefaults(userRc, nsd)
      env == IF ParseFlowCredits(fields, def).ok THEN fields ELSE def
      t   == ParseFlowCredits(env, def).t
      lo  == MinOf(t[1], nsd)
      hi  == MinOf(t[2], nsd)
      df  == MinOf(Psm2FlowCredits, nsd)
      fc  == IF df > lo /\ df < hi THEN df ELSE (lo + hi) \div 2
  IN IF advCtrl THEN [flow |-> fc, min |-> lo, max |-> hi, adjust |-> t[3]]
     ELSE [flow |-> fc, min |-> fc, max |-> fc, adjust |-> 0]

-----------------------------------------------------------------------------
(* verbs_get_rate: the IB width and speed codes of a port to the static    *)
(* rate, given here in tenths of Gb/s (PSM3_IBV_RATE_2_5_GBPS is 25).      *)

UnknownRate == 1000   \* PSM3_IBV_RATE_100_GBPS, after an "unknown" error

\* The speed code 8 (FDR10) without its case label, so it falls to default.
VerbsGetRateNoFdr10(width, speed) ==
  LET row == CASE width = 1  -> <<25, 50, 100, 140, 250, 500, 1000>>
               [] width = 2  -> <<100, 200, 400, 560, 1000, 2000, 4000>>
               [] width = 4  -> <<200, 400, 800, 1120, 2000, 4000, 8000>>
               [] width = 8  -> <<300, 600, 1200, 1680, 3000, 6000, 12000>>
               [] width = 16 -> <<50, 100, 200, 280, 500, 1000, 2000>>
               [] OTHER      -> <<>>
      col == CASE speed = 1 -> 1 [] speed = 2 -> 2 [] speed = 4 -> 3
               [] speed = 16 -> 4 [] speed = 32 -> 5 [] speed = 64 -> 6
               [] speed = 128 -> 7 [] OTHER -> 0
  IN IF row = <<>> \/ col = 0 THEN UnknownRate ELSE row[col]

VerbsGetRate(width, speed) ==
  LET row == CASE width = 1  -> <<25, 50, 100, 140, 250, 500, 1000>>
               [] width = 2  -> <<100, 200, 400, 560, 1000, 2000, 4000>>
               [] width = 4  -> <<200, 400, 800, 1120, 2000, 4000, 8000>>
               [] width = 8  -> <<300, 600, 1200, 1680, 3000, 6000, 12000>>
               [] width = 16 -> <<50, 100, 200, 280, 500, 1000, 2000>>
               [] OTHER      -> <<>>
      col == CASE speed = 1 -> 1 [] speed = 2 -> 2 [] speed \in {4, 8} -> 3
               [] speed = 16 -> 4 [] speed = 32 -> 5 [] speed = 64 -> 6
               [] speed = 128 -> 7 [] OTHER -> 0
  IN IF row = <<>> \/ col = 0 THEN UnknownRate ELSE row[col]

-----------------------------------------------------------------------------
(* PSM3_RDMA and PSM3_MR_CACHE_MODE.  rdmamode is a flags word whose low    *)
(* two bits select the QP kind ("0-no RDMA, 1-kernel RDMA, 2-user RDMA,     *)
(* 3-user RC send/RDMA"); higher bits are extra flags.                     *)

QpKind(m) == m % 4
KernelQp(m) == QpKind(m) = 1
UserRcQp(m) == QpKind(m) \in {2, 3}
RdmaEnabled(m) == QpKind(m) # 0

\* b is the build and the machine: RNDV_MOD, USE_RC, whether the rv module
\* is loaded, GPU Direct enabled on a GPU build, send DMA enabled.
\* psm3_verbs_parse_rdmamode with reload: the default is kernel RDMA when
\* rv is there or GPU Direct is on; a mode the build cannot run is 0.
ParseRdmaMode(b, env) ==
  LET default == IF b.rndvMod /\ (b.rvAvailable \/ b.gpuDirect) THEN 1 ELSE 0
      v0 == IF env = Keep THEN default ELSE env
      v1 == IF ~b.useRc /\ UserRcQp(v0) THEN 0 ELSE v0
  IN IF ~b.rndvMod /\ KernelQp(v1) THEN 0 ELSE v1

\* MR_CACHE_MODE_NONE, _KERNEL, _USER as PSM3_MR_CACHE_MODE numbers them;
\* MR_CACHE_MODE_RV is set only internally.
MrModeOf(v) == CASE v = 0 -> "NONE" [] v = 1 -> "KERNEL" [] v = 2 -> "USER"
                 [] v = 3 -> "RV" [] OTHER -> "INVALID"

(* Slips the properties below are meant to catch, each defined just before *)
(* the operator it would replace.                                          *)

\* Taking PSM3_MR_CACHE_MODE as given.
ParseMrCacheModeUnchecked(b, rdmamode, env) ==
  LET default == IF b.rndvMod THEN 1 ELSE 0
      fromEnv == MrModeOf(IF env = Keep THEN default ELSE env)
      m == IF ~RdmaEnabled(rdmamode) /\ ~b.gpuDirect /\ ~b.sendDma THEN "NONE"
           ELSE IF KernelQp(rdmamode) THEN "RV"
           ELSE IF b.gpuDirect /\ b.rndvMod THEN "KERNEL"
           ELSE fromEnv
  IN IF ~b.rndvMod /\ m = "KERNEL" THEN "NONE" ELSE m

\* Rejecting only values out of range, letting PSM3_MR_CACHE_MODE select RV.
ParseMrCacheModeKeepsRv(b, rdmamode, env) ==
  LET default == IF b.rndvMod THEN 1 ELSE 0
      fromEnv == MrModeOf(IF env = Keep THEN default ELSE env)
      m == IF ~RdmaEnabled(rdmamode) /\ ~b.gpuDirect /\ ~b.sendDma THEN "NONE"
           ELSE IF KernelQp(rdmamode) THEN "RV"
           ELSE IF b.gpuDirect /\ b.rndvMod THEN "KERNEL"
           ELSE IF fromEnv = "INVALID" THEN "NONE"
           ELSE fromEnv
  IN IF ~b.rndvMod /\ m = "KERNEL" THEN "NONE" ELSE m

\* psm3_verbs_parse_mr_cache_mode with reload: no cache when neither RDMA,
\* GPU Direct nor send DMA is on; the rv cache for kernel RDMA; the kernel
\* cache for GPU Direct with rv; else PSM3_MR_CACHE_MODE, where an invalid
\* value or RV means none.  A build without rv has no kernel cache.
ParseMrCacheMode(b, rdmamode, env) ==
  LET default == IF b.rndvMod THEN 1 ELSE 0
      fromEnv == MrModeOf(IF env = Keep THEN default ELSE env)
      m == IF ~RdmaEnabled(rdmamode) /\ ~b.gpuDirect /\ ~b.sendDma THEN "NONE"
           ELSE IF KernelQp(rdmamode) THEN "RV"
           ELSE IF b.gpuDirect /\ b.rndvMod THEN "KERNEL"
           ELSE IF fromEnv \in {"INVALID", "RV"} THEN "NONE"
           ELSE fromEnv
  IN IF ~b.rndvMod /\ m = "KERNEL" THEN "NONE" ELSE m

-----------------------------------------------------------------------------
(* PSM3_DEVICES.  The value is a sequence of words: psm3_parse_devices     *)
(* splits it at every non-letter, and strcasecmp ignores case, so a word   *)
(* here is the lower-case run of letters.                                  *)

\* The PTL_DEVID_* each recognised word selects.
DevWordsKnown == {"self", "shm", "shmem", "amsh", "hfi", "nic", "ipath", "ips"}
DevIdOf == [w \in DevWordsKnown |->
              CASE w = "self" -> "SELF"
                [] w \in {"shm", "shmem", "amsh"} -> "AMSH"
                [] OTHER -> "IPS"]
NoDev == "NONE"   \* the -1 of an unused slot

\* Accepting an unrecognised word without an error.
RECURSIVE ParseDevicesLoopSkips(_, _, _)
ParseDevicesLoopSkips(words, devices, i) ==
  IF words = <<>> \/ i >= PtlMaxInit THEN [err |-> "OK", devices |-> devices]
  ELSE IF Head(words) \in DOMAIN DevIdOf
    THEN ParseDevicesLoopSkips(Tail(words),
           [devices EXCEPT ![i + 1] = DevIdOf[Head(words)]], i + 1)
  ELSE ParseDevicesLoopSkips(Tail(words), devices, i)

\* The while loop of psm3_parse_devices: one word per pass until the value
\* or the PTL_MAX_INIT slots run out; an unrecognised word is an error.
RECURSIVE ParseDevicesLoop(_, _, _)
ParseDevicesLoop(words, devices, i) ==
  IF words = <<>> \/ i >= PtlMaxInit THEN [err |-> "OK", devices |-> devices]
  ELSE IF Head(words) \in DOMAIN DevIdOf
    THEN ParseDevicesLoop(Tail(words),
           [devices EXCEPT ![i + 1] = DevIdOf[Head(words)]], i + 1)
  ELSE [err |-> "PARAM_ERR", devices |-> devices]

\* psm3_parse_devices with no saved value: every slot starts at -1; when
\* the calloc of the scratch copy fails it returns PSM2_OK with no device.
ParseDevices(words, allocFails) ==
  LET none == [k \in 1 .. PtlMaxInit |-> NoDev]
  IN IF allocFails THEN [err |-> "OK", devices |-> none]
     ELSE ParseDevicesLoop(words, none, 0)

\* The statics of psm3_parse_devices: have_value and saved[].
NoSaved == [have |-> FALSE, saved |-> [k \in 1 .. PtlMaxInit |-> NoDev]]

ParseDevicesCached(cache, words, allocFails) ==
  IF cache.have THEN [err |-> "OK", devices |-> cache.saved, cache |-> cache]
  ELSE LET r == ParseDevices(words, allocFails)
       IN [err |-> r.err, devices |-> r.devices,
           cache |-> IF ~allocFails /\ r.err = "OK"
                       THEN [have |-> TRUE, saved |-> r.devices] ELSE cache]

psm3_device_is_enabled(devices, devid) ==
  \E k \in 1 .. PtlMaxInit : devices[k] = devid

\* psm3_ep_open_internal sums the sizes of the enabled PTLs and returns
\* PSM2_EP_NO_DEVICE when that is 0.
EpOpenHasDevice(devices) ==
  \E d \in {"SELF", "IPS", "AMSH"} : psm3_device_is_enabled(devices, d)

-----------------------------------------------------------------------------
(* Send queue sizes.  ibv_create_qp reports the capacities it granted in   *)
(* attr.cap; an HCA grants at most its limit hw.  c holds                  *)
(* hfi_num_send_wqes, hfi_num_send_rdma, hw, whether rdmamode is user RC   *)
(* (PSM3_RDMA=3) and whether the build has PSM_RC_RECONNECT.               *)

\* ud_qp_create: one send WQE more than PSM3_NUM_SEND_WQES, as granted.
UdQpMaxSendWr(c) == MinOf(c.wqes + 1, c.hw)

\* The send pool sized by the UD QP's capacity, without the spare WQE.
VerbsSendPoolNoSpare(c) ==
  LET req == MinOf(c.wqes, UdQpMaxSendWr(c))
  IN [req |-> req, total |-> (req \div Coallesce) * Coallesce]

\* psm3_verbs_ips_proto_init asks for min(hfi_num_send_wqes,
\* max_send_wr - 1) buffers; psm_verbs_alloc_send_pool rounds that down to
\* a multiple of the coalescing factor.
VerbsSendPool(c) ==
  LET req == MinOf(c.wqes, UdQpMaxSendWr(c) - 1)
  IN [req |-> req, total |-> (req \div Coallesce) * Coallesce]

\* rc_qp_create: in user RC mode the send queue is asked for the send
\* WQEs, the RDMA writes and the drain marker (two spare with
\* PSM_RC_RECONNECT, one without) and the QP is destroyed when what was
\* granted, less the reconnect spare, is below send_total; otherwise
\* the RDMA writes plus one are asked for and a shortfall only noted.
RcQpCreate(c, sendTotal) ==
  IF c.userRc
    THEN LET spare == IF c.reconnect THEN 2 ELSE 1
             cap   == MinOf(c.wqes + c.rdma + spare, c.hw)
         IN [ok |-> ~(cap - (spare - 1) < sendTotal), maxSendWr |-> cap]
    ELSE [ok |-> TRUE, maxSendWr |-> MinOf(c.rdma + 1, c.hw)]

-----------------------------------------------------------------------------
(* Buffer pools, on a USE_RC build.  A pool holds its buffer memory, its   *)
(* buffer control array and the MR of the memory; each pointer is NULL,    *)
(* live, or dangling once freed without being cleared.  allocs and frees   *)
(* count what was done to each.  The UD QP, CQs and the SRQ itself are     *)
(* created and destroyed elsewhere and left out.                           *)

Res == {"send", "recv", "srq"} \X {"buffers", "bufs", "mr"}
\* The steps of psm3_verbs_ips_proto_init that may fail without allocating.
Calls == {<<"srq", "prepost">>, <<"ud", "init">>, <<"ud", "prepost">>,
          <<"ud", "rtr">>, <<"ud", "rts">>}
NoFail == <<"none", "none">>

NoPools == [held |-> [r \in Res |-> "null"], allocs |-> [r \in Res |-> 0],
            frees |-> [r \in Res |-> 0], err |-> FALSE]

\* if (pool->x) { free(pool->x); pool->x = NULL; }
Release(S, r) ==
  IF S.held[r] = "null" THEN S
  ELSE [S EXCEPT !.held[r] = "null", !.frees[r] = @ + 1]

\* The steps in order until one fails.
RECURSIVE Steps(_, _, _)
Steps(S, seq, fail) ==
  IF seq = <<>> \/ S.err THEN S
  ELSE LET r == Head(seq)
           T == IF r = fail THEN [S EXCEPT !.err = TRUE]
                ELSE IF r \in DOMAIN S.held
                  THEN [S EXCEPT !.held[r] = "live", !.allocs[r] = @ + 1]
                ELSE S
       IN Steps(T, Tail(seq), fail)

\* psm_verbs_free_send_pool: deregister, free the control array and the
\* memory, then zero the pool.
FreeSendPool(S) ==
  Release(Release(Release(S, <<"send", "mr">>), <<"send", "bufs">>),
          <<"send", "buffers">>)

\* Freeing without clearing the pointers or zeroing the pool.
FreeRecvPoolNoClear(S, p) ==
  LET Drop(T, r) == IF T.held[r] = "null" THEN T
                    ELSE [T EXCEPT !.held[r] = "dangling", !.frees[r] = @ + 1]
  IN Drop(Drop(Drop(S, <<p, "mr">>), <<p, "bufs">>), <<p, "buffers">>)

\* psm_verbs_free_recv_pool, the same for a receive pool.
FreeRecvPool(S, p) ==
  Release(Release(Release(S, <<p, "mr">>), <<p, "bufs">>), <<p, "buffers">>)

\* psm_verbs_alloc_send_pool: memory, control array, MR; on a failure the
\* pool is freed.
AllocSendPool(S, fail) ==
  LET T == Steps(S, <<<<"send", "buffers">>, <<"send", "bufs">>,
                      <<"send", "mr">>>>, fail)
  IN IF T.err THEN FreeSendPool(T) ELSE T

\* psm_verbs_alloc_recv_pool: with a buffer size, memory, control array
\* and MR; with none (an SRQ for user RDMA only), the control array alone.
AllocRecvPool(S, p, withBuffers, fail) ==
  LET T == Steps(S, IF withBuffers
                      THEN <<<<p, "buffers">>, <<p, "bufs">>, <<p, "mr">>>>
                      ELSE <<<<p, "bufs">>>>, fail)
  IN IF T.err THEN FreeRecvPool(T, p) ELSE T

\* psm3_verbs_ips_proto_init from the send pool on: the send pool, the UD
\* receive pool, the SRQ pool and its prepost when there is an SRQ, then
\* the UD QP to INIT, its prepost, RTR and RTS; any failure frees the SRQ,
\* send and receive pools and returns PSM2_INTERNAL_ERR.
ProtoInitPools(S, c, fail) ==
  LET s1 == AllocSendPool(S, fail)
      s2 == IF s1.err THEN s1 ELSE AllocRecvPool(s1, "recv", TRUE, fail)
      s3 == IF s2.err \/ ~c.srq THEN s2
            ELSE Steps(AllocRecvPool(s2, "srq", c.srqBuffers, fail),
                       <<<<"srq", "prepost">>>>, fail)
      s4 == Steps(s3, <<<<"ud", "init">>, <<"ud", "prepost">>,
                        <<"ud", "rtr">>, <<"ud", "rts">>>>, fail)
  IN IF s4.err THEN FreeRecvPool(FreeSendPool(FreeRecvPool(s4, "srq")), "recv")
     ELSE s4

\* psm3_ep_free_verbs frees the send, receive and SRQ pools.
EpFreeVerbs(S) == FreeRecvPool(FreeRecvPool(FreeSendPool(S), "recv"), "srq")

-----------------------------------------------------------------------------
(* The device resources of psm3_ep_open_verbs with verbs_open_dev,         *)
(* open_rv, check_port_state and ud_qp_create, on a USE_RC and RNDV_MOD   *)
(* build, in the same record as the pools, plus log: the releases in      *)
(* order, each with the resources still live right after it.  The device  *)
(* list of verbs_open_dev, freed on every way out, is left out.            *)

DevRes == {"devName", "context", "rv", "pd", "sendCq", "compChannel", "srq",
           "recvCq", "udQp"}
\* The checks and calls that may fail without creating anything.
DevCalls == {"unitPath", "getDevices", "findDevice", "asyncFcntl",
             "queryPort", "addrFmt", "subnet", "portState", "chanFcntl",
             "queryDevice"}

\* What each resource is created on and must be destroyed before; rv goes
\* before the PD and the device ("must close rv prior to dealloc pd or
\* closing device" in psm3_ep_free_verbs).
Uses == [devName |-> {}, context |-> {}, rv |-> {"context", "pd"},
         pd |-> {"context"}, sendCq |-> {"context"},
         compChannel |-> {"context"}, srq |-> {"pd"},
         recvCq |-> {"context", "compChannel"},
         udQp |-> {"pd", "sendCq", "recvCq"}]

NoDevice == [held |-> [r \in DevRes |-> "null"],
             allocs |-> [r \in DevRes |-> 0],
             frees |-> [r \in DevRes |-> 0], err |-> FALSE, log |-> <<>>]

Live(S) == {r \in DOMAIN S.held : S.held[r] = "live"}

\* if (ep->x) { destroy(ep->x); ep->x = NULL; }, logged.
DevRelease(S, r) ==
  IF S.held[r] = "null" THEN S
  ELSE LET T == Release(S, r)
       IN [T EXCEPT !.log = Append(@, [r |-> r, live |-> Live(T)])]

\* verbs_open_dev's fail path destroying the context without clearing it.
OpenDevFailNoClear(S) ==
  LET T == [S EXCEPT !.held["context"] = IF @ = "live" THEN "dangling" ELSE @,
                     !.frees["context"] = IF S.held["context"] = "live"
                                            THEN @ + 1 ELSE @]
  IN DevRelease(T, "devName")

\* verbs_open_dev's fail label: close the device and free dev_name.
OpenDevFail(S) == DevRelease(DevRelease(S, "context"), "devName")

\* verbs_open_dev: a bad unit path or a failed strdup returns at once; a
\* later failure goes to fail.  rv is opened for a kernel QP or the kernel
\* MR cache, and the kernel MR cache also needs the rv's user MR
\* capability (psmi_hal_has_cap(PSM_HAL_CAP_USER_MR)).
OpenDev(S, c, fail) ==
  LET s1 == Steps(S, <<"unitPath", "devName">>, fail)
      s2 == Steps(s1, <<"getDevices", "findDevice", "context", "asyncFcntl",
                        "queryPort", "addrFmt", "subnet">>, fail)
      s3 == IF s2.err \/ ~(c.rdma = "kernelQp" \/ c.mrKernel) THEN s2
            ELSE LET t == Steps(s2, <<"rv">>, fail)
                 IN IF ~t.err /\ c.mrKernel /\ ~c.userMrCap
                      THEN [t EXCEPT !.err = TRUE] ELSE t
  IN IF s1.err \/ ~s3.err THEN s3 ELSE OpenDevFail(s3)

\* psm3_ep_free_verbs, the device part, in its order (the pools go between
\* the UD QP and the receive CQ).
FreeVerbsDevice(S) ==
  FoldLeft(DevRelease, S, <<"udQp", "recvCq", "compChannel", "sendCq", "rv",
                            "srq", "pd", "context", "devName">>)

\* psm3_ep_open_verbs: the device, the port check, PD, send CQ, completion
\* channel made non-blocking, for user RC a device query and the SRQ if
\* one is used, the receive CQ and the UD QP; any failure, the device's
\* included, goes to fail, which is psm3_ep_free_verbs.
OpenVerbs(c, fail) ==
  LET s1 == OpenDev(NoDevice, c, fail)
      rc == c.rdma = "userRc"
      s2 == Steps(s1, <<"portState", "pd", "sendCq", "compChannel", "chanFcntl">>
                      \o (IF rc THEN <<"queryDevice">> ELSE <<>>)
                      \o (IF rc /\ c.srq THEN <<"srq">> ELSE <<>>)
                      \o <<"recvCq", "udQp">>, fail)
  IN IF s2.err THEN FreeVerbsDevice(s2) ELSE s2

-----------------------------------------------------------------------------
(* One rail of an endpoint opened by psm3_ep_open_internal and closed by   *)
(* psm3_ep_close, in the same record form.  Each resource stands for one   *)
(* allocation or registration; "context" is the verbs device (the Device   *)
(* record above) and "pools" the pools of psm3_verbs_ips_proto_init, both  *)
(* freed by psm3_context_close through psm3_ep_free_verbs.  The IPS PTL's  *)
(* init and fini are the psm3_ips_proto_init and psm3_ips_proto_fini they  *)
(* run; the GPU parts of either, built only with PSM_HAVE_GPU, are left out.*)

EpRes == {"ep", "epaddr", "label", "context", "pools", "amsh", "ibta",
          "pendPool", "stats", "recv", "scbcEgr", "scbcRv", "protoexp", "am",
          "mrCache"}
\* The checks and calls that may fail without allocating anything.
EpCalls == {"params", "hostname", "selfPtl", "loopback", "scbcRvInit"}
\* The steps of psm3_ips_proto_fini and psm3_ptl_amsh.fini that may fail.
FiniErrs == {"amsh", "ibta", "am", "scbcEgr", "protoexp"}

\* What each resource points into: the stats registry, a global list, holds
\* the addresses of the proto's counters, which live inside the ep
\* allocation (ips_proto_register_stats); the pools are on the context.
EpUses == [r \in EpRes |-> CASE r = "stats" -> {"ep"}
                             [] r = "pools" -> {"context"}
                             [] OTHER -> {}]

NoEp == [held |-> [r \in EpRes |-> "null"], allocs |-> [r \in EpRes |-> 0],
         frees |-> [r \in EpRes |-> 0], err |-> FALSE, log |-> <<>>]

\* psm3_ips_proto_init: the HAL's pools (which free themselves on a
\* failure), IBTA, the loopback check, the pending-send pool, the stats
\* registration, the receive side, the eager and rendezvous SCB controls,
\* the expected protocol when PSM3_RDMA enables it, AM, and the MR cache
\* with RDMA or an MR cache mode.  Every failure goes to fail, which only
\* returns the error: nothing allocated before it is released.
ProtoInit(S, c, fail) ==
  Steps(S, <<"pools", "ibta", "loopback", "pendPool", "stats", "recv",
             "scbcEgr", "scbcRv", "scbcRvInit">>
           \o (IF c.protoexp THEN <<"protoexp">> ELSE <<>>)
           \o <<"am">>
           \o (IF c.protoexp \/ c.mrMode THEN <<"mrCache">> ELSE <<>>), fail)

\* The fini steps in order until one fails; a step runs only for a resource
\* that is there, a failing one keeps it and the rest are skipped.
RECURSIVE FiniSteps(_, _, _)
FiniSteps(S, seq, failAt) ==
  IF seq = <<>> THEN S
  ELSE IF Head(seq) = failAt /\ S.held[failAt] = "live"
    THEN [S EXCEPT !.err = TRUE]
  ELSE FiniSteps(DevRelease(S, Head(seq)), Tail(seq), failAt)

\* psm3_ips_proto_fini without psm3_stats_deregister_type.
ProtoFiniKeepsStats(S, failAt) ==
  FiniSteps(S, <<"ibta", "am", "scbcEgr", "recv", "protoexp", "scbcRv",
                 "mrCache", "pendPool">>, failAt)

\* psm3_ips_proto_fini: IBTA, AM, the eager SCB control, the receive side,
\* the expected protocol if any, the rendezvous SCB control, the MR cache
\* if any, the stats deregistration and the pending-send pool; an error of
\* IBTA, AM, the eager SCBs or the expected protocol goes to fail, which
\* skips everything after it.
ProtoFini(S, failAt) ==
  FiniSteps(S, <<"ibta", "am", "scbcEgr", "recv", "protoexp", "scbcRv",
                 "mrCache", "stats", "pendPool">>, failAt)

\* psm3_ep_close_device: psm3_context_close with IPS, which frees the pools
\* and then the device.
CloseDevice(S, c) ==
  IF c.ips THEN DevRelease(DevRelease(S, "pools"), "context") ELSE S

\* psm3_ep_open_device: psm3_context_open with IPS; shm-only and self-only
\* endpoints only pack an epid.
OpenDevice(S, c, fail) == Steps(S, IF c.ips THEN <<"context">> ELSE <<>>, fail)

\* psm3_ep_open_internal: the option checks; no device, PSM2_EP_NO_DEVICE;
\* the ep and its epaddr, both allocated before either is checked; the
\* device (psm3_context_open with IPS); the label and the hostname; the
\* self, IPS and amsh PTLs.  From the label on a failure goes to close,
\* psm3_ep_close_device, then to fail, which frees the ep and the epaddr
\* ("TBD need to cleanup ptl.fini and other details").
OpenInternal(c, fail) ==
  LET Alloc(S, r) == IF r = fail THEN [S EXCEPT !.err = TRUE]
                     ELSE [S EXCEPT !.held[r] = "live", !.allocs[r] = @ + 1]
      s1 == Steps(NoEp, <<"params">>, fail)
      s2 == Alloc(Alloc(s1, "ep"), "epaddr")
      s3 == OpenDevice(s2, c, fail)
      s4 == Steps(s3, <<"label", "hostname">>
                      \o (IF c.self THEN <<"selfPtl">> ELSE <<>>), fail)
      s5 == IF s4.err \/ ~c.ips THEN s4 ELSE ProtoInit(s4, c, fail)
      s6 == Steps(s5, IF c.amsh THEN <<"amsh">> ELSE <<>>, fail)
      Fail(S) == DevRelease(DevRelease(S, "ep"), "epaddr")
  IN CASE s1.err -> s1
       [] ~(c.ips \/ c.amsh \/ c.self) -> [s1 EXCEPT !.err = TRUE]
       [] s2.err \/ s3.err -> Fail(s3)
       [] s6.err -> Fail(CloseDevice(s6, c))
       [] OTHER -> s6

\* psm3_ep_close for one rail: amsh fini, the IPS fini only if that
\* succeeded, then whatever they returned psm3_ep_close_device and the
\* frees of the epaddr, the label and the ep.
EpClose(S, c, finiErr) ==
  LET s1 == IF ~c.amsh THEN S
            ELSE IF finiErr = "amsh" THEN [S EXCEPT !.err = TRUE]
            ELSE DevRelease(S, "amsh")
      s2 == IF s1.err \/ ~c.ips THEN s1 ELSE ProtoFini(s1, finiErr)
  IN FoldLeft(DevRelease, CloseDevice(s2, c), <<"epaddr", "label", "ep">>)

-----------------------------------------------------------------------------

Fields == UNION {[1 .. n -> FieldVals \cup {Keep, Bad}] : n \in 0 .. 3}
Builds == [rndvMod : BOOLEAN, useRc : BOOLEAN, rvAvailable : BOOLEAN,
           gpuDirect : BOOLEAN, sendDma : BOOLEAN]

Inputs ==
  [kind : {"credits"}, fields : Fields, userRc : BOOLEAN, nsd : SendDescs,
   adv : BOOLEAN]
  \cup [kind : {"rate"}, width : Widths, speed : Speeds]
  \cup [kind : {"modes"}, b : Builds, rdma : RdmaEnvs, mr : MrEnvs]
  \cup [kind : {"devices"}, allocFails : BOOLEAN,
        words : UNION {[1 .. n -> DevWords] : n \in 0 .. MaxDevWords}]
  \cup [kind : {"reopen"}, allocFails : BOOLEAN, allocFails2 : BOOLEAN,
        words : UNION {[1 .. n -> DevWords] : n \in 0 .. 2},
        words2 : UNION {[1 .. n -> DevWords] : n \in 0 .. 2}]
  \cup [kind : {"sizing"}, wqes : SendWqesVals, rdma : SendRdmaVals,
        hw : HwMaxWrVals, userRc : BOOLEAN, reconnect : BOOLEAN]
  \cup [kind : {"pools"}, srq : BOOLEAN, srqBuffers : BOOLEAN,
        fail : Res \cup Calls \cup {NoFail}]
  \cup {d \in [kind : {"device"}, rdma : {"ud", "userRc", "kernelQp"},
              mrKernel : BOOLEAN, userMrCap : BOOLEAN, srq : BOOLEAN,
              at : DevRes \cup DevCalls \cup {"none"}] :
           \* a kernel QP uses the rv MR cache, not the kernel one
           d.rdma = "kernelQp" => ~d.mrKernel}
  \cup {e \in [kind : {"endpoint"}, ips : BOOLEAN, amsh : BOOLEAN,
              self : BOOLEAN, protoexp : BOOLEAN, mrMode : BOOLEAN,
              at : EpRes \cup EpCalls \cup {"none"},
              finiErr : FiniErrs \cup {"none"}] :
           \* RDMA and the MR cache are modes of the IPS device
           ~e.ips => ~e.protoexp /\ ~e.mrMode}

VARIABLE in

Init == in \in Inputs
Next == UNCHANGED in
Spec == Init /\ [][Next]_in

Credits == CreditsInit(in.fields, in.userRc, in.nsd, in.adv)
RdmaMode == ParseRdmaMode(in.b, in.rdma)
MrMode == ParseMrCacheMode(in.b, RdmaMode, in.mr)
Devices == ParseDevicesCached(NoSaved, in.words, in.allocFails)
SendTotal == VerbsSendPool(in).total
Pools == ProtoInitPools(NoPools, in, in.fail)
Device == OpenVerbs(in, in.at)
EpOpened == OpenInternal(in, in.at)
EpDone == IF EpOpened.err THEN EpOpened ELSE EpClose(EpOpened, in, in.finiErr)

-----------------------------------------------------------------------------
(* Properties.                                                             *)

\* The values PSM3_IBV_RATE_* stand for, in tenths of Gb/s.
IbvRates == {25, 50, 100, 140, 200, 250, 280, 300, 400, 500, 560, 600, 800,
             1000, 1120, 1200, 1680, 2000, 3000, 4000, 6000, 8000, 12000}

DevSlots == [1 .. PtlMaxInit -> {"SELF", "AMSH", "IPS", NoDev}]

TypeOK ==
  /\ in \in Inputs
  /\ in.kind = "credits" =>
       Credits \in [flow : 0 .. MaxCredit, min : 0 .. MaxCredit,
                    max : 0 .. MaxCredit, adjust : 0 .. MaxCredit]
  /\ in.kind = "rate" => VerbsGetRate(in.width, in.speed) \in IbvRates
  /\ in.kind = "modes" =>
       /\ RdmaMode \in Nat
       /\ MrMode \in {"NONE", "KERNEL", "USER", "RV"}
  /\ in.kind = "devices" =>
       Devices \in [err : {"OK", "PARAM_ERR"}, devices : DevSlots,
                    cache : [have : BOOLEAN, saved : DevSlots]]
  /\ in.kind = "sizing" =>
       /\ SendTotal \in Nat
       /\ RcQpCreate(in, SendTotal) \in [ok : BOOLEAN, maxSendWr : Nat]
  /\ in.kind = "pools" =>
       Pools \in [held : [Res -> {"null", "live", "dangling"}],
                  allocs : [Res -> 0 .. 1], frees : [Res -> 0 .. 1],
                  err : BOOLEAN]
  /\ in.kind = "device" =>
       Device \in [held : [DevRes -> {"null", "live", "dangling"}],
                   allocs : [DevRes -> 0 .. 1], frees : [DevRes -> 0 .. 1],
                   err : BOOLEAN,
                   log : Seq([r : DevRes, live : SUBSET DevRes])]
  /\ in.kind = "endpoint" =>
       EpDone \in [held : [EpRes -> {"null", "live"}],
                   allocs : [EpRes -> 0 .. 1], frees : [EpRes -> 0 .. 1],
                   err : BOOLEAN,
                   log : Seq([r : EpRes, live : SUBSET EpRes])]

\* Whatever PSM3_FLOW_CREDITS holds, valid or not, and however few send
\* descriptors the HAL has, psm3_ips_proto_init hands the flows a credit
\* range that the flow control in ips_proto.c relies on: non-empty and
\* positive, no wider than the send descriptors, the initial credits
\* inside it, an adjust step whenever the range can move, and a fixed
\* range without PSM3_ADV_FLOW_CONTROL.
CreditsConfigValid ==
  in.kind = "credits" =>
    LET c == Credits
    IN /\ 1 <= c.min /\ c.min <= c.flow /\ c.flow <= c.max
       /\ c.max <= in.nsd /\ c.max <= MaxCredit
       /\ c.max > c.min => c.adjust > 0
       /\ ~in.adv => c.min = c.max

\* IB link rates: lanes per width code (1x, 4x, 8x, 12x, 2x) times the
\* per-lane rate per speed code (SDR, DDR, QDR, FDR10, FDR, EDR, HDR, NDR).
Lanes == (1 :> 1) @@ (2 :> 4) @@ (4 :> 8) @@ (8 :> 12) @@ (16 :> 2)
LaneRate == (1 :> 25) @@ (2 :> 50) @@ (4 :> 100) @@ (8 :> 100)
            @@ (16 :> 140) @@ (32 :> 250) @@ (64 :> 500) @@ (128 :> 1000)

\* verbs_get_rate returns the rate of the port's lanes for every known
\* width and speed, and 100 Gb/s for anything else.
RateIsLanesTimesLaneRate ==
  in.kind = "rate" =>
    VerbsGetRate(in.width, in.speed) =
      IF in.width \in DOMAIN Lanes /\ in.speed \in DOMAIN LaneRate
        THEN Lanes[in.width] * LaneRate[in.speed] ELSE UnknownRate

\* The RDMA mode psm3_verbs_parse_rdmamode selects and the MR cache mode
\* psm3_verbs_parse_mr_cache_mode then selects for it fit together and
\* the build: kernel RDMA, and only kernel RDMA, uses the rv MR cache; the
\* kernel MR cache and user RC QPs are chosen only when built in.
MrCacheModeServesRdma ==
  in.kind = "modes" =>
    /\ KernelQp(RdmaMode) <=> MrMode = "RV"
    /\ MrMode = "KERNEL" => in.b.rndvMod
    /\ UserRcQp(RdmaMode) => in.b.useRc

RcQpHoldsSendPool ==
  (in.kind = "sizing" /\ in.userRc) => RcQpCreate(in, SendTotal).ok

\* Whichever step of psm3_verbs_ips_proto_init fails, the error path
\* leaves no pool memory or MR held, and psm3_ep_free_verbs, run after a
\* failed or a successful init, releases every allocation exactly once:
\* nothing leaks and nothing is freed twice.
PoolsReleasedOnce ==
  in.kind = "pools" =>
    LET done == EpFreeVerbs(Pools)
    IN /\ Pools.err => \A r \in Res : Pools.held[r] = "null"
       /\ \A r \in Res : done.held[r] = "null" /\ done.frees[r] = done.allocs[r]

\* Whichever step of psm3_ep_open_verbs fails, its error path, which runs
\* verbs_open_dev's own cleanup and then psm3_ep_free_verbs, releases
\* every device resource it created exactly once; and psm3_ep_free_verbs
\* after a successful open does the same: no leak, no double destroy.
DeviceReleasedOnce ==
  in.kind = "device" =>
    LET done == IF Device.err THEN Device ELSE FreeVerbsDevice(Device)
    IN \A r \in DevRes : done.held[r] = "null" /\ done.frees[r] = done.allocs[r]

\* Whatever step of psm3_ep_open_internal fails, and whatever PTL fini
\* psm3_ep_close then sees fail, the ep, its epaddr, the device and its
\* pools are freed; and when the open and every fini succeed, the close
\* releases everything the open allocated or registered, each exactly
\* once, the IPS protocol's parts through psm3_ips_proto_fini included.
EndpointReleasedOnClose ==
  in.kind = "endpoint" =>
    /\ \A r \in {"ep", "epaddr", "context", "pools"} : EpDone.held[r] = "null"
    /\ (~EpOpened.err /\ in.finiErr = "none") =>
         \A r \in EpRes : EpDone.held[r] = "null"
                        /\ EpDone.frees[r] = EpDone.allocs[r]

\* No resource is released while something that points into it is live.
ReleasedAfterUsers(log, uses) ==
  \A i \in DOMAIN log : \A u \in log[i].live : log[i].r \notin uses[u]

\* No device resource is destroyed while one created on it is still live,
\* on the error path of psm3_ep_open_verbs or in psm3_ep_free_verbs: in
\* particular rv is closed before the PD is deallocated and the device is
\* closed, as the comment in psm3_ep_free_verbs requires.  And no endpoint
\* is freed, by a failed psm3_ep_open_internal or by psm3_ep_close, while
\* the stats registry still holds the addresses of its IPS counters.
DestroyedAfterUsers ==
  /\ in.kind = "device" =>
       LET done == IF Device.err THEN Device ELSE FreeVerbsDevice(Device)
       IN ReleasedAfterUsers(done.log, Uses)
  /\ in.kind = "endpoint" => ReleasedAfterUsers(EpDone.log, EpUses)

=============================================================================
