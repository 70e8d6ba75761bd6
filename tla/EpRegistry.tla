----------------------------- MODULE EpRegistry -----------------------------
(***************************************************************************)
(* The registry of opened PSM3 endpoints (src/prov/psm3/psm3/psm_ep.c):   *)
(* the list of user-opened endpoints (psm3_opened_endpoint, linked by      *)
(* user_ep_next), the circular list of rails/QPs inside each of them       *)
(* (mctxt_next, master first), the creation_lock that guards both lists,  *)
(* the progress_lock of each endpoint's MQ, the hfi_nids table of local   *)
(* NIC addresses, and the application threads that open, close, query and *)
(* look up endpoints, ask whether a peer shares memory, and evict GPU      *)
(* registrations.                                                          *)
(*                                                                         *)
(* A user endpoint is identified by the address of its master rail: Slots *)
(* are those addresses and rail i of slot e is <<e, i>>, rail 0 being the  *)
(* master.  Reopening a slot reuses the addresses of a closed endpoint, as *)
(* the allocator may.                                                      *)
(*                                                                         *)
(* Each step holds exactly the locks the code holds across it.  A step     *)
(* that takes a lock and gives it back before any other thread could      *)
(* observe the difference is one action; a blocking PSMI_LOCK is a guard   *)
(* that the lock is free.  The application does not use an endpoint in   *)
(* one call while another call closes it.                                  *)
(***************************************************************************)
EXTENDS Integers, Sequences, SequencesExt, FiniteSets

CONSTANTS
  Threads,      \* application threads
  Slots,        \* addresses of user endpoints (their master rails)
  NumRails,     \* rails/QPs per user endpoint (num_rails * PSM3_QP_PER_NIC)
  MultiEp,      \* psm3_multi_ep_enabled
  OpenCanFail,  \* whether an open may fail: the master or a secondary rail
  FiniCanFail,  \* whether a ptl fini may fail with other than TIMEOUT
  MaxCalls,     \* bound on the API calls the threads make
  NULL

ASSUME /\ NumRails \in Nat \ {0} /\ MaxCalls \in Nat
       /\ MultiEp \in BOOLEAN /\ OpenCanFail \in BOOLEAN
       /\ FiniCanFail \in BOOLEAN

Rails == Slots \X (0 .. NumRails - 1)
Master(e) == <<e, 0>>
Owner(r) == r[1]

VARIABLES
  opened,       \* psm3_opened_endpoint list, in user_ep_next order
  count,        \* psm3_opened_endpoint_count
  next,         \* mctxt_next of every rail
  alive,        \* rails that are allocated
  creation,     \* holder of psm3_creation_lock, or NULL
  progress,     \* holder of each endpoint's mq->progress_lock, or NULL
  pc,           \* where each thread is
  arg,          \* the ep each thread's call is about
  cursor,       \* tmp in psm3_ep_close: the next rail to close
  lastEvict,    \* thread-local last_evict_ep
  lastEvictMy,  \* thread-local last_evict_myuser_ep
  calls,        \* API calls made so far
  userNext,     \* user_ep_next of every endpoint, left as it was when freed
  walk,         \* where a psm3_ep_query / psm3_ep_epid_lookup walk is
  nidsBuf,      \* hfi_nids: 0 for NULL, else which allocation it is
  nnids,        \* nnids, abstracted to 0 or 1 (some)
  nidsAllocs,   \* allocations of hfi_nids so far
  nidsCopy      \* the hfi_nids and nnids psm3_ep_epid_share_memory took

nidVars == <<nidsBuf, nnids, nidsAllocs, nidsCopy>>
vars == <<opened, count, next, alive, creation, progress, pc, arg, cursor,
          lastEvict, lastEvictMy, calls, userNext, walk, nidVars>>

RailsOf(e) == {r \in alive : Owner(r) = e}

\* mctxt_prev: the rail whose mctxt_next is r in r's circular list.
Prev(r) == CHOOSE p \in RailsOf(Owner(r)) : next[p] = r

\* PSM_MCTXT_REMOVE: unlink r from its circular list; r points to itself.
MctxtRemove(r) == [next EXCEPT ![Prev(r)] = next[r], ![r] = r]

\* psm3_ep_open_internal for the master, then PSM_MCTXT_APPEND of the
\* secondary rails 1 .. k-1 in order: the list is master, 1, ..., k-1.
OpenRing(e, k) ==
  [r \in Rails |-> IF Owner(r) = e /\ r[2] < k
                     THEN <<e, (r[2] + 1) % k>> ELSE next[r]]

-----------------------------------------------------------------------------
(* psm3_ep_open.                                                           *)

Idle(t) == pc[t] = "idle" /\ calls < MaxCalls

\* Addresses the allocator can hand out, net of the opens under way: an
\* open starts only while one is left (a bound of the model, not a path of
\* the code).
FreeSlots == {e \in Slots : Master(e) \notin alive}
Opening == {t \in Threads : pc[t] = "open"}

\* The one-endpoint check reads psm3_opened_endpoint_count before taking
\* the creation_lock.
OpenStart(t) ==
  /\ Idle(t) /\ Cardinality(Opening) < Cardinality(FreeSlots)
  /\ calls' = calls + 1
  /\ pc' = [pc EXCEPT ![t] = IF count > 0 /\ ~MultiEp THEN "idle" ELSE "open"]
  /\ UNCHANGED <<opened, count, next, alive, creation, progress, arg, cursor,
                 lastEvict, lastEvictMy>>
  /\ UNCHANGED <<userNext, walk, nidVars>>

OpenRails == IF OpenCanFail THEN 1 .. NumRails ELSE {NumRails}

\* Under the creation_lock: open the master, append it to the user
\* endpoint list, count it, then open and link the secondary rails; a
\* secondary that fails to open leaves the endpoint listed with the rails
\* opened so far.  The new endpoint's user_ep_next is NULL (it is calloc'ed)
\* and the list's last endpoint is made to point to it.
OpenLocked(t) ==
  /\ pc[t] = "open" /\ creation = NULL
  /\ \E e \in Slots, k \in OpenRails :
       /\ Master(e) \notin alive
       /\ opened' = Append(opened, e)
       /\ userNext' = IF opened = <<>> THEN [userNext EXCEPT ![e] = NULL]
                      ELSE [userNext EXCEPT ![e] = NULL, ![Last(opened)] = e]
       /\ count' = count + 1
       /\ alive' = alive \cup {<<e, i>> : i \in 0 .. k - 1}
       /\ next' = OpenRing(e, k)
  /\ pc' = [pc EXCEPT ![t] = "idle"]
  /\ UNCHANGED <<creation, progress, arg, cursor, lastEvict, lastEvictMy,
                 calls, walk, nidVars>>

\* psm3_parse_devices, psm3_ep_multirail or psm3_ep_open_internal for the
\* master fails: psm3_ep_open returns the error under the creation lock
\* with nothing listed or linked.
OpenFails(t) ==
  /\ pc[t] = "open" /\ creation = NULL /\ OpenCanFail
  /\ pc' = [pc EXCEPT ![t] = "idle"]
  /\ UNCHANGED <<opened, count, next, alive, creation, progress, arg, cursor,
                 lastEvict, lastEvictMy, calls>>
  /\ UNCHANGED <<userNext, walk, nidVars>>

-----------------------------------------------------------------------------
(* psm3_ep_close.                                                          *)

InUse(e) == \E u \in Threads : pc[u] # "idle" /\ arg[u] # NULL
                               /\ Owner(arg[u]) = e

CloseStart(t, e) ==
  /\ Idle(t) /\ e \in Range(opened) /\ ~InUse(e)
  /\ calls' = calls + 1
  /\ pc' = [pc EXCEPT ![t] = "close"]
  /\ arg' = [arg EXCEPT ![t] = Master(e)]
  /\ UNCHANGED <<opened, count, next, alive, creation, progress, cursor,
                 lastEvict, lastEvictMy>>
  /\ UNCHANGED <<userNext, walk, nidVars>>

\* The user endpoint list after e is unlinked: the head moves on, or the
\* predecessor takes e's user_ep_next; e's own pointer is left as it was.
Unlink(e) ==
  LET i == CHOOSE j \in DOMAIN opened : opened[j] = e
  IN IF i = 1 THEN userNext
     ELSE [userNext EXCEPT ![opened[i - 1]] = userNext[e]]

(* Slips the properties below are meant to catch, each defined just before *)
(* the operator it would replace.                                          *)

\* Close forgetting psm3_opened_endpoint_count--.
CloseLockedKeepsCount(t) ==
  /\ pc[t] = "close" /\ creation = NULL
  /\ LET e == Owner(arg[t])
     IN /\ opened' = SelectSeq(opened, LAMBDA x : x # e)
        /\ cursor' = [cursor EXCEPT ![t] = Prev(Master(e))]
        /\ userNext' = Unlink(e)
  /\ creation' = t
  /\ pc' = [pc EXCEPT ![t] = "closeRail"]
  /\ UNCHANGED <<count, next, alive, progress, arg, lastEvict, lastEvictMy,
                 calls, walk, nidVars>>

\* Close unlinking as if the endpoint were always the list head.
CloseLockedHeadOnly(t) ==
  /\ pc[t] = "close" /\ creation = NULL
  /\ LET e == Owner(arg[t])
     IN /\ opened' = Tail(opened)
        /\ cursor' = [cursor EXCEPT ![t] = Prev(Master(e))]
        /\ userNext' = userNext
  /\ count' = count - 1
  /\ creation' = t
  /\ pc' = [pc EXCEPT ![t] = "closeRail"]
  /\ UNCHANGED <<next, alive, progress, arg, lastEvict, lastEvictMy, calls,
                 walk, nidVars>>

\* Take the creation_lock, take the endpoint off the user endpoint list
\* and start at the last rail (ep->mctxt_prev).
CloseLocked(t) ==
  /\ pc[t] = "close" /\ creation = NULL
  /\ LET e == Owner(arg[t])
     IN /\ opened' = SelectSeq(opened, LAMBDA x : x # e)
        /\ cursor' = [cursor EXCEPT ![t] = Prev(Master(e))]
        /\ userNext' = Unlink(e)
  /\ count' = count - 1
  /\ creation' = t
  /\ pc' = [pc EXCEPT ![t] = "closeRail"]
  /\ UNCHANGED <<next, alive, progress, arg, lastEvict, lastEvictMy, calls,
                 walk, nidVars>>

FiniOutcomes == IF FiniCanFail THEN BOOLEAN ELSE {TRUE}

\* One pass of the do/while loop, under the progress_lock: fini the ptls,
\* unlink and free the rail.  The loop goes on while fini succeeded or
\* timed out and the rail was not the last; at its end the creation_lock
\* is released (the MQ and its lock are freed with it), and the thread
\* goes on to read psm3_opened_endpoint_count without it.
CloseRail(t) ==
  /\ pc[t] = "closeRail"
  /\ progress[Owner(arg[t])] = NULL
  /\ \E ok \in FiniOutcomes :
       LET r   == cursor[t]
           tmp == Prev(r)
       IN /\ next' = MctxtRemove(r)
          /\ alive' = alive \ {r}
          /\ IF ok /\ tmp # r
               THEN /\ cursor' = [cursor EXCEPT ![t] = tmp]
                    /\ UNCHANGED <<pc, arg, creation>>
               ELSE /\ cursor' = [cursor EXCEPT ![t] = NULL]
                    /\ pc' = [pc EXCEPT ![t] = "closeEnd"]
                    /\ arg' = [arg EXCEPT ![t] = NULL]
                    /\ creation' = NULL
  /\ UNCHANGED <<opened, count, progress, lastEvict, lastEvictMy, calls>>
  /\ UNCHANGED <<userNext, walk, nidVars>>

\* The last endpoint gone (by a count read without any lock), the hfi_nids
\* table goes too: devnids_destroy, under the nids_lock, frees it and
\* resets nnids.
CloseEnd(t) ==
  /\ pc[t] = "closeEnd"
  /\ pc' = [pc EXCEPT ![t] = IF count = 0 THEN "destroyNids" ELSE "idle"]
  /\ UNCHANGED <<opened, count, next, alive, creation, progress, arg, cursor,
                 lastEvict, lastEvictMy, calls, userNext, walk, nidVars>>

DevnidsDestroy(t) ==
  /\ pc[t] = "destroyNids"
  /\ nidsBuf' = 0 /\ nnids' = 0
  /\ pc' = [pc EXCEPT ![t] = "idle"]
  /\ UNCHANGED <<opened, count, next, alive, creation, progress, arg, cursor,
                 lastEvict, lastEvictMy, calls, userNext, walk, nidsAllocs,
                 nidsCopy>>

-----------------------------------------------------------------------------
(* psm3_gpu_evict_some, called by a thread that holds the progress_lock   *)
(* of the endpoint ep it registers memory on, after a registration failed *)
(* for lack of GPU BAR space.  Evictions on the rails' rv are abstracted  *)
(* to the rail they touch.                                                 *)

\* next_ep: the next rail of ep's user endpoint, or, after its last rail,
\* the master of the next user endpoint, wrapping to the first.
NextEp(r) ==
  LET n == next[r]
  IN IF n # Master(Owner(n)) THEN n
     ELSE LET i == CHOOSE j \in DOMAIN opened : opened[j] = Owner(n)
          IN IF i < Len(opened) THEN Master(opened[i + 1])
                                ELSE Master(opened[1])

\* valid_ep looking only for r's user endpoint, not for r in its rail list.
ValidEpOwnerOnly(r) == Owner(r) \in Range(opened)

\* valid_ep: r is on the rail list of a user-opened endpoint.
ValidEp(r) == \E e \in Range(opened) : r \in RailsOf(e)

\* next_valid_ep
NextValidEp(r, good) == IF r = good \/ ValidEp(r) THEN NextEp(r) ELSE good

\* The caller holds ep's progress_lock.  The first call of the thread sets
\* both statics to ep; the master rail of ep's user endpoint is evicted.
EvictStart(t, r) ==
  /\ Idle(t) /\ r \in alive /\ Owner(r) \in Range(opened) /\ ~InUse(Owner(r))
  /\ progress[Owner(r)] = NULL
  /\ calls' = calls + 1
  /\ progress' = [progress EXCEPT ![Owner(r)] = t]
  /\ arg' = [arg EXCEPT ![t] = r]
  /\ IF lastEvict[t] = NULL
       THEN /\ lastEvict' = [lastEvict EXCEPT ![t] = r]
            /\ lastEvictMy' = [lastEvictMy EXCEPT ![t] = r]
       ELSE UNCHANGED <<lastEvict, lastEvictMy>>
  /\ pc' = [pc EXCEPT ![t] = "mine"]
  /\ UNCHANGED <<opened, count, next, alive, creation, cursor>>
  /\ UNCHANGED <<userNext, walk, nidVars>>

\* Return from psm3_gpu_evict_some: the caller goes on and releases its
\* progress_lock.
Return(t) ==
  /\ progress' = [progress EXCEPT ![Owner(arg[t])] = NULL]
  /\ pc' = [pc EXCEPT ![t] = "idle"]
  /\ arg' = [arg EXCEPT ![t] = NULL]

\* After the evictions in ep's user endpoint: return if enough was evicted,
\* else go on to the other endpoints.
AfterMine(t, enough) ==
  IF enough THEN Return(t)
  ELSE /\ pc' = [pc EXCEPT ![t] = "others"] /\ UNCHANGED <<progress, arg>>

\* last_evict_myuser_ep = last_evict_myuser_ep->mctxt_next; evict there
\* unless it is the master.
EvictMine(t) ==
  /\ pc[t] = "mine"
  /\ LET m == next[lastEvictMy[t]]
     IN /\ lastEvictMy' = [lastEvictMy EXCEPT ![t] = m]
        /\ IF m # Master(Owner(arg[t]))
             THEN pc' = [pc EXCEPT ![t] = "mineRail"] /\ UNCHANGED <<progress, arg>>
             ELSE \E enough \in BOOLEAN : AfterMine(t, enough)
  /\ UNCHANGED <<opened, count, next, alive, creation, cursor, lastEvict, calls>>
  /\ UNCHANGED <<userNext, walk, nidVars>>

EvictMineRail(t) ==
  /\ pc[t] = "mineRail"
  /\ \E enough \in BOOLEAN : AfterMine(t, enough)
  /\ UNCHANGED <<opened, count, next, alive, creation, cursor, lastEvict,
                 lastEvictMy, calls>>
  /\ UNCHANGED <<userNext, walk, nidVars>>

\* LOCK_TRY the creation_lock (return if taken); advance last_evict_ep to
\* the next valid rail; in another user endpoint LOCK_TRY its progress_lock
\* (skip it if taken), in ep's own evict at once under the lock held.
EvictOthers(t) ==
  /\ pc[t] = "others"
  /\ IF creation # NULL
       THEN Return(t) /\ UNCHANGED <<creation, lastEvict>>
       ELSE LET le == NextValidEp(lastEvict[t], arg[t])
                e  == Owner(le)
            IN /\ lastEvict' = [lastEvict EXCEPT ![t] = le]
               /\ IF e # Owner(arg[t]) /\ progress[e] = NULL
                    THEN /\ creation' = t
                         /\ progress' = [progress EXCEPT ![e] = t]
                         /\ pc' = [pc EXCEPT ![t] = "otherRail"]
                         /\ UNCHANGED arg
                    ELSE Return(t) /\ UNCHANGED creation
  /\ UNCHANGED <<opened, count, next, alive, cursor, lastEvictMy, calls>>
  /\ UNCHANGED <<userNext, walk, nidVars>>

\* The eviction on another endpoint returning without giving back that
\* endpoint's progress_lock.
EvictOtherRailKeepsLock(t) ==
  /\ pc[t] = "otherRail"
  /\ creation' = NULL
  /\ progress' = [progress EXCEPT ![Owner(arg[t])] = NULL]
  /\ pc' = [pc EXCEPT ![t] = "idle"]
  /\ arg' = [arg EXCEPT ![t] = NULL]
  /\ UNCHANGED <<opened, count, next, alive, cursor, lastEvict, lastEvictMy,
                 calls>>
  /\ UNCHANGED <<userNext, walk, nidVars>>

\* Evict on the other endpoint's rail, release its progress_lock and the
\* creation_lock, and return.
EvictOtherRail(t) ==
  /\ pc[t] = "otherRail"
  /\ creation' = NULL
  /\ progress' = [progress EXCEPT ![Owner(lastEvict[t])] = NULL,
                                   ![Owner(arg[t])] = NULL]
  /\ pc' = [pc EXCEPT ![t] = "idle"]
  /\ arg' = [arg EXCEPT ![t] = NULL]
  /\ UNCHANGED <<opened, count, next, alive, cursor, lastEvict, lastEvictMy,
                 calls>>
  /\ UNCHANGED <<userNext, walk, nidVars>>

-----------------------------------------------------------------------------
(* psm3_ep_query and psm3_ep_epid_lookup walk the user endpoint list from *)
(* psm3_opened_endpoint along user_ep_next without taking any lock.  What *)
(* each endpoint holds (epid, jkey, uuid, the epid table) is abstracted   *)
(* away: a walk stops at an endpoint when the array is full or the epid   *)
(* is found there, which the model chooses.                               *)

\* The walk starts at the head, or returns PSM2_EP_WAS_CLOSED when there is
\* none.
QueryStart(t) ==
  /\ Idle(t)
  /\ calls' = calls + 1
  /\ IF opened = <<>> THEN UNCHANGED <<pc, walk>>
     ELSE /\ pc' = [pc EXCEPT ![t] = "walk"]
          /\ walk' = [walk EXCEPT ![t] = Head(opened)]
  /\ UNCHANGED <<opened, count, next, alive, creation, progress, arg, cursor,
                 lastEvict, lastEvictMy, userNext, nidVars>>

\* Read the endpoint the walk is at and follow its user_ep_next; a freed
\* endpoint's memory still holds the pointer it had.
WalkStep(t) ==
  /\ pc[t] = "walk"
  /\ \E stop \in BOOLEAN :
       IF stop \/ userNext[walk[t]] = NULL
         THEN /\ pc' = [pc EXCEPT ![t] = "idle"]
              /\ walk' = [walk EXCEPT ![t] = NULL]
         ELSE /\ walk' = [walk EXCEPT ![t] = userNext[walk[t]]]
              /\ UNCHANGED pc
  /\ UNCHANGED <<opened, count, next, alive, creation, progress, arg, cursor,
                 lastEvict, lastEvictMy, calls, userNext, nidVars>>

-----------------------------------------------------------------------------
(* psm3_ep_epid_share_memory(ep, epid) for an epid of an IPS address: the *)
(* table of local NIC addresses is built once by devnids_init and shared  *)
(* by every endpoint.  The branch for SHM addresses compares with ep's    *)
(* own epid and reads no shared state.                                    *)

\* devnids_init, under the nids_lock: with no table, psm3_ep_num_devunits
\* or the calloc may fail (nothing is kept), or the table is allocated and
\* filled with the ready ports' NIDs; none found is an error that leaves
\* the empty table in place.
DevnidsInit(t, e) ==
  /\ Idle(t) /\ e \in Range(opened) /\ ~InUse(e)
  /\ calls' = calls + 1
  /\ IF nidsBuf # 0
       THEN /\ pc' = [pc EXCEPT ![t] = "shareCopy"]
            /\ arg' = [arg EXCEPT ![t] = Master(e)]
            /\ UNCHANGED <<nidsBuf, nnids, nidsAllocs>>
       ELSE \E outcome \in {"fail", "noUnits", "found"} :
              IF outcome = "fail"
                THEN UNCHANGED <<pc, arg, nidsBuf, nnids, nidsAllocs>>
                ELSE /\ nidsAllocs' = nidsAllocs + 1
                     /\ nidsBuf' = nidsAllocs + 1
                     /\ nnids' = IF outcome = "found" THEN 1 ELSE 0
                     /\ IF outcome = "found"
                          THEN /\ pc' = [pc EXCEPT ![t] = "shareCopy"]
                               /\ arg' = [arg EXCEPT ![t] = Master(e)]
                          ELSE UNCHANGED <<pc, arg>>
  /\ UNCHANGED <<opened, count, next, alive, creation, progress, cursor,
                 lastEvict, lastEvictMy, userNext, walk, nidsCopy>>

\* psm3_ep_devnids, after the nids_lock is released: *nids = hfi_nids,
\* *num_nids_o = nnids.
DevnidsCopy(t) ==
  /\ pc[t] = "shareCopy"
  /\ nidsCopy' = [nidsCopy EXCEPT ![t] = [buf |-> nidsBuf, n |-> nnids]]
  /\ pc' = [pc EXCEPT ![t] = "shareRead"]
  /\ UNCHANGED <<opened, count, next, alive, creation, progress, arg, cursor,
                 lastEvict, lastEvictMy, calls, userNext, walk, nidsBuf,
                 nnids, nidsAllocs>>

\* The loop compares the remote NID with nids[0 .. num_nids-1] and returns.
ShareRead(t) ==
  /\ pc[t] = "shareRead"
  /\ pc' = [pc EXCEPT ![t] = "idle"]
  /\ arg' = [arg EXCEPT ![t] = NULL]
  /\ nidsCopy' = [nidsCopy EXCEPT ![t] = [buf |-> 0, n |-> 0]]
  /\ UNCHANGED <<opened, count, next, alive, creation, progress, cursor,
                 lastEvict, lastEvictMy, calls, userNext, walk, nidsBuf,
                 nnids, nidsAllocs>>

-----------------------------------------------------------------------------

Init ==
  /\ opened = <<>> /\ count = 0
  /\ next = [r \in Rails |-> r] /\ alive = {}
  /\ creation = NULL /\ progress = [e \in Slots |-> NULL]
  /\ pc = [t \in Threads |-> "idle"] /\ arg = [t \in Threads |-> NULL]
  /\ cursor = [t \in Threads |-> NULL]
  /\ lastEvict = [t \in Threads |-> NULL]
  /\ lastEvictMy = [t \in Threads |-> NULL]
  /\ calls = 0
  /\ userNext = [e \in Slots |-> NULL] /\ walk = [t \in Threads |-> NULL]
  /\ nidsBuf = 0 /\ nnids = 0 /\ nidsAllocs = 0
  /\ nidsCopy = [t \in Threads |-> [buf |-> 0, n |-> 0]]

\* Every thread has returned and makes no further call: the calls are
\* used up, or no endpoint is open and failed closes leaked every address.
Quiet ==
  /\ \A t \in Threads : pc[t] = "idle"
  /\ calls = MaxCalls \/ (opened = <<>> /\ FreeSlots = {})
Done == Quiet /\ UNCHANGED vars

Next ==
  \/ \E t \in Threads :
       \/ OpenStart(t) \/ OpenLocked(t) \/ OpenFails(t)
       \/ \E e \in Slots : CloseStart(t, e)
       \/ CloseLocked(t) \/ CloseRail(t) \/ CloseEnd(t) \/ DevnidsDestroy(t)
       \/ \E r \in Rails : EvictStart(t, r)
       \/ EvictMine(t) \/ EvictMineRail(t) \/ EvictOthers(t)
       \/ EvictOtherRail(t)
       \/ QueryStart(t) \/ WalkStep(t)
       \/ \E e \in Slots : DevnidsInit(t, e)
       \/ DevnidsCopy(t) \/ ShareRead(t)
  \/ Done

Spec == Init /\ [][Next]_vars

\* The steps of thread t inside an API call.
Running(t) ==
  \/ OpenLocked(t) \/ OpenFails(t) \/ CloseLocked(t) \/ CloseRail(t)
  \/ EvictMine(t) \/ EvictMineRail(t) \/ EvictOthers(t) \/ EvictOtherRail(t)
  \/ CloseEnd(t) \/ DevnidsDestroy(t) \/ WalkStep(t) \/ DevnidsCopy(t)
  \/ ShareRead(t)

\* The scheduler runs every thread that can run.  A thread blocked in
\* PSMI_LOCK can run once the lock stays free, and it does: the other
\* threads make finitely many calls (MaxCalls), each of which gives back
\* the locks it takes, so weak fairness is enough.  Starting a call is the
\* application's choice and is not fair.
FairSpec == Spec /\ \A t \in Threads : WF_vars(Running(t))

-----------------------------------------------------------------------------
(* Properties.                                                             *)

RailOrNull == Rails \cup {NULL}

TypeOK ==
  /\ opened \in Seq(Slots) /\ count \in 0 .. Cardinality(Slots)
  /\ next \in [Rails -> Rails] /\ alive \subseteq Rails
  /\ creation \in Threads \cup {NULL}
  /\ progress \in [Slots -> Threads \cup {NULL}]
  /\ pc \in [Threads -> {"idle", "open", "close", "closeRail", "mine",
                         "mineRail", "others", "otherRail", "closeEnd",
                         "destroyNids", "walk", "shareCopy", "shareRead"}]
  /\ arg \in [Threads -> RailOrNull] /\ cursor \in [Threads -> RailOrNull]
  /\ lastEvict \in [Threads -> RailOrNull]
  /\ lastEvictMy \in [Threads -> RailOrNull]
  /\ calls \in 0 .. MaxCalls
  /\ userNext \in [Slots -> Slots \cup {NULL}]
  /\ walk \in [Threads -> Slots \cup {NULL}]
  /\ nidsAllocs \in 0 .. MaxCalls /\ nidsBuf \in 0 .. nidsAllocs
  /\ nnids \in 0 .. 1
  /\ nidsCopy \in [Threads -> [buf : 0 .. nidsAllocs, n : 0 .. 1]]

RECURSIVE Walk(_, _)
\* The rail reached from r by n steps along mctxt_next.
Walk(r, n) == IF n = 0 THEN r ELSE Walk(next[r], n - 1)

\* The two lists stay what valid_ep, next_ep and the API walks follow:
\* every user endpoint is listed once and counted, the user_ep_next chain
\* from psm3_opened_endpoint visits exactly the listed endpoints in order
\* and ends in NULL, and the rails of each endpoint that still has its
\* master form one circle through the master, so the walks that assume it
\* end.
RegistryConsistent ==
  /\ count = Len(opened)
  /\ IsInjective(opened)
  /\ \A i \in DOMAIN opened :
       userNext[opened[i]] = IF i < Len(opened) THEN opened[i + 1] ELSE NULL
  /\ \A e \in Range(opened) : Master(e) \in alive
  /\ \A e \in Slots :
       Master(e) \in alive =>
         LET k == Cardinality(RailsOf(e))
         IN /\ {Walk(Master(e), i) : i \in 0 .. k - 1} = RailsOf(e)
            /\ Walk(Master(e), k) = Master(e)

\* The round-robin over other endpoints in psm3_gpu_evict_some evicts only
\* on a rail that is allocated and whose endpoint's progress_lock it holds,
\* with the creation_lock held: last_evict_ep, which may have been closed
\* and freed since the thread's previous call, is re-validated first.
OtherEvictLocked ==
  \A t \in Threads :
    pc[t] = "otherRail" =>
      /\ lastEvict[t] \in alive
      /\ progress[Owner(lastEvict[t])] = t
      /\ creation = t

\* No thread reads memory that another thread has freed.  Three reads
\* happen outside the lock under which that memory is freed: the rotation
\* of psm3_gpu_evict_some within the caller's own user endpoint reads
\* last_evict_myuser_ep, a rail remembered from an earlier call;
\* psm3_ep_query and psm3_ep_epid_lookup read each endpoint they walk to;
\* psm3_ep_epid_share_memory reads the hfi_nids table it took from
\* psm3_ep_devnids after the nids_lock was released, which the last
\* psm3_ep_close frees.
NoUnsafeAccess ==
  \A t \in Threads :
    /\ pc[t] \in {"mine", "mineRail"} =>
         /\ lastEvictMy[t] \in alive
         /\ progress[Owner(lastEvictMy[t])] = t
    /\ pc[t] = "walk" => Master(walk[t]) \in alive
    /\ pc[t] = "shareRead" /\ nidsCopy[t].n > 0 => nidsCopy[t].buf = nidsBuf

\* Every open, close and eviction returns: no thread waits for ever on the
\* creation_lock or a progress_lock.  psm3_gpu_evict_some holds a
\* progress_lock and only try-locks the creation_lock and the other
\* endpoint's progress_lock, while open and close take the creation_lock
\* first; a lock kept after a call would hold up every later close.
CallsReturn == \A t \in Threads : pc[t] # "idle" ~> pc[t] = "idle"

=============================================================================
