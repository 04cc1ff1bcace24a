--------------------------- MODULE ObjectTracker ---------------------------
(***************************************************************************)
(* The p2p object tracker of the daemon (src/dapa_daemon/src/p2p/tracker/  *)
(* mod.rs): callers queue object requests, a requester task dispatches     *)
(* them one at a time from a bounded channel, responses are matched by     *)
(* hash, a handler task evicts timed-out requests from the queue head and  *)
(* a cleaner task expires the cache of evicted hashes.                     *)
(*                                                                         *)
(* The insertion-ordered Queue<Hash, Request> is the partial function req  *)
(* (its keys) with the relation before (its order): a removal filters both *)
(* and keeps the relative order of what is left.  Time is the age of each  *)
(* Instant in ticks, saturated at Timeout + 1: the code only ever compares *)
(* an elapsed time with TIME_OUT, so ages above it are all alike.          *)
(***************************************************************************)
EXTENDS Naturals, Sequences, FiniteSets

CONSTANTS
    Callers,    \* tasks calling the tracker's public API
    Hashes,     \* object hashes
    Peers,      \* peer connections (Arc<Peer>)
    ChanCap,    \* REQUESTER_CHANNEL_BUFFER
    Timeout,    \* TIME_OUT, in ticks
    MaxGroups,  \* bound on the group ids next_group_id hands out
    NoGroup,    \* group_id = None
    NoPeer,     \* peer_id = None in clean_queue
    NoHash      \* no hash (requester idle, caller without a target)

ASSUME TrackerAssumption ==
    /\ ChanCap \in Nat \ {0}
    /\ Timeout \in Nat \ {0}
    /\ MaxGroups \in Nat
    /\ NoGroup \notin Nat
    /\ NoPeer \notin Peers
    /\ NoHash \notin Hashes

VARIABLES
    req,        \* queue contents: hash -> Request
    before,     \* queue order: <<a, b>> when a was pushed before b
    cache,      \* ExpirableCache: hash -> age of its insertion
    chan,       \* the request_sender / request_receiver channel
    received,   \* hash the requester loop took from the channel
    pc,         \* caller phase: "idle", "sending" (pushed, channel send pending), "waiting"
    target,     \* hash a caller asked for
    notified,   \* the caller's listener has its outcome
    closed,     \* peers whose connection is closed
    nextGroup   \* the group_id AtomicU64

vars == <<req, before, cache, chan, received, pc, target, notified, closed, nextGroup>>

Ages == 0 .. Timeout + 1
GroupIds == 0 .. MaxGroups - 1

Request == [peer : Peers, group : GroupIds \cup {NoGroup}, sent : BOOLEAN,
            age : Ages, listeners : SUBSET Callers, sends : Nat]

\* requested_at.elapsed() > TIME_OUT
Expired(r) == r.sent /\ r.age > Timeout

\* The oldest entry of the queue q (Queue::peek_mut).
HeadOf(q) == CHOOSE h \in DOMAIN q : \A k \in DOMAIN q : <<k, h>> \notin before

\* The predicate clean_queue passes to extract_if.
Matches(peer, group, r) ==
    \/ group # NoGroup /\ r.group = group
    \/ r.peer = peer
    \/ r.peer \in closed
    \/ Expired(r)

Removed(q, peer, group) == {h \in DOMAIN q : Matches(peer, group, q[h])}

\* Drops the requests R from q (Queue::remove / extract_if): dropping a
\* Request closes its listeners' channel, so each listener gets its outcome.
RemoveRequests(q, R) ==
    /\ req' = [h \in DOMAIN q \ R |-> q[h]]
    /\ before' = {e \in before : e[1] \notin R /\ e[2] \notin R}
    /\ notified' = [c \in Callers |-> notified[c] \/ \E h \in R : c \in q[h].listeners]

\* clean_queue: extract every matching request and put its hash in the cache.
CleanQueue(q, peer, group) ==
    LET R == Removed(q, peer, group)
    IN  /\ RemoveRequests(q, R)
        /\ cache' = [h \in DOMAIN cache \cup R |-> IF h \in R THEN 0 ELSE cache[h]]

-----------------------------------------------------------------------------
Init ==
    /\ req = <<>>
    /\ before = {}
    /\ cache = <<>>
    /\ chan = <<>>
    /\ received = NoHash
    /\ pc = [c \in Callers |-> "idle"]
    /\ target = [c \in Callers |-> NoHash]
    /\ notified = [c \in Callers |-> FALSE]
    /\ closed = {}
    /\ nextGroup = 0

\* next_group_id: fetch_add on the counter.
NextGroupId ==
    /\ nextGroup < MaxGroups
    /\ nextGroup' = nextGroup + 1
    /\ UNCHANGED <<req, before, cache, chan, received, pc, target, notified, closed>>

\* request_object_from_peer_with_or_get_notified, the hash is queued already:
\* return a new listener on the existing request.
RequestObjectListen(c, h) ==
    /\ pc[c] = "idle"
    /\ h \in DOMAIN req
    /\ req' = [req EXCEPT ![h].listeners = @ \cup {c}]
    /\ pc' = [pc EXCEPT ![c] = "waiting"]
    /\ target' = [target EXCEPT ![c] = h]
    /\ UNCHANGED <<before, cache, chan, received, notified, closed, nextGroup>>

\* The same call, under the queue lock, for a new hash: push a Request
\* (not yet requested) whose first listener is the caller.
RequestObjectPush(c, h, p, g) ==
    /\ pc[c] = "idle"
    /\ h \notin DOMAIN req
    /\ req' = [k \in DOMAIN req \cup {h} |->
                 IF k = h THEN [peer |-> p, group |-> g, sent |-> FALSE, age |-> 0,
                                listeners |-> {c}, sends |-> 0]
                          ELSE req[k]]
    /\ before' = before \cup {<<k, h>> : k \in DOMAIN req}
    /\ pc' = [pc EXCEPT ![c] = "sending"]
    /\ target' = [target EXCEPT ![c] = h]
    /\ UNCHANGED <<cache, chan, received, notified, closed, nextGroup>>

\* Mutant: try_send in place of send, dropping the hash when the channel is full.
RequestObjectSendTry(c) ==
    /\ pc[c] = "sending"
    /\ chan' = IF Len(chan) < ChanCap THEN Append(chan, target[c]) ELSE chan
    /\ pc' = [pc EXCEPT ![c] = "waiting"]
    /\ UNCHANGED <<req, before, cache, received, target, notified, closed, nextGroup>>

\* Mutant: an unbounded channel in place of the bounded one.
RequestObjectSendUnbounded(c) ==
    /\ pc[c] = "sending"
    /\ chan' = Append(chan, target[c])
    /\ pc' = [pc EXCEPT ![c] = "waiting"]
    /\ UNCHANGED <<req, before, cache, received, target, notified, closed, nextGroup>>

\* The same call after the lock is released: request_sender.send(hash).await
\* suspends while the channel is full.
RequestObjectSend(c) ==
    /\ pc[c] = "sending"
    /\ Len(chan) < ChanCap
    /\ chan' = Append(chan, target[c])
    /\ pc' = [pc EXCEPT ![c] = "waiting"]
    /\ UNCHANGED <<req, before, cache, received, target, notified, closed, nextGroup>>

\* The caller's listener yields its outcome (response or cancellation).
ListenerWake(c) ==
    /\ pc[c] = "waiting"
    /\ notified[c]
    /\ pc' = [pc EXCEPT ![c] = "idle"]
    /\ notified' = [notified EXCEPT ![c] = FALSE]
    /\ UNCHANGED <<req, before, cache, chan, received, target, closed, nextGroup>>

\* requester_loop: request_receiver.recv().
RequesterRecv ==
    /\ received = NoHash
    /\ chan # <<>>
    /\ received' = Head(chan)
    /\ chan' = Tail(chan)
    /\ UNCHANGED <<req, before, cache, pc, target, notified, closed, nextGroup>>

\* request_object_from_peer_internal, the request is gone from the queue.
RequestInternalMissing ==
    /\ received # NoHash
    /\ received \notin DOMAIN req
    /\ received' = NoHash
    /\ UNCHANGED <<req, before, cache, chan, pc, target, notified, closed, nextGroup>>

\* The request after set_requested(), with one more transmission.
Requested(h) ==
    [req EXCEPT ![h] = [peer |-> @.peer, group |-> @.group, sent |-> TRUE, age |-> 0,
                        listeners |-> @.listeners, sends |-> @.sends + 1]]

\* request_object_from_peer_internal, the peer is open and send_bytes succeeds.
RequestInternalSent ==
    /\ received \in DOMAIN req
    /\ req[received].peer \notin closed
    /\ req' = Requested(received)
    /\ received' = NoHash
    /\ UNCHANGED <<before, cache, chan, pc, target, notified, closed, nextGroup>>

\* request_object_from_peer_internal, the peer is closed, its exit signal
\* fires or send_bytes fails: clean_queue(Some(peer), group) under the lock.
RequestInternalFail ==
    /\ received \in DOMAIN req
    /\ CleanQueue(Requested(received), req[received].peer, req[received].group)
    /\ received' = NoHash
    /\ UNCHANGED <<chan, pc, target, closed, nextGroup>>

\* One iteration of the handler loop's while-let: if the head was requested
\* more than TIME_OUT ago, clean_queue(Some(its peer), its group).
SweepStep(q) ==
    IF DOMAIN q # {} /\ Expired(q[HeadOf(q)])
    THEN LET hd == q[HeadOf(q)]
         IN  [h \in DOMAIN q \ Removed(q, hd.peer, hd.group) |-> q[h]]
    ELSE q

\* The whole loop; each effective iteration removes the head, so the queue's
\* length bounds the iterations.
SweepLoop ==
    LET L[n \in 0 .. Cardinality(DOMAIN req)] ==
            IF n = 0 THEN req ELSE SweepStep(L[n - 1])
    IN  L[Cardinality(DOMAIN req)]

\* handler_loop, on an interval tick, when the head has timed out.
HandlerSweep ==
    /\ DOMAIN req # {}
    /\ Expired(req[HeadOf(req)])
    /\ LET R == DOMAIN req \ DOMAIN SweepLoop
       IN  /\ RemoveRequests(req, R)
           /\ cache' = [h \in DOMAIN cache \cup R |-> IF h \in R THEN 0 ELSE cache[h]]
    /\ UNCHANGED <<chan, received, pc, target, closed, nextGroup>>

\* mark_group_as_fail: clean_queue(None, Some(group)).
MarkGroupAsFail(g) ==
    /\ g < nextGroup
    /\ CleanQueue(req, NoPeer, g)
    /\ UNCHANGED <<chan, received, pc, target, closed, nextGroup>>

\* Mutant: the response removes the request without notifying its listeners.
HandleResponseQueuedSilent(h) ==
    /\ h \in DOMAIN req
    /\ req' = [k \in DOMAIN req \ {h} |-> req[k]]
    /\ before' = {e \in before : e[1] # h /\ e[2] # h}
    /\ UNCHANGED <<cache, chan, received, pc, target, notified, closed, nextGroup>>

\* handle_object_response for a queued hash: remove it and notify.
HandleResponseQueued(h) ==
    /\ h \in DOMAIN req
    /\ RemoveRequests(req, {h})
    /\ UNCHANGED <<cache, chan, received, pc, target, closed, nextGroup>>

\* handle_object_response for a hash that is not queued but cached.  (A hash
\* in neither returns Ok(false) and changes nothing.)
HandleResponseCached(h) ==
    /\ h \notin DOMAIN req
    /\ h \in DOMAIN cache
    /\ cache' = [k \in DOMAIN cache \ {h} |-> cache[k]]
    /\ UNCHANGED <<req, before, chan, received, pc, target, notified, closed, nextGroup>>

\* task_clean_cache: keep the entries with elapsed < TIME_OUT.
CleanCache ==
    /\ \E h \in DOMAIN cache : cache[h] >= Timeout
    /\ cache' = [h \in {k \in DOMAIN cache : cache[k] < Timeout} |-> cache[h]]
    /\ UNCHANGED <<req, before, chan, received, pc, target, notified, closed, nextGroup>>

\* A peer's connection closes (outside the tracker).
PeerDisconnect(p) ==
    /\ p \notin closed
    /\ closed' = closed \cup {p}
    /\ UNCHANGED <<req, before, cache, chan, received, pc, target, notified, nextGroup>>

\* Time passes: every Instant the tracker keeps ages by one tick.
Older(a) == IF a > Timeout THEN a ELSE a + 1

Tick ==
    /\ \/ \E h \in DOMAIN req : req[h].sent /\ req[h].age <= Timeout
       \/ \E h \in DOMAIN cache : cache[h] <= Timeout
    /\ req' = [h \in DOMAIN req |->
                 IF req[h].sent THEN [req[h] EXCEPT !.age = Older(@)] ELSE req[h]]
    /\ cache' = [h \in DOMAIN cache |-> Older(cache[h])]
    /\ UNCHANGED <<before, chan, received, pc, target, notified, closed, nextGroup>>

Next ==
    \/ NextGroupId
    \/ \E c \in Callers, h \in Hashes :
          \/ RequestObjectListen(c, h)
          \/ \E p \in Peers, g \in {NoGroup} \cup 0 .. (nextGroup - 1) :
                RequestObjectPush(c, h, p, g)
    \/ \E c \in Callers : RequestObjectSend(c) \/ ListenerWake(c)
    \/ RequesterRecv \/ RequestInternalMissing
    \/ RequestInternalSent \/ RequestInternalFail
    \/ HandlerSweep
    \/ \E g \in GroupIds : MarkGroupAsFail(g)
    \/ \E h \in Hashes : HandleResponseQueued(h) \/ HandleResponseCached(h)
    \/ CleanCache
    \/ \E p \in Peers : PeerDisconnect(p)
    \/ Tick

\* The three tasks run forever and tokio's interval keeps ticking; the bounded
\* channel wakes blocked senders in FIFO order (strong fairness for a sender);
\* peers need not answer, so responses get no fairness.
Fairness ==
    /\ WF_vars(RequesterRecv)
    /\ WF_vars(RequestInternalMissing \/ RequestInternalSent \/ RequestInternalFail)
    /\ WF_vars(HandlerSweep)
    /\ WF_vars(CleanCache)
    /\ WF_vars(Tick)
    /\ \A c \in Callers : SF_vars(RequestObjectSend(c)) /\ WF_vars(ListenerWake(c))

Spec == Init /\ [][Next]_vars /\ Fairness

-----------------------------------------------------------------------------
TypeOK ==
    /\ DOMAIN req \subseteq Hashes
    /\ \A h \in DOMAIN req : req[h] \in Request
    /\ before \subseteq Hashes \X Hashes
    /\ DOMAIN cache \subseteq Hashes
    /\ \A h \in DOMAIN cache : cache[h] \in Ages
    /\ chan \in Seq(Hashes) /\ Len(chan) <= ChanCap
    /\ received \in Hashes \cup {NoHash}
    /\ pc \in [Callers -> {"idle", "sending", "waiting"}]
    /\ target \in [Callers -> Hashes \cup {NoHash}]
    /\ \A c \in Callers : pc[c] # "idle" => target[c] \in Hashes
    /\ notified \in [Callers -> BOOLEAN]
    /\ closed \subseteq Peers
    /\ nextGroup \in 0 .. MaxGroups

Listening(c) == {h \in DOMAIN req : c \in req[h].listeners}

\* Every caller of request_object gets exactly one outcome: an idle caller
\* listens to nothing, and a busy caller listens to exactly one queued
\* request or has already been notified, never both (no lost wake-up when a
\* response, a sweep, a group failure or a failed dispatch drops a request).
ListenerAccounted ==
    \A c \in Callers :
        IF pc[c] = "idle"
        THEN ~notified[c] /\ Listening(c) = {}
        ELSE IF notified[c] THEN Listening(c) = {}
             ELSE Listening(c) = {target[c]}

InChan(h) == \E i \in 1 .. Len(chan) : chan[i] = h

\* A queued request that was never sent is still on its way to the requester:
\* in the channel, held by the requester loop, or about to be sent on the
\* channel by its caller.  Otherwise it would sit unsent at the head and stop
\* the handler loop from evicting anything behind it.
UnsentPending ==
    \A h \in DOMAIN req :
        ~req[h].sent =>
            \/ InChan(h)
            \/ received = h
            \/ \E c \in Callers : pc[c] = "sending" /\ target[c] = h

\* Every call of request_object eventually returns its outcome to the caller,
\* with no answer from any peer: a timeout, a failed dispatch or a group
\* failure always ends it.
EveryRequestAnswered ==
    \A c \in Callers : pc[c] = "waiting" ~> pc[c] = "idle"

\* Claims of the design that the code does not keep (checked for a violation).

\* A queued Request is transmitted at most once: its send time is set once
\* and duplicate fetches cause one transmission (spec sections 3 and 8),
\* although the requester loop takes every channel entry of its hash.
SingleTransmission ==
    \A h \in DOMAIN req : req[h].sends <= 1

\* Requests reach the wire in queue order, so the sent requests are a prefix
\* of the queue (the assumption behind the handler loop's head-only scan,
\* spec section 5), although callers push under the queue lock and send on
\* the channel after releasing it.
DispatchInQueueOrder ==
    \A e \in before : e[1] \in DOMAIN req /\ e[2] \in DOMAIN req /\ req[e[2]].sent
                        => req[e[1]].sent

\* mark_group_as_fail removes only the requests of that group (spec section
\* 8), although clean_queue also extracts closed-peer and expired requests.
GroupCancelOnlyGroup ==
    [][\A g \in GroupIds :
          MarkGroupAsFail(g) => \A h \in DOMAIN req \ DOMAIN req' : req[h].group = g]_vars

=============================================================================
