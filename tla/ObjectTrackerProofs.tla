------------------------ MODULE ObjectTrackerProofs ------------------------
(***************************************************************************)
(* Proofs about the object tracker, for every value of the constants.      *)
(***************************************************************************)
EXTENDS ObjectTracker, TLAPS

USE TrackerAssumption

\* What a queue with the requests R dropped looks like, for any R.
LEMMA RemoveRequestsType ==
    ASSUME TypeOK,
           NEW q, DOMAIN q \subseteq Hashes, \A h \in DOMAIN q : q[h] \in Request,
           NEW R,
           RemoveRequests(q, R)
    PROVE  /\ DOMAIN req' \subseteq Hashes
           /\ \A h \in DOMAIN req' : req'[h] \in Request
           /\ before' \subseteq Hashes \X Hashes
           /\ notified' \in [Callers -> BOOLEAN]
BY DEF RemoveRequests, TypeOK

\* The cache after clean_queue puts the hashes R in it.
LEMMA CacheInsertType ==
    ASSUME TypeOK, NEW R, R \subseteq Hashes,
           cache' = [h \in DOMAIN cache \cup R |-> IF h \in R THEN 0 ELSE cache[h]]
    PROVE  /\ DOMAIN cache' \subseteq Hashes
           /\ \A h \in DOMAIN cache' : cache'[h] \in Ages
BY DEF TypeOK, Ages

\* set_requested keeps the queue's type.
LEMMA RequestedType ==
    ASSUME TypeOK, NEW h \in DOMAIN req
    PROVE  /\ DOMAIN Requested(h) = DOMAIN req
           /\ \A k \in DOMAIN req : Requested(h)[k] \in Request
<1>1. req[h] \in Request
  BY DEF TypeOK
<1>2. [peer |-> req[h].peer, group |-> req[h].group, sent |-> TRUE, age |-> 0,
       listeners |-> req[h].listeners, sends |-> req[h].sends + 1] \in Request
  <2>1. 0 \in Ages
    BY DEF Ages
  <2>. QED
    BY <1>1, <2>1 DEF Request
<1>3. \A k \in DOMAIN req : req[k] \in Request
  BY DEF TypeOK
<1>. QED
  BY <1>2, <1>3 DEF Requested

LEMMA CleanQueueType ==
    ASSUME TypeOK,
           NEW q, DOMAIN q \subseteq Hashes, \A h \in DOMAIN q : q[h] \in Request,
           NEW peer, NEW group,
           CleanQueue(q, peer, group)
    PROVE  /\ DOMAIN req' \subseteq Hashes
           /\ \A h \in DOMAIN req' : req'[h] \in Request
           /\ before' \subseteq Hashes \X Hashes
           /\ notified' \in [Callers -> BOOLEAN]
           /\ DOMAIN cache' \subseteq Hashes
           /\ \A h \in DOMAIN cache' : cache'[h] \in Ages
<1>1. Removed(q, peer, group) \subseteq Hashes
  BY DEF Removed
<1>2. RemoveRequests(q, Removed(q, peer, group))
  BY DEF CleanQueue
<1>3. cache' = [h \in DOMAIN cache \cup Removed(q, peer, group) |->
                  IF h \in Removed(q, peer, group) THEN 0 ELSE cache[h]]
  BY DEF CleanQueue
<1>. QED
  BY <1>1, <1>2, <1>3, RemoveRequestsType, CacheInsertType

LEMMA InitTypeOK == Init => TypeOK
BY DEF Init, TypeOK

LEMMA NextTypeOK == TypeOK /\ [Next]_vars => TypeOK'
<1> SUFFICES ASSUME TypeOK, [Next]_vars PROVE TypeOK'
  OBVIOUS
<1>1. CASE NextGroupId
  BY <1>1 DEF NextGroupId, TypeOK
<1>2. ASSUME NEW c \in Callers, NEW h \in Hashes, RequestObjectListen(c, h)
      PROVE  TypeOK'
  <2>1. /\ DOMAIN req' = DOMAIN req
        /\ \A k \in DOMAIN req : req'[k] \in Request
    <3>1. h \in DOMAIN req /\ req' = [req EXCEPT ![h].listeners = @ \cup {c}]
      BY <1>2 DEF RequestObjectListen
    <3>2. req[h] \in Request
      BY <3>1 DEF TypeOK
    <3>3. [req[h] EXCEPT !.listeners = @ \cup {c}] \in Request
      BY <3>2 DEF Request
    <3>. QED
      BY <3>1, <3>3 DEF TypeOK
  <2>2. /\ pc' = [pc EXCEPT ![c] = "waiting"]
        /\ target' = [target EXCEPT ![c] = h]
        /\ UNCHANGED <<before, cache, chan, received, notified, closed, nextGroup>>
    BY <1>2 DEF RequestObjectListen
  <2>. QED
    BY <2>1, <2>2 DEF TypeOK
<1>3. ASSUME NEW c \in Callers, NEW h \in Hashes, NEW p \in Peers,
             NEW g \in {NoGroup} \cup 0 .. (nextGroup - 1),
             RequestObjectPush(c, h, p, g)
      PROVE  TypeOK'
  <2>1. g \in GroupIds \cup {NoGroup}
    BY DEF TypeOK, GroupIds
  <2> DEFINE r == [peer |-> p, group |-> g, sent |-> FALSE, age |-> 0,
                   listeners |-> {c}, sends |-> 0]
  <2>2. r \in Request
    BY <2>1 DEF Request, Ages
  <2>3. req' = [k \in DOMAIN req \cup {h} |-> IF k = h THEN r ELSE req[k]]
    BY <1>3 DEF RequestObjectPush
  <2>4. /\ DOMAIN req' \subseteq Hashes
        /\ \A k \in DOMAIN req' : req'[k] \in Request
    BY <2>2, <2>3 DEF TypeOK
  <2>5. /\ before' = before \cup {<<k, h>> : k \in DOMAIN req}
        /\ pc' = [pc EXCEPT ![c] = "sending"]
        /\ target' = [target EXCEPT ![c] = h]
        /\ UNCHANGED <<cache, chan, received, notified, closed, nextGroup>>
    BY <1>3 DEF RequestObjectPush
  <2>. QED
    BY <2>4, <2>5 DEF TypeOK
<1>4. ASSUME NEW c \in Callers, RequestObjectSend(c)
      PROVE  TypeOK'
  BY <1>4 DEF RequestObjectSend, TypeOK
<1>5. ASSUME NEW c \in Callers, ListenerWake(c)
      PROVE  TypeOK'
  BY <1>5 DEF ListenerWake, TypeOK
<1>6. CASE RequesterRecv
  BY <1>6 DEF RequesterRecv, TypeOK
<1>7. CASE RequestInternalMissing
  BY <1>7 DEF RequestInternalMissing, TypeOK
<1>8. CASE RequestInternalSent
  BY <1>8, RequestedType DEF RequestInternalSent, TypeOK
<1>9. CASE RequestInternalFail
  <2>1. /\ received \in DOMAIN req
        /\ CleanQueue(Requested(received), req[received].peer, req[received].group)
    BY <1>9 DEF RequestInternalFail
  <2>2. /\ DOMAIN Requested(received) \subseteq Hashes
        /\ \A k \in DOMAIN Requested(received) : Requested(received)[k] \in Request
    BY <2>1, RequestedType DEF TypeOK
  <2>3. UNCHANGED <<chan, pc, target, closed, nextGroup>> /\ received' = NoHash
    BY <1>9 DEF RequestInternalFail
  <2>. QED
    BY <2>1, <2>2, <2>3, CleanQueueType DEF TypeOK
<1>10. CASE HandlerSweep
  <2>. DEFINE R == DOMAIN req \ DOMAIN SweepLoop
  <2>1. RemoveRequests(req, R)
    BY <1>10 DEF HandlerSweep
  <2>2. cache' = [h \in DOMAIN cache \cup R |-> IF h \in R THEN 0 ELSE cache[h]]
    BY <1>10 DEF HandlerSweep
  <2>3. R \subseteq Hashes
    BY DEF TypeOK
  <2>4. UNCHANGED <<chan, received, pc, target, closed, nextGroup>>
    BY <1>10 DEF HandlerSweep
  <2>. QED
    BY <2>1, <2>2, <2>3, <2>4, RemoveRequestsType, CacheInsertType DEF TypeOK
<1>11. ASSUME NEW g \in GroupIds, MarkGroupAsFail(g)
       PROVE  TypeOK'
  <2>1. CleanQueue(req, NoPeer, g)
    BY <1>11 DEF MarkGroupAsFail
  <2>2. UNCHANGED <<chan, received, pc, target, closed, nextGroup>>
    BY <1>11 DEF MarkGroupAsFail
  <2>. QED
    BY <2>1, <2>2, CleanQueueType DEF TypeOK
<1>12. ASSUME NEW h \in Hashes, HandleResponseQueued(h)
       PROVE  TypeOK'
  <2>1. RemoveRequests(req, {h})
    BY <1>12 DEF HandleResponseQueued
  <2>2. UNCHANGED <<cache, chan, received, pc, target, closed, nextGroup>>
    BY <1>12 DEF HandleResponseQueued
  <2>. QED
    BY <2>1, <2>2, RemoveRequestsType DEF TypeOK
<1>13. ASSUME NEW h \in Hashes, HandleResponseCached(h)
       PROVE  TypeOK'
  BY <1>13 DEF HandleResponseCached, TypeOK
<1>14. CASE CleanCache
  BY <1>14 DEF CleanCache, TypeOK
<1>15. ASSUME NEW p \in Peers, PeerDisconnect(p)
       PROVE  TypeOK'
  BY <1>15 DEF PeerDisconnect, TypeOK
<1>16. CASE Tick
  <2>1. \A a \in Ages : Older(a) \in Ages
    BY DEF Older, Ages
  <2>2. /\ DOMAIN req' = DOMAIN req
        /\ \A h \in DOMAIN req : req'[h] \in Request
    <3>1. ASSUME NEW h \in DOMAIN req PROVE req'[h] \in Request
      <4>1. req[h] \in Request
        BY DEF TypeOK
      <4>2. req'[h] = IF req[h].sent THEN [req[h] EXCEPT !.age = Older(req[h].age)] ELSE req[h]
        BY <1>16 DEF Tick
      <4>. QED
        BY <4>1, <4>2, <2>1 DEF Request
    <3>. QED
      BY <3>1, <1>16 DEF Tick
  <2>3. /\ DOMAIN cache' = DOMAIN cache
        /\ \A h \in DOMAIN cache : cache'[h] \in Ages
    BY <1>16, <2>1 DEF Tick, TypeOK
  <2>4. UNCHANGED <<before, chan, received, pc, target, notified, closed, nextGroup>>
    BY <1>16 DEF Tick
  <2>. QED
    BY <2>2, <2>3, <2>4 DEF TypeOK
<1>17. CASE UNCHANGED vars
  BY <1>17 DEF vars, TypeOK
<1>. QED
  BY <1>1, <1>2, <1>3, <1>4, <1>5, <1>6, <1>7, <1>8, <1>9, <1>10,
     <1>11, <1>12, <1>13, <1>14, <1>15, <1>16, <1>17 DEF Next

\* The tracker's state always has its type; in particular the dispatch
\* channel never holds more than REQUESTER_CHANNEL_BUFFER hashes.
THEOREM TypeCorrect == Spec => []TypeOK
<1>1. Init => TypeOK
  BY InitTypeOK
<1>2. TypeOK /\ [Next]_vars => TypeOK'
  BY NextTypeOK
<1>. QED
  BY <1>1, <1>2, PTL DEF Spec

-----------------------------------------------------------------------------
(* Listener accounting: the inductive invariant is TypeOK /\ ListenerAccounted. *)

\* Dropping requests R from a queue q whose listeners are those of req.
LEMMA RemoveRequestsAccounted ==
    ASSUME TypeOK, ListenerAccounted,
           NEW q, DOMAIN q = DOMAIN req,
           \A h \in DOMAIN q : q[h].listeners = req[h].listeners,
           NEW R, R \subseteq DOMAIN q,
           RemoveRequests(q, R),
           UNCHANGED <<pc, target>>
    PROVE  ListenerAccounted'
<1> SUFFICES ASSUME NEW c \in Callers
             PROVE  ListenerAccounted!(c)'
  BY DEF ListenerAccounted
<1>1. Listening(c)' = Listening(c) \ R
  BY DEF Listening, RemoveRequests
<1>2. notified'[c] = (notified[c] \/ \E h \in R : c \in req[h].listeners)
  BY DEF RemoveRequests
<1>3. (\E h \in R : c \in req[h].listeners) <=> Listening(c) \cap R # {}
  BY DEF Listening
<1>4. ListenerAccounted!(c)
  BY DEF ListenerAccounted
<1>. QED
  BY <1>1, <1>2, <1>3, <1>4

LEMMA NextAccounted ==
    TypeOK /\ ListenerAccounted /\ [Next]_vars => ListenerAccounted'
<1> SUFFICES ASSUME TypeOK, ListenerAccounted, [Next]_vars
             PROVE  ListenerAccounted'
  OBVIOUS
<1>1. ASSUME UNCHANGED <<req, pc, target, notified>>
      PROVE  ListenerAccounted'
  BY <1>1 DEF ListenerAccounted, Listening
<1>2. ASSUME NEW c \in Callers, NEW h \in Hashes, RequestObjectListen(c, h)
      PROVE  ListenerAccounted'
  <2> SUFFICES ASSUME NEW d \in Callers PROVE ListenerAccounted!(d)'
    BY DEF ListenerAccounted
  <2>1. Listening(c) = {} /\ ~notified[c]
    BY <1>2 DEF RequestObjectListen, ListenerAccounted
  <2>2. Listening(c)' = {h}
    BY <1>2, <2>1 DEF RequestObjectListen, Listening
  <2>3. d # c => Listening(d)' = Listening(d)
    BY <1>2 DEF RequestObjectListen, Listening
  <2>. QED
    BY <1>2, <2>1, <2>2, <2>3 DEF RequestObjectListen, ListenerAccounted, TypeOK
<1>3. ASSUME NEW c \in Callers, NEW h \in Hashes, NEW p \in Peers,
             NEW g \in {NoGroup} \cup 0 .. (nextGroup - 1),
             RequestObjectPush(c, h, p, g)
      PROVE  ListenerAccounted'
  <2> SUFFICES ASSUME NEW d \in Callers PROVE ListenerAccounted!(d)'
    BY DEF ListenerAccounted
  <2>1. Listening(c) = {} /\ ~notified[c]
    BY <1>3 DEF RequestObjectPush, ListenerAccounted
  <2>2. Listening(c)' = {h}
    BY <1>3, <2>1 DEF RequestObjectPush, Listening
  <2>3. d # c => Listening(d)' = Listening(d)
    BY <1>3 DEF RequestObjectPush, Listening
  <2>. QED
    BY <1>3, <2>1, <2>2, <2>3 DEF RequestObjectPush, ListenerAccounted, TypeOK
<1>4. ASSUME NEW c \in Callers, RequestObjectSend(c)
      PROVE  ListenerAccounted'
  BY <1>4 DEF RequestObjectSend, ListenerAccounted, Listening, TypeOK
<1>5. ASSUME NEW c \in Callers, ListenerWake(c)
      PROVE  ListenerAccounted'
  BY <1>5 DEF ListenerWake, ListenerAccounted, Listening, TypeOK
<1>6. CASE RequestInternalSent
  <2>1. DOMAIN req' = DOMAIN req /\ \A h \in DOMAIN req : req'[h].listeners = req[h].listeners
    BY <1>6 DEF RequestInternalSent, Requested
  <2>. QED
    BY <1>6, <2>1 DEF RequestInternalSent, ListenerAccounted, Listening
<1>7. CASE RequestInternalFail
  <2>. DEFINE q == Requested(received)
  <2>1. received \in DOMAIN req
    BY <1>7 DEF RequestInternalFail
  <2>2. DOMAIN q = DOMAIN req /\ \A h \in DOMAIN q : q[h].listeners = req[h].listeners
    BY <2>1 DEF Requested
  <2>3. RemoveRequests(q, Removed(q, req[received].peer, req[received].group))
    BY <1>7 DEF RequestInternalFail, CleanQueue
  <2>4. Removed(q, req[received].peer, req[received].group) \subseteq DOMAIN q
    BY DEF Removed
  <2>. QED
    BY <1>7, <2>2, <2>3, <2>4, RemoveRequestsAccounted DEF RequestInternalFail
<1>8. CASE HandlerSweep
  <2>1. RemoveRequests(req, DOMAIN req \ DOMAIN SweepLoop)
    BY <1>8 DEF HandlerSweep
  <2>. QED
    BY <1>8, <2>1, RemoveRequestsAccounted DEF HandlerSweep
<1>9. ASSUME NEW g \in GroupIds, MarkGroupAsFail(g)
      PROVE  ListenerAccounted'
  <2>1. RemoveRequests(req, Removed(req, NoPeer, g))
    BY <1>9 DEF MarkGroupAsFail, CleanQueue
  <2>2. Removed(req, NoPeer, g) \subseteq DOMAIN req
    BY DEF Removed
  <2>. QED
    BY <1>9, <2>1, <2>2, RemoveRequestsAccounted DEF MarkGroupAsFail
<1>10. ASSUME NEW h \in Hashes, HandleResponseQueued(h)
       PROVE  ListenerAccounted'
  BY <1>10, RemoveRequestsAccounted DEF HandleResponseQueued
<1>11. CASE Tick
  <2>1. DOMAIN req' = DOMAIN req /\ \A h \in DOMAIN req : req'[h].listeners = req[h].listeners
    BY <1>11 DEF Tick
  <2>. QED
    BY <1>11, <2>1 DEF Tick, ListenerAccounted, Listening
<1>. QED
  BY <1>1, <1>2, <1>3, <1>4, <1>5, <1>6, <1>7, <1>8, <1>9, <1>10, <1>11
     DEF Next, vars, NextGroupId, RequesterRecv, RequestInternalMissing,
         HandleResponseCached, CleanCache, PeerDisconnect

\* Every caller of request_object_from_peer_with_or_get_notified gets exactly
\* one outcome: no response, sweep, group failure or failed dispatch loses a
\* listener's wake-up or wakes a caller twice.
THEOREM ListenerAccountedInvariant == Spec => []ListenerAccounted
<1>1. Init => TypeOK /\ ListenerAccounted
  BY InitTypeOK DEF Init, ListenerAccounted, Listening
<1>2. TypeOK /\ ListenerAccounted /\ [Next]_vars => (TypeOK /\ ListenerAccounted)'
  BY NextTypeOK, NextAccounted
<1>. QED
  BY <1>1, <1>2, PTL DEF Spec

-----------------------------------------------------------------------------
(* Pending dispatch: the inductive invariant is TypeOK /\ UnsentPending. *)

\* The channel after recv(): what was in it is now in it or received.
LEMMA RecvKeepsPending ==
    ASSUME TypeOK, RequesterRecv, NEW h \in Hashes, InChan(h)
    PROVE  InChan(h)' \/ received' = h
<1>1. PICK i \in 1 .. Len(chan) : chan[i] = h
  BY DEF InChan
<1>2. CASE i = 1
  BY <1>1, <1>2 DEF RequesterRecv, TypeOK
<1>3. CASE i # 1
  <2>1. i - 1 \in 1 .. Len(Tail(chan)) /\ Tail(chan)[i - 1] = h
    BY <1>1, <1>3 DEF RequesterRecv, TypeOK
  <2>. QED
    BY <2>1 DEF RequesterRecv, InChan
<1>. QED
  BY <1>2, <1>3

\* Dropping requests from a queue q that agrees with req on whether each
\* request was sent, except possibly for the received one.
LEMMA RemoveRequestsPending ==
    ASSUME TypeOK, UnsentPending,
           NEW q, DOMAIN q = DOMAIN req,
           \A h \in DOMAIN q : h # received => q[h].sent = req[h].sent,
           NEW R,
           RemoveRequests(q, R),
           UNCHANGED <<chan, pc, target>>,
           received' \in {received, NoHash},
           received' = NoHash => (received \in DOMAIN req => received \in R \/ q[received].sent)
    PROVE  UnsentPending'
<1> SUFFICES ASSUME NEW h \in DOMAIN req', ~req'[h].sent
             PROVE  UnsentPending!(h)!2'
  BY DEF UnsentPending
<1>1. h \in DOMAIN q \ R /\ req'[h] = q[h]
  BY DEF RemoveRequests
<1>2. CASE h = received
  <2>1. CASE received' = received
    BY <2>1, <1>2
  <2>2. CASE received' = NoHash
    <3>1. received \in DOMAIN req
      BY <1>1, <1>2
    <3>2. received \notin R /\ ~q[received].sent
      BY <1>1, <1>2
    <3>. QED
      BY <2>2, <3>1, <3>2
  <2>. QED
    BY <2>1, <2>2
<1>3. CASE h # received
  <2>1. ~req[h].sent
    BY <1>1, <1>3
  <2>2. UnsentPending!(h)!2
    BY <1>1, <2>1 DEF UnsentPending
  <2>. QED
    BY <2>2, <1>3 DEF InChan
<1>. QED
  BY <1>2, <1>3

LEMMA NextPending ==
    TypeOK /\ UnsentPending /\ [Next]_vars => UnsentPending'
<1> SUFFICES ASSUME TypeOK, UnsentPending, [Next]_vars
             PROVE  UnsentPending'
  OBVIOUS
<1>1. ASSUME UNCHANGED <<req, chan, received, pc, target>>
      PROVE  UnsentPending'
  BY <1>1 DEF UnsentPending, InChan
<1>2. ASSUME NEW c \in Callers, NEW h \in Hashes, RequestObjectListen(c, h)
      PROVE  UnsentPending'
  BY <1>2 DEF RequestObjectListen, UnsentPending, InChan
<1>3. ASSUME NEW c \in Callers, NEW h \in Hashes, NEW p \in Peers,
             NEW g \in {NoGroup} \cup 0 .. (nextGroup - 1),
             RequestObjectPush(c, h, p, g)
      PROVE  UnsentPending'
  <2> SUFFICES ASSUME NEW k \in DOMAIN req', ~req'[k].sent
               PROVE  UnsentPending!(k)!2'
    BY DEF UnsentPending
  <2>1. CASE k = h
    BY <1>3, <2>1 DEF RequestObjectPush, TypeOK
  <2>2. CASE k # h
    <3>1. k \in DOMAIN req /\ req'[k] = req[k]
      BY <1>3, <2>2 DEF RequestObjectPush
    <3>2. UnsentPending!(k)!2
      BY <3>1 DEF UnsentPending
    <3>3. \A d \in Callers : pc[d] = "sending" => pc'[d] = "sending" /\ target'[d] = target[d]
      BY <1>3 DEF RequestObjectPush, TypeOK
    <3>. QED
      BY <1>3, <3>2, <3>3 DEF RequestObjectPush, InChan
  <2>. QED
    BY <2>1, <2>2
<1>4. ASSUME NEW c \in Callers, RequestObjectSend(c)
      PROVE  UnsentPending'
  <2> SUFFICES ASSUME NEW h \in DOMAIN req', ~req'[h].sent
               PROVE  UnsentPending!(h)!2'
    BY DEF UnsentPending
  <2>1. \A k \in Hashes : InChan(k) => InChan(k)'
    BY <1>4 DEF RequestObjectSend, InChan, TypeOK
  <2>2. InChan(target[c])'
    BY <1>4 DEF RequestObjectSend, InChan, TypeOK
  <2>3. UnsentPending!(h)!2
    BY <1>4 DEF RequestObjectSend, UnsentPending
  <2>. QED
    BY <1>4, <2>1, <2>2, <2>3 DEF RequestObjectSend, TypeOK
<1>5. ASSUME NEW c \in Callers, ListenerWake(c)
      PROVE  UnsentPending'
  BY <1>5 DEF ListenerWake, UnsentPending, InChan
<1>6. CASE RequesterRecv
  <2> SUFFICES ASSUME NEW h \in DOMAIN req', ~req'[h].sent
               PROVE  UnsentPending!(h)!2'
    BY DEF UnsentPending
  <2>1. UnsentPending!(h)!2
    BY <1>6 DEF RequesterRecv, UnsentPending
  <2>2. received # h
    BY <1>6, TrackerAssumption DEF RequesterRecv, TypeOK
  <2>. QED
    BY <1>6, <2>1, <2>2, RecvKeepsPending DEF RequesterRecv, TypeOK
<1>7. CASE RequestInternalMissing
  BY <1>7 DEF RequestInternalMissing, UnsentPending, InChan
<1>8. CASE RequestInternalSent
  <2> SUFFICES ASSUME NEW h \in DOMAIN req', ~req'[h].sent
               PROVE  UnsentPending!(h)!2'
    BY DEF UnsentPending
  <2>1. h # received /\ h \in DOMAIN req /\ ~req[h].sent
    BY <1>8 DEF RequestInternalSent, Requested
  <2>. QED
    BY <1>8, <2>1 DEF RequestInternalSent, UnsentPending, InChan
<1>9. CASE RequestInternalFail
  <2>. DEFINE q == Requested(received)
  <2>1. received \in DOMAIN req
    BY <1>9 DEF RequestInternalFail
  <2>2. /\ DOMAIN q = DOMAIN req
        /\ \A h \in DOMAIN q : h # received => q[h].sent = req[h].sent
        /\ q[received].sent
    BY <2>1 DEF Requested
  <2>3. RemoveRequests(q, Removed(q, req[received].peer, req[received].group))
    BY <1>9 DEF RequestInternalFail, CleanQueue
  <2>. QED
    BY <1>9, <2>2, <2>3, RemoveRequestsPending DEF RequestInternalFail
<1>10. ASSUME NEW R, RemoveRequests(req, R), UNCHANGED <<chan, received, pc, target>>
       PROVE  UnsentPending'
  <2>1. received' = NoHash => received \notin DOMAIN req
    BY <1>10, TrackerAssumption DEF TypeOK
  <2>. QED
    BY <1>10, <2>1, RemoveRequestsPending
<1>11. CASE HandlerSweep
  BY <1>11, <1>10 DEF HandlerSweep
<1>12. ASSUME NEW g \in GroupIds, MarkGroupAsFail(g)
       PROVE  UnsentPending'
  BY <1>12, <1>10 DEF MarkGroupAsFail, CleanQueue
<1>13. ASSUME NEW h \in Hashes, HandleResponseQueued(h)
       PROVE  UnsentPending'
  BY <1>13, <1>10 DEF HandleResponseQueued
<1>14. CASE Tick
  <2>1. DOMAIN req' = DOMAIN req /\ \A h \in DOMAIN req : req'[h].sent = req[h].sent
    BY <1>14 DEF Tick
  <2>. QED
    BY <1>14, <2>1 DEF Tick, UnsentPending, InChan
<1>. QED
  BY <1>1, <1>2, <1>3, <1>4, <1>5, <1>6, <1>7, <1>8, <1>9, <1>11,
     <1>12, <1>13, <1>14
     DEF Next, vars, NextGroupId, HandleResponseCached, CleanCache, PeerDisconnect

\* A queued request that was never sent is always still on its way to the
\* requester loop (channel, requester, or the caller's pending send), so an
\* unsent head of the queue cannot be orphaned.
THEOREM UnsentPendingInvariant == Spec => []UnsentPending
<1>1. Init => TypeOK /\ UnsentPending
  BY InitTypeOK DEF Init, UnsentPending
<1>2. TypeOK /\ UnsentPending /\ [Next]_vars => (TypeOK /\ UnsentPending)'
  BY NextTypeOK, NextPending
<1>. QED
  BY <1>1, <1>2, PTL DEF Spec

=============================================================================
