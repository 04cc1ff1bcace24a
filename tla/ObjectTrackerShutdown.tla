------------------------ MODULE ObjectTrackerShutdown ------------------------
(***************************************************************************)
(* The object tracker (p2p/tracker/mod.rs) with the two ends of its life  *)
(* that the core module leaves out: the server_exit broadcast that stops  *)
(* its three tasks, and a caller whose future is dropped (or whose send   *)
(* fails) between queue.push and request_sender.send.                     *)
(*                                                                         *)
(* Every task runs `select! { biased; _ = exit.recv() => break, ... }`:    *)
(* once the signal is out, a task takes no further branch of its loop      *)
(* and leaves at its next select.  The handler then clears the queue;     *)
(* the requester drops its receiver, which closes the channel, so a later *)
(* `send(hash).await?` returns an error with the Request left queued.      *)
(* The core actions that need a running task are guarded by it; the        *)
(* others (callers, responses, group failures, disconnects, time) go on.  *)
(***************************************************************************)
EXTENDS ObjectTracker

CONSTANTS
    MayExit,    \* whether the server sends its exit signal in this model
    MayAbort    \* whether a caller's future may be dropped before its send

Tasks == {"requester", "handler", "cleaner"}

VARIABLES
    exiting,    \* the server_exit broadcast has been sent
    running     \* the spawned tasks that have not left their loop

svars == <<exiting, running>>
allvars == <<vars, svars>>

SInit ==
    /\ Init
    /\ exiting = FALSE
    /\ running = Tasks

\* The server broadcasts its exit signal (outside the tracker).
ServerExit ==
    /\ MayExit
    /\ ~exiting
    /\ exiting' = TRUE
    /\ UNCHANGED <<vars, running>>

\* A task takes a branch of its select only while it runs and, the select
\* being biased, only while no exit signal is waiting for it.
Serving(t) == t \in running /\ ~exiting

\* task_clean_cache: the exit branch breaks the loop.
CleanerExit ==
    /\ "cleaner" \in running
    /\ exiting
    /\ running' = running \ {"cleaner"}
    /\ UNCHANGED <<vars, exiting>>

\* handler_loop: the exit branch breaks the loop, then the queue is cleared
\* under its lock; dropping each Request wakes its listeners with an error,
\* and nothing is put in the cache.
HandlerExit ==
    /\ "handler" \in running
    /\ exiting
    /\ RemoveRequests(req, DOMAIN req)
    /\ running' = running \ {"handler"}
    /\ UNCHANGED <<cache, chan, received, pc, target, closed, nextGroup, exiting>>

\* requester_loop: at its select, after the request in hand is done, the
\* exit branch breaks the loop; the receiver is dropped with whatever the
\* channel still buffers.
RequesterExit ==
    /\ "requester" \in running
    /\ exiting
    /\ received = NoHash
    /\ chan' = <<>>
    /\ running' = running \ {"requester"}
    /\ UNCHANGED <<req, before, cache, received, pc, target, notified, closed,
                   nextGroup, exiting>>

\* The caller leaves request_object between the push and the end of the send
\* without its listener: the receiver is dropped, the Request stays queued.
AbandonSend(c) ==
    /\ pc[c] = "sending"
    /\ req' = [h \in DOMAIN req |->
                 IF h = target[c] THEN [req[h] EXCEPT !.listeners = @ \ {c}]
                                  ELSE req[h]]
    /\ pc' = [pc EXCEPT ![c] = "idle"]
    /\ notified' = [notified EXCEPT ![c] = FALSE]
    /\ UNCHANGED <<before, cache, chan, received, target, closed, nextGroup, svars>>

\* `self.request_sender.send(hash).await?` with the receiver dropped: the
\* send fails (at once, or waking a sender blocked on a full channel) and
\* the `?` returns the error to the caller.
CallerSendFails(c) ==
    /\ "requester" \notin running
    /\ AbandonSend(c)

\* The caller's future is dropped while it awaits the send (a timeout or a
\* select around the call): the same effect with the channel open.
CallerDropped(c) ==
    /\ MayAbort
    /\ AbandonSend(c)

\* The core operations, each with the task it needs.
SNext ==
    \/ /\ \/ NextGroupId
          \/ \E c \in Callers, h \in Hashes :
                \/ RequestObjectListen(c, h)
                \/ \E p \in Peers, g \in {NoGroup} \cup 0 .. (nextGroup - 1) :
                      RequestObjectPush(c, h, p, g)
          \/ \E c \in Callers : ListenerWake(c)
          \/ RequestInternalMissing \/ RequestInternalSent \/ RequestInternalFail
          \/ \E g \in GroupIds : MarkGroupAsFail(g)
          \/ \E h \in Hashes : HandleResponseQueued(h) \/ HandleResponseCached(h)
          \/ \E p \in Peers : PeerDisconnect(p)
          \/ Tick
       /\ UNCHANGED svars
    \/ \E c \in Callers : "requester" \in running /\ RequestObjectSend(c) /\ UNCHANGED svars
    \/ Serving("requester") /\ RequesterRecv /\ UNCHANGED svars
    \/ Serving("handler") /\ HandlerSweep /\ UNCHANGED svars
    \/ Serving("cleaner") /\ CleanCache /\ UNCHANGED svars
    \/ ServerExit \/ CleanerExit \/ HandlerExit \/ RequesterExit
    \/ \E c \in Callers : CallerSendFails(c) \/ CallerDropped(c)

\* The tasks run until they exit; a send on a closed channel returns at once.
SFairness ==
    /\ WF_allvars(Serving("requester") /\ RequesterRecv /\ UNCHANGED svars)
    /\ WF_allvars((RequestInternalMissing \/ RequestInternalSent \/ RequestInternalFail)
                  /\ UNCHANGED svars)
    /\ WF_allvars(Serving("handler") /\ HandlerSweep /\ UNCHANGED svars)
    /\ WF_allvars(Serving("cleaner") /\ CleanCache /\ UNCHANGED svars)
    /\ WF_allvars(Tick /\ UNCHANGED svars)
    /\ WF_allvars(CleanerExit) /\ WF_allvars(HandlerExit) /\ WF_allvars(RequesterExit)
    /\ \A c \in Callers :
          /\ SF_allvars("requester" \in running /\ RequestObjectSend(c) /\ UNCHANGED svars)
          /\ WF_allvars(ListenerWake(c) /\ UNCHANGED svars)
          /\ WF_allvars(CallerSendFails(c))

SSpec == SInit /\ [][SNext]_allvars /\ SFairness

-----------------------------------------------------------------------------
(* Properties *)

(***************************************************************************)
(* The design says that on the exit signal the queue is drained and no   *)
(* Request is ever leaked: once every task (task_clean_cache,             *)
(* handler_loop, requester_loop) has stopped, no Request is left in the   *)
(* queue (one left there keeps its listeners waiting, and every later     *)
(* caller of its hash attaches to it with RequestObjectListen).           *)
(***************************************************************************)
QueueDrainedAfterExit ==
    running = {} => DOMAIN req = {}
=============================================================================
