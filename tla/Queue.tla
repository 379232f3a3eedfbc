------------------------------- MODULE Queue -------------------------------
(***************************************************************************)
(* One queue of a running pipeline (lib/src/core/queue.rs): the boundary   *)
(* between the thread that hands items over (the producer) and the thread  *)
(* that owns everything after the queue (the worker).  The pipeline's      *)
(* requests reach the worker directly, on a channel of their own, and the  *)
(* playback state they all read is written before they are sent.           *)
(*                                                                         *)
(* The producer may call the queue in any order, pushing while paused      *)
(* included: a source thread looks at its own requests only between two    *)
(* things it produces.  Downstream is external: it answers whether it is   *)
(* ready, and takes, refuses or panics on what it is handed.               *)
(***************************************************************************)
EXTENDS Integers, Sequences, FiniteSets

CONSTANTS
    Capacity,     \* the queue's capacity in buffers
    DropNewest,   \* TRUE: OverflowPolicy::DropNewest, FALSE: ::Block
    Limited,      \* TRUE: Block has a finite timeout
    MaxItems,     \* bound: calls of the producer
    MaxRequests,  \* bound: requests of the pipeline
    MaxBusy,      \* bound: how often downstream turns not ready
    MaxPanics     \* bound: panics of what is downstream

ASSUME CapacityAssumption == Capacity \in Nat
ASSUME PolicyAssumption == DropNewest \in BOOLEAN /\ Limited \in BOOLEAN
ASSUME BoundsAssumption ==
    /\ MaxItems \in Nat /\ MaxRequests \in Nat
    /\ MaxBusy \in Nat /\ MaxPanics \in Nat

VARIABLES
    phase, interrupt,            \* the playback state's phase, interrupt_pending
    channel,                     \* the data channel, unbounded
    control, waiting,            \* the worker's requests; who waits for an ack
    endsOwed,                    \* Queue::ends_owed
    stop, ended, registered,     \* Queue::stop, ::ended, ::direct
    toldGone,                    \* Queue::told_gone
    bell, room,                  \* the two bells: rung and not yet answered
    wpc, hand, asked, heldBack, polls, inPause, back,  \* the worker's place,
                                 \* the item and the request in hand, its locals
    flushing, settleWait,        \* Inbox::flushing, ::stopped_during_interrupt
    ppc, item,                   \* the producer's place, what it hands over
    rpc, msg,                    \* the pipeline's place, what it asks
    sinkReady,                   \* downstream's own readiness
    cause, lostEnds, errors,     \* history: why the worker ended, the ends it
                                 \* abandoned, the ChannelClosed answered
    items, requests, busy, panics   \* counted against the bounds

playback == <<phase, interrupt>>
flags    == <<stop, registered, toldGone>>
bells    == <<bell, room>>
looks    == <<heldBack, polls, settleWait>>
pausing  == <<inPause, back>>
worker   == <<wpc, hand, asked, looks, pausing, flushing>>
producer == <<ppc, item, items>>
pipeline == <<rpc, msg, requests>>
outside  == <<sinkReady, busy, panics>>
others   == <<producer, pipeline, outside>>
history  == <<cause, lostEnds, errors>>
vars == <<playback, channel, control, waiting, endsOwed, flags, ended, bells,
          worker, others, history>>

-----------------------------------------------------------------------------
Items   == {"buffer", "eos", "segment", "flushedSegment"}
Message == {"Pause", "Resume", "Preroll", "Flush", "Seek", "Stop"}
Phases  == {"playing", "paused", "prerolling", "stopped"}
Request == [msg : Message, direct : BOOLEAN, by : {"pipeline", "producer"}]
None    == "none"
NoRequest == [msg |-> None, direct |-> FALSE, by |-> None]

Larger(a, b) == IF a >= b THEN a ELSE b

\* How many Eos are among a sequence of items.
Ends(s) == Cardinality({i \in DOMAIN s : s[i] = "eos"})

Holds == phase \in {"paused", "stopped"}

\* What the request changes about the phase: a Flush and a Seek leave it.
PhaseAfter(m) == CASE m = "Pause"   -> "paused"
                   [] m = "Resume"  -> "playing"
                   [] m = "Preroll" -> "prerolling"
                   [] m = "Stop"    -> "stopped"
                   [] OTHER         -> phase

\* A terminal takes nothing while playback holds, ready or not.
DownstreamReady == ~Holds /\ sinkReady

HasRoom == Len(channel) < Larger(Capacity, 1)

\* The Inbox, and the receiving ends with it, are dropped as the loop returns.
InboxGone == wpc \in {"gone", "ringing", "ended"}

HeldBack == interrupt /\ (stop => settleWait # "expired")

OwesNothing == FALSE  \* mutant: ends on the drop regardless of an end owed

OwesAnEnd == endsOwed > 0 /\ phase # "stopped"

\* Every move of the playback state rings both of the queue's bells.
RingListeners == bell' = TRUE /\ room' = TRUE

-----------------------------------------------------------------------------
(* The worker: worker_loop, from its look at control to its next look.     *)

\* Mutant: a request is acknowledged as it is taken, before it is handled.
TakeRequestAcked(from) ==
    /\ control # <<>>
    /\ asked' = Head(control)
    /\ control' = Tail(control)
    /\ waiting' = waiting \ {Head(control).by}
    /\ back' = from
    /\ wpc' = "applying"
    /\ UNCHANGED <<playback, channel, endsOwed, flags, ended, bells,
                   hand, inPause, flushing, looks, others, history>>

\* A request is taken; `from` is where the loop goes on once it is handled.
TakeRequest(from) ==
    /\ control # <<>>
    /\ asked' = Head(control)
    /\ control' = Tail(control)
    /\ back' = from
    /\ wpc' = "applying"
    /\ UNCHANGED <<playback, channel, waiting, endsOwed, flags, ended, bells,
                   hand, inPause, flushing, looks, others, history>>

\* Every request still waiting is handed on and acknowledged, and the loop ends.
\* The messages go downstream in turn; what becomes of them there is external.
DeliverPending(why) ==
    /\ control' = <<>>
    /\ waiting' = waiting \ {control[i].by : i \in DOMAIN control}
    /\ cause' = why
    /\ wpc' = "ending"

LookAtControl == wpc = "look" /\ TakeRequest("look")

EndDrained ==
    /\ wpc = "look" /\ control = <<>>
    /\ stop /\ channel = <<>>
    /\ DeliverPending("drained")
    /\ UNCHANGED <<playback, channel, endsOwed, flags, ended, bells, hand, asked,
                   pausing, flushing, looks, others, lostEnds, errors>>

\* Nothing is taken while an interrupt is out or downstream is not ready. The
\* poll's timer runs unless only the settle, which rings, can change that.
LookAtDownstream ==
    /\ wpc = "look" /\ control = <<>>
    /\ ~(stop /\ channel = <<>>)
    /\ heldBack' = HeldBack
    /\ settleWait' = IF interrupt /\ stop /\ settleWait = "no"
                     THEN "waiting" ELSE settleWait
    /\ IF HeldBack \/ ~DownstreamReady
       THEN wpc' = "wait" /\ polls' = (HeldBack => stop)
       ELSE wpc' = "select" /\ UNCHANGED polls
    /\ UNCHANGED <<playback, channel, control, waiting, endsOwed, flags, ended,
                   bells, hand, asked, pausing, flushing, others, history>>

\* SETTLE_WAIT_LIMIT is over for a dropped queue whose interrupt nobody settled.
SettleWaitExpires ==
    /\ settleWait = "waiting"
    /\ settleWait' = "expired"
    /\ UNCHANGED <<playback, channel, control, waiting, endsOwed, flags, ended,
                   bells, wpc, hand, asked, pausing, flushing, heldBack, polls,
                   others, history>>

\* The wait for what changes: a request, the bell, or the poll's timer.
WaitRequest == wpc = "wait" /\ TakeRequest("recheck")

WaitOver ==
    /\ wpc = "wait"
    /\ \/ bell /\ bell' = FALSE
       \/ polls /\ UNCHANGED bell
    /\ wpc' = "recheck"
    /\ UNCHANGED <<playback, channel, control, waiting, endsOwed, flags, ended,
                   room, hand, asked, pausing, flushing, looks, others, history>>

\* Dropped with downstream not taking anything: abandoned, unless it owes an end.
Recheck ==
    /\ wpc = "recheck"
    /\ IF ~heldBack /\ stop /\ ~OwesAnEnd
       THEN DeliverPending("abandoned")
       ELSE wpc' = "look" /\ UNCHANGED <<control, waiting, cause>>
    /\ heldBack' = FALSE /\ polls' = FALSE
    /\ UNCHANGED <<playback, channel, endsOwed, flags, ended, bells, hand, asked,
                   pausing, flushing, settleWait, others, lostEnds, errors>>

\* The combined select: a request, an item, or a ring, whichever it picks.
SelectRequest == wpc = "select" /\ TakeRequest("look")

SelectBell ==
    /\ wpc = "select" /\ bell
    /\ bell' = FALSE
    /\ wpc' = "look"
    /\ UNCHANGED <<playback, channel, control, waiting, endsOwed, flags, ended,
                   room, hand, asked, pausing, flushing, looks, others, history>>

\* Mutant: an item is taken without ringing for the room it makes.
SelectItemSilently ==
    /\ wpc = "select" /\ channel # <<>>
    /\ hand' = Head(channel)
    /\ channel' = Tail(channel)
    /\ wpc' = "forwarding"
    /\ UNCHANGED <<playback, control, waiting, endsOwed, flags, ended, bells,
                   asked, pausing, flushing, looks, others, history>>

SelectItem ==
    /\ wpc = "select" /\ channel # <<>>
    /\ hand' = Head(channel)
    /\ channel' = Tail(channel)
    /\ room' = TRUE
    /\ wpc' = "forwarding"
    /\ UNCHANGED <<playback, control, waiting, endsOwed, flags, ended, bell,
                   asked, pausing, flushing, looks, others, history>>

\* forward: while flushing, everything up to the seek's own segment goes no
\* further; an Eos is counted out, discarded, handed on or refused alike.
ForwardItem ==
    /\ wpc = "forwarding"
    /\ flushing' = (flushing /\ hand # "flushedSegment")
    /\ endsOwed' = IF hand = "eos" THEN endsOwed - 1 ELSE endsOwed
    /\ hand' = None
    /\ wpc' = "look"
    /\ UNCHANGED <<playback, channel, control, waiting, flags, ended, bells,
                   asked, pausing, looks, others, history>>

\* Downstream panics on an item or a request: the thread unwinds, and what it
\* had in hand is gone with it, the acknowledgement of a request too.
Panic ==
    /\ \/ wpc = "forwarding" /\ (flushing => hand = "flushedSegment")
       \/ wpc = "acking"
    /\ panics < MaxPanics
    /\ panics' = panics + 1
    /\ waiting' = waiting \ {asked.by}
    /\ lostEnds' = IF hand = "eos" THEN lostEnds + 1 ELSE lostEnds
    /\ hand' = None /\ asked' = NoRequest
    /\ cause' = "panic"
    /\ wpc' = "ending"
    /\ UNCHANGED <<playback, channel, control, endsOwed, flags, ended, bells,
                   pausing, flushing, looks, producer, pipeline, sinkReady,
                   busy, errors>>

DiscardedUncounted(m) == 0  \* mutant: a Flush does not count the Eos it empties

\* How many Eos go with what a request discards.
Discarded(m) == IF m = "Flush" THEN Ends(channel) ELSE 0

\* apply_control, up to what is on this thread having handled the message: a
\* Flush empties the channel and, the pipeline's own, starts flushing.
ApplyRequest ==
    /\ wpc = "applying"
    /\ LET flush == asked.msg = "Flush" IN
         /\ channel' = IF flush THEN <<>> ELSE channel
         /\ endsOwed' = endsOwed - Discarded(asked.msg)
         /\ flushing' = (flushing \/ (flush /\ asked.direct))
    /\ room' = TRUE
    /\ wpc' = "acking"
    /\ UNCHANGED <<playback, control, waiting, flags, ended, bell, hand, asked,
                   pausing, looks, others, history>>

AckedUnlessPause(r) == IF r.msg = "Pause" THEN {} ELSE {r.by}  \* mutant

\* Who an acknowledgement lets go.
Acked(r) == {r.by}

\* The acknowledgement: a Stop ends the worker, a Pause has it wait.
Acknowledge ==
    /\ wpc = "acking"
    /\ waiting' = waiting \ Acked(asked)
    /\ \/ /\ asked.msg = "Stop"
          /\ cause' = IF asked.direct THEN "stop" ELSE "carriedStop"
          /\ wpc' = "ending" /\ UNCHANGED inPause
       \/ /\ asked.msg # "Stop" /\ inPause
          /\ wpc' = "holds" /\ UNCHANGED <<cause, inPause>>
       \/ /\ asked.msg = "Pause" /\ ~inPause
          /\ inPause' = TRUE /\ wpc' = "paused" /\ UNCHANGED cause
       \/ /\ asked.msg \notin {"Stop", "Pause"} /\ ~inPause
          /\ wpc' = back /\ UNCHANGED <<cause, inPause>>
    /\ asked' = NoRequest
    /\ UNCHANGED <<playback, channel, control, endsOwed, flags, ended, bells,
                   hand, back, flushing, looks, others, lostEnds, errors>>

\* The pause loop: control and the bell alone, never the data.
PausedRequest == wpc = "paused" /\ TakeRequest(back)

PausedBell ==
    /\ wpc = "paused" /\ bell
    /\ bell' = FALSE
    /\ IF stop THEN DeliverPending("droppedPaused")
               ELSE UNCHANGED <<wpc, control, waiting, cause>>
    /\ UNCHANGED <<playback, channel, endsOwed, flags, ended, room, hand, asked,
                   pausing, flushing, looks, others, lostEnds, errors>>

\* Mutant: any request but a Pause ends the pause, whatever the state says.
LeavePauseOnAnything ==
    /\ wpc = "holds"
    /\ wpc' = back /\ inPause' = FALSE
    /\ UNCHANGED <<playback, channel, control, waiting, endsOwed, flags, ended,
                   bells, hand, asked, back, flushing, looks, others, history>>

\* Mutant: the pause loop goes on waiting, whatever the state says.
LeavePauseNever ==
    /\ wpc = "holds"
    /\ wpc' = "paused"
    /\ UNCHANGED <<playback, channel, control, waiting, endsOwed, flags, ended,
                   bells, hand, asked, pausing, flushing, looks, others, history>>

\* After a request in the pause loop: whether playback has moved on.
LeavePause ==
    /\ wpc = "holds"
    /\ IF Holds THEN wpc' = "paused" /\ UNCHANGED inPause
                ELSE wpc' = back /\ inPause' = FALSE
    /\ UNCHANGED <<playback, channel, control, waiting, endsOwed, flags, ended,
                   bells, hand, asked, back, flushing, looks, others, history>>

\* The loop has returned or unwound: its receivers go, and with them what is
\* still in them; whoever waits for an acknowledgement finds it gone.
DropInbox ==
    /\ wpc = "ending"
    /\ lostEnds' = lostEnds + Ends(channel)
    /\ channel' = <<>>
    /\ control' = <<>>
    /\ waiting' = waiting \ {control[i].by : i \in DOMAIN control}
    /\ wpc' = "gone"
    /\ UNCHANGED <<playback, endsOwed, flags, ended, bells, hand, asked, pausing,
                   flushing, looks, others, cause, errors>>

\* EndsOnDrop: ended is said first, then the room bell is rung.
WorkerEnds ==
    /\ wpc = "gone"
    /\ ended' = TRUE
    /\ wpc' = "ringing"
    /\ UNCHANGED <<playback, channel, control, waiting, endsOwed, flags, bells,
                   hand, asked, pausing, flushing, looks, others, history>>

RoomRung ==
    /\ wpc = "ringing"
    /\ room' = TRUE
    /\ wpc' = "ended"
    /\ UNCHANGED <<playback, channel, control, waiting, endsOwed, flags, ended,
                   bell, hand, asked, pausing, flushing, looks, others, history>>

Worker ==
    \/ LookAtControl \/ EndDrained \/ LookAtDownstream
    \/ WaitRequest \/ WaitOver \/ Recheck
    \/ SelectRequest \/ SelectBell \/ SelectItem
    \/ ForwardItem \/ ApplyRequest \/ Acknowledge
    \/ PausedRequest \/ PausedBell \/ LeavePause
    \/ DropInbox \/ WorkerEnds \/ RoomRung

-----------------------------------------------------------------------------
(* The producer: the thread that owns the queue and hands items over.      *)

\* Mutant: the state is not asked whether a stop explains the worker's end.
AnswerClosedAnyway ==
    IF toldGone THEN UNCHANGED <<toldGone, errors>>
                ELSE toldGone' = TRUE /\ errors' = errors + 1

\* answer_closed: a stop explains it; otherwise it is an error, once.
AnswerClosed ==
    IF phase = "stopped" \/ toldGone
    THEN UNCHANGED <<toldGone, errors>>
    ELSE toldGone' = TRUE /\ errors' = errors + 1

\* consume under DropNewest: in if there is room, dropped if there is not.
ConsumeOrDrop ==
    /\ DropNewest
    /\ ppc = "idle" /\ items < MaxItems
    /\ items' = items + 1
    /\ \/ /\ HasRoom /\ ~InboxGone
          /\ channel' = Append(channel, "buffer") /\ UNCHANGED <<toldGone, errors>>
       \/ HasRoom /\ InboxGone /\ AnswerClosed /\ UNCHANGED channel
       \/ ~HasRoom /\ UNCHANGED <<channel, toldGone, errors>>
    /\ UNCHANGED <<playback, control, waiting, endsOwed, stop, registered,
                   ended, bells, worker, ppc, item, pipeline, outside, cause,
                   lostEnds>>

\* consume under Block: the buffer is handed over, waited for.
Consume ==
    /\ ~DropNewest
    /\ ppc = "idle" /\ items < MaxItems
    /\ items' = items + 1
    /\ item' = "buffer"
    /\ ppc' = "handOver"
    /\ UNCHANGED <<playback, channel, control, waiting, endsOwed, flags, ended,
                   bells, worker, pipeline, outside, history>>

\* take_end: counted before it can be taken, then waited for, under any policy.
TakeEnd ==
    /\ ppc = "idle" /\ items < MaxItems
    /\ items' = items + 1
    /\ endsOwed' = endsOwed + 1
    /\ item' = "eos"
    /\ ppc' = "handOver"
    /\ UNCHANGED <<playback, channel, control, waiting, flags, ended, bells,
                   worker, pipeline, outside, history>>

\* stream_event, for a segment: in at once, past capacity.
SendSegment ==
    /\ ppc = "idle" /\ items < MaxItems
    /\ items' = items + 1
    /\ \/ /\ ~ended /\ ~InboxGone
          /\ \E segment \in {"segment", "flushedSegment"} :
                channel' = Append(channel, segment)
          /\ UNCHANGED <<toldGone, errors>>
       \/ (ended \/ InboxGone) /\ AnswerClosed /\ UNCHANGED channel
    /\ UNCHANGED <<playback, control, waiting, endsOwed, stop, registered,
                   ended, bells, worker, ppc, item, pipeline, outside, cause,
                   lostEnds>>

\* hand_over's look: gone, room or an interrupt, or a wait for the room bell.
HandOver ==
    /\ ppc = "handOver"
    /\ ppc' = IF ended THEN "closed"
              ELSE IF HasRoom \/ interrupt THEN "send" ELSE "waitRoom"
    /\ UNCHANGED <<playback, channel, control, waiting, endsOwed, flags, ended,
                   bells, worker, item, items, pipeline, outside, history>>

RoomRings ==
    /\ ppc \in {"waitRoom", "waitEmpty"} /\ room
    /\ room' = FALSE
    /\ ppc' = IF ppc = "waitRoom" THEN "handOver" ELSE "emptying"
    /\ UNCHANGED <<playback, channel, control, waiting, endsOwed, flags, ended,
                   bell, worker, item, items, pipeline, outside, history>>

\* Block's limit is over, and its last look finds no room either: a buffer is
\* refused. An end has no limit.
TimedOut ==
    /\ ppc = "waitRoom" /\ Limited /\ item = "buffer"
    /\ ~HasRoom /\ ~interrupt /\ ~ended
    /\ ppc' = "idle" /\ item' = None
    /\ UNCHANGED <<playback, channel, control, waiting, endsOwed, flags, ended,
                   bells, worker, items, pipeline, outside, history>>

\* The send: no backlog at all means waiting until it has been taken.
SendItem ==
    /\ ppc = "send"
    /\ IF InboxGone
       THEN ppc' = "closed" /\ UNCHANGED <<channel, item>>
       ELSE /\ channel' = Append(channel, item)
            /\ item' = None
            /\ ppc' = IF Capacity = 0 THEN "emptying" ELSE "idle"
    /\ UNCHANGED <<playback, control, waiting, endsOwed, flags, ended, bells,
                   worker, items, pipeline, outside, history>>

Emptying ==
    /\ ppc = "emptying"
    /\ ppc' = IF channel = <<>> \/ interrupt \/ ended THEN "idle" ELSE "waitEmpty"
    /\ UNCHANGED <<playback, channel, control, waiting, endsOwed, flags, ended,
                   bells, worker, item, items, pipeline, outside, history>>

\* The worker gone before it could be handed over: an end is counted out again.
Closed ==
    /\ ppc = "closed"
    /\ endsOwed' = IF item = "eos" THEN endsOwed - 1 ELSE endsOwed
    /\ AnswerClosed
    /\ item' = None
    /\ ppc' = "idle"
    /\ UNCHANGED <<playback, channel, control, waiting, stop, registered, ended,
                   bells, worker, items, pipeline, outside, cause, lostEnds>>

\* flow, for what the pipeline did not send every thread itself: a failed
\* source's Stop, a Flush before a source's own new stream. It waits for it to
\* be handled, and returns at once where nothing is left to handle it.
Carry ==
    /\ ppc = "idle" /\ items < MaxItems
    /\ items' = items + 1
    /\ IF InboxGone
       THEN UNCHANGED <<ppc, control, waiting>>
       ELSE /\ \E m \in {"Stop", "Flush"} :
                  control' = Append(control, [msg |-> m, direct |-> FALSE,
                                              by |-> "producer"])
            /\ waiting' = waiting \union {"producer"}
            /\ ppc' = "carrying"
    /\ UNCHANGED <<playback, channel, endsOwed, flags, ended, bells, worker,
                   item, pipeline, outside, history>>

Carried ==
    /\ ppc = "carrying" /\ "producer" \notin waiting
    /\ ppc' = "idle"
    /\ UNCHANGED <<playback, channel, control, waiting, endsOwed, flags, ended,
                   bells, worker, item, items, pipeline, outside, history>>

\* drop: out of the pipeline's reach first, then stop, then the ring; it joins.
Drop ==
    /\ ppc = "idle"
    /\ ppc' = "unregistered"
    /\ registered' = FALSE
    /\ UNCHANGED <<playback, channel, control, waiting, endsOwed, stop,
                   toldGone, ended, bells, worker, item, items, pipeline,
                   outside, history>>

DropStops ==
    /\ ppc = "unregistered"
    /\ stop' = TRUE
    /\ ppc' = "stopping"
    /\ UNCHANGED <<playback, channel, control, waiting, endsOwed, registered,
                   toldGone, ended, bells, worker, item, items, pipeline,
                   outside, history>>

\* Mutant: the worker is not woken by the drop.
DropSilently ==
    /\ ppc = "stopping"
    /\ ppc' = "joining"
    /\ UNCHANGED <<playback, channel, control, waiting, endsOwed, flags, ended,
                   bells, worker, item, items, pipeline, outside, history>>

DropRings ==
    /\ ppc = "stopping"
    /\ bell' = TRUE
    /\ ppc' = "joining"
    /\ UNCHANGED <<playback, channel, control, waiting, endsOwed, flags, ended,
                   room, worker, item, items, pipeline, outside, history>>

Joined ==
    /\ ppc = "joining" /\ ended
    /\ ppc' = "done"
    /\ UNCHANGED <<playback, channel, control, waiting, endsOwed, flags, ended,
                   bells, worker, item, items, pipeline, outside, history>>

Call == ConsumeOrDrop \/ Consume \/ TakeEnd \/ SendSegment \/ Carry \/ Drop
Within == HandOver \/ RoomRings \/ SendItem \/ Emptying \/ Closed \/ Carried
          \/ DropStops \/ DropRings \/ Joined
Producer == Call \/ Within \/ TimedOut

-----------------------------------------------------------------------------
(* The pipeline: one request at a time, as its operation lock has it.      *)

\* The requests an operation sends in the phase it finds.
Asks(m) == \/ m = "Pause" /\ phase \in {"playing", "prerolling"}
           \/ m = "Resume" /\ phase \in {"paused", "prerolling"}
           \/ m \in {"Flush", "Seek", "Preroll"} /\ phase = "paused"
           \/ m = "Stop" /\ phase # "stopped"

\* Written first, then announced.
MoveState ==
    /\ rpc = "idle" /\ requests < MaxRequests
    /\ \E m \in Message :
          /\ Asks(m)
          /\ msg' = m
          /\ phase' = PhaseAfter(m)
    /\ requests' = requests + 1
    /\ RingListeners
    /\ rpc' = "moved"
    /\ UNCHANGED <<interrupt, channel, control, waiting, endsOwed, flags, ended,
                   worker, producer, outside, history>>

\* The registered workers are read under their lock and asked after it.
TakeSenders ==
    /\ rpc = "moved"
    /\ rpc' = IF registered THEN "asking" ELSE "asked"
    /\ UNCHANGED <<playback, channel, control, waiting, endsOwed, flags, ended,
                   bells, worker, producer, msg, requests, outside, history>>

Enqueue ==
    /\ rpc = "asking"
    /\ IF InboxGone
       THEN UNCHANGED <<control, waiting>>
       ELSE /\ control' = Append(control, [msg |-> msg, direct |-> TRUE,
                                           by |-> "pipeline"])
            /\ waiting' = waiting \union {"pipeline"}
    /\ rpc' = "asked"
    /\ UNCHANGED <<playback, channel, endsOwed, flags, ended, bells, worker,
                   producer, msg, requests, outside, history>>

Interrupt ==
    /\ rpc = "asked"
    /\ interrupt' = TRUE
    /\ RingListeners
    /\ rpc' = "acks"
    /\ UNCHANGED <<phase, channel, control, waiting, endsOwed, flags, ended,
                   worker, producer, msg, requests, outside, history>>

\* Every acknowledgement in, the interrupt is settled.
Settle ==
    /\ rpc = "acks" /\ "pipeline" \notin waiting
    /\ interrupt' = FALSE
    /\ RingListeners
    /\ rpc' = "idle" /\ msg' = None
    /\ UNCHANGED <<phase, channel, control, waiting, endsOwed, flags, ended,
                   worker, producer, requests, outside, history>>

Pipeline == MoveState \/ TakeSenders \/ Enqueue \/ Interrupt \/ Settle

-----------------------------------------------------------------------------
(* What is downstream of the worker.                                       *)

TurnsReady ==
    /\ ~sinkReady
    /\ sinkReady' = TRUE
    /\ UNCHANGED <<playback, channel, control, waiting, endsOwed, flags, ended,
                   bells, worker, producer, pipeline, busy, panics, history>>

TurnsBusy ==
    /\ sinkReady /\ busy < MaxBusy
    /\ sinkReady' = FALSE
    /\ busy' = busy + 1
    /\ UNCHANGED <<playback, channel, control, waiting, endsOwed, flags, ended,
                   bells, worker, producer, pipeline, panics, history>>

-----------------------------------------------------------------------------
Init ==
    /\ phase = "playing" /\ interrupt = FALSE
    /\ channel = <<>> /\ control = <<>> /\ waiting = {}
    /\ endsOwed = 0
    /\ stop = FALSE /\ ended = FALSE /\ registered = TRUE /\ toldGone = FALSE
    /\ bell = FALSE /\ room = FALSE
    /\ wpc = "look" /\ hand = None /\ asked = NoRequest /\ heldBack = FALSE /\ polls = FALSE
    /\ inPause = FALSE /\ back = "look"
    /\ flushing = FALSE /\ settleWait = "no"
    /\ ppc = "idle" /\ item = None
    /\ rpc = "idle" /\ msg = None
    /\ sinkReady = TRUE
    /\ cause = None /\ lostEnds = 0 /\ errors = 0
    /\ items = 0 /\ requests = 0 /\ busy = 0 /\ panics = 0

Next == \/ Worker \/ Panic \/ SettleWaitExpires
        \/ Producer \/ Pipeline
        \/ TurnsReady \/ TurnsBusy

Spec == Init /\ [][Next]_vars

\* Each thread is scheduled and every timer runs out; a downstream that is busy
\* becomes ready again. Nobody has to call the queue, to ask anything of it,
\* or to panic, and a call need not reach its limit.
Fairness ==
    /\ WF_vars(Worker)
    /\ WF_vars(Within)
    /\ WF_vars(TakeSenders \/ Enqueue \/ Interrupt \/ Settle)
    /\ WF_vars(SettleWaitExpires)
    /\ WF_vars(TurnsReady)

FairSpec == Spec /\ Fairness

-----------------------------------------------------------------------------
(* Properties *)

FlagsOK ==
    /\ interrupt \in BOOLEAN
    /\ stop \in BOOLEAN /\ ended \in BOOLEAN /\ registered \in BOOLEAN
    /\ toldGone \in BOOLEAN
    /\ bell \in BOOLEAN /\ room \in BOOLEAN
    /\ heldBack \in BOOLEAN /\ polls \in BOOLEAN /\ inPause \in BOOLEAN
    /\ flushing \in BOOLEAN
    /\ sinkReady \in BOOLEAN

PlacesOK ==
    /\ phase \in Phases
    /\ wpc \in {"look", "wait", "recheck", "select", "forwarding", "applying",
                "acking", "paused", "holds", "ending", "gone", "ringing", "ended"}
    /\ settleWait \in {"no", "waiting", "expired"}
    /\ back \in {"look", "recheck"}
    /\ ppc \in {"idle", "handOver", "waitRoom", "send", "emptying", "waitEmpty",
                "closed", "carrying", "unregistered", "stopping", "joining", "done"}
    /\ rpc \in {"idle", "moved", "asking", "asked", "acks"}
    /\ msg \in Message \union {None}
    /\ cause \in {None, "drained", "abandoned", "droppedPaused", "stop",
                  "carriedStop", "panic"}

DataOK ==
    /\ channel \in Seq(Items)
    /\ control \in Seq(Request)
    /\ waiting \subseteq {"pipeline", "producer"}
    /\ endsOwed \in Nat
    /\ hand \in Items \union {None}
    /\ asked \in Request \union {NoRequest}
    /\ item \in {None, "buffer", "eos"}

CountsOK ==
    /\ lostEnds \in Nat /\ errors \in Nat
    /\ items \in Nat /\ requests \in Nat /\ busy \in Nat /\ panics \in Nat

TypeOK == FlagsOK /\ PlacesOK /\ DataOK /\ CountsOK

One(b) == IF b THEN 1 ELSE 0

\* ends_owed counts exactly the Eos on their way: in the channel, in the
\* worker's hand, being handed over, or gone with a worker that ended. One too
\* many and a dropped queue waits for good for an end nobody will hand on; one
\* too few and it abandons an end it owes.
EndsOwedExact ==
    endsOwed = Ends(channel) + One(hand = "eos") + One(item = "eos") + lostEnds

\* A queue dropped while its pipeline runs abandons no end of stream: the
\* worker leaves on the drop only once every Eos has gone on (a stop, a panic
\* and a pause that found it still registered are told apart by cause).
OwedEndIsDelivered ==
    cause \in {"drained", "abandoned"} /\ phase # "stopped"
        => Ends(channel) + lostEnds = 0

\* The producer is told its worker is gone at most once, and only where
\* nothing else explains it: never because the pipeline was stopped.
ToldGoneOnce ==
    errors <= 1 /\ (errors = 1 => cause \in {"panic", "carriedStop"})

\* Between two requests of a paused pipeline, a worker the pipeline reaches is
\* in its pause loop, or over: it neither looks at nor holds an item, whatever
\* the resumes and pauses before it overlapped with.
PausedIsStill ==
    rpc = "idle" /\ phase = "paused" /\ registered
        => wpc \notin {"look", "wait", "recheck", "select", "forwarding"}

\* A request to a queue is over in the end, whether its worker is paused,
\* busy, panicking, or ending because the queue is dropped at that moment.
RequestReturns == rpc # "idle" ~> rpc = "idle"

\* Every call on a queue returns. A thread handing over is let go: by room, by
\* an interrupt, by the worker's end; one carrying a request across by its being
\* handled or the worker's end; and one dropping the queue joins a worker that
\* ends, wherever it waited. None leans on Block's time limit. Only a paused
\* pipeline keeps a caller waiting, a drop for an end owed downstream included.
ProducerReturns ==
    ppc \notin {"idle", "done"} ~> ppc \in {"idle", "done"} \/ phase = "paused"

\* A paused worker goes on once playback has.
PauseIsLeft ==
    inPause /\ phase = "playing" ~> ~inPause \/ phase # "playing" \/ ended

\* The Flushes nobody has been acknowledged for yet.
FlushesOut ==
    {c \in waiting :
        \/ asked.by = c /\ asked.msg = "Flush"
        \/ \E i \in DOMAIN control : control[i].by = c /\ control[i].msg = "Flush"}

\* What is in the worker's hand is still the queue's, ahead of its channel.
Contract == INSTANCE QueueSpec WITH
    Callers <- {"pipeline", "producer"},
    between <- (IF hand = None THEN <<>> ELSE <<hand>>) \o channel,
    closed  <- InboxGone,
    held    <- rpc = "idle" /\ Holds /\ registered,
    flushes <- FlushesOut

\* The queue is an implementation of QueueSpec: in order and one at a time,
\* nothing once a pause or a stop has returned, and no Flush that discards what
\* was handed over after it had been acknowledged.
KeepsContract == Contract!Spec

=============================================================================
