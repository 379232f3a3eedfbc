------------------------------ MODULE Pipeline ------------------------------
(***************************************************************************)
(* A running pipeline: the calls of the application (lib/src/core/pipeline *)
(* /lifecycle.rs, seek.rs), the thread of each source (control.rs,         *)
(* produce.rs), the worker of each queue behind it (queue.rs), and the     *)
(* terminal each line ends in (chain.rs, TerminalTracer).                  *)
(*                                                                         *)
(* A line is one source with one output, then Depth queues, then a         *)
(* terminal: thread <<l, 0>> is the source's, <<l, i>> the worker behind   *)
(* queue i, and the terminal is on thread <<l, Depth>>.  The queues are    *)
(* those of module Queue, coarser: their bells and timers are the          *)
(* conditions they wake a thread for, and a request is taken, applied and  *)
(* acknowledged in one step.  The medium of a source is samples 1..Length, *)
(* and a position in it is how many of them lie before.                    *)
(***************************************************************************)
EXTENDS Integers, Sequences, FiniteSets

CONSTANTS
    Lines,        \* the sources of the pipeline
    Depth,        \* queues in each line
    Capacity,     \* of each queue, OverflowPolicy::Block
    Length,       \* samples in the medium of each source
    Targets,      \* positions a seek asks for
    Seekable,     \* TRUE: every source is a SeekableSource
    LateBranch,   \* TRUE: the last queue of a line is in a branch attached to
                  \* a Tee once the rest was built
    Callers,      \* threads of the application
    Ops,          \* the calls they make
    MaxOps,       \* bound: calls made
    MaxFailures,  \* bound: sources that fail to produce
    Timeouts      \* TRUE: a preroll may be waited for no longer

ASSUME LinesAssumption == IsFiniteSet(Lines)
ASSUME SizesAssumption == /\ Depth \in Nat \ {0} /\ Capacity \in Nat \ {0}
                          /\ Length \in Nat /\ Targets \subseteq 0..Length
ASSUME FlagsAssumption == Seekable \in BOOLEAN /\ LateBranch \in BOOLEAN
                          /\ Timeouts \in BOOLEAN
ASSUME OpsAssumption == Ops \subseteq {"pause", "resume", "seek", "stop", "finish"}
ASSUME BoundsAssumption == MaxOps \in Nat /\ MaxFailures \in Nat

VARIABLES
    phase, interrupt,      \* the playback state's phase, interrupt_pending
    starts,                \* where each timeline begins; the last is current
    preroll,               \* the context in force, or NoPreroll
    abandoned, active,     \* PrerollSlot
    running, paused,       \* Pipeline::running, ::paused
    holder,                \* who holds Pipeline::operation
    todo, step, sending,   \* the holder's stages, its place in the first, and
                           \* the channels it has yet to send to
    waiting,               \* the threads whose acknowledgement is still out
    cpc, call, calls,      \* each caller's place and call; the calls made
    tpc, back, hand,       \* each thread's place, where it returns to, its item
    control, owing,        \* its requests; the workers asked from upstream
    channel, flushing,     \* each queue's items, Inbox::flushing
    registered, dropped,   \* Queue::direct, ::stop
    source,                \* position, segment begun and seek seen, by line
    pad,                   \* SrcPad::flushing, ::ended, by line
    terminal,              \* what the terminal of each line has been handed
    failed                 \* history: the lines whose source failed

playback == <<phase, interrupt, starts, preroll>>
slot     == <<abandoned, active>>
lock     == <<holder, todo, step, sending>>
callers  == <<cpc, call, calls>>
threads  == <<tpc, back, hand>>
requests == <<control, owing, waiting>>
queues   == <<channel, flushing, registered, dropped>>
ends     == <<source, pad, terminal, failed>>
vars == <<playback, slot, running, paused, lock, callers, threads, requests,
          queues, ends>>

-----------------------------------------------------------------------------
Source(l)  == <<l, 0>>
Sources    == Lines \X {0}
Workers    == Lines \X (1..Depth)
Threads    == Sources \cup Workers
After(t)   == <<t[1], t[2] + 1>>
Before(t)  == <<t[1], t[2] - 1>>
IsLast(t)  == t[2] = Depth

None      == "none"
ASSUME CallersAssumption == None \notin Callers

NoPreroll == [on |-> FALSE, ready |-> {}, cancelled |-> FALSE]

timeline == Len(starts)
Holds    == phase \in {"paused", "stopped"}

Buffer(seg, at)       == [kind |-> "buffer", seg |-> seg, at |-> at]
Segment(seg, flushed) == [kind |-> IF flushed THEN "flushedSegment" ELSE "segment",
                          seg |-> seg, at |-> 0]
Eos(seg)              == [kind |-> "eos", seg |-> seg, at |-> 0]
NoItem                == [kind |-> None, seg |-> 0, at |-> 0]

Direct(m)  == [msg |-> m, direct |-> TRUE]
Carried(m) == [msg |-> m, direct |-> FALSE]

HasRoom(q) == Len(channel[q]) < Capacity
Gone(w)    == tpc[w] = "done"

\* A source drops its receiver before its line, a worker after what it feeds.
Receives(t) == IF t \in Sources THEN tpc[t] \notin {"dropping", "joining", "done"}
               ELSE ~Gone(t)

\* Mutant: an interrupt lets nothing past a full queue.
MayPushRoom(q, item) == item.kind \in {"segment", "flushedSegment"} \/ HasRoom(q) \/ Gone(q)

\* hand_over stops waiting: a segment never waits, and an interrupt lets
\* anything past a full queue.
MayPush(q, item) == \/ item.kind \in {"segment", "flushedSegment"}
                    \/ HasRoom(q) \/ interrupt \/ Gone(q)

\* Mutant: what an interrupt lets go of a full queue is lost.
PushedIfRoom(q, item) == IF Gone(q) \/ ~HasRoom(q) THEN channel
                         ELSE [channel EXCEPT ![q] = Append(@, item)]

\* The worker gone, what is handed over is dropped (Queue::answer_closed).
Pushed(q, item) == IF Gone(q) THEN channel
                   ELSE [channel EXCEPT ![q] = Append(@, item)]

\* Mutant: a drop abandons what is queued, an end of stream or not.
OwesNothing(w) == FALSE

OwesAnEnd(w) == /\ \E i \in DOMAIN channel[w] : channel[w][i].kind = "eos"
                /\ phase # "stopped"

-----------------------------------------------------------------------------
(* The terminal: TerminalTracer around a sink that takes what it is handed. *)

\* Mutant: a terminal takes whatever comes before the preroll is over.
ReadyThroughout(l) == ~Holds

\* Its sample taken, a terminal takes no more until the preroll is over.
TerminalReady(l) ==
    /\ ~Holds
    /\ preroll.on => l \notin preroll.ready \/ preroll.cancelled

MarkReady(l) == IF preroll.on THEN [preroll EXCEPT !.ready = @ \cup {l}] ELSE preroll

Handed(l, item) ==
    CASE item.kind = "buffer" ->
             /\ terminal' = [terminal EXCEPT ![l].at = item.at, ![l].from = item.seg]
             /\ preroll' = MarkReady(l)
      [] item.kind = "eos" ->
             /\ terminal' = [terminal EXCEPT ![l].ended = TRUE]
             /\ preroll' = MarkReady(l)
      [] OTHER ->
             /\ terminal' = [terminal EXCEPT ![l].seg = item.seg, ![l].from = item.seg,
                                             ![l].at = starts[item.seg],
                                             ![l].ended = FALSE]
             /\ UNCHANGED preroll

Heard(w, msgs) == IF IsLast(w) /\ "Stop" \in msgs
                  THEN [terminal EXCEPT ![w[1]].heard = TRUE] ELSE terminal

-----------------------------------------------------------------------------
(* The calls: each is made under the operation lock, as the stages it goes  *)
(* through one by one.                                                      *)

\* stop and finish give up a preroll's wait before they ask for the lock.
Calls(c) ==
    /\ cpc[c] = "idle" /\ calls < MaxOps
    /\ \E op \in Ops : \E to \in IF op = "seek" THEN Targets ELSE {0} :
         /\ call' = [call EXCEPT ![c] = [op |-> op, to |-> to]]
         /\ IF op \in {"stop", "finish"}
            THEN /\ abandoned' = TRUE /\ active' = FALSE
                 /\ preroll' = [preroll EXCEPT !.cancelled = @ \/ active]
            ELSE UNCHANGED <<slot, preroll>>
    /\ calls' = calls + 1
    /\ cpc' = [cpc EXCEPT ![c] = "locking"]
    /\ UNCHANGED <<phase, interrupt, starts, running, paused, lock, threads,
                   requests, queues, ends>>

\* A seek's four stages, Pause and Resume around them where it was playing.
SeekStages ==
    (IF paused THEN <<>> ELSE <<"Pause">>)
    \o <<"Flush", "Seek", "Preroll", "await", "retire", "Pause">>
    \o (IF paused THEN <<>> ELSE <<"Resume">>)

FinishStages == (IF paused THEN <<"Resume">> ELSE <<>>) \o <<"Finish">>

Stages(op) == CASE op = "pause"  -> <<"Pause">>
                [] op = "resume" -> <<"Resume">>
                [] op = "seek"   -> SeekStages
                [] op = "stop"   -> <<"Stop">>
                [] op = "finish" -> FinishStages

PausedBy(op) == CASE op = "pause" -> TRUE
                  [] op = "seek"  -> paused
                  [] OTHER        -> FALSE

\* Nothing to ask: no source runs, or one cannot be sought (check_seek).
Refused(op) == running = 0 \/ (op = "seek" /\ ~Seekable)

Refuses(c) ==
    /\ cpc[c] = "locking" /\ holder = None /\ Refused(call[c].op)
    /\ cpc' = [cpc EXCEPT ![c] = IF call[c].op \in {"stop", "finish"}
                                 THEN "joining" ELSE "idle"]
    /\ holder' = IF call[c].op = "finish" THEN c ELSE None
    /\ UNCHANGED <<playback, slot, running, paused, todo, step, sending, call,
                   calls, threads, requests, queues, ends>>

Begins(c) ==
    /\ cpc[c] = "locking" /\ holder = None /\ ~Refused(call[c].op)
    /\ holder' = c
    /\ todo' = Stages(call[c].op)
    /\ paused' = PausedBy(call[c].op)
    /\ step' = "say"
    /\ cpc' = [cpc EXCEPT ![c] = "asking"]
    /\ UNCHANGED <<playback, slot, running, sending, call, calls, threads,
                   requests, queues, ends>>

\* What the stage changes before anything is sent: the phase a Pause, Resume
\* or Stop moves to; a reposition's interrupt and its new timeline; the
\* context a preroll publishes and enters.
Says ==
    /\ holder # None /\ step = "say" /\ todo # <<>>
    /\ Head(todo) \notin {"await", "retire"}
    /\ CASE Head(todo) = "Pause" ->
              phase' = "paused" /\ UNCHANGED <<interrupt, starts, preroll, slot>>
         [] Head(todo) = "Resume" ->
              /\ phase' = "playing" /\ preroll' = NoPreroll
              /\ UNCHANGED <<interrupt, starts, slot>>
         [] Head(todo) = "Stop" ->
              /\ phase' = "stopped" /\ preroll' = NoPreroll
              /\ UNCHANGED <<interrupt, starts, slot>>
         [] Head(todo) = "Flush" ->
              /\ interrupt' = TRUE /\ starts' = Append(starts, call[holder].to)
              /\ UNCHANGED <<phase, preroll, slot>>
         [] Head(todo) = "Preroll" ->
              /\ active' = ~abandoned
              /\ preroll' = [on |-> TRUE, ready |-> {}, cancelled |-> abandoned]
              /\ phase' = "prerolling"
              /\ UNCHANGED <<interrupt, starts, abandoned>>
         [] OTHER -> UNCHANGED <<playback, slot>>
    /\ step' = "snapshot"
    /\ UNCHANGED <<running, paused, holder, todo, sending, callers, threads,
                   requests, queues, ends>>

\* Mutant: of a chain the first queue first.
FirstQueueFirst(t) == IF t[2] = 0 THEN Depth + 1 ELSE t[2]

\* The order channels are sent to: the workers' as their queues were built, of
\* a chain the last queue first and a branch attached since after all of it;
\* then the sources'.
Rank(t) == CASE t[2] = 0                  -> Depth + 1
             [] t[2] # 0 /\ LateBranch /\ IsLast(t) -> Depth
             [] OTHER                     -> Depth - t[2]

IsNextToAsk(t) == /\ t \in sending
                  /\ \A u \in sending : u[1] = t[1] \/ t \in Sources => Rank(t) <= Rank(u)

\* Mutant: a Pause is the sources' alone, theirs to cascade.
AskedOfSources(msg) ==
    Sources \cup (IF msg \in {"Finish", "Pause"} THEN {} ELSE {w \in Workers : registered[w]})

\* Finish is asked of the sources alone; its Eos reaches the queues as data.
AskedOf(msg) ==
    Sources \cup (IF msg = "Finish" THEN {} ELSE {w \in Workers : registered[w]})

Snapshots ==
    /\ step = "snapshot"
    /\ sending' = AskedOf(Head(todo))
    /\ step' = "send"
    /\ UNCHANGED <<playback, slot, running, paused, holder, todo, callers,
                   threads, requests, queues, ends>>

\* A thread whose receiver is gone is asked nothing (enqueue answers None).
Sends ==
    /\ step = "send"
    /\ \E t \in sending :
         /\ IsNextToAsk(t)
         /\ sending' = sending \ {t}
         /\ IF Receives(t)
            THEN /\ control' = [control EXCEPT ![t] = Append(@, Direct(Head(todo)))]
                 /\ waiting' = waiting \cup {t}
            ELSE UNCHANGED <<control, waiting>>
    /\ UNCHANGED <<playback, slot, running, paused, holder, todo, step, callers,
                   threads, owing, queues, ends>>

Interrupts ==
    /\ step = "send" /\ sending = {}
    /\ interrupt' = TRUE
    /\ step' = "acks"
    /\ UNCHANGED <<phase, starts, preroll, slot, running, paused, holder, todo,
                   sending, callers, threads, requests, queues, ends>>

AllAcked == waiting = {}

Settles ==
    /\ step = "acks" /\ AllAcked
    /\ interrupt' = FALSE
    /\ todo' = Tail(todo)
    /\ step' = "say"
    /\ UNCHANGED <<phase, starts, preroll, slot, running, paused, holder, sending,
                   callers, threads, requests, queues, ends>>

PrerollOver == preroll.cancelled \/ Lines \subseteq preroll.ready \/ Timeouts

\* await_preroll, then retire_preroll: two looks at the slot.
Awaits ==
    /\ step = "say" /\ todo # <<>>
    /\ \/ Head(todo) = "await" /\ PrerollOver /\ UNCHANGED active
       \/ Head(todo) = "retire" /\ active' = FALSE
    /\ todo' = Tail(todo)
    /\ UNCHANGED <<playback, abandoned, running, paused, holder, step, sending,
                   callers, threads, requests, queues, ends>>

\* The last stage over: stop joins the sources' threads without the lock,
\* finish with it.
Completes ==
    /\ holder # None /\ step = "say" /\ todo = <<>> /\ cpc[holder] = "asking"
    /\ cpc' = [cpc EXCEPT ![holder] = IF call[holder].op \in {"stop", "finish"}
                                      THEN "joining" ELSE "idle"]
    /\ holder' = IF call[holder].op = "finish" THEN holder ELSE None
    /\ UNCHANGED <<playback, slot, running, paused, todo, step, sending, call,
                   calls, threads, requests, queues, ends>>

Joins(c) ==
    /\ cpc[c] = "joining"
    /\ \A s \in Sources : tpc[s] = "done"
    /\ cpc' = [cpc EXCEPT ![c] = "idle"]
    /\ holder' = IF holder = c THEN None ELSE holder
    /\ UNCHANGED <<playback, slot, running, paused, todo, step, sending, call,
                   calls, threads, requests, queues, ends>>

Asks == Says \/ Snapshots \/ Sends \/ Interrupts \/ Settles \/ Awaits \/ Completes
Caller(c) == Refuses(c) \/ Begins(c) \/ Joins(c)

-----------------------------------------------------------------------------
(* A source's thread: SourceStage::ask and what it calls, and the end of    *)
(* the thread Pipeline::run spawned for it.                                 *)

GoTo(t, place) == tpc' = [tpc EXCEPT ![t] = place]

\* The stream begins with a segment, before the source looks at its control.
SourceBegins(l) ==
    LET s == Source(l) IN
    /\ tpc[s] = "begin"
    /\ channel' = Pushed(After(s), Segment(timeline, FALSE))
    /\ source' = [source EXCEPT ![l].seg = timeline]
    /\ GoTo(s, "ask")
    /\ UNCHANGED <<playback, slot, running, paused, lock, callers, back, hand,
                   requests, flushing, registered, dropped, pad, terminal, failed>>

HasMore(l) == source[l].pos < Length

\* Nothing asked: the next sample, or the end of the medium.
SourceProduces(l) ==
    LET s == Source(l)
        at == source[l].pos + 1 IN
    /\ tpc[s] = "ask" /\ control[s] = <<>>
    /\ IF HasMore(l)
       THEN /\ hand' = [hand EXCEPT ![s] = Buffer(source[l].seg, at)]
            /\ source' = [source EXCEPT ![l].pos = at]
            /\ GoTo(s, "push")
       ELSE /\ source' = [source EXCEPT ![l].sought = FALSE]
            /\ GoTo(s, "ending")
            /\ UNCHANGED hand
    /\ UNCHANGED <<playback, slot, running, paused, lock, callers, back, requests,
                   queues, pad, terminal, failed>>

SourceHandsOn(l) ==
    LET s == Source(l) IN
    /\ tpc[s] = "push"
    /\ pad[l].flushing \/ MayPush(After(s), hand[s])
    /\ channel' = IF pad[l].flushing THEN channel ELSE Pushed(After(s), hand[s])
    /\ pad' = [pad EXCEPT ![l].ended = @ /\ pad[l].flushing]
    /\ hand' = [hand EXCEPT ![s] = NoItem]
    /\ GoTo(s, "ask")
    /\ UNCHANGED <<playback, slot, running, paused, lock, callers, back, requests,
                   flushing, registered, dropped, source, terminal, failed>>

\* push_event: a stream ends once, and nothing passes a flushing pad.
PadPasses(l) == ~pad[l].flushing /\ ~pad[l].ended

EndPushed(l) == IF PadPasses(l)
                THEN Pushed(After(Source(l)), Eos(source[l].seg)) ELSE channel

\* end_every_output: the output has its end once it can take it; a source that
\* can be sought stays.
SourceEnds(l) ==
    LET s == Source(l) IN
    /\ tpc[s] = "ending" /\ HasRoom(After(s))
    /\ channel' = EndPushed(l)
    /\ pad' = [pad EXCEPT ![l].ended = @ \/ PadPasses(l)]
    /\ source' = [source EXCEPT ![l].sought = FALSE]
    /\ GoTo(s, IF Seekable THEN "linger" ELSE "returning")
    /\ UNCHANGED <<playback, slot, running, paused, lock, callers, back, hand,
                   requests, flushing, registered, dropped, terminal, failed>>

\* Where a source goes on: a seek moves it back into what it reads.
GoesOn(l, place) == IF place \in {"ending", "linger"} /\ source'[l].sought
                    THEN "ask" ELSE place

\* The next place, `msg` handled: Stop ends it, a Pause is waited out until
\* playback no longer holds, whatever message comes to say so.
SourceNext(l, msg) ==
    LET s == Source(l) IN
    CASE msg = "Stop" -> GoTo(s, "returning") /\ UNCHANGED back
      [] msg # "Stop" /\ tpc[s] = "paused" ->
            GoTo(s, IF Holds THEN "paused" ELSE GoesOn(l, back[s])) /\ UNCHANGED back
      [] msg = "Pause" /\ tpc[s] # "paused" ->
            GoTo(s, "paused") /\ back' = [back EXCEPT ![s] = tpc[s]]
      [] OTHER -> GoTo(s, GoesOn(l, tpc[s])) /\ UNCHANGED back

\* handle_request and wait_out_pause: the request changes the source, goes down
\* its pad, and is acknowledged.  Behind a Seek a segment begins the stream again.
SourceTakes(l) ==
    LET s == Source(l)
        msg == Head(control[s]).msg IN
    /\ tpc[s] \in {"ask", "ending", "linger", "paused"}
    /\ control[s] # <<>> /\ msg # "Finish"
    /\ control' = [control EXCEPT ![s] = Tail(@)]
    /\ waiting' = waiting \ {s}
    /\ IF msg = "Seek"
       THEN /\ source' = [source EXCEPT ![l] =
                              [pos |-> starts[timeline], seg |-> timeline, sought |-> TRUE]]
            /\ pad' = [pad EXCEPT ![l] = [flushing |-> FALSE, ended |-> FALSE]]
            /\ channel' = Pushed(After(s), Segment(timeline, TRUE))
       ELSE /\ pad' = [pad EXCEPT ![l].flushing = @ \/ msg = "Flush"]
            /\ UNCHANGED <<source, channel>>
    /\ SourceNext(l, msg)
    /\ UNCHANGED <<playback, slot, running, paused, lock, callers, hand, owing,
                   flushing, registered, dropped, terminal, failed>>

\* A Finish: the end of what was made, waited for.  A source lingering has
\* handed its end on already.
SourceFinishes(l) ==
    LET s == Source(l) IN
    /\ tpc[s] \in {"ask", "ending", "linger", "paused"}
    /\ control[s] # <<>> /\ Head(control[s]).msg = "Finish"
    /\ control' = [control EXCEPT ![s] = Tail(@)]
    /\ IF tpc[s] = "linger"
       THEN waiting' = waiting \ {s} /\ GoTo(s, "returning")
       ELSE UNCHANGED waiting /\ GoTo(s, "finishing")
    /\ UNCHANGED <<playback, slot, running, paused, lock, callers, back, hand,
                   owing, queues, ends>>

SourceFinished(l) ==
    LET s == Source(l) IN
    /\ tpc[s] = "finishing"
    /\ PadPasses(l) => MayPush(After(s), Eos(source[l].seg))
    /\ channel' = EndPushed(l)
    /\ pad' = [pad EXCEPT ![l].ended = @ \/ PadPasses(l)]
    /\ waiting' = waiting \ {s}
    /\ GoTo(s, "returning")
    /\ UNCHANGED <<playback, slot, running, paused, lock, callers, back, hand,
                   control, owing, flushing, registered, dropped, source, terminal,
                   failed>>

\* A source that fails says Stop to its line, which the queue carries on to
\* its worker and waits for; its worker gone, there is nothing to wait for.
SourceFails(l) ==
    LET s == Source(l) IN
    /\ tpc[s] = "ask" /\ control[s] = <<>>
    /\ Cardinality(failed) < MaxFailures
    /\ failed' = failed \cup {l}
    /\ IF Gone(After(s))
       THEN UNCHANGED <<control, owing>>
       ELSE /\ control' = [control EXCEPT ![After(s)] = Append(@, Carried("Stop"))]
            /\ owing' = owing \cup {After(s)}
    /\ GoTo(s, "carrying")
    /\ UNCHANGED <<playback, slot, running, paused, lock, callers, back, hand,
                   waiting, queues, source, pad, terminal>>

SourceCarried(l) ==
    LET s == Source(l) IN
    /\ tpc[s] = "carrying" /\ After(s) \notin owing
    /\ GoTo(s, "returning")
    /\ UNCHANGED <<playback, slot, running, paused, lock, callers, back, hand,
                   requests, queues, ends>>

\* The locals of the thread are dropped in turn: the count of running sources,
\* the receiver with every request still in it, then the line behind the pad.
SourceReturns(l) ==
    LET s == Source(l) IN
    /\ tpc[s] = "returning"
    /\ running' = running - 1
    /\ GoTo(s, "returned")
    /\ UNCHANGED <<playback, slot, paused, lock, callers, back, hand, requests,
                   queues, ends>>

DropsReceiver(l) ==
    LET s == Source(l) IN
    /\ tpc[s] = "returned"
    /\ control' = [control EXCEPT ![s] = <<>>]
    /\ waiting' = waiting \ {s}
    /\ GoTo(s, "dropping")
    /\ UNCHANGED <<playback, slot, running, paused, lock, callers, back, hand,
                   owing, queues, ends>>

\* Queue::drop: out of the pipeline's reach, the worker told, and joined.
DropsQueue(t) ==
    /\ registered' = [registered EXCEPT ![After(t)] = FALSE]
    /\ dropped' = [dropped EXCEPT ![After(t)] = TRUE]
    /\ GoTo(t, "joining")

SourceDrops(l) ==
    /\ tpc[Source(l)] = "dropping"
    /\ DropsQueue(Source(l))
    /\ UNCHANGED <<playback, slot, running, paused, lock, callers, back, hand,
                   requests, channel, flushing, ends>>

SourceJoins(l) ==
    /\ tpc[Source(l)] = "joining" /\ Gone(After(Source(l)))
    /\ GoTo(Source(l), "done")
    /\ UNCHANGED <<playback, slot, running, paused, lock, callers, back, hand,
                   requests, queues, ends>>

SourceThread(l) ==
    \/ SourceBegins(l) \/ SourceProduces(l) \/ SourceHandsOn(l) \/ SourceEnds(l)
    \/ SourceTakes(l) \/ SourceFinishes(l) \/ SourceFinished(l) \/ SourceCarried(l)
    \/ SourceReturns(l) \/ DropsReceiver(l) \/ SourceDrops(l) \/ SourceJoins(l)

-----------------------------------------------------------------------------
(* A queue's worker: worker_loop, coarser than in module Queue.             *)

Ready(w) == IF IsLast(w) THEN TerminalReady(w[1]) ELSE HasRoom(After(w))

\* Held back while an interrupt is out; a dropped queue waits that long at most.
Gate(w) == (interrupt => dropped[w]) /\ Ready(w)

\* Nothing asked and downstream ready: the worker waits for an item.
WorkerLooks(w) ==
    /\ tpc[w] = "look" /\ control[w] = <<>>
    /\ ~(dropped[w] /\ channel[w] = <<>>)
    /\ Gate(w)
    /\ GoTo(w, "select")
    /\ UNCHANGED <<playback, slot, running, paused, lock, callers, back, hand,
                   requests, queues, ends>>

\* The bell: rung by what closes the gate, and by the queue's drop.
WorkerLooksAgain(w) ==
    /\ tpc[w] = "select"
    /\ ~Gate(w) \/ (dropped[w] /\ channel[w] = <<>>)
    /\ GoTo(w, "look")
    /\ UNCHANGED <<playback, slot, running, paused, lock, callers, back, hand,
                   requests, queues, ends>>

\* Flushing, everything but the seek's own segment is dropped.
Stale(w, item) == flushing[w] /\ item.kind # "flushedSegment"

\* An item is taken, whatever has become of the gate since, and handed on: to
\* the terminal at once, to the next queue by a push that may wait.
WorkerForwards(w) ==
    LET item == Head(channel[w]) IN
    /\ tpc[w] = "select" /\ channel[w] # <<>>
    /\ channel' = [channel EXCEPT ![w] = Tail(@)]
    /\ flushing' = [flushing EXCEPT ![w] = Stale(w, item)]
    /\ IF ~Stale(w, item) /\ IsLast(w)
       THEN Handed(w[1], item) ELSE UNCHANGED <<terminal, preroll>>
    /\ IF ~Stale(w, item) /\ ~IsLast(w)
       THEN hand' = [hand EXCEPT ![w] = item] /\ GoTo(w, "push")
       ELSE UNCHANGED hand /\ GoTo(w, "look")
    /\ UNCHANGED <<phase, interrupt, starts, slot, running, paused, lock, callers,
                   back, requests, registered, dropped, source, pad, failed>>

WorkerHandsOn(w) ==
    /\ tpc[w] = "push" /\ MayPush(After(w), hand[w])
    /\ channel' = Pushed(After(w), hand[w])
    /\ hand' = [hand EXCEPT ![w] = NoItem]
    /\ GoTo(w, "look")
    /\ UNCHANGED <<playback, slot, running, paused, lock, callers, back, requests,
                   flushing, registered, dropped, ends>>

\* The next place, `msg` handled: a Stop ends the loop, a Pause is waited out.
WorkerNext(w, msg) ==
    GoTo(w, CASE msg = "Stop" -> "ending"
              [] msg # "Stop" /\ tpc[w] = "paused" -> IF Holds THEN "paused" ELSE "look"
              [] msg = "Pause" /\ tpc[w] # "paused" -> "paused"
              [] OTHER -> "look")

GoesFurther(w, asked) == ~asked.direct /\ ~IsLast(w) /\ ~Gone(After(w))

\* A request is applied and acknowledged: what was asked of all threads stops
\* at the next queue.
WorkerTakes(w) ==
    LET asked == Head(control[w]) IN
    /\ tpc[w] \in {"look", "select", "paused"} /\ control[w] # <<>>
    /\ ~GoesFurther(w, asked)
    /\ control' = [control EXCEPT ![w] = Tail(@)]
    /\ waiting' = IF asked.direct THEN waiting \ {w} ELSE waiting
    /\ owing' = IF asked.direct THEN owing ELSE owing \ {w}
    /\ channel' = IF asked.msg = "Flush" THEN [channel EXCEPT ![w] = <<>>] ELSE channel
    /\ flushing' = [flushing EXCEPT ![w] = @ \/ asked.msg = "Flush"]
    /\ terminal' = Heard(w, {asked.msg})
    /\ WorkerNext(w, asked.msg)
    /\ UNCHANGED <<playback, slot, running, paused, lock, callers, back, hand,
                   registered, dropped, source, pad, failed>>

\* A Stop carried from upstream goes on to the next worker, which is waited for.
WorkerCarries(w) ==
    /\ tpc[w] \in {"look", "select", "paused"} /\ control[w] # <<>>
    /\ GoesFurther(w, Head(control[w]))
    /\ control' = [control EXCEPT ![w] = Tail(@),
                                  ![After(w)] = Append(@, Head(control[w]))]
    /\ owing' = owing \cup {After(w)}
    /\ GoTo(w, "carrying")
    /\ UNCHANGED <<playback, slot, running, paused, lock, callers, back, hand,
                   waiting, queues, ends>>

WorkerCarried(w) ==
    /\ tpc[w] = "carrying" /\ After(w) \notin owing
    /\ owing' = owing \ {w}
    /\ GoTo(w, "ending")
    /\ UNCHANGED <<playback, slot, running, paused, lock, callers, back, hand,
                   control, waiting, queues, ends>>

\* Its queue dropped, a worker hands on the requests still waiting and ends:
\* drained, paused, or before a downstream that takes nothing - unless what is
\* queued holds an Eos.
GivesUp(w) == \/ tpc[w] = "look" /\ channel[w] = <<>>
              \/ tpc[w] = "look" /\ ~Ready(w) /\ ~OwesAnEnd(w)
              \/ tpc[w] = "paused"

DeliverPending(w) ==
    /\ dropped[w] /\ GivesUp(w)
    /\ terminal' = Heard(w, {control[w][i].msg : i \in DOMAIN control[w]})
    /\ control' = [control EXCEPT ![w] = <<>>]
    /\ waiting' = waiting \ {w}
    /\ owing' = owing \ {w}
    /\ GoTo(w, "ending")
    /\ UNCHANGED <<playback, slot, running, paused, lock, callers, back, hand,
                   queues, source, pad, failed>>

\* The loop's arguments are dropped: what it feeds first, so that the next
\* worker is joined, then its own channels with everything in them.
WorkerDrops(w) ==
    /\ tpc[w] = "ending" /\ ~IsLast(w)
    /\ DropsQueue(w)
    /\ UNCHANGED <<playback, slot, running, paused, lock, callers, back, hand,
                   requests, channel, flushing, ends>>

WorkerDone(w) ==
    /\ \/ tpc[w] = "ending" /\ IsLast(w)
       \/ tpc[w] = "joining" /\ Gone(After(w))
    /\ control' = [control EXCEPT ![w] = <<>>]
    /\ waiting' = waiting \ {w}
    /\ owing' = owing \ {w}
    /\ channel' = [channel EXCEPT ![w] = <<>>]
    /\ GoTo(w, "done")
    /\ UNCHANGED <<playback, slot, running, paused, lock, callers, back, hand,
                   flushing, registered, dropped, ends>>

WorkerThread(w) ==
    \/ WorkerLooks(w) \/ WorkerLooksAgain(w) \/ WorkerForwards(w) \/ WorkerHandsOn(w)
    \/ WorkerTakes(w) \/ WorkerCarries(w) \/ WorkerCarried(w) \/ DeliverPending(w)
    \/ WorkerDrops(w) \/ WorkerDone(w)

-----------------------------------------------------------------------------
\* As Pipeline::run returns, the threads spawned.
Init ==
    /\ phase = "playing" /\ interrupt = FALSE /\ starts = <<0>>
    /\ preroll = NoPreroll /\ abandoned = FALSE /\ active = FALSE
    /\ running = Cardinality(Lines) /\ paused = FALSE
    /\ holder = None /\ todo = <<>> /\ step = "say" /\ sending = {} /\ waiting = {}
    /\ cpc = [c \in Callers |-> "idle"] /\ calls = 0
    /\ call = [c \in Callers |-> [op |-> None, to |-> 0]]
    /\ tpc = [t \in Threads |-> IF t \in Sources THEN "begin" ELSE "look"]
    /\ back = [t \in Sources |-> "ask"]
    /\ hand = [t \in Threads |-> NoItem]
    /\ control = [t \in Threads |-> <<>>] /\ owing = {}
    /\ channel = [w \in Workers |-> <<>>]
    /\ flushing = [w \in Workers |-> FALSE]
    /\ registered = [w \in Workers |-> TRUE]
    /\ dropped = [w \in Workers |-> FALSE]
    /\ source = [l \in Lines |-> [pos |-> 0, seg |-> 0, sought |-> FALSE]]
    /\ pad = [l \in Lines |-> [flushing |-> FALSE, ended |-> FALSE]]
    /\ terminal = [l \in Lines |-> [seg |-> 0, from |-> 0, at |-> 0,
                                    ended |-> FALSE, heard |-> FALSE]]
    /\ failed = {}

Next == \/ \E c \in Callers : Calls(c) \/ Caller(c)
        \/ Asks
        \/ \E l \in Lines : SourceThread(l) \/ SourceFails(l)
        \/ \E w \in Workers : WorkerThread(w)

Spec == Init /\ [][Next]_vars

\* Every thread runs; the application calls when it likes, and nothing has to
\* fail.
Fairness == /\ WF_vars(Asks)
            /\ \A c \in Callers : WF_vars(Caller(c))
            /\ \A l \in Lines : WF_vars(SourceThread(l))
            /\ \A w \in Workers : WF_vars(WorkerThread(w))

FairSpec == Spec /\ Fairness

-----------------------------------------------------------------------------
Items == [kind : {"buffer", "segment", "flushedSegment", "eos", None},
          seg : Nat, at : 0..Length]
SourcePlaces == {"begin", "ask", "push", "ending", "linger", "paused", "finishing",
                 "carrying", "returning", "returned", "dropping", "joining", "done"}
WorkerPlaces == {"look", "select", "push", "paused", "carrying", "ending", "joining",
                 "done"}
StageNames   == {"Pause", "Resume", "Flush", "Seek", "Preroll", "await", "retire",
                 "Stop", "Finish"}

\* The type of every variable: queues, threads and requests hold what the code
\* of a pipeline, a source and a worker can put there.
TypeOK ==
    /\ phase \in {"playing", "paused", "prerolling", "stopped"}
    /\ interrupt \in BOOLEAN /\ abandoned \in BOOLEAN /\ active \in BOOLEAN
    /\ starts \in Seq(0..Length) /\ timeline \in 1..(MaxOps + 1)
    /\ preroll \in [on : BOOLEAN, ready : SUBSET Lines, cancelled : BOOLEAN]
    /\ running \in 0..Cardinality(Lines) /\ paused \in BOOLEAN
    /\ holder \in Callers \cup {None} /\ todo \in Seq(StageNames)
    /\ step \in {"say", "snapshot", "send", "acks"}
    /\ sending \subseteq Threads /\ waiting \subseteq Threads /\ owing \subseteq Workers
    /\ cpc \in [Callers -> {"idle", "locking", "asking", "joining"}]
    /\ call \in [Callers -> [op : Ops \cup {None}, to : Targets \cup {0}]]
    /\ calls \in 0..MaxOps
    /\ tpc \in [Threads -> SourcePlaces \cup WorkerPlaces]
    /\ \A s \in Sources : tpc[s] \in SourcePlaces
    /\ \A w \in Workers : tpc[w] \in WorkerPlaces
    /\ back \in [Sources -> {"ask", "ending", "linger"}]
    /\ hand \in [Threads -> Items]
    /\ control \in [Threads -> Seq([msg : StageNames, direct : BOOLEAN])]
    /\ channel \in [Workers -> Seq(Items)]
    /\ flushing \in [Workers -> BOOLEAN]
    /\ registered \in [Workers -> BOOLEAN] /\ dropped \in [Workers -> BOOLEAN]
    /\ source \in [Lines -> [pos : 0..Length, seg : 0..timeline, sought : BOOLEAN]]
    /\ pad \in [Lines -> [flushing : BOOLEAN, ended : BOOLEAN]]
    /\ terminal \in [Lines -> [seg : 0..timeline, from : 0..timeline, at : 0..Length,
                               ended : BOOLEAN, heard : BOOLEAN]]
    /\ failed \subseteq Lines

\* What a terminal is handed of a segment is that segment's own, sample after
\* sample from where the segment begins, and its end only behind the last one
\* the source made: nothing lost, nothing twice.  From a seek's preroll on, all
\* of it is on the seek's timeline, wherever older items still were.
\* (reposition, SrcPad::push_event, Inbox::flushing, end_every_output)
StreamInOrder ==
    [][\A l \in Lines :
          LET was == terminal[l]  is == terminal'[l]
              moves == is.seg # was.seg \/ is.from # was.from \/ is.at # was.at IN
          /\ moves /\ is.seg = was.seg =>
                is.from = is.seg /\ is.at = was.at + 1 /\ ~was.ended
          /\ moves /\ preroll.on => is.seg = timeline
          /\ is.ended /\ ~was.ended /\ source[l].seg = is.seg =>
                is.at = source[l].pos]_vars

\* From its new timeline to its preroll, the next seek leaves the last behind.
Repositioning == /\ todo # <<>>
                 /\ \/ Head(todo) \in {"Flush", "Seek"}
                    \/ Head(todo) = "Preroll" /\ step = "say"

\* A terminal a preroll counts as ready is on the seek's timeline, and has taken
\* the one sample at the target and nothing more, or the end of the stream
\* instead; until playback goes on it stays there, whatever its siblings do.
\* (TerminalTracer::ready_consume, consume, end; end_preroll)
ReadyIsAtTarget ==
    preroll.on /\ ~preroll.cancelled /\ ~Repositioning =>
        \A l \in preroll.ready :
            /\ terminal[l].seg = timeline
            /\ \/ terminal[l].at = starts[timeline] + 1
               \/ terminal[l].at = starts[timeline] /\ terminal[l].ended

\* Between a call that left the pipeline paused and the next, no terminal is
\* handed anything.
\* (pause: "Blocks until every element downstream of every source has paused")
PausedIsStill ==
    [][phase = "paused" /\ todo = <<>> =>
          \A l \in Lines : terminal'[l] = terminal[l]]_vars

\* A line that has ended with neither a stop nor a failure has played all its
\* source made, and its end.  (finish: "returns only after every source thread
\* ... has finished", "queues preserve that order"; Inbox::owes_an_end)
EndedIsDrained ==
    \A l \in Lines :
        tpc[<<l, Depth>>] = "done" /\ ~terminal[l].heard /\ l \notin failed =>
            /\ terminal[l].ended
            /\ terminal[l].seg = source[l].seg /\ terminal[l].at = source[l].pos

\* No terminal is dropped unfinished: before its thread ends it has had a Stop
\* or the end of its stream.  (send_to_threads, deliver_pending, run's branch
\* for a source that failed)
NoTerminalUnfinished ==
    \A l \in Lines : tpc[<<l, Depth>>] = "done" => terminal[l].heard \/ terminal[l].ended

\* Every call of the application returns - without a preroll ever having to
\* give up waiting, where Timeouts is FALSE.
CallReturns == \A c \in Callers : cpc[c] # "idle" ~> cpc[c] = "idle"

=============================================================================
