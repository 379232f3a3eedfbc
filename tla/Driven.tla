-------------------------------- MODULE Driven --------------------------------
(***************************************************************************)
(* A driven pipeline (lib/src/core/pipeline/driven/): one with no thread   *)
(* of its own, polled by a runner's lane whenever it is woken - by a       *)
(* request through its handle, by what its source waits on, by the timer.  *)
(* A poll is SourceStage::drive (core/produce.rs): the requests taken, what *)
(* was held back for an output that could not take it (core/parking.rs)    *)
(* handed on, and the source asked, as far as that gets without waiting.   *)
(*                                                                         *)
(* One pipeline on one lane.  The handles' calls are serialized by         *)
(* Shared::operation, so they are one caller's.  The source's time moves   *)
(* by one a buffer, whose number is when it is due; the clock's moves by   *)
(* Tick, and a deadline is how many of those are left.                     *)
(***************************************************************************)
EXTENDS Integers, Sequences, FiniteSets, SequencesExt, FiniteSetsExt

CONSTANTS
    Outputs,        \* the source's, each an element with room or without
    Budget,         \* DRIVEN_BUDGET
    MaxInterleave,  \* MAX_INTERLEAVE, in buffers
    MaxParked,      \* MAX_PARKED
    MaxWait,        \* the longest a source asks to be left alone, in ticks
    MaxDone         \* bound: buffers the source makes, segments it begins
                    \* after the first, and calls of the handles, together

ASSUME OutputsAssumption == Cardinality(Outputs) > 1
ASSUME BoundsAssumption ==
    /\ {Budget, MaxParked, MaxWait} \subseteq Nat \ {0}
    /\ {MaxInterleave, MaxDone} \subseteq Nat

None == "none"
Forever == MaxWait + 1  \* no deadline
HeldPollNever == Forever  \* mutant: a held buffer waits for a wake alone
HeldPoll == 1           \* HELD_POLL, in ticks

VARIABLES
    at,           \* where the lane's thread is
    line,         \* what was sent to the lane
    queued,       \* TaskWake::queued
    senders,      \* who has set it and is yet to send
    has,          \* the lane has the task
    dropping,     \* the poll under way is the one of DrivenPipeline::drop
    slot,         \* Shared::waker: None, "task", "noop"
    timer,        \* the timer's heap, as the ticks left of each
    armed,        \* DrivenPipeline::armed, in ticks left
    phase, paused, control, ended,   \* of Shared
    op,           \* the call under way: what it has yet to enqueue
    calling, ops,
    pausedSince, atEnd, owedEnds, owedSegment, budget,   \* of the source stage
    listens,      \* what the source waits on has the waker of its poll
    pending, since, read,       \* Parking
    deferred, blocked,          \* and drain's own
    ready,        \* whether each output has room
    made,         \* history: the output each buffer was made for
    begun,        \* segments begun
    segments,     \* and those asked for after the first
    forgotten,    \* history: the buffers let go of by a flush
    log,          \* history: what each output was handed
    heardStop,    \* history: the outputs heard Stop
    due           \* history: the deadline the last poll answered, if none is under way

lane     == <<at, has, dropping>>
waking   == <<line, queued, senders>>
timing   == <<timer, armed, due>>
handle   == <<paused, op, calling, ops>>
stage    == <<pausedSince, atEnd, owedEnds, owedSegment, budget, listens>>
parking  == <<pending, since, read, deferred, blocked>>
outputs  == <<ready, log>>
source   == <<made, begun, segments, forgotten>>
vars == <<lane, waking, slot, timing, phase, control, ended, handle, stage,
          parking, outputs, source, heardStop>>

Done == Len(made) + segments + ops
SegmentOf(k) == [is |-> "segment", n |-> 0, segment |-> k]
Eos == [is |-> "eos", n |-> 0, segment |-> 0]

-----------------------------------------------------------------------------
(* Waking (runner.rs, timer.rs).                                           *)

\* TaskWake::wake_by_ref by a thread that may be held up before it sends.
Wakes(who) ==
    /\ who \notin senders
    /\ queued' = TRUE
    /\ senders' = IF queued THEN senders ELSE senders \cup {who}
    /\ UNCHANGED line

Sends ==
    /\ \E who \in senders : senders' = senders \ {who}
    /\ line' = Append(line, "Ready")
    /\ UNCHANGED <<queued, lane, slot, timing, phase, control, ended, handle,
                   stage, parking, outputs, source, heardStop>>

\* Shared::waker is locked while it is woken.
SlotIsFree == "handle" \notin senders

Less(t) == IF t = Forever \/ t = 0 THEN t ELSE t - 1

Tick ==
    /\ \E t \in timer : t > 0
    /\ timer' = {Less(t) : t \in timer}
    /\ armed' = Less(armed) /\ due' = Less(due)
    /\ UNCHANGED <<waking, lane, slot, phase, control, ended, handle, stage,
                   parking, outputs, source, heardStop>>

TimerWakes ==
    /\ 0 \in timer
    /\ timer' = timer \ {0}
    /\ Wakes("timer")
    /\ UNCHANGED <<armed, due, lane, slot, phase, control, ended, handle, stage,
                   parking, outputs, source, heardStop>>

\* What the source waits on wakes the poll it was handed the waker of.
SourceWakes ==
    /\ listens
    /\ listens' = FALSE
    /\ Wakes("source")
    /\ UNCHANGED <<timing, lane, slot, phase, control, ended, handle, pausedSince,
                   atEnd, owedEnds, owedSegment, budget, parking, outputs, source,
                   heardStop>>

ArmedOnce(t) == armed <= t  \* mutant: one that has woken already counts

\* A deadline the timer still has wakes the task by then.
IsArmedBy(t) == 0 < armed /\ armed <= t

\* DrivenPipeline::arm, on the lane's own thread.
Arm(t) ==
    IF t = 0
    THEN /\ queued' = TRUE
         /\ line' = IF queued THEN line ELSE Append(line, "Ready")
         /\ UNCHANGED <<timer, armed>>
    ELSE /\ UNCHANGED <<queued, line>>
         /\ IF IsArmedBy(t) THEN UNCHANGED <<timer, armed>>
            ELSE timer' = timer \cup {t} /\ armed' = t

-----------------------------------------------------------------------------
(* The handles.                                                            *)

Calls(o, sends) ==
    /\ ~calling /\ ~ended
    /\ Done < MaxDone
    /\ ops' = ops + 1
    /\ calling' = TRUE /\ op' = sends
    /\ UNCHANGED <<lane, waking, slot, timing, control, ended, stage, parking,
                   outputs, source, heardStop>>

Pause ==
    /\ ~paused /\ paused' = TRUE
    /\ phase' = "Paused"
    /\ Calls("pause", <<"Pause">>)

Resume ==
    /\ paused /\ paused' = FALSE
    /\ phase' = "Playing"
    /\ Calls("resume", <<"Resume">>)

Stop ==
    /\ paused' = FALSE
    /\ phase' = "Stopped"
    /\ Calls("stop", <<"Stop">>)

Finish ==
    /\ paused' = FALSE
    /\ phase' = IF paused THEN "Playing" ELSE phase
    /\ Calls("finish", IF paused THEN <<"Resume", "Finish">> ELSE <<"Finish">>)

\* Refused once the pipeline, and the channel's receiver with it, has gone.
Enqueues ==
    /\ calling /\ op # <<>>
    /\ control' = IF ended THEN control ELSE Append(control, Head(op))
    /\ op' = Tail(op)
    /\ UNCHANGED <<paused, calling, ops, lane, waking, slot, timing, phase, ended,
                   stage, parking, outputs, source, heardStop>>

WakesPoll ==
    /\ calling /\ op = <<>>
    /\ SlotIsFree
    /\ calling' = FALSE
    /\ IF slot = "task" THEN Wakes("handle") ELSE UNCHANGED waking
    /\ UNCHANGED <<paused, op, ops, lane, slot, timing, phase, control, ended,
                   stage, parking, outputs, source, heardStop>>

\* The runner is dropped.
DropsRunner ==
    /\ \A i \in DOMAIN line : line[i] # "Stop"
    /\ at \notin {"drop", "dropped", "gone"} /\ ~dropping
    /\ line' = Append(line, "Stop")
    /\ UNCHANGED <<queued, senders, lane, slot, timing, phase, control, ended,
                   handle, stage, parking, outputs, source, heardStop>>

-----------------------------------------------------------------------------
(* The lane's thread.                                                      *)

Receives ==
    /\ at = "recv" /\ line # <<>>
    /\ line' = Tail(line)
    /\ \/ /\ Head(line) = "Add"
          /\ has' = TRUE /\ at' = "clear"
       \/ /\ Head(line) = "Ready"
          /\ at' = IF has THEN "clear" ELSE "recv"
          /\ UNCHANGED has
       \/ /\ Head(line) = "Stop"
          /\ at' = IF has THEN "drop" ELSE "gone"
          /\ UNCHANGED has
    /\ UNCHANGED <<queued, senders, dropping, slot, timing, phase, control, ended,
                   handle, stage, parking, outputs, source, heardStop>>

ClearsQueued ==
    /\ at = "clear"
    /\ queued' = FALSE /\ at' = "poll"
    /\ UNCHANGED <<line, senders, has, dropping, slot, timing, phase, control, ended,
                   handle, stage, parking, outputs, source, heardStop>>

HandSegment(k) == log' = [o \in Outputs |-> Append(log[o], SegmentOf(k))]

\* DrivenPipeline::poll up to the source, and begin on the first.
Polls ==
    /\ at = "poll" /\ SlotIsFree
    /\ slot' = IF dropping THEN "noop" ELSE "task"
    /\ IF begun = 0 THEN HandSegment(1) /\ begun' = 1 ELSE UNCHANGED <<log, begun>>
    /\ at' = "take" /\ due' = Forever
    /\ UNCHANGED <<has, dropping, waking, timer, armed, phase, control, ended, handle,
                   stage, parking, ready, made, segments, forgotten, heardStop>>

\* DrivenPipeline::drop
EntersStopped ==
    /\ at = "drop"
    /\ phase' = "Stopped" /\ at' = "dropped"
    /\ UNCHANGED <<has, dropping, waking, slot, timing, control, ended, handle,
                   stage, parking, outputs, source, heardStop>>

EnqueuesStop ==
    /\ at = "dropped"
    /\ control' = Append(control, "Stop")
    /\ dropping' = TRUE /\ at' = "poll"
    /\ UNCHANGED <<has, waking, slot, timing, phase, ended, handle, stage, parking,
                   outputs, source, heardStop>>

\* The poll answers Pending: dropped, the pipeline goes all the same.
Pends(t) ==
    /\ due' = t
    /\ IF dropping
       THEN at' = "over" /\ UNCHANGED <<queued, line, timer, armed>>
       ELSE /\ at' = "recv"
            /\ IF t = Forever THEN UNCHANGED <<queued, line, timer, armed>> ELSE Arm(t)
    /\ UNCHANGED senders

Ends == at' = "over" /\ UNCHANGED <<waking, timing>>

\* A step of the poll after which it goes on.
GoesOn(next) == at' = next /\ UNCHANGED <<waking, timing>>

InPoll == UNCHANGED <<has, dropping, slot, phase, ended, handle>>

\* end(): ended, the elements dropped, the waker and the deadline let go of.
Over ==
    /\ at = "over" /\ SlotIsFree
    /\ ended' = TRUE /\ slot' = None
    /\ armed' = Forever /\ due' = Forever
    /\ has' = FALSE /\ at' = IF dropping THEN "gone" ELSE "recv"
    /\ control' = <<>> /\ pending' = <<>>
    /\ since' = [o \in Outputs |-> 0] /\ read' = 0
    /\ ready' = [o \in Outputs |-> FALSE]
    /\ UNCHANGED <<dropping, waking, timer, phase, handle, stage, deferred, blocked,
                   log, source, heardStop>>

-----------------------------------------------------------------------------
(* Taking what was asked (SourceStage::step).                              *)

Holds == phase \in {"Paused", "Stopped"}

Takes(msg) ==
    /\ at = "take" /\ control # <<>>
    /\ Head(control) = msg /\ control' = Tail(control)
    /\ InPoll

StaysPaused == UNCHANGED pausedSince  \* mutant

PauseIsOver == pausedSince' = FALSE

\* A request that says playback has moved on, whichever it is.
LeavesPause(msg) ==
    /\ msg # "Finish" /\ pausedSince /\ ~Holds
    /\ Takes(msg)
    /\ PauseIsOver
    /\ heardStop' = (heardStop \/ msg = "Stop")
    /\ GoesOn("take")
    /\ UNCHANGED <<atEnd, owedEnds, owedSegment, budget, listens, parking, outputs,
                   source>>

\* Any other: passed on to the outputs, a pause being where the next poll
\* finds the source and a stop its end.
Applies(msg) ==
    /\ msg # "Finish" /\ (pausedSince => Holds)
    /\ Takes(msg)
    /\ pausedSince' = (msg # "Stop" /\ (pausedSince \/ msg = "Pause"))
    /\ heardStop' = (heardStop \/ msg = "Stop")
    /\ IF msg = "Stop" THEN Ends ELSE GoesOn("take")
    /\ UNCHANGED <<atEnd, owedEnds, owedSegment, budget, listens, parking, outputs,
                   source>>

Item(p) == [is |-> "buffer", n |-> p.n, segment |-> p.segment]

\* What of s is for these outputs, in the order it is held.
PartFor(s, os) ==
    LET part[i \in 0 .. Len(s)] ==
            IF i = 0 THEN <<>>
            ELSE IF s[i].to \in os THEN Append(part[i-1], s[i]) ELSE part[i-1]
    IN part[Len(s)]

Owed(o) == PartFor(deferred \o pending, {o})
Owes(o) == Owed(o) # <<>>
HeldFor(o) == [i \in DOMAIN Owed(o) |-> Item(Owed(o)[i])]

\* apply_finish and finish_driven: everything held back, room or not, and
\* the ends still owed.
TakesFinish ==
    /\ Takes("Finish")
    /\ log' = [o \in Outputs |->
                 log[o] \o HeldFor(o) \o (IF ~atEnd \/ o \in owedEnds
                                          THEN <<Eos>> ELSE <<>>)]
    /\ pending' = <<>> /\ since' = [o \in Outputs |-> 0] /\ read' = 0
    /\ owedEnds' = {}
    /\ Ends
    /\ UNCHANGED <<pausedSince, atEnd, owedSegment, budget, listens, deferred,
                   blocked, ready, source, heardStop>>

Share == Budget

NothingAsked ==
    /\ at = "take" /\ control = <<>>
    /\ IF pausedSince
       THEN Pends(Forever) /\ UNCHANGED budget
       ELSE GoesOn("drain") /\ budget' = Share
    /\ InPoll
    /\ UNCHANGED <<control, pausedSince, atEnd, owedEnds, owedSegment, listens,
                   parking, outputs, source, heardStop>>

-----------------------------------------------------------------------------
(* What is held back (Parking).                                            *)

\* What an output is handed takes its room; Frees may give it back at once.
Hand(o, items) ==
    /\ log' = [log EXCEPT ![o] = @ \o items]
    /\ ready' = [ready EXCEPT ![o] = FALSE]

RefusesNow(o) == ~ready[o]  \* mutant: readiness alone

\* What it held back once in this drain it goes on holding back.
Refuses(o) == o \in blocked \/ ~ready[o]

\* drain, for the oldest it has not looked at: its output asked anew.
DrainsOne ==
    /\ at = "drain" /\ pending # <<>>
    /\ LET p == Head(pending)  o == p.to IN
        /\ pending' = Tail(pending)
        /\ IF Refuses(o)
           THEN /\ blocked' = blocked \cup {o}
                /\ deferred' = Append(deferred, p)
                /\ UNCHANGED <<since, outputs>>
           ELSE /\ since' = [since EXCEPT ![o] = 0]
                /\ Hand(o, <<Item(p)>>)
                /\ UNCHANGED <<blocked, deferred>>
    /\ InPoll /\ GoesOn("drain")
    /\ UNCHANGED <<control, stage, read, source, heardStop>>

SinceLeft ==
    [o \in Outputs |-> IF since[o] = 0 /\ Owes(o) THEN Owed(o)[1].n ELSE since[o]]

Drained ==
    /\ at = "drain" /\ pending = <<>>
    /\ pending' = deferred /\ deferred' = <<>> /\ blocked' = {}
    /\ since' = SinceLeft
    /\ InPoll /\ GoesOn(IF atEnd THEN "end" ELSE "produce")
    /\ UNCHANGED <<control, stage, read, outputs, source, heardStop>>

Exceeded(r) ==
    r # 0 /\ \E o \in Outputs : since[o] # 0 /\ r - since[o] > MaxInterleave

\* Parking::blocked
Blocked ==
    /\ pending # <<>>
    /\ \/ Exceeded(read)
       \/ Len(pending) >= MaxParked
       \/ \A o \in Outputs : ~ready[o]

TellsNothing == UNCHANGED heardStop  \* mutant

\* What a failed source fed is told that it is over.
TellsStop == heardStop' = TRUE

\* It fails, or panics.
Fails ==
    /\ \/ /\ at = "produce" /\ ~owedSegment /\ ~Blocked
          /\ UNCHANGED control
       \/ /\ at = "take" /\ control # <<>>
          /\ \/ pausedSince /\ phase = "Playing"         \* Source::resuming
             \/ ~pausedSince /\ Head(control) = "Pause"  \* Source::pausing
          /\ Head(control) # "Finish"
          /\ control' = Tail(control)
    /\ TellsStop
    /\ Ends
    /\ InPoll /\ UNCHANGED <<stage, parking, outputs, source>>

-----------------------------------------------------------------------------
(* The source asked (SourceStage::step, end_driven).                       *)

Asks == at = "produce" /\ InPoll /\ UNCHANGED <<control, heardStop>>

\* One more round of the loop, or the rest of the lane's pipelines' turn.
Again ==
    /\ budget' = budget - 1
    /\ IF budget = 1 THEN Pends(0) ELSE GoesOn("drain")

Waits ==
    /\ Asks
    /\ (owedSegment /\ pending # <<>>) \/ (~owedSegment /\ Blocked)
    /\ Pends(HeldPoll)
    /\ UNCHANGED <<stage, parking, outputs, source>>

BeginsOwed ==
    /\ Asks /\ owedSegment /\ pending = <<>>
    /\ owedSegment' = FALSE
    /\ HandSegment(begun + 1) /\ begun' = begun + 1
    /\ GoesOn("produce")
    /\ UNCHANGED <<pausedSince, atEnd, owedEnds, budget, listens, parking, ready,
                   made, segments, forgotten>>

IsAsked == Asks /\ ~owedSegment /\ ~Blocked

\* SourceStage::hand_on and Parking::hand_on.
Makes(o) ==
    LET n == Len(made) + 1
        p == [to |-> o, n |-> n, segment |-> begun]
    IN
    /\ IsAsked /\ Done < MaxDone
    /\ made' = Append(made, o)
    /\ read' = n
    /\ IF (Owes(o) \/ ~ready[o]) /\ ~Exceeded(n)
       THEN /\ pending' = Append(pending, p)
            /\ since' = IF Owes(o) THEN since ELSE [since EXCEPT ![o] = n]
            /\ UNCHANGED outputs
       ELSE /\ pending' = PartFor(pending, Outputs \ {o})
            /\ since' = IF Owes(o) THEN [since EXCEPT ![o] = 0] ELSE since
            /\ Hand(o, Append(HeldFor(o), Item(p)))
    /\ Again
    /\ UNCHANGED <<pausedSince, atEnd, owedEnds, owedSegment, listens, deferred,
                   blocked, begun, segments, forgotten, heardStop>>

\* Produced::Segment, flushed: what is held back is of the one being left.
MakesFlush ==
    /\ IsAsked /\ Done < MaxDone
    /\ segments' = segments + 1
    /\ forgotten' = forgotten \cup {pending[i].n : i \in DOMAIN pending}
    /\ pending' = <<>> /\ since' = [o \in Outputs |-> 0] /\ read' = 0
    /\ HandSegment(begun + 1) /\ begun' = begun + 1
    /\ Again
    /\ UNCHANGED <<pausedSince, atEnd, owedEnds, owedSegment, listens, deferred,
                   blocked, ready, made>>

\* Not flushed: it begins behind what is held back.
MakesSegment ==
    /\ IsAsked /\ Done < MaxDone
    /\ segments' = segments + 1
    /\ IF pending = <<>>
       THEN HandSegment(begun + 1) /\ begun' = begun + 1 /\ UNCHANGED owedSegment
       ELSE owedSegment' = TRUE /\ UNCHANGED <<log, begun>>
    /\ Again
    /\ UNCHANGED <<pausedSince, atEnd, owedEnds, listens, parking, ready, made,
                   forgotten>>

\* Nothing now: until a time, until what it waits on wakes it, or not at all.
MakesNothing ==
    /\ IsAsked
    /\ \/ \E t \in 1 .. MaxWait : Pends(t) /\ UNCHANGED stage
       \/ /\ Pends(Forever) /\ listens' = (listens \/ ~dropping)
          /\ UNCHANGED <<pausedSince, atEnd, owedEnds, owedSegment, budget>>
       \/ /\ Again
          /\ UNCHANGED <<pausedSince, atEnd, owedEnds, owedSegment, listens>>
    /\ UNCHANGED <<parking, outputs, source>>

GivenEndEarly(owed) == {o \in owed : ready[o]}  \* mutant

GivenEnd(owed) == {o \in owed : ~Owes(o) /\ ready[o]}

\* end_driven, but for the drain it begins with.
GivesEnds(owed) ==
    /\ log' = [o \in Outputs |->
                 IF o \in GivenEnd(owed) THEN Append(log[o], Eos) ELSE log[o]]
    /\ owedEnds' = owed \ GivenEnd(owed)
    /\ IF owedEnds' = {} THEN Ends ELSE Pends(HeldPoll)
    /\ UNCHANGED <<pausedSince, owedSegment, budget, listens, parking, ready, source>>

\* Its end, and the first try: everything held back drained once more.
MakesEnd ==
    /\ IsAsked
    /\ atEnd' = TRUE /\ owedEnds' = Outputs
    /\ GoesOn("drain")
    /\ UNCHANGED <<pausedSince, owedSegment, budget, listens, parking, outputs, source>>

EndsOutputs ==
    /\ at = "end"
    /\ GivesEnds(owedEnds)
    /\ InPoll /\ UNCHANGED <<atEnd, control, heardStop>>

\* The element behind an output makes room, on a thread of its own, and does
\* not say so.
Frees(o) ==
    /\ ~ready[o] /\ ~ended
    /\ ready' = [ready EXCEPT ![o] = TRUE]
    /\ UNCHANGED <<lane, waking, slot, timing, phase, control, ended, handle, stage,
                   parking, log, source, heardStop>>

-----------------------------------------------------------------------------
Init ==
    /\ at = "recv" /\ line = <<"Add">> /\ queued = FALSE /\ senders = {}
    /\ has = FALSE /\ dropping = FALSE /\ slot = None
    /\ timer = {} /\ armed = Forever /\ due = Forever
    /\ phase = "Playing" /\ paused = FALSE /\ control = <<>> /\ ended = FALSE
    /\ op = <<>> /\ calling = FALSE /\ ops = 0
    /\ pausedSince = FALSE /\ atEnd = FALSE /\ owedEnds = {}
    /\ owedSegment = FALSE /\ budget = 0 /\ listens = FALSE
    /\ pending = <<>> /\ since = [o \in Outputs |-> 0] /\ read = 0
    /\ deferred = <<>> /\ blocked = {}
    /\ ready = [o \in Outputs |-> FALSE]
    /\ made = <<>> /\ begun = 0 /\ segments = 0 /\ forgotten = {}
    /\ log = [o \in Outputs |-> <<>>] /\ heardStop = FALSE

Takings == \E msg \in {"Pause", "Resume", "Stop"} : LeavesPause(msg) \/ Applies(msg)

Lane ==
    \/ Receives \/ ClearsQueued \/ Polls
    \/ Takings \/ TakesFinish \/ NothingAsked
    \/ DrainsOne \/ Drained
    \/ Waits \/ BeginsOwed
    \/ \E o \in Outputs : Makes(o)
    \/ MakesFlush \/ MakesSegment \/ MakesNothing \/ MakesEnd \/ EndsOutputs
    \/ Fails \/ Over
    \/ EntersStopped \/ EnqueuesStop

Handle == Pause \/ Resume \/ Stop \/ Finish
Returns == Enqueues \/ WakesPoll

Next ==
    \/ Lane
    \/ Handle \/ Returns
    \/ DropsRunner
    \/ Sends \/ TimerWakes \/ SourceWakes
    \/ \E o \in Outputs : Frees(o)
    \/ Tick

Spec == Init /\ [][Next]_vars

-----------------------------------------------------------------------------
Held == [to : Outputs, n : 1 .. MaxDone, segment : 1 .. MaxDone + 1]
Handed == {[is |-> "buffer", n |-> n, segment |-> k] :
             n \in 1 .. MaxDone, k \in 1 .. MaxDone + 1}
          \cup {SegmentOf(k) : k \in 1 .. MaxDone + 1} \cup {Eos}
Ticks == 0 .. Forever

TypeOK ==
    /\ at \in {"recv", "clear", "poll", "take", "drain", "produce", "end", "over",
               "drop", "dropped", "gone"}
    /\ line \in Seq({"Add", "Ready", "Stop"})
    /\ {queued, has, dropping, paused, ended, calling, pausedSince, atEnd,
        owedSegment, listens, heardStop} \subseteq BOOLEAN
    /\ senders \subseteq {"handle", "timer", "source"}
    /\ slot \in {None, "task", "noop"}
    /\ timer \subseteq 0 .. MaxWait /\ {armed, due} \subseteq Ticks
    /\ phase \in {"Playing", "Paused", "Stopped"}
    /\ control \in Seq({"Pause", "Resume", "Stop", "Finish"})
    /\ op \in Seq({"Pause", "Resume", "Stop", "Finish"})
    /\ ops \in 0 .. MaxDone /\ budget \in 0 .. Budget
    /\ {owedEnds, blocked} \subseteq SUBSET Outputs
    /\ {pending, deferred} \subseteq Seq(Held)
    /\ since \in [Outputs -> 0 .. MaxDone] /\ read \in 0 .. MaxDone
    /\ ready \in [Outputs -> BOOLEAN]
    /\ made \in Seq(Outputs) /\ begun \in 0 .. MaxDone + 1 /\ segments \in 0 .. MaxDone
    /\ forgotten \subseteq 1 .. MaxDone
    /\ log \in [Outputs -> Seq(Handed)]

BuffersOf(o) == {i \in DOMAIN log[o] : log[o][i].is = "buffer"}
NumbersOf(o) == {log[o][i].n : i \in BuffersOf(o)}
IsEnded(o) == Contains(log[o], Eos)

\* Every output is handed what was made for it in the order it was made, each
\* buffer inside the segment it was made in, and nothing after its end.
EachInOrder ==
    \A o \in Outputs :
        /\ \A i, j \in BuffersOf(o) : i < j => log[o][i].n < log[o][j].n
        /\ \A i \in BuffersOf(o), j \in DOMAIN log[o] :
               log[o][j].is = "segment" =>
                   (j < i <=> log[o][j].segment <= log[o][i].segment)
        /\ \A i \in DOMAIN log[o] : log[o][i] = Eos => i = Len(log[o])

\* An output's end is behind all that was made for it and not let go of by a
\* flush.
WholeAtItsEnd ==
    \A o \in Outputs :
        IsEnded(o) =>
            {n \in DOMAIN made : made[n] = o} \subseteq NumbersOf(o) \cup forgotten

\* The pipeline will be polled again for what it was asked.
ReadyIsComing ==
    \/ senders # {}
    \/ \E i \in DOMAIN line : line[i] \in {"Add", "Ready"}

Idle == at = "recv" /\ ~calling /\ ~ended

\* What was asked, and the time the last poll asked for, have a wake on its
\* way: neither is missed by a poll that was ending, or begins just then.
WakeIsOnItsWay ==
    Idle =>
        \/ ReadyIsComing
        \/ /\ control = <<>>
           /\ due # Forever => \E t \in timer : t <= due

\* Its requests taken, the source is paused exactly where the last call said.
AsAsked == (Idle /\ control = <<>>) => (pausedSince <=> phase = "Paused")

\* However it ended - its stream, a stop, a finish, a failure, the runner
\* dropped - every output has had its end or heard that it is over.
EveryOutputIsOver == ended => heardStop \/ \A o \in Outputs : IsEnded(o)

\* What is held back for an output is looked at again by a time, room or not,
\* unless the pipeline is paused or its source waits for what will wake it.
HeldIsLookedAt ==
    (Idle /\ pending # <<>>) =>
        pausedSince \/ listens \/ ReadyIsComing \/ due # Forever

\* Does not hold: a stop, a pause and a resume between two polls of a paused
\* pipeline leave the stop to be taken as what leaves the pause.
NothingAfterStop == [][heardStop => log' = log]_vars
=============================================================================
