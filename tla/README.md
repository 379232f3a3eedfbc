# A model of media-pp's pipelines

media-pp runs media graphs: sources produce buffers, elements transform them,
terminals take them. What is hard about it is not the media but the running of
the graph: a thread per source, a thread per queue, and an application that
pauses, resumes, seeks, steps, stops and finishes all of them from outside, while
each may be blocked on the next; or no thread at all, and a pipeline that is
polled when something wakes it; and a position in the media that the clock and
the sound's device say in turn. Between pipelines stands the broadcast: one input
written by several threads and read by many, while it is published again, sought
in and closed. This directory holds TLA+ modules of these parts, the TLC runs
that check them, and proofs for the queue and what it promises, for a pipeline's
calls, for driven pipelines, for the broadcast, for the Tee, and for the position.

Paths below are relative to `lib/src/` of the repository.

## The system

### How the parts interact

```
 application threads ── pause / resume / seek / step / stop / finish
        │  Pipeline::operation (one call at a time)
        │  writes  ┌────────────────────┐ read by every thread
        ├─────────►│ PlaybackState      │ phase, interrupt_pending,
        │          └────────────────────┘ preroll, timeline; rings bells
        │  asks every thread on a channel of its own, waits for every ack
        ▼
 source thread ──SrcPad──► Queue ══data══► worker thread ──► Queue ══► worker ──► terminal
 (SourceStage)     │       (on the producer's thread)                   (TerminalTracer)
                   └────► Tee ──► branch 1 ...                                │ ends
                           │  ──► branch 2 ...   attach, detach, finish       ▼
                           └─ what a preroll keeps back                   Completion
```

```
 pipeline of the input: one branch per track        readers, each a position
   ──► BroadcastSink 0 ─┐ write, end, flush   next  ┌─► BroadcastReader (code of one's own)
   ──► BroadcastSink 1 ─┴────────► State ◄──────────┴─► BroadcastSource ──► a pipeline of its own
 application: publish, subscribe, close    │ wakes: wakers, bells
```

```
 handle: pause, resume, stop, finish ─► control ─┐          DrivenRunner, one lane
   what the source waits on ─────────────────────┼─ wake ─► TaskWake.queued ─► line ─► poll
   timer thread: the deadline armed ─────────────┘               │ SourceStage::drive
                                  outputs, with room or without ◄┴─ Parking: what one cannot take
```

```
 FileDemuxer ──► decoder ──► VideoSynchronizer ──► window    asks: is this picture due?
      │                            │ anchors                       ▲
      └──► decoder ──► WasapiRenderer ── registers, publishes ──► PlaybackClock ── Clock
                           │                    finishes, leaves        ▲ pauses, resumes,
                         device                                  Pipeline  lets go (seek, step)
```

A call takes the operation lock, writes the playback state, reads which queues
are registered, sends each thread its request, raises the interrupt (which lets
go of every thread blocked handing something over, and keeps workers from
starting on another item), and waits for every acknowledgement. A thread that
ends drops what it feeds: the queue is unregistered, its worker told to stop and
joined, and so on down the line.

### Inventory

| component | state it keeps | operations | what is hard | what makes it correct |
|---|---|---|---|---|
| `Queue` (core/queue.rs) | data channel, `ends_owed`, `stop`, `ended`, registration, two bells; worker: place, flushing, pause loop | push, end, segment, carry a request, drop; take, forward, apply a request, drain, end | items raced by requests; a panic downstream; the drop at any moment; capacity 0 | no end of stream lost or counted twice; every wait ends; nothing moves while paused; in order, and a flush discards nothing handed over after it |
| Pipeline calls (core/pipeline/lifecycle.rs) | `operation`, `running`, `paused`, join handles | run, pause, resume, stop, finish | channels read before they are sent to; threads ending meanwhile; `stop` joining without the lock | each call returns; a pause really pauses; terminals hear that they end |
| Seek and preroll (core/pipeline/seek.rs) | `PrerollSlot`, the context, `stepped` | reposition, await, retire, frame step, playing on from the picture | old items behind new; several terminals; `stop` giving the preroll up | one sample at the target for every terminal, none of the old timeline; picture, sound and position in line |
| Playback state (core/playback_state.rs) | phase, interrupt, preroll, timeline, rate | written before the request that goes with it | written by one call as another thread still acts on the last | phases in step with what threads were told |
| Control channels (core/control.rs) | requests, acknowledgements, the tokens that wake | send, receive, wait out a pause, finish | a receiver that goes with a request in it | every request acknowledged or known gone |
| Source stage (core/produce.rs), pads (core/pad.rs, stream.rs) | position, `flushing`, `ended`, segment | produce, end, linger, seek, finish | a seek as it ends; a blocked push as it is asked | samples in order, once, and one end |
| Terminal tracer (core/pipeline/chain.rs) | segment, sample taken, end | ready, consume, end, flow | taking a second sample in a preroll | ready means the sample at the target |
| Completion (core/pipeline/completion.rs) | ends by timeline, what was posted | terminal ended, branch removed | graph and timeline read before its lock | `Finished` once per timeline, after the last end |
| Tee (elements/filter/tee.rs) | branches, what a preroll keeps for each | hand out, attach, detach, finish a branch | list copied, then used; a branch held while its siblings are not | each branch its stream in order and whole; nothing behind an `Eos` |
| Parking (core/parking.rs) | what is owed to each output | hand on, drain, forget | readiness changing as it is read | per-output order; a bound; no output starved |
| Broadcast (elements/broadcast) | run, publication, entries, starts, readers | publish, write, flush, end, read | tracks flushed one by one; readers overtaken | a reader starts at a keyframe and is told of each gap |
| Driven pipelines (core/pipeline/driven) | waker, queued mark, line, timer, `armed` | poll, wake, request | a wake during a poll; a deadline already gone off | polled again after every wake, at every deadline; outputs told however it ends |
| Clocks (core/timing/clock.rs, playback_clock.rs) | the wall clock; who says where playing is, and where | start, pause, resume; anchor, register, publish, finish, release, reset | the owner of the position changing as others read it; two clocks paused one after the other | never ahead of the sound, never back |
| VideoSynchronizer, WasapiRenderer | pictures kept; the device's timeline | take, wait, show, drop; play, play out, pause, resume, reset, leave | each waits for the other, on threads of their own | what is left playing ends |
| Bell (core/bell.rs) | the ring, the listener | ring, take, listen | a ring between look and park | no wake lost |
| Line, rack, stash (elements/filter, core/stash.rs) | the elements inside another | replace, flush | – | as a chain |
| Other filters, graph, contracts, bus, pools, drivers, devices, codecs, GPU, speech, vision, player, logging | | | arithmetic, I/O, external libraries | – |

`PROJECT.json` lists each with its status, and the hazards with the line at
which each bites.

## The modules

| module | what it models | composed with | proofs |
|---|---|---|---|
| Queue | one queue and everyone who touches it | implements QueueSpec | Queue_proofs |
| QueueSpec | what a queue promises | – | Queue_proofs: Queue implements it |
| Pipeline, MCPipeline | lines of queues, and the pipeline's calls | the queue of Queue at a coarser grain | Pipeline_proofs, PipelineStreams_proofs |
| Tee, MCTee | a Tee, its handle, Completion, seeks and steps | the calls of Pipeline as messages | Tee_proofs |
| Driven | a pipeline polled by a runner, with Parking | – | Driven_proofs |
| Broadcast, MCBroadcast | a broadcast and its readers | – | Broadcast_proofs |
| PlaybackClock | the two clocks, an operator a method | used by AvPlayback | – |
| AvPlayback | a file played with its sound | extends PlaybackClock | AvPlayback_proofs |
| Stepwise | no code: lemmas about functions defined step by step | used by the proofs of Driven, Broadcast, Tee and Pipeline | itself |

### Queue.tla

One queue, and everyone who touches it: the producer's thread, the worker's
thread, the pipeline that asks, and a downstream that is external (ready or
not, takes, refuses or panics). One action per place where another thread can
come in between. `wpc`, `ppc` and `rpc` are the places of the worker
(`worker_loop`, `apply_control`, `forward`), the producer (`take`, `take_end`,
`hand_over`, `flow`, `drop`) and the pipeline (`send_to_threads`).

* `channel` is the unbounded data channel, which `Capacity` bounds only for
  buffers and only through `hand_over`; capacity 0 is a rendezvous (the code
  sends one item and waits until it is taken), hence `Larger(Capacity, 1)`.
* A bell is a ring kept until it is taken. A thread that waits looks first; a
  ring in between is found. `polls` says whether the wait also has a timer.
* `ends_owed` is the code's counter; `Ends(channel)`, the hands and `lostEnds`
  (a history variable) are what it is supposed to count.
* `cause` (history) says by which exit the worker left.

A producer is free to call in any order, also while the pipeline is paused:
a source thread looks at its requests only between two things it produces.

### QueueSpec.tla

What a queue promises to its two sides and to the pipeline: what is accepted
leaves in order, one at a time; nothing leaves while the pipeline is paused or
stopped and has been told so; what a Flush discards it discards between its call
and its return. Queue.tla implements it (`KeepsContract`) under the mapping

* `between`: the item in the worker's hand, then the channel;
* `closed`: the worker's inbox is gone (`InboxGone`), and what it held with it;
* `held`: the phase holds, the worker is registered, and the call that moved the
  phase has returned (`rpc = "idle"`);
* `flushes`: whose Flush is in the control channel or in hand and unanswered.

### Pipeline.tla

`Lines` lines of one source, `Depth` queues and a terminal, `Callers`
application threads, all five calls. `<<l, 0>>` is the source's thread,
`<<l, i>>` the worker behind queue i. The queues are those of Queue.tla at a
coarser grain: bells and timers become the conditions they wake a thread for,
and a request is taken, applied and acknowledged in one step. What is fine
grained instead is what the calls do between threads:

* a call is a list of stages (`Stages`): `seek` is Pause (if it was playing),
  Flush, Seek, Preroll, `await`, `retire`, Pause, and Resume if it was playing;
* a stage is `Says` (the state is written), `Snapshots` (the channels are read),
  `Sends` once per thread in the order of the code (`Rank`: of a chain the last
  queue first, then later branches, then sources), `Interrupts`, `Settles`;
* `stop` and `finish` give a preroll up before they ask for the lock (`Calls`);
  `stop` joins without the lock, `finish` with it (`Completes`, `Joins`);
* the end of a source's thread is four steps (`SourceReturns`, `DropsReceiver`,
  `SourceDrops`, `SourceJoins`), since a call that comes between any two finds
  something else: no source running, a receiver gone, a queue unregistered, a
  worker joined;
* the terminal is `TerminalTracer` around a sink that takes what it is handed.

A source's medium is samples 1..Length; a position is how many lie before. The
timeline of a segment is its index in `starts`.

Observation on the design: replacing `Stale` (the worker's `flushing` flag) by
FALSE changes nothing the model can see. With every thread paused before the
Flush, no item of the timeline left survives the emptied channels; the flag is
a second line of defence.

MCPipeline.tla has names for the lines and callers, and their symmetry (both are
interchangeable: no action tells two lines or two callers apart). It is used by
the runs of invariants and action properties only, never with liveness.

### Tee.tla, MCTee.tla

A Tee behind a source's one output, its branches' terminals right behind their
pads, the TeeHandle's calls on threads of their own, and Completion. The
pipeline's calls are the messages they send, in their order, each taken by the
source between two items; Pipeline.tla has what they do to threads and queues.

* `TeeLooks` copies the list of branches, decides for each whether it takes,
  keeps (`Owe`) or goes without an item; `TeeLocks`, `TeePushes` and
  `TeeReported` hand it to one of them under its pad's lock, a step each, since
  a branch may be finished or detached between any two. `CatchUp` is the segment
  a branch attached later hears first. `TeeOwes`, `TeeHandsOwed` are
  `hand_on_owed`, at a Resume or as a step begins.
* `FinishFinds`, `Deactivated`, `FinishPushes`, `FinishReported`, `JudgedWithout`
  and `FinishRemoves` are `finish_branch`; `Attach` and `Detach` are one step
  each, under the list's lock.
* `Checking`, `ReadGraph`, `ReadTimeline`, `Compare` are Completion's, on
  whichever thread ended a terminal or removed a branch. `said` (history) is the
  set of timelines Finished went out for.
* `tee.left` is the set of branches still to be handed to, the least first: the
  code's list is in the order of their numbers. The preroll is looked at with each
  branch, where the code looks once as it begins: the two agree, since a call
  that begins or ends a preroll finds the source paused (`Still`, below).

All branches are attached through the handle; the second one's route lets no
buffer by. Preroll timeouts, the pause call by itself and Stop are left out.
`got` is kept since the last flush, `heard` for good; `OpReturns` is over where a
terminal refused its end, or a branch came after the stream's.

### Driven.tla

A pipeline without a thread: `at` is where the lane's thread is (`recv`,
`clear`, then a poll: `poll`, `take`, `drain`, `produce`, `end`, `over`, or the
one of `drop`). A wake is the mark `queued` and, if it was not set, a Ready on
its way (`senders`, then `line`). The poll is SourceStage::drive: requests, what
Parking holds back, the source asked, as far as that gets.

* One pipeline on one lane. Handles' calls are serialized by `operation`, so one
  caller has the generality of several.
* A buffer's number is when it is due. A deadline is how many ticks are left;
  the timer's heap is the set of them, of which `armed` is what the pipeline
  believes it has handed over.
* `starting()`'s failure is `Fails`. Parking's bound in bytes, unlinked outputs,
  prerolls, the choice of a lane and an executor other than the runner are left
  out.

### Broadcast.tla, MCBroadcast.tla

Everything about a broadcast is under one lock, so a call of a handle, a sink or
a reader is one action, and what the module is about is their order:

* `Write`, `WriteLeftOver`, `End`, `Flush` are what a `BroadcastSink` does when
  it is handed a packet, when it drains, stops or is dropped, and when it is
  flushed. A refused packet changes nothing and is no action. `Seek` is the
  pipeline that writes, whose flush then reaches the sinks one by one.
* `NextIn` is `next_in`, a function from a reader to the item it is handed and
  the reader after; `Poll`, `Open`, `TryNext` are those who call it: a future, a
  `BroadcastSource` as it is made, and one as it runs. `left` is the waker a
  reader has put in since the last wake, where the code compares a count of
  wakes; `woken` is both a task that was woken and a bell that was rung.
* `open` and `flushed` are the code's vectors of flags as sets; `starts` is the
  deque, kept as the code keeps it, one entry dropped at a time.
* `letGo`, `cut`, `got`, `since`, `joinedAt`, `told` are history.

A packet is a track, a time, and whether it is a keyframe; all have one size.
Every packet carries a time, and those of a track do not go back. A seek reaches
every sink that is left before the next seek of that pipeline begins. Readers
share nothing but the number of them, which decides what is kept while there are
none; one reader that comes late is enough for that.

### PlaybackClock.tla, AvPlayback.tla

PlaybackClock has an operator for each method of `Clock` and `PlaybackClock`,
from the state it finds to the state it leaves, since each holds its lock
throughout. The code keeps an anchor and projects from it; the module keeps the
projection and moves it with every tick (`Projected`). The master is `Unavailable`,
`Wall`, `Priming`, `Audio` or `Fallback`.

AvPlayback is who calls which and when: the source, how far it has read ahead of
each end (queues, decoders and what Parking holds back are one distance, `Ahead`);
the picture's thread with what `VideoSynchronizer` keeps and waits for; the
sound's with the renderer, submitting, draining or idle, and the device's
timeline; and the calls, each as its stages, with a stage's writes (`Says`), its
requests (`Sends`), the interrupt and the settling as steps.

* Media is counted in pictures and every picture is one a seek can land on. The
  device plays at the pace of the clock, so `NoJumpBack` is about the position
  being handed over and not about drift. What is left of a frame after a trim
  is left out: a frame is trimmed whole or not at all.
* A stage's writes of the phase and of the clock are one step; a seek's interrupt
  comes with its Flush. One forward step is one picture. Rates, presentation
  delays, the numbers of registrations, preroll timeouts and device errors are
  left out, and of the renderers only the WASAPI one is modelled.
* As the branch of the sound leaves it is between two frames and its lane is
  taken with it.

## The runs

| run | instance | what it shows |
|---|---|---|
| QueueBlock | `Block` with a time limit, capacity 1, 2 items, 2 requests, 1 busy spell, 1 panic, with fairness | the safety properties of the queue in every interleaving, that it implements QueueSpec, and that a producer waiting at the full queue is let go |
| QueueRendezvous | `DropNewest`, capacity 0, 1 item, 2 requests, with fairness | requests and drops return; a rendezvous is let go of; a paused worker goes on when playback does |
| PipelineLine | 1 line of 2 queues, 2 samples, 2 callers, 2 calls of any kind, a failing source, prerolls that time out | the five safety properties of the pipeline |
| PipelineLive | 1 line of 1 queue, 2 callers, 2 calls of any kind, prerolls never given up, with fairness | every call returns |
| PipelineStopHangs | expected violation: a source that cannot be sought | finding 1 |
| PipelineLateBranch | expected violation: a branch attached later | finding 2 |
| Tee | 2 branches, one routed no buffer, and a third attached later, 3 buffers, 2 of seek, step and resume, 1 call of the handle, 1 refused end, 1 buffer kept per branch, with fairness | what each branch is handed, what is kept for it, what Finished says, that a seek or step returns |
| Driven | 2 outputs, 3 of buffers, segments and calls in any mix, a budget of 2, 2 held back at most | per-output order, no wake and no deadline lost, every end told |
| BroadcastKept | one publication, with and without video, 3 packets of 2 tracks, room for 2, two times more than `retain` apart, a dropped sink, a reader with two wakers or a bell | what is kept, where a reader starts, what it is handed, that it is woken |
| BroadcastRuns | 2 publications, a seek of each, 2 packets, every end, a reader | the runs are told apart |
| AvPlayback | 4 pictures, a sound two shorter, read 2 ahead, a device of 2 frames, 2 calls of any kind, the branch of the sound leaving, with fairness | the position against the device and itself, where a paused seek lands, that playing ends |
| AvShortSound | expected violation: 6 pictures, 1 frame of sound | finding 3 |

Properties, by the hazard they are for:

* *Ends of stream.* `EndsOwedExact`: the counter is exact. `OwedEndIsDelivered`:
  a worker whose queue was dropped does not leave an end behind, unless it was
  paused. `EndedIsDrained`: a line that ended by itself has played everything its
  source made. `NoTerminalUnfinished`: no terminal goes without a Stop or an end.
  `WholeAtItsEnd`: a driven output's end comes behind all that was made for it.
  `EveryOutputIsOver`: however a driven pipeline ended, its outputs have heard.
* *Pausing.* `PausedIsStill` (in Queue and Pipeline): from a pause's return to
  the next call nothing reaches a terminal, no worker holds an item. `AsAsked`:
  a driven source is paused exactly where the last call said.
* *Seeking.* `StreamInOrder` in Pipeline: a segment's samples come once and in
  order, and from the preroll on nothing of an older timeline arrives.
  `ReadyIsAtTarget`: a terminal counted ready has the one sample at the target,
  and stays there. `SeekLands`: the picture, the position and the sound a resume
  begins with are all where a paused seek was asked to go.
* *Fanning out.* `StreamInOrder` in Tee: each branch hears a segment first and its
  buffers in order, none twice, and its end last, whenever it came. `HeldAtItsSample`: one that has its sample
  is handed no more while siblings are waited for. `NothingIsKeptBack`: playing
  on, each has had all its route lets by. `EndIsLastOfHandedOut`: what is handed
  out does not come behind a finished branch's `Eos`. `FinishedIsEarned`,
  `NoEndIsMissed`: Finished is said of a timeline that ended, and is said.
  `EachInOrder`: each driven output's buffers in order, whatever turned ready when.
* *Wakes.* `WakeIsOnItsWay`: a driven pipeline that was asked something, or has a
  deadline, will be polled. `HeldIsLookedAt`: one that holds something back looks
  again. `NoWakeIsLost`: a reader that waits has nothing to read.
* *Failing.* `ToldGoneOnce`: a producer is told of a dead worker once, and never
  on account of a stop.
* *Runs of a broadcast.* `OneTimeline`: what is held was written by one
  publication since its last seek. `EndedIsTheEnd`: a run that ended stays so.
* *Reading a broadcast.* `StartsAtKeyInOrder`, `NothingIsMissed`: from a keyframe
  on a reader is handed everything, each track in order, none twice, the packets
  written ahead of the keyframe included. `RecentIsKept`: nothing of the last
  `retain` is let go of, measured on the times of the packets and not on those
  the broadcast gave them. `PositionsAreHeld`: no index is out of range.
* *The position.* `NeverAheadOfSound`, `NoJumpBack`.
* *Waiting.* `RequestReturns`, `ProducerReturns` (a queue's hand-over, carried
  request and drop), `PauseIsLeft`, `CallReturns`, `OpReturns`, `PlaysToItsEnd`.
* *The contract.* `KeepsContract`.

Type invariants: Broadcast's is checked by BroadcastKept and proved; Queue's,
AvPlayback's, Pipeline's and Tee's (with the bound on what a preroll keeps) are
proved, and a part of Driven's as `Types` of its invariant. All of them hold on the instances
above, and those that are listed in no configuration are left out for room.

### Bounds, and why they are enough

Every bound is a constant: `MaxItems`, `MaxRequests`, `MaxBusy`, `MaxPanics` in
Queue; `MaxOps`, `MaxFailures` in Pipeline; `MaxOps`, `MaxCalls`, `MaxFailures` in
Tee; `MaxDone` in Driven, over buffers, segments and calls together;
`MaxPackets`, `MaxPublications`, `MaxSeeks`, `MaxDrops`, `MaxJoins` in Broadcast;
`MaxCalls` and `Horizon` in AvPlayback.

*Queue.* Capacity 1 is full after one item, and capacity 0 is the other special
case. Two items are one that fills the queue and one that waits for room behind
it; in QueueBlock that wait ends in each of its four ways: room, an interrupt
while the queue is still full, the worker's end by a panic, and the time limit.
Two requests are the least for one to overlap with what the last left behind. The
safety properties are proved for every capacity and any number of items; the
liveness ones rest on these two instances.

*Pipeline.* Two queues in a line are the least that has a worker feeding a
worker. Two calls by two callers give every ordered pair of calls, concurrent or
one after another, and a source that fails beside them. Two samples with targets
at 0 and 1 put the seek's target at the next sample, and at one a source has
already made. Longer sequences of calls than two are not covered. Two lines side
by side, as `Lines = {l1, l2}` with `Depth = 1`, hold the same properties but take
longer than a run should.

*Tee.* A branch of each kind: one that takes all, one whose route takes none, one
attached at any moment. Three buffers are a sample, one kept and one lost past
`MaxOwed = 1`. Two calls give a seek or a step and what follows it. One call of
the handle at a time is enough for each race with the Tee. Two handles racing each
other are left to the proofs, and to what is said of `FinishedOncePerStream` below.
The proofs cover any number of branches, callers and calls, and any `MaxOwed`.

*Driven.* Three of anything put a buffer behind another held back for its sibling,
a segment or a call in between; two outputs are the least that interleave. The
proofs cover any number of all of these.

*Broadcast.* Three packets with room for two put a reader's position and its
window behind a keyframe across an entry that is let go of; two tracks are the
least a seek can be half way through; two publications the least with a sink that
was superseded. The two runs divide what is kept from which run it belongs to,
since the first needs packets and the second calls. `BroadcastRuns` drops no sink.
The proofs cover any number of tracks, readers, publications, packets and seeks.

*AvPlayback.* Four pictures read two ahead leave two yet to read, a device of two
frames is full and runs dry within them, and targets at 0 and 1 are the begin and
the sound's last; the sound ends two pictures early, so that the last of them needs
the wall clock to go on from it, and within what `Ahead` lets the source reach. Two
calls are a pause and what follows, a seek on a seek, a step and the resume that
lines up behind it. The proofs cover media and sequences of calls of any length.

### Fairness

In Queue.tla: the worker, whatever the producer is in the middle of, and the
pipeline from a request's sending to its settling are weakly fair, since each is
a thread that runs; timers run out; a downstream that is busy becomes ready.
Nobody has to make a call, to panic, or to reach `Block`'s time limit: QueueBlock
has the runs that reach it and those that never do, and `ProducerReturns` holds of
both. Weak
fairness is for the thread as a whole: which of several enabled branches of a
`select` it takes is left open. The properties exempt a paused pipeline, where
waiting is what is asked for.

In Pipeline.tla: weak fairness of `Asks` (who holds the lock), each caller, each
source's thread and each worker. Calling is not fair and failing is not.
`CallReturns` is checked with `Timeouts = FALSE`, so it does not lean on the
preroll's timeout. Acquiring the lock is fair enough because `MaxOps` is finite:
no caller is overtaken for ever.

In Tee.tla: weak fairness of the pipeline's call under way, of the source's
thread, and of each caller of the handle inside its call. The model has no
timeout of a preroll, so `OpReturns` does not lean on it.

In AvPlayback.tla: weak fairness of the call under way (`Carries`), the source's
thread, the picture's, the sound's, and of time. The branch's leaving and the
application's calls are not fair.

Driven.tla and Broadcast.tla state none: that a pipeline or a reader is woken is
put as what must be on its way in every state (`WakeIsOnItsWay`,
`HeldIsLookedAt`, `NoWakeIsLost`), which is what a wake's loss would break.

## Findings

1. **`stop` never returns** (`PipelineStopHangs`). A source that cannot be
   sought ends while its pipeline is paused: its thread is joining a worker that
   stays for the end it owes before a terminal that takes nothing. `stop` finds
   nothing running, leaves the phase alone, and joins (core/pipeline/
   lifecycle.rs:418-425).
2. **A branch attached later goes without its Stop** (`PipelineLateBranch`). Its
   queue is registered, and so sent to, after the one in front of the `Tee`,
   whose worker may end first and take it down (core/pipeline/lifecycle.rs:328).
3. **A sound that ends early freezes the pictures** (`AvShortSound`). `finish`
   hands the position to the wall clock, and a renderer calls it on the sound's
   `Eos`; the source makes that only at the file's end. Until then the position
   stops at the last of the sound (core/timing/playback_clock.rs:699), the
   pictures behind it wait, and once the source holds `MAX_INTERLEAVE` of them
   back it reads no further (core/parking.rs:268-275). Nothing moves again. That
   is so where the sound ends earlier than the pictures by more than
   `MAX_INTERLEAVE` and what queues and decoders hold.

### Disagreements without a run

Each is had with the change of constants, or the definition, named; the modules'
properties except them and say so.

Queue and Pipeline:

* A worker in its pause loop ends on the queue's drop whatever it owes
  (core/queue.rs:1259-1266): an end already in the channel is lost, where the look
  at downstream would have stayed for it (core/queue.rs:1073) and `owes_an_end`
  says the worker "stays until it has gone" (core/queue.rs:898-916). A source that
  cannot be parked in its last `produce` gets there. It is finding 1's start; in
  Queue it is `cause = "droppedPaused"`, which `OwedEndIsDelivered` excepts.
* With two lines, depth 1, one sample, `Seekable = FALSE` and `Ops = {"stop"}`,
  `NoTerminalUnfinished` fails: a line that is draining is no longer registered,
  so the stop its sibling is sent does not reach it, and ends it all the same.
* With `Ops = {"pause"}` instead, `PausedIsStill` fails: the draining line hands
  one more item on after `pause` has returned.
* Once `stop` has let go of the lock and before the sources have returned,
  another caller's pause or resume moves the phase out of Stopped.

Tee and Completion:

* `hand_on_owed` looks at `active` before it takes the pad's lock and not after
  (elements/filter/tee.rs:786-789), where `hand_out` looks again and
  `finish_branch` says that this is what puts the `Eos` last (tee.rs:619-621): a
  branch finished in between is handed a buffer kept for it, and a second `Eos`,
  behind its `Eos`. `EndIsLastOfHandedOut` excepts it (`tee.at = "owingLocks"`),
  and a second `finish_branch` of a branch whose first `Eos` was refused: its `Eos`
  comes behind nothing the branch heard as one.
* `FinishedIsTrue`: Finished is "every terminal has ended", and a branch may be
  attached, or a seek begin, after the graph and the timeline were read
  (core/pipeline/completion.rs:86-88).
* `FinishedOncePerStream`, with `Branches = {1, 2}`, `Initial = {1}`, two callers,
  `Length = 0`, `Ops = {"seek"}`, `MaxOps = 1` and `MaxCalls = 3`: a check that
  stops between its reads and its lock, while a seek begins and another check says
  Finished of the new timeline, says Finished of the one that was left
  (core/pipeline/completion.rs:86-95), and the next of the new one may say it
  again. The bus says "Posted once per stream, [...] and posted again only after a
  seek has sent a new stream through" (core/bus.rs:124-126). What is said was true
  of the graph and the timeline it was read of (`FinishedIsEarned`, proved).
* `AnEndIsNotMissed`: an `Eos` of `finish_branch`, counted on a timeline that a
  seek leaves before the branch is removed, is not looked at again.
* A step waits out its timeout for a branch attached after the end of the stream
  (core/pipeline/seek.rs:524-541).

Broadcast:

* `ClosedIsLast`: `Closed` says that "nothing more will come", and the sinks of a
  closed broadcast end or are flushed later: the reader is handed `Ended`, or
  `Ended` and `Started`, behind it (elements/broadcast/reader.rs:228, 277).
* Leaving `~cut` out of `EndedIsTheEnd`: a track that ends after a seek has
  reached it, before that seek has reached the other at its own end: the run
  is ended, the flush that opens the other begins none (elements/broadcast/
  state.rs:278-295), and what it writes comes after `Ended`, with `is_live` false.

Driven:

* `NothingAfterStop`: a runner dropped while its pipeline is paused and a finish
  or resume is made, or a stop, pause and resume between two polls, leave the Stop
  to be taken as what ends the pause, and the source goes on. `stop` says "Its
  next poll answers `Driven::Finished`" (core/pipeline/driven/mod.rs:474-475).
* A buffer held back while the source answers Nothing with its waker waits for the
  source's wake (`listens` in `HeldIsLookedAt`).

Position (left out of the runs by how they are set up, and read from the code):

* `Clock::pause` does nothing while the clock was never started (core/timing/
  clock.rs:94). In a run started paused, the first picture of a seek or a sound's
  publication starts it, and the position runs on in the pause. `SeekLands` is of
  the instant the seek returns.
* After a step with a sound, the pause that ends it publishes the device's old
  position again, though `position` "is `None` until playback moves on"
  (core/pipeline/seek.rs:474).
* Playing past the end of the sound before the renderer has played any of it — a
  seek there by keyframes, or to where all of it is trimmed — `finish` has no
  timeline to call it for: the master stays priming and the pictures wait for
  good. `PlaysToItsEnd` excepts it (`SoundMissed`).
* The PipeWire renderer, which is not modelled, does not trim to the priming
  target, says it runs before it has been primed, and keeps its timeline when it
  has finished.

## The proofs

### Queue_proofs

What the safety runs check of the queue, for every capacity, policy and bound.
From the four named assumptions on constants:

* `TypeCorrect`. The flags and the places are inductive by themselves. That
  `ends_owed` is a natural number is not: a decrement needs an end to take away.
  So `EndsInv` joins the types of the data to `EndsOwedExact` and to `Placed`
  (an item is in hand only where the place says so), and is inductive.
* `EndsOwedExactHolds` is a part of `EndsInv`. Its lemmas are about counting:
  `EndsAppend`, `EndsTail` say what one item more or fewer does to `Ends`.
* `OwedEndIsDeliveredHolds`, `ToldGoneOnceHolds` rest on `EndInv`: `Explained`
  (why a worker ended says what else is true: the drop it ended on was asked
  for and nothing is handed over any more, the stop it ended on has been said),
  `StopIsSaid` (a Stop of the pipeline's, in the channel or in hand, finds the
  phase stopped) and `Accounted` (an error was answered once, and on account of
  a worker that panicked or was carried a Stop).
* `PausedIsStillHolds` rests on `OneRequestOut` (the pipeline has at most one
  request out, and waits for it wherever it is) and `Still` (once a Pause has
  been answered, the worker it reached is in its pause loop, or over).

`KeepsContractHolds`: `Spec => Contract!Spec`, the refinement. The initial states
map to initial states. Most steps change nothing the contract speaks of
(`OtherStepsUnseen`), and each of the others has a lemma that names the
contract's step it is (`AcceptsStep`, `ForwardItemStep`, `DropInboxStep`,
`EnqueueStep`, ...). Beyond the invariants above it takes `OneCarryOut` (what the
producer carries across is out once, and waited for, so that a Flush that begins
is one that was not out) and `StopIsHeard` (a Stop is still on its way to a
registered worker, or the worker is over, so that a stopped pipeline does not
hand on). That nothing is handed on while `held` is `PausedIsStill`.

### Driven_proofs

`WakeIsOnItsWayHolds`, `HeldIsLookedAtHolds`: for any outputs, budget, wait and
bounds. `Inv` is what makes them inductive: `QueuedIsComing` (what is marked
queued is on its way, unless the lane is just clearing the mark), `SlotIsTask`
(the waker is in its slot from a poll's first step on, so a call that finds none
comes before it), `AskedIsComing` (what was asked behind the taking of requests
has another poll coming), `ArmedIsTimed` and `DueIsTimed` (a deadline the
pipeline takes for armed is the timer's), `WaitsForSomething` (a poll that asks
for no time is paused or has handed out its waker), `Added` and `Types`.

`AsAskedHolds` rests on `Agrees`: what is still to be enqueued and taken, `op`
behind `control`, ends in what the phase says, and with nothing of it left the
source is as the phase says. Only the last of a burst counts; that a request found
behind a pause merely leaves it is no harm to it.

`EachInOrderHolds` and `WholeAtItsEndHolds` rest on `Streams`. For every output,
`StreamIs` relates its log to what is held for it (`HeldOf`, in `deferred` and
`pending`): the log is in order (`LogIs`), all that is held comes behind all the log
has, an output that has had its end has nothing held and is over, and what was made
for it is in the log, let go of by a flush, or held - or was lost with a pipeline
that ended without handing it the end. `HeldIs` says what is held is of the segment
going and in the order it was made, and `Placed` that only a drain puts anything off,
and only of an output it found full: what makes the first of the rest the next of
its output. `PartForHas` is what the proofs know of `PartFor`, by the least place
where it fails. Each step is one of `BuffersFollow`, `SegmentFollows` on a log.

`EveryOutputIsOverHolds` adds `IsOver`: an output not owed its end has had it, and
the poll of a drop, after which there is none, has a stop still to take or took it.

### AvPlayback_proofs

`TypeCorrect`, `NeverAheadOfSoundHolds`, `NoJumpBackHolds`, `SeekLandsHolds`: for
media of any length, any device, and any sequence of calls, from no hypothesis. The
argument of the first three is that a renderer
loses its timeline with the position still its own only in a Flush its thread has
taken while held, after which nothing is said before the position is let go of.
`Staged` says how a call goes through its stages, `Holds` where the sound's thread
stands still in them, `Renders` what the renderer has been handed, and `Mastered`,
for each owner of the position, what the renderer is in and where the position
lies against it: in "audio" no further than what was handed, and published as
running only where the device runs, so that a tick moves both.

`SeekLandsHolds` rests on `Lands`, inductive on top of those:

* `Still`: every thread stands still while the pipeline is paused and through a flush,
  has taken its hold before a pause ends, and plays in no preroll; so the device is
  paused from the pause before a seek to the resume after it, and does not run.
* `Seeks`: a paused seek is in its flush, its preroll or the pause that ends it.
* `PictureLands`: what the flush reached is cleared; in the preroll the synchronizer
  has nothing, then the picture sought, then has shown it, and a terminal with its
  sample is handed no other, whatever is written of the phase meanwhile.
* `SoundLands`: in the preroll the renderer has nothing, then the frame sought, then
  has handed it to a device that plays none of it, and nobody says where playing is,
  so that a clock that runs on in the pause moves nothing. The pause that ends the
  seek says it, not running, as the sound's thread takes it.

### Broadcast_proofs

Every invariant the runs check of the broadcast, for any number of tracks, readers
and publications, any times, `retain` and bounds. Each rests on an invariant that
is inductive:

* `Held` (`TypeCorrect`, `PositionsAreHeldHolds`) joins the types to `StartsHeld`
  (the starts rise and are those of the entries held) and to `InPlace`, for every
  reader. `WriteIs` reduces a write to `Wrote`, which says of the entries before
  and after all the later proofs need; `FromWithinIs` and `ReadersTurn` reduce the
  steps to a packet written, a run begun, or what is kept left alone, and to one
  turn of one reader. `NextInIs` splits `next_in` into its seven answers.
* `Waking` (`NoWakeIsLostHolds`): a waker left is among those `WakeAll` wakes as
  long as its reader waits unwoken, so a reader that waits through a step either
  was woken by it or finds what it found before (`NextInKeeps`: an answer of
  nothing is answered again).
* `Seeking` and `OfTheSeek` (`OneTimelineHolds`): how far the seek under way has
  got, by `pending`, `gen` and `flushed`, so that a track that is not `LeftOver`
  writes of the seek the run began with.
* `OverIsOver` (`EndedIsTheEndHolds`): a reader handed the end stands behind all
  of a run that is not live, and `open` is empty with it unless a track ended in
  the middle of a seek, so nothing is written to it.
* `Reading` (`StartsAtKeyInOrderHolds`, `NothingIsMissedHolds`): what a reader was
  handed lies before where it stands; either it has joined and read nothing
  (`Ready`: what it will look back for begins behind all it was handed before), or
  it has all from its keyframe to where it stands and, of what it is `Owed` of the
  other tracks, all but what it still looks back for (`Under`). `LookBackReads`,
  `ReadOnReads`, `JoinedReads` and `EndReads` are the ways `next_in` goes on.
* `Timed` (`RecentIsKeptHolds`): what is held, and what was let go of for lying too
  far back, has in `at` its time on the run's timeline, which a write gives the
  early packets only as the first of the timeline's track comes (`FirstTimes`),
  and which no later write changes (`TimesStay`).

### Tee_proofs

`TypeCorrect`, `NoEndIsMissedHolds`, `FinishedIsEarnedHolds`,
`HeldAtItsSampleHolds`, `EndIsLastOfHandedOutHolds`, `StreamInOrderHolds` and
`NothingIsKeptBackHolds`, for any branches, routes, callers, bounds and calls, from
the two named assumptions on constants. `Inv` is inductive; its parts are, beside the types,

* `OwedBounded`: what is kept for a branch has at most `MaxOwed` buffers. A buffer
  is kept only where there is room in the whole, events included, which is why the
  bound on the buffers alone holds (`OweKeeps`).
* `Plan`: where the call under way is, and that the source stands still wherever a
  preroll begins or ends (`Still`): no hold changes while an item is on its way.
* `Locks`: whoever has a pad locked is at one of the places that hold it, for that
  branch; a branch not yet built is attached, finished, held and handed nothing.
* `Earned`: a terminal counted as ended on a timeline was handed the end of it
  (`heard`), and whoever counted it, or a check that read that timeline, is at it.
* `Over` and `Covered`: a branch that was finished is not active once its `Eos` is
  out; every attached terminal's end is covered by a thread still to compare, which
  will find all ended (`WillSay`), by Finished having been said, or by `unheard`.
* `HeldBack`: what is on its way to a branch that has its sample is what an earlier
  hold kept, or no buffer.

`PushesIs` and `PushLeft` say what a push changes and leaves, once for the Tee's
thread and the callers'. Each action has its lemma for each part it can disturb.

`StreamInOrderHolds` is from `Inv` and `Order`. `StreamInOrder` by itself speaks of
what was handed out already; `Order` follows an item on its way. It gives each its
`Rank` on its timeline (a flush, the segment, the buffers, the end), and says of
each branch (`Queued`) that the ranks rise from what its terminal was handed last
(`Top`), through what is kept for it or about to be pushed (`Pending`), to the item
in hand if it is still to come to it (`Waiting`), and that none is above what the
source has `Made`. Its other parts are where that could break:

* `Begun`: a branch the Tee has not handed the segment has been handed and is kept
  nothing of the stream, so `CatchUp` comes first, and once; `segment` is of the
  current timeline except while a seek is between its flush and its segment
  (`Renewing`).
* `Renewed`: once the flush has come to a branch its pad drops all but a segment,
  and from the flush to the segment nothing is kept for any. This is why the
  source may go back to fewer buffers then.
* `Live`: of a branch no longer active, and with nothing on its way, nothing is said
  but that what it was handed is in order: only `finish_branch`'s `Eos` still comes,
  and that is none of the stream's (`OfStream`).

A branch attached mid-stream joins with nothing handed and nothing kept
(`AttachOrder`); an end a terminal refuses, or a buffer dropped past `MaxOwed`,
leaves a gap in the ranks and no more. The actions that hand nothing over share
`TeeGoesOn` and `OrderStays`.

`NothingIsKeptBackHolds` is from `Inv`, `Order` and `Complete`. The property speaks
of a pipeline that plays with nothing on its way; `Complete` says at every step of
each branch that is there (`Whole`) what it has had and what is to come to it, one
with the other (`Comes`: handed to its terminal, kept for it, or about to be pushed):

* `Gapless`: the buffers that come have no gap among those its route lets by, up to
  the last made, or up to the one before it while that is in hand (`Reach`); a branch
  there from the start has them from the first of the timeline's on. Of a branch in
  `lost`, for which `Owe` dropped a buffer past `MaxOwed`, nothing of the kind is said.
* `SegmentNext`: a pad a flush left dropping buffers has the segment that lets go of
  it next: nothing is dropped between them that counts. `PadEnded`: a pad that has
  ended was handed an end last. Without these a push could drop what is to come.
* `EndNext`: the end of a source at its end has come to the branch or is on its way,
  unless a terminal refused something (`failures`).
* `Going`: once a call goes on playing nothing is held, and nothing kept once the
  Resume is answered: so all that comes has been handed over
  (`Had`, `AtEnd`).
* `Emptied`: from a seek's flush to its segment there is no buffer of its timeline,
  so `Gapless` begins anew with each seek; `InHand` and `Counted` tie the item in
  hand to what the source has made, and `Unbuilt` a pad nobody uses yet.

`StaysComplete`, `QuietComplete`, `RenewingComplete` and `HandsNextComplete` are the
ways a step leaves it; a push hands over what was to come next (`FirstPasses`).

### Pipeline_proofs

`TypeCorrect`, `PausedIsStillHolds` and `NoTerminalUnfinishedHolds`, for any lines,
depth, capacity, media, targets, callers and calls, from the six named assumptions on
constants.

`TypeCorrect` is from `Counts`, which joins to the types (`Types`, a part for each
group of variables) what they rest on:

* `Plan`: what is left of the call under way is one of the seventeen tails of the
  lists `Stages` makes (`StagesAre`, `Leaves`), and says which call it is, whether
  the pipeline ends up paused, and the phase the stage that is out has led to.
* `RunningIs`: `running` is the number of sources whose thread has not taken
  itself off it, so it never goes below zero.
* `SeeksCounted`: the timelines there have been, and the seeks that may still
  begin one, are at most one more than the calls made. That is why the bound on
  `timeline` holds: by itself it is not inductive.
* `ItemTypes`: what is queued, or in hand where the place says so, is of a timeline
  there has been.

`PausedIsStillHolds` has the hypothesis `Seekable`, and needs it: without it the
property is false (*Disagreements without a run*, the draining line). The code
has it for every pipeline whose sources are `SeekableSource`s, which linger at
their end, and PipelineLine checks the property for such. It rests on `Protocol`:

* `ControlIs`: a thread's control has the request that is out, for which it is
  waited for, and a Stop carried from upstream, each once at most.
* `Carrying`: a Stop that is carried is on its way from the source down without a
  gap, and whoever carried it further finds what it feeds over.
* `Registered`: a queue is registered until the thread that feeds it drops it, and
  a thread is done only once all behind it are.
* `FinishIs`, `Follows`: a thread that is over has left nothing running behind it,
  but where a Stop that is out has yet to reach the worker, or a finish drains the
  line. So whoever is no longer registered when a Pause is sent is over
  (`LeftOutIsOver`), although nobody asked it.
* `PauseReaches`: while a Pause is out, whom it has reached is paused, over, or
  carrying; `StandsStill`: once all have answered, everyone is paused with nothing
  asked of it, or over. No one can be carrying then: its source would be.

`NoTerminalUnfinishedHolds` has two hypotheses, and each is needed: run
PipelineLateBranch is the property failing of a line with a queue built late
(finding 2), and without `Seekable` the draining line again ends unheard
(*Disagreements without a run*). Both hold of PipelineLine, which checks the
property. It rests on `Finishes`, which is inductive on top of `Types` and
`Protocol`, and which TLC found to hold of two lines of two and of three queues
before it was proved. What a thread that is over leaves behind it is the point of
it (`LeavesEnd`): the last worker of its line is over, or has the Stop it was
asked, or a finish is draining the line, its source gone, its pad ended and
nothing left before the thread (`Drains`, `Drained`). And a last worker that is
over was handed the one or the other (`LineEnds`). The rest is what that needs:

* `LineOpen`: while a line plays, its pad is not flushing, every queue a seek has
  flushed has that seek's segment still to come (`Met`), and if the pad has ended
  the end is on its way with nothing behind it, or was taken (`EndOnWay`). So a
  worker that finds its queue dropped and empty has no end to miss. Nothing is
  said of the pad from a seek's Flush to the source's answer (`Renewing`).
* `Begun`, `Lingers`: a source yet to begin has ended nothing; one that lingers has
  its end out, or was sought and goes on.
* `Asked`, `InTurn`: who is waited for has the request in its control, and the last
  worker of a line is asked before those in front of it, so that a Stop that ends
  one of them is already with the last.
* `ResumeReaches`, `PlaysOn`, `StoppedIsOver`: playing leaves no worker in its
  pause, where it would drop its end with its queue, and stopped leaves none at all.

The lemmas named `...Stays` say what a step may do to one part, and
`WorksOnKeeps`, `GoneKeeps`, `CarriesProtocol` and `CallerKeeps` gather the steps
that do it alike; each action has one lemma for `Counts` and one for `Protocol`.

### PipelineStreams_proofs

`StreamInOrderHolds` and `ReadyIsAtTargetHolds` have no hypothesis; `EndedIsDrainedHolds`
has two. `StreamInOrderHolds` rests on `Streams`, inductive on top of
`Types` and what is known of requests (`Known`: `Protocol` where every source can be
sought; `NoSeek`, that there is one timeline and nothing is flushed, where one cannot).
TLC found each part to hold of a line of two queues, of sources that can be sought
and of ones that cannot, before it was proved. Every item has a place in its line,
the greater the nearer to the terminal (`Lies`), and a place is clear while no
worker from there on has left its loop (`Clear`): what is behind one that has will
not get to the terminal, and nothing is promised of it. In parts:

* `Ascends`, `Ordered`: what is in a queue, and from queue to queue, is in the order
  of the segments and of the samples in them. `Topped`, `Made`, `TopMade`: all of it
  is behind what the terminal was handed, and within what the source has made.
* `Fresh`: what will get to the terminal is of the current timeline, but from a
  seek's new timeline to the end of its flush. `FlushIsOut` is that stretch; a worker
  could take an old item in it, were it not paused (`Quiet`), and the queues are
  empty after it (`FlushReaches`, `FlushedIsClear`).
* `Gapless`, `LastMade`: the sample before one, or the last made before an end, is
  nearer to the terminal or was handed to it. This is what a drop, which lets go of
  a whole queue, would break if anything behind it could still arrive.
* `FlushMet`, `FirstOnly`: a queue that is flushing has in front of it nothing of
  the new timeline, so what it drops until that segment is old; a segment that does
  not end the flushing is only the first timeline's, which none has flushed for.
* `SourceIs`: what segment a source is in, and when its pad has ended or flushes.

Five lemmas say what may happen to a line, each keeping all of `Flow`: nothing comes
nearer that was not on its way (`StaysFlow`), an item moves one place on
(`MovesFlow`), the terminal takes the nearest (`TakesFlow`), the source brings the
next (`FeedsFlow`), a timeline begins or a queue is flushed for it (`RenewsFlow`).
Each action is shown to be one of them.

`ReadyIsAtTargetHolds` rests on `PrerollIs`, inductive on top of those:

* `ReadyStays`: the worker before a terminal that is ready is not in its select, where
  it would hand the terminal one more. It looks at the terminal before it selects,
  and none is at the select already when the preroll begins, for every one is paused
  (`Quiet`, which lasts from the flush until the preroll).
* `Renewed`: from the new timeline to its preroll a terminal has been handed nothing
  of it. `Readies`: a terminal that is ready has one sample, or the end, and one that
  is not has at most the segment. The sample is the one at the target because the
  stream is in order (`Streams`), which is where the two theorems meet.

`EndedIsDrainedHolds` rests on `Draws`, inductive on top of `Streams` and `Finishes`,
where every source can be sought and every queue was built with the rest of its line:
the hypotheses of `NoTerminalUnfinished`. TLC finds `EndedIsDrained` violated without
either, by the ends that `Finishes` then does not keep. In parts:

* `DryIsDrawn`: while a line plays and no Stop is out, once its pad has ended on the
  current timeline, an empty line means a terminal that was handed all the source
  made. Only by what the terminal takes does a line go dry (`WorkerDries`): a worker
  that drops its queue keeps what it dropped from nobody but one that is over, and the
  last sample made is in the line or was handed over (`LastMade`).
* `DrainsIts`: a finish lets a line drain on the timeline it is on; the pipeline is
  held by that finish, and no seek repositions the source meanwhile.
* `OverIsDrawn`: a line that is over without having heard a Stop has been handed all
  of that, and its source has left its loop, so it makes no more. Its last worker gave
  up on an empty line (`DroppedLeaves`), or took the end its source sent last.

### Only model-checked

All liveness: fairness and ENABLED are outside the prover. Every safety property the
runs check, invariant or action property, is stated by a theorem.

## Not modelled

Of the pipeline: a thread that cannot be spawned; reverse playback and the rate;
a threaded source with several outputs; policies other than `Block` and time
limits in a line (Queue has them); topology that changes during a preroll. Of the
Tee: preroll timeouts, chains behind its branches, contracts. Of Parking: its bound
in bytes. Of driven pipelines: several on a lane, the choice of a lane, executors
of one's own. Of the broadcast: the timeline a `BroadcastSource` puts what it reads
on and the end it comes to where the tracks differ, the wait on the condition
variable (woken with the others), the wait for the number of readers, packets
without a timestamp, the counts. Of the position: reverse playback, rates,
presentation delays, drift of the device against the clock, the other renderers.
Of the queue: one without a pipeline, and its counters.

The repository is some 260 000 lines, and nearly all of them are GPU kernels,
shaders and drivers, capture devices, codecs and muxers through FFmpeg, network
servers, inference, and a window's event loop: calls into external libraries and
per-pixel or per-sample arithmetic, whose states are the device's. What is there
to get wrong in an order of steps is in the some 40 000 lines, tests included, of
`core` and `elements/broadcast`. A model of the rest would be of what
these libraries are believed to do, and so the modules cover a small share of the
lines and most of the concurrency.

## Plan

1. `Stash`, `Line` and `Rack`: elements replaced while buffers flow and a preroll
   holds.
2. The other sources and sinks with a state machine of their own, `app_source.rs`,
   `pipeline_bridge.rs` and the mixer's alignment first.
