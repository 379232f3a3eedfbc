--------------------------------- MODULE Tee ---------------------------------
(***************************************************************************)
(* A Tee (lib/src/elements/filter/tee.rs) behind a source's one output:    *)
(* what it hands to each branch and keeps for one a preroll holds, on the  *)
(* source's thread; branches attached, finished and detached meanwhile, on *)
(* threads of their own; and, each branch being a terminal right behind    *)
(* its pad, who says that the pipeline has finished                        *)
(* (core/pipeline/completion.rs).                                          *)
(*                                                                         *)
(* The pipeline's calls are the messages they send in the order they send  *)
(* them, each taken by the source between two items before the next is     *)
(* sent; module Pipeline has what they do to queues and threads.           *)
(***************************************************************************)
EXTENDS Integers, Sequences, FiniteSets, SequencesExt, FiniteSetsExt

CONSTANTS
    Branches,     \* the branches there may be: 1 .. n
    Initial,      \* those attached before the pipeline runs: 1 .. k
    Takes,        \* the buffers each branch's route lets by
    Callers,      \* the threads that call the TeeHandle
    Length,       \* buffers of the stream
    Targets,      \* how many of them a seek may land behind
    MaxOwed,      \* MAX_OWED
    Ops,          \* the calls of the pipeline: of "resume", "seek", "step"
    MaxOps,       \* bound: calls of the pipeline
    MaxCalls,     \* bound: calls of the TeeHandle
    MaxFailures   \* bound: ends a terminal refuses

None == "none"
Never == -1  \* no timeline
Source == "source"
Threads == {Source} \cup Callers

ASSUME BranchesAssumption ==
    /\ IsFiniteSet(Branches) /\ Branches = 1 .. Cardinality(Branches)
    /\ Initial \subseteq Branches /\ Initial = 1 .. Cardinality(Initial)
    /\ Targets \subseteq 0 .. Length
    /\ Takes \in [Branches -> SUBSET (1 .. Length)]
    /\ Callers \cap {Source, None, "unbuilt"} = {}
ASSUME BoundsAssumption ==
    /\ \A n \in {Length, MaxOwed, MaxOps, MaxCalls, MaxFailures} : n \in Nat
    /\ Ops \subseteq {"resume", "seek", "step"}

VARIABLES
    phase,       \* "playing", "paused", "prerolling"
    context,     \* the preroll whose holds are in force, if any
    timeline,    \* the current one
    todo,        \* the stages left of the pipeline's call under way
    asked,       \* the message on its way to the source
    paused, stepped,
    source,      \* where the source is, what it has made, whether it is paused
    tee,         \* what the source's thread is doing inside the Tee
    segment,     \* Tee::segment
    owed,        \* Tee::owed
    attached,    \* the branches of the list and of the graph
    active, hasSegment,
    pad,         \* each branch's pad, and the thread that has it locked
    on,          \* TerminalTracer::timeline
    ended, posted,  \* Completion's Ends
    check,       \* of each thread: where it is in Completion::check
    call,        \* what each caller is doing
    ops, calls, failures,     \* counted against the bounds
    got,         \* history: what each terminal was handed since its last flush
    heard,       \* history: the timelines it was handed an end of
    said,        \* history: the timelines Finished went out for
    finished,    \* history: the branches finish_branch sent their end
    unheard,     \* history: the timelines on which a branch was removed that
                 \* was finished on another
    lost         \* history: those that lost buffers past MaxOwed since a flush

playback == <<phase, context, timeline>>
pipeline == <<todo, asked, paused, stepped, ops>>
topology == <<attached, active>>
ends     == <<ended, posted, said, check>>
handle   == <<call, calls>>
terminal == <<pad, on, got, heard, unheard, failures>>
vars == <<playback, pipeline, source, tee, segment, owed, topology, hasSegment,
          terminal, ends, handle, finished, lost>>

Buffer(tl, n) == [is |-> "buffer", tl |-> tl, n |-> n]
Segment(tl, flushed) ==
    [is |-> "segment", tl |-> tl, n |-> IF flushed THEN 1 ELSE 0]
Eos(tl) == [is |-> "eos", tl |-> tl, n |-> 0]
FlushOf(tl) == [is |-> "flush", tl |-> tl, n |-> 0]
Nothing == Eos(0)
Kept(seq) == seq # <<>>

-----------------------------------------------------------------------------
(* The pipeline and its source.                                            *)

NoContext == [on |-> FALSE, expected |-> {}, ready |-> {}]
Holds == phase = "paused"
IsReady(b) == context.on /\ b \in context.ready

HasEnded(b) == ended[b] = timeline

SeekStages == <<"Flush", "Seek", "Preroll", "await", "Pause">>
PauseFirst == IF paused THEN <<>> ELSE <<"Pause">>
GoOn == IF paused THEN <<>> ELSE <<"Resume">>

Stages(o) ==
    CASE o = "resume" /\ ~stepped -> <<"Resume">>
      [] o = "resume" /\ stepped -> SeekStages \o <<"Resume">>
      [] o = "seek" -> PauseFirst \o SeekStages \o GoOn
      [] o = "step" -> PauseFirst \o <<"Step", "await", "Pause">>

\* A terminal has taken a picture since the last flush.
Shown(b) ==
    \E i \in DOMAIN got[b] :
        /\ got[b][i].is = "buffer"
        /\ \A j \in i .. Len(got[b]) : got[b][j].is # "flush"

Calls(o) ==
    /\ todo = <<>> /\ asked = None
    /\ ops < MaxOps
    /\ o = "step" => \E b \in attached : Shown(b)
    /\ ops' = ops + 1
    /\ todo' = Stages(o)
    /\ paused' = (o = "step" \/ (o = "seek" /\ paused))
    /\ stepped' = (o = "step")
    /\ UNCHANGED <<playback, asked, source, tee, segment, owed, topology,
                   hasSegment, terminal, ends, handle, finished, lost>>

Expecting(S) == [on |-> TRUE, expected |-> S, ready |-> {}]

\* What a stage changes, and the message it sends.
Asks ==
    /\ asked = None
    /\ todo # <<>> /\ Head(todo) # "await"
    /\ LET stage  == Head(todo)
           taking == {b \in attached : ~HasEnded(b)}
       IN /\ phase' = CASE stage = "Pause" -> "paused"
                        [] stage = "Resume" -> "playing"
                        [] stage = "Preroll" -> "prerolling"
                        [] stage = "Step" /\ taking # {} -> "prerolling"
                        [] OTHER -> phase
          /\ context' = CASE stage = "Resume" -> NoContext
                          [] stage = "Preroll" -> Expecting(attached)
                          [] stage = "Step" /\ taking # {} -> Expecting(taking)
                          [] OTHER -> context
          /\ timeline' = IF stage = "Flush" THEN timeline + 1 ELSE timeline
          /\ IF stage = "Step" /\ taking = {}
             THEN asked' = None /\ todo' = <<>>
             ELSE /\ asked' = IF stage = "Step" THEN "Preroll" ELSE stage
                  /\ todo' = Tail(todo)
    /\ UNCHANGED <<paused, stepped, ops, source, tee, segment, owed, topology,
                   hasSegment, terminal, ends, handle, finished, lost>>

\* A terminal that has left the graph is no longer waited for.
Departs(b) ==
    /\ asked = None /\ todo # <<>> /\ Head(todo) = "await"
    /\ b \in context.expected \ (context.ready \cup attached)
    /\ context' = [context EXCEPT !.ready = @ \cup {b}]
    /\ UNCHANGED <<phase, timeline, pipeline, source, tee, segment, owed, topology,
                   hasSegment, terminal, ends, handle, finished, lost>>

Awaited ==
    /\ asked = None /\ todo # <<>> /\ Head(todo) = "await"
    /\ context.expected \subseteq context.ready
    /\ todo' = Tail(todo)
    /\ UNCHANGED <<playback, asked, paused, stepped, ops, source, tee, segment, owed,
                   topology, hasSegment, terminal, ends, handle, finished, lost>>

-----------------------------------------------------------------------------
(* What the source does between two items.                                 *)

Idle == [at |-> "idle", item |-> Nothing, msg |-> None, left |-> {}, push |-> <<>>]

\* hand_out begins: the branches are those of the list now.
HandOut(item) ==
    /\ tee' = [tee EXCEPT !.at = "handing", !.item = item, !.left = attached]
    /\ segment' = IF item.is = "segment" THEN <<item>> ELSE segment

SourceBegins ==
    /\ source.at = "begin"
    /\ HandOut(Segment(timeline, FALSE))
    /\ source' = [source EXCEPT !.at = "running"]
    /\ UNCHANGED <<playback, pipeline, owed, topology, hasSegment, terminal, ends,
                   handle, finished, lost>>

MayProduce == asked = None /\ ~source.held /\ tee.at = "idle" /\ source.at = "running"

SourceProduces ==
    /\ MayProduce /\ source.made < Length
    /\ HandOut(Buffer(timeline, source.made + 1))
    /\ source' = [source EXCEPT !.made = @ + 1]
    /\ UNCHANGED <<playback, pipeline, owed, topology, hasSegment, terminal, ends,
                   handle, finished, lost>>

Takers == attached \cap active
HeldTogether(b) == context.on /\ context.expected \subseteq context.ready  \* mutant
Held(b) == IsReady(b)

\* ready_consume: what a held branch is handed is kept for it, so it stands in
\* nobody's way, unless every branch is held.
TeeReady ==
    /\ \A b \in Takers : ~Held(b) => ~Holds /\ pad[b].by = None
    /\ Takers # {} => \E b \in Takers : ~Held(b)

\* The end is handed on once the Tee is ready for it.
SourceEnds ==
    /\ MayProduce /\ source.made = Length
    /\ TeeReady
    /\ HandOut(Eos(timeline))
    /\ source' = [source EXCEPT !.at = "ended"]
    /\ UNCHANGED <<playback, pipeline, owed, topology, hasSegment, terminal, ends,
                   handle, finished, lost>>

\* A message, on its way through the Tee.
SourceTakes ==
    /\ asked # None /\ tee.at = "idle" /\ source.at # "begin"
    /\ IF asked = "Seek"
       THEN \E n \in Targets : source' = [source EXCEPT !.at = "running",
                                                       !.made = n, !.from = n]
       ELSE UNCHANGED source
    /\ tee' = [tee EXCEPT !.at = "flowing", !.msg = asked,
                          !.left = IF asked = "Flush" THEN attached ELSE {}]
    /\ UNCHANGED <<playback, pipeline, segment, owed, topology, hasSegment, terminal,
                   ends, handle, finished, lost>>

\* The source is done with the message: paused by a Pause, and going on once
\* playback has moved on.
Acked ==
    /\ tee' = Idle
    /\ asked' = None
    /\ source' = [source EXCEPT !.held = IF tee.msg = "Pause" THEN TRUE ELSE @ /\ Holds]

-----------------------------------------------------------------------------
(* A pad and the terminal behind it: SrcPad::push_item, and Completion.    *)

\* Whether `item` gets past the pad of branch b.
Passes(b, item) ==
    CASE item.is = "segment" -> item.n = 1 \/ ~pad[b].flushing
      [] item.is = "eos"     -> ~pad[b].flushing /\ ~pad[b].ended
      [] item.is = "buffer"  -> ~pad[b].flushing

EndsNow(b) == timeline  \* mutant: the end is of the timeline current as it comes

\* The timeline an end of branch b's terminal is of.
EndsOn(b) == IF on[b] = Never THEN timeline ELSE on[b]

\* Those it is of to the terminal, which has had no segment or its last.
HeardOn(b) == IF on[b] = Never THEN 0 .. MaxOps ELSE {on[b]}

Checking(of) == [at |-> "graph", terminals |-> {}, current |-> 0]
NotChecking == [at |-> None, terminals |-> {}, current |-> 0]

Reports(b, item, fails) == item.is = "eos" /\ Passes(b, item) /\ ~fails

\* `item` pushed to branch b by thread t, with the pad's lock, which `by` then has.
Push(t, b, item, by, fails) ==
    LET passes  == Passes(b, item)
        reports == Reports(b, item, fails)
    IN /\ fails => passes /\ item.is = "eos" /\ failures < MaxFailures
       /\ failures' = IF fails THEN failures + 1 ELSE failures
       /\ pad' = [pad EXCEPT ![b] =
              [flushing |-> @.flushing /\ ~(passes /\ item.is = "segment"),
               ended    |-> IF passes THEN reports ELSE @.ended,
               by       |-> by]]
       /\ got' = IF passes /\ ~fails THEN [got EXCEPT ![b] = Append(@, item)] ELSE got
       /\ heard' = IF reports THEN [heard EXCEPT ![b] = @ \cup HeardOn(b)] ELSE heard
       /\ on' = IF passes /\ item.is = "segment" THEN [on EXCEPT ![b] = item.tl] ELSE on
       /\ context' = IF context.on /\ passes /\ item.is # "segment" /\ ~fails
                     THEN [context EXCEPT !.ready = @ \cup ({b} \cap context.expected)]
                     ELSE context
       /\ ended' = IF reports THEN [ended EXCEPT ![b] = EndsOn(b)] ELSE ended
       /\ check' = IF reports THEN [check EXCEPT ![t] = Checking(b)] ELSE check
       /\ UNCHANGED <<phase, timeline, posted, said>>

ReadGraph(t) ==
    /\ check[t].at = "graph"
    /\ check' = [check EXCEPT ![t].at = "timeline", ![t].terminals = attached]
    /\ UNCHANGED <<ended, posted, said>>

ReadTimeline(t) ==
    /\ check[t].at = "timeline"
    /\ check' = [check EXCEPT ![t].at = "compare", ![t].current = timeline]
    /\ UNCHANGED <<ended, posted, said>>

AllEnded(t) ==
    /\ check[t].terminals # {}
    /\ \A b \in check[t].terminals : ended[b] = check[t].current

\* Under Completion's own lock; Finished goes out with it.
Compare(t) ==
    /\ check[t].at = "compare"
    /\ posted' = IF AllEnded(t) THEN check[t].current ELSE posted
    /\ said' = IF AllEnded(t) THEN said \cup {check[t].current} ELSE said
    /\ check' = [check EXCEPT ![t] = NotChecking]
    /\ UNCHANGED ended

Checks(t) ==
    /\ ReadGraph(t) \/ ReadTimeline(t) \/ Compare(t)
    /\ UNCHANGED <<playback, pipeline, source, tee, segment, owed, topology,
                   hasSegment, terminal, handle, finished, lost>>

-----------------------------------------------------------------------------
(* The Tee, on the source's thread.                                        *)

\* The list is in the order the branches were attached, which is that of their numbers.
Branch == Min(tee.left)
ToNext == [tee EXCEPT !.at = "handing", !.left = @ \ {Branch}, !.push = <<>>]

OweBounded(kept, item) ==  \* mutant: the bound is for the stream's events as well
    IF Len(kept) >= MaxOwed THEN kept ELSE Append(kept, item)

\* Kept for b as far as MaxOwed goes; what is not a buffer always is.
Owe(kept, item) ==
    IF Len(kept) >= MaxOwed /\ item.is = "buffer" THEN kept ELSE Append(kept, item)

RoutedAway(b, item) == item.is = "buffer" /\ item.n \notin Takes[b]

CatchUpNever(b) == <<>>  \* mutant

\* The segment, for a branch that has not had it.
CatchUp(b) ==
    IF b \in hasSegment \/ tee.item.is = "segment" THEN <<>> ELSE segment

\* What is kept for b once the item is.
WithItem(b) ==
    Owe(IF CatchUp(b) = <<>> THEN owed[b] ELSE Owe(owed[b], CatchUp(b)[1]), tee.item)

TeeLooks ==
    /\ tee.at = "handing" /\ tee.left # {}
    /\ LET b == Branch
       IN IF b \notin active \/ RoutedAway(b, tee.item)
          THEN tee' = ToNext /\ UNCHANGED <<owed, hasSegment, lost>>
          ELSE /\ hasSegment' = hasSegment \cup {b}
               /\ IF Held(b)
                  THEN /\ owed' = [owed EXCEPT ![b] = WithItem(b)]
                       /\ lost' = IF tee.item \in ToSet(WithItem(b))
                                  THEN lost ELSE lost \cup {b}
                       /\ tee' = ToNext
                  ELSE /\ tee' = [tee EXCEPT !.at = "locking",
                                  !.push = owed[b] \o CatchUp(b) \o <<tee.item>>]
                       /\ owed' = [owed EXCEPT ![b] = <<>>]
                       /\ UNCHANGED lost
    /\ UNCHANGED <<playback, pipeline, source, segment, topology, terminal, ends,
                   handle, finished>>

\* Detached meanwhile, it is handed nothing.
TeeLocks ==
    /\ tee.at = "locking" /\ pad[Branch].by = None
    /\ IF Branch \in active
       THEN /\ pad' = [pad EXCEPT ![Branch].by = Source]
            /\ tee' = [tee EXCEPT !.at = "pushing"]
       ELSE tee' = ToNext /\ UNCHANGED pad
    /\ UNCHANGED <<playback, pipeline, source, segment, owed, topology, hasSegment,
                   on, got, heard, unheard, failures, ends, handle, finished, lost>>

\* One item after another under the lock, which goes with the last of them.
TeePushes ==
    /\ tee.at = "pushing" /\ check[Source].at = None
    /\ \E fails \in BOOLEAN :
           LET last == Len(tee.push) = 1 /\ ~Reports(Branch, tee.push[1], fails)
           IN /\ Push(Source, Branch, Head(tee.push), IF last THEN None ELSE Source, fails)
              /\ tee' = IF last THEN ToNext
                        ELSE [tee EXCEPT !.push = Tail(@),
                              !.at = IF Len(tee.push) = 1 THEN "reporting" ELSE @]
    /\ UNCHANGED <<pipeline, source, segment, owed, topology, hasSegment, unheard,
                   handle, finished, lost>>

TeeHanded ==
    /\ tee.at = "handing" /\ tee.left = {}
    /\ IF tee.msg = None THEN tee' = Idle /\ UNCHANGED <<asked, source>> ELSE Acked
    /\ UNCHANGED <<playback, todo, paused, stepped, ops, segment, owed, topology,
                   hasSegment, terminal, ends, handle, finished, lost>>

\* A flush reaches the branches one by one.
TeeFlushes ==
    /\ tee.at = "flowing" /\ tee.left # {}
    /\ tee' = [tee EXCEPT !.left = @ \ {Branch}]
    /\ LET b == Branch IN
       IF b \in active
       THEN /\ pad[b].by = None
            /\ pad' = [pad EXCEPT ![b].flushing = TRUE]
            /\ got' = [got EXCEPT ![b] = <<FlushOf(timeline)>>]
       ELSE UNCHANGED <<pad, got>>
    /\ UNCHANGED <<playback, pipeline, source, segment, owed, topology, hasSegment, on,
                   heard, unheard, failures, ends, handle, finished, lost>>

HandsOnPlaying(msg) == msg = "Resume"  \* mutant: not for a step

\* Told to go on, a branch is handed what was kept for it.
HandsOn(msg) == msg \in {"Resume", "Preroll"}

\* What is left of a message once the branches have been told.
TeeFlowed ==
    /\ tee.at = "flowing" /\ tee.left = {}
    /\ CASE tee.msg = "Flush" ->
                Acked /\ owed' = [b \in Branches |-> <<>>] /\ lost' = {} /\ UNCHANGED segment
         [] tee.msg = "Seek" ->
                HandOut(Segment(timeline, TRUE)) /\ UNCHANGED <<asked, source, owed, lost>>
         [] HandsOn(tee.msg) ->
                /\ tee' = [tee EXCEPT !.at = "owing", !.left =
                              {b \in attached : owed[b] # <<>>}]
                /\ owed' = [b \in Branches |-> IF b \in attached THEN owed[b] ELSE <<>>]
                /\ UNCHANGED <<asked, source, segment, lost>>
         [] OTHER -> Acked /\ UNCHANGED <<owed, segment, lost>>
    /\ UNCHANGED <<playback, todo, paused, stepped, ops, topology, hasSegment, terminal,
                   ends, handle, finished>>

\* hand_on_owed, item by item: the branch is looked at before its pad is
\* locked, and not after.
TeeOwes ==
    /\ tee.at = "owing"
    /\ IF tee.left = {} THEN Acked /\ UNCHANGED owed
       ELSE /\ UNCHANGED <<asked, source>>
            /\ IF owed[Branch] = <<>> \/ Branch \notin active
               THEN /\ owed' = [owed EXCEPT ![Branch] = <<>>]
                    /\ tee' = [tee EXCEPT !.left = @ \ {Branch}]
               ELSE tee' = [tee EXCEPT !.at = "owingLocks"] /\ UNCHANGED owed
    /\ UNCHANGED <<playback, todo, paused, stepped, ops, segment, topology, hasSegment,
                   terminal, ends, handle, finished, lost>>

TeeHandsOwed ==
    /\ tee.at = "owingLocks" /\ pad[Branch].by = None
    /\ \E fails \in BOOLEAN :
           LET item    == Head(owed[Branch])
               reports == Reports(Branch, item, fails)
           IN /\ Push(Source, Branch, item, IF reports THEN Source ELSE None, fails)
              /\ tee' = [tee EXCEPT !.at = IF reports THEN "owingHolds" ELSE "owing"]
    /\ owed' = [owed EXCEPT ![Branch] = Tail(@)]
    /\ UNCHANGED <<pipeline, source, segment, topology, hasSegment, unheard, handle,
                   finished, lost>>

\* The end was the last of what was pushed, and has been reported.
TeeReported ==
    /\ tee.at \in {"reporting", "owingHolds"} /\ check[Source].at = None
    /\ pad' = [pad EXCEPT ![Branch].by = None]
    /\ tee' = IF tee.at = "reporting" THEN ToNext ELSE [tee EXCEPT !.at = "owing"]
    /\ UNCHANGED <<playback, pipeline, source, segment, owed, topology, hasSegment, on,
                   got, heard, unheard, failures, ends, handle, finished, lost>>

TeeSteps ==
    \/ TeeLooks \/ TeeLocks \/ TeePushes \/ TeeHanded
    \/ TeeFlushes \/ TeeFlowed \/ TeeOwes \/ TeeHandsOwed \/ TeeReported

-----------------------------------------------------------------------------
(* The TeeHandle.                                                          *)

NoCall == [at |-> "idle", branch |-> 0, failed |-> FALSE]
MayCall(c) == call[c].at = "idle" /\ check[c].at = None /\ calls < MaxCalls

Fresh == {b \in Branches : b \notin Initial /\ pad[b].by = "unbuilt"}

\* Refused while a call of the pipeline is under way.
Attach(c) ==
    /\ MayCall(c) /\ todo = <<>> /\ asked = None
    /\ Fresh # {}
    /\ LET b == Min(Fresh) IN
       /\ attached' = attached \cup {b}
       /\ active' = active \cup {b}
       /\ pad' = [pad EXCEPT ![b].by = None]
    /\ calls' = calls + 1
    /\ UNCHANGED <<playback, pipeline, source, tee, segment, owed, hasSegment, on, got,
                   heard, unheard, failures, ends, call, finished, lost>>

Detach(c, b) ==
    /\ MayCall(c) /\ b \in attached
    /\ attached' = attached \ {b}
    /\ active' = active \ {b}
    /\ check' = [check EXCEPT ![c].at = "graph"]
    /\ calls' = calls + 1
    /\ UNCHANGED <<playback, pipeline, source, tee, segment, owed, hasSegment, terminal,
                   ended, posted, said, call, finished, lost>>

FinishFinds(c, b) ==
    /\ MayCall(c) /\ b \in attached
    /\ call' = [call EXCEPT ![c] = [NoCall EXCEPT !.at = "finishing", !.branch = b]]
    /\ calls' = calls + 1
    /\ UNCHANGED <<playback, pipeline, source, tee, segment, owed, topology, hasSegment,
                   terminal, ends, finished, lost>>

DeactivatedLater(b) == active  \* mutant: only remove_branch deactivates it
Deactivated(b) == active \ {b}

FinishPushes(c) ==
    LET b == call[c].branch IN
    /\ call[c].at = "finishing" /\ pad[b].by = None
    /\ active' = Deactivated(b)
    /\ \E fails \in BOOLEAN :
           LET reports == Reports(b, Eos(-1), fails)
           IN /\ Push(c, b, Eos(-1), IF reports THEN c ELSE None, fails)
              /\ call' = [call EXCEPT ![c].failed = fails, ![c].at =
                              IF reports THEN "reporting" ELSE "removing"]
    /\ finished' = finished \cup {b}
    /\ UNCHANGED <<pipeline, source, tee, segment, owed, attached, hasSegment, unheard,
                   calls, lost>>

JudgedNever(c) == FALSE  \* mutant

FinishReported(c) ==
    /\ call[c].at = "reporting" /\ check[c].at = None
    /\ pad' = [pad EXCEPT ![call[c].branch].by = None]
    /\ call' = [call EXCEPT ![c].at = "removing"]
    /\ UNCHANGED <<playback, pipeline, source, tee, segment, owed, topology, hasSegment,
                   on, got, heard, unheard, failures, ends, calls, finished, lost>>

\* A branch that will not report its end is judged without now, unless it was
\* detached meanwhile.
JudgedWithout(c) == call[c].failed /\ call[c].branch \in attached

FinishRemoves(c) ==
    LET b == call[c].branch IN
    /\ call[c].at = "removing"
    /\ attached' = attached \ {b}
    /\ active' = active \ {b}
    /\ call' = [call EXCEPT ![c] = NoCall]
    /\ check' = IF JudgedWithout(c) THEN [check EXCEPT ![c].at = "graph"] ELSE check
    /\ unheard' = IF HasEnded(b) \/ call[c].failed THEN unheard
                  ELSE unheard \cup {timeline}
    /\ UNCHANGED <<playback, pipeline, source, tee, segment, owed, hasSegment, pad, on,
                   got, heard, failures, ended, posted, said, calls, finished, lost>>

HandleSteps(c) ==
    \/ Attach(c)
    \/ \E b \in Branches : Detach(c, b) \/ FinishFinds(c, b)
    \/ FinishPushes(c) \/ FinishReported(c) \/ FinishRemoves(c)

-----------------------------------------------------------------------------
Init ==
    /\ phase = "playing" /\ context = NoContext /\ timeline = 0
    /\ todo = <<>> /\ asked = None /\ paused = FALSE /\ stepped = FALSE
    /\ source = [at |-> "begin", made |-> 0, from |-> 0, held |-> FALSE]
    /\ tee = Idle
    /\ segment = <<>>
    /\ owed = [b \in Branches |-> <<>>]
    /\ attached = Initial /\ active = Initial /\ hasSegment = {}
    /\ pad = [b \in Branches |-> [flushing |-> FALSE, ended |-> FALSE,
                  by |-> IF b \in Initial THEN None ELSE "unbuilt"]]
    /\ on = [b \in Branches |-> Never]
    /\ ended = [b \in Branches |-> Never] /\ posted = Never /\ said = {}
    /\ check = [t \in Threads |-> NotChecking]
    /\ call = [c \in Callers |-> NoCall]
    /\ ops = 0 /\ calls = 0 /\ failures = 0
    /\ got = [b \in Branches |-> <<>>] /\ heard = [b \in Branches |-> {}]
    /\ finished = {} /\ unheard = {} /\ lost = {}

Next ==
    \/ \E o \in Ops : Calls(o)
    \/ Asks \/ Awaited \/ \E b \in Branches : Departs(b)
    \/ SourceBegins \/ SourceProduces \/ SourceEnds \/ SourceTakes
    \/ TeeSteps
    \/ \E t \in Threads : Checks(t)
    \/ \E c \in Callers : HandleSteps(c)

Spec == Init /\ [][Next]_vars

\* Every thread takes its steps, the pipeline's call, the source's and the
\* callers'; nobody has to call anything.
PipelineSteps == Asks \/ Awaited \/ \E b \in Branches : Departs(b)
SourceSteps ==
    \/ SourceBegins \/ SourceProduces \/ SourceEnds \/ SourceTakes
    \/ TeeSteps \/ Checks(Source)
CallerSteps(c) ==
    FinishPushes(c) \/ FinishReported(c) \/ FinishRemoves(c) \/ Checks(c)

Fairness ==
    WF_vars(PipelineSteps) /\ WF_vars(SourceSteps)
        /\ \A c \in Callers : WF_vars(CallerSteps(c))

FairSpec == Spec /\ Fairness

-----------------------------------------------------------------------------
(* Properties.                                                             *)

Items ==
    [is : {"buffer", "segment", "eos", "flush"}, tl : -1 .. MaxOps, n : 0 .. Length + 1]

\* Every variable keeps its type; what is kept for a branch is bounded but for
\* the stream's events.
TypeOK ==
    /\ phase \in {"playing", "paused", "prerolling"}
    /\ context \in [on : BOOLEAN, expected : SUBSET Branches, ready : SUBSET Branches]
    /\ context.ready \subseteq context.expected
    /\ timeline \in 0 .. MaxOps
    /\ source \in [at : {"begin", "running", "ended"}, made : 0 .. Length,
                      from : 0 .. Length, held : BOOLEAN]
    /\ owed \in [Branches -> Seq(Items)]
    /\ \A b \in Branches :
           Cardinality({i \in DOMAIN owed[b] : owed[b][i].is = "buffer"}) <= MaxOwed
    /\ attached \subseteq Branches /\ active \subseteq attached
    /\ \A b \in Branches : pad[b].by \in Threads \cup {None, "unbuilt"}
    /\ got \in [Branches -> Seq(Items)]
    /\ on \in [Branches -> Never .. MaxOps]
    /\ ended \in [Branches -> Never .. MaxOps] /\ posted \in Never .. MaxOps

\* All a terminal is handed is of the stream but the ends finish_branch sends.
OfStream(item) == ~(item.is = "eos" /\ item.tl = -1)

\* The item of the stream before place i of s; nothing is as after a flush.
Before(s, i) == {j \in 1 .. i - 1 : OfStream(s[j])}
Behind(s, i) == IF Before(s, i) = {} THEN FlushOf(0) ELSE s[Max(Before(s, i))]

\* Item y may come right behind x.
Follows(x, y) ==
    \/ y.is = "flush"
    \/ y.is = "segment" /\ x.is = "flush"
    \/ /\ y.is \in {"buffer", "eos"} /\ x.is \in {"segment", "buffer"}
       /\ x.tl = y.tl
       /\ x.is = "buffer" /\ y.is = "buffer" => x.n < y.n

\* A terminal hears a stream: at its first and after a flush the segment of the
\* timeline, before anything of it and nowhere else, whatever branch was
\* attached when; then its buffers in order and none twice, and its end, if it
\* has one, once and last.
StreamInOrder ==
    \A b \in Branches : \A i \in DOMAIN got[b] :
        OfStream(got[b][i]) => Follows(Behind(got[b], i), got[b][i])

\* The buffers of this timeline branch b was handed, by their numbers; and whether
\* the last it was handed of the stream is this timeline's end.
Had(b) ==
    {got[b][i].n : i \in {j \in DOMAIN got[b] : /\ got[b][j].is = "buffer"
                                               /\ got[b][j].tl = timeline}}
AtEnd(b) ==
    LET last == Behind(got[b], Len(got[b]) + 1) IN last.is = "eos" /\ last.tl = timeline

\* Playing on, between two items, nothing is still kept back from a branch: it
\* has had every buffer made that its route lets by, from the first it was
\* there for, but for those past MaxOwed; and the end, once the source has
\* handed it on.
NothingIsKeptBack ==
    phase = "playing" /\ todo = <<>> /\ asked = None /\ tee.at = "idle"
    /\ source.at # "begin" =>
        \A b \in attached \cap active \cap hasSegment :
            /\ b \notin lost /\ Had(b) # {} =>
                   Had(b) = {n \in Takes[b] : Min(Had(b)) <= n /\ n <= source.made}
            /\ b \in Initial /\ b \notin lost =>
                   Had(b) = {n \in Takes[b] : source.from < n /\ n <= source.made}
            /\ source.at = "ended" /\ failures = 0 => AtEnd(b)

\* The hold of a preroll: a branch whose terminal has its sample is handed no
\* more buffers until the preroll is over, though its siblings' go through the
\* same Tee; but for those kept from an earlier hold, which a step hands on as
\* it begins (Tee::hand_out, hand_on_owed).
HeldAtItsSample ==
    [][\A b \in attached :
           IsReady(b) /\ got'[b] # got[b] =>
               Last(got'[b]).is # "buffer" \/ tee.at = "owingLocks"]_got

\* The Eos a branch is finished with is the last thing it is handed of what
\* comes while it is finished: finish_branch against hand_out, which looks at
\* `active` again under the pad's lock (tee.rs:619-621, 871).  What a preroll
\* kept for it is another matter: hand_on_owed looks before the lock alone
\* (tee.rs:786-789), and a buffer and a second Eos may come behind the first. So
\* may the Eos of another finish_branch of it, where the first was refused.
EndIsLastOfHandedOut ==
    [][\A b \in finished :
           got'[b] # got[b] => tee.at = "owingLocks" \/ Last(got'[b]) = Eos(-1)]_got

\* Completion::check, with the graph and the timeline read before its lock:
\* Finished is said of a timeline only if every terminal it looked at that is
\* still attached was handed the end of that very timeline.
FinishedIsEarned ==
    [][\A t \in Threads :
           check[t].at = "compare" /\ check'[t].at = None =>
               \A b \in check[t].terminals \cap attached : posted' \in heard[b]]_posted

\* What the bus says of Finished, that every terminal has ended on the current
\* timeline, as it is said. It does not hold: a branch may be attached, or a
\* seek begin, after the graph and the timeline have been read.
FinishedIsTrue ==
    [][(\A b \in attached : ended[b] = posted') /\ posted' = timeline]_posted

\* "Posted once per stream, [...] and posted again only after a seek has sent a
\* new stream through" (core/bus.rs:124-126): each Finished is of a later
\* timeline than the last. It does not hold: of two checks that run at once the
\* slower may bring a timeline that a seek has left (completion.rs:87-88).
FinishedOncePerStream == [][posted' > posted]_posted

Quiet == \A t \in Threads : check[t].at = None
FinishUnderWay == \E c \in Callers : call[c].at # "idle"

\* Once every terminal attached has ended, and nobody is at it, Finished has
\* been said. It does not hold where finish_branch's Eos was counted on a
\* timeline that a seek leaves before the branch is removed: the last check is
\* the one that came with the Eos, and nothing looks again.
AnEndIsNotMissed ==
    Quiet /\ ~FinishUnderWay /\ attached # {} /\ (\A b \in attached : HasEnded(b))
        => timeline \in said

\* The end of the last terminal is not missed otherwise, whatever branch is
\* detached, or refuses its end, between Completion's looks (terminal_ended,
\* branch_removed).
NoEndIsMissed == timeline \notin unheard => AnEndIsNotMissed

\* A branch attached once the source has nothing more to make: a step waits for
\* it until its timeout.
AttachedAfterEnd == source.at = "ended" /\ attached \ hasSegment # {}

\* Every seek and step returns without its timeout: a held branch never keeps
\* what another waits for from it, and no end stays behind in the Tee.
OpReturns == (todo # <<>>) ~> (todo = <<>> \/ failures > 0 \/ AttachedAfterEnd)
==============================================================================
