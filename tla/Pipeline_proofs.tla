--------------------------- MODULE Pipeline_proofs ---------------------------
(***************************************************************************)
(* What Pipeline.tla promises for any number of lines, queues, callers and *)
(* calls: the types of the variables; that a paused pipeline is still; and *)
(* that no terminal is dropped unfinished.                                 *)
(***************************************************************************)
EXTENDS Pipeline, Stepwise, FiniteSetTheorems, SequenceTheorems, TLAPS

-----------------------------------------------------------------------------
(* The invariant, in parts.                                                *)

\* What is left of a call that leaves the pipeline paused, of one that goes on
\* to play, and of a finish.
ToPaused ==
    {<<"Pause">>,
     <<"retire", "Pause">>,
     <<"await", "retire", "Pause">>,
     <<"Preroll", "await", "retire", "Pause">>,
     <<"Seek", "Preroll", "await", "retire", "Pause">>,
     <<"Flush", "Seek", "Preroll", "await", "retire", "Pause">>}
ToPlaying ==
    {<<"Resume">>,
     <<"Pause", "Resume">>,
     <<"retire", "Pause", "Resume">>,
     <<"await", "retire", "Pause", "Resume">>,
     <<"Preroll", "await", "retire", "Pause", "Resume">>,
     <<"Seek", "Preroll", "await", "retire", "Pause", "Resume">>,
     <<"Flush", "Seek", "Preroll", "await", "retire", "Pause", "Resume">>,
     <<"Pause", "Flush", "Seek", "Preroll", "await", "retire", "Pause", "Resume">>}
ToStop == {<<"Stop">>}
ToFinish == {<<"Finish">>, <<"Resume", "Finish">>}
Flushing ==
    {<<"Flush", "Seek", "Preroll", "await", "retire", "Pause">>,
     <<"Flush", "Seek", "Preroll", "await", "retire", "Pause", "Resume">>,
     <<"Pause", "Flush", "Seek", "Preroll", "await", "retire", "Pause", "Resume">>}

\* The playback state and the preroll's slot.
PlayTypes ==
    /\ phase \in {"playing", "paused", "prerolling", "stopped"}
    /\ interrupt \in BOOLEAN /\ abandoned \in BOOLEAN /\ active \in BOOLEAN
    /\ starts \in Seq(0..Length) /\ timeline \in Nat \ {0}
    /\ preroll \in [on : BOOLEAN, ready : SUBSET Lines, cancelled : BOOLEAN]
    /\ paused \in BOOLEAN

\* The callers, and who holds the lock.
CallTypes ==
    /\ cpc \in [Callers -> {"idle", "locking", "asking", "joining"}]
    /\ call \in [Callers -> [op : Ops \cup {None}, to : Targets \cup {0}]]
    /\ calls \in 0..MaxOps
    /\ holder \in Callers \cup {None}
    /\ step \in {"say", "snapshot", "send", "acks"}
    /\ \A c \in Callers :
           /\ cpc[c] # "idle" => call[c].op \in Ops
           /\ cpc[c] = "asking" => holder = c
    /\ holder # None =>
           \/ cpc[holder] = "asking"
           \/ cpc[holder] = "joining" /\ call[holder].op = "finish" /\ todo = <<>>

\* What is left of the call under way, and the phase it has led to.
Plan ==
    /\ todo \in {<<>>} \cup ToPaused \cup ToPlaying \cup ToStop \cup ToFinish
    /\ holder = None => todo = <<>>
    /\ todo = <<>> => step = "say"
    /\ todo \in ToPaused \cup ToPlaying => call[holder].op \in {"pause", "resume", "seek"}
    /\ todo \in Flushing => call[holder].op = "seek"
    /\ todo \in ToStop => call[holder].op = "stop"
    /\ todo \in ToFinish => call[holder].op = "finish"
    /\ todo \in ToPaused => paused
    /\ todo \in ToPlaying \cup ToStop \cup ToFinish => ~paused
    /\ todo \in {<<>>, <<"Finish">>} => (phase = "paused" => paused)
    /\ todo # <<>> /\ todo[1] \in {"await", "retire"} => step = "say"
    /\ step # "say" =>
           /\ todo[1] = "Pause" => phase = "paused"
           /\ todo[1] = "Resume" => phase = "playing"
           /\ todo[1] = "Stop" => phase = "stopped"

ThreadTypes ==
    /\ tpc \in [Threads -> SourcePlaces \cup WorkerPlaces]
    /\ \A s \in Sources : tpc[s] \in SourcePlaces
    /\ \A w \in Workers : tpc[w] \in WorkerPlaces /\ (tpc[w] = "push" => ~IsLast(w))
    /\ back \in [Sources -> {"ask", "ending", "linger"}]

RequestTypes ==
    /\ sending \subseteq Threads /\ waiting \subseteq Threads /\ owing \subseteq Workers
    /\ sending \cap waiting = {}
    /\ sending # {} => step = "send"
    /\ waiting # {} => step \in {"send", "acks"}
    /\ control \in [Threads -> Seq([msg : StageNames, direct : BOOLEAN])]

QueueTypes ==
    /\ flushing \in [Workers -> BOOLEAN]
    /\ registered \in [Workers -> BOOLEAN] /\ dropped \in [Workers -> BOOLEAN]

SourceTypes ==
    /\ source \in [Lines -> [pos : 0..Length, seg : 0..timeline, sought : BOOLEAN]]
    /\ pad \in [Lines -> [flushing : BOOLEAN, ended : BOOLEAN]]
    /\ failed \subseteq Lines
    /\ \A l \in Lines : tpc[Source(l)] # "begin" => source[l].seg # 0

TerminalTypes ==
    terminal \in [Lines -> [seg : 0..timeline, from : 0..timeline, at : 0..Length,
                            ended : BOOLEAN, heard : BOOLEAN]]

\* What is in a queue or in hand is of a timeline there has been.
ItemsTo(tl) == {item \in Items : item.seg \in 1..tl /\ item.kind # None}
ItemTypes ==
    /\ channel \in [Workers -> Seq(ItemsTo(timeline))]
    /\ hand \in [Threads -> Items]
    /\ \A t \in Threads : tpc[t] = "push" => hand[t] \in ItemsTo(timeline)

\* Sources whose thread counts among those running.
Counted == {l \in Lines : tpc[Source(l)] \notin {"returned", "dropping", "joining", "done"}}
RunningIs == running = Cardinality(Counted)

\* The callers whose seek may still begin a timeline.
Seekers ==
    {c \in Callers :
        /\ call[c].op = "seek"
        /\ \/ cpc[c] = "locking"
           \/ c = holder /\ todo \in Flushing /\ (todo[1] = "Flush" => step = "say")}
SeeksCounted ==
    IsFiniteSet(Seekers) /\ timeline + Cardinality(Seekers) <= calls + 1

-----------------------------------------------------------------------------
\* Where a worker, and a source, handles no request any more, and where either
\* has dropped what it feeds.
Over == {"ending", "joining", "done"}
Left == {"returning", "returned", "dropping", "joining", "done"}
Quit == {"joining", "done"}
IsOver(t) == IF t \in Sources THEN tpc[t] \in Left ELSE tpc[t] \in Over

Finishing == holder # None /\ call[holder].op = "finish"
Out(msg) == todo # <<>> /\ todo[1] = msg /\ step \in {"send", "acks"}

\* What is in a thread's control: the request that is out, and a Stop carried
\* from upstream, each once at most.
ControlIs ==
    \A t \in Threads :
        /\ \A i \in 1 .. Len(control[t]) :
               IF control[t][i].direct
               THEN Out(control[t][i].msg) /\ t \in waiting
               ELSE control[t][i].msg = "Stop" /\ t \in owing
        /\ \A i, j \in 1 .. Len(control[t]) :
               control[t][i].direct = control[t][j].direct => i = j
        /\ tpc[t] = "carrying" => \A i \in 1 .. Len(control[t]) : control[t][i].direct

\* A Stop is carried from the source down, worker after worker.
Carrying ==
    /\ \A w \in owing :
           /\ tpc[Source(w[1])] = "carrying"
           /\ \A u \in Workers : u[1] = w[1] /\ u[2] < w[2] =>
                  u \in owing /\ tpc[u] = "carrying"
    /\ \A w \in Workers : tpc[w] = "carrying" => w \in owing /\ ~IsLast(w)
    /\ \A t \in Threads : tpc[t] = "carrying" =>
           After(t) \in owing \/ tpc[After(t)] \in Over

\* A queue is registered until it is dropped, and a thread gone once all behind it are.
Registered ==
    /\ \A w \in Workers :
           /\ registered[w] <=> tpc[Before(w)] \notin Quit
           /\ dropped[w] <=> tpc[Before(w)] \in Quit
    /\ \A t, u \in Threads : tpc[t] = "done" /\ u[1] = t[1] /\ u[2] > t[2] => tpc[u] = "done"

\* A source hands its end over for a finish, which waits for it.
FinishIs ==
    \A s \in Sources :
        tpc[s] = "finishing" => Out("Finish") /\ s \in waiting /\ control[s] = <<>>

\* A thread that is over leaves nothing running behind it, but where a Stop is
\* still to reach it, or it drains for a finish.
Follows ==
    /\ \A t \in Threads : IsOver(t) /\ ~IsLast(t) =>
           \/ tpc[After(t)] \in Over
           \/ Finishing
           \/ Out("Stop") /\ After(t) \in sending \cup waiting
    /\ Out("Stop") => \A w \in Workers : w \in sending \cup waiting \/ tpc[w] \in Over

\* What a Pause has reached is paused, or over.
PauseReaches ==
    Out("Pause") =>
        /\ \A w \in Workers : \/ w \in sending \cup waiting
                              \/ tpc[w] \in Over \cup {"paused", "carrying"}
        /\ \A s \in Sources : \/ s \in sending \cup waiting
                              \/ tpc[s] \in {"paused", "dropping", "joining", "done"}

\* Nothing runs between a call that left the pipeline paused and the next.
StandsStill ==
    phase = "paused" /\ todo = <<>> =>
        /\ \A w \in Workers : \/ tpc[w] \in Over
                              \/ tpc[w] = "paused" /\ control[w] = <<>>
        /\ \A s \in Sources : \/ tpc[s] \in {"dropping", "joining", "done"}
                              \/ tpc[s] = "paused" /\ control[s] = <<>>

Types ==
    /\ PlayTypes /\ CallTypes /\ Plan /\ ThreadTypes /\ RequestTypes /\ QueueTypes
    /\ SourceTypes /\ TerminalTypes /\ ItemTypes
Protocol ==
    /\ ControlIs /\ Carrying /\ Registered /\ FinishIs /\ Follows /\ PauseReaches
    /\ StandsStill

-----------------------------------------------------------------------------
(* What the parts are made of.                                             *)

\* The threads of a line, one behind the other.
LEMMA ThreadsAre ==
    /\ Depth \in Nat /\ Depth > 0
    /\ \A l \in Lines :
           /\ Source(l) \in Sources /\ Source(l) \in Threads
           /\ Source(l)[1] = l /\ Source(l)[2] = 0
    /\ \A s \in Sources :
           s \in Threads /\ s \notin Workers /\ s[1] \in Lines /\ s = Source(s[1]) /\ s[2] = 0
    /\ \A w \in Workers :
           w \in Threads /\ w \notin Sources /\ w[1] \in Lines /\ w[2] \in 1..Depth
    /\ \A t \in Threads : t[2] \in 0..Depth /\ t \in Sources \cup Workers
  <1>1. Depth \in Nat /\ Depth > 0
    BY SizesAssumption
  <1>2. \A t \in Threads : t[2] \in 0..Depth /\ t \in Sources \cup Workers
    BY <1>1 DEF Threads, Sources, Workers
  <1>3. \A w \in Workers :
           w \in Threads /\ w \notin Sources /\ w[1] \in Lines /\ w[2] \in 1..Depth
    BY <1>1 DEF Threads, Sources, Workers
  <1>4. \A s \in Sources :
           s \in Threads /\ s \notin Workers /\ s[1] \in Lines /\ s = Source(s[1]) /\ s[2] = 0
    BY <1>1 DEF Threads, Sources, Workers, Source
  <1>5. \A l \in Lines :
           /\ Source(l) \in Sources /\ Source(l) \in Threads
           /\ Source(l)[1] = l /\ Source(l)[2] = 0
    BY <1>1 DEF Threads, Sources, Source
  <1> QED  BY <1>1, <1>2, <1>3, <1>4, <1>5

\* The worker behind a thread, and the thread before a worker.
LEMMA Neighbours ==
    /\ \A t \in Threads : ~IsLast(t) =>
           /\ After(t) \in Workers /\ Before(After(t)) = t /\ After(t) # t
           /\ After(t)[1] = t[1] /\ After(t)[2] = t[2] + 1
    /\ \A w \in Workers :
           /\ Before(w) \in Threads /\ ~IsLast(Before(w)) /\ After(Before(w)) = w
           /\ Before(w) # w
           /\ Before(w)[1] = w[1] /\ Before(w)[2] = w[2] - 1
    /\ \A s \in Sources : ~IsLast(s)
    /\ \A w, u \in Workers : w[1] = u[1] /\ w[2] = u[2] => w = u
    /\ \A t \in Threads : \A u \in Workers :
           u[1] = t[1] /\ u[2] > t[2] => ~IsLast(t) /\ (u = After(t) \/ u[2] > After(t)[2])
  <1>1. Depth \in Nat /\ Depth > 0
    BY SizesAssumption
  <1>2. \A t \in Threads : ~IsLast(t) =>
           /\ After(t) \in Workers /\ Before(After(t)) = t /\ After(t) # t
           /\ After(t)[1] = t[1] /\ After(t)[2] = t[2] + 1
    BY <1>1 DEF Threads, Sources, Workers, IsLast, After, Before
  <1>3. \A w \in Workers :
           /\ Before(w) \in Threads /\ ~IsLast(Before(w)) /\ After(Before(w)) = w
           /\ Before(w) # w
           /\ Before(w)[1] = w[1] /\ Before(w)[2] = w[2] - 1
    BY <1>1 DEF Threads, Sources, Workers, IsLast, After, Before
  <1>4. \A s \in Sources : ~IsLast(s)
    BY <1>1 DEF Sources, IsLast
  <1>5. \A w, u \in Workers : w[1] = u[1] /\ w[2] = u[2] => w = u
    BY DEF Workers
  <1>6. ASSUME NEW t \in Threads, NEW u \in Workers, u[1] = t[1], u[2] > t[2]
        PROVE  ~IsLast(t) /\ (u = After(t) \/ u[2] > After(t)[2])
    <2>1. t[2] \in 0..Depth /\ u[2] \in 1..Depth
      BY ThreadsAre
    <2>2. ~IsLast(t)
      BY <1>6, <2>1 DEF IsLast
    <2>3. After(t) \in Workers /\ After(t)[1] = t[1] /\ After(t)[2] = t[2] + 1
      BY <1>2, <2>2
    <2> QED  BY <1>5, <1>6, <2>1, <2>2, <2>3
  <1> QED  BY <1>2, <1>3, <1>4, <1>5, <1>6

\* The head of a sequence and the rest.
LEMMA HeadOf ==
    ASSUME NEW S, NEW q \in Seq(S), q # <<>>
    PROVE  /\ Len(q) \in Nat /\ Len(q) > 0 /\ Head(q) = q[1] /\ q[1] \in S
           /\ Tail(q) \in Seq(S) /\ Len(Tail(q)) = Len(q) - 1
           /\ \A i \in 1 .. Len(Tail(q)) : Tail(q)[i] = q[i+1] /\ i+1 \in 1 .. Len(q)
           /\ Len(q) = 1 => Tail(q) = <<>>
  <1>1. Len(q) \in Nat /\ Len(q) > 0
    <2>1. Len(q) \in Nat
      OBVIOUS
    <2>2. Len(q) # 0
      BY EmptySeq
    <2> QED  BY <2>1, <2>2
  <1>2. Head(q) = q[1] /\ q[1] \in S
    BY <1>1
  <1>3. Tail(q) \in Seq(S) /\ Len(Tail(q)) = Len(q) - 1
    BY <1>1
  <1>4. \A i \in 1 .. Len(Tail(q)) : Tail(q)[i] = q[i+1] /\ i+1 \in 1 .. Len(q)
    BY <1>1, <1>3
  <1>5. Len(q) = 1 => Tail(q) = <<>>
    <2>1. Tail(q) # <<>> => Len(Tail(q)) \in Nat \ {0}
      BY <1>3, EmptySeq
    <2>2. PICK n \in Nat : n = Len(q)
      BY <1>1
    <2> QED  BY <1>3, <2>1, <2>2
  <1> QED  BY <1>1, <1>2, <1>3, <1>4, <1>5

\* An item of a sequence is of its kind.
LEMMA ItemOf ==
    ASSUME NEW S, NEW q \in Seq(S), NEW i \in 1 .. Len(q)
    PROVE  q[i] \in S
  OBVIOUS

\* A sequence and one behind it.
LEMMA AppendOf ==
    ASSUME NEW S, NEW q \in Seq(S), NEW x \in S
    PROVE  /\ Append(q, x) \in Seq(S) /\ Len(q) \in Nat /\ Len(Append(q, x)) = Len(q) + 1
           /\ \A i \in 1 .. Len(Append(q, x)) :
                  \/ i \in 1 .. Len(q) /\ Append(q, x)[i] = q[i]
                  \/ i = Len(q) + 1 /\ Append(q, x)[i] = x
  OBVIOUS

-----------------------------------------------------------------------------
(* The stages of a call.                                                   *)

AllStages == ToPaused \cup ToPlaying \cup ToStop \cup ToFinish

\* What a stage leaves of its call.
StageLeaves(s) ==
    /\ s # <<>> /\ Head(s) = s[1] /\ s[1] \in StageNames /\ s \in Seq(StageNames)
    /\ s \in ToPaused => Tail(s) \in ToPaused \cup {<<>>} /\ s \notin ToPlaying
    /\ s \in ToPlaying => Tail(s) \in ToPlaying \cup {<<>>} /\ s \notin ToPaused
    /\ s \in ToStop => Tail(s) = <<>> /\ s \notin ToPaused \cup ToPlaying \cup ToFinish
    /\ s \in ToFinish => Tail(s) \in {<<>>, <<"Finish">>} /\ s \notin ToPaused \cup ToPlaying
    /\ Tail(s) \in Flushing => s \in Flushing /\ s[1] = "Pause"
    /\ s \in Flushing => s[1] \in {"Pause", "Flush"} /\ s \notin ToStop \cup ToFinish
    /\ s[1] = "Flush" => s \in Flushing /\ Tail(s) \notin Flushing
    /\ s[1] \in {"await", "retire"} => Tail(s) # <<>> /\ s \in ToPaused \cup ToPlaying
    /\ s[1] = "Pause" => s \in ToPaused \cup ToPlaying /\ (s \in ToPaused <=> Tail(s) = <<>>)
    /\ s[1] = "Resume" /\ Tail(s) = <<>> => s \in ToPlaying
    /\ s[1] = "Stop" <=> s \in ToStop
    /\ s[1] = "Finish" => s = <<"Finish">>
    /\ s = <<"Finish">> => s[1] = "Finish" /\ s \in ToFinish
    /\ Tail(s) = <<"Finish">> => s[1] = "Resume"
    /\ Tail(s) = <<>> => s[1] \in {"Pause", "Resume", "Stop", "Finish"}

\* It leaves what is left of the same call.
LEMMA Leaves ==
    ASSUME NEW s \in AllStages
    PROVE  StageLeaves(s)
  <1>1. CASE s = <<"Pause">>
    <2>1. Head(s) = "Pause" /\ s[1] = "Pause" /\ s # <<>> /\ s \in Seq(StageNames)
      BY <1>1 DEF StageNames
    <2>2. Tail(s) = <<>>
      BY <1>1
    <2> QED  BY <1>1, <2>1, <2>2
             DEF StageLeaves, StageNames, ToPaused, ToPlaying, ToStop, ToFinish, Flushing
  <1>2. CASE s = <<"retire", "Pause">>
    <2>1. Head(s) = "retire" /\ s[1] = "retire" /\ s # <<>> /\ s \in Seq(StageNames)
      BY <1>2 DEF StageNames
    <2>2. Tail(s) = <<"Pause">>
      BY <1>2
    <2> QED  BY <1>2, <2>1, <2>2
             DEF StageLeaves, StageNames, ToPaused, ToPlaying, ToStop, ToFinish, Flushing
  <1>3. CASE s = <<"await", "retire", "Pause">>
    <2>1. Head(s) = "await" /\ s[1] = "await" /\ s # <<>> /\ s \in Seq(StageNames)
      BY <1>3 DEF StageNames
    <2>2. Tail(s) = <<"retire", "Pause">>
      BY <1>3
    <2> QED  BY <1>3, <2>1, <2>2
             DEF StageLeaves, StageNames, ToPaused, ToPlaying, ToStop, ToFinish, Flushing
  <1>4. CASE s = <<"Preroll", "await", "retire", "Pause">>
    <2>1. Head(s) = "Preroll" /\ s[1] = "Preroll" /\ s # <<>> /\ s \in Seq(StageNames)
      BY <1>4 DEF StageNames
    <2>2. Tail(s) = <<"await", "retire", "Pause">>
      BY <1>4
    <2> QED  BY <1>4, <2>1, <2>2
             DEF StageLeaves, StageNames, ToPaused, ToPlaying, ToStop, ToFinish, Flushing
  <1>5. CASE s = <<"Seek", "Preroll", "await", "retire", "Pause">>
    <2>1. Head(s) = "Seek" /\ s[1] = "Seek" /\ s # <<>> /\ s \in Seq(StageNames)
      BY <1>5 DEF StageNames
    <2>2. Tail(s) = <<"Preroll", "await", "retire", "Pause">>
      BY <1>5
    <2> QED  BY <1>5, <2>1, <2>2
             DEF StageLeaves, StageNames, ToPaused, ToPlaying, ToStop, ToFinish, Flushing
  <1>6. CASE s = <<"Flush", "Seek", "Preroll", "await", "retire", "Pause">>
    <2>1. Head(s) = "Flush" /\ s[1] = "Flush" /\ s # <<>> /\ s \in Seq(StageNames)
      BY <1>6 DEF StageNames
    <2>2. Tail(s) = <<"Seek", "Preroll", "await", "retire", "Pause">>
      BY <1>6
    <2> QED  BY <1>6, <2>1, <2>2
             DEF StageLeaves, StageNames, ToPaused, ToPlaying, ToStop, ToFinish, Flushing
  <1>7. CASE s = <<"Resume">>
    <2>1. Head(s) = "Resume" /\ s[1] = "Resume" /\ s # <<>> /\ s \in Seq(StageNames)
      BY <1>7 DEF StageNames
    <2>2. Tail(s) = <<>>
      BY <1>7
    <2> QED  BY <1>7, <2>1, <2>2
             DEF StageLeaves, StageNames, ToPaused, ToPlaying, ToStop, ToFinish, Flushing
  <1>8. CASE s = <<"Pause", "Resume">>
    <2>1. Head(s) = "Pause" /\ s[1] = "Pause" /\ s # <<>> /\ s \in Seq(StageNames)
      BY <1>8 DEF StageNames
    <2>2. Tail(s) = <<"Resume">>
      BY <1>8
    <2> QED  BY <1>8, <2>1, <2>2
             DEF StageLeaves, StageNames, ToPaused, ToPlaying, ToStop, ToFinish, Flushing
  <1>9. CASE s = <<"retire", "Pause", "Resume">>
    <2>1. Head(s) = "retire" /\ s[1] = "retire" /\ s # <<>> /\ s \in Seq(StageNames)
      BY <1>9 DEF StageNames
    <2>2. Tail(s) = <<"Pause", "Resume">>
      BY <1>9
    <2> QED  BY <1>9, <2>1, <2>2
             DEF StageLeaves, StageNames, ToPaused, ToPlaying, ToStop, ToFinish, Flushing
  <1>10. CASE s = <<"await", "retire", "Pause", "Resume">>
    <2>1. Head(s) = "await" /\ s[1] = "await" /\ s # <<>> /\ s \in Seq(StageNames)
      BY <1>10 DEF StageNames
    <2>2. Tail(s) = <<"retire", "Pause", "Resume">>
      BY <1>10
    <2> QED  BY <1>10, <2>1, <2>2
             DEF StageLeaves, StageNames, ToPaused, ToPlaying, ToStop, ToFinish, Flushing
  <1>11. CASE s = <<"Preroll", "await", "retire", "Pause", "Resume">>
    <2>1. Head(s) = "Preroll" /\ s[1] = "Preroll" /\ s # <<>> /\ s \in Seq(StageNames)
      BY <1>11 DEF StageNames
    <2>2. Tail(s) = <<"await", "retire", "Pause", "Resume">>
      BY <1>11
    <2> QED  BY <1>11, <2>1, <2>2
             DEF StageLeaves, StageNames, ToPaused, ToPlaying, ToStop, ToFinish, Flushing
  <1>12. CASE s = <<"Seek", "Preroll", "await", "retire", "Pause", "Resume">>
    <2>1. Head(s) = "Seek" /\ s[1] = "Seek" /\ s # <<>> /\ s \in Seq(StageNames)
      BY <1>12 DEF StageNames
    <2>2. Tail(s) = <<"Preroll", "await", "retire", "Pause", "Resume">>
      BY <1>12
    <2> QED  BY <1>12, <2>1, <2>2
             DEF StageLeaves, StageNames, ToPaused, ToPlaying, ToStop, ToFinish, Flushing
  <1>13. CASE s = <<"Flush", "Seek", "Preroll", "await", "retire", "Pause", "Resume">>
    <2>1. Head(s) = "Flush" /\ s[1] = "Flush" /\ s # <<>> /\ s \in Seq(StageNames)
      BY <1>13 DEF StageNames
    <2>2. Tail(s) = <<"Seek", "Preroll", "await", "retire", "Pause", "Resume">>
      BY <1>13
    <2> QED  BY <1>13, <2>1, <2>2
             DEF StageLeaves, StageNames, ToPaused, ToPlaying, ToStop, ToFinish, Flushing
  <1>14. CASE s = <<"Pause", "Flush", "Seek", "Preroll", "await", "retire", "Pause", "Resume">>
    <2>1. Head(s) = "Pause" /\ s[1] = "Pause" /\ s # <<>> /\ s \in Seq(StageNames)
      BY <1>14 DEF StageNames
    <2>2. Tail(s) = <<"Flush", "Seek", "Preroll", "await", "retire", "Pause", "Resume">>
      BY <1>14
    <2> QED  BY <1>14, <2>1, <2>2
             DEF StageLeaves, StageNames, ToPaused, ToPlaying, ToStop, ToFinish, Flushing
  <1>15. CASE s = <<"Stop">>
    <2>1. Head(s) = "Stop" /\ s[1] = "Stop" /\ s # <<>> /\ s \in Seq(StageNames)
      BY <1>15 DEF StageNames
    <2>2. Tail(s) = <<>>
      BY <1>15
    <2> QED  BY <1>15, <2>1, <2>2
             DEF StageLeaves, StageNames, ToPaused, ToPlaying, ToStop, ToFinish, Flushing
  <1>16. CASE s = <<"Finish">>
    <2>1. Head(s) = "Finish" /\ s[1] = "Finish" /\ s # <<>> /\ s \in Seq(StageNames)
      BY <1>16 DEF StageNames
    <2>2. Tail(s) = <<>>
      BY <1>16
    <2> QED  BY <1>16, <2>1, <2>2
             DEF StageLeaves, StageNames, ToPaused, ToPlaying, ToStop, ToFinish, Flushing
  <1>17. CASE s = <<"Resume", "Finish">>
    <2>1. Head(s) = "Resume" /\ s[1] = "Resume" /\ s # <<>> /\ s \in Seq(StageNames)
      BY <1>17 DEF StageNames
    <2>2. Tail(s) = <<"Finish">>
      BY <1>17
    <2> QED  BY <1>17, <2>1, <2>2
             DEF StageLeaves, StageNames, ToPaused, ToPlaying, ToStop, ToFinish, Flushing
  <1> QED  BY <1>1, <1>2, <1>3, <1>4, <1>5, <1>6, <1>7, <1>8, <1>9, <1>10, <1>11, <1>12, <1>13, <1>14, <1>15, <1>16, <1>17
       DEF AllStages, ToPaused, ToPlaying, ToStop, ToFinish
\* Concatenation, item by item.
LEMMA JoinsTo ==
    ASSUME NEW S, NEW s \in Seq(S), NEW t \in Seq(S), NEW u \in Seq(S),
           Len(u) = Len(s) + Len(t),
           \A i \in 1 .. Len(s) : u[i] = s[i],
           \A i \in 1 .. Len(t) : u[i + Len(s)] = t[i]
    PROVE  s \o t = u
  <1>1. s \o t \in Seq(S) /\ Len(s \o t) = Len(u)
    BY ConcatProperties
  <1>2. \A i \in 1 .. Len(u) : (s \o t)[i] = u[i]
    <2> TAKE i \in 1 .. Len(u)
    <2>1. (s \o t)[i] = IF i <= Len(s) THEN s[i] ELSE t[i - Len(s)]
      BY ConcatProperties
    <2>2. CASE i <= Len(s)
      BY <2>1, <2>2
    <2>3. CASE i > Len(s)
      <3>1. i - Len(s) \in 1 .. Len(t)
        BY <2>3, LenProperties
      <3>2. u[i - Len(s) + Len(s)] = t[i - Len(s)]
        BY <3>1
      <3>3. i - Len(s) + Len(s) = i
        BY <2>3, LenProperties
      <3> QED BY <2>1, <2>3, <3>2, <3>3
    <2> QED BY <2>2, <2>3, LenProperties
  <1> QED  BY <1>1, <1>2, SeqEqual

\* A seek pauses first, where the pipeline plays.
LEMMA PausesThenSeeks ==
    <<"Pause">> \o <<"Flush", "Seek", "Preroll", "await", "retire", "Pause">>
        = <<"Pause", "Flush", "Seek", "Preroll", "await", "retire", "Pause">>
  <1> DEFINE s == <<"Pause">>
             t == <<"Flush", "Seek", "Preroll", "await", "retire", "Pause">>
             u == <<"Pause", "Flush", "Seek", "Preroll", "await", "retire", "Pause">>
  <1>1. s \in Seq(StageNames) /\ t \in Seq(StageNames) /\ u \in Seq(StageNames)
    BY SMT DEF StageNames
  <1>2. Len(s) = 1 /\ Len(t) = 6 /\ Len(u) = 7
    BY SMT
  <1>3. u[1] = s[1]
    BY SMT
  <1>4. u[2] = t[1] /\ u[3] = t[2] /\ u[4] = t[3] /\ u[5] = t[4] /\ u[6] = t[5]
        /\ u[7] = t[6]
    BY SMT
  <1> HIDE DEF s, t, u
  <1>5. \A i \in 1 .. Len(s) : u[i] = s[i]
    BY <1>2, <1>3
  <1>6. \A i \in 1 .. Len(t) : u[i+Len(s)] = t[i]
    BY <1>2, <1>4
  <1>7. Len(u) = Len(s) + Len(t)
    BY <1>2
  <1>8. s \o t = u
    <2> HIDE DEF StageNames
    <2> QED  BY <1>1, <1>5, <1>6, <1>7, JoinsTo
  <1> QED  BY <1>8 DEF s, t, u

\* And goes on to play.
LEMMA PausesSeeksPlays ==
    <<"Pause", "Flush", "Seek", "Preroll", "await", "retire", "Pause">> \o <<"Resume">>
        = <<"Pause", "Flush", "Seek", "Preroll", "await", "retire", "Pause", "Resume">>
  <1> DEFINE s == <<"Pause", "Flush", "Seek", "Preroll", "await", "retire", "Pause">>
             t == <<"Resume">>
             u == <<"Pause", "Flush", "Seek", "Preroll", "await", "retire", "Pause", "Resume">>
  <1>1. s \in Seq(StageNames) /\ t \in Seq(StageNames) /\ u \in Seq(StageNames)
    BY SMT DEF StageNames
  <1>2. Len(s) = 7 /\ Len(t) = 1 /\ Len(u) = 8
    BY SMT
  <1>3. u[1] = s[1] /\ u[2] = s[2] /\ u[3] = s[3] /\ u[4] = s[4] /\ u[5] = s[5]
        /\ u[6] = s[6] /\ u[7] = s[7]
    BY SMT
  <1>4. u[8] = t[1]
    BY SMT
  <1> HIDE DEF s, t, u
  <1>5. \A i \in 1 .. Len(s) : u[i] = s[i]
    BY <1>2, <1>3
  <1>6. \A i \in 1 .. Len(t) : u[i+Len(s)] = t[i]
    BY <1>2, <1>4
  <1>7. Len(u) = Len(s) + Len(t)
    BY <1>2
  <1>8. s \o t = u
    <2> HIDE DEF StageNames
    <2> QED  BY <1>1, <1>5, <1>6, <1>7, JoinsTo
  <1> QED  BY <1>8 DEF s, t, u

\* A finish resumes first, where the pipeline is paused.
LEMMA ResumesThenFinishes ==
    <<"Resume">> \o <<"Finish">>
        = <<"Resume", "Finish">>
  <1> DEFINE s == <<"Resume">>
             t == <<"Finish">>
             u == <<"Resume", "Finish">>
  <1>1. s \in Seq(StageNames) /\ t \in Seq(StageNames) /\ u \in Seq(StageNames)
    BY SMT DEF StageNames
  <1>2. Len(s) = 1 /\ Len(t) = 1 /\ Len(u) = 2
    BY SMT
  <1>3. u[1] = s[1]
    BY SMT
  <1>4. u[2] = t[1]
    BY SMT
  <1> HIDE DEF s, t, u
  <1>5. \A i \in 1 .. Len(s) : u[i] = s[i]
    BY <1>2, <1>3
  <1>6. \A i \in 1 .. Len(t) : u[i+Len(s)] = t[i]
    BY <1>2, <1>4
  <1>7. Len(u) = Len(s) + Len(t)
    BY <1>2
  <1>8. s \o t = u
    <2> HIDE DEF StageNames
    <2> QED  BY <1>1, <1>5, <1>6, <1>7, JoinsTo
  <1> QED  BY <1>8 DEF s, t, u

\* The stages of a call, from its first.
LEMMA StagesAre ==
    ASSUME NEW op \in Ops, paused \in BOOLEAN
    PROVE  /\ op = "pause" => Stages(op) = <<"Pause">>
           /\ op = "resume" => Stages(op) = <<"Resume">>
           /\ op = "seek" /\ paused =>
                  Stages(op) = <<"Flush", "Seek", "Preroll", "await", "retire", "Pause">>
           /\ op = "seek" /\ ~paused =>
                  Stages(op) = <<"Pause", "Flush", "Seek", "Preroll", "await", "retire",
                                 "Pause", "Resume">>
           /\ op = "stop" => Stages(op) = <<"Stop">>
           /\ op = "finish" => Stages(op) = IF paused THEN <<"Resume", "Finish">>
                                            ELSE <<"Finish">>
  <1> DEFINE p == <<"Flush", "Seek", "Preroll", "await", "retire", "Pause">>
             f == <<"Finish">>
  <1>1. p \in Seq(StageNames) /\ f \in Seq(StageNames)
    BY SMT DEF StageNames
  <1>2. <<>> \o p = p /\ p \o <<>> = p /\ <<>> \o f = f
    <2> HIDE DEF StageNames, p, f
    <2> QED  BY <1>1, ConcatEmptySeq
  <1>3. op = "seek" /\ paused => Stages(op) = p
    <2> HIDE DEF f
    <2> QED  BY <1>2 DEF Stages, SeekStages
  <1>4. op = "seek" /\ ~paused =>
            Stages(op) = <<"Pause", "Flush", "Seek", "Preroll", "await", "retire",
                           "Pause", "Resume">>
    BY PausesThenSeeks, PausesSeeksPlays DEF Stages, SeekStages
  <1>5. op = "finish" => Stages(op) = IF paused THEN <<"Resume", "Finish">> ELSE f
    <2> HIDE DEF p
    <2> QED  BY <1>2, ResumesThenFinishes DEF Stages, FinishStages
  <1> QED  BY <1>3, <1>4, <1>5 DEF Stages

-----------------------------------------------------------------------------
(* The types, and what is counted, through each call's steps.              *)

Counts == Types /\ RunningIs /\ SeeksCounted

\* Each part stays as long as what it is about does.
LEMMA PlayTypesStay ==
    ASSUME PlayTypes, UNCHANGED <<phase, interrupt, abandoned, active, starts, preroll, paused>>
    PROVE  PlayTypes'
  BY DEF PlayTypes, timeline

\* So do the callers.
LEMMA CallTypesStay ==
    ASSUME CallTypes, UNCHANGED <<cpc, call, calls, holder, step, todo>>
    PROVE  CallTypes'
  BY DEF CallTypes

\* So does the plan of the call.
LEMMA PlanStay ==
    ASSUME Plan, UNCHANGED <<todo, holder, step, call, paused, phase>>
    PROVE  Plan'
  BY DEF Plan

\* So do the places of the threads.
LEMMA ThreadTypesStay ==
    ASSUME ThreadTypes, UNCHANGED <<tpc, back>>
    PROVE  ThreadTypes'
  BY DEF ThreadTypes

\* So do the requests.
LEMMA RequestTypesStay ==
    ASSUME RequestTypes, UNCHANGED <<sending, waiting, owing, step, control>>
    PROVE  RequestTypes'
  BY DEF RequestTypes

\* So do the queues.
LEMMA QueueTypesStay ==
    ASSUME QueueTypes, UNCHANGED <<flushing, registered, dropped>>
    PROVE  QueueTypes'
  BY DEF QueueTypes

\* So do the sources.
LEMMA SourceTypesStay ==
    ASSUME SourceTypes, UNCHANGED <<source, pad, failed, starts, tpc>>
    PROVE  SourceTypes'
  BY DEF SourceTypes, timeline

\* So do the terminals.
LEMMA TerminalTypesStay ==
    ASSUME TerminalTypes, UNCHANGED <<terminal, starts>>
    PROVE  TerminalTypes'
  BY DEF TerminalTypes, timeline

\* So does what is queued or in hand.
LEMMA ItemTypesStay ==
    ASSUME ItemTypes, UNCHANGED <<channel, hand, starts, tpc>>
    PROVE  ItemTypes'
  BY DEF ItemTypes, ItemsTo, timeline

\* So does the count of the sources running.
LEMMA RunningStays ==
    ASSUME RunningIs, UNCHANGED <<running, tpc>>
    PROVE  RunningIs'
  <1>1. Counted' = Counted
    BY DEF Counted
  <1> QED  BY <1>1 DEF RunningIs

\* So does the bound on the timelines, and as fewer seeks are to begin one.
LEMMA SeeksStay ==
    ASSUME Types, SeeksCounted, Seekers' \subseteq Seekers, UNCHANGED <<starts, calls>>
    PROVE  SeeksCounted'
  <1>1. IsFiniteSet(Seekers') /\ Cardinality(Seekers') <= Cardinality(Seekers)
    BY FS_Subset DEF SeeksCounted
  <1>2. Cardinality(Seekers) \in Nat /\ Cardinality(Seekers') \in Nat
    BY <1>1, FS_CardinalityType DEF SeeksCounted
  <1>3. timeline \in Nat /\ calls \in Nat
    BY BoundsAssumption DEF Types, PlayTypes, CallTypes
  <1>4. timeline' = timeline
    BY DEF timeline
  <1> QED  BY <1>1, <1>2, <1>3, <1>4 DEF SeeksCounted

\* And as long as neither the callers nor their call change.
LEMMA SeeksKept ==
    ASSUME Types, SeeksCounted, UNCHANGED <<call, cpc, holder, todo, step, starts, calls>>
    PROVE  SeeksCounted'
  <1>1. Seekers' = Seekers
    BY DEF Seekers
  <1> QED  BY <1>1, SeeksStay

\* A caller more among those that seek.
LEMMA OneMoreOf ==
    ASSUME NEW S, IsFiniteSet(S), NEW x
    PROVE  /\ IsFiniteSet(S \cup {x}) /\ Cardinality(S) \in Nat
           /\ Cardinality(S \cup {x}) \in Nat /\ Cardinality(S \cup {x}) <= Cardinality(S) + 1
  <1>1. Cardinality(S) \in Nat
    BY FS_CardinalityType
  <1>2. IsFiniteSet(S \cup {x})
        /\ Cardinality(S \cup {x}) = IF x \in S THEN Cardinality(S) ELSE Cardinality(S) + 1
    BY FS_AddElement
  <1> QED  BY <1>1, <1>2

\* A call is made.
LEMMA CallsCounts ==
    ASSUME Counts, NEW c \in Callers, Calls(c)
    PROVE  Counts'
  <1>1. /\ UNCHANGED <<phase, interrupt, starts, running, paused, holder, todo, step,
                       sending, tpc, back, hand, control, owing, waiting, channel, flushing,
                       registered, dropped, source, pad, terminal, failed>>
        /\ cpc[c] = "idle" /\ calls < MaxOps /\ calls' = calls + 1
        /\ cpc' = [cpc EXCEPT ![c] = "locking"]
    BY DEF Calls, playback, slot, lock, callers, threads, requests, queues, ends
  <1>2. PICK op \in Ops : \E to \in IF op = "seek" THEN Targets ELSE {0} :
            /\ call' = [call EXCEPT ![c] = [op |-> op, to |-> to]]
            /\ IF op \in {"stop", "finish"}
               THEN /\ abandoned' = TRUE /\ active' = FALSE
                    /\ preroll' = [preroll EXCEPT !.cancelled = @ \/ active]
               ELSE UNCHANGED <<slot, preroll>>
    BY DEF Calls
  <1>3. PICK to \in IF op = "seek" THEN Targets ELSE {0} :
            call' = [call EXCEPT ![c] = [op |-> op, to |-> to]]
    BY <1>2
  <1>4. call'[c].op = op /\ \A d \in Callers : d # c => call'[d] = call[d]
    BY <1>3 DEF Counts, Types, CallTypes
  <1>5. cpc'[c] = "locking" /\ \A d \in Callers : d # c => cpc'[d] = cpc[d]
    BY <1>1 DEF Counts, Types, CallTypes
  <1>6. holder # c
    BY <1>1, CallersAssumption DEF Counts, Types, CallTypes
  <1>7. PlayTypes'
    BY <1>1, <1>2 DEF Counts, Types, PlayTypes, slot, timeline
  <1>8. CallTypes'
    <2>1. to \in Targets \cup {0}
      OBVIOUS
    <2>2. call' \in [Callers -> [op : Ops \cup {None}, to : Targets \cup {0}]]
      BY <1>3, <2>1 DEF Counts, Types, CallTypes
    <2>3. calls' \in 0..MaxOps
      BY <1>1, BoundsAssumption DEF Counts, Types, CallTypes
    <2>4. cpc' \in [Callers -> {"idle", "locking", "asking", "joining"}]
      BY <1>1 DEF Counts, Types, CallTypes
    <2> QED  BY <1>1, <1>4, <1>5, <1>6, <2>2, <2>3, <2>4 DEF Counts, Types, CallTypes
  <1>9. Plan'
    <2>1. holder # None => call'[holder] = call[holder]
      BY <1>4, <1>6 DEF Counts, Types, CallTypes
    <2>2. todo # <<>> => holder # None
      BY DEF Counts, Types, Plan
    <2>3. <<>> \notin ToPaused \cup ToPlaying \cup ToStop \cup ToFinish \cup Flushing
      BY DEF ToPaused, ToPlaying, ToStop, ToFinish, Flushing
    <2> QED  BY <1>1, <2>1, <2>2, <2>3 DEF Counts, Types, Plan
  <1>10. ThreadTypes' /\ RequestTypes' /\ QueueTypes' /\ SourceTypes' /\ TerminalTypes'
         /\ ItemTypes' /\ RunningIs'
    BY <1>1, ThreadTypesStay, RequestTypesStay, QueueTypesStay, SourceTypesStay,
       TerminalTypesStay, ItemTypesStay, RunningStays DEF Counts, Types
  <1>11. SeeksCounted'
    <2>1. Seekers' \subseteq Seekers \cup {c}
      BY <1>1, <1>4, <1>5 DEF Seekers
    <2>2. IsFiniteSet(Seekers) /\ IsFiniteSet(Seekers \cup {c})
          /\ Cardinality(Seekers \cup {c}) <= Cardinality(Seekers) + 1
          /\ Cardinality(Seekers) \in Nat /\ Cardinality(Seekers \cup {c}) \in Nat
      <3>1. IsFiniteSet(Seekers)
        BY DEF Counts, SeeksCounted
      <3> QED  BY <3>1, OneMoreOf
    <2>3. IsFiniteSet(Seekers') /\ Cardinality(Seekers') <= Cardinality(Seekers \cup {c})
          /\ Cardinality(Seekers') \in Nat
      BY <2>1, <2>2, FS_Subset, FS_CardinalityType
    <2>4. timeline \in Nat /\ timeline' = timeline /\ calls \in Nat
      BY <1>1, BoundsAssumption DEF Counts, Types, PlayTypes, CallTypes, timeline
    <2> QED  BY <1>1, <2>2, <2>3, <2>4 DEF Counts, SeeksCounted
  <1> QED  BY <1>7, <1>8, <1>9, <1>10, <1>11 DEF Counts, Types

\* No stage is left of nothing.
LEMMA NothingLeft ==
    <<>> \notin AllStages /\ <<>> \notin Flushing
  BY DEF AllStages, ToPaused, ToPlaying, ToStop, ToFinish, Flushing

\* A call under way is its holder's.
LEMMA UnderWay ==
    ASSUME Types, todo # <<>>
    PROVE  /\ todo \in AllStages /\ StageLeaves(todo)
           /\ holder # None /\ holder \in Callers /\ cpc[holder] = "asking"
  <1>1. todo \in AllStages /\ holder # None
    BY DEF Types, Plan, AllStages
  <1> QED  BY <1>1, Leaves DEF Types, CallTypes

\* A call with nothing to ask only joins.
LEMMA RefusesCounts ==
    ASSUME Counts, NEW c \in Callers, Refuses(c)
    PROVE  Counts'
  <1>1. /\ UNCHANGED <<phase, interrupt, starts, preroll, abandoned, active, running, paused,
                       todo, step, sending, call, calls, tpc, back, hand, control, owing,
                       waiting, channel, flushing, registered, dropped, source, pad, terminal,
                       failed>>
        /\ cpc[c] = "locking" /\ holder = None
        /\ holder' = IF call[c].op = "finish" THEN c ELSE None
        /\ cpc' = [cpc EXCEPT ![c] = IF call[c].op \in {"stop", "finish"}
                                     THEN "joining" ELSE "idle"]
    BY DEF Refuses, playback, slot, threads, requests, queues, ends
  <1>2. todo = <<>> /\ call[c].op \in Ops
    BY <1>1 DEF Counts, Types, CallTypes, Plan
  <1>3. PlayTypes' /\ ThreadTypes' /\ RequestTypes' /\ QueueTypes' /\ SourceTypes'
        /\ TerminalTypes' /\ ItemTypes' /\ RunningIs'
    BY <1>1, PlayTypesStay, ThreadTypesStay, RequestTypesStay, QueueTypesStay,
       SourceTypesStay, TerminalTypesStay, ItemTypesStay, RunningStays DEF Counts, Types
  <1>4. CallTypes'
    <2>1. cpc'[c] \in {"idle", "joining"} /\ (call[c].op = "finish" => cpc'[c] = "joining")
          /\ \A d \in Callers : d # c => cpc'[d] = cpc[d]
      BY <1>1 DEF Counts, Types, CallTypes
    <2>2. cpc' \in [Callers -> {"idle", "locking", "asking", "joining"}]
      BY <1>1 DEF Counts, Types, CallTypes
    <2>3. \A d \in Callers : cpc[d] # "asking"
      BY <1>1, CallersAssumption DEF Counts, Types, CallTypes
    <2>4. \A d \in Callers : /\ cpc'[d] # "idle" => call'[d].op \in Ops
                            /\ cpc'[d] = "asking" => holder' = d
      BY <1>1, <1>2, <2>1, <2>3 DEF Counts, Types, CallTypes
    <2>5. holder' # None => /\ holder' = c /\ cpc'[c] = "joining" /\ call'[c].op = "finish"
                            /\ todo' = <<>>
      BY <1>1, <1>2, <2>1
    <2> QED  BY <1>1, <2>2, <2>4, <2>5 DEF Counts, Types, CallTypes
  <1>5. Plan'
    BY <1>1, <1>2, NothingLeft DEF Counts, Types, Plan, AllStages
  <1>6. Seekers' \subseteq Seekers
    BY <1>1, <1>2, NothingLeft DEF Seekers, Counts, Types, CallTypes
  <1>7. SeeksCounted'
    BY <1>1, <1>6, SeeksStay DEF Counts
  <1> QED  BY <1>3, <1>4, <1>5, <1>7 DEF Counts, Types

\* A call begins.
LEMMA BeginsCounts ==
    ASSUME Counts, NEW c \in Callers, Begins(c)
    PROVE  Counts'
  <1>1. /\ UNCHANGED <<phase, interrupt, starts, preroll, abandoned, active, running, step,
                       sending, call, calls, tpc, back, hand, control, owing, waiting,
                       channel, flushing, registered, dropped, source, pad, terminal, failed>>
        /\ cpc[c] = "locking" /\ holder = None /\ holder' = c /\ step' = "say"
        /\ cpc' = [cpc EXCEPT ![c] = "asking"]
        /\ todo' = Stages(call[c].op) /\ paused' = PausedBy(call[c].op)
    <2>1. todo = <<>> /\ step = "say"
      BY DEF Counts, Types, Plan, Begins
    <2> QED  BY <2>1 DEF Begins, playback, slot, threads, requests, queues, ends
  <1>2. todo = <<>> /\ call[c].op \in Ops /\ c # None
    BY <1>1, CallersAssumption DEF Counts, Types, CallTypes, Plan
  <1>3. phase = "paused" => paused
    BY <1>2 DEF Counts, Types, Plan
  <1>4. paused \in BOOLEAN
    BY DEF Counts, Types, PlayTypes
  <1> DEFINE op == call[c].op
  <1>5. op \in {"pause", "resume", "seek", "stop", "finish"}
    BY <1>2, OpsAssumption
  <1>6. /\ op \in {"pause", "seek"} /\ (op = "seek" => paused) => todo' \in ToPaused /\ paused'
        /\ op = "resume" \/ (op = "seek" /\ ~paused) => todo' \in ToPlaying /\ ~paused'
        /\ op = "stop" => todo' \in ToStop /\ ~paused'
        /\ op = "finish" => /\ todo' \in ToFinish /\ ~paused'
                            /\ todo' = <<"Finish">> => ~paused
    <2>1. CASE op = "pause"
      <3>1. todo' = <<"Pause">> /\ paused' = TRUE
        BY <1>1, <1>2, <1>4, <2>1, StagesAre DEF PausedBy
      <3> QED  BY <2>1, <3>1 DEF ToPaused
    <2>2. CASE op = "resume"
      <3>1. todo' = <<"Resume">> /\ paused' = FALSE
        BY <1>1, <1>2, <1>4, <2>2, StagesAre DEF PausedBy
      <3> QED  BY <2>2, <3>1 DEF ToPlaying
    <2>3. CASE op = "seek" /\ paused
      <3>1. todo' = <<"Flush", "Seek", "Preroll", "await", "retire", "Pause">> /\ paused' = paused
        BY <1>1, <1>2, <1>4, <2>3, StagesAre DEF PausedBy
      <3> QED  BY <2>3, <3>1 DEF ToPaused
    <2>4. CASE op = "seek" /\ ~paused
      <3>1. todo' = <<"Pause", "Flush", "Seek", "Preroll", "await", "retire", "Pause",
                      "Resume">> /\ paused' = paused
        BY <1>1, <1>2, <1>4, <2>4, StagesAre DEF PausedBy
      <3> QED  BY <2>4, <3>1 DEF ToPlaying
    <2>5. CASE op = "stop"
      <3>1. todo' = <<"Stop">> /\ paused' = FALSE
        BY <1>1, <1>2, <1>4, <2>5, StagesAre DEF PausedBy
      <3> QED  BY <2>5, <3>1 DEF ToStop
    <2>6. CASE op = "finish"
      <3>1. todo' = (IF paused THEN <<"Resume", "Finish">> ELSE <<"Finish">>) /\ paused' = FALSE
        BY <1>1, <1>2, <1>4, <2>6, StagesAre DEF PausedBy
      <3>2. <<"Resume", "Finish">> # <<"Finish">>
        OBVIOUS
      <3> QED  BY <2>6, <3>1, <3>2 DEF ToFinish
    <2> QED  BY <1>5, <2>1, <2>2, <2>3, <2>4, <2>5, <2>6
  <1>7. todo' \in AllStages /\ todo' # <<>>
    <2>1. todo' \in AllStages
      BY <1>5, <1>6 DEF AllStages
    <2> QED  BY <2>1, NothingLeft
  <1>8. PICK s : s = todo'
    OBVIOUS
  <1>9. StageLeaves(s) /\ s \in AllStages
    BY <1>7, <1>8, Leaves
  <1>10. /\ s \in Flushing => op = "seek"
    <2>1. CASE op = "pause"
      <3>1. s = <<"Pause">>
        BY <1>1, <1>2, <1>4, <1>8, <2>1, StagesAre
      <3> QED  BY <3>1 DEF Flushing
    <2>2. CASE op = "resume"
      <3>1. s = <<"Resume">>
        BY <1>1, <1>2, <1>4, <1>8, <2>2, StagesAre
      <3> QED  BY <3>1 DEF Flushing
    <2> QED  BY <1>5, <1>6, <1>8, <1>9, <2>1, <2>2 DEF StageLeaves
  <1>11. paused' \in BOOLEAN
    BY <1>1, <1>4 DEF PausedBy
  <1>12. PlayTypes'
    BY <1>1, <1>11 DEF Counts, Types, PlayTypes, timeline
  <1>13. ThreadTypes' /\ RequestTypes' /\ QueueTypes' /\ SourceTypes' /\ TerminalTypes'
         /\ ItemTypes' /\ RunningIs'
    BY <1>1, ThreadTypesStay, RequestTypesStay, QueueTypesStay,
       SourceTypesStay, TerminalTypesStay, ItemTypesStay, RunningStays DEF Counts, Types
  <1>14. CallTypes'
    <2>1. cpc'[c] = "asking" /\ \A d \in Callers : d # c => cpc'[d] = cpc[d]
      BY <1>1 DEF Counts, Types, CallTypes
    <2>2. cpc' \in [Callers -> {"idle", "locking", "asking", "joining"}]
      BY <1>1 DEF Counts, Types, CallTypes
    <2>3. \A d \in Callers : cpc[d] # "asking"
      BY <1>1, CallersAssumption DEF Counts, Types, CallTypes
    <2> HIDE DEF op
    <2>4. \A d \in Callers : /\ cpc'[d] # "idle" => call'[d].op \in Ops
                            /\ cpc'[d] = "asking" => holder' = d
      BY <1>1, <1>2, <2>1, <2>3 DEF Counts, Types, CallTypes
    <2>5. cpc'[holder'] = "asking"
      BY <1>1, <2>1
    <2> QED  BY <1>1, <2>2, <2>4, <2>5 DEF Counts, Types, CallTypes
  <1>15. Plan'
    <2>1. call'[holder'] = call[c] /\ holder' # None
      BY <1>1, <1>2
    <2>2. s \notin {<<>>} /\ (s = <<"Finish">> => s \in ToFinish)
      BY <1>7, <1>8, <1>9 DEF StageLeaves
    <2> HIDE DEF op
    <2>3. /\ s \in ToPaused => op \in {"pause", "seek"} /\ paused'
          /\ s \in ToPlaying => op \in {"resume", "seek"} /\ ~paused'
          /\ s \in ToStop => op = "stop" /\ ~paused'
          /\ s \in ToFinish => op = "finish" /\ ~paused'
      BY <1>5, <1>6, <1>8, <1>9 DEF StageLeaves
    <2>4. call'[holder'].op = op
      BY <2>1 DEF op
    <2>5. s = <<"Finish">> => phase' # "paused"
      BY <1>1, <1>3, <1>6, <1>8, <2>2, <2>3
    <2>6. s \in {<<>>} \cup ToPaused \cup ToPlaying \cup ToStop \cup ToFinish
      BY <1>9 DEF AllStages
    <2> QED  BY <1>1, <1>8, <1>10, <2>1, <2>2, <2>3, <2>4, <2>5, <2>6 DEF Plan
  <1>16. Seekers' \subseteq Seekers
    BY <1>1 DEF Seekers, Counts, Types, CallTypes
  <1>17. SeeksCounted'
    BY <1>1, <1>16, SeeksStay DEF Counts
  <1> QED  BY <1>12, <1>13, <1>14, <1>15, <1>17 DEF Counts, Types

\* A call that joins the threads returns.
LEMMA JoinsCounts ==
    ASSUME Counts, NEW c \in Callers, Joins(c)
    PROVE  Counts'
  <1>1. /\ UNCHANGED <<phase, interrupt, starts, preroll, abandoned, active, running, paused,
                       todo, step, sending, call, calls, tpc, back, hand, control, owing,
                       waiting, channel, flushing, registered, dropped, source, pad, terminal,
                       failed>>
        /\ cpc[c] = "joining" /\ holder' = IF holder = c THEN None ELSE holder
        /\ cpc' = [cpc EXCEPT ![c] = "idle"]
    BY DEF Joins, playback, slot, threads, requests, queues, ends
  <1>2. PlayTypes' /\ ThreadTypes' /\ RequestTypes' /\ QueueTypes' /\ SourceTypes'
        /\ TerminalTypes' /\ ItemTypes' /\ RunningIs'
    BY <1>1, PlayTypesStay, ThreadTypesStay, RequestTypesStay, QueueTypesStay,
       SourceTypesStay, TerminalTypesStay, ItemTypesStay, RunningStays DEF Counts, Types
  <1>3. holder = c => todo = <<>>
    BY <1>1, CallersAssumption DEF Counts, Types, CallTypes
  <1>4. CallTypes'
    <2>1. cpc'[c] = "idle" /\ \A d \in Callers : d # c => cpc'[d] = cpc[d]
      BY <1>1 DEF Counts, Types, CallTypes
    <2>2. cpc' \in [Callers -> {"idle", "locking", "asking", "joining"}]
      BY <1>1 DEF Counts, Types, CallTypes
    <2> QED  BY <1>1, <2>1, <2>2 DEF Counts, Types, CallTypes
  <1>5. Plan'
    BY <1>1, <1>3, NothingLeft DEF Counts, Types, Plan, AllStages
  <1>6. Seekers' \subseteq Seekers
    BY <1>1, <1>3, NothingLeft DEF Seekers, Counts, Types, CallTypes
  <1>7. SeeksCounted'
    BY <1>1, <1>6, SeeksStay DEF Counts
  <1> QED  BY <1>2, <1>4, <1>5, <1>7 DEF Counts, Types

\* The last stage over, the call joins the threads or returns.
LEMMA CompletesCounts ==
    ASSUME Counts, Completes
    PROVE  Counts'
  <1>1. /\ UNCHANGED <<phase, interrupt, starts, preroll, abandoned, active, running, paused,
                       todo, step, sending, call, calls, tpc, back, hand, control, owing,
                       waiting, channel, flushing, registered, dropped, source, pad, terminal,
                       failed>>
        /\ holder # None /\ todo = <<>> /\ cpc[holder] = "asking"
        /\ cpc' = [cpc EXCEPT ![holder] = IF call[holder].op \in {"stop", "finish"}
                                          THEN "joining" ELSE "idle"]
        /\ holder' = IF call[holder].op = "finish" THEN holder ELSE None
    BY DEF Completes, playback, slot, threads, requests, queues, ends
  <1>2. PlayTypes' /\ ThreadTypes' /\ RequestTypes' /\ QueueTypes' /\ SourceTypes'
        /\ TerminalTypes' /\ ItemTypes' /\ RunningIs'
    BY <1>1, PlayTypesStay, ThreadTypesStay, RequestTypesStay, QueueTypesStay,
       SourceTypesStay, TerminalTypesStay, ItemTypesStay, RunningStays DEF Counts, Types
  <1>3. holder \in Callers /\ \A d \in Callers : cpc[d] = "asking" => d = holder
    BY <1>1 DEF Counts, Types, CallTypes
  <1>4. /\ cpc'[holder] \in {"idle", "joining"}
        /\ call[holder].op = "finish" => cpc'[holder] = "joining"
        /\ \A d \in Callers : d # holder => cpc'[d] = cpc[d]
    BY <1>1, <1>3 DEF Counts, Types, CallTypes
  <1>5. CallTypes'
    <2>1. cpc' \in [Callers -> {"idle", "locking", "asking", "joining"}]
      BY <1>1 DEF Counts, Types, CallTypes
    <2> QED  BY <1>1, <1>3, <1>4, <2>1 DEF Counts, Types, CallTypes
  <1>6. Plan'
    BY <1>1, NothingLeft DEF Counts, Types, Plan, AllStages
  <1>7. Seekers' \subseteq Seekers
    BY <1>1, <1>3, <1>4, NothingLeft DEF Seekers, Counts, Types, CallTypes
  <1>8. SeeksCounted'
    BY <1>1, <1>7, SeeksStay DEF Counts
  <1> QED  BY <1>2, <1>5, <1>6, <1>8 DEF Counts, Types

\* A sequence of one kind is a sequence of a wider one.
LEMMA SeqOfMore ==
    ASSUME NEW S, NEW T, S \subseteq T, NEW q \in Seq(S)
    PROVE  q \in Seq(T)
  <1>1. Len(q) \in Nat /\ DOMAIN q = 1 .. Len(q) /\ \A i \in 1 .. Len(q) : q[i] \in T
    OBVIOUS
  <1>2. q = [i \in 1 .. Len(q) |-> q[i]]
    OBVIOUS
  <1>3. q \in [1 .. Len(q) -> T]
    BY <1>1, <1>2
  <1> QED  BY <1>1, <1>3 DEF Seq

\* What a stage says: the phase it moves to, or a new timeline.
LEMMA SaysIs ==
    ASSUME Types, Says
    PROVE  /\ todo # <<>> /\ step = "say" /\ step' = "snapshot" /\ holder # None
           /\ todo[1] \notin {"await", "retire"}
           /\ UNCHANGED <<running, paused, holder, todo, sending, cpc, call, calls, tpc, back,
                          hand, control, owing, waiting, channel, flushing, registered,
                          dropped, source, pad, terminal, failed>>
           /\ phase' = CASE todo[1] = "Pause" -> "paused"
                         [] todo[1] = "Resume" -> "playing"
                         [] todo[1] = "Stop" -> "stopped"
                         [] todo[1] = "Preroll" -> "prerolling"
                         [] OTHER -> phase
           /\ starts' = IF todo[1] = "Flush" THEN Append(starts, call[holder].to) ELSE starts
           /\ interrupt' \in BOOLEAN /\ abandoned' \in BOOLEAN /\ active' \in BOOLEAN
           /\ preroll' \in [on : BOOLEAN, ready : SUBSET Lines, cancelled : BOOLEAN]
  <1>1. Head(todo) = todo[1] /\ todo # <<>>
    BY UnderWay DEF Says, StageLeaves
  <1>2. /\ interrupt \in BOOLEAN /\ abandoned \in BOOLEAN /\ active \in BOOLEAN
        /\ preroll \in [on : BOOLEAN, ready : SUBSET Lines, cancelled : BOOLEAN]
    BY DEF Types, PlayTypes
  <1>3. NoPreroll \in [on : BOOLEAN, ready : SUBSET Lines, cancelled : BOOLEAN]
    BY DEF NoPreroll
  <1>4. [on |-> TRUE, ready |-> {}, cancelled |-> abandoned]
            \in [on : BOOLEAN, ready : SUBSET Lines, cancelled : BOOLEAN]
    BY <1>2
  <1>5. (~abandoned) \in BOOLEAN
    BY <1>2
  <1>6. CASE todo[1] = "Pause"
    BY <1>1, <1>2, <1>6 DEF Says, playback, slot, lock, callers, threads, requests, queues, ends
  <1>7. CASE todo[1] = "Resume"
    BY <1>1, <1>2, <1>3, <1>7
       DEF Says, playback, slot, lock, callers, threads, requests, queues, ends
  <1>8. CASE todo[1] = "Stop"
    BY <1>1, <1>2, <1>3, <1>8
       DEF Says, playback, slot, lock, callers, threads, requests, queues, ends
  <1>9. CASE todo[1] = "Flush"
    BY <1>1, <1>2, <1>9 DEF Says, playback, slot, lock, callers, threads, requests, queues, ends
  <1>10. CASE todo[1] = "Preroll"
    BY <1>1, <1>2, <1>4, <1>5, <1>10
       DEF Says, playback, slot, lock, callers, threads, requests, queues, ends
  <1>11. CASE todo[1] \notin {"Pause", "Resume", "Stop", "Flush", "Preroll"}
    BY <1>1, <1>2, <1>11
       DEF Says, playback, slot, lock, callers, threads, requests, queues, ends
  <1> QED  BY <1>6, <1>7, <1>8, <1>9, <1>10, <1>11

\* Types of a timeline hold in the next.
LEMMA LaterTypes ==
    ASSUME Types, timeline' \in Nat, timeline <= timeline',
           UNCHANGED <<channel, hand, tpc, source, pad, failed, terminal>>
    PROVE  SourceTypes' /\ TerminalTypes' /\ ItemTypes'
  <1>1. timeline \in Nat
    BY DEF Types, PlayTypes
  <1> DEFINE now == timeline
             then == timeline'
  <1>2. 0 .. now \subseteq 0 .. then
    BY <1>1
  <1>3. ItemsTo(now) \subseteq ItemsTo(then)
    BY <1>1 DEF ItemsTo
  <1>4. \A q \in Seq(ItemsTo(now)) : q \in Seq(ItemsTo(then))
    BY <1>3, SeqOfMore
  <1> HIDE DEF now, then
  <1>5. SourceTypes'
    <2>1. source \in [Lines -> [pos : 0..Length, seg : 0..now, sought : BOOLEAN]]
      BY DEF Types, SourceTypes, now
    <2>2. source \in [Lines -> [pos : 0..Length, seg : 0..then, sought : BOOLEAN]]
      BY <2>1, <1>2
    <2> QED  BY <2>2 DEF Types, SourceTypes, then
  <1>6. TerminalTypes'
    <2>1. terminal \in [Lines -> [seg : 0..now, from : 0..now, at : 0..Length,
                                  ended : BOOLEAN, heard : BOOLEAN]]
      BY DEF Types, TerminalTypes, now
    <2>2. terminal \in [Lines -> [seg : 0..then, from : 0..then, at : 0..Length,
                                  ended : BOOLEAN, heard : BOOLEAN]]
      BY <2>1, <1>2
    <2> QED  BY <2>2 DEF Types, TerminalTypes, then
  <1>7. ItemTypes'
    <2>1. channel \in [Workers -> Seq(ItemsTo(now))]
      BY DEF Types, ItemTypes, now
    <2>2. channel \in [Workers -> Seq(ItemsTo(then))]
      <3> HIDE DEF ItemsTo
      <3> QED  BY <2>1, <1>4
    <2>3. \A t \in Threads : tpc[t] = "push" => hand[t] \in ItemsTo(then)
      BY <1>3 DEF Types, ItemTypes, now
    <2> QED  BY <2>2, <2>3 DEF Types, ItemTypes, then
  <1> QED  BY <1>5, <1>6, <1>7

\* A stage says what it changes.
LEMMA SaysCounts ==
    ASSUME Counts, Says
    PROVE  Counts'
  <1>1. /\ todo # <<>> /\ step = "say" /\ step' = "snapshot" /\ holder # None
        /\ todo[1] \notin {"await", "retire"}
        /\ UNCHANGED <<running, paused, holder, todo, sending, cpc, call, calls, tpc, back,
                       hand, control, owing, waiting, channel, flushing, registered,
                       dropped, source, pad, terminal, failed>>
        /\ phase' = CASE todo[1] = "Pause" -> "paused"
                      [] todo[1] = "Resume" -> "playing"
                      [] todo[1] = "Stop" -> "stopped"
                      [] todo[1] = "Preroll" -> "prerolling"
                      [] OTHER -> phase
        /\ starts' = IF todo[1] = "Flush" THEN Append(starts, call[holder].to) ELSE starts
        /\ interrupt' \in BOOLEAN /\ abandoned' \in BOOLEAN /\ active' \in BOOLEAN
        /\ preroll' \in [on : BOOLEAN, ready : SUBSET Lines, cancelled : BOOLEAN]
    BY SaysIs DEF Counts
  <1>2. /\ todo \in AllStages /\ StageLeaves(todo)
        /\ holder \in Callers /\ cpc[holder] = "asking"
    BY <1>1, UnderWay DEF Counts
  <1>3. call[holder].to \in 0..Length
    <2>1. call[holder].to \in Targets \cup {0}
      BY <1>2 DEF Counts, Types, CallTypes
    <2>2. Length \in Nat /\ Targets \subseteq 0..Length
      BY SizesAssumption
    <2>3. 0 \in 0..Length
      BY <2>2
    <2> QED  BY <2>1, <2>2, <2>3
  <1>4. /\ timeline \in Nat \ {0}
        /\ timeline' = IF todo[1] = "Flush" THEN timeline + 1 ELSE timeline
        /\ starts' \in Seq(0..Length)
    <2>1. starts \in Seq(0..Length) /\ timeline \in Nat \ {0}
      BY DEF Counts, Types, PlayTypes
    <2>2. /\ Append(starts, call[holder].to) \in Seq(0..Length)
          /\ Len(Append(starts, call[holder].to)) = Len(starts) + 1
      BY <1>3, <2>1, AppendOf
    <2>3. todo[1] = "Flush" => timeline' = timeline + 1 /\ starts' \in Seq(0..Length)
      BY <1>1, <2>2 DEF timeline
    <2>4. todo[1] # "Flush" => timeline' = timeline /\ starts' \in Seq(0..Length)
      BY <1>1, <2>1 DEF timeline
    <2> QED  BY <2>1, <2>3, <2>4
  <1>5. PlayTypes'
    <2>1. phase' \in {"playing", "paused", "prerolling", "stopped"}
      BY <1>1 DEF Counts, Types, PlayTypes
    <2>2. timeline' \in Nat \ {0}
      BY <1>4
    <2> QED  BY <1>1, <1>4, <2>1, <2>2 DEF Counts, Types, PlayTypes
  <1>6. CallTypes'
    BY <1>1 DEF Counts, Types, CallTypes
  <1>7. Plan'
    <2>1. /\ todo[1] = "Pause" => phase' = "paused"
          /\ todo[1] = "Resume" => phase' = "playing"
          /\ todo[1] = "Stop" => phase' = "stopped"
      BY <1>1
    <2>2. todo \in {<<>>, <<"Finish">>} => phase' = phase
      BY <1>1, <1>2 DEF StageLeaves
    <2> QED  BY <1>1, <2>1, <2>2 DEF Counts, Types, Plan
  <1>8. ThreadTypes' /\ QueueTypes' /\ RunningIs'
    BY <1>1, ThreadTypesStay, QueueTypesStay, RunningStays DEF Counts, Types
  <1>9. SourceTypes' /\ TerminalTypes' /\ ItemTypes'
    BY <1>1, <1>4, LaterTypes DEF Counts
  <1>10. RequestTypes'
    BY <1>1 DEF Counts, Types, RequestTypes
  <1>11. SeeksCounted'
    <2>1. CASE todo[1] = "Flush"
      <3>1. call[holder].op = "seek" /\ todo \in Flushing
        BY <1>2, <2>1 DEF StageLeaves, Counts, Types, Plan
      <3>2. holder \in Seekers
        BY <1>1, <1>2, <3>1 DEF Seekers
      <3>3. Seekers' \subseteq Seekers \ {holder}
        BY <1>1, <1>2, <2>1 DEF Seekers
      <3>4. IsFiniteSet(Seekers)
        BY DEF Counts, SeeksCounted
      <3>5. IsFiniteSet(Seekers \ {holder})
            /\ Cardinality(Seekers \ {holder}) = Cardinality(Seekers) - 1
        BY <3>2, <3>4, FS_RemoveElement
      <3>6. IsFiniteSet(Seekers') /\ Cardinality(Seekers') <= Cardinality(Seekers \ {holder})
            /\ Cardinality(Seekers') \in Nat /\ Cardinality(Seekers) \in Nat
        BY <3>3, <3>4, <3>5, FS_Subset, FS_CardinalityType
      <3>7. calls' = calls /\ calls \in Nat
        BY <1>1, BoundsAssumption DEF Counts, Types, CallTypes
      <3> QED  BY <1>4, <2>1, <3>5, <3>6, <3>7 DEF Counts, SeeksCounted
    <2>2. CASE todo[1] # "Flush"
      <3>1. Seekers' \subseteq Seekers
        BY <1>1, <2>2 DEF Seekers
      <3> QED  BY <1>1, <2>2, <3>1, SeeksStay DEF Counts
    <2> QED  BY <2>1, <2>2
  <1> QED  BY <1>5, <1>6, <1>7, <1>8, <1>9, <1>10, <1>11 DEF Counts, Types

\* The channels are looked up.
LEMMA SnapshotsCounts ==
    ASSUME Counts, Snapshots
    PROVE  Counts'
  <1>1. /\ UNCHANGED <<phase, interrupt, starts, preroll, abandoned, active, running, paused,
                       holder, todo, cpc, call, calls, tpc, back, hand, control, owing,
                       waiting, channel, flushing, registered, dropped, source, pad, terminal,
                       failed>>
        /\ step = "snapshot" /\ step' = "send" /\ sending' = AskedOf(Head(todo))
    BY DEF Snapshots, playback, slot, callers, threads, requests, queues, ends
  <1>2. PlayTypes' /\ ThreadTypes' /\ QueueTypes' /\ SourceTypes'
        /\ TerminalTypes' /\ ItemTypes' /\ RunningIs'
    BY <1>1, PlayTypesStay, ThreadTypesStay, QueueTypesStay,
       SourceTypesStay, TerminalTypesStay, ItemTypesStay, RunningStays DEF Counts, Types
  <1>3. CallTypes'
    BY <1>1 DEF Counts, Types, CallTypes
  <1>4. Plan'
    BY <1>1 DEF Counts, Types, Plan
  <1>5. RequestTypes'
    <2>1. sending' \subseteq Threads
      BY <1>1 DEF AskedOf, Threads
    <2>2. waiting = {}
      BY <1>1 DEF Counts, Types, RequestTypes
    <2> QED  BY <1>1, <2>1, <2>2 DEF Counts, Types, RequestTypes
  <1>6. Seekers' \subseteq Seekers
    BY <1>1 DEF Seekers
  <1>7. SeeksCounted'
    BY <1>1, <1>6, SeeksStay DEF Counts
  <1> QED  BY <1>2, <1>3, <1>4, <1>5, <1>7 DEF Counts, Types

\* A request is sent.
LEMMA SendsCounts ==
    ASSUME Counts, Sends
    PROVE  Counts'
  <1>1. /\ UNCHANGED <<phase, interrupt, starts, preroll, abandoned, active, running, paused,
                       holder, todo, step, cpc, call, calls, tpc, back, hand, owing,
                       channel, flushing, registered, dropped, source, pad, terminal, failed>>
        /\ step = "send"
    BY DEF Sends, playback, slot, callers, threads, queues, ends
  <1>2. PICK t \in sending :
            /\ sending' = sending \ {t}
            /\ IF Receives(t)
               THEN /\ control' = [control EXCEPT ![t] = Append(@, Direct(Head(todo)))]
                    /\ waiting' = waiting \cup {t}
               ELSE UNCHANGED <<control, waiting>>
    BY DEF Sends
  <1>3. PlayTypes' /\ CallTypes' /\ Plan' /\ ThreadTypes' /\ QueueTypes' /\ SourceTypes'
        /\ TerminalTypes' /\ ItemTypes' /\ RunningIs' /\ SeeksCounted'
    BY <1>1, PlayTypesStay, CallTypesStay, PlanStay, ThreadTypesStay, QueueTypesStay,
       SourceTypesStay, TerminalTypesStay, ItemTypesStay, RunningStays, SeeksKept
       DEF Counts, Types
  <1>4. RequestTypes'
    <2>1. t \in Threads /\ control[t] \in Seq([msg : StageNames, direct : BOOLEAN])
      BY DEF Counts, Types, RequestTypes
    <2>2. todo # <<>>
      BY <1>1 DEF Counts, Types, Plan
    <2>3. Head(todo) \in StageNames
      BY <2>2, UnderWay DEF Counts, StageLeaves
    <2>4. Direct(Head(todo)) \in [msg : StageNames, direct : BOOLEAN]
      BY <2>3 DEF Direct
    <2>5. Append(control[t], Direct(Head(todo))) \in Seq([msg : StageNames, direct : BOOLEAN])
      BY <2>1, <2>4, AppendOf
    <2>6. control' \in [Threads -> Seq([msg : StageNames, direct : BOOLEAN])]
      BY <1>2, <2>1, <2>5 DEF Counts, Types, RequestTypes
    <2> QED  BY <1>1, <1>2, <2>1, <2>6 DEF Counts, Types, RequestTypes
  <1> QED  BY <1>3, <1>4 DEF Counts, Types

\* All is sent, and an interrupt is out.
LEMMA InterruptsCounts ==
    ASSUME Counts, Interrupts
    PROVE  Counts'
  <1>1. /\ UNCHANGED <<phase, starts, preroll, abandoned, active, running, paused, sending,
                       holder, todo, cpc, call, calls, tpc, back, hand, control, owing,
                       waiting, channel, flushing, registered, dropped, source, pad, terminal,
                       failed>>
        /\ step = "send" /\ step' = "acks" /\ sending = {} /\ interrupt' \in BOOLEAN
    BY DEF Interrupts, slot, callers, threads, requests, queues, ends
  <1>2. ThreadTypes' /\ QueueTypes' /\ SourceTypes'
        /\ TerminalTypes' /\ ItemTypes' /\ RunningIs'
    BY <1>1, ThreadTypesStay, QueueTypesStay,
       SourceTypesStay, TerminalTypesStay, ItemTypesStay, RunningStays DEF Counts, Types
  <1>3. PlayTypes'
    BY <1>1 DEF Counts, Types, PlayTypes, timeline
  <1>4. CallTypes'
    BY <1>1 DEF Counts, Types, CallTypes
  <1>5. Plan'
    BY <1>1 DEF Counts, Types, Plan
  <1>6. RequestTypes'
    BY <1>1 DEF Counts, Types, RequestTypes
  <1>7. Seekers' \subseteq Seekers
    BY <1>1 DEF Seekers
  <1>8. SeeksCounted'
    BY <1>1, <1>7, SeeksStay DEF Counts
  <1> QED  BY <1>2, <1>3, <1>4, <1>5, <1>6, <1>8 DEF Counts, Types

\* A stage over leaves the rest of its call.
LEMMA NextStage ==
    ASSUME Counts, todo # <<>>, todo' = Tail(todo), step' = "say",
           step = "say" => todo[1] \in {"await", "retire"},
           UNCHANGED <<phase, paused, holder, call, cpc, calls, starts>>
    PROVE  CallTypes' /\ Plan' /\ SeeksCounted'
  <1>1. /\ todo \in AllStages /\ StageLeaves(todo)
        /\ holder # None /\ holder \in Callers /\ cpc[holder] = "asking"
    BY UnderWay DEF Counts
  <1>2. PICK s : s = Tail(todo)
    OBVIOUS
  <1>3. todo' = s
    BY <1>2
  <1>4. /\ todo \in ToPaused => s \in ToPaused \cup {<<>>} /\ todo \notin ToPlaying
        /\ todo \in ToPlaying => s \in ToPlaying \cup {<<>>} /\ todo \notin ToPaused
        /\ todo \in ToStop => s = <<>> /\ todo \notin ToPaused \cup ToPlaying \cup ToFinish
        /\ todo \in ToFinish => s \in {<<>>, <<"Finish">>} /\ todo \notin ToPaused \cup ToPlaying
        /\ s \in Flushing => todo \in Flushing /\ todo[1] = "Pause"
        /\ todo[1] \in {"await", "retire"} => s # <<>> /\ todo \in ToPaused \cup ToPlaying
        /\ s = <<"Finish">> => todo[1] = "Resume"
        /\ s = <<>> => todo[1] \in {"Pause", "Resume", "Stop", "Finish"}
        /\ s = <<>> /\ todo[1] = "Pause" => todo \in ToPaused
        /\ s = <<>> /\ todo[1] = "Resume" => todo \in ToPlaying
        /\ todo[1] = "Finish" => todo = <<"Finish">>
    BY <1>1, <1>2 DEF StageLeaves
  <1>5. s = <<>> \/ (s \in AllStages /\ StageLeaves(s))
    BY <1>1, <1>4, Leaves DEF AllStages, ToFinish
  <1>6. CallTypes'
    BY <1>1 DEF Counts, Types, CallTypes
  <1>7. Plan'
    <2>1. <<>> \notin ToPaused \cup ToPlaying \cup ToStop \cup ToFinish \cup Flushing
          /\ <<"Finish">> \in ToFinish
      BY NothingLeft DEF AllStages, ToFinish
    <2>2. /\ s \in ToPaused => todo \in ToPaused
          /\ s \in ToPlaying => todo \in ToPlaying
          /\ s \in ToFinish => todo \in ToFinish
          /\ s \notin ToStop
      BY <1>1, <1>4, <1>5, <2>1 DEF AllStages, StageLeaves
    <2>3. step # "say" => /\ todo[1] = "Pause" => phase = "paused"
                          /\ todo[1] = "Resume" => phase = "playing"
                          /\ todo[1] = "Stop" => phase = "stopped"
      BY DEF Counts, Types, Plan
    <2>4. s \in {<<>>, <<"Finish">>} => (phase = "paused" => paused)
      <3>1. CASE s = <<"Finish">>
        BY <1>4, <2>3, <3>1
      <3>2. CASE s = <<>>
        BY <1>4, <2>3, <3>2 DEF Counts, Types, Plan
      <3> QED  BY <3>1, <3>2
    <2>5. s \in {<<>>} \cup ToPaused \cup ToPlaying \cup ToStop \cup ToFinish
      BY <1>5 DEF AllStages
    <2> QED  BY <1>1, <1>3, <1>4, <2>2, <2>4, <2>5 DEF Counts, Types, Plan
  <1>8. Seekers' \subseteq Seekers
    BY <1>1, <1>3, <1>4 DEF Seekers
  <1>9. SeeksCounted'
    BY <1>8, SeeksStay DEF Counts
  <1> QED  BY <1>6, <1>7, <1>9

\* All is acknowledged.
LEMMA SettlesCounts ==
    ASSUME Counts, Settles
    PROVE  Counts'
  <1>1. /\ UNCHANGED <<phase, starts, preroll, abandoned, active, running, paused, sending,
                       holder, cpc, call, calls, tpc, back, hand, control, owing,
                       waiting, channel, flushing, registered, dropped, source, pad, terminal,
                       failed>>
        /\ step = "acks" /\ step' = "say" /\ waiting = {} /\ interrupt' \in BOOLEAN
        /\ todo' = Tail(todo)
    BY DEF Settles, AllAcked, slot, callers, threads, requests, queues, ends
  <1>2. ThreadTypes' /\ QueueTypes' /\ SourceTypes'
        /\ TerminalTypes' /\ ItemTypes' /\ RunningIs'
    BY <1>1, ThreadTypesStay, QueueTypesStay,
       SourceTypesStay, TerminalTypesStay, ItemTypesStay, RunningStays DEF Counts, Types
  <1>3. PlayTypes'
    BY <1>1 DEF Counts, Types, PlayTypes, timeline
  <1>4. RequestTypes'
    BY <1>1 DEF Counts, Types, RequestTypes
  <1>5. todo # <<>>
    BY <1>1 DEF Counts, Types, Plan
  <1>6. CallTypes' /\ Plan' /\ SeeksCounted'
    BY <1>1, <1>5, NextStage
  <1> QED  BY <1>2, <1>3, <1>4, <1>6 DEF Counts, Types

\* A preroll is over, or its slot left.
LEMMA AwaitsCounts ==
    ASSUME Counts, Awaits
    PROVE  Counts'
  <1>1. /\ UNCHANGED <<phase, interrupt, starts, preroll, abandoned, running, paused, sending,
                       holder, step, cpc, call, calls, tpc, back, hand, control, owing,
                       waiting, channel, flushing, registered, dropped, source, pad, terminal,
                       failed>>
        /\ step = "say" /\ todo # <<>> /\ todo' = Tail(todo)
        /\ Head(todo) \in {"await", "retire"} /\ (active' = active \/ active' = FALSE)
    BY DEF Awaits, playback, slot, callers, threads, requests, queues, ends
  <1>2. ThreadTypes' /\ RequestTypes' /\ QueueTypes' /\ SourceTypes'
        /\ TerminalTypes' /\ ItemTypes' /\ RunningIs'
    BY <1>1, ThreadTypesStay, RequestTypesStay, QueueTypesStay,
       SourceTypesStay, TerminalTypesStay, ItemTypesStay, RunningStays DEF Counts, Types
  <1>3. PlayTypes'
    BY <1>1 DEF Counts, Types, PlayTypes, timeline
  <1>4. todo[1] \in {"await", "retire"}
    BY <1>1, UnderWay DEF Counts, StageLeaves
  <1>5. CallTypes' /\ Plan' /\ SeeksCounted'
    BY <1>1, <1>4, NextStage
  <1> QED  BY <1>2, <1>3, <1>5 DEF Counts, Types

-----------------------------------------------------------------------------
(* The types, and what is counted, through each thread's steps.            *)

\* A step of a thread leaves the calls as they are.
LEMMA CallsStay ==
    ASSUME Counts, UNCHANGED <<phase, starts, paused, cpc, call, calls, holder, step, todo>>
    PROVE  CallTypes' /\ Plan' /\ SeeksCounted'
  BY CallTypesStay, PlanStay, SeeksKept DEF Counts, Types

\* A thread goes where its loop may be.
LEMMA GoesThreads ==
    ASSUME Types, NEW t \in Threads, NEW p, tpc' = [tpc EXCEPT ![t] = p],
           t \in Sources => p \in SourcePlaces,
           t \in Workers => p \in WorkerPlaces /\ (p = "push" => ~IsLast(t)),
           back' \in [Sources -> {"ask", "ending", "linger"}]
    PROVE  ThreadTypes'
  <1>1. tpc'[t] = p /\ \A u \in Threads : u # t => tpc'[u] = tpc[u]
    BY DEF Types, ThreadTypes
  <1>2. tpc' \in [Threads -> SourcePlaces \cup WorkerPlaces]
    BY DEF Types, ThreadTypes, Threads
  <1> QED  BY <1>1, <1>2, ThreadsAre DEF Types, ThreadTypes

\* A source has begun a segment once it goes anywhere.
LEMMA GoesSource ==
    ASSUME Types, NEW t \in Threads, NEW p, tpc' = [tpc EXCEPT ![t] = p],
           tpc[t] # "begin", UNCHANGED <<source, pad, failed, starts>>
    PROVE  SourceTypes'
  <1>1. \A u \in Threads : tpc'[u] # "begin" => tpc[u] # "begin"
    BY DEF Types, ThreadTypes
  <1> QED  BY <1>1, ThreadsAre DEF Types, SourceTypes, timeline

\* What it has in hand to push is of a timeline there has been.
LEMMA GoesItems ==
    ASSUME Types, NEW t \in Threads, NEW p, tpc' = [tpc EXCEPT ![t] = p], starts' = starts,
           channel' \in [Workers -> Seq(ItemsTo(timeline))],
           hand' \in [Threads -> Items], \A u \in Threads : u # t => hand'[u] = hand[u],
           p = "push" => hand'[t] \in ItemsTo(timeline)
    PROVE  ItemTypes'
  <1>1. tpc'[t] = p /\ \A u \in Threads : u # t => tpc'[u] = tpc[u]
    BY DEF Types, ThreadTypes
  <1>2. timeline' = timeline
    BY DEF timeline
  <1>3. \A u \in Threads : tpc'[u] = "push" => hand'[u] \in ItemsTo(timeline)
    BY <1>1 DEF Types, ItemTypes
  <1> QED  BY <1>2, <1>3 DEF ItemTypes

\* And so it is where it only goes.
LEMMA GoesOnly ==
    ASSUME Types, NEW t \in Threads, NEW p, tpc' = [tpc EXCEPT ![t] = p], p # "push",
           UNCHANGED <<channel, hand, starts>>
    PROVE  ItemTypes'
  <1>1. channel' \in [Workers -> Seq(ItemsTo(timeline))] /\ hand' \in [Threads -> Items]
    BY DEF Types, ItemTypes
  <1> QED  BY <1>1, GoesItems

Away == {"returned", "dropping", "joining", "done"}

\* The sources running are the same but for one whose thread returns.
LEMMA GoesCounted ==
    ASSUME Types, RunningIs, NEW t \in Threads, NEW p, tpc' = [tpc EXCEPT ![t] = p],
           running' = running, t \in Sources => (tpc[t] \in Away <=> p \in Away)
    PROVE  RunningIs'
  <1>1. tpc'[t] = p /\ \A u \in Threads : u # t => tpc'[u] = tpc[u]
    BY DEF Types, ThreadTypes
  <1>2. \A l \in Lines : tpc'[Source(l)] \in Away <=> tpc[Source(l)] \in Away
    BY <1>1, ThreadsAre
  <1>3. Counted' = Counted
    BY <1>2 DEF Counted, Away
  <1> QED  BY <1>3 DEF RunningIs

\* What is pushed is queued, or dropped.
LEMMA PushedTypes ==
    ASSUME Types, NEW q \in Workers, NEW item \in ItemsTo(timeline)
    PROVE  Pushed(q, item) \in [Workers -> Seq(ItemsTo(timeline))]
  <1>1. channel \in [Workers -> Seq(ItemsTo(timeline))]
    BY DEF Types, ItemTypes
  <1>2. Append(channel[q], item) \in Seq(ItemsTo(timeline))
    <2> HIDE DEF ItemsTo, timeline
    <2> QED  BY <1>1, AppendOf
  <1> QED  BY <1>1, <1>2 DEF Pushed

\* What a source makes is of a timeline there has been.
LEMMA MadeTypes ==
    ASSUME Types
    PROVE  /\ \A sg \in 1..timeline :
                  /\ Eos(sg) \in ItemsTo(timeline)
                  /\ \A flushed \in BOOLEAN : Segment(sg, flushed) \in ItemsTo(timeline)
                  /\ \A at \in 0..Length : Buffer(sg, at) \in ItemsTo(timeline)
           /\ NoItem \in Items /\ timeline \in 1..timeline /\ timeline \in Nat
           /\ TRUE \in BOOLEAN /\ FALSE \in BOOLEAN
  <1>1. Length \in Nat /\ timeline \in Nat \ {0}
    BY SizesAssumption DEF Types, PlayTypes
  <1>2. timeline \in 1..timeline /\ 0 \in 0..Length
    BY <1>1
  <1>3. NoItem \in Items
    BY <1>2 DEF NoItem, Items
  <1>4. ASSUME NEW sg \in 1..timeline
        PROVE  /\ Eos(sg) \in ItemsTo(timeline)
               /\ \A flushed \in BOOLEAN : Segment(sg, flushed) \in ItemsTo(timeline)
               /\ \A at \in 0..Length : Buffer(sg, at) \in ItemsTo(timeline)
    <2>1. sg \in Nat
      BY <1>1
    <2>2. Eos(sg) \in Items /\ Eos(sg).kind = "eos" /\ Eos(sg).seg = sg
      BY <2>1, <1>2 DEF Eos, Items
    <2>3. ASSUME NEW flushed \in BOOLEAN
          PROVE  Segment(sg, flushed) \in ItemsTo(timeline)
      <3>1. Segment(sg, flushed) \in Items /\ Segment(sg, flushed).seg = sg
            /\ Segment(sg, flushed).kind # None
        BY <2>1, <1>2 DEF Segment, Items, None
      <3> QED  BY <3>1 DEF ItemsTo
    <2>4. ASSUME NEW at \in 0..Length
          PROVE  Buffer(sg, at) \in ItemsTo(timeline)
      <3>1. Buffer(sg, at) \in Items /\ Buffer(sg, at).seg = sg /\ Buffer(sg, at).kind # None
        BY <2>1 DEF Buffer, Items, None
      <3> QED  BY <3>1 DEF ItemsTo
    <2> QED  BY <2>2, <2>3, <2>4 DEF ItemsTo, None
  <1> QED  BY <1>1, <1>2, <1>3, <1>4

\* A source begins its stream with a segment.
LEMMA SourceBeginsCounts ==
    ASSUME Counts, NEW l \in Lines, SourceBegins(l)
    PROVE  Counts'
  <1> DEFINE s == Source(l)
  <1>1. /\ UNCHANGED <<phase, interrupt, starts, preroll, abandoned, active, running, paused,
                       holder, todo, step, sending, cpc, call, calls, back, hand, control,
                       owing, waiting, flushing, registered, dropped, pad, terminal, failed>>
        /\ tpc[s] = "begin" /\ tpc' = [tpc EXCEPT ![s] = "ask"]
        /\ channel' = Pushed(After(s), Segment(timeline, FALSE))
        /\ source' = [source EXCEPT ![l].seg = timeline]
    BY DEF SourceBegins, playback, slot, lock, callers, requests, GoTo
  <1>2. s \in Sources /\ s \in Threads /\ s \notin Workers /\ After(s) \in Workers
    BY ThreadsAre, Neighbours
  <1> HIDE DEF s
  <1>3. CallTypes' /\ Plan' /\ SeeksCounted' /\ PlayTypes' /\ RequestTypes' /\ QueueTypes'
        /\ TerminalTypes'
    BY <1>1, CallsStay, PlayTypesStay, RequestTypesStay, QueueTypesStay, TerminalTypesStay
       DEF Counts, Types
  <1>4. ThreadTypes'
    BY <1>1, <1>2, GoesThreads DEF Counts, SourcePlaces, Types, ThreadTypes
  <1>5. RunningIs'
    BY <1>1, <1>2, GoesCounted DEF Counts, Away
  <1>6. ItemTypes'
    <2>1. channel' \in [Workers -> Seq(ItemsTo(timeline))]
      BY <1>1, <1>2, PushedTypes, MadeTypes DEF Counts
    <2>2. hand' \in [Threads -> Items]
      BY <1>1 DEF Counts, Types, ItemTypes
    <2> QED  BY <1>1, <1>2, <2>1, <2>2, GoesItems DEF Counts
  <1>7. SourceTypes'
    <2>1. timeline' = timeline /\ timeline \in 0..timeline /\ timeline # 0
      BY <1>1 DEF Counts, Types, PlayTypes, timeline
    <2>2. source' \in [Lines -> [pos : 0..Length, seg : 0..timeline, sought : BOOLEAN]]
      BY <1>1, <2>1 DEF Counts, Types, SourceTypes
    <2>3. source'[l].seg # 0
      BY <1>1, <2>1 DEF Counts, Types, SourceTypes
    <2>4. \A k \in Lines : k # l => /\ source'[k] = source[k] /\ Source(k) # Source(l)
                                    /\ tpc'[Source(k)] = tpc[Source(k)]
      BY <1>1, ThreadsAre DEF Counts, Types, SourceTypes, ThreadTypes, s
    <2> QED  BY <1>1, <2>1, <2>2, <2>3, <2>4 DEF Counts, Types, SourceTypes
  <1> QED  BY <1>3, <1>4, <1>5, <1>6, <1>7 DEF Counts, Types

\* A source makes the next sample, or has reached the end of its medium.
LEMMA SourceProducesCounts ==
    ASSUME Counts, NEW l \in Lines, SourceProduces(l)
    PROVE  Counts'
  <1> DEFINE s == Source(l)
  <1>1. /\ UNCHANGED <<phase, interrupt, starts, preroll, abandoned, active, running, paused,
                       holder, todo, step, sending, cpc, call, calls, back, control,
                       owing, waiting, channel, flushing, registered, dropped, pad, terminal,
                       failed>>
        /\ tpc[s] = "ask"
    BY DEF SourceProduces, playback, slot, lock, callers, requests, queues
  <1>2. PICK p : /\ tpc' = [tpc EXCEPT ![s] = p]
                 /\ \/ /\ p = "push" /\ HasMore(l)
                       /\ hand' = [hand EXCEPT ![s] = Buffer(source[l].seg, source[l].pos + 1)]
                       /\ source' = [source EXCEPT ![l].pos = source[l].pos + 1]
                    \/ /\ p = "ending" /\ hand' = hand
                       /\ source' = [source EXCEPT ![l].sought = FALSE]
    BY DEF SourceProduces, GoTo
  <1>3. s \in Sources /\ s \in Threads /\ s \notin Workers
    BY ThreadsAre
  <1>4. source[l] \in [pos : 0..Length, seg : 0..timeline, sought : BOOLEAN]
        /\ source[l].seg # 0 /\ source[l].pos \in 0..Length
    BY <1>1 DEF Counts, Types, SourceTypes
  <1>5. HasMore(l) => source[l].pos + 1 \in 0..Length
    BY <1>4, SizesAssumption DEF HasMore
  <1> HIDE DEF s
  <1>6. CallTypes' /\ Plan' /\ SeeksCounted' /\ PlayTypes' /\ RequestTypes' /\ QueueTypes'
        /\ TerminalTypes'
    BY <1>1, CallsStay, PlayTypesStay, RequestTypesStay, QueueTypesStay, TerminalTypesStay
       DEF Counts, Types
  <1>7. ThreadTypes'
    <2>1. p \in SourcePlaces
      BY <1>2 DEF SourcePlaces
    <2> QED  BY <1>1, <1>2, <1>3, <2>1, GoesThreads DEF Counts, Types, ThreadTypes
  <1>8. RunningIs'
    BY <1>1, <1>2, <1>3, GoesCounted DEF Counts, Away
  <1>9. ItemTypes'
    <2>1. channel' \in [Workers -> Seq(ItemsTo(timeline))]
      BY <1>1 DEF Counts, Types, ItemTypes
    <2>2. p = "push" => Buffer(source[l].seg, source[l].pos + 1) \in ItemsTo(timeline)
      <3>1. HasMore(l) => source[l].seg \in 1..timeline /\ source[l].pos + 1 \in 0..Length
        BY <1>4, <1>5, MadeTypes DEF Counts
      <3> QED  BY <1>2, <3>1, MadeTypes DEF Counts
    <2>3. /\ hand' \in [Threads -> Items] /\ \A u \in Threads : u # s => hand'[u] = hand[u]
          /\ p = "push" => hand'[s] \in ItemsTo(timeline)
      <3>1. hand \in [Threads -> Items]
        BY DEF Counts, Types, ItemTypes
      <3>2. ItemsTo(timeline) \subseteq Items
        BY DEF ItemsTo
      <3> QED  BY <1>2, <1>3, <2>2, <3>1, <3>2
    <2> QED  BY <1>1, <1>2, <1>3, <2>1, <2>3, GoesItems DEF Counts
  <1>10. SourceTypes'
    <2>1. timeline' = timeline
      BY <1>1 DEF timeline
    <2>2. source' \in [Lines -> [pos : 0..Length, seg : 0..timeline, sought : BOOLEAN]]
          /\ \A k \in Lines : source'[k].seg = source[k].seg
      <3>1. source \in [Lines -> [pos : 0..Length, seg : 0..timeline, sought : BOOLEAN]]
        BY DEF Counts, Types, SourceTypes
      <3>2. CASE source' = [source EXCEPT ![l].pos = source[l].pos + 1] /\ HasMore(l)
        BY <1>5, <3>1, <3>2
      <3>3. CASE source' = [source EXCEPT ![l].sought = FALSE]
        BY <3>1, <3>3
      <3> QED  BY <1>2, <3>2, <3>3
    <2>3. \A k \in Lines : tpc'[Source(k)] # "begin" => tpc[Source(k)] # "begin"
      BY <1>1, <1>2, <1>3, ThreadsAre DEF Counts, Types, ThreadTypes
    <2> QED  BY <1>1, <2>1, <2>2, <2>3 DEF Counts, Types, SourceTypes
  <1> QED  BY <1>6, <1>7, <1>8, <1>9, <1>10 DEF Counts, Types

\* A source hands its sample on.
LEMMA SourceHandsOnCounts ==
    ASSUME Counts, NEW l \in Lines, SourceHandsOn(l)
    PROVE  Counts'
  <1> DEFINE s == Source(l)
  <1>1. /\ UNCHANGED <<phase, interrupt, starts, preroll, abandoned, active, running, paused,
                       holder, todo, step, sending, cpc, call, calls, back, control,
                       owing, waiting, flushing, registered, dropped, source, terminal,
                       failed>>
        /\ tpc[s] = "push" /\ tpc' = [tpc EXCEPT ![s] = "ask"]
        /\ channel' = channel \/ channel' = Pushed(After(s), hand[s])
        /\ pad' = [pad EXCEPT ![l].ended = @ /\ pad[l].flushing]
        /\ hand' = [hand EXCEPT ![s] = NoItem]
    BY DEF SourceHandsOn, playback, slot, lock, callers, requests, GoTo
  <1>2. s \in Sources /\ s \in Threads /\ s \notin Workers /\ After(s) \in Workers
    BY ThreadsAre, Neighbours
  <1> HIDE DEF s
  <1>3. CallTypes' /\ Plan' /\ SeeksCounted' /\ PlayTypes' /\ RequestTypes' /\ QueueTypes'
        /\ TerminalTypes'
    BY <1>1, CallsStay, PlayTypesStay, RequestTypesStay, QueueTypesStay, TerminalTypesStay
       DEF Counts, Types
  <1>4. ThreadTypes'
    BY <1>1, <1>2, GoesThreads DEF Counts, SourcePlaces, Types, ThreadTypes
  <1>5. RunningIs'
    BY <1>1, <1>2, GoesCounted DEF Counts, Away
  <1>6. ItemTypes'
    <2>1. hand[s] \in ItemsTo(timeline)
      BY <1>1, <1>2 DEF Counts, Types, ItemTypes
    <2>2. channel' \in [Workers -> Seq(ItemsTo(timeline))]
      BY <1>1, <1>2, <2>1, PushedTypes DEF Counts, Types, ItemTypes
    <2>3. hand' \in [Threads -> Items] /\ \A u \in Threads : u # s => hand'[u] = hand[u]
      <3>1. hand \in [Threads -> Items] /\ NoItem \in Items
        BY MadeTypes DEF Counts, Types, ItemTypes
      <3> QED  BY <1>1, <1>2, <3>1
    <2> QED  BY <1>1, <1>2, <2>2, <2>3, GoesItems DEF Counts
  <1>7. SourceTypes'
    <2>1. pad' \in [Lines -> [flushing : BOOLEAN, ended : BOOLEAN]]
      BY <1>1 DEF Counts, Types, SourceTypes
    <2>2. \A k \in Lines : tpc'[Source(k)] # "begin" => tpc[Source(k)] # "begin"
      BY <1>1, <1>2, ThreadsAre DEF Counts, Types, ThreadTypes
    <2>3. timeline' = timeline
      BY <1>1 DEF timeline
    <2> QED  BY <1>1, <2>1, <2>2, <2>3 DEF Counts, Types, SourceTypes
  <1> QED  BY <1>3, <1>4, <1>5, <1>6, <1>7 DEF Counts, Types

\* Where a source is once it has taken a request.
LEMMA SourceNextIs ==
    ASSUME Types, NEW l \in Lines, NEW msg, SourceNext(l, msg),
           tpc[Source(l)] \in {"ask", "ending", "linger", "paused"}
    PROVE  \E p \in {"ask", "ending", "linger", "paused", "returning"} :
               /\ tpc' = [tpc EXCEPT ![Source(l)] = p]
               /\ p = "returning" <=> msg = "Stop"
               /\ p = "paused" <=> /\ msg # "Stop"
                                   /\ IF tpc[Source(l)] = "paused" THEN Holds ELSE msg = "Pause"
               /\ back' \in [Sources -> {"ask", "ending", "linger"}]
  <1>1. Source(l) \in Sources /\ back \in [Sources -> {"ask", "ending", "linger"}]
    BY ThreadsAre DEF Types, ThreadTypes
  <1>2. \A place \in {"ask", "ending", "linger"} : GoesOn(l, place) \in {"ask", "ending", "linger"}
    BY DEF GoesOn
  <1>3. CASE msg = "Stop"
    BY <1>1, <1>3 DEF SourceNext, GoTo
  <1>4. CASE msg # "Stop" /\ tpc[Source(l)] = "paused"
    <2>1. back[Source(l)] \in {"ask", "ending", "linger"}
      BY <1>1
    <2> QED  BY <1>1, <1>2, <1>4, <2>1 DEF SourceNext, GoTo
  <1>5. CASE msg # "Stop" /\ tpc[Source(l)] # "paused"
    <2>1. CASE msg = "Pause"
      <3>1. back' = [back EXCEPT ![Source(l)] = tpc[Source(l)]]
            /\ tpc' = [tpc EXCEPT ![Source(l)] = "paused"]
        BY <1>5, <2>1 DEF SourceNext, GoTo
      <3>2. back' \in [Sources -> {"ask", "ending", "linger"}]
        BY <1>1, <1>5, <3>1
      <3> QED  BY <1>5, <2>1, <3>1, <3>2
    <2>2. CASE msg # "Pause"
      <3>1. tpc' = [tpc EXCEPT ![Source(l)] = GoesOn(l, tpc[Source(l)])] /\ back' = back
        BY <1>5, <2>2 DEF SourceNext, GoTo
      <3> QED  BY <1>1, <1>2, <1>5, <2>2, <3>1
    <2> QED  BY <2>1, <2>2
  <1> QED  BY <1>3, <1>4, <1>5

\* A thread that only goes, whatever it does to its requests and the queue behind it.
LEMMA GoesCounts ==
    ASSUME Counts, NEW t \in Threads, NEW p, tpc' = [tpc EXCEPT ![t] = p],
           t \in Sources => p \in SourcePlaces, t \in Workers => p \in WorkerPlaces,
           tpc[t] # "begin", p # "push", t \in Sources => (tpc[t] \in Away <=> p \in Away),
           UNCHANGED <<phase, interrupt, abandoned, active, starts, preroll, paused, cpc, call,
                       calls, holder, step, todo, running, back, hand, channel, source, pad,
                       failed, terminal>>,
           RequestTypes', QueueTypes'
    PROVE  Counts'
  <1>1. CallTypes' /\ Plan' /\ SeeksCounted' /\ PlayTypes' /\ TerminalTypes'
    BY CallsStay, PlayTypesStay, TerminalTypesStay DEF Counts, Types
  <1>2. ThreadTypes'
    BY GoesThreads DEF Counts, Types, ThreadTypes
  <1>3. SourceTypes' /\ ItemTypes' /\ RunningIs'
    BY GoesSource, GoesOnly, GoesCounted DEF Counts
  <1> QED  BY <1>1, <1>2, <1>3 DEF Counts, Types

\* The end of a stream is pushed where the pad lets it.
LEMMA EndTypes ==
    ASSUME Types, NEW l \in Lines, tpc[Source(l)] # "begin"
    PROVE  EndPushed(l) \in [Workers -> Seq(ItemsTo(timeline))]
  <1>1. source[l].seg \in 1..timeline
    BY MadeTypes DEF Types, SourceTypes
  <1>2. Eos(source[l].seg) \in ItemsTo(timeline) /\ After(Source(l)) \in Workers
    BY <1>1, MadeTypes, ThreadsAre, Neighbours
  <1>3. Pushed(After(Source(l)), Eos(source[l].seg)) \in [Workers -> Seq(ItemsTo(timeline))]
    BY <1>2, PushedTypes
  <1> QED  BY <1>3 DEF EndPushed, Types, ItemTypes

\* A source hands its end on.
LEMMA SourceEndsCounts ==
    ASSUME Counts, NEW l \in Lines, SourceEnds(l)
    PROVE  Counts'
  <1> DEFINE s == Source(l)
             p == IF Seekable THEN "linger" ELSE "returning"
  <1>1. /\ UNCHANGED <<phase, interrupt, starts, preroll, abandoned, active, running, paused,
                       holder, todo, step, sending, cpc, call, calls, back, hand, control,
                       owing, waiting, flushing, registered, dropped, terminal, failed>>
        /\ tpc[s] = "ending" /\ tpc' = [tpc EXCEPT ![s] = p]
        /\ channel' = EndPushed(l)
        /\ pad' = [pad EXCEPT ![l].ended = @ \/ PadPasses(l)]
        /\ source' = [source EXCEPT ![l].sought = FALSE]
    BY DEF SourceEnds, playback, slot, lock, callers, requests, GoTo
  <1>2. s \in Sources /\ s \in Threads /\ s \notin Workers /\ After(s) \in Workers
    BY ThreadsAre, Neighbours
  <1>3. channel' \in [Workers -> Seq(ItemsTo(timeline))]
    BY <1>1, EndTypes DEF Counts
  <1> HIDE DEF s
  <1>4. p \in SourcePlaces /\ p \notin Away /\ p # "push"
    BY DEF SourcePlaces, Away
  <1> HIDE DEF p
  <1>5. CallTypes' /\ Plan' /\ SeeksCounted' /\ PlayTypes' /\ RequestTypes' /\ QueueTypes'
        /\ TerminalTypes'
    BY <1>1, CallsStay, PlayTypesStay, RequestTypesStay, QueueTypesStay, TerminalTypesStay
       DEF Counts, Types
  <1>6. ThreadTypes'
    BY <1>1, <1>2, <1>4, GoesThreads DEF Counts, Types, ThreadTypes
  <1>7. RunningIs'
    BY <1>1, <1>2, <1>4, GoesCounted DEF Counts, Away
  <1>8. ItemTypes'
    BY <1>1, <1>2, <1>3, <1>4, GoesItems DEF Counts, Types, ItemTypes
  <1>9. SourceTypes'
    <2>1. pad' \in [Lines -> [flushing : BOOLEAN, ended : BOOLEAN]]
      BY <1>1 DEF Counts, Types, SourceTypes, PadPasses
    <2>2. \A k \in Lines : tpc'[Source(k)] # "begin" => tpc[Source(k)] # "begin"
      BY <1>1, <1>2, ThreadsAre DEF Counts, Types, ThreadTypes
    <2>3. timeline' = timeline
      BY <1>1 DEF timeline
    <2>4. source' \in [Lines -> [pos : 0..Length, seg : 0..timeline, sought : BOOLEAN]]
          /\ \A k \in Lines : source'[k].seg = source[k].seg
      BY <1>1 DEF Counts, Types, SourceTypes
    <2> QED  BY <1>1, <2>1, <2>2, <2>3, <2>4 DEF Counts, Types, SourceTypes
  <1> QED  BY <1>5, <1>6, <1>7, <1>8, <1>9 DEF Counts, Types

\* A source takes a request.
LEMMA SourceTakesCounts ==
    ASSUME Counts, NEW l \in Lines, SourceTakes(l)
    PROVE  Counts'
  <1> DEFINE s == Source(l)
             msg == Head(control[s]).msg
  <1>1. /\ UNCHANGED <<phase, interrupt, starts, preroll, abandoned, active, running, paused,
                       holder, todo, step, sending, cpc, call, calls, hand, owing,
                       flushing, registered, dropped, terminal, failed>>
        /\ tpc[s] \in {"ask", "ending", "linger", "paused"} /\ control[s] # <<>>
        /\ control' = [control EXCEPT ![s] = Tail(@)] /\ waiting' = waiting \ {s}
        /\ SourceNext(l, msg)
        /\ \/ /\ source' = [source EXCEPT ![l] =
                                [pos |-> starts[timeline], seg |-> timeline, sought |-> TRUE]]
              /\ pad' = [pad EXCEPT ![l] = [flushing |-> FALSE, ended |-> FALSE]]
              /\ channel' = Pushed(After(s), Segment(timeline, TRUE))
           \/ /\ pad' = [pad EXCEPT ![l].flushing = @ \/ msg = "Flush"]
              /\ UNCHANGED <<source, channel>>
    BY DEF SourceTakes, playback, slot, lock, callers
  <1>2. s \in Sources /\ s \in Threads /\ s \notin Workers /\ After(s) \in Workers
    BY ThreadsAre, Neighbours
  <1>3. PICK p \in {"ask", "ending", "linger", "paused", "returning"} :
            /\ tpc' = [tpc EXCEPT ![s] = p]
            /\ back' \in [Sources -> {"ask", "ending", "linger"}]
    BY <1>1, SourceNextIs DEF Counts
  <1> HIDE DEF s, msg
  <1>4. CallTypes' /\ Plan' /\ SeeksCounted' /\ PlayTypes' /\ QueueTypes' /\ TerminalTypes'
    BY <1>1, CallsStay, PlayTypesStay, QueueTypesStay, TerminalTypesStay DEF Counts, Types
  <1>5. p \in SourcePlaces /\ p \notin Away /\ p # "push" /\ p # "begin" /\ tpc[s] \notin Away
    BY <1>1, <1>3 DEF SourcePlaces, Away
  <1>6. ThreadTypes'
    BY <1>2, <1>3, <1>5, GoesThreads DEF Counts
  <1>7. RunningIs'
    BY <1>1, <1>2, <1>3, <1>5, GoesCounted DEF Counts
  <1>8. ItemTypes'
    <2>1. channel' \in [Workers -> Seq(ItemsTo(timeline))]
      <3>1. Segment(timeline, TRUE) \in ItemsTo(timeline)
        BY MadeTypes DEF Counts
      <3>2. Pushed(After(s), Segment(timeline, TRUE)) \in [Workers -> Seq(ItemsTo(timeline))]
        BY <1>2, <3>1, PushedTypes DEF Counts
      <3>3. channel \in [Workers -> Seq(ItemsTo(timeline))]
        BY DEF Counts, Types, ItemTypes
      <3> QED  BY <1>1, <3>2, <3>3
    <2> QED  BY <1>1, <1>2, <1>3, <1>5, <2>1, GoesItems DEF Counts, Types, ItemTypes
  <1>9. RequestTypes'
    <2>1. control[s] \in Seq([msg : StageNames, direct : BOOLEAN])
      BY <1>2 DEF Counts, Types, RequestTypes
    <2>2. Tail(control[s]) \in Seq([msg : StageNames, direct : BOOLEAN])
      BY <1>1, <2>1, HeadOf
    <2>3. control' \in [Threads -> Seq([msg : StageNames, direct : BOOLEAN])]
      BY <1>1, <2>2 DEF Counts, Types, RequestTypes
    <2> QED  BY <1>1, <2>3 DEF Counts, Types, RequestTypes
  <1>10. SourceTypes'
    <2>1. timeline' = timeline /\ timeline \in 0..timeline /\ timeline # 0
      BY <1>1 DEF Counts, Types, PlayTypes, timeline
    <2>2. starts[timeline] \in 0..Length
      <3>1. starts \in Seq(0..Length) /\ timeline \in 1 .. Len(starts)
        BY DEF Counts, Types, PlayTypes, timeline
      <3> QED  BY <3>1, ItemOf
    <2>3. /\ source' \in [Lines -> [pos : 0..Length, seg : 0..timeline, sought : BOOLEAN]]
          /\ \A k \in Lines : source'[k].seg \in {source[k].seg, timeline}
      <3>1. PICK r : r = [pos |-> starts[timeline], seg |-> timeline, sought |-> TRUE]
        OBVIOUS
      <3>2. r \in [pos : 0..Length, seg : 0..timeline, sought : BOOLEAN] /\ r.seg = timeline
        BY <2>1, <2>2, <3>1
      <3>3. source \in [Lines -> [pos : 0..Length, seg : 0..timeline, sought : BOOLEAN]]
        BY DEF Counts, Types, SourceTypes
      <3>4. source' = source \/ source' = [source EXCEPT ![l] = r]
        BY <1>1, <3>1
      <3> QED  BY <3>2, <3>3, <3>4
    <2>5. pad' \in [Lines -> [flushing : BOOLEAN, ended : BOOLEAN]]
      <3>1. PICK r : r = [flushing |-> FALSE, ended |-> FALSE]
        OBVIOUS
      <3>2. r \in [flushing : BOOLEAN, ended : BOOLEAN]
        BY <3>1
      <3>3. pad \in [Lines -> [flushing : BOOLEAN, ended : BOOLEAN]]
        BY DEF Counts, Types, SourceTypes
      <3>4. \/ pad' = [pad EXCEPT ![l].flushing = @ \/ msg = "Flush"]
            \/ pad' = [pad EXCEPT ![l] = r]
        BY <1>1, <3>1
      <3> QED  BY <3>2, <3>3, <3>4
    <2>6. \A k \in Lines : tpc'[Source(k)] # "begin" => tpc[Source(k)] # "begin"
      BY <1>1, <1>2, <1>3, ThreadsAre DEF Counts, Types, ThreadTypes
    <2> QED  BY <1>1, <2>1, <2>3, <2>5, <2>6 DEF Counts, Types, SourceTypes
  <1> QED  BY <1>4, <1>6, <1>7, <1>8, <1>9, <1>10 DEF Counts, Types

\* A request less.
LEMMA TailTypes ==
    ASSUME RequestTypes, NEW t \in Threads, control[t] # <<>>
    PROVE  [control EXCEPT ![t] = Tail(@)]
               \in [Threads -> Seq([msg : StageNames, direct : BOOLEAN])]
  <1>1. control[t] \in Seq([msg : StageNames, direct : BOOLEAN])
    BY DEF RequestTypes
  <1>2. Tail(control[t]) \in Seq([msg : StageNames, direct : BOOLEAN])
    BY <1>1, HeadOf
  <1> QED  BY <1>2 DEF RequestTypes

\* None left.
LEMMA EmptiedTypes ==
    ASSUME RequestTypes, NEW t \in Threads
    PROVE  [control EXCEPT ![t] = <<>>]
               \in [Threads -> Seq([msg : StageNames, direct : BOOLEAN])]
  <1>1. <<>> \in Seq([msg : StageNames, direct : BOOLEAN])
    OBVIOUS
  <1> QED  BY <1>1 DEF RequestTypes

\* A source takes a Finish.
LEMMA SourceFinishesCounts ==
    ASSUME Counts, NEW l \in Lines, SourceFinishes(l)
    PROVE  Counts'
  <1> DEFINE s == Source(l)
  <1>1. /\ UNCHANGED <<phase, interrupt, starts, preroll, abandoned, active, running, paused,
                       holder, todo, step, sending, cpc, call, calls, back, hand, owing,
                       channel, flushing, registered, dropped, source, pad, terminal, failed>>
        /\ tpc[s] \in {"ask", "ending", "linger", "paused"} /\ control[s] # <<>>
        /\ control' = [control EXCEPT ![s] = Tail(@)]
        /\ waiting' = waiting \/ waiting' = waiting \ {s}
    BY DEF SourceFinishes, playback, slot, lock, callers, queues, ends
  <1>2. PICK p \in {"returning", "finishing"} : tpc' = [tpc EXCEPT ![s] = p]
    BY DEF SourceFinishes, GoTo
  <1>3. s \in Sources /\ s \in Threads /\ s \notin Workers
    BY ThreadsAre
  <1> HIDE DEF s
  <1>4. p \in SourcePlaces /\ p \notin Away /\ p # "push" /\ tpc[s] \notin Away
    BY <1>1, <1>2 DEF SourcePlaces, Away
  <1>5. RequestTypes'
    BY <1>1, <1>3, TailTypes DEF Counts, Types, RequestTypes
  <1>6. QueueTypes'
    BY <1>1, QueueTypesStay DEF Counts, Types
  <1> QED  BY <1>1, <1>2, <1>3, <1>4, <1>5, <1>6, GoesCounts

\* A source that finishes has handed its end on.
LEMMA SourceFinishedCounts ==
    ASSUME Counts, NEW l \in Lines, SourceFinished(l)
    PROVE  Counts'
  <1> DEFINE s == Source(l)
  <1>1. /\ UNCHANGED <<phase, interrupt, starts, preroll, abandoned, active, running, paused,
                       holder, todo, step, sending, cpc, call, calls, back, hand, control,
                       owing, flushing, registered, dropped, source, terminal, failed>>
        /\ tpc[s] = "finishing" /\ tpc' = [tpc EXCEPT ![s] = "returning"]
        /\ channel' = EndPushed(l) /\ waiting' = waiting \ {s}
        /\ pad' = [pad EXCEPT ![l].ended = @ \/ PadPasses(l)]
    BY DEF SourceFinished, playback, slot, lock, callers, GoTo
  <1>2. s \in Sources /\ s \in Threads /\ s \notin Workers
    BY ThreadsAre
  <1>3. channel' \in [Workers -> Seq(ItemsTo(timeline))]
    BY <1>1, EndTypes DEF Counts
  <1> HIDE DEF s
  <1>4. CallTypes' /\ Plan' /\ SeeksCounted' /\ PlayTypes' /\ QueueTypes' /\ TerminalTypes'
    BY <1>1, CallsStay, PlayTypesStay, QueueTypesStay, TerminalTypesStay DEF Counts, Types
  <1>5. ThreadTypes'
    BY <1>1, <1>2, GoesThreads DEF Counts, Types, ThreadTypes, SourcePlaces
  <1>6. RunningIs'
    BY <1>1, <1>2, GoesCounted DEF Counts, Away
  <1>7. ItemTypes'
    BY <1>1, <1>2, <1>3, GoesItems DEF Counts, Types, ItemTypes
  <1>8. RequestTypes'
    BY <1>1 DEF Counts, Types, RequestTypes
  <1>9. SourceTypes'
    <2>1. pad' \in [Lines -> [flushing : BOOLEAN, ended : BOOLEAN]]
      BY <1>1 DEF Counts, Types, SourceTypes, PadPasses
    <2>2. \A k \in Lines : tpc'[Source(k)] # "begin" => tpc[Source(k)] # "begin"
      BY <1>1, <1>2, ThreadsAre DEF Counts, Types, ThreadTypes
    <2>3. timeline' = timeline
      BY <1>1 DEF timeline
    <2> QED  BY <1>1, <2>1, <2>2, <2>3 DEF Counts, Types, SourceTypes
  <1> QED  BY <1>4, <1>5, <1>6, <1>7, <1>8, <1>9 DEF Counts, Types

\* A request more.
LEMMA AppendTypes ==
    ASSUME RequestTypes, NEW t \in Threads, NEW asked \in [msg : StageNames, direct : BOOLEAN]
    PROVE  [control EXCEPT ![t] = Append(@, asked)]
               \in [Threads -> Seq([msg : StageNames, direct : BOOLEAN])]
  <1>1. control[t] \in Seq([msg : StageNames, direct : BOOLEAN])
    BY DEF RequestTypes
  <1>2. Append(control[t], asked) \in Seq([msg : StageNames, direct : BOOLEAN])
    BY <1>1, AppendOf
  <1> QED  BY <1>2 DEF RequestTypes

\* A source fails.
LEMMA SourceFailsCounts ==
    ASSUME Counts, NEW l \in Lines, SourceFails(l)
    PROVE  Counts'
  <1> DEFINE s == Source(l)
  <1>1. /\ UNCHANGED <<phase, interrupt, starts, preroll, abandoned, active, running, paused,
                       holder, todo, step, sending, cpc, call, calls, back, hand, waiting,
                       channel, flushing, registered, dropped, source, pad, terminal>>
        /\ tpc[s] = "ask" /\ tpc' = [tpc EXCEPT ![s] = "carrying"]
        /\ failed' = failed \cup {l}
        /\ \/ UNCHANGED <<control, owing>>
           \/ /\ control' = [control EXCEPT ![After(s)] = Append(@, Carried("Stop"))]
              /\ owing' = owing \cup {After(s)}
    BY DEF SourceFails, playback, slot, lock, callers, queues, GoTo
  <1>2. s \in Sources /\ s \in Threads /\ s \notin Workers /\ After(s) \in Workers
        /\ After(s) \in Threads
    BY ThreadsAre, Neighbours
  <1> HIDE DEF s
  <1>3. CallTypes' /\ Plan' /\ SeeksCounted' /\ PlayTypes' /\ QueueTypes' /\ TerminalTypes'
    BY <1>1, CallsStay, PlayTypesStay, QueueTypesStay, TerminalTypesStay DEF Counts, Types
  <1>4. ThreadTypes'
    BY <1>1, <1>2, GoesThreads DEF Counts, Types, ThreadTypes, SourcePlaces
  <1>5. RunningIs'
    BY <1>1, <1>2, GoesCounted DEF Counts, Away
  <1>6. ItemTypes'
    BY <1>1, <1>2, GoesOnly DEF Counts
  <1>7. RequestTypes'
    <2>1. PICK asked : asked = Carried("Stop")
      OBVIOUS
    <2>2. asked \in [msg : StageNames, direct : BOOLEAN]
      BY <2>1 DEF Carried, StageNames
    <2>3. [control EXCEPT ![After(s)] = Append(@, asked)]
               \in [Threads -> Seq([msg : StageNames, direct : BOOLEAN])]
      BY <1>2, <2>2, AppendTypes DEF Counts, Types
    <2> QED  BY <1>1, <1>2, <2>1, <2>3 DEF Counts, Types, RequestTypes
  <1>8. SourceTypes'
    <2>1. \A k \in Lines : tpc'[Source(k)] # "begin" => tpc[Source(k)] # "begin"
      BY <1>1, <1>2, ThreadsAre DEF Counts, Types, ThreadTypes
    <2>2. timeline' = timeline
      BY <1>1 DEF timeline
    <2> QED  BY <1>1, <2>1, <2>2 DEF Counts, Types, SourceTypes
  <1> QED  BY <1>3, <1>4, <1>5, <1>6, <1>7, <1>8 DEF Counts, Types

\* Its line told, it returns.
LEMMA SourceCarriedCounts ==
    ASSUME Counts, NEW l \in Lines, SourceCarried(l)
    PROVE  Counts'
  <1> DEFINE s == Source(l)
  <1>1. /\ UNCHANGED <<phase, interrupt, starts, preroll, abandoned, active, running, paused,
                       holder, todo, step, sending, cpc, call, calls, back, hand, control,
                       owing, waiting, channel, flushing, registered, dropped, source, pad,
                       terminal, failed>>
        /\ tpc[s] = "carrying" /\ tpc' = [tpc EXCEPT ![s] = "returning"]
    BY DEF SourceCarried, playback, slot, lock, callers, requests, queues, ends, GoTo
  <1>2. s \in Sources /\ s \in Threads /\ s \notin Workers
    BY ThreadsAre
  <1> HIDE DEF s
  <1>3. RequestTypes' /\ QueueTypes'
    BY <1>1, RequestTypesStay, QueueTypesStay DEF Counts, Types
  <1> QED  BY <1>1, <1>2, <1>3, GoesCounts DEF SourcePlaces, Away

\* A source that returns is one less running.
LEMMA SourceReturnsCounts ==
    ASSUME Counts, NEW l \in Lines, SourceReturns(l)
    PROVE  Counts'
  <1> DEFINE s == Source(l)
  <1>1. /\ UNCHANGED <<phase, interrupt, starts, preroll, abandoned, active, paused,
                       holder, todo, step, sending, cpc, call, calls, back, hand, control,
                       owing, waiting, channel, flushing, registered, dropped, source, pad,
                       terminal, failed>>
        /\ tpc[s] = "returning" /\ tpc' = [tpc EXCEPT ![s] = "returned"]
        /\ running' = running - 1
    BY DEF SourceReturns, playback, slot, lock, callers, requests, queues, ends, GoTo
  <1>2. s \in Sources /\ s \in Threads /\ s \notin Workers
    BY ThreadsAre
  <1>3. RunningIs'
    <2>1. tpc'[Source(l)] = "returned"
          /\ \A k \in Lines : k # l => tpc'[Source(k)] = tpc[Source(k)]
      BY <1>1, <1>2, ThreadsAre DEF Counts, Types, ThreadTypes
    <2>2. Counted' = Counted \ {l} /\ l \in Counted
      BY <1>1, <2>1 DEF Counted
    <2>3. IsFiniteSet(Counted)
      BY LinesAssumption, FS_Subset DEF Counted
    <2>4. Cardinality(Counted \ {l}) = Cardinality(Counted) - 1
      BY <2>2, <2>3, FS_RemoveElement
    <2> QED  BY <1>1, <2>2, <2>4 DEF Counts, RunningIs
  <1> HIDE DEF s
  <1>4. CallTypes' /\ Plan' /\ SeeksCounted' /\ PlayTypes' /\ RequestTypes' /\ QueueTypes'
        /\ TerminalTypes'
    BY <1>1, CallsStay, PlayTypesStay, RequestTypesStay, QueueTypesStay, TerminalTypesStay
       DEF Counts, Types
  <1>5. ThreadTypes'
    BY <1>1, <1>2, GoesThreads DEF Counts, Types, ThreadTypes, SourcePlaces
  <1>6. SourceTypes' /\ ItemTypes'
    BY <1>1, <1>2, GoesSource, GoesOnly DEF Counts
  <1> QED  BY <1>3, <1>4, <1>5, <1>6 DEF Counts, Types

\* Its receiver dropped, it is asked nothing.
LEMMA DropsReceiverCounts ==
    ASSUME Counts, NEW l \in Lines, DropsReceiver(l)
    PROVE  Counts'
  <1> DEFINE s == Source(l)
  <1>1. /\ UNCHANGED <<phase, interrupt, starts, preroll, abandoned, active, running, paused,
                       holder, todo, step, sending, cpc, call, calls, back, hand,
                       owing, channel, flushing, registered, dropped, source, pad,
                       terminal, failed>>
        /\ tpc[s] = "returned" /\ tpc' = [tpc EXCEPT ![s] = "dropping"]
        /\ control' = [control EXCEPT ![s] = <<>>] /\ waiting' = waiting \ {s}
    BY DEF DropsReceiver, playback, slot, lock, callers, queues, ends, GoTo
  <1>2. s \in Sources /\ s \in Threads /\ s \notin Workers
    BY ThreadsAre
  <1> HIDE DEF s
  <1>3. RequestTypes'
    BY <1>1, <1>2, EmptiedTypes DEF Counts, Types, RequestTypes
  <1>4. QueueTypes'
    BY <1>1, QueueTypesStay DEF Counts, Types
  <1> QED  BY <1>1, <1>2, <1>3, <1>4, GoesCounts DEF SourcePlaces, Away

\* A queue is dropped.
LEMMA DropTypes ==
    ASSUME QueueTypes, NEW t \in Threads, ~IsLast(t), DropsQueue(t), flushing' = flushing
    PROVE  QueueTypes'
  <1>1. After(t) \in Workers
    BY Neighbours
  <1> QED  BY <1>1 DEF QueueTypes, DropsQueue

\* A source drops its line.
LEMMA SourceDropsCounts ==
    ASSUME Counts, NEW l \in Lines, SourceDrops(l)
    PROVE  Counts'
  <1> DEFINE s == Source(l)
  <1>1. /\ UNCHANGED <<phase, interrupt, starts, preroll, abandoned, active, running, paused,
                       holder, todo, step, sending, cpc, call, calls, back, hand, control,
                       owing, waiting, channel, flushing, source, pad, terminal, failed>>
        /\ tpc[s] = "dropping" /\ tpc' = [tpc EXCEPT ![s] = "joining"]
        /\ DropsQueue(s)
    BY DEF SourceDrops, DropsQueue, playback, slot, lock, callers, requests, ends, GoTo
  <1>2. s \in Sources /\ s \in Threads /\ s \notin Workers /\ ~IsLast(s)
    BY ThreadsAre, Neighbours
  <1> HIDE DEF s
  <1>3. RequestTypes'
    BY <1>1, RequestTypesStay DEF Counts, Types
  <1>4. QueueTypes'
    BY <1>1, <1>2, DropTypes DEF Counts, Types
  <1> QED  BY <1>1, <1>2, <1>3, <1>4, GoesCounts DEF SourcePlaces, Away

\* And joins the worker behind it.
LEMMA SourceJoinsCounts ==
    ASSUME Counts, NEW l \in Lines, SourceJoins(l)
    PROVE  Counts'
  <1> DEFINE s == Source(l)
  <1>1. /\ UNCHANGED <<phase, interrupt, starts, preroll, abandoned, active, running, paused,
                       holder, todo, step, sending, cpc, call, calls, back, hand, control,
                       owing, waiting, channel, flushing, registered, dropped, source, pad,
                       terminal, failed>>
        /\ tpc[s] = "joining" /\ tpc' = [tpc EXCEPT ![s] = "done"]
    BY DEF SourceJoins, playback, slot, lock, callers, requests, queues, ends, GoTo
  <1>2. s \in Sources /\ s \in Threads /\ s \notin Workers
    BY ThreadsAre
  <1> HIDE DEF s
  <1>3. RequestTypes' /\ QueueTypes'
    BY <1>1, RequestTypesStay, QueueTypesStay DEF Counts, Types
  <1> QED  BY <1>1, <1>2, <1>3, GoesCounts DEF SourcePlaces, Away

\* A worker only goes where a worker is.
LEMMA WorkerPlace ==
    ASSUME Types, NEW w \in Workers
    PROVE  /\ w \in Threads /\ w \notin Sources /\ tpc[w] # "begin"
           /\ {"look", "select", "push", "paused", "carrying", "ending", "joining", "done"}
                  \subseteq WorkerPlaces
  <1>1. w \in Threads /\ w \notin Sources /\ tpc[w] \in WorkerPlaces
    BY ThreadsAre DEF Types, ThreadTypes
  <1> QED  BY <1>1 DEF WorkerPlaces

\* A worker waits for an item, or looks again.
LEMMA WorkerLooksCounts ==
    ASSUME Counts, NEW w \in Workers, WorkerLooks(w) \/ WorkerLooksAgain(w)
    PROVE  Counts'
  <1>1. UNCHANGED <<phase, interrupt, starts, preroll, abandoned, active, running, paused,
                    holder, todo, step, sending, cpc, call, calls, back, hand, control,
                    owing, waiting, channel, flushing, registered, dropped, source, pad,
                    terminal, failed>>
    BY DEF WorkerLooks, WorkerLooksAgain, playback, slot, lock, callers, requests, queues, ends
  <1>2. PICK p \in {"look", "select"} : tpc' = [tpc EXCEPT ![w] = p]
    BY DEF WorkerLooks, WorkerLooksAgain, GoTo
  <1>3. w \in Threads /\ w \notin Sources /\ tpc[w] # "begin" /\ p \in WorkerPlaces /\ p # "push"
    BY WorkerPlace DEF Counts
  <1>4. RequestTypes' /\ QueueTypes'
    BY <1>1, RequestTypesStay, QueueTypesStay DEF Counts, Types
  <1> QED  BY <1>1, <1>2, <1>3, <1>4, GoesCounts

\* What a terminal is handed is of the stream's timelines.
LEMMA HandedTypes ==
    ASSUME Types, NEW l \in Lines, NEW item \in ItemsTo(timeline), Handed(l, item)
    PROVE  /\ terminal' \in [Lines -> [seg : 0..timeline, from : 0..timeline, at : 0..Length,
                                       ended : BOOLEAN, heard : BOOLEAN]]
           /\ preroll' \in [on : BOOLEAN, ready : SUBSET Lines, cancelled : BOOLEAN]
  <1>1. /\ terminal \in [Lines -> [seg : 0..timeline, from : 0..timeline, at : 0..Length,
                                   ended : BOOLEAN, heard : BOOLEAN]]
        /\ preroll \in [on : BOOLEAN, ready : SUBSET Lines, cancelled : BOOLEAN]
    BY DEF Types, TerminalTypes, PlayTypes
  <1>2. item.seg \in 1..timeline /\ item.at \in 0..Length /\ item.seg \in 0..timeline
    BY MadeTypes DEF ItemsTo, Items
  <1>3. MarkReady(l) \in [on : BOOLEAN, ready : SUBSET Lines, cancelled : BOOLEAN]
    <2>1. preroll.ready \cup {l} \in SUBSET Lines
      BY <1>1
    <2> QED  BY <1>1, <2>1 DEF MarkReady
  <1>4. starts[item.seg] \in 0..Length
    <2>1. starts \in Seq(0..Length) /\ item.seg \in 1 .. Len(starts)
      BY <1>2 DEF Types, PlayTypes, timeline
    <2> QED  BY <2>1, ItemOf
  <1>5. CASE item.kind = "buffer"
    <2>1. /\ terminal' = [terminal EXCEPT ![l].at = item.at, ![l].from = item.seg]
          /\ preroll' = MarkReady(l)
      BY <1>5 DEF Handed
    <2> QED  BY <1>1, <1>2, <1>3, <2>1
  <1>6. CASE item.kind = "eos"
    <2>1. /\ terminal' = [terminal EXCEPT ![l].ended = TRUE]
          /\ preroll' = MarkReady(l)
      BY <1>6 DEF Handed
    <2>2. PICK yes \in BOOLEAN : yes = TRUE
      OBVIOUS
    <2>3. terminal' = [terminal EXCEPT ![l].ended = yes]
      BY <2>1, <2>2
    <2> QED  BY <1>1, <1>3, <2>1, <2>3
  <1>7. CASE item.kind \notin {"buffer", "eos"}
    <2>1. /\ terminal' = [terminal EXCEPT ![l].seg = item.seg, ![l].from = item.seg,
                                          ![l].at = starts[item.seg], ![l].ended = FALSE]
          /\ preroll' = preroll
      BY <1>7 DEF Handed
    <2>2. PICK no \in BOOLEAN : no = FALSE
      OBVIOUS
    <2>3. terminal' = [terminal EXCEPT ![l].seg = item.seg, ![l].from = item.seg,
                                       ![l].at = starts[item.seg], ![l].ended = no]
      BY <2>1, <2>2
    <2>4. PICK sg \in 0..timeline : sg = item.seg
      BY <1>2
    <2>5. PICK at \in 0..Length : at = starts[item.seg]
      BY <1>4
    <2>6. terminal' = [terminal EXCEPT ![l].seg = sg, ![l].from = sg, ![l].at = at,
                                       ![l].ended = no]
      BY <2>3, <2>4, <2>5
    <2>7. terminal' \in [Lines -> [seg : 0..timeline, from : 0..timeline, at : 0..Length,
                                   ended : BOOLEAN, heard : BOOLEAN]]
      <3>1. PICK T : T = 0..timeline
        OBVIOUS
      <3>2. PICK L : L = 0..Length
        OBVIOUS
      <3>3. terminal \in [Lines -> [seg : T, from : T, at : L, ended : BOOLEAN, heard : BOOLEAN]]
            /\ sg \in T /\ at \in L
        BY <1>1, <3>1, <3>2
      <3>4. terminal' \in [Lines -> [seg : T, from : T, at : L, ended : BOOLEAN, heard : BOOLEAN]]
        <4>1. PICK f : f = [terminal EXCEPT ![l].seg = sg, ![l].from = sg]
          OBVIOUS
        <4>2. f \in [Lines -> [seg : T, from : T, at : L, ended : BOOLEAN, heard : BOOLEAN]]
          BY <3>3, <4>1
        <4>3. terminal' = [f EXCEPT ![l].at = at, ![l].ended = no]
          BY <2>6, <4>1
        <4> QED  BY <3>3, <4>2, <4>3
      <3> QED  BY <3>1, <3>2, <3>4
    <2> QED  BY <1>1, <2>1, <2>7
  <1> QED  BY <1>5, <1>6, <1>7

\* A worker hands an item on.
LEMMA WorkerForwardsCounts ==
    ASSUME Counts, NEW w \in Workers, WorkerForwards(w)
    PROVE  Counts'
  <1> DEFINE item == Head(channel[w])
  <1>1. /\ UNCHANGED <<phase, interrupt, starts, abandoned, active, running, paused,
                       holder, todo, step, sending, cpc, call, calls, back, control,
                       owing, waiting, registered, dropped, source, pad, failed>>
        /\ channel[w] # <<>> /\ channel' = [channel EXCEPT ![w] = Tail(@)]
        /\ flushing' = [flushing EXCEPT ![w] = Stale(w, item)]
        /\ Handed(w[1], item) \/ UNCHANGED <<terminal, preroll>>
    BY DEF WorkerForwards, slot, lock, callers, requests
  <1>2. PICK p : /\ tpc' = [tpc EXCEPT ![w] = p]
                 /\ \/ p = "push" /\ ~IsLast(w) /\ hand' = [hand EXCEPT ![w] = item]
                    \/ p = "look" /\ hand' = hand
    BY DEF WorkerForwards, GoTo
  <1>3. w \in Threads /\ w \notin Sources /\ tpc[w] # "begin" /\ w[1] \in Lines
        /\ p \in WorkerPlaces
    BY <1>2, WorkerPlace, ThreadsAre DEF Counts
  <1>4. item \in ItemsTo(timeline) /\ Tail(channel[w]) \in Seq(ItemsTo(timeline))
    <2>1. channel[w] \in Seq(ItemsTo(timeline))
      BY DEF Counts, Types, ItemTypes
    <2> HIDE DEF ItemsTo, timeline
    <2> QED  BY <1>1, <2>1, HeadOf
  <1> HIDE DEF item
  <1>5. CallTypes' /\ Plan' /\ SeeksCounted' /\ RequestTypes'
    BY <1>1, CallsStay, RequestTypesStay DEF Counts, Types
  <1>6. timeline' = timeline
    BY <1>1 DEF timeline
  <1>7. PlayTypes'
    <2>1. preroll' \in [on : BOOLEAN, ready : SUBSET Lines, cancelled : BOOLEAN]
      BY <1>1, <1>3, <1>4, HandedTypes DEF Counts, Types, PlayTypes
    <2> QED  BY <1>1, <1>6, <2>1 DEF Counts, Types, PlayTypes
  <1>8. TerminalTypes'
    <2>1. terminal' \in [Lines -> [seg : 0..timeline, from : 0..timeline, at : 0..Length,
                                       ended : BOOLEAN, heard : BOOLEAN]]
      BY <1>1, <1>3, <1>4, HandedTypes DEF Counts, Types, TerminalTypes
    <2> QED  BY <1>6, <2>1 DEF TerminalTypes
  <1>9. ThreadTypes'
    BY <1>1, <1>2, <1>3, GoesThreads DEF Counts, Types, ThreadTypes
  <1>10. SourceTypes' /\ RunningIs'
    BY <1>1, <1>2, <1>3, GoesSource, GoesCounted DEF Counts
  <1>11. ItemTypes'
    <2>1. channel' \in [Workers -> Seq(ItemsTo(timeline))]
      <3>1. channel \in [Workers -> Seq(ItemsTo(timeline))]
        BY DEF Counts, Types, ItemTypes
      <3> HIDE DEF ItemsTo, timeline
      <3> QED  BY <1>1, <1>4, <3>1
    <2>2. hand' \in [Threads -> Items] /\ (\A u \in Threads : u # w => hand'[u] = hand[u])
          /\ (p = "push" => hand'[w] \in ItemsTo(timeline))
      <3>1. hand \in [Threads -> Items] /\ item \in Items
        BY <1>4 DEF Counts, Types, ItemTypes, ItemsTo
      <3> QED  BY <1>2, <1>3, <1>4, <3>1
    <2> QED  BY <1>1, <1>2, <1>3, <2>1, <2>2, GoesItems DEF Counts
  <1>12. QueueTypes'
    <2>1. Stale(w, item) \in BOOLEAN
      BY DEF Stale, Counts, Types, QueueTypes
    <2> QED  BY <1>1, <2>1 DEF Counts, Types, QueueTypes
  <1> QED  BY <1>5, <1>7, <1>8, <1>9, <1>10, <1>11, <1>12 DEF Counts, Types

\* It pushes what it has in hand.
LEMMA WorkerHandsOnCounts ==
    ASSUME Counts, NEW w \in Workers, WorkerHandsOn(w)
    PROVE  Counts'
  <1>1. /\ UNCHANGED <<phase, interrupt, starts, preroll, abandoned, active, running, paused,
                       holder, todo, step, sending, cpc, call, calls, back, control,
                       owing, waiting, flushing, registered, dropped, source, pad,
                       terminal, failed>>
        /\ tpc[w] = "push" /\ tpc' = [tpc EXCEPT ![w] = "look"]
        /\ channel' = Pushed(After(w), hand[w])
        /\ hand' = [hand EXCEPT ![w] = NoItem]
    BY DEF WorkerHandsOn, playback, slot, lock, callers, requests, ends, GoTo
  <1>2. w \in Threads /\ w \notin Sources /\ "look" \in WorkerPlaces /\ ~IsLast(w)
    BY <1>1, WorkerPlace DEF Counts, Types, ThreadTypes
  <1> After(w) \in Workers
    BY <1>2, Neighbours
  <1>3. CallTypes' /\ Plan' /\ SeeksCounted' /\ PlayTypes' /\ RequestTypes' /\ QueueTypes'
        /\ TerminalTypes'
    BY <1>1, CallsStay, PlayTypesStay, RequestTypesStay, QueueTypesStay, TerminalTypesStay
       DEF Counts, Types
  <1>4. ThreadTypes'
    BY <1>1, <1>2, GoesThreads DEF Counts, Types, ThreadTypes
  <1>5. SourceTypes' /\ RunningIs'
    BY <1>1, <1>2, GoesSource, GoesCounted DEF Counts
  <1>6. ItemTypes'
    <2>1. hand[w] \in ItemsTo(timeline)
      BY <1>1, <1>2 DEF Counts, Types, ItemTypes
    <2>2. channel' \in [Workers -> Seq(ItemsTo(timeline))]
      BY <1>1, <1>2, <2>1, PushedTypes DEF Counts
    <2>3. hand' \in [Threads -> Items] /\ \A u \in Threads : u # w => hand'[u] = hand[u]
      <3>1. hand \in [Threads -> Items] /\ NoItem \in Items
        BY MadeTypes DEF Counts, Types, ItemTypes
      <3> QED  BY <1>1, <1>2, <3>1
    <2> QED  BY <1>1, <1>2, <2>2, <2>3, GoesItems DEF Counts
  <1> QED  BY <1>3, <1>4, <1>5, <1>6 DEF Counts, Types

\* A terminal hears a Stop.
LEMMA HeardTypes ==
    ASSUME Types, NEW w \in Workers, NEW msgs
    PROVE  Heard(w, msgs) \in [Lines -> [seg : 0..timeline, from : 0..timeline, at : 0..Length,
                                         ended : BOOLEAN, heard : BOOLEAN]]
  <1>1. PICK yes \in BOOLEAN : yes = TRUE
    OBVIOUS
  <1>2. [terminal EXCEPT ![w[1]].heard = yes]
            \in [Lines -> [seg : 0..timeline, from : 0..timeline, at : 0..Length,
                           ended : BOOLEAN, heard : BOOLEAN]]
    BY DEF Types, TerminalTypes
  <1> QED  BY <1>1, <1>2 DEF Heard, Types, TerminalTypes

\* Where a worker is once it has taken a request.
LEMMA WorkerNextIs ==
    ASSUME NEW w, NEW msg, WorkerNext(w, msg)
    PROVE  \E p \in {"look", "paused", "ending"} :
               /\ tpc' = [tpc EXCEPT ![w] = p]
               /\ p = "ending" <=> msg = "Stop"
               /\ p = "paused" <=> /\ msg # "Stop"
                                   /\ IF tpc[w] = "paused" THEN Holds ELSE msg = "Pause"
  <1>1. CASE msg = "Stop"
    BY <1>1 DEF WorkerNext, GoTo
  <1>2. CASE msg # "Stop" /\ tpc[w] = "paused"
    BY <1>2 DEF WorkerNext, GoTo
  <1>3. CASE msg = "Pause" /\ tpc[w] # "paused"
    BY <1>3 DEF WorkerNext, GoTo
  <1>4. CASE msg # "Pause" /\ msg # "Stop" /\ tpc[w] # "paused"
    BY <1>4 DEF WorkerNext, GoTo
  <1> QED  BY <1>1, <1>2, <1>3, <1>4

\* A worker takes a request.
LEMMA WorkerTakesCounts ==
    ASSUME Counts, NEW w \in Workers, WorkerTakes(w)
    PROVE  Counts'
  <1> DEFINE asked == Head(control[w])
  <1>1. /\ UNCHANGED <<phase, interrupt, starts, preroll, abandoned, active, running, paused,
                       holder, todo, step, sending, cpc, call, calls, back, hand,
                       registered, dropped, source, pad, failed>>
        /\ control[w] # <<>> /\ control' = [control EXCEPT ![w] = Tail(@)]
        /\ waiting' = waiting \/ waiting' = waiting \ {w}
        /\ owing' = owing \/ owing' = owing \ {w}
        /\ channel' = channel \/ channel' = [channel EXCEPT ![w] = <<>>]
        /\ flushing' = [flushing EXCEPT ![w] = @ \/ asked.msg = "Flush"]
        /\ terminal' = Heard(w, {asked.msg})
        /\ WorkerNext(w, asked.msg)
    BY DEF WorkerTakes, playback, slot, lock, callers
  <1>2. PICK p \in {"look", "paused", "ending"} : tpc' = [tpc EXCEPT ![w] = p]
    BY <1>1, WorkerNextIs
  <1>3. w \in Threads /\ w \notin Sources /\ p \in WorkerPlaces /\ p # "push"
        /\ tpc[w] # "begin"
    BY WorkerPlace DEF Counts
  <1> HIDE DEF asked
  <1>4. CallTypes' /\ Plan' /\ SeeksCounted' /\ PlayTypes'
    BY <1>1, CallsStay, PlayTypesStay DEF Counts, Types
  <1>5. RequestTypes'
    BY <1>1, <1>3, TailTypes DEF Counts, Types, RequestTypes
  <1>6. QueueTypes'
    <2>1. flushing' \in [Workers -> BOOLEAN]
      BY <1>1 DEF Counts, Types, QueueTypes
    <2> QED  BY <1>1, <2>1 DEF Counts, Types, QueueTypes
  <1>7. TerminalTypes'
    <2>1. timeline' = timeline
      BY <1>1 DEF timeline
    <2> QED  BY <1>1, <2>1, HeardTypes DEF Counts, TerminalTypes
  <1>8. ThreadTypes'
    BY <1>1, <1>2, <1>3, GoesThreads DEF Counts, Types, ThreadTypes
  <1>9. SourceTypes' /\ RunningIs'
    BY <1>1, <1>2, <1>3, GoesSource, GoesCounted DEF Counts
  <1>10. ItemTypes'
    <2>1. channel' \in [Workers -> Seq(ItemsTo(timeline))]
      <3>1. channel \in [Workers -> Seq(ItemsTo(timeline))]
        BY DEF Counts, Types, ItemTypes
      <3>2. <<>> \in Seq(ItemsTo(timeline))
        OBVIOUS
      <3> HIDE DEF ItemsTo, timeline
      <3> QED  BY <1>1, <3>1, <3>2
    <2> QED  BY <1>1, <1>2, <1>3, <2>1, GoesItems DEF Counts, Types, ItemTypes
  <1> QED  BY <1>4, <1>5, <1>6, <1>7, <1>8, <1>9, <1>10 DEF Counts, Types

\* It carries a Stop on to the next.
LEMMA WorkerCarriesCounts ==
    ASSUME Counts, NEW w \in Workers, WorkerCarries(w)
    PROVE  Counts'
  <1> DEFINE asked == Head(control[w])
  <1>1. /\ UNCHANGED <<phase, interrupt, starts, preroll, abandoned, active, running, paused,
                       holder, todo, step, sending, cpc, call, calls, back, hand, waiting,
                       channel, flushing, registered, dropped, source, pad, terminal, failed>>
        /\ control[w] # <<>> /\ ~IsLast(w)
        /\ control' = [control EXCEPT ![w] = Tail(@), ![After(w)] = Append(@, asked)]
        /\ owing' = owing \cup {After(w)}
        /\ tpc' = [tpc EXCEPT ![w] = "carrying"]
    BY DEF WorkerCarries, GoesFurther, playback, slot, lock, callers, queues, ends, GoTo
  <1>2. w \in Threads /\ w \notin Sources /\ "carrying" \in WorkerPlaces /\ tpc[w] # "begin"
        /\ After(w) \in Workers /\ After(w) \in Threads /\ After(w) # w
    BY <1>1, WorkerPlace, Neighbours, ThreadsAre DEF Counts
  <1>3. RequestTypes'
    <2>1. /\ control[w] \in Seq([msg : StageNames, direct : BOOLEAN])
          /\ control[After(w)] \in Seq([msg : StageNames, direct : BOOLEAN])
      BY <1>2 DEF Counts, Types, RequestTypes
    <2>2. /\ asked \in [msg : StageNames, direct : BOOLEAN]
          /\ Tail(control[w]) \in Seq([msg : StageNames, direct : BOOLEAN])
      BY <1>1, <2>1, HeadOf
    <2>3. Append(control[After(w)], asked) \in Seq([msg : StageNames, direct : BOOLEAN])
      BY <2>1, <2>2, AppendOf
    <2>4. control' \in [Threads -> Seq([msg : StageNames, direct : BOOLEAN])]
      <3>1. control \in [Threads -> Seq([msg : StageNames, direct : BOOLEAN])]
        BY DEF Counts, Types, RequestTypes
      <3> QED  BY <1>1, <1>2, <2>2, <2>3, <3>1
    <2> QED  BY <1>1, <1>2, <2>4 DEF Counts, Types, RequestTypes
  <1>4. QueueTypes'
    BY <1>1, QueueTypesStay DEF Counts, Types
  <1> QED  BY <1>1, <1>2, <1>3, <1>4, GoesCounts

\* And has carried it.
LEMMA WorkerCarriedCounts ==
    ASSUME Counts, NEW w \in Workers, WorkerCarried(w)
    PROVE  Counts'
  <1>1. /\ UNCHANGED <<phase, interrupt, starts, preroll, abandoned, active, running, paused,
                       holder, todo, step, sending, cpc, call, calls, back, hand, waiting,
                       control, channel, flushing, registered, dropped, source, pad, terminal,
                       failed>>
        /\ owing' = owing \ {w} /\ tpc' = [tpc EXCEPT ![w] = "ending"]
    BY DEF WorkerCarried, playback, slot, lock, callers, queues, ends, GoTo
  <1>2. w \in Threads /\ w \notin Sources /\ "ending" \in WorkerPlaces /\ tpc[w] # "begin"
    BY WorkerPlace DEF Counts
  <1>3. RequestTypes'
    BY <1>1 DEF Counts, Types, RequestTypes
  <1>4. QueueTypes'
    BY <1>1, QueueTypesStay DEF Counts, Types
  <1> QED  BY <1>1, <1>2, <1>3, <1>4, GoesCounts

\* It gives up, its queue dropped.
LEMMA DeliverPendingCounts ==
    ASSUME Counts, NEW w \in Workers, DeliverPending(w)
    PROVE  Counts'
  <1>1. /\ UNCHANGED <<phase, interrupt, starts, preroll, abandoned, active, running, paused,
                       holder, todo, step, sending, cpc, call, calls, back, hand,
                       channel, flushing, registered, dropped, source, pad, failed>>
        /\ control' = [control EXCEPT ![w] = <<>>]
        /\ waiting' = waiting \ {w} /\ owing' = owing \ {w}
        /\ terminal' = Heard(w, {control[w][i].msg : i \in DOMAIN control[w]})
        /\ tpc' = [tpc EXCEPT ![w] = "ending"]
    BY DEF DeliverPending, playback, slot, lock, callers, queues, GoTo
  <1>2. w \in Threads /\ w \notin Sources /\ "ending" \in WorkerPlaces /\ tpc[w] # "begin"
    BY WorkerPlace DEF Counts
  <1>3. CallTypes' /\ Plan' /\ SeeksCounted' /\ PlayTypes' /\ QueueTypes'
    BY <1>1, CallsStay, PlayTypesStay, QueueTypesStay DEF Counts, Types
  <1>4. RequestTypes'
    BY <1>1, <1>2, EmptiedTypes DEF Counts, Types, RequestTypes
  <1>5. TerminalTypes'
    <2>1. timeline' = timeline
      BY <1>1 DEF timeline
    <2> QED  BY <1>1, <2>1, HeardTypes DEF Counts, TerminalTypes
  <1>6. ThreadTypes'
    BY <1>1, <1>2, GoesThreads DEF Counts, Types, ThreadTypes
  <1>7. SourceTypes' /\ RunningIs' /\ ItemTypes'
    BY <1>1, <1>2, GoesSource, GoesCounted, GoesOnly DEF Counts
  <1> QED  BY <1>3, <1>4, <1>5, <1>6, <1>7 DEF Counts, Types

\* It drops what it feeds.
LEMMA WorkerDropsCounts ==
    ASSUME Counts, NEW w \in Workers, WorkerDrops(w)
    PROVE  Counts'
  <1>1. /\ UNCHANGED <<phase, interrupt, starts, preroll, abandoned, active, running, paused,
                       holder, todo, step, sending, cpc, call, calls, back, hand, control,
                       owing, waiting, channel, flushing, source, pad, terminal, failed>>
        /\ ~IsLast(w) /\ tpc' = [tpc EXCEPT ![w] = "joining"] /\ DropsQueue(w)
    BY DEF WorkerDrops, DropsQueue, playback, slot, lock, callers, requests, ends, GoTo
  <1>2. w \in Threads /\ w \notin Sources /\ "joining" \in WorkerPlaces /\ tpc[w] # "begin"
    BY WorkerPlace DEF Counts
  <1>3. RequestTypes'
    BY <1>1, RequestTypesStay DEF Counts, Types
  <1>4. QueueTypes'
    BY <1>1, <1>2, DropTypes DEF Counts, Types
  <1> QED  BY <1>1, <1>2, <1>3, <1>4, GoesCounts

\* And is done.
LEMMA WorkerDoneCounts ==
    ASSUME Counts, NEW w \in Workers, WorkerDone(w)
    PROVE  Counts'
  <1>1. /\ UNCHANGED <<phase, interrupt, starts, preroll, abandoned, active, running, paused,
                       holder, todo, step, sending, cpc, call, calls, back, hand,
                       flushing, registered, dropped, source, pad, terminal, failed>>
        /\ control' = [control EXCEPT ![w] = <<>>]
        /\ waiting' = waiting \ {w} /\ owing' = owing \ {w}
        /\ channel' = [channel EXCEPT ![w] = <<>>]
        /\ tpc' = [tpc EXCEPT ![w] = "done"]
    BY DEF WorkerDone, playback, slot, lock, callers, ends, GoTo
  <1>2. w \in Threads /\ w \notin Sources /\ "done" \in WorkerPlaces /\ tpc[w] # "begin"
    BY WorkerPlace DEF Counts
  <1>3. CallTypes' /\ Plan' /\ SeeksCounted' /\ PlayTypes' /\ QueueTypes' /\ TerminalTypes'
    BY <1>1, CallsStay, PlayTypesStay, QueueTypesStay, TerminalTypesStay DEF Counts, Types
  <1>4. RequestTypes'
    BY <1>1, <1>2, EmptiedTypes DEF Counts, Types, RequestTypes
  <1>5. ThreadTypes'
    BY <1>1, <1>2, GoesThreads DEF Counts, Types, ThreadTypes
  <1>6. SourceTypes' /\ RunningIs'
    BY <1>1, <1>2, GoesSource, GoesCounted DEF Counts
  <1>7. ItemTypes'
    <2>1. channel' \in [Workers -> Seq(ItemsTo(timeline))]
      <3>1. channel \in [Workers -> Seq(ItemsTo(timeline))]
        BY DEF Counts, Types, ItemTypes
      <3>2. <<>> \in Seq(ItemsTo(timeline))
        OBVIOUS
      <3> HIDE DEF ItemsTo, timeline
      <3> QED  BY <1>1, <3>1, <3>2
    <2> QED  BY <1>1, <1>2, <2>1, GoesItems DEF Counts, Types, ItemTypes
  <1> QED  BY <1>3, <1>4, <1>5, <1>6, <1>7 DEF Counts, Types

-----------------------------------------------------------------------------
(* The types of the variables.                                             *)

\* As run returns.
LEMMA InitCounts == Init => Counts
  <1> SUFFICES ASSUME Init PROVE Counts
    OBVIOUS
  <1>1. Length \in Nat /\ 0 \in 0..Length /\ MaxOps \in Nat
    BY SizesAssumption, BoundsAssumption
  <1>2. starts = <<0>> /\ starts \in Seq(0..Length) /\ timeline = 1
    BY <1>1 DEF Init, timeline
  <1>3. PlayTypes
    <2>1. PICK no \in BOOLEAN : no = FALSE
      OBVIOUS
    <2>2. preroll = [on |-> no, ready |-> {}, cancelled |-> no]
      BY <2>1 DEF Init, NoPreroll
    <2>3. preroll \in [on : BOOLEAN, ready : SUBSET Lines, cancelled : BOOLEAN]
      BY <2>2
    <2>4. starts \in Seq(0..Length) /\ timeline \in Nat \ {0}
      BY <1>2
    <2>5. /\ phase \in {"playing", "paused", "prerolling", "stopped"}
          /\ interrupt \in BOOLEAN /\ abandoned \in BOOLEAN /\ active \in BOOLEAN
          /\ paused \in BOOLEAN
      BY DEF Init
    <2> QED  BY <2>3, <2>4, <2>5 DEF PlayTypes
  <1>4. CallTypes
    BY <1>1 DEF Init, CallTypes
  <1>5. Plan
    BY NothingLeft DEF Init, Plan, AllStages
  <1>6. ThreadTypes
    BY ThreadsAre DEF Init, ThreadTypes, SourcePlaces, WorkerPlaces
  <1>7. RequestTypes
    <2>1. <<>> \in Seq([msg : StageNames, direct : BOOLEAN])
      OBVIOUS
    <2> QED  BY <2>1 DEF Init, RequestTypes
  <1>8. QueueTypes
    BY DEF Init, QueueTypes
  <1>9. SourceTypes
    <2>1. 0 \in 0..timeline
      BY <1>2
    <2>2. PICK r : r = [pos |-> 0, seg |-> 0, sought |-> FALSE]
      OBVIOUS
    <2>3. r \in [pos : 0..Length, seg : 0..timeline, sought : BOOLEAN]
      BY <1>1, <2>1, <2>2
    <2>4. \A l \in Lines : tpc[Source(l)] = "begin"
      BY ThreadsAre DEF Init
    <2> QED  BY <2>2, <2>3, <2>4 DEF Init, SourceTypes
  <1>10. TerminalTypes
    <2>1. 0 \in 0..timeline
      BY <1>2
    <2>2. PICK r : r = [seg |-> 0, from |-> 0, at |-> 0, ended |-> FALSE, heard |-> FALSE]
      OBVIOUS
    <2>3. r \in [seg : 0..timeline, from : 0..timeline, at : 0..Length,
                 ended : BOOLEAN, heard : BOOLEAN]
      BY <1>1, <2>1, <2>2
    <2> QED  BY <2>2, <2>3 DEF Init, TerminalTypes
  <1>11. ItemTypes
    <2>1. <<>> \in Seq(ItemsTo(timeline))
      OBVIOUS
    <2>2. NoItem \in Items
      BY <1>1 DEF NoItem, Items
    <2>3. \A t \in Threads : tpc[t] # "push"
      BY DEF Init
    <2> QED  BY <2>1, <2>2, <2>3 DEF Init, ItemTypes
  <1>12. RunningIs
    <2>1. \A l \in Lines : tpc[Source(l)] = "begin"
      BY ThreadsAre DEF Init
    <2>2. Counted = Lines
      BY <2>1 DEF Counted
    <2> QED  BY <2>2 DEF Init, RunningIs
  <1>13. SeeksCounted
    <2>1. Seekers = {}
      BY NothingLeft DEF Init, Seekers
    <2>2. IsFiniteSet({}) /\ Cardinality({}) = 0
      BY FS_EmptySet
    <2> QED  BY <1>2, <2>1, <2>2 DEF Init, SeeksCounted
  <1> QED  BY <1>3, <1>4, <1>5, <1>6, <1>7, <1>8, <1>9, <1>10, <1>11, <1>12, <1>13
           DEF Counts, Types

\* Each step keeps them.
LEMMA NextCounts == Counts /\ [Next]_vars => Counts'
  <1> SUFFICES ASSUME Counts, [Next]_vars PROVE Counts'
    OBVIOUS
  <1>1. CASE \E c \in Callers : Calls(c) \/ Caller(c)
    BY <1>1, CallsCounts, RefusesCounts, BeginsCounts, JoinsCounts DEF Caller
  <1>2. CASE Asks
    BY <1>2, SaysCounts, SnapshotsCounts, SendsCounts, InterruptsCounts, SettlesCounts,
       AwaitsCounts, CompletesCounts DEF Asks
  <1>3. CASE \E l \in Lines : SourceThread(l) \/ SourceFails(l)
    BY <1>3, SourceBeginsCounts, SourceProducesCounts, SourceHandsOnCounts, SourceEndsCounts,
       SourceTakesCounts, SourceFinishesCounts, SourceFinishedCounts, SourceCarriedCounts,
       SourceReturnsCounts, DropsReceiverCounts, SourceDropsCounts, SourceJoinsCounts,
       SourceFailsCounts DEF SourceThread
  <1>4. CASE \E w \in Workers : WorkerThread(w)
    BY <1>4, WorkerLooksCounts, WorkerForwardsCounts, WorkerHandsOnCounts, WorkerTakesCounts,
       WorkerCarriesCounts, WorkerCarriedCounts, DeliverPendingCounts, WorkerDropsCounts,
       WorkerDoneCounts DEF WorkerThread
  <1>5. CASE UNCHANGED vars
    <2>1. UNCHANGED <<phase, interrupt, starts, preroll, abandoned, active, running, paused,
                      holder, todo, step, sending, cpc, call, calls, tpc, back, hand, control,
                      owing, waiting, channel, flushing, registered, dropped, source, pad,
                      terminal, failed>>
      BY <1>5 DEF vars, playback, slot, lock, callers, threads, requests, queues, ends
    <2>2. CallTypes' /\ Plan' /\ SeeksCounted' /\ PlayTypes' /\ RequestTypes' /\ QueueTypes'
          /\ TerminalTypes'
      BY <2>1, CallsStay, PlayTypesStay, RequestTypesStay, QueueTypesStay, TerminalTypesStay
         DEF Counts, Types
    <2>3. ThreadTypes' /\ SourceTypes' /\ ItemTypes' /\ RunningIs'
      BY <2>1, ThreadTypesStay, SourceTypesStay, ItemTypesStay, RunningStays DEF Counts, Types
    <2> QED  BY <2>2, <2>3 DEF Counts, Types
  <1> QED  BY <1>1, <1>2, <1>3, <1>4, <1>5 DEF Next

\* So they hold throughout.
LEMMA AlwaysCounts == Spec => []Counts
  BY InitCounts, NextCounts, PTL DEF Spec

\* Every step keeps every variable in its type: among them no queue, hand or
\* terminal ever has an item of a timeline nobody began, and there are never
\* more timelines than calls that may begin one.
THEOREM TypeCorrect == Spec => []TypeOK
  <1>1. Counts => TypeOK
    <2> SUFFICES ASSUME Counts PROVE TypeOK
      OBVIOUS
    <2>1. timeline \in 1..(MaxOps + 1)
      <3>1. IsFiniteSet(Seekers) /\ Cardinality(Seekers) \in Nat
            /\ timeline + Cardinality(Seekers) <= calls + 1
        BY FS_CardinalityType DEF Counts, SeeksCounted
      <3>2. timeline \in Nat \ {0} /\ calls \in 0..MaxOps /\ MaxOps \in Nat
        BY BoundsAssumption DEF Counts, Types, PlayTypes, CallTypes
      <3> QED  BY <3>1, <3>2
    <2>2. running \in 0..Cardinality(Lines)
      <3>1. IsFiniteSet(Counted) /\ Cardinality(Counted) <= Cardinality(Lines)
            /\ Cardinality(Counted) \in Nat /\ Cardinality(Lines) \in Nat
        BY LinesAssumption, FS_Subset, FS_CardinalityType DEF Counted
      <3> QED  BY <3>1 DEF Counts, RunningIs
    <2>3. todo \in Seq(StageNames)
      <3>1. <<>> \in Seq(StageNames)
        OBVIOUS
      <3>2. todo # <<>> => todo \in Seq(StageNames)
        BY UnderWay DEF Counts, StageLeaves
      <3> QED  BY <3>1, <3>2
    <2>4. channel \in [Workers -> Seq(Items)]
      <3>1. ItemsTo(timeline) \subseteq Items
        BY DEF ItemsTo
      <3>2. \A q \in Seq(ItemsTo(timeline)) : q \in Seq(Items)
        BY <3>1, SeqOfMore
      <3>3. channel \in [Workers -> Seq(ItemsTo(timeline))]
        BY DEF Counts, Types, ItemTypes
      <3> HIDE DEF ItemsTo, Items, timeline
      <3> QED  BY <3>2, <3>3
    <2>5. PlayTypes /\ CallTypes /\ ThreadTypes /\ RequestTypes /\ QueueTypes /\ SourceTypes
          /\ TerminalTypes /\ ItemTypes
      BY DEF Counts, Types
    <2> QED  BY <2>1, <2>2, <2>3, <2>4, <2>5
             DEF TypeOK, PlayTypes, CallTypes, ThreadTypes, RequestTypes, QueueTypes,
                 SourceTypes, TerminalTypes, ItemTypes
  <1> QED  BY <1>1, AlwaysCounts, PTL

-----------------------------------------------------------------------------
(* What a step of one thread leaves as it is.                              *)

\* Requests taken, or dropped, leave the others accounted for.
LEMMA ControlStays ==
    ASSUME ControlIs, \A m : Out(m) => Out(m)',
           \A t \in Threads :
               \/ control'[t] = <<>>
               \/ /\ control'[t] = control[t]
                  /\ t \in waiting => t \in waiting'
                  /\ t \in owing => t \in owing' \/ tpc[t] = "carrying"
                  /\ tpc'[t] = "carrying" => tpc[t] = "carrying"
    PROVE  ControlIs'
  <1>1. ASSUME NEW t \in Threads
        PROVE  /\ \A i \in 1 .. Len(control'[t]) :
                      IF control'[t][i].direct
                      THEN Out(control[t][i].msg)' /\ t \in waiting'
                      ELSE control'[t][i].msg = "Stop" /\ t \in owing'
               /\ \A i, j \in 1 .. Len(control'[t]) :
                      control'[t][i].direct = control'[t][j].direct => i = j
               /\ tpc'[t] = "carrying" =>
                      \A i \in 1 .. Len(control'[t]) : control'[t][i].direct
    <2>1. CASE control'[t] = <<>>
      <3>1. Len(control'[t]) = 0
        BY <2>1
      <3> QED  BY <3>1
    <2>2. CASE control'[t] # <<>>
      <3>1. /\ control'[t] = control[t]
            /\ t \in waiting => t \in waiting'
            /\ t \in owing => t \in owing' \/ tpc[t] = "carrying"
            /\ tpc'[t] = "carrying" => tpc[t] = "carrying"
        BY <2>2
      <3>2. ASSUME NEW i \in 1 .. Len(control'[t])
            PROVE  IF control'[t][i].direct
                   THEN Out(control[t][i].msg)' /\ t \in waiting'
                   ELSE control'[t][i].msg = "Stop" /\ t \in owing'
        <4>1. PICK m : m = control[t][i].msg /\ m = control'[t][i].msg
          BY <3>1
        <4>2. Out(m) => Out(m)'
          OBVIOUS
        <4> QED  BY <3>1, <4>1, <4>2 DEF ControlIs, Out
      <3> QED  BY <3>1, <3>2 DEF ControlIs
    <2> QED  BY <2>1, <2>2
  <1> QED  BY <1>1 DEF ControlIs

\* A Stop is carried on where it was.
LEMMA CarryingStays ==
    ASSUME Types, Carrying, owing' = owing,
           \A t \in Threads : tpc'[t] = "carrying" <=> tpc[t] = "carrying",
           \A w \in Workers : tpc[w] \in Over => tpc'[w] \in Over
    PROVE  Carrying'
  <1>1. \A w \in owing : w \in Workers /\ Source(w[1]) \in Threads
    BY ThreadsAre DEF Types, RequestTypes
  <1>2. \A w \in owing :
            /\ tpc'[Source(w[1])] = "carrying"
            /\ \A u \in Workers : u[1] = w[1] /\ u[2] < w[2] =>
                   u \in owing /\ tpc'[u] = "carrying"
    BY <1>1, ThreadsAre DEF Carrying
  <1>3. \A w \in Workers : tpc'[w] = "carrying" => w \in owing /\ ~IsLast(w)
    BY ThreadsAre DEF Carrying
  <1>4. ASSUME NEW t \in Threads, tpc'[t] = "carrying"
        PROVE  After(t) \in owing \/ tpc'[After(t)] \in Over
    <2>1. tpc[t] = "carrying" /\ ~IsLast(t)
      BY <1>4, ThreadsAre, Neighbours DEF Carrying
    <2>2. After(t) \in Workers
      BY <2>1, Neighbours
    <2> QED  BY <2>1, <2>2 DEF Carrying
  <1> QED  BY <1>2, <1>3, <1>4 DEF Carrying

\* The queues are registered as they were.
LEMMA RegisteredStays ==
    ASSUME Registered, UNCHANGED <<registered, dropped>>,
           \A t \in Threads : /\ tpc'[t] \in Quit <=> tpc[t] \in Quit
                              /\ tpc'[t] = "done" <=> tpc[t] = "done"
    PROVE  Registered'
  <1>1. ASSUME NEW w \in Workers
        PROVE  /\ registered'[w] <=> tpc'[Before(w)] \notin Quit
               /\ dropped'[w] <=> tpc'[Before(w)] \in Quit
    <2>1. Before(w) \in Threads
      BY Neighbours
    <2>2. tpc'[Before(w)] \in Quit <=> tpc[Before(w)] \in Quit
      BY <2>1
    <2>3. (registered[w] <=> tpc[Before(w)] \notin Quit) /\ (dropped[w] <=> tpc[Before(w)] \in Quit)
      BY DEF Registered
    <2> QED  BY <2>2, <2>3
  <1>2. \A t, u \in Threads : tpc'[t] = "done" /\ u[1] = t[1] /\ u[2] > t[2] => tpc'[u] = "done"
    BY DEF Registered
  <1> QED  BY <1>1, <1>2 DEF Registered

\* A source still finishing is waited for.
LEMMA FinishStays ==
    ASSUME FinishIs, Out("Finish") => Out("Finish")',
           \A s \in Sources : tpc'[s] = "finishing" =>
               /\ tpc[s] = "finishing" /\ control'[s] = control[s]
               /\ s \in waiting => s \in waiting'
    PROVE  FinishIs'
  BY DEF FinishIs

\* Whoever is over now leaves nothing running behind it, if those over stay so.
LEMMA FollowsStays ==
    ASSUME Types, Follows, Out("Stop")' <=> Out("Stop"), Finishing => Finishing',
           \A w \in Workers : /\ tpc[w] \in Over => tpc'[w] \in Over
                              /\ w \in sending \cup waiting =>
                                     w \in sending' \cup waiting' \/ tpc'[w] \in Over
                                     \/ ~Out("Stop"),
           \A t \in Threads : IsOver(t)' /\ ~IsLast(t) =>
               \/ IsOver(t) \/ tpc'[After(t)] \in Over \/ Finishing \/ Out("Stop")
    PROVE  Follows'
  <1>1. Out("Stop")' => \A w \in Workers : w \in sending' \cup waiting' \/ tpc'[w] \in Over
    BY DEF Follows
  <1>2. ASSUME NEW t \in Threads, IsOver(t)', ~IsLast(t)
        PROVE  \/ tpc'[After(t)] \in Over
               \/ Finishing'
               \/ Out("Stop")' /\ After(t) \in sending' \cup waiting'
    <2>1. After(t) \in Workers
      BY <1>2, Neighbours
    <2>2. CASE Out("Stop")
      BY <1>1, <2>1, <2>2
    <2>3. CASE ~Out("Stop")
      BY <1>2, <2>1, <2>3 DEF Follows
    <2> QED  BY <2>2, <2>3
  <1> QED  BY <1>1, <1>2 DEF Follows, IsLast, After

\* What a Pause has reached stays so.
LEMMA ReachesStays ==
    ASSUME PauseReaches, Out("Pause")' => Out("Pause"),
           Out("Pause") =>
               /\ \A w \in Workers :
                      /\ tpc[w] \in Over \cup {"paused", "carrying"} =>
                             tpc'[w] \in Over \cup {"paused", "carrying"}
                      /\ w \in sending \cup waiting =>
                             \/ w \in sending' \cup waiting'
                             \/ tpc'[w] \in Over \cup {"paused", "carrying"}
               /\ \A s \in Sources :
                      /\ tpc[s] \in {"paused", "dropping", "joining", "done"} =>
                             tpc'[s] \in {"paused", "dropping", "joining", "done"}
                      /\ s \in sending \cup waiting =>
                             \/ s \in sending' \cup waiting'
                             \/ tpc'[s] \in {"paused", "dropping", "joining", "done"}
    PROVE  PauseReaches'
  BY DEF PauseReaches

\* And what stands still.
LEMMA StillStays ==
    ASSUME StandsStill, UNCHANGED <<phase, todo>>,
           phase = "paused" /\ todo = <<>> =>
               /\ \A w \in Workers :
                      /\ tpc[w] \in Over => tpc'[w] \in Over
                      /\ tpc[w] = "paused" /\ control[w] = <<>> =>
                             tpc'[w] \in Over \/ (tpc'[w] = "paused" /\ control'[w] = <<>>)
               /\ \A s \in Sources :
                      /\ tpc[s] \in {"dropping", "joining", "done"} =>
                             tpc'[s] \in {"dropping", "joining", "done"}
                      /\ tpc[s] = "paused" /\ control[s] = <<>> =>
                             tpc'[s] = "paused" /\ control'[s] = <<>>
    PROVE  StandsStill'
  BY DEF StandsStill

-----------------------------------------------------------------------------
(* The protocol, through each thread's steps.                              *)

\* A Stop on its way stays so for those it is on its way to, as one that is
\* not carrying it has handled it.
LEMMA CarryingLess ==
    ASSUME Types, Carrying, NEW t \in Threads, tpc[t] # "carrying" \/ After(t) \notin owing,
           \A u \in Threads : u # t => tpc'[u] = tpc[u],
           owing' = owing \/ owing' = owing \ {t},
           t \in Workers => (tpc[t] = "carrying" => owing' = owing \ {t})
                            /\ (owing' = owing \/ tpc'[t] \in Over),
           tpc'[t] # "carrying",
           t \in Workers => (tpc[t] \in Over => tpc'[t] \in Over)
    PROVE  Carrying'
  <1>1. \A w \in owing : w \in Workers /\ Source(w[1]) \in Threads
    BY ThreadsAre DEF Types, RequestTypes
  <1>2. t \in Sources => t \notin owing /\ owing' = owing
    <2>1. t \in Sources => t \notin owing
      BY <1>1, ThreadsAre
    <2> QED  BY <2>1
  <1>3. \A w \in owing : \A u \in Threads :
            u[1] = w[1] /\ u[2] < w[2] => tpc[u] = "carrying" /\ After(u) \in owing /\ u # w
    <2> TAKE w \in owing
    <2> TAKE u \in Threads
    <2> HAVE u[1] = w[1] /\ u[2] < w[2]
    <2>1. w \in Workers /\ w[2] \in 1..Depth
      BY <1>1, ThreadsAre
    <2>2. u \in Sources \/ u \in Workers
      BY ThreadsAre
    <2>3. tpc[u] = "carrying"
      BY <2>2, ThreadsAre DEF Carrying
    <2>4. ~IsLast(u) /\ (w = After(u) \/ w[2] > After(u)[2])
      BY <2>1, Neighbours
    <2>5. After(u) \in Workers /\ After(u)[1] = u[1]
      BY <2>4, Neighbours
    <2>6. After(u) \in owing
      BY <2>4, <2>5 DEF Carrying
    <2>7. u # w
      <3>1. u[2] \in 0..Depth /\ Depth \in Nat
        BY ThreadsAre
      <3> QED  BY <2>1, <3>1
    <2> QED  BY <2>3, <2>6, <2>7
  <1>4. \A w \in owing : t[1] = w[1] => ~(t[2] < w[2])
    BY <1>3
  <1>5. ASSUME NEW w \in owing'
        PROVE  /\ tpc'[Source(w[1])] = "carrying"
               /\ \A u \in Workers : u[1] = w[1] /\ u[2] < w[2] =>
                      u \in owing' /\ tpc'[u] = "carrying"
    <2>1. w \in owing /\ w \in Workers /\ w[2] \in 1..Depth /\ w[1] \in Lines
      BY <1>1, ThreadsAre
    <2>2. Source(w[1]) # t
      BY <1>4, <2>1, ThreadsAre
    <2>3. \A u \in Workers : u[1] = w[1] /\ u[2] < w[2] => u # t
      BY <1>4, <2>1
    <2> QED  BY <1>1, <2>1, <2>2, <2>3, ThreadsAre DEF Carrying
  <1>6. \A w \in Workers : tpc'[w] = "carrying" => w \in owing' /\ ~IsLast(w)
    BY ThreadsAre DEF Carrying
  <1>7. ASSUME NEW u \in Threads, tpc'[u] = "carrying"
        PROVE  After(u) \in owing' \/ tpc'[After(u)] \in Over
    <2>1. tpc[u] = "carrying" /\ ~IsLast(u) /\ u # t
      BY <1>7, ThreadsAre, Neighbours DEF Carrying
    <2>2. After(u) \in Workers /\ After(u) \in Threads
      BY <2>1, Neighbours, ThreadsAre
    <2>3. After(u) \in owing \/ tpc[After(u)] \in Over
      BY <2>1 DEF Carrying
    <2>4. CASE After(u) = t
      BY <2>2, <2>3, <2>4
    <2>5. CASE After(u) # t
      BY <2>2, <2>3, <2>5
    <2> QED  BY <2>4, <2>5
  <1> QED  BY <1>5, <1>6, <1>7 DEF Carrying

\* A thread that is done stays the last but for those behind it.
LEMMA DoneChain ==
    ASSUME Registered, NEW t \in Threads, tpc[t] # "done",
           \A u \in Threads : u # t => tpc'[u] = tpc[u],
           tpc'[t] = "done" => IsLast(t) \/ tpc[After(t)] = "done"
    PROVE  \A x, u \in Threads : tpc'[x] = "done" /\ u[1] = x[1] /\ u[2] > x[2] => tpc'[u] = "done"
  <1> SUFFICES ASSUME NEW x \in Threads, NEW u \in Threads,
                      tpc'[x] = "done", u[1] = x[1], u[2] > x[2]
               PROVE  tpc'[u] = "done"
    OBVIOUS
  <1>1. CASE x # t
    <2>1. tpc[x] = "done"
      BY <1>1
    <2>2. tpc[u] = "done"
      BY <2>1 DEF Registered
    <2> QED  BY <2>2
  <1>2. CASE x = t
    <2>1. u \in Workers
      BY ThreadsAre
    <2>2. ~IsLast(t) /\ (u = After(t) \/ u[2] > After(t)[2])
      BY <1>2, <2>1, Neighbours
    <2>3. After(t) \in Threads /\ After(t)[1] = t[1] /\ tpc[After(t)] = "done" /\ After(t) # t
      BY <1>2, <2>2, Neighbours, ThreadsAre
    <2>4. tpc[u] = "done"
      BY <1>2, <2>2, <2>3 DEF Registered
    <2> QED  BY <2>4
  <1> QED  BY <1>1, <1>2

\* A thread on its way out goes on, and drops its requests and what it feeds.
LEMMA GoneKeeps ==
    ASSUME Types, Protocol, NEW t \in Threads, NEW p, tpc' = [tpc EXCEPT ![t] = p],
           IF t \in Sources
           THEN /\ tpc[t] \in Left /\ p \in Left
                /\ p \notin {"dropping", "joining", "done"} =>
                       tpc[t] \notin {"dropping", "joining", "done"} /\ waiting' = waiting
           ELSE tpc[t] \in Over /\ p \in Over,
           control' = control \/ control' = [control EXCEPT ![t] = <<>>],
           waiting' = waiting \/ waiting' = waiting \ {t},
           owing' = owing \/ owing' = owing \ {t},
           waiting' # waiting \/ owing' # owing => control' = [control EXCEPT ![t] = <<>>],
           \/ UNCHANGED <<registered, dropped>> /\ (IsLast(t) \/ (tpc[t] \in Quit <=> p \in Quit))
           \/ DropsQueue(t) /\ ~IsLast(t) /\ tpc[t] \notin Quit /\ p = "joining",
           p = "done" => IsLast(t) \/ tpc[After(t)] = "done",
           tpc[t] # "done",
           UNCHANGED <<phase, holder, todo, step, sending, call>>
    PROVE  Protocol'
  <1>1. tpc'[t] = p /\ \A u \in Threads : u # t => tpc'[u] = tpc[u]
    BY DEF Types, ThreadTypes
  <1>2. \A m : Out(m)' <=> Out(m)
    BY DEF Out
  <1>3. p \notin {"carrying", "finishing"} /\ tpc[t] \notin {"carrying", "finishing"}
    BY DEF Left, Over
  <1>4. \A u \in Threads : u # t => control'[u] = control[u]
    BY DEF Types, RequestTypes
  <1>5. control' # control => control'[t] = <<>>
    BY DEF Types, RequestTypes
  <1>6. ControlIs'
    <2>1. ASSUME NEW u \in Threads
          PROVE  \/ control'[u] = <<>>
                 \/ /\ control'[u] = control[u]
                    /\ u \in waiting => u \in waiting'
                    /\ u \in owing => u \in owing'
                    /\ tpc'[u] = "carrying" => tpc[u] = "carrying"
      <3>1. CASE u # t
        BY <1>1, <1>4, <3>1
      <3>2. CASE u = t /\ control'[t] # <<>>
        <4>1. control' = control
          BY <1>5, <3>2
        <4>2. control' # [control EXCEPT ![t] = <<>>]
          BY <3>2 DEF Types, RequestTypes
        <4> QED  BY <1>1, <1>3, <3>2, <4>1, <4>2
      <3> QED  BY <3>1, <3>2
    <2> QED  BY <1>2, <2>1, ControlStays DEF Protocol
  <1>7. Carrying'
    <2>1. t \in Workers => p \in Over /\ tpc[t] \in Over
      BY ThreadsAre
    <2> QED  BY <1>1, <1>3, <2>1, CarryingLess DEF Protocol
  <1>8. Registered'
    <2>1. \A x, u \in Threads : tpc'[x] = "done" /\ u[1] = x[1] /\ u[2] > x[2] => tpc'[u] = "done"
      BY <1>1, DoneChain DEF Protocol
    <2>2. ASSUME NEW w \in Workers
          PROVE  /\ registered'[w] <=> tpc'[Before(w)] \notin Quit
                 /\ dropped'[w] <=> tpc'[Before(w)] \in Quit
      <3>1. Before(w) \in Threads /\ ~IsLast(Before(w)) /\ After(Before(w)) = w
        BY Neighbours
      <3>2. (registered[w] <=> tpc[Before(w)] \notin Quit)
            /\ (dropped[w] <=> tpc[Before(w)] \in Quit)
        BY DEF Protocol, Registered
      <3>3. CASE UNCHANGED <<registered, dropped>>
                 /\ (IsLast(t) \/ (tpc[t] \in Quit <=> p \in Quit))
        <4>1. tpc'[Before(w)] \in Quit <=> tpc[Before(w)] \in Quit
          BY <1>1, <3>1, <3>3
        <4> QED  BY <3>2, <3>3, <4>1
      <3>4. CASE DropsQueue(t) /\ ~IsLast(t) /\ tpc[t] \notin Quit /\ p = "joining"
        <4>1. registered' = [registered EXCEPT ![After(t)] = FALSE]
              /\ dropped' = [dropped EXCEPT ![After(t)] = TRUE] /\ After(t) \in Workers
          BY <3>4, Neighbours DEF DropsQueue
        <4>2. CASE w = After(t)
          <5>1. ~registered'[w] /\ dropped'[w] /\ Before(w) = t
            BY <4>1, <4>2, <3>4, Neighbours DEF Types, QueueTypes
          <5> QED  BY <1>1, <3>4, <5>1 DEF Quit
        <4>3. CASE w # After(t)
          <5>1. registered'[w] = registered[w] /\ dropped'[w] = dropped[w] /\ Before(w) # t
            BY <3>1, <4>1, <4>3 DEF Types, QueueTypes
          <5>2. tpc'[Before(w)] = tpc[Before(w)]
            BY <1>1, <3>1, <5>1
          <5> QED  BY <3>2, <5>1, <5>2
        <4> QED  BY <4>2, <4>3
      <3> QED  BY <3>3, <3>4
    <2> QED  BY <2>1, <2>2 DEF Registered
  <1>9. FinishIs'
    BY <1>1, <1>2, <1>3, <1>4, FinishStays, ThreadsAre DEF Protocol
  <1>10. Follows'
    <2>1. \A w \in Workers : /\ tpc[w] \in Over => tpc'[w] \in Over
                             /\ w \in sending \cup waiting =>
                                    w \in sending' \cup waiting' \/ tpc'[w] \in Over
      BY <1>1, ThreadsAre
    <2>2. \A u \in Threads : IsOver(u)' => IsOver(u)
      BY <1>1 DEF IsOver
    <2> QED  BY <1>2, <2>1, <2>2, FollowsStays DEF Protocol, Finishing
  <1>11. PauseReaches'
    <2>1. \A w \in Workers :
              /\ tpc[w] \in Over \cup {"paused", "carrying"} =>
                     tpc'[w] \in Over \cup {"paused", "carrying"}
              /\ w \in sending \cup waiting =>
                     \/ w \in sending' \cup waiting'
                     \/ tpc'[w] \in Over \cup {"paused", "carrying"}
      BY <1>1, ThreadsAre
    <2>2. \A s \in Sources :
              /\ tpc[s] \in {"paused", "dropping", "joining", "done"} =>
                     tpc'[s] \in {"paused", "dropping", "joining", "done"}
              /\ s \in sending \cup waiting =>
                     \/ s \in sending' \cup waiting'
                     \/ tpc'[s] \in {"paused", "dropping", "joining", "done"}
      BY <1>1, ThreadsAre DEF Left
    <2> QED  BY <1>2, <2>1, <2>2, ReachesStays DEF Protocol
  <1>12. StandsStill'
    <2>1. \A w \in Workers :
              /\ tpc[w] \in Over => tpc'[w] \in Over
              /\ tpc[w] = "paused" /\ control[w] = <<>> =>
                     tpc'[w] \in Over \/ (tpc'[w] = "paused" /\ control'[w] = <<>>)
      BY <1>1, <1>4, ThreadsAre DEF Over
    <2>2. \A s \in Sources :
              /\ tpc[s] \in {"dropping", "joining", "done"} =>
                     tpc'[s] \in {"dropping", "joining", "done"}
              /\ tpc[s] = "paused" /\ control[s] = <<>> =>
                     tpc'[s] = "paused" /\ control'[s] = <<>>
      BY <1>1, <1>4, ThreadsAre DEF Left
    <2> QED  BY <2>1, <2>2, StillStays DEF Protocol
  <1> QED  BY <1>6, <1>7, <1>8, <1>9, <1>10, <1>11, <1>12 DEF Protocol

-----------------------------------------------------------------------------
(* What a thread's step does to where the threads are and what is asked.    *)

\* Where a thread is neither paused, nor carrying, nor on its way out.
Works(t, place) ==
    IF t \in Sources THEN place \notin Left \cup {"carrying", "finishing", "paused"}
    ELSE place \notin Over \cup {"carrying", "paused"}

\* What a thread at work does between two requests changes none of it.
LEMMA WorksOnKeeps ==
    ASSUME Types, Protocol, NEW t \in Threads, NEW p,
           tpc' = [tpc EXCEPT ![t] = p], Works(t, tpc[t]), Works(t, p),
           UNCHANGED <<phase, holder, todo, step, sending, call, waiting, control, owing,
                       registered, dropped>>
    PROVE  Protocol'
  <1>1. tpc'[t] = p /\ \A u \in Threads : u # t => tpc'[u] = tpc[u]
    BY DEF Types, ThreadTypes
  <1>2. p # "carrying" /\ p \notin Quit /\ tpc[t] # "carrying" /\ tpc[t] \notin Quit
    BY DEF Works, Left, Over, Quit
  <1>3. ControlIs'
    BY <1>1, <1>2 DEF Protocol, ControlIs, Out
  <1>4. Carrying'
    <2>1. ASSUME NEW w \in owing
          PROVE  /\ tpc'[Source(w[1])] = "carrying"
                 /\ \A u \in Workers : u[1] = w[1] /\ u[2] < w[2] =>
                        u \in owing /\ tpc'[u] = "carrying"
      <3>1. w \in Workers /\ Source(w[1]) \in Threads
        BY ThreadsAre DEF Types, RequestTypes
      <3> QED  BY <1>1, <1>2, <3>1, ThreadsAre DEF Protocol, Carrying
    <2> QED  BY <1>1, <1>2, <2>1, ThreadsAre, Neighbours DEF Protocol, Carrying, Works
  <1>5. Registered'
    BY <1>1, <1>2, ThreadsAre, Neighbours DEF Protocol, Registered, Quit
  <1>6. FinishIs'
    BY <1>1, ThreadsAre DEF Protocol, FinishIs, Out, Works
  <1>7. Follows'
    BY <1>1, ThreadsAre, Neighbours DEF Protocol, Follows, Out, Works, IsOver, Finishing
  <1>8. PauseReaches'
    BY <1>1, ThreadsAre DEF Protocol, PauseReaches, Out, Works, Left
  <1>9. StandsStill'
    BY <1>1, ThreadsAre DEF Protocol, StandsStill, Works, Left
  <1> QED  BY <1>3, <1>4, <1>5, <1>6, <1>7, <1>8, <1>9 DEF Protocol

\* A source has one request in its control at most, which is the one out.
LEMMA SourceAsked ==
    ASSUME Types, Protocol, NEW s \in Sources, control[s] # <<>>
    PROVE  /\ Out(Head(control[s]).msg) /\ s \in waiting /\ Tail(control[s]) = <<>>
           /\ Head(control[s]).msg \in StageNames
  <1>1. s \in Threads /\ s \notin owing
    BY ThreadsAre DEF Types, RequestTypes
  <1>2. control[s] \in Seq([msg : StageNames, direct : BOOLEAN])
    BY <1>1 DEF Types, RequestTypes
  <1>3. Len(control[s]) \in Nat /\ Len(control[s]) > 0 /\ Head(control[s]) = control[s][1]
        /\ control[s][1] \in [msg : StageNames, direct : BOOLEAN]
        /\ (Len(control[s]) = 1 => Tail(control[s]) = <<>>)
    BY <1>2, HeadOf
  <1>4. \A i \in 1 .. Len(control[s]) :
            control[s][i].direct /\ Out(control[s][i].msg) /\ s \in waiting
    BY <1>1 DEF Protocol, ControlIs
  <1>5. \A i, j \in 1 .. Len(control[s]) : control[s][i].direct = control[s][j].direct => i = j
    BY <1>1 DEF Protocol, ControlIs
  <1>6. Len(control[s]) = 1
    <2>1. PICK n \in Nat : n = Len(control[s]) /\ n > 0
      BY <1>3
    <2>2. 1 \in 1 .. n /\ n \in 1 .. n
      BY <2>1
    <2>3. control[s][1].direct /\ control[s][n].direct
      BY <1>4, <2>1, <2>2
    <2>4. control[s][1].direct \in BOOLEAN /\ control[s][n].direct \in BOOLEAN
      <3>1. control[s][1] \in [msg : StageNames, direct : BOOLEAN]
            /\ control[s][n] \in [msg : StageNames, direct : BOOLEAN]
        BY <1>2, <2>1, <2>2, ItemOf
      <3> QED  BY <3>1
    <2>5. control[s][1].direct = control[s][n].direct
      BY <2>3, <2>4, Zenon
    <2> QED  BY <1>5, <2>1, <2>2, <2>5
  <1> QED  BY <1>3, <1>4, <1>6

\* What a worker is asked first: what is out, or a Stop carried to it, and what
\* is left is the other.
LEMMA WorkerAsked ==
    ASSUME Types, Protocol, NEW w \in Workers, control[w] # <<>>
    PROVE  /\ Head(control[w]) = control[w][1]
           /\ control[w][1] \in [msg : StageNames, direct : BOOLEAN]
           /\ control[w][1].direct => Out(control[w][1].msg) /\ w \in waiting
           /\ ~control[w][1].direct => control[w][1].msg = "Stop" /\ w \in owing
           /\ Tail(control[w]) \in Seq([msg : StageNames, direct : BOOLEAN])
           /\ Len(Tail(control[w])) = Len(control[w]) - 1
           /\ \A i \in 1 .. Len(Tail(control[w])) :
                  /\ Tail(control[w])[i] = control[w][i+1] /\ i+1 \in 1 .. Len(control[w])
                  /\ Tail(control[w])[i].direct <=> ~control[w][1].direct
  <1>1. w \in Threads
    BY ThreadsAre
  <1>2. control[w] \in Seq([msg : StageNames, direct : BOOLEAN])
    BY <1>1 DEF Types, RequestTypes
  <1>3. Len(control[w]) \in Nat /\ Len(control[w]) > 0 /\ Head(control[w]) = control[w][1]
        /\ control[w][1] \in [msg : StageNames, direct : BOOLEAN]
        /\ Tail(control[w]) \in Seq([msg : StageNames, direct : BOOLEAN])
        /\ Len(Tail(control[w])) = Len(control[w]) - 1
        /\ \A i \in 1 .. Len(Tail(control[w])) :
               Tail(control[w])[i] = control[w][i+1] /\ i+1 \in 1 .. Len(control[w])
    BY <1>2, HeadOf
  <1>4. \A i \in 1 .. Len(control[w]) :
            IF control[w][i].direct THEN Out(control[w][i].msg) /\ w \in waiting
            ELSE control[w][i].msg = "Stop" /\ w \in owing
    BY <1>1 DEF Protocol, ControlIs
  <1>5. \A i, j \in 1 .. Len(control[w]) : control[w][i].direct = control[w][j].direct => i = j
    BY <1>1 DEF Protocol, ControlIs
  <1>6. 1 \in 1 .. Len(control[w])
    BY <1>3
  <1>7. ASSUME NEW i \in 1 .. Len(Tail(control[w]))
        PROVE  /\ Tail(control[w])[i] = control[w][i+1] /\ i+1 \in 1 .. Len(control[w])
               /\ Tail(control[w])[i].direct <=> ~control[w][1].direct
    <2>1. i+1 \in 1 .. Len(control[w]) /\ i+1 # 1
      BY <1>3
    <2>2. Tail(control[w])[i] = control[w][i+1]
      BY <1>3
    <2>3. control[w][1] \in [msg : StageNames, direct : BOOLEAN]
          /\ control[w][i+1] \in [msg : StageNames, direct : BOOLEAN]
      BY <1>2, <1>6, <2>1, ItemOf
    <2>4. control[w][1].direct \in BOOLEAN /\ control[w][i+1].direct \in BOOLEAN
      BY <2>3
    <2>5. control[w][1].direct # control[w][i+1].direct
      BY <1>5, <1>6, <2>1
    <2>6. control[w][i+1].direct <=> ~control[w][1].direct
      BY <2>4, <2>5, Zenon
    <2> QED  BY <2>1, <2>2, <2>6
  <1> QED  BY <1>3, <1>4, <1>6, <1>7

-----------------------------------------------------------------------------
(* The protocol, step by step.                                             *)

\* A source whose count is taken back goes on.
LEMMA SourceReturnsProtocol ==
    ASSUME Types, Protocol, NEW l \in Lines, SourceReturns(l)
    PROVE  Protocol'
  <1>1. Source(l) \in Sources /\ Source(l) \in Threads
    BY ThreadsAre
  <1>2. /\ tpc[Source(l)] = "returning" /\ tpc' = [tpc EXCEPT ![Source(l)] = "returned"]
        /\ UNCHANGED <<phase, holder, todo, step, sending, call, waiting, control, owing,
                       registered, dropped>>
    BY DEF SourceReturns, GoTo, playback, slot, lock, callers, requests, queues
  <1> QED  BY <1>1, <1>2, GoneKeeps DEF Left, Quit

\* What is still asked of it goes with its receiver.
LEMMA DropsReceiverProtocol ==
    ASSUME Types, Protocol, NEW l \in Lines, DropsReceiver(l)
    PROVE  Protocol'
  <1>1. Source(l) \in Sources /\ Source(l) \in Threads
    BY ThreadsAre
  <1>2. /\ tpc[Source(l)] = "returned" /\ tpc' = [tpc EXCEPT ![Source(l)] = "dropping"]
        /\ control' = [control EXCEPT ![Source(l)] = <<>>]
        /\ waiting' = waiting \ {Source(l)}
        /\ UNCHANGED <<phase, holder, todo, step, sending, call, owing, registered, dropped>>
    BY DEF DropsReceiver, GoTo, playback, slot, lock, callers, requests, queues
  <1> QED  BY <1>1, <1>2, GoneKeeps DEF Left, Quit

\* Then it drops its queue.
LEMMA SourceDropsProtocol ==
    ASSUME Types, Protocol, NEW l \in Lines, SourceDrops(l)
    PROVE  Protocol'
  <1>1. Source(l) \in Sources /\ Source(l) \in Threads /\ ~IsLast(Source(l))
    BY ThreadsAre, Neighbours
  <1>2. /\ tpc[Source(l)] = "dropping" /\ DropsQueue(Source(l))
        /\ tpc' = [tpc EXCEPT ![Source(l)] = "joining"]
        /\ UNCHANGED <<phase, holder, todo, step, sending, call, waiting, control, owing>>
    BY DEF SourceDrops, DropsQueue, GoTo, playback, slot, lock, callers, requests, queues
  <1> QED  BY <1>1, <1>2, GoneKeeps DEF Left, Quit

\* And is done once its worker is.
LEMMA SourceJoinsProtocol ==
    ASSUME Types, Protocol, NEW l \in Lines, SourceJoins(l)
    PROVE  Protocol'
  <1>1. Source(l) \in Sources /\ Source(l) \in Threads
    BY ThreadsAre
  <1>2. /\ tpc[Source(l)] = "joining" /\ tpc' = [tpc EXCEPT ![Source(l)] = "done"]
        /\ tpc[After(Source(l))] = "done"
        /\ UNCHANGED <<phase, holder, todo, step, sending, call, waiting, control, owing,
                       registered, dropped>>
    BY DEF SourceJoins, GoTo, Gone, playback, slot, lock, callers, requests, queues
  <1> QED  BY <1>1, <1>2, GoneKeeps DEF Left, Quit

\* A worker whose loop is over drops what it feeds.
LEMMA WorkerDropsProtocol ==
    ASSUME Types, Protocol, NEW w \in Workers, WorkerDrops(w)
    PROVE  Protocol'
  <1>1. w \notin Sources /\ w \in Threads
    BY ThreadsAre
  <1>2. /\ tpc[w] = "ending" /\ DropsQueue(w) /\ ~IsLast(w)
        /\ tpc' = [tpc EXCEPT ![w] = "joining"]
        /\ UNCHANGED <<phase, holder, todo, step, sending, call, waiting, control, owing>>
    BY DEF WorkerDrops, DropsQueue, GoTo, playback, slot, lock, callers, requests, queues
  <1> QED  BY <1>1, <1>2, GoneKeeps DEF Over, Quit

\* And is done once that is, or at once.
LEMMA WorkerDoneProtocol ==
    ASSUME Types, Protocol, NEW w \in Workers, WorkerDone(w)
    PROVE  Protocol'
  <1>1. w \notin Sources /\ w \in Threads
    BY ThreadsAre
  <1>2. /\ \/ tpc[w] = "ending" /\ IsLast(w)
           \/ tpc[w] = "joining" /\ tpc[After(w)] = "done"
        /\ tpc' = [tpc EXCEPT ![w] = "done"]
        /\ control' = [control EXCEPT ![w] = <<>>]
        /\ waiting' = waiting \ {w} /\ owing' = owing \ {w}
        /\ UNCHANGED <<phase, holder, todo, step, sending, call, registered, dropped>>
    BY DEF WorkerDone, GoTo, Gone, playback, slot, lock, callers
  <1> QED  BY <1>1, <1>2, GoneKeeps DEF Over, Quit

\* What a source does on its own, where it can be sought.
LEMMA SourceWorksProtocol ==
    ASSUME Types, Protocol, Seekable, NEW l \in Lines,
           SourceBegins(l) \/ SourceProduces(l) \/ SourceHandsOn(l) \/ SourceEnds(l)
    PROVE  Protocol'
  <1>1. Source(l) \in Sources /\ Source(l) \in Threads
    BY ThreadsAre
  <1>2. UNCHANGED <<phase, holder, todo, step, sending, call, waiting, control, owing,
                    registered, dropped>>
    BY DEF SourceBegins, SourceProduces, SourceHandsOn, SourceEnds, playback, slot, lock,
           callers, requests, queues
  <1>3. \E p \in {"ask", "push", "ending", "linger"} : tpc' = [tpc EXCEPT ![Source(l)] = p]
    BY DEF SourceBegins, SourceProduces, SourceHandsOn, SourceEnds, GoTo
  <1>4. tpc[Source(l)] \in {"begin", "ask", "push", "ending"}
    BY DEF SourceBegins, SourceProduces, SourceHandsOn, SourceEnds
  <1> QED  BY <1>1, <1>2, <1>3, <1>4, WorksOnKeeps DEF Works, Left

\* And what a worker does.
LEMMA WorkerWorksProtocol ==
    ASSUME Types, Protocol, NEW w \in Workers,
           WorkerLooks(w) \/ WorkerLooksAgain(w) \/ WorkerForwards(w) \/ WorkerHandsOn(w)
    PROVE  Protocol'
  <1>1. w \notin Sources /\ w \in Threads
    BY ThreadsAre
  <1>2. UNCHANGED <<phase, holder, todo, step, sending, call, waiting, control, owing,
                    registered, dropped>>
    BY DEF WorkerLooks, WorkerLooksAgain, WorkerForwards, WorkerHandsOn, playback, slot, lock,
           callers, requests, queues
  <1>3. \E p \in {"look", "select", "push"} : tpc' = [tpc EXCEPT ![w] = p]
    BY DEF WorkerLooks, WorkerLooksAgain, WorkerForwards, WorkerHandsOn, GoTo
  <1>4. tpc[w] \in {"look", "select", "push"}
    BY DEF WorkerLooks, WorkerLooksAgain, WorkerForwards, WorkerHandsOn
  <1> QED  BY <1>1, <1>2, <1>3, <1>4, WorksOnKeeps DEF Works, Over

\* A Finish that is out is a finish's.
LEMMA FinishingIs ==
    ASSUME Types, Out("Finish")
    PROVE  Finishing /\ ~Out("Pause") /\ ~Out("Stop")
  <1>1. todo # <<>> /\ todo[1] = "Finish"
    BY DEF Out
  <1>2. todo \in ToFinish
    BY <1>1, UnderWay DEF Types, StageLeaves
  <1> QED  BY <1>1, <1>2 DEF Types, Plan, Finishing, Out

\* A source that takes what is asked of it is acknowledged.
LEMMA SourceTakesProtocol ==
    ASSUME Types, Protocol, NEW l \in Lines, SourceTakes(l)
    PROVE  Protocol'
  <1> DEFINE s == Source(l)
             msg == Head(control[s]).msg
  <1>1. s \in Sources /\ s \in Threads /\ s \notin Workers
    BY ThreadsAre
  <1>2. /\ tpc[s] \in {"ask", "ending", "linger", "paused"}
        /\ control[s] # <<>>
        /\ control' = [control EXCEPT ![s] = Tail(@)] /\ waiting' = waiting \ {s}
        /\ SourceNext(l, msg)
        /\ UNCHANGED <<phase, holder, todo, step, sending, call, owing, registered, dropped>>
    BY DEF SourceTakes, playback, slot, lock, callers
  <1>3. Out(msg) /\ Tail(control[s]) = <<>>
    BY <1>1, <1>2, SourceAsked
  <1>4. PICK p \in {"ask", "ending", "linger", "paused", "returning"} :
            /\ tpc' = [tpc EXCEPT ![s] = p]
            /\ p = "returning" <=> msg = "Stop"
            /\ p = "paused" <=> msg # "Stop" /\ IF tpc[s] = "paused" THEN Holds ELSE msg = "Pause"
    BY <1>2, SourceNextIs
  <1> HIDE DEF s, msg
  <1>5. tpc'[s] = p /\ \A u \in Threads : u # s => tpc'[u] = tpc[u]
    BY <1>1, <1>4 DEF Types, ThreadTypes
  <1>6. control'[s] = <<>> /\ \A u \in Threads : u # s => control'[u] = control[u]
    BY <1>1, <1>2, <1>3 DEF Types, RequestTypes
  <1>7. \A m : Out(m)' <=> Out(m)
    BY <1>2 DEF Out
  <1>8. ControlIs'
    BY <1>2, <1>5, <1>6, <1>7, ControlStays DEF Protocol
  <1>9. Carrying'
    BY <1>1, <1>2, <1>5, ThreadsAre, CarryingStays DEF Protocol
  <1>10. Registered'
    BY <1>2, <1>5, RegisteredStays DEF Protocol, Quit
  <1>11. FinishIs'
    BY <1>2, <1>5, <1>6, <1>7, ThreadsAre, FinishStays DEF Protocol
  <1>12. Follows'
    <2>1. \A t \in Threads : IsOver(t)' /\ ~IsLast(t) => IsOver(t) \/ Out("Stop")
      BY <1>1, <1>3, <1>4, <1>5 DEF IsOver, Left
    <2>2. \A w \in Workers : /\ tpc[w] \in Over => tpc'[w] \in Over
                             /\ w \in sending \cup waiting => w \in sending' \cup waiting'
      BY <1>1, <1>2, <1>5, ThreadsAre
    <2> QED  BY <1>2, <1>7, <2>1, <2>2, FollowsStays DEF Protocol, Finishing
  <1>13. PauseReaches'
    <2>1. Out("Pause") => msg = "Pause" /\ phase = "paused"
      BY <1>3 DEF Types, Plan, Out
    <2>2. Out("Pause") => p = "paused"
      BY <1>4, <2>1 DEF Holds
    <2> QED  BY <1>1, <1>2, <1>5, <1>7, <2>2, ThreadsAre, ReachesStays DEF Protocol
  <1>14. StandsStill'
    BY <1>2, <1>3 DEF StandsStill, Out
  <1> QED  BY <1>8, <1>9, <1>10, <1>11, <1>12, <1>13, <1>14 DEF Protocol

\* A Finish is taken by a source that hands its end over first, or has.
LEMMA SourceFinishesProtocol ==
    ASSUME Types, Protocol, NEW l \in Lines, SourceFinishes(l)
    PROVE  Protocol'
  <1> DEFINE s == Source(l)
  <1>1. s \in Sources /\ s \in Threads /\ s \notin Workers
    BY ThreadsAre
  <1>2. /\ tpc[s] \in {"ask", "ending", "linger", "paused"}
        /\ control[s] # <<>> /\ Head(control[s]).msg = "Finish"
        /\ control' = [control EXCEPT ![s] = Tail(@)]
        /\ UNCHANGED <<phase, holder, todo, step, sending, call, owing, registered, dropped>>
    BY DEF SourceFinishes, playback, slot, lock, callers, queues
  <1>3. Out("Finish") /\ s \in waiting /\ Tail(control[s]) = <<>>
    BY <1>1, <1>2, SourceAsked
  <1>4. PICK p \in {"returning", "finishing"} :
            /\ tpc' = [tpc EXCEPT ![s] = p]
            /\ waiting' = IF p = "returning" THEN waiting \ {s} ELSE waiting
    BY DEF SourceFinishes, GoTo
  <1> HIDE DEF s
  <1>5. tpc'[s] = p /\ \A u \in Threads : u # s => tpc'[u] = tpc[u]
    BY <1>1, <1>4 DEF Types, ThreadTypes
  <1>6. control'[s] = <<>> /\ \A u \in Threads : u # s => control'[u] = control[u]
    BY <1>1, <1>2, <1>3 DEF Types, RequestTypes
  <1>7. \A m : Out(m)' <=> Out(m)
    BY <1>2 DEF Out
  <1>8. Finishing /\ ~Out("Pause") /\ ~Out("Stop")
    BY <1>3, FinishingIs
  <1>9. ControlIs'
    BY <1>2, <1>4, <1>5, <1>6, <1>7, ControlStays DEF Protocol
  <1>10. Carrying'
    BY <1>1, <1>2, <1>5, ThreadsAre, CarryingStays DEF Protocol
  <1>11. Registered'
    BY <1>2, <1>5, RegisteredStays DEF Protocol, Quit
  <1>12. FinishIs'
    <2> SUFFICES ASSUME NEW u \in Sources, tpc'[u] = "finishing"
                 PROVE  Out("Finish")' /\ u \in waiting' /\ control'[u] = <<>>
      BY DEF FinishIs
    <2>1. u \in Threads
      BY ThreadsAre
    <2>2. CASE u = s
      BY <1>3, <1>4, <1>5, <1>6, <1>7, <2>2
    <2>3. CASE u # s
      BY <1>4, <1>5, <1>6, <1>7, <2>1, <2>3 DEF Protocol, FinishIs
    <2> QED  BY <2>2, <2>3
  <1>13. Follows'
    <2>1. \A w \in Workers : /\ tpc[w] \in Over => tpc'[w] \in Over
                             /\ w \in sending \cup waiting => w \in sending' \cup waiting'
      BY <1>1, <1>2, <1>4, <1>5, ThreadsAre
    <2> QED  BY <1>2, <1>7, <1>8, <2>1, FollowsStays DEF Protocol, Finishing
  <1>14. PauseReaches'
    BY <1>7, <1>8 DEF PauseReaches
  <1>15. StandsStill'
    BY <1>2, <1>3 DEF StandsStill, Out
  <1> QED  BY <1>9, <1>10, <1>11, <1>12, <1>13, <1>14, <1>15 DEF Protocol

\* And is acknowledged once the end is handed over.
LEMMA SourceFinishedProtocol ==
    ASSUME Types, Protocol, NEW l \in Lines, SourceFinished(l)
    PROVE  Protocol'
  <1> DEFINE s == Source(l)
  <1>1. s \in Sources /\ s \in Threads /\ s \notin Workers
    BY ThreadsAre
  <1>2. /\ tpc[s] = "finishing" /\ tpc' = [tpc EXCEPT ![s] = "returning"]
        /\ waiting' = waiting \ {s}
        /\ UNCHANGED <<phase, holder, todo, step, sending, call, control, owing, registered,
                       dropped>>
    BY DEF SourceFinished, GoTo, playback, slot, lock, callers
  <1> HIDE DEF s
  <1>3. Out("Finish") /\ control[s] = <<>>
    BY <1>1, <1>2 DEF Protocol, FinishIs
  <1>4. tpc'[s] = "returning" /\ \A u \in Threads : u # s => tpc'[u] = tpc[u]
    BY <1>1, <1>2 DEF Types, ThreadTypes
  <1>5. \A m : Out(m)' <=> Out(m)
    BY <1>2 DEF Out
  <1>6. Finishing /\ ~Out("Pause") /\ ~Out("Stop")
    BY <1>3, FinishingIs
  <1>7. ControlIs'
    BY <1>2, <1>3, <1>4, <1>5, ControlStays DEF Protocol
  <1>8. Carrying'
    BY <1>1, <1>2, <1>4, ThreadsAre, CarryingStays DEF Protocol
  <1>9. Registered'
    BY <1>2, <1>4, RegisteredStays DEF Protocol, Quit
  <1>10. FinishIs'
    BY <1>2, <1>4, <1>5, ThreadsAre, FinishStays DEF Protocol
  <1>11. Follows'
    <2>1. \A w \in Workers : /\ tpc[w] \in Over => tpc'[w] \in Over
                             /\ w \in sending \cup waiting => w \in sending' \cup waiting'
      BY <1>1, <1>2, <1>4, ThreadsAre
    <2> QED  BY <1>2, <1>5, <1>6, <2>1, FollowsStays DEF Protocol, Finishing
  <1>12. PauseReaches'
    BY <1>5, <1>6 DEF PauseReaches
  <1>13. StandsStill'
    BY <1>2, <1>3 DEF StandsStill, Out
  <1> QED  BY <1>7, <1>8, <1>9, <1>10, <1>11, <1>12, <1>13 DEF Protocol

\* Behind a thread that carries no Stop none is on its way.
LEMMA NotCarrying ==
    ASSUME Types, Protocol, NEW t \in Threads, tpc[t] # "carrying"
    PROVE  /\ ~IsLast(t) => After(t) \notin owing /\ tpc[After(t)] # "carrying"
           /\ \A u \in Workers : u[1] = t[1] /\ u[2] > t[2] => u \notin owing
  <1>1. ASSUME NEW u \in Workers, u[1] = t[1], u[2] > t[2], u \in owing
        PROVE  FALSE
    <2>1. t \in Workers => u[1] = t[1] /\ t[2] < u[2] /\ t[2] \in 1..Depth
      BY <1>1, ThreadsAre
    <2>2. t \in Workers => tpc[t] = "carrying"
      <3>1. u[2] \in 1..Depth /\ Depth \in Nat
        BY ThreadsAre
      <3>2. t \in Workers => t[1] = u[1] /\ t[2] < u[2]
        BY <1>1, <2>1, <3>1
      <3> QED  BY <1>1, <3>2 DEF Protocol, Carrying
    <2>3. t \in Sources => tpc[t] = "carrying"
      BY <1>1, ThreadsAre DEF Protocol, Carrying
    <2> QED  BY <2>2, <2>3, ThreadsAre
  <1>2. ASSUME ~IsLast(t)
        PROVE  After(t) \notin owing /\ tpc[After(t)] # "carrying"
    <2>1. After(t) \in Workers /\ After(t)[1] = t[1] /\ After(t)[2] = t[2] + 1
      BY <1>2, Neighbours
    <2>2. After(t)[2] > t[2]
      BY <2>1, ThreadsAre
    <2>3. After(t) \notin owing
      BY <1>1, <2>1, <2>2
    <2> QED  BY <2>1, <2>3 DEF Protocol, Carrying
  <1> QED  BY <1>1, <1>2

\* A Stop said, or carried on, is in one more control.
LEMMA CarriedOn ==
    ASSUME Types, Protocol, NEW t \in Threads, NEW c,
           ~IsLast(t), tpc[t] # "carrying",
           control' = [control EXCEPT ![t] = c, ![After(t)] = Append(@, Carried("Stop"))],
           \A i \in 1 .. Len(c) : c[i].direct,
           \A i \in 1 .. Len(c) : \E j \in 1 .. Len(control[t]) : c[i] = control[t][j],
           \A i, j \in 1 .. Len(c) : c[i].direct = c[j].direct => i = j,
           tpc' = [tpc EXCEPT ![t] = "carrying"],
           owing' = owing \cup {After(t)},
           UNCHANGED <<todo, step, waiting>>
    PROVE  ControlIs'
  <1>1. After(t) \in Workers /\ After(t) \in Threads /\ After(t) # t
    BY Neighbours, ThreadsAre
  <1>2. tpc'[t] = "carrying" /\ \A u \in Threads : u # t => tpc'[u] = tpc[u]
    BY DEF Types, ThreadTypes
  <1>3. /\ control'[t] = c
        /\ control'[After(t)] = Append(control[After(t)], Carried("Stop"))
        /\ \A u \in Threads : u # t /\ u # After(t) => control'[u] = control[u]
    BY <1>1 DEF Types, RequestTypes
  <1>4. After(t) \notin owing /\ tpc[After(t)] # "carrying"
    BY NotCarrying
  <1>5. \A m : Out(m)' <=> Out(m)
    BY DEF Out
  <1>6. ASSUME NEW u \in Threads
        PROVE  /\ \A i \in 1 .. Len(control'[u]) :
                      IF control'[u][i].direct
                      THEN Out(control[u][i].msg)' /\ u \in waiting'
                      ELSE control'[u][i].msg = "Stop" /\ u \in owing'
               /\ \A i, j \in 1 .. Len(control'[u]) :
                      control'[u][i].direct = control'[u][j].direct => i = j
               /\ tpc'[u] = "carrying" =>
                      \A i \in 1 .. Len(control'[u]) : control'[u][i].direct
    <2>1. CASE u = t
      <3>1. \A i \in 1 .. Len(c) : Out(c[i].msg) /\ t \in waiting
        BY DEF Protocol, ControlIs
      <3>2. control'[u] = c
        BY <1>3, <2>1
      <3>3. ASSUME NEW i \in 1 .. Len(control'[u])
            PROVE  /\ control'[u][i].direct
                   /\ Out(control[u][i].msg)' /\ u \in waiting'
        <4>1. PICK m : m = control'[u][i].msg
          OBVIOUS
        <4>2. Out(m)
          BY <3>1, <3>2, <4>1
        <4> QED  BY <2>1, <3>1, <3>2, <4>1, <4>2 DEF Out
      <3>4. \A i, j \in 1 .. Len(control'[u]) :
                control'[u][i].direct = control'[u][j].direct => i = j
        BY <3>2
      <3> QED  BY <3>3, <3>4
    <2>2. CASE u = After(t)
      <3> DEFINE q == control[After(t)]
                 S == [msg : StageNames, direct : BOOLEAN]
      <3>1. q \in Seq(S)
        BY <1>1 DEF Types, RequestTypes
      <3>2. PICK x \in S : x = Carried("Stop") /\ ~x.direct /\ x.msg = "Stop"
        <4>1. Carried("Stop") \in S
          BY DEF Carried, StageNames
        <4> QED  BY <4>1 DEF Carried
      <3>3. ASSUME NEW i \in 1 .. Len(q)
            PROVE  q[i].direct /\ Out(q[i].msg) /\ u \in waiting
        BY <1>1, <1>4, <2>2 DEF Protocol, ControlIs
      <3>4. \A i, j \in 1 .. Len(q) : q[i].direct = q[j].direct => i = j
        BY <1>1 DEF Protocol, ControlIs
      <3> HIDE DEF q, S
      <3>5. \A i \in 1 .. Len(Append(q, x)) :
                \/ i \in 1 .. Len(q) /\ Append(q, x)[i] = q[i]
                \/ i = Len(q) + 1 /\ Append(q, x)[i] = x
        BY <3>1, AppendOf
      <3>6. \A i \in 1 .. Len(control'[u]) :
                \/ i \in 1 .. Len(q) /\ control'[u][i] = q[i]
                \/ i = Len(q) + 1 /\ control'[u][i] = x
        <4>1. control'[u] = Append(q, x)
          BY <1>3, <2>2, <3>2 DEF q
        <4> QED  BY <3>5, <4>1
      <3>7. ASSUME NEW i \in 1 .. Len(control'[u])
            PROVE  IF control'[u][i].direct
                   THEN Out(control[u][i].msg)' /\ u \in waiting'
                   ELSE control'[u][i].msg = "Stop" /\ u \in owing'
        <4>1. CASE i \in 1 .. Len(q) /\ control'[u][i] = q[i]
          <5>1. PICK m : m = q[i].msg
            OBVIOUS
          <5>2. q[i].direct /\ Out(m) /\ u \in waiting
            BY <3>3, <4>1, <5>1
          <5> QED  BY <4>1, <5>1, <5>2 DEF Out
        <4>2. CASE control'[u][i] = x
          BY <2>2, <3>2, <4>2
        <4> QED  BY <3>6, <4>1, <4>2
      <3>8. ASSUME NEW i \in 1 .. Len(control'[u]), NEW j \in 1 .. Len(control'[u]),
                   control'[u][i].direct = control'[u][j].direct
            PROVE  i = j
        <4>1. CASE i \in 1 .. Len(q) /\ control'[u][i] = q[i]
                   /\ j \in 1 .. Len(q) /\ control'[u][j] = q[j]
          BY <3>4, <3>8, <4>1
        <4>2. CASE i = Len(q) + 1 /\ j = Len(q) + 1
          BY <4>2
        <4>3. CASE i \in 1 .. Len(q) /\ control'[u][i] = q[i] /\ control'[u][j] = x
          BY <3>2, <3>3, <3>8, <4>3
        <4>4. CASE control'[u][i] = x /\ j \in 1 .. Len(q) /\ control'[u][j] = q[j]
          BY <3>2, <3>3, <3>8, <4>4
        <4> QED  BY <3>6, <4>1, <4>2, <4>3, <4>4
      <3>9. tpc'[u] # "carrying"
        BY <1>1, <1>2, <1>4, <2>2
      <3> QED  BY <3>7, <3>8, <3>9
    <2>3. CASE u # t /\ u # After(t)
      <3>1. control'[u] = control[u] /\ tpc'[u] = tpc[u]
        BY <1>2, <1>3, <2>3
      <3>2. ASSUME NEW i \in 1 .. Len(control'[u])
            PROVE  IF control'[u][i].direct
                   THEN Out(control[u][i].msg)' /\ u \in waiting'
                   ELSE control'[u][i].msg = "Stop" /\ u \in owing'
        <4>1. PICK m : m = control[u][i].msg
          OBVIOUS
        <4>2. IF control[u][i].direct THEN Out(m) /\ u \in waiting
              ELSE m = "Stop" /\ u \in owing
          BY <3>1, <4>1 DEF Protocol, ControlIs
        <4> QED  BY <3>1, <4>1, <4>2 DEF Out
      <3>3. ASSUME NEW i \in 1 .. Len(control'[u]), NEW j \in 1 .. Len(control'[u]),
                   control'[u][i].direct = control'[u][j].direct
            PROVE  i = j
        <4>1. \A m, n \in 1 .. Len(control[u]) :
                  control[u][m].direct = control[u][n].direct => m = n
          BY DEF Protocol, ControlIs
        <4>2. i \in 1 .. Len(control[u]) /\ j \in 1 .. Len(control[u])
          BY <3>1
        <4>3. control[u][i].direct = control[u][j].direct
          BY <3>1, <3>3, Zenon
        <4> QED  BY <4>1, <4>2, <4>3
      <3>4. ASSUME tpc'[u] = "carrying", NEW i \in 1 .. Len(control'[u])
            PROVE  control'[u][i].direct
        BY <3>1, <3>4 DEF Protocol, ControlIs
      <3> QED  BY <3>2, <3>3, <3>4
    <2> QED  BY <2>1, <2>2, <2>3
  <1> QED  BY <1>6 DEF ControlIs

\* A thread that says a Stop, or carries it on, carries it until what it feeds
\* has handled it.
LEMMA CarriesProtocol ==
    ASSUME Types, Protocol, NEW t \in Threads, ~IsLast(t), tpc[t] # "carrying",
           ~IsOver(t), tpc[t] \notin Quit, tpc[t] # "finishing",
           t \in Workers => t \in owing,
           tpc' = [tpc EXCEPT ![t] = "carrying"],
           ControlIs', \A u \in Threads : u # t /\ u # After(t) => control'[u] = control[u],
           \/ owing' = owing \cup {After(t)}
           \/ owing' = owing /\ tpc[After(t)] = "done",
           phase = "paused" => todo # <<>>,
           t \in Sources /\ Out("Pause") => t \in sending \cup waiting,
           UNCHANGED <<phase, holder, todo, step, sending, call, waiting, registered, dropped>>
    PROVE  Protocol'
  <1>1. tpc'[t] = "carrying" /\ \A u \in Threads : u # t => tpc'[u] = tpc[u]
    BY DEF Types, ThreadTypes
  <1>2. After(t) \in Workers /\ After(t) \in Threads /\ After(t)[1] = t[1]
        /\ After(t)[2] = t[2] + 1 /\ t[1] \in Lines
    BY Neighbours, ThreadsAre
  <1>3. \A m : Out(m)' <=> Out(m)
    BY DEF Out
  <1>4. t \in Workers => tpc[t] \notin Over
    BY ThreadsAre DEF IsOver
  <1>5. Carrying'
    <2>1. ASSUME NEW w \in owing'
          PROVE  /\ tpc'[Source(w[1])] = "carrying"
                 /\ \A u \in Workers : u[1] = w[1] /\ u[2] < w[2] =>
                        u \in owing' /\ tpc'[u] = "carrying"
      <3>1. w \in Workers /\ Source(w[1]) \in Threads
        BY <1>2, ThreadsAre DEF Types, RequestTypes
      <3>2. CASE w \in owing
        BY <1>1, <3>1, <3>2, ThreadsAre DEF Protocol, Carrying
      <3>3. CASE w = After(t)
        <4>1. tpc'[Source(w[1])] = "carrying"
          BY <1>1, <1>2, <3>1, <3>3, ThreadsAre DEF Protocol, Carrying
        <4>2. ASSUME NEW u \in Workers, u[1] = w[1], u[2] < w[2]
              PROVE  u \in owing' /\ tpc'[u] = "carrying"
          <5>1. u[2] \in 1..Depth /\ t[2] \in 0..Depth /\ Depth \in Nat
            BY ThreadsAre
          <5>2. u[2] < t[2] + 1
            BY <1>2, <3>3, <4>2
          <5>3. u[2] = t[2] \/ u[2] < t[2]
            BY <5>1, <5>2
          <5>4. t \in Workers
            BY <5>1, <5>3, ThreadsAre
          <5>5. CASE u[2] = t[2]
            <6>1. u = t
              BY <1>2, <3>3, <4>2, <5>4, <5>5, Neighbours
            <6> QED  BY <1>1, <5>4, <6>1
          <5>6. CASE u[2] < t[2]
            BY <1>1, <1>2, <3>3, <4>2, <5>4, <5>6, ThreadsAre DEF Protocol, Carrying
          <5> QED  BY <5>3, <5>5, <5>6
        <4> QED  BY <4>1, <4>2
      <3> QED  BY <3>2, <3>3
    <2>2. \A w \in Workers : tpc'[w] = "carrying" => w \in owing' /\ ~IsLast(w)
      BY <1>1, ThreadsAre DEF Protocol, Carrying
    <2>3. ASSUME NEW u \in Threads, tpc'[u] = "carrying"
          PROVE  After(u) \in owing' \/ tpc'[After(u)] \in Over
      <3>1. CASE u = t
        BY <1>1, <1>2, <3>1, Neighbours DEF Over
      <3>2. CASE u # t
        <4>1. tpc[u] = "carrying" /\ ~IsLast(u)
          BY <1>1, <2>3, <3>2, ThreadsAre, Neighbours DEF Protocol, Carrying
        <4>2. After(u) \in Workers /\ After(u) \in Threads
          BY <4>1, Neighbours, ThreadsAre
        <4>3. After(u) \in owing \/ tpc[After(u)] \in Over
          BY <4>1 DEF Protocol, Carrying
        <4>4. tpc[After(u)] \in Over => tpc'[After(u)] \in Over
          BY <1>1, <1>4, <4>2
        <4> QED  BY <4>3, <4>4
      <3> QED  BY <3>1, <3>2
    <2> QED  BY <2>1, <2>2, <2>3 DEF Carrying
  <1>6. Registered'
    BY <1>1, RegisteredStays DEF Protocol, Quit
  <1>7. FinishIs'
    <2>1. \A s \in Sources : tpc'[s] = "finishing" =>
              tpc[s] = "finishing" /\ control'[s] = control[s]
      BY <1>1, <1>2, ThreadsAre
    <2> QED  BY <1>3, <2>1, FinishStays DEF Protocol
  <1>8. Follows'
    <2>1. \A u \in Threads : IsOver(u)' => IsOver(u)
      BY <1>1 DEF IsOver, Left, Over
    <2>2. \A w \in Workers : tpc[w] \in Over => tpc'[w] \in Over
      BY <1>1, <1>4, ThreadsAre
    <2> QED  BY <1>3, <2>1, <2>2, FollowsStays DEF Protocol, Finishing
  <1>9. PauseReaches'
    <2>1. \A w \in Workers :
              tpc[w] \in Over \cup {"paused", "carrying"} =>
                     tpc'[w] \in Over \cup {"paused", "carrying"}
      BY <1>1, ThreadsAre
    <2>2. \A s \in Sources : s # t => tpc'[s] = tpc[s]
      BY <1>1, ThreadsAre
    <2> QED  BY <1>3, <2>1, <2>2 DEF Protocol, PauseReaches
  <1>10. StandsStill'
    BY DEF StandsStill
  <1> QED  BY <1>5, <1>6, <1>7, <1>8, <1>9, <1>10 DEF Protocol

\* A source that fails.
LEMMA SourceFailsProtocol ==
    ASSUME Types, Protocol, NEW l \in Lines, SourceFails(l)
    PROVE  Protocol'
  <1> DEFINE s == Source(l)
  <1>1. s \in Sources /\ s \in Threads /\ s \notin Workers /\ ~IsLast(s)
    BY ThreadsAre, Neighbours
  <1>2. /\ tpc[s] = "ask" /\ control[s] = <<>> /\ tpc' = [tpc EXCEPT ![s] = "carrying"]
        /\ UNCHANGED <<phase, holder, todo, step, sending, call, waiting, registered, dropped>>
        /\ IF tpc[After(s)] = "done" THEN UNCHANGED <<control, owing>>
           ELSE /\ control' = [control EXCEPT ![After(s)] = Append(@, Carried("Stop"))]
                /\ owing' = owing \cup {After(s)}
    BY DEF SourceFails, Gone, GoTo, playback, slot, lock, callers, queues
  <1> HIDE DEF s
  <1>3. ControlIs'
    <2>1. CASE tpc[After(s)] = "done"
      <3>1. \A u \in Threads : tpc'[u] = "carrying" => u = s \/ tpc[u] = "carrying"
        BY <1>1, <1>2 DEF Types, ThreadTypes
      <3>2. \A m : Out(m)' <=> Out(m)
        BY <1>2 DEF Out
      <3> QED  BY <1>2, <2>1, <3>1, <3>2, ControlStays DEF Protocol
    <2>2. CASE tpc[After(s)] # "done"
      <3>1. PICK c : c = <<>>
        OBVIOUS
      <3>2. control' = [control EXCEPT ![s] = c, ![After(s)] = Append(@, Carried("Stop"))]
        <4>1. [control EXCEPT ![s] = c] = control
          BY <1>1, <1>2, <3>1 DEF Types, RequestTypes
        <4> QED  BY <1>2, <2>2, <4>1
      <3>3. Len(c) = 0
        BY <3>1
      <3>4. /\ \A i \in 1 .. Len(c) : c[i].direct
            /\ \A i \in 1 .. Len(c) : \E j \in 1 .. Len(control[s]) : c[i] = control[s][j]
            /\ \A i, j \in 1 .. Len(c) : c[i].direct = c[j].direct => i = j
        BY <3>3
      <3>5. tpc[s] # "carrying" /\ owing' = owing \cup {After(s)}
            /\ UNCHANGED <<todo, step, waiting>>
        BY <1>2, <2>2
      <3> QED  BY <1>1, <1>2, <3>2, <3>4, <3>5, CarriedOn
    <2> QED  BY <2>1, <2>2
  <1>4. \A u \in Threads : u # s /\ u # After(s) => control'[u] = control[u]
    BY <1>2 DEF Types, RequestTypes
  <1>5. ~IsOver(s) /\ tpc[s] \notin Quit
    BY <1>1, <1>2 DEF IsOver, Left, Quit
  <1>6. phase = "paused" => todo # <<>>
    BY <1>1, <1>2 DEF Protocol, StandsStill
  <1>7. Out("Pause") => s \in sending \cup waiting
    BY <1>1, <1>2 DEF Protocol, PauseReaches
  <1> QED  BY <1>1, <1>2, <1>3, <1>4, <1>5, <1>6, <1>7, CarriesProtocol

\* A worker that carries a Stop on.
LEMMA WorkerCarriesProtocol ==
    ASSUME Types, Protocol, NEW w \in Workers, WorkerCarries(w)
    PROVE  Protocol'
  <1> DEFINE S == [msg : StageNames, direct : BOOLEAN]
  <1>1. w \in Threads /\ w \notin Sources
    BY ThreadsAre
  <1>2. /\ tpc[w] \in {"look", "select", "paused"} /\ control[w] # <<>>
        /\ GoesFurther(w, Head(control[w]))
        /\ control' = [control EXCEPT ![w] = Tail(@),
                                      ![After(w)] = Append(@, Head(control[w]))]
        /\ owing' = owing \cup {After(w)}
        /\ tpc' = [tpc EXCEPT ![w] = "carrying"]
        /\ UNCHANGED <<phase, holder, todo, step, sending, call, waiting, registered, dropped>>
    BY DEF WorkerCarries, GoTo, playback, slot, lock, callers, queues
  <1>3. PICK asked : asked = Head(control[w]) /\ GoesFurther(w, asked)
    BY <1>2
  <1>4. ~asked.direct /\ ~IsLast(w) /\ After(w) \in Workers
    <2>1. (~asked.direct) /\ ~IsLast(w)
      BY <1>3 DEF GoesFurther
    <2> QED  BY <1>1, <2>1, Neighbours
  <1>5. asked.msg = "Stop" /\ w \in owing /\ asked \in S
    BY <1>2, <1>3, <1>4, WorkerAsked
  <1>6. asked = Carried("Stop")
    <2>1. asked.direct \in BOOLEAN /\ asked = [msg |-> asked.msg, direct |-> asked.direct]
      BY <1>5
    <2>2. asked.direct = FALSE
      BY <1>4, <2>1, Zenon
    <2> QED  BY <1>5, <2>1, <2>2 DEF Carried
  <1>7. PICK c : c = Tail(control[w])
    OBVIOUS
  <1>8. /\ \A i \in 1 .. Len(c) : c[i].direct
        /\ \A i \in 1 .. Len(c) : i+1 \in 1 .. Len(control[w]) /\ c[i] = control[w][i+1]
    BY <1>2, <1>3, <1>4, <1>7, WorkerAsked
  <1>9. \A i, j \in 1 .. Len(c) : c[i].direct = c[j].direct => i = j
    <2> SUFFICES ASSUME NEW i \in 1 .. Len(c), NEW j \in 1 .. Len(c),
                        c[i].direct = c[j].direct
                 PROVE  i = j
      OBVIOUS
    <2>1. PICK m, n \in 1 .. Len(control[w]) : m = i+1 /\ n = j+1
      BY <1>8
    <2>2. c[i] = control[w][m] /\ c[j] = control[w][n]
      BY <1>8, <2>1
    <2>3. m = n
      BY <1>1, <2>2 DEF Protocol, ControlIs
    <2> QED  BY <2>1, <2>3
  <1>10. control' = [control EXCEPT ![w] = c, ![After(w)] = Append(@, Carried("Stop"))]
    BY <1>2, <1>3, <1>6, <1>7
  <1>11. ControlIs'
    <2>1. \A i \in 1 .. Len(c) : \E j \in 1 .. Len(control[w]) : c[i] = control[w][j]
      BY <1>8
    <2> QED  BY <1>1, <1>2, <1>4, <1>8, <1>9, <1>10, <2>1, CarriedOn
  <1>12. \A u \in Threads : u # w /\ u # After(w) => control'[u] = control[u]
    BY <1>10 DEF Types, RequestTypes
  <1>13. ~IsOver(w) /\ tpc[w] \notin Quit
    BY <1>1, <1>2 DEF IsOver, Over, Quit
  <1>14. phase = "paused" => todo # <<>>
    BY <1>2 DEF Protocol, StandsStill, Over
  <1> QED  BY <1>1, <1>2, <1>4, <1>5, <1>11, <1>12, <1>13, <1>14, CarriesProtocol

\* A source's Stop handled, the source goes on.
LEMMA SourceCarriedProtocol ==
    ASSUME Types, Protocol, NEW l \in Lines, SourceCarried(l)
    PROVE  Protocol'
  <1> DEFINE s == Source(l)
  <1>1. s \in Sources /\ s \in Threads /\ s \notin Workers
    BY ThreadsAre
  <1>2. /\ tpc[s] = "carrying" /\ After(s) \notin owing
        /\ tpc' = [tpc EXCEPT ![s] = "returning"]
        /\ UNCHANGED <<phase, holder, todo, step, sending, call, control, owing, waiting,
                       registered, dropped>>
    BY DEF SourceCarried, GoTo, playback, slot, lock, callers, requests, queues
  <1> HIDE DEF s
  <1>3. tpc'[s] = "returning" /\ \A u \in Threads : u # s => tpc'[u] = tpc[u]
    BY <1>1, <1>2 DEF Types, ThreadTypes
  <1>4. \A m : Out(m)' <=> Out(m)
    BY <1>2 DEF Out
  <1>5. ~IsLast(s) /\ After(s) \in Threads /\ tpc'[After(s)] \in Over
    BY <1>1, <1>2, <1>3, Neighbours, ThreadsAre DEF Protocol, Carrying
  <1>6. ControlIs'
    BY <1>2, <1>3, <1>4, ControlStays DEF Protocol
  <1>7. Carrying'
    BY <1>1, <1>2, <1>3, CarryingLess DEF Protocol
  <1>8. Registered'
    BY <1>2, <1>3, RegisteredStays DEF Protocol, Quit
  <1>9. FinishIs'
    BY <1>2, <1>3, <1>4, ThreadsAre, FinishStays DEF Protocol
  <1>10. Follows'
    <2>1. \A t \in Threads : IsOver(t)' => t = s \/ IsOver(t)
      BY <1>3 DEF IsOver
    <2>2. \A w \in Workers : tpc[w] \in Over => tpc'[w] \in Over
      BY <1>1, <1>3, ThreadsAre
    <2> QED  BY <1>2, <1>4, <1>5, <2>1, <2>2, FollowsStays DEF Protocol, Finishing
  <1>11. PauseReaches'
    <2>1. \A w \in Workers : tpc'[w] = tpc[w]
      BY <1>1, <1>3, ThreadsAre
    <2>2. \A u \in Sources : tpc[u] \in {"paused", "dropping", "joining", "done"} =>
              tpc'[u] \in {"paused", "dropping", "joining", "done"}
      BY <1>2, <1>3, ThreadsAre
    <2> QED  BY <1>2, <1>4, <2>1, <2>2, ReachesStays DEF Protocol
  <1>12. StandsStill'
    <2>1. \A w \in Workers : tpc'[w] = tpc[w]
      BY <1>1, <1>3, ThreadsAre
    <2>2. \A u \in Sources : tpc[u] \in {"paused", "dropping", "joining", "done"} =>
              tpc'[u] = tpc[u]
      BY <1>2, <1>3, ThreadsAre
    <2> QED  BY <1>2, <2>1, <2>2, StillStays DEF Protocol
  <1> QED  BY <1>6, <1>7, <1>8, <1>9, <1>10, <1>11, <1>12 DEF Protocol

\* A worker's Stop handled by what it feeds, its loop is over.
LEMMA WorkerCarriedProtocol ==
    ASSUME Types, Protocol, NEW w \in Workers, WorkerCarried(w)
    PROVE  Protocol'
  <1>1. w \in Threads /\ w \notin Sources
    BY ThreadsAre
  <1>2. /\ tpc[w] = "carrying" /\ After(w) \notin owing
        /\ tpc' = [tpc EXCEPT ![w] = "ending"] /\ owing' = owing \ {w}
        /\ UNCHANGED <<phase, holder, todo, step, sending, call, control, waiting,
                       registered, dropped>>
    BY DEF WorkerCarried, GoTo, playback, slot, lock, callers, queues
  <1>3. tpc'[w] = "ending" /\ \A u \in Threads : u # w => tpc'[u] = tpc[u]
    BY <1>1, <1>2 DEF Types, ThreadTypes
  <1>4. \A m : Out(m)' <=> Out(m)
    BY <1>2 DEF Out
  <1>5. ~IsLast(w) /\ After(w) \in Threads /\ tpc'[After(w)] \in Over
    BY <1>1, <1>2, <1>3, Neighbours, ThreadsAre DEF Protocol, Carrying
  <1>6. ControlIs'
    BY <1>2, <1>3, <1>4, ControlStays DEF Protocol
  <1>7. Carrying'
    BY <1>1, <1>2, <1>3, CarryingLess DEF Protocol, Over
  <1>8. Registered'
    BY <1>2, <1>3, RegisteredStays DEF Protocol, Quit
  <1>9. FinishIs'
    BY <1>1, <1>2, <1>3, <1>4, ThreadsAre, FinishStays DEF Protocol
  <1>10. Follows'
    <2>1. \A t \in Threads : IsOver(t)' => t = w \/ IsOver(t)
      BY <1>3 DEF IsOver
    <2>2. \A u \in Workers : tpc[u] \in Over => tpc'[u] \in Over
      BY <1>3, ThreadsAre DEF Over
    <2> QED  BY <1>2, <1>4, <1>5, <2>1, <2>2, FollowsStays DEF Protocol, Finishing
  <1>11. PauseReaches'
    <2>1. \A u \in Workers : tpc[u] \in Over \cup {"paused", "carrying"} =>
              tpc'[u] \in Over \cup {"paused", "carrying"}
      BY <1>3, ThreadsAre DEF Over
    <2>2. \A s \in Sources : tpc'[s] = tpc[s]
      BY <1>1, <1>3, ThreadsAre
    <2> QED  BY <1>2, <1>4, <2>1, <2>2, ReachesStays DEF Protocol
  <1>12. StandsStill'
    <2>1. \A u \in Workers : tpc[u] \in Over \cup {"paused"} => tpc'[u] = tpc[u]
      BY <1>2, <1>3, ThreadsAre DEF Over
    <2>2. \A s \in Sources : tpc'[s] = tpc[s]
      BY <1>1, <1>3, ThreadsAre
    <2> QED  BY <1>2, <2>1, <2>2, StillStays DEF Protocol
  <1> QED  BY <1>6, <1>7, <1>8, <1>9, <1>10, <1>11, <1>12 DEF Protocol

\* A dropped queue's worker hands on what is still asked of it, and ends.
LEMMA DeliverPendingProtocol ==
    ASSUME Types, Protocol, NEW w \in Workers, DeliverPending(w)
    PROVE  Protocol'
  <1>1. w \in Threads /\ w \notin Sources
    BY ThreadsAre
  <1>2. /\ dropped[w] /\ tpc[w] \in {"look", "paused"}
        /\ control' = [control EXCEPT ![w] = <<>>]
        /\ waiting' = waiting \ {w} /\ owing' = owing \ {w}
        /\ tpc' = [tpc EXCEPT ![w] = "ending"]
        /\ UNCHANGED <<phase, holder, todo, step, sending, call, registered, dropped>>
    BY DEF DeliverPending, GivesUp, GoTo, playback, slot, lock, callers, queues
  <1>3. tpc'[w] = "ending" /\ \A u \in Threads : u # w => tpc'[u] = tpc[u]
    BY <1>1, <1>2 DEF Types, ThreadTypes
  <1>4. control'[w] = <<>> /\ \A u \in Threads : u # w => control'[u] = control[u]
    BY <1>1, <1>2 DEF Types, RequestTypes
  <1>5. \A m : Out(m)' <=> Out(m)
    BY <1>2 DEF Out
  <1>6. Finishing \/ Out("Stop")
    <2>1. Before(w) \in Threads /\ ~IsLast(Before(w)) /\ After(Before(w)) = w
      BY Neighbours
    <2>2. tpc[Before(w)] \in Quit
      BY <1>2 DEF Protocol, Registered
    <2>3. IsOver(Before(w))
      BY <2>2 DEF IsOver, Quit, Left, Over
    <2>4. tpc[w] \in Over \/ Finishing \/ Out("Stop")
      BY <2>1, <2>3 DEF Protocol, Follows
    <2> QED  BY <1>2, <2>4 DEF Over
  <1>7. ControlIs'
    BY <1>2, <1>3, <1>4, <1>5, ControlStays DEF Protocol
  <1>8. Carrying'
    BY <1>1, <1>2, <1>3, CarryingLess DEF Protocol, Over
  <1>9. Registered'
    BY <1>2, <1>3, RegisteredStays DEF Protocol, Quit
  <1>10. FinishIs'
    BY <1>1, <1>2, <1>3, <1>4, <1>5, ThreadsAre, FinishStays DEF Protocol
  <1>11. Follows'
    <2>1. \A u \in Workers : /\ tpc[u] \in Over => tpc'[u] \in Over
                             /\ u \in sending \cup waiting =>
                                    u \in sending' \cup waiting' \/ tpc'[u] \in Over
      BY <1>2, <1>3, ThreadsAre DEF Over
    <2>2. Finishing => Finishing'
      BY <1>2 DEF Finishing
    <2> QED  BY <1>5, <1>6, <2>1, <2>2, FollowsStays DEF Protocol
  <1>12. PauseReaches'
    <2>1. \A u \in Workers :
              /\ tpc[u] \in Over \cup {"paused", "carrying"} =>
                     tpc'[u] \in Over \cup {"paused", "carrying"}
              /\ u \in sending \cup waiting =>
                     \/ u \in sending' \cup waiting'
                     \/ tpc'[u] \in Over \cup {"paused", "carrying"}
      BY <1>2, <1>3, ThreadsAre DEF Over
    <2>2. \A s \in Sources : tpc'[s] = tpc[s] /\ s # w
      BY <1>1, <1>3, ThreadsAre
    <2> QED  BY <1>2, <1>5, <2>1, <2>2, ReachesStays DEF Protocol
  <1>13. StandsStill'
    <2>1. \A u \in Workers : u # w => tpc'[u] = tpc[u] /\ control'[u] = control[u]
      BY <1>3, <1>4, ThreadsAre
    <2>2. \A s \in Sources : tpc'[s] = tpc[s] /\ control'[s] = control[s]
      BY <1>1, <1>3, <1>4, ThreadsAre
    <2>3. tpc'[w] \in Over
      BY <1>3 DEF Over
    <2> QED  BY <1>2, <2>1, <2>2, <2>3, StillStays DEF Protocol
  <1> QED  BY <1>7, <1>8, <1>9, <1>10, <1>11, <1>12, <1>13 DEF Protocol

\* A worker that takes what is asked of it acknowledges it.
LEMMA WorkerTakesProtocol ==
    ASSUME Types, Protocol, NEW w \in Workers, WorkerTakes(w)
    PROVE  Protocol'
  <1>1. w \in Threads /\ w \notin Sources
    BY ThreadsAre
  <1>2. /\ tpc[w] \in {"look", "select", "paused"} /\ control[w] # <<>>
        /\ control' = [control EXCEPT ![w] = Tail(@)]
        /\ UNCHANGED <<phase, holder, todo, step, sending, call, registered, dropped>>
    BY DEF WorkerTakes, playback, slot, lock, callers
  <1>3. PICK asked :
            /\ asked = Head(control[w]) /\ ~GoesFurther(w, asked)
            /\ waiting' = IF asked.direct THEN waiting \ {w} ELSE waiting
            /\ owing' = IF asked.direct THEN owing ELSE owing \ {w}
            /\ WorkerNext(w, asked.msg)
    BY DEF WorkerTakes
  <1>4. /\ asked.direct => Out(asked.msg) /\ w \in waiting
        /\ ~asked.direct => asked.msg = "Stop" /\ w \in owing
        /\ asked = control[w][1]
    BY <1>2, <1>3, WorkerAsked
  <1>5. PICK p \in {"ending", "paused", "look"} :
            /\ tpc' = [tpc EXCEPT ![w] = p]
            /\ p = "ending" <=> asked.msg = "Stop"
            /\ phase = "paused" /\ (asked.msg = "Pause" \/ tpc[w] = "paused") =>
                   p \in {"ending", "paused"}
    BY <1>1, <1>2, <1>3 DEF WorkerNext, GoTo, Holds
  <1>6. tpc'[w] = p /\ \A u \in Threads : u # w => tpc'[u] = tpc[u]
    BY <1>1, <1>5 DEF Types, ThreadTypes
  <1>7. control'[w] = Tail(control[w]) /\ \A u \in Threads : u # w => control'[u] = control[u]
    BY <1>1, <1>2 DEF Types, RequestTypes
  <1>8. \A m : Out(m)' <=> Out(m)
    BY <1>2 DEF Out
  <1>9. ControlIs'
    <2>1. PICK c : c = Tail(control[w])
      OBVIOUS
    <2>2. \A i \in 1 .. Len(c) :
              /\ c[i] = control[w][i+1] /\ i+1 \in 1 .. Len(control[w])
              /\ c[i].direct <=> ~asked.direct
      BY <1>2, <1>4, <2>1, WorkerAsked
    <2>3. ASSUME NEW u \in Threads
          PROVE  /\ \A i \in 1 .. Len(control'[u]) :
                        IF control'[u][i].direct
                        THEN Out(control[u][i].msg)' /\ u \in waiting'
                        ELSE control'[u][i].msg = "Stop" /\ u \in owing'
                 /\ \A i, j \in 1 .. Len(control'[u]) :
                        control'[u][i].direct = control'[u][j].direct => i = j
                 /\ tpc'[u] = "carrying" =>
                        \A i \in 1 .. Len(control'[u]) : control'[u][i].direct
      <3>1. CASE u = w
        <4>1. control'[u] = c
          BY <1>7, <2>1, <3>1
        <4>2. ASSUME NEW i \in 1 .. Len(control'[u])
              PROVE  IF control'[u][i].direct
                     THEN Out(control[u][i].msg)' /\ u \in waiting'
                     ELSE control'[u][i].msg = "Stop" /\ u \in owing'
          <5>1. PICK j \in 1 .. Len(control[w]) : j = i+1 /\ c[i] = control[w][j]
            BY <2>2, <4>1
          <5>2. PICK x : x = c[i] /\ x = control'[u][i]
            BY <4>1
          <5>3. PICK m : m = x.msg
            OBVIOUS
          <5>4. x.direct <=> ~asked.direct
            BY <2>2, <4>1, <5>2
          <5>5. IF x.direct THEN Out(m) /\ w \in waiting ELSE m = "Stop" /\ w \in owing
            <6>1. IF control[w][j].direct THEN Out(control[w][j].msg) /\ w \in waiting
                  ELSE control[w][j].msg = "Stop" /\ w \in owing
              BY <1>1 DEF Protocol, ControlIs
            <6>2. x = control[w][j]
              BY <5>1, <5>2
            <6> QED  BY <5>3, <6>1, <6>2
          <5>6. x.direct => waiting' = waiting
            BY <1>3, <5>4
          <5>7. ~x.direct => owing' = owing
            BY <1>3, <5>4
          <5> QED  BY <1>2, <3>1, <5>2, <5>3, <5>5, <5>6, <5>7 DEF Out
        <4>3. ASSUME NEW i \in 1 .. Len(c), NEW j \in 1 .. Len(c), c[i].direct = c[j].direct
              PROVE  i = j
          <5>1. PICK m, n \in 1 .. Len(control[w]) : m = i+1 /\ n = j+1
            BY <2>2
          <5>2. c[i] = control[w][m] /\ c[j] = control[w][n]
            BY <2>2, <5>1
          <5>3. m = n
            BY <1>1, <4>3, <5>2 DEF Protocol, ControlIs
          <5> QED  BY <5>1, <5>3
        <4>4. tpc'[u] # "carrying"
          BY <1>6, <3>1
        <4> QED  BY <4>1, <4>2, <4>3, <4>4
      <3>2. CASE u # w
        <4>1. /\ control'[u] = control[u] /\ tpc'[u] = tpc[u]
              /\ u \in waiting => u \in waiting'
              /\ u \in owing => u \in owing'
          BY <1>3, <1>6, <1>7, <3>2
        <4>2. ASSUME NEW i \in 1 .. Len(control'[u])
              PROVE  IF control'[u][i].direct
                     THEN Out(control[u][i].msg)' /\ u \in waiting'
                     ELSE control'[u][i].msg = "Stop" /\ u \in owing'
          <5>1. PICK m : m = control[u][i].msg
            OBVIOUS
          <5>2. IF control[u][i].direct THEN Out(m) /\ u \in waiting
                ELSE m = "Stop" /\ u \in owing
            BY <4>1, <5>1 DEF Protocol, ControlIs
          <5> QED  BY <1>2, <4>1, <5>1, <5>2 DEF Out
        <4>3. /\ \A i, j \in 1 .. Len(control'[u]) :
                     control'[u][i].direct = control'[u][j].direct => i = j
              /\ tpc'[u] = "carrying" =>
                     \A i \in 1 .. Len(control'[u]) : control'[u][i].direct
          BY <4>1 DEF Protocol, ControlIs
        <4> QED  BY <4>2, <4>3
      <3> QED  BY <3>1, <3>2
    <2> QED  BY <2>3 DEF ControlIs
  <1>10. Carrying'
    <2>1. CASE asked.direct
      <3>1. \A t \in Threads : tpc'[t] = "carrying" <=> tpc[t] = "carrying"
        BY <1>2, <1>5, <1>6
      <3>2. \A u \in Workers : tpc[u] \in Over => tpc'[u] \in Over
        BY <1>2, <1>6, ThreadsAre DEF Over
      <3> QED  BY <1>3, <2>1, <3>1, <3>2, CarryingStays DEF Protocol
    <2>2. CASE ~asked.direct
      <3>1. p \in Over /\ owing' = owing \ {w}
        BY <1>3, <1>4, <1>5, <2>2 DEF Over
      <3> QED  BY <1>1, <1>2, <1>5, <1>6, <3>1, CarryingLess DEF Protocol
    <2> QED  BY <2>1, <2>2
  <1>11. Registered'
    BY <1>2, <1>5, <1>6, RegisteredStays DEF Protocol, Quit
  <1>12. FinishIs'
    <2>1. \A s \in Sources : /\ tpc'[s] = tpc[s] /\ control'[s] = control[s]
                             /\ s \in waiting => s \in waiting'
      BY <1>1, <1>3, <1>6, <1>7, ThreadsAre
    <2> QED  BY <1>8, <2>1, FinishStays DEF Protocol
  <1>13. Follows'
    <2>1. p = "ending" /\ ~IsLast(w) => Out("Stop") \/ tpc'[After(w)] \in Over
      <3>1. CASE asked.direct
        BY <1>4, <1>5, <3>1
      <3>2. CASE ~asked.direct /\ ~IsLast(w)
        <4>1. Gone(After(w))
          BY <1>3, <3>2 DEF GoesFurther
        <4>2. After(w) \in Threads /\ After(w) # w
          BY <1>1, <3>2, Neighbours, ThreadsAre
        <4> QED  BY <1>6, <4>1, <4>2 DEF Gone, Over
      <3> QED  BY <3>1, <3>2
    <2>2. \A t \in Threads : IsOver(t)' => (t = w /\ p = "ending") \/ IsOver(t)
      BY <1>1, <1>5, <1>6 DEF IsOver, Over
    <2>3. \A u \in Workers : tpc[u] \in Over => tpc'[u] \in Over
      BY <1>2, <1>6, ThreadsAre DEF Over
    <2>4. \A u \in Workers : u \in sending \cup waiting =>
              u \in sending' \cup waiting' \/ tpc'[u] \in Over \/ ~Out("Stop")
      <3>1. asked.direct /\ Out("Stop") => p = "ending"
        BY <1>4, <1>5 DEF Out
      <3> QED  BY <1>2, <1>3, <1>6, <3>1 DEF Over
    <2>5. Finishing => Finishing'
      BY <1>2 DEF Finishing
    <2> QED  BY <1>8, <2>1, <2>2, <2>3, <2>4, <2>5, FollowsStays DEF Protocol
  <1>14. PauseReaches'
    <2>1. Out("Pause") => phase = "paused"
      BY DEF Types, Plan, Out
    <2>2. Out("Pause") /\ asked.direct => p \in {"ending", "paused"}
      BY <1>4, <1>5, <2>1 DEF Out
    <2>3. Out("Pause") => \A u \in Workers :
              /\ tpc[u] \in Over \cup {"paused", "carrying"} =>
                     tpc'[u] \in Over \cup {"paused", "carrying"}
              /\ u \in sending \cup waiting =>
                     \/ u \in sending' \cup waiting'
                     \/ tpc'[u] \in Over \cup {"paused", "carrying"}
      BY <1>2, <1>3, <1>5, <1>6, <2>1, <2>2, ThreadsAre DEF Over
    <2>4. \A s \in Sources : /\ tpc'[s] = tpc[s]
                             /\ s \in sending \cup waiting => s \in sending' \cup waiting'
      BY <1>1, <1>2, <1>3, <1>6, ThreadsAre
    <2> QED  BY <1>8, <2>3, <2>4, ReachesStays DEF Protocol
  <1>15. StandsStill'
    <2>1. ~(phase = "paused" /\ todo = <<>>)
      BY <1>2 DEF Protocol, StandsStill, Over
    <2> QED  BY <1>2, <2>1 DEF StandsStill
  <1> QED  BY <1>9, <1>10, <1>11, <1>12, <1>13, <1>14, <1>15 DEF Protocol

\* A step of a call that asks nothing of a thread.
LEMMA CallerKeeps ==
    ASSUME Types, Protocol,
           UNCHANGED <<tpc, control, owing, waiting, sending, registered, dropped>>,
           \A m : Out(m)' <=> Out(m), Finishing => Finishing',
           phase' = "paused" /\ todo' = <<>> => phase = "paused" /\ todo = <<>>
    PROVE  Protocol'
  <1>1. ControlIs'
    BY ControlStays DEF Protocol
  <1>2. Carrying'
    BY DEF Protocol, Carrying
  <1>3. Registered'
    BY DEF Protocol, Registered
  <1>4. FinishIs'
    BY FinishStays DEF Protocol
  <1>5. Follows'
    BY DEF Protocol, Follows, IsOver
  <1>6. PauseReaches'
    BY DEF Protocol, PauseReaches
  <1>7. StandsStill'
    BY DEF Protocol, StandsStill
  <1> QED  BY <1>1, <1>2, <1>3, <1>4, <1>5, <1>6, <1>7 DEF Protocol

\* A call made waits for the lock, with nothing out for it.
LEMMA CallsProtocol ==
    ASSUME Types, Protocol, NEW c \in Callers, Calls(c)
    PROVE  Protocol'
  <1>1. /\ cpc[c] = "idle" /\ \A d \in Callers : d # c => call'[d] = call[d]
        /\ UNCHANGED <<phase, todo, step, holder, tpc, control, owing, waiting, sending,
                       registered, dropped>>
    BY DEF Calls, lock, threads, requests, queues, Types, CallTypes
  <1>2. Finishing => Finishing'
    BY <1>1 DEF Types, CallTypes, Finishing
  <1>3. \A m : Out(m)' <=> Out(m)
    BY <1>1 DEF Out
  <1> QED  BY <1>1, <1>2, <1>3, CallerKeeps

\* A call refused leaves nothing out.
LEMMA RefusesProtocol ==
    ASSUME Types, Protocol, NEW c \in Callers, Refuses(c)
    PROVE  Protocol'
  <1>1. /\ holder = None
        /\ UNCHANGED <<phase, todo, step, tpc, control, owing, waiting, sending, registered,
                       dropped>>
    BY DEF Refuses, playback, threads, requests, queues
  <1>2. \A m : Out(m)' <=> Out(m)
    BY <1>1 DEF Out
  <1> QED  BY <1>1, <1>2, CallerKeeps DEF Finishing

\* A call begun has asked nothing yet.
LEMMA BeginsProtocol ==
    ASSUME Types, Protocol, NEW c \in Callers, Begins(c)
    PROVE  Protocol'
  <1>1. /\ holder = None /\ step' = "say"
        /\ UNCHANGED <<phase, tpc, control, owing, waiting, sending, registered, dropped>>
    BY DEF Begins, playback, threads, requests, queues
  <1>2. todo = <<>>
    BY <1>1 DEF Types, Plan
  <1>3. \A m : Out(m)' <=> Out(m)
    BY <1>1, <1>2 DEF Out
  <1> QED  BY <1>1, <1>2, <1>3, CallerKeeps DEF Finishing

\* A call whose stages are over has nothing out.
LEMMA CompletesProtocol ==
    ASSUME Types, Protocol, Completes
    PROVE  Protocol'
  <1>1. /\ Finishing => holder' = holder
        /\ UNCHANGED <<phase, todo, step, call, tpc, control, owing, waiting, sending,
                       registered, dropped>>
    BY DEF Completes, Finishing, playback, threads, requests, queues
  <1>2. \A m : Out(m)' <=> Out(m)
    BY <1>1 DEF Out
  <1> QED  BY <1>1, <1>2, CallerKeeps DEF Finishing

\* A stage said has sent nothing yet.
LEMMA SaysProtocol ==
    ASSUME Types, Protocol, Says
    PROVE  Protocol'
  <1>1. /\ todo # <<>> /\ step = "say" /\ step' = "snapshot"
        /\ UNCHANGED <<todo, holder, call, tpc, control, owing, waiting, sending,
                       registered, dropped>>
    BY DEF Says, callers, threads, requests, queues
  <1>2. \A m : Out(m)' <=> Out(m)
    BY <1>1 DEF Out
  <1> QED  BY <1>1, <1>2, CallerKeeps DEF Finishing

\* A preroll awaited, or retired, leads on to its Pause.
LEMMA AwaitsProtocol ==
    ASSUME Types, Protocol, Awaits
    PROVE  Protocol'
  <1>1. /\ todo # <<>> /\ todo' = Tail(todo) /\ step = "say" /\ step' = "say"
        /\ Head(todo) \in {"await", "retire"}
        /\ UNCHANGED <<phase, holder, call, tpc, control, owing, waiting, sending,
                       registered, dropped>>
    BY DEF Awaits, playback, callers, threads, requests, queues
  <1>2. todo' # <<>>
    BY <1>1, UnderWay DEF Types, StageLeaves
  <1>3. \A m : Out(m)' <=> Out(m)
    BY <1>1 DEF Out
  <1> QED  BY <1>1, <1>2, <1>3, CallerKeeps DEF Finishing

\* A stage past its last message is out as it was.
LEMMA InterruptsProtocol ==
    ASSUME Types, Protocol, Interrupts
    PROVE  Protocol'
  <1>1. /\ step = "send" /\ step' = "acks"
        /\ UNCHANGED <<phase, todo, holder, call, tpc, control, owing, waiting, sending,
                       registered, dropped>>
    BY DEF Interrupts, callers, threads, requests, queues
  <1>2. \A m : Out(m)' <=> Out(m)
    BY <1>1 DEF Out
  <1> QED  BY <1>1, <1>2, CallerKeeps DEF Finishing

\* Whoever feeds a worker left out of a stage's list is over, and so is the
\* worker, but where a finish is under way.
LEMMA LeftOutIsOver ==
    ASSUME Types, Protocol, NEW w \in Workers, ~registered[w], ~Finishing, ~Out("Stop")
    PROVE  tpc[w] \in Over
  <1>1. Before(w) \in Threads /\ ~IsLast(Before(w)) /\ After(Before(w)) = w
    BY Neighbours
  <1>2. tpc[Before(w)] \in Quit
    BY DEF Protocol, Registered
  <1>3. IsOver(Before(w))
    BY <1>2 DEF IsOver, Quit, Left, Over
  <1> QED  BY <1>1, <1>3 DEF Protocol, Follows

\* Of the stages a finish has, none pauses or stops.
LEMMA NoFinish ==
    ASSUME Types, todo # <<>>, todo[1] \in {"Pause", "Stop"}
    PROVE  ~Finishing
  <1>1. todo \in ToPaused \cup ToPlaying \cup ToStop
    BY UnderWay DEF Types, StageLeaves
  <1>2. call[holder].op \in {"pause", "resume", "seek", "stop"}
    BY <1>1 DEF Types, Plan
  <1> QED  BY <1>2 DEF Finishing

\* The list of those a stage is sent to.
LEMMA SnapshotsProtocol ==
    ASSUME Types, Protocol, Snapshots
    PROVE  Protocol'
  <1>1. /\ step = "snapshot" /\ step' = "send" /\ sending' = AskedOf(Head(todo))
        /\ UNCHANGED <<phase, todo, holder, call, tpc, control, owing, waiting, registered,
                       dropped>>
    BY DEF Snapshots, playback, callers, threads, requests, queues
  <1>2. \A m : ~Out(m)
    BY <1>1 DEF Out
  <1>3. todo # <<>> /\ Head(todo) = todo[1]
    BY <1>1, UnderWay DEF Types, Plan, StageLeaves
  <1>4. ASSUME todo[1] \in {"Pause", "Stop"}
        PROVE  Sources \subseteq sending' /\ \A w \in Workers : w \in sending' \/ tpc[w] \in Over
    <2>1. sending' = Sources \cup {w \in Workers : registered[w]}
      BY <1>1, <1>3, <1>4 DEF AskedOf
    <2>2. \A w \in Workers : ~registered[w] => tpc[w] \in Over
      BY <1>2, <1>3, <1>4, NoFinish, LeftOutIsOver
    <2> QED  BY <2>1, <2>2
  <1>5. ControlIs'
    BY <1>1, <1>2, ControlStays DEF Protocol
  <1>6. Carrying'
    BY <1>1 DEF Protocol, Carrying
  <1>7. Registered'
    BY <1>1 DEF Protocol, Registered
  <1>8. FinishIs'
    BY <1>1, <1>2 DEF Protocol, FinishIs
  <1>9. Follows'
    <2>1. \A t \in Threads : IsOver(t)' /\ ~IsLast(t) => tpc'[After(t)] \in Over \/ Finishing'
      BY <1>1, <1>2 DEF Protocol, Follows, IsOver, Finishing
    <2>2. Out("Stop")' => todo[1] = "Stop"
      BY <1>1 DEF Out
    <2>3. Out("Stop")' => \A w \in Workers : w \in sending' \cup waiting' \/ tpc'[w] \in Over
      BY <1>1, <1>4, <2>2
    <2> QED  BY <2>1, <2>3 DEF Follows, IsLast, After
  <1>10. PauseReaches'
    <2>1. Out("Pause")' => todo[1] = "Pause"
      BY <1>1 DEF Out
    <2> QED  BY <1>1, <1>4, <2>1 DEF PauseReaches
  <1>11. StandsStill'
    BY <1>1, <1>3 DEF StandsStill
  <1> QED  BY <1>5, <1>6, <1>7, <1>8, <1>9, <1>10, <1>11 DEF Protocol

\* A thread is asked, or is gone.
LEMMA SendsProtocol ==
    ASSUME Types, Protocol, Sends
    PROVE  Protocol'
  <1> DEFINE S == [msg : StageNames, direct : BOOLEAN]
  <1>1. PICK t \in sending :
            /\ sending' = sending \ {t}
            /\ IF Receives(t)
               THEN /\ control' = [control EXCEPT ![t] = Append(@, Direct(Head(todo)))]
                    /\ waiting' = waiting \cup {t}
               ELSE UNCHANGED <<control, waiting>>
    BY DEF Sends
  <1>2. /\ step = "send"
        /\ UNCHANGED <<phase, todo, step, holder, call, tpc, owing, registered, dropped>>
    BY DEF Sends, playback, callers, threads, queues
  <1>3. t \in Threads /\ t \notin waiting
    BY DEF Types, RequestTypes
  <1>4. PICK m \in StageNames : m = Head(todo) /\ Out(m) /\ todo # <<>>
    BY <1>2, UnderWay DEF Types, Plan, StageLeaves, Out
  <1>5. \A n : Out(n)' <=> Out(n)
    BY <1>2 DEF Out
  <1>6. \A u \in Threads : u # t => control'[u] = control[u]
    BY <1>1 DEF Types, RequestTypes
  <1>7. waiting \subseteq waiting' /\ owing' = owing
    BY <1>1, <1>2
  <1>8. ControlIs'
    <2>1. CASE ~Receives(t)
      BY <1>1, <1>2, <1>5, <2>1, ControlStays DEF Protocol
    <2>2. CASE Receives(t)
      <3>1. ASSUME NEW u \in Threads
            PROVE  /\ \A i \in 1 .. Len(control'[u]) :
                          IF control'[u][i].direct
                          THEN Out(control[u][i].msg)' /\ u \in waiting'
                          ELSE control'[u][i].msg = "Stop" /\ u \in owing'
                   /\ \A i, j \in 1 .. Len(control'[u]) :
                          control'[u][i].direct = control'[u][j].direct => i = j
                   /\ tpc'[u] = "carrying" =>
                          \A i \in 1 .. Len(control'[u]) : control'[u][i].direct
        <4>1. CASE u = t
          <5> DEFINE q == control[t]
          <5>1. q \in Seq(S)
            BY <1>3 DEF Types, RequestTypes
          <5>2. PICK x \in S : x = Direct(m) /\ x.direct /\ x.msg = m
            <6>1. Direct(m) \in S
              BY DEF Direct
            <6> QED  BY <6>1 DEF Direct
          <5>3. ASSUME NEW i \in 1 .. Len(q)
                PROVE  (~q[i].direct) /\ q[i].msg = "Stop" /\ t \in owing
            BY <1>3 DEF Protocol, ControlIs
          <5>4. \A i, j \in 1 .. Len(q) : q[i].direct = q[j].direct => i = j
            BY <1>3 DEF Protocol, ControlIs
          <5>5. tpc[t] = "carrying" => \A i \in 1 .. Len(q) : q[i].direct
            BY <1>3 DEF Protocol, ControlIs
          <5> HIDE DEF q, S
          <5>6. \A i \in 1 .. Len(Append(q, x)) :
                    \/ i \in 1 .. Len(q) /\ Append(q, x)[i] = q[i]
                    \/ i = Len(q) + 1 /\ Append(q, x)[i] = x
            BY <5>1, AppendOf
          <5>7. \A i \in 1 .. Len(control'[u]) :
                    \/ i \in 1 .. Len(q) /\ control'[u][i] = q[i]
                    \/ i = Len(q) + 1 /\ control'[u][i] = x
            <6>1. control'[u] = Append(q, x)
              BY <1>1, <1>3, <1>4, <2>2, <4>1, <5>2 DEF q, Types, RequestTypes
            <6> QED  BY <5>6, <6>1
          <5>8. ASSUME NEW i \in 1 .. Len(control'[u])
                PROVE  IF control'[u][i].direct
                       THEN Out(control[u][i].msg)' /\ u \in waiting'
                       ELSE control'[u][i].msg = "Stop" /\ u \in owing'
            <6>1. CASE i \in 1 .. Len(q) /\ control'[u][i] = q[i]
              BY <1>7, <4>1, <5>3, <6>1
            <6>2. CASE control'[u][i] = x
              BY <1>1, <1>2, <1>4, <2>2, <4>1, <5>2, <6>2 DEF Out
            <6> QED  BY <5>7, <6>1, <6>2
          <5>9. ASSUME NEW i \in 1 .. Len(control'[u]), NEW j \in 1 .. Len(control'[u]),
                       control'[u][i].direct = control'[u][j].direct
                PROVE  i = j
            <6>1. CASE i \in 1 .. Len(q) /\ control'[u][i] = q[i]
                       /\ j \in 1 .. Len(q) /\ control'[u][j] = q[j]
              BY <5>4, <5>9, <6>1
            <6>2. CASE i = Len(q) + 1 /\ j = Len(q) + 1
              BY <6>2
            <6>3. CASE i \in 1 .. Len(q) /\ control'[u][i] = q[i] /\ control'[u][j] = x
              BY <5>2, <5>3, <5>9, <6>3
            <6>4. CASE control'[u][i] = x /\ j \in 1 .. Len(q) /\ control'[u][j] = q[j]
              BY <5>2, <5>3, <5>9, <6>4
            <6> QED  BY <5>7, <6>1, <6>2, <6>3, <6>4
          <5>10. ASSUME tpc'[u] = "carrying", NEW i \in 1 .. Len(control'[u])
                 PROVE  control'[u][i].direct
            <6>1. CASE i \in 1 .. Len(q)
              BY <1>2, <4>1, <5>3, <5>5, <5>10, <6>1
            <6>2. CASE control'[u][i] = x
              BY <5>2, <6>2
            <6> QED  BY <5>7, <6>1, <6>2
          <5> QED  BY <5>8, <5>9, <5>10
        <4>2. CASE u # t
          <5>1. control'[u] = control[u] /\ tpc'[u] = tpc[u]
            BY <1>2, <1>6, <4>2
          <5>2. ASSUME NEW i \in 1 .. Len(control'[u])
                PROVE  IF control'[u][i].direct
                       THEN Out(control[u][i].msg)' /\ u \in waiting'
                       ELSE control'[u][i].msg = "Stop" /\ u \in owing'
            <6>1. PICK n : n = control[u][i].msg
              OBVIOUS
            <6>2. IF control[u][i].direct THEN Out(n) /\ u \in waiting
                  ELSE n = "Stop" /\ u \in owing
              BY <5>1, <6>1 DEF Protocol, ControlIs
            <6> QED  BY <1>2, <1>7, <5>1, <6>1, <6>2 DEF Out
          <5>3. PICK q : q = control[u] /\ q = control'[u]
            BY <5>1
          <5>4. /\ \A i, j \in 1 .. Len(q) : q[i].direct = q[j].direct => i = j
                /\ tpc'[u] = "carrying" => \A i \in 1 .. Len(q) : q[i].direct
            BY <5>1, <5>3 DEF Protocol, ControlIs
          <5> QED  BY <5>2, <5>3, <5>4
        <4> QED  BY <4>1, <4>2
      <3> QED  BY <3>1 DEF ControlIs
    <2> QED  BY <2>1, <2>2
  <1>9. Carrying'
    BY <1>2 DEF Protocol, Carrying
  <1>10. Registered'
    BY <1>2 DEF Protocol, Registered
  <1>11. FinishIs'
    <2>1. \A s \in Sources : tpc[s] = "finishing" => s # t
      BY <1>3 DEF Protocol, FinishIs
    <2>2. \A s \in Sources : tpc'[s] = "finishing" =>
              /\ tpc[s] = "finishing" /\ control'[s] = control[s]
              /\ s \in waiting => s \in waiting'
      BY <1>2, <1>6, <1>7, <2>1, ThreadsAre
    <2> QED  BY <1>5, <2>2, FinishStays DEF Protocol
  <1>12. \A u \in sending \cup waiting :
             \/ u \in sending' \cup waiting'
             \/ u = t /\ ~Receives(t)
    BY <1>1, <1>7
  <1>13. Follows'
    <2>1. \A w \in Workers : w \in sending \cup waiting =>
              w \in sending' \cup waiting' \/ tpc'[w] \in Over
      BY <1>2, <1>12, ThreadsAre DEF Receives, Gone, Over
    <2>2. \A u \in Threads : IsOver(u)' => IsOver(u)
      BY <1>2 DEF IsOver
    <2> QED  BY <1>2, <1>5, <2>1, <2>2, FollowsStays DEF Protocol, Finishing
  <1>14. PauseReaches'
    <2>1. \A w \in Workers : w \in sending \cup waiting =>
              w \in sending' \cup waiting' \/ tpc'[w] \in Over \cup {"paused", "carrying"}
      BY <1>2, <1>12, ThreadsAre DEF Receives, Gone, Over
    <2>2. \A s \in Sources : s \in sending \cup waiting =>
              \/ s \in sending' \cup waiting'
              \/ tpc'[s] \in {"paused", "dropping", "joining", "done"}
      BY <1>2, <1>12, ThreadsAre DEF Receives
    <2> QED  BY <1>2, <1>5, <2>1, <2>2, ReachesStays DEF Protocol
  <1>15. StandsStill'
    BY <1>2, <1>4 DEF StandsStill
  <1> QED  BY <1>8, <1>9, <1>10, <1>11, <1>13, <1>14, <1>15 DEF Protocol

\* Everyone has answered: after a Pause, all are paused or over.
LEMMA SettlesProtocol ==
    ASSUME Types, Protocol, Settles
    PROVE  Protocol'
  <1>1. /\ step = "acks" /\ waiting = {} /\ step' = "say" /\ todo' = Tail(todo)
        /\ UNCHANGED <<phase, holder, call, tpc, control, owing, waiting, sending, registered,
                       dropped>>
    BY DEF Settles, AllAcked, callers, threads, requests, queues
  <1>2. sending = {} /\ todo # <<>>
    BY <1>1 DEF Types, RequestTypes, Plan
  <1>3. \A m : ~(Out(m)')
    BY <1>1 DEF Out
  <1>4. \A t \in Threads : \A i \in 1 .. Len(control[t]) :
            (~control[t][i].direct) /\ control[t][i].msg = "Stop" /\ t \in owing
    BY <1>1 DEF Protocol, ControlIs
  <1>5. ControlIs'
    <2>1. \A t \in Threads : \A i \in 1 .. Len(control'[t]) :
              (~control'[t][i].direct) /\ control'[t][i].msg = "Stop" /\ t \in owing'
      BY <1>1, <1>4
    <2>2. \A t \in Threads :
              /\ \A i, j \in 1 .. Len(control'[t]) :
                     control'[t][i].direct = control'[t][j].direct => i = j
              /\ tpc'[t] = "carrying" =>
                     \A i \in 1 .. Len(control'[t]) : control'[t][i].direct
      BY <1>1 DEF Protocol, ControlIs
    <2> QED  BY <2>1, <2>2 DEF ControlIs
  <1>6. Carrying'
    BY <1>1 DEF Protocol, Carrying
  <1>7. Registered'
    BY <1>1 DEF Protocol, Registered
  <1>8. FinishIs'
    BY <1>1 DEF Protocol, FinishIs
  <1>9. Follows'
    BY <1>1, <1>2, <1>3 DEF Protocol, Follows, IsOver, Finishing
  <1>10. PauseReaches'
    BY <1>3 DEF PauseReaches
  <1>11. StandsStill'
    <2> SUFFICES ASSUME phase = "paused", todo' = <<>>
                 PROVE  StandsStill'
      BY <1>1 DEF StandsStill
    <2>1. todo[1] = "Pause"
      <3>1. todo[1] \in {"Pause", "Resume", "Stop", "Finish"}
        BY <1>1, <1>2, UnderWay DEF Types, StageLeaves
      <3>2. todo[1] # "Resume" /\ todo[1] # "Stop"
        BY <1>1 DEF Types, Plan
      <3>3. todo[1] # "Finish"
        BY <1>2, UnderWay DEF Types, Plan, StageLeaves
      <3> QED  BY <3>1, <3>2, <3>3
    <2>2. /\ \A w \in Workers : tpc[w] \in Over \cup {"paused", "carrying"}
          /\ \A s \in Sources : tpc[s] \in {"paused", "dropping", "joining", "done"}
      BY <1>1, <1>2, <2>1 DEF Protocol, PauseReaches, Out
    <2>3. owing = {}
      <3>1. ASSUME NEW w \in owing PROVE FALSE
        <4>1. w \in Workers /\ Source(w[1]) \in Sources
          BY ThreadsAre DEF Types, RequestTypes
        <4> QED  BY <2>2, <4>1 DEF Protocol, Carrying
      <3> QED  BY <3>1
    <2>4. \A t \in Threads : control[t] = <<>>
      <3> TAKE t \in Threads
      <3>1. control[t] \in Seq([msg : StageNames, direct : BOOLEAN])
        BY DEF Types, RequestTypes
      <3>2. Len(control[t]) \notin 1 .. Len(control[t])
        BY <1>4, <2>3
      <3> QED  BY <3>1, <3>2, HeadOf
    <2>5. \A w \in Workers : tpc[w] # "carrying"
      BY <2>3 DEF Protocol, Carrying
    <2> QED  BY <1>1, <2>2, <2>4, <2>5, ThreadsAre DEF StandsStill
  <1> QED  BY <1>5, <1>6, <1>7, <1>8, <1>9, <1>10, <1>11 DEF Protocol

\* The sources' threads joined, nothing is left of the pipeline.
LEMMA JoinsProtocol ==
    ASSUME Types, Protocol, NEW c \in Callers, Joins(c)
    PROVE  Protocol'
  <1>1. /\ \A s \in Sources : tpc[s] = "done"
        /\ UNCHANGED <<phase, todo, step, call, tpc, control, owing, waiting, sending,
                       registered, dropped>>
    BY DEF Joins, playback, threads, requests, queues
  <1>2. \A w \in Workers : tpc[w] \in Over
    <2> TAKE w \in Workers
    <2>1. Source(w[1]) \in Sources /\ Source(w[1]) \in Threads /\ Source(w[1])[1] = w[1]
          /\ Source(w[1])[2] = 0 /\ w \in Threads /\ w[2] \in 1..Depth
      BY ThreadsAre
    <2>2. w[2] > Source(w[1])[2]
      BY <2>1, ThreadsAre
    <2>3. tpc[w] = "done"
      BY <1>1, <2>1, <2>2 DEF Protocol, Registered
    <2> QED  BY <2>3 DEF Over
  <1>3. \A m : Out(m)' <=> Out(m)
    BY <1>1 DEF Out
  <1>4. ControlIs'
    BY <1>1, <1>3, ControlStays DEF Protocol
  <1>5. Carrying'
    BY <1>1 DEF Protocol, Carrying
  <1>6. Registered'
    BY <1>1 DEF Protocol, Registered
  <1>7. FinishIs'
    BY <1>1, <1>3, FinishStays DEF Protocol
  <1>8. Follows'
    <2>1. \A w \in Workers : tpc'[w] \in Over
      BY <1>1, <1>2
    <2>2. \A t \in Threads : ~IsLast(t) => tpc'[After(t)] \in Over
      BY <2>1, Neighbours
    <2> QED  BY <2>1, <2>2 DEF Follows, IsLast, After
  <1>9. PauseReaches'
    BY <1>1, <1>3 DEF Protocol, PauseReaches
  <1>10. StandsStill'
    BY <1>1 DEF Protocol, StandsStill
  <1> QED  BY <1>4, <1>5, <1>6, <1>7, <1>8, <1>9, <1>10 DEF Protocol

-----------------------------------------------------------------------------
(* The protocol, throughout.                                               *)

\* As run returns.
LEMMA InitProtocol == Init => Protocol
  <1> SUFFICES ASSUME Init PROVE Protocol
    OBVIOUS
  <1>1. /\ \A s \in Sources : tpc[s] = "begin"
        /\ \A w \in Workers : tpc[w] = "look"
        /\ \A t \in Threads : tpc[t] \in {"begin", "look"} /\ control[t] = <<>>
        /\ todo = <<>> /\ phase = "playing" /\ owing = {}
    BY ThreadsAre DEF Init
  <1>2. \A m : ~Out(m)
    BY <1>1 DEF Out
  <1>3. ControlIs
    <2>1. \A t \in Threads : Len(control[t]) = 0
      BY <1>1
    <2> QED  BY <2>1 DEF ControlIs
  <1>4. Carrying
    BY <1>1, ThreadsAre DEF Carrying
  <1>5. Registered
    BY <1>1, Neighbours DEF Init, Registered, Quit
  <1>6. FinishIs
    BY <1>1 DEF FinishIs
  <1>7. Follows
    BY <1>1, <1>2 DEF Follows, IsOver, Over, Left
  <1>8. PauseReaches
    BY <1>2 DEF PauseReaches
  <1>9. StandsStill
    BY <1>1 DEF StandsStill
  <1> QED  BY <1>3, <1>4, <1>5, <1>6, <1>7, <1>8, <1>9 DEF Protocol

\* Each step keeps it, where every source can be sought.
LEMMA NextProtocol == Seekable /\ Types /\ Protocol /\ [Next]_vars => Protocol'
  <1> SUFFICES ASSUME Seekable, Types, Protocol, [Next]_vars PROVE Protocol'
    OBVIOUS
  <1>1. CASE \E c \in Callers : Calls(c) \/ Caller(c)
    BY <1>1, CallsProtocol, RefusesProtocol, BeginsProtocol, JoinsProtocol DEF Caller
  <1>2. CASE Asks
    BY <1>2, SaysProtocol, SnapshotsProtocol, SendsProtocol, InterruptsProtocol,
       SettlesProtocol, AwaitsProtocol, CompletesProtocol DEF Asks
  <1>3. CASE \E l \in Lines : SourceThread(l) \/ SourceFails(l)
    BY <1>3, SourceWorksProtocol, SourceTakesProtocol, SourceFinishesProtocol,
       SourceFinishedProtocol, SourceCarriedProtocol, SourceReturnsProtocol,
       DropsReceiverProtocol, SourceDropsProtocol, SourceJoinsProtocol, SourceFailsProtocol
       DEF SourceThread
  <1>4. CASE \E w \in Workers : WorkerThread(w)
    BY <1>4, WorkerWorksProtocol, WorkerTakesProtocol, WorkerCarriesProtocol,
       WorkerCarriedProtocol, DeliverPendingProtocol, WorkerDropsProtocol, WorkerDoneProtocol
       DEF WorkerThread
  <1>5. CASE UNCHANGED vars
    <2>1. UNCHANGED <<phase, todo, step, holder, call, tpc, control, owing, waiting, sending,
                      registered, dropped>>
      BY <1>5 DEF vars, playback, lock, callers, threads, requests, queues
    <2>2. \A m : Out(m)' <=> Out(m)
      BY <2>1 DEF Out
    <2> QED  BY <2>1, <2>2, CallerKeeps DEF Finishing
  <1> QED  BY <1>1, <1>2, <1>3, <1>4, <1>5 DEF Next

\* So it holds throughout.
LEMMA AlwaysProtocol == ASSUME Seekable PROVE Spec => []Protocol
  <1>1. Counts => Types
    BY DEF Counts
  <1>2. Types /\ Protocol /\ [Next]_vars => Protocol'
    BY NextProtocol
  <1> QED  BY <1>1, <1>2, InitProtocol, AlwaysCounts, PTL DEF Spec

\* Once a call has left a pipeline of sources that can be sought paused, and
\* until the next, no terminal is handed anything: every worker and source was
\* reached by the Pause, or is over, and what a finish or a stop drains is done
\* before either returns.
THEOREM PausedIsStillHolds == ASSUME Seekable PROVE Spec => PausedIsStill
  <1>1. Protocol /\ [Next]_vars =>
            [phase = "paused" /\ todo = <<>> =>
                \A l \in Lines : terminal'[l] = terminal[l]]_vars
    <2> SUFFICES ASSUME Protocol, [Next]_vars, phase = "paused", todo = <<>>
                 PROVE  terminal' = terminal
      OBVIOUS
    <2>1. \A w \in Workers : \/ tpc[w] \in Over
                             \/ tpc[w] = "paused" /\ control[w] = <<>>
      BY DEF Protocol, StandsStill
    <2>2. CASE \E c \in Callers : Calls(c) \/ Caller(c)
      BY <2>2 DEF Calls, Caller, Refuses, Begins, Joins, ends
    <2>3. CASE Asks
      BY <2>3 DEF Asks, Says, Snapshots, Sends, Interrupts, Settles, Awaits, Completes, ends
    <2>4. CASE \E l \in Lines : SourceThread(l) \/ SourceFails(l)
      BY <2>4 DEF SourceThread, SourceBegins, SourceProduces, SourceHandsOn, SourceEnds,
                  SourceTakes, SourceFinishes, SourceFinished, SourceCarried, SourceReturns,
                  DropsReceiver, SourceDrops, SourceJoins, SourceFails, ends
    <2>5. ASSUME NEW w \in Workers, WorkerThread(w)
          PROVE  terminal' = terminal
      <3>1. CASE WorkerLooks(w) \/ WorkerLooksAgain(w) \/ WorkerHandsOn(w) \/ WorkerCarries(w)
                 \/ WorkerCarried(w) \/ WorkerDrops(w) \/ WorkerDone(w)
        BY <3>1 DEF WorkerLooks, WorkerLooksAgain, WorkerHandsOn, WorkerCarries, WorkerCarried,
                    WorkerDrops, WorkerDone, ends
      <3>2. CASE WorkerForwards(w)
        BY <2>1, <3>2 DEF WorkerForwards, Over
      <3>3. CASE WorkerTakes(w)
        BY <2>1, <3>3 DEF WorkerTakes, Over
      <3>4. CASE DeliverPending(w)
        <4>1. control[w] = <<>>
          BY <2>1, <3>4 DEF DeliverPending, GivesUp, Over
        <4>2. {control[w][i].msg : i \in DOMAIN control[w]} = {}
          BY <4>1
        <4> QED  BY <3>4, <4>2 DEF DeliverPending, Heard
      <3> QED  BY <2>5, <3>1, <3>2, <3>3, <3>4 DEF WorkerThread
    <2>6. CASE UNCHANGED vars
      BY <2>6 DEF vars, ends
    <2> QED  BY <2>2, <2>3, <2>4, <2>5, <2>6 DEF Next
  <1> QED  BY <1>1, AlwaysProtocol, PTL DEF Spec, PausedIsStill

-----------------------------------------------------------------------------
(* That no terminal is dropped unfinished: the invariant, in parts.        *)

Of(l) == {w \in Workers : w[1] = l}
LastOf(l) == <<l, Depth>>
LineOver(l) == tpc[LastOf(l)] \in Over

\* A worker waited for has what is asked of it in its control, and the last of
\* a line is asked before those in front of it.
Asked ==
    \A w \in Workers : w \in waiting => \E i \in 1 .. Len(control[w]) : control[w][i].direct
InTurn == \A t \in waiting : ~IsLast(t) => LastOf(t[1]) \notin sending

\* Playing, no worker is left in its pause; stopped, all are over.
ResumeReaches ==
    Out("Resume") =>
        \A w \in Workers : \/ w \in sending \cup waiting
                           \/ tpc[w] # "paused"
                           \/ LineOver(w[1])
ToNothing == todo \in {<<>>, <<"Finish">>}
PlaysOn ==
    ~paused /\ ToNothing => \A w \in Workers : tpc[w] # "paused" \/ LineOver(w[1])
StoppedIsOver ==
    phase = "stopped" =>
        \/ todo # <<>> /\ todo[1] = "Stop" /\ step # "say"
        \/ \A l \in Lines : LineOver(l)

\* The end of a line's stream is on its way: the last there is in it, or taken.
Empty(w) == channel[w] = <<>> /\ tpc[w] # "push"
EndIn(w) == \/ channel[w] # <<>> /\ channel[w][Len(channel[w])].kind = "eos"
            \/ channel[w] = <<>> /\ tpc[w] = "push" /\ hand[w].kind = "eos"
EndOnWay(l) ==
    \/ terminal[l].ended /\ \A w \in Of(l) : Empty(w)
    \/ \E w \in Of(l) : EndIn(w) /\ \A v \in Of(l) : v[2] < w[2] => Empty(v)

\* The segment of the seek that flushed a queue is still to come to it.
Queued(w) == \E i \in 1 .. Len(channel[w]) : channel[w][i].kind = "flushedSegment"
InHand(w) == tpc[w] = "push" /\ hand[w].kind = "flushedSegment"
SegmentComes(u) ==
    \E w \in Of(u[1]) : (w[2] <= u[2] /\ Queued(w)) \/ (w[2] < u[2] /\ InHand(w))
Met(l) == \A u \in Of(l) : flushing[u] => SegmentComes(u)

\* A seek has begun its timeline, and the source has not been told where.
Renewing(l) ==
    \/ todo # <<>> /\ todo[1] = "Flush" /\ step # "say"
    \/ /\ todo # <<>> /\ todo[1] = "Seek"
       /\ step \in {"say", "snapshot"} \/ Source(l) \in sending \cup waiting

LineOpen(l) ==
    ~Renewing(l) /\ ~LineOver(l) =>
        ~pad[l].flushing /\ Met(l) /\ (pad[l].ended => EndOnWay(l))
Begun(l) == tpc[Source(l)] = "begin" => ~pad[l].ended /\ ~pad[l].flushing
Lingers(l) ==
    /\ tpc[Source(l)] = "linger" => pad[l].ended \/ pad[l].flushing
    /\ tpc[Source(l)] = "paused" /\ back[Source(l)] = "linger" =>
           pad[l].ended \/ pad[l].flushing \/ source[l].sought

\* What a thread that is over leaves to its line: its end, which a finish waits
\* for, or a Stop its last worker has been asked.
StopComes(l) == Out("Stop") /\ LastOf(l) \in waiting
Drains(l) ==
    /\ Finishing /\ ToNothing /\ ~paused
    /\ tpc[Source(l)] \in Left /\ pad[l].ended
Drained(t) == \A v \in Of(t[1]) : v[2] <= t[2] => Empty(v)
EndsIn(t) == LineOver(t[1]) \/ StopComes(t[1]) \/ (Drains(t[1]) /\ Drained(t))
LeavesEnd(l) == \A t \in Threads : t[1] = l /\ IsOver(t) => EndsIn(t)
LineEnds(l) == LineOver(l) => terminal[l].heard \/ terminal[l].ended

OfLine(l) == LineOpen(l) /\ Begun(l) /\ Lingers(l) /\ LeavesEnd(l) /\ LineEnds(l)
Finishes ==
    /\ Asked /\ InTurn /\ ResumeReaches /\ PlaysOn /\ StoppedIsOver
    /\ \A l \in Lines : OfLine(l)

-----------------------------------------------------------------------------
(* What a line is made of.                                                 *)

\* The last of a line, and what is in front of it.
LEMMA LineIs ==
    ASSUME NEW l \in Lines
    PROVE  /\ LastOf(l) \in Workers /\ LastOf(l) \in Threads /\ LastOf(l)[1] = l
           /\ LastOf(l)[2] = Depth /\ IsLast(LastOf(l)) /\ LastOf(l) \in Of(l)
           /\ \A w \in Of(l) : /\ w \in Workers /\ w \in Threads /\ w[1] = l /\ w[2] \in Int
                               /\ w[2] <= Depth /\ w[2] > 0
                               /\ (IsLast(w) <=> w = LastOf(l))
           /\ \A t \in Threads : t[1] = l /\ IsLast(t) => t = LastOf(l)
  <1>1. Depth \in Nat /\ Depth > 0
    BY ThreadsAre
  <1>2. LastOf(l) \in Workers /\ LastOf(l)[1] = l /\ LastOf(l)[2] = Depth
    BY <1>1 DEF LastOf, Workers
  <1>3. LastOf(l) \in Threads /\ IsLast(LastOf(l)) /\ LastOf(l) \in Of(l)
    BY <1>2 DEF Threads, IsLast, Of
  <1>4. \A t \in Threads : t[1] = l /\ IsLast(t) => t = LastOf(l)
    <2> TAKE t \in Threads
    <2> HAVE t[1] = l /\ IsLast(t)
    <2>1. t \in Workers
      BY ThreadsAre, Neighbours
    <2> QED  BY <1>2, <2>1, Neighbours DEF IsLast
  <1>5. \A w \in Of(l) : /\ w \in Workers /\ w \in Threads /\ w[1] = l /\ w[2] \in Int
                         /\ w[2] <= Depth /\ w[2] > 0
    BY <1>1, ThreadsAre DEF Of
  <1> QED  BY <1>2, <1>3, <1>4, <1>5

\* Once a worker is done, its line is over.
LEMMA GoneIsOver ==
    ASSUME Types, Protocol, NEW w \in Workers, Gone(w)
    PROVE  LineOver(w[1])
  <1>1. w \in Threads /\ w[1] \in Lines /\ w[2] \in 1..Depth /\ Depth \in Nat
    BY ThreadsAre
  <1>2. LastOf(w[1]) \in Threads /\ LastOf(w[1])[1] = w[1] /\ LastOf(w[1])[2] = Depth
        /\ LastOf(w[1]) \in Workers
    BY <1>1, LineIs
  <1>3. tpc[LastOf(w[1])] = "done"
    <2>1. CASE w[2] = Depth
      BY <1>2, <2>1, Neighbours DEF Gone
    <2>2. CASE w[2] # Depth
      BY <1>1, <1>2, <2>2 DEF Gone, Protocol, Registered
    <2> QED  BY <2>1, <2>2
  <1> QED  BY <1>3 DEF LineOver, Over

\* A line that is over stays as it is, but for its source.
LEMMA OverStays ==
    ASSUME NEW l \in Lines, LineOver(l)', (terminal[l].heard \/ terminal[l].ended)',
           Begun(l)', Lingers(l)'
    PROVE  OfLine(l)'
  <1>1. LineOpen(l)'
    BY DEF LineOpen
  <1>2. LineEnds(l)'
    BY DEF LineEnds
  <1>3. LeavesEnd(l)'
    <2> SUFFICES ASSUME NEW t \in Threads, t[1] = l PROVE EndsIn(t)'
      BY DEF LeavesEnd
    <2> QED  BY DEF EndsIn, LineOver
  <1> QED  BY <1>1, <1>2, <1>3 DEF OfLine

\* A line nothing happens to stays as it is.
LEMMA LineStays ==
    ASSUME NEW k \in Lines, OfLine(k),
           \A t \in Threads : t[1] = k =>
               /\ tpc'[t] = tpc[t] /\ hand'[t] = hand[t]
               /\ (t \in waiting' <=> t \in waiting),
           \A w \in Workers : w[1] = k => channel'[w] = channel[w] /\ flushing'[w] = flushing[w],
           back'[Source(k)] = back[Source(k)], pad'[k] = pad[k], source'[k] = source[k],
           terminal'[k] = terminal[k],
           UNCHANGED <<todo, step, holder, call, paused, sending>>
    PROVE  OfLine(k)'
  <1>1. Source(k) \in Threads /\ Source(k)[1] = k /\ LastOf(k) \in Threads /\ LastOf(k)[1] = k
    BY ThreadsAre, LineIs
  <1>2. \A w \in Of(k) : /\ tpc'[w] = tpc[w] /\ hand'[w] = hand[w]
                         /\ channel'[w] = channel[w] /\ flushing'[w] = flushing[w]
    BY LineIs
  <1>3. LineOver(k)' <=> LineOver(k)
    BY <1>1 DEF LineOver
  <1>4. \A m : Out(m)' <=> Out(m)
    BY DEF Out
  <1>5. \A w \in Of(k) : (Empty(w)' <=> Empty(w)) /\ (EndIn(w)' <=> EndIn(w))
    BY <1>2 DEF Empty, EndIn
  <1>6. \A w \in Of(k) : (Queued(w)' <=> Queued(w)) /\ (InHand(w)' <=> InHand(w))
    BY <1>2 DEF Queued, InHand
  <1>7. \A u \in Of(k) : SegmentComes(u)' <=> SegmentComes(u)
    <2> TAKE u \in Of(k)
    <2>1. u[1] = k
      BY DEF Of
    <2> QED  BY <1>6, <2>1 DEF SegmentComes
  <1>8. Met(k)' <=> Met(k)
    BY <1>2, <1>7 DEF Met
  <1>9. EndOnWay(k)' <=> EndOnWay(k)
    BY <1>5 DEF EndOnWay
  <1>10. Renewing(k)' <=> Renewing(k)
    BY <1>1 DEF Renewing
  <1>11. LineOpen(k)'
    BY <1>3, <1>8, <1>9, <1>10 DEF OfLine, LineOpen
  <1>12. Begun(k)' /\ Lingers(k)'
    BY <1>1 DEF OfLine, Begun, Lingers
  <1>13. LeavesEnd(k)'
    <2> SUFFICES ASSUME NEW t \in Threads, t[1] = k, IsOver(t)'
                 PROVE  EndsIn(t)'
      BY DEF LeavesEnd
    <2>1. EndsIn(t)
      BY DEF OfLine, LeavesEnd, IsOver
    <2>2. Drained(t) => Drained(t)'
      BY <1>5 DEF Drained
    <2>3. StopComes(k) => StopComes(k)'
      BY <1>1, <1>4 DEF StopComes
    <2>4. Drains(k) => Drains(k)'
      BY <1>1 DEF Drains, Finishing, ToNothing
    <2> QED  BY <1>3, <2>1, <2>2, <2>3, <2>4 DEF EndsIn
  <1>14. LineEnds(k)'
    BY <1>3 DEF OfLine, LineEnds
  <1> QED  BY <1>11, <1>12, <1>13, <1>14 DEF OfLine

\* What a step of one line's thread is about.
OnlyLine(l) ==
    /\ \A t \in Threads : t[1] # l =>
           /\ tpc'[t] = tpc[t] /\ hand'[t] = hand[t] /\ control'[t] = control[t]
           /\ (t \in waiting' <=> t \in waiting)
    /\ \A w \in Workers : w[1] # l => channel'[w] = channel[w] /\ flushing'[w] = flushing[w]
    /\ \A k \in Lines : k # l =>
           /\ back'[Source(k)] = back[Source(k)] /\ pad'[k] = pad[k]
           /\ source'[k] = source[k] /\ terminal'[k] = terminal[k]
    /\ UNCHANGED <<phase, todo, step, holder, call, paused, sending>>

\* Requests of it taken, and workers paused by a Pause alone.
TakesInLine(l) ==
    /\ waiting' \subseteq waiting
    /\ LineOver(l) => LineOver(l)'
    /\ \A w \in Workers : w[1] = l =>
           /\ w \in waiting' /\ (\E i \in 1 .. Len(control[w]) : control[w][i].direct) =>
                  \E i \in 1 .. Len(control'[w]) : control'[w][i].direct
           /\ tpc'[w] = "paused" =>
                  \/ Out("Pause")
                  \/ tpc[w] = "paused" /\ (Out("Resume") /\ w \in waiting => w \in waiting')

\* So it leaves the rest of the pipeline as it was.
LEMMA ThreadStep ==
    ASSUME Types, Finishes, NEW l \in Lines, OnlyLine(l), TakesInLine(l), OfLine(l)'
    PROVE  Finishes'
  <1>1. UNCHANGED <<phase, todo, step, holder, call, paused, sending>> /\ waiting' \subseteq waiting
    BY DEF OnlyLine, TakesInLine
  <1>2. \A k \in Lines : k # l => OfLine(k)'
    <2> TAKE k \in Lines
    <2> HAVE k # l
    <2>1. OfLine(k)
      BY DEF Finishes
    <2>2. \A t \in Threads : t[1] = k =>
              /\ tpc'[t] = tpc[t] /\ hand'[t] = hand[t]
              /\ (t \in waiting' <=> t \in waiting)
      BY DEF OnlyLine
    <2>3. \A w \in Workers : w[1] = k => channel'[w] = channel[w] /\ flushing'[w] = flushing[w]
      BY DEF OnlyLine
    <2>4. back'[Source(k)] = back[Source(k)] /\ pad'[k] = pad[k] /\ source'[k] = source[k]
          /\ terminal'[k] = terminal[k]
      BY DEF OnlyLine
    <2> QED  BY <1>1, <2>1, <2>2, <2>3, <2>4, LineStays
  <1>3. \A k \in Lines : LineOver(k) => LineOver(k)'
    <2> TAKE k \in Lines
    <2>1. LastOf(k) \in Threads /\ LastOf(k)[1] = k
      BY LineIs
    <2>2. k # l => tpc'[LastOf(k)] = tpc[LastOf(k)]
      BY <2>1 DEF OnlyLine
    <2> QED  BY <2>2 DEF TakesInLine, LineOver
  <1>4. \A m : Out(m)' <=> Out(m)
    BY <1>1 DEF Out
  <1>5. \A w \in Workers : w \in Threads /\ w[1] \in Lines
    BY ThreadsAre
  <1>6. Asked'
    <2> SUFFICES ASSUME NEW w \in Workers, w \in waiting'
                 PROVE  \E i \in 1 .. Len(control'[w]) : control'[w][i].direct
      BY DEF Asked
    <2>1. \E i \in 1 .. Len(control[w]) : control[w][i].direct
      BY <1>1 DEF Finishes, Asked
    <2>2. CASE w[1] = l
      BY <2>1, <2>2 DEF TakesInLine
    <2>3. CASE w[1] # l
      <3>1. control'[w] = control[w]
        BY <1>5, <2>3 DEF OnlyLine
      <3> QED  BY <2>1, <3>1
    <2> QED  BY <2>2, <2>3
  <1>7. InTurn'
    BY <1>1 DEF Finishes, InTurn, IsLast, LastOf
  <1>8. \A w \in Workers : tpc'[w] = "paused" =>
            \/ Out("Pause")
            \/ /\ tpc[w] = "paused"
               /\ Out("Resume") /\ w \in sending \cup waiting => w \in sending \cup waiting'
    <2> TAKE w \in Workers
    <2>1. CASE w[1] = l
      BY <2>1 DEF TakesInLine
    <2>2. CASE w[1] # l
      BY <1>5, <2>2 DEF OnlyLine
    <2> QED  BY <2>1, <2>2
  <1>9. ResumeReaches'
    <2> SUFFICES ASSUME Out("Resume"), NEW w \in Workers, tpc'[w] = "paused", ~LineOver(w[1])'
                 PROVE  w \in sending \cup waiting'
      BY <1>1, <1>4 DEF ResumeReaches
    <2>1. ~Out("Pause")
      BY DEF Out
    <2>2. ~LineOver(w[1])
      BY <1>3, <1>5
    <2>3. tpc[w] = "paused"
      BY <1>8, <2>1
    <2>4. w \in sending \cup waiting
      BY <2>2, <2>3 DEF Finishes, ResumeReaches
    <2> QED  BY <1>8, <2>1, <2>4
  <1>10. PlaysOn'
    <2> SUFFICES ASSUME ~paused, ToNothing, NEW w \in Workers, tpc'[w] = "paused",
                        ~LineOver(w[1])'
                 PROVE  FALSE
      BY <1>1 DEF PlaysOn, ToNothing
    <2>1. ~Out("Pause")
      BY DEF Out, ToNothing
    <2>2. ~LineOver(w[1])
      BY <1>3, <1>5
    <2>3. tpc[w] = "paused"
      BY <1>8, <2>1
    <2> QED  BY <2>2, <2>3 DEF Finishes, PlaysOn
  <1>11. StoppedIsOver'
    BY <1>1, <1>3 DEF Finishes, StoppedIsOver
  <1>12. \A k \in Lines : OfLine(k)'
    BY <1>2
  <1> QED  BY <1>6, <1>7, <1>9, <1>10, <1>11, <1>12 DEF Finishes

\* What a source does is about its own line.
LEMMA SourceIsOfLine ==
    ASSUME Types, NEW l \in Lines, SourceThread(l) \/ SourceFails(l)
    PROVE  OnlyLine(l)
  <1>1. /\ Source(l) \in Sources /\ Source(l) \in Threads /\ Source(l)[1] = l
        /\ After(Source(l)) \in Workers /\ After(Source(l)) \in Threads
        /\ After(Source(l))[1] = l
        /\ \A k \in Lines : k # l => Source(k) # Source(l)
    BY ThreadsAre, Neighbours
  <1>2. tpc \in [Threads -> SourcePlaces \cup WorkerPlaces] /\ hand \in [Threads -> Items]
        /\ control \in [Threads -> Seq([msg : StageNames, direct : BOOLEAN])]
        /\ channel \in [Workers -> Seq(ItemsTo(timeline))]
        /\ back \in [Sources -> {"ask", "ending", "linger"}]
        /\ source \in [Lines -> [pos : 0..Length, seg : 0..timeline, sought : BOOLEAN]]
        /\ pad \in [Lines -> [flushing : BOOLEAN, ended : BOOLEAN]]
    BY DEF Types, ThreadTypes, ItemTypes, RequestTypes, SourceTypes
  <1>3. \A k \in Lines : k # l => Source(k) \in Sources
    BY ThreadsAre
  <1> HIDE DEF Source
  <1>4. UNCHANGED <<phase, todo, step, holder, call, paused, sending, flushing, terminal>>
    BY DEF SourceThread, SourceFails, SourceBegins, SourceProduces, SourceHandsOn, SourceEnds,
           SourceTakes, SourceFinishes, SourceFinished, SourceCarried, SourceReturns,
           DropsReceiver, SourceDrops, SourceJoins, playback, lock, callers, queues, ends
  <1>5. \E p : tpc' = [tpc EXCEPT ![Source(l)] = p]
    BY DEF SourceThread, SourceFails, SourceBegins, SourceProduces, SourceHandsOn, SourceEnds,
           SourceTakes, SourceNext, SourceFinishes, SourceFinished, SourceCarried,
           SourceReturns, DropsReceiver, SourceDrops, SourceJoins, DropsQueue, GoTo
  <1>6. hand' = hand \/ \E x : hand' = [hand EXCEPT ![Source(l)] = x]
    BY DEF SourceThread, SourceFails, SourceBegins, SourceProduces, SourceHandsOn, SourceEnds,
           SourceTakes, SourceFinishes, SourceFinished, SourceCarried,
           SourceReturns, DropsReceiver, SourceDrops, SourceJoins, threads
  <1>7. back' = back \/ \E x : back' = [back EXCEPT ![Source(l)] = x]
    BY DEF SourceThread, SourceFails, SourceBegins, SourceProduces, SourceHandsOn, SourceEnds,
           SourceTakes, SourceNext, SourceFinishes, SourceFinished, SourceCarried,
           SourceReturns, DropsReceiver, SourceDrops, SourceJoins, threads
  <1>8. \/ control' = control
        \/ \E x : control' = [control EXCEPT ![Source(l)] = x]
        \/ \E x : control' = [control EXCEPT ![After(Source(l))] = x]
    BY DEF SourceThread, SourceFails, SourceBegins, SourceProduces, SourceHandsOn, SourceEnds,
           SourceTakes, SourceFinishes, SourceFinished, SourceCarried,
           SourceReturns, DropsReceiver, SourceDrops, SourceJoins, requests
  <1>9. waiting' = waiting \/ waiting' = waiting \ {Source(l)}
    BY DEF SourceThread, SourceFails, SourceBegins, SourceProduces, SourceHandsOn, SourceEnds,
           SourceTakes, SourceFinishes, SourceFinished, SourceCarried,
           SourceReturns, DropsReceiver, SourceDrops, SourceJoins, requests
  <1>10. channel' = channel \/ \E x : channel' = [channel EXCEPT ![After(Source(l))] = x]
    BY DEF SourceThread, SourceFails, SourceBegins, SourceProduces, SourceHandsOn, SourceEnds,
           SourceTakes, SourceFinishes, SourceFinished, SourceCarried, EndPushed, Pushed,
           SourceReturns, DropsReceiver, SourceDrops, SourceJoins, queues
  <1>11. \A k \in Lines : k # l => pad'[k] = pad[k] /\ source'[k] = source[k]
    BY <1>2
       DEF SourceThread, SourceFails, SourceBegins, SourceProduces, SourceHandsOn, SourceEnds,
           SourceTakes, SourceFinishes, SourceFinished, SourceCarried,
           SourceReturns, DropsReceiver, SourceDrops, SourceJoins, ends
  <1> QED  BY <1>1, <1>2, <1>3, <1>4, <1>5, <1>6, <1>7, <1>8, <1>9, <1>10, <1>11 DEF OnlyLine

\* So is what a worker does.
LEMMA WorkerIsOfLine ==
    ASSUME Types, NEW w \in Workers, WorkerThread(w)
    PROVE  OnlyLine(w[1])
  <1>1. w \in Threads /\ w[1] \in Lines
    BY ThreadsAre
  <1>2. ~IsLast(w) => After(w) \in Workers /\ After(w) \in Threads /\ After(w)[1] = w[1]
    BY <1>1, Neighbours, ThreadsAre
  <1>3. tpc \in [Threads -> SourcePlaces \cup WorkerPlaces] /\ hand \in [Threads -> Items]
        /\ control \in [Threads -> Seq([msg : StageNames, direct : BOOLEAN])]
        /\ channel \in [Workers -> Seq(ItemsTo(timeline))]
        /\ flushing \in [Workers -> BOOLEAN]
        /\ terminal \in [Lines -> [seg : 0..timeline, from : 0..timeline, at : 0..Length,
                                   ended : BOOLEAN, heard : BOOLEAN]]
    BY DEF Types, ThreadTypes, ItemTypes, RequestTypes, QueueTypes, TerminalTypes
  <1>4. UNCHANGED <<phase, todo, step, holder, call, paused, sending, source, pad, back>>
    BY DEF WorkerThread, WorkerLooks, WorkerLooksAgain, WorkerForwards, WorkerHandsOn,
           WorkerTakes, WorkerCarries, WorkerCarried, DeliverPending, WorkerDrops, WorkerDone,
           playback, lock, callers, ends
  <1>5. \E p : tpc' = [tpc EXCEPT ![w] = p]
    BY DEF WorkerThread, WorkerLooks, WorkerLooksAgain, WorkerForwards, WorkerHandsOn,
           WorkerTakes, WorkerNext, WorkerCarries, WorkerCarried, DeliverPending, WorkerDrops,
           DropsQueue, WorkerDone, GoTo
  <1>6. hand' = hand \/ \E x : hand' = [hand EXCEPT ![w] = x]
    BY DEF WorkerThread, WorkerLooks, WorkerLooksAgain, WorkerForwards, WorkerHandsOn,
           WorkerTakes, WorkerCarries, WorkerCarried, DeliverPending, WorkerDrops, WorkerDone
  <1>7. waiting' = waiting \/ waiting' = waiting \ {w}
    BY DEF WorkerThread, WorkerLooks, WorkerLooksAgain, WorkerForwards, WorkerHandsOn,
           WorkerTakes, WorkerCarries, WorkerCarried, DeliverPending, WorkerDrops, WorkerDone,
           requests
  <1>8. flushing' = flushing \/ \E x : flushing' = [flushing EXCEPT ![w] = x]
    BY DEF WorkerThread, WorkerLooks, WorkerLooksAgain, WorkerForwards, WorkerHandsOn,
           WorkerTakes, WorkerCarries, WorkerCarried, DeliverPending, WorkerDrops, WorkerDone,
           queues
  <1>9. \A t \in Threads : t[1] # w[1] => control'[t] = control[t]
    <2>1. CASE WorkerCarries(w)
      <3>1. ~IsLast(w)
        BY <2>1 DEF WorkerCarries, GoesFurther
      <3> QED  BY <1>2, <1>3, <2>1, <3>1 DEF WorkerCarries
    <2>2. CASE ~WorkerCarries(w)
      <3>1. control' = control \/ \E x : control' = [control EXCEPT ![w] = x]
        BY <2>2
           DEF WorkerThread, WorkerLooks, WorkerLooksAgain, WorkerForwards, WorkerHandsOn,
               WorkerTakes, WorkerCarried, DeliverPending, WorkerDrops, WorkerDone, requests
      <3> QED  BY <1>3, <3>1
    <2> QED  BY <2>1, <2>2
  <1>10. \A u \in Workers : u[1] # w[1] => channel'[u] = channel[u]
    <2>1. CASE WorkerHandsOn(w)
      <3>1. ~IsLast(w)
        BY <2>1 DEF WorkerHandsOn, Types, ThreadTypes
      <3> QED  BY <1>2, <1>3, <2>1, <3>1 DEF WorkerHandsOn, Pushed
    <2>2. CASE ~WorkerHandsOn(w)
      <3>1. channel' = channel \/ \E x : channel' = [channel EXCEPT ![w] = x]
        BY <2>2
           DEF WorkerThread, WorkerLooks, WorkerLooksAgain, WorkerForwards, WorkerCarries,
               WorkerTakes, WorkerCarried, DeliverPending, WorkerDrops, WorkerDone, queues
      <3> QED  BY <1>3, <3>1
    <2> QED  BY <2>1, <2>2
  <1>11. \A k \in Lines : k # w[1] => terminal'[k] = terminal[k]
    BY <1>3
       DEF WorkerThread, WorkerLooks, WorkerLooksAgain, WorkerForwards, WorkerHandsOn,
           WorkerTakes, WorkerCarries, WorkerCarried, DeliverPending, WorkerDrops, WorkerDone,
           Handed, Heard, ends
  <1> QED  BY <1>1, <1>3, <1>4, <1>5, <1>6, <1>7, <1>8, <1>9, <1>10, <1>11 DEF OnlyLine

\* A source leaves its line's workers where they are.
LEMMA SourceTakesInLine ==
    ASSUME Types, NEW l \in Lines, SourceThread(l) \/ SourceFails(l)
    PROVE  TakesInLine(l)
  <1>1. /\ Source(l) \in Sources /\ Source(l) \notin Workers /\ Source(l) \in Threads
        /\ After(Source(l)) \in Workers /\ After(Source(l)) \in Threads
        /\ LastOf(l) \in Workers /\ LastOf(l) \in Threads
        /\ \A w \in Workers : w \in Threads /\ w # Source(l)
    BY ThreadsAre, Neighbours, LineIs
  <1>2. tpc \in [Threads -> SourcePlaces \cup WorkerPlaces]
        /\ control \in [Threads -> Seq([msg : StageNames, direct : BOOLEAN])]
    BY DEF Types, ThreadTypes, RequestTypes
  <1> HIDE DEF Source
  <1>3. \E p : tpc' = [tpc EXCEPT ![Source(l)] = p]
    BY DEF SourceThread, SourceFails, SourceBegins, SourceProduces, SourceHandsOn, SourceEnds,
           SourceTakes, SourceNext, SourceFinishes, SourceFinished, SourceCarried,
           SourceReturns, DropsReceiver, SourceDrops, SourceJoins, DropsQueue, GoTo
  <1>4. waiting' = waiting \/ waiting' = waiting \ {Source(l)}
    BY DEF SourceThread, SourceFails, SourceBegins, SourceProduces, SourceHandsOn, SourceEnds,
           SourceTakes, SourceFinishes, SourceFinished, SourceCarried,
           SourceReturns, DropsReceiver, SourceDrops, SourceJoins, requests
  <1>5. \/ control' = control
        \/ \E x : control' = [control EXCEPT ![Source(l)] = x]
        \/ control' = [control EXCEPT ![After(Source(l))] = Append(@, Carried("Stop"))]
    BY DEF SourceThread, SourceFails, SourceBegins, SourceProduces, SourceHandsOn, SourceEnds,
           SourceTakes, SourceFinishes, SourceFinished, SourceCarried,
           SourceReturns, DropsReceiver, SourceDrops, SourceJoins, requests
  <1>6. \A w \in Workers : tpc'[w] = tpc[w]
    BY <1>1, <1>2, <1>3
  <1>7. \A w \in Workers : w \in waiting' <=> w \in waiting
    BY <1>1, <1>4
  <1>8. \A w \in Workers : (\E i \in 1 .. Len(control[w]) : control[w][i].direct) =>
            \E i \in 1 .. Len(control'[w]) : control'[w][i].direct
    <2> TAKE w \in Workers
    <2> HAVE \E i \in 1 .. Len(control[w]) : control[w][i].direct
    <2>1. PICK i \in 1 .. Len(control[w]) : control[w][i].direct
      OBVIOUS
    <2>2. CASE control'[w] = control[w]
      BY <2>1, <2>2
    <2>3. CASE control'[w] # control[w]
      <3>1. control'[w] = Append(control[w], Carried("Stop"))
        BY <1>1, <1>2, <1>5, <2>3
      <3>2. i \in 1 .. Len(control'[w]) /\ control'[w][i] = control[w][i]
        <4>1. PICK x : x = Carried("Stop")
          OBVIOUS
        <4>2. PICK q \in Seq([msg : StageNames, direct : BOOLEAN]) : q = control[w]
          BY <1>1, <1>2
        <4>3. control'[w] = Append(q, x) /\ i \in 1 .. Len(q)
          BY <2>1, <3>1, <4>1, <4>2
        <4>4. Len(Append(q, x)) = Len(q) + 1 /\ Append(q, x)[i] = q[i] /\ Len(q) \in Nat
          BY <4>3
        <4> QED  BY <4>2, <4>3, <4>4
      <3> QED  BY <2>1, <3>2
    <2> QED  BY <2>2, <2>3
  <1>9. waiting' \subseteq waiting
    BY <1>4
  <1>10. LineOver(l) => LineOver(l)'
    BY <1>1, <1>6 DEF LineOver
  <1> QED  BY <1>6, <1>7, <1>8, <1>9, <1>10 DEF TakesInLine

\* So what a source leaves its own line in is all there is to show.
LEMMA SourceStep ==
    ASSUME Types, Finishes, NEW l \in Lines, SourceThread(l) \/ SourceFails(l), OfLine(l)'
    PROVE  Finishes'
  BY SourceIsOfLine, SourceTakesInLine, ThreadStep

\* A worker takes its own requests, and is paused by a Pause alone.
LEMMA WorkerTakesInLine ==
    ASSUME Types, Protocol, NEW w \in Workers, WorkerThread(w)
    PROVE  TakesInLine(w[1])
  <1>1. w \in Threads /\ w[1] \in Lines /\ LastOf(w[1]) \in Threads /\ LastOf(w[1]) \in Workers
        /\ \A u \in Workers : u \in Threads
    BY ThreadsAre, LineIs
  <1>2. ~IsLast(w) => After(w) \in Workers /\ After(w) \in Threads /\ After(w) # w
    BY <1>1, Neighbours, ThreadsAre
  <1>3. tpc \in [Threads -> SourcePlaces \cup WorkerPlaces]
        /\ control \in [Threads -> Seq([msg : StageNames, direct : BOOLEAN])]
    BY DEF Types, ThreadTypes, RequestTypes
  <1>4. \E p : /\ tpc' = [tpc EXCEPT ![w] = p]
               /\ tpc[w] \in Over => p \in Over
               /\ p = "paused" => WorkerTakes(w)
    <2>1. CASE WorkerTakes(w)
      BY <2>1 DEF WorkerTakes, WorkerNext, GoTo, Over
    <2>2. CASE ~WorkerTakes(w)
      BY <2>2
         DEF WorkerThread, WorkerLooks, WorkerLooksAgain, WorkerForwards, WorkerHandsOn,
             WorkerCarries, WorkerCarried, DeliverPending, GivesUp, WorkerDrops,
             DropsQueue, WorkerDone, GoTo, Over
    <2> QED  BY <2>1, <2>2
  <1>5. PICK p : /\ tpc' = [tpc EXCEPT ![w] = p]
                 /\ tpc[w] \in Over => p \in Over
                 /\ p = "paused" => WorkerTakes(w)
    BY <1>4
  <1>6. waiting' = waiting \/ waiting' = waiting \ {w}
    BY DEF WorkerThread, WorkerLooks, WorkerLooksAgain, WorkerForwards, WorkerHandsOn,
           WorkerTakes, WorkerCarries, WorkerCarried, DeliverPending, WorkerDrops, WorkerDone,
           requests
  <1>7. LineOver(w[1]) => LineOver(w[1])'
    BY <1>1, <1>3, <1>5 DEF LineOver
  <1>8. ASSUME NEW u \in Workers, u \in waiting', \E i \in 1 .. Len(control[u]) : control[u][i].direct
        PROVE  \E i \in 1 .. Len(control'[u]) : control'[u][i].direct
    <2>1. PICK i \in 1 .. Len(control[u]) : control[u][i].direct
      BY <1>8
    <2>2. PICK q \in Seq([msg : StageNames, direct : BOOLEAN]) : q = control[u]
      BY <1>1, <1>3
    <2>3. CASE control'[u] = control[u]
      BY <2>1, <2>3
    <2>4. CASE WorkerCarries(w) /\ u = After(w)
      <3>1. control'[u] = Append(q, Head(control[w]))
        BY <1>1, <1>2, <1>3, <2>2, <2>4 DEF WorkerCarries, GoesFurther
      <3>2. PICK x : x = Head(control[w])
        OBVIOUS
      <3>3. i \in 1 .. Len(q)
        BY <2>1, <2>2
      <3>4. Len(Append(q, x)) = Len(q) + 1 /\ Append(q, x)[i] = q[i] /\ Len(q) \in Nat
        BY <3>3
      <3> QED  BY <2>1, <2>2, <3>1, <3>2, <3>3, <3>4
    <2>5. CASE (WorkerCarries(w) \/ WorkerTakes(w)) /\ u = w
      <3>1. control[w] # <<>> /\ control'[w] = Tail(control[w])
        BY <1>1, <1>2, <1>3, <2>5 DEF WorkerCarries, WorkerTakes, GoesFurther
      <3>2. ~Head(control[w]).direct
        BY <1>8, <2>5 DEF WorkerCarries, WorkerTakes, GoesFurther
      <3>3. q = control[w] /\ q # <<>> /\ control'[w] = Tail(q) /\ ~q[1].direct
            /\ i \in 1 .. Len(q) /\ q[i].direct
        BY <2>1, <2>2, <2>5, <3>1, <3>2, WorkerAsked
      <3>4. Len(q) \in Nat /\ Len(Tail(q)) = Len(q) - 1
            /\ \A j \in 1 .. Len(Tail(q)) : Tail(q)[j] = q[j+1] /\ j+1 \in 1 .. Len(q)
        BY <3>3, HeadOf
      <3>5. PICK n \in Nat : n = Len(q)
        BY <3>4
      <3>6. i \in 1 .. n /\ i # 1
        BY <3>3, <3>5
      <3>7. i - 1 \in 1 .. n - 1 /\ (i - 1) + 1 = i
        BY <3>6
      <3>8. i - 1 \in 1 .. Len(Tail(q)) /\ Tail(q)[i - 1] = q[i]
        BY <3>4, <3>5, <3>7
      <3> QED  BY <2>5, <3>3, <3>8
    <2>6. CASE DeliverPending(w) \/ WorkerDone(w)
      <3>1. waiting' = waiting \ {w} /\ control' = [control EXCEPT ![w] = <<>>]
        BY <2>6 DEF DeliverPending, WorkerDone
      <3> QED  BY <1>1, <1>3, <1>8, <3>1
    <2>7. CASE WorkerLooks(w) \/ WorkerLooksAgain(w) \/ WorkerForwards(w) \/ WorkerHandsOn(w)
               \/ WorkerCarried(w) \/ WorkerDrops(w)
      <3>1. control' = control
        BY <2>7 DEF WorkerLooks, WorkerLooksAgain, WorkerForwards, WorkerHandsOn, WorkerCarried,
                    WorkerDrops, requests
      <3> QED  BY <2>3, <3>1
    <2>8. CASE WorkerTakes(w) /\ u # w
      <3>1. control'[u] = control[u]
        BY <1>1, <1>3, <2>8 DEF WorkerTakes
      <3> QED  BY <2>3, <3>1
    <2>9. CASE WorkerCarries(w) /\ u # w /\ u # After(w)
      <3>1. control'[u] = control[u]
        BY <1>1, <1>3, <2>9 DEF WorkerCarries
      <3> QED  BY <2>3, <3>1
    <2> QED  BY <2>4, <2>5, <2>6, <2>7, <2>8, <2>9 DEF WorkerThread
  <1>9. ASSUME NEW u \in Workers, tpc'[u] = "paused"
        PROVE  \/ Out("Pause")
               \/ tpc[u] = "paused" /\ (Out("Resume") /\ u \in waiting => u \in waiting')
    <2>1. CASE u # w
      <3>1. tpc[u] = "paused"
        BY <1>1, <1>3, <1>5, <1>9, <2>1
      <3>2. u \in waiting => u \in waiting'
        BY <1>6, <2>1
      <3> QED  BY <3>1, <3>2
    <2>2. CASE u = w
      <3>1. p = "paused" /\ WorkerTakes(w)
        BY <1>1, <1>3, <1>5, <1>9, <2>2
      <3>2. control[w] # <<>> /\ WorkerNext(w, Head(control[w]).msg)
        BY <3>1 DEF WorkerTakes
      <3>3. /\ Head(control[w]).msg # "Stop"
            /\ IF tpc[w] = "paused" THEN Holds ELSE Head(control[w]).msg = "Pause"
        <4>1. PICK m : m = Head(control[w]).msg
          OBVIOUS
        <4>2. PICK x \in {"look", "paused", "ending"} :
                  /\ tpc' = [tpc EXCEPT ![w] = x]
                  /\ x = "paused" <=> /\ m # "Stop"
                                      /\ IF tpc[w] = "paused" THEN Holds ELSE m = "Pause"
          BY <3>2, <4>1, WorkerNextIs
        <4>3. x = "paused"
          BY <1>1, <1>3, <1>9, <2>2, <4>2
        <4> QED  BY <4>1, <4>2, <4>3
      <3>4. CASE tpc[w] = "paused"
        <4>1. ~Out("Resume")
          BY <3>3, <3>4 DEF Types, Plan, Out, Holds
        <4> QED  BY <2>2, <3>4, <4>1
      <3>5. CASE tpc[w] # "paused"
        <4>1. Head(control[w]).msg = "Pause" /\ Head(control[w]) = control[w][1]
          BY <3>2, <3>3, <3>5, WorkerAsked
        <4>2. control[w][1].direct
          BY <3>2, <4>1, WorkerAsked
        <4>3. Out(control[w][1].msg)
          BY <3>2, <4>2, WorkerAsked
        <4> QED  BY <4>1, <4>3
      <3> QED  BY <3>4, <3>5
    <2> QED  BY <2>1, <2>2
  <1>10. waiting' \subseteq waiting
    BY <1>6
  <1> QED  BY <1>7, <1>8, <1>9, <1>10 DEF TakesInLine

\* So what a worker leaves its line in is all there is to show.
LEMMA WorkerStep ==
    ASSUME Types, Protocol, Finishes, NEW w \in Workers, WorkerThread(w), OfLine(w[1])'
    PROVE  Finishes'
  BY ThreadsAre, WorkerIsOfLine, WorkerTakesInLine, ThreadStep

-----------------------------------------------------------------------------
(* What a step keeps of a line.                                            *)

\* What is on its way in a line stays on it.
Kept(l) ==
    /\ Met(l) => Met(l)'
    /\ EndOnWay(l) => EndOnWay(l)'
    /\ \A u \in Threads : u[1] = l /\ Drained(u) => Drained(u)'

\* It does where nothing is moved.
LEMMA NothingMoved ==
    ASSUME NEW l \in Lines,
           \A w \in Workers : w[1] = l =>
               /\ channel'[w] = channel[w] /\ flushing'[w] = flushing[w]
               /\ hand'[w] = hand[w] /\ (tpc'[w] = "push" <=> tpc[w] = "push"),
           terminal'[l].ended <=> terminal[l].ended
    PROVE  Kept(l)
  <1>1. \A w \in Of(l) : /\ channel'[w] = channel[w] /\ flushing'[w] = flushing[w]
                         /\ hand'[w] = hand[w] /\ (tpc'[w] = "push" <=> tpc[w] = "push")
    BY DEF Of
  <1>2. \A w \in Of(l) : (Empty(w)' <=> Empty(w)) /\ (EndIn(w)' <=> EndIn(w))
    BY <1>1 DEF Empty, EndIn
  <1>3. \A w \in Of(l) : (Queued(w)' <=> Queued(w)) /\ (InHand(w)' <=> InHand(w))
    BY <1>1 DEF Queued, InHand
  <1>4. \A u \in Of(l) : SegmentComes(u) => SegmentComes(u)'
    <2> TAKE u \in Of(l)
    <2>1. u[1] = l
      BY DEF Of
    <2> QED  BY <1>3, <2>1 DEF SegmentComes
  <1>5. Met(l) => Met(l)'
    BY <1>1, <1>4 DEF Met
  <1>6. EndOnWay(l) => EndOnWay(l)'
    BY <1>2 DEF EndOnWay
  <1>7. \A u \in Threads : u[1] = l /\ Drained(u) => Drained(u)'
    BY <1>2 DEF Drained
  <1> QED  BY <1>5, <1>6, <1>7 DEF Kept

\* What its source pushes comes last of all there is.
LEMMA PushComesLast ==
    ASSUME Types, NEW l \in Lines, NEW item, ~Gone(After(Source(l))),
           channel' = Pushed(After(Source(l)), item), flushing' = flushing,
           \A w \in Workers : tpc'[w] = tpc[w] /\ hand'[w] = hand[w]
    PROVE  /\ Met(l) => Met(l)'
           /\ item.kind = "flushedSegment" => Met(l)'
           /\ item.kind = "eos" => EndOnWay(l)'
  <1> DEFINE a == After(Source(l))
  <1>1. a \in Workers /\ a \in Of(l) /\ a[2] = 1 /\ a[1] = l
    BY ThreadsAre, Neighbours DEF Of
  <1>2. channel \in [Workers -> Seq(ItemsTo(timeline))]
    BY DEF Types, ItemTypes
  <1>3. channel' = [channel EXCEPT ![a] = Append(@, item)]
    BY DEF Pushed
  <1> HIDE DEF a
  <1>4. PICK q \in Seq(ItemsTo(timeline)) : q = channel[a]
    BY <1>1, <1>2
  <1>5. channel'[a] = Append(q, item) /\ \A w \in Workers : w # a => channel'[w] = channel[w]
    BY <1>1, <1>2, <1>3, <1>4
  <1>6. Len(q) \in Nat /\ Len(Append(q, item)) = Len(q) + 1
        /\ Append(q, item)[Len(q) + 1] = item /\ Append(q, item) # <<>>
        /\ \A i \in 1 .. Len(q) : Append(q, item)[i] = q[i]
    OBVIOUS
  <1>7. \A w \in Of(l) : w \in Workers /\ w[1] = l /\ w[2] \in Int /\ 1 <= w[2]
    BY LineIs
  <1>8. \A w \in Of(l) : (Queued(w) => Queued(w)') /\ (InHand(w) => InHand(w)')
    <2> TAKE w \in Of(l)
    <2>1. InHand(w) => InHand(w)'
      BY <1>7 DEF InHand
    <2>2. CASE w # a
      BY <1>5, <1>7, <2>1, <2>2 DEF Queued
    <2>3. CASE w = a
      <3> SUFFICES ASSUME Queued(w) PROVE Queued(w)'
        BY <2>1
      <3>1. PICK i \in 1 .. Len(q) : q[i].kind = "flushedSegment"
        BY <1>4, <2>3 DEF Queued
      <3>2. i \in 1 .. Len(Append(q, item)) /\ Append(q, item)[i].kind = "flushedSegment"
        BY <1>6, <3>1
      <3> QED  BY <1>5, <2>3, <3>2 DEF Queued
    <2> QED  BY <2>2, <2>3
  <1>9. Met(l) => Met(l)'
    <2> SUFFICES ASSUME Met(l), NEW u \in Of(l), flushing'[u] PROVE SegmentComes(u)'
      BY DEF Met
    <2>1. SegmentComes(u) /\ u[1] = l
      BY <1>7 DEF Met
    <2> QED  BY <1>8, <2>1 DEF SegmentComes
  <1>10. item.kind = "flushedSegment" => Met(l)'
    <2> SUFFICES ASSUME item.kind = "flushedSegment", NEW u \in Of(l) PROVE SegmentComes(u)'
      BY DEF Met
    <2>1. Len(q) + 1 \in 1 .. Len(Append(q, item))
      BY <1>6
    <2>2. Queued(a)'
      BY <1>5, <1>6, <2>1 DEF Queued
    <2>3. a[2] <= u[2] /\ u[1] = l
      BY <1>1, <1>7
    <2> QED  BY <1>1, <2>2, <2>3 DEF SegmentComes
  <1>11. item.kind = "eos" => EndOnWay(l)'
    <2> SUFFICES ASSUME item.kind = "eos" PROVE EndOnWay(l)'
      OBVIOUS
    <2>1. EndIn(a)'
      BY <1>5, <1>6 DEF EndIn
    <2>2. \A v \in Of(l) : ~(v[2] < a[2])
      BY <1>1, <1>7
    <2> QED  BY <1>1, <2>1, <2>2 DEF EndOnWay
  <1> QED  BY <1>9, <1>10, <1>11

\* So what a line is to be while it is open stays.
LEMMA OpenStays ==
    ASSUME NEW l \in Lines, OfLine(l), Kept(l), pad'[l] = pad[l], LineOver(l) => LineOver(l)',
           ~Renewing(l)' => ~Renewing(l) \/ LineOver(l)
    PROVE  LineOpen(l)'
  <1> SUFFICES ASSUME ~Renewing(l)', ~LineOver(l)'
               PROVE  ~pad'[l].flushing /\ Met(l)' /\ (pad'[l].ended => EndOnWay(l)')
    BY DEF LineOpen
  <1>1. ~pad[l].flushing /\ Met(l) /\ (pad[l].ended => EndOnWay(l))
    BY DEF OfLine, LineOpen
  <1> QED  BY <1>1 DEF Kept

\* A thread that a step leaves over leaves its line's end.
NewlyOver(l) ==
    \A u \in Threads : u[1] = l /\ IsOver(u)' /\ ~IsOver(u) => EndsIn(u)'

\* And what those over before have left is kept.
LEMMA EndsKept ==
    ASSUME NEW l \in Lines, OfLine(l), NewlyOver(l), LineOver(l) => LineOver(l)',
           StopComes(l) => StopComes(l)' \/ LineOver(l)',
           Drains(l) => Drains(l)' /\ \A u \in Threads : u[1] = l /\ Drained(u) => Drained(u)'
    PROVE  LeavesEnd(l)'
  <1> SUFFICES ASSUME NEW u \in Threads, u[1] = l, IsOver(u)', IsOver(u) PROVE EndsIn(u)'
    BY DEF LeavesEnd, NewlyOver
  <1>1. EndsIn(u)
    BY DEF OfLine, LeavesEnd
  <1> QED  BY <1>1 DEF EndsIn

\* Among those not over, none leaves its end to a finish before its source does.
LEMMA NoneDrains ==
    ASSUME NEW l \in Lines, tpc[Source(l)] \notin Left
    PROVE  ~Drains(l)
  BY DEF Drains

\* What is asked of all but a finish does not wait for anything drained.
LEMMA OverIsEnd ==
    ASSUME Types, Finishes, NEW t \in Threads, IsOver(t), ~Out("Stop"), ~ToNothing \/ ~Finishing
    PROVE  LineOver(t[1])
  <1>1. t[1] \in Lines /\ OfLine(t[1])
    BY ThreadsAre DEF Finishes
  <1>2. EndsIn(t)
    BY <1>1 DEF OfLine, LeavesEnd
  <1> QED  BY <1>2 DEF EndsIn, StopComes, Drains

-----------------------------------------------------------------------------
(* What each step of a source leaves its line in.                          *)

\* A source still running.
LEMMA RunsOn ==
    ASSUME Types, NEW l \in Lines, OfLine(l), NEW p, tpc[Source(l)] \notin Left,
           tpc' = [tpc EXCEPT ![Source(l)] = p],
           UNCHANGED <<todo, step, holder, call, sending, terminal>>,
           waiting' = waiting \/ waiting' = waiting \ {Source(l)},
           LineOpen(l)', Begun(l)', Lingers(l)', p \in Left => EndsIn(Source(l))'
    PROVE  OfLine(l)'
  <1>1. Source(l) \in Sources /\ Source(l) \in Threads /\ Source(l) \notin Workers
        /\ LastOf(l) \in Threads /\ LastOf(l) \in Workers
    BY ThreadsAre, LineIs
  <1>2. tpc'[Source(l)] = p /\ \A u \in Threads : u # Source(l) => tpc'[u] = tpc[u]
    BY <1>1 DEF Types, ThreadTypes
  <1>3. LineOver(l)' <=> LineOver(l)
    BY <1>1, <1>2 DEF LineOver
  <1>4. NewlyOver(l)
    <2> SUFFICES ASSUME NEW u \in Threads, u[1] = l, IsOver(u)', ~IsOver(u) PROVE EndsIn(u)'
      BY DEF NewlyOver
    <2>1. CASE u = Source(l)
      <3>1. tpc'[u] \in Left
        BY <1>1, <2>1 DEF IsOver
      <3> QED  BY <1>2, <2>1, <3>1
    <2>2. CASE u # Source(l)
      BY <1>2, <2>2 DEF IsOver
    <2> QED  BY <2>1, <2>2
  <1>5. StopComes(l) => StopComes(l)'
    BY <1>1 DEF StopComes, Out
  <1>6. ~Drains(l)
    BY NoneDrains
  <1>7. LeavesEnd(l)'
    BY <1>3, <1>4, <1>5, <1>6, EndsKept
  <1>8. LineEnds(l)'
    BY <1>3 DEF OfLine, LineEnds
  <1> QED  BY <1>7, <1>8 DEF OfLine

\* A source that has left.
LEMMA LeavesOn ==
    ASSUME Types, NEW l \in Lines, OfLine(l), NEW p \in Left, tpc[Source(l)] \in Left,
           tpc' = [tpc EXCEPT ![Source(l)] = p],
           UNCHANGED <<todo, step, holder, call, paused, sending, terminal, channel, flushing,
                       hand, pad>>,
           waiting' = waiting \/ waiting' = waiting \ {Source(l)}
    PROVE  OfLine(l)'
  <1>1. Source(l) \in Sources /\ Source(l) \in Threads /\ Source(l) \notin Workers
        /\ LastOf(l) \in Threads /\ LastOf(l) \in Workers /\ Source(l)[1] = l
        /\ \A w \in Workers : w \in Threads
    BY ThreadsAre, LineIs
  <1>2. tpc'[Source(l)] = p /\ \A u \in Threads : u # Source(l) => tpc'[u] = tpc[u]
    BY <1>1 DEF Types, ThreadTypes
  <1>3. LineOver(l)' <=> LineOver(l)
    BY <1>1, <1>2 DEF LineOver
  <1>4. Kept(l)
    BY <1>1, <1>2, NothingMoved
  <1>5. ~Renewing(l)' => ~Renewing(l) \/ LineOver(l)
    <2> SUFFICES ASSUME Renewing(l), ~Renewing(l)' PROVE LineOver(l)
      OBVIOUS
    <2>1. todo # <<>> /\ todo[1] = "Seek"
      BY DEF Renewing
    <2>2. ~Out("Stop") /\ ~ToNothing
      BY <2>1 DEF Out, ToNothing
    <2>3. EndsIn(Source(l))
      BY <1>1 DEF OfLine, LeavesEnd, IsOver
    <2> QED  BY <1>1, <2>2, <2>3 DEF EndsIn, StopComes, Drains
  <1>6. LineOpen(l)'
    BY <1>3, <1>4, <1>5, OpenStays
  <1>7. NewlyOver(l)
    <2> SUFFICES ASSUME NEW u \in Threads, u[1] = l, IsOver(u)', ~IsOver(u) PROVE FALSE
      BY DEF NewlyOver
    <2> QED  BY <1>1, <1>2 DEF IsOver
  <1>8. StopComes(l) => StopComes(l)'
    BY <1>1 DEF StopComes, Out
  <1>9. Drains(l) => Drains(l)' /\ \A u \in Threads : u[1] = l /\ Drained(u) => Drained(u)'
    BY <1>2, <1>4 DEF Drains, Finishing, ToNothing, Kept
  <1>10. LeavesEnd(l)'
    BY <1>3, <1>7, <1>8, <1>9, EndsKept
  <1>11. LineEnds(l)'
    BY <1>3 DEF OfLine, LineEnds
  <1>12. Begun(l)' /\ Lingers(l)'
    BY <1>2 DEF Begun, Lingers, Left
  <1> QED  BY <1>6, <1>10, <1>11, <1>12 DEF OfLine

\* The line of a source.
LEMMA SourceOf ==
    ASSUME Types, Finishes, NEW l \in Lines
    PROVE  /\ Source(l) \in Sources /\ Source(l) \in Threads /\ Source(l) \notin Workers
           /\ Source(l)[1] = l /\ ~IsLast(Source(l))
           /\ After(Source(l)) \in Workers /\ After(Source(l)) \in Threads
           /\ After(Source(l))[1] = l
           /\ LastOf(l) \in Threads /\ LastOf(l) \in Workers /\ LastOf(l) # Source(l)
           /\ OfLine(l) /\ LineOpen(l) /\ Begun(l) /\ Lingers(l)
           /\ pad \in [Lines -> [flushing : BOOLEAN, ended : BOOLEAN]]
           /\ source \in [Lines -> [pos : 0..Length, seg : 0..timeline, sought : BOOLEAN]]
           /\ back \in [Sources -> {"ask", "ending", "linger"}]
           /\ \A w \in Workers : w \in Threads /\ w # Source(l)
           /\ \A p : tpc' = [tpc EXCEPT ![Source(l)] = p] =>
                  /\ tpc'[Source(l)] = p
                  /\ \A u \in Threads : u # Source(l) => tpc'[u] = tpc[u]
                  /\ LineOver(l)' <=> LineOver(l)
  <1>1. /\ Source(l) \in Sources /\ Source(l) \in Threads /\ Source(l) \notin Workers
        /\ Source(l)[1] = l /\ ~IsLast(Source(l))
        /\ After(Source(l)) \in Workers /\ After(Source(l)) \in Threads
        /\ After(Source(l))[1] = l
        /\ LastOf(l) \in Threads /\ LastOf(l) \in Workers /\ LastOf(l) # Source(l)
        /\ \A w \in Workers : w \in Threads /\ w # Source(l)
    BY ThreadsAre, Neighbours, LineIs
  <1>2. OfLine(l) /\ LineOpen(l) /\ Begun(l) /\ Lingers(l)
    BY DEF Finishes, OfLine
  <1>3. /\ pad \in [Lines -> [flushing : BOOLEAN, ended : BOOLEAN]]
        /\ source \in [Lines -> [pos : 0..Length, seg : 0..timeline, sought : BOOLEAN]]
        /\ back \in [Sources -> {"ask", "ending", "linger"}]
    BY DEF Types, SourceTypes, ThreadTypes
  <1>4. ASSUME NEW p, tpc' = [tpc EXCEPT ![Source(l)] = p]
        PROVE  /\ tpc'[Source(l)] = p
               /\ \A u \in Threads : u # Source(l) => tpc'[u] = tpc[u]
               /\ LineOver(l)' <=> LineOver(l)
    <2>1. tpc'[Source(l)] = p /\ \A u \in Threads : u # Source(l) => tpc'[u] = tpc[u]
      BY <1>1, <1>4 DEF Types, ThreadTypes
    <2> QED  BY <1>1, <2>1 DEF LineOver
  <1> QED  BY <1>1, <1>2, <1>3, <1>4

\* A source that pushes: what its line is to be while it is open.
LEMMA PushOpens ==
    ASSUME Types, Protocol, Finishes, NEW l \in Lines, NEW p, NEW item,
           tpc' = [tpc EXCEPT ![Source(l)] = p],
           \A w \in Workers : hand'[w] = hand[w],
           flushing' = flushing, channel' = Pushed(After(Source(l)), item),
           ~LineOver(l)' => Met(l) \/ item.kind = "flushedSegment",
           ~LineOver(l)' => ~pad'[l].flushing /\ (pad'[l].ended => item.kind = "eos")
    PROVE  LineOpen(l)'
  <1>1. LineOver(l)' <=> LineOver(l)
    BY SourceOf
  <1>2. \A w \in Workers : tpc'[w] = tpc[w]
    BY SourceOf
  <1>3. ~LineOver(l) => ~Gone(After(Source(l)))
    BY SourceOf, GoneIsOver
  <1> SUFFICES ASSUME ~LineOver(l)'
               PROVE  ~pad'[l].flushing /\ Met(l)' /\ (pad'[l].ended => EndOnWay(l)')
    BY DEF LineOpen
  <1>4. /\ Met(l) => Met(l)'
        /\ item.kind = "flushedSegment" => Met(l)'
        /\ item.kind = "eos" => EndOnWay(l)'
    BY <1>1, <1>2, <1>3, PushComesLast
  <1> QED  BY <1>4

\* What of a renewal is left does not hang on a step that takes nothing.
LEMMA RenewsOn ==
    ASSUME NEW l \in Lines, UNCHANGED <<todo, step, sending>>,
           Source(l) \in waiting => Source(l) \in waiting' \/ Out("Finish")
    PROVE  Renewing(l) => Renewing(l)'
  BY DEF Renewing, Out

\* A source that begins hands its segment on: its line's end is still to come.
LEMMA SourceBeginsFinishes ==
    ASSUME Types, Protocol, Finishes, NEW l \in Lines, SourceBegins(l)
    PROVE  Finishes'
  <1>1. tpc' = [tpc EXCEPT ![Source(l)] = "ask"] /\ tpc[Source(l)] = "begin"
    BY DEF SourceBegins, GoTo
  <1>2. /\ UNCHANGED <<todo, step, holder, call, sending, terminal, waiting, hand, flushing, pad>>
        /\ channel' = Pushed(After(Source(l)), Segment(timeline, FALSE))
    BY DEF SourceBegins, lock, callers, ends, requests
  <1>3. ~pad[l].ended /\ ~pad[l].flushing
    BY <1>1, SourceOf DEF Begun
  <1>4. LineOpen(l)'
    <2>1. CASE Renewing(l)
      BY <1>2, <2>1, RenewsOn DEF LineOpen
    <2>2. CASE ~Renewing(l)
      <3>1. ~LineOver(l)' => Met(l)
        BY <1>1, <2>2, SourceOf DEF LineOpen
      <3> QED  BY <1>1, <1>2, <1>3, <3>1, PushOpens
    <2> QED  BY <2>1, <2>2
  <1>5. Begun(l)' /\ Lingers(l)'
    <2>1. tpc'[Source(l)] = "ask"
      BY <1>1, SourceOf
    <2> QED  BY <2>1 DEF Begun, Lingers
  <1>6. OfLine(l)'
    BY <1>1, <1>2, <1>4, <1>5, SourceOf, RunsOn DEF Left
  <1> QED  BY <1>6, SourceStep DEF SourceThread

\* What a source makes is in its hand, and the line is as open as it was.
LEMMA SourceProducesFinishes ==
    ASSUME Types, Protocol, Finishes, NEW l \in Lines, SourceProduces(l)
    PROVE  Finishes'
  <1>1. \E p \in {"push", "ending"} : tpc' = [tpc EXCEPT ![Source(l)] = p]
    BY DEF SourceProduces, GoTo
  <1>2. PICK p \in {"push", "ending"} : tpc' = [tpc EXCEPT ![Source(l)] = p]
    BY <1>1
  <1>3. /\ UNCHANGED <<todo, step, holder, call, sending, terminal, waiting, flushing, pad, channel>>
        /\ tpc[Source(l)] = "ask"
    BY DEF SourceProduces, lock, callers, requests, queues
  <1>4. \A w \in Workers : hand'[w] = hand[w]
    <2>1. hand \in [Threads -> Items]
      BY DEF Types, ItemTypes
    <2>2. hand' = hand \/ \E x : hand' = [hand EXCEPT ![Source(l)] = x]
      BY DEF SourceProduces
    <2> QED  BY <2>1, <2>2, SourceOf
  <1>5. Kept(l)
    BY <1>2, <1>3, <1>4, SourceOf, NothingMoved
  <1>6. Renewing(l) => Renewing(l)'
    BY <1>3, RenewsOn
  <1>7. LineOpen(l)'
    BY <1>2, <1>3, <1>5, <1>6, SourceOf, OpenStays
  <1>8. Begun(l)' /\ Lingers(l)'
    BY <1>2, SourceOf DEF Begun, Lingers
  <1>9. OfLine(l)'
    BY <1>2, <1>3, <1>7, <1>8, SourceOf, RunsOn DEF Left
  <1> QED  BY <1>9, SourceStep DEF SourceThread

\* What a source hands on comes last in its line, and before any end.
LEMMA SourceHandsOnFinishes ==
    ASSUME Types, Protocol, Finishes, NEW l \in Lines, SourceHandsOn(l)
    PROVE  Finishes'
  <1>1. tpc' = [tpc EXCEPT ![Source(l)] = "ask"] /\ tpc[Source(l)] = "push"
    BY DEF SourceHandsOn, GoTo
  <1>2. /\ UNCHANGED <<todo, step, holder, call, sending, terminal, waiting, flushing>>
        /\ pad' = [pad EXCEPT ![l].ended = @ /\ pad[l].flushing]
        /\ hand' = [hand EXCEPT ![Source(l)] = NoItem]
        /\ channel' = IF pad[l].flushing THEN channel
                      ELSE Pushed(After(Source(l)), hand[Source(l)])
    BY DEF SourceHandsOn, lock, callers, requests
  <1>3. \A w \in Workers : hand'[w] = hand[w]
    <2>1. hand \in [Threads -> Items]
      BY DEF Types, ItemTypes
    <2> QED  BY <1>2, <2>1, SourceOf
  <1>4. (pad'[l].flushing <=> pad[l].flushing) /\ (pad'[l].ended <=> pad[l].ended /\ pad[l].flushing)
    <2>1. PICK e, f \in BOOLEAN : pad[l] = [flushing |-> f, ended |-> e]
      BY SourceOf
    <2>2. pad'[l] = [pad[l] EXCEPT !.ended = @ /\ pad[l].flushing]
      BY <1>2, SourceOf
    <2> QED  BY <2>1, <2>2
  <1>5. LineOpen(l)'
    <2>1. CASE Renewing(l)
      BY <1>2, <2>1, RenewsOn DEF LineOpen
    <2>2. CASE ~Renewing(l) /\ ~LineOver(l)'
      <3>1. Met(l) /\ ~pad[l].flushing
        BY <1>1, <2>2, SourceOf DEF LineOpen
      <3>2. channel' = Pushed(After(Source(l)), hand[Source(l)])
        BY <1>2, <3>1
      <3> QED  BY <1>1, <1>2, <1>3, <1>4, <3>1, <3>2, PushOpens
    <2>3. CASE LineOver(l)'
      BY <2>3 DEF LineOpen
    <2> QED  BY <2>1, <2>2, <2>3
  <1>6. Begun(l)' /\ Lingers(l)'
    BY <1>1, SourceOf DEF Begun, Lingers
  <1>7. OfLine(l)'
    BY <1>1, <1>2, <1>5, <1>6, SourceOf, RunsOn DEF Left
  <1> QED  BY <1>7, SourceStep DEF SourceThread

\* A line whose source hands its end on: the end is behind all else, or was before.
LEMMA EndOpens ==
    ASSUME Types, Protocol, Finishes, NEW l \in Lines, NEW p,
           tpc' = [tpc EXCEPT ![Source(l)] = p],
           UNCHANGED <<todo, step, sending, hand, flushing, terminal>>,
           Source(l) \in waiting => Source(l) \in waiting' \/ Out("Finish"),
           channel' = EndPushed(l),
           pad' = [pad EXCEPT ![l].ended = @ \/ PadPasses(l)]
    PROVE  /\ LineOpen(l)'
           /\ pad'[l].ended \/ pad'[l].flushing
           /\ pad'[l].flushing <=> pad[l].flushing
  <1>1. (pad'[l].flushing <=> pad[l].flushing) /\ (pad'[l].ended <=> pad[l].ended \/ ~pad[l].flushing)
    <2>1. PICK e, f \in BOOLEAN : pad[l] = [flushing |-> f, ended |-> e]
      BY SourceOf
    <2>2. pad'[l] = [pad[l] EXCEPT !.ended = @ \/ PadPasses(l)]
      BY SourceOf
    <2> QED  BY <2>1, <2>2 DEF PadPasses
  <1>2. LineOpen(l)'
    <2>1. CASE Renewing(l)
      BY <2>1, RenewsOn DEF LineOpen
    <2>2. CASE LineOver(l)'
      BY <2>2 DEF LineOpen
    <2>3. CASE ~Renewing(l) /\ ~LineOver(l)' /\ ~pad[l].ended
      <3>1. Met(l) /\ ~pad[l].flushing
        BY <2>3, SourceOf DEF LineOpen
      <3>2. channel' = Pushed(After(Source(l)), Eos(source[l].seg))
        BY <2>3, <3>1 DEF EndPushed, PadPasses
      <3>3. Eos(source[l].seg).kind = "eos"
        BY DEF Eos
      <3> QED  BY <1>1, <3>1, <3>2, <3>3, PushOpens
    <2>4. CASE ~Renewing(l) /\ ~LineOver(l)' /\ pad[l].ended
      <3>1. Met(l) /\ ~pad[l].flushing /\ EndOnWay(l)
        BY <2>4, SourceOf DEF LineOpen
      <3>2. channel' = channel
        BY <2>4 DEF EndPushed, PadPasses
      <3>3. Kept(l)
        BY <3>2, SourceOf, NothingMoved
      <3> QED  BY <1>1, <3>1, <3>3 DEF LineOpen, Kept
    <2> QED  BY <2>1, <2>2, <2>3, <2>4
  <1> QED  BY <1>1, <1>2

\* A source out of samples hands its end on, and lingers there for a seek.
LEMMA SourceEndsFinishes ==
    ASSUME Seekable, Types, Protocol, Finishes, NEW l \in Lines, SourceEnds(l)
    PROVE  Finishes'
  <1>1. tpc' = [tpc EXCEPT ![Source(l)] = "linger"] /\ tpc[Source(l)] = "ending"
    BY DEF SourceEnds, GoTo
  <1>2. /\ UNCHANGED <<todo, step, holder, call, sending, terminal, waiting, hand, flushing>>
        /\ pad' = [pad EXCEPT ![l].ended = @ \/ PadPasses(l)]
        /\ channel' = EndPushed(l)
    BY DEF SourceEnds, lock, callers, requests
  <1>3. LineOpen(l)' /\ (pad'[l].ended \/ pad'[l].flushing)
    BY <1>1, <1>2, EndOpens
  <1>4. Begun(l)' /\ Lingers(l)'
    BY <1>1, <1>3, SourceOf DEF Begun, Lingers
  <1>5. OfLine(l)'
    BY <1>1, <1>2, <1>3, <1>4, SourceOf, RunsOn DEF Left
  <1> QED  BY <1>5, SourceStep DEF SourceThread

\* A source told to finish leaves its line its end, and returns.
LEMMA SourceFinishedFinishes ==
    ASSUME Types, Protocol, Finishes, NEW l \in Lines, SourceFinished(l)
    PROVE  Finishes'
  <1>1. tpc' = [tpc EXCEPT ![Source(l)] = "returning"] /\ tpc[Source(l)] = "finishing"
    BY DEF SourceFinished, GoTo
  <1>2. /\ UNCHANGED <<todo, step, holder, call, paused, sending, terminal, hand, flushing>>
        /\ waiting' = waiting \ {Source(l)}
        /\ pad' = [pad EXCEPT ![l].ended = @ \/ PadPasses(l)]
        /\ channel' = EndPushed(l)
    BY DEF SourceFinished, lock, callers
  <1>3. Out("Finish")
    BY <1>1, SourceOf DEF Protocol, FinishIs
  <1>4. LineOpen(l)' /\ (pad'[l].ended \/ pad'[l].flushing)
    BY <1>1, <1>2, <1>3, EndOpens
  <1>5. Begun(l)' /\ Lingers(l)'
    BY <1>1, SourceOf DEF Begun, Lingers
  <1>6. Finishing /\ todo = <<"Finish">> /\ ~paused
    <2>1. todo # <<>> /\ todo[1] = "Finish"
      BY <1>3 DEF Out
    <2>2. todo = <<"Finish">> /\ todo \in ToFinish
      BY <2>1, UnderWay DEF StageLeaves
    <2> QED  BY <1>3, <2>2, FinishingIs DEF Types, Plan
  <1>7. EndsIn(Source(l))'
    <2> SUFFICES ASSUME ~LineOver(l)' PROVE EndsIn(Source(l))'
      BY SourceOf DEF EndsIn
    <2>1. ~Renewing(l)'
      BY <1>2, <1>6 DEF Renewing
    <2>2. ~pad'[l].flushing
      BY <1>4, <2>1 DEF LineOpen
    <2>3. Drains(l)'
      BY <1>1, <1>2, <1>4, <1>6, <2>2, SourceOf DEF Drains, Finishing, ToNothing, Left
    <2>4. Drained(Source(l))'
      <3>1. \A v \in Of(l) : ~(v[2] <= Source(l)[2])
        BY ThreadsAre, LineIs
      <3> QED  BY <3>1, SourceOf DEF Drained
    <2> QED  BY <2>3, <2>4, SourceOf DEF EndsIn
  <1>8. OfLine(l)'
    BY <1>1, <1>2, <1>4, <1>5, <1>7, SourceOf, RunsOn DEF Left
  <1> QED  BY <1>8, SourceStep DEF SourceThread

\* A source takes what is asked of it: what it renews, and where it goes on.
LEMMA SourceTakesFinishes ==
    ASSUME Types, Protocol, Finishes, NEW l \in Lines, SourceTakes(l)
    PROVE  Finishes'
  <1>1. PICK msg : msg = Head(control[Source(l)]).msg
    OBVIOUS
  <1>2. /\ tpc[Source(l)] \in {"ask", "ending", "linger", "paused"}
        /\ control[Source(l)] # <<>> /\ waiting' = waiting \ {Source(l)}
        /\ SourceNext(l, msg)
        /\ UNCHANGED <<todo, step, holder, call, sending, terminal, flushing, hand>>
    BY <1>1 DEF SourceTakes, lock, callers
  <1>3. Out(msg) /\ Source(l) \in waiting
    BY <1>1, <1>2, SourceOf, SourceAsked
  <1>4. todo # <<>> /\ todo[1] = msg /\ step \in {"send", "acks"}
    BY <1>3 DEF Out
  <1>5. PICK p \in {"ask", "ending", "linger", "paused", "returning"} :
            /\ tpc' = [tpc EXCEPT ![Source(l)] = p]
            /\ p = "returning" <=> msg = "Stop"
    BY <1>2, SourceNextIs
  <1>6. tpc'[Source(l)] = p /\ (LineOver(l)' <=> LineOver(l))
        /\ \A w \in Workers : tpc'[w] = tpc[w] /\ hand'[w] = hand[w]
    BY <1>2, <1>5, SourceOf
  <1>7. CASE msg = "Seek"
    <2>1. /\ source'[l].sought
          /\ pad' = [pad EXCEPT ![l] = [flushing |-> FALSE, ended |-> FALSE]]
          /\ channel' = Pushed(After(Source(l)), Segment(timeline, TRUE))
      <3>1. /\ source' = [source EXCEPT ![l] = [pos |-> starts[timeline], seg |-> timeline,
                                                 sought |-> TRUE]]
            /\ pad' = [pad EXCEPT ![l] = [flushing |-> FALSE, ended |-> FALSE]]
            /\ channel' = Pushed(After(Source(l)), Segment(timeline, TRUE))
        BY <1>1, <1>7 DEF SourceTakes
      <3>2. source'[l].sought
        BY <3>1, SourceOf
      <3> QED  BY <3>1, <3>2
    <2>2. ~pad'[l].flushing /\ ~pad'[l].ended
      BY <2>1, SourceOf
    <2>3. Segment(timeline, TRUE).kind = "flushedSegment"
      BY DEF Segment
    <2>4. LineOpen(l)'
      BY <1>2, <1>5, <1>6, <2>1, <2>2, <2>3, PushOpens
    <2>5. p # "linger"
      <3>1. \A q : GoesOn(l, q) # "linger"
        BY <2>1 DEF GoesOn
      <3>2. \/ tpc' = [tpc EXCEPT ![Source(l)] = "paused"]
            \/ \E q : tpc' = [tpc EXCEPT ![Source(l)] = GoesOn(l, q)]
        BY <1>2, <1>7 DEF SourceNext, GoTo
      <3>3. CASE tpc' = [tpc EXCEPT ![Source(l)] = "paused"]
        <4>1. tpc'[Source(l)] = "paused"
          BY <3>3, SourceOf
        <4> QED  BY <1>6, <4>1
      <3>4. ASSUME NEW q, tpc' = [tpc EXCEPT ![Source(l)] = GoesOn(l, q)]
            PROVE  p # "linger"
        <4>1. PICK g : g = GoesOn(l, q)
          OBVIOUS
        <4>2. tpc'[Source(l)] = g
          BY <3>4, <4>1, SourceOf
        <4> QED  BY <1>6, <3>1, <4>1, <4>2
      <3> QED  BY <3>2, <3>3, <3>4
    <2>6. Begun(l)' /\ Lingers(l)'
      BY <1>5, <1>6, <2>1, <2>5 DEF Begun, Lingers
    <2>7. OfLine(l)'
      BY <1>2, <1>5, <1>7, <2>4, <2>6, SourceOf, RunsOn DEF Left
    <2> QED  BY <2>7, SourceStep DEF SourceThread
  <1>8. CASE msg # "Seek"
    <2>1. /\ pad' = [pad EXCEPT ![l].flushing = @ \/ msg = "Flush"]
          /\ UNCHANGED <<source, channel>>
      BY <1>1, <1>8 DEF SourceTakes
    <2>2. /\ pad'[l].flushing <=> pad[l].flushing \/ msg = "Flush"
          /\ pad'[l].ended <=> pad[l].ended
      <3>1. PICK e, f \in BOOLEAN : pad[l] = [flushing |-> f, ended |-> e]
        BY SourceOf
      <3>2. pad'[l] = [pad[l] EXCEPT !.flushing = @ \/ msg = "Flush"]
        BY <2>1, SourceOf
      <3> QED  BY <3>1, <3>2
    <2>3. Kept(l)
      BY <1>2, <1>6, <2>1, NothingMoved
    <2>4. LineOpen(l)'
      <3>1. CASE msg = "Flush"
        <4>1. Renewing(l)'
          BY <1>2, <1>4, <3>1 DEF Renewing
        <4> QED  BY <4>1 DEF LineOpen
      <3>2. CASE msg # "Flush"
        <4>1. ~Renewing(l)
          BY <1>4, <1>8, <3>2 DEF Renewing
        <4> QED  BY <1>6, <2>2, <2>3, <3>2, <4>1, SourceOf DEF LineOpen, Kept
      <3> QED  BY <3>1, <3>2
    <2>5. Begun(l)'
      BY <1>5, <1>6 DEF Begun
    <2>6. Lingers(l)'
      <3>1. CASE msg = "Stop"
        BY <1>5, <1>6, <3>1 DEF Lingers
      <3>2. CASE msg # "Stop" /\ tpc[Source(l)] = "paused"
        <4>1. back' = back /\ tpc' = [tpc EXCEPT ![Source(l)] = IF Holds THEN "paused"
                                                  ELSE GoesOn(l, back[Source(l)])]
          BY <1>2, <3>2 DEF SourceNext, GoTo
        <4>2. p = IF Holds THEN "paused" ELSE GoesOn(l, back[Source(l)])
          BY <1>6, <4>1, SourceOf
        <4>3. source'[l].sought <=> source[l].sought
          BY <2>1
        <4>4. CASE p = "paused"
          BY <1>6, <2>2, <3>2, <4>1, <4>3, <4>4, SourceOf DEF Lingers
        <4>5. CASE p = "linger"
          <5>1. back[Source(l)] = "linger" /\ ~source[l].sought
            BY <4>2, <4>3, <4>5 DEF GoesOn
          <5> QED  BY <1>6, <2>2, <3>2, <4>5, <5>1, SourceOf DEF Lingers
        <4>6. CASE p \notin {"paused", "linger"}
          BY <1>6, <4>6 DEF Lingers
        <4> QED  BY <4>4, <4>5, <4>6
      <3>3. CASE msg = "Pause" /\ tpc[Source(l)] # "paused"
        <4>1. tpc' = [tpc EXCEPT ![Source(l)] = "paused"]
              /\ back' = [back EXCEPT ![Source(l)] = tpc[Source(l)]]
          BY <1>2, <3>3 DEF SourceNext, GoTo
        <4>2. tpc'[Source(l)] = "paused" /\ back'[Source(l)] = tpc[Source(l)]
          BY <4>1, SourceOf
        <4> QED  BY <2>2, <4>2, SourceOf DEF Lingers
      <3>4. CASE msg \notin {"Stop", "Pause"} /\ tpc[Source(l)] # "paused"
        <4>1. tpc' = [tpc EXCEPT ![Source(l)] = GoesOn(l, tpc[Source(l)])]
          BY <1>2, <3>4 DEF SourceNext, GoTo
        <4>2. p = GoesOn(l, tpc[Source(l)])
          BY <1>6, <4>1, SourceOf
        <4>3. p # "paused" /\ (p = "linger" => tpc[Source(l)] = "linger")
          BY <3>4, <4>2 DEF GoesOn
        <4> QED  BY <1>6, <2>2, <4>3, SourceOf DEF Lingers
      <3> QED  BY <3>1, <3>2, <3>3, <3>4
    <2>7. p \in Left => EndsIn(Source(l))'
      <3> SUFFICES ASSUME p \in Left, ~LineOver(l) PROVE EndsIn(Source(l))'
        BY <1>6, SourceOf DEF EndsIn
      <3>1. msg = "Stop"
        BY <1>5 DEF Left
      <3>2. LastOf(l) \notin sending
        BY <1>3, SourceOf DEF Finishes, InTurn
      <3>3. LastOf(l) \in sending \cup waiting
        BY <1>3, <3>1, SourceOf DEF Protocol, Follows, LineOver
      <3>4. LastOf(l) \in waiting'
        BY <1>2, <3>2, <3>3, SourceOf
      <3>5. StopComes(l)'
        BY <1>2, <1>3, <3>1, <3>4 DEF StopComes, Out
      <3> QED  BY <3>5, SourceOf DEF EndsIn
    <2>8. OfLine(l)'
      BY <1>2, <1>5, <2>4, <2>5, <2>6, <2>7, SourceOf, RunsOn DEF Left
    <2> QED  BY <2>8, SourceStep DEF SourceThread
  <1> QED  BY <1>7, <1>8

\* A finish is handed on, or was with the end of the medium.
LEMMA SourceFinishesFinishes ==
    ASSUME Types, Protocol, Finishes, NEW l \in Lines, SourceFinishes(l)
    PROVE  Finishes'
  <1>1. /\ tpc[Source(l)] \in {"ask", "ending", "linger", "paused"}
        /\ control[Source(l)] # <<>> /\ Head(control[Source(l)]).msg = "Finish"
        /\ UNCHANGED <<todo, step, holder, call, paused, sending, terminal, flushing, hand, pad,
                       channel>>
        /\ waiting' = waiting \/ waiting' = waiting \ {Source(l)}
    BY DEF SourceFinishes, lock, callers, ends, queues
  <1>2. \E p \in {"returning", "finishing"} :
            /\ tpc' = [tpc EXCEPT ![Source(l)] = p]
            /\ p = "returning" => tpc[Source(l)] = "linger"
    BY DEF SourceFinishes, GoTo
  <1>3. PICK p \in {"returning", "finishing"} :
            /\ tpc' = [tpc EXCEPT ![Source(l)] = p]
            /\ p = "returning" => tpc[Source(l)] = "linger"
    BY <1>2
  <1>4. Out("Finish")
    BY <1>1, SourceOf, SourceAsked
  <1>5. Finishing /\ todo = <<"Finish">> /\ ~paused
    <2>1. todo # <<>> /\ todo[1] = "Finish"
      BY <1>4 DEF Out
    <2>2. todo = <<"Finish">> /\ todo \in ToFinish
      BY <2>1, UnderWay DEF StageLeaves
    <2> QED  BY <1>4, <2>2, FinishingIs DEF Types, Plan
  <1>6. tpc'[Source(l)] = p /\ (LineOver(l)' <=> LineOver(l))
        /\ \A w \in Workers : tpc'[w] = tpc[w] /\ hand'[w] = hand[w]
    BY <1>1, <1>3, SourceOf
  <1>7. Kept(l)
    BY <1>1, <1>6, NothingMoved
  <1>8. ~Renewing(l)
    BY <1>5 DEF Renewing
  <1>9. LineOpen(l)'
    BY <1>1, <1>6, <1>7, <1>8, SourceOf, OpenStays
  <1>10. Begun(l)' /\ Lingers(l)'
    BY <1>3, <1>6 DEF Begun, Lingers
  <1>11. p \in Left => EndsIn(Source(l))'
    <2> SUFFICES ASSUME p \in Left, ~LineOver(l) PROVE EndsIn(Source(l))'
      BY <1>6, SourceOf DEF EndsIn
    <2>1. p = "returning" /\ tpc[Source(l)] = "linger"
      BY <1>3 DEF Left
    <2>2. pad[l].ended
      BY <1>8, <2>1, SourceOf DEF LineOpen, Lingers
    <2>3. Drains(l)'
      BY <1>1, <1>5, <1>6, <2>1, <2>2 DEF Drains, Finishing, ToNothing, Left
    <2>4. Drained(Source(l))'
      <3>1. \A v \in Of(l) : ~(v[2] <= Source(l)[2])
        BY ThreadsAre, LineIs
      <3> QED  BY <3>1, SourceOf DEF Drained
    <2> QED  BY <2>3, <2>4, SourceOf DEF EndsIn
  <1>12. OfLine(l)'
    BY <1>1, <1>3, <1>9, <1>10, <1>11, SourceOf, RunsOn DEF Left
  <1> QED  BY <1>12, SourceStep DEF SourceThread

\* A source that fails says so, and leaves once what it feeds has heard it.
LEMMA SourceFailsFinishes ==
    ASSUME Types, Protocol, Finishes, NEW l \in Lines, SourceFails(l) \/ SourceCarried(l)
    PROVE  Finishes'
  <1>1. \E p \in {"carrying", "returning"} :
            /\ tpc' = [tpc EXCEPT ![Source(l)] = p]
            /\ p = "returning" => tpc[Source(l)] = "carrying" /\ After(Source(l)) \notin owing
    BY DEF SourceFails, SourceCarried, GoTo
  <1>2. PICK p \in {"carrying", "returning"} :
            /\ tpc' = [tpc EXCEPT ![Source(l)] = p]
            /\ p = "returning" => tpc[Source(l)] = "carrying" /\ After(Source(l)) \notin owing
    BY <1>1
  <1>3. /\ tpc[Source(l)] \in {"ask", "carrying"}
        /\ UNCHANGED <<todo, step, holder, call, sending, terminal, flushing, hand, pad, channel,
                       waiting>>
    BY DEF SourceFails, SourceCarried, lock, callers, ends, queues, requests
  <1>4. tpc'[Source(l)] = p /\ (LineOver(l)' <=> LineOver(l))
        /\ \A w \in Workers : tpc'[w] = tpc[w] /\ hand'[w] = hand[w]
    <2>1. tpc' = [tpc EXCEPT ![Source(l)] = p] /\ hand' = hand
      BY <1>2, <1>3
    <2>2. tpc'[Source(l)] = p
      BY <2>1, SourceOf
    <2>3. LineOver(l)' <=> LineOver(l)
      BY <2>1, SourceOf
    <2>4. \A w \in Workers : tpc'[w] = tpc[w]
      BY <2>1, SourceOf
    <2> QED  BY <2>1, <2>2, <2>3, <2>4
  <1>5. Kept(l)
    BY <1>3, <1>4, NothingMoved
  <1>6. Renewing(l) => Renewing(l)'
    BY <1>3, RenewsOn
  <1>7. LineOpen(l)'
    BY <1>3, <1>4, <1>5, <1>6, SourceOf, OpenStays
  <1>8. Begun(l)' /\ Lingers(l)'
    BY <1>2, <1>4 DEF Begun, Lingers
  <1>9. p \in Left => EndsIn(Source(l))'
    <2> SUFFICES ASSUME p \in Left PROVE EndsIn(Source(l))'
      OBVIOUS
    <2>1. tpc[Source(l)] = "carrying" /\ After(Source(l)) \notin owing
      BY <1>2 DEF Left
    <2>2. tpc[After(Source(l))] \in Over
      BY <2>1, SourceOf DEF Protocol, Carrying
    <2>3. IsOver(After(Source(l)))
      BY <2>2, SourceOf, ThreadsAre DEF IsOver
    <2>4. EndsIn(After(Source(l)))
      BY <2>3, SourceOf DEF OfLine, LeavesEnd
    <2>5. ~Drains(l)
      BY <2>1, NoneDrains DEF Left
    <2>6. LineOver(l) \/ StopComes(l)
      BY <2>4, <2>5, SourceOf DEF EndsIn
    <2>7. StopComes(l) => StopComes(l)'
      BY <1>3 DEF StopComes, Out
    <2> QED  BY <1>4, <2>6, <2>7, SourceOf DEF EndsIn
  <1>10. OfLine(l)'
    BY <1>2, <1>3, <1>7, <1>8, <1>9, SourceOf, RunsOn DEF Left
  <1> QED  BY <1>10, SourceStep DEF SourceThread

\* A source that leaves drops what it holds, one after the other.
LEMMA SourceLeavesFinishes ==
    ASSUME Types, Protocol, Finishes, NEW l \in Lines,
           SourceReturns(l) \/ DropsReceiver(l) \/ SourceDrops(l) \/ SourceJoins(l)
    PROVE  Finishes'
  <1>1. \E p \in Left : tpc' = [tpc EXCEPT ![Source(l)] = p]
    BY DEF SourceReturns, DropsReceiver, SourceDrops, SourceJoins, DropsQueue, GoTo, Left
  <1>2. tpc[Source(l)] \in Left
    BY DEF SourceReturns, DropsReceiver, SourceDrops, SourceJoins, Left
  <1>3. UNCHANGED <<todo, step, holder, call, paused, sending, terminal, channel, flushing,
                    hand, pad>>
    BY DEF SourceReturns, DropsReceiver, SourceDrops, SourceJoins, lock, callers, ends, queues
  <1>4. waiting' = waiting \/ waiting' = waiting \ {Source(l)}
    BY DEF SourceReturns, DropsReceiver, SourceDrops, SourceJoins, requests
  <1>5. OfLine(l)'
    BY <1>1, <1>2, <1>3, <1>4, SourceOf, LeavesOn
  <1> QED  BY <1>5, SourceStep DEF SourceThread

-----------------------------------------------------------------------------
(* What each step of a worker leaves its line in.                          *)

\* The line of a worker.
LEMMA WorkerOf ==
    ASSUME Types, Finishes, NEW w \in Workers
    PROVE  /\ w \in Threads /\ w[1] \in Lines /\ w \in Of(w[1]) /\ w \notin Sources
           /\ w # Source(w[1]) /\ Source(w[1]) \in Threads
           /\ LastOf(w[1]) \in Threads /\ LastOf(w[1]) \in Workers
           /\ LastOf(w[1])[1] = w[1] /\ IsLast(LastOf(w[1]))
           /\ (IsLast(w) <=> w = LastOf(w[1]))
           /\ w[2] \in Int /\ 0 < w[2]
           /\ \A u \in Workers : u \in Threads
           /\ \A v \in Of(w[1]) : /\ v \in Workers /\ v \in Threads /\ v[1] = w[1]
                                  /\ v[2] \in Int /\ (v[2] = w[2] <=> v = w)
                                  /\ 0 < v[2] /\ v[2] <= LastOf(w[1])[2]
           /\ \A u \in Threads : u[2] \in Int
           /\ ~IsLast(w) => /\ After(w) \in Workers /\ After(w) \in Threads /\ After(w) # w
                            /\ After(w) \in Of(w[1]) /\ After(w)[1] = w[1]
                            /\ After(w)[2] = w[2] + 1
           /\ OfLine(w[1]) /\ LineOpen(w[1]) /\ Begun(w[1]) /\ Lingers(w[1])
           /\ \A p : tpc' = [tpc EXCEPT ![w] = p] =>
                  /\ tpc'[w] = p
                  /\ \A u \in Threads : u # w => tpc'[u] = tpc[u]
  <1>1. /\ w \in Threads /\ w[1] \in Lines /\ w \in Of(w[1]) /\ w \notin Sources
        /\ w # Source(w[1]) /\ Source(w[1]) \in Threads /\ w[2] \in 1..Depth
        /\ \A u \in Workers : u \in Threads
    BY ThreadsAre DEF Of
  <1>2. /\ LastOf(w[1]) \in Threads /\ LastOf(w[1]) \in Workers
        /\ LastOf(w[1])[1] = w[1] /\ IsLast(LastOf(w[1]))
        /\ (IsLast(w) <=> w = LastOf(w[1]))
    BY <1>1, LineIs
  <1>3. \A v \in Of(w[1]) : /\ v \in Workers /\ v \in Threads /\ v[1] = w[1] /\ v[2] \in Int
                            /\ (v[2] = w[2] <=> v = w)
                            /\ 0 < v[2] /\ v[2] <= LastOf(w[1])[2]
    BY <1>1, LineIs, Neighbours
  <1>4. ~IsLast(w) => /\ After(w) \in Workers /\ After(w) \in Threads /\ After(w) # w
                      /\ After(w) \in Of(w[1]) /\ After(w)[1] = w[1] /\ After(w)[2] = w[2] + 1
    BY <1>1, Neighbours, ThreadsAre DEF Of
  <1>5. OfLine(w[1]) /\ LineOpen(w[1]) /\ Begun(w[1]) /\ Lingers(w[1])
    BY <1>1 DEF Finishes, OfLine
  <1>6. \A p : tpc' = [tpc EXCEPT ![w] = p] =>
            tpc'[w] = p /\ \A u \in Threads : u # w => tpc'[u] = tpc[u]
    BY <1>1 DEF Types, ThreadTypes
  <1>7. w[2] \in Int /\ 0 < w[2] /\ \A u \in Threads : u[2] \in Int
    BY <1>1, ThreadsAre
  <1> QED  BY <1>1, <1>2, <1>3, <1>4, <1>5, <1>6, <1>7

\* What is drained is kept so.
DrainedKept(l) == \A u \in Threads : u[1] = l /\ Drained(u) => Drained(u)'

\* A worker that goes, and what there is to show of it.
LEMMA GoesOnInLine ==
    ASSUME Types, Finishes, NEW w \in Workers, NEW p, tpc' = [tpc EXCEPT ![w] = p],
           UNCHANGED <<todo, step, holder, call, paused, sending, source, pad, back>>,
           waiting' = waiting \/ waiting' = waiting \ {w},
           LineOpen(w[1])', LineEnds(w[1])', DrainedKept(w[1]),
           tpc[w] \in Over => p \in Over,
           p \in Over => tpc[w] \in Over \/ EndsIn(w)',
           w \in waiting => w \in waiting' \/ ~Out("Stop") \/ p \in Over
    PROVE  OfLine(w[1])'
  <1>1. tpc'[w] = p /\ \A u \in Threads : u # w => tpc'[u] = tpc[u]
    BY WorkerOf
  <1>2. LineOver(w[1]) => LineOver(w[1])'
    BY <1>1, WorkerOf DEF LineOver
  <1>3. NewlyOver(w[1])
    <2> SUFFICES ASSUME NEW u \in Threads, u[1] = w[1], IsOver(u)', ~IsOver(u) PROVE EndsIn(u)'
      BY DEF NewlyOver
    <2>1. u = w
      BY <1>1 DEF IsOver
    <2>2. tpc[w] \notin Over /\ p \in Over
      BY <1>1, <2>1, WorkerOf DEF IsOver
    <2> QED  BY <2>1, <2>2
  <1>4. StopComes(w[1]) => StopComes(w[1])' \/ LineOver(w[1])'
    <2> SUFFICES ASSUME StopComes(w[1]) PROVE StopComes(w[1])' \/ LineOver(w[1])'
      OBVIOUS
    <2>1. Out("Stop") /\ LastOf(w[1]) \in waiting
      BY DEF StopComes
    <2>2. CASE LastOf(w[1]) \in waiting'
      BY <2>1, <2>2 DEF StopComes, Out
    <2>3. CASE LastOf(w[1]) \notin waiting'
      <3>1. LastOf(w[1]) = w
        BY <2>1, <2>3
      <3>2. p \in Over
        BY <2>1, <2>3, <3>1
      <3> QED  BY <1>1, <3>1, <3>2 DEF LineOver
    <2> QED  BY <2>2, <2>3
  <1>5. tpc'[Source(w[1])] = tpc[Source(w[1])]
    BY <1>1, WorkerOf
  <1>6. Drains(w[1]) => Drains(w[1])' /\ \A u \in Threads : u[1] = w[1] /\ Drained(u) => Drained(u)'
    BY <1>5 DEF Drains, Finishing, ToNothing, DrainedKept
  <1>7. LeavesEnd(w[1])'
    BY <1>2, <1>3, <1>4, <1>6, WorkerOf, EndsKept
  <1>8. Begun(w[1])' /\ Lingers(w[1])'
    BY <1>5, WorkerOf DEF Begun, Lingers
  <1> QED  BY <1>7, <1>8 DEF OfLine

\* One that moves nothing.
LEMMA MovesNothing ==
    ASSUME Types, Finishes, NEW w \in Workers, NEW p, tpc' = [tpc EXCEPT ![w] = p],
           UNCHANGED <<todo, step, sending, pad, channel, flushing, hand>>,
           waiting' = waiting \/ waiting' = waiting \ {w},
           terminal'[w[1]].ended <=> terminal[w[1]].ended,
           tpc[w] # "push", p # "push", tpc[w] \in Over => p \in Over
    PROVE  LineOpen(w[1])' /\ DrainedKept(w[1])
  <1>1. tpc'[w] = p /\ \A u \in Threads : u # w => tpc'[u] = tpc[u]
    BY WorkerOf
  <1>2. LineOver(w[1]) => LineOver(w[1])'
    BY <1>1, WorkerOf DEF LineOver
  <1>3. Kept(w[1])
    <2>1. \A u \in Workers : u[1] = w[1] =>
              /\ channel'[u] = channel[u] /\ flushing'[u] = flushing[u]
              /\ hand'[u] = hand[u] /\ (tpc'[u] = "push" <=> tpc[u] = "push")
      BY <1>1, WorkerOf
    <2> QED  BY <2>1, WorkerOf, NothingMoved
  <1>4. Renewing(w[1]) => Renewing(w[1])'
    BY WorkerOf, RenewsOn
  <1>5. LineOpen(w[1])'
    BY <1>2, <1>3, <1>4, WorkerOf, OpenStays
  <1> QED  BY <1>3, <1>5 DEF Kept, DrainedKept

\* Looking, and carrying a Stop on.
LEMMA WorkerLooksFinishes ==
    ASSUME Types, Protocol, Finishes, NEW w \in Workers,
           WorkerLooks(w) \/ WorkerLooksAgain(w) \/ WorkerCarries(w)
    PROVE  Finishes'
  <1>1. \E p \in {"look", "select", "carrying"} : tpc' = [tpc EXCEPT ![w] = p]
    BY DEF WorkerLooks, WorkerLooksAgain, WorkerCarries, GoTo
  <1>2. PICK p \in {"look", "select", "carrying"} : tpc' = [tpc EXCEPT ![w] = p]
    BY <1>1
  <1>3. /\ UNCHANGED <<todo, step, holder, call, paused, sending, source, pad, back, channel,
                       flushing, hand, terminal, waiting>>
        /\ tpc[w] \in {"look", "select", "paused"}
    BY DEF WorkerLooks, WorkerLooksAgain, WorkerCarries, lock, callers, ends, queues, requests
  <1>4. p # "push" /\ p \notin Over /\ tpc[w] # "push" /\ tpc[w] \notin Over
    BY <1>3 DEF Over
  <1>5. LineOpen(w[1])' /\ DrainedKept(w[1])
    BY <1>2, <1>3, <1>4, MovesNothing
  <1>6. LineEnds(w[1])'
    <2>1. LineOver(w[1])' => LineOver(w[1])
      BY <1>2, <1>4, WorkerOf DEF LineOver
    <2> QED  BY <1>3, <2>1, WorkerOf DEF OfLine, LineEnds
  <1>7. OfLine(w[1])'
    BY <1>2, <1>3, <1>4, <1>5, <1>6, GoesOnInLine
  <1> QED  BY <1>7, WorkerStep DEF WorkerThread

\* A worker that has carried a Stop, and one that drops what it feeds.
LEMMA WorkerCarriedFinishes ==
    ASSUME Types, Protocol, Finishes, NEW w \in Workers, WorkerCarried(w) \/ WorkerDrops(w)
    PROVE  Finishes'
  <1>1. \E p \in {"ending", "joining"} : tpc' = [tpc EXCEPT ![w] = p]
    BY DEF WorkerCarried, WorkerDrops, DropsQueue, GoTo
  <1>2. PICK p \in {"ending", "joining"} : tpc' = [tpc EXCEPT ![w] = p]
    BY <1>1
  <1>3. /\ UNCHANGED <<todo, step, holder, call, paused, sending, source, pad, back, channel,
                       flushing, hand, terminal, waiting>>
        /\ tpc[w] \in {"carrying", "ending"}
        /\ tpc[w] = "carrying" => After(w) \notin owing
    BY DEF WorkerCarried, WorkerDrops, lock, callers, ends, queues, requests
  <1>4. p # "push" /\ p \in Over /\ tpc[w] # "push" /\ (tpc[w] # "carrying" => tpc[w] \in Over)
    BY <1>3 DEF Over
  <1>5. ~IsLast(w)
    <2>1. CASE tpc[w] = "carrying"
      BY <2>1 DEF Protocol, Carrying
    <2>2. CASE tpc[w] # "carrying"
      <3>1. WorkerDrops(w)
        BY <2>2 DEF WorkerCarried
      <3> QED  BY <3>1 DEF WorkerDrops
    <2> QED  BY <2>1, <2>2
  <1>6. LineOver(w[1])' <=> LineOver(w[1])
    BY <1>2, <1>5, WorkerOf DEF LineOver
  <1>7. LineOpen(w[1])' /\ DrainedKept(w[1])
    BY <1>2, <1>3, <1>4, MovesNothing
  <1>8. LineEnds(w[1])'
    BY <1>3, <1>6, WorkerOf DEF OfLine, LineEnds
  <1>9. tpc[w] \in Over \/ EndsIn(w)'
    <2> SUFFICES ASSUME tpc[w] = "carrying", ~LineOver(w[1]) PROVE EndsIn(w)'
      BY <1>4, <1>6 DEF EndsIn
    <2>1. tpc[After(w)] \in Over
      BY <1>3, WorkerOf DEF Protocol, Carrying
    <2>2. IsOver(After(w))
      BY <1>5, <2>1, WorkerOf, ThreadsAre DEF IsOver
    <2>3. EndsIn(After(w))
      BY <1>5, <2>2, WorkerOf DEF OfLine, LeavesEnd
    <2>4. CASE StopComes(w[1])
      BY <1>3, <2>4 DEF EndsIn, StopComes, Out
    <2>5. CASE Drains(w[1]) /\ Drained(After(w))
      <3>1. Drained(w)
        <4>1. \A v \in Of(w[1]) : v[2] <= w[2] => v[2] <= After(w)[2]
          BY <1>5, WorkerOf
        <4> QED  BY <1>5, <2>5, <4>1, WorkerOf DEF Drained
      <3>2. Drained(w)'
        BY <1>7, <3>1, WorkerOf DEF DrainedKept
      <3>3. tpc'[Source(w[1])] = tpc[Source(w[1])]
        BY <1>2, WorkerOf
      <3>4. Drains(w[1])'
        BY <1>3, <2>5, <3>3 DEF Drains, Finishing, ToNothing
      <3> QED  BY <3>2, <3>4 DEF EndsIn
    <2> QED  BY <1>5, <2>3, <2>4, <2>5, WorkerOf DEF EndsIn
  <1>10. OfLine(w[1])'
    BY <1>2, <1>3, <1>4, <1>7, <1>8, <1>9, GoesOnInLine
  <1> QED  BY <1>10, WorkerStep DEF WorkerThread

\* A worker gone, its line is over.
LEMMA WorkerDoneFinishes ==
    ASSUME Types, Protocol, Finishes, NEW w \in Workers, WorkerDone(w)
    PROVE  Finishes'
  <1>1. tpc' = [tpc EXCEPT ![w] = "done"]
        /\ UNCHANGED <<terminal, pad, source, back>>
    BY DEF WorkerDone, GoTo, ends
  <1>2. LineOver(w[1])
    <2>1. CASE tpc[w] = "ending" /\ IsLast(w)
      BY <2>1, WorkerOf DEF LineOver, Over
    <2>2. CASE ~(tpc[w] = "ending" /\ IsLast(w))
      <3>1. tpc[w] = "joining" /\ Gone(After(w))
        BY <2>2 DEF WorkerDone
      <3>2. CASE IsLast(w)
        BY <3>1, <3>2, WorkerOf DEF LineOver, Over
      <3>3. CASE ~IsLast(w)
        BY <3>1, <3>3, WorkerOf, GoneIsOver
      <3> QED  BY <3>2, <3>3
    <2> QED  BY <2>1, <2>2
  <1>3. LineOver(w[1])'
    <2>1. tpc'[w] = "done" /\ \A u \in Threads : u # w => tpc'[u] = tpc[u]
      BY <1>1, WorkerOf
    <2> QED  BY <1>2, <2>1, WorkerOf DEF LineOver, Over
  <1>4. (terminal[w[1]].heard \/ terminal[w[1]].ended)'
    BY <1>1, <1>2, WorkerOf DEF OfLine, LineEnds
  <1>5. Begun(w[1])' /\ Lingers(w[1])'
    <2>1. tpc'[Source(w[1])] = tpc[Source(w[1])]
      BY <1>1, WorkerOf
    <2> QED  BY <1>1, <2>1, WorkerOf DEF Begun, Lingers
  <1>6. OfLine(w[1])'
    BY <1>3, <1>4, <1>5, WorkerOf, OverStays
  <1> QED  BY <1>6, WorkerStep DEF WorkerThread

\* What a worker forwards stays on its way, or reaches the terminal.
LEMMA WorkerForwardsFinishes ==
    ASSUME Types, Protocol, Finishes, NEW w \in Workers, WorkerForwards(w)
    PROVE  Finishes'
  <1> DEFINE item == Head(channel[w])
             l == w[1]
  <1>1. /\ tpc[w] = "select" /\ channel[w] # <<>>
        /\ channel' = [channel EXCEPT ![w] = Tail(@)]
        /\ flushing' = [flushing EXCEPT ![w] = Stale(w, item)]
        /\ UNCHANGED <<todo, step, holder, call, paused, sending, source, pad, back, waiting>>
    BY DEF WorkerForwards, lock, callers, requests
  <1>2. channel \in [Workers -> Seq(ItemsTo(timeline))] /\ flushing \in [Workers -> BOOLEAN]
        /\ hand \in [Threads -> Items]
    BY DEF Types, ItemTypes, QueueTypes
  <1>3. PICK q \in Seq(ItemsTo(timeline)) : q = channel[w]
    BY <1>2
  <1>4. /\ Len(q) \in Nat /\ Len(q) > 0 /\ Head(q) = q[1] /\ item = q[1] /\ q # <<>>
        /\ Tail(q) \in Seq(ItemsTo(timeline)) /\ Len(Tail(q)) = Len(q) - 1
        /\ \A i \in 1 .. Len(Tail(q)) : Tail(q)[i] = q[i+1] /\ i+1 \in 1 .. Len(q)
        /\ Len(q) = 1 => Tail(q) = <<>>
    BY <1>1, <1>3, HeadOf
  <1>5. channel'[w] = Tail(q) /\ (\A u \in Workers : u # w => channel'[u] = channel[u])
    BY <1>1, <1>2, <1>3
  <1>6. (flushing'[w] <=> Stale(w, item)) /\ (\A u \in Workers : u # w => flushing'[u] = flushing[u])
    BY <1>1, <1>2
  <1>7. \/ /\ ~Stale(w, item) /\ ~IsLast(w)
           /\ hand' = [hand EXCEPT ![w] = item] /\ tpc' = [tpc EXCEPT ![w] = "push"]
           /\ terminal' = terminal
        \/ /\ Stale(w, item) \/ IsLast(w)
           /\ hand' = hand /\ tpc' = [tpc EXCEPT ![w] = "look"]
           /\ IF Stale(w, item) THEN terminal' = terminal ELSE Handed(l, item)
    BY DEF WorkerForwards, GoTo
  <1>8. PICK p \in {"push", "look"} :
            /\ tpc' = [tpc EXCEPT ![w] = p]
            /\ p = "push" <=> ~Stale(w, item) /\ ~IsLast(w)
    BY <1>7
  <1>9. tpc'[w] = p /\ \A u \in Threads : u # w => tpc'[u] = tpc[u]
    BY <1>8, WorkerOf
  <1>10. \A u \in Threads : u # w => hand'[u] = hand[u]
    BY <1>2, <1>7
  <1>11. p = "push" => hand'[w] = item
    BY <1>2, <1>7, <1>8, WorkerOf
  <1>12. Stale(w, item) <=> flushing[w] /\ item.kind # "flushedSegment"
    BY DEF Stale
  <1>13. l \in Lines /\ w \in Threads /\ \A v \in Of(l) : v \in Workers /\ v \in Threads /\ v[1] = l
    BY WorkerOf
  <1> HIDE DEF item
  <1>14. \A v \in Of(l) : v # w =>
             /\ (Empty(v)' <=> Empty(v)) /\ (EndIn(v)' <=> EndIn(v))
             /\ (Queued(v)' <=> Queued(v)) /\ (InHand(v)' <=> InHand(v))
    <2> TAKE v \in Of(l)
    <2> HAVE v # w
    <2>1. channel'[v] = channel[v] /\ tpc'[v] = tpc[v] /\ hand'[v] = hand[v]
      BY <1>5, <1>9, <1>10, <1>13
    <2> QED  BY <2>1 DEF Empty, EndIn, Queued, InHand
  <1>15. ~Empty(w) /\ ~InHand(w)
    BY <1>1 DEF Empty, InHand
  <1>16. Queued(w) => Queued(w)' \/ item.kind = "flushedSegment"
    <2> SUFFICES ASSUME Queued(w), item.kind # "flushedSegment" PROVE Queued(w)'
      OBVIOUS
    <2>1. PICK i \in 1 .. Len(q) : q[i].kind = "flushedSegment"
      BY <1>3 DEF Queued
    <2>2. PICK n \in Nat : n = Len(q)
      BY <1>4
    <2>3. i # 1 /\ i \in 1 .. n
      BY <1>4, <2>1, <2>2
    <2>4. i - 1 \in 1 .. n - 1 /\ (i - 1) + 1 = i
      BY <2>3
    <2>5. i - 1 \in 1 .. Len(Tail(q)) /\ Tail(q)[i - 1] = q[i]
      BY <1>4, <2>2, <2>4
    <2>6. \E j \in 1 .. Len(Tail(q)) : Tail(q)[j].kind = "flushedSegment"
      BY <2>1, <2>5
    <2> QED  BY <1>5, <2>6 DEF Queued
  <1>17. LineOver(l)' => LineOver(l)
    <2>1. p \notin Over
      BY DEF Over
    <2> QED  BY <1>9, <2>1, WorkerOf DEF LineOver
  <1>18. LineOver(l) => LineOver(l)'
    <2>1. tpc[w] \notin Over
      BY <1>1 DEF Over
    <2> QED  BY <1>9, <2>1, WorkerOf DEF LineOver
  <1>19. Met(l) => Met(l)'
    <2> SUFFICES ASSUME Met(l), NEW u \in Of(l), flushing'[u] PROVE SegmentComes(u)'
      BY DEF Met
    <2>1. u \in Workers /\ u[1] = l /\ u[2] \in Int /\ (u[2] = w[2] <=> u = w)
      BY WorkerOf
    <2>2. flushing[u]
      BY <1>6, <1>12, <2>1
    <2>3. SegmentComes(u)
      BY <2>2 DEF Met
    <2>4. PICK v \in Of(l) : (v[2] <= u[2] /\ Queued(v)) \/ (v[2] < u[2] /\ InHand(v))
      BY <2>1, <2>3 DEF SegmentComes
    <2>5. CASE v # w
      BY <1>14, <2>1, <2>4, <2>5 DEF SegmentComes
    <2>6. CASE v = w /\ Queued(w)'
      BY <1>15, <2>1, <2>4, <2>6 DEF SegmentComes
    <2>7. CASE v = w /\ ~Queued(w)'
      <3>1. item.kind = "flushedSegment" /\ w[2] <= u[2]
        BY <1>15, <1>16, <2>4, <2>7
      <3>2. ~Stale(w, item) /\ u # w
        BY <1>6, <1>12, <3>1
      <3>3. w[2] < u[2]
        BY <2>1, <3>1, <3>2, WorkerOf
      <3>4. ~IsLast(w)
        BY <3>3, WorkerOf
      <3>5. InHand(w)'
        BY <1>8, <1>9, <1>11, <3>1, <3>2, <3>4 DEF InHand
      <3> QED  BY <2>1, <2>4, <2>7, <3>3, <3>5 DEF SegmentComes
    <2> QED  BY <2>5, <2>6, <2>7
  <1>20. Met(l) /\ EndOnWay(l) => EndOnWay(l)'
    <2> SUFFICES ASSUME Met(l), EndOnWay(l) PROVE EndOnWay(l)'
      OBVIOUS
    <2>1. PICK v \in Of(l) : EndIn(v) /\ \A x \in Of(l) : x[2] < v[2] => Empty(x)
      BY <1>15, WorkerOf DEF EndOnWay
    <2>2. ~(w[2] < v[2])
      BY <1>15, <2>1, WorkerOf
    <2>3. \A x \in Of(l) : x[2] < v[2] => Empty(x)' /\ x # w
      BY <1>14, <2>1, <2>2
    <2>4. CASE v # w
      BY <1>14, <2>1, <2>3, <2>4 DEF EndOnWay
    <2>5. CASE v = w /\ Len(q) # 1
      <3>1. q[Len(q)].kind = "eos"
        BY <1>1, <1>3, <2>1, <2>5 DEF EndIn
      <3>2. PICK n \in Nat : n = Len(q)
        BY <1>4
      <3>3. n - 1 \in 1 .. n - 1 /\ (n - 1) + 1 = n /\ n - 1 # 0
        BY <1>4, <2>5, <3>2
      <3>4. Tail(q) # <<>> /\ Tail(q)[Len(Tail(q))] = q[n]
        BY <1>4, <3>2, <3>3
      <3>5. EndIn(w)'
        BY <1>5, <3>1, <3>2, <3>4 DEF EndIn
      <3> QED  BY <2>1, <2>3, <2>5, <3>5 DEF EndOnWay
    <2>6. CASE v = w /\ Len(q) = 1
      <3>1. q[Len(q)].kind = "eos"
        BY <1>1, <1>3, <2>1, <2>6 DEF EndIn
      <3>2. item.kind = "eos" /\ channel'[w] = <<>>
        BY <1>4, <1>5, <2>6, <3>1
      <3>3. ~flushing[w]
        <4> SUFFICES ASSUME flushing[w] PROVE FALSE
          OBVIOUS
        <4>1. SegmentComes(w) /\ w[1] = l
          BY WorkerOf DEF Met
        <4>2. PICK x \in Of(l) : (x[2] <= w[2] /\ Queued(x)) \/ (x[2] < w[2] /\ InHand(x))
          BY <4>1 DEF SegmentComes
        <4>3. ~Queued(w)
          <5>1. \A i \in 1 .. Len(q) : i = 1
            BY <2>6
          <5>2. \A i \in 1 .. Len(q) : q[i].kind # "flushedSegment"
            BY <1>4, <3>2, <5>1
          <5> QED  BY <1>3, <5>2 DEF Queued
        <4>4. x # w
          BY <1>15, <4>2, <4>3
        <4>5. x[2] < w[2]
          BY <4>2, <4>4, WorkerOf
        <4>6. Empty(x)
          BY <2>1, <2>6, <4>5
        <4>7. ~Queued(x)
          <5>1. channel[x] = <<>>
            BY <4>6 DEF Empty
          <5>2. \A i \in 1 .. Len(channel[x]) : FALSE
            BY <5>1
          <5> QED  BY <5>2 DEF Queued
        <4>8. ~InHand(x)
          BY <4>6 DEF Empty, InHand
        <4> QED  BY <4>2, <4>7, <4>8
      <3>4. ~Stale(w, item)
        BY <1>12, <3>3
      <3>5. CASE ~IsLast(w)
        <4>1. EndIn(w)'
          BY <1>8, <1>9, <1>11, <3>2, <3>4, <3>5 DEF EndIn
        <4> QED  BY <2>1, <2>3, <2>6, <4>1 DEF EndOnWay
      <3>6. CASE IsLast(w)
        <4>1. Handed(l, item)
          BY <1>7, <3>4, <3>6
        <4>2. terminal' = [terminal EXCEPT ![l].ended = TRUE]
          BY <3>2, <4>1 DEF Handed
        <4>3. terminal'[l].ended
          BY <1>13, <4>2 DEF Types, TerminalTypes
        <4>4. Empty(w)'
          <5>1. p = "look"
            BY <1>8, <3>6
          <5> QED  BY <1>9, <3>2, <5>1 DEF Empty
        <4>5. \A x \in Of(l) : Empty(x)'
          <5> TAKE x \in Of(l)
          <5>1. x = w \/ x[2] < w[2]
            BY <3>6, WorkerOf
          <5> QED  BY <2>3, <2>6, <4>4, <5>1
        <4> QED  BY <4>3, <4>5 DEF EndOnWay
      <3> QED  BY <3>5, <3>6
    <2> QED  BY <2>4, <2>5, <2>6
  <1>21. Renewing(l) => Renewing(l)'
    BY <1>1, <1>13, RenewsOn
  <1>22. LineOpen(l)'
    <2> SUFFICES ASSUME ~Renewing(l)', ~LineOver(l)'
                 PROVE  ~pad'[l].flushing /\ Met(l)' /\ (pad'[l].ended => EndOnWay(l)')
      BY DEF LineOpen
    <2>1. ~pad[l].flushing /\ Met(l) /\ (pad[l].ended => EndOnWay(l))
      BY <1>18, <1>21, WorkerOf DEF LineOpen
    <2> QED  BY <1>1, <1>19, <1>20, <2>1
  <1>23. DrainedKept(l)
    <2> SUFFICES ASSUME NEW u \in Threads, u[1] = l, Drained(u) PROVE Drained(u)'
      BY DEF DrainedKept
    <2>1. \A x \in Of(l) : x[2] <= u[2] => Empty(x) /\ x # w
      BY <1>15 DEF Drained
    <2>2. \A x \in Of(l) : x[2] <= u[2] => Empty(x)'
      BY <1>14, <2>1
    <2> QED  BY <2>2 DEF Drained
  <1>24. LineEnds(l)'
    <2> SUFFICES ASSUME LineOver(l)' PROVE (terminal[l].heard \/ terminal[l].ended)'
      BY DEF LineEnds
    <2>1. LineOver(l)
      BY <1>17
    <2>2. ~IsLast(w)
      <3>1. tpc[w] \notin Over
        BY <1>1 DEF Over
      <3> QED  BY <2>1, <3>1, WorkerOf DEF LineOver
    <2>3. terminal' = terminal
      BY <1>7, <2>2
    <2> QED  BY <2>1, <2>3, WorkerOf DEF OfLine, LineEnds
  <1>25. p \notin Over /\ tpc[w] \notin Over
    BY <1>1 DEF Over
  <1>26. OfLine(l)'
    BY <1>1, <1>8, <1>22, <1>23, <1>24, <1>25, GoesOnInLine
  <1> QED  BY <1>26, WorkerStep DEF WorkerThread

\* What it hands on is last in the next queue.
LEMMA WorkerHandsOnFinishes ==
    ASSUME Types, Protocol, Finishes, NEW w \in Workers, WorkerHandsOn(w)
    PROVE  Finishes'
  <1> DEFINE item == hand[w]
             l == w[1]
             a == After(w)
  <1>1. /\ tpc[w] = "push" /\ tpc' = [tpc EXCEPT ![w] = "look"]
        /\ hand' = [hand EXCEPT ![w] = NoItem] /\ channel' = Pushed(a, item)
        /\ UNCHANGED <<todo, step, holder, call, paused, sending, source, pad, back, waiting,
                       flushing, terminal>>
    BY DEF WorkerHandsOn, GoTo, lock, callers, requests, ends
  <1>2. channel \in [Workers -> Seq(ItemsTo(timeline))] /\ hand \in [Threads -> Items]
    BY DEF Types, ItemTypes
  <1>3. ~IsLast(w)
    BY <1>1 DEF Types, ThreadTypes
  <1>4. l \in Lines /\ w \in Threads /\ \A v \in Of(l) : v \in Workers /\ v \in Threads /\ v[1] = l
    BY WorkerOf
  <1>5. a \in Workers /\ a \in Of(l) /\ a[1] = l /\ a # w /\ a[2] = w[2] + 1 /\ w[2] \in Int
    BY <1>3, WorkerOf
  <1>6. tpc'[w] = "look" /\ \A u \in Threads : u # w => tpc'[u] = tpc[u]
    BY <1>1, WorkerOf
  <1>7. \A u \in Threads : u # w => hand'[u] = hand[u]
    BY <1>1, <1>2
  <1>8. LineOver(l)' <=> LineOver(l)
    BY <1>3, <1>6, WorkerOf DEF LineOver
  <1>9. PICK q \in Seq(ItemsTo(timeline)) : q = channel[a]
    BY <1>2, <1>5
  <1>10. Len(q) \in Nat /\ Len(Append(q, item)) = Len(q) + 1
         /\ Append(q, item)[Len(q) + 1] = item /\ Append(q, item) # <<>>
         /\ \A i \in 1 .. Len(q) : Append(q, item)[i] = q[i]
    OBVIOUS
  <1>11. \A u \in Workers : u # a => channel'[u] = channel[u]
    BY <1>1, <1>2, <1>5 DEF Pushed
  <1>12. ~LineOver(l) => channel'[a] = Append(q, item)
    <2>1. ~LineOver(l) => ~Gone(a)
      BY <1>5, GoneIsOver
    <2>2. ~LineOver(l) => channel' = [channel EXCEPT ![a] = Append(@, item)]
      BY <1>1, <2>1 DEF Pushed
    <2> QED  BY <1>2, <1>5, <1>9, <2>2
  <1> HIDE DEF a, item
  <1>13. ~Empty(w)
    BY <1>1 DEF Empty
  <1>14. \A v \in Of(l) : v # w /\ v # a =>
             /\ (Empty(v)' <=> Empty(v)) /\ (EndIn(v)' <=> EndIn(v))
             /\ (Queued(v)' <=> Queued(v)) /\ (InHand(v)' <=> InHand(v))
    <2> TAKE v \in Of(l)
    <2> HAVE v # w /\ v # a
    <2>1. channel'[v] = channel[v] /\ tpc'[v] = tpc[v] /\ hand'[v] = hand[v]
      BY <1>4, <1>6, <1>7, <1>11
    <2> QED  BY <2>1 DEF Empty, EndIn, Queued, InHand
  <1>15. channel'[w] = channel[w]
    BY <1>5, <1>11
  <1>16. tpc'[a] = tpc[a] /\ hand'[a] = hand[a]
    BY <1>4, <1>5, <1>6, <1>7
  <1>17. Queued(w) <=> Queued(w)'
    BY <1>15 DEF Queued
  <1>18. ~LineOver(l) => (Queued(a) => Queued(a)') /\ (InHand(a) <=> InHand(a)')
    <2> SUFFICES ASSUME ~LineOver(l) PROVE (Queued(a) => Queued(a)') /\ (InHand(a) <=> InHand(a)')
      OBVIOUS
    <2>1. InHand(a) <=> InHand(a)'
      BY <1>16 DEF InHand
    <2>2. Queued(a) => Queued(a)'
      <3> SUFFICES ASSUME Queued(a) PROVE Queued(a)'
        OBVIOUS
      <3>1. PICK i \in 1 .. Len(q) : q[i].kind = "flushedSegment"
        BY <1>9 DEF Queued
      <3>2. i \in 1 .. Len(Append(q, item)) /\ Append(q, item)[i].kind = "flushedSegment"
        BY <1>10, <3>1
      <3> QED  BY <1>12, <3>2 DEF Queued
    <2> QED  BY <2>1, <2>2
  <1>19. ~LineOver(l) /\ InHand(w) => Queued(a)'
    <2> SUFFICES ASSUME ~LineOver(l), InHand(w) PROVE Queued(a)'
      OBVIOUS
    <2>1. item.kind = "flushedSegment"
      BY DEF InHand, item
    <2>2. Len(q) + 1 \in 1 .. Len(Append(q, item))
      BY <1>10
    <2>3. Append(q, item)[Len(q) + 1].kind = "flushedSegment"
      BY <1>10, <2>1
    <2> QED  BY <1>12, <2>2, <2>3 DEF Queued
  <1>20. ~LineOver(l) /\ Met(l) => Met(l)'
    <2> SUFFICES ASSUME ~LineOver(l), Met(l), NEW u \in Of(l), flushing'[u] PROVE SegmentComes(u)'
      BY DEF Met
    <2>1. u \in Workers /\ u[1] = l /\ u[2] \in Int
      BY WorkerOf
    <2>2. SegmentComes(u)
      BY <1>1 DEF Met
    <2>3. PICK v \in Of(l) : (v[2] <= u[2] /\ Queued(v)) \/ (v[2] < u[2] /\ InHand(v))
      BY <2>1, <2>2 DEF SegmentComes
    <2>4. CASE v # w /\ v # a
      BY <1>14, <2>1, <2>3, <2>4 DEF SegmentComes
    <2>5. CASE v = a
      BY <1>18, <2>1, <2>3, <2>5 DEF SegmentComes
    <2>6. CASE v = w /\ Queued(w) /\ w[2] <= u[2]
      BY <1>17, <2>1, <2>3, <2>6 DEF SegmentComes
    <2>7. CASE v = w /\ InHand(w) /\ w[2] < u[2]
      <3>1. Queued(a)' /\ a[2] <= u[2]
        BY <1>5, <1>19, <2>1, <2>7
      <3> QED  BY <1>5, <2>1, <3>1 DEF SegmentComes
    <2> QED  BY <2>3, <2>4, <2>5, <2>6, <2>7
  <1>21. ~LineOver(l) /\ EndOnWay(l) => EndOnWay(l)'
    <2> SUFFICES ASSUME ~LineOver(l), EndOnWay(l) PROVE EndOnWay(l)'
      OBVIOUS
    <2>1. PICK v \in Of(l) : EndIn(v) /\ \A x \in Of(l) : x[2] < v[2] => Empty(x)
      BY <1>13, WorkerOf DEF EndOnWay
    <2>2. v[2] \in Int /\ (v[2] = w[2] <=> v = w) /\ ~(w[2] < v[2])
      BY <1>13, <2>1, WorkerOf
    <2>3. v[2] <= w[2]
      BY <1>5, <2>2
    <2>4. \A x \in Of(l) : x[2] < w[2] => x # w /\ x # a
      BY <1>5, WorkerOf
    <2>5. \A x \in Of(l) : x[2] < v[2] => Empty(x)'
      <3> TAKE x \in Of(l)
      <3> HAVE x[2] < v[2]
      <3>1. x[2] < w[2]
        BY <1>5, <2>2, <2>3, WorkerOf
      <3> QED  BY <1>14, <2>1, <2>4, <3>1
    <2>6. CASE v # w
      <3>1. v[2] < w[2]
        BY <1>5, <2>2, <2>3, <2>6
      <3>2. EndIn(v)'
        BY <1>14, <2>1, <2>4, <3>1
      <3> QED  BY <2>1, <2>5, <3>2 DEF EndOnWay
    <2>7. CASE v = w /\ channel[w] # <<>>
      <3>1. EndIn(w)'
        BY <1>15, <2>1, <2>7 DEF EndIn
      <3> QED  BY <2>1, <2>5, <2>7, <3>1 DEF EndOnWay
    <2>8. CASE v = w /\ channel[w] = <<>>
      <3>1. item.kind = "eos"
        BY <2>1, <2>8 DEF EndIn, item
      <3>2. EndIn(a)'
        BY <1>10, <1>12, <3>1 DEF EndIn
      <3>3. Empty(w)'
        BY <1>6, <1>15, <2>8 DEF Empty
      <3>4. \A x \in Of(l) : x[2] < a[2] => Empty(x)'
        <4> TAKE x \in Of(l)
        <4> HAVE x[2] < a[2]
        <4>1. x = w \/ x[2] < w[2]
          BY <1>5, WorkerOf
        <4> QED  BY <2>5, <2>8, <3>3, <4>1
      <3> QED  BY <1>5, <3>2, <3>4 DEF EndOnWay
    <2> QED  BY <2>6, <2>7, <2>8
  <1>22. Renewing(l) => Renewing(l)'
    BY <1>1, <1>4, RenewsOn
  <1>23. LineOpen(l)'
    <2> SUFFICES ASSUME ~Renewing(l)', ~LineOver(l)'
                 PROVE  ~pad'[l].flushing /\ Met(l)' /\ (pad'[l].ended => EndOnWay(l)')
      BY DEF LineOpen
    <2>1. ~pad[l].flushing /\ Met(l) /\ (pad[l].ended => EndOnWay(l))
      BY <1>8, <1>22, WorkerOf DEF LineOpen
    <2> QED  BY <1>1, <1>8, <1>20, <1>21, <2>1
  <1>24. DrainedKept(l)
    <2> SUFFICES ASSUME NEW u \in Threads, u[1] = l, Drained(u) PROVE Drained(u)'
      BY DEF DrainedKept
    <2>1. ~(w[2] <= u[2]) /\ u[2] \in Int
      BY <1>13, WorkerOf DEF Drained
    <2>2. \A x \in Of(l) : x[2] <= u[2] => Empty(x) /\ x # w /\ x # a
      BY <1>5, <2>1, WorkerOf DEF Drained
    <2>3. \A x \in Of(l) : x[2] <= u[2] => Empty(x)'
      BY <1>14, <2>2
    <2> QED  BY <2>3 DEF Drained
  <1>25. LineEnds(l)'
    BY <1>1, <1>8, WorkerOf DEF OfLine, LineEnds
  <1>26. "look" \notin Over /\ tpc[w] \notin Over
    BY <1>1 DEF Over
  <1>27. OfLine(l)'
    BY <1>1, <1>23, <1>24, <1>25, <1>26, GoesOnInLine
  <1> QED  BY <1>27, WorkerStep DEF WorkerThread

\* A worker takes a request: a Flush empties its queue, and a Stop ends it once
\* those behind it have had theirs, or have none to come.
LEMMA WorkerTakesFinishes ==
    ASSUME Types, Protocol, Finishes, NEW w \in Workers, WorkerTakes(w)
    PROVE  Finishes'
  <1> DEFINE l == w[1]
  <1>1. PICK asked : asked = Head(control[w])
    OBVIOUS
  <1>2. /\ tpc[w] \in {"look", "select", "paused"} /\ control[w] # <<>>
        /\ ~GoesFurther(w, asked)
        /\ waiting' = IF asked.direct THEN waiting \ {w} ELSE waiting
        /\ channel' = IF asked.msg = "Flush" THEN [channel EXCEPT ![w] = <<>>] ELSE channel
        /\ flushing' = [flushing EXCEPT ![w] = @ \/ asked.msg = "Flush"]
        /\ terminal' = Heard(w, {asked.msg})
        /\ WorkerNext(w, asked.msg)
        /\ UNCHANGED <<todo, step, holder, call, paused, sending, source, pad, back, hand>>
    BY <1>1 DEF WorkerTakes, lock, callers
  <1>3. l \in Lines /\ w \in Threads /\ \A v \in Of(l) : v \in Workers /\ v \in Threads /\ v[1] = l
    BY WorkerOf
  <1>4. asked = control[w][1]
    BY <1>1, <1>2, WorkerAsked
  <1>5. asked.direct => Out(asked.msg) /\ w \in waiting
    BY <1>2, <1>4, WorkerAsked
  <1>6. ~asked.direct => asked.msg = "Stop" /\ w \in owing
    BY <1>2, <1>4, WorkerAsked
  <1>7. PICK p \in {"look", "paused", "ending"} :
            /\ tpc' = [tpc EXCEPT ![w] = p]
            /\ p = "ending" <=> asked.msg = "Stop"
    BY <1>2, WorkerNextIs
  <1>8. tpc'[w] = p /\ \A u \in Threads : u # w => tpc'[u] = tpc[u]
    BY <1>7, WorkerOf
  <1>9. p # "push" /\ tpc[w] # "push" /\ tpc[w] \notin Over /\ (p \in Over <=> asked.msg = "Stop")
    BY <1>2, <1>7 DEF Over
  <1>10. waiting' = waiting \/ waiting' = waiting \ {w}
    BY <1>2
  <1>11. terminal \in [Lines -> [seg : 0..timeline, from : 0..timeline, at : 0..Length,
                                 ended : BOOLEAN, heard : BOOLEAN]]
    BY DEF Types, TerminalTypes
  <1>12. /\ terminal'[l].ended <=> terminal[l].ended
         /\ terminal[l].heard => terminal'[l].heard
         /\ IsLast(w) /\ asked.msg = "Stop" => terminal'[l].heard
    <2>1. CASE IsLast(w) /\ asked.msg = "Stop"
      <3>1. terminal' = [terminal EXCEPT ![l].heard = TRUE]
        BY <1>2, <2>1 DEF Heard
      <3> QED  BY <1>3, <1>11, <3>1
    <2>2. CASE ~(IsLast(w) /\ asked.msg = "Stop")
      <3>1. "Stop" \in {asked.msg} <=> asked.msg = "Stop"
        OBVIOUS
      <3>2. terminal' = terminal
        BY <1>2, <2>2, <3>1 DEF Heard
      <3> QED  BY <2>2, <3>2
    <2> QED  BY <2>1, <2>2
  <1>13. LineOver(l) => LineOver(l)'
    BY <1>8, <1>9, WorkerOf DEF LineOver
  <1>14. LineOver(l)' => LineOver(l) \/ (IsLast(w) /\ asked.msg = "Stop")
    BY <1>8, <1>9, WorkerOf DEF LineOver
  <1>15. LineEnds(l)'
    <2>1. LineOver(l) => terminal[l].heard \/ terminal[l].ended
      BY WorkerOf DEF OfLine, LineEnds
    <2> QED  BY <1>12, <1>14, <2>1 DEF LineEnds
  <1>16. LineOpen(l)' /\ DrainedKept(l)
    <2>1. CASE asked.msg = "Flush"
      <3>1. Out("Flush")
        BY <1>5, <1>6, <2>1
      <3>2. Renewing(l)'
        BY <1>2, <3>1 DEF Out, Renewing
      <3>3. channel'[w] = <<>> /\ \A u \in Workers : u # w => channel'[u] = channel[u]
        BY <1>2, <2>1 DEF Types, ItemTypes
      <3>4. \A v \in Of(l) : Empty(v) => Empty(v)'
        <4> TAKE v \in Of(l)
        <4>1. CASE v = w
          BY <1>8, <1>9, <3>3, <4>1 DEF Empty
        <4>2. CASE v # w
          BY <1>3, <1>8, <3>3, <4>2 DEF Empty
        <4> QED  BY <4>1, <4>2
      <3>5. DrainedKept(l)
        BY <3>4 DEF DrainedKept, Drained
      <3> QED  BY <3>2, <3>5 DEF LineOpen
    <2>2. CASE asked.msg # "Flush"
      <3>1. channel' = channel
        BY <1>2, <2>2
      <3>2. flushing' = flushing
        <4>1. flushing \in [Workers -> BOOLEAN]
          BY DEF Types, QueueTypes
        <4>2. flushing' = [flushing EXCEPT ![w] = @]
          <5>1. PICK f : f = flushing[w]
            OBVIOUS
          <5>2. f \in BOOLEAN
            BY <4>1, <5>1
          <5>3. (f \/ asked.msg = "Flush") = f
            BY <2>2, <5>2
          <5> QED  BY <1>2, <5>1, <5>3
        <4> QED  BY <4>1, <4>2
      <3> QED  BY <1>2, <1>7, <1>9, <1>10, <1>12, <3>1, <3>2, MovesNothing
    <2> QED  BY <2>1, <2>2
  <1>17. p \in Over => EndsIn(w)'
    <2> SUFFICES ASSUME asked.msg = "Stop", ~LineOver(l)' PROVE EndsIn(w)'
      BY <1>9 DEF EndsIn
    <2>1. ~IsLast(w)
      <3>1. p = "ending"
        BY <1>7
      <3> QED  BY <1>8, <3>1, WorkerOf DEF LineOver, Over
    <2>2. ~LineOver(l)
      BY <1>13
    <2>3. ~Gone(After(w))
      <3>1. After(w) \in Workers /\ After(w)[1] = l
        BY <2>1, WorkerOf
      <3> QED  BY <2>2, <3>1, GoneIsOver
    <2>4. asked.direct
      BY <1>2, <2>1, <2>3 DEF GoesFurther
    <2>5. Out("Stop") /\ w \in waiting
      BY <1>5, <2>4
    <2>6. LastOf(l) \notin sending
      BY <1>3, <2>1, <2>5 DEF Finishes, InTurn
    <2>7. LastOf(l) \in sending \cup waiting
      BY <2>2, <2>5, WorkerOf DEF Protocol, Follows, LineOver
    <2>8. LastOf(l) \in waiting'
      BY <1>10, <2>1, <2>6, <2>7, WorkerOf
    <2>9. StopComes(l)'
      BY <1>2, <2>5, <2>8 DEF StopComes, Out
    <2> QED  BY <2>9 DEF EndsIn
  <1>18. w \in waiting => w \in waiting' \/ ~Out("Stop") \/ p \in Over
    <2> SUFFICES ASSUME w \in waiting, w \notin waiting', Out("Stop") PROVE p \in Over
      OBVIOUS
    <2>1. asked.direct
      BY <1>2
    <2>2. Out(asked.msg)
      BY <1>5, <2>1
    <2>3. asked.msg = "Stop"
      BY <2>2 DEF Out
    <2> QED  BY <1>9, <2>3
  <1>19. OfLine(l)'
    BY <1>2, <1>7, <1>9, <1>10, <1>15, <1>16, <1>17, <1>18, GoesOnInLine
  <1> QED  BY <1>19, WorkerStep DEF WorkerThread

\* One given up, its queue dropped: what the thread before it left the line.
LEMMA DroppedLeaves ==
    ASSUME Types, Protocol, Finishes, NEW w \in Workers, DeliverPending(w)
    PROVE  /\ Before(w) \in Threads /\ Before(w)[1] = w[1] /\ Before(w)[2] = w[2] - 1
           /\ EndsIn(Before(w))
           /\ IsLast(w) /\ StopComes(w[1]) =>
                  "Stop" \in {control[w][i].msg : i \in DOMAIN control[w]}
           /\ Drains(w[1]) /\ Drained(Before(w)) /\ ~LineOver(w[1]) =>
                  Drained(w) /\ (IsLast(w) => terminal[w[1]].ended)
  <1> DEFINE l == w[1]
             msgs == {control[w][i].msg : i \in DOMAIN control[w]}
  <1>1. dropped[w] /\ GivesUp(w)
    BY DEF DeliverPending
  <1>2. l \in Lines /\ w \in Threads /\ \A v \in Of(l) : v \in Workers /\ v \in Threads /\ v[1] = l
    BY WorkerOf
  <1>3. tpc[w] \in {"look", "paused"} /\ tpc[w] # "push" /\ tpc[w] \notin Over
    BY <1>1 DEF GivesUp, Over
  \* The thread before it is over, and has left the line its end.
  <1>4. Before(w) \in Threads /\ Before(w)[1] = l /\ Before(w)[2] = w[2] - 1 /\ EndsIn(Before(w))
    <2>1. Before(w) \in Threads /\ Before(w)[1] = l /\ Before(w)[2] = w[2] - 1
      BY Neighbours
    <2>2. tpc[Before(w)] \in Quit
      BY <1>1 DEF Protocol, Registered
    <2>3. IsOver(Before(w))
      BY <2>2 DEF IsOver, Quit, Left, Over
    <2> QED  BY <1>2, <2>1, <2>3, WorkerOf DEF OfLine, LeavesEnd
  \* A Stop for the last of the line is among what it is handed.
  <1>5. IsLast(w) /\ StopComes(l) => "Stop" \in msgs
    <2> SUFFICES ASSUME IsLast(w), StopComes(l) PROVE "Stop" \in msgs
      OBVIOUS
    <2>1. w \in waiting /\ Out("Stop")
      BY WorkerOf DEF StopComes
    <2>2. PICK i \in 1 .. Len(control[w]) : control[w][i].direct
      BY <2>1 DEF Finishes, Asked
    <2>3. Out(control[w][i].msg)
      BY <1>2, <2>2 DEF Protocol, ControlIs
    <2>4. control[w][i].msg = "Stop"
      BY <2>1, <2>3 DEF Out
    <2>5. i \in DOMAIN control[w]
      <3>1. control[w] \in Seq([msg : StageNames, direct : BOOLEAN])
        BY <1>2 DEF Types, RequestTypes
      <3> QED  BY <3>1
    <2> QED  BY <2>4, <2>5
  \* One that drains has handed on all there is, and its end is behind it.
  <1>6. ASSUME Drains(l), Drained(Before(w)), ~LineOver(l)
         PROVE  Drained(w) /\ (IsLast(w) => terminal[l].ended)
    <2>1. Finishing /\ ToNothing /\ ~paused /\ pad[l].ended
      BY <1>6 DEF Drains
    <2>2. tpc[w] = "look"
      <3>1. tpc[w] # "paused"
        BY <1>6, <2>1 DEF Finishes, PlaysOn
      <3> QED  BY <1>3, <3>1
    <2>3. EndOnWay(l)
      <3>1. ~Renewing(l)
        BY <2>1 DEF ToNothing, Renewing
      <3> QED  BY <1>6, <2>1, <3>1, WorkerOf DEF LineOpen
    <2>4. phase # "stopped"
      <3> SUFFICES ASSUME phase = "stopped" PROVE FALSE
        OBVIOUS
      <3>1. ~(todo # <<>> /\ todo[1] = "Stop")
        BY <2>1 DEF ToNothing
      <3> QED  BY <1>2, <1>6, <3>1 DEF Finishes, StoppedIsOver
    <2>5. \A x \in Of(l) : x[2] < w[2] => Empty(x)
      <3> TAKE x \in Of(l)
      <3> HAVE x[2] < w[2]
      <3>1. x[2] <= Before(w)[2]
        BY <1>4, WorkerOf
      <3> QED  BY <1>4, <1>6, <3>1 DEF Drained
    <2>6. channel[w] = <<>>
      <3> SUFFICES ASSUME channel[w] # <<>> PROVE FALSE
        OBVIOUS
      <3>1. ~OwesAnEnd(w)
        BY <1>1, <2>2 DEF GivesUp
      <3>2. \A i \in DOMAIN channel[w] : channel[w][i].kind # "eos"
        BY <2>4, <3>1 DEF OwesAnEnd
      <3>3. ~EndIn(w)
        <4>1. PICK q \in Seq(ItemsTo(timeline)) : q = channel[w]
          BY DEF Types, ItemTypes
        <4>2. Len(q) \in Nat /\ Len(q) > 0
          BY <4>1, HeadOf
        <4>3. Len(q) \in DOMAIN q
          BY <4>2
        <4>4. channel[w][Len(channel[w])].kind # "eos"
          BY <3>2, <4>1, <4>3
        <4> QED  BY <2>2, <4>4 DEF EndIn
      <3>4. ~Empty(w)
        BY DEF Empty
      <3>5. PICK v \in Of(l) : EndIn(v) /\ \A x \in Of(l) : x[2] < v[2] => Empty(x)
        BY <2>3, <3>4, WorkerOf DEF EndOnWay
      <3>6. v # w /\ ~(w[2] < v[2])
        BY <3>3, <3>4, <3>5, WorkerOf
      <3>7. v[2] < w[2]
        BY <3>6, WorkerOf
      <3>8. ~EndIn(v)
        BY <2>5, <3>7 DEF Empty, EndIn
      <3> QED  BY <3>5, <3>8
    <2>7. Empty(w)
      BY <2>2, <2>6 DEF Empty
    <2>8. \A x \in Of(l) : x[2] <= w[2] => Empty(x)
      <3> TAKE x \in Of(l)
      <3> HAVE x[2] <= w[2]
      <3>1. x = w \/ x[2] < w[2]
        BY WorkerOf
      <3> QED  BY <2>5, <2>7, <3>1
    <2>9. IsLast(w) => terminal[l].ended
      <3> SUFFICES ASSUME IsLast(w) PROVE terminal[l].ended
        OBVIOUS
      <3>1. \A x \in Of(l) : Empty(x)
        BY <2>8, WorkerOf
      <3>2. \A x \in Of(l) : ~EndIn(x)
        BY <3>1 DEF Empty, EndIn
      <3> QED  BY <2>3, <3>2 DEF EndOnWay
    <2> QED  BY <2>8, <2>9 DEF Drained
  <1> QED  BY <1>4, <1>5, <1>6

\* Its queue dropped, a worker that gives up has its line's end behind it.
LEMMA DeliverPendingFinishes ==
    ASSUME Types, Protocol, Finishes, NEW w \in Workers, DeliverPending(w)
    PROVE  Finishes'
  <1> DEFINE l == w[1]
             msgs == {control[w][i].msg : i \in DOMAIN control[w]}
  <1>1. /\ dropped[w] /\ GivesUp(w) /\ terminal' = Heard(w, msgs)
        /\ waiting' = waiting \ {w} /\ tpc' = [tpc EXCEPT ![w] = "ending"]
        /\ UNCHANGED <<todo, step, holder, call, paused, sending, source, pad, back, hand, channel,
                       flushing>>
    BY DEF DeliverPending, GoTo, lock, callers, queues
  <1>2. l \in Lines /\ w \in Threads /\ \A v \in Of(l) : v \in Workers /\ v \in Threads /\ v[1] = l
    BY WorkerOf
  <1>3. tpc'[w] = "ending" /\ \A u \in Threads : u # w => tpc'[u] = tpc[u]
    BY <1>1, WorkerOf
  <1>4. tpc[w] \in {"look", "paused"} /\ tpc[w] # "push" /\ tpc[w] \notin Over /\ "ending" \in Over
    BY <1>1 DEF GivesUp, Over
  <1>5. terminal \in [Lines -> [seg : 0..timeline, from : 0..timeline, at : 0..Length,
                                ended : BOOLEAN, heard : BOOLEAN]]
    BY DEF Types, TerminalTypes
  <1>6. /\ terminal'[l].ended <=> terminal[l].ended
        /\ terminal[l].heard => terminal'[l].heard
        /\ IsLast(w) /\ "Stop" \in msgs => terminal'[l].heard
    <2> HIDE DEF msgs
    <2>1. CASE IsLast(w) /\ "Stop" \in msgs
      <3>1. terminal' = [terminal EXCEPT ![l].heard = TRUE]
        BY <1>1, <2>1 DEF Heard
      <3> QED  BY <1>2, <1>5, <3>1
    <2>2. CASE ~(IsLast(w) /\ "Stop" \in msgs)
      <3>1. terminal' = terminal
        BY <1>1, <2>2 DEF Heard
      <3> QED  BY <2>2, <3>1
    <2> QED  BY <2>1, <2>2
  <1>7. LineOpen(l)' /\ DrainedKept(l)
    BY <1>1, <1>4, <1>6, MovesNothing
  <1>8. LineOver(l) => LineOver(l)'
    BY <1>3, <1>4, WorkerOf DEF LineOver
  <1>9. LineOver(l)' => LineOver(l) \/ IsLast(w)
    BY <1>3, WorkerOf DEF LineOver
  <1>10. /\ Before(w) \in Threads /\ Before(w)[1] = l /\ Before(w)[2] = w[2] - 1
         /\ EndsIn(Before(w))
         /\ IsLast(w) /\ StopComes(l) => "Stop" \in msgs
         /\ Drains(l) /\ Drained(Before(w)) /\ ~LineOver(l) =>
                Drained(w) /\ (IsLast(w) => terminal[l].ended)
    BY DroppedLeaves
  <1>11. LineEnds(l)'
    <2> SUFFICES ASSUME LineOver(l)' PROVE (terminal[l].heard \/ terminal[l].ended)'
      BY DEF LineEnds
    <2>1. CASE LineOver(l)
      BY <1>6, <2>1, WorkerOf DEF OfLine, LineEnds
    <2>2. CASE ~LineOver(l) /\ IsLast(w)
      BY <1>6, <1>10, <2>2 DEF EndsIn
    <2> QED  BY <1>9, <2>1, <2>2
  <1>12. EndsIn(w)'
    <2> SUFFICES ASSUME ~LineOver(l)' PROVE EndsIn(w)'
      BY DEF EndsIn
    <2>1. ~LineOver(l) /\ ~IsLast(w)
      <3>1. ~IsLast(w)
        BY <1>3, <1>4, WorkerOf DEF LineOver
      <3> QED  BY <1>8, <3>1
    <2>2. CASE StopComes(l)
      <3>1. LastOf(l) \in waiting'
        BY <1>1, <2>1, <2>2, WorkerOf DEF StopComes
      <3>2. StopComes(l)'
        BY <1>1, <2>2, <3>1 DEF StopComes, Out
      <3> QED  BY <3>2 DEF EndsIn
    <2>3. CASE Drains(l) /\ Drained(Before(w))
      <3>1. Drained(w)'
        BY <1>2, <1>7, <1>10, <2>1, <2>3 DEF DrainedKept
      <3>2. tpc'[Source(l)] = tpc[Source(l)]
        BY <1>3, WorkerOf
      <3>3. Drains(l)'
        BY <1>1, <2>3, <3>2 DEF Drains, Finishing, ToNothing
      <3> QED  BY <3>1, <3>3 DEF EndsIn
    <2> QED  BY <1>10, <2>1, <2>2, <2>3 DEF EndsIn
  <1>13. OfLine(l)'
    BY <1>1, <1>4, <1>7, <1>11, <1>12, GoesOnInLine
  <1> QED  BY <1>13, WorkerStep DEF WorkerThread

-----------------------------------------------------------------------------
(* What each step of a call leaves the lines in.                           *)

\* What a call keeps of a line that is not over.
KeepsLine(l) ==
    \/ LineOver(l)
    \/ /\ Renewing(l) => Renewing(l)'
       /\ StopComes(l) => StopComes(l)'
       /\ Drains(l) => Drains(l)'

\* A call moves nothing itself.
LEMMA CallerLines ==
    ASSUME Finishes, UNCHANGED <<tpc, back, hand, channel, flushing, pad, source, terminal>>,
           \A l \in Lines : KeepsLine(l)
    PROVE  \A l \in Lines : OfLine(l)'
  <1> TAKE l \in Lines
  <1>1. OfLine(l) /\ KeepsLine(l)
    BY DEF Finishes
  <1>2. LineOver(l)' <=> LineOver(l)
    BY DEF LineOver
  <1>3. Kept(l)
    BY NothingMoved
  <1>4. LineOpen(l)'
    <2>1. ~Renewing(l)' => ~Renewing(l) \/ LineOver(l)
      BY <1>1 DEF KeepsLine
    <2> QED  BY <1>1, <1>2, <1>3, <2>1, OpenStays
  <1>5. LeavesEnd(l)'
    <2>1. NewlyOver(l)
      BY DEF NewlyOver, IsOver
    <2>2. CASE LineOver(l)
      BY <1>2, <2>2 DEF LeavesEnd, EndsIn
    <2>3. CASE ~LineOver(l)
      BY <1>1, <1>2, <1>3, <2>1, <2>3, EndsKept DEF KeepsLine, Kept
    <2> QED  BY <2>2, <2>3
  <1>6. Begun(l)' /\ Lingers(l)'
    BY <1>1 DEF OfLine, Begun, Lingers
  <1>7. LineEnds(l)'
    BY <1>1, <1>2 DEF OfLine, LineEnds
  <1> QED  BY <1>4, <1>5, <1>6, <1>7 DEF OfLine

\* A step of a call that asks nothing.
LEMMA CallerFinishes ==
    ASSUME Finishes,
           UNCHANGED <<tpc, back, hand, channel, flushing, pad, source, terminal, control, waiting,
                       sending>>,
           Out("Resume")' => Out("Resume"), PlaysOn', StoppedIsOver',
           \A l \in Lines : KeepsLine(l)
    PROVE  Finishes'
  <1>1. \A l \in Lines : OfLine(l)'
    BY CallerLines
  <1>2. Asked' /\ InTurn'
    BY DEF Finishes, Asked, InTurn, IsLast, LastOf
  <1>3. ResumeReaches'
    BY DEF Finishes, ResumeReaches, LineOver, LastOf
  <1> QED  BY <1>1, <1>2, <1>3 DEF Finishes

\* It goes on as it did where it plays no sooner.
LEMMA PlaysOnStays ==
    ASSUME Finishes, tpc' = tpc, ~paused' /\ ToNothing' => ~paused /\ ToNothing
    PROVE  PlaysOn'
  BY DEF Finishes, PlaysOn, LineOver, LastOf

\* A call that is made has asked nothing of any thread yet.
LEMMA CallsFinishes ==
    ASSUME Types, Protocol, Finishes, NEW c \in Callers, Calls(c)
    PROVE  Finishes'
  <1>1. /\ cpc[c] = "idle" /\ \A d \in Callers : d # c => call'[d] = call[d]
        /\ UNCHANGED <<phase, paused, todo, step, holder, tpc, back, hand, channel, flushing, pad,
                       source, terminal, control, waiting, sending>>
    BY DEF Calls, lock, threads, requests, queues, ends, Types, CallTypes
  <1>2. Finishing => Finishing'
    BY <1>1 DEF Types, CallTypes, Finishing
  <1>3. Out("Resume")' => Out("Resume")
    BY <1>1 DEF Out
  <1>4. PlaysOn'
    BY <1>1, PlaysOnStays DEF ToNothing
  <1>5. StoppedIsOver'
    BY <1>1 DEF Finishes, StoppedIsOver, LineOver
  <1>6. \A l \in Lines : KeepsLine(l)
    BY <1>1, <1>2 DEF KeepsLine, Renewing, StopComes, Out, Drains, ToNothing
  <1> QED  BY <1>1, <1>3, <1>4, <1>5, <1>6, CallerFinishes

\* A call that is refused leaves the lines as they are.
LEMMA RefusesFinishes ==
    ASSUME Types, Protocol, Finishes, NEW c \in Callers, Refuses(c)
    PROVE  Finishes'
  <1>1. /\ holder = None
        /\ UNCHANGED <<phase, paused, todo, step, tpc, back, hand, channel, flushing, pad,
                       source, terminal, control, waiting, sending>>
    BY DEF Refuses, playback, threads, requests, queues, ends
  <1>2. Out("Resume")' => Out("Resume")
    BY <1>1 DEF Out
  <1>3. PlaysOn'
    BY <1>1, PlaysOnStays DEF ToNothing
  <1>4. StoppedIsOver'
    BY <1>1 DEF Finishes, StoppedIsOver, LineOver
  <1>5. \A l \in Lines : KeepsLine(l)
    BY <1>1 DEF KeepsLine, Renewing, StopComes, Out, Drains, Finishing
  <1> QED  BY <1>1, <1>2, <1>3, <1>4, <1>5, CallerFinishes

\* A call that begins has said nothing yet: no phase and no request changes.
LEMMA BeginsFinishes ==
    ASSUME Types, Protocol, Finishes, NEW c \in Callers, Begins(c)
    PROVE  Finishes'
  <1>1. /\ holder = None /\ step' = "say" /\ cpc[c] = "locking"
        /\ todo' = Stages(call[c].op) /\ paused' = PausedBy(call[c].op)
        /\ UNCHANGED <<phase, tpc, back, hand, channel, flushing, pad,
                       source, terminal, control, waiting, sending>>
    BY DEF Begins, playback, threads, requests, queues, ends
  <1>2. todo = <<>>
    BY <1>1 DEF Types, Plan
  <1>3. call[c].op \in Ops /\ paused \in BOOLEAN
    BY <1>1 DEF Types, CallTypes, PlayTypes
  <1>4. ~Out("Resume")'
    BY <1>1 DEF Out
  <1>5. PlaysOn'
    <2>1. ASSUME ~paused', ToNothing' PROVE ~paused
      <3> SUFFICES ASSUME paused PROVE FALSE
        BY <1>3
      <3>1. todo' \in {<<>>, <<"Finish">>}
        BY <2>1 DEF ToNothing
      <3>2. call[c].op \in {"pause", "resume", "seek", "stop", "finish"}
        BY <1>3, OpsAssumption
      <3>3. call[c].op # "pause" /\ call[c].op # "seek"
        BY <1>1, <2>1 DEF PausedBy
      <3>4. Stages(call[c].op) \in {<<"Resume">>, <<"Stop">>, <<"Resume", "Finish">>}
        BY <1>3, <3>2, <3>3, StagesAre
      <3>5. \A s \in {<<"Resume">>, <<"Stop">>, <<"Resume", "Finish">>} :
                s # <<>> /\ s[1] # "Finish"
        OBVIOUS
      <3>6. todo' # <<>> /\ todo'[1] # "Finish"
        BY <1>1, <3>4, <3>5
      <3> QED  BY <3>1, <3>6
    <2> QED  BY <1>1, <1>2, <2>1, PlaysOnStays DEF ToNothing
  <1>6. StoppedIsOver'
    BY <1>1, <1>2 DEF Finishes, StoppedIsOver, LineOver
  <1>7. \A l \in Lines : KeepsLine(l)
    BY <1>1, <1>2 DEF KeepsLine, Renewing, StopComes, Out, Drains, Finishing
  <1> QED  BY <1>1, <1>4, <1>5, <1>6, <1>7, CallerFinishes

\* A call over leaves playing, paused or stopped what its last stage left so.
LEMMA CompletesFinishes ==
    ASSUME Types, Protocol, Finishes, Completes
    PROVE  Finishes'
  <1>1. /\ Finishing => holder' = holder
        /\ UNCHANGED <<phase, paused, todo, step, call, tpc, back, hand, channel, flushing, pad,
                       source, terminal, control, waiting, sending>>
    BY DEF Completes, Finishing, playback, threads, requests, queues, ends
  <1>2. Out("Resume")' => Out("Resume")
    BY <1>1 DEF Out
  <1>3. PlaysOn'
    BY <1>1, PlaysOnStays DEF ToNothing
  <1>4. StoppedIsOver'
    BY <1>1 DEF Finishes, StoppedIsOver, LineOver
  <1>5. \A l \in Lines : KeepsLine(l)
    BY <1>1 DEF KeepsLine, Renewing, StopComes, Out, Drains, Finishing, ToNothing
  <1> QED  BY <1>1, <1>2, <1>3, <1>4, <1>5, CallerFinishes

\* Its sources joined, a line is over.
LEMMA JoinsFinishes ==
    ASSUME Types, Protocol, Finishes, NEW c \in Callers, Joins(c)
    PROVE  Finishes'
  <1>1. /\ \A s \in Sources : tpc[s] = "done"
        /\ UNCHANGED <<phase, paused, todo, step, tpc, back, hand, channel, flushing, pad,
                       source, terminal, control, waiting, sending>>
    BY DEF Joins, playback, threads, requests, queues, ends
  <1>2. Out("Resume")' => Out("Resume")
    BY <1>1 DEF Out
  <1>3. PlaysOn'
    BY <1>1, PlaysOnStays DEF ToNothing
  <1>4. StoppedIsOver'
    BY <1>1 DEF Finishes, StoppedIsOver, LineOver
  <1>5. \A l \in Lines : KeepsLine(l)
    <2> TAKE l \in Lines
    <2>1. /\ Source(l) \in Sources /\ Source(l) \in Threads /\ Source(l)[1] = l
          /\ Source(l)[2] = 0 /\ Depth > 0
          /\ LastOf(l) \in Threads /\ LastOf(l)[1] = l /\ LastOf(l)[2] = Depth
      BY ThreadsAre, LineIs
    <2>2. tpc[LastOf(l)] = "done"
      BY <1>1, <2>1 DEF Protocol, Registered
    <2> QED  BY <2>2 DEF KeepsLine, LineOver, Over
  <1> QED  BY <1>1, <1>2, <1>3, <1>4, <1>5, CallerFinishes

\* A request is said: what it asks is out for nobody yet.
LEMMA SaysFinishes ==
    ASSUME Types, Protocol, Finishes, Says
    PROVE  Finishes'
  <1>1. /\ todo # <<>> /\ step = "say" /\ step' = "snapshot"
        /\ UNCHANGED <<paused, todo, holder, call, tpc, back, hand, channel, flushing, pad,
                       source, terminal, control, waiting, sending>>
        /\ phase' = "stopped" => todo[1] = "Stop" \/ phase = "stopped"
    BY SaysIs
  <1>2. ~Out("Resume")'
    BY <1>1 DEF Out
  <1>3. PlaysOn'
    BY <1>1, PlaysOnStays DEF ToNothing
  <1>4. StoppedIsOver'
    BY <1>1 DEF Finishes, StoppedIsOver, LineOver
  <1>5. \A l \in Lines : KeepsLine(l)
    BY <1>1 DEF KeepsLine, Renewing, StopComes, Out, Drains, Finishing, ToNothing
  <1> QED  BY <1>1, <1>2, <1>3, <1>4, <1>5, CallerFinishes

\* Once all are asked, the interrupt is given: no line changes.
LEMMA InterruptsFinishes ==
    ASSUME Types, Protocol, Finishes, Interrupts
    PROVE  Finishes'
  <1>1. /\ step = "send" /\ step' = "acks"
        /\ UNCHANGED <<phase, paused, todo, holder, call, tpc, back, hand, channel, flushing, pad,
                       source, terminal, control, waiting, sending>>
    BY DEF Interrupts, callers, threads, requests, queues, ends
  <1>2. Out("Resume")' => Out("Resume")
    BY <1>1 DEF Out
  <1>3. PlaysOn'
    BY <1>1, PlaysOnStays DEF ToNothing
  <1>4. StoppedIsOver'
    BY <1>1 DEF Finishes, StoppedIsOver, LineOver
  <1>5. \A l \in Lines : KeepsLine(l)
    BY <1>1 DEF KeepsLine, Renewing, StopComes, Out, Drains, Finishing, ToNothing
  <1> QED  BY <1>1, <1>2, <1>3, <1>4, <1>5, CallerFinishes

\* A preroll awaited, or given up, changes no line.
LEMMA AwaitsFinishes ==
    ASSUME Types, Protocol, Finishes, Awaits
    PROVE  Finishes'
  <1>1. /\ todo # <<>> /\ step = "say" /\ todo' = Tail(todo) /\ Head(todo) \in {"await", "retire"}
        /\ UNCHANGED <<phase, paused, step, holder, call, tpc, back, hand, channel, flushing, pad,
                       source, terminal, control, waiting, sending>>
    BY DEF Awaits, playback, callers, threads, requests, queues, ends
  <1>2. /\ todo[1] \in {"await", "retire"} /\ todo \in ToPaused \cup ToPlaying
        /\ todo' \notin {<<>>, <<"Finish">>} /\ todo \notin ToFinish
    BY <1>1, UnderWay DEF StageLeaves
  <1>3. ~Out("Resume")'
    BY <1>1 DEF Out
  <1>4. PlaysOn'
    BY <1>1, <1>2, PlaysOnStays DEF ToNothing
  <1>5. StoppedIsOver'
    BY <1>1, <1>2 DEF Finishes, StoppedIsOver, LineOver
  <1>6. ~ToNothing
    BY <1>1, <1>2 DEF ToNothing, ToFinish
  <1>7. \A l \in Lines : KeepsLine(l)
    BY <1>1, <1>2, <1>6 DEF KeepsLine, Renewing, StopComes, Out, Drains
  <1> QED  BY <1>1, <1>3, <1>4, <1>5, <1>7, CallerFinishes

\* A stage settled has reached all it was sent to.
LEMMA SettlesFinishes ==
    ASSUME Types, Protocol, Finishes, Settles
    PROVE  Finishes'
  <1>1. /\ step = "acks" /\ waiting = {} /\ todo' = Tail(todo) /\ step' = "say"
        /\ UNCHANGED <<phase, paused, holder, call, tpc, back, hand, channel, flushing, pad,
                       source, terminal, control, waiting, sending>>
    BY DEF Settles, AllAcked, callers, threads, requests, queues, ends
  <1>2. sending = {} /\ todo # <<>>
    BY <1>1 DEF Types, RequestTypes, Plan
  <1>3. StageLeaves(todo) /\ (todo \in ToPaused => paused)
    BY <1>2, UnderWay DEF Types, Plan
  <1>4. Out(todo[1])
    BY <1>1, <1>2 DEF Out
  <1>5. ~Out("Resume")'
    BY <1>1 DEF Out
  <1>6. ASSUME Out("Stop"), NEW w \in Workers PROVE tpc[w] \in Over
    BY <1>1, <1>2, <1>6 DEF Protocol, Follows
  <1>7. PlaysOn'
    <2> SUFFICES ASSUME ~paused, todo' \in {<<>>, <<"Finish">>},
                        NEW w \in Workers, tpc[w] = "paused"
                 PROVE  LineOver(w[1])
      BY <1>1 DEF PlaysOn, ToNothing, LineOver, LastOf
    <2>1. CASE todo[1] = "Resume"
      BY <1>1, <1>2, <1>4, <2>1 DEF Finishes, ResumeReaches
    <2>2. CASE todo[1] = "Finish"
      <3>1. ToNothing
        BY <1>3, <2>2 DEF StageLeaves, ToNothing
      <3> QED  BY <3>1 DEF Finishes, PlaysOn
    <2>3. CASE todo[1] = "Pause"
      <3>1. todo' # <<"Finish">>
        BY <1>1, <1>3, <2>3 DEF StageLeaves
      <3> QED  BY <1>1, <1>3, <2>3, <3>1 DEF StageLeaves
    <2>4. CASE todo[1] = "Stop"
      BY <1>4, <1>6, <2>4 DEF Over
    <2>5. todo[1] \in {"Pause", "Resume", "Stop", "Finish"}
      BY <1>1, <1>3 DEF StageLeaves
    <2> QED  BY <2>1, <2>2, <2>3, <2>4, <2>5
  <1>8. StoppedIsOver'
    <2> SUFFICES ASSUME phase = "stopped", NEW l \in Lines PROVE LineOver(l)
      BY <1>1 DEF StoppedIsOver, LineOver, LastOf
    <2>1. CASE todo[1] = "Stop"
      BY <1>4, <1>6, <2>1, LineIs DEF LineOver
    <2>2. CASE todo[1] # "Stop"
      BY <2>2 DEF Finishes, StoppedIsOver
    <2> QED  BY <2>1, <2>2
  <1>9. \A l \in Lines : KeepsLine(l)
    <2> TAKE l \in Lines
    <2>1. Renewing(l) => Renewing(l)'
      <3> SUFFICES ASSUME Renewing(l) PROVE Renewing(l)'
        OBVIOUS
      <3>1. todo[1] = "Flush"
        BY <1>1, <1>2 DEF Renewing
      <3>2. todo \in Flushing
        BY <1>3, <3>1 DEF StageLeaves
      <3>3. Tail(todo) # <<>> /\ Tail(todo)[1] = "Seek"
        <4>1. CASE todo = <<"Flush", "Seek", "Preroll", "await", "retire", "Pause">>
          BY <4>1
        <4>2. CASE todo = <<"Flush", "Seek", "Preroll", "await", "retire", "Pause", "Resume">>
          BY <4>2
        <4> QED  BY <3>1, <3>2, <4>1, <4>2 DEF Flushing
      <3> QED  BY <1>1, <3>3 DEF Renewing
    <2>2. ~StopComes(l)
      BY <1>1 DEF StopComes
    <2>3. Drains(l) => Drains(l)'
      <3> SUFFICES ASSUME Drains(l) PROVE Drains(l)'
        OBVIOUS
      <3>1. todo = <<"Finish">>
        BY <1>2 DEF Drains, ToNothing
      <3>2. todo' = <<>>
        BY <1>1, <3>1
      <3> QED  BY <1>1, <3>2 DEF Drains, Finishing, ToNothing
    <2> QED  BY <2>1, <2>2, <2>3 DEF KeepsLine
  <1> QED  BY <1>1, <1>5, <1>7, <1>8, <1>9, CallerFinishes

\* Whoever a stage is not sent to is over, but where it is a finish's end.
LEMMA SnapshotsFinishes ==
    ASSUME Types, Protocol, Finishes, Snapshots
    PROVE  Finishes'
  <1>1. /\ step = "snapshot" /\ step' = "send" /\ sending' = AskedOf(Head(todo))
        /\ UNCHANGED <<phase, paused, todo, holder, call, tpc, back, hand, channel, flushing, pad,
                       source, terminal, control, waiting>>
    BY DEF Snapshots, playback, callers, threads, requests, queues, ends
  <1>2. waiting = {} /\ todo # <<>> /\ Head(todo) = todo[1]
    <2>1. waiting = {} /\ todo # <<>>
      BY <1>1 DEF Types, RequestTypes, Plan
    <2> QED  BY <2>1, UnderWay DEF StageLeaves
  <1>3. Sources \subseteq sending'
    BY <1>1 DEF AskedOf
  <1>4. Asked' /\ InTurn'
    BY <1>1, <1>2 DEF Asked, InTurn
  <1>5. ResumeReaches'
    <2> SUFFICES ASSUME todo[1] = "Resume", NEW w \in Workers, w \notin sending'
                 PROVE  LineOver(w[1])
      BY <1>1 DEF ResumeReaches, Out, LineOver, LastOf
    <2>1. ~registered[w]
      BY <1>1, <1>2 DEF AskedOf
    <2>2. Before(w) \in Threads /\ Before(w)[1] = w[1]
      BY Neighbours
    <2>3. tpc[Before(w)] \in Quit
      BY <2>1 DEF Protocol, Registered
    <2>4. IsOver(Before(w))
      BY <2>3 DEF IsOver, Quit, Left, Over
    <2>5. ~Out("Stop") /\ ~ToNothing
      BY <1>2 DEF Out, ToNothing
    <2> QED  BY <2>2, <2>4, <2>5, OverIsEnd
  <1>6. PlaysOn'
    BY <1>1, PlaysOnStays DEF ToNothing
  <1>7. StoppedIsOver'
    BY <1>1 DEF Finishes, StoppedIsOver, LineOver
  <1>8. \A l \in Lines : KeepsLine(l)
    <2> TAKE l \in Lines
    <2>1. Source(l) \in sending'
      BY <1>3, ThreadsAre
    <2> QED  BY <1>1, <1>2, <2>1
             DEF KeepsLine, Renewing, StopComes, Drains, Finishing, ToNothing
  <1>9. \A l \in Lines : OfLine(l)'
    BY <1>1, <1>8, CallerLines
  <1> QED  BY <1>4, <1>5, <1>6, <1>7, <1>9 DEF Finishes

\* The last of a line is asked before those in front of it, unless it was built late.
LEMMA LastIsFirst ==
    ASSUME ~LateBranch, NEW t \in Threads, ~IsLast(t), IsNextToAsk(t)
    PROVE  LastOf(t[1]) \notin sending
  <1>1. Depth \in Nat /\ Depth > 0 /\ t[2] \in 0..Depth
    BY ThreadsAre
  <1>2. LastOf(t[1])[1] = t[1] /\ LastOf(t[1])[2] = Depth
    BY DEF LastOf
  <1>3. Rank(LastOf(t[1])) = 0
    BY <1>1, <1>2 DEF Rank
  <1>4. t[2] # Depth
    BY DEF IsLast
  <1>5. Rank(t) = IF t[2] = 0 THEN Depth + 1 ELSE Depth - t[2]
    BY <1>4 DEF Rank, IsLast
  <1>6. Rank(t) > 0
    BY <1>1, <1>4, <1>5
  <1>7. ASSUME LastOf(t[1]) \in sending PROVE FALSE
    <2>1. Rank(t) <= Rank(LastOf(t[1]))
      BY <1>2, <1>7 DEF IsNextToAsk
    <2> QED  BY <1>1, <1>3, <1>5, <1>6, <2>1
  <1> QED  BY <1>7

\* One is asked after the other.
LEMMA SendsFinishes ==
    ASSUME ~LateBranch, Types, Protocol, Finishes, Sends
    PROVE  Finishes'
  <1>1. PICK t \in sending :
            /\ IsNextToAsk(t) /\ sending' = sending \ {t}
            /\ IF Receives(t)
               THEN /\ control' = [control EXCEPT ![t] = Append(@, Direct(Head(todo)))]
                    /\ waiting' = waiting \cup {t}
               ELSE UNCHANGED <<control, waiting>>
    BY DEF Sends
  <1>2. /\ step = "send"
        /\ UNCHANGED <<phase, paused, todo, step, holder, call, tpc, back, hand, channel, flushing,
                       pad, source, terminal>>
    BY DEF Sends, playback, callers, threads, queues, ends
  <1>3. t \in Threads /\ t[1] \in Lines /\ (\A w \in Workers : w \in Threads)
        /\ control \in [Threads -> Seq([msg : StageNames, direct : BOOLEAN])]
        /\ (t \in Sources => t = Source(t[1])) /\ (t \notin Sources => t \in Workers)
    BY ThreadsAre DEF Types, RequestTypes
  <1>4. waiting' \subseteq waiting \cup {t} /\ waiting \subseteq waiting'
    BY <1>1
  <1>5. \A m : Out(m)' <=> Out(m)
    BY <1>2 DEF Out
  <1>6. Asked'
    <2> SUFFICES ASSUME NEW w \in Workers, w \in waiting'
                 PROVE  \E i \in 1 .. Len(control'[w]) : control'[w][i].direct
      BY DEF Asked
    <2>1. CASE w = t /\ Receives(t)
      <3>1. PICK q \in Seq([msg : StageNames, direct : BOOLEAN]) : q = control[t]
        BY <1>3
      <3>2. PICK x : x = Direct(Head(todo))
        OBVIOUS
      <3>3. control'[t] = Append(q, x) /\ x.direct
        BY <1>1, <1>3, <2>1, <3>1, <3>2 DEF Direct
      <3>4. Len(Append(q, x)) = Len(q) + 1 /\ Append(q, x)[Len(q) + 1] = x /\ Len(q) \in Nat
        OBVIOUS
      <3>5. Len(q) + 1 \in 1 .. Len(Append(q, x))
        BY <3>4
      <3> QED  BY <2>1, <3>3, <3>4, <3>5
    <2>2. CASE ~(w = t /\ Receives(t))
      <3>1. w \in waiting
        BY <1>1, <2>2
      <3>2. control'[w] = control[w]
        BY <1>1, <1>3, <2>2
      <3> QED  BY <3>1, <3>2 DEF Finishes, Asked
    <2> QED  BY <2>1, <2>2
  <1>7. InTurn'
    <2> SUFFICES ASSUME NEW u \in waiting', ~IsLast(u) PROVE LastOf(u[1]) \notin sending'
      BY DEF InTurn, IsLast, LastOf
    <2>1. CASE u = t
      BY <1>1, <1>3, <2>1, LastIsFirst
    <2>2. CASE u # t
      BY <1>1, <1>4, <2>2 DEF Finishes, InTurn
    <2> QED  BY <2>1, <2>2
  <1>8. ResumeReaches'
    <2> SUFFICES ASSUME Out("Resume"), NEW w \in Workers, w \notin sending' \cup waiting',
                        tpc[w] = "paused"
                 PROVE  LineOver(w[1])
      BY <1>2, <1>5 DEF ResumeReaches, LineOver, LastOf
    <2>1. w # t
      <3>1. w = t => Receives(t)
        BY ThreadsAre DEF Receives, Gone
      <3> QED  BY <1>1, <3>1
    <2>2. w \notin sending \cup waiting
      BY <1>1, <1>4, <2>1
    <2> QED  BY <2>2 DEF Finishes, ResumeReaches
  <1>9. PlaysOn'
    BY <1>2, PlaysOnStays DEF ToNothing
  <1>10. StoppedIsOver'
    BY <1>2 DEF Finishes, StoppedIsOver, LineOver
  <1>11. \A l \in Lines : KeepsLine(l)
    <2> TAKE l \in Lines
    <2>1. StopComes(l) => StopComes(l)'
      BY <1>4, <1>5 DEF StopComes
    <2>2. Drains(l) => Drains(l)'
      BY <1>2 DEF Drains, Finishing, ToNothing
    <2>3. LineOver(l) \/ (Renewing(l) => Renewing(l)')
      <3> SUFFICES ASSUME Renewing(l), ~Renewing(l)' PROVE LineOver(l)
        OBVIOUS
      <3>1. todo # <<>> /\ todo[1] = "Seek" /\ Source(l) \in sending \cup waiting
        BY <1>2 DEF Renewing
      <3>2. Source(l) \notin sending' \cup waiting'
        BY <1>2, <3>1 DEF Renewing
      <3>3. t = Source(l) /\ ~Receives(t)
        BY <1>1, <1>4, <3>1, <3>2
      <3>4. Source(l) \in Sources /\ Source(l) \in Threads /\ Source(l)[1] = l
        BY ThreadsAre
      <3>5. IsOver(Source(l))
        BY <3>3, <3>4 DEF Receives, IsOver, Left
      <3>6. ~Out("Stop") /\ ~ToNothing
        BY <3>1 DEF Out, ToNothing
      <3> QED  BY <3>4, <3>5, <3>6, OverIsEnd
    <2> QED  BY <2>1, <2>2, <2>3 DEF KeepsLine
  <1>12. \A l \in Lines : OfLine(l)'
    BY <1>2, <1>11, CallerLines
  <1> QED  BY <1>6, <1>7, <1>8, <1>9, <1>10, <1>12 DEF Finishes

-----------------------------------------------------------------------------
(* That no terminal is dropped unfinished.                                 *)

\* No thread has begun and nothing is on its way.
LEMMA InitFinishes == Init => Finishes
  <1> SUFFICES ASSUME Init PROVE Finishes
    OBVIOUS
  <1>1. /\ phase = "playing" /\ paused = FALSE /\ holder = None /\ todo = <<>> /\ step = "say"
        /\ sending = {} /\ waiting = {}
        /\ tpc = [t \in Threads |-> IF t \in Sources THEN "begin" ELSE "look"]
        /\ channel = [w \in Workers |-> <<>>] /\ flushing = [w \in Workers |-> FALSE]
        /\ pad = [l \in Lines |-> [flushing |-> FALSE, ended |-> FALSE]]
    BY DEF Init
  <1>2. /\ \A s \in Sources : tpc[s] = "begin"
        /\ \A w \in Workers : tpc[w] = "look" /\ ~flushing[w]
        /\ \A l \in Lines : ~pad[l].flushing /\ ~pad[l].ended
    BY <1>1, ThreadsAre
  <1>3. Asked /\ InTurn
    BY <1>1 DEF Asked, InTurn
  <1>4. ResumeReaches /\ PlaysOn /\ StoppedIsOver
    BY <1>1, <1>2 DEF ResumeReaches, Out, PlaysOn, StoppedIsOver
  <1>5. ASSUME NEW l \in Lines PROVE OfLine(l)
    <2>1. Source(l) \in Sources /\ \A w \in Of(l) : w \in Workers
      BY ThreadsAre DEF Of
    <2>2. LineOpen(l)
      BY <1>2, <2>1 DEF LineOpen, Met
    <2>3. Begun(l) /\ Lingers(l)
      BY <1>2, <2>1 DEF Begun, Lingers
    <2>4. LeavesEnd(l)
      <3> SUFFICES ASSUME NEW t \in Threads, IsOver(t) PROVE FALSE
        BY DEF LeavesEnd
      <3>1. t \in Sources \/ t \in Workers
        BY ThreadsAre
      <3>2. t \in Workers => t \notin Sources
        BY ThreadsAre
      <3> QED  BY <1>2, <3>1, <3>2 DEF IsOver, Left, Over
    <2>5. LineEnds(l)
      <3>1. tpc[LastOf(l)] = "look"
        BY <1>2, LineIs
      <3> QED  BY <3>1 DEF LineEnds, LineOver, Over
    <2> QED  BY <2>2, <2>3, <2>4, <2>5 DEF OfLine
  <1> QED  BY <1>3, <1>4, <1>5 DEF Finishes

\* Each step keeps it, where every source can be sought and every queue was
\* built with the rest of its line.
LEMMA NextFinishes ==
    Seekable /\ ~LateBranch /\ Types /\ Protocol /\ Finishes /\ [Next]_vars => Finishes'
  <1> SUFFICES ASSUME Seekable, ~LateBranch, Types, Protocol, Finishes, [Next]_vars
               PROVE  Finishes'
    OBVIOUS
  <1>1. CASE \E c \in Callers : Calls(c) \/ Caller(c)
    BY <1>1, CallsFinishes, RefusesFinishes, BeginsFinishes, JoinsFinishes DEF Caller
  <1>2. CASE Asks
    BY <1>2, SaysFinishes, SnapshotsFinishes, SendsFinishes, InterruptsFinishes,
       SettlesFinishes, AwaitsFinishes, CompletesFinishes DEF Asks
  <1>3. CASE \E l \in Lines : SourceThread(l) \/ SourceFails(l)
    BY <1>3, SourceBeginsFinishes, SourceProducesFinishes, SourceHandsOnFinishes,
       SourceEndsFinishes, SourceTakesFinishes, SourceFinishesFinishes, SourceFinishedFinishes,
       SourceFailsFinishes, SourceLeavesFinishes
       DEF SourceThread
  <1>4. CASE \E w \in Workers : WorkerThread(w)
    BY <1>4, WorkerLooksFinishes, WorkerForwardsFinishes, WorkerHandsOnFinishes,
       WorkerTakesFinishes, WorkerCarriedFinishes, DeliverPendingFinishes, WorkerDoneFinishes
       DEF WorkerThread
  <1>5. CASE UNCHANGED vars
    <2>1. UNCHANGED <<phase, paused, todo, step, holder, call, tpc, back, hand, channel, flushing,
                      pad, source, terminal, control, waiting, sending>>
      BY <1>5 DEF vars, playback, lock, callers, threads, requests, queues, ends
    <2>2. Out("Resume")' => Out("Resume")
      BY <2>1 DEF Out
    <2>3. PlaysOn'
      BY <2>1, PlaysOnStays DEF ToNothing
    <2>4. StoppedIsOver'
      BY <2>1 DEF Finishes, StoppedIsOver, LineOver
    <2>5. \A l \in Lines : KeepsLine(l)
      BY <2>1 DEF KeepsLine, Renewing, StopComes, Out, Drains, Finishing, ToNothing
    <2> QED  BY <2>1, <2>2, <2>3, <2>4, <2>5, CallerFinishes
  <1> QED  BY <1>1, <1>2, <1>3, <1>4, <1>5 DEF Next

\* No terminal is dropped before it has had a Stop or the end of its stream,
\* where every source can be sought and every queue was built with the rest of
\* its line: what a thread that is over leaves behind it is one of the two, on
\* its way to the last worker.
THEOREM NoTerminalUnfinishedHolds ==
    ASSUME Seekable, ~LateBranch PROVE Spec => []NoTerminalUnfinished
  <1>1. Counts => Types
    BY DEF Counts
  <1>2. Types /\ Protocol /\ Finishes /\ [Next]_vars => Finishes'
    BY NextFinishes
  <1>3. Finishes => NoTerminalUnfinished
    <2> SUFFICES ASSUME Finishes, NEW l \in Lines, tpc[<<l, Depth>>] = "done"
                 PROVE  terminal[l].heard \/ terminal[l].ended
      BY DEF NoTerminalUnfinished
    <2>1. LineOver(l)
      BY DEF LineOver, LastOf, Over
    <2> QED  BY <2>1 DEF Finishes, OfLine, LineEnds
  <1> QED  BY <1>1, <1>2, <1>3, InitFinishes, AlwaysCounts, AlwaysProtocol, PTL DEF Spec

=============================================================================
