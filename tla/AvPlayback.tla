----------------------------- MODULE AvPlayback ------------------------------
(***************************************************************************)
(* A file played with its sound: a FileDemuxer, a VideoSynchronizer on the *)
(* pictures' branch, a WasapiRenderer on the sound's, the position they    *)
(* share (PlaybackClock), and the calls that pause, resume, seek and step. *)
(*                                                                         *)
(* Media is counted in pictures: picture t is due at t, and frame t of the *)
(* sound lasts from t to t + 1.  What is between the source and the two    *)
(* ends - queues, decoders, what the source holds back - is how far it has *)
(* read, and how far that may be ahead of either end.  The device plays at *)
(* the pace of the pipeline's clock, one frame a tick.                     *)
(***************************************************************************)
EXTENDS PlaybackClock, Sequences

CONSTANTS
    Pictures,       \* the pictures are 0 .. Pictures - 1
    Sounds,         \* the sound lasts from 0 to Sounds
    Ahead,          \* how far the source reads beyond what an end has taken
    Room,           \* frames of sound the device's buffer holds
    Ops,            \* calls that may be made
    Targets,        \* where a seek may go
    MaxCalls,       \* calls in all
    MayLeave        \* whether the sound's branch may be taken away

ASSUME MediaAssumption == /\ Pictures \in Nat \ {0} /\ Sounds \in Nat \ {0}
                          /\ Horizon >= Pictures /\ Horizon >= Sounds
ASSUME DeviceAssumption == Room \in Nat \ {0} /\ Ahead \in Nat \ {0}
ASSUME CallsAssumption == /\ Ops \subseteq {"pause", "resume", "seek", "step"}
                          /\ Targets \subseteq 0 .. Pictures - 1
                          /\ MaxCalls \in Nat /\ MayLeave \in BOOLEAN

VARIABLES
    clock,          \* Clock
    master,         \* PlaybackClock's state
    phase,          \* PlaybackState's phase
    pending,        \* an interrupt is out and not settled
    call,           \* the call being made, and how far it is
    paused,         \* as the application left it
    stepped,        \* a step left the sound and the clock out of line
    asked,          \* lanes that have yet to take the request that is out
    mode,           \* what each lane was told last
    got,            \* lanes with the sample of the preroll
    read,           \* how far the source has read
    showFrom,       \* what an accurate seek has decoders show from
    nextPicture,    \* the next to reach the synchronizer, past the last its end
    held,           \* pictures the synchronizer has and has not shown
    waiting,        \* it is waiting for the first of them to come due
    shown,          \* the one shown last
    nextSound,      \* the next frame to reach the renderer, past the last its end
    place,          \* what the renderer is doing
    device,         \* whether it runs, and whether it is paused
    timeline,       \* what it has been handed and has played of it
    sound,          \* whether the sound's branch is there, and registered
    calls           \* calls made

media == <<clock, master>>
state == <<phase, pending>>
control == <<call, paused, stepped, calls>>
lanes == <<asked, mode, got>>
source == <<read, showFrom>>
pictures == <<nextPicture, held, waiting, shown>>
renderer == <<nextSound, place, device, timeline, sound>>
vars == <<media, state, control, lanes, source, pictures, renderer>>

Threads == {"source", "pictures", "sound"}
Lanes == IF sound.here THEN Threads ELSE Threads \ {"sound"}
Stages == {"none", "pause", "flush", "preroll", "letgo", "step", "ends", "resume"}
CallRecords == [stage : Stages, said : {"no", "said", "sent", "out"},
                then : Stages, plays : BOOLEAN, to : Instants, accurate : BOOLEAN]
NoTimeline == [played |-> Nowhere, handed |-> Nowhere]
HasTimeline == timeline # NoTimeline
Padding == timeline.handed - timeline.played
End == Later(Pictures, Sounds)

CallsTyped ==
    /\ phase \in {"playing", "paused", "prerolling"} /\ pending \in BOOLEAN
    /\ call \in CallRecords
    /\ paused \in BOOLEAN /\ stepped \in BOOLEAN /\ calls \in 0 .. MaxCalls
LanesTyped ==
    /\ asked \subseteq Lanes /\ got \subseteq {"pictures", "sound"}
    /\ mode \in [Threads -> {"play", "hold", "preroll"}]
PicturesTyped ==
    /\ read \in 0 .. End /\ showFrom \in 0 .. Pictures
    /\ nextPicture \in 0 .. Pictures + 1
    /\ held \in Seq(0 .. Pictures - 1) /\ waiting \in BOOLEAN
    /\ shown \in 0 .. Pictures - 1 \cup {Nowhere}
SoundTyped ==
    /\ nextSound \in 0 .. Sounds + 1
    /\ place \in {"idle", "submitting", "draining"}
    /\ device \in [running : BOOLEAN, paused : BOOLEAN]
    /\ timeline \in [played : Instants, handed : Instants]
    /\ timeline.played <= timeline.handed
    /\ sound \in [here : BOOLEAN, registered : BOOLEAN]
TypeOK ==
    /\ clock \in Clocks /\ master \in Masters
    /\ CallsTyped /\ LanesTyped /\ PicturesTyped /\ SoundTyped

NoCall == [stage |-> "none", said |-> "no", then |-> "none", plays |-> FALSE,
           to |-> Nowhere, accurate |-> FALSE]

\* As run() leaves it, playing or, paused before it, paused.
Init ==
    /\ clock = "unset" /\ master = Unavailable
    /\ paused \in (IF "resume" \in Ops THEN BOOLEAN ELSE {FALSE})
    /\ phase = (IF paused THEN "paused" ELSE "playing") /\ pending = FALSE
    /\ mode = [l \in Threads |-> IF paused THEN "hold" ELSE "play"]
    /\ call = NoCall
    /\ stepped = FALSE /\ calls = 0
    /\ asked = {} /\ got = {} /\ read = 0 /\ showFrom = 0
    /\ nextPicture = 0 /\ held = <<>> /\ waiting = FALSE /\ shown = Nowhere
    /\ nextSound = 0 /\ place = "idle" /\ timeline = NoTimeline
    /\ device = [running |-> FALSE, paused |-> paused]
    /\ sound = [here |-> TRUE, registered |-> FALSE]

-----------------------------------------------------------------------------
(* The calls, one at a time under the operation lock.                      *)

Stage(s) == call.stage = s
Idle == Stage("none")

Begins(c) ==
    /\ Idle /\ calls < MaxCalls /\ calls' = calls + 1
    /\ call' = c
    /\ UNCHANGED <<media, state, lanes, source, pictures, renderer>>

Pause ==
    /\ "pause" \in Ops /\ paused' = TRUE /\ UNCHANGED stepped
    /\ Begins([NoCall EXCEPT !.stage = "pause"])

\* After a step, playing goes on from the picture, as after a seek to it.
Resume ==
    /\ "resume" \in Ops /\ paused' = FALSE /\ stepped' = FALSE
    /\ Begins(IF stepped /\ shown # Nowhere
              THEN [NoCall EXCEPT !.stage = "flush", !.plays = TRUE,
                                  !.to = shown, !.accurate = TRUE]
              ELSE [NoCall EXCEPT !.stage = "resume"])

Seek(t, accurate) ==
    /\ "seek" \in Ops /\ stepped' = FALSE /\ UNCHANGED paused
    /\ Begins([NoCall EXCEPT !.stage = IF paused THEN "flush" ELSE "pause",
                             !.then = "flush", !.plays = ~paused,
                             !.to = t, !.accurate = accurate])

\* Forward by one picture.
Step ==
    /\ "step" \in Ops /\ shown # Nowhere /\ paused' = TRUE /\ UNCHANGED stepped
    /\ Begins([NoCall EXCEPT !.stage = IF paused THEN "letgo" ELSE "pause",
                             !.then = "letgo"])

\* What comes after a stage: a seek pauses, flushes, prerolls and pauses
\* again, a step lets go of the position where a seek flushes.
Following ==
    CASE Stage("pause") -> call.then
      [] Stage("flush") -> "preroll"
      [] Stage("letgo") -> "step"
      [] Stage("preroll") \/ Stage("step") -> "ends"
      [] Stage("ends") /\ call.plays -> "resume"
      [] OTHER -> "none"
GoesTo(stage) ==
    call' = IF stage = "none" THEN NoCall ELSE [call EXCEPT !.stage = stage, !.said = "no"]
Pauses == Stage("pause") \/ Stage("ends")
Prerolls == Stage("preroll") \/ Stage("step")

\* What a stage writes before it asks anybody.
Says ==
    /\ ~Idle /\ call.said = "no" /\ ~Stage("letgo")
    /\ call' = [call EXCEPT !.said = "said"]
    /\ phase' = CASE Pauses -> "paused"
                  [] Stage("resume") -> "playing"
                  [] Stage("flush") -> phase
                  [] OTHER -> "prerolling"
    /\ clock' = CASE Pauses -> Paused(clock)
                  [] Stage("resume") -> Resumed(clock)
                  [] OTHER -> clock
    /\ got' = IF Prerolls THEN {} ELSE got
    /\ UNCHANGED <<master, pending, paused, stepped, calls, asked, mode, source,
                   pictures, renderer>>

\* Every thread has its request, and then what waits is let go of.
Sends ==
    /\ ~Idle /\ call.said = "said"
    /\ call' = [call EXCEPT !.said = "sent"]
    /\ asked' = Lanes
    /\ UNCHANGED <<media, state, paused, stepped, calls, mode, got, source,
                   pictures, renderer>>

Interrupts ==
    /\ ~Idle /\ call.said = "sent"
    /\ call' = [call EXCEPT !.said = "out"] /\ pending' = TRUE
    /\ UNCHANGED <<media, phase, paused, stepped, calls, lanes, source, pictures, renderer>>

Answered == ~Idle /\ call.said = "out" /\ asked = {}

\* A flush has reached every thread: the position is let go of, and the
\* source moves.  A seek that is not accurate shows from where it lands; an
\* accurate one, past the sound, finds the last of it on the way.
Repositions ==
    /\ Answered /\ Stage("flush") /\ GoesTo(Following)
    /\ master' = ResetForSeek(master)
    /\ read' = call.to /\ nextPicture' = call.to
    /\ nextSound' = Earlier(call.to, Sounds - (IF call.accurate THEN 1 ELSE 0))
    /\ showFrom' = IF call.accurate THEN call.to ELSE 0
    /\ pending' = FALSE
    /\ UNCHANGED <<clock, phase, paused, stepped, calls, lanes, held, waiting, shown,
                   place, device, timeline, sound>>

PicturesOver == nextPicture = Pictures + 1 /\ held = <<>>
\* A step lets go of the position too, and asks pictures that have ended for
\* no more.
LetsGo ==
    /\ Stage("letgo")
    /\ GoesTo(IF PicturesOver THEN "none" ELSE Following)
    /\ master' = ResetForSeek(master) /\ stepped' = TRUE
    /\ UNCHANGED <<clock, state, paused, calls, lanes, source, pictures, renderer>>

\* A preroll goes on until every end it asks has its sample.
Awaited == IF Stage("step") THEN {"pictures"} ELSE Lanes \ {"source"}

Settles ==
    /\ Answered /\ ~Stage("flush") /\ pending
    /\ pending' = FALSE
    /\ IF Prerolls THEN UNCHANGED call ELSE GoesTo(Following)
    /\ UNCHANGED <<media, phase, paused, stepped, calls, lanes, source, pictures, renderer>>

Prerolled ==
    /\ Answered /\ Prerolls /\ ~pending /\ Awaited \subseteq got
    /\ GoesTo(Following)
    /\ UNCHANGED <<media, state, paused, stepped, calls, lanes, source, pictures, renderer>>

Asks ==
    \/ Pause \/ Resume \/ Step
    \/ \E t \in Targets, accurate \in BOOLEAN : Seek(t, accurate)
Carries == Says \/ Sends \/ Interrupts \/ Repositions \/ LetsGo \/ Settles \/ Prerolled

-----------------------------------------------------------------------------
(* What a thread may do, and the source.                                   *)

\* A thread takes the request that is out.
Takes(l) ==
    /\ l \in asked /\ asked' = asked \ {l}
    /\ mode' = [mode EXCEPT ![l] = CASE Pauses -> "hold"
                                     [] Stage("resume") -> "play"
                                     [] Stage("flush") -> @
                                     [] OTHER -> "preroll"]

\* Mutant: a terminal with its sample is handed the next.
MayTakeMore(l) == ~pending /\ mode[l] \in {"play", "preroll"}

\* A worker takes nothing while an interrupt is out, nor once its terminal
\* has the sample of a preroll.
MayTake(l) ==
    /\ ~pending
    /\ mode[l] = "play" \/ (mode[l] = "preroll" /\ l \notin got)
Took(l) == got' = IF phase = "prerolling" THEN got \cup {l} ELSE got

SourceTakes ==
    /\ Takes("source")
    /\ UNCHANGED <<media, state, control, got, source, pictures, renderer>>

\* It reads on in a preroll whatever an end has not taken, and otherwise as
\* far as it may hold back what one cannot take.
Reads ==
    /\ mode["source"] # "hold" /\ read < End
    /\ \/ phase = "prerolling"
       \/ /\ nextPicture < Pictures => read - nextPicture < Ahead
          /\ (sound.here /\ nextSound < Sounds) => read - nextSound < Ahead
    /\ read' = read + 1
    /\ UNCHANGED <<media, state, control, lanes, showFrom, pictures, renderer>>

-----------------------------------------------------------------------------
(* The pictures: a VideoSynchronizer before a window.                      *)

PicturesTake ==
    /\ ~waiting /\ Takes("pictures")
    /\ held' = IF Stage("flush") THEN <<>> ELSE held
    /\ shown' = IF Stage("flush") THEN Nowhere ELSE shown
    /\ UNCHANGED <<media, state, control, got, source, nextPicture, waiting, renderer>>

TakePicture ==
    /\ ~waiting /\ MayTake("pictures")
    /\ nextPicture < Pictures /\ nextPicture < read
    /\ held' = Append(held, nextPicture) /\ nextPicture' = nextPicture + 1
    /\ waiting' = TRUE
    /\ UNCHANGED <<media, state, control, lanes, source, shown, renderer>>

\* The end, with what was kept ahead of it; a preroll is answered by it.
TakePicturesEnd ==
    /\ ~waiting /\ MayTake("pictures")
    /\ nextPicture = Pictures /\ read = End
    /\ nextPicture' = Pictures + 1 /\ waiting' = (held # <<>>)
    /\ IF held = <<>> THEN Took("pictures") ELSE UNCHANGED got
    /\ UNCHANGED <<media, state, control, asked, mode, source, held, shown, renderer>>

\* What the synchronizer makes of a picture due at t where m says playing is.
Decision(m, t) ==
    CASE m.kind = "unavailable" -> "render"
      [] m.kind = "priming" -> "hold"
      [] m.kind \in {"wall", "fallback"} -> IF t > m.at THEN "wait" ELSE "render"
      [] m.kind = "audio" -> IF t > m.at THEN "wait"
                             ELSE IF m.at - t > 1 THEN "drop" ELSE "render"

\* The first it holds goes on, or goes.  What is kept with it has its turn if
\* the window takes more, or the stream is over.
GoesOn(shows) == shows /\ nextPicture <= Pictures => phase = "playing"
Past(shows) ==
    /\ held' = Tail(held)
    /\ shown' = IF shows THEN Head(held) ELSE shown
    /\ IF shows THEN Took("pictures") ELSE UNCHANGED got
    /\ waiting' = (Tail(held) # <<>> /\ GoesOn(shows))
    /\ UNCHANGED <<state, control, asked, mode, source, nextPicture, renderer>>

ShowUnasked ==
    /\ waiting
    /\ \/ phase = "prerolling"
       \/ pending /\ nextPicture > Pictures
    /\ Past(TRUE) /\ UNCHANGED media

Interrupted ==
    /\ waiting /\ phase # "prerolling" /\ pending /\ nextPicture <= Pictures
    /\ waiting' = FALSE
    /\ UNCHANGED <<media, state, control, lanes, source, nextPicture, held, shown, renderer>>

\* A look at the clock, which may be the first anybody takes.
Looks ==
    /\ waiting /\ phase # "prerolling" /\ ~pending
    /\ LET t == Head(held)
           m == AnchoredOn(master, t)
           decision == Decision(m, t)
       IN /\ master' = m
          /\ clock' = IF Anchors(master) THEN Started(clock) ELSE clock
          /\ IF decision \in {"render", "drop"}
             THEN Past(decision = "render")
             ELSE UNCHANGED <<state, control, lanes, source, pictures, renderer>>

PictureLane == PicturesTake \/ TakePicture \/ TakePicturesEnd \/ ShowUnasked \/ Interrupted \/ Looks

-----------------------------------------------------------------------------
(* The sound: an audio renderer, and the device it plays on.               *)

\* How far the device has played and been handed is said to the clock.
Publishes(tl, running) ==
    IF tl = NoTimeline THEN UNCHANGED media
    ELSE /\ master' = Published(master, tl.played, tl.handed, running)
         /\ clock' = Started(clock)

\* What reaches the sound in a step, and until playback goes on, is dropped.
Silenced == stepped /\ phase # "playing"

\* The first frame takes the position over.  What lies before where the
\* position is then is not played.
TakeSound ==
    /\ sound.here /\ place = "idle" /\ MayTake("sound")
    /\ nextSound < Sounds /\ nextSound < read
    /\ nextSound >= showFrom \/ read = End
    /\ nextSound' = nextSound + 1
    /\ IF Silenced
       THEN UNCHANGED <<master, got, place, sound>>
       ELSE LET m == IF sound.registered THEN master ELSE RegisteredBy(master)
                trimmed == nextSound < PrimingTarget(m)
            IN /\ sound' = [sound EXCEPT !.registered = TRUE]
               /\ master' = m
               /\ place' = IF trimmed THEN "idle" ELSE "submitting"
               /\ IF trimmed THEN Took("sound") ELSE UNCHANGED got
    /\ UNCHANGED <<clock, state, control, asked, mode, source, pictures, device, timeline>>

\* A frame is handed to the device, which starts with the first unless it is
\* paused.  What it has played through begins anew.  A paused device is handed
\* one frame, after a flush, so it always has room here; in the code what is
\* left of a frame longer than the device's whole buffer is dropped then.
SubmitSound ==
    /\ sound.here /\ place = "submitting" /\ Padding < Room
    /\ LET f == nextSound - 1
           anew == ~HasTimeline \/ (device.running /\ Padding = 0)
           tl == IF anew THEN [played |-> f, handed |-> f + 1]
                 ELSE [timeline EXCEPT !.handed = @ + 1]
       IN /\ timeline' = tl
          /\ IF device.paused THEN UNCHANGED <<media, device>>
             ELSE device' = [device EXCEPT !.running = TRUE] /\ Publishes(tl, TRUE)
    /\ place' = "idle" /\ Took("sound")
    /\ UNCHANGED <<state, control, asked, mode, source, pictures, nextSound, sound>>

\* While it waits for room, and while it drains, it says where it is.
SoundWaits ==
    /\ sound.here /\ ~device.paused
    /\ (place = "submitting" /\ Padding = Room) \/ (place = "draining" /\ Padding > 0)
    /\ device' = [device EXCEPT !.running = TRUE]
    /\ Publishes(timeline, TRUE)
    /\ UNCHANGED <<state, control, lanes, source, pictures, nextSound, place, timeline, sound>>

\* The end is played out before it is taken; a device that stands is started
\* for what it holds.
TakeSoundEnd ==
    /\ sound.here /\ place = "idle" /\ MayTake("sound")
    /\ nextSound = Sounds /\ read = End
    /\ nextSound' = Sounds + 1 /\ place' = "draining"
    /\ UNCHANGED <<media, state, control, lanes, source, pictures, device, timeline, sound>>

\* Then the wall clock goes on from where the sound ended.  Paused, nothing
\* is played out, and what the device holds goes.
SoundEnds ==
    /\ sound.here /\ place = "draining" /\ (Padding = 0 \/ device.paused)
    /\ IF HasTimeline
       THEN /\ master' = Finished(Published(master, timeline.played, timeline.handed, FALSE),
                                  timeline.handed)
            /\ clock' = Started(clock)
       ELSE UNCHANGED media
    /\ device' = [device EXCEPT !.running = FALSE] /\ timeline' = NoTimeline
    /\ place' = "idle" /\ Took("sound")
    /\ UNCHANGED <<state, control, asked, mode, source, pictures, nextSound, sound>>

\* A pause stops the device and keeps what it holds, a flush empties it.
SoundTakes ==
    /\ sound.here /\ place = "idle" /\ Takes("sound")
    /\ CASE Pauses ->
              /\ device' = [running |-> FALSE, paused |-> TRUE]
              /\ Publishes(timeline, FALSE) /\ UNCHANGED timeline
         [] Stage("resume") ->
              /\ device' = [running |-> device.running \/ Padding > 0, paused |-> FALSE]
              /\ IF Padding > 0 THEN Publishes(timeline, TRUE) ELSE UNCHANGED media
              /\ UNCHANGED timeline
         [] Stage("flush") ->
              /\ device' = [device EXCEPT !.running = FALSE]
              /\ Publishes(timeline, FALSE) /\ timeline' = NoTimeline
         [] OTHER -> UNCHANGED <<media, device, timeline>>
    /\ UNCHANGED <<state, control, got, source, pictures, nextSound, place, sound>>

\* The branch is taken away, and the renderer with it.
SoundLeaves ==
    /\ MayLeave /\ sound.here /\ place = "idle"
    /\ sound' = [here |-> FALSE, registered |-> FALSE]
    /\ LET m == IF HasTimeline THEN Published(master, timeline.played, timeline.handed, FALSE)
                ELSE master
       IN master' = IF sound.registered THEN Released(m) ELSE master
    /\ clock' = IF HasTimeline THEN Started(clock) ELSE clock
    /\ asked' = asked \ {"sound"} /\ got' = got \ {"sound"}
    /\ nextSound' = Sounds + 1
    /\ timeline' = NoTimeline /\ device' = [device EXCEPT !.running = FALSE]
    /\ UNCHANGED <<state, control, mode, source, pictures, place>>

SoundLane == TakeSound \/ SubmitSound \/ SoundWaits \/ TakeSoundEnd
             \/ SoundEnds \/ SoundTakes

-----------------------------------------------------------------------------
\* Time goes by for the clock and for the device alike.
Plays == sound.here /\ device.running /\ Padding > 0
Tick ==
    /\ clock = "running" \/ Plays
    /\ master' = IF clock = "running" THEN Projected(master) ELSE master
    /\ timeline' = IF Plays THEN [timeline EXCEPT !.played = @ + 1] ELSE timeline
    /\ UNCHANGED <<clock, state, control, lanes, source, pictures, nextSound, place,
                   device, sound>>

SourceLane == SourceTakes \/ Reads

Next == Asks \/ Carries \/ SourceLane \/ PictureLane \/ SoundLane \/ SoundLeaves \/ Tick

Spec == Init /\ [][Next]_vars
Fairness ==
    /\ WF_vars(Carries) /\ WF_vars(SourceLane) /\ WF_vars(Tick)
    /\ WF_vars(PictureLane) /\ WF_vars(SoundLane)
FairSpec == Spec /\ Fairness

-----------------------------------------------------------------------------
(* Properties.                                                             *)

\* While the sound says where playing is, the position is never ahead of what
\* the device has played: not while a call stops and starts the two clocks one
\* after the other, nor as the device runs dry.
NeverAheadOfSound ==
    (master.kind = "audio" /\ HasTimeline) => master.at <= timeline.played

\* Whoever takes the position over goes on from where it is: it never goes
\* back, except where a seek or a step has let go of it.
NoJumpBack ==
    [][(master.at # Nowhere /\ master'.at # Nowhere) => master'.at >= master.at]_vars

\* A paused seek within the sound returns with the picture shown, the position
\* and the sound that resuming plays first all where it was asked to go.
SeekLands ==
    [][(/\ ~Idle /\ Idle' /\ paused /\ ~stepped
         /\ call.to # Nowhere /\ call.to < Sounds /\ sound.here)
          => shown' = call.to /\ master'.at = call.to /\ timeline'.played = call.to]_vars

\* A pipeline left playing comes to the end of its pictures, whatever calls
\* came before, whenever the sound ends or leaves.  Not where playing was past
\* the sound before its renderer had played any: nothing says then that the
\* sound is over, and the pictures wait for it for good.
Playing == Idle /\ phase = "playing"
SoundMissed == master.kind = "priming" /\ nextSound >= Sounds
PlaysToItsEnd == <>[]Playing => <>[](PicturesOver \/ SoundMissed)
=============================================================================
