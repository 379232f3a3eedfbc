-------------------------- MODULE AvPlayback_proofs --------------------------
(***************************************************************************)
(* That the position never goes back nor ahead of the sound, and that a    *)
(* paused seek lands where it was asked to, for any media and any calls:   *)
(* the theorems of AvPlayback's TypeOK, NeverAheadOfSound, NoJumpBack and  *)
(* SeekLands.                                                              *)
(*                                                                         *)
(* What the position may do next depends on whether the renderer has a     *)
(* timeline, so the invariant says of every state of the master what the   *)
(* renderer can be in (Masters), and of every stage of a call when the     *)
(* renderer's thread stands still (Holds): only there does it lose its     *)
(* timeline with the position still its own.                               *)
(***************************************************************************)
EXTENDS AvPlayback, TLAPS

\* The call goes through its stages, and the sound's thread stands still in
\* those that need it to.
Staged ==
    /\ Idle => call = NoCall
    /\ call.said \in {"no", "said"} => asked = {}
    /\ Stage("pause") => call.then \in {"none", "flush", "letgo"}
    /\ (Stage("flush") \/ call.then = "flush") => call.to \in 0 .. Pictures - 1
    /\ stepped \/ Stage("letgo") \/ call.then = "letgo" => paused
    /\ Stage("letgo") => call.said = "no"
    /\ (Stage("resume") \/ call.plays) => ~paused

Told == call.said \in {"sent", "out"} /\ "sound" \notin asked

Holds ==
    /\ ~sound.here => place = "idle" /\ ~sound.registered
    /\ sound.here =>
          /\ Idle /\ paused => mode["sound"] = "hold"
          /\ Stage("flush") \/ Stage("letgo") => mode["sound"] = "hold"
          /\ Pauses /\ Told => mode["sound"] = "hold"
          /\ mode["sound"] = "hold" => place = "idle"
          /\ Stage("flush") /\ Told => ~HasTimeline

\* The renderer and what it has been handed.
Renders ==
    /\ HasTimeline => /\ 0 <= timeline.played
                      /\ timeline.handed <= nextSound
                      /\ place = "submitting" => timeline.handed < nextSound
    /\ HasTimeline \/ place = "submitting" => sound.registered
    /\ place = "submitting" => nextSound \in 1 .. Sounds
    /\ place = "draining" => nextSound > Sounds
    /\ waiting => held # <<>>

\* Who says where playing is, and where.
Mastered ==
    /\ OfAudio(master) <=> sound.registered
    /\ master.kind = "unavailable" => master.at = Nowhere
    /\ master.kind = "audio" => 0 <= master.at /\ master.at <= master.until
    /\ master.kind \in {"priming", "audio"} /\ HasTimeline => master.at <= timeline.played
    /\ master.kind = "audio" /\ HasTimeline =>
          /\ master.until <= timeline.handed
          /\ master.running => device.running
    /\ master.kind = "audio" /\ ~HasTimeline =>
          Stage("flush") /\ Told /\ ~master.running
    /\ master.kind = "priming" /\ place = "submitting" => master.at < nextSound
    /\ master.kind = "fallback" => ~HasTimeline /\ place = "idle" /\ nextSound > Sounds

Inv == TypeOK /\ Staged /\ Holds /\ Renders /\ Mastered

-----------------------------------------------------------------------------
(* The position, from the clock's operators.                               *)

\* Every master the clock's operators make is one.
LEMMA MastersAre ==
    ASSUME NEW t \in Instants, NEW until \in Instants, NEW running \in BOOLEAN
    PROVE  /\ Unavailable \in Masters /\ Wall(t) \in Masters /\ Priming(t) \in Masters
           /\ Audio(t, until, running) \in Masters /\ Fallback(t) \in Masters
  BY DEF Unavailable, Wall, Priming, Audio, Fallback, Masters, Instants, Nowhere

\* A renderer that has not gone back to before the position it was asked to
\* begin at says where it is, and nothing else.
LEMMA PublishedIsSaid ==
    ASSUME NEW m \in Masters, NEW t \in Positions, NEW until \in Positions,
           NEW running \in BOOLEAN, t <= until,
           m.kind = "priming" => m.at <= t
    PROVE  Published(m, t, until, running) = Audio(t, until, running)
  BY HorizonAssumption
  DEF Published, Audio, Later, Masters, Positions, Instants, Nowhere

\* A clock that runs moves the position by no more than the tick.
LEMMA ProjectedMoves ==
    ASSUME NEW m \in Masters, m.kind = "audio" => m.at <= m.until
    PROVE  /\ Projected(m) \in Masters
           /\ \A f \in {"kind", "until", "running"} : Projected(m)[f] = m[f]
           /\ m.at <= Projected(m).at /\ Projected(m).at <= m.at + 1
           /\ m.kind \in {"unavailable", "priming"} \/ (m.kind = "audio" /\ ~m.running)
                 => Projected(m).at = m.at
           /\ m.kind = "audio" => Projected(m).at <= m.until
  BY HorizonAssumption
  DEF Projected, Earlier, Masters, Positions, Instants, Nowhere

-----------------------------------------------------------------------------
(* Types: one lemma for each part of TypeOK, with a case for each action   *)
(* that changes what it speaks of.                                         *)

\* What comes after a stage is a stage.
LEMMA FollowingIsAStage == ASSUME CallsTyped PROVE Following \in Stages
  BY DEF Following, CallsTyped, CallRecords, Stages, Stage

\* A call that begins is counted.
LEMMA BeginsTyped ==
    ASSUME CallsTyped, NEW c \in CallRecords, Begins(c),
           paused' \in BOOLEAN, stepped' \in BOOLEAN
    PROVE  CallsTyped'
  <1> USE DEF CallsTyped, Begins, state
  <1>1. calls' \in 0 .. MaxCalls
    BY CallsAssumption
  <1>2. call' \in CallRecords
    OBVIOUS
  <1> QED  BY <1>1, <1>2

\* A call goes from stage to stage, of those there are.
LEMMA CallsStayTyped == ASSUME TypeOK, Next PROVE CallsTyped'
  <1> USE DEF TypeOK
  <1> DEFINE PicturesFrom(t) == [NoCall EXCEPT !.stage = "flush", !.plays = TRUE,
                                               !.to = t, !.accurate = TRUE]
  <1>1. CASE Pause
    <2>1. [NoCall EXCEPT !.stage = "pause"] \in CallRecords
      BY DEF NoCall, CallRecords, Stages, Instants, Nowhere
    <2> QED  BY <1>1, <2>1, BeginsTyped DEF Pause, CallsTyped
  <1>2. CASE Resume
    <2>1. [NoCall EXCEPT !.stage = "resume"] \in CallRecords
      BY DEF NoCall, CallRecords, Stages, Instants, Nowhere
    <2>2. shown # Nowhere => PicturesFrom(shown) \in CallRecords
      <3>1. shown # Nowhere => shown \in Instants
        BY MediaAssumption, HorizonAssumption DEF PicturesTyped, Instants, Positions
      <3> QED  BY <3>1 DEF NoCall, CallRecords, Stages
    <2> QED  BY <1>2, <2>1, <2>2, BeginsTyped DEF Resume
  <1>3. ASSUME NEW t \in Targets, NEW accurate \in BOOLEAN, Seek(t, accurate)
        PROVE  CallsTyped'
    <2>1. t \in Instants
      BY MediaAssumption, CallsAssumption, HorizonAssumption DEF Instants, Positions
    <2>2. [NoCall EXCEPT !.stage = IF paused THEN "flush" ELSE "pause",
                         !.then = "flush", !.plays = ~paused,
                         !.to = t, !.accurate = accurate] \in CallRecords
      BY <2>1 DEF NoCall, CallRecords, Stages, CallsTyped
    <2> QED  BY <1>3, <2>2, BeginsTyped DEF Seek, CallsTyped
  <1>4. CASE Step
    <2>1. [NoCall EXCEPT !.stage = IF paused THEN "letgo" ELSE "pause",
                         !.then = "letgo"] \in CallRecords
      BY DEF NoCall, CallRecords, Stages, CallsTyped, Instants, Nowhere
    <2> QED  BY <1>4, <2>1, BeginsTyped DEF Step, CallsTyped
  <1>5. ASSUME NEW stage \in Stages, GoesTo(stage) PROVE call' \in CallRecords
    BY <1>5 DEF GoesTo, NoCall, CallRecords, Stages, CallsTyped, Instants, Nowhere
  <1>6. "none" \in Stages /\ Following \in Stages
    BY FollowingIsAStage DEF Stages
  <1>7. CASE Says \/ Sends \/ Interrupts
    BY <1>7 DEF Says, Sends, Interrupts, CallsTyped, CallRecords, state
  <1>8. CASE Repositions \/ LetsGo \/ Settles \/ Prerolled
    <2>1. call' \in CallRecords
      BY <1>5, <1>6, <1>8 DEF Repositions, LetsGo, Settles, Prerolled, CallsTyped
    <2> QED  BY <1>8, <2>1 DEF Repositions, LetsGo, Settles, Prerolled, CallsTyped, state
  <1>9. CASE SourceLane \/ PictureLane \/ SoundLane \/ SoundLeaves \/ Tick
    <2>1. UNCHANGED <<state, control>>
      BY <1>9 DEF SourceLane, SourceTakes, Reads, PictureLane, PicturesTake, TakePicture,
                  TakePicturesEnd, ShowUnasked, Past, Interrupted, Looks, SoundLane, TakeSound,
                  SubmitSound, SoundWaits, TakeSoundEnd, SoundEnds, SoundTakes,
                  SoundLeaves, Tick
    <2> QED  BY <2>1 DEF CallsTyped, state, control
  <1> QED  BY <1>1, <1>2, <1>3, <1>4, <1>7, <1>8, <1>9 DEF Next, Asks, Carries

\* A request goes to the lanes there are, and what a lane was told is known.
LEMMA LanesStayTyped == ASSUME TypeOK, Next PROVE LanesTyped'
  <1> USE DEF TypeOK
  <1>1. CASE Asks \/ Carries
    BY <1>1 DEF Asks, Pause, Resume, Seek, Step, Begins, Carries, Says, Sends, Interrupts,
                Repositions, LetsGo, Settles, Prerolled, LanesTyped, Lanes, lanes, renderer
  <1>2. ASSUME NEW l \in Threads, Takes(l), UNCHANGED <<got, sound>> PROVE LanesTyped'
    BY <1>2 DEF Takes, LanesTyped, Lanes
  <1>3. CASE SourceTakes \/ PicturesTake \/ SoundTakes
    BY <1>2, <1>3 DEF SourceTakes, PicturesTake, SoundTakes, Threads, renderer
  <1>4. CASE Reads \/ TakePicture \/ Interrupted \/ SoundWaits \/ TakeSoundEnd \/ Tick
    BY <1>4 DEF Reads, TakePicture, Interrupted, SoundWaits, TakeSoundEnd, Tick, LanesTyped,
                Lanes, lanes, renderer
  <1>5. CASE TakePicturesEnd \/ ShowUnasked \/ Looks
    BY <1>5 DEF TakePicturesEnd, ShowUnasked, Looks, Past, Took, LanesTyped, Lanes, lanes,
                renderer
  <1>6. CASE TakeSound \/ SubmitSound \/ SoundEnds
    <2>1. Lanes' = Lanes
      BY <1>6 DEF TakeSound, SubmitSound, SoundEnds, Lanes, SoundTyped
    <2>2. asked' = asked /\ mode' = mode /\ got' \in {got, got \cup {"sound"}}
      BY <1>6 DEF TakeSound, SubmitSound, SoundEnds, Took
    <2> QED  BY <2>1, <2>2 DEF LanesTyped
  <1>7. CASE SoundLeaves
    BY <1>7 DEF SoundLeaves, LanesTyped, Lanes, SoundTyped
  <1> QED  BY <1>1, <1>3, <1>4, <1>5, <1>6, <1>7
           DEF Next, SourceLane, PictureLane, SoundLane

\* Reading and showing stay within the pictures.
LEMMA PicturesStayTyped == ASSUME TypeOK, Staged, Renders, Next PROVE PicturesTyped'
  <1> USE MediaAssumption DEF TypeOK
  <1>1. CASE Repositions
    BY <1>1 DEF Repositions, Answered, Staged, Stage, PicturesTyped, End, Later
  <1>2. CASE Reads
    BY <1>2 DEF Reads, PicturesTyped, End, Later, pictures
  <1>8. CASE TakePicture
    BY <1>8 DEF TakePicture, PicturesTyped, End, source
  <1>9. CASE TakePicturesEnd
    BY <1>9 DEF TakePicturesEnd, PicturesTyped, End, source
  <1>3. CASE PicturesTake
    <2>1. <<>> \in Seq(0 .. Pictures - 1)
      OBVIOUS
    <2>2. held' \in {<<>>, held} /\ shown' \in {Nowhere, shown}
      BY <1>3 DEF PicturesTake
    <2> QED  BY <1>3, <2>1, <2>2 DEF PicturesTake, PicturesTyped, End, source
  <1>4. ASSUME NEW shows \in BOOLEAN, waiting, Past(shows) PROVE PicturesTyped'
    BY <1>4, SMTT(30) DEF Past, PicturesTyped, Renders, End, Nowhere, source
  <1>5. CASE ShowUnasked \/ Looks
    <2>1. \/ UNCHANGED <<source, pictures>>
          \/ waiting /\ \E shows \in BOOLEAN : Past(shows)
      BY <1>5 DEF ShowUnasked, Looks
    <2> QED  BY <1>4, <2>1 DEF PicturesTyped, End, source, pictures
  <1>6. CASE Interrupted
    BY <1>6 DEF Interrupted, PicturesTyped, End, source
  <1>7. CASE \/ Asks \/ Says \/ Sends \/ Interrupts \/ LetsGo \/ Settles \/ Prerolled
             \/ SourceTakes \/ SoundLane \/ SoundLeaves \/ Tick
    <2>1. UNCHANGED <<source, pictures>>
      BY <1>7 DEF Asks, Pause, Resume, Seek, Step, Begins, Says, Sends, Interrupts, LetsGo,
                  Settles, Prerolled, SourceTakes, SoundLane, TakeSound, SubmitSound,
                  SoundWaits, TakeSoundEnd, SoundEnds, SoundTakes, SoundLeaves, Tick
    <2> QED  BY <2>1 DEF PicturesTyped, End, source, pictures
  <1> QED  BY <1>1, <1>2, <1>3, <1>5, <1>6, <1>7, <1>8, <1>9
           DEF Next, Carries, SourceLane, PictureLane

\* What a timeline is: the device has been handed it, and there is one if it
\* has any left to play.
LEMMA TimelineIs ==
    ASSUME SoundTyped, Renders
    PROVE  /\ timeline.played \in Int /\ timeline.handed \in Int
           /\ HasTimeline => /\ timeline.played \in Positions /\ timeline.handed \in Positions
                             /\ timeline.played <= timeline.handed
           /\ ~HasTimeline => timeline.played = Nowhere /\ timeline.handed = Nowhere
           /\ Padding > 0 => HasTimeline
  BY HorizonAssumption DEF SoundTyped, Renders, HasTimeline, NoTimeline, Padding, Instants,
     Positions, Nowhere

\* The renderer stays within the sound, and the device within what it was
\* handed.
LEMMA SoundStaysTyped == ASSUME TypeOK, Staged, Renders, Next PROVE SoundTyped'
  <1> USE MediaAssumption, HorizonAssumption DEF TypeOK
  <1>0. /\ NoTimeline \in [played : Instants, handed : Instants]
        /\ NoTimeline.played <= NoTimeline.handed
    BY DEF NoTimeline, Instants, Nowhere
  <1>1. CASE Repositions
    BY <1>1 DEF Repositions, Answered, Staged, Stage, SoundTyped, Earlier
  <1>2. CASE TakeSound
    <2>1. nextSound' \in 0 .. Sounds + 1
      BY <1>2 DEF TakeSound, SoundTyped
    <2>2. place' \in {"idle", "submitting"} /\ UNCHANGED <<device, timeline>>
      BY <1>2 DEF TakeSound
    <2>3. sound' \in {sound, [sound EXCEPT !.registered = TRUE]}
      BY <1>2 DEF TakeSound
    <2> QED  BY <2>1, <2>2, <2>3 DEF SoundTyped
  <1>d. ASSUME SoundLane \/ SoundLeaves
        PROVE  device' \in [running : BOOLEAN, paused : BOOLEAN]
    <2>1. CASE SoundTakes
      <3> DEFINE Left(r, p) == [running |-> r, paused |-> p]
      <3>1. \A r, p \in BOOLEAN : Left(r, p) \in [running : BOOLEAN, paused : BOOLEAN]
        OBVIOUS
      <3>2. \/ device' \in {device, [device EXCEPT !.running = FALSE]}
            \/ device' \in {Left(FALSE, TRUE), Left(device.running \/ Padding > 0, FALSE)}
        BY <2>1 DEF SoundTakes
      <3>3. CASE device' \in {device, [device EXCEPT !.running = FALSE]}
        BY <3>3 DEF SoundTyped
      <3>4. CASE device' \in {Left(FALSE, TRUE), Left(device.running \/ Padding > 0, FALSE)}
        <4>1. (device.running \/ Padding > 0) \in BOOLEAN
          OBVIOUS
        <4> HIDE DEF Left
        <4> QED  BY <3>1, <3>4, <4>1
      <3> QED  BY <3>2, <3>3, <3>4
    <2>2. CASE ~SoundTakes
      <3>1. \/ device' = device
            \/ \E r \in BOOLEAN : device' = [device EXCEPT !.running = r]
        BY <1>d, <2>2 DEF SoundLane, TakeSound, SubmitSound, SoundWaits,
           TakeSoundEnd, SoundEnds, SoundLeaves
      <3> QED  BY <3>1 DEF SoundTyped
    <2> QED  BY <2>1, <2>2
  <1>3. CASE SubmitSound
    <2> DEFINE f == nextSound - 1
    <2>1. f \in Positions /\ f + 1 \in Positions
      BY <1>3 DEF SubmitSound, Renders, SoundTyped, Positions
    <2>2. \/ timeline' = [played |-> f, handed |-> f + 1]
          \/ HasTimeline /\ timeline' = [timeline EXCEPT !.handed = @ + 1]
      BY <1>3 DEF SubmitSound
    <2>3. /\ timeline' \in [played : Instants, handed : Instants]
          /\ timeline'.played <= timeline'.handed
      <3>1. HasTimeline => timeline.handed + 1 \in Positions
        BY <1>3, TimelineIs DEF SubmitSound, Renders, SoundTyped, Positions
      <3>2. CASE timeline' = [played |-> f, handed |-> f + 1]
        BY <2>1, <3>2 DEF Instants, Positions
      <3>3. CASE HasTimeline /\ timeline' = [timeline EXCEPT !.handed = @ + 1]
        BY <3>1, <3>3, TimelineIs DEF SoundTyped, Instants
      <3> QED  BY <2>2, <3>2, <3>3
    <2> QED  BY <1>3, <1>d, <2>3 DEF SoundLane, SubmitSound, SoundTyped
  <1>4. CASE SoundWaits \/ TakeSoundEnd
    <2>1. UNCHANGED <<timeline, sound>> /\ nextSound' \in {nextSound, Sounds + 1}
      BY <1>4 DEF SoundWaits, TakeSoundEnd
    <2>2. place' \in {place, "idle", "draining"}
      BY <1>4 DEF SoundWaits, TakeSoundEnd
    <2> QED  BY <1>4, <1>d, <2>1, <2>2 DEF SoundLane, SoundTyped
  <1>5. CASE SoundEnds \/ SoundLeaves
    <2>1. timeline' = NoTimeline /\ nextSound' \in {nextSound, Sounds + 1}
      BY <1>5 DEF SoundEnds, SoundLeaves
    <2>2. place' \in {place, "idle"}
      BY <1>5 DEF SoundEnds, SoundLeaves
    <2>3. sound' \in [here : BOOLEAN, registered : BOOLEAN]
      <3>1. [here |-> FALSE, registered |-> FALSE] \in [here : BOOLEAN, registered : BOOLEAN]
        OBVIOUS
      <3>2. sound' \in {sound, [here |-> FALSE, registered |-> FALSE]}
        BY <1>5 DEF SoundEnds, SoundLeaves
      <3> QED  BY <3>1, <3>2 DEF SoundTyped
    <2> QED  BY <1>0, <1>5, <1>d, <2>1, <2>2, <2>3 DEF SoundLane, SoundTyped
  <1>6. CASE SoundTakes
    <2>1. timeline' \in {timeline, NoTimeline}
      BY <1>6 DEF SoundTakes
    <2> QED  BY <1>0, <1>6, <1>d, <2>1 DEF SoundLane, SoundTakes, SoundTyped
  <1>7. CASE Tick
    <2>1. CASE Plays
      <3>1. HasTimeline /\ timeline.handed - timeline.played > 0
        BY <2>1, TimelineIs DEF Plays, Padding
      <3>2. timeline.played + 1 \in Positions /\ timeline.played + 1 <= timeline.handed
        BY <3>1, TimelineIs DEF Positions
      <3> QED  BY <1>7, <2>1, <3>2 DEF Tick, SoundTyped, Instants
    <2>2. CASE ~Plays
      BY <1>7, <2>2 DEF Tick, SoundTyped
    <2> QED  BY <2>1, <2>2
  <1>8. CASE \/ Asks \/ Says \/ Sends \/ Interrupts \/ LetsGo \/ Settles \/ Prerolled
             \/ SourceLane \/ PictureLane
    <2>1. UNCHANGED renderer
      BY <1>8 DEF Asks, Pause, Resume, Seek, Step, Begins, Says, Sends, Interrupts, LetsGo,
                  Settles, Prerolled, SourceLane, SourceTakes, Reads, PictureLane, PicturesTake,
                  TakePicture, TakePicturesEnd, ShowUnasked, Past, Interrupted, Looks
    <2> QED  BY <2>1 DEF SoundTyped, renderer
  <1> QED  BY <1>1, <1>2, <1>3, <1>4, <1>5, <1>6, <1>7, <1>8 DEF Next, Carries, SoundLane

-----------------------------------------------------------------------------
(* The call and the thread of the sound.                                   *)

\* A call goes through its stages in their order.
LEMMA StagedKeeps == ASSUME Inv, Next PROVE Staged'
  <1> USE DEF Inv, Staged, Idle, Stage
  <1>1. CASE Asks
    <2>1. CASE Pause \/ Resume \/ Step
      BY <2>1, ZenonT(30) DEF Pause, Resume, Step, Begins, NoCall, lanes, TypeOK, PicturesTyped
    <2>2. ASSUME NEW t \in Targets, NEW accurate \in BOOLEAN, Seek(t, accurate) PROVE Staged'
      BY <2>2, CallsAssumption DEF Seek, Begins, NoCall, lanes
    <2> QED  BY <1>1, <2>1, <2>2 DEF Asks
  <1>2. CASE Says \/ Sends \/ Interrupts
    BY <1>2 DEF Says, Sends, Interrupts, NoCall, lanes, TypeOK, CallsTyped, CallRecords
  <1>3. CASE Repositions
    BY <1>3 DEF Repositions, Answered, GoesTo, Following, NoCall, lanes, TypeOK, CallsTyped,
                CallRecords
  <1>6. CASE LetsGo
    BY <1>6 DEF LetsGo, GoesTo, Following, NoCall, lanes, TypeOK, CallsTyped, CallRecords
  <1>7. CASE Prerolled
    BY <1>7 DEF Prerolled, Answered, GoesTo, Following, NoCall, lanes, Prerolls, TypeOK,
                CallsTyped, CallRecords
  <1>5. CASE Settles
    <2>1. UNCHANGED <<lanes, paused, stepped>> /\ asked = {}
      BY <1>5 DEF Settles, Answered
    <2>2. CASE UNCHANGED call
      BY <2>1, <2>2 DEF NoCall, lanes
    <2>3. CASE GoesTo(Following)
      <3>1. call.stage # "flush" /\ call.stage # "letgo"
        BY <1>5 DEF Settles, Answered
      <3>2. Following \in {"none", "resume", "flush", "letgo", "ends"}
        BY <3>1 DEF Following, Prerolls
      <3> QED  BY <2>1, <2>3, <3>1 DEF GoesTo, Following, NoCall, lanes, Pauses, Prerolls,
                  TypeOK, CallsTyped, CallRecords, Stages
    <2> QED  BY <1>5, <2>2, <2>3 DEF Settles
  <1>4. CASE SourceLane \/ PictureLane \/ SoundLane \/ SoundLeaves \/ Tick
    <2>1. UNCHANGED control /\ (asked = {} => asked' = {})
      BY <1>4 DEF SourceLane, SourceTakes, Reads, Takes, PictureLane, PicturesTake, TakePicture,
                  TakePicturesEnd, ShowUnasked, Past, Interrupted, Looks, SoundLane, TakeSound,
                  SubmitSound, SoundWaits, TakeSoundEnd, SoundEnds, SoundTakes,
                  SoundLeaves, Tick, lanes
    <2> QED  BY <2>1 DEF control, NoCall
  <1> QED  BY <1>1, <1>2, <1>3, <1>4, <1>5, <1>6, <1>7 DEF Next, Carries

\* The sound's thread stands still where a stage needs it to, and the
\* renderer loses its timeline only there.
LEMMA HoldsKeeps == ASSUME Inv, Next PROVE Holds'
  <1> USE DEF Inv, Staged, Holds, Idle, Stage, Told, Pauses
  <1>1. CASE Asks
    BY <1>1, ZenonT(30) DEF Asks, Pause, Resume, Step, Seek, Begins, NoCall, lanes, renderer, HasTimeline
  <1>2. CASE Says \/ Sends \/ Interrupts
    BY <1>2 DEF Says, Sends, Interrupts, NoCall, lanes, renderer, Lanes, Threads, HasTimeline,
                TypeOK, CallsTyped, CallRecords
  <1>3. CASE Repositions
    BY <1>3 DEF Repositions, Answered, GoesTo, Following, NoCall, lanes, HasTimeline, TypeOK,
                CallsTyped, CallRecords
  <1>10. CASE LetsGo
    BY <1>10 DEF LetsGo, GoesTo, Following, NoCall, lanes, renderer, HasTimeline, TypeOK,
                 CallsTyped, CallRecords
  <1>11. CASE Prerolled
    BY <1>11 DEF Prerolled, Answered, GoesTo, Following, NoCall, lanes, Prerolls, renderer,
                 HasTimeline, TypeOK, CallsTyped, CallRecords
  <1>9. CASE Settles
    <2>1. UNCHANGED <<lanes, renderer, paused>> /\ Told
      BY <1>9 DEF Settles, Answered
    <2>2. CASE UNCHANGED call
      BY <2>1, <2>2 DEF lanes, renderer, HasTimeline
    <2>3. CASE GoesTo(Following)
      <3>1. /\ Following \in {"flush", "letgo"} => call.stage = "pause"
            /\ Following = "none" /\ paused => Pauses
        BY <1>9, <2>1 DEF Settles, Answered, Following, Prerolls, TypeOK, CallsTyped,
           CallRecords, Stages
      <3>2. call'.stage = Following /\ ~Told'
        BY <2>3 DEF GoesTo, NoCall, TypeOK, CallsTyped, CallRecords
      <3> QED  BY <2>1, <3>1, <3>2 DEF lanes, renderer, HasTimeline
    <2> QED  BY <1>9, <2>2, <2>3 DEF Settles
  <1>4. CASE SourceLane \/ PictureLane
    BY <1>4 DEF SourceLane, SourceTakes, Reads, Takes, PictureLane, PicturesTake, TakePicture,
                TakePicturesEnd, ShowUnasked, Past, Interrupted, Looks, lanes, control, renderer,
                HasTimeline, Threads, TypeOK, LanesTyped
  <1>5. CASE SoundTakes
    <2>1. UNCHANGED <<control, place, sound>> /\ place = "idle"
      BY <1>5 DEF SoundTakes
    <2>2. mode'["sound"] = IF Pauses THEN "hold" ELSE IF Stage("flush") THEN mode["sound"]
                           ELSE mode'["sound"]
      BY <1>5 DEF SoundTakes, Takes, Threads, TypeOK, LanesTyped
    <2>3. Stage("flush") => ~HasTimeline'
      BY <1>5 DEF SoundTakes, HasTimeline
    <2>4. asked # {}
      BY <1>5 DEF SoundTakes, Takes
    <2> QED  BY <2>1, <2>2, <2>3, <2>4 DEF control, NoCall
  <1>6. CASE TakeSound \/ SubmitSound \/ SoundWaits \/ TakeSoundEnd \/ SoundEnds
    <2>1. UNCHANGED <<control, asked, mode>> /\ sound'.here = sound.here /\ sound.here
      BY <1>6 DEF TakeSound, SubmitSound, SoundWaits, TakeSoundEnd, SoundEnds, lanes,
         TypeOK, SoundTyped
    <2>2. mode["sound"] = "hold" => place' = "idle" /\ (~HasTimeline => ~HasTimeline')
      BY <1>6 DEF TakeSound, MayTake, SubmitSound, SoundWaits, TakeSoundEnd,
         SoundEnds, HasTimeline
    <2> QED  BY <2>1, <2>2 DEF control
  <1>7. CASE SoundLeaves
    BY <1>7 DEF SoundLeaves
  <1>8. CASE Tick
    BY <1>8, TimelineIs DEF Tick, Plays, lanes, control, HasTimeline, TypeOK
  <1> QED  BY <1>1, <1>2, <1>3, <1>4, <1>5, <1>6, <1>7, <1>8, <1>9, <1>10,
              <1>11
           DEF Next, Carries, SoundLane

\* The device has been handed what the renderer has taken, and no more.
LEMMA RendersKeeps == ASSUME Inv, Next PROVE Renders'
  <1> USE DEF Inv, Renders
  <1>1. CASE Repositions
    <2>1. ~HasTimeline /\ place # "submitting" /\ place # "draining"
      BY <1>1 DEF Repositions, Answered, Holds, Told, Stage
    <2> QED  BY <1>1, <2>1 DEF Repositions, HasTimeline
  <1>2. CASE TakeSound
    <2>1. nextSound' = nextSound + 1 /\ nextSound' \in 1 .. Sounds
      BY <1>2, MediaAssumption DEF TakeSound, TypeOK, SoundTyped
    <2>2. UNCHANGED <<pictures, timeline>> /\ place' \in {"idle", "submitting"}
      BY <1>2 DEF TakeSound
    <2>3. place' = "submitting" \/ sound.registered => sound'.registered
      BY <1>2 DEF TakeSound, TypeOK, SoundTyped
    <2> QED  BY <2>1, <2>2, <2>3, TimelineIs
             DEF HasTimeline, pictures, TypeOK, SoundTyped, Positions
  <1>3. CASE SubmitSound
    BY <1>3, TimelineIs DEF SubmitSound, HasTimeline, NoTimeline, TypeOK, SoundTyped, pictures,
       Positions, Nowhere
  <1>4. CASE SoundWaits
    <2>1. UNCHANGED <<pictures, nextSound, timeline, sound>> /\ place' \in {place, "idle"}
      BY <1>4 DEF SoundWaits
    <2> QED  BY <2>1 DEF HasTimeline, pictures
  <1>9. CASE TakeSoundEnd
    <2>1. nextSound' = nextSound + 1 /\ nextSound' > Sounds /\ place' = "draining"
      BY <1>9 DEF TakeSoundEnd, TypeOK, SoundTyped
    <2>2. UNCHANGED <<pictures, timeline, sound>>
      BY <1>9 DEF TakeSoundEnd
    <2> QED  BY <2>1, <2>2, TimelineIs
             DEF HasTimeline, pictures, TypeOK, SoundTyped, Positions
  <1>5. CASE SoundEnds \/ SoundLeaves
    <2>1. UNCHANGED pictures /\ timeline' = NoTimeline /\ place' = "idle"
      BY <1>5 DEF SoundEnds, SoundLeaves
    <2> QED  BY <2>1 DEF HasTimeline, pictures
  <1>10. CASE SoundTakes
    <2>1. UNCHANGED <<pictures, nextSound, place, sound>> /\ timeline' \in {timeline, NoTimeline}
      BY <1>10 DEF SoundTakes
    <2> QED  BY <2>1 DEF HasTimeline, pictures
  <1>6. CASE Tick
    BY <1>6, TimelineIs DEF Tick, Plays, HasTimeline, NoTimeline, TypeOK, SoundTyped, pictures,
       Nowhere, Positions
  <1>7. CASE PictureLane
    <2>1. UNCHANGED renderer
      BY <1>7 DEF PictureLane, PicturesTake, TakePicture, TakePicturesEnd, ShowUnasked, Past,
                  Interrupted, Looks
    <2>2. CASE TakePicture
      BY <2>1, <2>2 DEF TakePicture, renderer, HasTimeline, TypeOK, PicturesTyped
    <2>3. CASE ~TakePicture
      <3>1. waiting' => held' # <<>>
        BY <1>7, <2>3 DEF PictureLane, PicturesTake, TakePicturesEnd, ShowUnasked, Past,
           Interrupted, Looks, pictures
      <3> QED  BY <2>1, <3>1 DEF renderer, HasTimeline
    <2> QED  BY <2>2, <2>3
  <1>8. CASE Asks \/ Says \/ Sends \/ Interrupts \/ LetsGo \/ Settles \/ Prerolled \/ SourceLane
    <2>1. UNCHANGED <<pictures, renderer>>
      BY <1>8 DEF Asks, Pause, Resume, Seek, Step, Begins, Says, Sends, Interrupts, LetsGo,
                  Settles, Prerolled, SourceLane, SourceTakes, Reads
    <2> QED  BY <2>1 DEF pictures, renderer, HasTimeline
  <1> QED  BY <1>1, <1>2, <1>3, <1>4, <1>5, <1>6, <1>7, <1>8, <1>9, <1>10
           DEF Next, Carries, SoundLane

-----------------------------------------------------------------------------
(* The position.                                                           *)

\* Where one is set and one was, it is not before it.
Onward == (master.at # Nowhere /\ master'.at # Nowhere) => master'.at >= master.at

\* While it has a timeline the renderer owns the position, which is not past
\* what it has played: what it says of it is what it has played.
LEMMA SoundOwns ==
    ASSUME Inv, HasTimeline
    PROVE  /\ master.kind \in {"priming", "audio"} /\ master.at <= timeline.played
           /\ \A running \in BOOLEAN :
                 Published(master, timeline.played, timeline.handed, running)
                    = Audio(timeline.played, timeline.handed, running)
  <1>1. master.kind \in {"priming", "audio"} /\ master.at <= timeline.played
    BY DEF Inv, Mastered, Renders, OfAudio
  <1>2. master \in Masters /\ timeline.played \in Positions /\ timeline.handed \in Positions
        /\ timeline.played <= timeline.handed
    BY TimelineIs DEF Inv, TypeOK
  <1> QED  BY <1>1, <1>2, PublishedIsSaid

\* What Mastered asks of a position the renderer has just said.
LEMMA SaidIsMastered ==
    ASSUME NEW running \in BOOLEAN, SoundTyped', Renders', HasTimeline',
           running => device'.running,
           master' = Audio(timeline'.played, timeline'.handed, running)
    PROVE  master' \in Masters /\ Mastered'
  <1>1. timeline'.played \in Positions /\ timeline'.handed \in Positions
        /\ timeline'.played <= timeline'.handed
    BY DEF Renders, SoundTyped, HasTimeline, Positions, Instants, NoTimeline, Nowhere
  <1>2. master' \in Masters
    BY <1>1, MastersAre DEF Instants
  <1>3. sound'.registered
    BY DEF Renders
  <1> QED  BY <1>1, <1>2, <1>3 DEF Mastered, Audio, OfAudio, Positions

\* A thread that does not stand still is not in a flush: a position that is
\* the sound's has a timeline.
LEMMA AwakeIsNotFlushed ==
    ASSUME Inv, sound.here, mode["sound"] # "hold" \/ place # "idle"
    PROVE  ~Stage("flush") /\ (master.kind = "audio" => HasTimeline)
  BY DEF Inv, Holds, Mastered

\* The renderer and its position are left as they are, and so is a flush that
\* has reached it.
LEMMA MasteredIsLeft ==
    ASSUME Inv, UNCHANGED <<master, renderer>>,
           Stage("flush") /\ Told => (Stage("flush") /\ Told)'
    PROVE  master' \in Masters /\ Mastered' /\ Onward
  BY DEF Inv, Mastered, Onward, HasTimeline, TypeOK, Masters, Instants, Positions, Nowhere,
         renderer

\* Every step keeps what is known of the position, and takes it no further
\* back.
LEMMA MasteredKeeps ==
    ASSUME Inv, Next, SoundTyped', Renders', Holds'
    PROVE  master' \in Masters /\ Mastered' /\ Onward
  <1> USE DEF Inv, TypeOK
  <1>0. master.at \in Int
    BY DEF Masters, Instants, Positions, Nowhere
  <1>1. CASE Asks
    BY <1>1, MasteredIsLeft DEF Asks, Pause, Resume, Step, Seek, Begins, media, Staged, Idle,
       NoCall, Stage
  <1>2. CASE Says \/ Sends \/ Interrupts \/ Settles \/ Prerolled
    <2>1. UNCHANGED <<master, renderer>>
      BY <1>2 DEF Says, Sends, Interrupts, Settles, Prerolled, media
    <2>2. CASE Interrupts
      BY <2>1, <2>2, MasteredIsLeft
      DEF Interrupts, lanes, Stage, Told, CallsTyped, CallRecords
    <2>3. CASE ~Interrupts
      <3>1. ~(Stage("flush") /\ Told)
        BY <1>2, <2>3 DEF Says, Sends, Settles, Prerolled, Stage, Told, Prerolls
      <3> QED  BY <2>1, <3>1, MasteredIsLeft
    <2> QED  BY <2>2, <2>3
  <1>3. CASE SourceLane \/ PicturesTake \/ TakePicture \/ TakePicturesEnd \/ ShowUnasked
             \/ Interrupted
    <2>1. UNCHANGED <<master, renderer, control>> /\ asked' \subseteq asked
      BY <1>3 DEF SourceLane, SourceTakes, Reads, Takes, PicturesTake, TakePicture,
         TakePicturesEnd, ShowUnasked, Past, Interrupted, media, lanes
    <2> QED  BY <2>1, MasteredIsLeft DEF control, Told, Stage
  <1>4. CASE Repositions \/ LetsGo
    <2>1. master' = ResetForSeek(master)
      BY <1>4 DEF Repositions, LetsGo
    <2>2. /\ master' \in Masters /\ master'.at = Nowhere
          /\ OfAudio(master') <=> OfAudio(master)
          /\ master'.kind \in {"unavailable", "priming"}
      BY <2>1, MastersAre DEF ResetForSeek, Priming, Unavailable, OfAudio, Instants
    <2>3. UNCHANGED <<sound, place>> /\ (sound.here => place = "idle")
      BY <1>4 DEF Repositions, LetsGo, renderer, Holds
    <2>4. place' # "submitting"
      BY <2>3 DEF Holds
    <2>5. HasTimeline' => -1 <= timeline'.played
      BY DEF Renders, SoundTyped, Instants, Positions, Nowhere
    <2> QED  BY <2>2, <2>3, <2>4, <2>5 DEF Mastered, Onward, Nowhere
  <1>5. CASE Looks
    <2>1. UNCHANGED <<renderer, call, asked>>
      BY <1>5 DEF Looks, Past, control, lanes
    <2>2. CASE UNCHANGED master
      BY <2>1, <2>2, MasteredIsLeft DEF Told, Stage
    <2>3. CASE Anchors(master)
      <3>1. Head(held) \in Instants
        BY <1>5, MediaAssumption, HorizonAssumption
        DEF Looks, Renders, PicturesTyped, Instants, Positions
      <3>2. master' = Wall(Head(held)) /\ master' \in Masters
        BY <1>5, <2>3, <3>1, MastersAre DEF Looks, AnchoredOn
      <3>3. ~sound.registered /\ master.at = Nowhere
        BY <2>3 DEF Anchors, Mastered, OfAudio
      <3> QED  BY <2>1, <3>2, <3>3 DEF Wall, Mastered, OfAudio, Onward, renderer
    <2> QED  BY <1>5, <2>2, <2>3 DEF Looks, AnchoredOn
  <1>6. CASE TakeSound
    <2>1. /\ sound.here /\ mode["sound"] # "hold" /\ nextSound \in 0 .. Sounds - 1
          /\ UNCHANGED <<device, timeline>> /\ nextSound' = nextSound + 1
      BY <1>6, MediaAssumption DEF TakeSound, MayTake, SoundTyped
    <2>2. master.kind # "fallback" /\ (master.kind = "audio" => HasTimeline)
      BY <2>1, AwakeIsNotFlushed, MediaAssumption DEF Mastered
    <2>3. CASE Silenced
      <3>1. UNCHANGED <<master, place, sound>> /\ place = "idle"
        BY <1>6, <2>3 DEF TakeSound
      <3> QED  BY <1>0, <2>1, <2>2, <3>1 DEF Mastered, Onward, HasTimeline
    <2>4. CASE ~Silenced
      <3>1. sound'.registered /\ place' \in {"idle", "submitting"}
        BY <1>6, <2>4 DEF TakeSound, SoundTyped
      <3>2. master' = IF sound.registered THEN master ELSE Priming(master.at)
        BY <1>6, <2>4 DEF TakeSound, RegisteredBy
      <3>3. master' \in Masters /\ master'.at = master.at
        BY <3>2, MastersAre DEF Priming, Masters
      <3>4. place' = "submitting" /\ master'.kind = "priming" => master'.at < nextSound'
        <4>1. place' = IF nextSound < PrimingTarget(master') THEN "idle" ELSE "submitting"
          BY <1>6, <2>4, <3>2 DEF TakeSound, RegisteredBy
        <4> QED  BY <1>0, <2>1, <3>3, <4>1 DEF PrimingTarget
      <3>5. CASE sound.registered
        BY <1>0, <2>1, <2>2, <3>1, <3>2, <3>3, <3>4, <3>5 DEF Mastered, Onward, HasTimeline
      <3>6. CASE ~sound.registered
        <4>1. ~HasTimeline'
          BY <2>1, <3>6 DEF Renders, HasTimeline
        <4> QED  BY <1>0, <3>1, <3>2, <3>3, <3>4, <3>6, <4>1
                 DEF Mastered, Onward, Priming, OfAudio
      <3> QED  BY <3>5, <3>6
    <2> QED  BY <2>3, <2>4
  <1>7. CASE SubmitSound
    <2> DEFINE f == nextSound - 1
    <2>1. /\ sound.here /\ place = "submitting" /\ nextSound \in 1 .. Sounds
          /\ UNCHANGED <<nextSound, sound>> /\ place' = "idle" /\ sound.registered
      BY <1>7 DEF SubmitSound, Renders
    <2>2. /\ master.kind \in {"priming", "audio"} /\ (master.kind = "audio" => HasTimeline)
          /\ master.at <= f
      BY <2>1, AwakeIsNotFlushed, MediaAssumption, TimelineIs
      DEF Mastered, OfAudio, Renders, Masters, Instants, Positions, Nowhere
    <2>3. \/ timeline' = [played |-> f, handed |-> f + 1]
          \/ HasTimeline /\ timeline' = [timeline EXCEPT !.handed = @ + 1]
      BY <1>7 DEF SubmitSound
    <2>4. /\ HasTimeline' /\ master.at <= timeline'.played
          /\ HasTimeline => timeline.handed <= timeline'.handed
      BY <2>1, <2>2, <2>3, TimelineIs, SoundOwns
      DEF HasTimeline, NoTimeline, SoundTyped, Renders, Nowhere, Positions
    <2>5. CASE device.paused
      BY <1>7, <2>1, <2>2, <2>4, <2>5, TimelineIs
      DEF SubmitSound, Mastered, Onward, media, OfAudio, SoundTyped, Positions, Masters,
          Instants, Nowhere
    <2>6. CASE ~device.paused
      <3>1. /\ device'.running
            /\ master' = Published(master, timeline'.played, timeline'.handed, TRUE)
        BY <1>7, <2>4, <2>6 DEF SubmitSound, Publishes, HasTimeline, SoundTyped
      <3>2. timeline'.played \in Positions /\ timeline'.handed \in Positions
            /\ timeline'.played <= timeline'.handed
        BY <2>4 DEF Renders, SoundTyped, HasTimeline, Positions, Instants, NoTimeline, Nowhere
      <3>3. master' = Audio(timeline'.played, timeline'.handed, TRUE)
        BY <2>4, <3>1, <3>2, PublishedIsSaid
      <3>4. Onward
        BY <1>0, <2>4, <3>2, <3>3 DEF Onward, Audio, Positions
      <3> QED  BY <2>4, <3>1, <3>3, <3>4, SaidIsMastered
    <2> QED  BY <2>5, <2>6
  <1>8. ASSUME NEW running \in BOOLEAN, Publishes(timeline, running), UNCHANGED timeline,
               HasTimeline, running => device'.running
        PROVE  master' \in Masters /\ Mastered' /\ Onward
    <2>1. master' = Audio(timeline.played, timeline.handed, running) /\ HasTimeline'
      BY <1>8, SoundOwns DEF Publishes, HasTimeline
    <2>2. master'.at = timeline.played /\ master.at <= timeline.played
      BY <1>8, <2>1, SoundOwns DEF Audio
    <2> QED  BY <1>0, <1>8, <2>1, <2>2, TimelineIs, SaidIsMastered DEF Onward, Positions
  <1>9. CASE SoundWaits
    <2>1. HasTimeline
      BY <1>9, TimelineIs, DeviceAssumption DEF SoundWaits, Padding
    <2> QED  BY <1>8, <1>9, <2>1 DEF SoundWaits, SoundTyped
  <1>11. CASE TakeSoundEnd
    <2>1. sound.here /\ mode["sound"] # "hold" /\ UNCHANGED <<master, device, timeline, sound>>
          /\ place' = "draining" /\ nextSound = Sounds
      BY <1>11 DEF TakeSoundEnd, MayTake, media
    <2>2. master.kind # "fallback" /\ (master.kind = "audio" => HasTimeline)
      BY <2>1, AwakeIsNotFlushed, MediaAssumption DEF Mastered
    <2> QED  BY <1>0, <2>1, <2>2 DEF Mastered, Onward, HasTimeline
  <1>12. CASE SoundEnds
    <2>1. /\ sound.here /\ place # "idle" /\ nextSound > Sounds /\ nextSound' = nextSound
          /\ sound' = sound /\ place' = "idle" /\ ~HasTimeline'
      BY <1>12 DEF SoundEnds, Renders, HasTimeline
    <2>2. CASE HasTimeline
      <3>1. master' = Fallback(timeline.handed)
        <4>1. Published(master, timeline.played, timeline.handed, FALSE)
                 = Audio(timeline.played, timeline.handed, FALSE)
          BY <2>2, SoundOwns
        <4>2. Finished(Audio(timeline.played, timeline.handed, FALSE), timeline.handed)
                 = Fallback(timeline.handed)
          BY DEF Finished, Audio
        <4> QED  BY <1>12, <2>2, <4>1, <4>2 DEF SoundEnds
      <3>2. timeline.handed \in Positions /\ master.at <= timeline.handed /\ sound.registered
        BY <1>0, <2>2, TimelineIs, SoundOwns DEF Renders, Positions
      <3>3. master' \in Masters
        BY <3>1, <3>2, MastersAre DEF Instants
      <3> QED  BY <2>1, <3>1, <3>2, <3>3 DEF Mastered, Onward, Fallback, OfAudio
    <2>3. CASE ~HasTimeline
      <3>1. UNCHANGED master /\ master.kind # "audio"
        BY <1>12, <2>1, <2>3, AwakeIsNotFlushed DEF SoundEnds, media
      <3> QED  BY <1>0, <2>1, <3>1 DEF Mastered, Onward
    <2> QED  BY <2>2, <2>3
  <1>13. CASE SoundTakes
    <2>0. UNCHANGED <<control, nextSound, place, sound>> /\ place = "idle" /\ sound.here
          /\ asked # {} /\ "sound" \notin asked'
      BY <1>13 DEF SoundTakes, Takes
    <2>1. CASE Pauses
      <3>1. master.kind = "audio" => HasTimeline
        BY <2>1 DEF Mastered, Pauses, Stage
      <3>2. CASE HasTimeline
        <4>1. Publishes(timeline, FALSE) /\ UNCHANGED timeline
          BY <1>13, <2>1 DEF SoundTakes, Pauses, Stage
        <4> QED  BY <1>8, <3>2, <4>1
      <3>3. CASE ~HasTimeline
        BY <1>0, <1>13, <2>0, <2>1, <3>1, <3>3
        DEF SoundTakes, Publishes, HasTimeline, media, Mastered, Onward
      <3> QED  BY <3>2, <3>3
    <2>2. CASE Stage("resume")
      <3>1. master.kind = "audio" => HasTimeline
        BY <2>2 DEF Mastered, Stage
      <3>2. CASE Padding > 0
        <4>2. Publishes(timeline, TRUE) /\ UNCHANGED timeline
          BY <1>13, <2>2, <3>2 DEF SoundTakes, Pauses, Stage
        <4>3. device'.running
          <5>1. device' = [running |-> device.running \/ Padding > 0, paused |-> FALSE]
            BY <1>13, <2>2 DEF SoundTakes, Pauses, Stage
          <5> QED  BY <3>2, <5>1
        <4> QED  BY <1>8, <3>2, <4>2, <4>3, TimelineIs
      <3>3. CASE ~(Padding > 0)
        <4>2. UNCHANGED <<master, timeline>>
          BY <1>13, <2>2, <3>3 DEF SoundTakes, Pauses, Stage, media
        <4>3. device.running => device'.running
          <5>1. device' = [running |-> device.running \/ Padding > 0, paused |-> FALSE]
            BY <1>13, <2>2 DEF SoundTakes, Pauses, Stage
          <5> QED  BY <5>1
        <4> QED  BY <1>0, <2>0, <3>1, <4>2, <4>3 DEF Mastered, Onward, HasTimeline
      <3> QED  BY <3>2, <3>3
    <2>3. CASE Stage("flush")
      <3>1. Publishes(timeline, FALSE) /\ ~HasTimeline'
        BY <1>13, <2>3 DEF SoundTakes, Pauses, Stage, HasTimeline
      <3>2. Stage("flush")' /\ Told'
        BY <2>0, <2>3 DEF control, Stage, Told, Staged, CallsTyped, CallRecords
      <3>3. CASE HasTimeline
        <4>1. master' = Audio(timeline.played, timeline.handed, FALSE)
          BY <3>1, <3>3, SoundOwns DEF Publishes, HasTimeline
        <4>2. /\ timeline.played \in Positions /\ timeline.handed \in Positions
              /\ timeline.played <= timeline.handed /\ sound.registered
              /\ master.at <= timeline.played
          BY <3>3, TimelineIs, SoundOwns DEF Renders
        <4>3. master' \in Masters
          BY <4>1, <4>2, MastersAre DEF Instants
        <4> QED  BY <2>0, <3>1, <3>2, <4>1, <4>2, <4>3
                 DEF Mastered, Onward, Audio, OfAudio, Positions
      <3>4. CASE ~HasTimeline
        <4>1. UNCHANGED master
          BY <3>1, <3>4 DEF Publishes, HasTimeline, media
        <4> QED  BY <1>0, <2>0, <3>1, <3>2, <3>4, <4>1 DEF Mastered, Onward
      <3> QED  BY <3>3, <3>4
    <2>4. CASE ~Pauses /\ ~Stage("resume") /\ ~Stage("flush")
      <3>1. UNCHANGED <<master, timeline, device>>
        BY <1>13, <2>4 DEF SoundTakes, media
      <3> QED  BY <1>0, <2>0, <2>4, <3>1 DEF Mastered, Onward, HasTimeline
    <2> QED  BY <2>1, <2>2, <2>3, <2>4
  <1>14. CASE SoundLeaves
    <2>1. ~sound'.registered /\ ~HasTimeline' /\ place' # "submitting"
      BY <1>14 DEF SoundLeaves, HasTimeline
    <2>2. CASE ~sound.registered
      <3>1. UNCHANGED master /\ ~OfAudio(master)
        BY <1>14, <2>2 DEF SoundLeaves, Mastered
      <3> QED  BY <1>0, <2>1, <3>1 DEF Mastered, Onward, OfAudio
    <2>3. CASE sound.registered
      <3> DEFINE m == IF HasTimeline
                      THEN Published(master, timeline.played, timeline.handed, FALSE)
                      ELSE master
      <3>1. m \in Masters /\ OfAudio(m) /\ master.at <= m.at
        <4>1. CASE HasTimeline
          <5>1. m = Audio(timeline.played, timeline.handed, FALSE)
            BY <4>1, SoundOwns
          <5>2. timeline.played \in Instants /\ timeline.handed \in Instants
            BY DEF SoundTyped
          <5>3. m \in Masters
            BY <5>1, <5>2, MastersAre
          <5>4. m.kind = "audio" /\ m.at = timeline.played
            <6> HIDE DEF m
            <6> QED  BY <5>1 DEF Audio
          <5> HIDE DEF m
          <5> QED  BY <4>1, <5>3, <5>4, SoundOwns DEF OfAudio
        <4>2. CASE ~HasTimeline
          BY <1>0, <2>3, <4>2 DEF Mastered
        <4> QED  BY <4>1, <4>2
      <3>2. master' = IF m.at = Nowhere THEN Unavailable ELSE Wall(m.at)
        BY <1>14, <2>3, <3>1 DEF SoundLeaves, Released
      <3> HIDE DEF m
      <3>3. master' \in Masters
        BY <3>1, <3>2, MastersAre DEF Masters
      <3> QED  BY <2>1, <3>1, <3>2, <3>3 DEF Mastered, Onward, OfAudio, Unavailable, Wall
    <2> QED  BY <2>2, <2>3
  <1>15. CASE Tick
    <2>1. /\ UNCHANGED <<call, asked, nextSound, place, device, sound>>
          /\ master' = IF clock = "running" THEN Projected(master) ELSE master
      BY <1>15 DEF Tick, control, lanes
    <2>2. /\ master' \in Masters /\ master'.kind = master.kind
          /\ master'.until = master.until /\ master'.running = master.running
          /\ master.at <= master'.at /\ master'.at <= master.at + 1
          /\ master.kind \in {"unavailable", "priming"} => master'.at = master.at
          /\ master.kind = "audio" => master'.at <= master.until
          /\ master.kind = "audio" /\ ~master.running => master'.at = master.at
      BY <1>0, <2>1, ProjectedMoves DEF Mastered
    <2>3. /\ HasTimeline' <=> HasTimeline
          /\ HasTimeline => /\ timeline'.handed = timeline.handed
                            /\ timeline.played <= timeline'.played
      BY <1>15, TimelineIs DEF Tick, Plays, SoundTyped, HasTimeline, NoTimeline, Positions,
         Nowhere
    <2>4. master.kind = "audio" /\ HasTimeline => master'.at <= timeline'.played
      <3> SUFFICES ASSUME master.kind = "audio", HasTimeline
                   PROVE  master'.at <= timeline'.played
        OBVIOUS
      <3>1. sound.here
        BY DEF Renders, Holds
      <3>2. CASE master.running /\ Padding > 0
        <4>1. timeline'.played = timeline.played + 1
          BY <1>15, <3>1, <3>2 DEF Tick, Plays, Mastered, SoundTyped
        <4> QED  BY <1>0, <2>2, <4>1, TimelineIs DEF Mastered, Positions, Masters, Instants, Nowhere
      <3>3. CASE master.running /\ ~(Padding > 0)
        <4>1. master'.at <= master.until /\ master.until <= timeline.handed
          BY <2>2 DEF Mastered
        <4>2. timeline.handed <= timeline.played
          BY <3>3, TimelineIs DEF Padding
        <4>3. master'.at \in Int /\ master.until \in Int /\ timeline'.played \in Int
          BY <2>2 DEF Masters, SoundTyped, Instants, Positions, Nowhere
        <4> QED  BY <2>3, <4>1, <4>2, <4>3, TimelineIs
      <3>4. CASE ~master.running
        BY <1>0, <2>2, <2>3, <3>4, TimelineIs
        DEF Mastered, Positions, SoundTyped, Instants, Nowhere
      <3> QED  BY <3>2, <3>3, <3>4
    <2> QED  BY <1>0, <2>1, <2>2, <2>3, <2>4, TimelineIs
             DEF Mastered, Onward, OfAudio, Stage, Told, Masters, Instants, Positions, Nowhere,
                 SoundTyped
  <1> QED  BY <1>1, <1>2, <1>3, <1>4, <1>5, <1>6, <1>7, <1>9, <1>11, <1>12, <1>13, <1>14,
              <1>15
           DEF Next, Carries, PictureLane, SoundLane

\* The clock starts, is paused and goes on.
LEMMA ClockStaysTyped == ASSUME TypeOK, Next PROVE clock' \in Clocks
  <1>1. /\ Started(clock) \in Clocks /\ Paused(clock) \in Clocks /\ Resumed(clock) \in Clocks
        /\ clock \in Clocks
    BY DEF TypeOK, Clocks, Started, Paused, Resumed
  <1>2. clock' \in {clock, Started(clock), Paused(clock), Resumed(clock)}
    <2>1. CASE Asks \/ Carries
      BY <2>1 DEF Asks, Pause, Resume, Step, Seek, Begins, Carries, Says, Sends, Interrupts,
         Repositions, LetsGo, Settles, Prerolled, media
    <2>2. CASE SourceLane \/ PictureLane \/ SoundLeaves \/ Tick
      BY <2>2 DEF SourceLane, SourceTakes, Reads, PictureLane, PicturesTake, TakePicture,
         TakePicturesEnd, ShowUnasked, Past, Interrupted, Looks, SoundLeaves, Tick, media
    <2>3. CASE SoundLane
      BY <2>3 DEF SoundLane, TakeSound, SubmitSound, SoundWaits, TakeSoundEnd,
         SoundEnds, SoundTakes, Publishes, Pauses, Stage, media
    <2> QED  BY <2>1, <2>2, <2>3 DEF Next
  <1> QED  BY <1>1, <1>2

-----------------------------------------------------------------------------
(* Where a paused seek lands: what each end has of it, stage by stage.     *)

ToldTo(l) == call.said \in {"sent", "out"} /\ l \notin asked

\* A thread stands still where a stage needs it to, and plays in no preroll.
StandsStill(l) ==
    /\ Idle /\ paused => mode[l] = "hold"
    /\ Stage("flush") \/ Stage("letgo") => mode[l] = "hold"
    /\ Pauses /\ ToldTo(l) => mode[l] = "hold"
    /\ Prerolls /\ call.said \in {"no", "said"} => mode[l] = "hold"
    /\ Prerolls \/ Stage("ends") => mode[l] # "play"

\* So do the synchronizer and the device.
Still ==
    /\ \A l \in Lanes : StandsStill(l)
    /\ mode["pictures"] = "hold" => ~waiting
    /\ sound.here /\ mode["sound"] # "play" => device.paused
    /\ device.paused => ~device.running
    /\ Prerolls /\ call.said # "no" => phase = "prerolling"

\* A paused seek is on its way.
Landing == paused /\ ~stepped /\ call.to # Nowhere

Seeks == Landing => /\ call.then = "flush"
                    /\ Stage("flush") \/ Stage("preroll") \/ Stage("ends")

\* An end is without the sample of the preroll, or has it.
Lacks(l) == call.said # "no" /\ l \notin got
Has(l)   == call.said # "no" /\ l \in got

Cleared == held = <<>> /\ shown = Nowhere /\ ~waiting
Showing == held = <<call.to>> /\ waiting /\ nextPicture = call.to + 1
Shown   == held = <<>> /\ ~waiting /\ nextPicture = call.to + 1 /\ shown = call.to

\* The window is cleared, and the first picture it shows is the last till then.
PictureLands ==
    Landing =>
        /\ Stage("flush") /\ ToldTo("pictures") => Cleared
        /\ Stage("preroll") => \/ Cleared /\ nextPicture = call.to /\ ~Has("pictures")
                               \/ Showing /\ Lacks("pictures")
                               \/ Shown /\ Has("pictures")
        /\ Stage("ends") => Shown /\ (mode["pictures"] = "hold" \/ "pictures" \in got)

Unset    == master.kind \in {"unavailable", "priming"} /\ master.at = Nowhere
HandedTo == place = "idle" /\ timeline = [played |-> call.to, handed |-> call.to + 1]

\* The device is handed the frame that is there and plays none of it.  Nobody
\* says where playing is until the pause that ends the seek does.
SoundLands ==
    Landing /\ sound.here /\ call.to < Sounds =>
        /\ Stage("preroll") =>
              /\ Unset
              /\ \/ /\ place = "idle" /\ ~HasTimeline /\ nextSound = call.to
                    /\ ~Has("sound")
                 \/ /\ place = "submitting" /\ ~HasTimeline /\ nextSound = call.to + 1
                    /\ Lacks("sound")
                 \/ HandedTo /\ Has("sound")
        /\ Stage("ends") =>
              /\ HandedTo /\ (mode["sound"] = "hold" \/ "sound" \in got)
              /\ IF ToldTo("sound") THEN master = Audio(call.to, call.to + 1, FALSE) ELSE Unset

Lands == Still /\ Seeks /\ PictureLands /\ SoundLands

\* Every thread is a lane, and a lane is there while its thread is.
LEMMA LanesAre == "pictures" \in Lanes /\ "source" \in Lanes
                  /\ ("sound" \in Lanes <=> sound.here) /\ Lanes \subseteq Threads
  BY DEF Lanes, Threads

\* A thread that takes its request stands still where it is told to.
LEMMA TakesStill ==
    ASSUME Inv, Still, NEW l \in Lanes, Takes(l), UNCHANGED <<control, sound>>
    PROVE  /\ \A k \in Lanes' : StandsStill(k)'
           /\ \A k \in Threads : k # l => mode'[k] = mode[k]
           /\ asked' = asked \ {l}
           /\ Pauses => mode'[l] = "hold"
           /\ Stage("flush") => mode'[l] = mode[l]
           /\ Stage("resume") => mode'[l] = "play"
           /\ ~Pauses /\ ~Stage("flush") /\ ~Stage("resume") => mode'[l] = "preroll"
  <1>1. mode \in [Threads -> {"play", "hold", "preroll"}] /\ l \in Threads
    BY LanesAre DEF Inv, TypeOK, LanesTyped
  <1>2. asked' = asked \ {l} /\ asked # {}
    BY DEF Takes
  <1>3. ~Idle /\ call.said \notin {"no", "said"} /\ ~Stage("letgo")
    BY <1>2 DEF Inv, Staged, NoCall
  <1>4. /\ \A k \in Threads : k # l => mode'[k] = mode[k]
        /\ mode'[l] = CASE Pauses -> "hold"
                        [] Stage("resume") -> "play"
                        [] Stage("flush") -> mode[l]
                        [] OTHER -> "preroll"
    BY <1>1 DEF Takes
  <1>5. /\ Pauses => ~Stage("resume") /\ ~Stage("flush") /\ ~Prerolls
        /\ Stage("resume") => ~Stage("flush") /\ ~Prerolls /\ ~Stage("ends")
        /\ Stage("flush") => ~Prerolls /\ ~Stage("ends")
        /\ Stage("ends") => Pauses
    BY DEF Pauses, Prerolls, Stage
  <1>6. /\ Pauses => mode'[l] = "hold"
        /\ Stage("flush") => mode'[l] = mode[l]
        /\ Stage("resume") => mode'[l] = "play"
        /\ ~Pauses /\ ~Stage("flush") /\ ~Stage("resume") => mode'[l] = "preroll"
    BY <1>4, <1>5
  <1>7. \A k \in Lanes' : StandsStill(k)'
    <2> SUFFICES ASSUME NEW k \in Lanes' PROVE StandsStill(k)'
      OBVIOUS
    <2>1. k \in Lanes /\ k \in Threads /\ StandsStill(k) /\ StandsStill(l)
      BY LanesAre DEF Still, Lanes
    <2>2. /\ Idle' <=> Idle
          /\ Pauses' <=> Pauses
          /\ Prerolls' <=> Prerolls
          /\ call' = call
      BY DEF control, Idle, Stage, Pauses, Prerolls
    <2>3. CASE k = l
      BY <1>3, <1>5, <1>6, <2>1, <2>2, <2>3 DEF StandsStill, Stage
    <2>4. CASE k # l
      BY <1>2, <1>4, <2>1, <2>2, <2>4 DEF StandsStill, Stage, ToldTo, control
    <2> QED  BY <2>3, <2>4
  <1> QED  BY <1>2, <1>4, <1>6, <1>7

\* Nobody takes a request: the threads stand as they stood.
LEMMA NobodyTakesStill ==
    ASSUME Still, UNCHANGED <<control, asked, mode>>, Lanes' \subseteq Lanes
    PROVE  \A k \in Lanes' : StandsStill(k)'
  BY DEF Still, StandsStill, control, Idle, Stage, Pauses, Prerolls, ToldTo

\* They go on standing still as the call goes on.
LEMMA CallStill ==
    ASSUME Inv, Still, Asks \/ Carries
    PROVE  Still'
  <1> USE DEF Idle, Stage, Pauses, Prerolls
  <1>1. Inv /\ Staged /\ call \in CallRecords
    BY DEF Inv, TypeOK, CallsTyped
  <1>2. UNCHANGED <<mode, waiting, sound, device>> /\ Lanes' = Lanes
    BY DEF Asks, Pause, Resume, Seek, Step, Begins, Carries, Says, Sends, Interrupts,
           Repositions, LetsGo, Settles, Prerolled, lanes, pictures, renderer, Lanes
  <1>3. \A k \in Lanes : StandsStill(k)'
    <2> SUFFICES ASSUME NEW k \in Lanes PROVE StandsStill(k)'
      OBVIOUS
    <2>1. StandsStill(k) /\ mode'[k] = mode[k]
      BY <1>2 DEF Still
    <2>2. CASE Asks
      <3>1. Idle /\ call'.said = "no" /\ call'.stage \in {"pause", "flush", "resume", "letgo"}
            /\ (call'.stage \in {"flush", "letgo"} => paused)
        BY <1>1, <2>2 DEF Asks, Pause, Resume, Seek, Step, Begins, NoCall, Staged
      <3> QED  BY <2>1, <3>1 DEF StandsStill, ToldTo
    <2>3. CASE Says \/ Sends \/ Interrupts
      <3>1. /\ call'.stage = call.stage /\ call.stage # "none"
            /\ (call.said = "no" /\ call'.said = "said") \/ call'.said \in {"sent", "out"}
            /\ call'.said = "sent" => asked' = Lanes
            /\ call'.said = "out" => call.said = "sent" /\ asked' = asked
        BY <1>1, <2>3 DEF Says, Sends, Interrupts, CallRecords, lanes
      <3>2. k \in Lanes'
        BY <1>2
      <3> QED  BY <2>1, <3>1 DEF StandsStill, ToldTo
    <2>4. CASE Repositions
      <3>1. Stage("flush") /\ call'.stage = "preroll" /\ call'.said = "no"
        BY <1>1, <2>4 DEF Repositions, GoesTo, Following, CallRecords
      <3> QED  BY <2>1, <3>1 DEF StandsStill, ToldTo
    <2>5. CASE LetsGo
      <3>1. /\ Stage("letgo") /\ call'.said = "no" /\ call'.stage \in {"none", "step"}
        BY <1>1, <2>5 DEF LetsGo, GoesTo, Following, CallRecords, NoCall
      <3> QED  BY <2>1, <3>1 DEF StandsStill, ToldTo
    <2>6. CASE Prerolled
      <3>1. Prerolls /\ call'.stage = "ends" /\ call'.said = "no"
        BY <1>1, <2>6 DEF Prerolled, GoesTo, Following, CallRecords
      <3> QED  BY <2>1, <3>1 DEF StandsStill, ToldTo
    <2>7. CASE Settles
      <3>1. call.said = "out" /\ asked = {} /\ ~Stage("flush") /\ ~Idle
            /\ UNCHANGED <<asked, paused>>
        BY <2>7 DEF Settles, Answered, lanes
      <3>2. CASE Prerolls
        <4>1. call' = call
          BY <2>7, <3>2 DEF Settles
        <4> QED  BY <2>1, <3>1, <4>1 DEF StandsStill, ToldTo
      <3>3. CASE ~Prerolls
        <4>1. GoesTo(Following)
          BY <2>7, <3>3 DEF Settles
        <4>2. call.stage # "letgo"
          BY <1>1, <3>1 DEF Staged
        <4>3. call'.said = "no" /\ call'.stage = Following
          BY <1>1, <4>1 DEF GoesTo, CallRecords, NoCall
        <4>4. /\ Following \in {"none", "flush", "letgo", "resume"}
              /\ Pauses \/ Stage("resume")
              /\ Stage("resume") => Following = "none" /\ ~paused
          BY <1>1, <3>1, <3>3, <4>2 DEF Following, Staged, CallRecords, Stages
        <4>5. CASE Pauses
          <5>1. mode[k] = "hold"
            BY <2>1, <3>1, <4>5 DEF StandsStill, ToldTo
          <5>2. Following = "resume" => call'.stage = "resume"
            BY <4>3
          <5> QED  BY <2>1, <4>3, <4>4, <5>1 DEF StandsStill, ToldTo
        <4>6. CASE Stage("resume")
          BY <2>1, <3>1, <4>3, <4>4, <4>6 DEF StandsStill, ToldTo
        <4> QED  BY <4>4, <4>5, <4>6
      <3> QED  BY <3>2, <3>3
    <2> QED  BY <2>2, <2>3, <2>4, <2>5, <2>6, <2>7 DEF Carries
  <1>4. (Prerolls /\ call.said # "no" => phase = "prerolling")'
    <2>1. CASE Says
      BY <1>1, <2>1 DEF Says, CallRecords
    <2>2. CASE Sends \/ Interrupts
      BY <1>1, <2>2 DEF Sends, Interrupts, CallRecords, Still, state
    <2>3. CASE Settles /\ Prerolls
      BY <2>3 DEF Settles, Still
    <2>4. CASE Asks \/ Repositions \/ LetsGo \/ Prerolled \/ (Settles /\ ~Prerolls)
      <3>1. CASE Asks
        BY <3>1 DEF Asks, Pause, Resume, Seek, Step, Begins, NoCall
      <3>2. CASE ~Asks
        <4>1. ASSUME NEW s, GoesTo(s) PROVE call'.said = "no"
          BY <1>1, <4>1 DEF GoesTo, NoCall, CallRecords
        <4>2. CASE Repositions \/ Prerolled
          BY <4>1, <4>2 DEF Repositions, Prerolled
        <4>3. CASE LetsGo
          BY <4>1, <4>3 DEF LetsGo
        <4>4. CASE Settles /\ ~Prerolls
          BY <4>1, <4>4 DEF Settles
        <4> QED  BY <2>4, <3>2, <4>2, <4>3, <4>4
      <3> QED  BY <3>1, <3>2
    <2> QED  BY <2>1, <2>2, <2>3, <2>4 DEF Carries
  <1> QED  BY <1>2, <1>3, <1>4 DEF Still

\* And as they go on themselves.
LEMMA StillKeeps ==
    ASSUME Inv, Still, Next
    PROVE  Still'
  <1>1. CASE Asks \/ Carries
    BY <1>1, CallStill
  <1>2. ASSUME UNCHANGED <<state, control>>,
               \A k \in Lanes' : StandsStill(k)',
               (mode["pictures"] = "hold" => ~waiting)',
               (sound.here /\ mode["sound"] # "play" => device.paused)',
               (device.paused => ~device.running)'
        PROVE  Still'
    BY <1>2 DEF Still, state, control, Prerolls, Stage
  <1>3. CASE SourceTakes
    <2>1. UNCHANGED <<state, control, waiting, sound, device>> /\ Takes("source")
      BY <1>3 DEF SourceTakes, pictures, renderer
    <2>2. \A k \in Threads : k # "source" => mode'[k] = mode[k]
      BY <2>1, LanesAre, TakesStill
    <2>3. mode'["pictures"] = mode["pictures"] /\ mode'["sound"] = mode["sound"]
      BY <2>2 DEF Threads
    <2>4. \A k \in Lanes' : StandsStill(k)'
      BY <2>1, LanesAre, TakesStill
    <2> QED  BY <1>2, <2>1, <2>3, <2>4 DEF Still
  <1>4. CASE PicturesTake
    <2>1. UNCHANGED <<state, control, waiting, sound, device>> /\ Takes("pictures") /\ ~waiting
      BY <1>4 DEF PicturesTake, renderer
    <2>2. \A k \in Threads : k # "pictures" => mode'[k] = mode[k]
      BY <2>1, LanesAre, TakesStill
    <2>3. mode'["sound"] = mode["sound"]
      BY <2>2 DEF Threads
    <2>4. \A k \in Lanes' : StandsStill(k)'
      BY <2>1, LanesAre, TakesStill
    <2> QED  BY <1>2, <2>1, <2>3, <2>4 DEF Still
  <1>5. CASE SoundTakes
    <2>1. UNCHANGED <<state, control, waiting, sound>> /\ Takes("sound") /\ sound.here
      BY <1>5 DEF SoundTakes, pictures
    <2>2. \A k \in Threads : k # "sound" => mode'[k] = mode[k]
      BY <2>1, LanesAre, TakesStill
    <2>3. mode'["pictures"] = mode["pictures"]
      BY <2>2 DEF Threads
    <2>4. \A k \in Lanes' : StandsStill(k)'
      BY <2>1, LanesAre, TakesStill
    <2>5. (device'.paused => ~device'.running) /\ (mode'["sound"] # "play" => device'.paused)
      <3>1. asked # {}
        BY <2>1 DEF Takes
      <3>2. ~Idle /\ ~Stage("letgo")
        BY <3>1 DEF Inv, Staged, NoCall
      <3>3. CASE Pauses
        <4>1. device' = [running |-> FALSE, paused |-> TRUE]
          BY <1>5, <3>3 DEF SoundTakes, Pauses, Stage
        <4> QED  BY <4>1
      <3>4. CASE Stage("resume")
        <4>1. ~Pauses
          BY <3>4 DEF Pauses, Stage
        <4>2. device' = [running |-> device.running \/ Padding > 0, paused |-> FALSE]
          BY <1>5, <3>4, <4>1 DEF SoundTakes, Pauses, Stage
        <4>3. mode'["sound"] = "play"
          BY <2>1, <3>4, LanesAre, TakesStill
        <4> QED  BY <4>2, <4>3
      <3>5. CASE Stage("flush")
        <4>1. ~Pauses /\ ~Stage("resume")
          BY <3>5 DEF Pauses, Stage
        <4>2. device' = [device EXCEPT !.running = FALSE]
          BY <1>5, <3>5, <4>1 DEF SoundTakes
        <4>3. device'.running = FALSE /\ device'.paused = device.paused
          BY <4>2 DEF Inv, TypeOK, SoundTyped
        <4>4. mode["sound"] = "hold"
          BY <2>1, <3>5, LanesAre DEF Still, StandsStill
        <4> QED  BY <2>1, <4>3, <4>4 DEF Still
      <3>6. CASE ~Pauses /\ ~Stage("resume") /\ ~Stage("flush")
        <4>1. device' = device
          BY <1>5, <3>6 DEF SoundTakes
        <4>2. Prerolls
          BY <3>2, <3>6 DEF Pauses, Prerolls, Stage, Idle, Inv, TypeOK, CallsTyped, CallRecords,
                            Stages
        <4>3. mode["sound"] # "play"
          BY <2>1, <4>2, LanesAre DEF Still, StandsStill
        <4> QED  BY <2>1, <4>1, <4>3 DEF Still
      <3> QED  BY <3>3, <3>4, <3>5, <3>6
    <2> QED  BY <1>2, <2>1, <2>3, <2>4, <2>5 DEF Still
  <1>6. CASE \/ Reads \/ TakePicture \/ TakePicturesEnd \/ ShowUnasked \/ Interrupted \/ Looks
    <2>1. UNCHANGED <<state, control, asked, mode, sound, device>>
      BY <1>6 DEF Reads, TakePicture, TakePicturesEnd, ShowUnasked, Interrupted, Looks, Past,
                  lanes, renderer
    <2>2. waiting' => waiting \/ mode["pictures"] # "hold"
      BY <1>6 DEF Reads, TakePicture, TakePicturesEnd, ShowUnasked, Interrupted, Looks, Past,
                  MayTake, pictures
    <2>3. Lanes' = Lanes
      BY <2>1 DEF Lanes
    <2>4. \A k \in Lanes' : StandsStill(k)'
      BY <2>1, <2>3, NobodyTakesStill
    <2> QED  BY <1>2, <2>1, <2>2, <2>4 DEF Still
  <1>7. CASE TakeSound \/ SubmitSound \/ SoundWaits \/ TakeSoundEnd \/ SoundEnds \/ SoundLeaves
             \/ Tick
    <2>1. UNCHANGED <<state, control, mode, waiting>> /\ asked' \subseteq asked
      BY <1>7 DEF TakeSound, SubmitSound, SoundWaits, TakeSoundEnd, SoundEnds, SoundLeaves, Tick,
                  lanes, pictures
    <2>2. sound'.here => sound.here /\ asked' = asked
      <3>1. CASE SoundLeaves
        BY <3>1 DEF SoundLeaves
      <3>2. CASE ~SoundLeaves
        <4>1. asked' = asked
          BY <1>7, <3>2 DEF TakeSound, SubmitSound, SoundWaits, TakeSoundEnd, SoundEnds, Tick, lanes
        <4>2. sound' = sound \/ (TakeSound /\ sound.here)
          BY <1>7, <3>2 DEF TakeSound, SubmitSound, SoundWaits, TakeSoundEnd, SoundEnds, Tick
        <4> QED  BY <4>1, <4>2
      <3> QED  BY <3>1, <3>2
    <2>3. \A k \in Lanes' : StandsStill(k)'
      <3>1. Lanes' \subseteq Lanes /\ \A k \in Lanes' : k \in asked => k \in asked'
        BY <1>7, <2>2 DEF Lanes, TakeSound, SubmitSound, SoundWaits, TakeSoundEnd, SoundEnds,
                          SoundLeaves, Tick, lanes
      <3> QED  BY <2>1, <3>1
               DEF Still, StandsStill, control, Idle, Stage, Pauses, Prerolls, ToldTo
    <2>4. /\ device'.paused = device.paused
          /\ device'.running => device.running \/ ~device.paused
      <3>1. \/ device' = device
            \/ device' = [device EXCEPT !.running = FALSE]
            \/ device' = [device EXCEPT !.running = TRUE] /\ ~device.paused
        BY <1>7 DEF TakeSound, SubmitSound, SoundWaits, TakeSoundEnd, SoundEnds, SoundLeaves, Tick
      <3> QED  BY <3>1 DEF Inv, TypeOK, SoundTyped
    <2> QED  BY <1>2, <2>1, <2>2, <2>3, <2>4 DEF Still
  <1> QED  BY <1>1, <1>3, <1>4, <1>5, <1>6, <1>7
           DEF Next, SourceLane, PictureLane, SoundLane

\* A paused seek goes from its flush to its preroll to the pause that ends it.
LEMMA SeeksKeeps ==
    ASSUME Inv, Seeks, Next
    PROVE  Seeks'
  <1> USE DEF Landing, Seeks
  <1>1. call \in CallRecords /\ Staged
    BY DEF Inv, TypeOK, CallsTyped
  <1>2. CASE Asks
    <2>1. CASE Pause \/ Resume \/ Step
      BY <2>1 DEF Pause, Resume, Step, Begins, NoCall
    <2>2. ASSUME NEW t \in Targets, NEW accurate \in BOOLEAN, Seek(t, accurate) PROVE Seeks'
      <3>1. call'.then = "flush" /\ (paused => call'.stage = "flush") /\ paused' = paused
        BY <2>2 DEF Seek, Begins, NoCall
      <3> QED  BY <3>1 DEF Stage
    <2> QED  BY <1>2, <2>1, <2>2 DEF Asks
  <1>3. CASE Says \/ Sends \/ Interrupts
    BY <1>1, <1>3 DEF Says, Sends, Interrupts, Stage, CallRecords
  <1>4. CASE Repositions
    BY <1>1, <1>4 DEF Repositions, GoesTo, Following, Stage, CallRecords
  <1>5. CASE LetsGo
    BY <1>5 DEF LetsGo
  <1>6. CASE Prerolled
    BY <1>1, <1>6 DEF Prerolled, Prerolls, GoesTo, Following, Stage, CallRecords
  <1>7. CASE Settles
    <2>1. UNCHANGED <<paused, stepped>>
      BY <1>7 DEF Settles
    <2>2. CASE Prerolls
      BY <1>7, <2>1, <2>2 DEF Settles, Stage
    <2>3. CASE ~Prerolls
      <3>1. GoesTo(Following) /\ ~Stage("flush")
        BY <1>7, <2>3 DEF Settles
      <3>2. Landing => Stage("ends") /\ ~call.plays
        BY <1>1, <2>3, <3>1 DEF Prerolls, Staged
      <3>3. Landing => call' = NoCall
        BY <3>1, <3>2 DEF GoesTo, Following, Stage
      <3>4. Landing' => Landing
        BY <1>1, <2>1, <3>1 DEF GoesTo, NoCall, CallRecords
      <3> QED  BY <3>3, <3>4 DEF NoCall
    <2> QED  BY <2>2, <2>3
  <1>8. CASE SourceLane \/ PictureLane \/ SoundLane \/ SoundLeaves \/ Tick
    <2>1. UNCHANGED control
      BY <1>8 DEF SourceLane, SourceTakes, Reads, PictureLane, PicturesTake, TakePicture,
                  TakePicturesEnd, ShowUnasked, Past, Interrupted, Looks, SoundLane, TakeSound,
                  SubmitSound, SoundWaits, TakeSoundEnd, SoundEnds, SoundTakes, SoundLeaves, Tick
    <2> QED  BY <2>1 DEF control, Stage
  <1> QED  BY <1>2, <1>3, <1>4, <1>5, <1>6, <1>7, <1>8 DEF Next, Carries

\* A seek's call, carried on: each stage begins where the one before it left off.
LEMMA CallLands ==
    ASSUME Inv, Seeks, Asks \/ Carries, Landing'
    PROVE  /\ Landing \/ (Stage("flush")' /\ call'.said = "no")
           /\ Landing =>
                 /\ call'.to = call.to /\ call.to \in 0 .. Pictures - 1
                 /\ \/ /\ Says \/ Sends \/ Interrupts \/ (Settles /\ Stage("preroll"))
                       /\ call'.stage = call.stage /\ UNCHANGED <<mode, source, pictures, renderer>>
                       /\ master' = master
                    \/ Repositions /\ Stage("flush") /\ Stage("preroll")'
                       /\ call'.said = "no"
                    \/ Prerolled /\ Stage("preroll") /\ Stage("ends")' /\ call'.said = "no"
  <1> USE DEF Landing
  <1>1. call \in CallRecords /\ Staged
    BY DEF Inv, TypeOK, CallsTyped
  <1>2. CASE Asks
    <2>1. CASE Pause \/ Resume \/ Step
      BY <2>1 DEF Pause, Resume, Step, Begins, NoCall
    <2>2. CASE \E t \in Targets, accurate \in BOOLEAN : Seek(t, accurate)
      <3>1. PICK t \in Targets, accurate \in BOOLEAN : Seek(t, accurate)
        BY <2>2
      <3>2. paused' = paused /\ Idle
        BY <3>1 DEF Seek, Begins
      <3>3. call'.stage = "flush" /\ call'.said = "no"
        BY <3>1, <3>2 DEF Seek, Begins, NoCall
      <3>4. ~Landing
        BY <1>1, <3>2 DEF Staged, NoCall
      <3> QED  BY <3>3, <3>4 DEF Stage
    <2> QED  BY <1>2, <2>1, <2>2 DEF Asks
  <1>3. CASE Carries
    <2>1. call'.to = call.to \/ call'.to = Nowhere
      <3>1. ASSUME NEW s, GoesTo(s) PROVE call'.to = call.to \/ call'.to = Nowhere
        BY <1>1, <3>1 DEF GoesTo, NoCall, CallRecords
      <3>2. CASE Says \/ Sends \/ Interrupts
        BY <1>1, <3>2 DEF Says, Sends, Interrupts, CallRecords
      <3>3. CASE Repositions \/ Prerolled
        BY <3>1, <3>3 DEF Repositions, Prerolled
      <3>4. CASE LetsGo
        BY <3>1, <3>4 DEF LetsGo
      <3>5. CASE Settles
        BY <3>1, <3>5 DEF Settles
      <3> QED  BY <1>3, <3>2, <3>3, <3>4, <3>5 DEF Carries
    <2>2. paused' = paused /\ (stepped' = stepped \/ stepped')
      BY <1>3 DEF Carries, Says, Sends, Interrupts, Repositions, LetsGo, Settles, Prerolled
    <2>3. Landing /\ call'.to = call.to
      BY <2>1, <2>2
    <2>4. /\ call.then = "flush" /\ (Stage("flush") \/ Stage("preroll") \/ Stage("ends"))
          /\ ~call.plays /\ call.to \in 0 .. Pictures - 1
      BY <1>1, <2>3 DEF Seeks, Staged
    <2>5. CASE Says \/ Sends \/ Interrupts
      <3>1. call'.stage = call.stage /\ UNCHANGED <<mode, source, pictures, renderer>>
            /\ master' = master
        BY <1>1, <2>5 DEF Says, Sends, Interrupts, CallRecords, lanes, media
      <3> QED  BY <2>3, <2>4, <2>5, <3>1
    <2>6. CASE Repositions
      <3>1. Stage("flush") /\ call'.stage = "preroll" /\ call'.said = "no"
        BY <1>1, <2>6 DEF Repositions, GoesTo, Following, Stage, CallRecords
      <3> QED  BY <2>3, <2>4, <2>6, <3>1 DEF Stage
    <2>7. CASE LetsGo
      BY <2>4, <2>7 DEF LetsGo, Stage
    <2>8. CASE Prerolled
      <3>1. Stage("preroll") /\ call'.stage = "ends" /\ call'.said = "no"
        BY <1>1, <2>4, <2>8 DEF Prerolled, Prerolls, GoesTo, Following, Stage, CallRecords
      <3> QED  BY <2>3, <2>4, <2>8, <3>1 DEF Stage
    <2>9. CASE Settles
      <3>1. CASE Prerolls
        <4>1. UNCHANGED <<call, mode, source, pictures, renderer, master>>
          BY <2>9, <3>1 DEF Settles, lanes, media
        <4>2. Stage("preroll")
          BY <2>4, <3>1 DEF Prerolls, Stage
        <4> QED  BY <2>3, <2>4, <2>9, <4>1, <4>2
      <3>2. CASE ~Prerolls
        <4>1. GoesTo(Following) /\ Stage("ends")
          BY <2>4, <2>9, <3>2 DEF Settles, Prerolls
        <4>2. call' = NoCall
          BY <2>4, <4>1 DEF GoesTo, Following, Stage
        <4> QED  BY <4>2 DEF NoCall
      <3> QED  BY <3>1, <3>2
    <2> QED  BY <1>3, <2>5, <2>6, <2>7, <2>8, <2>9 DEF Carries
  <1> QED  BY <1>2, <1>3

\* The seek is said, sent and let out with its ends as they are: a preroll has
\* them begin without its sample.
LEMMA SaidToEnds ==
    ASSUME Inv, Says \/ Sends \/ Interrupts \/ (Settles /\ Stage("preroll")),
           NEW l \in {"pictures", "sound"}, l \in Lanes
    PROVE  /\ ToldTo(l)' <=> ToldTo(l)
           /\ Stage("ends") => got' = got
           /\ Stage("preroll") /\ call.said = "no" => ~Has(l)'
           /\ Stage("preroll") /\ call.said # "no" => (Has(l)' <=> Has(l)) /\ (Lacks(l)' <=> Lacks(l))
  <1>1. call \in CallRecords
    BY DEF Inv, TypeOK, CallsTyped
  <1>2. CASE Says
    <2>1. /\ call.said = "no" /\ call'.said = "said"
          /\ got' = IF Prerolls THEN {} ELSE got
      BY <1>1, <1>2 DEF Says, CallRecords
    <2> QED  BY <2>1 DEF ToldTo, Has, Lacks, Prerolls, Stage
  <1>3. CASE Sends
    <2>1. call.said = "said" /\ call'.said = "sent" /\ asked' = Lanes /\ got' = got
      BY <1>1, <1>3 DEF Sends, CallRecords
    <2> QED  BY <2>1 DEF ToldTo, Has, Lacks
  <1>4. CASE Interrupts
    <2>1. call.said = "sent" /\ call'.said = "out" /\ asked' = asked /\ got' = got
      BY <1>1, <1>4 DEF Interrupts, CallRecords, lanes
    <2> QED  BY <2>1 DEF ToldTo, Has, Lacks
  <1>5. CASE Settles /\ Stage("preroll")
    <2>1. UNCHANGED <<call, asked, got>>
      BY <1>5 DEF Settles, Prerolls, lanes
    <2> QED  BY <1>5, <2>1 DEF ToldTo, Has, Lacks, Settles, Answered, Stage
  <1> QED  BY <1>2, <1>3, <1>4, <1>5

\* The picture: carried on by the call.
LEMMA CallPictureLands ==
    ASSUME Inv, Still, Seeks, PictureLands, Asks \/ Carries
    PROVE  PictureLands'
  <1> SUFFICES ASSUME Landing'
               PROVE  PictureLands'
    BY DEF PictureLands
  <1>1. CASE ~Landing
    <2>1. Stage("flush")' /\ call'.said = "no"
      BY <1>1, CallLands
    <2> QED  BY <2>1 DEF PictureLands, ToldTo, Stage
  <1>2. CASE Landing
    <2>0. call'.to = call.to /\ call.to \in 0 .. Pictures - 1 /\ "pictures" \in Lanes
      BY <1>2, CallLands, LanesAre
    <2>1. CASE /\ Says \/ Sends \/ Interrupts \/ (Settles /\ Stage("preroll"))
               /\ call'.stage = call.stage /\ UNCHANGED <<mode, source, pictures, renderer>>
      <3>1. /\ ToldTo("pictures")' => ToldTo("pictures")
            /\ Stage("ends") => got' = got
            /\ Stage("preroll") /\ call.said = "no" => ~Has("pictures")'
            /\ Stage("preroll") /\ call.said # "no" =>
                  (Has("pictures")' <=> Has("pictures")) /\ (Lacks("pictures")' <=> Lacks("pictures"))
        BY <2>0, <2>1, SaidToEnds
      <3>2. /\ Cleared' <=> Cleared
            /\ Showing' <=> Showing
            /\ Shown' <=> Shown
            /\ nextPicture' = nextPicture /\ mode' = mode
        BY <2>0, <2>1 DEF Cleared, Showing, Shown, pictures
      <3>3. call.said = "no" => ~Lacks("pictures") /\ ~Has("pictures")
        BY DEF Lacks, Has
      <3> QED  BY <1>2, <2>0, <2>1, <3>1, <3>2, <3>3 DEF PictureLands, Stage
    <2>2. CASE Repositions /\ Stage("flush") /\ Stage("preroll")' /\ call'.said = "no"
      <3>1. ToldTo("pictures")
        BY <2>2 DEF Repositions, Answered, ToldTo
      <3>2. Cleared
        BY <1>2, <2>2, <3>1 DEF PictureLands
      <3>3. Cleared' /\ nextPicture' = call'.to /\ ~Has("pictures")'
        BY <2>0, <2>2, <3>2 DEF Repositions, Cleared, Has
      <3> QED  BY <2>2, <3>3 DEF PictureLands, Stage
    <2>3. CASE Prerolled /\ Stage("preroll") /\ Stage("ends")' /\ call'.said = "no"
      <3>1. "pictures" \in got
        BY <2>3 DEF Prerolled, Awaited, Lanes, Threads
      <3>2. Shown
        BY <1>2, <2>3, <3>1 DEF PictureLands, Lacks, Has, Prerolled, Answered
      <3>3. Shown' /\ "pictures" \in got'
        BY <2>0, <2>3, <3>1, <3>2 DEF Prerolled, Shown, pictures, lanes
      <3> QED  BY <2>3, <3>3 DEF PictureLands, Stage
    <2> QED  BY <1>2, <2>1, <2>2, <2>3, CallLands
  <1> QED  BY <1>1, <1>2

\* And by the synchronizer, which is handed one.
LEMMA PictureLandsKeeps ==
    ASSUME Inv, Still, Seeks, PictureLands, Next
    PROVE  PictureLands'
  <1>1. CASE Asks \/ Carries
    BY <1>1, CallPictureLands
  <1>2. ASSUME UNCHANGED <<control, pictures>>, ~ToldTo("pictures") => ~ToldTo("pictures")',
               mode'["pictures"] = mode["pictures"],
               "pictures" \in got' <=> "pictures" \in got
        PROVE  PictureLands'
    BY <1>2 DEF PictureLands, Landing, Stage, control, pictures, Cleared, Showing, Shown, Has,
                Lacks
  <1>3. ASSUME NEW l \in Threads, Takes(l), l # "pictures"
        PROVE  /\ ~ToldTo("pictures") /\ UNCHANGED control => ~ToldTo("pictures")'
               /\ mode'["pictures"] = mode["pictures"]
    <2>1. mode \in [Threads -> {"play", "hold", "preroll"}] /\ "pictures" \in Threads
      BY DEF Inv, TypeOK, LanesTyped, Threads
    <2> QED  BY <1>3, <2>1 DEF Takes, ToldTo, control
  <1>4. CASE SourceTakes \/ SoundTakes
    <2>1. UNCHANGED <<control, pictures, got>>
      BY <1>4 DEF SourceTakes, SoundTakes
    <2>2. PICK l \in Threads : Takes(l) /\ l # "pictures"
      BY <1>4 DEF SourceTakes, SoundTakes, Threads
    <2> QED  BY <1>2, <1>3, <2>1, <2>2
  <1>5. CASE Reads \/ TakeSound \/ SubmitSound \/ SoundWaits \/ TakeSoundEnd \/ SoundEnds
             \/ SoundLeaves \/ Tick
    <2>1. UNCHANGED <<control, pictures, mode>>
      BY <1>5 DEF Reads, TakeSound, SubmitSound, SoundWaits, TakeSoundEnd, SoundEnds, SoundLeaves,
                  Tick, lanes
    <2>2. "pictures" \in asked' <=> "pictures" \in asked
      BY <1>5 DEF Reads, TakeSound, SubmitSound, SoundWaits, TakeSoundEnd, SoundEnds, SoundLeaves,
                  Tick, lanes
    <2>3. "pictures" \in got' <=> "pictures" \in got
      BY <1>5 DEF Reads, TakeSound, SubmitSound, SoundWaits, TakeSoundEnd, SoundEnds, SoundLeaves,
                  Tick, lanes, Took
    <2> QED  BY <1>2, <2>1, <2>2, <2>3 DEF ToldTo, control
  <1>6. CASE PictureLane
    <2> SUFFICES ASSUME Landing' PROVE PictureLands'
      BY DEF PictureLands
    <2>1. UNCHANGED <<state, control, source>>
      BY <1>6 DEF PictureLane, PicturesTake, TakePicture, TakePicturesEnd, ShowUnasked, Past,
                  Interrupted, Looks
    <2>2. /\ Landing /\ call' = call /\ phase' = phase
          /\ \A s \in Stages : Stage(s)' <=> Stage(s)
      BY <2>1 DEF control, state, Landing, Stage
    <2>3. "pictures" \in Lanes /\ StandsStill("pictures")
      BY LanesAre DEF Still
    <2>4. /\ call.to \in 0 .. Pictures - 1
          /\ Stage("flush") \/ Stage("preroll") \/ Stage("ends")
      BY <2>2 DEF Seeks, Inv, Staged
    <2>5. CASE PicturesTake
      <3>1. /\ Takes("pictures") /\ ~waiting /\ waiting' = waiting /\ nextPicture' = nextPicture
            /\ held' = (IF Stage("flush") THEN <<>> ELSE held)
            /\ shown' = (IF Stage("flush") THEN Nowhere ELSE shown)
            /\ UNCHANGED <<got, sound>>
        BY <2>5 DEF PicturesTake, renderer
      <3>2. Pauses => mode'["pictures"] = "hold"
        BY <2>1, <2>3, <3>1, TakesStill
      <3>3. CASE Stage("flush")
        <4>1. Cleared'
          BY <3>1, <3>3 DEF Cleared
        <4> QED  BY <2>2, <3>3, <4>1 DEF PictureLands, Stage
      <3>4. CASE ~Stage("flush")
        <4>1. (Cleared' <=> Cleared) /\ (Showing' <=> Showing) /\ (Shown' <=> Shown)
          BY <2>2, <3>1, <3>4 DEF Cleared, Showing, Shown
        <4>2. Stage("ends") => Pauses
          BY DEF Pauses
        <4> QED  BY <2>2, <3>1, <3>2, <3>4, <4>1, <4>2 DEF PictureLands, Stage, Has, Lacks
      <3> QED  BY <3>3, <3>4
    <2>6. CASE TakePicture \/ TakePicturesEnd
      <3>1. /\ ~waiting /\ MayTake("pictures") /\ UNCHANGED <<asked, mode, shown>>
        BY <2>6 DEF TakePicture, TakePicturesEnd, lanes
      <3>2. ~Stage("flush") /\ ~Stage("ends")
        BY <2>2, <2>3, <3>1 DEF MayTake, StandsStill, PictureLands, Stage
      <3>3. Stage("preroll") /\ mode["pictures"] = "preroll" /\ "pictures" \notin got
        BY <2>3, <2>4, <3>1, <3>2 DEF MayTake, StandsStill, Prerolls
      <3>4. call.said # "no"
        BY <2>3, <3>3 DEF StandsStill, Prerolls
      <3>5. Cleared /\ nextPicture = call.to
        BY <2>2, <3>1, <3>3 DEF PictureLands, Showing, Has
      <3>6. nextPicture < Pictures
        BY <2>4, <3>5, MediaAssumption
      <3>7. TakePicture
        BY <2>6, <3>6, MediaAssumption DEF TakePicturesEnd
      <3>8. held' = <<call.to>> /\ nextPicture' = call.to + 1 /\ waiting' /\ got' = got
        BY <3>5, <3>7 DEF TakePicture, Cleared, lanes
      <3>9. Showing' /\ Lacks("pictures")'
        BY <2>2, <3>3, <3>4, <3>8 DEF Showing, Lacks
      <3> QED  BY <2>2, <3>2, <3>3, <3>9 DEF PictureLands, Stage
    <2>7. CASE ShowUnasked \/ Interrupted \/ Looks
      <3>1. waiting /\ UNCHANGED <<asked, mode, nextPicture>>
        BY <2>7 DEF ShowUnasked, Interrupted, Looks, Past, lanes, pictures
      <3>2. mode["pictures"] # "hold"
        BY <3>1 DEF Still
      <3>3. Stage("preroll") /\ ~Stage("flush") /\ ~Stage("ends")
        BY <2>2, <2>3, <2>4, <3>1, <3>2 DEF StandsStill, PictureLands, Shown, Stage
      <3>4. Showing /\ Lacks("pictures")
        BY <2>2, <3>1, <3>3 DEF PictureLands, Cleared, Shown
      <3>5. phase = "prerolling"
        BY <3>3, <3>4 DEF Still, Prerolls, Lacks
      <3>6. Past(TRUE)
        BY <2>7, <3>5 DEF ShowUnasked, Interrupted, Looks
      <3>7. /\ Tail(held) = <<>> /\ Head(held) = call.to
        BY <3>4 DEF Showing
      <3>8. held' = <<>> /\ shown' = call.to /\ ~waiting' /\ got' = got \cup {"pictures"}
        BY <3>5, <3>6, <3>7 DEF Past, Took
      <3>9. Shown' /\ Has("pictures")'
        BY <2>2, <3>1, <3>4, <3>8 DEF Shown, Showing, Has, Lacks
      <3> QED  BY <2>2, <3>3, <3>9 DEF PictureLands, Stage
    <2> QED  BY <1>6, <2>5, <2>6, <2>7 DEF PictureLane
  <1> QED  BY <1>1, <1>4, <1>5, <1>6 DEF Next, SourceLane, SoundLane

\* The sound: carried on by the call.  The flush has emptied the device, and the
\* position is let go of as the source moves.
LEMMA CallSoundLands ==
    ASSUME Inv, Still, Seeks, SoundLands, Asks \/ Carries
    PROVE  SoundLands'
  <1> SUFFICES ASSUME Landing', sound'.here, call'.to < Sounds
               PROVE  SoundLands'
    BY DEF SoundLands
  <1>1. CASE ~Landing
    <2>1. Stage("flush")' /\ call'.said = "no"
      BY <1>1, CallLands
    <2> QED  BY <2>1 DEF SoundLands, Stage
  <1>2. CASE Landing
    <2>1. UNCHANGED <<sound, place, timeline>>
      BY DEF Asks, Pause, Resume, Seek, Step, Begins, Carries, Says, Sends, Interrupts,
             Repositions, LetsGo, Settles, Prerolled, renderer
    <2>2. /\ call'.to = call.to /\ call.to \in 0 .. Pictures - 1 /\ call.to < Sounds
          /\ sound.here /\ "sound" \in Lanes
      BY <1>2, <2>1, CallLands, LanesAre
    <2>3. (HasTimeline' <=> HasTimeline) /\ (HandedTo' <=> HandedTo)
      BY <2>1, <2>2 DEF HasTimeline, HandedTo
    <2>4. CASE /\ Says \/ Sends \/ Interrupts \/ (Settles /\ Stage("preroll"))
               /\ call'.stage = call.stage /\ UNCHANGED <<mode, source, pictures, renderer>>
               /\ master' = master
      <3>1. /\ ToldTo("sound")' <=> ToldTo("sound")
            /\ Stage("ends") => got' = got
            /\ Stage("preroll") /\ call.said = "no" => ~Has("sound")'
            /\ Stage("preroll") /\ call.said # "no" =>
                  (Has("sound")' <=> Has("sound")) /\ (Lacks("sound")' <=> Lacks("sound"))
        BY <2>2, <2>4, SaidToEnds
      <3>2. call.said = "no" => ~Lacks("sound") /\ ~Has("sound")
        BY DEF Lacks, Has
      <3>3. (Unset' <=> Unset) /\ nextSound' = nextSound /\ master' = master /\ mode' = mode
        BY <2>4 DEF Unset, renderer
      <3>4. CASE Stage("preroll")
        <4>1. ~Stage("ends")' /\ Stage("preroll")'
          BY <2>4, <3>4 DEF Stage
        <4> QED  BY <1>2, <2>1, <2>2, <2>3, <3>1, <3>2, <3>3, <3>4, <4>1 DEF SoundLands
      <3>5. CASE Stage("ends")
        <4>1. ~Stage("preroll")' /\ Stage("ends")' /\ ~Stage("preroll")
          BY <2>4, <3>5 DEF Stage
        <4>2. HandedTo' /\ (mode'["sound"] = "hold" \/ "sound" \in got')
          BY <1>2, <2>2, <2>3, <3>1, <3>3, <3>5 DEF SoundLands
        <4>3. IF ToldTo("sound")' THEN master' = Audio(call'.to, call'.to + 1, FALSE) ELSE Unset'
          BY <1>2, <2>2, <3>1, <3>3, <3>5 DEF SoundLands
        <4> QED  BY <4>1, <4>2, <4>3 DEF SoundLands
      <3>6. CASE ~Stage("preroll") /\ ~Stage("ends")
        BY <2>4, <3>6 DEF SoundLands, Stage
      <3> QED  BY <3>4, <3>5, <3>6
    <2>5. CASE Repositions /\ Stage("flush") /\ Stage("preroll")' /\ call'.said = "no"
      <3>1. ~HasTimeline /\ place = "idle"
        BY <2>2, <2>5 DEF Repositions, Answered, Inv, Holds, Told
      <3>2. nextSound' = call.to
        BY <2>2, <2>5, MediaAssumption DEF Repositions, Earlier
      <3>3. Unset'
        BY <2>5 DEF Repositions, ResetForSeek, Priming, Unavailable, Unset
      <3>4. ~Stage("ends")' /\ ~Has("sound")'
        BY <2>5 DEF Stage, Has
      <3> QED  BY <2>1, <2>2, <2>3, <3>1, <3>2, <3>3, <3>4 DEF SoundLands
    <2>6. CASE Prerolled /\ Stage("preroll") /\ Stage("ends")' /\ call'.said = "no"
      <3>1. "sound" \in got
        BY <2>2, <2>6 DEF Prerolled, Awaited, Lanes, Threads, Stage
      <3>2. HandedTo /\ Unset
        BY <1>2, <2>2, <2>6, <3>1 DEF SoundLands, Lacks, Has, Prerolled, Answered
      <3>3. Unset' /\ "sound" \in got'
        BY <2>6, <3>1, <3>2 DEF Prerolled, Unset, media, lanes
      <3>4. ~Stage("preroll")' /\ ~ToldTo("sound")'
        BY <2>6 DEF Stage, ToldTo
      <3> QED  BY <2>3, <3>2, <3>3, <3>4 DEF SoundLands
    <2> QED  BY <1>2, <2>4, <2>5, <2>6, CallLands
  <1> QED  BY <1>1, <1>2

\* And by the renderer, which is handed one frame and plays none of it.
LEMMA SoundLandsKeeps ==
    ASSUME Inv, Still, Seeks, PictureLands, SoundLands, Next
    PROVE  SoundLands'
  <1>1. CASE Asks \/ Carries
    BY <1>1, CallSoundLands
  <1>2. CASE SoundLeaves
    BY <1>2 DEF SoundLeaves, SoundLands
  <1>3. CASE SourceLane \/ PictureLane \/ SoundLane \/ Tick
    <2> SUFFICES ASSUME Landing', sound'.here, call'.to < Sounds
                 PROVE  SoundLands'
      BY DEF SoundLands
    <2>1. UNCHANGED <<state, control>>
      BY <1>3 DEF SourceLane, SourceTakes, Reads, PictureLane, PicturesTake, TakePicture,
                  TakePicturesEnd, ShowUnasked, Past, Interrupted, Looks, SoundLane, TakeSound,
                  SubmitSound, SoundWaits, TakeSoundEnd, SoundEnds, SoundTakes, Tick
    <2>2. sound.here
      BY <1>3 DEF SourceLane, SourceTakes, Reads, PictureLane, PicturesTake, TakePicture,
                  TakePicturesEnd, ShowUnasked, Past, Interrupted, Looks, SoundLane, TakeSound,
                  SubmitSound, SoundWaits, TakeSoundEnd, SoundEnds, SoundTakes, Tick, renderer
    <2>3. /\ Landing /\ call' = call /\ phase' = phase /\ call.to < Sounds
          /\ \A s \in Stages : Stage(s)' <=> Stage(s)
      BY <2>1 DEF control, state, Landing, Stage
    <2>4. /\ "sound" \in Lanes /\ StandsStill("sound") /\ "sound" \in Threads
          /\ mode["sound"] # "play" => device.paused /\ ~device.running
      BY <2>2, LanesAre DEF Still
    <2>5. /\ call.to \in 0 .. Pictures - 1
          /\ Stage("flush") \/ Stage("preroll") \/ Stage("ends")
          /\ {"flush", "preroll", "ends"} \subseteq Stages
      BY <2>3 DEF Seeks, Inv, Staged, Stages
    <2>6. CASE Stage("flush")
      BY <2>3, <2>6 DEF SoundLands, Stage
    <2>7. CASE Stage("preroll") \/ Stage("ends")
      <3>1. mode["sound"] # "play" /\ device.paused /\ ~device.running /\ ~Stage("flush")
            /\ ~Stage("resume")
        BY <2>4, <2>7 DEF StandsStill, Prerolls, Stage
      <3>2. place \in {"idle", "submitting"} /\ (place = "submitting" => Stage("preroll"))
        BY <2>2, <2>3, <2>7 DEF SoundLands, HandedTo, Stage
      <3>3. ASSUME UNCHANGED <<renderer, master>>,
                   ToldTo("sound")' <=> ToldTo("sound"), mode'["sound"] = mode["sound"],
                   "sound" \in got' <=> "sound" \in got
            PROVE  SoundLands'
        BY <2>2, <2>3, <3>3 DEF SoundLands, Stage, renderer, HandedTo, HasTimeline, Unset, Has,
                                Lacks
      <3>4. ASSUME NEW l \in Threads, Takes(l), l # "sound"
            PROVE  /\ ToldTo("sound")' <=> ToldTo("sound")
                   /\ mode'["sound"] = mode["sound"]
        <4>1. mode \in [Threads -> {"play", "hold", "preroll"}]
          BY DEF Inv, TypeOK, LanesTyped
        <4> QED  BY <2>3, <2>4, <3>4, <4>1 DEF Takes, ToldTo
      <3>5. CASE SourceTakes \/ PicturesTake
        <4>1. UNCHANGED <<renderer, master, got>>
          BY <3>5 DEF SourceTakes, PicturesTake, media
        <4>2. PICK l \in Threads : Takes(l) /\ l # "sound"
          BY <3>5 DEF SourceTakes, PicturesTake, Threads
        <4> QED  BY <3>3, <3>4, <4>1, <4>2
      <3>6. CASE Reads \/ TakePicture \/ TakePicturesEnd \/ ShowUnasked \/ Interrupted
        <4>1. UNCHANGED <<renderer, master, asked, mode>>
          BY <3>6 DEF Reads, TakePicture, TakePicturesEnd, ShowUnasked, Past, Interrupted, media,
                      lanes
        <4>2. got' \in {got, got \cup {"pictures"}}
          BY <3>6 DEF Reads, TakePicture, TakePicturesEnd, ShowUnasked, Past, Interrupted, Took,
                      lanes
        <4>3. "sound" \in got' <=> "sound" \in got
          BY <4>2
        <4> QED  BY <2>3, <3>3, <4>1, <4>3 DEF ToldTo
      <3>7. CASE Looks
        <4>1. waiting /\ phase # "prerolling"
          BY <3>7 DEF Looks
        <4>2. CASE Stage("preroll")
          <5>1. Lacks("pictures")
            BY <2>3, <4>1, <4>2 DEF PictureLands, Cleared, Shown
          <5> QED  BY <4>1, <4>2, <5>1 DEF Still, Prerolls, Lacks
        <4>3. CASE Stage("ends")
          BY <2>3, <4>1, <4>3 DEF PictureLands, Shown
        <4> QED  BY <2>7, <4>2, <4>3
      <3>8. CASE TakeSound
        <4>1. place = "idle" /\ MayTake("sound") /\ nextSound < Sounds
          BY <3>8 DEF TakeSound
        <4>2. mode["sound"] = "preroll" /\ "sound" \notin got
          BY <3>1, <4>1 DEF MayTake
        <4>3. Stage("preroll") /\ ~Stage("ends") /\ call.said # "no"
          BY <2>2, <2>3, <2>4, <2>7, <4>2 DEF SoundLands, Stage, StandsStill, Prerolls
        <4>4. Unset /\ ~HasTimeline /\ nextSound = call.to /\ Lacks("sound")
          BY <2>2, <2>3, <4>1, <4>2, <4>3 DEF SoundLands, Has, Lacks
        <4>5. ~Silenced
          BY <2>3 DEF Silenced, Landing
        <4> DEFINE m == IF sound.registered THEN master ELSE RegisteredBy(master)
        <4>6. m.kind \in {"unavailable", "priming"} /\ m.at = Nowhere
          BY <4>4 DEF Unset, RegisteredBy, Priming
        <4>7. ~(nextSound < PrimingTarget(m))
          <5>1. PrimingTarget(m) = Nowhere
            BY <4>6 DEF PrimingTarget
          <5> QED  BY <2>5, <4>4, <5>1 DEF Nowhere
        <4>8. /\ master' = m /\ place' = "submitting" /\ got' = got
              /\ nextSound' = nextSound + 1 /\ timeline' = timeline
          BY <3>8, <4>5, <4>7 DEF TakeSound
        <4>9. Unset' /\ ~HasTimeline' /\ Lacks("sound")'
          BY <2>3, <4>4, <4>6, <4>8 DEF Unset, HasTimeline, Lacks
        <4> HIDE DEF m
        <4> QED  BY <2>3, <4>3, <4>4, <4>8, <4>9 DEF SoundLands, Stage
      <3>9. CASE SubmitSound
        <4>1. place = "submitting"
          BY <3>9 DEF SubmitSound
        <4>2. Stage("preroll") /\ ~Stage("ends")
          BY <3>2, <4>1 DEF Stage
        <4>3. Unset /\ ~HasTimeline /\ nextSound = call.to + 1 /\ Lacks("sound")
          BY <2>2, <2>3, <4>1, <4>2 DEF SoundLands, HandedTo
        <4>4. timeline' = [played |-> nextSound - 1, handed |-> nextSound - 1 + 1]
          BY <3>9, <4>3 DEF SubmitSound
        <4>5. HandedTo'
          <5>1. nextSound - 1 = call.to /\ nextSound - 1 + 1 = call.to + 1
            BY <2>5, <4>3
          <5> QED  BY <2>3, <3>9, <4>4, <5>1 DEF HandedTo, SubmitSound
        <4>6. Unset'
          BY <3>1, <3>9, <4>3 DEF SubmitSound, Unset, media
        <4>7. phase = "prerolling"
          BY <4>2, <4>3 DEF Still, Prerolls, Lacks
        <4>8. Has("sound")'
          BY <2>3, <3>9, <4>3, <4>7 DEF SubmitSound, Took, Has, Lacks
        <4> QED  BY <2>3, <4>2, <4>5, <4>6, <4>8 DEF SoundLands, Stage
      <3>10. CASE SoundWaits \/ SoundEnds
        BY <3>1, <3>2, <3>10 DEF SoundWaits, SoundEnds
      <3>11. CASE TakeSoundEnd
        <4>1. place = "idle" /\ MayTake("sound") /\ nextSound = Sounds
          BY <3>11 DEF TakeSoundEnd
        <4>2. mode["sound"] = "preroll" /\ "sound" \notin got
          BY <3>1, <4>1 DEF MayTake
        <4>3. Stage("preroll")
          BY <2>2, <2>3, <2>7, <4>2 DEF SoundLands
        <4>4. nextSound = call.to
          BY <2>2, <2>3, <4>1, <4>2, <4>3 DEF SoundLands, Has
        <4> QED  BY <2>3, <2>5, <4>1, <4>4, MediaAssumption
      <3>12. CASE SoundTakes
        <4>1. Takes("sound") /\ UNCHANGED <<control, got, nextSound, place, sound>>
          BY <3>12 DEF SoundTakes
        <4>2. CASE Stage("preroll")
          <5>1. ~Pauses /\ ~Stage("ends")
            BY <4>2 DEF Pauses, Stage
          <5>2. UNCHANGED <<master, timeline>>
            BY <3>1, <3>12, <5>1 DEF SoundTakes, media
          <5> QED  BY <2>2, <2>3, <4>1, <4>2, <5>1, <5>2
                   DEF SoundLands, Stage, HandedTo, HasTimeline, Unset, Has, Lacks
        <4>3. CASE Stage("ends")
          <5>1. Pauses /\ ~Stage("preroll")
            BY <4>3 DEF Pauses, Stage
          <5>2. Publishes(timeline, FALSE) /\ timeline' = timeline
            BY <3>12, <5>1 DEF SoundTakes, Pauses, Stage
          <5>3. ~ToldTo("sound")
            BY <4>1 DEF Takes, ToldTo
          <5>4. Unset /\ HandedTo
            BY <2>2, <2>3, <4>3, <5>3 DEF SoundLands
          <5>5. /\ timeline # NoTimeline
                /\ timeline.played = call.to /\ timeline.handed = call.to + 1
            BY <2>5, <5>4 DEF HandedTo, NoTimeline, Nowhere
          <5>6. master' = Published(master, call.to, call.to + 1, FALSE)
            BY <5>2, <5>5 DEF Publishes
          <5>7. master' = Audio(call.to, call.to + 1, FALSE)
            <6>1. ~(master.kind = "priming" /\ master.at # Nowhere)
              BY <5>4 DEF Unset
            <6>2. master' = Audio(call.to, Later(call.to + 1, call.to), FALSE)
              BY <5>6, <6>1 DEF Published
            <6>3. Later(call.to + 1, call.to) = call.to + 1
              BY <2>5 DEF Later
            <6> QED  BY <6>2, <6>3
          <5>8. mode'["sound"] = "hold"
            BY <2>4, <4>1, <5>1, TakesStill
          <5>9. ToldTo("sound")' /\ HandedTo'
            BY <2>3, <4>1, <5>2, <5>4 DEF ToldTo, HandedTo, Takes, Inv, Staged, TypeOK,
                                          CallsTyped, CallRecords
          <5> QED  BY <2>3, <4>3, <5>1, <5>7, <5>8, <5>9 DEF SoundLands, Stage
        <4> QED  BY <2>7, <4>2, <4>3
      <3>13. CASE Tick
        <4>1. /\ UNCHANGED <<asked, mode, got, nextSound, place, sound>> /\ timeline' = timeline
              /\ master' = IF clock = "running" THEN Projected(master) ELSE master
          BY <3>1, <3>13 DEF Tick, Plays, lanes
        <4>2. Unset \/ master = Audio(call.to, call.to + 1, FALSE)
          BY <2>2, <2>3, <2>7 DEF SoundLands
        <4>3. master' = master
          <5>1. CASE Unset
            BY <4>1, <5>1 DEF Unset, Projected
          <5>2. CASE master = Audio(call.to, call.to + 1, FALSE)
            BY <4>1, <5>2 DEF Audio, Projected
          <5> QED  BY <4>2, <5>1, <5>2
        <4> QED  BY <2>2, <2>3, <4>1, <4>3
                 DEF SoundLands, Stage, HandedTo, HasTimeline, Unset, Has, Lacks, ToldTo
      <3> QED  BY <1>3, <3>5, <3>6, <3>7, <3>8, <3>9, <3>10, <3>11, <3>12, <3>13
               DEF SourceLane, PictureLane, SoundLane
    <2> QED  BY <2>5, <2>6, <2>7
  <1> QED  BY <1>1, <1>2, <1>3 DEF Next

\* It all holds as run() leaves the pipeline: no call is made, and what is paused
\* was paused before it began.
LEMMA InitLands == ASSUME Init PROVE Lands
  <1>1. call = NoCall /\ ~waiting /\ device = [running |-> FALSE, paused |-> paused]
        /\ mode = [l \in Threads |-> IF paused THEN "hold" ELSE "play"] /\ sound.here
        /\ paused \in BOOLEAN
    BY DEF Init
  <1>2. Idle /\ call.said = "no" /\ call.to = Nowhere
    BY <1>1 DEF Idle, Stage, NoCall
  <1>3. \A l \in Threads : mode[l] = IF paused THEN "hold" ELSE "play"
    BY <1>1
  <1>4. Still
    <2>1. \A l \in Lanes : StandsStill(l)
      BY <1>2, <1>3, LanesAre DEF StandsStill, Idle, Stage, Pauses, Prerolls, ToldTo
    <2>2. mode["sound"] # "play" => device.paused
      BY <1>1, <1>3 DEF Threads
    <2>3. ~device.running
      BY <1>1
    <2> QED  BY <1>1, <1>2, <2>1, <2>2, <2>3 DEF Still
  <1>5. ~Landing
    BY <1>2 DEF Landing
  <1> QED  BY <1>4, <1>5 DEF Lands, Seeks, PictureLands, SoundLands

\* Every step keeps it.
LEMMA LandsKeeps == ASSUME Inv, Lands, [Next]_vars PROVE Lands'
  <1>1. CASE Next
    BY <1>1, StillKeeps, SeeksKeeps, PictureLandsKeeps, SoundLandsKeeps DEF Lands
  <1>2. CASE UNCHANGED vars
    BY <1>2 DEF vars, media, state, control, lanes, source, pictures, renderer, Lands, Still,
       StandsStill, Seeks, PictureLands, SoundLands, Landing, Stage, Idle, Pauses, Prerolls,
       ToldTo, Has, Lacks, Cleared, Showing, Shown, Unset, HandedTo, HasTimeline, Lanes
  <1> QED  BY <1>1, <1>2

\* The step that ends a paused seek finds everything where it was asked to go.
LEMMA EndLands ==
    ASSUME Inv, Lands, Next, ~Idle, Idle', Landing, call.to < Sounds, sound.here
    PROVE  shown' = call.to /\ master'.at = call.to /\ timeline'.played = call.to
  <1>1. call \in CallRecords /\ Staged
    BY DEF Inv, TypeOK, CallsTyped
  <1>2. CASE Settles
    <2>1. call.said = "out" /\ asked = {} /\ UNCHANGED <<master, shown, timeline>>
      BY <1>2 DEF Settles, Answered, media, pictures, renderer
    <2>2. Stage("ends")
      <3>1. ~Stage("flush") /\ ~Prerolls
        BY <1>2 DEF Settles, Idle, Stage
      <3> QED  BY <3>1 DEF Lands, Seeks, Prerolls
    <2>3. ToldTo("sound")
      BY <2>1 DEF ToldTo
    <2>4. Shown /\ HandedTo /\ master = Audio(call.to, call.to + 1, FALSE)
      BY <2>2, <2>3 DEF Lands, PictureLands, SoundLands
    <2> QED  BY <2>1, <2>4 DEF Shown, HandedTo, Audio
  <1>3. CASE Repositions \/ Prerolled
    <2>1. Following \in {"preroll", "ends"} /\ GoesTo(Following)
      BY <1>3 DEF Repositions, Prerolled, Following, Prerolls, Stage
    <2>2. call'.stage \in {"preroll", "ends"}
      BY <1>1, <2>1 DEF GoesTo, CallRecords
    <2> QED  BY <2>2 DEF Idle, Stage
  <1>4. CASE LetsGo
    BY <1>4 DEF LetsGo, Lands, Seeks, Stage
  <1>5. CASE Says \/ Sends \/ Interrupts
    BY <1>1, <1>5 DEF Says, Sends, Interrupts, Idle, Stage, CallRecords
  <1>6. CASE Asks
    BY <1>6 DEF Asks, Pause, Resume, Seek, Step, Begins
  <1>7. CASE SourceLane \/ PictureLane \/ SoundLane \/ SoundLeaves \/ Tick
    <2>1. UNCHANGED control
      BY <1>7 DEF SourceLane, SourceTakes, Reads, PictureLane, PicturesTake, TakePicture,
                  TakePicturesEnd, ShowUnasked, Past, Interrupted, Looks, SoundLane, TakeSound,
                  SubmitSound, SoundWaits, TakeSoundEnd, SoundEnds, SoundTakes, SoundLeaves, Tick
    <2> QED  BY <2>1 DEF control, Idle, Stage
  <1> QED  BY <1>2, <1>3, <1>4, <1>5, <1>6, <1>7 DEF Next, Carries

-----------------------------------------------------------------------------
(* The theorems.                                                           *)

\* It holds as run() leaves the pipeline.
LEMMA InitIsInv == ASSUME Init PROVE Inv
  <1> USE MediaAssumption, DeviceAssumption, CallsAssumption, HorizonAssumption DEF Init
  <1>1. ~HasTimeline /\ NoTimeline \in [played : Instants, handed : Instants]
    BY DEF HasTimeline, NoTimeline, Instants, Nowhere
  <1>2. TypeOK
    <2>1. master \in Masters /\ clock \in Clocks
      BY MastersAre DEF Unavailable, Masters, Instants, Clocks, Nowhere
    <2>2. CallsTyped
      <3>1. NoCall \in CallRecords
        BY DEF CallRecords, NoCall, Stages, Instants, Nowhere
      <3>2. paused \in BOOLEAN
        OBVIOUS
      <3>3. phase \in {"playing", "paused", "prerolling"}
        OBVIOUS
      <3>4. calls \in 0 .. MaxCalls
        OBVIOUS
      <3>5. call = NoCall /\ pending = FALSE /\ stepped = FALSE
        OBVIOUS
      <3> HIDE DEF Init
      <3> QED  BY <3>1, <3>2, <3>3, <3>4, <3>5 DEF CallsTyped
    <2>3. LanesTyped
      BY DEF LanesTyped, Threads
    <2>4. PicturesTyped
      <3>1. <<>> \in Seq(0 .. Pictures - 1)
        OBVIOUS
      <3>2. 0 \in 0 .. End
        BY DEF End, Later
      <3>3. /\ 0 \in 0 .. Pictures /\ 0 \in 0 .. Pictures + 1
            /\ Nowhere \in 0 .. Pictures - 1 \cup {Nowhere}
        OBVIOUS
      <3>4. /\ read = 0 /\ showFrom = 0 /\ nextPicture = 0 /\ held = <<>> /\ waiting = FALSE
            /\ shown = Nowhere
        OBVIOUS
      <3> HIDE DEF Init
      <3> QED  BY <3>1, <3>2, <3>3, <3>4 DEF PicturesTyped
    <2>5. SoundTyped
      <3>1. NoTimeline.played <= NoTimeline.handed
        BY DEF NoTimeline, Nowhere
      <3>2. [running |-> FALSE, paused |-> paused] \in [running : BOOLEAN, paused : BOOLEAN]
        OBVIOUS
      <3>3. [here |-> TRUE, registered |-> FALSE] \in [here : BOOLEAN, registered : BOOLEAN]
        OBVIOUS
      <3> QED  BY <1>1, <3>1, <3>2, <3>3 DEF SoundTyped
    <2> QED  BY <2>1, <2>2, <2>3, <2>4, <2>5 DEF TypeOK
  <1>3. Staged
    BY DEF Staged, Stage, Idle, NoCall
  <1>4. Holds
    BY DEF Holds, Stage, Idle, NoCall, Pauses, Told, Threads
  <1>5. Renders
    BY <1>1 DEF Renders
  <1>6. Mastered
    BY <1>1 DEF Mastered, Unavailable, OfAudio
  <1> QED  BY <1>2, <1>3, <1>4, <1>5, <1>6 DEF Inv

\* Every step keeps every part of it.
LEMMA InvKeeps == ASSUME Inv, [Next]_vars PROVE Inv'
  <1>1. CASE Next
    <2>1. TypeOK /\ Staged /\ Renders
      BY DEF Inv
    <2>2. SoundTyped' /\ Staged' /\ Holds' /\ Renders'
      BY <1>1, <2>1, SoundStaysTyped, StagedKeeps, HoldsKeeps, RendersKeeps
    <2>3. master' \in Masters /\ Mastered'
      BY <1>1, <2>2, MasteredKeeps
    <2>4. clock' \in Clocks /\ CallsTyped' /\ LanesTyped' /\ PicturesTyped'
      BY <1>1, <2>1, ClockStaysTyped, CallsStayTyped, LanesStayTyped, PicturesStayTyped
    <2> QED  BY <2>2, <2>3, <2>4 DEF Inv, TypeOK
  <1>2. CASE UNCHANGED vars
    BY <1>2 DEF vars, media, state, control, lanes, source, pictures, renderer, Inv, TypeOK,
       CallsTyped, LanesTyped, PicturesTyped, SoundTyped, Lanes, End, Staged, Holds, Renders,
       Mastered, Stage, Idle, Pauses, Told, HasTimeline, OfAudio
  <1> QED  BY <1>1, <1>2

\* So it holds in every state.
LEMMA InvHolds == Spec => []Inv
  BY InitIsInv, InvKeeps, PTL DEF Spec

\* Every state the program reaches is of the types TypeOK names: above all,
\* the device has never played beyond what it was handed, nor been handed what
\* the sound does not have.
THEOREM TypeCorrect == Spec => []TypeOK
  <1>1. Inv => TypeOK
    BY DEF Inv
  <1> QED  BY <1>1, InvHolds, PTL

\* For media of any length and any calls in any order, the position is never
\* ahead of the sound while the sound defines it.
THEOREM NeverAheadOfSoundHolds == Spec => []NeverAheadOfSound
  <1>1. Inv => NeverAheadOfSound
    BY DEF Inv, Mastered, NeverAheadOfSound
  <1> QED  BY <1>1, InvHolds, PTL

\* Whoever takes the position over, and whenever, it does not go back.
THEOREM NoJumpBackHolds == Spec => NoJumpBack
  <1>1. ASSUME Inv, [Next]_vars
        PROVE  [(master.at # Nowhere /\ master'.at # Nowhere) => master'.at >= master.at]_vars
    <2>1. CASE Next
      <3>1. TypeOK /\ Staged /\ Renders
        BY <1>1 DEF Inv
      <3>2. SoundTyped' /\ Holds' /\ Renders'
        BY <1>1, <2>1, <3>1, SoundStaysTyped, HoldsKeeps, RendersKeeps
      <3> QED  BY <1>1, <2>1, <3>2, MasteredKeeps DEF Onward
    <2>2. CASE UNCHANGED vars
      BY <2>2
    <2> QED  BY <1>1, <2>1, <2>2
  <1> QED  BY <1>1, InvHolds, PTL DEF Spec, NoJumpBack

\* A paused seek within the sound returns with the picture, the position and the
\* sound where it was asked to go, whatever of them came first, for media of any
\* length and after any calls: each end is handed one sample, which the device
\* does not play, and nobody moves the position until the pause that ends it.
THEOREM SeekLandsHolds == Spec => SeekLands
  <1>1. ASSUME Inv, Lands, [Next]_vars
        PROVE  [(/\ ~Idle /\ Idle' /\ paused /\ ~stepped
                 /\ call.to # Nowhere /\ call.to < Sounds /\ sound.here)
                   => shown' = call.to /\ master'.at = call.to /\ timeline'.played = call.to]_vars
    <2>1. CASE Next
      BY <1>1, <2>1, EndLands DEF Landing
    <2>2. CASE UNCHANGED vars
      BY <2>2
    <2> QED  BY <1>1, <2>1, <2>2
  <1>2. Spec => []Lands
    BY InitLands, LandsKeeps, InvHolds, PTL DEF Spec
  <1> QED  BY <1>1, <1>2, InvHolds, PTL DEF Spec, SeekLands
=============================================================================
