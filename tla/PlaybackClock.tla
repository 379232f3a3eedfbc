---------------------------- MODULE PlaybackClock ----------------------------
(***************************************************************************)
(* A pipeline's media position: the pause-aware wall clock of              *)
(* core/timing/clock.rs, and above it the master of                        *)
(* core/timing/playback_clock.rs that says which stream defines the        *)
(* position.  Every method of the two takes a lock for as long as it       *)
(* runs, so each is an operator from the state it finds to the state it    *)
(* leaves; AvPlayback says who calls which, and when.                      *)
(*                                                                         *)
(* Time goes by in ticks.  The code keeps where the position was last said *)
(* to be and by which time of the clock, and projects it when it is asked; *)
(* here the projection is what is kept, moved on with every tick.  What is *)
(* left out is the rate, presentation delays, and the number of the        *)
(* registration: there is one renderer, which registers once.              *)
(***************************************************************************)
EXTENDS Integers

CONSTANT Horizon            \* no position beyond this one is told apart from it
ASSUME HorizonAssumption == Horizon \in Nat

Nowhere == -1
Positions == 0 .. Horizon
Instants == Positions \cup {Nowhere}

Earlier(s, t) == IF s < t THEN s ELSE t
Later(s, t) == IF s < t THEN t ELSE s

-----------------------------------------------------------------------------
(* The clock: it starts with whoever needs it first, and stands still      *)
(* while the pipeline is paused.                                           *)

Clocks == {"unset", "running", "paused"}
Started(c) == IF c = "unset" THEN "running" ELSE c
Paused(c) == IF c = "running" THEN "paused" ELSE c
Resumed(c) == IF c = "paused" THEN "running" ELSE c

-----------------------------------------------------------------------------
(* The master.  In "audio" the position goes no further than what the      *)
(* renderer has handed the device, and only if the device runs.            *)

Masters == [kind : {"unavailable", "wall", "priming", "audio", "fallback"},
            at : Instants, until : Instants, running : BOOLEAN]

Unavailable == [kind |-> "unavailable", at |-> Nowhere, until |-> Nowhere, running |-> FALSE]
Wall(t) == [kind |-> "wall", at |-> t, until |-> Nowhere, running |-> FALSE]
Priming(held) == [kind |-> "priming", at |-> held, until |-> Nowhere, running |-> FALSE]
Audio(t, until, running) ==
    [kind |-> "audio", at |-> t, until |-> until, running |-> running]
Fallback(t) == [kind |-> "fallback", at |-> t, until |-> Nowhere, running |-> FALSE]

OfAudio(m) == m.kind \in {"priming", "audio", "fallback"}

\* Mutant: the position is projected without the limit.
ProjectedBeyond(m) ==
    IF m.kind \in {"wall", "fallback"} \/ (m.kind = "audio" /\ m.running)
    THEN [m EXCEPT !.at = Earlier(@ + 1, Horizon)] ELSE m

\* One tick of a clock that runs.
Projected(m) ==
    CASE m.kind \in {"wall", "fallback"} -> [m EXCEPT !.at = Earlier(@ + 1, Horizon)]
      [] m.kind = "audio" /\ m.running   -> [m EXCEPT !.at = Earlier(@ + 1, m.until)]
      [] OTHER                           -> m

\* The first picture asked for speaks for the pipeline where nothing does.
Anchors(m) == m.kind = "unavailable"
AnchoredOn(m, t) == IF Anchors(m) THEN Wall(t) ELSE m

\* A renderer takes the position over where it is, and holds it.
RegisteredBy(m) == Priming(m.at)

PrimingTargetNone(m) == Nowhere  \* mutant: it begins wherever its sound does

\* What the renderer is asked to begin at, so that it does not go back.
PrimingTarget(m) == IF m.kind = "priming" THEN m.at ELSE Nowhere

\* Where the device has got to, and how far it has been handed.
Published(m, t, until, running) ==
    LET at == IF m.kind = "priming" /\ m.at # Nowhere THEN Later(t, m.at) ELSE t
    IN Audio(at, Later(until, at), running)

FinishedSilently(m, t) == m  \* mutant: nobody takes over from it

\* The sound is over: the wall clock goes on from where it ended.
Finished(m, t) == IF m.kind \in {"priming", "audio"} THEN Fallback(t) ELSE m

\* A seek lets go of the position, not of who owns it.
ResetForSeek(m) == IF OfAudio(m) THEN Priming(Nowhere) ELSE Unavailable

\* The renderer is gone: the wall clock goes on from where it was.
Released(m) == IF ~OfAudio(m) THEN m
               ELSE IF m.at = Nowhere THEN Unavailable
               ELSE Wall(m.at)
=============================================================================
