---------------------------- MODULE Driven_proofs ----------------------------
(***************************************************************************)
(* No wake of a driven pipeline is lost, for any number of outputs, of     *)
(* calls and of ticks: what was asked while it was polled, or as its poll  *)
(* ended, and the time that poll asked for, have a Ready in the lane's     *)
(* line, somebody about to put one there, or a deadline at the timer.      *)
(*                                                                         *)
(* Nor is anything an output is owed: it is handed what was made for it in *)
(* order and in its segment, held back or not, its end behind all of it,   *)
(* and that or a stop before the pipeline is gone.                         *)
(***************************************************************************)
EXTENDS Driven, Stepwise, SequenceTheorems, TLAPS

-----------------------------------------------------------------------------
(* The line to the lane.                                                   *)

Message == {"Add", "Ready", "Stop"}
Places == {"recv", "clear", "poll", "take", "drain", "produce", "end", "over",
           "drop", "dropped", "gone"}

\* The types the argument needs.
Types ==
    /\ at \in Places
    /\ line \in Seq(Message)
    /\ queued \in BOOLEAN /\ has \in BOOLEAN /\ dropping \in BOOLEAN
    /\ ended \in BOOLEAN /\ calling \in BOOLEAN
    /\ listens \in BOOLEAN /\ pausedSince \in BOOLEAN
    /\ timer \subseteq 0 .. MaxWait /\ armed \in Ticks /\ due \in Ticks
    /\ control \in Seq({"Pause", "Resume", "Stop", "Finish"})
    /\ op \in Seq({"Pause", "Resume", "Stop", "Finish"})

Adds(s) == \E i \in DOMAIN s : s[i] = "Add"
AddIsOnce(s) == \A i \in DOMAIN s : s[i] = "Add" => i = 1

\* Until the lane has the task, what adds it is the next it receives; and its
\* last poll is the one of its drop; over, it is not polled.
Added ==
    /\ ~has /\ ~ended => at = "recv" /\ line # <<>> /\ Head(line) = "Add"
    /\ dropping => at \notin {"recv", "clear", "drop", "dropped"}
    /\ ended => at \in {"recv", "gone"} /\ ~has
    /\ AddIsOnce(line) /\ (has \/ ended => ~Adds(line))

\* What is marked queued is on its way, unless the lane is about to clear the
\* mark, and to poll.
QueuedIsComing == queued /\ ~ended => ReadyIsComing \/ at = "clear"

\* The waker is in its slot from the poll's first step on.
SlotIsTask ==
    slot # "task" => ended \/ dropping \/ ~has
                     \/ at \in {"clear", "poll", "drop", "dropped"}

\* What was asked behind a poll's taking what is asked has it polled again.
AskedIsComing ==
    ~ended /\ ~dropping /\ ~calling /\ control # <<>>
        /\ at \in {"recv", "drain", "produce", "end"}
        => ReadyIsComing

\* The deadline the pipeline takes for armed is the timer's, until it goes off.
ArmedIsTimed == 0 < armed /\ armed # Forever => armed \in timer

\* The last poll's deadline is the timer's, or has gone off.
DueIsTimed ==
    at = "recv" /\ ~ended /\ due # Forever
        => ReadyIsComing \/ \E t \in timer : t <= due

\* A poll that asks for no time waits, paused, for a request, or for what
\* its source waits on.
WaitsForSomething ==
    at = "recv" /\ ~ended
        => ReadyIsComing \/ pausedSince \/ listens \/ due # Forever

Inv == /\ Types /\ Added /\ QueuedIsComing /\ SlotIsTask /\ AskedIsComing
       /\ ArmedIsTimed /\ DueIsTimed /\ WaitsForSomething

-----------------------------------------------------------------------------
(* What is in the line.                                                    *)

Coming(s) == \E i \in DOMAIN s : s[i] \in {"Add", "Ready"}

\* A look is coming where a Ready is being sent, or something in the line
\* makes the lane look.
LEMMA ReadyIsInLine == ReadyIsComing <=> senders # {} \/ Coming(line)
BY DEF ReadyIsComing, Coming

\* A message more in the line takes nothing of what is in it away.
LEMMA ComingAppend ==
    ASSUME NEW s \in Seq(Message), NEW x \in Message
    PROVE  /\ Append(s, x) \in Seq(Message) /\ Append(s, x) # <<>>
           /\ s # <<>> => Head(Append(s, x)) = Head(s)
           /\ Coming(s) => Coming(Append(s, x))
           /\ x \in {"Add", "Ready"} => Coming(Append(s, x))
           /\ x # "Add" => /\ Adds(Append(s, x)) => Adds(s)
                           /\ AddIsOnce(s) => AddIsOnce(Append(s, x))
<1> DEFINE t == Append(s, x)
<1>1. /\ t \in Seq(Message) /\ t # <<>> /\ Len(t) = Len(s) + 1
      /\ t[Len(s) + 1] = x /\ \A i \in 1 .. Len(s) : t[i] = s[i]
      /\ Len(s) \in Nat /\ DOMAIN s = 1 .. Len(s) /\ DOMAIN t = 1 .. Len(s) + 1
    OBVIOUS
<1>2. s # <<>> => Head(t) = Head(s)
    <2>1. s # <<>> => 1 \in 1 .. Len(s)
        BY <1>1
    <2>2. Head(t) = t[1] /\ (s # <<>> => Head(s) = s[1])
        BY <1>1
    <2>3. QED
        BY <1>1, <2>1, <2>2
<1>3. Coming(s) => Coming(t)
    <2>1. SUFFICES ASSUME NEW i \in 1 .. Len(s), s[i] \in {"Add", "Ready"}
                   PROVE  Coming(t)
        BY <1>1 DEF Coming
    <2>2. i \in DOMAIN t /\ t[i] \in {"Add", "Ready"}
        BY <1>1, <2>1
    <2>3. QED
        BY <2>2 DEF Coming
<1>4. x \in {"Add", "Ready"} => Coming(t)
    <2>1. Len(s) + 1 \in DOMAIN t
        BY <1>1
    <2>2. QED
        BY <1>1, <2>1 DEF Coming
<1>5. x # "Add" => /\ Adds(t) => Adds(s)
                   /\ AddIsOnce(s) => AddIsOnce(t)
    BY <1>1 DEF Adds, AddIsOnce
<1>6. QED
    BY <1>1, <1>2, <1>3, <1>4, <1>5

\* A message taken off the line leaves the others coming.
LEMMA ComingTail ==
    ASSUME NEW s \in Seq(Message), s # <<>>
    PROVE  /\ Tail(s) \in Seq(Message) /\ Head(s) \in Message
           /\ Coming(s) => Head(s) \in {"Add", "Ready"} \/ Coming(Tail(s))
           /\ AddIsOnce(s) => AddIsOnce(Tail(s)) /\ ~Adds(Tail(s))
           /\ Head(s) = "Add" => Adds(s)
<1>1. /\ Tail(s) \in Seq(Message) /\ Head(s) \in Message /\ Head(s) = s[1]
      /\ Len(s) \in Nat /\ DOMAIN s = 1 .. Len(s)
      /\ Len(Tail(s)) = Len(s) - 1 /\ DOMAIN Tail(s) = 1 .. Len(s) - 1
      /\ \A i \in 1 .. Len(s) - 1 : Tail(s)[i] = s[i + 1]
    OBVIOUS
<1>2. ASSUME NEW i \in 1 .. Len(s), s[i] \in {"Add", "Ready"}, i # 1
      PROVE  Coming(Tail(s))
    <2>1. i - 1 \in DOMAIN Tail(s) /\ Tail(s)[i - 1] = s[i]
        BY <1>1, <1>2
    <2>2. QED
        BY <1>2, <2>1 DEF Coming
<1>3. AddIsOnce(s) => ~Adds(Tail(s))
    <2>1. SUFFICES ASSUME AddIsOnce(s), NEW i \in 1 .. Len(s) - 1
                   PROVE  Tail(s)[i] # "Add"
        BY <1>1 DEF Adds
    <2>2. i + 1 \in DOMAIN s /\ i + 1 # 1 /\ Tail(s)[i] = s[i + 1]
        BY <1>1
    <2>3. QED
        BY <2>1, <2>2 DEF AddIsOnce
<1>4. ~Adds(Tail(s)) => AddIsOnce(Tail(s))
    BY DEF Adds, AddIsOnce
<1>5. Head(s) = "Add" => Adds(s)
    <2>1. 1 \in DOMAIN s
        BY <1>1
    <2>2. QED
        BY <1>1, <2>1 DEF Adds
<1>6. QED
    BY <1>1, <1>2, <1>3, <1>4, <1>5 DEF Coming

-----------------------------------------------------------------------------
(* The steps of a poll.                                                    *)

\* The times a deadline may be away.
LEMMA TicksType ==
    /\ Forever \in Nat /\ Forever = MaxWait + 1 /\ MaxWait \in Nat \ {0}
    /\ Ticks = 0 .. MaxWait + 1 /\ HeldPoll = 1 /\ Forever \in Ticks
BY BoundsAssumption DEF Forever, Ticks, HeldPoll

\* Arming the timer leaves the line as it was, and what is armed timed.
LEMMA ArmKeeps ==
    ASSUME Types, QueuedIsComing, ArmedIsTimed, ~ended, at # "clear",
           NEW t \in 0 .. MaxWait, Arm(t), senders' = senders
    PROVE  /\ line' \in Seq(Message) /\ queued' \in BOOLEAN
           /\ timer' \subseteq 0 .. MaxWait /\ armed' \in Ticks
           /\ line # <<>> => line' # <<>> /\ Head(line') = Head(line)
           /\ Adds(line') => Adds(line)
           /\ AddIsOnce(line) => AddIsOnce(line')
           /\ ReadyIsComing => ReadyIsComing'
           /\ queued' => ReadyIsComing'
           /\ 0 < armed' /\ armed' # Forever => armed' \in timer'
           /\ ReadyIsComing' \/ \E d \in timer' : d <= t
<1>1. line \in Seq(Message) /\ "Ready" \in Message
    BY DEF Types, Message
<1>2. queued => ReadyIsComing
    BY DEF QueuedIsComing
<1>3. CASE t = 0
    <2>1. queued' = TRUE /\ UNCHANGED <<timer, armed>>
          /\ line' = IF queued THEN line ELSE Append(line, "Ready")
        BY <1>3 DEF Arm
    <2>2. CASE queued
        <3>1. line' = line
            BY <2>1, <2>2
        <3>2. ReadyIsComing'
            BY <3>1, <1>2, <2>2, ReadyIsInLine DEF ReadyIsComing
        <3>3. QED
            BY <3>1, <3>2, <2>1, <1>1 DEF Types, ArmedIsTimed
    <2>3. CASE ~queued
        <3>1. line' = Append(line, "Ready")
            BY <2>1, <2>3
        <3>2. /\ line' \in Seq(Message) /\ Coming(line')
              /\ line # <<>> => line' # <<>> /\ Head(line') = Head(line)
              /\ Adds(line') => Adds(line)
              /\ AddIsOnce(line) => AddIsOnce(line')
            BY <3>1, <1>1, ComingAppend
        <3>3. ReadyIsComing'
            BY <3>2 DEF ReadyIsComing, Coming
        <3>4. QED
            BY <3>2, <3>3, <2>1 DEF Types, ArmedIsTimed
    <2>4. QED
        BY <2>2, <2>3 DEF Types
<1>4. CASE t # 0
    <2>1. UNCHANGED <<queued, line>>
          /\ IF IsArmedBy(t) THEN UNCHANGED <<timer, armed>>
             ELSE timer' = timer \cup {t} /\ armed' = t
        BY <1>4 DEF Arm
    <2>2. ReadyIsComing' <=> ReadyIsComing
        BY <2>1 DEF ReadyIsComing
    <2>3. CASE IsArmedBy(t)
        <3>1. armed \in timer /\ armed <= t
            BY <2>3, TicksType DEF IsArmedBy, ArmedIsTimed, Types
        <3>2. UNCHANGED <<queued, line, timer, armed>>
            BY <2>1, <2>3
        <3>3. \E d \in timer' : d <= t
            BY <3>1, <3>2
        <3>4. QED
            BY <3>2, <3>3, <2>2, <1>2 DEF Types, ArmedIsTimed
    <2>4. CASE ~IsArmedBy(t)
        <3>1. UNCHANGED <<queued, line>> /\ timer' = timer \cup {t} /\ armed' = t
            BY <2>1, <2>4
        <3>2. t \in timer' /\ t <= t
            BY <3>1
        <3>3. timer' \subseteq 0 .. MaxWait /\ armed' \in Ticks
            BY <3>1, TicksType DEF Types
        <3>4. QED
            BY <3>1, <3>2, <3>3, <2>2, <1>2 DEF Types
    <2>5. QED
        BY <2>3, <2>4
<1>5. QED
    BY <1>3, <1>4

\* Where a poll goes on, fails or is over, nothing is to be on its way yet.
LEMMA StepInPollKeeps ==
    ASSUME Inv,
           at \in {"take", "drain", "produce", "end"},
           at' \in {"take", "drain", "produce", "end", "over"},
           control' \in Seq({"Pause", "Resume", "Stop", "Finish"}),
           pausedSince' \in BOOLEAN, listens' \in BOOLEAN,
           \/ at' \in {"take", "over"}
           \/ control' = <<>>
           \/ (control' = control /\ at # "take"),
           InPoll, UNCHANGED <<waking, timing>>
    PROVE  Inv'
<1>1. UNCHANGED <<line, queued, senders, timer, armed, due, has, dropping, slot,
                  ended, calling, op>>
    BY DEF InPoll, waking, timing, handle
<1>2. ReadyIsComing' <=> ReadyIsComing
    BY <1>1 DEF ReadyIsComing
<1>3. Types'
    BY <1>1 DEF Inv, Types, Places
<1>4. Added' /\ QueuedIsComing' /\ SlotIsTask'
    BY <1>1, <1>2 DEF Inv, Added, QueuedIsComing, SlotIsTask
<1>5. AskedIsComing'
    BY <1>1, <1>2 DEF Inv, AskedIsComing
<1>6. ArmedIsTimed' /\ DueIsTimed' /\ WaitsForSomething'
    BY <1>1, <1>2 DEF Inv, ArmedIsTimed, DueIsTimed, WaitsForSomething
<1>7. QED
    BY <1>3, <1>4, <1>5, <1>6 DEF Inv

\* Where it answers Pending, what it waits for is said.
LEMMA PendsKeeps ==
    ASSUME Inv, NEW t \in Ticks, Pends(t),
           at \in {"take", "drain", "produce", "end"},
           control' = control, at = "take" => control = <<>>,
           pausedSince' \in BOOLEAN, listens' \in BOOLEAN,
           t = Forever => pausedSince' \/ listens' \/ dropping,
           InPoll
    PROVE  Inv'
<1>1. UNCHANGED <<senders, has, dropping, slot, ended, calling, op>> /\ due' = t
    BY DEF InPoll, handle, Pends
<1>2. has \/ ended
    BY DEF Inv, Added
<1>3. CASE dropping
    <2>1. UNCHANGED <<queued, line, timer, armed>> /\ at' = "over"
        BY <1>3 DEF Pends
    <2>2. ReadyIsComing' <=> ReadyIsComing
        BY <1>1, <2>1 DEF ReadyIsComing
    <2>3. Types'
        BY <1>1, <2>1 DEF Inv, Types, Places
    <2>4. Added' /\ QueuedIsComing' /\ SlotIsTask' /\ AskedIsComing'
        BY <1>1, <1>3, <2>1, <2>2 DEF Inv, Added, QueuedIsComing, SlotIsTask, AskedIsComing
    <2>5. ArmedIsTimed' /\ DueIsTimed' /\ WaitsForSomething'
        BY <2>1 DEF Inv, ArmedIsTimed, DueIsTimed, WaitsForSomething
    <2>6. QED
        BY <2>3, <2>4, <2>5 DEF Inv
<1>4. CASE ~dropping /\ t = Forever
    <2>1. UNCHANGED <<queued, line, timer, armed>> /\ at' = "recv"
        BY <1>4 DEF Pends
    <2>2. ReadyIsComing' <=> ReadyIsComing
        BY <1>1, <2>1 DEF ReadyIsComing
    <2>3. Types'
        BY <1>1, <2>1 DEF Inv, Types, Places
    <2>4. Added' /\ QueuedIsComing' /\ SlotIsTask'
        BY <1>1, <1>2, <1>4, <2>1, <2>2 DEF Inv, Added, QueuedIsComing, SlotIsTask
    <2>5. AskedIsComing'
        BY <1>1, <1>4, <2>1, <2>2 DEF Inv, AskedIsComing
    <2>6. ArmedIsTimed' /\ DueIsTimed' /\ WaitsForSomething'
        BY <1>1, <1>4, <2>1 DEF Inv, ArmedIsTimed, DueIsTimed, WaitsForSomething
    <2>7. QED
        BY <2>3, <2>4, <2>5, <2>6 DEF Inv
<1>5. CASE ~dropping /\ t # Forever /\ ~ended
    <2>1. Arm(t) /\ at' = "recv"
        BY <1>5 DEF Pends
    <2>2. t \in 0 .. MaxWait
        BY <1>5, TicksType
    <2>3. /\ line' \in Seq(Message) /\ queued' \in BOOLEAN
          /\ timer' \subseteq 0 .. MaxWait /\ armed' \in Ticks
          /\ line # <<>> => line' # <<>> /\ Head(line') = Head(line)
          /\ Adds(line') => Adds(line)
          /\ AddIsOnce(line) => AddIsOnce(line')
          /\ ReadyIsComing => ReadyIsComing'
          /\ queued' => ReadyIsComing'
          /\ 0 < armed' /\ armed' # Forever => armed' \in timer'
          /\ ReadyIsComing' \/ \E d \in timer' : d <= t
        BY <2>1, <2>2, <1>1, <1>5, ArmKeeps DEF Inv
    <2>4. Types'
        BY <1>1, <2>1, <2>3 DEF Inv, Types, Places
    <2>5. Added' /\ QueuedIsComing' /\ SlotIsTask'
        BY <1>1, <1>2, <1>5, <2>1, <2>3 DEF Inv, Added, QueuedIsComing, SlotIsTask
    <2>6. AskedIsComing'
        BY <1>1, <1>5, <2>1, <2>3 DEF Inv, AskedIsComing
    <2>7. ArmedIsTimed' /\ DueIsTimed' /\ WaitsForSomething'
        BY <1>1, <1>5, <2>1, <2>3 DEF Inv, ArmedIsTimed, DueIsTimed, WaitsForSomething
    <2>8. QED
        BY <2>4, <2>5, <2>6, <2>7 DEF Inv
<1>6. ~ended
    BY DEF Inv, Added
<1>7. QED
    BY <1>3, <1>4, <1>5, <1>6

-----------------------------------------------------------------------------
(* The others: who wakes, who calls, the lane between two polls.           *)

\* A wake moves nothing but the mark and who is yet to send.
LEMMA WakeKeeps ==
    ASSUME Inv, NEW who, Wakes(who),
           calling' \in BOOLEAN, listens' \in BOOLEAN,
           timer' \subseteq timer, \A t \in timer : t # 0 => t \in timer',
           UNCHANGED <<at, has, dropping, slot, armed, due, control, ended, op,
                       pausedSince>>
    PROVE  Inv'
<1>1. UNCHANGED line /\ queued' = TRUE /\ senders \subseteq senders'
      /\ (~queued => senders' # {})
    BY DEF Wakes
<1>2. ReadyIsComing => ReadyIsComing'
    BY <1>1 DEF ReadyIsComing
<1>3. at # "clear" /\ ~ended => ReadyIsComing'
    BY <1>1, <1>2 DEF Inv, QueuedIsComing, ReadyIsComing
<1>4. Types'
    BY <1>1 DEF Inv, Types
<1>5. Added' /\ QueuedIsComing' /\ SlotIsTask' /\ AskedIsComing'
    BY <1>1, <1>3 DEF Inv, Added, QueuedIsComing, SlotIsTask, AskedIsComing
<1>6. ArmedIsTimed'
    BY <1>1, TicksType DEF Inv, ArmedIsTimed, Types
<1>7. DueIsTimed' /\ WaitsForSomething'
    BY <1>1, <1>3 DEF Inv, DueIsTimed, WaitsForSomething
<1>8. QED
    BY <1>4, <1>5, <1>6, <1>7 DEF Inv

\* Something more in the line takes nothing from it.
LEMMA SendKeeps ==
    ASSUME Inv, NEW x \in {"Ready", "Stop"}, line' = Append(line, x),
           x = "Ready" \/ senders' = senders,
           UNCHANGED <<at, has, dropping, slot, queued, timer, armed, due, control,
                       ended, op, calling, pausedSince, listens>>
    PROVE  Inv'
<1>1. /\ line' \in Seq(Message) /\ (line # <<>> => line' # <<>> /\ Head(line') = Head(line))
      /\ (Adds(line') => Adds(line)) /\ (AddIsOnce(line) => AddIsOnce(line'))
      /\ (Coming(line) => Coming(line')) /\ (x = "Ready" => Coming(line'))
    BY ComingAppend DEF Inv, Types, Message
<1>2. ReadyIsComing => ReadyIsComing'
    BY <1>1 DEF ReadyIsComing, Coming
<1>3. Types' /\ Added'
    BY <1>1 DEF Inv, Types, Added
<1>4. QueuedIsComing' /\ SlotIsTask' /\ AskedIsComing'
    BY <1>2 DEF Inv, QueuedIsComing, SlotIsTask, AskedIsComing
<1>5. ArmedIsTimed' /\ DueIsTimed' /\ WaitsForSomething'
    BY <1>2 DEF Inv, ArmedIsTimed, DueIsTimed, WaitsForSomething
<1>6. QED
    BY <1>3, <1>4, <1>5 DEF Inv

\* A call sets itself under way, and what it is yet to enqueue.
LEMMA CallKeeps ==
    ASSUME Inv, calling' = TRUE,
           control' \in Seq({"Pause", "Resume", "Stop", "Finish"}),
           op' \in Seq({"Pause", "Resume", "Stop", "Finish"}),
           UNCHANGED <<at, has, dropping, slot, line, queued, senders, timer, armed,
                       due, ended, pausedSince, listens>>
    PROVE  Inv'
<1>1. ReadyIsComing' <=> ReadyIsComing
    BY DEF ReadyIsComing
<1>2. Types' /\ Added'
    BY DEF Inv, Types, Added
<1>3. QueuedIsComing' /\ SlotIsTask' /\ AskedIsComing'
    BY <1>1 DEF Inv, QueuedIsComing, SlotIsTask, AskedIsComing
<1>4. ArmedIsTimed' /\ DueIsTimed' /\ WaitsForSomething'
    BY <1>1 DEF Inv, ArmedIsTimed, DueIsTimed, WaitsForSomething
<1>5. QED
    BY <1>2, <1>3, <1>4 DEF Inv

\* The lane receives: with the task it polls, or drops it; until it has it,
\* what it receives is the task.
LEMMA ReceivesKeeps == ASSUME Inv, Receives PROVE Inv'
<1>1. /\ at = "recv" /\ line # <<>> /\ line' = Tail(line)
      /\ UNCHANGED <<queued, senders, dropping, slot, timer, armed, due, control,
                     ended, op, calling, pausedSince, listens>>
    BY DEF Receives, timing, handle, stage
<1>2. /\ line' \in Seq(Message)
      /\ Coming(line) => Head(line) \in {"Add", "Ready"} \/ Coming(line')
      /\ ~Adds(line') /\ AddIsOnce(line')
      /\ Head(line) = "Add" => ~ended
    BY <1>1, ComingTail DEF Inv, Types, Added
<1>3. ~dropping
    BY <1>1 DEF Inv, Added
<1>4. CASE Head(line) = "Add"
    <2>1. has' = TRUE /\ at' = "clear"
        BY <1>4 DEF Receives
    <2>2. QED
        BY <1>1, <1>2, <1>3, <1>4, <2>1 DEF Inv, Types, Places, Added, QueuedIsComing,
           SlotIsTask, AskedIsComing, ArmedIsTimed, DueIsTimed, WaitsForSomething
<1>5. CASE Head(line) = "Ready"
    <2>1. has' = has /\ at' = (IF has THEN "clear" ELSE "recv")
        BY <1>5 DEF Receives
    <2>2. has \/ ended
        BY <1>5 DEF Inv, Added
    <2>3. QED
        BY <1>1, <1>2, <1>3, <2>1, <2>2 DEF Inv, Types, Places, Added, QueuedIsComing,
           SlotIsTask, AskedIsComing, ArmedIsTimed, DueIsTimed, WaitsForSomething
<1>6. CASE Head(line) = "Stop"
    <2>1. has' = has /\ at' = (IF has THEN "drop" ELSE "gone")
        BY <1>6 DEF Receives
    <2>2. has \/ ended
        BY <1>6 DEF Inv, Added
    <2>3. ReadyIsComing => ReadyIsComing'
        BY <1>1, <1>2, <1>6 DEF ReadyIsComing, Coming
    <2>4. QED
        BY <1>1, <1>2, <1>3, <2>1, <2>2, <2>3 DEF Inv, Types, Places, Added,
           QueuedIsComing, SlotIsTask, AskedIsComing, ArmedIsTimed, DueIsTimed,
           WaitsForSomething
<1>7. QED
    BY <1>4, <1>5, <1>6 DEF Receives

\* From one place of the lane to the next, outside what a poll asks.
LEMMA LaneKeeps ==
    ASSUME Inv, ClearsQueued \/ Polls \/ Over \/ EntersStopped \/ EnqueuesStop
    PROVE  Inv'
<1> USE DEF Inv, Types, Places, Added, QueuedIsComing, SlotIsTask, AskedIsComing,
            ArmedIsTimed, DueIsTimed, WaitsForSomething, ReadyIsComing
<1>1. CASE ClearsQueued
    BY <1>1 DEF ClearsQueued, timing, handle, stage
<1>2. CASE Polls
    BY <1>2, TicksType DEF Polls, waking, handle, stage
<1>3. CASE Over
    <2>1. at = "over" /\ ended' = TRUE /\ at' \in {"gone", "recv"} /\ has' = FALSE
          /\ (at' = "recv" => ~dropping)
          /\ armed' = Forever /\ due' = Forever /\ control' = <<>>
          /\ UNCHANGED <<dropping, line, queued, senders, timer, calling, op,
                         pausedSince, listens>>
        BY <1>3 DEF Over, waking, handle, stage
    <2>2. Types'
        <3>1. <<>> \in Seq({"Pause", "Resume", "Stop", "Finish"})
            OBVIOUS
        <3>2. QED
            BY <2>1, <3>1, TicksType
    <2>3. Added'
        BY <2>1
    <2>4. QueuedIsComing' /\ SlotIsTask' /\ AskedIsComing'
        BY <2>1
    <2>5. ArmedIsTimed' /\ DueIsTimed' /\ WaitsForSomething'
        BY <2>1
    <2>6. QED
        BY <2>2, <2>3, <2>4, <2>5
<1>4. CASE EntersStopped
    BY <1>4 DEF EntersStopped, waking, timing, handle, stage
<1>5. CASE EnqueuesStop
    <2>1. control' \in Seq({"Pause", "Resume", "Stop", "Finish"})
        BY <1>5 DEF EnqueuesStop
    <2>2. at = "dropped" /\ dropping' = TRUE /\ at' = "poll"
          /\ UNCHANGED <<has, line, queued, senders, slot, timer, armed, due, ended,
                         calling, op, pausedSince, listens>>
        BY <1>5 DEF EnqueuesStop, waking, timing, handle, stage
    <2>3. QED
        BY <2>1, <2>2
<1>6. QED
    BY <1>1, <1>2, <1>3, <1>4, <1>5

\* A tick takes one off every deadline, and leaves none behind another.
LEMMA TickKeeps == ASSUME Inv, Tick PROVE Inv'
<1>1. /\ timer' = {Less(t) : t \in timer} /\ armed' = Less(armed) /\ due' = Less(due)
      /\ UNCHANGED <<at, line, queued, senders, has, dropping, slot, control, ended,
                     op, calling, pausedSince, listens>>
    BY DEF Tick, waking, lane, handle, stage
<1>2. timer \subseteq 0 .. MaxWait /\ armed \in 0 .. MaxWait + 1 /\ due \in 0 .. MaxWait + 1
    BY TicksType DEF Inv, Types
<1>3. \A t \in 0 .. MaxWait + 1 :
        /\ t \in 0 .. MaxWait => Less(t) \in 0 .. MaxWait
        /\ Less(t) \in 0 .. MaxWait + 1
        /\ Less(t) = Forever <=> t = Forever
        /\ \A u \in 0 .. MaxWait : u <= t /\ t # Forever => Less(u) <= Less(t)
        /\ 0 < Less(t) => 0 < t
    BY TicksType DEF Less
<1>4. ReadyIsComing' <=> ReadyIsComing
    BY <1>1 DEF ReadyIsComing
<1>5. timer' \subseteq 0 .. MaxWait /\ armed' \in Ticks /\ due' \in Ticks
    BY <1>1, <1>2, <1>3, TicksType
<1>6. Types' /\ Added'
    BY <1>1, <1>5 DEF Inv, Types, Added
<1>7. QueuedIsComing' /\ SlotIsTask' /\ AskedIsComing'
    BY <1>1, <1>4 DEF Inv, QueuedIsComing, SlotIsTask, AskedIsComing
<1>8. ArmedIsTimed'
    <2>1. SUFFICES ASSUME 0 < armed', armed' # Forever
                   PROVE  armed' \in timer'
        BY DEF ArmedIsTimed
    <2>2. armed \in timer
        BY <2>1, <1>1, <1>2, <1>3 DEF Inv, ArmedIsTimed
    <2>3. QED
        BY <2>2, <1>1
<1>9. DueIsTimed'
    <2>1. SUFFICES ASSUME at = "recv", ~ended, due' # Forever, ~ReadyIsComing
                   PROVE  \E t \in timer' : t <= due'
        BY <1>1, <1>4 DEF DueIsTimed
    <2>2. due # Forever
        BY <2>1, <1>1, <1>2, <1>3
    <2>3. PICK t \in timer : t <= due
        BY <2>1, <2>2 DEF Inv, DueIsTimed
    <2>4. Less(t) \in timer' /\ Less(t) <= due'
        BY <2>2, <2>3, <1>1, <1>2, <1>3
    <2>5. QED
        BY <2>4
<1>10. WaitsForSomething'
    BY <1>1, <1>2, <1>3, <1>4 DEF Inv, WaitsForSomething
<1>11. QED
    BY <1>6, <1>7, <1>8, <1>9, <1>10 DEF Inv

\* The call's own wake: with no waker left the pipeline is not polled yet.
LEMMA WakesPollKeeps == ASSUME Inv, WakesPoll PROVE Inv'
<1>1. /\ calling /\ op = <<>> /\ calling' = FALSE
      /\ UNCHANGED <<op, at, has, dropping, slot, timer, armed, due, control, ended,
                     pausedSince, listens>>
    BY DEF WakesPoll, lane, timing, stage
<1>2. CASE slot = "task"
    <2>1. Wakes("handle")
        BY <1>2 DEF WakesPoll
    <2>2. calling' \in BOOLEAN /\ listens' \in BOOLEAN
        BY <1>1 DEF Inv, Types
    <2>3. timer' \subseteq timer /\ \A t \in timer : t # 0 => t \in timer'
        BY <1>1
    <2>4. QED
        BY <1>1, <2>1, <2>2, <2>3, WakeKeeps
<1>3. CASE slot # "task"
    <2>1. UNCHANGED <<line, queued, senders>>
        BY <1>3 DEF WakesPoll, waking
    <2>2. ReadyIsComing' <=> ReadyIsComing
        BY <2>1 DEF ReadyIsComing
    <2>3. Types' /\ Added'
        BY <1>1, <2>1 DEF Inv, Types, Added
    <2>4. ~ended /\ ~has => ReadyIsComing
        <3>1. SUFFICES ASSUME ~ended, ~has PROVE ReadyIsComing
            OBVIOUS
        <3>2. line \in Seq(Message) /\ line # <<>> /\ Head(line) = "Add"
            BY <3>1 DEF Inv, Types, Added
        <3>3. 1 \in DOMAIN line /\ line[1] = "Add"
            BY <3>2
        <3>4. QED
            BY <3>3 DEF ReadyIsComing
    <2>5. AskedIsComing'
        BY <1>1, <1>3, <2>2, <2>4 DEF Inv, AskedIsComing, SlotIsTask
    <2>6. QueuedIsComing' /\ SlotIsTask'
        BY <1>1, <2>1, <2>2 DEF Inv, QueuedIsComing, SlotIsTask
    <2>7. ArmedIsTimed' /\ DueIsTimed' /\ WaitsForSomething'
        BY <1>1, <2>2 DEF Inv, ArmedIsTimed, DueIsTimed, WaitsForSomething
    <2>8. QED
        BY <2>3, <2>5, <2>6, <2>7 DEF Inv
<1>4. QED
    BY <1>2, <1>3

-----------------------------------------------------------------------------
(* What a poll asks and makes, a step of it each.                          *)

\* A request taken off the source's channel, or a failure, keeps it.
LEMMA TakingKeeps ==
    ASSUME Inv, Takings \/ TakesFinish \/ NothingAsked \/ Fails
    PROVE  Inv'
<1>1. /\ pausedSince \in BOOLEAN /\ listens \in BOOLEAN
      /\ control \in Seq({"Pause", "Resume", "Stop", "Finish"})
      /\ control # <<>> => Tail(control) \in Seq({"Pause", "Resume", "Stop", "Finish"})
      /\ Forever \in Ticks
    BY TicksType DEF Inv, Types
<1>2. CASE Takings
    <2>1. PICK msg \in {"Pause", "Resume", "Stop"} : LeavesPause(msg) \/ Applies(msg)
        BY <1>2 DEF Takings
    <2>2. /\ at = "take" /\ at' \in {"take", "over"} /\ InPoll
          /\ control # <<>> /\ control' = Tail(control) /\ listens' = listens
          /\ UNCHANGED <<waking, timing>>
        BY <2>1 DEF LeavesPause, Applies, Takes, GoesOn, Ends
    <2>3. pausedSince' \in BOOLEAN
        BY <2>1, <1>1 DEF LeavesPause, Applies, PauseIsOver
    <2>4. QED
        BY <1>1, <2>2, <2>3, StepInPollKeeps
<1>3. CASE TakesFinish
    <2>1. /\ at = "take" /\ at' = "over" /\ InPoll
          /\ control # <<>> /\ control' = Tail(control)
          /\ UNCHANGED <<waking, timing, listens, pausedSince>>
        BY <1>3 DEF TakesFinish, Takes, Ends
    <2>2. QED
        BY <1>1, <2>1, StepInPollKeeps
<1>4. CASE NothingAsked
    <2>1. /\ at = "take" /\ control = <<>> /\ control' = control /\ InPoll
          /\ UNCHANGED <<listens, pausedSince>>
        BY <1>4 DEF NothingAsked
    <2>2. CASE pausedSince
        <3>1. Pends(Forever)
            BY <1>4, <2>2 DEF NothingAsked
        <3>2. QED
            BY <1>1, <2>1, <2>2, <3>1, PendsKeeps
    <2>3. CASE ~pausedSince
        <3>1. at' = "drain" /\ UNCHANGED <<waking, timing>>
            BY <1>4, <2>3 DEF NothingAsked, GoesOn
        <3>2. QED
            BY <1>1, <2>1, <3>1, StepInPollKeeps
    <2>4. QED
        BY <2>2, <2>3
<1>5. CASE Fails
    <2>1. /\ at \in {"produce", "take"} /\ at' = "over" /\ InPoll
          /\ control' = control \/ (control # <<>> /\ control' = Tail(control))
          /\ UNCHANGED <<waking, timing, listens, pausedSince>>
        BY <1>5 DEF Fails, Ends, stage
    <2>2. control' \in Seq({"Pause", "Resume", "Stop", "Finish"})
        BY <1>1, <2>1
    <2>3. QED
        BY <1>1, <2>1, <2>2, StepInPollKeeps
<1>6. QED
    BY <1>2, <1>3, <1>4, <1>5

\* A round of the loop over: the next, or a Ready for it.
LEMMA AgainKeeps ==
    ASSUME Inv, Again, InPoll, at = "produce",
           UNCHANGED <<control, pausedSince, listens>>
    PROVE  Inv'
<1>1. pausedSince \in BOOLEAN /\ listens \in BOOLEAN /\ 0 \in Ticks /\ 0 # Forever
      /\ control \in Seq({"Pause", "Resume", "Stop", "Finish"})
    BY TicksType DEF Inv, Types
<1>2. CASE budget = 1
    <2>1. Pends(0)
        BY <1>2 DEF Again
    <2>2. QED
        BY <1>1, <2>1, PendsKeeps
<1>3. CASE budget # 1
    <2>1. at' = "drain" /\ UNCHANGED <<waking, timing>>
        BY <1>3 DEF Again, GoesOn
    <2>2. QED
        BY <1>1, <2>1, StepInPollKeeps
<1>4. QED
    BY <1>2, <1>3

\* So does everything a poll hands on, makes and ends.
LEMMA MakingKeeps ==
    ASSUME Inv,
           \/ DrainsOne \/ Drained \/ Waits \/ BeginsOwed
           \/ \E o \in Outputs : Makes(o)
           \/ MakesFlush \/ MakesSegment \/ MakesNothing \/ MakesEnd \/ EndsOutputs
    PROVE  Inv'
<1>1. pausedSince \in BOOLEAN /\ listens \in BOOLEAN /\ dropping \in BOOLEAN
      /\ control \in Seq({"Pause", "Resume", "Stop", "Finish"})
      /\ HeldPoll \in Ticks /\ HeldPoll # Forever /\ Forever \in Ticks
      /\ \A t \in 1 .. MaxWait : t \in Ticks /\ t # Forever
    BY TicksType DEF Inv, Types
<1>2. CASE DrainsOne
    <2>1. at = "drain" /\ at' = "drain" /\ InPoll
          /\ UNCHANGED <<waking, timing, control, listens, pausedSince>>
        BY <1>2 DEF DrainsOne, GoesOn, stage
    <2>2. QED
        BY <1>1, <2>1, StepInPollKeeps
<1>3. CASE Drained
    <2>1. at = "drain" /\ at' \in {"end", "produce"} /\ InPoll
          /\ UNCHANGED <<waking, timing, control, listens, pausedSince>>
        BY <1>3 DEF Drained, GoesOn, stage
    <2>2. QED
        BY <1>1, <2>1, StepInPollKeeps
<1>4. CASE Waits
    <2>1. at = "produce" /\ Pends(HeldPoll) /\ InPoll
          /\ UNCHANGED <<control, listens, pausedSince>>
        BY <1>4 DEF Waits, Asks, stage
    <2>2. QED
        BY <1>1, <2>1, PendsKeeps
<1>5. CASE BeginsOwed
    <2>1. at = "produce" /\ at' = "produce" /\ InPoll
          /\ UNCHANGED <<waking, timing, control, listens, pausedSince>>
        BY <1>5 DEF BeginsOwed, Asks, GoesOn
    <2>2. QED
        BY <1>1, <2>1, StepInPollKeeps
<1>6. CASE (\E o \in Outputs : Makes(o)) \/ MakesFlush \/ MakesSegment
    <2>1. at = "produce" /\ Again /\ InPoll
          /\ UNCHANGED <<control, listens, pausedSince>>
        BY <1>6 DEF Makes, MakesFlush, MakesSegment, IsAsked, Asks
    <2>2. QED
        BY <2>1, AgainKeeps
<1>7. CASE MakesNothing
    <2>1. at = "produce" /\ InPoll /\ control' = control
        BY <1>7 DEF MakesNothing, IsAsked, Asks
    <2>2. CASE \E t \in 1 .. MaxWait : Pends(t) /\ UNCHANGED stage
        <3>1. PICK t \in 1 .. MaxWait : Pends(t) /\ UNCHANGED stage
            BY <2>2
        <3>2. UNCHANGED <<listens, pausedSince>>
            BY <3>1 DEF stage
        <3>3. QED
            BY <1>1, <2>1, <3>1, <3>2, PendsKeeps
    <2>3. CASE /\ Pends(Forever) /\ listens' = (listens \/ ~dropping)
               /\ pausedSince' = pausedSince
        BY <1>1, <2>1, <2>3, PendsKeeps
    <2>4. CASE Again /\ UNCHANGED <<pausedSince, listens>>
        BY <2>1, <2>4, AgainKeeps
    <2>5. QED
        BY <1>7, <2>2, <2>3, <2>4 DEF MakesNothing
<1>8. CASE MakesEnd
    <2>1. at = "produce" /\ at' = "drain" /\ InPoll
          /\ UNCHANGED <<waking, timing, control, listens, pausedSince>>
        BY <1>8 DEF MakesEnd, IsAsked, Asks, GoesOn
    <2>2. QED
        BY <1>1, <2>1, StepInPollKeeps
<1>9. CASE EndsOutputs
    <2>1. at = "end" /\ InPoll /\ UNCHANGED <<control, listens, pausedSince>>
        BY <1>9 DEF EndsOutputs, GivesEnds
    <2>2. CASE owedEnds' = {}
        <3>1. at' = "over" /\ UNCHANGED <<waking, timing>>
            BY <1>9, <2>2 DEF EndsOutputs, GivesEnds, Ends
        <3>2. QED
            BY <1>1, <2>1, <3>1, StepInPollKeeps
    <2>3. CASE owedEnds' # {}
        <3>1. Pends(HeldPoll)
            BY <1>9, <2>3 DEF EndsOutputs, GivesEnds
        <3>2. QED
            BY <1>1, <2>1, <3>1, PendsKeeps
    <2>4. QED
        BY <2>2, <2>3
<1>10. QED
    BY <1>2, <1>3, <1>4, <1>5, <1>6, <1>7, <1>8, <1>9

-----------------------------------------------------------------------------
(* The invariant, and what it says.                                        *)

\* It holds as the pipeline is handed to its runner.
LEMMA InitInv == Init => Inv
<1> SUFFICES ASSUME Init PROVE Inv
    OBVIOUS
<1>1. /\ at = "recv" /\ line = <<"Add">> /\ queued = FALSE /\ senders = {}
      /\ has = FALSE /\ dropping = FALSE /\ slot = None
      /\ timer = {} /\ armed = Forever /\ due = Forever
      /\ control = <<>> /\ ended = FALSE /\ op = <<>> /\ calling = FALSE
      /\ pausedSince = FALSE /\ listens = FALSE
    BY DEF Init
<1>2. /\ line \in Seq(Message) /\ DOMAIN line = {1} /\ line[1] = "Add"
      /\ Head(line) = "Add" /\ line # <<>>
    BY <1>1 DEF Message
<1>3. Types
    <2>1. <<>> \in Seq({"Pause", "Resume", "Stop", "Finish"})
        OBVIOUS
    <2>2. QED
        BY <1>1, <1>2, <2>1, TicksType DEF Types, Places
<1>4. ReadyIsComing
    BY <1>2 DEF ReadyIsComing
<1>5. Added
    BY <1>1, <1>2 DEF Added, Adds, AddIsOnce
<1>6. QED
    BY <1>1, <1>3, <1>4, <1>5 DEF Inv, QueuedIsComing, SlotIsTask, AskedIsComing,
       ArmedIsTimed, DueIsTimed, WaitsForSomething

\* The handle's calls keep it, at whichever step of a poll they come.
LEMMA CallsKeep ==
    ASSUME Inv, Handle \/ Enqueues
    PROVE  Inv'
<1>1. control \in Seq({"Pause", "Resume", "Stop", "Finish"})
      /\ op \in Seq({"Pause", "Resume", "Stop", "Finish"})
    BY DEF Inv, Types
<1>2. CASE Handle
    <2>1. /\ calling' = TRUE
          /\ UNCHANGED <<at, has, dropping, slot, line, queued, senders, timer, armed,
                         due, control, ended, pausedSince, listens>>
        BY <1>2 DEF Handle, Pause, Resume, Stop, Finish, Calls, lane, waking, timing,
           stage
    <2>2. \/ op' = <<"Pause">> \/ op' = <<"Resume">> \/ op' = <<"Stop">>
          \/ op' = <<"Finish">> \/ op' = <<"Resume", "Finish">>
        <3>1. Pause \/ Resume \/ Stop => op' = <<"Pause">> \/ op' = <<"Resume">>
                                         \/ op' = <<"Stop">>
            BY DEF Pause, Resume, Stop, Calls
        <3>2. Finish => op' = IF paused THEN <<"Resume", "Finish">> ELSE <<"Finish">>
            BY DEF Finish, Calls
        <3>3. QED
            BY <1>2, <3>1, <3>2 DEF Handle
    <2>3. op' \in Seq({"Pause", "Resume", "Stop", "Finish"})
        <3>1. \A m \in {"Pause", "Resume", "Stop", "Finish"} :
                 <<m>> \in Seq({"Pause", "Resume", "Stop", "Finish"})
            OBVIOUS
        <3>2. <<"Resume", "Finish">> \in Seq({"Pause", "Resume", "Stop", "Finish"})
            OBVIOUS
        <3>3. QED
            BY <2>2, <3>1, <3>2
    <2>4. QED
        BY <1>1, <2>1, <2>3, CallKeeps
<1>3. CASE Enqueues
    <2>1. /\ op # <<>> /\ calling /\ calling' = calling /\ op' = Tail(op)
          /\ control' = (IF ended THEN control ELSE Append(control, Head(op)))
          /\ UNCHANGED <<at, has, dropping, slot, line, queued, senders, timer, armed,
                         due, ended, pausedSince, listens>>
        BY <1>3 DEF Enqueues, lane, waking, timing, stage
    <2>2. op' \in Seq({"Pause", "Resume", "Stop", "Finish"})
          /\ control' \in Seq({"Pause", "Resume", "Stop", "Finish"})
        BY <1>1, <2>1
    <2>3. calling' = TRUE
        BY <2>1 DEF Inv, Types
    <2>4. QED
        BY <2>1, <2>2, <2>3, CallKeeps
<1>4. QED
    BY <1>2, <1>3

\* Every step keeps it.
LEMMA InvInductive == Inv /\ [Next]_vars => Inv'
<1> SUFFICES ASSUME Inv, [Next]_vars PROVE Inv'
    OBVIOUS
<1>1. CASE Lane
    <2>1. CASE Receives
        BY <2>1, ReceivesKeeps
    <2>2. CASE ClearsQueued \/ Polls \/ Over \/ EntersStopped \/ EnqueuesStop
        BY <2>2, LaneKeeps
    <2>3. CASE Takings \/ TakesFinish \/ NothingAsked \/ Fails
        BY <2>3, TakingKeeps
    <2>4. CASE \/ DrainsOne \/ Drained \/ Waits \/ BeginsOwed
               \/ \E o \in Outputs : Makes(o)
               \/ MakesFlush \/ MakesSegment \/ MakesNothing \/ MakesEnd
               \/ EndsOutputs
        BY <2>4, MakingKeeps
    <2>5. QED
        BY <1>1, <2>1, <2>2, <2>3, <2>4 DEF Lane
<1>2. CASE Handle \/ Enqueues
    BY <1>2, CallsKeep
<1>3. CASE WakesPoll
    BY <1>3, WakesPollKeeps
<1>4. CASE DropsRunner
    <2>1. /\ line' = Append(line, "Stop") /\ senders' = senders
          /\ UNCHANGED <<at, has, dropping, slot, queued, timer, armed, due, control,
                         ended, op, calling, pausedSince, listens>>
        BY <1>4 DEF DropsRunner, lane, timing, handle, stage
    <2>2. QED
        BY <2>1, SendKeeps
<1>5. CASE Sends
    <2>1. /\ line' = Append(line, "Ready")
          /\ UNCHANGED <<at, has, dropping, slot, queued, timer, armed, due, control,
                         ended, op, calling, pausedSince, listens>>
        BY <1>5 DEF Sends, lane, timing, handle, stage
    <2>2. QED
        BY <2>1, SendKeeps
<1>6. CASE TimerWakes
    <2>1. /\ timer' = timer \ {0} /\ Wakes("timer")
          /\ UNCHANGED <<at, has, dropping, slot, armed, due, control, ended, op,
                         calling, pausedSince, listens>>
        BY <1>6 DEF TimerWakes, lane, handle, stage
    <2>2. calling' \in BOOLEAN /\ listens' \in BOOLEAN /\ timer' \subseteq timer
          /\ \A t \in timer : t # 0 => t \in timer'
        BY <2>1 DEF Inv, Types
    <2>3. QED
        BY <2>1, <2>2, WakeKeeps
<1>7. CASE SourceWakes
    <2>1. /\ listens' = FALSE /\ Wakes("source")
          /\ UNCHANGED <<at, has, dropping, slot, timer, armed, due, control, ended,
                         op, calling, pausedSince>>
        BY <1>7 DEF SourceWakes, lane, timing, handle
    <2>2. calling' \in BOOLEAN /\ listens' \in BOOLEAN /\ timer' \subseteq timer
          /\ \A t \in timer : t # 0 => t \in timer'
        BY <2>1 DEF Inv, Types
    <2>3. QED
        BY <2>1, <2>2, WakeKeeps
<1>8. CASE Tick
    BY <1>8, TickKeeps
<1>9. CASE (\E o \in Outputs : Frees(o)) \/ UNCHANGED vars
    <2>1. UNCHANGED <<at, has, dropping, slot, line, queued, senders, timer, armed, due,
                      control, ended, op, calling, pausedSince, listens>>
        BY <1>9 DEF Frees, vars, lane, waking, timing, handle, stage
    <2>2. ReadyIsComing' <=> ReadyIsComing
        BY <2>1 DEF ReadyIsComing
    <2>3. Types' /\ Added'
        BY <2>1 DEF Inv, Types, Added
    <2>4. QueuedIsComing' /\ SlotIsTask' /\ AskedIsComing'
        BY <2>1, <2>2 DEF Inv, QueuedIsComing, SlotIsTask, AskedIsComing
    <2>5. ArmedIsTimed' /\ DueIsTimed' /\ WaitsForSomething'
        BY <2>1, <2>2 DEF Inv, ArmedIsTimed, DueIsTimed, WaitsForSomething
    <2>6. QED
        BY <2>3, <2>4, <2>5 DEF Inv
<1>10. QED
    BY <1>1, <1>2, <1>3, <1>4, <1>5, <1>6, <1>7, <1>8, <1>9 DEF Next, Returns

\* So it holds in every state.
LEMMA InvCorrect == Spec => []Inv
BY InitInv, InvInductive, PTL DEF Spec

\* What a driven pipeline was asked, at whatever moment of a poll, and the time
\* its last poll asked for, have it polled again: the waker slot, the mark
\* that keeps wakes from doubling and the deadline kept armed lose none.
THEOREM WakeIsOnItsWayHolds == Spec => []WakeIsOnItsWay
<1>1. Inv => WakeIsOnItsWay
    BY DEF Inv, Added, AskedIsComing, DueIsTimed, WakeIsOnItsWay, Idle
<1>2. QED
    BY <1>1, InvCorrect, PTL

\* What is held back for an output that makes no room known is looked at again:
\* a poll never answers Pending with nothing to have the next.
THEOREM HeldIsLookedAtHolds == Spec => []HeldIsLookedAt
<1>1. Inv => HeldIsLookedAt
    BY DEF Inv, WaitsForSomething, HeldIsLookedAt, Idle
<1>2. QED
    BY <1>1, InvCorrect, PTL

-----------------------------------------------------------------------------
(* Paused as asked.                                                        *)

NoneAsked == control = <<>> /\ op = <<>>
LastAsked == IF op = <<>> THEN control[Len(control)] ELSE op[Len(op)]

\* What is still to be taken ends in what the phase says; with nothing of it
\* left, the source is as the phase says.
AgreesWith(asks, last, in) ==
    /\ paused <=> phase = "Paused"
    /\ ~asks => (in <=> phase = "Paused")
    /\ asks => /\ last = "Pause" <=> phase = "Paused"
               /\ last = "Resume" => phase = "Playing"
Agrees ==
    /\ paused \in BOOLEAN
    /\ calling \/ op = <<>>
    /\ ~ended /\ ~dropping /\ at \notin {"dropped", "over"} =>
           AgreesWith(~NoneAsked, LastAsked, pausedSince)

Requests == {"Pause", "Resume", "Stop", "Finish"}

\* What a sequence ends in, with one more and with one less.
LEMMA Lasts ==
    /\ \A s \in Seq(Requests), x \in Requests :
          /\ Append(s, x) \in Seq(Requests) /\ Append(s, x) # <<>>
          /\ Append(s, x)[Len(Append(s, x))] = x
    /\ \A s \in Seq(Requests) : s # <<>> =>
          /\ Tail(s) \in Seq(Requests) /\ Head(s) \in Requests
          /\ Tail(s) = <<>> => Head(s) = s[Len(s)]
          /\ Tail(s) # <<>> => Tail(s)[Len(Tail(s))] = s[Len(s)]
<1>1. ASSUME NEW s \in Seq(Requests), NEW x \in Requests
      PROVE  /\ Append(s, x) \in Seq(Requests) /\ Append(s, x) # <<>>
             /\ Append(s, x)[Len(Append(s, x))] = x
    OBVIOUS
<1>2. ASSUME NEW s \in Seq(Requests), s # <<>>
      PROVE  /\ Tail(s) \in Seq(Requests) /\ Head(s) \in Requests
             /\ Tail(s) = <<>> => Head(s) = s[Len(s)]
             /\ Tail(s) # <<>> => Tail(s)[Len(Tail(s))] = s[Len(s)]
    <2>1. /\ Len(s) \in Nat /\ Len(s) > 0 /\ Head(s) = s[1] /\ Tail(s) \in Seq(Requests)
          /\ Len(Tail(s)) = Len(s) - 1 /\ Head(s) \in Requests
          /\ \A i \in 1 .. Len(s) - 1 : Tail(s)[i] = s[i + 1]
        BY <1>2
    <2>2. Tail(s) = <<>> => Len(s) = 1
        <3>1. Tail(s) = <<>> => Len(Tail(s)) = 0
            BY EmptySeq
        <3> QED
            BY <2>1, <3>1
    <2>3. Tail(s) # <<>> => Len(Tail(s)) \in 1 .. Len(s) - 1 /\ Len(Tail(s)) + 1 = Len(s)
        BY <2>1
    <2> QED
        BY <2>1, <2>2, <2>3
<1> QED
    BY <1>1, <1>2

\* The handles' calls leave what they ask for last.
LEMMA CallsAgree ==
    ASSUME Inv, Agrees, Handle \/ Enqueues
    PROVE  Agrees'
<1>1. control \in Seq(Requests) /\ op \in Seq(Requests) /\ calling \in BOOLEAN
    BY DEF Inv, Types, Requests
<1>2. CASE Handle
    <2>1. /\ ~calling /\ calling' = TRUE /\ op = <<>>
          /\ UNCHANGED <<at, dropping, control, ended, pausedSince>>
        BY <1>2 DEF Handle, Pause, Resume, Stop, Finish, Calls, lane, stage, Agrees
    <2>2. \/ paused' = TRUE /\ phase' = "Paused" /\ op' = <<"Pause">>
          \/ paused' = FALSE /\ phase' = "Playing" /\ op' = <<"Resume">>
          \/ paused' = FALSE /\ phase' = "Stopped" /\ op' = <<"Stop">>
          \/ /\ paused' = FALSE /\ phase' = (IF paused THEN "Playing" ELSE phase)
             /\ op' = IF paused THEN <<"Resume", "Finish">> ELSE <<"Finish">>
        BY <1>2 DEF Handle, Pause, Resume, Stop, Finish, Calls
    <2>3. /\ Len(<<"Pause">>) = 1 /\ <<"Pause">>[1] = "Pause"
          /\ Len(<<"Resume">>) = 1 /\ <<"Resume">>[1] = "Resume"
          /\ Len(<<"Stop">>) = 1 /\ <<"Stop">>[1] = "Stop"
          /\ Len(<<"Finish">>) = 1 /\ <<"Finish">>[1] = "Finish"
          /\ Len(<<"Resume", "Finish">>) = 2 /\ <<"Resume", "Finish">>[2] = "Finish"
          /\ <<"Pause">> # <<>> /\ <<"Resume">> # <<>> /\ <<"Stop">> # <<>>
          /\ <<"Finish">> # <<>> /\ <<"Resume", "Finish">> # <<>>
        OBVIOUS
    <2>4. paused \in BOOLEAN
        BY DEF Agrees
    <2>5. /\ op' # <<>> /\ paused' \in BOOLEAN
          /\ paused' <=> phase' = "Paused"
          /\ op'[Len(op')] = "Pause" <=> phase' = "Paused"
          /\ op'[Len(op')] = "Resume" => phase' = "Playing"
          \/ ~(paused <=> phase = "Paused")
        <3>1. CASE paused' = TRUE /\ phase' = "Paused" /\ op' = <<"Pause">>
            BY <2>3, <3>1
        <3>2. CASE paused' = FALSE /\ phase' = "Playing" /\ op' = <<"Resume">>
            BY <2>3, <3>2
        <3>3. CASE paused' = FALSE /\ phase' = "Stopped" /\ op' = <<"Stop">>
            BY <2>3, <3>3
        <3>4. CASE /\ paused' = FALSE /\ phase' = (IF paused THEN "Playing" ELSE phase)
                   /\ op' = IF paused THEN <<"Resume", "Finish">> ELSE <<"Finish">>
            <4>1. CASE paused
                BY <2>3, <3>4, <4>1
            <4>2. CASE ~paused
                BY <2>3, <3>4, <4>2
            <4> QED
                BY <4>1, <4>2
        <3> QED
            BY <2>2, <3>1, <3>2, <3>3, <3>4
    <2> QED
        BY <2>1, <2>2, <2>5 DEF Agrees, AgreesWith, NoneAsked, LastAsked
<1>3. CASE Enqueues
    <2>1. /\ op # <<>> /\ calling /\ calling' = calling /\ op' = Tail(op)
          /\ control' = (IF ended THEN control ELSE Append(control, Head(op)))
          /\ UNCHANGED <<at, dropping, ended, pausedSince, paused, phase>>
        BY <1>3 DEF Enqueues, lane, stage
    <2>2. CASE ended
        BY <2>1, <2>2 DEF Agrees
    <2>3. CASE ~ended
        <3>1. control' = Append(control, Head(op))
            BY <2>1, <2>3
        <3>2. ~NoneAsked /\ ~NoneAsked'
            BY <1>1, <2>1, <3>1, Lasts DEF NoneAsked
        <3>3. LastAsked' = LastAsked
            BY <1>1, <2>1, <3>1, Lasts DEF LastAsked
        <3> QED
            BY <2>1, <3>2, <3>3 DEF Agrees, AgreesWith
    <2> QED
        BY <2>2, <2>3, <1>1
<1> QED
    BY <1>2, <1>3

\* A request taken is the last of what is asked, or leaves it.
LEMMA TakesAgree ==
    ASSUME Inv, Agrees, NEW msg \in Requests, Takes(msg), at' \in {"take", "over"},
           phase' = phase, pausedSince' \in BOOLEAN,
           (msg = "Pause" <=> phase = "Paused") /\ (msg = "Resume" => phase = "Playing")
               /\ at' = "take" => (pausedSince' <=> phase = "Paused")
    PROVE  Agrees'
<1>1. control \in Seq(Requests) /\ op \in Seq(Requests) /\ calling \in BOOLEAN
    BY DEF Inv, Types, Requests
<1>2. /\ control # <<>> /\ Head(control) = msg /\ control' = Tail(control)
      /\ at = "take" /\ UNCHANGED <<dropping, ended, op, calling, paused>>
    BY DEF Takes, InPoll, handle
<1>3. CASE at' = "over"
    BY <1>2, <1>3 DEF Agrees
<1>4. CASE at' = "take"
    <2>1. SUFFICES ASSUME ~ended, ~dropping
                   PROVE  AgreesWith(~NoneAsked, LastAsked, pausedSince)'
        BY <1>2 DEF Agrees
    <2>2. AgreesWith(~NoneAsked, LastAsked, pausedSince)
        BY <1>2, <2>1 DEF Agrees
    <2>3. ~NoneAsked
        BY <1>2 DEF NoneAsked
    <2>4. CASE NoneAsked'
        <3>1. op = <<>> /\ LastAsked = msg
            BY <1>1, <1>2, <2>4, Lasts DEF NoneAsked, LastAsked
        <3> QED
            BY <1>2, <1>4, <2>2, <2>3, <2>4, <3>1 DEF AgreesWith
    <2>5. CASE ~NoneAsked'
        <3>1. LastAsked' = LastAsked
            BY <1>1, <1>2, <2>5, Lasts DEF NoneAsked, LastAsked
        <3> QED
            BY <1>2, <2>2, <2>3, <2>5, <3>1 DEF AgreesWith
    <2> QED
        BY <2>4, <2>5
<1> QED
    BY <1>3, <1>4

\* So does the step of anybody.
LEMMA AgreesNext == Inv /\ Agrees /\ [Next]_vars => Agrees'
<1> SUFFICES ASSUME Inv, Agrees, [Next]_vars
             PROVE  Agrees'
    OBVIOUS
<1> DEFINE Stays == UNCHANGED <<paused, phase, control, op, calling, pausedSince, ended,
                                dropping>>
           Goes  == at \in {"dropped", "over"} => at' \in {"dropped", "over"}
<1>1. CASE Stays /\ Goes
    <2>1. (LastAsked' = LastAsked) /\ (NoneAsked' <=> NoneAsked)
        BY <1>1 DEF LastAsked, NoneAsked
    <2> QED
        BY <1>1, <2>1 DEF Agrees, AgreesWith
<1>2. CASE Handle \/ Enqueues
    BY <1>2, CallsAgree
<1>3. CASE Takings
    <2>1. PICK msg \in {"Pause", "Resume", "Stop"} : LeavesPause(msg) \/ Applies(msg)
        BY <1>3 DEF Takings
    <2>2. Takes(msg) /\ msg \in Requests /\ at' \in {"take", "over"} /\ phase' = phase
        BY <2>1 DEF LeavesPause, Applies, GoesOn, Ends, Takes, InPoll, Requests
    <2>3. pausedSince \in BOOLEAN
        BY DEF Inv, Types
    <2>4. CASE LeavesPause(msg)
        <3>1. pausedSince' = FALSE /\ phase \notin {"Paused", "Stopped"}
            BY <2>4 DEF LeavesPause, PauseIsOver, Holds
        <3> QED
            BY <2>2, <3>1, TakesAgree
    <2>5. CASE Applies(msg)
        <3>1. /\ pausedSince => phase \in {"Paused", "Stopped"}
              /\ pausedSince' = (msg # "Stop" /\ (pausedSince \/ msg = "Pause"))
              /\ at' = "take" => msg # "Stop"
            BY <2>5 DEF Applies, Holds, Ends
        <3>2. pausedSince' \in BOOLEAN
            BY <3>1
        <3>3. (msg = "Pause" <=> phase = "Paused") /\ (msg = "Resume" => phase = "Playing")
                 /\ at' = "take" => (pausedSince' <=> phase = "Paused")
            BY <2>1, <3>1
        <3> QED
            BY <2>2, <3>2, <3>3, TakesAgree
    <2> QED
        BY <2>1, <2>4, <2>5
<1>4. CASE TakesFinish \/ Fails \/ Over \/ EntersStopped \/ EnqueuesStop
    <2>1. /\ \/ at' \in {"over", "dropped"} \/ ended' = TRUE \/ dropping' = TRUE
          /\ UNCHANGED <<paused, calling, op>>
        BY <1>4 DEF TakesFinish, Takes, Fails, Ends, Over, EntersStopped, EnqueuesStop, InPoll,
           handle
    <2> QED
        BY <2>1 DEF Agrees
<1>5. CASE WakesPoll
    <2>1. /\ op = <<>> /\ calling' = FALSE
          /\ UNCHANGED <<paused, phase, control, op, pausedSince, ended, dropping, at>>
        BY <1>5 DEF WakesPoll, lane, stage
    <2>2. (LastAsked' = LastAsked) /\ (NoneAsked' <=> NoneAsked)
        BY <2>1 DEF LastAsked, NoneAsked
    <2> QED
        BY <2>1, <2>2 DEF Agrees, AgreesWith
<1>6. CASE Receives \/ ClearsQueued \/ Polls
    <2>1. Stays /\ at' \notin {"dropped", "over"} /\ at \notin {"dropped", "over"}
        BY <1>6 DEF Receives, ClearsQueued, Polls, handle, stage
    <2> QED
        BY <1>1, <2>1
<1>7. CASE NothingAsked \/ DrainsOne \/ Drained \/ EndsOutputs
    <2>1. Stays /\ at \notin {"dropped", "over"}
        BY <1>7 DEF NothingAsked, DrainsOne, Drained, EndsOutputs, GivesEnds, InPoll,
           handle, stage
    <2> QED
        BY <1>1, <2>1
<1>8. CASE \/ Waits \/ BeginsOwed \/ \E o \in Outputs : Makes(o)
           \/ MakesFlush \/ MakesSegment \/ MakesNothing \/ MakesEnd
    <2>1. Stays /\ at = "produce"
        BY <1>8 DEF Waits, BeginsOwed, Makes, MakesFlush, MakesSegment, MakesNothing,
           MakesEnd, IsAsked, Asks, InPoll, handle, stage
    <2> QED
        BY <1>1, <2>1
<1>9. CASE \/ DropsRunner \/ Sends \/ TimerWakes \/ SourceWakes \/ Tick
           \/ (\E o \in Outputs : Frees(o)) \/ UNCHANGED vars
    <2>1. Stays /\ at' = at
        BY <1>9 DEF DropsRunner, Sends, TimerWakes, SourceWakes, Tick, Frees, vars, lane, handle,
           stage
    <2> QED
        BY <1>1, <2>1
<1> QED
    BY <1>2, <1>3, <1>4, <1>5, <1>6, <1>7, <1>8, <1>9 DEF Next, Lane, Returns

\* Once what was asked has been taken, the source is paused where the last call
\* paused it: of a burst of calls between two polls the last decides, though a
\* request found behind a pause only leaves it.
THEOREM AsAskedHolds == Spec => []AsAsked
<1>1. Init => Agrees
    BY DEF Init, Agrees, AgreesWith, NoneAsked
<1>2. Inv /\ Agrees => AsAsked
    BY DEF Agrees, AgreesWith, NoneAsked, AsAsked, Idle, Inv, Added
<1> QED
    BY <1>1, <1>2, AgreesNext, InvCorrect, PTL DEF Spec

-----------------------------------------------------------------------------
(* What is held back, and what of it is for one output.                    *)

HeldItem == [to : Outputs, n : Nat, segment : Nat]
Rises(s) == \A i, j \in 1 .. Len(s) : i < j => s[i].n < s[j].n

\* part is built over s, one of it after another.
Parts(part, s, os) ==
    /\ part \in [0 .. Len(s) -> Seq(HeldItem)] /\ part[0] = <<>>
    /\ \A i \in 1 .. Len(s) :
          part[i] = IF s[i].to \in os THEN Append(part[i-1], s[i]) ELSE part[i-1]
    /\ PartFor(s, os) = part[Len(s)]

\* The recursion of PartFor defines what it says.
LEMMA PartForIs ==
    ASSUME NEW s \in Seq(HeldItem), NEW os
    PROVE  \E part : Parts(part, s, os)
  <1> DEFINE n == Len(s)
             Q == Seq(HeldItem)
             G(i, t) == IF s[i].to \in os THEN Append(t, s[i]) ELSE t
             g == [x \in (1 .. n) \X Q |-> G(x[1], x[2])]
             body(f) == [i \in 0 .. n |-> IF i = 0 THEN <<>> ELSE G(i, f[i-1])]
             part == CHOOSE f : f = body(f)
  <1>1. n \in Nat /\ <<>> \in Q /\ \A i \in 1 .. n, t \in Q : G(i, t) \in Q
    BY AppendProperties, ElementOfSeq, LenProperties
  <1>2. PartFor(s, os) = part[n]
    BY DEF PartFor
  <1> HIDE DEF G, n, Q
  <1>3. g \in [(1 .. n) \X Q -> Q] /\ \A i \in 1 .. n, t \in Q : g[<<i, t>>] = G(i, t)
    BY <1>1
  <1> HIDE DEF g
  <1>4. PICK f : GoesBy(f, n, Q, <<>>, g)
    BY <1>1, <1>3, Stepwise
  <1>5. \A i \in 1 .. n : f[i] = G(i, f[i-1])
    <2>1. ASSUME NEW i \in 1 .. n PROVE f[i-1] \in Q /\ f[i] = g[<<i, f[i-1]>>]
      BY <1>1, <1>4 DEF GoesBy
    <2> QED  BY <1>3, <2>1
  <1>6. f = body(f)
    <2>1. ASSUME NEW i \in 0 .. n PROVE f[i] = IF i = 0 THEN <<>> ELSE G(i, f[i-1])
      BY <1>1, <1>4, <1>5 DEF GoesBy
    <2>2. f = [i \in 0 .. n |-> f[i]]
      BY <1>4 DEF GoesBy
    <2> QED  BY <2>1, <2>2
  <1>7. part = body(part)
    BY <1>6
  <1>8. part[0] = <<>> /\ \A i \in 1 .. n : part[i] = G(i, part[i-1])
    <2> HIDE DEF part
    <2> QED  BY <1>1, <1>7
  <1> HIDE DEF part
  <1>9. \A i \in 0 .. n : part[i] = f[i]
    <2>1. GoAlike(part, f, n)
      BY <1>4, <1>5, <1>8 DEF GoesBy, GoAlike
    <2>2. n \in Nat
      BY <1>1
    <2>3. Alike(part, f, n)
      BY <2>1, <2>2, StepsAgree
    <2> QED  BY <2>3 DEF Alike
  <1>10. PartFor(s, os) = f[n]
    BY <1>1, <1>2, <1>9
  <1> QED  BY <1>4, <1>5, <1>10 DEF GoesBy, Parts, G, n, Q

\* t is what the first k of s have for the outputs.
IsPartOf(t, s, os, k) ==
    /\ t \in Seq(HeldItem)
    /\ \A m \in 1 .. Len(t) : \E i \in 1 .. k : t[m] = s[i] /\ s[i].to \in os
    /\ \A i \in 1 .. k : s[i].to \in os => \E m \in 1 .. Len(t) : t[m] = s[i]
    /\ Rises(s) => Rises(t)

\* One more is for them, or is not.
LEMMA PartGrows ==
    ASSUME NEW s \in Seq(HeldItem), NEW os, NEW k \in 1 .. Len(s), NEW t,
           IsPartOf(t, s, os, k - 1)
    PROVE  IsPartOf(IF s[k].to \in os THEN Append(t, s[k]) ELSE t, s, os, k)
  <1>1. Len(s) \in Nat /\ k \in Nat /\ \A i : i \in 1 .. k <=> i \in 1 .. k - 1 \/ i = k
    OBVIOUS
  <1>2. CASE s[k].to \notin os
    BY <1>1, <1>2 DEF IsPartOf
  <1>3. CASE s[k].to \in os
    <2> DEFINE u == Append(t, s[k])
    <2>1. /\ t \in Seq(HeldItem) /\ s[k] \in HeldItem /\ Len(t) \in Nat
          /\ u \in Seq(HeldItem) /\ Len(u) = Len(t) + 1
          /\ u[Len(t) + 1] = s[k] /\ \A m \in 1 .. Len(t) : u[m] = t[m]
      BY ElementOfSeq, AppendProperties, LenProperties DEF IsPartOf
    <2>2. \A m : m \in 1 .. Len(u) <=> m \in 1 .. Len(t) \/ m = Len(t) + 1
      BY <2>1
    <2> HIDE DEF u
    <2>3. ASSUME NEW m \in 1 .. Len(u)
          PROVE  \E i \in 1 .. k : u[m] = s[i] /\ s[i].to \in os
      <3>1. CASE m = Len(t) + 1
        BY <1>1, <1>3, <2>1, <3>1
      <3>2. CASE m \in 1 .. Len(t)
        <4>1. PICK i \in 1 .. k - 1 : t[m] = s[i] /\ s[i].to \in os
          BY <3>2 DEF IsPartOf
        <4> QED  BY <1>1, <2>1, <3>2, <4>1
      <3> QED  BY <2>2, <3>1, <3>2
    <2>4. ASSUME NEW i \in 1 .. k, s[i].to \in os PROVE \E m \in 1 .. Len(u) : u[m] = s[i]
      <3>1. CASE i = k
        BY <2>1, <2>2, <3>1
      <3>2. CASE i \in 1 .. k - 1
        <4>1. PICK m \in 1 .. Len(t) : t[m] = s[i]
          BY <2>4, <3>2 DEF IsPartOf
        <4> QED  BY <2>1, <2>2, <4>1
      <3> QED  BY <1>1, <3>1, <3>2
    <2>5. ASSUME Rises(s), NEW i \in 1 .. Len(u), NEW j \in 1 .. Len(u), i < j
          PROVE  u[i].n < u[j].n
      <3>1. i \in 1 .. Len(t)
        BY <2>1, <2>2, <2>5
      <3>2. CASE j \in 1 .. Len(t)
        BY <2>1, <2>5, <3>1, <3>2 DEF IsPartOf, Rises
      <3>3. CASE j = Len(t) + 1
        <4>1. PICK x \in 1 .. k - 1 : t[i] = s[x]
          BY <3>1 DEF IsPartOf
        <4>2. x \in 1 .. Len(s) /\ x < k
          BY <1>1, <4>1
        <4>3. s[x].n < s[k].n
          BY <2>5, <4>2 DEF Rises
        <4> QED  BY <2>1, <3>1, <3>3, <4>1, <4>3
      <3> QED  BY <2>2, <3>2, <3>3
    <2>6. IsPartOf(u, s, os, k)
      BY <2>1, <2>3, <2>4, <2>5 DEF IsPartOf, Rises
    <2> QED  BY <1>3, <2>6 DEF u
  <1> QED  BY <1>2, <1>3

\* The part of what is held that is for some outputs has all of it, and in
\* the order it is held.
LEMMA PartForHas ==
    ASSUME NEW s \in Seq(HeldItem), NEW os
    PROVE  IsPartOf(PartFor(s, os), s, os, Len(s))
  <1>1. PICK part : Parts(part, s, os)
    BY PartForIs
  <1> DEFINE n == Len(s)
             Bad == {i \in 0 .. n : ~IsPartOf(part[i], s, os, i)}
  <1>2. n \in Nat
    BY LenProperties
  <1>3. SUFFICES Bad = {}
    <2>1. ASSUME Bad = {} PROVE IsPartOf(part[n], s, os, n)
      BY <1>2, <2>1
    <2> QED  BY <1>1, <2>1 DEF Parts
  <1>4. SUFFICES ASSUME Bad # {} PROVE FALSE
    OBVIOUS
  <1>5. PICK k \in Bad : \A j \in Bad : k <= j
    <2>1. Bad \subseteq Nat
      OBVIOUS
    <2> HIDE DEF Bad
    <2> QED  BY <1>4, <2>1, LeastOf
  <1>6. k # 0
    <2>1. part[0] = <<>> /\ <<>> \in Seq(HeldItem) /\ Len(<<>>) = 0
      BY <1>1 DEF Parts
    <2>2. IsPartOf(part[0], s, os, 0)
      BY <2>1 DEF IsPartOf, Rises
    <2> QED  BY <1>5, <2>2
  <1>7. k \in 1 .. n /\ k - 1 \in 0 .. n
    BY <1>2, <1>5, <1>6
  <1>8. IsPartOf(part[k - 1], s, os, k - 1)
    <2>1. k - 1 \notin Bad
      <3> HIDE DEF Bad
      <3> QED  BY <1>2, <1>5, <1>7
    <2> QED  BY <1>7, <2>1
  <1>9. part[k] = IF s[k].to \in os THEN Append(part[k-1], s[k]) ELSE part[k-1]
    BY <1>1, <1>7 DEF Parts
  <1>10. IsPartOf(part[k], s, os, k)
    <2> HIDE DEF Bad
    <2> QED  BY <1>7, <1>8, <1>9, PartGrows
  <1> QED  BY <1>5, <1>10

-----------------------------------------------------------------------------
(* What an output was handed.                                              *)

HandedItem == [is : {"buffer", "segment", "eos"}, n : Nat, segment : Nat]
Bufs(l) == {i \in 1 .. Len(l) : l[i].is = "buffer"}
Nums(l) == {l[i].n : i \in Bufs(l)}
HasEnd(l) == \E i \in 1 .. Len(l) : l[i] = Eos

InOrder(l) ==
    /\ \A i, j \in Bufs(l) : i < j => l[i].n < l[j].n
    /\ \A i \in Bufs(l), j \in 1 .. Len(l) :
           l[j].is = "segment" => (j < i <=> l[j].segment <= l[i].segment)
    /\ \A i \in 1 .. Len(l) : l[i] = Eos => i = Len(l)

\* Of the first k segments, and the first m buffers made.
LogIs(l, k, m) ==
    /\ l \in Seq(HandedItem)
    /\ InOrder(l)
    /\ \A i \in 1 .. Len(l) : l[i].segment \in 0 .. k
    /\ \A i \in Bufs(l) : l[i].n \in 1 .. m

\* Where what follows lies in two sequences one after the other.
LEMMA ConcatIs ==
    ASSUME NEW S, NEW l \in Seq(S), NEW b \in Seq(S)
    PROVE  /\ Len(l) \in Nat /\ Len(b) \in Nat
           /\ l \o b \in Seq(S) /\ Len(l \o b) = Len(l) + Len(b)
           /\ \A i \in 1 .. Len(l) : (l \o b)[i] = l[i]
           /\ \A i \in 1 .. Len(b) : (l \o b)[Len(l) + i] = b[i]
           /\ \A i \in 1 .. Len(l) + Len(b) :
                 i \in 1 .. Len(l) \/ (i - Len(l) \in 1 .. Len(b) /\ i > Len(l)
                                       /\ (l \o b)[i] = b[i - Len(l)])
  BY ConcatProperties, LenProperties

\* Buffers of the last segment, behind those there are, are in order there.
LEMMA BuffersFollow ==
    ASSUME NEW k \in Nat, NEW m \in Nat, NEW l, LogIs(l, k, m), ~HasEnd(l),
           NEW b \in Seq(HandedItem), Rises(b),
           \A i \in 1 .. Len(b) :
              /\ b[i].is = "buffer" /\ b[i].segment = k /\ b[i].n \in 1 .. m
              /\ \A j \in Bufs(l) : l[j].n < b[i].n
    PROVE  /\ LogIs(l \o b, k, m) /\ ~HasEnd(l \o b)
           /\ Nums(l \o b) = Nums(l) \cup {b[i].n : i \in 1 .. Len(b)}
  <1> DEFINE t == l \o b
             L == Len(l)
  <1>1. /\ L \in Nat /\ Len(b) \in Nat /\ t \in Seq(HandedItem) /\ Len(t) = L + Len(b)
        /\ \A i \in 1 .. L : t[i] = l[i]
        /\ \A i \in 1 .. Len(b) : t[L + i] = b[i]
        /\ \A i \in 1 .. Len(t) : i \in 1 .. L \/ (i - L \in 1 .. Len(b) /\ i > L
                                                     /\ t[i] = b[i - L])
    <2>1. l \in Seq(HandedItem)
      BY DEF LogIs
    <2> QED  BY <2>1, ConcatIs
  <1>2. /\ InOrder(l) /\ \A i \in 1 .. L : l[i].segment \in 0 .. k
        /\ \A i \in Bufs(l) : l[i].n \in 1 .. m
    BY DEF LogIs
  <1> HIDE DEF t, L
  <1>3. \A i \in 1 .. Len(b) : b[i] # Eos
    BY DEF Eos
  <1>4. ~HasEnd(t)
    BY <1>1, <1>3 DEF HasEnd, L
  <1>5. \A i \in Bufs(l) : i \in Bufs(t) /\ t[i] = l[i] /\ i \in 1 .. L
    BY <1>1 DEF Bufs, L
  <1>6. \A i \in 1 .. Len(b) : L + i \in Bufs(t) /\ t[L + i] = b[i]
    BY <1>1 DEF Bufs
  <1>7. \A i \in Bufs(t) : \/ i \in Bufs(l) /\ i \in 1 .. L /\ t[i] = l[i]
                           \/ i - L \in 1 .. Len(b) /\ i > L /\ t[i] = b[i - L]
    BY <1>1 DEF Bufs, L
  <1>8. InOrder(t)
    <2>1. ASSUME NEW i \in Bufs(t), NEW j \in Bufs(t), i < j PROVE t[i].n < t[j].n
      <3>1. CASE i \in Bufs(l) /\ j \in Bufs(l)
        BY <1>2, <1>5, <2>1, <3>1 DEF InOrder
      <3>2. CASE i \in Bufs(l) /\ j - L \in 1 .. Len(b) /\ t[j] = b[j - L]
        BY <1>5, <3>2
      <3>3. CASE /\ i - L \in 1 .. Len(b) /\ t[i] = b[i - L] /\ i > L
                 /\ j - L \in 1 .. Len(b) /\ t[j] = b[j - L]
        <4>1. i - L < j - L
          BY <1>1, <2>1 DEF Bufs
        <4> QED  BY <3>3, <4>1 DEF Rises
      <3>4. i \in Bufs(l) \/ j \notin Bufs(l)
        BY <1>1, <1>5, <1>7, <2>1 DEF Bufs
      <3> QED  BY <1>7, <3>1, <3>2, <3>3, <3>4
    <2>2. ASSUME NEW i \in Bufs(t), NEW j \in 1 .. Len(t), t[j].is = "segment"
          PROVE  j < i <=> t[j].segment <= t[i].segment
      <3>1. j \in 1 .. L /\ t[j] = l[j]
        BY <1>1, <2>2
      <3>2. CASE i \in Bufs(l)
        BY <1>2, <1>5, <2>2, <3>1, <3>2 DEF InOrder, L
      <3>3. CASE i - L \in 1 .. Len(b) /\ i > L /\ t[i] = b[i - L]
        <4>1. j < i /\ t[i].segment = k /\ t[j].segment \in 0 .. k
          BY <1>1, <1>2, <3>1, <3>3 DEF Bufs
        <4> QED  BY <4>1
      <3> QED  BY <1>7, <3>2, <3>3
    <2> QED  BY <1>4, <2>1, <2>2 DEF InOrder, HasEnd
  <1>9. ASSUME NEW i \in 1 .. Len(t) PROVE t[i].segment \in 0 .. k
    <2>1. CASE i \in 1 .. L
      BY <1>1, <1>2, <2>1
    <2>2. CASE i - L \in 1 .. Len(b) /\ t[i] = b[i - L]
      <3>1. t[i].segment = k
        BY <2>2
      <3> QED  BY <3>1
    <2> QED  BY <1>1, <2>1, <2>2
  <1>10. \A i \in Bufs(t) : t[i].n \in 1 .. m
    BY <1>2, <1>7
  <1>11. Nums(t) = Nums(l) \cup {b[i].n : i \in 1 .. Len(b)}
    <2>1. ASSUME NEW x \in Nums(t) PROVE x \in Nums(l) \cup {b[i].n : i \in 1 .. Len(b)}
      <3>1. PICK i \in Bufs(t) : x = t[i].n
        BY <2>1 DEF Nums
      <3> QED  BY <1>7, <3>1 DEF Nums
    <2>2. ASSUME NEW x \in Nums(l) PROVE x \in Nums(t)
      <3>1. PICK i \in Bufs(l) : x = l[i].n
        BY <2>2 DEF Nums
      <3> QED  BY <1>5, <3>1 DEF Nums
    <2>3. ASSUME NEW i \in 1 .. Len(b) PROVE b[i].n \in Nums(t)
      BY <1>6 DEF Nums
    <2> QED  BY <2>1, <2>2, <2>3
  <1> QED  BY <1>1, <1>4, <1>8, <1>9, <1>10, <1>11 DEF LogIs, t

\* So is the next segment, behind them; and the end, behind everything.
LEMMA SegmentFollows ==
    ASSUME NEW k \in Nat, NEW m \in Nat, NEW l, LogIs(l, k, m), ~HasEnd(l)
    PROVE  /\ LogIs(Append(l, SegmentOf(k + 1)), k + 1, m)
           /\ ~HasEnd(Append(l, SegmentOf(k + 1)))
           /\ Nums(Append(l, SegmentOf(k + 1))) = Nums(l)
           /\ LogIs(Append(l, Eos), k, m) /\ HasEnd(Append(l, Eos))
           /\ Nums(Append(l, Eos)) = Nums(l)
  <1>1. /\ SegmentOf(k + 1) \in HandedItem /\ SegmentOf(k + 1).is = "segment"
        /\ SegmentOf(k + 1).segment = k + 1 /\ SegmentOf(k + 1) # Eos
        /\ Eos \in HandedItem /\ Eos.is = "eos" /\ Eos.segment = 0
    BY DEF SegmentOf, Eos, HandedItem
  <1>2. ASSUME NEW x \in HandedItem, x.is # "buffer", NEW y \in {k, k + 1},
               x.segment \in 0 .. y, x.is = "segment" => x.segment > k
        PROVE  /\ LogIs(Append(l, x), y, m) /\ Nums(Append(l, x)) = Nums(l)
               /\ HasEnd(Append(l, x)) <=> x = Eos
    <2> DEFINE t == Append(l, x)
               L == Len(l)
    <2>1. /\ L \in Nat /\ t \in Seq(HandedItem) /\ Len(t) = L + 1 /\ t[L + 1] = x
          /\ \A i \in 1 .. L : t[i] = l[i]
          /\ \A i : i \in 1 .. L + 1 <=> i \in 1 .. L \/ i = L + 1
      BY AppendProperties, LenProperties DEF LogIs
    <2>2. /\ InOrder(l) /\ \A i \in 1 .. L : l[i].segment \in 0 .. k
          /\ \A i \in Bufs(l) : l[i].n \in 1 .. m
      BY DEF LogIs
    <2> HIDE DEF t
    <2>3. Bufs(t) = Bufs(l) /\ \A i \in Bufs(l) : i \in 1 .. L /\ t[i] = l[i]
      BY <1>2, <2>1 DEF Bufs
    <2>4. HasEnd(t) <=> x = Eos
      BY <2>1 DEF HasEnd
    <2>5. InOrder(t)
      <3>1. \A i, j \in Bufs(t) : i < j => t[i].n < t[j].n
        BY <2>2, <2>3 DEF InOrder
      <3>2. ASSUME NEW i \in Bufs(t), NEW j \in 1 .. Len(t), t[j].is = "segment"
            PROVE  j < i <=> t[j].segment <= t[i].segment
        <4>1. CASE j \in 1 .. L
          BY <2>1, <2>2, <2>3, <3>2, <4>1 DEF InOrder
        <4>2. CASE j = L + 1
          <5>1. i \in 1 .. L /\ t[i].segment \in 0 .. k
            BY <2>2, <2>3
          <5>2. x.segment \in 0 .. k + 1 /\ x.segment > k
            BY <1>2, <2>1, <3>2, <4>2
          <5> QED  BY <2>1, <4>2, <5>1, <5>2
        <4> QED  BY <2>1, <4>1, <4>2
      <3>3. \A i \in 1 .. Len(t) : t[i] = Eos => i = Len(t)
        BY <2>1 DEF HasEnd
      <3> QED  BY <3>1, <3>2, <3>3 DEF InOrder
    <2>6. \A i \in 1 .. Len(t) : t[i].segment \in 0 .. y
      BY <1>2, <2>1, <2>2
    <2>7. Nums(t) = Nums(l) /\ \A i \in Bufs(t) : t[i].n \in 1 .. m
      <3>1. {t[i].n : i \in Bufs(l)} = {l[i].n : i \in Bufs(l)}
        BY <2>3
      <3> QED  BY <2>2, <2>3, <3>1 DEF Nums
    <2> QED  BY <2>1, <2>4, <2>5, <2>6, <2>7 DEF LogIs, t
  <1> QED  BY <1>1, <1>2

-----------------------------------------------------------------------------
(* What an output was handed, and what is held for it.                     *)

HoldsIn(s, o) == {s[i] : i \in {j \in 1 .. Len(s) : s[j].to = o}}

\* What is held, of segment k and of what was made: in the order it was made.
HeldIs(s, k, all) ==
    /\ \A i \in 1 .. Len(s) : /\ s[i].n \in 1 .. Len(all) /\ all[s[i].n] = s[i].to
                              /\ s[i].segment = k
    /\ Rises(s)

\* All of mine, what was made for an output, was handed to it, was let go of by
\* a flush or is held - or was lost with the pipeline - and its end is behind it.
StreamIs(l, h, k, m, mine, gone, lost, over) ==
    /\ LogIs(l, k, m)
    /\ \A p \in h : p.n \in 1 .. m /\ \A j \in Bufs(l) : l[j].n < p.n
    /\ HasEnd(l) => h = {} /\ over
    /\ mine \subseteq Nums(l) \cup gone \cup {p.n : p \in h} \/ (lost /\ ~HasEnd(l))

\* Handing on what is next for it of what is held.
LEMMA StreamHands ==
    ASSUME NEW k \in Nat, NEW m \in Nat, NEW l, NEW h, NEW mine, NEW gone, NEW lost, NEW over,
           StreamIs(l, h, k, m, mine, gone, lost, over), ~HasEnd(l),
           NEW b \in Seq(HandedItem), Rises(b),
           \A i \in 1 .. Len(b) :
              /\ b[i].is = "buffer" /\ b[i].segment = k /\ b[i].n \in 1 .. m
              /\ \A j \in Bufs(l) : l[j].n < b[i].n,
           NEW left, left \subseteq h,
           \A p \in left, i \in 1 .. Len(b) : b[i].n < p.n,
           \A p \in h : p \in left \/ \E i \in 1 .. Len(b) : b[i].n = p.n
    PROVE  StreamIs(l \o b, left, k, m, mine, gone, lost, over) /\ ~HasEnd(l \o b)
  <1> DEFINE t == l \o b
  <1>1. /\ LogIs(t, k, m) /\ ~HasEnd(t)
        /\ Nums(t) = Nums(l) \cup {b[i].n : i \in 1 .. Len(b)}
    BY BuffersFollow DEF StreamIs
  <1> HIDE DEF t
  <1>2. ASSUME NEW p \in left, NEW j \in Bufs(t) PROVE t[j].n < p.n
    <2>1. t[j].n \in Nums(t)
      BY DEF Nums
    <2>2. CASE t[j].n \in Nums(l)
      <3>1. PICK i \in Bufs(l) : t[j].n = l[i].n
        BY <2>2 DEF Nums
      <3> QED  BY <3>1 DEF StreamIs
    <2>3. CASE t[j].n \in {b[i].n : i \in 1 .. Len(b)}
      BY <2>3
    <2> QED  BY <1>1, <2>1, <2>2, <2>3
  <1>3. Nums(l) \cup gone \cup {p.n : p \in h} \subseteq Nums(t) \cup gone \cup {p.n : p \in left}
    <2>1. ASSUME NEW p \in h PROVE p.n \in Nums(t) \cup {q.n : q \in left}
      <3>1. CASE p \in left
        BY <3>1
      <3>2. CASE \E i \in 1 .. Len(b) : b[i].n = p.n
        BY <1>1, <3>2
      <3> QED  BY <3>1, <3>2
    <2> QED  BY <1>1, <2>1
  <1>4. \A p \in left : p.n \in 1 .. m
    BY DEF StreamIs
  <1>5. mine \subseteq Nums(t) \cup gone \cup {p.n : p \in left} \/ (lost /\ ~HasEnd(t))
    BY <1>1, <1>3 DEF StreamIs
  <1>6. StreamIs(t, left, k, m, mine, gone, lost, over)
    BY <1>1, <1>2, <1>4, <1>5 DEF StreamIs
  <1> QED  BY <1>1, <1>6 DEF t

\* Beginning the next segment with nothing held for it.
LEMMA StreamTurns ==
    ASSUME NEW k \in Nat, NEW m \in Nat, NEW l, NEW mine, NEW gone, NEW lost, NEW over,
           StreamIs(l, {}, k, m, mine, gone, lost, over), ~HasEnd(l)
    PROVE  /\ StreamIs(Append(l, SegmentOf(k + 1)), {}, k + 1, m, mine, gone, lost, over)
           /\ ~HasEnd(Append(l, SegmentOf(k + 1)))
  <1>1. LogIs(l, k, m)
    BY DEF StreamIs
  <1>2. /\ LogIs(Append(l, SegmentOf(k + 1)), k + 1, m)
        /\ ~HasEnd(Append(l, SegmentOf(k + 1)))
        /\ Nums(Append(l, SegmentOf(k + 1))) = Nums(l)
    BY <1>1, SegmentFollows
  <1> QED  BY <1>2 DEF StreamIs

\* Ending, with nothing held for it and nothing lost.
LEMMA StreamEnds ==
    ASSUME NEW k \in Nat, NEW m \in Nat, NEW l, NEW h, NEW mine, NEW gone, NEW lost, NEW over,
           StreamIs(l, h, k, m, mine, gone, lost, over), ~HasEnd(l), h = {}, ~lost,
           NEW later, later
    PROVE  StreamIs(Append(l, Eos), h, k, m, mine, gone, lost, later)
  <1>1. LogIs(l, k, m)
    BY DEF StreamIs
  <1>2. /\ LogIs(Append(l, Eos), k, m) /\ HasEnd(Append(l, Eos))
        /\ Nums(Append(l, Eos)) = Nums(l)
    BY <1>1, SegmentFollows
  <1> QED  BY <1>2 DEF StreamIs

\* What is held for an output, with one more behind it and with the first of it
\* gone.
LEMMA HoldsInIs ==
    ASSUME NEW s \in Seq(HeldItem), NEW o
    PROVE  /\ \A p \in HeldItem :
                 HoldsIn(Append(s, p), o) = HoldsIn(s, o) \cup (IF p.to = o THEN {p} ELSE {})
           /\ \A os : HoldsIn(PartFor(s, os), o) = IF o \in os THEN HoldsIn(s, o) ELSE {}
           /\ HoldsIn(s, o) \subseteq HeldItem /\ HoldsIn(<<>>, o) = {}
           /\ (\A i \in 1 .. Len(s) : s[i].to # o) <=> HoldsIn(s, o) = {}
  <1>1. ASSUME NEW p \in HeldItem
        PROVE  HoldsIn(Append(s, p), o) = HoldsIn(s, o) \cup (IF p.to = o THEN {p} ELSE {})
    <2> DEFINE t == Append(s, p)
    <2>1. /\ Len(s) \in Nat /\ Len(t) = Len(s) + 1 /\ t[Len(s) + 1] = p
          /\ \A i \in 1 .. Len(s) : t[i] = s[i]
          /\ \A i : i \in 1 .. Len(t) <=> i \in 1 .. Len(s) \/ i = Len(s) + 1
      BY AppendProperties, LenProperties
    <2> HIDE DEF t
    <2>2. ASSUME NEW x \in HoldsIn(t, o)
          PROVE  x \in HoldsIn(s, o) \cup (IF p.to = o THEN {p} ELSE {})
      <3>1. PICK i \in 1 .. Len(t) : t[i].to = o /\ x = t[i]
        BY <2>2 DEF HoldsIn
      <3> QED  BY <2>1, <3>1 DEF HoldsIn
    <2>3. ASSUME NEW x \in HoldsIn(s, o) PROVE x \in HoldsIn(t, o)
      <3>1. PICK i \in 1 .. Len(s) : s[i].to = o /\ x = s[i]
        BY <2>3 DEF HoldsIn
      <3> QED  BY <2>1, <3>1 DEF HoldsIn
    <2>4. p.to = o => p \in HoldsIn(t, o)
      BY <2>1 DEF HoldsIn
    <2> QED  BY <2>2, <2>3, <2>4 DEF t
  <1>2. ASSUME NEW os PROVE HoldsIn(PartFor(s, os), o) = IF o \in os THEN HoldsIn(s, o) ELSE {}
    <2> DEFINE t == PartFor(s, os)
    <2>1. /\ \A m \in 1 .. Len(t) : \E i \in 1 .. Len(s) : t[m] = s[i] /\ s[i].to \in os
          /\ \A i \in 1 .. Len(s) : s[i].to \in os => \E m \in 1 .. Len(t) : t[m] = s[i]
      BY PartForHas DEF IsPartOf
    <2> HIDE DEF t
    <2>2. ASSUME NEW x \in HoldsIn(t, o) PROVE o \in os /\ x \in HoldsIn(s, o)
      <3>1. PICK m \in 1 .. Len(t) : t[m].to = o /\ x = t[m]
        BY <2>2 DEF HoldsIn
      <3>2. PICK i \in 1 .. Len(s) : t[m] = s[i] /\ s[i].to \in os
        BY <2>1
      <3> QED  BY <3>1, <3>2 DEF HoldsIn
    <2>3. ASSUME o \in os, NEW x \in HoldsIn(s, o) PROVE x \in HoldsIn(t, o)
      <3>1. PICK i \in 1 .. Len(s) : s[i].to = o /\ x = s[i]
        BY <2>3 DEF HoldsIn
      <3>2. PICK m \in 1 .. Len(t) : t[m] = s[i]
        BY <2>1, <2>3, <3>1
      <3> QED  BY <3>1, <3>2 DEF HoldsIn
    <2>4. HoldsIn(t, o) = IF o \in os THEN HoldsIn(s, o) ELSE {}
      BY <2>2, <2>3
    <2> QED  BY <2>4 DEF t
  <1>3. HoldsIn(s, o) \subseteq HeldItem
    <2>1. \A i \in 1 .. Len(s) : s[i] \in HeldItem
      BY ElementOfSeq
    <2> QED  BY <2>1 DEF HoldsIn
  <1>4. HoldsIn(<<>>, o) = {}
    <2>1. 1 .. Len(<<>>) = {}
      BY EmptySeq
    <2> QED  BY <2>1 DEF HoldsIn
  <1>5. (\A i \in 1 .. Len(s) : s[i].to # o) <=> HoldsIn(s, o) = {}
    <2>1. ASSUME NEW i \in 1 .. Len(s), s[i].to = o PROVE s[i] \in HoldsIn(s, o)
      BY <2>1 DEF HoldsIn
    <2> QED  BY <2>1 DEF HoldsIn
  <1> QED  BY <1>1, <1>2, <1>3, <1>4, <1>5

-----------------------------------------------------------------------------
(* Every output's stream.                                                  *)

StreamTypes ==
    /\ pending \in Seq(HeldItem) /\ deferred \in Seq(HeldItem)
    /\ made \in Seq(Outputs) /\ begun \in Nat
    /\ owedEnds \subseteq Outputs /\ atEnd \in BOOLEAN
    /\ log \in [Outputs -> Seq(HandedItem)]

Polling == {"take", "drain", "produce", "end", "over"}

\* Only a drain has put anything off, and that for outputs it found full; only
\* what has not ended is asked; and before the first segment nothing is.
Placed ==
    /\ at # "drain" => deferred = <<>> /\ blocked = {}
    /\ \A i \in 1 .. Len(deferred) : deferred[i].to \in blocked
    /\ at = "end" => atEnd
    /\ at = "produce" => ~atEnd
    /\ begun = 0 => /\ ~ended /\ ~atEnd /\ pending = <<>> /\ at \notin Polling
                    /\ \A o \in Outputs : log[o] = <<>>

Mine(o) == {n \in 1 .. Len(made) : made[n] = o}
HeldOf(o) == HoldsIn(deferred \o pending, o)
OverFor(o) == ended \/ at = "over" \/ (atEnd /\ o \notin owedEnds)
OutputIs(o) ==
    StreamIs(log[o], HeldOf(o), begun, Len(made), Mine(o), forgotten, ended, OverFor(o))

Streams ==
    /\ StreamTypes /\ Placed
    /\ HeldIs(deferred \o pending, begun, made)
    /\ \A o \in Outputs : OutputIs(o)

\* Outside a drain, what is held is what is pending.
LEMMA HeldIsPending ==
    ASSUME StreamTypes
    PROVE  /\ deferred \o pending \in Seq(HeldItem)
           /\ deferred = <<>> => deferred \o pending = pending
           /\ pending = <<>> => deferred \o pending = deferred
           /\ <<>> \in Seq(HeldItem) /\ Len(<<>>) = 0
  BY ConcatProperties, ConcatEmptySeq, EmptySeq DEF StreamTypes

\* Nothing is held of an output that is over.
LEMMA HeldOfTyped ==
    ASSUME Streams, NEW o \in Outputs
    PROVE  /\ HeldOf(o) \subseteq HeldItem
           /\ \A p \in HeldOf(o) : /\ p.n \in 1 .. Len(made) /\ made[p.n] = o
                                   /\ p.segment = begun /\ p.to = o
           /\ HasEnd(log[o]) => HeldOf(o) = {} /\ OverFor(o)
           /\ log[o] \in Seq(HandedItem) /\ Len(made) \in Nat /\ begun \in Nat
  <1>1. deferred \o pending \in Seq(HeldItem)
    BY HeldIsPending DEF Streams
  <1>2. HeldOf(o) \subseteq HeldItem
    BY <1>1, HoldsInIs DEF HeldOf
  <1>3. ASSUME NEW p \in HeldOf(o)
        PROVE  p.n \in 1 .. Len(made) /\ made[p.n] = o /\ p.segment = begun /\ p.to = o
    <2>1. PICK i \in 1 .. Len(deferred \o pending) :
             (deferred \o pending)[i].to = o /\ p = (deferred \o pending)[i]
      BY <1>3 DEF HeldOf, HoldsIn
    <2> QED  BY <2>1 DEF Streams, HeldIs
  <1>4. HasEnd(log[o]) => HeldOf(o) = {} /\ OverFor(o)
    BY DEF Streams, OutputIs, StreamIs
  <1> QED  BY <1>2, <1>3, <1>4, LenProperties DEF Streams, StreamTypes

\* A step that hands nothing on and makes nothing leaves the streams.
LEMMA SameStreams ==
    ASSUME Streams, UNCHANGED <<pending, deferred, blocked, made, begun, forgotten, log,
                                ended, atEnd, owedEnds>>,
           at = "over" => at' = "over",
           at' # "drain" => at # "drain", at' = "end" => atEnd, at' = "produce" => ~atEnd,
           at' \in Polling => begun # 0
    PROVE  Streams'
  <1>1. StreamTypes'
    BY DEF Streams, StreamTypes
  <1>2. Placed'
    BY DEF Streams, Placed
  <1>3. HeldIs(deferred \o pending, begun, made)'
    BY DEF Streams, HeldIs
  <1>4. ASSUME NEW o \in Outputs PROVE OutputIs(o)'
    <2>1. OutputIs(o) /\ (OverFor(o) => OverFor(o)')
      BY DEF Streams, OverFor
    <2>2. /\ HeldOf(o)' = HeldOf(o) /\ Mine(o)' = Mine(o) /\ log'[o] = log[o]
          /\ UNCHANGED <<begun, made, forgotten, ended>>
      BY DEF HeldOf, Mine
    <2> QED  BY <2>1, <2>2 DEF OutputIs, StreamIs
  <1> QED  BY <1>1, <1>2, <1>3, <1>4 DEF Streams

\* A segment begins with nothing held, or with what is held let go of.
LEMMA SegmentStreams ==
    ASSUME Streams, HandSegment(begun + 1), begun' = begun + 1,
           deferred = <<>>, blocked = {}, pending' = <<>>,
           UNCHANGED <<deferred, blocked, made, ended, atEnd, owedEnds>>,
           forgotten \cup {pending[i].n : i \in 1 .. Len(pending)} \subseteq forgotten',
           \A o \in Outputs : ~HasEnd(log[o]),
           at # "over", at' = "end" => atEnd, at' = "produce" => ~atEnd
    PROVE  Streams'
  <1>1. /\ \A o \in Outputs : log'[o] = Append(log[o], SegmentOf(begun + 1))
        /\ \A o \in Outputs : log[o] \in Seq(HandedItem)
        /\ begun \in Nat /\ Len(made) \in Nat
        /\ deferred \o pending = pending /\ deferred' \o pending' = <<>>
        /\ <<>> \in Seq(HeldItem) /\ 1 .. Len(<<>>) = {}
    BY HeldIsPending, LenProperties, EmptySeq, ConcatEmptySeq DEF Streams, StreamTypes, HandSegment
  <1>2. SegmentOf(begun + 1) \in HandedItem
    BY <1>1 DEF SegmentOf, HandedItem
  <1>3. StreamTypes'
    <2>1. ASSUME NEW o \in Outputs PROVE log'[o] \in Seq(HandedItem)
      <3>1. log[o] \in Seq(HandedItem) /\ log'[o] = Append(log[o], SegmentOf(begun + 1))
        BY <1>1
      <3> QED  BY <1>2, <3>1, AppendProperties
    <2>2. log' \in [Outputs -> Seq(HandedItem)]
      BY <2>1 DEF HandSegment
    <2> QED  BY <1>1, <2>2 DEF Streams, StreamTypes
  <1>4. Placed'
    BY <1>1 DEF Streams, Placed
  <1>5. HeldIs(deferred \o pending, begun, made)'
    BY <1>1 DEF HeldIs, Rises
  <1>6. ASSUME NEW o \in Outputs PROVE OutputIs(o)'
    <2>1. {p.n : p \in HeldOf(o)} \subseteq forgotten'
      <3>1. ASSUME NEW p \in HeldOf(o) PROVE p.n \in forgotten'
        <4>1. PICK i \in 1 .. Len(pending) : p = pending[i]
          BY <1>1, <3>1 DEF HeldOf, HoldsIn
        <4> QED  BY <4>1
      <3> QED  BY <3>1
    <2>2. StreamIs(log[o], {}, begun, Len(made), Mine(o), forgotten', ended, OverFor(o)')
      <3>1. StreamIs(log[o], HeldOf(o), begun, Len(made), Mine(o), forgotten, ended, OverFor(o))
        BY DEF Streams, OutputIs
      <3>2. Nums(log[o]) \cup forgotten \cup {p.n : p \in HeldOf(o)}
              \subseteq Nums(log[o]) \cup forgotten' \cup {p.n : p \in {}}
        BY <2>1
      <3> QED  BY <3>1, <3>2 DEF StreamIs
    <2>3. StreamIs(log'[o], {}, begun + 1, Len(made), Mine(o), forgotten', ended, OverFor(o)')
      BY <1>1, <2>2, StreamTurns
    <2>4. HeldOf(o)' = {} /\ Mine(o)' = Mine(o)
      BY <1>1, HoldsInIs DEF HeldOf, Mine
    <2> QED  BY <2>3, <2>4 DEF OutputIs
  <1> QED  BY <1>3, <1>4, <1>5, <1>6 DEF Streams

\* What is handed on of what is held for an output, as items.
LEMMA HeldForIs ==
    ASSUME Streams, NEW o \in Outputs
    PROVE  /\ HeldFor(o) \in Seq(HandedItem) /\ Rises(HeldFor(o))
           /\ \A i \in 1 .. Len(HeldFor(o)) : \E p \in HeldOf(o) : HeldFor(o)[i] = Item(p)
           /\ \A p \in HeldOf(o) : \E i \in 1 .. Len(HeldFor(o)) : HeldFor(o)[i] = Item(p)
           /\ Owes(o) <=> HeldOf(o) # {}
  <1> DEFINE s == deferred \o pending
             t == PartFor(s, {o})
             h == HeldFor(o)
  <1>1. s \in Seq(HeldItem) /\ Rises(s)
    BY HeldIsPending DEF Streams, HeldIs
  <1>2. /\ t \in Seq(HeldItem)
        /\ \A m \in 1 .. Len(t) : \E i \in 1 .. Len(s) : t[m] = s[i] /\ s[i].to \in {o}
        /\ \A i \in 1 .. Len(s) : s[i].to \in {o} => \E m \in 1 .. Len(t) : t[m] = s[i]
        /\ Rises(t)
    <2>1. IsPartOf(t, s, {o}, Len(s))
      BY <1>1, PartForHas
    <2> HIDE DEF s, t
    <2> QED  BY <1>1, <2>1 DEF IsPartOf
  <1>3. Owed(o) = t /\ h = [i \in DOMAIN t |-> Item(t[i])]
    BY DEF Owed, HeldFor
  <1>4. DOMAIN t = 1 .. Len(t) /\ Len(t) \in Nat /\ \A i \in 1 .. Len(t) : t[i] \in HeldItem
    BY <1>2, LenProperties, ElementOfSeq
  <1>5. \A x \in HeldItem : Item(x) \in HandedItem /\ Item(x).n = x.n
    BY DEF Item, HeldItem, HandedItem
  <1>6. \A p : p \in HeldOf(o) <=> \E i \in 1 .. Len(s) : s[i].to = o /\ p = s[i]
    BY DEF HeldOf, HoldsIn
  <1>7. Owes(o) <=> t # <<>>
    BY <1>3 DEF Owes
  <1> HIDE DEF s, t, h
  <1>8. h \in [1 .. Len(t) -> HandedItem]
    BY <1>3, <1>4, <1>5
  <1>9. h \in Seq(HandedItem) /\ Len(h) = Len(t) /\ \A i \in 1 .. Len(t) : h[i] = Item(t[i])
    BY <1>3, <1>4, <1>8
  <1>10. Rises(h)
    BY <1>2, <1>4, <1>5, <1>9 DEF Rises
  <1>11. ASSUME NEW i \in 1 .. Len(h) PROVE \E p \in HeldOf(o) : h[i] = Item(p)
    BY <1>2, <1>6, <1>9
  <1>12. ASSUME NEW p \in HeldOf(o) PROVE \E i \in 1 .. Len(h) : h[i] = Item(p)
    <2>1. PICK i \in 1 .. Len(s) : s[i].to = o /\ p = s[i]
      BY <1>6
    <2>2. PICK m \in 1 .. Len(t) : t[m] = s[i]
      BY <1>2, <2>1
    <2> QED  BY <1>9, <2>1, <2>2
  <1>13. t # <<>> <=> HeldOf(o) # {}
    <2>1. ASSUME t # <<>> PROVE HeldOf(o) # {}
      <3>1. 1 \in 1 .. Len(h)
        BY <1>2, <1>4, <1>9, <2>1, EmptySeq
      <3> QED  BY <1>11, <3>1
    <2>2. ASSUME t = <<>> PROVE HeldOf(o) = {}
      <3>1. 1 .. Len(h) = {}
        BY <1>9, <2>2, EmptySeq
      <3> QED  BY <1>12, <3>1
    <2> QED  BY <2>1, <2>2
  <1> QED  BY <1>7, <1>9, <1>10, <1>11, <1>12, <1>13 DEF h

\* An output that is handed everything held for it has it behind what it had.
LEMMA AllHandedOn ==
    ASSUME Streams, NEW o \in Outputs, NEW m \in Nat, Len(made) <= m, NEW mine, NEW gone,
           NEW over, mine \subseteq Mine(o), forgotten \subseteq gone,
           OverFor(o) => over, ended => ~HasEnd(log[o])
    PROVE  /\ HeldFor(o) \in Seq(HandedItem)
           /\ log[o] \o HeldFor(o) \in Seq(HandedItem)
           /\ StreamIs(log[o] \o HeldFor(o), {}, begun, m, mine, gone, ended, over)
           /\ HasEnd(log[o] \o HeldFor(o)) <=> HasEnd(log[o])
           /\ HasEnd(log[o]) => log[o] \o HeldFor(o) = log[o]
           /\ \A j \in Bufs(log[o] \o HeldFor(o)) : (log[o] \o HeldFor(o))[j].n \in 1 .. Len(made)
  <1> DEFINE l == log[o]
             b == HeldFor(o)
             n == Len(made)
             h == HeldOf(o)
  <1>1. /\ b \in Seq(HandedItem) /\ Rises(b)
        /\ \A i \in 1 .. Len(b) : \E p \in h : b[i] = Item(p)
        /\ \A p \in h : \E i \in 1 .. Len(b) : b[i] = Item(p)
    BY HeldForIs
  <1>2. /\ h \subseteq HeldItem /\ \A p \in h : p.n \in 1 .. n /\ p.segment = begun
        /\ l \in Seq(HandedItem) /\ n \in Nat /\ begun \in Nat
        /\ HasEnd(l) => h = {}
    BY HeldOfTyped
  <1>3. StreamIs(l, h, begun, n, Mine(o), forgotten, ended, OverFor(o))
    BY DEF Streams, OutputIs
  <1>4. \A x \in HeldItem : Item(x).is = "buffer" /\ Item(x).n = x.n /\ Item(x).segment = x.segment
    BY DEF Item, HeldItem
  <1> HIDE DEF l, b, n, h
  <1>5. l \o b \in Seq(HandedItem)
    BY <1>1, <1>2, ConcatProperties
  <1>6. /\ StreamIs(l \o b, {}, begun, n, Mine(o), forgotten, ended, OverFor(o))
        /\ HasEnd(l \o b) <=> HasEnd(l)
        /\ HasEnd(l) => l \o b = l
    <2>1. CASE HasEnd(l)
      <3>1. 1 .. Len(b) = {}
        BY <1>1, <1>2, <2>1
      <3>2. b = <<>>
        BY <1>1, <3>1, EmptySeq, LenProperties
      <3>3. l \o b = l
        BY <1>2, <3>2, ConcatEmptySeq
      <3> QED  BY <1>2, <1>3, <2>1, <3>3
    <2>2. CASE ~HasEnd(l)
      <3>1. ASSUME NEW i \in 1 .. Len(b)
            PROVE  /\ b[i].is = "buffer" /\ b[i].segment = begun /\ b[i].n \in 1 .. n
                   /\ \A j \in Bufs(l) : l[j].n < b[i].n
        <4>1. PICK p \in h : b[i] = Item(p)
          BY <1>1
        <4>2. p \in HeldItem /\ p.n \in 1 .. n /\ p.segment = begun
          BY <1>2
        <4>3. \A j \in Bufs(l) : l[j].n < p.n
          BY <1>3 DEF StreamIs
        <4> QED  BY <1>4, <4>1, <4>2, <4>3
      <3>2. ASSUME NEW p \in h PROVE \E i \in 1 .. Len(b) : b[i].n = p.n
        <4>1. PICK i \in 1 .. Len(b) : b[i] = Item(p)
          BY <1>1
        <4>2. b[i].n = p.n
          BY <1>2, <1>4, <4>1
        <4> QED  BY <4>2
      <3>3. StreamIs(l \o b, {}, begun, n, Mine(o), forgotten, ended, OverFor(o))
            /\ ~HasEnd(l \o b)
        <4>1. PICK left : left = {}
          OBVIOUS
        <4>2. /\ left \subseteq h
              /\ \A p \in left, i \in 1 .. Len(b) : b[i].n < p.n
              /\ \A p \in h : p \in left \/ \E i \in 1 .. Len(b) : b[i].n = p.n
          BY <3>2, <4>1
        <4>3. /\ StreamIs(l \o b, left, begun, n, Mine(o), forgotten, ended, OverFor(o))
              /\ ~HasEnd(l \o b)
          <5>1. begun \in Nat /\ n \in Nat /\ b \in Seq(HandedItem) /\ Rises(b)
            BY <1>1, <1>2
          <5> QED  BY <1>3, <2>2, <3>1, <4>2, <5>1, StreamHands
        <4> QED  BY <4>1, <4>3
      <3> QED  BY <2>2, <3>3
    <2> QED  BY <2>1, <2>2
  <1>7. \A j \in Bufs(l \o b) : (l \o b)[j].n \in 1 .. n
    BY <1>6 DEF StreamIs, LogIs
  <1>8. LogIs(l \o b, begun, m)
    <2>1. \A j \in Bufs(l \o b) : (l \o b)[j].n \in 1 .. m
      <3>1. n <= m
        BY DEF n
      <3>2. \A x \in 1 .. n : x \in 1 .. m
        BY <1>2, <3>1
      <3> QED  BY <1>7, <3>2
    <2> QED  BY <1>6, <2>1 DEF StreamIs, LogIs
  <1>9. StreamIs(l \o b, {}, begun, m, mine, gone, ended, over)
    BY <1>6, <1>8 DEF StreamIs, n
  <1> QED  BY <1>1, <1>5, <1>6, <1>7, <1>9 DEF l, b, n

-----------------------------------------------------------------------------
(* One more held, one less.                                                *)

\* The first of what is pending, put off, stays where it was; handed on, it
\* leaves the rest as it was, and was the first there was for its output.
LEMMA TakesFirst ==
    ASSUME NEW d \in Seq(HeldItem), NEW t \in Seq(HeldItem), t # <<>>
    PROVE  /\ Head(t) \in HeldItem /\ Tail(t) \in Seq(HeldItem)
           /\ Append(d, Head(t)) \in Seq(HeldItem) /\ d \o Tail(t) \in Seq(HeldItem)
           /\ Append(d, Head(t)) \o Tail(t) = d \o t
           /\ \E i \in 1 .. Len(d \o t) : (d \o t)[i] = Head(t)
           /\ \A i \in 1 .. Len(d \o Tail(t)) : \E j \in 1 .. Len(d \o t) :
                 (d \o Tail(t))[i] = (d \o t)[j]
           /\ \A j \in 1 .. Len(d \o t) : \/ (d \o t)[j] = Head(t)
                 \/ \E i \in 1 .. Len(d \o Tail(t)) : (d \o Tail(t))[i] = (d \o t)[j]
           /\ Rises(d \o t) =>
                 /\ Rises(d \o Tail(t))
                 /\ \A i \in 1 .. Len(d \o Tail(t)) :
                       \/ \E j \in 1 .. Len(d) : (d \o Tail(t))[i] = d[j]
                       \/ Head(t).n < (d \o Tail(t))[i].n
  <1> DEFINE L == Len(d)
             u == Tail(t)
             p == Head(t)
             s == d \o t
             v == d \o u
             a == Append(d, p)
             N == Len(u)
  <1>1. /\ L \in Nat /\ N \in Nat /\ Len(t) = N + 1 /\ p \in HeldItem /\ u \in Seq(HeldItem)
        /\ t[1] = p /\ \A i \in 1 .. N : u[i] = t[i + 1]
    BY HeadTailProperties, LenProperties, EmptySeq
  <1>2. a \in Seq(HeldItem) /\ Len(a) = L + 1 /\ a[L + 1] = p /\ \A i \in 1 .. L : a[i] = d[i]
    BY <1>1, AppendProperties
  <1>3. /\ s \in Seq(HeldItem) /\ Len(s) = L + N + 1
        /\ \A i \in 1 .. L : s[i] = d[i]
        /\ \A i \in L + 1 .. L + N + 1 : s[i] = t[i - L]
    BY <1>1, ConcatProperties
  <1>4. /\ v \in Seq(HeldItem) /\ Len(v) = L + N
        /\ \A i \in 1 .. L : v[i] = d[i]
        /\ \A i \in L + 1 .. L + N : v[i] = u[i - L]
    BY <1>1, ConcatProperties
  <1>5. /\ a \o u \in Seq(HeldItem) /\ Len(a \o u) = L + N + 1
        /\ \A i \in 1 .. L + 1 : (a \o u)[i] = a[i]
        /\ \A i \in L + 2 .. L + N + 1 : (a \o u)[i] = u[i - (L + 1)]
    BY <1>1, <1>2, ConcatProperties
  <1> HIDE DEF L, u, p, s, v, a, N
  <1>6. s[L + 1] = p
    BY <1>1, <1>3
  <1>7. ASSUME NEW i \in L + 1 .. L + N PROVE v[i] = s[i + 1]
    <2>1. i - L \in 1 .. N /\ i + 1 \in L + 1 .. L + N + 1 /\ (i - L) + 1 = (i + 1) - L
      BY <1>1
    <2> QED  BY <1>1, <1>3, <1>4, <2>1
  <1>8. a \o u = s
    <2>1. ASSUME NEW i \in 1 .. L + N + 1 PROVE (a \o u)[i] = s[i]
      <3>1. CASE i \in 1 .. L
        BY <1>1, <1>2, <1>3, <1>5, <3>1
      <3>2. CASE i = L + 1
        <4>1. L + 1 \in 1 .. L + 1
          BY <1>1
        <4>2. (a \o u)[L + 1] = a[L + 1]
          BY <1>5, <4>1
        <4> QED  BY <1>2, <1>6, <3>2, <4>2
      <3>3. CASE i \in L + 2 .. L + N + 1
        <4>1. i - (L + 1) \in 1 .. N /\ (i - (L + 1)) + 1 = i - L /\ i \in L + 1 .. L + N + 1
          BY <1>1, <3>3
        <4>2. (a \o u)[i] = u[i - (L + 1)] /\ s[i] = t[i - L]
          BY <1>3, <1>5, <3>3, <4>1
        <4>3. u[i - (L + 1)] = t[(i - (L + 1)) + 1]
          BY <1>1, <4>1
        <4> QED  BY <4>1, <4>2, <4>3
      <3>4. i \in 1 .. L \/ i = L + 1 \/ i \in L + 2 .. L + N + 1
        BY <1>1
      <3> QED  BY <3>1, <3>2, <3>3, <3>4
    <2>2. Len(a \o u) = Len(s) /\ \A i \in 1 .. Len(a \o u) : (a \o u)[i] = s[i]
      BY <1>3, <1>5, <2>1
    <2> QED  BY <1>3, <1>5, <2>2, SeqEqual
  <1>9. ASSUME NEW i \in 1 .. Len(v)
        PROVE  /\ i \in 1 .. L => v[i] = s[i] /\ v[i] = d[i] /\ i \in 1 .. Len(s)
               /\ i \notin 1 .. L => /\ v[i] = s[i + 1] /\ i + 1 \in 1 .. Len(s)
                                     /\ i \in L + 1 .. L + N
    BY <1>1, <1>3, <1>4, <1>7
  <1>10. \E i \in 1 .. Len(s) : s[i] = p
    BY <1>1, <1>3, <1>6
  <1>11. ASSUME NEW i \in 1 .. Len(v) PROVE \E j \in 1 .. Len(s) : v[i] = s[j]
    BY <1>9
  <1>12. ASSUME NEW j \in 1 .. Len(s), s[j] # p PROVE \E i \in 1 .. Len(v) : v[i] = s[j]
    <2>1. CASE j \in 1 .. L
      <3>1. j \in 1 .. Len(v) /\ v[j] = s[j]
        BY <1>1, <1>3, <1>4, <2>1
      <3> QED  BY <3>1
    <2>2. CASE j \notin 1 .. L
      <3>1. j - 1 \in L + 1 .. L + N /\ (j - 1) + 1 = j
        BY <1>1, <1>3, <1>6, <1>12, <2>2
      <3>2. v[j - 1] = s[j] /\ j - 1 \in 1 .. Len(v)
        <4>1. v[j - 1] = s[(j - 1) + 1]
          BY <1>7, <3>1
        <4>2. j - 1 \in 1 .. Len(v)
          BY <1>1, <1>4, <3>1
        <4> QED  BY <3>1, <4>1, <4>2
      <3> QED  BY <3>2
    <2> QED  BY <2>1, <2>2
  <1>13. ASSUME Rises(s), NEW i \in 1 .. Len(v), NEW j \in 1 .. Len(v), i < j
         PROVE  v[i].n < v[j].n
    <2>1. PICK x \in 1 .. Len(s) : v[i] = s[x] /\ x = IF i \in 1 .. L THEN i ELSE i + 1
      BY <1>9
    <2>2. PICK y \in 1 .. Len(s) : v[j] = s[y] /\ y = IF j \in 1 .. L THEN j ELSE j + 1
      BY <1>9
    <2>3. x < y
      BY <1>1, <1>4, <1>13, <2>1, <2>2
    <2> QED  BY <1>13, <2>1, <2>2, <2>3 DEF Rises
  <1>14. ASSUME Rises(s), NEW i \in 1 .. Len(v)
         PROVE  (\E j \in 1 .. L : v[i] = d[j]) \/ p.n < v[i].n
    <2>1. CASE i \notin 1 .. L
      <3>1. i + 1 \in 1 .. Len(s) /\ L + 1 \in 1 .. Len(s) /\ L + 1 < i + 1 /\ v[i] = s[i + 1]
        BY <1>1, <1>3, <1>9, <2>1
      <3>2. s[L + 1].n < s[i + 1].n
        BY <1>14, <3>1 DEF Rises
      <3> QED  BY <1>6, <3>1, <3>2
    <2> QED  BY <1>9, <2>1
  <1>15. Rises(s) => Rises(v)
    BY <1>13 DEF Rises
  <1> QED  BY <1>1, <1>2, <1>4, <1>8, <1>10, <1>11, <1>12, <1>14, <1>15 DEF L, u, p, s, v, a

\* An output's stream, with time gone by.
LEMMA StreamStays ==
    ASSUME NEW k \in Nat, NEW m \in Nat, NEW l, NEW h, NEW mine, NEW gone, NEW lost, NEW over,
           StreamIs(l, h, k, m, mine, gone, lost, over),
           NEW n \in Nat, m <= n, NEW later, over => later
    PROVE  StreamIs(l, h, k, n, mine, gone, lost, later)
  <1>1. \A x \in 1 .. m : x \in 1 .. n
    OBVIOUS
  <1>2. LogIs(l, k, n)
    BY <1>1 DEF StreamIs, LogIs
  <1> QED  BY <1>1, <1>2 DEF StreamIs

\* One more is made for it, and held.
LEMMA StreamMakes ==
    ASSUME NEW k \in Nat, NEW m \in Nat, NEW l, NEW h, NEW mine, NEW gone, NEW lost, NEW over,
           StreamIs(l, h, k, m, mine, gone, lost, over), ~HasEnd(l),
           NEW p, p.n = m + 1
    PROVE  StreamIs(l, h \cup {p}, k, m + 1, mine \cup {m + 1}, gone, lost, over)
  <1>1. StreamIs(l, h, k, m + 1, mine, gone, lost, over)
    <2>1. m + 1 \in Nat /\ m <= m + 1 /\ (over => over)
      OBVIOUS
    <2> QED  BY <2>1, StreamStays
  <1>2. \A j \in Bufs(l) : l[j].n < p.n
    <2>1. \A j \in Bufs(l) : l[j].n \in 1 .. m
      BY DEF StreamIs, LogIs
    <2> QED  BY <2>1
  <1>3. p.n \in 1 .. m + 1
    OBVIOUS
  <1>4. {q.n : q \in h \cup {p}} = {q.n : q \in h} \cup {m + 1}
    OBVIOUS
  <1> QED  BY <1>1, <1>2, <1>3, <1>4 DEF StreamIs

-----------------------------------------------------------------------------
(* Each step, and the streams.                                             *)

\* Asked, the source has not ended, and none of its outputs has.
LEMMA AskedIsOpen ==
    ASSUME Inv, Streams, at = "produce"
    PROVE  /\ deferred = <<>> /\ blocked = {} /\ ~atEnd /\ ~ended /\ begun # 0
           /\ deferred \o pending = pending
           /\ \A o \in Outputs : ~OverFor(o) /\ ~HasEnd(log[o])
  <1>1. deferred = <<>> /\ blocked = {} /\ ~atEnd /\ ~ended /\ begun # 0
    BY DEF Streams, Placed, Polling, Inv, Added
  <1>2. deferred \o pending = pending
    BY <1>1, HeldIsPending DEF Streams
  <1>3. ASSUME NEW o \in Outputs PROVE ~OverFor(o) /\ ~HasEnd(log[o])
    <2>1. ~OverFor(o)
      BY <1>1 DEF OverFor
    <2> QED  BY <2>1, HeldOfTyped
  <1> QED  BY <1>1, <1>2, <1>3

\* A poll begins, the first with the first segment.
LEMMA PollsStream == ASSUME Inv, Streams, Polls PROVE Streams'
  <1>1. /\ at = "poll" /\ at' = "take"
        /\ UNCHANGED <<pending, deferred, blocked, made, forgotten, ended, atEnd, owedEnds>>
        /\ IF begun = 0 THEN HandSegment(1) /\ begun' = 1 ELSE UNCHANGED <<log, begun>>
    BY DEF Polls, stage, parking
  <1>2. CASE begun = 0
    <2>1. /\ pending = <<>> /\ deferred = <<>> /\ blocked = {}
          /\ \A o \in Outputs : log[o] = <<>>
      BY <1>1, <1>2 DEF Streams, Placed
    <2>2. \A o \in Outputs : ~HasEnd(log[o])
      <3>1. 1 .. Len(<<>>) = {}
        BY EmptySeq
      <3> QED  BY <2>1, <3>1 DEF HasEnd
    <2>3. {pending[i].n : i \in 1 .. Len(pending)} = {}
      BY <2>1
    <2>4. HandSegment(begun + 1) /\ begun' = begun + 1
      BY <1>1, <1>2
    <2> QED  BY <1>1, <2>1, <2>2, <2>3, <2>4, SegmentStreams
  <1>3. CASE begun # 0
    BY <1>1, <1>3, SameStreams
  <1> QED  BY <1>2, <1>3

\* The segment that was owed, one that flushes, and one that waits for what is
\* held.
LEMMA SegmentsStream ==
    ASSUME Inv, Streams, BeginsOwed \/ MakesFlush \/ MakesSegment
    PROVE  Streams'
  <1>1. /\ at = "produce"
        /\ UNCHANGED <<deferred, blocked, made, ended, atEnd, owedEnds>>
        /\ at' \in {"produce", "drain", "over", "recv"}
    BY DEF BeginsOwed, MakesFlush, MakesSegment, IsAsked, Asks, InPoll, Again, Pends, GoesOn,
       parking
  <1>2. /\ deferred = <<>> /\ blocked = {} /\ ~atEnd /\ begun # 0
        /\ \A o \in Outputs : ~HasEnd(log[o])
    BY <1>1, AskedIsOpen
  <1>3. DOMAIN pending = 1 .. Len(pending)
    BY LenProperties DEF Streams, StreamTypes
  <1>4. CASE HandSegment(begun + 1) /\ begun' = begun + 1
    <2>1. /\ pending' = <<>>
          /\ forgotten \cup {pending[i].n : i \in 1 .. Len(pending)} \subseteq forgotten'
      <3>1. CASE pending = <<>> /\ pending' = pending /\ forgotten' = forgotten
        <4>1. {pending[i].n : i \in 1 .. Len(pending)} = {}
          BY <3>1, EmptySeq
        <4> QED  BY <3>1, <4>1
      <3>2. CASE MakesFlush
        BY <1>3, <3>2 DEF MakesFlush
      <3>3. CASE BeginsOwed
        BY <3>1, <3>3 DEF BeginsOwed, parking
      <3>4. CASE MakesSegment
        <4>1. CASE pending = <<>>
          BY <3>1, <3>4, <4>1 DEF MakesSegment, parking
        <4>2. CASE pending # <<>>
          <5>1. begun' = begun /\ begun \in Nat
            BY <3>4, <4>2 DEF MakesSegment, Streams, StreamTypes
          <5> QED  BY <1>4, <5>1
        <4> QED  BY <4>1, <4>2
      <3> QED  BY <3>2, <3>3, <3>4
    <2> QED  BY <1>1, <1>2, <1>4, <2>1, SegmentStreams
  <1>5. CASE MakesSegment /\ pending # <<>>
    <2>1. UNCHANGED <<pending, log, begun, forgotten>> /\ at' # "produce" /\ at' # "end"
      BY <1>5 DEF MakesSegment, parking, Again, Pends, GoesOn
    <2>2. pending' = pending
      BY <2>1
    <2> QED  BY <1>1, <1>2, <2>1, SameStreams
  <1>6. \/ HandSegment(begun + 1) /\ begun' = begun + 1
        \/ MakesSegment /\ pending # <<>>
    BY DEF BeginsOwed, MakesFlush, MakesSegment
  <1> QED  BY <1>4, <1>5, <1>6

\* The oldest put off stays where it was; handed on, it is the next its output
\* is handed.
LEMMA DrainsStream == ASSUME Inv, Streams, DrainsOne PROVE Streams'
  <1> DEFINE p == Head(pending)
             s == deferred \o pending
             v == deferred \o Tail(pending)
  <1>0. PICK o : o = p.to
    OBVIOUS
  <1>1. /\ at = "drain" /\ at' = "drain" /\ pending # <<>> /\ pending' = Tail(pending)
        /\ UNCHANGED <<made, begun, forgotten, ended, atEnd, owedEnds>>
        /\ \/ /\ blocked' = blocked \cup {o} /\ deferred' = Append(deferred, p) /\ log' = log
           \/ /\ ~Refuses(o) /\ Hand(o, <<Item(p)>>)
              /\ blocked' = blocked /\ deferred' = deferred
    BY <1>0 DEF DrainsOne, InPoll, GoesOn, stage, source, outputs
  <1>2. /\ StreamTypes /\ Placed /\ HeldIs(s, begun, made) /\ s \in Seq(HeldItem)
        /\ pending \in Seq(HeldItem) /\ deferred \in Seq(HeldItem)
    BY HeldIsPending DEF Streams, StreamTypes
  <1>3. /\ p \in HeldItem /\ Tail(pending) \in Seq(HeldItem)
        /\ Append(deferred, p) \in Seq(HeldItem) /\ v \in Seq(HeldItem)
        /\ Append(deferred, p) \o Tail(pending) = s
        /\ \E i \in 1 .. Len(s) : s[i] = p
        /\ \A i \in 1 .. Len(v) : \E j \in 1 .. Len(s) : v[i] = s[j]
        /\ \A j \in 1 .. Len(s) : s[j] = p \/ \E i \in 1 .. Len(v) : v[i] = s[j]
        /\ Rises(s) => /\ Rises(v)
                       /\ \A i \in 1 .. Len(v) :
                             (\E j \in 1 .. Len(deferred) : v[i] = deferred[j]) \/ p.n < v[i].n
    BY <1>1, <1>2, TakesFirst
  <1>4. begun # 0 /\ o \in Outputs /\ begun \in Nat /\ Len(made) \in Nat
    BY <1>0, <1>1, <1>2, <1>3, LenProperties DEF Placed, Polling, HeldItem, StreamTypes
  <1>5. \A q \in Outputs : (OverFor(q)' <=> OverFor(q)) /\ Mine(q)' = Mine(q)
    BY <1>1 DEF OverFor, Mine
  <1>6. CASE blocked' = blocked \cup {o} /\ deferred' = Append(deferred, p) /\ log' = log
    <2>1. s' = s
      BY <1>1, <1>3, <1>6
    <2>2. StreamTypes'
      BY <1>1, <1>2, <1>3, <1>6 DEF StreamTypes
    <2>3. ASSUME NEW i \in 1 .. Len(deferred') PROVE deferred'[i].to \in blocked'
      <3>1. \/ i \in 1 .. Len(deferred) /\ deferred'[i] = deferred[i]
            \/ deferred'[i] = p
        BY <1>2, <1>3, <1>6, AppendProperties, LenProperties
      <3> QED  BY <1>0, <1>2, <1>6, <3>1 DEF Placed
    <2>4. Placed'
      BY <1>1, <1>4, <2>3 DEF Placed
    <2>5. HeldIs(s, begun, made)'
      BY <1>1, <1>2, <2>1
    <2>6. ASSUME NEW q \in Outputs PROVE OutputIs(q)'
      <3>1. OutputIs(q)
        BY DEF Streams
      <3>2. HeldOf(q)' = HeldOf(q)
        BY <2>1 DEF HeldOf
      <3>3. log'[q] = log[q]
        BY <1>6
      <3> QED  BY <1>1, <1>5, <3>1, <3>2, <3>3 DEF OutputIs, StreamIs
    <2> QED  BY <2>2, <2>4, <2>5, <2>6 DEF Streams
  <1>7. CASE ~Refuses(o) /\ Hand(o, <<Item(p)>>) /\ blocked' = blocked /\ deferred' = deferred
    <2>1. s' = v /\ o \notin blocked
      BY <1>1, <1>7 DEF Refuses
    <2>2. /\ log' \in [Outputs -> Seq(HandedItem)]
          /\ log'[o] = log[o] \o <<Item(p)>>
          /\ \A q \in Outputs : q # o => log'[q] = log[q]
          /\ Item(p) \in HandedItem /\ Item(p).is = "buffer" /\ Item(p).n = p.n
          /\ Item(p).segment = p.segment /\ <<Item(p)>> \in Seq(HandedItem)
      <3>1. /\ Item(p) \in HandedItem /\ Item(p).is = "buffer" /\ Item(p).n = p.n
            /\ Item(p).segment = p.segment
        BY <1>3 DEF Item, HeldItem, HandedItem
      <3>2. <<Item(p)>> \in Seq(HandedItem)
        BY <3>1
      <3>3. log \in [Outputs -> Seq(HandedItem)] /\ log' = [log EXCEPT ![o] = @ \o <<Item(p)>>]
        BY <1>2, <1>7 DEF StreamTypes, Hand
      <3>4. log[o] \o <<Item(p)>> \in Seq(HandedItem)
        BY <1>4, <3>2, <3>3, ConcatProperties
      <3> QED  BY <1>4, <3>1, <3>2, <3>3, <3>4
    <2>3. StreamTypes'
      BY <1>1, <1>2, <1>3, <1>7, <2>2 DEF StreamTypes
    <2>4. Placed'
      BY <1>1, <1>2, <1>4, <1>7 DEF Placed
    <2>5. HeldIs(s, begun, made)'
      <3> HIDE DEF s, v
      <3>1. HeldIs(v, begun, made)
        <4>1. \A j \in 1 .. Len(s) : /\ s[j].n \in 1 .. Len(made) /\ made[s[j].n] = s[j].to
                                      /\ s[j].segment = begun
          BY <1>2 DEF HeldIs
        <4>2. Rises(v)
          BY <1>2, <1>3 DEF HeldIs
        <4>3. ASSUME NEW i \in 1 .. Len(v)
              PROVE  /\ v[i].n \in 1 .. Len(made) /\ made[v[i].n] = v[i].to
                     /\ v[i].segment = begun
          <5>1. PICK j \in 1 .. Len(s) : v[i] = s[j]
            BY <1>3
          <5> QED  BY <4>1, <5>1
        <4> QED  BY <4>2, <4>3 DEF HeldIs
      <3>2. HeldIs(s', begun', made')
        BY <1>1, <2>1, <3>1
      <3> QED  BY <3>2 DEF HeldIs
    <2>6. /\ \A q : HoldsIn(v, q) \subseteq HoldsIn(s, q)
          /\ \A q : HoldsIn(s, q) \subseteq HoldsIn(v, q) \cup {p}
          /\ \A q : q # o => HoldsIn(v, q) = HoldsIn(s, q)
          /\ p \in HoldsIn(s, o)
          /\ \A x \in HoldsIn(v, o) : p.n < x.n
      <3> HIDE DEF s, v, p
      <3>1. ASSUME NEW q, NEW x \in HoldsIn(v, q) PROVE x \in HoldsIn(s, q)
        <4>1. PICK i \in 1 .. Len(v) : v[i].to = q /\ x = v[i]
          BY <3>1 DEF HoldsIn
        <4>2. PICK j \in 1 .. Len(s) : v[i] = s[j]
          BY <1>3
        <4> QED  BY <4>1, <4>2 DEF HoldsIn
      <3>2. ASSUME NEW q, NEW x \in HoldsIn(s, q) PROVE x = p \/ x \in HoldsIn(v, q)
        <4>1. PICK j \in 1 .. Len(s) : s[j].to = q /\ x = s[j]
          BY <3>2 DEF HoldsIn
        <4>2. s[j] = p \/ \E i \in 1 .. Len(v) : v[i] = s[j]
          BY <1>3
        <4> QED  BY <4>1, <4>2 DEF HoldsIn
      <3>3. ASSUME NEW q, q # o PROVE p \notin HoldsIn(s, q)
        BY <1>0, <3>3 DEF HoldsIn, p
      <3>4. p \in HoldsIn(s, o)
        BY <1>0, <1>3 DEF HoldsIn, p
      <3>5. ASSUME NEW x \in HoldsIn(v, o) PROVE p.n < x.n
        <4>1. PICK i \in 1 .. Len(v) : v[i].to = o /\ x = v[i]
          BY <3>5 DEF HoldsIn
        <4>2. ASSUME NEW j \in 1 .. Len(deferred) PROVE v[i] # deferred[j]
          BY <1>2, <2>1, <4>1 DEF Placed
        <4>3. Rises(s)
          BY <1>2 DEF HeldIs
        <4> QED  BY <1>3, <4>1, <4>2, <4>3
      <3> QED  BY <3>1, <3>2, <3>3, <3>4, <3>5
    <2>7. ASSUME NEW q \in Outputs, q # o PROVE OutputIs(q)'
      <3>1. OutputIs(q)
        BY DEF Streams
      <3>2. HeldOf(q)' = HeldOf(q)
        BY <2>1, <2>6, <2>7 DEF HeldOf
      <3>3. log'[q] = log[q]
        BY <2>2, <2>7
      <3> QED  BY <1>1, <1>5, <3>1, <3>2, <3>3 DEF OutputIs, StreamIs
    <2>8. OutputIs(o)'
      <3>1. /\ p \in HeldOf(o) /\ HeldOf(o)' = HoldsIn(v, o)
            /\ HoldsIn(v, o) \subseteq HeldOf(o) /\ HeldOf(o) \subseteq HoldsIn(v, o) \cup {p}
        BY <2>1, <2>6 DEF HeldOf
      <3>2. /\ StreamIs(log[o], HeldOf(o), begun, Len(made), Mine(o), forgotten, ended, OverFor(o))
            /\ ~HasEnd(log[o]) /\ p.n \in 1 .. Len(made) /\ p.segment = begun
        <4>1. OutputIs(o) /\ o \in Outputs
          BY <1>4 DEF Streams
        <4>2. p.n \in 1 .. Len(made) /\ p.segment = begun /\ (HasEnd(log[o]) => HeldOf(o) = {})
          BY <3>1, <4>1, HeldOfTyped
        <4> QED  BY <3>1, <4>1, <4>2 DEF OutputIs, StreamIs
      <3>3. \A j \in Bufs(log[o]) : log[o][j].n < p.n
        BY <3>1, <3>2 DEF StreamIs
      <3> DEFINE b == <<Item(p)>>
                 left == HoldsIn(v, o)
                 l == log[o]
                 h == HeldOf(o)
      <3>4. b \in Seq(HandedItem) /\ Len(b) = 1 /\ b[1] = Item(p) /\ 1 \in 1 .. Len(b)
            /\ \A i \in 1 .. Len(b) : i = 1
        BY <2>2
      <3>5. \A i \in 1 .. Len(b) : b[i] = Item(p)
        BY <3>4
      <3> HIDE DEF b, left, l, h
      <3>6. Rises(b)
        BY <3>4 DEF Rises
      <3>7. \A i \in 1 .. Len(b) :
               /\ b[i].is = "buffer" /\ b[i].segment = begun /\ b[i].n \in 1 .. Len(made)
               /\ \A j \in Bufs(l) : l[j].n < b[i].n
        BY <2>2, <3>2, <3>3, <3>5 DEF l
      <3>8. /\ left \subseteq h /\ \A x \in left, i \in 1 .. Len(b) : b[i].n < x.n
            /\ \A x \in h : x \in left \/ \E i \in 1 .. Len(b) : b[i].n = x.n
        BY <2>2, <2>6, <3>1, <3>4, <3>5 DEF left, h
      <3>9. /\ begun \in Nat /\ Len(made) \in Nat /\ ~HasEnd(l) /\ b \in Seq(HandedItem)
            /\ StreamIs(l, h, begun, Len(made), Mine(o), forgotten, ended, OverFor(o))
        BY <1>4, <3>2, <3>4 DEF l, h
      <3>10. StreamIs(l \o b, left, begun, Len(made), Mine(o), forgotten, ended, OverFor(o))
        BY <3>6, <3>7, <3>8, <3>9, StreamHands
      <3>11. log'[o] = l \o b /\ HeldOf(o)' = left
        BY <2>2, <3>1 DEF l, b, left
      <3> QED  BY <1>1, <1>4, <1>5, <3>10, <3>11 DEF OutputIs, StreamIs
    <2>9. \A q \in Outputs : OutputIs(q)'
      BY <2>7, <2>8
    <2> QED  BY <2>3, <2>4, <2>5, <2>9 DEF Streams
  <1> QED  BY <1>1, <1>6, <1>7

\* The drain over, what was put off is what is held.
LEMMA DrainedStream == ASSUME Inv, Streams, Drained PROVE Streams'
  <1>1. /\ at = "drain" /\ pending = <<>> /\ pending' = deferred /\ deferred' = <<>>
        /\ blocked' = {} /\ at' = (IF atEnd THEN "end" ELSE "produce")
        /\ UNCHANGED <<made, begun, forgotten, log, ended, atEnd, owedEnds>>
    BY DEF Drained, InPoll, GoesOn, stage, source, outputs
  <1>2. /\ deferred \o pending = deferred /\ deferred' \o pending' = deferred
        /\ <<>> \in Seq(HeldItem) /\ 1 .. Len(<<>>) = {}
    BY <1>1, ConcatEmptySeq, EmptySeq DEF Streams, StreamTypes
  <1>3. StreamTypes'
    BY <1>1, <1>2 DEF Streams, StreamTypes
  <1>4. Placed'
    BY <1>1, <1>2 DEF Streams, Placed, Polling
  <1>5. HeldIs(deferred \o pending, begun, made)'
    BY <1>1, <1>2 DEF Streams
  <1>6. ASSUME NEW o \in Outputs PROVE OutputIs(o)'
    <2>1. OutputIs(o) /\ (OverFor(o)' <=> OverFor(o))
      BY <1>1 DEF Streams, OverFor
    <2>2. HeldOf(o)' = HeldOf(o) /\ Mine(o)' = Mine(o) /\ log'[o] = log[o]
      BY <1>1, <1>2 DEF HeldOf, Mine
    <2> QED  BY <1>1, <2>1, <2>2 DEF OutputIs, StreamIs
  <1> QED  BY <1>3, <1>4, <1>5, <1>6 DEF Streams

\* A sequence handed on with one more behind it.
LEMMA OneBehind ==
    ASSUME NEW S, NEW l \in Seq(S), NEW b \in Seq(S), NEW x \in S
    PROVE  /\ l \o Append(b, x) = (l \o b) \o <<x>>
           /\ (l \o b) \o <<x>> = Append(l \o b, x)
           /\ <<x>> \in Seq(S) /\ Len(<<x>>) = 1 /\ <<x>>[1] = x
  <1>1. <<x>> \in Seq(S) /\ Len(<<x>>) = 1 /\ <<x>>[1] = x
    OBVIOUS
  <1>2. \A s \in Seq(S) : s \o <<x>> = Append(s, x)
    <2>1. ASSUME NEW s \in Seq(S) PROVE s \o <<x>> = Append(s, x)
      <3>1. /\ s \o <<x>> \in Seq(S) /\ Len(s \o <<x>>) = Len(s) + 1
            /\ \A i \in 1 .. Len(s) + 1 :
                  (s \o <<x>>)[i] = IF i <= Len(s) THEN s[i] ELSE <<x>>[i - Len(s)]
        BY <1>1, ConcatProperties
      <3>2. /\ Append(s, x) \in Seq(S) /\ Len(Append(s, x)) = Len(s) + 1
            /\ \A i \in 1 .. Len(s) : Append(s, x)[i] = s[i]
            /\ Append(s, x)[Len(s) + 1] = x /\ Len(s) \in Nat
        BY AppendProperties, LenProperties
      <3>3. ASSUME NEW i \in 1 .. Len(s) + 1 PROVE (s \o <<x>>)[i] = Append(s, x)[i]
        <4>1. CASE i \in 1 .. Len(s)
          BY <3>1, <3>2, <4>1
        <4>2. CASE i = Len(s) + 1
          <5>1. i - Len(s) = 1 /\ ~(i <= Len(s))
            BY <3>2, <4>2
          <5> QED  BY <1>1, <3>1, <3>2, <4>2, <5>1
        <4>3. i \in 1 .. Len(s) \/ i = Len(s) + 1
          BY <3>2
        <4> QED  BY <4>1, <4>2, <4>3
      <3> QED  BY <3>1, <3>2, <3>3, SeqEqual
    <2> QED  BY <2>1
  <1>3. l \o Append(b, x) = (l \o b) \o <<x>>
    BY <1>1, <1>2, ConcatAssociative
  <1>4. l \o b \in Seq(S)
    BY ConcatProperties
  <1> QED  BY <1>1, <1>2, <1>3, <1>4

\* A buffer made is held behind what is held, or handed on behind what is held
\* for its output.
LEMMA MakesStream == ASSUME Inv, Streams, NEW o \in Outputs, Makes(o) PROVE Streams'
  <1>1. PICK n, p : n = Len(made) + 1 /\ p = [to |-> o, n |-> n, segment |-> begun]
    OBVIOUS
  <1> DEFINE s == deferred \o pending
  <1>2. /\ at = "produce" /\ at' \in {"drain", "over", "recv"} /\ made' = Append(made, o)
        /\ UNCHANGED <<begun, forgotten, ended, atEnd, owedEnds, deferred, blocked>>
        /\ \/ pending' = Append(pending, p) /\ log' = log
           \/ /\ pending' = PartFor(pending, Outputs \ {o})
              /\ log' = [log EXCEPT ![o] = @ \o Append(HeldFor(o), Item(p))]
    BY <1>1 DEF Makes, IsAsked, Asks, InPoll, Again, Pends, GoesOn, Hand, outputs
  <1>3. /\ deferred = <<>> /\ blocked = {} /\ ~atEnd /\ ~ended /\ begun # 0 /\ s = pending
        /\ \A q \in Outputs : ~OverFor(q) /\ ~HasEnd(log[q])
    BY <1>2, AskedIsOpen
  <1>4. /\ pending \in Seq(HeldItem) /\ made \in Seq(Outputs) /\ begun \in Nat
        /\ log \in [Outputs -> Seq(HandedItem)] /\ Len(made) \in Nat /\ n \in Nat
        /\ HeldIs(pending, begun, made)
    BY <1>1, <1>3, LenProperties DEF Streams, StreamTypes
  <1>5. p \in HeldItem /\ p.n = n /\ p.to = o /\ p.segment = begun
    BY <1>1, <1>4 DEF HeldItem
  <1>6. /\ made' \in Seq(Outputs) /\ Len(made') = n /\ made'[n] = o
        /\ \A i \in 1 .. Len(made) : made'[i] = made[i] /\ i \in 1 .. n
        /\ \A i \in 1 .. n : i \in 1 .. Len(made) \/ i = n
    BY <1>1, <1>2, <1>4, AppendProperties
  <1>7. /\ \A q \in Outputs : q # o => Mine(q)' = Mine(q)
        /\ Mine(o)' = Mine(o) \cup {n}
    <2>1. ASSUME NEW q \in Outputs PROVE Mine(q)' = Mine(q) \cup (IF q = o THEN {n} ELSE {})
      <3>1. Mine(q)' = {i \in 1 .. n : made'[i] = q}
        BY <1>6 DEF Mine
      <3>2. \A i : i \in 1 .. n <=> i \in 1 .. Len(made) \/ i = n
        BY <1>1, <1>4
      <3> QED  BY <1>6, <3>1, <3>2 DEF Mine
    <2> QED  BY <2>1
  <1>8. Item(p) \in HandedItem /\ Item(p).is = "buffer" /\ Item(p).n = n /\ Item(p).segment = begun
    BY <1>4, <1>5 DEF Item, HandedItem
  <1>10. Placed'
    BY <1>2, <1>3 DEF Streams, Placed
  <1>11. /\ \A q \in Outputs :
               StreamIs(log[q], HeldOf(q), begun, n, Mine(q), forgotten, ended, FALSE)
         /\ \A q \in Outputs : HeldOf(q) = HoldsIn(pending, q)
    <2>1. ASSUME NEW q \in Outputs
          PROVE  StreamIs(log[q], HeldOf(q), begun, n, Mine(q), forgotten, ended, FALSE)
      <3>1. StreamIs(log[q], HeldOf(q), begun, Len(made), Mine(q), forgotten, ended, OverFor(q))
        BY DEF Streams, OutputIs
      <3>2. Len(made) <= n /\ ~OverFor(q)
        BY <1>1, <1>3, <1>4
      <3>3. StreamIs(log[q], HeldOf(q), begun, n, Mine(q), forgotten, ended, OverFor(q))
        BY <1>4, <3>1, <3>2, StreamStays
      <3> QED  BY <3>2, <3>3 DEF StreamIs
    <2> QED  BY <1>3, <2>1 DEF HeldOf
  <1>12. CASE pending' = Append(pending, p) /\ log' = log
    <2>1. /\ pending' \in Seq(HeldItem) /\ deferred' \o pending' = pending'
          /\ Len(pending') = Len(pending) + 1 /\ pending'[Len(pending) + 1] = p
          /\ \A i \in 1 .. Len(pending) : pending'[i] = pending[i]
          /\ \A i \in 1 .. Len(pending') : i \in 1 .. Len(pending) \/ i = Len(pending) + 1
          /\ Len(pending) \in Nat
      BY <1>2, <1>3, <1>4, <1>5, <1>12, AppendProperties, ConcatEmptySeq, LenProperties
    <2>2. StreamTypes'
      BY <1>2, <1>6, <1>12, <2>1 DEF Streams, StreamTypes
    <2>3. HeldIs(pending', begun', made')
      <3>1. ASSUME NEW i \in 1 .. Len(pending')
            PROVE  /\ pending'[i].n \in 1 .. Len(made') /\ made'[pending'[i].n] = pending'[i].to
                   /\ pending'[i].segment = begun'
        <4>1. CASE i \in 1 .. Len(pending)
          <5>1. /\ pending[i].n \in 1 .. Len(made) /\ made[pending[i].n] = pending[i].to
                /\ pending[i].segment = begun
            BY <1>4, <4>1 DEF HeldIs
          <5>2. pending'[i] = pending[i]
            BY <2>1, <4>1
          <5>3. /\ made'[pending[i].n] = made[pending[i].n] /\ pending[i].n \in 1 .. n
            BY <1>6, <5>1
          <5> QED  BY <1>2, <1>6, <5>1, <5>2, <5>3
        <4>2. CASE i = Len(pending) + 1
          <5>1. pending'[i] = p /\ p.n = n /\ n \in 1 .. n /\ Len(made') = n
            BY <1>1, <1>4, <1>5, <1>6, <2>1, <4>2
          <5> QED  BY <1>2, <1>5, <1>6, <5>1
        <4> QED  BY <2>1, <4>1, <4>2
      <3>2. ASSUME NEW i \in 1 .. Len(pending'), NEW j \in 1 .. Len(pending'), i < j
            PROVE  pending'[i].n < pending'[j].n
        <4>1. i \in 1 .. Len(pending) /\ pending'[i] = pending[i]
          BY <2>1, <3>2
        <4>2. CASE j \in 1 .. Len(pending)
          BY <1>4, <2>1, <3>2, <4>1, <4>2 DEF HeldIs, Rises
        <4>3. CASE j = Len(pending) + 1
          <5>1. pending[i].n \in 1 .. Len(made)
            BY <1>4, <4>1 DEF HeldIs
          <5> QED  BY <1>1, <1>4, <1>5, <2>1, <4>1, <4>3, <5>1
        <4> QED  BY <2>1, <4>2, <4>3
      <3> QED  BY <3>1, <3>2 DEF HeldIs, Rises
    <2>4. ASSUME NEW q \in Outputs PROVE OutputIs(q)'
      <3>1. HeldOf(q)' = HeldOf(q) \cup (IF p.to = q THEN {p} ELSE {})
        <4>1. HoldsIn(pending', q) = HoldsIn(pending, q) \cup (IF p.to = q THEN {p} ELSE {})
          BY <1>4, <1>5, <1>12, HoldsInIs
        <4> QED  BY <1>11, <2>1, <4>1 DEF HeldOf
      <3>2. StreamIs(log[q], HeldOf(q)', begun, n, Mine(q)', forgotten, ended, FALSE)
        <4>1. CASE q # o
          BY <1>5, <1>7, <1>11, <3>1, <4>1
        <4>2. CASE q = o
          <5>1. StreamIs(log[o], HeldOf(o), begun, Len(made), Mine(o), forgotten, ended, OverFor(o))
                /\ ~HasEnd(log[o])
            BY <1>3 DEF Streams, OutputIs
          <5>2. StreamIs(log[o], HeldOf(o) \cup {p}, begun, Len(made) + 1,
                         Mine(o) \cup {Len(made) + 1}, forgotten, ended, OverFor(o))
            BY <1>1, <1>4, <1>5, <5>1, StreamMakes
          <5> QED  BY <1>1, <1>3, <1>5, <1>7, <3>1, <4>2, <5>2 DEF StreamIs
        <4> QED  BY <4>1, <4>2
      <3> QED  BY <1>2, <1>6, <1>12, <3>2 DEF OutputIs, StreamIs
    <2> QED  BY <1>10, <2>1, <2>2, <2>3, <2>4 DEF Streams
  <1>13. CASE /\ pending' = PartFor(pending, Outputs \ {o})
              /\ log' = [log EXCEPT ![o] = @ \o Append(HeldFor(o), Item(p))]
    <2>1. IsPartOf(pending', pending, Outputs \ {o}, Len(pending))
      BY <1>4, <1>13, PartForHas
    <2>2. pending' \in Seq(HeldItem) /\ deferred' \o pending' = pending'
      BY <1>2, <1>3, <2>1, ConcatEmptySeq DEF IsPartOf
    <2>3. HeldIs(pending', begun', made')
      <3>1. ASSUME NEW i \in 1 .. Len(pending')
            PROVE  /\ pending'[i].n \in 1 .. Len(made') /\ made'[pending'[i].n] = pending'[i].to
                   /\ pending'[i].segment = begun'
        <4>1. PICK j \in 1 .. Len(pending) : pending'[i] = pending[j]
          BY <2>1 DEF IsPartOf
        <4> QED  BY <1>2, <1>4, <1>6, <4>1 DEF HeldIs
      <3>2. Rises(pending')
        BY <1>4, <2>1 DEF IsPartOf, HeldIs
      <3> QED  BY <3>1, <3>2 DEF HeldIs
    <2> DEFINE l == log[o] \o HeldFor(o)
               b == <<Item(p)>>
    <2>4. /\ HeldFor(o) \in Seq(HandedItem) /\ l \in Seq(HandedItem) /\ ~HasEnd(l)
          /\ StreamIs(l, {}, begun, Len(made), Mine(o), forgotten, ended, FALSE)
      <3>1. OverFor(o) => FALSE
        BY <1>3
      <3>2. ended => ~HasEnd(log[o])
        BY <1>3
      <3>3. Mine(o) \subseteq Mine(o) /\ forgotten \subseteq forgotten /\ Len(made) <= Len(made)
        BY <1>4
      <3> QED  BY <1>3, <1>4, <3>1, <3>2, <3>3, AllHandedOn
    <2>5. log[o] \o Append(HeldFor(o), Item(p)) = l \o b /\ b \in Seq(HandedItem)
          /\ Len(b) = 1 /\ b[1] = Item(p) /\ log[o] \in Seq(HandedItem)
      BY <1>4, <1>8, <2>4, OneBehind
    <2>6. /\ log' \in [Outputs -> Seq(HandedItem)] /\ log'[o] = l \o b
          /\ \A q \in Outputs : q # o => log'[q] = log[q]
      <3>1. l \o b \in Seq(HandedItem)
        BY <2>4, <2>5, ConcatProperties
      <3> QED  BY <1>4, <1>13, <2>5, <3>1
    <2>7. StreamTypes'
      BY <1>2, <1>6, <2>2, <2>6 DEF Streams, StreamTypes
    <2>8. ASSUME NEW q \in Outputs, q # o PROVE OutputIs(q)'
      <3>1. HeldOf(q)' = HeldOf(q)
        <4>1. HoldsIn(pending', q) = HoldsIn(pending, q)
          BY <1>4, <1>13, <2>8, HoldsInIs
        <4> QED  BY <1>11, <2>2, <4>1 DEF HeldOf
      <3>2. StreamIs(log[q], HeldOf(q)', begun, n, Mine(q)', forgotten, ended, FALSE)
        BY <1>7, <1>11, <2>8, <3>1
      <3> QED  BY <1>2, <1>6, <2>6, <2>8, <3>2 DEF OutputIs, StreamIs
    <2>9. OutputIs(o)'
      <3>1. HeldOf(o)' = {}
        <4>1. PICK os : os = Outputs \ {o}
          OBVIOUS
        <4>2. HoldsIn(PartFor(pending, os), o) = IF o \in os THEN HoldsIn(pending, o) ELSE {}
          BY <1>4, HoldsInIs
        <4>3. HoldsIn(pending', o) = {}
          BY <1>13, <4>1, <4>2
        <4> QED  BY <2>2, <4>3 DEF HeldOf
      <3> HIDE DEF l, b
      <3>2. PICK h, left : h = {p} /\ left = {}
        OBVIOUS
      <3>3. StreamIs(l, h, begun, n, Mine(o) \cup {n}, forgotten, ended, FALSE)
        <4>1. PICK none : none = {}
          OBVIOUS
        <4>2. StreamIs(l, none \cup {p}, begun, Len(made) + 1, Mine(o) \cup {Len(made) + 1},
                       forgotten, ended, FALSE)
          BY <1>1, <1>4, <1>5, <2>4, <4>1, StreamMakes
        <4>3. none \cup {p} = h
          BY <3>2, <4>1
        <4> QED  BY <1>1, <4>2, <4>3
      <3>4. \A j \in Bufs(l) : l[j].n < n
        BY <1>5, <3>2, <3>3 DEF StreamIs
      <3>5. \A i \in 1 .. Len(b) : i = 1 /\ b[i] = Item(p)
        BY <2>5
      <3>6. Rises(b)
        BY <2>5, <3>5 DEF Rises
      <3>7. \A i \in 1 .. Len(b) : /\ b[i].is = "buffer" /\ b[i].segment = begun
                                   /\ b[i].n \in 1 .. n /\ \A j \in Bufs(l) : l[j].n < b[i].n
        <4>1. n \in 1 .. n
          BY <1>1, <1>4
        <4> QED  BY <1>8, <3>4, <3>5, <4>1
      <3>8. /\ left \subseteq h /\ \A x \in left, i \in 1 .. Len(b) : b[i].n < x.n
            /\ \A x \in h : x \in left \/ \E i \in 1 .. Len(b) : b[i].n = x.n
        <4>1. 1 \in 1 .. Len(b) /\ b[1].n = p.n
          BY <1>5, <1>8, <2>5
        <4> QED  BY <3>2, <4>1
      <3>9. StreamIs(l \o b, left, begun, n, Mine(o) \cup {n}, forgotten, ended, FALSE)
        BY <1>4, <2>4, <2>5, <3>3, <3>6, <3>7, <3>8, StreamHands
      <3> QED  BY <1>2, <1>6, <1>7, <2>6, <3>1, <3>2, <3>9 DEF OutputIs, StreamIs
    <2>10. \A q \in Outputs : OutputIs(q)'
      BY <2>8, <2>9
    <2> QED  BY <1>10, <2>2, <2>3, <2>7, <2>10 DEF Streams
  <1> QED  BY <1>2, <1>12, <1>13

\* The source's end, and then its outputs', each with nothing held for it.
LEMMA EndsStream == ASSUME Inv, Streams, MakesEnd \/ EndsOutputs PROVE Streams'
  <1>1. UNCHANGED <<pending, deferred, blocked, made, begun, forgotten, ended>>
    BY DEF MakesEnd, EndsOutputs, GivesEnds, IsAsked, Asks, InPoll, parking, source
  <1>2. at \in {"produce", "end"} /\ ~ended /\ begun # 0
    BY DEF MakesEnd, EndsOutputs, IsAsked, Asks, Inv, Added, Streams, Placed, Polling
  <1>3. HeldIs(deferred \o pending, begun, made)'
    BY <1>1 DEF Streams
  <1>4. \A o \in Outputs : HeldOf(o)' = HeldOf(o) /\ Mine(o)' = Mine(o)
    BY <1>1 DEF HeldOf, Mine
  <1>5. CASE MakesEnd
    <2>1. /\ at = "produce" /\ at' = "drain" /\ atEnd' = TRUE /\ owedEnds' = Outputs
          /\ log' = log
      BY <1>5 DEF MakesEnd, IsAsked, Asks, GoesOn, outputs
    <2>2. StreamTypes'
      BY <1>1, <2>1 DEF Streams, StreamTypes
    <2>3. Placed'
      BY <1>1, <1>2, <2>1 DEF Streams, Placed
    <2>4. ASSUME NEW o \in Outputs PROVE OutputIs(o)'
      <3>1. ~HasEnd(log[o]) /\ log'[o] = log[o]
        BY <2>1, AskedIsOpen
      <3> QED  BY <1>1, <1>4, <3>1 DEF Streams, OutputIs, StreamIs
    <2> QED  BY <1>3, <2>2, <2>3, <2>4 DEF Streams
  <1>6. CASE EndsOutputs
    <2>1. /\ at = "end" /\ at' \in {"over", "recv"} /\ atEnd' = atEnd
          /\ log' = [o \in Outputs |->
                       IF o \in GivenEnd(owedEnds) THEN Append(log[o], Eos) ELSE log[o]]
          /\ owedEnds' = owedEnds \ GivenEnd(owedEnds)
      BY <1>6 DEF EndsOutputs, GivesEnds, Ends, Pends
    <2>2. atEnd /\ Eos \in HandedItem
      BY <2>1 DEF Streams, Placed, Eos, HandedItem
    <2>3. StreamTypes'
      <3>1. ASSUME NEW o \in Outputs PROVE log'[o] \in Seq(HandedItem)
        <4>1. log[o] \in Seq(HandedItem)
          BY DEF Streams, StreamTypes
        <4> QED  BY <2>1, <2>2, <4>1, AppendProperties
      <3>2. log' \in [Outputs -> Seq(HandedItem)]
        BY <2>1, <3>1
      <3> QED  BY <1>1, <2>1, <3>2 DEF Streams, StreamTypes
    <2>4. Placed'
      BY <1>1, <1>2, <2>1 DEF Streams, Placed, Polling
    <2>5. ASSUME NEW o \in Outputs PROVE OutputIs(o)'
      <3>1. OutputIs(o) /\ log[o] \in Seq(HandedItem) /\ begun \in Nat /\ Len(made) \in Nat
        BY HeldOfTyped DEF Streams
      <3>2. CASE o \notin GivenEnd(owedEnds)
        <4>1. log'[o] = log[o] /\ (OverFor(o) => OverFor(o)')
          BY <1>1, <2>1, <3>2 DEF OverFor
        <4> QED  BY <1>1, <1>4, <3>1, <4>1 DEF OutputIs, StreamIs
      <3>3. CASE o \in GivenEnd(owedEnds)
        <4>1. log'[o] = Append(log[o], Eos) /\ o \in owedEnds /\ ~Owes(o)
          BY <2>1, <3>3 DEF GivenEnd
        <4>2. HeldOf(o) = {} /\ ~OverFor(o)
          <5>1. Owes(o) <=> HeldOf(o) # {}
            BY HeldForIs
          <5> QED  BY <1>2, <2>1, <4>1, <5>1 DEF OverFor
        <4>3. ~HasEnd(log[o])
          BY <4>2, HeldOfTyped
        <4>4. PICK none : none = {}
          OBVIOUS
        <4>5. StreamIs(log[o], none, begun, Len(made), Mine(o), forgotten, ended, OverFor(o))
          BY <3>1, <4>2, <4>4 DEF OutputIs
        <4>6. PICK later : later = OverFor(o)' /\ later
          BY <2>1, <2>2, <3>3 DEF OverFor
        <4>7. StreamIs(Append(log[o], Eos), none, begun, Len(made), Mine(o), forgotten,
                       ended, later)
          BY <1>2, <3>1, <4>3, <4>4, <4>5, <4>6, StreamEnds
        <4> QED  BY <1>1, <1>4, <4>1, <4>2, <4>4, <4>6, <4>7 DEF OutputIs, StreamIs
      <3> QED  BY <3>2, <3>3
    <2> QED  BY <1>3, <2>3, <2>4, <2>5 DEF Streams
  <1> QED  BY <1>5, <1>6

\* A finish hands on everything held, and the ends that are owed behind it.
LEMMA FinishStream == ASSUME Inv, Streams, TakesFinish PROVE Streams'
  <1> DEFINE ends(o) == IF ~atEnd \/ o \in owedEnds THEN <<Eos>> ELSE <<>>
  <1>1. /\ at = "take" /\ at' = "over" /\ pending' = <<>> /\ owedEnds' = {}
        /\ log' = [o \in Outputs |-> log[o] \o HeldFor(o) \o ends(o)]
        /\ UNCHANGED <<deferred, blocked, made, begun, forgotten, ended, atEnd>>
    BY DEF TakesFinish, Takes, InPoll, Ends, source
  <1>2. ~ended /\ deferred = <<>> /\ blocked = {} /\ begun # 0 /\ begun \in Nat
        /\ Len(made) \in Nat /\ deferred' \o pending' = <<>> /\ <<>> \in Seq(HeldItem)
        /\ 1 .. Len(<<>>) = {} /\ Eos \in HandedItem
    BY <1>1, ConcatEmptySeq, EmptySeq, LenProperties
       DEF Inv, Added, Streams, Placed, Polling, StreamTypes, Eos, HandedItem
  <1>3. ASSUME NEW o \in Outputs
        PROVE  /\ log'[o] \in Seq(HandedItem)
               /\ StreamIs(log'[o], {}, begun, Len(made), Mine(o), forgotten, ended, TRUE)
    <2> DEFINE l == log[o] \o HeldFor(o)
    <2>1. PICK none : none = {}
      OBVIOUS
    <2>2. /\ l \in Seq(HandedItem) /\ (HasEnd(l) <=> HasEnd(log[o]))
          /\ StreamIs(l, none, begun, Len(made), Mine(o), forgotten, ended, OverFor(o))
      <3>1. Mine(o) \subseteq Mine(o) /\ forgotten \subseteq forgotten /\ Len(made) <= Len(made)
            /\ (OverFor(o) => OverFor(o)) /\ (ended => ~HasEnd(log[o]))
        BY <1>2
      <3>2. /\ l \in Seq(HandedItem) /\ (HasEnd(l) <=> HasEnd(log[o]))
            /\ StreamIs(l, {}, begun, Len(made), Mine(o), forgotten, ended, OverFor(o))
        BY <1>2, <3>1, AllHandedOn
      <3> QED  BY <2>1, <3>2
    <2>3. log'[o] = l \o ends(o)
      BY <1>1
    <2> HIDE DEF l
    <2>4. CASE ~atEnd \/ o \in owedEnds
      <3>1. ~HasEnd(l)
        <4>1. ~OverFor(o)
          BY <1>1, <1>2, <2>4 DEF OverFor
        <4> QED  BY <2>2, <4>1, HeldOfTyped
      <3>2. l \o <<Eos>> = Append(l, Eos)
        <4>1. <<Eos>> \in Seq(HandedItem) /\ <<>> \in Seq(HandedItem) /\ l \o <<>> = l
          BY <1>2, <2>2, ConcatEmptySeq, EmptySeq
        <4> QED  BY <1>2, <2>2, <4>1, OneBehind
      <3>3. log'[o] = Append(l, Eos)
        BY <2>3, <2>4, <3>2
      <3>4. PICK later : later = TRUE
        OBVIOUS
      <3>5. StreamIs(Append(l, Eos), none, begun, Len(made), Mine(o), forgotten, ended, later)
        BY <1>2, <2>1, <2>2, <3>1, <3>4, StreamEnds
      <3> QED  BY <1>2, <2>1, <2>2, <3>3, <3>4, <3>5, AppendProperties DEF StreamIs
    <2>5. CASE ~(~atEnd \/ o \in owedEnds)
      <3>1. log'[o] = l
        BY <2>2, <2>3, <2>5, ConcatEmptySeq
      <3> QED  BY <2>1, <2>2, <3>1 DEF StreamIs
    <2> QED  BY <2>4, <2>5
  <1>4. StreamTypes'
    <2>1. log' \in [Outputs -> Seq(HandedItem)]
      <3>1. \A o \in Outputs : log'[o] \in Seq(HandedItem)
        BY <1>3
      <3>2. log' = [o \in Outputs |-> log'[o]]
        BY <1>1
      <3> QED  BY <3>1, <3>2
    <2> QED  BY <1>1, <1>2, <2>1 DEF Streams, StreamTypes
  <1>5. Placed'
    BY <1>1, <1>2 DEF Streams, Placed
  <1>6. HeldIs(deferred \o pending, begun, made)'
    <2>1. HeldIs(<<>>, begun', made')
      BY <1>2 DEF HeldIs, Rises
    <2> QED  BY <1>2, <2>1 DEF HeldIs
  <1>7. ASSUME NEW o \in Outputs PROVE OutputIs(o)'
    <2>1. HeldOf(o)' = {} /\ Mine(o)' = Mine(o) /\ OverFor(o)'
      BY <1>1, <1>2, HoldsInIs DEF HeldOf, Mine, OverFor
    <2>2. StreamIs(log'[o], {}, begun, Len(made), Mine(o), forgotten, ended, TRUE)
      BY <1>3
    <2> QED  BY <1>1, <2>1, <2>2 DEF OutputIs, StreamIs
  <1> QED  BY <1>4, <1>5, <1>6, <1>7 DEF Streams

\* Over, what is held is lost, of an output that has had no end.
LEMMA OverStream == ASSUME Inv, Streams, Over PROVE Streams'
  <1>1. /\ at = "over" /\ at' \in {"gone", "recv"} /\ ended' = TRUE /\ pending' = <<>>
        /\ UNCHANGED <<deferred, blocked, made, begun, forgotten, atEnd, owedEnds, log>>
    BY DEF Over, stage, source
  <1>2. deferred = <<>> /\ blocked = {} /\ begun # 0 /\ deferred' \o pending' = <<>>
        /\ <<>> \in Seq(HeldItem) /\ 1 .. Len(<<>>) = {}
    BY <1>1, ConcatEmptySeq, EmptySeq DEF Streams, Placed, Polling
  <1>3. StreamTypes'
    BY <1>1, <1>2 DEF Streams, StreamTypes
  <1>4. Placed'
    BY <1>1, <1>2 DEF Streams, Placed
  <1>5. HeldIs(deferred \o pending, begun, made)'
    <2>1. HeldIs(<<>>, begun', made')
      BY <1>2 DEF HeldIs, Rises
    <2> QED  BY <1>2, <2>1 DEF HeldIs
  <1>6. ASSUME NEW o \in Outputs PROVE OutputIs(o)'
    <2>1. HeldOf(o)' = {} /\ Mine(o)' = Mine(o) /\ OverFor(o)' /\ log'[o] = log[o]
      BY <1>1, <1>2, HoldsInIs DEF HeldOf, Mine, OverFor
    <2>2. StreamIs(log[o], HeldOf(o), begun, Len(made), Mine(o), forgotten, ended, OverFor(o))
      BY DEF Streams, OutputIs
    <2>3. Mine(o) \subseteq Nums(log[o]) \cup forgotten \/ ~HasEnd(log[o])
      <3>1. CASE HasEnd(log[o])
        <4>1. HeldOf(o) = {}
          BY <2>2, <3>1 DEF StreamIs
        <4> QED  BY <2>2, <3>1, <4>1 DEF StreamIs
      <3> QED  BY <3>1
    <2> QED  BY <1>1, <2>1, <2>2, <2>3 DEF OutputIs, StreamIs
  <1> QED  BY <1>3, <1>4, <1>5, <1>6 DEF Streams

\* So does every other step: none of them hands an output anything.
LEMMA StreamsNext == Inv /\ Streams /\ [Next]_vars => Streams'
<1> SUFFICES ASSUME Inv, Streams, [Next]_vars
             PROVE  Streams'
    OBVIOUS
<1> DEFINE Same == UNCHANGED <<pending, deferred, blocked, made, begun, forgotten, log,
                               ended, atEnd, owedEnds>>
<1>1. CASE Polls
    BY <1>1, PollsStream
<1>2. CASE BeginsOwed \/ MakesFlush \/ MakesSegment
    BY <1>2, SegmentsStream
<1>3. CASE DrainsOne
    BY <1>3, DrainsStream
<1>4. CASE Drained
    BY <1>4, DrainedStream
<1>5. CASE \E o \in Outputs : Makes(o)
    BY <1>5, MakesStream
<1>6. CASE MakesEnd \/ EndsOutputs
    BY <1>6, EndsStream
<1>7. CASE TakesFinish
    BY <1>7, FinishStream
<1>8. CASE Over
    BY <1>8, OverStream
<1>9. CASE Receives \/ ClearsQueued \/ EntersStopped \/ EnqueuesStop
    <2>1. /\ Same /\ at \notin {"over", "drain"}
          /\ at' \notin {"drain", "end", "produce", "take", "over"}
        BY <1>9 DEF Receives, ClearsQueued, EntersStopped, EnqueuesStop, stage, parking,
           outputs, source
    <2>2. /\ at = "over" => at' = "over"
          /\ at' # "drain" => at # "drain"
          /\ at' = "end" => atEnd
          /\ at' = "produce" => ~atEnd
          /\ at' \in Polling => begun # 0
        BY <2>1 DEF Polling
    <2> QED
        BY <2>1, <2>2, SameStreams
<1>10. CASE Takings \/ NothingAsked \/ Fails \/ Waits \/ MakesNothing
    <2>1. /\ Same /\ at \in {"take", "produce"} /\ at' \in {"take", "drain", "over", "recv"}
        BY <1>10 DEF Takings, LeavesPause, Applies, Takes, NothingAsked, Fails, Waits,
           MakesNothing, IsAsked, Asks, InPoll, Again, Pends, GoesOn, Ends, stage, parking,
           outputs, source
    <2>2. begun # 0
        BY <2>1 DEF Streams, Placed, Polling
    <2>3. /\ at = "over" => at' = "over"
          /\ at' # "drain" => at # "drain"
          /\ at' = "end" => atEnd
          /\ at' = "produce" => ~atEnd
          /\ at' \in Polling => begun # 0
        BY <2>1, <2>2
    <2> QED
        BY <2>1, <2>3, SameStreams
<1>11. CASE \/ Handle \/ Returns \/ DropsRunner \/ Sends \/ TimerWakes \/ SourceWakes
            \/ Tick \/ (\E o \in Outputs : Frees(o)) \/ UNCHANGED vars
    <2>1. Same /\ at' = at
        BY <1>11 DEF Handle, Pause, Resume, Stop, Finish, Calls, Returns, Enqueues, WakesPoll,
           DropsRunner, Sends, TimerWakes, SourceWakes, Tick, Frees, vars, lane, stage,
           parking, outputs, source
    <2>2. (at = "end" => atEnd) /\ (at = "produce" => ~atEnd) /\ (begun = 0 => at \notin Polling)
        BY DEF Streams, Placed
    <2> QED
        BY <2>1, <2>2, SameStreams
<1> QED
    BY <1>1, <1>2, <1>3, <1>4, <1>5, <1>6, <1>7, <1>8, <1>9, <1>10, <1>11
       DEF Next, Lane

\* Nothing has been made, and nothing handed on.
LEMMA StreamsInit == Init => Streams
<1> SUFFICES ASSUME Init
             PROVE  Streams
    OBVIOUS
<1>1. /\ at = "recv" /\ ended = FALSE /\ atEnd = FALSE /\ owedEnds = {} /\ pending = <<>>
      /\ deferred = <<>> /\ blocked = {} /\ made = <<>> /\ begun = 0 /\ forgotten = {}
      /\ log = [o \in Outputs |-> <<>>]
    BY DEF Init
<1>2. /\ <<>> \in Seq(HeldItem) /\ <<>> \in Seq(Outputs) /\ <<>> \in Seq(HandedItem)
      /\ Len(<<>>) = 0 /\ 1 .. Len(<<>>) = {}
    BY EmptySeq
<1>3. deferred \o pending = <<>>
    BY <1>1, <1>2, ConcatEmptySeq
<1>4. StreamTypes
    BY <1>1, <1>2 DEF StreamTypes
<1>5. Placed
    BY <1>1, <1>2 DEF Placed, Polling
<1>6. HeldIs(deferred \o pending, begun, made)
    BY <1>2, <1>3 DEF HeldIs, Rises
<1>7. ASSUME NEW o \in Outputs
      PROVE  OutputIs(o)
    <2>1. /\ HeldOf(o) = {} /\ Mine(o) = {} /\ log[o] = <<>> /\ Bufs(<<>>) = {}
          /\ ~HasEnd(<<>>)
        BY <1>1, <1>2, <1>3, HoldsInIs DEF HeldOf, Mine, Bufs, HasEnd
    <2>2. LogIs(<<>>, 0, 0)
        BY <1>2, <2>1 DEF LogIs, InOrder
    <2> QED
        BY <1>1, <1>2, <2>1, <2>2 DEF OutputIs, StreamIs
<1> QED
    BY <1>4, <1>5, <1>6, <1>7 DEF Streams

\* The log in the terms of the properties.
LEMMA LogSays ==
    ASSUME Streams, NEW o \in Outputs
    PROVE  /\ BuffersOf(o) = Bufs(log[o]) /\ NumbersOf(o) = Nums(log[o])
           /\ IsEnded(o) <=> HasEnd(log[o])
           /\ DOMAIN log[o] = 1 .. Len(log[o])
           /\ {n \in DOMAIN made : made[n] = o} = Mine(o)
<1>1. DOMAIN log[o] = 1 .. Len(log[o]) /\ DOMAIN made = 1 .. Len(made)
    BY LenProperties DEF Streams, StreamTypes
<1>2. BuffersOf(o) = Bufs(log[o])
    BY <1>1 DEF BuffersOf, Bufs
<1>3. NumbersOf(o) = Nums(log[o])
    BY <1>2 DEF NumbersOf, Nums
<1>4. IsEnded(o) <=> HasEnd(log[o])
    BY <1>1 DEF IsEnded, Contains, HasEnd
<1> QED
    BY <1>1, <1>2, <1>3, <1>4 DEF Mine

\* Every output is handed what was made for it in the order it was made, held
\* back or not, each buffer inside its segment, and nothing after its end.
THEOREM EachInOrderHolds == Spec => []EachInOrder
<1>1. Streams => EachInOrder
    <2> SUFFICES ASSUME Streams, NEW o \in Outputs
                 PROVE  /\ \A i, j \in BuffersOf(o) : i < j => log[o][i].n < log[o][j].n
                        /\ \A i \in BuffersOf(o), j \in DOMAIN log[o] :
                               log[o][j].is = "segment" =>
                                   (j < i <=> log[o][j].segment <= log[o][i].segment)
                        /\ \A i \in DOMAIN log[o] : log[o][i] = Eos => i = Len(log[o])
        BY DEF EachInOrder
    <2>1. InOrder(log[o])
        BY DEF Streams, OutputIs, StreamIs, LogIs
    <2> QED
        BY <2>1, LogSays DEF InOrder
<1> QED
    BY <1>1, StreamsInit, StreamsNext, InvCorrect, PTL DEF Spec

\* An output's end is behind everything made for it that no flush let go of:
\* neither the drain nor a finish leaves any of it behind.
THEOREM WholeAtItsEndHolds == Spec => []WholeAtItsEnd
<1>1. Streams => WholeAtItsEnd
    <2> SUFFICES ASSUME Streams, NEW o \in Outputs, IsEnded(o)
                 PROVE  {n \in DOMAIN made : made[n] = o} \subseteq NumbersOf(o) \cup forgotten
        BY DEF WholeAtItsEnd
    <2>1. /\ StreamIs(log[o], HeldOf(o), begun, Len(made), Mine(o), forgotten, ended, OverFor(o))
          /\ HasEnd(log[o])
        BY LogSays DEF Streams, OutputIs
    <2>2. Mine(o) \subseteq Nums(log[o]) \cup forgotten
        <3>1. HeldOf(o) = {}
            BY <2>1 DEF StreamIs
        <3> QED
            BY <2>1, <3>1 DEF StreamIs
    <2> QED
        BY <2>2, LogSays
<1> QED
    BY <1>1, StreamsInit, StreamsNext, InvCorrect, PTL DEF Spec

-----------------------------------------------------------------------------
(* Over for every output.                                                  *)

StopIsAsked == \E i \in 1 .. Len(control) : control[i] = "Stop"
AllEnded == \A o \in Outputs : HasEnd(log[o])

\* Its end made, each output has had it or is owed it; over, each has had its
\* end or heard a stop; and the poll of a drop, which no lane polls again, has
\* the stop still to take, or took it.
IsOver ==
    /\ heardStop \in BOOLEAN
    /\ atEnd => \A o \in Outputs \ owedEnds : HasEnd(log[o])
    /\ at = "over" \/ ended => heardStop \/ AllEnded
    /\ dropping /\ ~heardStop =>
           at = "over" \/ ended \/ (at \in {"poll", "take"} /\ StopIsAsked)

\* An end stays in the log, whatever is put behind it.
LEMMA EndStays ==
    ASSUME NEW l \in Seq(HandedItem), NEW b \in Seq(HandedItem)
    PROVE  /\ HasEnd(l) => HasEnd(l \o b)
           /\ \A x \in HandedItem : HasEnd(l) => HasEnd(Append(l, x))
           /\ HasEnd(Append(l, Eos))
  <1>1. /\ Len(l) \in Nat /\ l \o b \in Seq(HandedItem) /\ Len(l \o b) = Len(l) + Len(b)
        /\ Len(b) \in Nat /\ \A i \in 1 .. Len(l) : (l \o b)[i] = l[i]
    BY ConcatIs
  <1>2. HasEnd(l) => HasEnd(l \o b)
    <2>1. \A i \in 1 .. Len(l) : i \in 1 .. Len(l \o b)
      BY <1>1
    <2> QED  BY <1>1, <2>1 DEF HasEnd
  <1>3. Eos \in HandedItem
    BY DEF Eos, HandedItem
  <1>4. ASSUME NEW x \in HandedItem
        PROVE  /\ HasEnd(l) => HasEnd(Append(l, x))
               /\ x = Eos => HasEnd(Append(l, x))
    <2>1. /\ Len(Append(l, x)) = Len(l) + 1 /\ Append(l, x)[Len(l) + 1] = x
          /\ \A i \in 1 .. Len(l) : Append(l, x)[i] = l[i]
      BY AppendProperties
    <2>2. Len(l) + 1 \in 1 .. Len(Append(l, x))
          /\ \A i \in 1 .. Len(l) : i \in 1 .. Len(Append(l, x))
      BY <1>1, <2>1
    <2> QED  BY <2>1, <2>2 DEF HasEnd
  <1> QED  BY <1>2, <1>3, <1>4

\* What is asked last is asked, and a stop is until it is taken.
LEMMA StopStays ==
    ASSUME NEW s \in Seq(Requests)
    PROVE  /\ \A x \in Requests : \A i \in 1 .. Len(s) :
                 i \in 1 .. Len(Append(s, x)) /\ Append(s, x)[i] = s[i]
           /\ \A x \in Requests : \E i \in 1 .. Len(Append(s, x)) : Append(s, x)[i] = x
           /\ s # <<>> => \A i \in 1 .. Len(s) :
                 s[i] = Head(s) \/ \E j \in 1 .. Len(Tail(s)) : Tail(s)[j] = s[i]
           /\ s = <<>> => 1 .. Len(s) = {}
  <1>1. ASSUME NEW x \in Requests
        PROVE  /\ \A i \in 1 .. Len(s) :
                     i \in 1 .. Len(Append(s, x)) /\ Append(s, x)[i] = s[i]
               /\ \E i \in 1 .. Len(Append(s, x)) : Append(s, x)[i] = x
    <2>1. /\ Len(Append(s, x)) = Len(s) + 1 /\ Append(s, x)[Len(s) + 1] = x /\ Len(s) \in Nat
          /\ \A i \in 1 .. Len(s) : Append(s, x)[i] = s[i]
      BY AppendProperties, LenProperties
    <2>2. Len(s) + 1 \in 1 .. Len(Append(s, x))
      BY <2>1
    <2> QED  BY <2>1, <2>2
  <1>2. ASSUME s # <<>>, NEW i \in 1 .. Len(s)
        PROVE  s[i] = Head(s) \/ \E j \in 1 .. Len(Tail(s)) : Tail(s)[j] = s[i]
    <2>1. /\ Len(Tail(s)) = Len(s) - 1 /\ Len(s) \in Nat /\ Head(s) = s[1]
          /\ \A j \in 1 .. Len(Tail(s)) : Tail(s)[j] = s[j + 1]
      BY <1>2, HeadTailProperties, LenProperties
    <2>2. i # 1 => i - 1 \in 1 .. Len(Tail(s)) /\ (i - 1) + 1 = i
      BY <2>1
    <2> QED  BY <2>1, <2>2
  <1> QED  BY <1>1, <1>2, EmptySeq

\* A step that leaves the ends be.
LEMMA SameIsOver ==
    ASSUME IsOver, heardStop' \in BOOLEAN, heardStop => heardStop',
           \A o \in Outputs : HasEnd(log[o]) => HasEnd(log'[o]),
           UNCHANGED <<atEnd, owedEnds, ended, dropping>>,
           at' = "over" => at = "over" \/ heardStop'
                              \/ \A o \in Outputs : HasEnd(log'[o]),
           dropping /\ ~heardStop' =>
               at' = "over" \/ ended \/ (at' \in {"poll", "take"} /\ StopIsAsked')
    PROVE  IsOver'
  BY DEF IsOver, AllEnded

\* No output's end leaves its log.
LEMMA EndsStay ==
    ASSUME Inv, Streams, [Next]_vars, NEW o \in Outputs
    PROVE  HasEnd(log[o]) => HasEnd(log'[o])
<1> SUFFICES ASSUME HasEnd(log[o])
             PROVE  HasEnd(log'[o])
    OBVIOUS
<1>1. /\ log \in [Outputs -> Seq(HandedItem)] /\ log[o] \in Seq(HandedItem)
      /\ HeldFor(o) \in Seq(HandedItem) /\ begun \in Nat /\ Eos \in HandedItem
      /\ <<>> \in Seq(HandedItem)
    BY HeldForIs, EmptySeq DEF Streams, StreamTypes, Eos, HandedItem
<1>2. \A k \in Nat : SegmentOf(k) \in HandedItem
    BY DEF SegmentOf, HandedItem
<1>3. CASE log'[o] = log[o]
    BY <1>3
<1>4. ASSUME NEW b \in Seq(HandedItem), log'[o] = log[o] \o b
      PROVE  HasEnd(log'[o])
    BY <1>1, <1>4, EndStays
<1>5. ASSUME NEW k \in Nat, HandSegment(k)
      PROVE  HasEnd(log'[o])
    <2>1. log'[o] = Append(log[o], SegmentOf(k)) /\ SegmentOf(k) \in HandedItem
        BY <1>2, <1>5 DEF HandSegment
    <2> QED
        BY <1>1, <2>1, EndStays
<1>6. CASE Polls \/ BeginsOwed \/ MakesFlush \/ MakesSegment
    <2>1. HandSegment(1) \/ HandSegment(begun + 1) \/ log' = log
        BY <1>6 DEF Polls, BeginsOwed, MakesFlush, MakesSegment
    <2> QED
        BY <1>1, <1>3, <1>5, <2>1
<1>7. CASE TakesFinish
    <2>1. PICK e \in {<<>>, <<Eos>>} : log'[o] = log[o] \o HeldFor(o) \o e
        BY <1>7 DEF TakesFinish
    <2>2. e \in Seq(HandedItem)
        <3>1. <<Eos>> \in Seq(HandedItem)
            BY <1>1
        <3> QED
            BY <1>1, <2>1, <3>1
    <2>3. log[o] \o HeldFor(o) \in Seq(HandedItem) /\ HasEnd(log[o] \o HeldFor(o))
        BY <1>1, EndStays, ConcatProperties
    <2> QED
        BY <2>1, <2>2, <2>3, EndStays
<1>8. CASE EndsOutputs
    <2>1. log'[o] = log[o] \/ log'[o] = Append(log[o], Eos)
        BY <1>8 DEF EndsOutputs, GivesEnds
    <2> QED
        BY <1>1, <2>1, EndStays
<1>9. CASE DrainsOne
    <2>1. log' = log \/ log' = [log EXCEPT ![Head(pending).to] = @ \o <<Item(Head(pending))>>]
        BY <1>9 DEF DrainsOne, Hand, outputs
    <2>2. CASE log' # log
        <3>1. pending # <<>> /\ pending \in Seq(HeldItem)
            BY <1>9 DEF DrainsOne, Streams, StreamTypes
        <3>2. Head(pending) \in HeldItem
            BY <3>1, HeadTailProperties
        <3>3. Item(Head(pending)) \in HandedItem
            BY <3>2 DEF Item, HeldItem, HandedItem
        <3>4. <<Item(Head(pending))>> \in Seq(HandedItem)
            BY <3>3
        <3>5. log'[o] = log[o] \/ log'[o] = log[o] \o <<Item(Head(pending))>>
            BY <1>1, <2>1
        <3> QED
            BY <1>3, <1>4, <3>4, <3>5
    <2> QED
        BY <1>3, <2>2
<1>10. CASE \E q \in Outputs : Makes(q)
    <2>1. PICK q \in Outputs : Makes(q)
        BY <1>10
    <2>2. PICK p : p = [to |-> q, n |-> Len(made) + 1, segment |-> begun]
        OBVIOUS
    <2>3. log' = log \/ log' = [log EXCEPT ![q] = @ \o Append(HeldFor(q), Item(p))]
        BY <2>1, <2>2 DEF Makes, Hand, outputs
    <2>4. Len(made) + 1 \in Nat
        BY LenProperties DEF Streams, StreamTypes
    <2>5. Item(p) \in HandedItem
        BY <1>1, <2>2, <2>4 DEF Item, HandedItem
    <2>6. Append(HeldFor(o), Item(p)) \in Seq(HandedItem)
        BY <1>1, <2>5, AppendProperties
    <2>7. log'[o] = log[o] \/ log'[o] = log[o] \o Append(HeldFor(o), Item(p))
        BY <1>1, <2>3
    <2> QED
        BY <1>3, <1>4, <2>6, <2>7
<1>11. CASE \/ Drained \/ MakesEnd \/ Over \/ Receives \/ ClearsQueued \/ EntersStopped
            \/ EnqueuesStop \/ Takings \/ NothingAsked \/ Fails \/ Waits \/ MakesNothing
            \/ Handle \/ Returns \/ DropsRunner \/ Sends \/ TimerWakes \/ SourceWakes
            \/ Tick \/ (\E q \in Outputs : Frees(q)) \/ UNCHANGED vars
    <2>1. log' = log
        BY <1>11 DEF Drained, MakesEnd, Over, Receives, ClearsQueued, EntersStopped,
           EnqueuesStop, Takings, LeavesPause, Applies, NothingAsked, Fails, Waits,
           MakesNothing, Handle, Pause, Resume, Stop, Finish, Calls, Returns, Enqueues,
           WakesPoll, DropsRunner, Sends, TimerWakes, SourceWakes, Tick, Frees, vars,
           outputs
    <2> QED
        BY <2>1
<1> QED
    BY <1>6, <1>7, <1>8, <1>9, <1>10, <1>11 DEF Next, Lane

\* The requests taken, one by one, and the last of them a stop.
LEMMA TakingIsOver ==
    ASSUME Inv, Streams, IsOver, [Next]_vars, Takings \/ TakesFinish \/ NothingAsked \/ Fails
    PROVE  IsOver'
<1>1. /\ UNCHANGED <<atEnd, ended, dropping>> /\ ~ended
      /\ heardStop \in BOOLEAN /\ heardStop' \in BOOLEAN /\ (heardStop => heardStop')
      /\ \A o \in Outputs : HasEnd(log[o]) => HasEnd(log'[o])
    BY EndsStay DEF Takings, LeavesPause, Applies, Takes, TakesFinish, NothingAsked, Fails,
       TellsStop, Pends, InPoll, Ends, stage, IsOver, Inv, Added
<1>2. control \in Seq(Requests)
    BY DEF Inv, Types, Requests
<1>3. CASE Fails
    <2>1. heardStop' = TRUE /\ owedEnds' = owedEnds
        BY <1>3 DEF Fails, TellsStop, stage
    <2> QED
        BY <1>1, <2>1, SameIsOver
<1>4. CASE TakesFinish
    <2>1. /\ at' = "over" /\ owedEnds' = {}
          /\ log' = [o \in Outputs |-> log[o] \o HeldFor(o)
                                        \o (IF ~atEnd \/ o \in owedEnds THEN <<Eos>> ELSE <<>>)]
        BY <1>4 DEF TakesFinish, Ends
    <2>2. ASSUME NEW o \in Outputs PROVE HasEnd(log'[o])
        <3>1. CASE ~atEnd \/ o \in owedEnds
            <4>1. log'[o] = log[o] \o HeldFor(o) \o <<Eos>>
                BY <2>1, <3>1
            <4>2. /\ log[o] \in Seq(HandedItem) /\ HeldFor(o) \in Seq(HandedItem)
                  /\ Eos \in HandedItem
                BY HeldForIs DEF Streams, StreamTypes, Eos, HandedItem
            <4>3. log[o] \o HeldFor(o) \in Seq(HandedItem)
                BY <4>2, ConcatProperties
            <4>4. log'[o] = Append(log[o] \o HeldFor(o), Eos)
                BY <4>1, <4>2, OneBehind
            <4> QED
                BY <4>2, <4>3, <4>4, EndStays
        <3>2. CASE ~(~atEnd \/ o \in owedEnds)
            BY <1>1, <3>2 DEF IsOver
        <3> QED
            BY <3>1, <3>2
    <2> QED
        BY <1>1, <2>1, <2>2 DEF IsOver, AllEnded
<1>5. CASE NothingAsked
    <2>1. /\ at = "take" /\ control = <<>> /\ UNCHANGED <<owedEnds, heardStop>>
          /\ at' = "over" => dropping
        BY <1>5 DEF NothingAsked, Pends, GoesOn
    <2>2. ~StopIsAsked
        BY <1>2, <2>1, StopStays DEF StopIsAsked
    <2>3. ~dropping \/ heardStop
        BY <1>1, <2>1, <2>2 DEF IsOver
    <2> QED
        BY <1>1, <2>1, <2>3, SameIsOver
<1>6. CASE Takings
    <2>1. PICK msg \in {"Pause", "Resume", "Stop"} : LeavesPause(msg) \/ Applies(msg)
        BY <1>6 DEF Takings
    <2>2. /\ at = "take" /\ control # <<>> /\ Head(control) = msg /\ control' = Tail(control)
          /\ owedEnds' = owedEnds /\ heardStop' = (heardStop \/ msg = "Stop")
          /\ at' \in {"take", "over"} /\ (at' = "over" => msg = "Stop")
        BY <2>1 DEF LeavesPause, Applies, Takes, Ends, GoesOn
    <2>3. CASE msg = "Stop"
        BY <1>1, <2>2, <2>3, SameIsOver
    <2>4. CASE msg # "Stop"
        <3>1. ASSUME StopIsAsked PROVE StopIsAsked'
            <4>1. PICK i \in 1 .. Len(control) : control[i] = "Stop"
                BY <3>1 DEF StopIsAsked
            <4>2. \E j \in 1 .. Len(Tail(control)) : Tail(control)[j] = "Stop"
                BY <1>2, <2>2, <2>4, <4>1, StopStays
            <4> QED
                BY <2>2, <4>2 DEF StopIsAsked
        <3>2. at' = "take"
            BY <2>2, <2>4
        <3>3. dropping /\ ~heardStop' => StopIsAsked
            BY <1>1, <2>2 DEF IsOver
        <3>4. dropping /\ ~heardStop' => at' \in {"poll", "take"} /\ StopIsAsked'
            BY <3>1, <3>2, <3>3
        <3> QED
            BY <1>1, <2>2, <3>2, <3>4, SameIsOver
    <2> QED
        BY <2>3, <2>4
<1> QED
    BY <1>3, <1>4, <1>5, <1>6

\* So does every step.
LEMMA IsOverNext == Inv /\ Streams /\ IsOver /\ [Next]_vars => IsOver'
<1> SUFFICES ASSUME Inv, Streams, IsOver, [Next]_vars
             PROVE  IsOver'
    OBVIOUS
<1>1. /\ \A o \in Outputs : HasEnd(log[o]) => HasEnd(log'[o])
      /\ control \in Seq(Requests) /\ op \in Seq(Requests)
      /\ heardStop \in BOOLEAN
    BY EndsStay DEF Inv, Types, Requests, IsOver
<1>2. CASE Takings \/ TakesFinish \/ NothingAsked \/ Fails
    BY <1>2, TakingIsOver
<1>3. CASE \/ DrainsOne \/ Drained \/ Waits \/ BeginsOwed \/ \E o \in Outputs : Makes(o)
           \/ MakesFlush \/ MakesSegment \/ MakesNothing
    <2>1. /\ at \in {"drain", "produce"}
          /\ at' = "over" => dropping
          /\ UNCHANGED <<atEnd, owedEnds, ended, dropping, heardStop>>
        BY <1>3 DEF DrainsOne, Drained, Waits, BeginsOwed, Makes, MakesFlush, MakesSegment,
           MakesNothing, IsAsked, Asks, InPoll, Again, Pends, GoesOn, stage
    <2>2. ~ended /\ (dropping => heardStop)
        BY <1>3, <2>1 DEF IsOver, Inv, Added
    <2> QED
        BY <1>1, <2>1, <2>2, SameIsOver
<1>4. CASE MakesEnd
    <2>1. /\ at = "produce" /\ at' = "drain" /\ owedEnds' = Outputs
          /\ UNCHANGED <<ended, dropping, heardStop>>
        BY <1>4 DEF MakesEnd, IsAsked, Asks, InPoll, GoesOn
    <2> QED
        BY <1>1, <2>1 DEF IsOver, Inv, Added
<1>5. CASE EndsOutputs
    <2>1. /\ at = "end" /\ UNCHANGED <<atEnd, ended, dropping, heardStop>>
          /\ owedEnds' = owedEnds \ GivenEnd(owedEnds)
          /\ \A o \in Outputs : o \in GivenEnd(owedEnds) => log'[o] = Append(log[o], Eos)
          /\ at' = "over" => dropping \/ owedEnds' = {}
        BY <1>5 DEF EndsOutputs, GivesEnds, Ends, Pends, InPoll
    <2>2. ~ended /\ (dropping => heardStop) /\ atEnd
        BY <2>1 DEF IsOver, Inv, Added, Streams, Placed
    <2>3. ASSUME NEW o \in Outputs, o \notin owedEnds' PROVE HasEnd(log'[o])
        <3>1. CASE o \in owedEnds
            <4>1. log'[o] = Append(log[o], Eos) /\ log[o] \in Seq(HandedItem)
                BY <2>1, <2>3, <3>1 DEF Streams, StreamTypes
            <4> QED
                BY <4>1, EndStays
        <3>2. CASE o \notin owedEnds
            BY <1>1, <2>2, <3>2 DEF IsOver
        <3> QED
            BY <3>1, <3>2
    <2> QED
        BY <1>1, <2>1, <2>2, <2>3 DEF IsOver, AllEnded
<1>6. CASE Over
    <2>1. at = "over" /\ ended' = TRUE /\ UNCHANGED <<atEnd, owedEnds, log, heardStop>>
        BY <1>6 DEF Over, stage
    <2> QED
        BY <1>1, <2>1 DEF IsOver, AllEnded
<1>7. CASE EnqueuesStop
    <2>1. /\ at = "dropped" /\ at' = "poll" /\ control' = Append(control, "Stop")
          /\ UNCHANGED <<atEnd, owedEnds, log, heardStop, ended>>
        BY <1>7 DEF EnqueuesStop, stage, outputs
    <2>2. StopIsAsked'
        <3>1. "Stop" \in Requests
            BY DEF Requests
        <3>2. \E i \in 1 .. Len(control') : control'[i] = "Stop"
            <4>1. PICK x \in Requests : x = "Stop"
                BY <3>1
            <4>2. \E i \in 1 .. Len(Append(control, x)) : Append(control, x)[i] = x
                BY <1>1, StopStays
            <4>3. control' = Append(control, x)
                BY <2>1, <4>1
            <4> QED
                BY <4>1, <4>2, <4>3
        <3> QED
            BY <3>2 DEF StopIsAsked
    <2> QED
        BY <1>1, <2>1, <2>2 DEF IsOver, AllEnded, Inv, Added
<1>8. CASE Receives \/ ClearsQueued \/ EntersStopped
    <2>1. /\ at \in {"recv", "clear", "drop"} /\ at' # "over"
          /\ UNCHANGED <<atEnd, owedEnds, log, heardStop, ended, dropping>>
        BY <1>8 DEF Receives, ClearsQueued, EntersStopped, stage, outputs
    <2>2. ~dropping
        BY <2>1 DEF Inv, Added
    <2> QED
        BY <1>1, <2>1, <2>2, SameIsOver
<1>9. CASE Enqueues
    <2>1. /\ op # <<>> /\ UNCHANGED <<at, atEnd, owedEnds, log, heardStop, ended, dropping>>
          /\ control' = (IF ended THEN control ELSE Append(control, Head(op)))
        BY <1>9 DEF Enqueues, lane, stage, outputs
    <2>2. Head(op) \in Requests
        BY <1>1, <2>1, Lasts
    <2>3. ASSUME StopIsAsked, ~ended PROVE StopIsAsked'
        <3>1. PICK i \in 1 .. Len(control) : control[i] = "Stop"
            BY <2>3 DEF StopIsAsked
        <3>2. control' = Append(control, Head(op))
            BY <2>1, <2>3
        <3>3. i \in 1 .. Len(control') /\ control'[i] = "Stop"
            BY <1>1, <2>2, <3>1, <3>2, StopStays
        <3> QED
            BY <3>3 DEF StopIsAsked
    <2>4. dropping /\ ~heardStop' =>
               at' = "over" \/ ended \/ (at' \in {"poll", "take"} /\ StopIsAsked')
        BY <2>1, <2>3 DEF IsOver
    <2> QED
        BY <1>1, <2>1, <2>4, SameIsOver
<1>10. CASE \/ Polls \/ Handle \/ WakesPoll \/ DropsRunner \/ Sends \/ TimerWakes \/ SourceWakes
            \/ Tick \/ (\E o \in Outputs : Frees(o)) \/ UNCHANGED vars
    <2>1. /\ UNCHANGED <<control, atEnd, owedEnds, heardStop, ended, dropping>>
          /\ at' = at \/ (at = "poll" /\ at' = "take")
        BY <1>10 DEF Polls, Handle, Pause, Resume, Stop, Finish, Calls, WakesPoll, DropsRunner,
           Sends, TimerWakes, SourceWakes, Tick, Frees, vars, lane, stage
    <2>2. StopIsAsked' <=> StopIsAsked
        BY <2>1 DEF StopIsAsked
    <2>3. dropping /\ ~heardStop' =>
               at' = "over" \/ ended \/ (at' \in {"poll", "take"} /\ StopIsAsked')
        BY <2>1, <2>2 DEF IsOver
    <2> QED
        BY <1>1, <2>1, <2>3, SameIsOver
<1> QED
    BY <1>2, <1>3, <1>4, <1>5, <1>6, <1>7, <1>8, <1>9, <1>10 DEF Next, Lane, Returns

\* However it ended, every output has had its end or been told that it is over:
\* the one poll that follows a drop takes the stop the drop enqueued.
THEOREM EveryOutputIsOverHolds == Spec => []EveryOutputIsOver
<1>1. Init => IsOver
    BY DEF Init, IsOver
<1>2. Streams /\ IsOver => EveryOutputIsOver
    BY LogSays DEF IsOver, AllEnded, EveryOutputIsOver
<1> QED
    BY <1>1, <1>2, StreamsInit, StreamsNext, IsOverNext, InvCorrect, PTL DEF Spec

=============================================================================
