---------------------------- MODULE Queue_proofs ----------------------------
(***************************************************************************)
(* What Queue.tla promises for every capacity, every overflow policy and   *)
(* any number of calls, requests and panics.  The heart of it is that      *)
(* ends_owed is exact, and that a worker's end is explained: both come     *)
(* from one inductive invariant.  And that it implements QueueSpec.tla.    *)
(***************************************************************************)
EXTENDS Queue, FiniteSetTheorems, FunctionTheorems, TLAPS

-----------------------------------------------------------------------------
(* Counting the ends in a channel.                                         *)

EndsAt(s) == {i \in DOMAIN s : s[i] = "eos"}

\* A channel holds finitely many ends.
LEMMA EndsAtFinite ==
    ASSUME NEW S, NEW s \in Seq(S)
    PROVE  IsFiniteSet(EndsAt(s)) /\ Cardinality(EndsAt(s)) \in Nat
<1>1. Len(s) \in Nat /\ DOMAIN s = 1..Len(s)
    OBVIOUS
<1>2. IsFiniteSet(1..Len(s))
    BY <1>1, FS_Interval
<1>3. EndsAt(s) \in SUBSET (1..Len(s))
    BY <1>1 DEF EndsAt
<1>4. IsFiniteSet(EndsAt(s))
    BY <1>2, <1>3, FS_Subset
<1>5. QED
    BY <1>4, FS_CardinalityType

\* The count of them is their number.
LEMMA EndsIsCardinality ==
    \A s : Ends(s) = Cardinality(EndsAt(s))
BY DEF Ends, EndsAt

\* An empty channel holds no end, and no channel holds fewer than none.
LEMMA EndsEmpty == Ends(<<>>) = 0
<1>1. {i \in DOMAIN <<>> : <<>>[i] = "eos"} = {}
    OBVIOUS
<1>2. QED
    BY <1>1, FS_EmptySet DEF Ends

\* It is a natural number.
LEMMA EndsType ==
    ASSUME NEW S, NEW s \in Seq(S)
    PROVE  Ends(s) \in Nat
BY EndsAtFinite, EndsIsCardinality

\* What is handed over adds to the ends in the channel exactly if it is one.
LEMMA EndsAppend ==
    ASSUME NEW S, NEW s \in Seq(S), NEW x \in S
    PROVE  Ends(Append(s, x)) = Ends(s) + One(x = "eos")
<1> DEFINE t == Append(s, x)
           n == Len(s) + 1
<1>1. /\ t \in Seq(S) /\ DOMAIN t = 1..n /\ DOMAIN s = 1..Len(s)
      /\ Len(s) \in Nat /\ t[n] = x /\ \A i \in 1..Len(s) : t[i] = s[i]
    OBVIOUS
<1>2. n \notin EndsAt(s)
    BY <1>1 DEF EndsAt
<1>3. CASE x = "eos"
    <2>1. EndsAt(t) = EndsAt(s) \cup {n}
        BY <1>1, <1>3 DEF EndsAt
    <2>2. Cardinality(EndsAt(t)) = Cardinality(EndsAt(s)) + 1
        BY <2>1, <1>2, EndsAtFinite, FS_AddElement
    <2>3. QED
        BY <2>2, <1>3, EndsIsCardinality DEF One
<1>4. CASE x # "eos"
    <2>1. EndsAt(t) = EndsAt(s)
        BY <1>1, <1>4 DEF EndsAt
    <2>2. Cardinality(EndsAt(s)) \in Nat
        BY EndsAtFinite
    <2>3. QED
        BY <2>1, <2>2, <1>4, EndsIsCardinality DEF One
<1>5. QED
    BY <1>3, <1>4

\* What is taken from the channel leaves the other ends in it.
LEMMA EndsTail ==
    ASSUME NEW S, NEW s \in Seq(S), s # <<>>
    PROVE  Ends(s) = Ends(Tail(s)) + One(Head(s) = "eos")
<1> DEFINE t == Tail(s)
           rest == EndsAt(s) \ {1}
           shift == [i \in EndsAt(t) |-> i + 1]
<1>1. /\ t \in Seq(S) /\ Len(s) \in Nat /\ Len(s) > 0 /\ Len(t) = Len(s) - 1
      /\ DOMAIN s = 1..Len(s) /\ DOMAIN t = 1..Len(t)
      /\ \A i \in 1..Len(t) : t[i] = s[i + 1]
      /\ Head(s) = s[1]
    OBVIOUS
<1>2. shift \in Bijection(EndsAt(t), rest)
    <2>1. shift \in [EndsAt(t) -> rest]
        BY <1>1 DEF EndsAt
    <2>2. \A i, j \in EndsAt(t) : shift[i] = shift[j] => i = j
        BY <1>1 DEF EndsAt
    <2>3. \A k \in rest : \E i \in EndsAt(t) : shift[i] = k
        <3> SUFFICES ASSUME NEW k \in rest PROVE \E i \in EndsAt(t) : shift[i] = k
            OBVIOUS
        <3>1. k - 1 \in EndsAt(t) /\ shift[k - 1] = k
            BY <1>1 DEF EndsAt
        <3>2. QED
            BY <3>1
    <2>4. QED
        BY <2>1, <2>2, <2>3 DEF Bijection, Injection, IsInjective, Surjection
<1>3. Cardinality(rest) = Cardinality(EndsAt(t))
    <2>1. ExistsBijection(EndsAt(t), rest)
        BY <1>2 DEF ExistsBijection
    <2>2. IsFiniteSet(EndsAt(t))
        BY <1>1, EndsAtFinite
    <2> HIDE DEF rest, t
    <2>3. QED
        BY <2>1, <2>2, FS_Bijection
<1>4. /\ Cardinality(rest) = IF 1 \in EndsAt(s) THEN Cardinality(EndsAt(s)) - 1
                                                ELSE Cardinality(EndsAt(s))
      /\ Cardinality(EndsAt(s)) \in Nat
    BY EndsAtFinite, FS_RemoveElement
<1>5. 1 \in EndsAt(s) <=> Head(s) = "eos"
    BY <1>1 DEF EndsAt
<1>6. QED
    BY <1>3, <1>4, <1>5, EndsIsCardinality, EndsType, <1>1 DEF One

-----------------------------------------------------------------------------
(* Types.                                                                  *)

\* The flags and the counts keep their types.
LEMMA FlagsCorrect == Spec => []FlagsOK
<1>1. Init => FlagsOK
    BY Zenon DEF Init, FlagsOK
<1>2. FlagsOK /\ [Next]_vars => FlagsOK'
    <2> SUFFICES ASSUME FlagsOK, [Next]_vars PROVE FlagsOK'
        OBVIOUS
    <2> USE DEF playback, flags, bells, looks, pausing, worker, producer,
                pipeline, outside, others, history
    <2> USE DEF FlagsOK
    <2>1. CASE LookAtControl
        BY <2>1 DEF LookAtControl, TakeRequest
    <2>2. CASE EndDrained
        BY <2>2 DEF EndDrained, DeliverPending
    <2>3. CASE LookAtDownstream
        BY <2>3 DEF LookAtDownstream, HeldBack
    <2>4. CASE WaitRequest
        BY <2>4 DEF WaitRequest, TakeRequest
    <2>5. CASE WaitOver
        <3>1. bell' \in BOOLEAN
            BY Zenon, <2>5 DEF WaitOver
        <3>2. UNCHANGED <<interrupt, stop, ended, registered, toldGone, room,
                          heldBack, polls, inPause, flushing, sinkReady>>
            BY Zenon, <2>5 DEF WaitOver
        <3>3. QED
            BY Zenon, <3>1, <3>2
    <2>6. CASE Recheck
        BY <2>6 DEF Recheck, DeliverPending
    <2>7. CASE SelectRequest
        BY <2>7 DEF SelectRequest, TakeRequest
    <2>8. CASE SelectBell
        <3>1. bell' \in BOOLEAN
            BY Zenon, <2>8 DEF SelectBell
        <3>2. UNCHANGED <<interrupt, stop, ended, registered, toldGone, room,
                          heldBack, polls, inPause, flushing, sinkReady>>
            BY Zenon, <2>8 DEF SelectBell
        <3>3. QED
            BY Zenon, <3>1, <3>2
    <2>9. CASE SelectItem
        BY <2>9 DEF SelectItem
    <2>10. CASE ForwardItem
        BY <2>10 DEF ForwardItem
    <2>11. CASE ApplyRequest
        BY <2>11 DEF ApplyRequest, Discarded
    <2>12. CASE Acknowledge
        <3>1. inPause' \in BOOLEAN
            BY Zenon, <2>12 DEF Acknowledge
        <3>2. UNCHANGED <<interrupt, flags, ended, bells, heldBack, polls,
                          flushing, sinkReady>>
            BY Zenon, <2>12 DEF Acknowledge
        <3>3. QED
            BY Zenon, <3>1, <3>2
    <2>13. CASE PausedRequest
        BY <2>13 DEF PausedRequest, TakeRequest
    <2>14. CASE PausedBell
        <3>1. bell' \in BOOLEAN
            BY Zenon, <2>14 DEF PausedBell
        <3>2. UNCHANGED <<interrupt, stop, ended, registered, toldGone, room,
                          heldBack, polls, inPause, flushing, sinkReady>>
            BY Zenon, <2>14 DEF PausedBell
        <3>3. QED
            BY Zenon, <3>1, <3>2
    <2>15. CASE LeavePause
        <3>1. inPause' \in BOOLEAN
            BY Zenon, <2>15 DEF LeavePause
        <3>2. UNCHANGED <<interrupt, stop, ended, registered, toldGone, bell,
                          room, heldBack, polls, flushing, sinkReady>>
            BY Zenon, <2>15 DEF LeavePause
        <3>3. QED
            BY Zenon, <3>1, <3>2
    <2>16. CASE DropInbox
        BY <2>16 DEF DropInbox
    <2>17. CASE WorkerEnds
        BY <2>17 DEF WorkerEnds
    <2>18. CASE RoomRung
        BY <2>18 DEF RoomRung
    <2>19. CASE ConsumeOrDrop
        <3>1. toldGone' \in BOOLEAN
            BY Zenon, <2>19 DEF ConsumeOrDrop, AnswerClosed
        <3>2. UNCHANGED <<interrupt, stop, ended, registered, bell, room,
                          heldBack, polls, inPause, flushing, sinkReady>>
            BY Zenon, <2>19 DEF ConsumeOrDrop
        <3>3. QED
            BY Zenon, <3>1, <3>2
    <2>20. CASE Consume
        BY <2>20 DEF Consume
    <2>21. CASE TakeEnd
        BY <2>21 DEF TakeEnd
    <2>22. CASE SendSegment
        <3>1. toldGone' \in BOOLEAN
            BY Zenon, <2>22 DEF SendSegment, AnswerClosed
        <3>2. UNCHANGED <<interrupt, stop, ended, registered, bell, room,
                          heldBack, polls, inPause, flushing, sinkReady>>
            BY Zenon, <2>22 DEF SendSegment
        <3>3. QED
            BY Zenon, <3>1, <3>2
    <2>23. CASE Carry
        BY <2>23 DEF Carry
    <2>24. CASE Drop
        <3>1. registered' \in BOOLEAN
            BY Zenon, <2>24 DEF Drop
        <3>2. UNCHANGED <<interrupt, stop, ended, toldGone, bell, room,
                          heldBack, polls, inPause, flushing, sinkReady>>
            BY Zenon, <2>24 DEF Drop
        <3>3. QED
            BY Zenon, <3>1, <3>2
    <2>25. CASE HandOver
        BY <2>25 DEF HandOver
    <2>26. CASE RoomRings
        <3>1. room' \in BOOLEAN
            BY Zenon, <2>26 DEF RoomRings
        <3>2. UNCHANGED <<interrupt, stop, ended, registered, toldGone, bell,
                          heldBack, polls, inPause, flushing, sinkReady>>
            BY Zenon, <2>26 DEF RoomRings
        <3>3. QED
            BY Zenon, <3>1, <3>2
    <2>27. CASE SendItem
        BY <2>27 DEF SendItem
    <2>28. CASE Emptying
        BY <2>28 DEF Emptying
    <2>29. CASE Closed
        <3>1. toldGone' \in BOOLEAN
            BY Zenon, <2>29 DEF Closed, AnswerClosed
        <3>2. UNCHANGED <<interrupt, stop, ended, registered, bell, room,
                          heldBack, polls, inPause, flushing, sinkReady>>
            BY Zenon, <2>29 DEF Closed
        <3>3. QED
            BY Zenon, <3>1, <3>2
    <2>30. CASE Carried
        BY <2>30 DEF Carried
    <2>31. CASE DropStops
        BY <2>31 DEF DropStops
    <2>32. CASE DropRings
        BY <2>32 DEF DropRings
    <2>33. CASE Joined
        BY <2>33 DEF Joined
    <2>34. CASE TimedOut
        BY <2>34 DEF TimedOut
    <2>35. CASE MoveState
        BY <2>35 DEF MoveState, RingListeners, PhaseAfter, Asks
    <2>36. CASE TakeSenders
        BY <2>36 DEF TakeSenders
    <2>37. CASE Enqueue
        BY <2>37 DEF Enqueue
    <2>38. CASE Interrupt
        BY <2>38 DEF Interrupt, RingListeners
    <2>39. CASE Settle
        BY <2>39 DEF Settle, RingListeners
    <2>40. CASE Panic
        BY <2>40 DEF Panic
    <2>41. CASE SettleWaitExpires
        BY <2>41 DEF SettleWaitExpires
    <2>42. CASE TurnsReady
        BY <2>42 DEF TurnsReady
    <2>43. CASE TurnsBusy
        <3>1. sinkReady' \in BOOLEAN
            BY Zenon, <2>43 DEF TurnsBusy
        <3>2. UNCHANGED <<interrupt, stop, ended, registered, toldGone, bell,
                          room, heldBack, polls, inPause, flushing>>
            BY Zenon, <2>43 DEF TurnsBusy
        <3>3. QED
            BY Zenon, <3>1, <3>2
    <2>44. CASE UNCHANGED vars
        BY <2>44 DEF vars
    <2>45. QED
        BY <2>1, <2>2, <2>3, <2>4, <2>5, <2>6, <2>7, <2>8, <2>9, <2>10, <2>11,
           <2>12, <2>13, <2>14, <2>15, <2>16, <2>17, <2>18, <2>19, <2>20,
           <2>21, <2>22, <2>23, <2>24, <2>25, <2>26, <2>27, <2>28, <2>29,
           <2>30, <2>31, <2>32, <2>33, <2>34, <2>35, <2>36, <2>37, <2>38,
           <2>39, <2>40, <2>41, <2>42, <2>43, <2>44
           DEF Next, Worker, Producer, Call, Within, Pipeline
<1>3. QED
    BY <1>1, <1>2, PTL DEF Spec

\* Every thread is at one of its places.
LEMMA PlacesCorrect == Spec => []PlacesOK
<1>1. Init => PlacesOK
    BY DEF Init, PlacesOK, Phases
<1>2. PlacesOK /\ [Next]_vars => PlacesOK'
    <2> SUFFICES ASSUME PlacesOK, [Next]_vars PROVE PlacesOK'
        OBVIOUS
    <2> USE DEF playback, flags, bells, looks, pausing, worker, producer,
                pipeline, outside, others, history
    <2> USE DEF PlacesOK
    <2>1. CASE LookAtControl
        BY <2>1 DEF LookAtControl, TakeRequest
    <2>2. CASE EndDrained
        BY <2>2 DEF EndDrained, DeliverPending
    <2>3. CASE LookAtDownstream
        BY <2>3 DEF LookAtDownstream, HeldBack
    <2>4. CASE WaitRequest
        BY <2>4 DEF WaitRequest, TakeRequest
    <2>5. CASE WaitOver
        BY <2>5 DEF WaitOver
    <2>6. CASE Recheck
        BY <2>6 DEF Recheck, DeliverPending
    <2>7. CASE SelectRequest
        BY <2>7 DEF SelectRequest, TakeRequest
    <2>8. CASE SelectBell
        BY <2>8 DEF SelectBell
    <2>9. CASE SelectItem
        BY <2>9 DEF SelectItem
    <2>10. CASE ForwardItem
        BY <2>10 DEF ForwardItem
    <2>11. CASE ApplyRequest
        BY <2>11 DEF ApplyRequest, Discarded
    <2>12. CASE Acknowledge
        BY <2>12 DEF Acknowledge, Acked
    <2>13. CASE PausedRequest
        BY <2>13 DEF PausedRequest, TakeRequest
    <2>14. CASE PausedBell
        BY <2>14 DEF PausedBell, DeliverPending
    <2>15. CASE LeavePause
        BY <2>15 DEF LeavePause
    <2>16. CASE DropInbox
        BY <2>16 DEF DropInbox
    <2>17. CASE WorkerEnds
        BY <2>17 DEF WorkerEnds
    <2>18. CASE RoomRung
        BY <2>18 DEF RoomRung
    <2>19. CASE ConsumeOrDrop
        BY <2>19 DEF ConsumeOrDrop, AnswerClosed
    <2>20. CASE Consume
        BY <2>20 DEF Consume
    <2>21. CASE TakeEnd
        BY <2>21 DEF TakeEnd
    <2>22. CASE SendSegment
        BY <2>22 DEF SendSegment, AnswerClosed
    <2>23. CASE Carry
        BY <2>23 DEF Carry
    <2>24. CASE Drop
        BY <2>24 DEF Drop
    <2>25. CASE HandOver
        BY <2>25 DEF HandOver
    <2>26. CASE RoomRings
        BY <2>26 DEF RoomRings
    <2>27. CASE SendItem
        BY <2>27 DEF SendItem
    <2>28. CASE Emptying
        BY <2>28 DEF Emptying
    <2>29. CASE Closed
        BY <2>29 DEF Closed, AnswerClosed
    <2>30. CASE Carried
        BY <2>30 DEF Carried
    <2>31. CASE DropStops
        BY <2>31 DEF DropStops
    <2>32. CASE DropRings
        BY <2>32 DEF DropRings
    <2>33. CASE Joined
        BY <2>33 DEF Joined
    <2>34. CASE TimedOut
        BY <2>34 DEF TimedOut
    <2>35. CASE MoveState
        BY <2>35 DEF MoveState, RingListeners, PhaseAfter, Phases, Message
    <2>36. CASE TakeSenders
        BY <2>36 DEF TakeSenders
    <2>37. CASE Enqueue
        BY <2>37 DEF Enqueue
    <2>38. CASE Interrupt
        BY <2>38 DEF Interrupt, RingListeners
    <2>39. CASE Settle
        BY <2>39 DEF Settle, RingListeners
    <2>40. CASE Panic
        BY <2>40 DEF Panic
    <2>41. CASE SettleWaitExpires
        BY <2>41 DEF SettleWaitExpires
    <2>42. CASE TurnsReady
        BY <2>42 DEF TurnsReady
    <2>43. CASE TurnsBusy
        BY <2>43 DEF TurnsBusy
    <2>44. CASE UNCHANGED vars
        BY <2>44 DEF vars
    <2>45. QED
        BY <2>1, <2>2, <2>3, <2>4, <2>5, <2>6, <2>7, <2>8, <2>9, <2>10, <2>11,
           <2>12, <2>13, <2>14, <2>15, <2>16, <2>17, <2>18, <2>19, <2>20,
           <2>21, <2>22, <2>23, <2>24, <2>25, <2>26, <2>27, <2>28, <2>29,
           <2>30, <2>31, <2>32, <2>33, <2>34, <2>35, <2>36, <2>37, <2>38,
           <2>39, <2>40, <2>41, <2>42, <2>43, <2>44
           DEF Next, Worker, Producer, Call, Within, Pipeline
<1>3. QED
    BY <1>1, <1>2, PTL DEF Spec

-----------------------------------------------------------------------------
(* ends_owed is exact.                                                     *)

\* What the worker has in hand, and what is being handed over, is where the
\* thread's place says it is: an item is counted once.
Placed ==
    /\ hand # None <=> wpc = "forwarding"
    /\ item # None <=> ppc \in {"handOver", "waitRoom", "send", "closed"}
    /\ rpc # "idle" => msg # None

EndsInv == DataOK /\ CountsOK /\ Placed /\ EndsOwedExact

\* Every step keeps the count and what it counts together.
LEMMA EndsInvInductive ==
    ASSUME PlacesOK, FlagsOK, EndsInv, [Next]_vars
    PROVE  EndsInv'
<1> USE DEF EndsInv, DataOK, CountsOK, Placed, EndsOwedExact, None
<1>1. /\ "eos" \in Items /\ "buffer" \in Items
      /\ "segment" \in Items /\ "flushedSegment" \in Items
      /\ None \notin Items
      /\ Ends(<<>>) = 0 /\ Ends(channel) \in Nat
    BY EndsEmpty, EndsType DEF Items
<1>2. QED
    <2> USE DEF playback, flags, bells, looks, pausing, worker, producer,
                pipeline, outside, others, history
    <2>1. CASE LookAtControl
        BY <2>1, <1>1 DEF LookAtControl, TakeRequest
    <2>2. CASE EndDrained
        BY <2>2, <1>1 DEF EndDrained, DeliverPending
    <2>3. CASE LookAtDownstream
        BY <2>3, <1>1 DEF LookAtDownstream, HeldBack
    <2>4. CASE WaitRequest
        BY <2>4, <1>1 DEF WaitRequest, TakeRequest
    <2>5. CASE WaitOver
        BY <2>5, <1>1 DEF WaitOver
    <2>6. CASE Recheck
        <3>1. /\ wpc = "recheck" /\ wpc' \in {"ending", "look"}
              /\ (control' = <<>> \/ UNCHANGED control) /\ waiting' \subseteq waiting
              /\ (asked' = NoRequest \/ UNCHANGED asked)
              /\ UNCHANGED <<channel, endsOwed, hand, item, ppc, rpc, msg,
                             lostEnds, errors, items, requests, busy, panics>>
            BY <2>6 DEF Recheck, DeliverPending
        <3>2. /\ control' \in Seq(Request)
              /\ waiting' \subseteq {"pipeline", "producer"}
              /\ asked' \in Request \union {NoRequest}
            <4>1. CASE control' = <<>>
                BY <3>1, <4>1
            <4>2. CASE UNCHANGED control
                BY <3>1, <4>2
            <4>3. QED
                BY <3>1, <4>1, <4>2
        <3>3. QED
            BY <1>1, <3>1, <3>2
    <2>7. CASE SelectRequest
        BY <2>7, <1>1 DEF SelectRequest, TakeRequest
    <2>8. CASE SelectBell
        BY <2>8, <1>1 DEF SelectBell
    <2>9. CASE SelectItem
        <3>1. /\ channel # <<>> /\ channel' = Tail(channel)
              /\ hand' = Head(channel) /\ hand = None
            BY <2>9 DEF SelectItem
        <3>2. channel' \in Seq(Items) /\ hand' \in Items
            BY <3>1
        <3>3. Ends(channel) = Ends(channel') + One(hand' = "eos")
            BY <3>1, EndsTail
        <3>4. Ends(channel') \in Nat
            BY <3>2, EndsType
        <3>5. QED
            BY <2>9, <1>1, <3>1, <3>2, <3>3, <3>4 DEF SelectItem, One
    <2>10. CASE ForwardItem
        <3>1. /\ hand \in Items /\ hand' = None
              /\ endsOwed' = endsOwed - One(hand = "eos")
              /\ wpc' = "look"
              /\ UNCHANGED <<channel, control, waiting, asked, item, ppc, rpc,
                             msg, lostEnds, errors, items, requests, busy,
                             panics>>
            BY <2>10 DEF ForwardItem, One
        <3>2. endsOwed' \in Nat /\ lostEnds' \in Nat
            BY <1>1, <3>1 DEF One
        <3>3. EndsOwedExact'
            BY <1>1, <3>1 DEF One
        <3>4. DataOK' /\ CountsOK'
            BY <1>1, <3>1, <3>2
        <3>5. Placed'
            BY <1>1, <3>1
        <3>6. QED
            BY <3>3, <3>4, <3>5
    <2>11. CASE ApplyRequest
        <3>1. /\ wpc = "applying" /\ wpc' = "acking"
              /\ UNCHANGED <<control, waiting, asked, hand, item, ppc, rpc,
                             msg, lostEnds, errors, items, requests, busy,
                             panics>>
            BY <2>11 DEF ApplyRequest
        <3>2. \/ channel' = channel /\ endsOwed' = endsOwed
              \/ channel' = <<>> /\ endsOwed' = endsOwed - Ends(channel)
            BY <2>11 DEF ApplyRequest, Discarded
        <3>3. CASE channel' = channel /\ endsOwed' = endsOwed
            BY <1>1, <3>1, <3>3 DEF One
        <3>4. CASE channel' = <<>> /\ endsOwed' = endsOwed - Ends(channel)
            BY <1>1, <3>1, <3>4 DEF One
        <3>5. QED
            BY <3>2, <3>3, <3>4
    <2>12. CASE Acknowledge
        <3>1. /\ wpc = "acking" /\ wpc' \in {back, "ending", "holds", "paused"}
              /\ (control' = <<>> \/ UNCHANGED control) /\ waiting' \subseteq waiting
              /\ (asked' = NoRequest \/ UNCHANGED asked)
              /\ UNCHANGED <<channel, endsOwed, hand, item, ppc, rpc, msg,
                             lostEnds, errors, items, requests, busy, panics>>
            BY <2>12 DEF Acknowledge, Acked
        <3>2. /\ control' \in Seq(Request)
              /\ waiting' \subseteq {"pipeline", "producer"}
              /\ asked' \in Request \union {NoRequest}
            <4>1. CASE control' = <<>>
                BY <3>1, <4>1
            <4>2. CASE UNCHANGED control
                BY <3>1, <4>2
            <4>3. QED
                BY <3>1, <4>1, <4>2
        <3>3. back # "forwarding"
            BY DEF PlacesOK
        <3>4. QED
            BY <1>1, <3>1, <3>2, <3>3
    <2>13. CASE PausedRequest
        BY <2>13, <1>1 DEF PausedRequest, TakeRequest
    <2>14. CASE PausedBell
        <3>1. /\ wpc = "paused" /\ wpc' \in {"ending", "paused"}
              /\ (control' = <<>> \/ UNCHANGED control) /\ waiting' \subseteq waiting
              /\ (asked' = NoRequest \/ UNCHANGED asked)
              /\ UNCHANGED <<channel, endsOwed, hand, item, ppc, rpc, msg,
                             lostEnds, errors, items, requests, busy, panics>>
            BY <2>14 DEF PausedBell, DeliverPending
        <3>2. /\ control' \in Seq(Request)
              /\ waiting' \subseteq {"pipeline", "producer"}
              /\ asked' \in Request \union {NoRequest}
            <4>1. CASE control' = <<>>
                BY <3>1, <4>1
            <4>2. CASE UNCHANGED control
                BY <3>1, <4>2
            <4>3. QED
                BY <3>1, <4>1, <4>2
        <3>3. QED
            BY <1>1, <3>1, <3>2
    <2>15. CASE LeavePause
        <3>1. /\ wpc = "holds" /\ wpc' \in {back, "paused"}
              /\ (control' = <<>> \/ UNCHANGED control) /\ waiting' \subseteq waiting
              /\ (asked' = NoRequest \/ UNCHANGED asked)
              /\ UNCHANGED <<channel, endsOwed, hand, item, ppc, rpc, msg,
                             lostEnds, errors, items, requests, busy, panics>>
            BY <2>15 DEF LeavePause
        <3>2. /\ control' \in Seq(Request)
              /\ waiting' \subseteq {"pipeline", "producer"}
              /\ asked' \in Request \union {NoRequest}
            <4>1. CASE control' = <<>>
                BY <3>1, <4>1
            <4>2. CASE UNCHANGED control
                BY <3>1, <4>2
            <4>3. QED
                BY <3>1, <4>1, <4>2
        <3>3. back # "forwarding"
            BY DEF PlacesOK
        <3>4. QED
            BY <1>1, <3>1, <3>2, <3>3
    <2>16. CASE DropInbox
        <3>1. /\ wpc = "ending" /\ wpc' = "gone"
              /\ channel' = <<>> /\ control' = <<>> /\ waiting' \subseteq waiting
              /\ lostEnds' = lostEnds + Ends(channel)
              /\ UNCHANGED <<endsOwed, asked, hand, item, ppc, rpc, msg,
                             errors, items, requests, busy, panics>>
            BY <2>16 DEF DropInbox
        <3>2. endsOwed' \in Nat /\ lostEnds' \in Nat
            BY <1>1, <3>1 DEF One
        <3>3. EndsOwedExact'
            BY <1>1, <3>1 DEF One
        <3>4. DataOK' /\ CountsOK'
            BY <1>1, <3>1, <3>2
        <3>5. Placed'
            BY <1>1, <3>1
        <3>6. QED
            BY <3>3, <3>4, <3>5
    <2>17. CASE WorkerEnds
        BY <2>17, <1>1 DEF WorkerEnds
    <2>18. CASE RoomRung
        BY <2>18, <1>1 DEF RoomRung
    <2>19. CASE ConsumeOrDrop
        <3>1. /\ ppc = "idle" /\ items' = items + 1
              /\ errors' \in {errors, errors + 1}
              /\ UNCHANGED <<control, waiting, asked, endsOwed, hand, item,
                             ppc, wpc, rpc, msg, lostEnds, requests, busy,
                             panics>>
            BY <2>19 DEF ConsumeOrDrop, AnswerClosed
        <3>2. \/ UNCHANGED channel
              \/ \E x \in {"buffer"} : channel' = Append(channel, x)
            BY <2>19 DEF ConsumeOrDrop
        <3>3. channel' \in Seq(Items) /\ Ends(channel') = Ends(channel)
            <4>1. CASE UNCHANGED channel
                BY <4>1
            <4>2. ASSUME NEW x \in {"buffer"}, channel' = Append(channel, x)
                  PROVE  channel' \in Seq(Items) /\ Ends(channel') = Ends(channel)
                <5>1. x \in Items /\ x # "eos"
                    BY <1>1
                <5>2. Ends(channel') = Ends(channel) + One(x = "eos")
                    BY <4>2, <5>1, EndsAppend
                <5>3. QED
                    BY <1>1, <4>2, <5>1, <5>2 DEF One
            <4>3. QED
                BY <3>2, <4>1, <4>2
        <3>4. QED
            BY <1>1, <3>1, <3>3
    <2>20. CASE Consume
        BY <2>20, <1>1 DEF Consume
    <2>21. CASE TakeEnd
        <3>1. /\ ppc = "idle" /\ ppc' = "handOver" /\ item' = "eos"
              /\ endsOwed' = endsOwed + 1 /\ items' = items + 1
              /\ UNCHANGED <<channel, control, waiting, asked, hand, wpc, rpc,
                             msg, lostEnds, errors, requests, busy, panics>>
            BY <2>21 DEF TakeEnd
        <3>2. endsOwed' \in Nat /\ lostEnds' \in Nat
            BY <1>1, <3>1 DEF One
        <3>3. EndsOwedExact'
            BY <1>1, <3>1 DEF One
        <3>4. DataOK' /\ CountsOK'
            BY <1>1, <3>1, <3>2
        <3>5. Placed'
            BY <1>1, <3>1
        <3>6. QED
            BY <3>3, <3>4, <3>5
    <2>22. CASE SendSegment
        <3>1. /\ ppc = "idle" /\ items' = items + 1
              /\ errors' \in {errors, errors + 1}
              /\ UNCHANGED <<control, waiting, asked, endsOwed, hand, item,
                             ppc, wpc, rpc, msg, lostEnds, requests, busy,
                             panics>>
            BY <2>22 DEF SendSegment, AnswerClosed
        <3>2. \/ UNCHANGED channel
              \/ \E x \in {"segment",
                 "flushedSegment"} : channel' = Append(channel, x)
            BY <2>22 DEF SendSegment
        <3>3. channel' \in Seq(Items) /\ Ends(channel') = Ends(channel)
            <4>1. CASE UNCHANGED channel
                BY <4>1
            <4>2. ASSUME NEW x \in {"segment", "flushedSegment"},
               channel' = Append(channel, x)
                  PROVE  channel' \in Seq(Items) /\ Ends(channel') = Ends(channel)
                <5>1. x \in Items /\ x # "eos"
                    BY <1>1
                <5>2. Ends(channel') = Ends(channel) + One(x = "eos")
                    BY <4>2, <5>1, EndsAppend
                <5>3. QED
                    BY <1>1, <4>2, <5>1, <5>2 DEF One
            <4>3. QED
                BY <3>2, <4>1, <4>2
        <3>4. QED
            BY <1>1, <3>1, <3>3
    <2>23. CASE Carry
        <3>1. /\ UNCHANGED <<channel, asked, endsOwed, hand, item, wpc,
                             lostEnds, errors, requests, busy, panics>>
              /\ items' \in {items, items + 1}
              /\ ppc = "idle" /\ ppc' \in {"idle", "carrying"}
              /\ UNCHANGED <<rpc, msg>>
              /\ waiting' \subseteq {"pipeline", "producer"}
            BY <2>23 DEF Carry
        <3>2. \/ UNCHANGED control
              \/ \E r \in Request : control' = Append(control, r)
            <4>1. CASE InboxGone
                BY <2>23, <4>1 DEF Carry
            <4>2. CASE ~InboxGone
                <5>1. PICK m \in {"Stop", "Flush"} : control' =
                        Append(control, [msg |-> m, direct |-> FALSE,
                                         by |-> "producer"])
                    BY <2>23, <4>2 DEF Carry
                <5>2. [msg |-> m, direct |-> FALSE,
                   by |-> "producer"] \in Request
                    BY DEF Request, Message
                <5>3. QED
                    BY <5>1, <5>2
            <4>3. QED
                BY <4>1, <4>2
        <3>3. control' \in Seq(Request)
            BY <3>2, SMTT(30)
        <3>4. QED
            BY <1>1, <3>1, <3>3
    <2>24. CASE Drop
        BY <2>24, <1>1 DEF Drop
    <2>25. CASE HandOver
        BY <2>25, <1>1 DEF HandOver
    <2>26. CASE RoomRings
        BY <2>26, <1>1 DEF RoomRings
    <2>27. CASE SendItem
        <3>1. CASE InboxGone
            BY <2>27, <3>1 DEF SendItem
        <3>2. CASE ~InboxGone
            <4>1. item \in Items /\ channel' = Append(channel, item)
                BY <2>27, <3>2, <1>1 DEF SendItem
            <4>2. Ends(channel') = Ends(channel) + One(item = "eos")
                BY <4>1, EndsAppend
            <4>3. channel' \in Seq(Items)
                BY <4>1
            <4>4. QED
                BY <2>27, <1>1, <3>2, <4>1, <4>2, <4>3 DEF SendItem, One
        <3>3. QED
            BY <3>1, <3>2
    <2>28. CASE Emptying
        BY <2>28, <1>1 DEF Emptying
    <2>29. CASE Closed
        <3>1. /\ ppc = "closed" /\ ppc' = "idle" /\ item' = None
              /\ endsOwed' = endsOwed - One(item = "eos")
              /\ errors' \in {errors, errors + 1}
              /\ UNCHANGED <<channel, control, waiting, asked, hand, wpc, rpc,
                             msg, lostEnds, items, requests, busy, panics>>
            BY <2>29 DEF Closed, AnswerClosed, One
        <3>2. endsOwed' \in Nat /\ lostEnds' \in Nat
            BY <1>1, <3>1 DEF One
        <3>3. EndsOwedExact'
            BY <1>1, <3>1 DEF One
        <3>4. DataOK' /\ CountsOK'
            BY <1>1, <3>1, <3>2
        <3>5. Placed'
            BY <1>1, <3>1
        <3>6. QED
            BY <3>3, <3>4, <3>5
    <2>30. CASE Carried
        BY <2>30, <1>1 DEF Carried
    <2>31. CASE DropStops
        BY <2>31, <1>1 DEF DropStops
    <2>32. CASE DropRings
        BY <2>32, <1>1 DEF DropRings
    <2>33. CASE Joined
        BY <2>33, <1>1 DEF Joined
    <2>34. CASE TimedOut
        BY <2>34, <1>1 DEF TimedOut
    <2>35. CASE MoveState
        BY <2>35, <1>1 DEF MoveState, RingListeners, Message
    <2>36. CASE TakeSenders
        BY <2>36, <1>1 DEF TakeSenders
    <2>37. CASE Enqueue
        <3>1. /\ UNCHANGED <<channel, asked, endsOwed, hand, item, wpc,
                             lostEnds, errors, requests, busy, panics>>
              /\ items' \in {items, items + 1}
              /\ UNCHANGED <<ppc, msg>> /\ rpc = "asking"
              /\ waiting' \subseteq {"pipeline", "producer"}
            BY <2>37 DEF Enqueue
        <3>2. \/ UNCHANGED control
              \/ \E r \in Request : control' = Append(control, r)
            <4>1. CASE InboxGone
                BY <2>37, <4>1 DEF Enqueue
            <4>2. CASE ~InboxGone
                <5>1. control' = Append(control, [msg |-> msg, direct |-> TRUE,
                                                  by |-> "pipeline"])
                    BY <2>37, <4>2 DEF Enqueue
                <5>2. [msg |-> msg, direct |-> TRUE,
                   by |-> "pipeline"] \in Request
                    BY <2>37 DEF Request, Enqueue, PlacesOK
                <5>3. QED
                    BY <5>1, <5>2
            <4>3. QED
                BY <4>1, <4>2
        <3>3. control' \in Seq(Request)
            BY <3>2, SMTT(30)
        <3>4. QED
            BY <1>1, <3>1, <3>3
    <2>38. CASE Interrupt
        BY <2>38, <1>1 DEF Interrupt, RingListeners
    <2>39. CASE Settle
        BY <2>39, <1>1 DEF Settle, RingListeners
    <2>40. CASE Panic
        <3>1. /\ wpc \in {"forwarding", "acking"} /\ wpc' = "ending"
              /\ hand' = None /\ asked' = NoRequest /\ waiting' \subseteq waiting
              /\ lostEnds' = lostEnds + One(hand = "eos")
              /\ panics' = panics + 1
              /\ UNCHANGED <<channel, control, endsOwed, item, ppc, rpc, msg,
                             errors, items, requests, busy>>
            BY <2>40 DEF Panic, One
        <3>2. endsOwed' \in Nat /\ lostEnds' \in Nat
            BY <1>1, <3>1 DEF One
        <3>3. EndsOwedExact'
            BY <1>1, <3>1 DEF One
        <3>4. DataOK' /\ CountsOK'
            BY <1>1, <3>1, <3>2
        <3>5. Placed'
            BY <1>1, <3>1
        <3>6. QED
            BY <3>3, <3>4, <3>5
    <2>41. CASE SettleWaitExpires
        BY <2>41, <1>1 DEF SettleWaitExpires
    <2>42. CASE TurnsReady
        BY <2>42, <1>1 DEF TurnsReady
    <2>43. CASE TurnsBusy
        BY <2>43, <1>1 DEF TurnsBusy
    <2>44. CASE UNCHANGED vars
        BY <2>44 DEF vars
    <2>45. QED
        BY <2>1, <2>2, <2>3, <2>4, <2>5, <2>6, <2>7, <2>8, <2>9, <2>10, <2>11,
           <2>12, <2>13, <2>14, <2>15, <2>16, <2>17, <2>18, <2>19, <2>20,
           <2>21, <2>22, <2>23, <2>24, <2>25, <2>26, <2>27, <2>28, <2>29,
           <2>30, <2>31, <2>32, <2>33, <2>34, <2>35, <2>36, <2>37, <2>38,
           <2>39, <2>40, <2>41, <2>42, <2>43, <2>44
           DEF Next, Worker, Producer, Call, Within, Pipeline

\* So they are together in every state.
LEMMA EndsInvCorrect == Spec => []EndsInv
<1>1. Init => EndsInv
    <2>1. <<>> \in Seq(Items) /\ <<>> \in Seq(Request)
        OBVIOUS
    <2>2. QED
        BY <2>1, EndsEmpty DEF Init, EndsInv, DataOK, CountsOK, Placed,
           EndsOwedExact, One, None
<1>2. PlacesOK /\ FlagsOK /\ EndsInv /\ [Next]_vars => EndsInv'
    BY EndsInvInductive
<1>3. QED
    BY <1>1, <1>2, FlagsCorrect, PlacesCorrect, PTL DEF Spec

\* Every kind of step keeps every variable in its type. That the count of
\* ends never goes below zero rests on its being exact.
THEOREM TypeCorrect == Spec => []TypeOK
<1>1. EndsInv => DataOK /\ CountsOK
    BY DEF EndsInv
<1>2. QED
    BY <1>1, FlagsCorrect, PlacesCorrect, EndsInvCorrect, PTL DEF TypeOK

\* ends_owed counts exactly the ends on their way, for every capacity and
\* policy and however hand-overs, discards, panics and drops interleave.
THEOREM EndsOwedExactHolds == Spec => []EndsOwedExact
<1>1. EndsInv => EndsOwedExact
    BY DEF EndsInv
<1>2. QED
    BY <1>1, EndsInvCorrect, PTL

-----------------------------------------------------------------------------
(* A worker's end is explained.                                            *)

\* Why a worker ended tells what else is true: the drop it ended on has been
\* asked for and nothing is handed over any more; the stop it ended on is the
\* pipeline's, and has been said.
Explained ==
    /\ cause # None <=> wpc \in {"ending", "gone", "ringing", "ended"}
    /\ ended => cause # None
    /\ ppc = "closed" => cause # None
    /\ cause \in {"drained", "abandoned", "droppedPaused"} => stop
    /\ stop => ppc \in {"stopping", "joining", "done"}
    /\ cause = "stop" => phase = "stopped"
    /\ cause = None => lostEnds = 0

\* A Stop the pipeline sent finds the state stopped, wherever it still is.
StopIsSaid ==
    /\ msg = "Stop" => phase = "stopped"
    /\ asked.direct /\ asked.msg = "Stop" => phase = "stopped"
    /\ \A i \in DOMAIN control :
          control[i].direct /\ control[i].msg = "Stop" => phase = "stopped"

\* Every step keeps the end of a worker explained.
LEMMA ExplainedInductive ==
    ASSUME PlacesOK, FlagsOK, EndsInv, Explained, StopIsSaid, [Next]_vars
    PROVE  Explained'
<1> USE DEF Explained, None
<1>1. QED
    <2> USE DEF playback, flags, bells, looks, pausing, worker, producer,
                pipeline, outside, others, history
    <2>1. CASE LookAtControl
        BY <2>1 DEF LookAtControl, TakeRequest
    <2>2. CASE EndDrained
        BY <2>2 DEF EndDrained, DeliverPending
    <2>3. CASE LookAtDownstream
        BY <2>3 DEF LookAtDownstream, HeldBack
    <2>4. CASE WaitRequest
        BY <2>4 DEF WaitRequest, TakeRequest
    <2>5. CASE WaitOver
        BY <2>5 DEF WaitOver
    <2>6. CASE Recheck
        BY <2>6 DEF Recheck, DeliverPending
    <2>7. CASE SelectRequest
        BY <2>7 DEF SelectRequest, TakeRequest
    <2>8. CASE SelectBell
        BY <2>8 DEF SelectBell
    <2>9. CASE SelectItem
        BY <2>9 DEF SelectItem
    <2>10. CASE ForwardItem
        BY <2>10 DEF ForwardItem
    <2>11. CASE ApplyRequest
        BY <2>11 DEF ApplyRequest, Discarded
    <2>12. CASE Acknowledge
        <3>1. /\ wpc = "acking" /\ UNCHANGED <<phase, ended, stop, ppc,
                                               lostEnds>>
            BY <2>12 DEF Acknowledge
        <3>2. CASE asked.msg = "Stop"
            BY <2>12, <3>1, <3>2 DEF Acknowledge, StopIsSaid
        <3>3. CASE asked.msg # "Stop"
            <4>1. UNCHANGED cause /\ wpc' \in {back, "holds", "paused"}
                BY <2>12, <3>3 DEF Acknowledge
            <4>2. QED
                BY <3>1, <4>1 DEF PlacesOK
        <3>4. QED
            BY <3>2, <3>3
    <2>13. CASE PausedRequest
        BY <2>13 DEF PausedRequest, TakeRequest
    <2>14. CASE PausedBell
        BY <2>14 DEF PausedBell, DeliverPending
    <2>15. CASE LeavePause
        BY <2>15 DEF LeavePause, PlacesOK
    <2>16. CASE DropInbox
        BY <2>16 DEF DropInbox
    <2>17. CASE WorkerEnds
        BY <2>17 DEF WorkerEnds
    <2>18. CASE RoomRung
        BY <2>18 DEF RoomRung
    <2>19. CASE ConsumeOrDrop
        BY <2>19 DEF ConsumeOrDrop, AnswerClosed
    <2>20. CASE Consume
        BY <2>20 DEF Consume
    <2>21. CASE TakeEnd
        BY <2>21 DEF TakeEnd
    <2>22. CASE SendSegment
        BY <2>22 DEF SendSegment, AnswerClosed
    <2>23. CASE Carry
        BY <2>23 DEF Carry
    <2>24. CASE Drop
        BY <2>24 DEF Drop
    <2>25. CASE HandOver
        BY <2>25 DEF HandOver
    <2>26. CASE RoomRings
        BY <2>26 DEF RoomRings
    <2>27. CASE SendItem
        BY <2>27 DEF SendItem, InboxGone
    <2>28. CASE Emptying
        BY <2>28 DEF Emptying
    <2>29. CASE Closed
        BY <2>29 DEF Closed, AnswerClosed
    <2>30. CASE Carried
        BY <2>30 DEF Carried
    <2>31. CASE DropStops
        BY <2>31 DEF DropStops
    <2>32. CASE DropRings
        BY <2>32 DEF DropRings
    <2>33. CASE Joined
        BY <2>33 DEF Joined
    <2>34. CASE TimedOut
        BY <2>34 DEF TimedOut
    <2>35. CASE MoveState
        BY <2>35 DEF MoveState, RingListeners, PhaseAfter, Asks
    <2>36. CASE TakeSenders
        BY <2>36 DEF TakeSenders
    <2>37. CASE Enqueue
        BY <2>37 DEF Enqueue
    <2>38. CASE Interrupt
        BY <2>38 DEF Interrupt, RingListeners
    <2>39. CASE Settle
        BY <2>39 DEF Settle, RingListeners
    <2>40. CASE Panic
        BY <2>40 DEF Panic
    <2>41. CASE SettleWaitExpires
        BY <2>41 DEF SettleWaitExpires
    <2>42. CASE TurnsReady
        BY <2>42 DEF TurnsReady
    <2>43. CASE TurnsBusy
        BY <2>43 DEF TurnsBusy
    <2>44. CASE UNCHANGED vars
        BY <2>44 DEF vars
    <2>45. QED
        BY <2>1, <2>2, <2>3, <2>4, <2>5, <2>6, <2>7, <2>8, <2>9, <2>10, <2>11,
           <2>12, <2>13, <2>14, <2>15, <2>16, <2>17, <2>18, <2>19, <2>20,
           <2>21, <2>22, <2>23, <2>24, <2>25, <2>26, <2>27, <2>28, <2>29,
           <2>30, <2>31, <2>32, <2>33, <2>34, <2>35, <2>36, <2>37, <2>38,
           <2>39, <2>40, <2>41, <2>42, <2>43, <2>44
           DEF Next, Worker, Producer, Call, Within, Pipeline

\* Every step keeps it.
LEMMA StopIsSaidInductive ==
    ASSUME PlacesOK, EndsInv, StopIsSaid, [Next]_vars
    PROVE  StopIsSaid'
<1> USE DEF StopIsSaid, None, NoRequest
<1>1. QED
    <2> USE DEF playback, flags, bells, looks, pausing, worker, producer,
                pipeline, outside, others, history
    <2>1. CASE LookAtControl
        BY <2>1 DEF LookAtControl, TakeRequest
    <2>2. CASE EndDrained
        BY <2>2 DEF EndDrained, DeliverPending
    <2>3. CASE LookAtDownstream
        BY <2>3 DEF LookAtDownstream, HeldBack
    <2>4. CASE WaitRequest
        BY <2>4 DEF WaitRequest, TakeRequest
    <2>5. CASE WaitOver
        BY <2>5 DEF WaitOver
    <2>6. CASE Recheck
        BY <2>6 DEF Recheck, DeliverPending
    <2>7. CASE SelectRequest
        BY <2>7 DEF SelectRequest, TakeRequest
    <2>8. CASE SelectBell
        BY <2>8 DEF SelectBell
    <2>9. CASE SelectItem
        BY <2>9 DEF SelectItem
    <2>10. CASE ForwardItem
        BY <2>10 DEF ForwardItem
    <2>11. CASE ApplyRequest
        BY <2>11 DEF ApplyRequest, Discarded
    <2>12. CASE Acknowledge
        BY <2>12 DEF Acknowledge, Acked
    <2>13. CASE PausedRequest
        BY <2>13 DEF PausedRequest, TakeRequest
    <2>14. CASE PausedBell
        BY <2>14 DEF PausedBell, DeliverPending
    <2>15. CASE LeavePause
        BY <2>15 DEF LeavePause
    <2>16. CASE DropInbox
        BY <2>16 DEF DropInbox
    <2>17. CASE WorkerEnds
        BY <2>17 DEF WorkerEnds
    <2>18. CASE RoomRung
        BY <2>18 DEF RoomRung
    <2>19. CASE ConsumeOrDrop
        BY <2>19 DEF ConsumeOrDrop, AnswerClosed
    <2>20. CASE Consume
        BY <2>20 DEF Consume
    <2>21. CASE TakeEnd
        BY <2>21 DEF TakeEnd
    <2>22. CASE SendSegment
        BY <2>22 DEF SendSegment, AnswerClosed
    <2>23. CASE Carry
        BY <2>23 DEF Carry
    <2>24. CASE Drop
        BY <2>24 DEF Drop
    <2>25. CASE HandOver
        BY <2>25 DEF HandOver
    <2>26. CASE RoomRings
        BY <2>26 DEF RoomRings
    <2>27. CASE SendItem
        BY <2>27 DEF SendItem
    <2>28. CASE Emptying
        BY <2>28 DEF Emptying
    <2>29. CASE Closed
        BY <2>29 DEF Closed, AnswerClosed
    <2>30. CASE Carried
        BY <2>30 DEF Carried
    <2>31. CASE DropStops
        BY <2>31 DEF DropStops
    <2>32. CASE DropRings
        BY <2>32 DEF DropRings
    <2>33. CASE Joined
        BY <2>33 DEF Joined
    <2>34. CASE TimedOut
        BY <2>34 DEF TimedOut
    <2>35. CASE MoveState
        BY <2>35 DEF MoveState, RingListeners, PhaseAfter, Asks, Message
    <2>36. CASE TakeSenders
        BY <2>36 DEF TakeSenders
    <2>37. CASE Enqueue
        BY <2>37 DEF Enqueue
    <2>38. CASE Interrupt
        BY <2>38 DEF Interrupt, RingListeners
    <2>39. CASE Settle
        BY <2>39 DEF Settle, RingListeners
    <2>40. CASE Panic
        BY <2>40 DEF Panic
    <2>41. CASE SettleWaitExpires
        BY <2>41 DEF SettleWaitExpires
    <2>42. CASE TurnsReady
        BY <2>42 DEF TurnsReady
    <2>43. CASE TurnsBusy
        BY <2>43 DEF TurnsBusy
    <2>44. CASE UNCHANGED vars
        BY <2>44 DEF vars
    <2>45. QED
        BY <2>1, <2>2, <2>3, <2>4, <2>5, <2>6, <2>7, <2>8, <2>9, <2>10, <2>11,
           <2>12, <2>13, <2>14, <2>15, <2>16, <2>17, <2>18, <2>19, <2>20,
           <2>21, <2>22, <2>23, <2>24, <2>25, <2>26, <2>27, <2>28, <2>29,
           <2>30, <2>31, <2>32, <2>33, <2>34, <2>35, <2>36, <2>37, <2>38,
           <2>39, <2>40, <2>41, <2>42, <2>43, <2>44
           DEF Next, Worker, Producer, Call, Within, Pipeline

\* What the producer was told, and what was abandoned, given why a worker
\* ended.
Accounted ==
    /\ errors = One(toldGone)
    /\ toldGone => cause \in {"panic", "carriedStop"}
    /\ OwedEndIsDelivered

\* Every step keeps account of the ends that were handed over.
LEMMA AccountedInductive ==
    ASSUME PlacesOK, FlagsOK, EndsInv, Explained, StopIsSaid, Accounted,
           [Next]_vars
    PROVE  Accounted'
<1> USE DEF Accounted, OwedEndIsDelivered, Explained, None, One
<1>1. QED
    <2> USE DEF playback, flags, bells, looks, pausing, worker, producer,
                pipeline, outside, others, history
    <2>1. CASE LookAtControl
        BY <2>1 DEF LookAtControl, TakeRequest
    <2>2. CASE EndDrained
        <3>1. cause = None /\ lostEnds = 0 /\ channel = <<>>
            BY <2>2 DEF EndDrained
        <3>2. QED
            BY <2>2, <3>1, EndsEmpty DEF EndDrained, DeliverPending
    <2>3. CASE LookAtDownstream
        BY <2>3 DEF LookAtDownstream, HeldBack
    <2>4. CASE WaitRequest
        BY <2>4 DEF WaitRequest, TakeRequest
    <2>5. CASE WaitOver
        BY <2>5 DEF WaitOver
    <2>6. CASE Recheck
        <3>1. cause = None /\ lostEnds = 0
            BY <2>6 DEF Recheck
        <3>2. endsOwed \in Nat /\ Ends(channel) \in Nat /\ endsOwed >= Ends(channel)
            BY <3>1, EndsType DEF EndsInv, DataOK, EndsOwedExact, One
        <3>3. ~OwesAnEnd => phase = "stopped" \/ Ends(channel) = 0
            BY <3>2 DEF OwesAnEnd
        <3>4. UNCHANGED <<phase, channel, lostEnds, errors, toldGone>>
            BY <2>6 DEF Recheck
        <3>5. cause' = cause \/ (cause' = "abandoned" /\ ~OwesAnEnd)
            BY <2>6 DEF Recheck, DeliverPending
        <3>6. QED
            BY <3>1, <3>2, <3>3, <3>4, <3>5
    <2>7. CASE SelectRequest
        BY <2>7 DEF SelectRequest, TakeRequest
    <2>8. CASE SelectBell
        BY <2>8 DEF SelectBell
    <2>9. CASE SelectItem
        BY <2>9 DEF SelectItem
    <2>10. CASE ForwardItem
        BY <2>10 DEF ForwardItem
    <2>11. CASE ApplyRequest
        BY <2>11 DEF ApplyRequest, Discarded
    <2>12. CASE Acknowledge
        BY <2>12 DEF Acknowledge, Acked
    <2>13. CASE PausedRequest
        BY <2>13 DEF PausedRequest, TakeRequest
    <2>14. CASE PausedBell
        BY <2>14 DEF PausedBell, DeliverPending
    <2>15. CASE LeavePause
        BY <2>15 DEF LeavePause, PlacesOK
    <2>16. CASE DropInbox
        <3>1. Ends(channel) \in Nat /\ Ends(channel') = 0
            BY <2>16, EndsEmpty, EndsType DEF DropInbox, EndsInv, DataOK
        <3>2. UNCHANGED <<phase, cause, errors, toldGone>>
              /\ lostEnds' = lostEnds + Ends(channel)
            BY <2>16 DEF DropInbox
        <3>3. QED
            BY <3>1, <3>2 DEF EndsInv, CountsOK
    <2>17. CASE WorkerEnds
        BY <2>17 DEF WorkerEnds
    <2>18. CASE RoomRung
        BY <2>18 DEF RoomRung
    <2>19. CASE ConsumeOrDrop
        <3>1. ~stop /\ UNCHANGED <<cause, lostEnds, phase>>
            BY <2>19 DEF ConsumeOrDrop
        <3>2. InboxGone /\ phase # "stopped" => cause \in {"panic",
                 "carriedStop"}
            BY <3>1 DEF PlacesOK, InboxGone
        <3>3. QED
            BY <2>19, <3>1, <3>2 DEF ConsumeOrDrop, AnswerClosed
    <2>20. CASE Consume
        BY <2>20 DEF Consume
    <2>21. CASE TakeEnd
        BY <2>21 DEF TakeEnd
    <2>22. CASE SendSegment
        <3>1. ~stop /\ UNCHANGED <<cause, lostEnds, phase>>
            BY <2>22 DEF SendSegment
        <3>2. (ended \/ InboxGone) /\ phase # "stopped" => cause \in {"panic",
                 "carriedStop"}
            BY <3>1 DEF PlacesOK, InboxGone
        <3>3. QED
            BY <2>22, <3>1, <3>2 DEF SendSegment, AnswerClosed
    <2>23. CASE Carry
        BY <2>23 DEF Carry
    <2>24. CASE Drop
        BY <2>24 DEF Drop
    <2>25. CASE HandOver
        BY <2>25 DEF HandOver
    <2>26. CASE RoomRings
        BY <2>26 DEF RoomRings
    <2>27. CASE SendItem
        BY <2>27 DEF SendItem, InboxGone
    <2>28. CASE Emptying
        BY <2>28 DEF Emptying
    <2>29. CASE Closed
        <3>1. ~stop /\ cause # None /\ UNCHANGED <<cause, lostEnds, phase,
                                                   channel>>
            BY <2>29 DEF Closed
        <3>2. phase # "stopped" => cause \in {"panic", "carriedStop"}
            BY <3>1 DEF PlacesOK
        <3>3. QED
            BY <2>29, <3>1, <3>2 DEF Closed, AnswerClosed
    <2>30. CASE Carried
        BY <2>30 DEF Carried
    <2>31. CASE DropStops
        BY <2>31 DEF DropStops
    <2>32. CASE DropRings
        BY <2>32 DEF DropRings
    <2>33. CASE Joined
        BY <2>33 DEF Joined
    <2>34. CASE TimedOut
        BY <2>34 DEF TimedOut
    <2>35. CASE MoveState
        BY <2>35 DEF MoveState, RingListeners, PhaseAfter, Asks
    <2>36. CASE TakeSenders
        BY <2>36 DEF TakeSenders
    <2>37. CASE Enqueue
        BY <2>37 DEF Enqueue
    <2>38. CASE Interrupt
        BY <2>38 DEF Interrupt, RingListeners
    <2>39. CASE Settle
        BY <2>39 DEF Settle, RingListeners
    <2>40. CASE Panic
        BY <2>40 DEF Panic
    <2>41. CASE SettleWaitExpires
        BY <2>41 DEF SettleWaitExpires
    <2>42. CASE TurnsReady
        BY <2>42 DEF TurnsReady
    <2>43. CASE TurnsBusy
        BY <2>43 DEF TurnsBusy
    <2>44. CASE UNCHANGED vars
        BY <2>44 DEF vars
    <2>45. QED
        BY <2>1, <2>2, <2>3, <2>4, <2>5, <2>6, <2>7, <2>8, <2>9, <2>10, <2>11,
           <2>12, <2>13, <2>14, <2>15, <2>16, <2>17, <2>18, <2>19, <2>20,
           <2>21, <2>22, <2>23, <2>24, <2>25, <2>26, <2>27, <2>28, <2>29,
           <2>30, <2>31, <2>32, <2>33, <2>34, <2>35, <2>36, <2>37, <2>38,
           <2>39, <2>40, <2>41, <2>42, <2>43, <2>44
           DEF Next, Worker, Producer, Call, Within, Pipeline

EndInv == Explained /\ StopIsSaid /\ Accounted

\* So all of it holds in every state.
LEMMA EndInvCorrect == Spec => []EndInv
<1>1. Init => EndInv
    BY EndsEmpty DEF Init, EndInv, Explained, StopIsSaid, Accounted,
       OwedEndIsDelivered, One, None, NoRequest
<1>2. PlacesOK /\ FlagsOK /\ EndsInv /\ EndInv /\ [Next]_vars => EndInv'
    BY ExplainedInductive, StopIsSaidInductive, AccountedInductive DEF EndInv
<1>3. QED
    BY <1>1, <1>2, FlagsCorrect, PlacesCorrect, EndsInvCorrect, PTL DEF Spec

\* A worker that leaves on the drop, not paused, leaves no end of stream
\* behind in a pipeline that was not stopped.
THEOREM OwedEndIsDeliveredHolds == Spec => []OwedEndIsDelivered
<1>1. EndInv => OwedEndIsDelivered
    BY DEF EndInv, Accounted
<1>2. QED
    BY <1>1, EndInvCorrect, PTL

\* A producer is told once that its worker is gone, and only of a worker that
\* panicked or took a Stop the pipeline did not send.
THEOREM ToldGoneOnceHolds == Spec => []ToldGoneOnce
<1>1. EndInv => ToldGoneOnce
    BY DEF EndInv, Accounted, ToldGoneOnce, One
<1>2. QED
    BY <1>1, EndInvCorrect, PTL

-----------------------------------------------------------------------------
(* A paused worker stays still.                                            *)

\* The pipeline has one request out at a time, and waits for it wherever it
\* is: behind others in control, or in the worker's hand.
OneRequestOut ==
    /\ "pipeline" \in waiting => rpc \in {"asked", "acks"}
    /\ asked.by = "pipeline" => "pipeline" \in waiting /\ asked.msg = msg
    /\ \A i \in DOMAIN control : control[i].by = "pipeline" =>
          /\ "pipeline" \in waiting /\ control[i].msg = msg
          /\ asked.by # "pipeline"
          /\ \A j \in DOMAIN control : control[j].by = "pipeline" => j = i

\* Every step keeps it.
LEMMA OneRequestOutInductive ==
    ASSUME PlacesOK, EndsInv, OneRequestOut, [Next]_vars
    PROVE  OneRequestOut'
<1> USE DEF OneRequestOut, None, NoRequest
<1>1. /\ control \in Seq(Request)
      /\ \A i \in DOMAIN control : control[i] \in Request
    BY DEF EndsInv, DataOK
<1>2. QED
    <2> USE DEF playback, flags, bells, looks, pausing, worker, producer,
                pipeline, outside, others, history
    <2>1. CASE LookAtControl
        BY <2>1, <1>1 DEF LookAtControl, TakeRequest
    <2>2. CASE EndDrained
        BY <2>2, <1>1 DEF EndDrained, DeliverPending
    <2>3. CASE LookAtDownstream
        BY <2>3, <1>1 DEF LookAtDownstream, HeldBack
    <2>4. CASE WaitRequest
        BY <2>4, <1>1 DEF WaitRequest, TakeRequest
    <2>5. CASE WaitOver
        BY <2>5, <1>1 DEF WaitOver
    <2>6. CASE Recheck
        BY <2>6, <1>1 DEF Recheck, DeliverPending
    <2>7. CASE SelectRequest
        BY <2>7, <1>1 DEF SelectRequest, TakeRequest
    <2>8. CASE SelectBell
        BY <2>8, <1>1 DEF SelectBell
    <2>9. CASE SelectItem
        BY <2>9, <1>1 DEF SelectItem
    <2>10. CASE ForwardItem
        BY <2>10, <1>1 DEF ForwardItem
    <2>11. CASE ApplyRequest
        BY <2>11, <1>1 DEF ApplyRequest, Discarded
    <2>12. CASE Acknowledge
        BY <2>12, <1>1 DEF Acknowledge, Acked
    <2>13. CASE PausedRequest
        BY <2>13, <1>1 DEF PausedRequest, TakeRequest
    <2>14. CASE PausedBell
        BY <2>14, <1>1 DEF PausedBell, DeliverPending
    <2>15. CASE LeavePause
        BY <2>15, <1>1 DEF LeavePause
    <2>16. CASE DropInbox
        BY <2>16, <1>1 DEF DropInbox
    <2>17. CASE WorkerEnds
        BY <2>17, <1>1 DEF WorkerEnds
    <2>18. CASE RoomRung
        BY <2>18, <1>1 DEF RoomRung
    <2>19. CASE ConsumeOrDrop
        BY <2>19, <1>1 DEF ConsumeOrDrop, AnswerClosed
    <2>20. CASE Consume
        BY <2>20, <1>1 DEF Consume
    <2>21. CASE TakeEnd
        BY <2>21, <1>1 DEF TakeEnd
    <2>22. CASE SendSegment
        BY <2>22, <1>1 DEF SendSegment, AnswerClosed
    <2>23. CASE Carry
        <3>1. UNCHANGED <<asked, msg, rpc>>
            BY <2>23 DEF Carry
        <3>2. CASE InboxGone
            BY <2>23, <3>1, <3>2 DEF Carry
        <3>3. CASE ~InboxGone
            <4>1. PICK m \in {"Stop", "Flush"} : control' =
                    Append(control, [msg |-> m, direct |-> FALSE,
                                     by |-> "producer"])
                BY <2>23, <3>3 DEF Carry
            <4>2. waiting' = waiting \union {"producer"}
                BY <2>23, <3>3 DEF Carry
            <4>3. QED
                BY <1>1, <3>1, <4>1, <4>2
        <3>4. QED
            BY <3>2, <3>3
    <2>24. CASE Drop
        BY <2>24, <1>1 DEF Drop
    <2>25. CASE HandOver
        BY <2>25, <1>1 DEF HandOver
    <2>26. CASE RoomRings
        BY <2>26, <1>1 DEF RoomRings
    <2>27. CASE SendItem
        BY <2>27, <1>1 DEF SendItem
    <2>28. CASE Emptying
        BY <2>28, <1>1 DEF Emptying
    <2>29. CASE Closed
        BY <2>29, <1>1 DEF Closed, AnswerClosed
    <2>30. CASE Carried
        BY <2>30, <1>1 DEF Carried
    <2>31. CASE DropStops
        BY <2>31, <1>1 DEF DropStops
    <2>32. CASE DropRings
        BY <2>32, <1>1 DEF DropRings
    <2>33. CASE Joined
        BY <2>33, <1>1 DEF Joined
    <2>34. CASE TimedOut
        BY <2>34, <1>1 DEF TimedOut
    <2>35. CASE MoveState
        BY <2>35, <1>1 DEF MoveState, RingListeners
    <2>36. CASE TakeSenders
        BY <2>36, <1>1 DEF TakeSenders
    <2>37. CASE Enqueue
        BY <2>37, <1>1 DEF Enqueue, InboxGone
    <2>38. CASE Interrupt
        BY <2>38, <1>1 DEF Interrupt, RingListeners
    <2>39. CASE Settle
        BY <2>39, <1>1 DEF Settle, RingListeners
    <2>40. CASE Panic
        BY <2>40, <1>1 DEF Panic
    <2>41. CASE SettleWaitExpires
        BY <2>41, <1>1 DEF SettleWaitExpires
    <2>42. CASE TurnsReady
        BY <2>42, <1>1 DEF TurnsReady
    <2>43. CASE TurnsBusy
        BY <2>43, <1>1 DEF TurnsBusy
    <2>44. CASE UNCHANGED vars
        BY <2>44 DEF vars
    <2>45. QED
        BY <2>1, <2>2, <2>3, <2>4, <2>5, <2>6, <2>7, <2>8, <2>9, <2>10, <2>11,
           <2>12, <2>13, <2>14, <2>15, <2>16, <2>17, <2>18, <2>19, <2>20,
           <2>21, <2>22, <2>23, <2>24, <2>25, <2>26, <2>27, <2>28, <2>29,
           <2>30, <2>31, <2>32, <2>33, <2>34, <2>35, <2>36, <2>37, <2>38,
           <2>39, <2>40, <2>41, <2>42, <2>43, <2>44
           DEF Next, Worker, Producer, Call, Within, Pipeline

\* A Pause has been answered once nothing of it is out any more.
PauseAnswered ==
    \/ rpc = "idle" \/ msg # "Pause"
    \/ rpc \in {"asked", "acks"} /\ "pipeline" \notin waiting

\* Once it has been, the worker it reached is in its pause loop, or over; and
\* it leaves the loop only as the phase says.
Still ==
    /\ inPause => wpc \in {"paused", "applying", "acking", "holds", "ending",
                           "gone", "ringing", "ended"}
    /\ phase = "paused" /\ registered /\ PauseAnswered
          => inPause \/ cause # None

\* Every step keeps a paused worker still.
LEMMA StillInductive ==
    ASSUME PlacesOK, FlagsOK, EndsInv, Explained, OneRequestOut, Still,
           [Next]_vars
    PROVE  Still'
<1> USE DEF Still, PauseAnswered, None
<1>1. QED
    <2> USE DEF playback, flags, bells, looks, pausing, worker, producer,
                pipeline, outside, others, history
    <2>1. CASE LookAtControl
        BY <2>1 DEF LookAtControl, TakeRequest
    <2>2. CASE EndDrained
        BY <2>2 DEF EndDrained, DeliverPending
    <2>3. CASE LookAtDownstream
        BY <2>3 DEF LookAtDownstream, HeldBack
    <2>4. CASE WaitRequest
        BY <2>4 DEF WaitRequest, TakeRequest
    <2>5. CASE WaitOver
        BY <2>5 DEF WaitOver
    <2>6. CASE Recheck
        BY <2>6 DEF Recheck, DeliverPending
    <2>7. CASE SelectRequest
        BY <2>7 DEF SelectRequest, TakeRequest
    <2>8. CASE SelectBell
        BY <2>8 DEF SelectBell
    <2>9. CASE SelectItem
        BY <2>9 DEF SelectItem
    <2>10. CASE ForwardItem
        BY <2>10 DEF ForwardItem
    <2>11. CASE ApplyRequest
        BY <2>11 DEF ApplyRequest, Discarded
    <2>12. CASE Acknowledge
        <3>1. /\ wpc = "acking" /\ waiting' = waiting \ {asked.by}
              /\ UNCHANGED <<phase, registered, rpc, msg>>
            BY <2>12 DEF Acknowledge, Acked
        <3>2. CASE asked.msg = "Stop"
            <4>1. cause' # None /\ wpc' = "ending"
                BY <2>12, <3>2 DEF Acknowledge
            <4>2. QED
                BY <4>1
        <3>3. CASE asked.msg # "Stop" /\ inPause
            <4>1. inPause' /\ wpc' = "holds"
                BY <2>12, <3>3, Zenon DEF Acknowledge
            <4>2. QED
                BY <4>1
        <3>4. CASE asked.msg = "Pause" /\ ~inPause
            <4>1. inPause' /\ wpc' = "paused"
                BY <2>12, <3>4, Zenon DEF Acknowledge
            <4>2. QED
                BY <4>1
        <3>5. CASE asked.msg \notin {"Stop", "Pause"} /\ ~inPause
            <4>1. UNCHANGED <<inPause, cause>>
                BY <2>12, <3>5 DEF Acknowledge
            <4>2. PauseAnswered' => PauseAnswered
                BY <3>1, <3>5 DEF OneRequestOut
            <4>3. QED
                BY <3>1, <3>5, <4>1, <4>2
        <3>6. QED
            BY <3>2, <3>3, <3>4, <3>5
    <2>13. CASE PausedRequest
        BY <2>13 DEF PausedRequest, TakeRequest
    <2>14. CASE PausedBell
        BY <2>14 DEF PausedBell, DeliverPending
    <2>15. CASE LeavePause
        BY <2>15 DEF LeavePause, Holds
    <2>16. CASE DropInbox
        BY <2>16 DEF DropInbox, Explained
    <2>17. CASE WorkerEnds
        BY <2>17 DEF WorkerEnds
    <2>18. CASE RoomRung
        BY <2>18 DEF RoomRung
    <2>19. CASE ConsumeOrDrop
        BY <2>19 DEF ConsumeOrDrop, AnswerClosed
    <2>20. CASE Consume
        BY <2>20 DEF Consume
    <2>21. CASE TakeEnd
        BY <2>21 DEF TakeEnd
    <2>22. CASE SendSegment
        BY <2>22 DEF SendSegment, AnswerClosed
    <2>23. CASE Carry
        BY <2>23 DEF Carry
    <2>24. CASE Drop
        BY <2>24 DEF Drop
    <2>25. CASE HandOver
        BY <2>25 DEF HandOver
    <2>26. CASE RoomRings
        BY <2>26 DEF RoomRings
    <2>27. CASE SendItem
        BY <2>27 DEF SendItem, InboxGone
    <2>28. CASE Emptying
        BY <2>28 DEF Emptying
    <2>29. CASE Closed
        BY <2>29 DEF Closed, AnswerClosed
    <2>30. CASE Carried
        BY <2>30 DEF Carried
    <2>31. CASE DropStops
        BY <2>31 DEF DropStops
    <2>32. CASE DropRings
        BY <2>32 DEF DropRings
    <2>33. CASE Joined
        BY <2>33 DEF Joined
    <2>34. CASE TimedOut
        BY <2>34 DEF TimedOut
    <2>35. CASE MoveState
        BY <2>35 DEF MoveState, RingListeners, PhaseAfter, Asks, Message
    <2>36. CASE TakeSenders
        BY <2>36 DEF TakeSenders
    <2>37. CASE Enqueue
        BY <2>37 DEF Enqueue, InboxGone, Explained
    <2>38. CASE Interrupt
        BY <2>38 DEF Interrupt, RingListeners
    <2>39. CASE Settle
        BY <2>39 DEF Settle, RingListeners
    <2>40. CASE Panic
        BY <2>40 DEF Panic
    <2>41. CASE SettleWaitExpires
        BY <2>41 DEF SettleWaitExpires
    <2>42. CASE TurnsReady
        BY <2>42 DEF TurnsReady
    <2>43. CASE TurnsBusy
        BY <2>43 DEF TurnsBusy
    <2>44. CASE UNCHANGED vars
        BY <2>44 DEF vars
    <2>45. QED
        BY <2>1, <2>2, <2>3, <2>4, <2>5, <2>6, <2>7, <2>8, <2>9, <2>10, <2>11,
           <2>12, <2>13, <2>14, <2>15, <2>16, <2>17, <2>18, <2>19, <2>20,
           <2>21, <2>22, <2>23, <2>24, <2>25, <2>26, <2>27, <2>28, <2>29,
           <2>30, <2>31, <2>32, <2>33, <2>34, <2>35, <2>36, <2>37, <2>38,
           <2>39, <2>40, <2>41, <2>42, <2>43, <2>44
           DEF Next, Worker, Producer, Call, Within, Pipeline

\* So both hold in every state.
LEMMA StillCorrect == Spec => [](OneRequestOut /\ Still)
<1>1. Init => OneRequestOut /\ Still
    BY DEF Init, OneRequestOut, Still, PauseAnswered, None, NoRequest
<1>2. PlacesOK /\ EndsInv /\ OneRequestOut /\ [Next]_vars => OneRequestOut'
    BY OneRequestOutInductive
<1>3. PlacesOK /\ FlagsOK /\ EndsInv /\ Explained /\ OneRequestOut /\ Still
      /\ [Next]_vars => Still'
    BY StillInductive
<1>4. EndInv => Explained
    BY DEF EndInv
<1>5. QED
    BY <1>1, <1>2, <1>3, <1>4, FlagsCorrect, PlacesCorrect, EndsInvCorrect,
       EndInvCorrect, PTL DEF Spec

\* Between two requests of a paused pipeline no worker it reaches looks at,
\* waits for or holds an item, however pauses and resumes overlapped before.
THEOREM PausedIsStillHolds == Spec => []PausedIsStill
<1>1. EndInv /\ Still => PausedIsStill
    BY DEF EndInv, Explained, Still, PauseAnswered, PausedIsStill
<1>2. QED
    BY <1>1, EndInvCorrect, StillCorrect, PTL

-----------------------------------------------------------------------------
(* It implements its contract, QueueSpec.tla: each step of the queue is one *)
(* step of what it promises, or none that can be seen.  First the steps     *)
(* nobody outside sees.                                                     *)

\* What the contract is told of the queue, and what that rests on.
Seen == <<hand, channel, control, waiting, asked, cause, phase, registered,
          rpc, msg>>

InHand == wpc \in {"applying", "acking"}
Carrying == ppc = "carrying"

Unseen ==
    /\ UNCHANGED Seen
    /\ (InboxGone' <=> InboxGone) /\ (InHand' <=> InHand) /\ (Carrying' <=> Carrying)

TakesRequest == LookAtControl \/ WaitRequest \/ SelectRequest \/ PausedRequest
EndsPending == EndDrained \/ Recheck \/ PausedBell
Accepts == ConsumeOrDrop \/ SendSegment \/ SendItem

\* The looks, the waits, the bells and the calls on their way change nothing
\* the contract speaks of.
LEMMA OtherStepsUnseen ==
    ASSUME PlacesOK, [Next]_vars
    PROVE  \/ Unseen
           \/ TakesRequest \/ EndsPending \/ Accepts
           \/ SelectItem \/ ForwardItem \/ Panic
           \/ ApplyRequest \/ Acknowledge \/ DropInbox
           \/ Carry \/ Carried \/ Drop
           \/ MoveState \/ TakeSenders \/ Enqueue \/ Interrupt \/ Settle
<1> USE DEF Unseen, Seen, InHand, Carrying, InboxGone,
            playback, flags, bells, looks, pausing, worker, producer,
            pipeline, outside, others, history
<1>1. CASE LookAtDownstream
    BY <1>1 DEF LookAtDownstream
<1>2. CASE WaitOver
    BY <1>2 DEF WaitOver
<1>3. CASE SelectBell
    BY <1>3 DEF SelectBell
<1>4. CASE LeavePause
    BY <1>4 DEF LeavePause, PlacesOK
<1>5. CASE WorkerEnds
    BY <1>5 DEF WorkerEnds
<1>6. CASE RoomRung
    BY <1>6 DEF RoomRung
<1>7. CASE Consume \/ TakeEnd
    BY <1>7 DEF Consume, TakeEnd
<1>8. CASE HandOver \/ RoomRings \/ TimedOut
    BY <1>8 DEF HandOver, RoomRings, TimedOut
<1>9. CASE Emptying
    BY <1>9 DEF Emptying
<1>10. CASE Closed
    BY <1>10 DEF Closed, AnswerClosed
<1>11. CASE DropStops \/ DropRings \/ Joined
    BY <1>11 DEF DropStops, DropRings, Joined
<1>12. CASE SettleWaitExpires
    BY <1>12 DEF SettleWaitExpires
<1>13. CASE TurnsReady \/ TurnsBusy
    BY <1>13 DEF TurnsReady, TurnsBusy
<1>14. CASE UNCHANGED vars
    BY <1>14 DEF vars
<1>15. QED
    BY <1>1, <1>2, <1>3, <1>4, <1>5, <1>6, <1>7, <1>8, <1>9, <1>10, <1>11,
       <1>12, <1>13, <1>14
       DEF Next, Worker, Producer, Call, Within, Pipeline,
           TakesRequest, EndsPending, Accepts

-----------------------------------------------------------------------------
(* What is carried, and what a stop leaves.                                *)

\* The worker's hand on a request is where its place says it is; and what the
\* producer carries across is out once, and waited for.
OneCarryOut ==
    /\ asked # NoRequest <=> InHand
    /\ "producer" \in waiting => Carrying
    /\ asked.by = "producer" => "producer" \in waiting
    /\ \A i \in DOMAIN control : control[i].by = "producer" =>
          /\ "producer" \in waiting
          /\ asked.by # "producer"
          /\ \A j \in DOMAIN control : control[j].by = "producer" => j = i

\* Every step keeps it.
LEMMA OneCarryOutInductive ==
    ASSUME PlacesOK, EndsInv, OneCarryOut, [Next]_vars
    PROVE  OneCarryOut'
<1> USE DEF OneCarryOut, NoRequest, None, InHand, Carrying
<1>1. /\ control \in Seq(Request)
      /\ \A i \in DOMAIN control : control[i] \in Request
    BY DEF EndsInv, DataOK
<1>2. \A r \in Request : r.by \in {"pipeline", "producer"} /\ r # NoRequest
    BY DEF Request
<1>3. QED
    <2> USE DEF playback, flags, bells, looks, pausing, worker, producer,
                pipeline, outside, others, history
    <2>1. CASE Unseen
        BY <2>1 DEF Unseen, Seen
    <2>2. CASE TakesRequest
        <3>1. /\ control # <<>> /\ ~InHand /\ InHand'
              /\ asked' = Head(control) /\ control' = Tail(control)
              /\ UNCHANGED <<waiting, ppc>>
            BY <2>2 DEF TakesRequest, LookAtControl, WaitRequest,
                        SelectRequest, PausedRequest, TakeRequest
        <3>2. asked' \in Request /\ asked' = control[1]
            BY <3>1, <1>1
        <3>3. \A i \in DOMAIN control' :
                 i + 1 \in DOMAIN control /\ control'[i] = control[i + 1] /\ i + 1 # 1
            BY <3>1, <1>1
        <3>4. 1 \in DOMAIN control
            BY <3>1, <1>1
        <3>5. (asked' # NoRequest) <=> InHand'
            BY <3>1, <3>2, <1>2
        <3>6. "producer" \in waiting' => Carrying'
            BY <3>1
        <3>7. asked'.by = "producer" => "producer" \in waiting'
            BY <3>1, <3>2, <3>4
        <3>8. ASSUME NEW i \in DOMAIN control', control'[i].by = "producer"
              PROVE  /\ "producer" \in waiting' /\ asked'.by # "producer"
                     /\ \A j \in DOMAIN control' : control'[j].by = "producer" => j = i
            <4>1. control[i + 1].by = "producer" /\ i + 1 \in DOMAIN control
                BY <3>3, <3>8
            <4>2. control[1].by # "producer"
                BY <4>1, <3>3, <3>4
            <4>3. ASSUME NEW j \in DOMAIN control', control'[j].by = "producer"
                  PROVE  j = i
                <5>1. control[j + 1].by = "producer" /\ j + 1 \in DOMAIN control
                    BY <3>3, <4>3
                <5>2. j + 1 = i + 1
                    BY <5>1, <4>1
                <5>3. i \in Nat /\ j \in Nat
                    BY <3>1, <1>1
                <5>4. QED
                    BY <5>2, <5>3
            <4>4. QED
                BY <4>1, <4>2, <4>3, <3>1, <3>2
        <3>9. QED
            BY <3>5, <3>6, <3>7, <3>8
    <2>3. CASE EndsPending
        BY <2>3, <1>1 DEF EndsPending, EndDrained, Recheck, PausedBell, DeliverPending
    <2>4. CASE Accepts
        BY <2>4 DEF Accepts, ConsumeOrDrop, SendSegment, SendItem, AnswerClosed
    <2>5. CASE SelectItem
        BY <2>5 DEF SelectItem
    <2>6. CASE ForwardItem
        BY <2>6 DEF ForwardItem
    <2>7. CASE Panic
        BY <2>7, <1>1 DEF Panic
    <2>8. CASE ApplyRequest
        BY <2>8, <1>1 DEF ApplyRequest
    <2>9. CASE Acknowledge
        <3>1. /\ InHand /\ ~InHand' /\ asked' = NoRequest
              /\ waiting' = waiting \ {asked.by}
              /\ UNCHANGED <<control, ppc>>
            BY <2>9 DEF Acknowledge, Acked, PlacesOK
        <3>2. QED
            BY <3>1
    <2>10. CASE DropInbox
        BY <2>10, <1>1 DEF DropInbox
    <2>11. CASE Carry
        <3>1. ~Carrying /\ UNCHANGED <<asked, wpc>>
            BY <2>11 DEF Carry
        <3>2. CASE InboxGone
            BY <2>11, <3>2 DEF Carry
        <3>3. CASE ~InboxGone
            <4>1. PICK m \in {"Stop", "Flush"} : control' =
                    Append(control, [msg |-> m, direct |-> FALSE,
                                     by |-> "producer"])
                BY <2>11, <3>3 DEF Carry
            <4>2. waiting' = waiting \union {"producer"} /\ Carrying'
                BY <2>11, <3>3 DEF Carry
            <4>3. QED
                BY <1>1, <3>1, <4>1, <4>2
        <3>4. QED
            BY <3>2, <3>3
    <2>12. CASE Carried
        BY <2>12 DEF Carried
    <2>13. CASE Drop
        BY <2>13 DEF Drop
    <2>14. CASE MoveState
        BY <2>14 DEF MoveState
    <2>15. CASE TakeSenders \/ Interrupt \/ Settle
        BY <2>15 DEF TakeSenders, Interrupt, Settle
    <2>16. CASE Enqueue
        <3>1. UNCHANGED <<asked, wpc, ppc>>
            BY <2>16 DEF Enqueue
        <3>2. CASE InboxGone
            BY <2>16, <3>1, <3>2 DEF Enqueue
        <3>3. CASE ~InboxGone
            <4>1. /\ control' = Append(control, [msg |-> msg, direct |-> TRUE,
                                                 by |-> "pipeline"])
                  /\ waiting' = waiting \union {"pipeline"}
                BY <2>16, <3>3 DEF Enqueue
            <4>2. QED
                BY <1>1, <3>1, <4>1
        <3>4. QED
            BY <3>2, <3>3
    <2>17. QED
        BY <2>1, <2>2, <2>3, <2>4, <2>5, <2>6, <2>7, <2>8, <2>9, <2>10, <2>11,
           <2>12, <2>13, <2>14, <2>15, <2>16, OtherStepsUnseen

\* A stopped pipeline's Stop is still on its way to the worker it reaches, or
\* the worker is over.
StopIsHeard ==
    phase = "stopped" /\ registered /\ cause = None =>
        /\ msg = "Stop"
        /\ \/ rpc \in {"moved", "asking"}
           \/ rpc \in {"asked", "acks"} /\ "pipeline" \in waiting

\* Every step keeps it.
LEMMA StopIsHeardInductive ==
    ASSUME PlacesOK, EndsInv, Explained, OneRequestOut, OneCarryOut, StopIsHeard,
           [Next]_vars
    PROVE  StopIsHeard'
<1> USE DEF StopIsHeard, None
<1> USE DEF playback, flags, bells, looks, pausing, worker, producer,
            pipeline, outside, others, history
<1>1. CASE Unseen
    BY <1>1 DEF Unseen, Seen
<1>2. CASE TakesRequest
    BY <1>2 DEF TakesRequest, LookAtControl, WaitRequest, SelectRequest,
                PausedRequest, TakeRequest
<1>3. CASE EndsPending
    BY <1>3 DEF EndsPending, EndDrained, Recheck, PausedBell, DeliverPending
<1>4. CASE Accepts
    BY <1>4 DEF Accepts, ConsumeOrDrop, SendSegment, SendItem, AnswerClosed
<1>5. CASE SelectItem \/ ForwardItem
    BY <1>5 DEF SelectItem, ForwardItem
<1>6. CASE Panic
    BY <1>6 DEF Panic
<1>7. CASE ApplyRequest
    BY <1>7 DEF ApplyRequest
<1>8. CASE Acknowledge
    <2>1. /\ waiting' = waiting \ {asked.by}
          /\ asked.msg = "Stop" => cause' # None
          /\ cause' = None => cause = None
          /\ UNCHANGED <<phase, registered, rpc, msg>>
        BY <1>8 DEF Acknowledge, Acked
    <2>2. asked.by = "pipeline" => asked.msg = msg
        BY DEF OneRequestOut
    <2>3. QED
        BY <2>1, <2>2
<1>9. CASE DropInbox
    BY <1>9 DEF DropInbox, Explained
<1>10. CASE Carry \/ Carried
    BY <1>10 DEF Carry, Carried
<1>11. CASE Drop
    BY <1>11 DEF Drop
<1>12. CASE MoveState
    BY <1>12 DEF MoveState, Asks, PhaseAfter, Message
<1>13. CASE TakeSenders
    BY <1>13 DEF TakeSenders
<1>14. CASE Enqueue
    BY <1>14 DEF Enqueue, InboxGone, Explained
<1>15. CASE Interrupt \/ Settle
    BY <1>15 DEF Interrupt, Settle
<1>16. QED
    BY <1>1, <1>2, <1>3, <1>4, <1>5, <1>6, <1>7, <1>8, <1>9, <1>10, <1>11,
       <1>12, <1>13, <1>14, <1>15, OtherStepsUnseen

\* So both hold in every state.
LEMMA HeardCorrect == Spec => [](OneCarryOut /\ StopIsHeard)
<1>1. Init => OneCarryOut /\ StopIsHeard
    BY DEF Init, OneCarryOut, StopIsHeard, InHand, Carrying, None, NoRequest
<1>2. PlacesOK /\ EndsInv /\ OneCarryOut /\ [Next]_vars => OneCarryOut'
    BY OneCarryOutInductive
<1>3. PlacesOK /\ EndsInv /\ Explained /\ OneRequestOut /\ OneCarryOut
      /\ StopIsHeard /\ [Next]_vars => StopIsHeard'
    BY StopIsHeardInductive
<1>4. EndInv => Explained
    BY DEF EndInv
<1>5. QED
    BY <1>1, <1>2, <1>3, <1>4, PlacesCorrect, EndsInvCorrect, EndInvCorrect,
       StillCorrect, PTL DEF Spec

-----------------------------------------------------------------------------
(* Every step is one of the contract's.                                    *)

\* What is between is the item in hand and what is in the channel behind it.
LEMMA Joins ==
    ASSUME NEW S, NEW c \in Seq(S), NEW h \in S
    PROVE  /\ <<>> \o c = c
           /\ <<h>> \o c # <<>>
           /\ Tail(<<h>> \o c) = c
           /\ \A x \in S : Append(<<h>> \o c, x) = <<h>> \o Append(c, x)
OBVIOUS

\* A sequence is its first element before the others.
LEMMA HeadAndTail ==
    ASSUME NEW S, NEW c \in Seq(S), c # <<>>
    PROVE  <<Head(c)>> \o Tail(c) = c
OBVIOUS

\* What the contract sees of the queue, under names of its own.
Between == (IF hand = None THEN <<>> ELSE <<hand>>) \o channel
Held == rpc = "idle" /\ Holds /\ registered

\* Where nothing the contract speaks of changes, it stutters.
LEMMA ContractStutters ==
    ASSUME Between' = Between, InboxGone' <=> InboxGone, Held' <=> Held,
           FlushesOut' = FlushesOut
    PROVE  UNCHANGED Contract!vars
BY DEF Contract!vars, Between, Held, InboxGone

\* An item more at the back is one accepted.
LEMMA ContractAccepts ==
    ASSUME ~InboxGone, ~InboxGone', \E x \in Items : Between' = Append(Between, x),
           Held' <=> Held, FlushesOut' = FlushesOut
    PROVE  Contract!Accept
<1>1. UNCHANGED <<InboxGone, rpc = "idle" /\ Holds /\ registered, FlushesOut>>
    BY DEF Held, InboxGone
<1>2. QED
    BY <1>1, Zenon DEF Contract!Accept, Between

\* An item less at the front, while nothing holds it, is one handed on.
LEMMA ContractHandsOn ==
    ASSUME ~Held, Between # <<>>, Between' = Tail(Between),
           InboxGone' <=> InboxGone, Held' <=> Held, FlushesOut' = FlushesOut
    PROVE  Contract!HandOn
BY DEF Contract!HandOn, Between, Held, InboxGone

\* Everything gone while a flush is out is discarded.
LEMMA ContractDiscards ==
    ASSUME FlushesOut # {}, Between' = <<>>,
           InboxGone' <=> InboxGone, Held' <=> Held, FlushesOut' = FlushesOut
    PROVE  Contract!Discard
BY DEF Contract!Discard, Between, Held, InboxGone

\* Everything gone with the worker is the queue closing.
LEMMA ContractCloses ==
    ASSUME ~InboxGone, InboxGone', Between' = <<>>, FlushesOut' = {},
           Held' <=> Held
    PROVE  Contract!Close
BY DEF Contract!Close, Between, Held, InboxGone

\* A flush on its way is called.
LEMMA FlushIsCalled ==
    ASSUME ~InboxGone, ~InboxGone',
           \E c \in {"pipeline", "producer"} \ FlushesOut :
               FlushesOut' = FlushesOut \union {c},
           Between' = Between, Held' <=> Held
    PROVE  Contract!FlushCalled
BY DEF Contract!FlushCalled, Between, Held, InboxGone

\* Fewer flushes out have returned.
LEMMA FlushesReturn ==
    ASSUME FlushesOut' \subseteq FlushesOut,
           Between' = Between, InboxGone' <=> InboxGone, Held' <=> Held
    PROVE  Contract!FlushReturns
BY DEF Contract!FlushReturns, Between, Held, InboxGone

\* Where only what holds the queue changes, it is held or released.
LEMMA HoldsOrReleases ==
    ASSUME Between' = Between, InboxGone' <=> InboxGone, FlushesOut' = FlushesOut
    PROVE  Contract!Hold \/ Contract!Release \/ UNCHANGED Contract!vars
BY DEF Contract!Hold, Contract!Release, Contract!vars, Between, Held, InboxGone

\* What is known of every state the step starts from.
Known ==
    /\ PlacesOK /\ EndsInv /\ Explained /\ OneRequestOut /\ OneCarryOut
    /\ StopIsHeard /\ PausedIsStill

\* What is between, with and without an item in hand.
LEMMA HandFacts ==
    ASSUME Known
    PROVE  /\ channel \in Seq(Items)
           /\ hand = None => Between = channel
           /\ hand # None => /\ hand \in Items /\ Between # <<>>
                             /\ Tail(Between) = channel
           /\ \A x \in Items :
                 Append(Between, x)
                     = (IF hand = None THEN <<>> ELSE <<hand>>) \o Append(channel, x)
<1>1. channel \in Seq(Items) /\ hand \in Items \union {None}
    BY DEF Known, EndsInv, DataOK
<1>2. \A x \in Items : Append(channel, x) \in Seq(Items)
    BY <1>1
<1>3. CASE hand = None
    <2>1. \A c \in Seq(Items) : <<>> \o c = c
        OBVIOUS
    <2>2. Between = channel
        BY <1>1, <1>3, <2>1 DEF Between
    <2>3. QED
        BY <1>1, <1>2, <1>3, <2>1, <2>2
<1>4. CASE hand # None
    <2>1. hand \in Items
        BY <1>1, <1>4
    <2>2. Between = <<hand>> \o channel
        BY <1>4 DEF Between
    <2>3. QED
        BY <1>1, <1>4, <2>1, <2>2, Joins
<1>5. QED
    BY <1>3, <1>4

\* Nothing is in the worker's hand while the pipeline holds.
LEMMA HeldIsStill ==
    ASSUME Known, Held
    PROVE  hand = None
<1>1. rpc = "idle" /\ registered /\ phase \in {"paused", "stopped"}
    BY DEF Held, Holds
<1>2. CASE phase = "paused"
    BY <1>1, <1>2 DEF Known, PausedIsStill, EndsInv, Placed
<1>3. CASE phase = "stopped"
    <2>1. cause # None
        BY <1>1, <1>3 DEF Known, StopIsHeard
    <2>2. QED
        BY <2>1 DEF Known, Explained, EndsInv, Placed
<1>4. QED
    BY <1>1, <1>2, <1>3

\* Letting go of who waits lets no Flush out that was not.
LEMMA FewerFlushes ==
    ASSUME waiting' \subseteq waiting,
           control' = control \/ control' = <<>>,
           asked' = asked \/ asked' = NoRequest
    PROVE  FlushesOut' \subseteq FlushesOut
<1>1. DOMAIN <<>> = {}
    OBVIOUS
<1>2. asked' = NoRequest => asked'.msg # "Flush"
    BY DEF NoRequest, None
<1>3. QED
    BY <1>1, <1>2 DEF FlushesOut

\* A step nobody outside sees is a stutter.
LEMMA UnseenStep ==
    ASSUME Unseen
    PROVE  UNCHANGED Contract!vars
<1>1. Between' = Between /\ (InboxGone' <=> InboxGone) /\ (Held' <=> Held)
    BY DEF Unseen, Seen, Between, Held, Holds
<1>2. FlushesOut' = FlushesOut
    BY DEF Unseen, Seen, FlushesOut
<1>3. QED
    BY <1>1, <1>2, ContractStutters

\* A request taken off the control channel: a flush is out until it returns.
LEMMA TakesRequestStep ==
    ASSUME Known, TakesRequest
    PROVE  UNCHANGED Contract!vars
<1> USE DEF playback, flags, bells, looks, pausing, worker, producer,
            pipeline, outside, others, history
<1>1. /\ control # <<>> /\ ~InHand
      /\ asked' = Head(control) /\ control' = Tail(control)
      /\ UNCHANGED <<waiting, hand, channel, rpc, phase, registered>>
      /\ ~InboxGone /\ ~InboxGone'
    BY DEF TakesRequest, LookAtControl, WaitRequest, SelectRequest,
           PausedRequest, TakeRequest, InHand, InboxGone
<1>2. control \in Seq(Request) /\ asked = NoRequest
    BY <1>1 DEF Known, EndsInv, DataOK, OneCarryOut
<1>3. /\ 1 \in DOMAIN control /\ asked' = control[1]
      /\ \A i \in DOMAIN control' :
            i + 1 \in DOMAIN control /\ control'[i] = control[i + 1]
      /\ \A i \in DOMAIN control :
            i = 1 \/ (i - 1 \in DOMAIN control' /\ control'[i - 1] = control[i])
    BY <1>1, <1>2
<1>4. asked.msg # "Flush"
    BY <1>2 DEF NoRequest, None
<1>5. ASSUME NEW c \in waiting
      PROVE  c \in FlushesOut' <=> c \in FlushesOut
    <2>1. c \in FlushesOut <=>
             \E i \in DOMAIN control : control[i].by = c /\ control[i].msg = "Flush"
        BY <1>4 DEF FlushesOut
    <2>2. c \in FlushesOut' <=>
             \/ asked'.by = c /\ asked'.msg = "Flush"
             \/ \E i \in DOMAIN control' :
                    control'[i].by = c /\ control'[i].msg = "Flush"
        BY <1>1 DEF FlushesOut
    <2>3. QED
        BY <2>1, <2>2, <1>3
<1>6. FlushesOut' = FlushesOut
    BY <1>1, <1>5 DEF FlushesOut
<1>7. Between' = Between /\ (Held' <=> Held)
    BY <1>1 DEF Between, Held, Holds
<1>8. QED
    BY <1>1, <1>6, <1>7, ContractStutters

\* The worker ends with requests left: nothing more is to come of them.
LEMMA EndsPendingStep ==
    ASSUME Known, EndsPending
    PROVE  Contract!FlushReturns
<1> USE DEF playback, flags, bells, looks, pausing, worker, producer,
            pipeline, outside, others, history
<1>1. /\ waiting' \subseteq waiting
      /\ control' = control \/ control' = <<>>
      /\ UNCHANGED <<asked, hand, channel, rpc, phase, registered>>
      /\ ~InboxGone /\ ~InboxGone'
    BY DEF EndsPending, EndDrained, Recheck, PausedBell, DeliverPending, InboxGone
<1>2. FlushesOut' \subseteq FlushesOut
    BY <1>1, FewerFlushes
<1>3. Between' = Between /\ (Held' <=> Held)
    BY <1>1 DEF Between, Held, Holds
<1>4. QED
    BY <1>1, <1>2, <1>3, FlushesReturn

\* The producer's item goes in.
LEMMA AcceptsStep ==
    ASSUME Known, Accepts
    PROVE  Contract!Accept \/ UNCHANGED Contract!vars
<1> USE DEF playback, flags, bells, looks, pausing, worker, producer,
            pipeline, outside, others, history
<1>1. UNCHANGED <<hand, wpc, waiting, control, asked, rpc, phase, registered>>
    BY DEF Accepts, ConsumeOrDrop, SendSegment, SendItem
<1>2. (Held' <=> Held) /\ FlushesOut' = FlushesOut /\ (InboxGone' <=> InboxGone)
    BY <1>1 DEF Held, Holds, FlushesOut, InboxGone
<1>3. CASE channel' = channel
    <2>1. Between' = Between
        BY <1>1, <1>3 DEF Between
    <2>2. QED
        BY <1>2, <2>1, ContractStutters
<1>4. CASE channel' # channel
    <2>1. ~InboxGone
        BY <1>4 DEF Accepts, ConsumeOrDrop, SendSegment, SendItem
    <2>2. \E x \in Items : channel' = Append(channel, x)
        <3>1. CASE ConsumeOrDrop
            <4>1. channel' = Append(channel, "buffer")
                BY <1>4, <3>1 DEF ConsumeOrDrop
            <4>2. QED
                BY <4>1 DEF Items
        <3>2. CASE SendSegment
            <4>1. \E segment \in {"segment", "flushedSegment"} :
                     channel' = Append(channel, segment)
                BY <1>4, <3>2 DEF SendSegment
            <4>2. QED
                BY <4>1 DEF Items
        <3>3. CASE SendItem
            <4>1. channel' = Append(channel, item) /\ ppc = "send"
                BY <1>4, <3>3 DEF SendItem
            <4>2. item \in Items
                BY <4>1 DEF Known, EndsInv, DataOK, Placed, Items, None
            <4>3. QED
                BY <4>1, <4>2
        <3>4. QED
            BY <3>1, <3>2, <3>3 DEF Accepts
    <2>3. \E x \in Items : Between' = Append(Between, x)
        <3>1. PICK x \in Items : channel' = Append(channel, x)
            BY <2>2
        <3>2. Between' = (IF hand = None THEN <<>> ELSE <<hand>>) \o Append(channel, x)
            BY <1>1, <3>1 DEF Between
        <3>3. QED
            BY <3>2, HandFacts
    <2>4. QED
        BY <1>2, <2>1, <2>3, ContractAccepts
<1>5. QED
    BY <1>3, <1>4

\* The worker takes an item in hand, which is still between.
LEMMA SelectItemStep ==
    ASSUME Known, SelectItem
    PROVE  UNCHANGED Contract!vars
<1> USE DEF playback, flags, bells, looks, pausing, worker, producer,
            pipeline, outside, others, history
<1>1. /\ channel # <<>> /\ hand' = Head(channel) /\ channel' = Tail(channel)
      /\ wpc = "select" /\ wpc' = "forwarding"
      /\ UNCHANGED <<waiting, control, asked, rpc, phase, registered>>
    BY DEF SelectItem
<1>2. hand = None /\ channel \in Seq(Items) /\ None \notin Items
    BY <1>1 DEF Known, EndsInv, Placed, DataOK, None, Items
<1>3. hand' \in Items
    BY <1>1, <1>2
<1>4. Between' = <<Head(channel)>> \o Tail(channel)
    BY <1>1, <1>2, <1>3 DEF Between
<1>5. Between' = Between
    BY <1>1, <1>2, <1>4, HeadAndTail, HandFacts
<1>6. /\ Held' <=> Held
      /\ FlushesOut' = FlushesOut
      /\ InboxGone' <=> InboxGone
    BY <1>1 DEF Held, Holds, FlushesOut, InboxGone
<1>7. QED
    BY <1>5, <1>6, ContractStutters

\* The item in hand is handed on, or discarded behind a flush.
LEMMA ForwardItemStep ==
    ASSUME Known, ForwardItem
    PROVE  Contract!HandOn
<1> USE DEF playback, flags, bells, looks, pausing, worker, producer,
            pipeline, outside, others, history
<1>1. /\ wpc = "forwarding" /\ wpc' = "look" /\ hand' = None
      /\ UNCHANGED <<channel, waiting, control, asked, rpc, phase, registered>>
    BY DEF ForwardItem
<1>2. hand # None
    BY <1>1 DEF Known, EndsInv, Placed
<1>3. ~Held
    BY <1>2, HeldIsStill
<1>4. channel \in Seq(Items) /\ Between # <<>> /\ Tail(Between) = channel
    BY <1>2, HandFacts
<1>5. Between' = channel
    BY <1>1, <1>4, Joins DEF Between
<1>6. /\ Held' <=> Held
      /\ FlushesOut' = FlushesOut
      /\ InboxGone' <=> InboxGone
    BY <1>1 DEF Held, Holds, FlushesOut, InboxGone
<1>7. QED
    BY <1>3, <1>4, <1>5, <1>6, ContractHandsOn

\* An item that downstream panics on has left the queue; a request it panics
\* on is answered by the worker's end.
LEMMA PanicStep ==
    ASSUME Known, Panic
    PROVE  Contract!HandOn \/ Contract!FlushReturns
<1> USE DEF playback, flags, bells, looks, pausing, worker, producer,
            pipeline, outside, others, history
<1>1. /\ wpc \in {"forwarding", "acking"} /\ wpc' = "ending" /\ hand' = None
      /\ waiting' = waiting \ {asked.by} /\ asked' = NoRequest
      /\ UNCHANGED <<channel, control, rpc, phase, registered>>
    BY DEF Panic
<1>2. (Held' <=> Held) /\ (InboxGone' <=> InboxGone)
    BY <1>1 DEF Held, Holds, InboxGone
<1>3. channel \in Seq(Items) /\ Between' = channel
    BY <1>1, HandFacts, Joins DEF Between
<1>4. CASE wpc = "forwarding"
    <2>1. hand # None /\ asked = NoRequest
        BY <1>4 DEF Known, EndsInv, Placed, OneCarryOut, InHand
    <2>2. None \notin waiting /\ NoRequest.by = None
        BY DEF Known, EndsInv, DataOK, None, NoRequest
    <2>3. FlushesOut' = FlushesOut
        BY <1>1, <2>1, <2>2 DEF FlushesOut
    <2>4. ~Held /\ Between # <<>> /\ Tail(Between) = channel
        BY <2>1, HeldIsStill, HandFacts
    <2>5. QED
        BY <1>2, <1>3, <2>3, <2>4, ContractHandsOn
<1>5. CASE wpc = "acking"
    <2>1. hand = None
        BY <1>5 DEF Known, EndsInv, Placed
    <2>2. Between' = Between
        BY <1>3, <2>1, HandFacts
    <2>3. FlushesOut' \subseteq FlushesOut
        BY <1>1, FewerFlushes
    <2>4. QED
        BY <1>2, <2>2, <2>3, FlushesReturn
<1>6. QED
    BY <1>1, <1>4, <1>5

\* A Flush discards while whoever asked for it waits.
LEMMA ApplyRequestStep ==
    ASSUME Known, ApplyRequest
    PROVE  Contract!Discard \/ UNCHANGED Contract!vars
<1> USE DEF playback, flags, bells, looks, pausing, worker, producer,
            pipeline, outside, others, history
<1>1. /\ wpc = "applying" /\ wpc' = "acking"
      /\ channel' = IF asked.msg = "Flush" THEN <<>> ELSE channel
      /\ UNCHANGED <<hand, waiting, control, asked, rpc, phase, registered>>
    BY DEF ApplyRequest
<1>2. hand = None /\ asked \in Request
    BY <1>1 DEF Known, EndsInv, Placed, DataOK, OneCarryOut, InHand
<1>3. /\ Held' <=> Held
      /\ FlushesOut' = FlushesOut
      /\ InboxGone' <=> InboxGone
    BY <1>1 DEF Held, Holds, FlushesOut, InboxGone
<1>4. CASE asked.msg = "Flush"
    <2>1. asked.by \in waiting
        BY <1>2 DEF Request, Known, OneRequestOut, OneCarryOut
    <2>2. FlushesOut # {}
        BY <1>4, <2>1 DEF FlushesOut
    <2>3. <<>> \o <<>> = <<>>
        OBVIOUS
    <2>4. Between' = <<>>
        BY <1>1, <1>2, <1>4, <2>3 DEF Between
    <2>5. QED
        BY <1>3, <2>2, <2>4, ContractDiscards
<1>5. CASE asked.msg # "Flush"
    <2>1. Between' = Between
        BY <1>1, <1>5 DEF Between
    <2>2. QED
        BY <1>3, <2>1, ContractStutters
<1>6. QED
    BY <1>4, <1>5

\* A request is answered: its flush is over, and a pause holds from here.
LEMMA AcknowledgeStep ==
    ASSUME Known, Acknowledge
    PROVE  Contract!FlushReturns
<1> USE DEF playback, flags, bells, looks, pausing, worker, producer,
            pipeline, outside, others, history
<1>1. /\ waiting' \subseteq waiting /\ asked' = NoRequest
      /\ UNCHANGED <<control, hand, channel, rpc, phase, registered>>
      /\ ~InboxGone
    BY DEF Acknowledge, InboxGone
<1>2. ~InboxGone'
    BY DEF Acknowledge, InboxGone, Known, PlacesOK
<1>3. FlushesOut' \subseteq FlushesOut
    BY <1>1, FewerFlushes
<1>4. Between' = Between /\ (Held' <=> Held)
    BY <1>1 DEF Between, Held, Holds
<1>5. QED
    BY <1>1, <1>2, <1>3, <1>4, FlushesReturn

\* The worker's end lets go of the channel.
LEMMA DropInboxStep ==
    ASSUME Known, DropInbox
    PROVE  Contract!Close
<1> USE DEF playback, flags, bells, looks, pausing, worker, producer,
            pipeline, outside, others, history
<1>1. /\ wpc = "ending" /\ wpc' = "gone" /\ channel' = <<>> /\ control' = <<>>
      /\ UNCHANGED <<hand, asked, rpc, phase, registered>>
    BY DEF DropInbox
<1>2. hand = None /\ asked = NoRequest
    BY <1>1 DEF Known, EndsInv, Placed, OneCarryOut, InHand
<1>3. DOMAIN <<>> = {} /\ <<>> \o <<>> = <<>>
    OBVIOUS
<1>4. Between' = <<>>
    BY <1>1, <1>2, <1>3 DEF Between
<1>5. FlushesOut' = {}
    <2>1. asked'.msg # "Flush"
        BY <1>1, <1>2 DEF NoRequest, None
    <2>2. QED
        BY <1>1, <1>3, <2>1 DEF FlushesOut
<1>6. (Held' <=> Held) /\ ~InboxGone /\ InboxGone'
    BY <1>1 DEF Held, Holds, InboxGone
<1>7. QED
    BY <1>4, <1>5, <1>6, ContractCloses

\* A request put in the worker's hands is a Flush out, or no Flush at all.
LEMMA AskedFor ==
    ASSUME Known, NEW c \in {"pipeline", "producer"}, c \notin waiting,
           \E r \in Request : r.by = c /\ control' = Append(control, r),
           waiting' = waiting \union {c},
           UNCHANGED <<asked, hand, channel, phase, registered, wpc>>,
           Held' <=> Held, ~InboxGone
    PROVE  Contract!FlushCalled \/ UNCHANGED Contract!vars
<1>1. PICK r \in Request : r.by = c /\ control' = Append(control, r)
    OBVIOUS
<1>2. control \in Seq(Request)
    BY DEF Known, EndsInv, DataOK
<1>3. asked.by # c /\ \A i \in DOMAIN control : control[i].by # c
    BY DEF Known, OneRequestOut, OneCarryOut
<1>4. /\ DOMAIN control' = DOMAIN control \union {Len(control) + 1}
      /\ control'[Len(control) + 1] = r
      /\ \A i \in DOMAIN control : control'[i] = control[i]
    BY <1>1, <1>2
<1>5. c \notin FlushesOut
    BY DEF FlushesOut
<1>6. \A d \in waiting : d \in FlushesOut' <=> d \in FlushesOut
    BY <1>1, <1>3, <1>4 DEF FlushesOut
<1>7. c \in FlushesOut' <=> r.msg = "Flush"
    BY <1>1, <1>3, <1>4 DEF FlushesOut
<1>8. FlushesOut \subseteq waiting /\ FlushesOut' \subseteq waiting \union {c}
    BY DEF FlushesOut
<1>9. Between' = Between /\ ~InboxGone' /\ (InboxGone' <=> InboxGone)
    BY DEF Between, InboxGone
<1>10. CASE r.msg = "Flush"
    <2>1. FlushesOut' = FlushesOut \union {c}
        BY <1>6, <1>7, <1>8, <1>10
    <2>2. \E d \in {"pipeline", "producer"} \ FlushesOut :
             FlushesOut' = FlushesOut \union {d}
        BY <1>5, <2>1
    <2>3. QED
        BY <1>9, <2>2, FlushIsCalled
<1>11. CASE r.msg # "Flush"
    <2>1. FlushesOut' = FlushesOut
        BY <1>5, <1>6, <1>7, <1>8, <1>11
    <2>2. QED
        BY <1>9, <2>1, ContractStutters
<1>12. QED
    BY <1>10, <1>11

\* The producer carries a request to the worker itself.
LEMMA CarryStep ==
    ASSUME Known, Carry
    PROVE  Contract!FlushCalled \/ UNCHANGED Contract!vars
<1> USE DEF playback, flags, bells, looks, pausing, worker, producer,
            pipeline, outside, others, history
<1>1. /\ UNCHANGED <<asked, hand, channel, rpc, phase, registered, wpc>>
      /\ ppc = "idle"
    BY DEF Carry
<1>2. Held' <=> Held
    BY <1>1 DEF Held, Holds
<1>3. CASE InboxGone
    <2>1. UNCHANGED <<control, waiting>>
        BY <1>3 DEF Carry
    <2>2. Between' = Between /\ FlushesOut' = FlushesOut /\ (InboxGone' <=> InboxGone)
        BY <1>1, <2>1 DEF Between, FlushesOut, InboxGone
    <2>3. QED
        BY <1>2, <2>2, ContractStutters
<1>4. CASE ~InboxGone
    <2>1. PICK m \in {"Stop", "Flush"} : control' =
             Append(control, [msg |-> m, direct |-> FALSE, by |-> "producer"])
        BY <1>4 DEF Carry
    <2>2. [msg |-> m, direct |-> FALSE, by |-> "producer"] \in Request
        BY DEF Request, Message
    <2>3. \E r \in Request : r.by = "producer" /\ control' = Append(control, r)
        BY <2>1, <2>2
    <2>4. waiting' = waiting \union {"producer"}
        BY <1>4 DEF Carry
    <2>5. "producer" \notin waiting
        BY <1>1 DEF Known, OneCarryOut, Carrying
    <2>6. QED
        BY <1>1, <1>2, <1>4, <2>3, <2>4, <2>5, AskedFor
<1>5. QED
    BY <1>3, <1>4

\* The pipeline's request reaches the control channel.
LEMMA EnqueueStep ==
    ASSUME Known, Enqueue
    PROVE  Contract!FlushCalled \/ UNCHANGED Contract!vars
<1> USE DEF playback, flags, bells, looks, pausing, worker, producer,
            pipeline, outside, others, history
<1>1. /\ UNCHANGED <<asked, hand, channel, phase, registered, wpc>>
      /\ rpc = "asking" /\ rpc' = "asked"
    BY DEF Enqueue
<1>2. Held' <=> Held
    BY <1>1 DEF Held
<1>3. CASE InboxGone
    <2>1. UNCHANGED <<control, waiting>>
        BY <1>3 DEF Enqueue
    <2>2. Between' = Between /\ FlushesOut' = FlushesOut /\ (InboxGone' <=> InboxGone)
        BY <1>1, <2>1 DEF Between, FlushesOut, InboxGone
    <2>3. QED
        BY <1>2, <2>2, ContractStutters
<1>4. CASE ~InboxGone
    <2>1. /\ control' = Append(control,
                 [msg |-> msg, direct |-> TRUE, by |-> "pipeline"])
          /\ waiting' = waiting \union {"pipeline"}
        BY <1>4 DEF Enqueue
    <2>2. msg \in Message
        BY <1>1 DEF Known, PlacesOK, EndsInv, Placed
    <2>3. [msg |-> msg, direct |-> TRUE, by |-> "pipeline"] \in Request
        BY <2>2 DEF Request
    <2>4. \E r \in Request : r.by = "pipeline" /\ control' = Append(control, r)
        BY <2>1, <2>3
    <2>5. "pipeline" \notin waiting
        BY <1>1 DEF Known, OneRequestOut
    <2>6. QED
        BY <1>1, <1>2, <1>4, <2>1, <2>4, <2>5, AskedFor
<1>5. QED
    BY <1>3, <1>4

\* The pipeline's own steps, the drop, and the end of what is carried.
LEMMA PipelineStep ==
    ASSUME Carried \/ Drop \/ MoveState \/ TakeSenders \/ Interrupt \/ Settle
    PROVE  Contract!Hold \/ Contract!Release \/ UNCHANGED Contract!vars
<1> USE DEF playback, flags, bells, looks, pausing, worker, producer,
            pipeline, outside, others, history
<1>1. UNCHANGED <<hand, channel, wpc, control, waiting, asked>>
    BY DEF Carried, Drop, MoveState, TakeSenders, Interrupt, Settle
<1>2. Between' = Between /\ (InboxGone' <=> InboxGone) /\ FlushesOut' = FlushesOut
    BY <1>1 DEF Between, InboxGone, FlushesOut
<1>3. QED
    BY <1>2, HoldsOrReleases

\* Every step of the queue is a step of the contract, or a stutter.
LEMMA ContractStep ==
    ASSUME Known, [Next]_vars
    PROVE  [Contract!Next]_Contract!vars
<1>1. CASE Unseen
    BY <1>1, UnseenStep
<1>2. CASE TakesRequest
    BY <1>2, TakesRequestStep
<1>3. CASE EndsPending
    BY <1>3, EndsPendingStep DEF Contract!Next
<1>4. CASE Accepts
    BY <1>4, AcceptsStep DEF Contract!Next
<1>5. CASE SelectItem
    BY <1>5, SelectItemStep
<1>6. CASE ForwardItem
    BY <1>6, ForwardItemStep DEF Contract!Next
<1>7. CASE Panic
    BY <1>7, PanicStep DEF Contract!Next
<1>8. CASE ApplyRequest
    BY <1>8, ApplyRequestStep DEF Contract!Next
<1>9. CASE Acknowledge
    BY <1>9, AcknowledgeStep DEF Contract!Next
<1>10. CASE DropInbox
    BY <1>10, DropInboxStep DEF Contract!Next
<1>11. CASE Carry
    BY <1>11, CarryStep DEF Contract!Next
<1>12. CASE Enqueue
    BY <1>12, EnqueueStep DEF Contract!Next
<1>13. CASE Carried \/ Drop \/ MoveState \/ TakeSenders \/ Interrupt \/ Settle
    BY <1>13, PipelineStep DEF Contract!Next
<1>14. QED
    BY <1>1, <1>2, <1>3, <1>4, <1>5, <1>6, <1>7, <1>8, <1>9, <1>10, <1>11,
       <1>12, <1>13, OtherStepsUnseen DEF Known

\* The queue keeps its contract: in order and one at a time, nothing once a
\* pause or a stop has returned, and no Flush that discards what was handed
\* over after it had been acknowledged.
THEOREM KeepsContractHolds == Spec => KeepsContract
<1>1. Init => Contract!Init
    <2>1. <<>> \o <<>> = <<>>
        OBVIOUS
    <2>2. QED
        BY <2>1 DEF Init, Contract!Init, InboxGone, FlushesOut, Holds, None
<1>2. Known /\ [Next]_vars => [Contract!Next]_Contract!vars
    BY ContractStep
<1>3. EndInv => Explained
    BY DEF EndInv
<1>4. PlacesOK /\ EndsInv /\ Explained /\ OneRequestOut /\ OneCarryOut
      /\ StopIsHeard /\ PausedIsStill => Known
    BY DEF Known
<1>5. QED
    BY <1>1, <1>2, <1>3, <1>4, PlacesCorrect, EndsInvCorrect, EndInvCorrect,
       StillCorrect, HeardCorrect, PausedIsStillHolds, PTL
       DEF Spec, KeepsContract, Contract!Spec
=============================================================================
