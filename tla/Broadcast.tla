----------------------------- MODULE Broadcast ------------------------------
(***************************************************************************)
(* A broadcast (lib/src/elements/broadcast): encoded packets written once, *)
(* by one sink per track, and read by readers that come and go.  All of it *)
(* is under one lock, so every call of a sink, a reader or a handle is one *)
(* step; what interleaves is the calls.                                    *)
(*                                                                         *)
(* The sinks of one publication belong to one pipeline: a seek reaches     *)
(* each of them, in any order, before the next seek begins, and until it   *)
(* has reached a track that track goes on writing what the seek leaves.    *)
(* A packet is its track, its time on the track and whether it is a        *)
(* keyframe; all are stamped, and the packets of a track do not go back.   *)
(***************************************************************************)
EXTENDS Integers, Sequences, FiniteSets, SequencesExt, FiniteSetsExt

CONSTANTS
    Readers,          \* those who subscribe
    Ways,             \* how a reader waits: "waker", "bell"
    Wakers,           \* the wakers a reader may be polled with
    Tracks,           \* the tracks of every publication: 0 .. n - 1
    KeyTracks,        \* the first video track a publication may have, or none
    Times,            \* the times a packet may be stamped with
    Retain,           \* BroadcastOptions::retain
    Withins,          \* how far behind a reader joins: a time, or none
    MaxHeld,          \* MAX_BYTES, in packets of one size
    MaxPackets,       \* bound: packets written and kept
    MaxPublications,  \* bound: calls of publish
    MaxSeeks,         \* bound: seeks of one publication's pipeline
    MaxDrops,         \* bound: sinks dropped
    MaxJoins          \* bound: calls of subscribe

None == -1

ASSUME TracksAssumption ==
    /\ Tracks # {} /\ Tracks \subseteq Nat /\ Tracks = 0 .. Cardinality(Tracks) - 1
    /\ KeyTracks \subseteq Tracks \cup {None}
NoWaker == "no waker"
ASSUME WaysAssumption ==
    Ways \subseteq {"waker", "bell"} /\ Wakers \cap {"bell", NoWaker} = {}
ASSUME TimesAssumption ==
    Times \subseteq Nat /\ Retain \in Nat /\ Withins \subseteq Nat \cup {None}
ASSUME BoundsAssumption ==
    /\ MaxHeld \in Nat \ {0}
    /\ \A n \in {MaxPackets, MaxPublications, MaxSeeks, MaxDrops,
                MaxJoins} : n \in Nat

VARIABLES
    run, publication, keyTrack,   \* State's fields of these names; None is -1
    live, open, flushed,          \* the flags of the tracks as sets of tracks
    entries, firstSeq, nextSeq, starts, newest, closed,
    wakers,                       \* the wakers left, each with its reader
    sink, gen,                    \* of each publication and track: where its
                                  \* sink is, and how many seeks have reached it
    seeks, pending,               \* of each publication: its seeks, and the
                                  \* tracks the one under way has yet to reach
    reader, place,                \* each BroadcastReader and where its task is
    waker, left, woken,           \* the waker it was polled with last, the one
                                  \* it has left since the last wake, and
                                  \* whether its task was woken or bell rung
    joins,                        \* counted against the bound
    letGo, cut,                   \* history of the run: what was let go of and
                                  \* why; whether a track ended amid its seek
    got, since, joinedAt, told    \* history of each reader: what it was handed
                                  \* of its run, how much of that before it
                                  \* last joined, the first entry it has had a
                                  \* claim to, the last item it was handed

run_    == <<run, publication, keyTrack, live, open, flushed, cut>>
kept    == <<entries, firstSeq, nextSeq, starts, newest, letGo>>
sinks   == <<sink, gen, seeks, pending>>
task    == <<reader, place, waker, got, since, joinedAt, told, joins>>
waiting == <<wakers, left, woken>>
vars == <<run_, kept, closed, sinks, task, waiting>>

Publications == 1 .. MaxPublications

-----------------------------------------------------------------------------
(* What is kept.                                                           *)

EntryAt(seq) == entries[seq - firstSeq + 1]
Timeline == IF keyTrack = None THEN 0 ELSE keyTrack

\* The whole of the run so far, what was let go of included.
Written == letGo \o entries
RunBegan == firstSeq - Len(letGo)

\* How many entries from the front lie further than `retain` behind `new`.
Older(es, new, retain) ==
    CHOOSE n \in 0 .. Len(es) :
        /\ \A i \in 1 .. n : new - es[i].at > retain
        /\ n < Len(es) => new - es[n + 1].at <= retain

\* How many entries more there are than the bound allows.
OverBeforeThis(es) == Max({0, Len(es) - 1 - MaxHeld})  \* mutant: looks before it adds
OverBound(es) == Max({0, Len(es) - MaxHeld})

StartsLeftBehind(ss, n) == ss  \* mutant: the starts of what is dropped stay

\* The starts left once the n oldest entries are dropped, one at a time.
StartsAfter(ss, n) ==
    LET after[i \in 0 .. n] ==
            IF i = 0 THEN ss
            ELSE LET s == after[i - 1]
                 IN IF s # <<>> /\ Head(s) = firstSeq + i - 1 THEN Tail(s) ELSE s
    IN after[n]

AsTheyWere(es, at) == es  \* mutant: the early packets keep the time zero

\* What the tracks wrote ahead of the run's first packet on the timeline has
\* that packet's time.
Restamped(es, at) ==
    IF newest = None THEN [i \in DOMAIN es |-> [es[i] EXCEPT !.at = at]] ELSE es

BeginRun ==
    /\ run' = run + 1
    /\ live' = TRUE
    /\ cut' = FALSE
    /\ entries' = <<>>
    /\ letGo' = <<>>
    /\ firstSeq' = nextSeq
    /\ starts' = <<>>
    /\ newest' = None
    /\ UNCHANGED nextSeq

WakeForgetful ==  \* mutant: a reader is not shown that its waker is used up
    /\ wakers' = {}
    /\ UNCHANGED left
    /\ woken' = [r \in Readers |->
           \/ woken[r]
           \/ <<r, waker[r]>> \in wakers
           \/ (waker[r] = "bell" /\ place[r] \in {"reading", "waiting"})]

\* Every waker left is woken and forgotten, every bell rung.
WakeAll ==
    /\ wakers' = {}
    /\ left' = [r \in Readers |-> NoWaker]
    /\ woken' = [r \in Readers |->
           \/ woken[r]
           \/ <<r, waker[r]>> \in wakers
           \/ (waker[r] = "bell" /\ place[r] \in {"reading", "waiting"})]

-----------------------------------------------------------------------------
(* The handle.                                                             *)

Publish(key) ==
    /\ ~closed
    /\ publication < MaxPublications
    /\ publication' = publication + 1
    /\ keyTrack' = key
    /\ open' = Tracks
    /\ flushed' = {}
    /\ BeginRun
    /\ sink' = [sink EXCEPT ![publication'] = [t \in Tracks |-> "on"]]
    /\ WakeAll
    /\ UNCHANGED <<closed, gen, seeks, pending, task>>

Close ==
    /\ ~closed
    /\ closed' = TRUE
    /\ WakeAll
    /\ UNCHANGED <<run_, kept, sinks, task>>

-----------------------------------------------------------------------------
(* The sinks.                                                              *)

Accepts(p, t) == ~closed /\ p = publication /\ t \in open

NothingLeftOver(t) == FALSE  \* mutant: every packet is taken for a new one

\* What a track writes that a seek under way has not reached yet.
LeftOver(t) == flushed # {} /\ t \notin flushed

\* History: an entry that is let go of, and why.
LetGoOf(e, why) == [track |-> e.track, start |-> e.start, at |-> e.at, ts |-> e.ts,
                    of |-> e.of, why |-> why]

Write(p, t, key, ts) ==
    LET start == IF keyTrack = None THEN TRUE ELSE t = keyTrack /\ key
        at    == IF t = Timeline THEN ts ELSE Max({newest, 0})
        entry == [track |-> t, start |-> start, at |-> at, ts |-> ts,
                  of |-> <<p, gen[p][t]>>]
        new   == IF t = Timeline THEN Max({newest, at}) ELSE newest
        all   == Append(IF t = Timeline THEN Restamped(entries, at) ELSE entries, entry)
        read  == \E r \in Readers : place[r] # "away"
        old   == IF new = None THEN 0
                 ELSE Older(all, new, IF read THEN Retain ELSE 0)
        n     == Max({old, OverBound(all)})
    IN /\ sink[p][t] = "on"
       /\ Accepts(p, t)
       /\ ~LeftOver(t)
       /\ nextSeq < MaxPackets
       /\ newest' = new
       /\ nextSeq' = nextSeq + 1
       /\ entries' = SubSeq(all, n + 1, Len(all))
       /\ starts' = StartsAfter(IF start THEN Append(starts, nextSeq) ELSE starts, n)
       /\ firstSeq' = firstSeq + n
       /\ letGo' = letGo \o [i \in 1 .. n |-> LetGoOf(all[i],
              IF i > old THEN "bound" ELSE IF read THEN "retain" ELSE "unread")]
       /\ WakeAll
       /\ UNCHANGED <<run_, closed, sinks, task>>

\* Taken and forgotten; the readers are woken all the same.
WriteLeftOver(p, t) ==
    /\ sink[p][t] = "on"
    /\ Accepts(p, t)
    /\ LeftOver(t)
    /\ WakeAll
    /\ UNCHANGED <<run_, kept, closed, sinks, task>>

EndWithFirst(p, t) ==  \* mutant: the first track to end ends the run
    IF p # publication \/ ~live
    THEN UNCHANGED <<open, live>>
    ELSE open' = open \ {t} /\ live' = FALSE

EndTrack(p, t) ==
    IF p # publication \/ ~live
    THEN UNCHANGED <<open, live>>
    ELSE /\ open' = open \ {t}
         /\ live' = (open' # {})

\* The end of the stream, a stop, or the sink dropped.
End(p, t, how) ==
    /\ sink[p][t] = "on" \/ (sink[p][t] = "ended" /\ how = "gone")
    /\ sink' = [sink EXCEPT ![p][t] = how]
    /\ pending' = [pending EXCEPT ![p] = IF how = "gone" THEN @ \ {t} ELSE @]
    /\ cut' = (cut \/ (p = publication /\ pending[p] # {} /\ t \notin pending[p]))
    /\ IF sink[p][t] = "on"
       THEN EndTrack(p, t) /\ WakeAll
       ELSE UNCHANGED <<open, live, waiting>>
    /\ UNCHANGED <<run, publication, keyTrack, flushed, kept, closed, gen,
                   seeks, task>>

\* A seek of the pipeline writing: its flush is on its way to every sink.
Seek(p) ==
    /\ seeks[p] < MaxSeeks
    /\ pending[p] = {}
    /\ pending' = [pending EXCEPT ![p] = {t \in Tracks : sink[p][t] \in {"on", "ended"}}]
    /\ pending'[p] # {}
    /\ seeks' = [seeks EXCEPT ![p] = @ + 1]
    /\ UNCHANGED <<run_, kept, closed, sink, gen, task, waiting>>

FlushTrack(t) ==
    LET began == flushed = {} \/ t \in flushed
        done  == IF began THEN {t} ELSE flushed \cup {t}
    IN /\ flushed' = IF done = Tracks THEN {} ELSE done
       /\ open' = open \cup {t}
       /\ IF began THEN BeginRun /\ WakeAll
                   ELSE UNCHANGED <<run, live, cut, kept, waiting>>
       /\ UNCHANGED <<publication, keyTrack>>

Flush(p, t) ==
    /\ t \in pending[p]
    /\ pending' = [pending EXCEPT ![p] = @ \ {t}]
    /\ gen' = [gen EXCEPT ![p][t] = seeks[p]]
    /\ sink' = [sink EXCEPT ![p][t] = "on"]
    /\ IF p = publication THEN FlushTrack(t) ELSE UNCHANGED <<run_, kept, waiting>>
    /\ UNCHANGED <<closed, seeks, task>>

-----------------------------------------------------------------------------
(* A reader: BroadcastReader::next_in and the three who call it.           *)

NoBack == [cursor |-> 0, end |-> 0, from |-> 0, track |-> None]
NewReader(within) ==
    [run |-> 0, next |-> 0, waitingForStart |-> FALSE, ended |-> FALSE,
     closed |-> FALSE, backFrom |-> None, back |-> NoBack, within |-> within]

Nothing(rd)       == [item |-> "nothing", seq |-> None, to |-> rd]
Handed(item, rd)  == [item |-> item, seq |-> None, to |-> rd]
Packet(seq, rd)   == [item |-> "Packet", seq |-> seq, to |-> rd]

\* The newest start held, unless it is further behind than the reader takes.
Joined(rd) ==
    LET start == Last(starts)
        held  == /\ starts # <<>>
                 /\ rd.within # None =>
                        (IF newest = None THEN 0 ELSE newest - EntryAt(start).at) <= rd.within
    IN [rd EXCEPT !.next = IF held THEN start ELSE nextSeq,
                  !.waitingForStart = ~held,
                  !.backFrom = IF ~held THEN nextSeq
                               ELSE IF Len(starts) > 1 THEN starts[Len(starts) - 1]
                               ELSE firstSeq,
                  !.back = NoBack]

ClosedIn(rd) ==
    IF closed /\ ~rd.closed THEN Handed("Closed", [rd EXCEPT !.closed = TRUE])
                            ELSE Nothing(rd)

BehindOfAny(rd) ==  \* mutant: the keyframe's own track is looked at too
    {s \in Max({rd.back.cursor, firstSeq}) .. rd.back.end - 1 :
        EntryAt(s).ts >= rd.back.from}

BehindAfter(rd) ==  \* mutant: what has the keyframe's own time is left out
    {s \in Max({rd.back.cursor, firstSeq}) .. rd.back.end - 1 :
        EntryAt(s).track # rd.back.track /\ EntryAt(s).ts > rd.back.from}

\* The other tracks' packets written before the keyframe the reader started
\* at and stamped from it on.
Behind(rd) ==
    {s \in Max({rd.back.cursor, firstSeq}) .. rd.back.end - 1 :
        EntryAt(s).track # rd.back.track /\ EntryAt(s).ts >= rd.back.from}

LookBack(rd) ==
    LET s == Min(Behind(rd)) IN Packet(s, [rd EXCEPT !.back.cursor = s + 1])

\* What the reader passes over is what precedes a start it waits for.
Ahead(rd) ==
    {s \in rd.next .. nextSeq - 1 : rd.waitingForStart => EntryAt(s).start}

ReadOn(rd) ==
    LET s == Min(Ahead(rd))
        e == EntryAt(s)
        on == [rd EXCEPT !.next = s + 1, !.waitingForStart = FALSE, !.back = NoBack]
    IN Packet(s, IF e.start /\ rd.backFrom # None
                 THEN [on EXCEPT !.backFrom = None,
                                 !.back = [cursor |-> rd.backFrom, end |-> s,
                                           from |-> e.ts, track |-> e.track]]
                 ELSE on)

AtTheEnd(rd) ==
    LET on == [rd EXCEPT !.next = Max({rd.next, nextSeq}), !.back = NoBack]
    IN IF ~live /\ ~rd.ended THEN Handed("Ended", [on EXCEPT !.ended = TRUE])
                             ELSE ClosedIn(on)

NextIn(rd) ==
    CASE run # rd.run /\ rd.run # 0 /\ ~rd.ended ->
             Handed("Ended", [rd EXCEPT !.ended = TRUE])
      [] run # rd.run /\ (rd.run = 0 \/ rd.ended) ->
             Handed("Started", Joined([rd EXCEPT !.run = run, !.ended = FALSE]))
      [] run = rd.run /\ run = 0 -> ClosedIn(rd)
      [] run = rd.run /\ run # 0 ->
             IF rd.next < firstSeq THEN Handed("Skipped", Joined(rd))
             ELSE IF Behind(rd) # {} THEN LookBack(rd)
             ELSE IF Ahead(rd) # {} THEN ReadOn(rd)
             ELSE AtTheEnd(rd)

Subscribe(r, within, way) ==
    /\ place[r] = "away"
    /\ joins < MaxJoins
    /\ joins' = joins + 1
    /\ reader' = [reader EXCEPT ![r] = NewReader(within)]
    /\ place' = [place EXCEPT ![r] = IF way = "bell" THEN "opening" ELSE "reading"]
    /\ waker' = [waker EXCEPT ![r] = IF way = "bell" THEN "bell" ELSE NoWaker]
    /\ left' = [left EXCEPT ![r] = NoWaker]
    /\ woken' = [woken EXCEPT ![r] = FALSE]
    /\ got' = [got EXCEPT ![r] = <<>>]
    /\ since' = [since EXCEPT ![r] = 0]
    /\ joinedAt' = [joinedAt EXCEPT ![r] = 0]
    /\ told' = [told EXCEPT ![r] = "nothing"]
    /\ UNCHANGED <<run_, kept, closed, sinks, wakers>>

Leave(r) ==
    /\ place[r] # "away"
    /\ place' = [place EXCEPT ![r] = "away"]
    /\ reader' = [reader EXCEPT ![r] = NewReader(None)]
    /\ waker' = [waker EXCEPT ![r] = NoWaker]
    /\ left' = [left EXCEPT ![r] = NoWaker]
    /\ woken' = [woken EXCEPT ![r] = FALSE]
    /\ got' = [got EXCEPT ![r] = <<>>]
    /\ since' = [since EXCEPT ![r] = 0]
    /\ joinedAt' = [joinedAt EXCEPT ![r] = 0]
    /\ told' = [told EXCEPT ![r] = "nothing"]
    /\ UNCHANGED <<run_, kept, closed, sinks, wakers, joins>>

\* What was handed over, and the history of it.
Take(r, next) ==
    /\ next.item # "nothing"
    /\ reader' = [reader EXCEPT ![r] = next.to]
    /\ told' = [told EXCEPT ![r] = next.item]
    /\ got' = [got EXCEPT ![r] = CASE next.item = "Started" -> <<>>
                                   [] next.item = "Packet"  -> Append(@, next.seq)
                                   [] OTHER                 -> @]
    /\ since' = [since EXCEPT ![r] = CASE next.item = "Started" -> 0
                                       [] next.item = "Skipped" -> Len(got[r])
                                       [] OTHER                 -> @]
    /\ joinedAt' = [joinedAt EXCEPT ![r] =
           IF next.item \notin {"Started", "Skipped"} THEN @
           ELSE IF next.to.waitingForStart THEN nextSeq ELSE firstSeq]
    /\ UNCHANGED joins

UpToDate(r, next) ==
    /\ next.item = "nothing"
    /\ reader' = [reader EXCEPT ![r] = next.to]
    /\ UNCHANGED <<told, got, since, joinedAt, joins>>

\* poll_next, with whichever waker the task has now.
Poll(r, w) ==
    LET next == NextIn(reader[r]) IN
    /\ place[r] \in {"reading", "waiting"} /\ waker[r] # "bell"
    /\ woken' = [woken EXCEPT ![r] = FALSE]
    /\ \/ /\ Take(r, next)
          /\ place' = [place EXCEPT ![r] = "reading"]
          /\ waker' = [waker EXCEPT ![r] = NoWaker]
          /\ UNCHANGED <<wakers, left>>
       \/ /\ UpToDate(r, next)
          /\ IF reader[r].closed
             THEN /\ place' = [place EXCEPT ![r] = "done"]
                  /\ waker' = [waker EXCEPT ![r] = NoWaker]
                  /\ UNCHANGED <<wakers, left>>
             ELSE /\ place' = [place EXCEPT ![r] = "waiting"]
                  /\ waker' = [waker EXCEPT ![r] = w]
                  /\ wakers' = IF left[r] = w THEN wakers ELSE wakers \cup {<<r, w>>}
                  /\ left' = [left EXCEPT ![r] = w]
    /\ UNCHANGED <<run_, kept, closed, sinks>>

\* BroadcastSource's making, which reads up to a run's beginning.
Open(r) ==
    /\ place[r] = "opening" /\ reader[r].run = 0 /\ ~reader[r].closed
    /\ Take(r, NextIn(reader[r]))
    /\ UNCHANGED <<run_, kept, closed, sinks, place, waker, waiting>>

AddBell(r) ==
    /\ place[r] = "opening" /\ reader[r].run # 0
    /\ place' = [place EXCEPT ![r] = "reading"]
    /\ UNCHANGED <<run_, kept, closed, sinks, reader, waker, got, since, joinedAt,
                   told, joins, waiting>>

\* try_next, and the wait on the bell where there was nothing.
TryNext(r) ==
    LET next == NextIn(reader[r]) IN
    /\ place[r] = "reading" /\ waker[r] = "bell" /\ told[r] # "Closed"
    /\ \/ Take(r, next) /\ UNCHANGED place
       \/ UpToDate(r, next) /\ place' = [place EXCEPT ![r] = "waiting"]
    /\ UNCHANGED <<run_, kept, closed, sinks, waker, waiting>>

Rung(r) ==
    /\ place[r] = "waiting" /\ waker[r] = "bell" /\ woken[r]
    /\ woken' = [woken EXCEPT ![r] = FALSE]
    /\ place' = [place EXCEPT ![r] = "reading"]
    /\ UNCHANGED <<run_, kept, closed, sinks, reader, waker, got, since, joinedAt,
                   told, joins, wakers, left>>

-----------------------------------------------------------------------------
Init ==
    /\ run = 0 /\ publication = 0 /\ keyTrack = None
    /\ live = FALSE /\ open = {} /\ flushed = {} /\ cut = FALSE
    /\ entries = <<>> /\ letGo = <<>> /\ starts = <<>>
    /\ firstSeq = 0 /\ nextSeq = 0 /\ newest = None
    /\ closed = FALSE
    /\ sink = [p \in Publications |-> [t \in Tracks |-> "none"]]
    /\ gen = [p \in Publications |-> [t \in Tracks |-> 0]]
    /\ seeks = [p \in Publications |-> 0]
    /\ pending = [p \in Publications |-> {}]
    /\ reader = [r \in Readers |-> NewReader(None)]
    /\ place = [r \in Readers |-> "away"]
    /\ waker = [r \in Readers |-> NoWaker]
    /\ left = [r \in Readers |-> NoWaker]
    /\ woken = [r \in Readers |-> FALSE]
    /\ wakers = {}
    /\ got = [r \in Readers |-> <<>>] /\ since = [r \in Readers |-> 0]
    /\ joinedAt = [r \in Readers |-> 0]
    /\ told = [r \in Readers |-> "nothing"]
    /\ joins = 0

\* A track's packets are stamped in order, and only a key track has keyframes
\* that matter.
Stamps(p, t) ==
    {ts \in Times : \A i \in DOMAIN Written :
        Written[i].track = t /\ Written[i].of = <<p, gen[p][t]>> => Written[i].ts <= ts}

Dropped == Cardinality({x \in Publications \X Tracks : sink[x[1]][x[2]] = "gone"})

Writers ==
    \E p \in Publications, t \in Tracks :
        \/ \E key \in BOOLEAN, ts \in Stamps(p, t) :
               (key => t = keyTrack) /\ Write(p, t, key, ts)
        \/ WriteLeftOver(p, t)
        \/ End(p, t, "ended")
        \/ Dropped < MaxDrops /\ End(p, t, "gone")
        \/ Flush(p, t)

TheReaders ==
    \E r \in Readers :
        \/ \E within \in Withins, way \in Ways : Subscribe(r, within, way)
        \/ \E w \in Wakers : Poll(r, w)
        \/ Open(r) \/ AddBell(r) \/ TryNext(r) \/ Rung(r) \/ Leave(r)

Next ==
    \/ \E key \in KeyTracks : Publish(key)
    \/ Close
    \/ \E p \in Publications : Seek(p)
    \/ Writers
    \/ TheReaders

Spec == Init /\ [][Next]_vars

-----------------------------------------------------------------------------
(* Properties.                                                             *)

Entry == [track : Tracks, start : BOOLEAN, at : Nat, ts : Times,
          of : Publications \X Nat]
GoneEntry == [track : Tracks, start : BOOLEAN, at : Nat, ts : Times,
              of : Publications \X Nat, why : {"bound", "retain", "unread"}]

Reader == [run : Nat, next : Nat, waitingForStart : BOOLEAN, ended : BOOLEAN,
           closed : BOOLEAN, backFrom : Nat \cup {None},
           back : [cursor : Nat, end : Nat, from : Nat, track : Tracks \cup {None}],
           within : Withins \cup {None}]

RunTyped ==
    /\ run \in Nat /\ publication \in 0 .. MaxPublications
    /\ keyTrack \in Tracks \cup {None}
    /\ live \in BOOLEAN /\ open \subseteq Tracks /\ flushed \subseteq Tracks
    /\ cut \in BOOLEAN /\ closed \in BOOLEAN
KeptTyped ==
    /\ entries \in Seq(Entry) /\ Len(entries) <= MaxHeld
    /\ firstSeq \in Nat /\ nextSeq = firstSeq + Len(entries)
    /\ starts \in Seq(Nat) /\ newest \in Nat \cup {None}
    /\ letGo \in Seq(GoneEntry) /\ Len(letGo) <= firstSeq
SinksTyped ==
    /\ sink \in [Publications -> [Tracks -> {"none", "on", "ended", "gone"}]]
    /\ gen \in [Publications -> [Tracks -> Nat]]
    /\ seeks \in [Publications -> Nat]
    /\ pending \in [Publications -> SUBSET Tracks]
ReadersTyped ==
    /\ reader \in [Readers -> Reader]
    /\ place \in [Readers -> {"away", "opening", "reading", "waiting", "done"}]
    /\ waker \in [Readers -> Wakers \cup {"bell", NoWaker}]
    /\ left \in [Readers -> Wakers \cup {NoWaker}]
    /\ wakers \subseteq Readers \X Wakers
    /\ woken \in [Readers -> BOOLEAN]

\* Every variable keeps its type, and what is held stays within the bound
\* that write applies after what retain asks for.
TypeOK == RunTyped /\ KeptTyped /\ SinksTyped /\ ReadersTyped

\* The numbers of the starts are those of the entries held that are starts,
\* in order, and no reader stands past what is written or looks back past
\* where it stands: the entries are indexed by a number less the first one's,
\* which would otherwise panic under the lock.
PositionsAreHeld ==
    /\ \A i, j \in DOMAIN starts : i < j => starts[i] < starts[j]
    /\ ToSet(starts) = {s \in firstSeq .. nextSeq - 1 : EntryAt(s).start}
    /\ \A r \in Readers : reader[r].run = run =>
        /\ reader[r].next <= nextSeq
        /\ reader[r].back.end <= reader[r].next

\* A reader that waits and has not been woken has nothing to read: no item
\* comes between its look and the waker it leaves, the waker is left again
\* once it is used up or the task polls with another, and the bell is rung.
NoWakeIsLost ==
    \A r \in Readers :
        place[r] = "waiting" /\ ~woken[r] => NextIn(reader[r]).item = "nothing"

\* What is held was all written by the sinks of one publication since the
\* last seek reached them: a sink that was superseded and a track the seek
\* has not reached yet add nothing to a timeline that is not theirs.
OneTimeline ==
    \A i, j \in DOMAIN entries : entries[i].of = entries[j].of

\* Where reader r started since it last joined, and what it was handed since.
HandedSince(r) == SubSeq(got[r], since[r] + 1, Len(got[r]))
At(seq) == Written[seq - RunBegan + 1]

\* A reader of the run going is handed, since it began or skipped, first a
\* packet it may start at; and in all, the packets of each track in the order
\* they were written, none twice, whatever it was handed out of step.
StartsAtKeyInOrder ==
    \A r \in Readers : reader[r].run = run /\ run # 0 =>
        /\ HandedSince(r) # <<>> => At(HandedSince(r)[1]).start
        /\ \A i, j \in DOMAIN got[r] :
            i < j /\ At(got[r][i]).track = At(got[r][j]).track => got[r][i] < got[r][j]

\* The number of the start before `seq`, or where the run began.
PreviousStart(seq) ==
    Max({RunBegan} \cup {s \in RunBegan .. seq - 1 : At(s).start})

\* A reader with nothing more to read of the run has been handed every packet
\* from the keyframe it started at on.  Of those written before it, it has
\* been handed every one still held of another track that is stamped from the
\* keyframe on and was written since the keyframe before it and, where the
\* reader had to wait for the keyframe, since it joined.
NothingIsMissed ==
    \A r \in Readers :
        /\ reader[r].run = run /\ run # 0
        /\ HandedSince(r) # <<>>
        /\ NextIn(reader[r]).item \notin {"Packet", "Skipped"}
        => LET h == HandedSince(r)
               key == h[1]
           IN /\ (key .. nextSeq - 1) \subseteq ToSet(h)
              /\ \A s \in Max({PreviousStart(key), firstSeq, joinedAt[r]}) .. key - 1 :
                     At(s).track # At(key).track /\ At(s).ts >= At(key).ts => s \in ToSet(h)

\* Where the i-th packet of the run lies on the run's timeline, whatever it
\* was given when it was written: its own time on the timeline's track; on
\* another track that of the newest packet before it there, or of the first.
TrueTime(i) ==
    LET on     == {j \in DOMAIN Written : Written[j].track = Timeline}
        before == {j \in on : j <= i}
    IN CASE Written[i].track = Timeline -> Written[i].ts
         [] Written[i].track # Timeline /\ before # {} -> Max({Written[j].ts : j \in before})
         [] OTHER -> Written[Min(on)].ts

\* While the broadcast has a reader, no packet of the last `retain` of the run
\* is let go of but for the bound.
RecentIsKept ==
    \A i \in DOMAIN letGo : letGo[i].why = "retain" => newest - TrueTime(i) > Retain

\* A reader handed the end of the run going finds no more packets in it: once
\* every track has ended nothing is written to the run, and a seek back from
\* the end begins another.  Excepted is a run in which a track ended after a
\* seek had reached it and before that seek had reached the others: they are
\* opened again by a flush that begins no run (State::flush).
EndedIsTheEnd ==
    \A r \in Readers :
        reader[r].run = run /\ reader[r].ended /\ ~cut
        => NextIn(reader[r]).item \notin {"Packet", "Skipped"}

\* BroadcastItem::Closed says of itself "nothing more will come.  Handed once,
\* after everything before it".  This does not hold: closing leaves the run
\* live, so a sink that ends after it has a reader told Closed told Ended.
ClosedIsLast ==
    [][\A r \in Readers : told[r] = "Closed" /\ place'[r] # "away"
           => told'[r] = "Closed"]_told
=============================================================================
