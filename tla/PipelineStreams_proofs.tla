------------------------ MODULE PipelineStreams_proofs ------------------------
(***************************************************************************)
(* That what the terminals of Pipeline.tla are handed comes in order, that *)
(* the ones a preroll counts as ready are at its target, and that a line   *)
(* which ends by itself is drained, for any number of lines, queues,       *)
(* callers and calls.                                                      *)
(***************************************************************************)
EXTENDS Pipeline_proofs

-----------------------------------------------------------------------------
(* The invariant, in parts.                                                *)

ItemsOf(q) == {q[i] : i \in 1 .. Len(q)}

\* Item x is on its way in line l: queued before worker w at place 2w, in the
\* hand of thread t at place 2t + 1.  The greater the nearer to the terminal.
Lies(l, x, k) ==
    \/ \E w \in Workers : w[1] = l /\ k = 2 * w[2] /\ x \in ItemsOf(channel[w])
    \/ \E t \in Threads : t[1] = l /\ k = 2 * t[2] + 1 /\ tpc[t] = "push" /\ x = hand[t]

\* Where an item stands in its segment, which begins where its timeline does.
Nth(x) == CASE x.kind = "buffer" -> x.at
            [] x.kind = "eos"    -> Length + 1
            [] OTHER             -> starts[x.seg]
Precedes(x, y) == x.seg < y.seg \/ (x.seg = y.seg /\ Nth(x) < Nth(y))
Ascending(q) == \A i, j \in 1 .. Len(q) : i < j => Precedes(q[i], q[j])

\* Nothing from place k on has left its loop: what is there gets to the terminal.
Clear(l, k) == \A w \in Of(l) : 2 * w[2] >= k => tpc[w] \notin Over

\* What a line has on its way is in order, place by place, behind what the
\* terminal was handed and within what the source has made.
Ascends(l) == \A w \in Of(l) : Ascending(channel[w])
Ordered(l) ==
    \A x, y \in Items : \A k, m \in Nat :
        Lies(l, x, k) /\ Lies(l, y, m) /\ k > m => Precedes(x, y)
TopNth(l) == IF terminal[l].ended THEN Length + 1 ELSE terminal[l].at
Topped(l) ==
    \A x \in Items : \A k \in Nat : Lies(l, x, k) =>
        \/ terminal[l].seg < x.seg
        \/ terminal[l].seg = x.seg /\ TopNth(l) < Nth(x)
Made(l) ==
    \A x \in Items : \A k \in Nat : Lies(l, x, k) =>
        \/ x.seg < source[l].seg
        \/ x.seg = source[l].seg /\ (Nth(x) <= source[l].pos \/ (x.kind = "eos" /\ pad[l].ended))
TopMade(l) ==
    /\ \/ terminal[l].seg < source[l].seg
       \/ terminal[l].seg = source[l].seg /\ terminal[l].at <= source[l].pos
    /\ terminal[l].seg # 0 => terminal[l].at >= starts[terminal[l].seg]
    /\ terminal[l].seg = source[l].seg /\ terminal[l].ended => pad[l].ended

\* What gets to the terminal is of the timeline, but while the queues are flushed.
FlushIsOut == todo # <<>> /\ todo[1] = "Flush" /\ step # "say"
Fresh(l) ==
    ~FlushIsOut =>
        \A x \in Items : \A k \in Nat : Lies(l, x, k) /\ Clear(l, k) => x.seg = timeline

\* No sample of a segment is missing: what one follows, or the end, is nearer,
\* or the terminal has had it.
Reached(l, n, k) ==
    \/ \E y \in Items : \E m \in Nat : m >= k /\ Lies(l, y, m) /\ y.seg = timeline /\ Nth(y) = n
    \/ terminal[l].seg = timeline /\ terminal[l].at >= n
Follow(l, x) == IF x.kind = "buffer" THEN x.at - 1 ELSE source[l].pos
Gapless(l) ==
    \A x \in Items : \A k \in Nat :
        Lies(l, x, k) /\ Clear(l, k) /\ x.kind \in {"buffer", "eos"} /\ x.seg = timeline =>
            Reached(l, Follow(l, x), k)
LastMade(l) == Clear(l, 1) /\ source[l].seg = timeline => Reached(l, source[l].pos, 1)

\* A queue flushed has the segment of the seek still to come, before all else.
FlushMet(l) ==
    \A w \in Of(l) : flushing[w] /\ Clear(l, 2 * w[2]) =>
        /\ terminal[l].seg # timeline
        /\ \A x \in Items : \A k \in Nat : Lies(l, x, k) /\ k > 2 * w[2] => x.seg # timeline
FirstOnly(l) ==
    /\ \A x \in Items : \A k \in Nat : Lies(l, x, k) /\ x.kind = "segment" => x.seg = 1
    /\ \A w \in Of(l) : flushing[w] => timeline # 1

Flow(l) ==
    /\ Ascends(l) /\ Ordered(l) /\ Topped(l) /\ Made(l) /\ TopMade(l)
    /\ Fresh(l) /\ Gapless(l) /\ LastMade(l) /\ FlushMet(l) /\ FirstOnly(l)

\* What a source has begun, and ended.
SourceIs(l) ==
    /\ Renewing(l) => source[l].seg < timeline
    /\ tpc[Source(l)] \notin {"begin"} \cup Left /\ ~Renewing(l) => source[l].seg = timeline
    /\ tpc[Source(l)] = "begin" => timeline = 1 /\ source[l].seg = 0 /\ source[l].pos = starts[1]
    /\ pad[l].flushing => Renewing(l) \/ tpc[Source(l)] \in Left
    /\ pad[l].ended =>
           \/ tpc[Source(l)] \in {"finishing"} \cup Left
           \/ /\ ~source[l].sought
              /\ tpc[Source(l)] = "linger" \/ (tpc[Source(l)] = "paused" /\ back[Source(l)] = "linger")

\* A seek finds the pipeline paused, and repositions it so, until it prerolls.
PausedIs == paused /\ todo = <<>> => phase = "paused"
Moving ==
    todo # <<>> /\ (todo[1] \in {"Flush", "Seek"} \/ (todo[1] = "Preroll" /\ step = "say"))
Quiet ==
    Moving =>
        /\ phase = "paused"
        /\ \A w \in Workers : tpc[w] \in Over \cup {"paused"}
        /\ \A s \in Sources : tpc[s] \in {"paused", "dropping", "joining", "done"}
FlushReaches ==
    Out("Flush") =>
        \A w \in Workers : w \in sending \cup waiting \/ channel[w] = <<>> \/ tpc[w] \in Over

\* Where a source cannot be sought, none is.
NoSeek ==
    /\ timeline = 1
    /\ todo # <<>> => todo[1] \notin {"Flush", "Seek"}
    /\ todo \in {<<>>} \cup ToStop \cup ToFinish \cup {<<"Pause">>, <<"Resume">>}
    /\ \A t \in Threads : \A i \in 1 .. Len(control[t]) : control[t][i].msg \notin {"Flush", "Seek"}
Known == Types /\ (Seekable => Protocol) /\ (~Seekable => NoSeek)

Streams == PausedIs /\ Quiet /\ FlushReaches /\ \A l \in Lines : Flow(l) /\ SourceIs(l)

\* What a step hands the terminal of a line is as promised.
InOrder(l) ==
    LET was == terminal[l]  is == terminal'[l]
        moves == is.seg # was.seg \/ is.from # was.from \/ is.at # was.at IN
    /\ moves /\ is.seg = was.seg =>
          is.from = is.seg /\ is.at = was.at + 1 /\ ~was.ended
    /\ moves /\ preroll.on => is.seg = timeline
    /\ is.ended /\ ~was.ended /\ source[l].seg = is.seg =>
          is.at = source[l].pos

-----------------------------------------------------------------------------
(* What lies where.                                                        *)

\* The items of a sequence, without the first and with one more.
LEMMA ItemsOfIs ==
    ASSUME NEW S, NEW q \in Seq(S)
    PROVE  /\ ItemsOf(q) \subseteq S
           /\ q = <<>> => ItemsOf(q) = {}
           /\ \A x \in S : ItemsOf(Append(q, x)) = ItemsOf(q) \cup {x}
           /\ q # <<>> => Head(q) \in ItemsOf(q) /\ ItemsOf(q) = ItemsOf(Tail(q)) \cup {Head(q)}
  <1>1. ItemsOf(q) \subseteq S
    BY DEF ItemsOf
  <1>2. q = <<>> => ItemsOf(q) = {}
    BY DEF ItemsOf
  <1>3. ASSUME NEW x \in S PROVE ItemsOf(Append(q, x)) = ItemsOf(q) \cup {x}
    <2>1. Len(q) \in Nat /\ Len(Append(q, x)) = Len(q) + 1
      OBVIOUS
    <2>2. \A i \in 1 .. Len(q) : Append(q, x)[i] = q[i]
      OBVIOUS
    <2>3. Append(q, x)[Len(q) + 1] = x
      OBVIOUS
    <2> QED  BY <2>1, <2>2, <2>3 DEF ItemsOf
  <1>4. ASSUME q # <<>>
        PROVE  Head(q) \in ItemsOf(q) /\ ItemsOf(q) = ItemsOf(Tail(q)) \cup {Head(q)}
    <2>1. /\ Len(q) \in Nat /\ Len(q) > 0 /\ Head(q) = q[1] /\ Len(Tail(q)) = Len(q) - 1
          /\ \A i \in 1 .. Len(Tail(q)) : Tail(q)[i] = q[i+1] /\ i+1 \in 1 .. Len(q)
      BY <1>4, HeadOf
    <2>2. Head(q) \in ItemsOf(q)
      BY <2>1 DEF ItemsOf
    <2>3. ASSUME NEW x \in ItemsOf(q), x # Head(q) PROVE x \in ItemsOf(Tail(q))
      <3>1. PICK i \in 1 .. Len(q) : x = q[i]
        BY <2>3 DEF ItemsOf
      <3>2. i # 1 /\ i - 1 \in 1 .. Len(Tail(q))
        BY <2>1, <2>3, <3>1
      <3>3. Tail(q)[i - 1] = q[i]
        BY <2>1, <3>2
      <3> QED  BY <3>1, <3>2, <3>3 DEF ItemsOf
    <2>4. ItemsOf(Tail(q)) \subseteq ItemsOf(q)
      BY <2>1 DEF ItemsOf
    <2> QED  BY <2>2, <2>3, <2>4
  <1> QED  BY <1>1, <1>2, <1>3, <1>4

\* In order, the first precedes the rest, which is in order; and what all precede may follow.
LEMMA AscendingIs ==
    ASSUME NEW S, NEW q \in Seq(S), Ascending(q)
    PROVE  /\ q # <<>> => Ascending(Tail(q)) /\ \A x \in ItemsOf(Tail(q)) : Precedes(Head(q), x)
           /\ \A x \in S : (\A y \in ItemsOf(q) : Precedes(y, x)) => Ascending(Append(q, x))
  <1>1. ASSUME q # <<>>
        PROVE  Ascending(Tail(q)) /\ \A x \in ItemsOf(Tail(q)) : Precedes(Head(q), x)
    <2>1. /\ Len(q) \in Nat /\ Len(q) > 0 /\ Head(q) = q[1] /\ Len(Tail(q)) = Len(q) - 1
          /\ \A i \in 1 .. Len(Tail(q)) : Tail(q)[i] = q[i+1] /\ i+1 \in 1 .. Len(q)
      BY <1>1, HeadOf
    <2>2. Ascending(Tail(q))
      <3> SUFFICES ASSUME NEW i \in 1 .. Len(Tail(q)), NEW j \in 1 .. Len(Tail(q)), i < j
                   PROVE  Precedes(Tail(q)[i], Tail(q)[j])
        BY DEF Ascending
      <3>1. i + 1 < j + 1 /\ i + 1 \in 1 .. Len(q) /\ j + 1 \in 1 .. Len(q)
        BY <2>1
      <3>2. Precedes(q[i + 1], q[j + 1])
        BY <3>1 DEF Ascending
      <3> QED  BY <2>1, <3>2
    <2>3. ASSUME NEW x \in ItemsOf(Tail(q)) PROVE Precedes(Head(q), x)
      <3>1. PICK i \in 1 .. Len(Tail(q)) : x = Tail(q)[i]
        BY <2>3 DEF ItemsOf
      <3>2. x = q[i + 1] /\ i + 1 \in 1 .. Len(q) /\ 1 \in 1 .. Len(q) /\ 1 < i + 1
        BY <2>1, <3>1
      <3>3. Precedes(q[1], q[i + 1])
        BY <3>2 DEF Ascending
      <3> QED  BY <2>1, <3>2, <3>3
    <2> QED  BY <2>2, <2>3
  <1>2. ASSUME NEW x \in S, \A y \in ItemsOf(q) : Precedes(y, x)
        PROVE  Ascending(Append(q, x))
    <2>1. Len(q) \in Nat /\ Len(Append(q, x)) = Len(q) + 1
      OBVIOUS
    <2>2. \A i \in 1 .. Len(q) : Append(q, x)[i] = q[i]
      OBVIOUS
    <2>3. Append(q, x)[Len(q) + 1] = x
      OBVIOUS
    <2> SUFFICES ASSUME NEW i \in 1 .. Len(q) + 1, NEW j \in 1 .. Len(q) + 1, i < j
                 PROVE  Precedes(Append(q, x)[i], Append(q, x)[j])
      BY <2>1 DEF Ascending
    <2>4. i \in 1 .. Len(q) /\ Append(q, x)[i] = q[i] /\ q[i] \in ItemsOf(q)
      BY <2>1, <2>2 DEF ItemsOf
    <2>5. CASE j \in 1 .. Len(q)
      BY <2>2, <2>4, <2>5 DEF Ascending
    <2>6. CASE j = Len(q) + 1
      BY <1>2, <2>3, <2>4, <2>6
    <2> QED  BY <2>1, <2>5, <2>6
  <1> QED  BY <1>1, <1>2

\* What lies in a line is an item of it, and at the place of a queue or of a hand.
LEMMA LiesIs ==
    ASSUME Types
    PROVE  /\ \A l \in Lines : \A x, k : Lies(l, x, k) =>
                  x \in ItemsTo(timeline) /\ x \in Items /\ k \in Nat /\ k > 0 /\ k <= 2 * Depth
           /\ \A w \in Workers : \A x : Lies(w[1], x, 2 * w[2]) <=> x \in ItemsOf(channel[w])
           /\ \A t \in Threads : \A x :
                  Lies(t[1], x, 2 * t[2] + 1) <=> tpc[t] = "push" /\ x = hand[t]
  <1>1. Depth \in Nat /\ (\A w \in Workers : w[2] \in 1..Depth) /\ (\A t \in Threads : t[2] \in 0..Depth)
    BY ThreadsAre
  <1>2. ASSUME NEW l \in Lines, NEW x, NEW k, Lies(l, x, k)
        PROVE  x \in ItemsTo(timeline) /\ x \in Items /\ k \in Nat /\ k > 0 /\ k <= 2 * Depth
    <2>1. CASE \E w \in Workers : w[1] = l /\ k = 2 * w[2] /\ x \in ItemsOf(channel[w])
      <3>1. PICK w \in Workers : k = 2 * w[2] /\ x \in ItemsOf(channel[w])
        BY <2>1
      <3>2. channel[w] \in Seq(ItemsTo(timeline))
        BY DEF Types, ItemTypes
      <3>3. x \in ItemsTo(timeline)
        BY <3>1, <3>2, ItemsOfIs
      <3>4. w[2] \in 1..Depth
        BY <1>1
      <3> QED  BY <1>1, <3>1, <3>3, <3>4 DEF ItemsTo
    <2>2. CASE \E t \in Threads : t[1] = l /\ k = 2 * t[2] + 1 /\ tpc[t] = "push" /\ x = hand[t]
      <3>1. PICK t \in Threads : t[1] = l /\ k = 2 * t[2] + 1 /\ tpc[t] = "push" /\ x = hand[t]
        BY <2>2
      <3>2. x \in ItemsTo(timeline)
        BY <3>1 DEF Types, ItemTypes
      <3>3. ~IsLast(t)
        BY <3>1, ThreadsAre, Neighbours DEF Types, ThreadTypes
      <3>4. t[2] \in 0..Depth /\ t[2] # Depth
        BY <1>1, <3>3 DEF IsLast
      <3> QED  BY <1>1, <3>1, <3>2, <3>4 DEF ItemsTo
    <2> QED  BY <1>2, <2>1, <2>2 DEF Lies
  <1>3. ASSUME NEW w \in Workers, NEW x, Lies(w[1], x, 2 * w[2])
        PROVE  x \in ItemsOf(channel[w])
    <2>1. ASSUME NEW u \in Workers, u[1] = w[1], 2 * w[2] = 2 * u[2] PROVE u = w
      <3>1. u[2] = w[2]
        BY <1>1, <2>1
      <3> QED  BY <2>1, <3>1, Neighbours
    <2>2. \A t \in Threads : 2 * w[2] # 2 * t[2] + 1
      BY <1>1
    <2> QED  BY <1>3, <2>1, <2>2 DEF Lies
  <1>4. ASSUME NEW t \in Threads, NEW x, Lies(t[1], x, 2 * t[2] + 1)
        PROVE  tpc[t] = "push" /\ x = hand[t]
    <2>1. ASSUME NEW u \in Threads, u[1] = t[1], 2 * t[2] + 1 = 2 * u[2] + 1 PROVE u = t
      <3>1. u[2] = t[2]
        BY <1>1, <2>1
      <3>2. u = <<u[1], u[2]>> /\ t = <<t[1], t[2]>>
        BY DEF Threads, Sources, Workers
      <3> QED  BY <2>1, <3>1, <3>2
    <2>2. \A w \in Workers : 2 * t[2] + 1 # 2 * w[2]
      BY <1>1
    <2> QED  BY <1>4, <2>1, <2>2 DEF Lies
  <1> QED  BY <1>2, <1>3, <1>4 DEF Lies

\* A step of a thread, of which no timeline begins and nothing comes back to its loop.
SameTime(l) ==
    /\ starts' = starts /\ (FlushIsOut' <=> FlushIsOut)
    /\ \A w \in Of(l) : tpc[w] \in Over => tpc'[w] \in Over

\* So the order of the items is the same, and no more is clear.
LEMMA TimeStays ==
    ASSUME NEW l \in Lines, SameTime(l)
    PROVE  /\ timeline' = timeline
           /\ \A x : Nth(x)' = Nth(x)
           /\ \A x, y : Precedes(x, y)' <=> Precedes(x, y)
           /\ \A k : Clear(l, k)' => Clear(l, k)
  <1>1. timeline' = timeline
    BY DEF SameTime, timeline
  <1>2. \A x : Nth(x)' = Nth(x)
    BY DEF SameTime, Nth
  <1>3. \A x, y : Precedes(x, y)' <=> Precedes(x, y)
    BY <1>2 DEF Precedes
  <1>4. \A k : Clear(l, k)' => Clear(l, k)
    BY DEF SameTime, Clear
  <1> QED  BY <1>1, <1>2, <1>3, <1>4

\* A step that leaves the line's order: nothing is more than there was, and nothing clear less.
Stays(l) ==
    /\ SameTime(l) /\ Ascends(l)'
    /\ \A x, k : Lies(l, x, k)' => Lies(l, x, k)
    /\ \A x, k : Lies(l, x, k) /\ Clear(l, k)' => Lies(l, x, k)'
    /\ terminal'[l].seg = terminal[l].seg /\ terminal'[l].at = terminal[l].at
    /\ terminal'[l].ended = terminal[l].ended
    /\ source'[l].seg = source[l].seg /\ source'[l].pos = source[l].pos
    /\ pad[l].ended => pad'[l].ended
    /\ \A w \in Of(l) : flushing'[w] => flushing[w]

\* It stays in order.
LEMMA StaysFlow ==
    ASSUME Types, NEW l \in Lines, Flow(l), Stays(l)
    PROVE  Flow(l)'
  <1>1. /\ timeline' = timeline
        /\ \A x : Nth(x)' = Nth(x)
        /\ \A x, y : Precedes(x, y)' <=> Precedes(x, y)
        /\ \A k : Clear(l, k)' => Clear(l, k)
    BY TimeStays DEF Stays
  <1>2. Ordered(l)'
    BY <1>1 DEF Stays, Flow, Ordered
  <1>3. Topped(l)'
    BY <1>1 DEF Stays, Flow, Topped, TopNth
  <1>4. Made(l)'
    BY <1>1 DEF Stays, Flow, Made
  <1>5. TopMade(l)'
    BY DEF Stays, SameTime, Flow, TopMade
  <1>6. Fresh(l)'
    BY <1>1 DEF Stays, SameTime, Flow, Fresh
  <1>7. ASSUME NEW n, NEW k \in Nat, Reached(l, n, k), Clear(l, k)'
        PROVE  Reached(l, n, k)'
    <2>1. CASE \E y \in Items : \E m \in Nat :
                   m >= k /\ Lies(l, y, m) /\ y.seg = timeline /\ Nth(y) = n
      <3>1. PICK y \in Items, m \in Nat : m >= k /\ Lies(l, y, m) /\ y.seg = timeline /\ Nth(y) = n
        BY <2>1
      <3>2. Clear(l, m)'
        <4>1. \A w \in Of(l) : w[2] \in Int
          BY LineIs
        <4> QED  BY <1>7, <3>1, <4>1 DEF Clear
      <3>3. Lies(l, y, m)'
        BY <3>1, <3>2 DEF Stays
      <3> QED  BY <1>1, <3>1, <3>3 DEF Reached
    <2>2. CASE terminal[l].seg = timeline /\ terminal[l].at >= n
      BY <1>1, <2>2 DEF Reached, Stays
    <2> QED  BY <1>7, <2>1, <2>2 DEF Reached
  <1>8. Gapless(l)'
    <2> SUFFICES ASSUME NEW x \in Items, NEW k \in Nat, Lies(l, x, k)', Clear(l, k)',
                        x.kind \in {"buffer", "eos"}, x.seg = timeline'
                 PROVE  Reached(l, Follow(l, x), k)'
      BY DEF Gapless
    <2>1. Reached(l, Follow(l, x), k)
      BY <1>1 DEF Stays, Flow, Gapless
    <2>2. Follow(l, x)' = Follow(l, x)
      BY DEF Stays, Follow
    <2>3. PICK n : n = Follow(l, x)
      OBVIOUS
    <2>4. Reached(l, n, k)'
      BY <1>7, <2>1, <2>3
    <2> QED  BY <2>2, <2>3, <2>4 DEF Reached
  <1>9. LastMade(l)'
    <2> SUFFICES ASSUME Clear(l, 1)', source'[l].seg = timeline' PROVE Reached(l, source[l].pos, 1)'
      BY DEF LastMade
    <2>1. PICK n : n = source[l].pos
      OBVIOUS
    <2>2. Reached(l, n, 1)
      BY <1>1, <2>1 DEF Stays, Flow, LastMade
    <2>3. Reached(l, n, 1)'
      BY <1>7, <2>2
    <2> QED  BY <2>1, <2>3 DEF Stays, Reached
  <1>10. FlushMet(l)'
    BY <1>1 DEF Stays, Flow, FlushMet
  <1>11. FirstOnly(l)'
    BY <1>1 DEF Stays, Flow, FirstOnly
  <1> QED  BY <1>2, <1>3, <1>4, <1>5, <1>6, <1>8, <1>9, <1>10, <1>11 DEF Stays, Flow

\* An item goes from one place to the next, before what else is there; a flushed queue
\* it comes from is flushed no more.
Moves(l, item, from) ==
    /\ SameTime(l) /\ Ascends(l)'
    /\ from \in Nat /\ item \in Items /\ Lies(l, item, from)
    /\ \A x : Lies(l, x, from) /\ x # item => Precedes(item, x)
    /\ \A x, k : Lies(l, x, k)' <=> (Lies(l, x, k) /\ ~(x = item /\ k = from))
                                     \/ (x = item /\ k = from + 1)
    /\ Clear(l, from + 1)' => Clear(l, from)'
    /\ terminal'[l] = terminal[l] /\ source'[l] = source[l]
    /\ pad[l].ended => pad'[l].ended
    /\ \A w \in Of(l) : flushing'[w] => flushing[w] /\ 2 * w[2] # from

\* It stays in order.
LEMMA MovesFlow ==
    ASSUME Types, NEW l \in Lines, Flow(l), NEW item, NEW from, Moves(l, item, from)
    PROVE  Flow(l)'
  <1>1. /\ timeline' = timeline
        /\ \A x : Nth(x)' = Nth(x)
        /\ \A x, y : Precedes(x, y)' <=> Precedes(x, y)
        /\ \A k : Clear(l, k)' => Clear(l, k)
    BY TimeStays DEF Moves
  <1>2. /\ from \in Nat /\ item \in Items /\ Lies(l, item, from)
        /\ \A x, k : Lies(l, x, k)' <=> (Lies(l, x, k) /\ ~(x = item /\ k = from))
                                         \/ (x = item /\ k = from + 1)
    BY DEF Moves
  <1>3. ~Precedes(item, item)
    <2>1. Nth(item) \in Int
      <3>1. item \in ItemsTo(timeline)
        BY <1>2, LiesIs
      <3>2. item.seg \in 1..Len(starts) /\ item.at \in 0..Length /\ Length \in Nat
        BY <3>1, SizesAssumption DEF ItemsTo, Items, timeline
      <3>3. starts[item.seg] \in 0..Length
        BY <3>2 DEF Types, PlayTypes
      <3> QED  BY <3>2, <3>3 DEF Nth
    <2>2. item.seg \in Int
      BY <1>2 DEF Items
    <2> QED  BY <2>1, <2>2 DEF Precedes
  <1>4. Ordered(l)'
    <2> SUFFICES ASSUME NEW x \in Items, NEW y \in Items, NEW k \in Nat, NEW m \in Nat,
                        Lies(l, x, k)', Lies(l, y, m)', k > m
                 PROVE  Precedes(x, y)
      BY <1>1 DEF Ordered
    <2>1. CASE x = item /\ k = from + 1
      <3>1. Lies(l, y, m) /\ ~(y = item /\ m = from)
        BY <1>2, <2>1
      <3>2. CASE m = from
        BY <2>1, <3>1, <3>2 DEF Moves
      <3>3. CASE m < from
        BY <1>2, <2>1, <3>1, <3>3 DEF Flow, Ordered
      <3> QED  BY <1>2, <2>1, <3>2, <3>3
    <2>2. CASE ~(x = item /\ k = from + 1) /\ y = item /\ m = from + 1
      <3>1. Lies(l, x, k) /\ k > from
        BY <1>2, <2>2
      <3> QED  BY <1>2, <2>2, <3>1 DEF Flow, Ordered
    <2>3. CASE ~(x = item /\ k = from + 1) /\ ~(y = item /\ m = from + 1)
      BY <1>2, <2>3 DEF Flow, Ordered
    <2> QED  BY <2>1, <2>2, <2>3
  <1>5. \A x : \A k \in Nat : Lies(l, x, k)' => Lies(l, x, k) \/ (x = item /\ k = from + 1)
    BY <1>2
  <1>6. Topped(l)'
    BY <1>1, <1>2, <1>5 DEF Moves, Flow, Topped, TopNth
  <1>7. Made(l)'
    BY <1>1, <1>2, <1>5 DEF Moves, Flow, Made
  <1>8. TopMade(l)'
    BY DEF Moves, SameTime, Flow, TopMade
  <1>9. Fresh(l)'
    <2> SUFFICES ASSUME ~FlushIsOut, NEW x \in Items, NEW k \in Nat, Lies(l, x, k)', Clear(l, k)'
                 PROVE  x.seg = timeline
      BY <1>1 DEF Fresh, Moves, SameTime
    <2>1. CASE Lies(l, x, k)
      BY <1>1, <2>1 DEF Flow, Fresh
    <2>2. CASE x = item /\ k = from + 1
      <3>1. Clear(l, from)
        BY <1>1, <2>2 DEF Moves
      <3> QED  BY <1>2, <2>2, <3>1 DEF Flow, Fresh
    <2> QED  BY <1>5, <2>1, <2>2
  <1>10. ASSUME NEW n, NEW k \in Nat, Reached(l, n, k)
         PROVE  Reached(l, n, k)'
    <2>1. CASE \E y \in Items : \E m \in Nat :
                   m >= k /\ Lies(l, y, m) /\ y.seg = timeline /\ Nth(y) = n
      <3>1. PICK y \in Items, m \in Nat : m >= k /\ Lies(l, y, m) /\ y.seg = timeline /\ Nth(y) = n
        BY <2>1
      <3>2. CASE y = item /\ m = from
        <4>1. Lies(l, y, from + 1)' /\ from + 1 >= k /\ from + 1 \in Nat
          BY <1>2, <3>1, <3>2
        <4> QED  BY <1>1, <3>1, <4>1 DEF Reached
      <3>3. CASE ~(y = item /\ m = from)
        <4>1. Lies(l, y, m)'
          BY <1>2, <3>1, <3>3
        <4> QED  BY <1>1, <3>1, <4>1 DEF Reached
      <3> QED  BY <3>2, <3>3
    <2>2. CASE terminal[l].seg = timeline /\ terminal[l].at >= n
      BY <1>1, <2>2 DEF Reached, Moves
    <2> QED  BY <1>10, <2>1, <2>2 DEF Reached
  <1>11. Gapless(l)'
    <2> SUFFICES ASSUME NEW x \in Items, NEW k \in Nat, Lies(l, x, k)', Clear(l, k)',
                        x.kind \in {"buffer", "eos"}, x.seg = timeline'
                 PROVE  Reached(l, Follow(l, x), k)'
      BY DEF Gapless
    <2>1. PICK n : n = Follow(l, x) /\ n = Follow(l, x)'
      BY DEF Moves, Follow
    <2>2. CASE Lies(l, x, k)
      <3>1. Reached(l, n, k)
        BY <1>1, <2>1, <2>2 DEF Flow, Gapless
      <3>2. Reached(l, n, k)'
        BY <1>10, <3>1
      <3> QED  BY <2>1, <3>2 DEF Reached
    <2>3. CASE x = item /\ k = from + 1
      <3>1. Clear(l, from)
        BY <1>1, <2>3 DEF Moves
      <3>2. Reached(l, n, from)
        BY <1>1, <1>2, <2>1, <2>3, <3>1 DEF Flow, Gapless
      <3>3. Reached(l, n, from + 1)
        <4>1. CASE \E y \in Items : \E m \in Nat :
                       m >= from /\ Lies(l, y, m) /\ y.seg = timeline /\ Nth(y) = n
          <5>1. PICK y \in Items, m \in Nat :
                    m >= from /\ Lies(l, y, m) /\ y.seg = timeline /\ Nth(y) = n
            BY <4>1
          <5>2. n < Nth(x)
            <6>1. x.at \in Int /\ source[l].pos \in 0..Length /\ Length \in Nat
              BY SizesAssumption DEF Items, Types, SourceTypes
            <6> QED  BY <2>1, <6>1 DEF Follow, Nth
          <5>3. CASE m = from
            <6>4. n \in Int /\ Nth(x) \in Int
              <7>1. x.at \in Int /\ source[l].pos \in 0..Length /\ Length \in Nat
                BY SizesAssumption DEF Items, Types, SourceTypes
              <7> QED  BY <2>1, <7>1 DEF Follow, Nth
            <6>1. y # item
              BY <2>3, <5>1, <5>2, <6>4
            <6>2. Precedes(item, y)
              BY <5>1, <5>3, <6>1 DEF Moves
            <6>3. Nth(x) < n
              BY <1>1, <2>3, <5>1, <6>2 DEF Precedes, Items
            <6> QED  BY <5>2, <6>3, <6>4
          <5>4. CASE m > from
            <6>1. m >= from + 1
              BY <1>2, <5>4
            <6> QED  BY <5>1, <6>1 DEF Reached
          <5> QED  BY <1>2, <5>1, <5>3, <5>4
        <4>2. CASE terminal[l].seg = timeline /\ terminal[l].at >= n
          BY <4>2 DEF Reached
        <4> QED  BY <3>2, <4>1, <4>2 DEF Reached
      <3>4. Reached(l, n, from + 1)'
        BY <1>2, <1>10, <3>3
      <3> QED  BY <2>1, <2>3, <3>4 DEF Reached
    <2> QED  BY <1>5, <2>2, <2>3
  <1>12. LastMade(l)'
    <2> SUFFICES ASSUME Clear(l, 1)', source[l].seg = timeline PROVE Reached(l, source[l].pos, 1)'
      BY <1>1 DEF LastMade, Moves
    <2>1. PICK n : n = source[l].pos
      OBVIOUS
    <2>2. Reached(l, n, 1)
      BY <1>1, <2>1 DEF Flow, LastMade
    <2>3. Reached(l, n, 1)'
      BY <1>10, <2>2
    <2> QED  BY <2>1, <2>3 DEF Moves, Reached
  <1>13. FlushMet(l)'
    <2> SUFFICES ASSUME NEW w \in Of(l), flushing'[w], Clear(l, 2 * w[2])'
                 PROVE  /\ terminal[l].seg # timeline
                        /\ \A x \in Items : \A k \in Nat :
                               Lies(l, x, k)' /\ k > 2 * w[2] => x.seg # timeline
      BY <1>1 DEF FlushMet, Moves
    <2>1. flushing[w] /\ 2 * w[2] # from /\ w[2] \in Int
      BY LineIs DEF Moves
    <2>2. /\ terminal[l].seg # timeline
          /\ \A x \in Items : \A k \in Nat : Lies(l, x, k) /\ k > 2 * w[2] => x.seg # timeline
      BY <1>1, <2>1 DEF Flow, FlushMet
    <2>3. from + 1 > 2 * w[2] => from > 2 * w[2]
      BY <1>2, <2>1
    <2> QED  BY <1>2, <1>5, <2>2, <2>3
  <1>14. FirstOnly(l)'
    BY <1>1, <1>2, <1>5 DEF Moves, Flow, FirstOnly
  <1> QED  BY <1>4, <1>6, <1>7, <1>8, <1>9, <1>11, <1>12, <1>13, <1>14 DEF Moves, Flow

\* Where an item stands is a number.
LEMMA NthIs ==
    ASSUME Types, NEW x \in ItemsTo(timeline)
    PROVE  /\ x.seg \in 1 .. timeline /\ x.at \in 0 .. Length /\ Length \in Nat
           /\ x.kind \in {"buffer", "segment", "flushedSegment", "eos"}
           /\ Nth(x) \in Nat /\ timeline \in Nat
           /\ x.kind = "buffer" => Nth(x) = x.at
           /\ x.kind = "eos" => Nth(x) = Length + 1
           /\ x.kind \notin {"buffer", "eos"} => Nth(x) = starts[x.seg] /\ Nth(x) \in 0 .. Length
           /\ ~Precedes(x, x)
  <1>1. timeline \in Nat /\ timeline = Len(starts) /\ starts \in Seq(0 .. Length) /\ Length \in Nat
    BY SizesAssumption DEF Types, PlayTypes, timeline
  <1>2. /\ x.seg \in 1 .. timeline /\ x.at \in 0 .. Length
        /\ x.kind \in {"buffer", "segment", "flushedSegment", "eos"}
    BY DEF ItemsTo, Items
  <1>3. starts[x.seg] \in 0 .. Length
    BY <1>1, <1>2
  <1>4. /\ x.kind = "buffer" => Nth(x) = x.at
        /\ x.kind = "eos" => Nth(x) = Length + 1
        /\ x.kind \notin {"buffer", "eos"} => Nth(x) = starts[x.seg]
    BY DEF Nth
  <1>5. Nth(x) \in Nat
    BY <1>1, <1>2, <1>3, <1>4
  <1>6. ~Precedes(x, x)
    BY <1>2, <1>5 DEF Precedes
  <1> QED  BY <1>1, <1>2, <1>3, <1>4, <1>5, <1>6

\* The terminal of a line is handed the item at its place of the last queue, which
\* nothing there is before.
Takes(l, item) ==
    /\ SameTime(l) /\ Ascends(l)'
    /\ item \in Items /\ Lies(l, item, 2 * Depth) /\ Clear(l, 2 * Depth) /\ ~FlushIsOut
    /\ \A x : Lies(l, x, 2 * Depth) /\ x # item => Precedes(item, x)
    /\ \A x, k : Lies(l, x, k)' <=> Lies(l, x, k) /\ ~(x = item /\ k = 2 * Depth)
    /\ source'[l] = source[l] /\ pad'[l] = pad[l]
    /\ \A w \in Of(l) : flushing'[w] => flushing[w] /\ 2 * w[2] < 2 * Depth
    /\ IF item.kind = "buffer"
       THEN /\ terminal'[l].at = item.at /\ terminal'[l].from = item.seg
            /\ terminal'[l].seg = terminal[l].seg /\ terminal'[l].ended = terminal[l].ended
       ELSE IF item.kind = "eos"
       THEN /\ terminal'[l].at = terminal[l].at /\ terminal'[l].from = terminal[l].from
            /\ terminal'[l].seg = terminal[l].seg /\ terminal'[l].ended = TRUE
       ELSE /\ terminal'[l].at = starts[item.seg] /\ terminal'[l].from = item.seg
            /\ terminal'[l].seg = item.seg /\ terminal'[l].ended = FALSE

\* What it is handed is of the timeline; a segment of it comes first, and once,
\* then sample after sample, and an end behind the last.
LEMMA TakesIs ==
    ASSUME Types, NEW l \in Lines, Flow(l), NEW item, Takes(l, item)
    PROVE  /\ item \in ItemsTo(timeline) /\ item.seg = timeline
           /\ source[l].seg = timeline
           /\ item.kind \notin {"buffer", "eos"} => terminal[l].seg < timeline
           /\ item.kind \in {"buffer", "eos"} => terminal[l].seg = timeline /\ ~terminal[l].ended
           /\ item.kind = "buffer" => item.at = terminal[l].at + 1 /\ item.at <= source[l].pos
           /\ item.kind = "eos" => terminal[l].at = source[l].pos /\ pad[l].ended
  <1>1. item \in ItemsTo(timeline) /\ item \in Items /\ 2 * Depth \in Nat /\ Depth \in Nat
    BY LiesIs, SizesAssumption DEF Takes
  <1>2. /\ item.seg \in 1 .. timeline /\ item.at \in 0 .. Length /\ Length \in Nat
        /\ item.kind \in {"buffer", "segment", "flushedSegment", "eos"}
        /\ Nth(item) \in Nat /\ timeline \in Nat
        /\ item.kind = "buffer" => Nth(item) = item.at
        /\ item.kind = "eos" => Nth(item) = Length + 1
        /\ item.kind \notin {"buffer", "eos"} =>
               Nth(item) = starts[item.seg] /\ Nth(item) \in 0 .. Length
    BY <1>1, NthIs
  <1>3. item.seg = timeline
    BY <1>1 DEF Takes, Flow, Fresh
  <1>4. /\ terminal[l].seg \in 0 .. timeline /\ terminal[l].at \in 0 .. Length
        /\ terminal[l].ended \in BOOLEAN
        /\ source[l].seg \in 0 .. timeline /\ source[l].pos \in 0 .. Length
    BY DEF Types, TerminalTypes, SourceTypes
  <1>5. \/ item.seg < source[l].seg
        \/ item.seg = source[l].seg /\
               (Nth(item) <= source[l].pos \/ (item.kind = "eos" /\ pad[l].ended))
    BY <1>1 DEF Takes, Flow, Made
  <1>6. source[l].seg = timeline
    BY <1>2, <1>3, <1>4, <1>5
  <1>7. terminal[l].seg < item.seg \/ (terminal[l].seg = item.seg /\ TopNth(l) < Nth(item))
    BY <1>1 DEF Takes, Flow, Topped
  <1>8. /\ terminal[l].ended => TopNth(l) = Length + 1
        /\ ~terminal[l].ended => TopNth(l) = terminal[l].at
    BY DEF TopNth
  <1>9. ASSUME item.kind \notin {"buffer", "eos"} PROVE terminal[l].seg < timeline
    <2>1. terminal[l].seg # 0 => terminal[l].at >= starts[terminal[l].seg]
      BY DEF Flow, TopMade
    <2>2. TopNth(l) >= terminal[l].at
      BY <1>2, <1>4, <1>8
    <2>3. ASSUME terminal[l].seg = timeline PROVE FALSE
      <3>1. Nth(item) = starts[timeline] /\ Nth(item) \in 0 .. Length /\ TopNth(l) < Nth(item)
        BY <1>2, <1>3, <1>7, <1>9, <2>3
      <3>2. terminal[l].at >= starts[timeline]
        BY <1>2, <1>3, <2>1, <2>3
      <3>3. TopNth(l) \in Int
        BY <1>2, <1>4, <1>8
      <3> QED  BY <1>4, <2>2, <3>1, <3>2, <3>3
    <2> QED  BY <1>3, <1>4, <1>7, <2>3
  <1>10. ASSUME item.kind \in {"buffer", "eos"}
         PROVE  terminal[l].seg = timeline /\ terminal[l].at >= Follow(l, item)
    <2>1. Reached(l, Follow(l, item), 2 * Depth)
      BY <1>1, <1>3, <1>10 DEF Takes, Flow, Gapless
    <2>2. ASSUME NEW y \in Items, NEW m \in Nat, m >= 2 * Depth, Lies(l, y, m), y.seg = timeline,
                 Nth(y) = Follow(l, item)
          PROVE  FALSE
      <3>1. m = 2 * Depth
        <4>1. m <= 2 * Depth
          BY <2>2, LiesIs
        <4> QED  BY <1>1, <2>2, <4>1
      <3>2. Nth(y) < Nth(item) /\ Nth(y) \in Int
        BY <1>2, <1>4, <1>10, <2>2 DEF Follow
      <3>3. Precedes(item, y)
        <4>1. y # item
          BY <1>2, <3>2
        <4> QED  BY <2>2, <3>1, <4>1 DEF Takes
      <3> QED  BY <1>2, <1>3, <2>2, <3>2, <3>3 DEF Precedes
    <2> QED  BY <2>1, <2>2 DEF Reached
  <1>11. ASSUME item.kind \in {"buffer", "eos"}
         PROVE  ~terminal[l].ended
    <2>1. TopNth(l) < Nth(item)
      BY <1>2, <1>3, <1>7, <1>10, <1>11
    <2>2. Nth(item) <= Length + 1
      BY <1>2, <1>11
    <2> QED  BY <1>2, <1>8, <2>1, <2>2
  <1>12. ASSUME item.kind = "buffer"
         PROVE  item.at = terminal[l].at + 1 /\ item.at <= source[l].pos
    <2>1. terminal[l].at < item.at
      BY <1>2, <1>3, <1>7, <1>8, <1>10, <1>11, <1>12
    <2>2. terminal[l].at >= item.at - 1
      BY <1>10, <1>12 DEF Follow
    <2>3. item.at <= source[l].pos
      BY <1>2, <1>3, <1>5, <1>6, <1>12
    <2> QED  BY <1>2, <1>4, <2>1, <2>2, <2>3
  <1>13. ASSUME item.kind = "eos"
         PROVE  terminal[l].at = source[l].pos /\ pad[l].ended
    <2>1. pad[l].ended
      BY <1>2, <1>3, <1>4, <1>5, <1>6, <1>13
    <2>2. terminal[l].at >= source[l].pos
      BY <1>10, <1>13 DEF Follow
    <2>3. terminal[l].at <= source[l].pos
      <3>1. terminal[l].seg < source[l].seg
            \/ (terminal[l].seg = source[l].seg /\ terminal[l].at <= source[l].pos)
        BY DEF Flow, TopMade
      <3> QED  BY <1>4, <1>6, <1>10, <1>13, <3>1
    <2> QED  BY <1>4, <2>1, <2>2, <2>3
  <1> QED  BY <1>1, <1>3, <1>6, <1>9, <1>10, <1>11, <1>12, <1>13

\* It stays in order.
LEMMA TakesFlow ==
    ASSUME Types, NEW l \in Lines, Flow(l), NEW item, Takes(l, item)
    PROVE  Flow(l)'
  <1>1. /\ timeline' = timeline
        /\ \A x : Nth(x)' = Nth(x)
        /\ \A x, y : Precedes(x, y)' <=> Precedes(x, y)
        /\ \A k : Clear(l, k)' => Clear(l, k)
        /\ starts' = starts
    BY TimeStays DEF Takes, SameTime
  <1>2. /\ item \in ItemsTo(timeline) /\ item.seg = timeline /\ source[l].seg = timeline
        /\ item.kind \notin {"buffer", "eos"} => terminal[l].seg < timeline
        /\ item.kind \in {"buffer", "eos"} => terminal[l].seg = timeline /\ ~terminal[l].ended
        /\ item.kind = "buffer" => item.at = terminal[l].at + 1 /\ item.at <= source[l].pos
        /\ item.kind = "eos" => terminal[l].at = source[l].pos /\ pad[l].ended
    BY TakesIs
  <1>3. /\ item.seg \in 1 .. timeline /\ item.at \in 0 .. Length /\ Length \in Nat
        /\ item.kind \in {"buffer", "segment", "flushedSegment", "eos"}
        /\ Nth(item) \in Nat /\ timeline \in Nat
        /\ item.kind = "buffer" => Nth(item) = item.at
        /\ item.kind = "eos" => Nth(item) = Length + 1
        /\ item.kind \notin {"buffer", "eos"} =>
               Nth(item) = starts[item.seg] /\ Nth(item) \in 0 .. Length
    BY <1>2, NthIs
  <1>4. /\ terminal[l].seg \in 0 .. timeline /\ terminal[l].at \in 0 .. Length
        /\ source[l].seg \in 0 .. timeline /\ source[l].pos \in 0 .. Length
    BY DEF Types, TerminalTypes, SourceTypes
  <1>5. /\ \A x, k : Lies(l, x, k)' <=> Lies(l, x, k) /\ ~(x = item /\ k = 2 * Depth)
        /\ item \in Items /\ Lies(l, item, 2 * Depth)
        /\ 2 * Depth \in Nat /\ Depth \in Nat
        /\ source'[l] = source[l] /\ pad'[l] = pad[l]
    BY SizesAssumption DEF Takes
  <1>6. /\ terminal'[l].seg = timeline
        /\ terminal'[l].at \in 0 .. Length
        /\ item.kind = "buffer" => terminal'[l].at = item.at /\ ~terminal'[l].ended
        /\ item.kind = "eos" => terminal'[l].at = terminal[l].at /\ terminal'[l].ended
        /\ item.kind \notin {"buffer", "eos"} =>
               terminal'[l].at = starts[timeline] /\ ~terminal'[l].ended
    BY <1>2, <1>3, <1>4 DEF Takes
  <1>7. TopNth(l)' = Nth(item)
    BY <1>2, <1>3, <1>6 DEF TopNth
  <1>8. ASSUME NEW y \in Items, NEW m \in Nat, Lies(l, y, m)' PROVE Precedes(item, y)
    <2>1. Lies(l, y, m) /\ ~(y = item /\ m = 2 * Depth) /\ m <= 2 * Depth
      BY <1>5, <1>8, LiesIs
    <2>2. CASE m = 2 * Depth
      BY <2>1, <2>2 DEF Takes
    <2>3. CASE m < 2 * Depth
      BY <1>5, <2>1, <2>3 DEF Flow, Ordered
    <2> QED  BY <1>5, <1>8, <2>1, <2>2, <2>3
  <1>9. Ordered(l)'
    BY <1>1, <1>5 DEF Flow, Ordered
  <1>10. Topped(l)'
    <2> SUFFICES ASSUME NEW y \in Items, NEW m \in Nat, Lies(l, y, m)'
                 PROVE  \/ terminal'[l].seg < y.seg
                        \/ terminal'[l].seg = y.seg /\ TopNth(l)' < Nth(y)
      BY <1>1 DEF Topped
    <2>1. Precedes(item, y)
      BY <1>8
    <2> QED  BY <1>2, <1>6, <1>7, <2>1 DEF Precedes
  <1>11. Made(l)'
    BY <1>1, <1>5 DEF Flow, Made
  <1>12. TopMade(l)'
    <2>1. terminal'[l].seg = source'[l].seg
      BY <1>2, <1>5, <1>6
    <2>2. terminal'[l].at <= source'[l].pos
      <3>1. CASE item.kind = "buffer"
        BY <1>2, <1>5, <1>6, <3>1
      <3>2. CASE item.kind = "eos"
        BY <1>2, <1>4, <1>5, <1>6, <3>2
      <3>3. CASE item.kind \notin {"buffer", "eos"}
        <4>1. Nth(item) <= source[l].pos
          <5>1. \/ item.seg < source[l].seg
                \/ item.seg = source[l].seg /\ Nth(item) <= source[l].pos
            BY <1>5, <3>3 DEF Flow, Made
          <5> QED  BY <1>2, <1>3, <5>1
        <4> QED  BY <1>2, <1>3, <1>5, <1>6, <3>3, <4>1
      <3> QED  BY <3>1, <3>2, <3>3
    <2>3. terminal'[l].at >= starts[timeline]
      <3>1. timeline # 0 /\ starts[timeline] \in 0 .. Length
        <4>1. starts \in Seq(0 .. Length) /\ timeline = Len(starts)
          BY DEF Types, PlayTypes, timeline
        <4>2. timeline \in 1 .. timeline
          BY <1>2, <1>3
        <4> QED  BY <1>3, <4>1, <4>2
      <3>2. item.kind \in {"buffer", "eos"} => terminal[l].at >= starts[timeline]
        BY <1>2, <3>1 DEF Flow, TopMade
      <3> QED  BY <1>2, <1>4, <1>6, <3>1, <3>2
    <2>4. terminal'[l].ended => pad'[l].ended
      BY <1>2, <1>5, <1>6
    <2> QED  BY <1>1, <1>6, <2>1, <2>2, <2>3, <2>4 DEF TopMade
  <1>13. Fresh(l)'
    BY <1>1, <1>5 DEF Takes, SameTime, Flow, Fresh
  <1>14. ASSUME NEW n \in 0 .. Length, NEW k \in Nat, Reached(l, n, k)
         PROVE  Reached(l, n, k)'
    <2>1. CASE \E y \in Items : \E m \in Nat :
                   m >= k /\ Lies(l, y, m) /\ y.seg = timeline /\ Nth(y) = n
      <3>1. PICK y \in Items, m \in Nat : m >= k /\ Lies(l, y, m) /\ y.seg = timeline /\ Nth(y) = n
        BY <2>1
      <3>2. CASE y = item /\ m = 2 * Depth
        <4>1. item.kind # "eos"
          BY <1>3, <3>1, <3>2
        <4>2. terminal'[l].at = n
          BY <1>2, <1>3, <1>6, <3>1, <3>2, <4>1
        <4> QED  BY <1>1, <1>6, <4>2 DEF Reached
      <3>3. CASE ~(y = item /\ m = 2 * Depth)
        <4>1. Lies(l, y, m)'
          BY <1>5, <3>1, <3>3
        <4> QED  BY <1>1, <3>1, <4>1 DEF Reached
      <3> QED  BY <3>2, <3>3
    <2>2. CASE terminal[l].seg = timeline /\ terminal[l].at >= n
      <3>1. terminal'[l].at >= n
        <4>1. item.kind \in {"buffer", "eos"}
          BY <1>2, <1>4, <2>2
        <4> QED  BY <1>2, <1>3, <1>4, <1>6, <2>2, <4>1
      <3> QED  BY <1>1, <1>6, <3>1 DEF Reached
    <2> QED  BY <1>14, <2>1, <2>2 DEF Reached
  <1>15. Gapless(l)'
    <2> SUFFICES ASSUME NEW x \in Items, NEW k \in Nat, Lies(l, x, k)', Clear(l, k)',
                        x.kind \in {"buffer", "eos"}, x.seg = timeline'
                 PROVE  Reached(l, Follow(l, x), k)'
      BY DEF Gapless
    <2>1. PICK n : n = Follow(l, x) /\ n = Follow(l, x)'
      BY <1>5 DEF Follow
    <2>2. Lies(l, x, k)
      BY <1>5
    <2>3. Reached(l, n, k)
      BY <1>1, <2>1, <2>2 DEF Flow, Gapless
    <2>4. CASE n \in 0 .. Length
      <3>1. Reached(l, n, k)'
        BY <1>14, <2>3, <2>4
      <3> QED  BY <2>1, <3>1 DEF Reached
    <2>5. CASE n \notin 0 .. Length
      <3>1. x.at \in 0 .. Length /\ x.kind = "buffer" /\ n = x.at - 1
        BY <1>4, <2>1, <2>5 DEF Follow, Items
      <3>2. x \in ItemsTo(timeline)
        BY <2>2, LiesIs
      <3>3. Precedes(item, x)
        BY <1>8
      <3>4. Nth(item) < x.at
        <4>1. Nth(x) = x.at
          BY <3>1, <3>2, NthIs
        <4> QED  BY <1>1, <1>2, <1>3, <3>3, <4>1 DEF Precedes
      <3> QED  BY <1>3, <2>5, <3>1, <3>4
    <2> QED  BY <2>4, <2>5
  <1>16. LastMade(l)'
    <2> SUFFICES ASSUME Clear(l, 1)', source[l].seg = timeline PROVE Reached(l, source[l].pos, 1)'
      BY <1>1, <1>5 DEF LastMade
    <2>1. PICK n \in 0 .. Length : n = source[l].pos
      BY <1>4
    <2>2. Reached(l, n, 1)
      BY <1>1, <2>1 DEF Flow, LastMade
    <2>3. Reached(l, n, 1)'
      BY <1>14, <2>2
    <2> QED  BY <1>5, <2>1, <2>3 DEF Reached
  <1>17. FlushMet(l)'
    <2> SUFFICES ASSUME NEW w \in Of(l), flushing'[w], Clear(l, 2 * w[2])' PROVE FALSE
      BY DEF FlushMet
    <2>1. flushing[w] /\ 2 * w[2] < 2 * Depth /\ Clear(l, 2 * w[2])
      BY <1>1 DEF Takes
    <2>2. \A x \in Items : \A k \in Nat : Lies(l, x, k) /\ k > 2 * w[2] => x.seg # timeline
      BY <2>1 DEF Flow, FlushMet
    <2>3. w[2] \in Int
      BY LineIs
    <2>4. 2 * Depth > 2 * w[2]
      BY <1>5, <2>1, <2>3
    <2> QED  BY <1>2, <1>5, <2>2, <2>4
  <1>18. FirstOnly(l)'
    BY <1>1, <1>5 DEF Takes, Flow, FirstOnly
  <1> QED  BY <1>9, <1>10, <1>11, <1>12, <1>13, <1>15, <1>16, <1>17, <1>18 DEF Takes, Flow

\* And what it is handed is as promised.
LEMMA TakesInOrder ==
    ASSUME Types, NEW l \in Lines, Flow(l), NEW item, Takes(l, item)
    PROVE  InOrder(l)
  <1>1. /\ item \in ItemsTo(timeline) /\ item.seg = timeline
        /\ item.kind \notin {"buffer", "eos"} => terminal[l].seg < timeline
        /\ item.kind \in {"buffer", "eos"} => terminal[l].seg = timeline /\ ~terminal[l].ended
        /\ item.kind = "buffer" => item.at = terminal[l].at + 1
        /\ item.kind = "eos" => terminal[l].at = source[l].pos
    BY TakesIs
  <1>2. timeline \in Nat
    BY DEF Types, PlayTypes
  <1>3. CASE item.kind = "buffer"
    BY <1>1, <1>3 DEF Takes, InOrder
  <1>4. CASE item.kind = "eos"
    BY <1>1, <1>4 DEF Takes, InOrder
  <1>5. CASE item.kind \notin {"buffer", "eos"}
    BY <1>1, <1>2, <1>5 DEF Takes, InOrder
  <1> QED  BY <1>3, <1>4, <1>5

\* What a source makes next: its next sample, its end, or where the timeline begins.
Brings(l, item) ==
    /\ item \in ItemsTo(timeline) /\ item.seg = timeline /\ source'[l].seg = timeline
    /\ \/ /\ item.kind = "buffer" /\ source[l].seg = timeline /\ ~pad[l].ended
          /\ item.at = source[l].pos + 1 /\ source'[l].pos = item.at
       \/ /\ item.kind = "eos" /\ source[l].seg = timeline /\ ~pad[l].ended
          /\ source'[l].pos = source[l].pos /\ pad'[l].ended
       \/ /\ item.kind \notin {"buffer", "eos"} /\ source[l].seg < timeline
          /\ source'[l].pos = starts[timeline]
          /\ item.kind = "segment" => timeline = 1

\* It comes behind all there is.
LEMMA BringsLast ==
    ASSUME Types, NEW l \in Lines, Flow(l), NEW item, Brings(l, item)
    PROVE  /\ \A x, k : Lies(l, x, k) => Precedes(x, item)
           /\ terminal[l].seg < timeline \/ (terminal[l].seg = timeline /\ TopNth(l) < Nth(item))
           /\ item \in Items
           /\ item.kind = "buffer" => Nth(item) = source[l].pos + 1
           /\ item.kind = "eos" => Nth(item) = Length + 1
           /\ item.kind \notin {"buffer", "eos"} => Nth(item) = starts[timeline]
           /\ Nth(item) \in Nat /\ timeline \in Nat
  <1>1. /\ item.seg \in 1 .. timeline /\ item.at \in 0 .. Length /\ Length \in Nat
        /\ Nth(item) \in Nat /\ timeline \in Nat
        /\ item.kind = "buffer" => Nth(item) = item.at
        /\ item.kind = "eos" => Nth(item) = Length + 1
        /\ item.kind \notin {"buffer", "eos"} => Nth(item) = starts[item.seg]
    BY NthIs DEF Brings
  <1>2. /\ terminal[l].seg \in 0 .. timeline /\ terminal[l].at \in 0 .. Length
        /\ source[l].seg \in 0 .. timeline /\ source[l].pos \in 0 .. Length
    BY DEF Types, TerminalTypes, SourceTypes
  <1>3. item.kind \in {"buffer", "eos"} => source[l].pos < Nth(item)
    BY <1>1, <1>2 DEF Brings
  <1>4. ASSUME NEW x, NEW k, Lies(l, x, k) PROVE Precedes(x, item)
    <2>1. x \in Items /\ k \in Nat /\ x \in ItemsTo(timeline)
      BY <1>4, LiesIs
    <2>2. \/ x.seg < source[l].seg
          \/ x.seg = source[l].seg /\ (Nth(x) <= source[l].pos \/ (x.kind = "eos" /\ pad[l].ended))
      BY <1>4, <2>1 DEF Flow, Made
    <2>3. x.seg \in Nat /\ Nth(x) \in Nat
      BY <2>1, NthIs
    <2>4. CASE item.kind \in {"buffer", "eos"}
      <3>1. source[l].seg = timeline /\ ~pad[l].ended /\ item.seg = timeline
        BY <2>4 DEF Brings
      <3> QED  BY <1>2, <1>3, <2>2, <2>3, <2>4, <3>1, <1>1 DEF Precedes
    <2>5. CASE item.kind \notin {"buffer", "eos"}
      <3>1. source[l].seg < timeline /\ item.seg = timeline
        BY <2>5 DEF Brings
      <3> QED  BY <1>1, <1>2, <2>2, <2>3, <3>1 DEF Precedes
    <2> QED  BY <2>4, <2>5
  <1>5. terminal[l].seg < timeline \/ (terminal[l].seg = timeline /\ TopNth(l) < Nth(item))
    <2>1. /\ \/ terminal[l].seg < source[l].seg
             \/ terminal[l].seg = source[l].seg /\ terminal[l].at <= source[l].pos
          /\ terminal[l].seg = source[l].seg /\ terminal[l].ended => pad[l].ended
      BY DEF Flow, TopMade
    <2>2. CASE item.kind \in {"buffer", "eos"}
      <3>1. source[l].seg = timeline /\ ~pad[l].ended
        BY <2>2 DEF Brings
      <3>2. terminal[l].seg = timeline => TopNth(l) = terminal[l].at
        BY <2>1, <3>1 DEF TopNth
      <3> QED  BY <1>1, <1>2, <1>3, <2>1, <2>2, <3>1, <3>2
    <2>3. CASE item.kind \notin {"buffer", "eos"}
      <3>1. source[l].seg < timeline
        BY <2>3 DEF Brings
      <3> QED  BY <1>1, <1>2, <2>1, <3>1
    <2> QED  BY <2>2, <2>3
  <1>6. item \in Items
    BY DEF Brings, ItemsTo
  <1>7. item.kind = "buffer" => item.at = source[l].pos + 1
    BY DEF Brings
  <1>8. item.seg = timeline
    BY DEF Brings
  <1> QED  BY <1>1, <1>4, <1>5, <1>6, <1>7, <1>8

\* A source puts it at place `at`, its hand or its first queue, where there is one.
Feeds(l, item, at) ==
    /\ SameTime(l) /\ Ascends(l)' /\ Brings(l, item) /\ at \in {1, 2}
    /\ \A x, k : Lies(l, x, k) => k >= at
    /\ \A x, k : Lies(l, x, k) => Lies(l, x, k)'
    /\ \A x, k : Lies(l, x, k)' => Lies(l, x, k) \/ (x = item /\ k = at)
    /\ Clear(l, 1)' => Lies(l, item, at)'
    /\ terminal'[l] = terminal[l]
    /\ \A w \in Of(l) : flushing'[w] => flushing[w]

\* It stays in order.
LEMMA FeedsFlow ==
    ASSUME Types, NEW l \in Lines, Flow(l), NEW item, NEW at, Feeds(l, item, at)
    PROVE  Flow(l)'
  <1>1. /\ timeline' = timeline
        /\ \A x : Nth(x)' = Nth(x)
        /\ \A x, y : Precedes(x, y)' <=> Precedes(x, y)
        /\ \A k : Clear(l, k)' => Clear(l, k)
        /\ starts' = starts
    BY TimeStays DEF Feeds, SameTime
  <1>2. /\ \A x, k : Lies(l, x, k) => Precedes(x, item)
        /\ terminal[l].seg < timeline \/ (terminal[l].seg = timeline /\ TopNth(l) < Nth(item))
        /\ item \in Items
        /\ item.kind = "buffer" => Nth(item) = source[l].pos + 1
        /\ item.kind = "eos" => Nth(item) = Length + 1
        /\ item.kind \notin {"buffer", "eos"} => Nth(item) = starts[timeline]
        /\ Nth(item) \in Nat /\ timeline \in Nat
    BY BringsLast DEF Feeds
  <1>3. /\ terminal[l].seg \in 0 .. timeline /\ terminal[l].at \in 0 .. Length
        /\ source[l].seg \in 0 .. timeline /\ source[l].pos \in 0 .. Length /\ Length \in Nat
    BY SizesAssumption DEF Types, TerminalTypes, SourceTypes
  <1>4. /\ \A x, k : Lies(l, x, k) => Lies(l, x, k)' /\ k >= at
        /\ \A x, k : Lies(l, x, k)' => Lies(l, x, k) \/ (x = item /\ k = at)
        /\ at \in {1, 2} /\ terminal'[l] = terminal[l]
        /\ item.seg = timeline /\ source'[l].seg = timeline
    BY DEF Feeds, Brings
  <1>5. Ordered(l)'
    <2> SUFFICES ASSUME NEW x \in Items, NEW y \in Items, NEW k \in Nat, NEW m \in Nat,
                        Lies(l, x, k)', Lies(l, y, m)', k > m
                 PROVE  Precedes(x, y)
      BY <1>1 DEF Ordered
    <2>1. CASE Lies(l, x, k) /\ Lies(l, y, m)
      BY <2>1 DEF Flow, Ordered
    <2>2. CASE Lies(l, x, k) /\ y = item
      BY <1>2, <2>2
    <2>3. CASE x = item /\ k = at
      <3>1. m < at
        BY <2>3
      <3>2. ~Lies(l, y, m)
        BY <1>4, <3>1
      <3> QED  BY <1>4, <3>1, <3>2
    <2> QED  BY <1>4, <2>1, <2>2, <2>3
  <1>6. Topped(l)'
    <2>1. TopNth(l)' = TopNth(l)
      BY <1>4 DEF TopNth
    <2> QED  BY <1>1, <1>2, <1>4, <2>1 DEF Flow, Topped
  <1>7. Made(l)'
    <2> SUFFICES ASSUME NEW x \in Items, NEW k \in Nat, Lies(l, x, k)'
                 PROVE  \/ x.seg < source'[l].seg
                        \/ /\ x.seg = source'[l].seg
                           /\ Nth(x) <= source'[l].pos \/ (x.kind = "eos" /\ pad'[l].ended)
      BY <1>1 DEF Made
    <2>1. CASE x = item
      <3>1. CASE item.kind = "buffer"
        <4>1. source'[l].pos = source[l].pos + 1
          BY <3>1 DEF Feeds, Brings
        <4> QED  BY <1>2, <1>3, <1>4, <2>1, <3>1, <4>1
      <3>2. CASE item.kind = "eos"
        BY <1>4, <2>1, <3>2 DEF Feeds, Brings
      <3>3. CASE item.kind \notin {"buffer", "eos"}
        <4>1. source'[l].pos = starts[timeline]
          BY <3>3 DEF Feeds, Brings
        <4> QED  BY <1>2, <1>4, <2>1, <3>3, <4>1
      <3> QED  BY <3>1, <3>2, <3>3
    <2>2. CASE Lies(l, x, k)
      <3>1. \/ x.seg < source[l].seg
            \/ x.seg = source[l].seg /\ (Nth(x) <= source[l].pos \/ (x.kind = "eos" /\ pad[l].ended))
        BY <2>2 DEF Flow, Made
      <3>2. x.seg \in Nat /\ Nth(x) \in Nat
        BY <2>2, LiesIs, NthIs
      <3>3. CASE item.kind \in {"buffer", "eos"}
        <4>1. source[l].seg = timeline /\ ~pad[l].ended /\ source'[l].pos >= source[l].pos
          BY <1>3, <3>3 DEF Feeds, Brings
        <4>2. source'[l].pos \in Int
          BY <1>3, <3>3 DEF Feeds, Brings
        <4> QED  BY <1>3, <1>4, <3>1, <3>2, <4>1, <4>2
      <3>4. CASE item.kind \notin {"buffer", "eos"}
        <4>1. source[l].seg < timeline
          BY <3>4 DEF Feeds, Brings
        <4> QED  BY <1>2, <1>3, <1>4, <3>1, <3>2, <4>1
      <3> QED  BY <3>3, <3>4
    <2> QED  BY <1>4, <2>1, <2>2
  <1>8. TopMade(l)'
    <2>1. /\ \/ terminal[l].seg < source[l].seg
             \/ terminal[l].seg = source[l].seg /\ terminal[l].at <= source[l].pos
          /\ terminal[l].seg # 0 => terminal[l].at >= starts[terminal[l].seg]
          /\ terminal[l].seg = source[l].seg /\ terminal[l].ended => pad[l].ended
      BY DEF Flow, TopMade
    <2>2. CASE item.kind \in {"buffer", "eos"}
      <3>1. source[l].seg = timeline /\ ~pad[l].ended /\ source'[l].pos >= source[l].pos
        BY <1>3, <2>2 DEF Feeds, Brings
      <3>2. source'[l].pos \in Int
        BY <1>3, <2>2 DEF Feeds, Brings
      <3> QED  BY <1>1, <1>3, <1>4, <2>1, <3>1, <3>2 DEF TopMade
    <2>3. CASE item.kind \notin {"buffer", "eos"}
      <3>1. source[l].seg < timeline
        BY <2>3 DEF Feeds, Brings
      <3>2. terminal[l].seg < timeline
        BY <1>2, <1>3, <2>1, <3>1
      <3> QED  BY <1>1, <1>2, <1>3, <1>4, <2>1, <3>2 DEF TopMade
    <2> QED  BY <2>2, <2>3
  <1>9. Fresh(l)'
    BY <1>1, <1>4 DEF Feeds, SameTime, Flow, Fresh
  <1>10. ASSUME NEW n, NEW k \in Nat, Reached(l, n, k)
         PROVE  Reached(l, n, k)'
    <2>1. CASE \E y \in Items : \E m \in Nat :
                   m >= k /\ Lies(l, y, m) /\ y.seg = timeline /\ Nth(y) = n
      BY <1>1, <1>4, <2>1 DEF Reached
    <2>2. CASE terminal[l].seg = timeline /\ terminal[l].at >= n
      BY <1>1, <1>4, <2>2 DEF Reached
    <2> QED  BY <1>10, <2>1, <2>2 DEF Reached
  <1>11. Gapless(l)'
    <2> SUFFICES ASSUME NEW x \in Items, NEW k \in Nat, Lies(l, x, k)', Clear(l, k)',
                        x.kind \in {"buffer", "eos"}, x.seg = timeline'
                 PROVE  Reached(l, Follow(l, x), k)'
      BY DEF Gapless
    <2>1. CASE Lies(l, x, k)
      <3>1. \/ x.seg < source[l].seg
            \/ x.seg = source[l].seg /\ (Nth(x) <= source[l].pos \/ (x.kind = "eos" /\ pad[l].ended))
        BY <2>1 DEF Flow, Made
      <3>2. source[l].seg = timeline
        BY <1>1, <1>2, <1>3, <3>1
      <3>3. Nth(x) = Length + 1 => ~(x.kind = "eos")
        <4>1. item.kind \in {"buffer", "eos"}
          BY <1>3, <3>2 DEF Feeds, Brings
        <4>2. ~pad[l].ended
          BY <4>1 DEF Feeds, Brings
        <4> QED  BY <1>1, <1>3, <3>1, <3>2, <4>2
      <3>4. x.kind = "buffer"
        BY <3>3 DEF Nth
      <3>5. PICK n : n = Follow(l, x) /\ n = Follow(l, x)'
        BY <3>4 DEF Follow
      <3>6. Reached(l, n, k)
        BY <1>1, <2>1, <3>5 DEF Flow, Gapless
      <3>7. Reached(l, n, k)'
        BY <1>10, <3>6
      <3> QED  BY <3>5, <3>7 DEF Reached
    <2>2. CASE x = item /\ k = at
      <3>1. source[l].seg = timeline
        BY <2>2 DEF Feeds, Brings
      <3>2. PICK n : n = source[l].pos
        OBVIOUS
      <3>3. n = Follow(l, x)'
        <4>1. CASE item.kind = "buffer"
          <5>1. item.at = source[l].pos + 1
            BY <4>1 DEF Feeds, Brings
          <5> QED  BY <1>3, <2>2, <3>2, <4>1, <5>1 DEF Follow
        <4>2. CASE item.kind = "eos"
          <5>1. source'[l].pos = source[l].pos
            BY <4>2 DEF Feeds, Brings
          <5> QED  BY <2>2, <3>2, <4>2, <5>1 DEF Follow
        <4> QED  BY <2>2, <4>1, <4>2
      <3>4. Clear(l, 1)
        <4> SUFFICES ASSUME NEW w \in Of(l) PROVE tpc[w] \notin Over
          BY DEF Clear
        <4>1. 2 * w[2] >= k
          <5>1. w[2] \in Int /\ w[2] > 0
            BY LineIs
          <5> QED  BY <1>4, <2>2, <5>1
        <4>2. Clear(l, k)
          BY <1>1
        <4> QED  BY <4>1, <4>2 DEF Clear
      <3>5. Reached(l, n, 1)
        BY <3>1, <3>2, <3>4 DEF Flow, LastMade
      <3>6. Reached(l, n, k)
        <4>1. ASSUME NEW y \in Items, NEW m \in Nat, m >= 1, Lies(l, y, m), y.seg = timeline,
                     Nth(y) = n
              PROVE  m >= k
          BY <1>4, <2>2, <4>1
        <4> QED  BY <3>5, <4>1 DEF Reached
      <3>7. Reached(l, n, k)'
        BY <1>10, <3>6
      <3> QED  BY <3>3, <3>7 DEF Reached
    <2> QED  BY <1>4, <2>1, <2>2
  <1>12. LastMade(l)'
    <2> SUFFICES ASSUME Clear(l, 1)' PROVE Reached(l, source[l].pos, 1)'
      BY DEF LastMade
    <2>1. CASE item.kind \notin {"eos"}
      <3>1. Nth(item) = source'[l].pos
        BY <1>2, <2>1 DEF Feeds, Brings
      <3>2. Lies(l, item, at)' /\ at >= 1 /\ at \in Nat
        BY <1>4 DEF Feeds
      <3> QED  BY <1>1, <1>2, <1>4, <3>1, <3>2 DEF Reached
    <2>2. CASE item.kind = "eos"
      <3>1. source'[l].pos = source[l].pos /\ source[l].seg = timeline
        BY <2>2 DEF Feeds, Brings
      <3>2. PICK n : n = source[l].pos
        OBVIOUS
      <3>3. Reached(l, n, 1)
        BY <1>1, <3>1, <3>2 DEF Flow, LastMade
      <3>4. Reached(l, n, 1)'
        BY <1>10, <3>3
      <3> QED  BY <3>1, <3>2, <3>4 DEF Reached
    <2> QED  BY <2>1, <2>2
  <1>13. FlushMet(l)'
    <2> SUFFICES ASSUME NEW w \in Of(l), flushing'[w], Clear(l, 2 * w[2])'
                 PROVE  /\ terminal[l].seg # timeline
                        /\ \A x \in Items : \A k \in Nat :
                               Lies(l, x, k)' /\ k > 2 * w[2] => x.seg # timeline
      BY <1>1, <1>4 DEF FlushMet
    <2>1. flushing[w] /\ w[2] \in Int /\ w[2] > 0
      BY LineIs DEF Feeds
    <2>2. /\ terminal[l].seg # timeline
          /\ \A x \in Items : \A k \in Nat : Lies(l, x, k) /\ k > 2 * w[2] => x.seg # timeline
      BY <1>1, <2>1 DEF Flow, FlushMet
    <2>3. ~(at > 2 * w[2])
      BY <1>4, <2>1
    <2> QED  BY <1>4, <2>2, <2>3
  <1>14. FirstOnly(l)'
    <2>1. item.kind = "segment" => item.seg = 1
      BY DEF Feeds, Brings
    <2> QED  BY <1>1, <1>4, <2>1 DEF Feeds, Flow, FirstOnly
  <1> QED  BY <1>5, <1>6, <1>7, <1>8, <1>9, <1>11, <1>12, <1>13, <1>14 DEF Feeds, Flow

\* A timeline begins, or a queue is flushed for it, and the source is not there yet.
Renews(l) ==
    /\ Ascends(l)' /\ FlushIsOut' /\ source[l].seg < timeline' /\ timeline' # 1
    /\ \A s \in 1 .. timeline : starts'[s] = starts[s]
    /\ \A x, k : Lies(l, x, k)' => Lies(l, x, k)
    /\ terminal'[l].seg = terminal[l].seg /\ terminal'[l].at = terminal[l].at
    /\ terminal'[l].ended = terminal[l].ended
    /\ source'[l] = source[l] /\ pad'[l] = pad[l]

\* The line stays in order.
LEMMA RenewsFlow ==
    ASSUME Types, Types', NEW l \in Lines, Flow(l), Renews(l)
    PROVE  Flow(l)'
  <1>1. /\ terminal[l].seg \in 0 .. timeline /\ terminal[l].at \in 0 .. Length
        /\ source[l].seg \in 0 .. timeline /\ source[l].pos \in 0 .. Length
        /\ timeline \in Nat /\ timeline' \in Nat
    BY DEF Types, PlayTypes, TerminalTypes, SourceTypes
  <1>2. /\ \A x, k : Lies(l, x, k)' => Lies(l, x, k)
        /\ terminal'[l].seg = terminal[l].seg /\ terminal'[l].at = terminal[l].at
        /\ terminal'[l].ended = terminal[l].ended
        /\ source'[l] = source[l] /\ pad'[l] = pad[l] /\ FlushIsOut'
        /\ source[l].seg < timeline' /\ timeline' # 1
    BY DEF Renews
  <1>3. ASSUME NEW x, NEW k, Lies(l, x, k)
        PROVE  x.seg \in 1 .. timeline /\ Nth(x)' = Nth(x) /\ x.seg <= source[l].seg
    <2>1. x \in ItemsTo(timeline) /\ x \in Items /\ k \in Nat
      BY <1>3, LiesIs
    <2>2. x.seg \in 1 .. timeline
      BY <2>1, NthIs
    <2>3. starts'[x.seg] = starts[x.seg]
      BY <2>2 DEF Renews
    <2>4. Nth(x)' = Nth(x)
      BY <2>3 DEF Nth
    <2>5. x.seg <= source[l].seg
      BY <1>1, <1>3, <2>1, <2>2 DEF Flow, Made
    <2> QED  BY <2>2, <2>4, <2>5
  <1>4. Ordered(l)'
    <2> SUFFICES ASSUME NEW x \in Items, NEW y \in Items, NEW k \in Nat, NEW m \in Nat,
                        Lies(l, x, k)', Lies(l, y, m)', k > m
                 PROVE  Precedes(x, y)'
      BY DEF Ordered
    <2>1. Lies(l, x, k) /\ Lies(l, y, m)
      BY <1>2
    <2>2. Precedes(x, y)
      BY <2>1 DEF Flow, Ordered
    <2> QED  BY <1>3, <2>1, <2>2 DEF Precedes
  <1>5. Topped(l)'
    <2>1. TopNth(l)' = TopNth(l)
      BY <1>2 DEF TopNth
    <2> QED  BY <1>2, <1>3, <2>1 DEF Flow, Topped
  <1>6. Made(l)'
    BY <1>2, <1>3 DEF Flow, Made
  <1>7. TopMade(l)'
    <2>1. terminal[l].seg # 0 => starts'[terminal[l].seg] = starts[terminal[l].seg]
      BY <1>1 DEF Renews
    <2> QED  BY <1>2, <2>1 DEF Flow, TopMade
  <1>8. Fresh(l)'
    BY <1>2 DEF Fresh
  <1>9. \A x, k : Lies(l, x, k)' => x.seg # timeline'
    BY <1>1, <1>2, <1>3
  <1>10. Gapless(l)'
    BY <1>9 DEF Gapless
  <1>11. LastMade(l)'
    BY <1>1, <1>2 DEF LastMade
  <1>12. terminal'[l].seg # timeline'
    BY <1>1, <1>2 DEF Flow, TopMade
  <1>13. FlushMet(l)'
    BY <1>9, <1>12 DEF FlushMet
  <1>14. FirstOnly(l)'
    BY <1>2 DEF Flow, FirstOnly
  <1> QED  BY <1>4, <1>5, <1>6, <1>7, <1>8, <1>10, <1>11, <1>13, <1>14 DEF Renews, Flow

\* A terminal handed nothing is handed it in order.
LEMMA NothingInOrder ==
    ASSUME NEW l, terminal'[l].seg = terminal[l].seg, terminal'[l].at = terminal[l].at,
           terminal'[l].from = terminal[l].from, terminal'[l].ended <=> terminal[l].ended
    PROVE  InOrder(l)
  BY DEF InOrder

\* What lies at a place hangs on its queue, or its hand, alone.
LEMMA LiesElsewhere ==
    ASSUME Types, NEW l \in Lines, NEW K,
           \A w \in Workers : w[1] = l => 2 * w[2] \in K \/ channel'[w] = channel[w],
           \A t \in Threads : t[1] = l =>
               \/ 2 * t[2] + 1 \in K
               \/ /\ tpc'[t] = "push" <=> tpc[t] = "push"
                  /\ tpc[t] = "push" => hand'[t] = hand[t]
    PROVE  \A x, k : k \notin K => (Lies(l, x, k)' <=> Lies(l, x, k))
  <1> TAKE x, k
  <1> HAVE k \notin K
  <1>1. \A w \in Workers : w[1] = l /\ k = 2 * w[2] => channel'[w] = channel[w]
    OBVIOUS
  <1>2. \A t \in Threads : t[1] = l /\ k = 2 * t[2] + 1 =>
            /\ tpc'[t] = "push" <=> tpc[t] = "push"
            /\ tpc[t] = "push" => hand'[t] = hand[t]
    OBVIOUS
  <1>3. \A w \in Workers : w[1] = l /\ k = 2 * w[2] =>
            (x \in ItemsOf(channel[w])' <=> x \in ItemsOf(channel[w]))
    BY <1>1 DEF ItemsOf
  <1>4. (\E w \in Workers : w[1] = l /\ k = 2 * w[2] /\ x \in ItemsOf(channel[w])')
        <=> (\E w \in Workers : w[1] = l /\ k = 2 * w[2] /\ x \in ItemsOf(channel[w]))
    BY <1>3
  <1>5. (\E t \in Threads : t[1] = l /\ k = 2 * t[2] + 1 /\ tpc'[t] = "push" /\ x = hand'[t])
        <=> (\E t \in Threads : t[1] = l /\ k = 2 * t[2] + 1 /\ tpc[t] = "push" /\ x = hand[t])
    BY <1>2
  <1> QED  BY <1>4, <1>5 DEF Lies, ItemsOf

\* Nothing happens to a line: no queue, no hand, no loop of it changes.
Still(l) ==
    /\ starts' = starts /\ (FlushIsOut' <=> FlushIsOut)
    /\ \A t \in Threads : t[1] = l => tpc'[t] = tpc[t] /\ hand'[t] = hand[t]
    /\ \A w \in Workers : w[1] = l => channel'[w] = channel[w] /\ flushing'[w] = flushing[w]
    /\ terminal'[l] = terminal[l] /\ source'[l] = source[l] /\ pad'[l] = pad[l]

\* So what is said of the line stays said, and its terminal is handed nothing.
LEMMA StillFlow ==
    ASSUME Types, NEW l \in Lines, Flow(l), Still(l)
    PROVE  Flow(l)' /\ InOrder(l)
  <1>1. \A w \in Of(l) : w \in Workers /\ w \in Threads /\ w[1] = l
    BY LineIs
  <1>2. SameTime(l)
    BY <1>1 DEF Still, SameTime
  <1>3. \A x, k : Lies(l, x, k)' <=> Lies(l, x, k)
    <2>1. PICK K : K = {}
      OBVIOUS
    <2>2. \A w \in Workers : w[1] = l => 2 * w[2] \in K \/ channel'[w] = channel[w]
      BY DEF Still
    <2>3. \A t \in Threads : t[1] = l =>
              \/ 2 * t[2] + 1 \in K
              \/ /\ tpc'[t] = "push" <=> tpc[t] = "push"
                 /\ tpc[t] = "push" => hand'[t] = hand[t]
      BY DEF Still
    <2>4. \A x, k : k \notin K => (Lies(l, x, k)' <=> Lies(l, x, k))
      BY <2>2, <2>3, LiesElsewhere
    <2> QED  BY <2>1, <2>4
  <1>4. Ascends(l)'
    <2>1. \A w \in Of(l) : Ascending(channel[w])
      BY DEF Flow, Ascends
    <2>2. \A x, y : Precedes(x, y)' <=> Precedes(x, y)
      BY <1>2, TimeStays
    <2>3. \A w \in Of(l) : Ascending(channel[w])'
      BY <1>1, <2>1, <2>2 DEF Still, Ascending
    <2> QED  BY <2>3 DEF Ascends
  <1>5. Stays(l)
    BY <1>1, <1>2, <1>3, <1>4 DEF Still, Stays
  <1> QED  BY <1>5, StaysFlow, NothingInOrder DEF Still

\* The queues of a line, but one, are as they were, and so in order.
LEMMA AscendsBut ==
    ASSUME Types, NEW l \in Lines, Flow(l), SameTime(l), NEW v,
           \A w \in Of(l) : w = v \/ channel'[w] = channel[w],
           v \in Of(l) => Ascending(channel'[v])
    PROVE  Ascends(l)'
  <1>1. \A x, y : Precedes(x, y)' <=> Precedes(x, y)
    BY TimeStays
  <1>2. \A w \in Of(l) : Ascending(channel[w])
    BY DEF Flow, Ascends
  <1>3. ASSUME NEW w \in Of(l) PROVE Ascending(channel[w])'
    <2>1. Ascending(channel'[w])
      BY <1>2
    <2> QED  BY <1>1, <2>1 DEF Ascending
  <1> QED  BY <1>3 DEF Ascends

\* A thread of a line goes, its loop not coming back to life, and the timelines are the same.
Goes(t, p) ==
    /\ t \in Threads /\ tpc' = [tpc EXCEPT ![t] = p]
    /\ t \in Workers => (tpc[t] \in Over => p \in Over)
    /\ UNCHANGED <<starts, todo, step>>

\* What is said of a thread that goes in the same timeline.
LEMMA GoesOnTime ==
    ASSUME Types, NEW t, NEW p, Goes(t, p)
    PROVE  /\ SameTime(t[1]) /\ t[1] \in Lines
           /\ tpc'[t] = p /\ \A u \in Threads : u # t => tpc'[u] = tpc[u]
  <1>1. tpc'[t] = p /\ \A u \in Threads : u # t => tpc'[u] = tpc[u]
    BY DEF Goes, Types, ThreadTypes
  <1>2. t[1] \in Lines
    BY ThreadsAre DEF Goes
  <1>3. FlushIsOut' <=> FlushIsOut
    BY DEF Goes, FlushIsOut
  <1>4. \A w \in Of(t[1]) : tpc[w] \in Over => tpc'[w] \in Over
    <2>1. \A w \in Of(t[1]) : w \in Workers /\ w \in Threads
      BY <1>2, LineIs
    <2> QED  BY <1>1, <2>1 DEF Goes
  <1> QED  BY <1>1, <1>2, <1>3, <1>4 DEF SameTime, Goes

\* It moves nothing: the line is in order as it was.
LEMMA IdlesFlow ==
    ASSUME Types, NEW t, NEW p, Goes(t, p), tpc[t] # "push", p # "push", Flow(t[1]),
           UNCHANGED <<channel, hand, flushing>>,
           terminal'[t[1]].seg = terminal[t[1]].seg, terminal'[t[1]].at = terminal[t[1]].at,
           terminal'[t[1]].from = terminal[t[1]].from,
           terminal'[t[1]].ended = terminal[t[1]].ended,
           source'[t[1]].seg = source[t[1]].seg, source'[t[1]].pos = source[t[1]].pos,
           pad[t[1]].ended => pad'[t[1]].ended
    PROVE  Flow(t[1])' /\ InOrder(t[1])
  <1> DEFINE l == t[1]
  <1>1. SameTime(l) /\ l \in Lines /\ tpc'[t] = p /\ \A u \in Threads : u # t => tpc'[u] = tpc[u]
    BY GoesOnTime
  <1>2. \A x, k : Lies(l, x, k)' <=> Lies(l, x, k)
    <2>1. PICK K : K = {}
      OBVIOUS
    <2>2. \A w \in Workers : w[1] = l => 2 * w[2] \in K \/ channel'[w] = channel[w]
      OBVIOUS
    <2>3. \A u \in Threads : u[1] = l =>
              \/ 2 * u[2] + 1 \in K
              \/ /\ tpc'[u] = "push" <=> tpc[u] = "push"
                 /\ tpc[u] = "push" => hand'[u] = hand[u]
      BY <1>1
    <2>4. \A x, k : k \notin K => (Lies(l, x, k)' <=> Lies(l, x, k))
      BY <1>1, <2>2, <2>3, LiesElsewhere
    <2> QED  BY <2>1, <2>4
  <1>3. Ascends(l)'
    <2>1. \A w \in Of(l) : Ascending(channel[w])
      BY DEF Flow, Ascends
    <2>2. \A w \in Of(l) : Ascending(channel'[w])
      BY <2>1
    <2> QED  BY <1>1, <2>2, AscendsBut
  <1>4. Stays(l)
    BY <1>1, <1>2, <1>3 DEF Stays
  <1>5. Flow(l)'
    BY <1>1, <1>4, StaysFlow
  <1>6. InOrder(l)
    BY NothingInOrder
  <1> QED  BY <1>5, <1>6

\* What a source pushes, its hand free, gets to the end of the first queue.
LEMMA PushesFlow ==
    ASSUME Types, NEW l \in Lines, NEW p, NEW item, Goes(Source(l), p),
           tpc[Source(l)] # "push", p # "push", Flow(l), Brings(l, item),
           channel' = Pushed(After(Source(l)), item), hand' = hand, flushing' = flushing,
           terminal' = terminal
    PROVE  Flow(l)' /\ InOrder(l)
  <1> DEFINE s == Source(l)
             a == After(s)
  <1>1. /\ s \in Threads /\ s[1] = l /\ s[2] = 0 /\ ~IsLast(s)
        /\ a \in Workers /\ a \in Threads /\ a[1] = l /\ a[2] = 1 /\ a \in Of(l)
    BY ThreadsAre, Neighbours DEF Of
  <1>2. SameTime(l) /\ tpc'[s] = p /\ \A u \in Threads : u # s => tpc'[u] = tpc[u]
    BY <1>1, GoesOnTime
  <1>3. channel[a] \in Seq(ItemsTo(timeline)) /\ channel \in [Workers -> Seq(ItemsTo(timeline))]
    BY <1>1 DEF Types, ItemTypes
  <1>4. item \in ItemsTo(timeline) /\ \A x, k : Lies(l, x, k) => Precedes(x, item)
    BY BringsLast DEF Brings
  <1>5. \A x : Lies(l, x, 2) <=> x \in ItemsOf(channel[a])
    <2>1. 2 * a[2] = 2
      BY <1>1
    <2> QED  BY <1>1, <2>1, LiesIs
  <1>6. \A w \in Of(l) : w \in Workers /\ w \in Threads /\ w[2] \in Int /\ w[2] > 0
    BY LineIs
  <1>7. \A w \in Workers : w # a => channel'[w] = channel[w]
    BY <1>3 DEF Pushed
  <1> HIDE DEF s, a
  <1>8. Gone(a) => channel'[a] = channel[a]
    BY DEF Pushed, a, s
  <1>9. ~Gone(a) => channel'[a] = Append(channel[a], item)
    BY <1>1, <1>3 DEF Pushed, a, s
  <1>10. Ascends(l)'
    <2>1. Ascending(channel[a])
      BY <1>1 DEF Flow, Ascends
    <2>2. Ascending(Append(channel[a], item))
      <3>1. \A y \in ItemsOf(channel[a]) : Precedes(y, item)
        BY <1>4, <1>5
      <3> QED  BY <1>3, <1>4, <2>1, <3>1, AscendingIs
    <2>3. Ascending(channel'[a])
      BY <1>8, <1>9, <2>1, <2>2
    <2> QED  BY <1>2, <1>6, <1>7, <2>3, AscendsBut
  <1>11. \A x, k : k # 2 => (Lies(l, x, k)' <=> Lies(l, x, k))
    <2>1. PICK K : K = {2}
      OBVIOUS
    <2>2. \A w \in Workers : w[1] = l => 2 * w[2] \in K \/ channel'[w] = channel[w]
      BY <1>1, <1>7, <2>1
    <2>3. \A u \in Threads : u[1] = l =>
              \/ 2 * u[2] + 1 \in K
              \/ /\ tpc'[u] = "push" <=> tpc[u] = "push"
                 /\ tpc[u] = "push" => hand'[u] = hand[u]
      BY <1>2 DEF s
    <2>4. \A x, k : k \notin K => (Lies(l, x, k)' <=> Lies(l, x, k))
      BY <2>2, <2>3, LiesElsewhere
    <2> QED  BY <2>1, <2>4
  <1>12. \A x : Lies(l, x, 2)' <=> x \in ItemsOf(channel[a])'
    <2>1. ASSUME NEW w \in Workers, w[1] = l, 2 = 2 * w[2] PROVE w = a
      <3>1. w[2] = 1
        BY <2>1, ThreadsAre
      <3> QED  BY <1>1, <2>1, <3>1, Neighbours
    <2>2. \A t \in Threads : 2 # 2 * t[2] + 1
      BY ThreadsAre
    <2>3. 2 = 2 * a[2]
      BY <1>1
    <2> QED  BY <1>1, <2>1, <2>2, <2>3 DEF Lies
  <1>13. /\ ItemsOf(channel[a])' = ItemsOf(channel'[a])
         /\ ItemsOf(Append(channel[a], item)) = ItemsOf(channel[a]) \cup {item}
    BY <1>3, <1>4, ItemsOfIs DEF ItemsOf
  <1>14. Feeds(l, item, 2)
    <2>1. \A x, k : Lies(l, x, k) => k >= 2
      <3> SUFFICES ASSUME NEW x, NEW k, Lies(l, x, k) PROVE k # 1
        BY LiesIs
      <3>1. Lies(l, x, 1) <=> tpc[s] = "push" /\ x = hand[s]
        <4>1. 2 * s[2] + 1 = 1
          BY <1>1
        <4> QED  BY <1>1, <4>1, LiesIs
      <3> QED  BY <3>1 DEF s
    <2>2. \A x, k : Lies(l, x, k) => Lies(l, x, k)'
      <3> SUFFICES ASSUME NEW x, Lies(l, x, 2) PROVE Lies(l, x, 2)'
        BY <1>11
      <3> QED  BY <1>5, <1>8, <1>9, <1>12, <1>13
    <2>3. \A x, k : Lies(l, x, k)' => Lies(l, x, k) \/ (x = item /\ k = 2)
      <3> SUFFICES ASSUME NEW x, Lies(l, x, 2)', x # item PROVE Lies(l, x, 2)
        BY <1>11
      <3> QED  BY <1>5, <1>8, <1>9, <1>12, <1>13
    <2>4. Clear(l, 1)' => Lies(l, item, 2)'
      <3> SUFFICES ASSUME Clear(l, 1)' PROVE Lies(l, item, 2)'
        OBVIOUS
      <3>1. 2 * a[2] >= 1
        BY <1>1
      <3>2. tpc'[a] \notin Over
        BY <1>1, <3>1 DEF Clear
      <3>3. ~Gone(a)
        <4>1. a # s
          BY <1>1
        <4>2. tpc'[a] = tpc[a]
          BY <1>1, <1>2, <4>1
        <4> QED  BY <3>2, <4>2 DEF Gone, Over
      <3> QED  BY <1>9, <1>12, <1>13, <3>3
    <2> QED  BY <1>2, <1>10, <2>1, <2>2, <2>3, <2>4 DEF Feeds
  <1>15. Flow(l)'
    BY <1>14, FeedsFlow
  <1>16. InOrder(l)
    BY NothingInOrder
  <1> QED  BY <1>15, <1>16

\* The next sample gets to the hand of its source.
LEMMA ProducesFlow ==
    ASSUME Types, NEW l \in Lines, NEW item, Goes(Source(l), "push"),
           tpc[Source(l)] # "push", Flow(l), Brings(l, item),
           hand' = [hand EXCEPT ![Source(l)] = item],
           UNCHANGED <<channel, flushing, terminal>>
    PROVE  Flow(l)' /\ InOrder(l)
  <1> DEFINE s == Source(l)
  <1>1. s \in Threads /\ s[1] = l /\ s[2] = 0
    BY ThreadsAre
  <1>2. SameTime(l) /\ tpc'[s] = "push" /\ \A u \in Threads : u # s => tpc'[u] = tpc[u]
    BY <1>1, GoesOnTime
  <1>3. hand'[s] = item /\ \A u \in Threads : u # s => hand'[u] = hand[u]
    BY <1>1 DEF Types, ItemTypes
  <1> HIDE DEF s
  <1>4. Ascends(l)'
    <2>1. \A w \in Of(l) : Ascending(channel[w])
      BY DEF Flow, Ascends
    <2>2. \A w \in Of(l) : Ascending(channel'[w])
      BY <2>1
    <2> QED  BY <1>2, <2>2, AscendsBut
  <1>5. \A x, k : k # 1 => (Lies(l, x, k)' <=> Lies(l, x, k))
    <2>1. PICK K : K = {1}
      OBVIOUS
    <2>2. \A w \in Workers : w[1] = l => 2 * w[2] \in K \/ channel'[w] = channel[w]
      OBVIOUS
    <2>3. \A u \in Threads : u[1] = l =>
              \/ 2 * u[2] + 1 \in K
              \/ /\ tpc'[u] = "push" <=> tpc[u] = "push"
                 /\ tpc[u] = "push" => hand'[u] = hand[u]
      <3>1. 2 * s[2] + 1 \in K
        BY <1>1, <2>1
      <3> QED  BY <1>2, <1>3, <3>1
    <2>4. \A x, k : k \notin K => (Lies(l, x, k)' <=> Lies(l, x, k))
      BY <2>2, <2>3, LiesElsewhere
    <2> QED  BY <2>1, <2>4
  <1>6. \A x : Lies(l, x, 1) <=> tpc[s] = "push" /\ x = hand[s]
    <2>1. 2 * s[2] + 1 = 1
      BY <1>1
    <2> QED  BY <1>1, <2>1, LiesIs
  <1>7. \A x : Lies(l, x, 1)' <=> x = item
    <2>1. ASSUME NEW u \in Threads, u[1] = l, 1 = 2 * u[2] + 1 PROVE u = s
      <3>1. u[2] = 0
        BY <2>1, ThreadsAre
      <3>2. u = <<u[1], u[2]>> /\ s = <<s[1], s[2]>>
        BY <1>1 DEF Threads, Sources, Workers
      <3> QED  BY <1>1, <2>1, <3>1, <3>2
    <2>2. \A w \in Workers : 1 # 2 * w[2]
      BY ThreadsAre
    <2>3. 1 = 2 * s[2] + 1
      BY <1>1
    <2> QED  BY <1>1, <1>2, <1>3, <2>1, <2>2, <2>3 DEF Lies
  <1>8. Feeds(l, item, 1)
    <2>1. \A x, k : Lies(l, x, k) => k >= 1
      BY LiesIs
    <2>2. \A x, k : Lies(l, x, k) => Lies(l, x, k)'
      BY <1>5, <1>6 DEF s
    <2>3. \A x, k : Lies(l, x, k)' => Lies(l, x, k) \/ (x = item /\ k = 1)
      BY <1>5, <1>7
    <2> QED  BY <1>2, <1>4, <1>7, <2>1, <2>2, <2>3 DEF Feeds
  <1>9. Flow(l)'
    BY <1>8, FeedsFlow
  <1>10. InOrder(l)
    BY NothingInOrder
  <1> QED  BY <1>9, <1>10

\* What is in a hand gets to the queue behind, or is lost where that one's worker is gone.
LEMMA HandsOnFlow ==
    ASSUME Types, NEW t, NEW p, Goes(t, p), tpc[t] = "push", p # "push", Flow(t[1]),
           channel' = Pushed(After(t), hand[t]), hand' = [hand EXCEPT ![t] = NoItem],
           UNCHANGED <<flushing, terminal>>, source'[t[1]] = source[t[1]],
           pad[t[1]].ended => pad'[t[1]].ended
    PROVE  Flow(t[1])' /\ InOrder(t[1])
  <1> DEFINE l == t[1]
             a == After(t)
             from == 2 * t[2] + 1
  <1>1. t \in Threads /\ l \in Lines /\ t[2] \in Nat /\ ~IsLast(t)
    <2>1. t \in Threads
      BY DEF Goes
    <2> QED  BY <2>1, ThreadsAre, Neighbours DEF Types, ThreadTypes
  <1>2. a \in Workers /\ a \in Threads /\ a[1] = l /\ a[2] = t[2] + 1 /\ a \in Of(l) /\ a # t
    BY <1>1, Neighbours, ThreadsAre DEF Of
  <1>3. SameTime(l) /\ tpc'[t] = p /\ \A u \in Threads : u # t => tpc'[u] = tpc[u]
    BY GoesOnTime
  <1>4. channel[a] \in Seq(ItemsTo(timeline)) /\ channel \in [Workers -> Seq(ItemsTo(timeline))]
        /\ hand \in [Threads -> Items] /\ hand[t] \in ItemsTo(timeline) /\ hand[t] \in Items
    BY <1>1, <1>2 DEF Types, ItemTypes
  <1>5. PICK item \in ItemsTo(timeline) : item = hand[t] /\ item \in Items
    BY <1>4
  <1>6. \A w \in Workers : w # a => channel'[w] = channel[w]
    BY <1>4 DEF Pushed
  <1>7. from \in Nat /\ from + 1 = 2 * a[2]
    BY <1>1, <1>2
  <1>8. \A x : Lies(l, x, from) <=> x = item
    BY <1>1, <1>5, LiesIs
  <1>9. \A x : Lies(l, x, 2 * a[2]) <=> x \in ItemsOf(channel[a])
    BY <1>2, LiesIs
  <1> HIDE DEF a
  <1>10. Gone(a) => channel'[a] = channel[a]
    BY DEF Pushed, a
  <1>11. ~Gone(a) => channel'[a] = Append(channel[a], item)
    BY <1>2, <1>4, <1>5 DEF Pushed, a
  <1>12. \A u \in Threads : u # t => hand'[u] = hand[u]
    BY <1>4
  <1> HIDE DEF from
  <1>13. \A x, k : k # from /\ k # from + 1 => (Lies(l, x, k)' <=> Lies(l, x, k))
    <2>1. PICK K : K = {from, from + 1}
      OBVIOUS
    <2>2. \A w \in Workers : w[1] = l => 2 * w[2] \in K \/ channel'[w] = channel[w]
      BY <1>6, <1>7, <2>1
    <2>3. \A u \in Threads : u[1] = l =>
              \/ 2 * u[2] + 1 \in K
              \/ /\ tpc'[u] = "push" <=> tpc[u] = "push"
                 /\ tpc[u] = "push" => hand'[u] = hand[u]
      <3>1. 2 * t[2] + 1 \in K
        BY <2>1 DEF from
      <3> QED  BY <1>3, <1>12, <3>1
    <2>4. \A x, k : k \notin K => (Lies(l, x, k)' <=> Lies(l, x, k))
      BY <1>1, <2>2, <2>3, LiesElsewhere
    <2> QED  BY <2>1, <2>4
  <1>14. \A x : ~Lies(l, x, from)'
    <2>1. ASSUME NEW u \in Threads, u[1] = l, from = 2 * u[2] + 1 PROVE u = t
      <3>1. u[2] = t[2]
        BY <1>1, <2>1, ThreadsAre DEF from
      <3>2. u = <<u[1], u[2]>> /\ t = <<t[1], t[2]>>
        BY <1>1 DEF Threads, Sources, Workers
      <3> QED  BY <1>1, <2>1, <3>1, <3>2
    <2>2. \A w \in Workers : from # 2 * w[2]
      BY <1>1, ThreadsAre DEF from
    <2> QED  BY <1>3, <2>1, <2>2 DEF Lies
  <1>15. \A x : Lies(l, x, from + 1)' <=> x \in ItemsOf(channel'[a])
    <2>1. ASSUME NEW w \in Workers, w[1] = l, from + 1 = 2 * w[2] PROVE w = a
      <3>1. w[2] = a[2]
        BY <1>2, <1>7, <2>1, ThreadsAre
      <3> QED  BY <1>2, <2>1, <3>1, Neighbours
    <2>2. \A u \in Threads : from + 1 # 2 * u[2] + 1
      BY <1>1, ThreadsAre DEF from
    <2>3. \A w \in Workers : w[1] = l /\ from + 1 = 2 * w[2] => ItemsOf(channel[w])' = ItemsOf(channel'[a])
      BY <2>1 DEF ItemsOf
    <2> QED  BY <1>2, <1>7, <2>2, <2>3 DEF Lies
  <1>16. ItemsOf(Append(channel[a], item)) = ItemsOf(channel[a]) \cup {item}
    BY <1>4, <1>5, ItemsOfIs
  <1>17. Ascends(l)'
    <2>1. Ascending(channel[a])
      BY <1>2 DEF Flow, Ascends
    <2>2. Ascending(Append(channel[a], item))
      <3>1. ASSUME NEW y \in ItemsOf(channel[a]) PROVE Precedes(y, item)
        <4>1. Lies(l, y, from + 1) /\ Lies(l, item, from)
          BY <1>7, <1>8, <1>9
        <4>2. y \in Items
          BY <1>1, <4>1, LiesIs
        <4>3. from + 1 > from /\ from + 1 \in Nat
          BY <1>7
        <4> QED  BY <1>5, <1>7, <4>1, <4>2, <4>3 DEF Flow, Ordered
      <3> QED  BY <1>4, <1>5, <2>1, <3>1, AscendingIs
    <2>3. Ascending(channel'[a])
      BY <1>10, <1>11, <2>1, <2>2
    <2>4. \A w \in Of(l) : w = a \/ channel'[w] = channel[w]
      BY <1>1, <1>6, LineIs
    <2> QED  BY <1>1, <1>3, <2>3, <2>4, AscendsBut
  <1>18. Clear(l, from + 1)' => Clear(l, from)'
    <2> SUFFICES ASSUME Clear(l, from + 1)', NEW w \in Of(l), 2 * w[2] >= from
                 PROVE  tpc'[w] \notin Over
      BY DEF Clear
    <2>1. 2 * w[2] >= from + 1
      <3>1. w[2] \in Int
        BY <1>1, LineIs
      <3> QED  BY <1>1, <3>1 DEF from
    <2> QED  BY <2>1 DEF Clear
  <1>19. CASE ~Gone(a)
    <2>1. \A x, k : Lies(l, x, k)' <=> (Lies(l, x, k) /\ ~(x = item /\ k = from))
                                        \/ (x = item /\ k = from + 1)
      <3> TAKE x, k
      <3>1. CASE k = from
        BY <1>7, <1>8, <1>14, <3>1
      <3>2. CASE k = from + 1
        BY <1>7, <1>9, <1>11, <1>15, <1>16, <1>19, <3>2
      <3>3. CASE k # from /\ k # from + 1
        BY <1>13, <3>3
      <3> QED  BY <3>1, <3>2, <3>3
    <2>2. \A w \in Of(l) : flushing'[w] => flushing[w] /\ 2 * w[2] # from
      <3>1. \A w \in Of(l) : w[2] \in Int
        BY <1>1, LineIs
      <3> QED  BY <1>1, <3>1 DEF from
    <2>3. Moves(l, item, from)
      BY <1>3, <1>5, <1>7, <1>8, <1>17, <1>18, <2>1, <2>2 DEF Moves
    <2>4. Flow(l)'
      BY <1>1, <2>3, MovesFlow
    <2> QED  BY <2>4, NothingInOrder
  <1>20. CASE Gone(a)
    <2>1. ~Clear(l, from)'
      <3>1. tpc'[a] \in Over
        BY <1>2, <1>3, <1>20 DEF Gone, Over
      <3>2. 2 * a[2] >= from
        BY <1>7
      <3> QED  BY <1>2, <3>1, <3>2 DEF Clear
    <2>2. \A x, k : Lies(l, x, k)' => Lies(l, x, k)
      <3> TAKE x, k
      <3>1. CASE k = from
        BY <1>14, <3>1
      <3>2. CASE k = from + 1
        BY <1>7, <1>9, <1>10, <1>15, <1>20, <3>2
      <3>3. CASE k # from /\ k # from + 1
        BY <1>13, <3>3
      <3> QED  BY <3>1, <3>2, <3>3
    <2>3. \A x, k : Lies(l, x, k) /\ Clear(l, k)' => Lies(l, x, k)'
      <3> TAKE x, k
      <3>1. CASE k = from
        BY <2>1, <3>1
      <3>2. CASE k = from + 1
        BY <1>7, <1>9, <1>10, <1>15, <1>20, <3>2
      <3>3. CASE k # from /\ k # from + 1
        BY <1>13, <3>3
      <3> QED  BY <3>1, <3>2, <3>3
    <2>4. Stays(l)
      BY <1>3, <1>17, <2>2, <2>3 DEF Stays
    <2>5. Flow(l)'
      BY <1>1, <2>4, StaysFlow
    <2> QED  BY <2>5, NothingInOrder
  <1> QED  BY <1>19, <1>20

\* What lies at a queue's place after a step is what is in it then.
LEMMA QueueIs ==
    ASSUME NEW w \in Workers
    PROVE  \A x : Lies(w[1], x, 2 * w[2])' <=> x \in ItemsOf(channel'[w])
  <1>1. w[2] \in 1..Depth
    BY ThreadsAre
  <1>2. ASSUME NEW u \in Workers, u[1] = w[1], 2 * w[2] = 2 * u[2] PROVE u = w
    <2>1. u[2] = w[2]
      BY <1>1, <1>2, ThreadsAre
    <2> QED  BY <1>2, <2>1, Neighbours
  <1>3. \A t \in Threads : 2 * w[2] # 2 * t[2] + 1
    BY <1>1, ThreadsAre
  <1>4. \A u \in Workers : u[1] = w[1] /\ 2 * w[2] = 2 * u[2] =>
            ItemsOf(channel[u])' = ItemsOf(channel'[w])
    BY <1>2 DEF ItemsOf
  <1> QED  BY <1>3, <1>4 DEF Lies

\* The head of a queue taken, it lies there no more, and the rest does, behind it.
LEMMA PopIs ==
    ASSUME Types, NEW w \in Workers, Flow(w[1]), channel[w] # <<>>,
           channel' = [channel EXCEPT ![w] = Tail(@)]
    PROVE  /\ Head(channel[w]) \in ItemsTo(timeline) /\ Head(channel[w]) \in Items
           /\ Lies(w[1], Head(channel[w]), 2 * w[2])
           /\ \A x : Lies(w[1], x, 2 * w[2])' <=>
                         Lies(w[1], x, 2 * w[2]) /\ x # Head(channel[w])
           /\ \A x : Lies(w[1], x, 2 * w[2]) /\ x # Head(channel[w]) =>
                         Precedes(Head(channel[w]), x)
           /\ Ascending(channel'[w])
           /\ \A u \in Workers : u # w => channel'[u] = channel[u]
  <1>1. channel \in [Workers -> Seq(ItemsTo(timeline))] /\ w \in Of(w[1]) /\ w[1] \in Lines
    BY ThreadsAre DEF Types, ItemTypes, Of
  <1>2. channel'[w] = Tail(channel[w]) /\ \A u \in Workers : u # w => channel'[u] = channel[u]
    BY <1>1
  <1>3. PICK q \in Seq(ItemsTo(timeline)) : q = channel[w] /\ q # <<>>
    BY <1>1
  <1>4. Head(q) \in ItemsOf(q) /\ ItemsOf(q) = ItemsOf(Tail(q)) \cup {Head(q)}
        /\ ItemsOf(q) \subseteq ItemsTo(timeline)
    BY <1>3, ItemsOfIs
  <1>5. Ascending(q)
    BY <1>1, <1>3 DEF Flow, Ascends
  <1>6. Ascending(Tail(q)) /\ \A x \in ItemsOf(Tail(q)) : Precedes(Head(q), x)
    BY <1>3, <1>5, AscendingIs
  <1>7. ~Precedes(Head(q), Head(q))
    BY <1>4, NthIs
  <1>8. \A x : Lies(w[1], x, 2 * w[2]) <=> x \in ItemsOf(q)
    BY <1>3, LiesIs
  <1>9. \A x : Lies(w[1], x, 2 * w[2])' <=> x \in ItemsOf(Tail(q))
    BY <1>2, <1>3, QueueIs
  <1>10. Head(q) \in Items
    BY <1>4 DEF ItemsTo
  <1> QED  BY <1>2, <1>3, <1>4, <1>6, <1>7, <1>8, <1>9, <1>10

\* What is dropped for a flush is on no clear way: the worker's own line is over, or
\* the segment of the seek would be behind what is of its timeline.
LEMMA StaleIsBehind ==
    ASSUME Types, Quiet, NEW w \in Workers, Flow(w[1]), tpc[w] = "select", flushing[w],
           NEW x, Lies(w[1], x, 2 * w[2]), x.kind # "flushedSegment",
           \A y : Lies(w[1], y, 2 * w[2]) /\ y # x => Precedes(x, y)
    PROVE  ~Clear(w[1], 2 * w[2])
  <1> DEFINE l == w[1]
             k == 2 * w[2]
  <1>1. l \in Lines /\ w \in Of(l) /\ w \in Threads /\ k \in Nat /\ w[2] \in Nat
    BY ThreadsAre DEF Of
  <1>2. x \in ItemsTo(timeline) /\ x \in Items
    BY <1>1, LiesIs
  <1>3. /\ x.seg \in 1 .. timeline /\ x.at \in 0 .. Length /\ Length \in Nat
        /\ x.kind \in {"buffer", "segment", "eos"}
        /\ Nth(x) \in Nat /\ timeline \in Nat
        /\ x.kind = "buffer" => Nth(x) = x.at
        /\ x.kind = "eos" => Nth(x) = Length + 1
    BY <1>2, NthIs
  <1>4. source[l].seg \in 0 .. timeline /\ source[l].pos \in 0 .. Length
    BY <1>1 DEF Types, SourceTypes
  <1>5. ~FlushIsOut
    BY DEF Quiet, Moving, FlushIsOut, Over
  <1> SUFFICES ASSUME Clear(l, k) PROVE FALSE
    OBVIOUS
  <1>6. x.seg = timeline
    BY <1>1, <1>2, <1>5 DEF Flow, Fresh
  <1>7. timeline # 1 /\ (x.kind = "segment" => x.seg = 1)
    BY <1>1, <1>2 DEF Flow, FirstOnly
  <1>8. x.kind \in {"buffer", "eos"}
    BY <1>3, <1>6, <1>7
  <1>9. /\ terminal[l].seg # timeline
        /\ \A y \in Items : \A m \in Nat : Lies(l, y, m) /\ m > k => y.seg # timeline
    BY <1>1 DEF Flow, FlushMet
  <1>10. Reached(l, Follow(l, x), k)
    BY <1>1, <1>2, <1>6, <1>8 DEF Flow, Gapless
  <1>11. PICK y \in Items, m \in Nat :
             m >= k /\ Lies(l, y, m) /\ y.seg = timeline /\ Nth(y) = Follow(l, x)
    BY <1>9, <1>10 DEF Reached
  <1>12. m = k
    BY <1>1, <1>9, <1>11
  <1>13. Nth(y) < Nth(x) /\ Nth(y) \in Int
    BY <1>3, <1>4, <1>8, <1>11 DEF Follow
  <1>14. Precedes(x, y)
    <2>1. y # x
      BY <1>3, <1>13
    <2> QED  BY <1>11, <1>12, <2>1
  <1> QED  BY <1>3, <1>6, <1>11, <1>13, <1>14 DEF Precedes

\* A queue loses what is at its place where no way is clear from there: the rest is in order.
LEMMA LosesFlow ==
    ASSUME Types, NEW w \in Workers, NEW p, Goes(w, p), tpc[w] # "push", p # "push", Flow(w[1]),
           ~Clear(w[1], 2 * w[2])',
           \A u \in Workers : u # w => channel'[u] = channel[u],
           Ascending(channel'[w]), \A x : Lies(w[1], x, 2 * w[2])' => Lies(w[1], x, 2 * w[2]),
           UNCHANGED <<hand, terminal, source, pad>>,
           \A u \in Of(w[1]) : flushing'[u] => flushing[u]
    PROVE  Flow(w[1])' /\ InOrder(w[1])
  <1> DEFINE l == w[1]
             k == 2 * w[2]
  <1>1. l \in Lines /\ w \in Of(l) /\ w \in Threads /\ k \in Nat
    BY ThreadsAre DEF Of
  <1>2. SameTime(l) /\ tpc'[w] = p /\ \A u \in Threads : u # w => tpc'[u] = tpc[u]
    BY GoesOnTime
  <1>3. Ascends(l)'
    <2>1. \A u \in Of(l) : u = w \/ channel'[u] = channel[u]
      BY <1>1, LineIs
    <2> QED  BY <1>1, <1>2, <2>1, AscendsBut
  <1>4. \A x, m : m # k => (Lies(l, x, m)' <=> Lies(l, x, m))
    <2>1. PICK K : K = {k}
      OBVIOUS
    <2>2. \A u \in Workers : u[1] = l => 2 * u[2] \in K \/ channel'[u] = channel[u]
      BY <2>1
    <2>3. \A u \in Threads : u[1] = l =>
              \/ 2 * u[2] + 1 \in K
              \/ /\ tpc'[u] = "push" <=> tpc[u] = "push"
                 /\ tpc[u] = "push" => hand'[u] = hand[u]
      BY <1>2
    <2>4. \A x, m : m \notin K => (Lies(l, x, m)' <=> Lies(l, x, m))
      BY <1>1, <2>2, <2>3, LiesElsewhere
    <2> QED  BY <2>1, <2>4
  <1>5. Stays(l)
    <2>1. \A x, m : Lies(l, x, m)' => Lies(l, x, m)
      BY <1>4
    <2>2. \A x, m : Lies(l, x, m) /\ Clear(l, m)' => Lies(l, x, m)'
      BY <1>4
    <2> QED  BY <1>2, <1>3, <2>1, <2>2 DEF Stays
  <1>6. Flow(l)'
    BY <1>1, <1>5, StaysFlow
  <1> QED  BY <1>6, NothingInOrder

\* A worker forwards what is first in its queue, or drops it.
LEMMA WorkerForwardsFlow ==
    ASSUME Types, Quiet, NEW w \in Workers, Flow(w[1]), WorkerForwards(w)
    PROVE  /\ Flow(w[1])' /\ InOrder(w[1])
           /\ ~Stale(w, Head(channel[w])) /\ IsLast(w) => Takes(w[1], Head(channel[w]))
           /\ Stale(w, Head(channel[w])) => ~Clear(w[1], 2 * w[2])
  <1> DEFINE l == w[1]
             k == 2 * w[2]
  <1>1. /\ l \in Lines /\ w \in Of(l) /\ w \in Threads /\ k \in Nat /\ w[2] \in Nat /\ Depth \in Nat
        /\ k <= 2 * Depth
    BY ThreadsAre DEF Of
  <1>2. PICK item : item = Head(channel[w])
    OBVIOUS
  <1>3. /\ tpc[w] = "select" /\ channel[w] # <<>> /\ channel' = [channel EXCEPT ![w] = Tail(@)]
        /\ flushing' = [flushing EXCEPT ![w] = Stale(w, item)]
        /\ UNCHANGED <<starts, todo, step, source, pad>>
    BY <1>2 DEF WorkerForwards, lock
  <1>4. /\ item \in ItemsTo(timeline) /\ item \in Items /\ Lies(l, item, k)
        /\ \A x : Lies(l, x, k)' <=> Lies(l, x, k) /\ x # item
        /\ \A x : Lies(l, x, k) /\ x # item => Precedes(item, x)
        /\ Ascending(channel'[w])
        /\ \A u \in Workers : u # w => channel'[u] = channel[u]
    BY <1>2, <1>3, PopIs
  <1>5. flushing \in [Workers -> BOOLEAN] /\ hand \in [Threads -> Items]
    BY DEF Types, QueueTypes, ItemTypes
  <1>6. /\ flushing'[w] <=> Stale(w, item)
        /\ \A u \in Workers : u # w => flushing'[u] = flushing[u]
    BY <1>3, <1>5
  <1>7. \A u \in Of(l) : u \in Workers /\ u \in Threads /\ u[1] = l /\ u[2] \in Int /\ u[2] > 0
                         /\ u[2] <= Depth
    BY <1>1, LineIs
  <1>8. ~FlushIsOut
    BY <1>3 DEF Quiet, Moving, FlushIsOut, Over
  <1>9. CASE Stale(w, item)
    <2>1. /\ tpc' = [tpc EXCEPT ![w] = "look"] /\ hand' = hand /\ terminal' = terminal
      BY <1>2, <1>9 DEF WorkerForwards, GoTo
    <2>2. Goes(w, "look")
      BY <1>1, <1>3, <2>1 DEF Goes, Over
    <2>3. ~Clear(l, k)
      BY <1>3, <1>4, <1>9, StaleIsBehind DEF Stale
    <2>4. ~Clear(l, k)'
      BY <1>1, <2>2, <2>3, GoesOnTime, TimeStays
    <2>5. \A u \in Of(l) : flushing'[u] => flushing[u]
      BY <1>6, <1>7, <1>9 DEF Stale
    <2>6. Flow(l)' /\ InOrder(l)
      BY <1>3, <1>4, <2>1, <2>2, <2>4, <2>5, LosesFlow
    <2> QED  BY <1>2, <1>9, <2>3, <2>6
  <1>10. ASSUME ~Stale(w, item)
         PROVE  \A u \in Of(l) : flushing'[u] => flushing[u] /\ u # w /\ u[2] # w[2]
    <2> SUFFICES ASSUME NEW u \in Of(l), flushing'[u]
                 PROVE  flushing[u] /\ u # w /\ u[2] # w[2]
      OBVIOUS
    <2>1. u # w
      BY <1>6, <1>10
    <2> QED  BY <1>6, <1>7, <2>1, Neighbours
  <1>11. ASSUME ~Stale(w, item), IsLast(w) PROVE Takes(l, item)
    <2>1. /\ tpc' = [tpc EXCEPT ![w] = "look"] /\ hand' = hand /\ Handed(l, item)
      BY <1>2, <1>11 DEF WorkerForwards, GoTo
    <2>2. Goes(w, "look")
      BY <1>1, <1>3, <2>1 DEF Goes, Over
    <2>3. SameTime(l) /\ tpc'[w] = "look" /\ \A u \in Threads : u # w => tpc'[u] = tpc[u]
      BY <2>2, GoesOnTime
    <2>4. k = 2 * Depth
      BY <1>11 DEF IsLast
    <2>5. Ascends(l)'
      <3>1. \A u \in Of(l) : u = w \/ channel'[u] = channel[u]
        BY <1>4, <1>7
      <3> QED  BY <1>1, <1>4, <2>3, <3>1, AscendsBut
    <2>6. \A x, m : m # k => (Lies(l, x, m)' <=> Lies(l, x, m))
      <3>1. PICK K : K = {k}
        OBVIOUS
      <3>2. \A u \in Workers : u[1] = l => 2 * u[2] \in K \/ channel'[u] = channel[u]
        BY <1>4, <3>1
      <3>3. \A u \in Threads : u[1] = l =>
                \/ 2 * u[2] + 1 \in K
                \/ /\ tpc'[u] = "push" <=> tpc[u] = "push"
                   /\ tpc[u] = "push" => hand'[u] = hand[u]
        BY <1>3, <2>1, <2>3
      <3>4. \A x, m : m \notin K => (Lies(l, x, m)' <=> Lies(l, x, m))
        BY <1>1, <3>2, <3>3, LiesElsewhere
      <3> QED  BY <3>1, <3>4
    <2>7. Clear(l, 2 * Depth)
      <3> SUFFICES ASSUME NEW u \in Of(l), 2 * u[2] >= 2 * Depth PROVE tpc[u] \notin Over
        BY DEF Clear
      <3>1. u[2] = w[2]
        BY <1>1, <1>7, <2>4
      <3>2. u = w
        BY <1>7, <3>1, Neighbours
      <3> QED  BY <1>3, <3>2 DEF Over
    <2>8. \A u \in Of(l) : flushing'[u] => flushing[u] /\ 2 * u[2] < 2 * Depth
      BY <1>1, <1>7, <1>10, <1>11, <2>4
    <2>9. IF item.kind = "buffer"
          THEN /\ terminal'[l].at = item.at /\ terminal'[l].from = item.seg
               /\ terminal'[l].seg = terminal[l].seg /\ terminal'[l].ended = terminal[l].ended
          ELSE IF item.kind = "eos"
          THEN /\ terminal'[l].at = terminal[l].at /\ terminal'[l].from = terminal[l].from
               /\ terminal'[l].seg = terminal[l].seg /\ terminal'[l].ended = TRUE
          ELSE /\ terminal'[l].at = starts[item.seg] /\ terminal'[l].from = item.seg
               /\ terminal'[l].seg = item.seg /\ terminal'[l].ended = FALSE
      <3>1. terminal \in [Lines -> [seg : 0..timeline, from : 0..timeline, at : 0..Length,
                                    ended : BOOLEAN, heard : BOOLEAN]]
        BY DEF Types, TerminalTypes
      <3>2. CASE item.kind = "buffer"
        <4>1. terminal' = [terminal EXCEPT ![l].at = item.at, ![l].from = item.seg]
          BY <2>1, <3>2 DEF Handed
        <4>2. terminal'[l] = [terminal[l] EXCEPT !.at = item.at, !.from = item.seg]
          BY <1>1, <3>1, <4>1
        <4> QED  BY <1>1, <3>1, <3>2, <4>2
      <3>3. CASE item.kind = "eos"
        <4>1. terminal' = [terminal EXCEPT ![l].ended = TRUE]
          BY <2>1, <3>3 DEF Handed
        <4>2. terminal'[l] = [terminal[l] EXCEPT !.ended = TRUE]
          BY <1>1, <3>1, <4>1
        <4> QED  BY <1>1, <3>1, <3>3, <4>2
      <3>4. CASE item.kind \notin {"buffer", "eos"}
        <4>1. terminal' = [terminal EXCEPT ![l].seg = item.seg, ![l].from = item.seg,
                                           ![l].at = starts[item.seg], ![l].ended = FALSE]
          BY <2>1, <3>4 DEF Handed
        <4>2. terminal'[l] = [terminal[l] EXCEPT !.seg = item.seg, !.from = item.seg,
                                                 !.at = starts[item.seg], !.ended = FALSE]
          BY <1>1, <3>1, <4>1
        <4>3. PICK no \in BOOLEAN : no = FALSE
          OBVIOUS
        <4>4. PICK at : at = starts[item.seg]
          OBVIOUS
        <4>5. terminal'[l] = [terminal[l] EXCEPT !.seg = item.seg, !.from = item.seg,
                                                 !.at = at, !.ended = no]
          BY <4>2, <4>3, <4>4
        <4>6. /\ terminal'[l].at = at /\ terminal'[l].from = item.seg
              /\ terminal'[l].seg = item.seg /\ terminal'[l].ended = no
          BY <1>1, <3>1, <4>5
        <4> QED  BY <3>4, <4>3, <4>4, <4>6
      <3> QED  BY <3>2, <3>3, <3>4
    <2>10. \A x, m : Lies(l, x, m)' <=> Lies(l, x, m) /\ ~(x = item /\ m = 2 * Depth)
      BY <1>4, <2>4, <2>6
    <2> QED  BY <1>3, <1>4, <1>8, <2>3, <2>4, <2>5, <2>7, <2>8, <2>9, <2>10 DEF Takes
  <1>12. CASE ~Stale(w, item) /\ ~IsLast(w)
    <2>1. /\ tpc' = [tpc EXCEPT ![w] = "push"] /\ hand' = [hand EXCEPT ![w] = item]
          /\ terminal' = terminal
      BY <1>2, <1>12 DEF WorkerForwards, GoTo
    <2>2. Goes(w, "push")
      BY <1>1, <1>3, <2>1 DEF Goes, Over
    <2>3. SameTime(l) /\ tpc'[w] = "push" /\ \A u \in Threads : u # w => tpc'[u] = tpc[u]
      BY <2>2, GoesOnTime
    <2>4. hand'[w] = item /\ \A u \in Threads : u # w => hand'[u] = hand[u]
      BY <1>1, <1>5, <2>1
    <2>5. Ascends(l)'
      <3>1. \A u \in Of(l) : u = w \/ channel'[u] = channel[u]
        BY <1>4, <1>7
      <3> QED  BY <1>1, <1>4, <2>3, <3>1, AscendsBut
    <2>6. \A x, m : m # k /\ m # k + 1 => (Lies(l, x, m)' <=> Lies(l, x, m))
      <3>1. PICK K : K = {k, k + 1}
        OBVIOUS
      <3>2. \A u \in Workers : u[1] = l => 2 * u[2] \in K \/ channel'[u] = channel[u]
        BY <1>4, <3>1
      <3>3. \A u \in Threads : u[1] = l =>
                \/ 2 * u[2] + 1 \in K
                \/ /\ tpc'[u] = "push" <=> tpc[u] = "push"
                   /\ tpc[u] = "push" => hand'[u] = hand[u]
        BY <2>3, <2>4, <3>1
      <3>4. \A x, m : m \notin K => (Lies(l, x, m)' <=> Lies(l, x, m))
        BY <1>1, <3>2, <3>3, LiesElsewhere
      <3> QED  BY <3>1, <3>4
    <2>7. \A x : ~Lies(l, x, k + 1)
      <3>1. \A x : Lies(w[1], x, 2 * w[2] + 1) <=> tpc[w] = "push" /\ x = hand[w]
        BY <1>1, LiesIs
      <3> QED  BY <1>3, <3>1
    <2>8. \A x : Lies(l, x, k + 1)' <=> x = item
      <3>1. ASSUME NEW u \in Threads, u[1] = l, k + 1 = 2 * u[2] + 1 PROVE u = w
        <4>1. u[2] = w[2]
          BY <1>1, <3>1, ThreadsAre
        <4>2. u = <<u[1], u[2]>> /\ w = <<w[1], w[2]>>
          BY DEF Threads, Sources, Workers
        <4> QED  BY <3>1, <4>1, <4>2
      <3>2. \A u \in Workers : k + 1 # 2 * u[2]
        BY <1>1, ThreadsAre
      <3>3. w \in Threads /\ w[1] = l /\ k + 1 = 2 * w[2] + 1
        BY <1>1
      <3> HIDE DEF k, l
      <3> QED  BY <2>3, <2>4, <3>1, <3>2, <3>3 DEF Lies
    <2>9. Clear(l, k + 1)' => Clear(l, k)'
      <3> SUFFICES ASSUME Clear(l, k + 1)', NEW u \in Of(l), 2 * u[2] >= k PROVE tpc'[u] \notin Over
        BY DEF Clear
      <3>1. CASE u = w
        BY <2>3, <3>1 DEF Over
      <3>2. CASE u # w
        <4>1. u[2] # w[2]
          BY <1>7, <3>2, Neighbours
        <4>2. 2 * u[2] >= k + 1
          BY <1>1, <1>7, <4>1
        <4> QED  BY <4>2 DEF Clear
      <3> QED  BY <3>1, <3>2
    <2>10. \A u \in Of(l) : flushing'[u] => flushing[u] /\ 2 * u[2] # k
      BY <1>1, <1>7, <1>10, <1>12
    <2>11. Moves(l, item, k)
      <3>1. \A x, m : Lies(l, x, m)' <=> (Lies(l, x, m) /\ ~(x = item /\ m = k))
                                          \/ (x = item /\ m = k + 1)
        <4> TAKE x, m
        <4>1. k # k + 1
          BY <1>1
        <4>2. CASE m = k
          BY <1>4, <4>1, <4>2
        <4>3. CASE m = k + 1
          BY <2>7, <2>8, <4>1, <4>3
        <4>4. CASE m # k /\ m # k + 1
          BY <2>6, <4>4
        <4> QED  BY <4>2, <4>3, <4>4
      <3> QED  BY <1>1, <1>3, <1>4, <2>1, <2>3, <2>5, <2>9, <2>10, <3>1 DEF Moves
    <2>12. Flow(l)'
      BY <1>1, <2>11, MovesFlow
    <2>13. InOrder(l)
      BY <2>1, NothingInOrder
    <2> QED  BY <1>2, <1>12, <2>12, <2>13
  <1>13. Flow(l)' /\ InOrder(l)
    BY <1>1, <1>9, <1>11, <1>12, TakesFlow, TakesInOrder
  <1>14. Stale(w, item) => ~Clear(l, k)
    BY <1>2, <1>9
  <1> QED  BY <1>2, <1>11, <1>13, <1>14

-----------------------------------------------------------------------------
(* What each step of a thread leaves of it.                                *)

\* A seek is asked for by a stage of its own, and waited for.
LEMMA AskedFor ==
    ASSUME Known, NEW t \in Threads, control[t] # <<>>
    PROVE  /\ Head(control[t]).msg \in {"Flush", "Seek"} =>
                  Seekable /\ Out(Head(control[t]).msg) /\ t \in waiting
           /\ t \in Sources /\ Seekable => Out(Head(control[t]).msg) /\ t \in waiting
           /\ Seekable /\ Head(control[t]).direct => Out(Head(control[t]).msg) /\ t \in waiting
           /\ Seekable /\ ~Head(control[t]).direct =>
                  Head(control[t]).msg = "Stop" /\ t \in Workers /\ tpc[Source(t[1])] = "carrying"
  <1>1. control[t] \in Seq([msg : StageNames, direct : BOOLEAN])
    BY DEF Known, Types, RequestTypes
  <1>2. PICK q \in Seq([msg : StageNames, direct : BOOLEAN]) : q = control[t] /\ q # <<>>
    BY <1>1
  <1>3. Len(q) \in Nat /\ Len(q) > 0 /\ Head(q) = q[1] /\ 1 \in 1 .. Len(q)
    BY <1>2, HeadOf
  <1>4. ASSUME ~Seekable PROVE Head(q).msg \notin {"Flush", "Seek"}
    BY <1>2, <1>3, <1>4 DEF Known, NoSeek
  <1>5. ASSUME Seekable
        PROVE  /\ Head(q).direct => Out(Head(q).msg) /\ t \in waiting
               /\ ~Head(q).direct => Head(q).msg = "Stop" /\ t \in owing
    BY <1>2, <1>3, <1>5 DEF Known, Protocol, ControlIs
  <1>6. ASSUME Seekable, t \in owing
        PROVE  t \in Workers /\ tpc[Source(t[1])] = "carrying"
    BY <1>6 DEF Known, Protocol, Carrying, Types, RequestTypes
  <1>7. t \in Sources => t \notin Workers
    BY ThreadsAre
  <1> QED  BY <1>2, <1>4, <1>5, <1>6, <1>7

\* Only sources that can be sought are moved.
LEMMA MovingIs == Known /\ Moving => Seekable
  <1> SUFFICES ASSUME Known, Moving, ~Seekable PROVE FALSE
    OBVIOUS
  <1>1. NoSeek
    BY DEF Known
  <1>2. todo # <<>> /\ todo[1] = "Preroll"
    BY <1>1 DEF NoSeek, Moving
  <1>3. \A s \in ToStop \cup ToFinish \cup {<<"Pause">>, <<"Resume">>} : s[1] # "Preroll"
    BY DEF ToStop, ToFinish
  <1> QED  BY <1>1, <1>2, <1>3 DEF NoSeek

\* A timeline the source has yet to begin is a seek's, which finds it paused.
LEMMA RenewingIs ==
    ASSUME Known, Quiet, NEW l \in Lines, Renewing(l)
    PROVE  /\ Seekable /\ todo # <<>> /\ todo[1] \in {"Flush", "Seek"}
           /\ phase = "paused" /\ Holds
           /\ tpc[Source(l)] \in {"paused", "dropping", "joining", "done"}
           /\ \A w \in Workers : tpc[w] \in Over \cup {"paused"}
  <1>1. todo # <<>> /\ todo[1] \in {"Flush", "Seek"}
    BY DEF Renewing
  <1>2. Seekable
    BY <1>1 DEF Known, NoSeek
  <1> QED  BY <1>1, <1>2, ThreadsAre DEF Quiet, Moving, Holds

\* A source that works is on the timeline, and what it makes passes its pad.
LEMMA SourceWorks ==
    ASSUME Known, Quiet, NEW l \in Lines, SourceIs(l),
           tpc[Source(l)] \notin {"paused"} \cup Left
    PROVE  /\ ~Renewing(l) /\ ~pad[l].flushing
           /\ tpc[Source(l)] # "begin" => source[l].seg = timeline
           /\ tpc[Source(l)] \notin {"linger", "finishing"} => ~pad[l].ended
  <1>1. ~Renewing(l)
    BY RenewingIs DEF Left
  <1> QED  BY <1>1 DEF SourceIs

\* A source begins, and its line is in order.
LEMMA SourceBeginsFlow ==
    ASSUME Known, Quiet, NEW l \in Lines, Flow(l), SourceIs(l), SourceBegins(l)
    PROVE  Flow(l)' /\ InOrder(l)
  <1>1. Types
    BY DEF Known
  <1>2. /\ tpc[Source(l)] = "begin" /\ tpc' = [tpc EXCEPT ![Source(l)] = "ask"]
        /\ channel' = Pushed(After(Source(l)), Segment(timeline, FALSE))
        /\ source' = [source EXCEPT ![l].seg = timeline]
        /\ UNCHANGED <<starts, todo, step, hand, flushing, terminal, pad>>
    BY DEF SourceBegins, GoTo, lock, playback
  <1>3. Goes(Source(l), "ask")
    BY <1>2, ThreadsAre DEF Goes
  <1>4. Segment(timeline, FALSE) \in ItemsTo(timeline) /\ timeline \in Nat
    BY <1>1, MadeTypes
  <1>5. timeline = 1 /\ source[l].seg = 0 /\ source[l].pos = starts[1]
    BY <1>2 DEF SourceIs
  <1>6. source'[l].seg = timeline /\ source'[l].pos = source[l].pos
    BY <1>1, <1>2 DEF Types, SourceTypes
  <1>7. PICK item \in {Segment(timeline, FALSE)} :
            item = Segment(timeline, FALSE) /\ item.kind = "segment" /\ item.seg = timeline
    BY DEF Segment
  <1>8. Brings(l, item)
    <2>1. source[l].seg < timeline /\ source'[l].pos = starts[timeline] /\ timeline = 1
      BY <1>5, <1>6
    <2>2. item \in ItemsTo(timeline) /\ item.seg = timeline /\ source'[l].seg = timeline
      BY <1>4, <1>6, <1>7
    <2>3. item.kind \notin {"buffer", "eos"}
      BY <1>7
    <2> QED  BY <2>1, <2>2, <2>3 DEF Brings
  <1> QED  BY <1>1, <1>2, <1>3, <1>7, <1>8, PushesFlow

\* A sample more, or the end of what there is.
LEMMA SourceProducesFlow ==
    ASSUME Known, Quiet, NEW l \in Lines, Flow(l), SourceIs(l), SourceProduces(l)
    PROVE  Flow(l)' /\ InOrder(l)
  <1>1. Types /\ source \in [Lines -> [pos : 0..Length, seg : 0..timeline, sought : BOOLEAN]]
    BY DEF Known, Types, SourceTypes
  <1>2. /\ tpc[Source(l)] = "ask"
        /\ UNCHANGED <<starts, todo, step, channel, flushing, terminal, pad>>
    BY DEF SourceProduces, lock, playback, queues
  <1>3. source[l].seg = timeline /\ ~pad[l].ended
    BY <1>2, SourceWorks DEF Left
  <1>4. CASE HasMore(l)
    <2>1. PICK at : at = source[l].pos + 1
      OBVIOUS
    <2>2. /\ hand' = [hand EXCEPT ![Source(l)] = Buffer(source[l].seg, at)]
          /\ source' = [source EXCEPT ![l].pos = at]
          /\ tpc' = [tpc EXCEPT ![Source(l)] = "push"]
      BY <1>4, <2>1 DEF SourceProduces, GoTo
    <2>3. source[l].pos \in 0..Length /\ Length \in Nat /\ at \in 0..Length
      BY <1>1, <1>4, <2>1, SizesAssumption DEF HasMore
    <2>4. source'[l].seg = timeline /\ source'[l].pos = at
      BY <1>1, <1>3, <2>2
    <2>5. PICK item \in {Buffer(timeline, at)} :
              item = Buffer(timeline, at) /\ item.kind = "buffer" /\ item.seg = timeline
              /\ item.at = at
      BY DEF Buffer
    <2>6. item \in ItemsTo(timeline)
      BY <1>1, <2>3, <2>5, MadeTypes
    <2>7. Brings(l, item)
      BY <1>3, <2>1, <2>4, <2>5, <2>6 DEF Brings
    <2>8. Goes(Source(l), "push")
      BY <1>2, <2>2, ThreadsAre DEF Goes
    <2> QED  BY <1>1, <1>2, <1>3, <2>2, <2>5, <2>7, <2>8, ProducesFlow
  <1>5. CASE ~HasMore(l)
    <2>1. /\ hand' = hand /\ source' = [source EXCEPT ![l].sought = FALSE]
          /\ tpc' = [tpc EXCEPT ![Source(l)] = "ending"]
      BY <1>5 DEF SourceProduces, GoTo
    <2>2. source'[l].seg = source[l].seg /\ source'[l].pos = source[l].pos
      BY <1>1, <2>1
    <2>3. Goes(Source(l), "ending") /\ Source(l)[1] = l
      BY <1>2, <2>1, ThreadsAre DEF Goes
    <2> QED  BY <1>1, <1>2, <2>1, <2>2, <2>3, IdlesFlow
  <1> QED  BY <1>4, <1>5

\* What it has made goes on.
LEMMA SourceHandsOnFlow ==
    ASSUME Known, Quiet, NEW l \in Lines, Flow(l), SourceIs(l), SourceHandsOn(l)
    PROVE  Flow(l)' /\ InOrder(l)
  <1>1. Types
    BY DEF Known
  <1>2. /\ tpc[Source(l)] = "push" /\ tpc' = [tpc EXCEPT ![Source(l)] = "ask"]
        /\ hand' = [hand EXCEPT ![Source(l)] = NoItem]
        /\ channel' = IF pad[l].flushing THEN channel ELSE Pushed(After(Source(l)), hand[Source(l)])
        /\ UNCHANGED <<starts, todo, step, flushing, terminal, source>>
    BY DEF SourceHandsOn, GoTo, lock, playback
  <1>3. ~pad[l].flushing /\ ~pad[l].ended
    BY <1>2, SourceWorks DEF Left
  <1>4. Goes(Source(l), "ask") /\ Source(l)[1] = l
    BY <1>2, ThreadsAre DEF Goes
  <1> QED  BY <1>1, <1>2, <1>3, <1>4, HandsOnFlow

\* The end of what it has made, once.
LEMMA EndFlow ==
    ASSUME Known, Quiet, NEW l \in Lines, Flow(l), SourceIs(l), NEW p, Goes(Source(l), p),
           tpc[Source(l)] \in {"ending", "finishing"}, p # "push",
           channel' = EndPushed(l), pad' = [pad EXCEPT ![l].ended = @ \/ PadPasses(l)],
           source'[l].seg = source[l].seg, source'[l].pos = source[l].pos,
           UNCHANGED <<hand, flushing, terminal>>
    PROVE  Flow(l)' /\ InOrder(l)
  <1>1. Types /\ pad \in [Lines -> [flushing : BOOLEAN, ended : BOOLEAN]]
        /\ Source(l)[1] = l
    BY ThreadsAre DEF Known, Types, SourceTypes
  <1>2. source[l].seg = timeline /\ ~pad[l].flushing
    BY SourceWorks DEF Left
  <1>3. pad'[l].ended <=> pad[l].ended \/ PadPasses(l)
    <2>1. PICK en \in BOOLEAN : en = (pad[l].ended \/ PadPasses(l))
      OBVIOUS
    <2>2. pad' = [pad EXCEPT ![l].ended = en]
      BY <2>1, Zenon
    <2>3. pad'[l].ended = en
      BY <1>1, <2>2
    <2> QED  BY <2>1, <2>3
  <1>4. CASE PadPasses(l)
    <2>1. channel' = Pushed(After(Source(l)), Eos(source[l].seg))
      BY <1>4 DEF EndPushed
    <2>2. PICK item \in {Eos(timeline)} :
              item = Eos(timeline) /\ item.kind = "eos" /\ item.seg = timeline
      BY DEF Eos
    <2>3. item \in ItemsTo(timeline)
      BY <1>1, <2>2, MadeTypes
    <2>4. ~pad[l].ended
      BY <1>4 DEF PadPasses
    <2>5. Brings(l, item)
      BY <1>2, <1>3, <1>4, <2>2, <2>3, <2>4 DEF Brings
    <2> QED  BY <1>1, <1>2, <2>1, <2>2, <2>5, PushesFlow
  <1>5. CASE ~PadPasses(l)
    <2>1. channel' = channel
      BY <1>5 DEF EndPushed
    <2> QED  BY <1>1, <1>3, <2>1, IdlesFlow
  <1> QED  BY <1>4, <1>5

\* A source hands its end on, or finds it handed on already.
LEMMA SourceEndsFlow ==
    ASSUME Known, Quiet, NEW l \in Lines, Flow(l), SourceIs(l), SourceEnds(l) \/ SourceFinished(l)
    PROVE  Flow(l)' /\ InOrder(l)
  <1>1. Types /\ source \in [Lines -> [pos : 0..Length, seg : 0..timeline, sought : BOOLEAN]]
    BY DEF Known, Types, SourceTypes
  <1>2. PICK p \in {"linger", "returning"} :
            /\ tpc[Source(l)] \in {"ending", "finishing"}
            /\ tpc' = [tpc EXCEPT ![Source(l)] = p]
            /\ channel' = EndPushed(l) /\ pad' = [pad EXCEPT ![l].ended = @ \/ PadPasses(l)]
            /\ source' = source \/ source' = [source EXCEPT ![l].sought = FALSE]
            /\ UNCHANGED <<starts, todo, step, hand, flushing, terminal>>
    BY DEF SourceEnds, SourceFinished, GoTo, lock, playback
  <1>3. source'[l].seg = source[l].seg /\ source'[l].pos = source[l].pos
    BY <1>1, <1>2
  <1>4. Goes(Source(l), p)
    BY <1>2, ThreadsAre DEF Goes
  <1> QED  BY <1>2, <1>3, <1>4, EndFlow

\* A request changes what the source goes on with: behind a Seek its line begins anew.
LEMMA SourceTakesFlow ==
    ASSUME Known, Quiet, NEW l \in Lines, Flow(l), SourceIs(l), SourceTakes(l)
    PROVE  Flow(l)' /\ InOrder(l)
  <1>1. /\ Types /\ source \in [Lines -> [pos : 0..Length, seg : 0..timeline, sought : BOOLEAN]]
        /\ pad \in [Lines -> [flushing : BOOLEAN, ended : BOOLEAN]]
        /\ Source(l) \in Threads /\ Source(l)[1] = l
    BY ThreadsAre DEF Known, Types, SourceTypes
  <1>2. PICK msg : msg = Head(control[Source(l)]).msg
    OBVIOUS
  <1>3. /\ tpc[Source(l)] \in {"ask", "ending", "linger", "paused"} /\ control[Source(l)] # <<>>
        /\ SourceNext(l, msg)
        /\ UNCHANGED <<starts, todo, step, hand, flushing, terminal>>
    BY <1>2 DEF SourceTakes, lock, playback
  <1>4. PICK p \in {"ask", "ending", "linger", "paused", "returning"} :
            tpc' = [tpc EXCEPT ![Source(l)] = p]
    BY <1>1, <1>3, SourceNextIs
  <1>5. Goes(Source(l), p)
    BY <1>1, <1>3, <1>4, ThreadsAre DEF Goes
  <1>6. CASE msg = "Seek"
    <2>1. /\ source' = [source EXCEPT ![l] =
                            [pos |-> starts[timeline], seg |-> timeline, sought |-> TRUE]]
          /\ channel' = Pushed(After(Source(l)), Segment(timeline, TRUE))
      BY <1>2, <1>6 DEF SourceTakes
    <2>2. Renewing(l)
      <3>1. Out("Seek") /\ Source(l) \in waiting
        BY <1>1, <1>2, <1>3, <1>6, AskedFor
      <3> QED  BY <3>1 DEF Renewing, Out
    <2>3. source[l].seg < timeline
      BY <2>2 DEF SourceIs
    <2>4. source'[l].seg = timeline /\ source'[l].pos = starts[timeline]
      BY <1>1, <2>1
    <2>5. PICK item \in {Segment(timeline, TRUE)} :
              item = Segment(timeline, TRUE) /\ item.kind = "flushedSegment" /\ item.seg = timeline
      BY DEF Segment
    <2>6. item \in ItemsTo(timeline)
      BY <1>1, <2>5, MadeTypes
    <2>7. Brings(l, item)
      BY <2>3, <2>4, <2>5, <2>6 DEF Brings
    <2> QED  BY <1>1, <1>3, <1>5, <2>1, <2>5, <2>7, PushesFlow
  <1>7. CASE msg # "Seek"
    <2>1. /\ UNCHANGED <<source, channel>>
          /\ pad' = [pad EXCEPT ![l].flushing = @ \/ msg = "Flush"]
      BY <1>2, <1>7 DEF SourceTakes
    <2>2. pad'[l].ended = pad[l].ended
      <3>1. PICK fl \in BOOLEAN : fl = (pad[l].flushing \/ msg = "Flush")
        OBVIOUS
      <3>2. pad' = [pad EXCEPT ![l].flushing = fl]
        BY <2>1, <3>1, Zenon
      <3> QED  BY <1>1, <3>2
    <2> QED  BY <1>1, <1>3, <1>5, <2>1, <2>2, IdlesFlow
  <1> QED  BY <1>6, <1>7

\* What a source does else moves nothing.
LEMMA SourceIdlesFlow ==
    ASSUME Known, NEW l \in Lines, Flow(l),
           \/ SourceFinishes(l) \/ SourceFails(l) \/ SourceCarried(l) \/ SourceReturns(l)
           \/ DropsReceiver(l) \/ SourceDrops(l) \/ SourceJoins(l)
    PROVE  Flow(l)' /\ InOrder(l)
  <1>1. Types /\ Source(l) \in Threads /\ Source(l)[1] = l /\ Source(l) \notin Workers
    BY ThreadsAre DEF Known
  <1>2. PICK p \in {"returning", "finishing", "carrying", "returned", "dropping", "joining",
                    "done"} : tpc' = [tpc EXCEPT ![Source(l)] = p]
    BY DEF SourceFinishes, SourceFails, SourceCarried, SourceReturns, DropsReceiver, SourceDrops,
           SourceJoins, GoTo, DropsQueue
  <1>3. tpc[Source(l)] # "push"
    BY DEF SourceFinishes, SourceFails, SourceCarried, SourceReturns, DropsReceiver, SourceDrops,
           SourceJoins
  <1>4. UNCHANGED <<starts, todo, step, channel, hand, flushing, terminal, source, pad>>
    BY DEF SourceFinishes, SourceFails, SourceCarried, SourceReturns, DropsReceiver, SourceDrops,
           SourceJoins, DropsQueue, lock, playback, queues, ends
  <1>5. Goes(Source(l), p)
    BY <1>1, <1>2, <1>4 DEF Goes
  <1> QED  BY <1>1, <1>3, <1>4, <1>5, IdlesFlow

\* A worker goes on to its next place.
LEMMA WorkerGoes ==
    ASSUME Types, NEW w \in Workers, WorkerThread(w)
    PROVE  \E p \in WorkerPlaces :
               /\ Goes(w, p)
               /\ p = "push" => WorkerForwards(w)
               /\ p = "paused" => WorkerTakes(w)
  <1>1. w \in Threads /\ w \in Workers
    BY ThreadsAre
  <1>2. UNCHANGED <<starts, todo, step>>
    BY DEF WorkerThread, WorkerLooks, WorkerLooksAgain, WorkerForwards, WorkerHandsOn,
           WorkerTakes, WorkerCarries, WorkerCarried, DeliverPending, WorkerDrops, WorkerDone,
           playback, lock
  <1>3. \E p \in WorkerPlaces :
            /\ tpc' = [tpc EXCEPT ![w] = p]
            /\ p = "push" => WorkerForwards(w)
            /\ p = "paused" => WorkerTakes(w)
            /\ tpc[w] \in Over => p \in Over
    <2>1. {"look", "select", "push", "paused", "carrying", "ending", "joining", "done"}
              = WorkerPlaces
      BY DEF WorkerPlaces
    <2>2. CASE WorkerLooks(w)
      BY <2>1, <2>2 DEF WorkerLooks, GoTo, Over
    <2>3. CASE WorkerLooksAgain(w) \/ WorkerHandsOn(w)
      BY <2>1, <2>3 DEF WorkerLooksAgain, WorkerHandsOn, GoTo, Over
    <2>4. CASE WorkerForwards(w)
      BY <2>1, <2>4 DEF WorkerForwards, GoTo, Over
    <2>5. CASE WorkerTakes(w)
      <3>1. WorkerNext(w, Head(control[w]).msg) /\ tpc[w] \notin Over
        BY <2>5 DEF WorkerTakes, Over
      <3>2. \E p \in {"look", "paused", "ending"} : tpc' = [tpc EXCEPT ![w] = p]
        BY <3>1, WorkerNextIs
      <3> QED  BY <2>1, <2>5, <3>1, <3>2
    <2>6. CASE WorkerCarries(w)
      BY <2>1, <2>6 DEF WorkerCarries, GoTo, Over
    <2>7. CASE WorkerCarried(w) \/ DeliverPending(w)
      BY <2>1, <2>7 DEF WorkerCarried, DeliverPending, GivesUp, GoTo, Over
    <2>8. CASE WorkerDrops(w)
      BY <2>1, <2>8 DEF WorkerDrops, DropsQueue, GoTo, Over
    <2>9. CASE WorkerDone(w)
      BY <2>1, <2>9 DEF WorkerDone, GoTo, Over
    <2> QED  BY <2>2, <2>3, <2>4, <2>5, <2>6, <2>7, <2>8, <2>9 DEF WorkerThread
  <1> QED  BY <1>1, <1>2, <1>3 DEF Goes

\* What a terminal hears is handed to it beside its samples.
LEMMA HeardKeeps ==
    ASSUME Types, NEW w \in Workers, NEW msgs, terminal' = Heard(w, msgs)
    PROVE  \A l \in Lines :
               /\ terminal'[l].seg = terminal[l].seg /\ terminal'[l].at = terminal[l].at
               /\ terminal'[l].from = terminal[l].from /\ terminal'[l].ended = terminal[l].ended
  <1>1. terminal \in [Lines -> [seg : 0..timeline, from : 0..timeline, at : 0..Length,
                                ended : BOOLEAN, heard : BOOLEAN]]
    BY DEF Types, TerminalTypes
  <1>2. CASE terminal' = terminal
    BY <1>2
  <1>3. CASE terminal' # terminal
    <2>1. PICK yes \in BOOLEAN : yes = TRUE
      OBVIOUS
    <2>2. terminal' = [terminal EXCEPT ![w[1]].heard = TRUE]
      BY <1>3 DEF Heard
    <2>3. terminal' = [terminal EXCEPT ![w[1]].heard = yes]
      BY <2>1, <2>2
    <2> QED  BY <1>1, <2>3
  <1> QED  BY <1>2, <1>3

\* A worker done, what it had of its line is gone.
LEMMA WorkerDoneFlow ==
    ASSUME Types, NEW w \in Workers, Flow(w[1]), WorkerDone(w)
    PROVE  Flow(w[1])' /\ InOrder(w[1])
  <1>1. w \in Threads /\ w[1] \in Lines /\ w \in Of(w[1]) /\ w[2] \in Int
    BY ThreadsAre DEF Of
  <1>2. PICK p \in WorkerPlaces : Goes(w, p) /\ (p = "push" => WorkerForwards(w))
    BY WorkerGoes DEF WorkerThread
  <1>3. /\ tpc[w] \in {"ending", "joining"} /\ tpc' = [tpc EXCEPT ![w] = "done"]
        /\ channel' = [channel EXCEPT ![w] = <<>>]
        /\ UNCHANGED <<hand, terminal, source, pad, flushing>>
    BY DEF WorkerDone, GoTo, ends
  <1>4. p = "done" /\ tpc'[w] = "done"
    BY <1>1, <1>2, <1>3 DEF Goes, Types, ThreadTypes
  <1>5. ~Clear(w[1], 2 * w[2])'
    BY <1>1, <1>4 DEF Clear, Over
  <1>6. channel'[w] = <<>> /\ \A u \in Workers : u # w => channel'[u] = channel[u]
    BY <1>3 DEF Types, ItemTypes
  <1>7. Ascending(channel'[w])
    BY <1>6 DEF Ascending
  <1>8. \A x : Lies(w[1], x, 2 * w[2])' => Lies(w[1], x, 2 * w[2])
    <2>1. \A x : Lies(w[1], x, 2 * w[2])' <=> x \in ItemsOf(channel'[w])
      BY QueueIs
    <2>2. ItemsOf(channel'[w]) = {}
      BY <1>6 DEF ItemsOf
    <2> QED  BY <2>1, <2>2
  <1> QED  BY <1>1, <1>2, <1>3, <1>4, <1>5, <1>6, <1>7, <1>8, LosesFlow

\* A queue flushed is empty, and its source has yet to begin the timeline.
LEMMA FlushedFlow ==
    ASSUME Known, Types', Quiet, NEW w \in Workers, Flow(w[1]), SourceIs(w[1]),
           WorkerTakes(w), Head(control[w]).msg = "Flush"
    PROVE  Flow(w[1])' /\ InOrder(w[1])
  <1> DEFINE l == w[1]
  <1>1. Types /\ w \in Threads /\ l \in Lines /\ w \in Of(l)
    BY ThreadsAre DEF Known, Of
  <1>2. PICK p \in WorkerPlaces : Goes(w, p) /\ (p = "push" => WorkerForwards(w))
    BY <1>1, WorkerGoes DEF WorkerThread
  <1>3. /\ control[w] # <<>> /\ channel' = [channel EXCEPT ![w] = <<>>]
        /\ tpc[w] \in {"look", "select", "paused"}
        /\ terminal' = Heard(w, {Head(control[w]).msg})
        /\ UNCHANGED <<starts, todo, step, hand, source, pad>>
    BY DEF WorkerTakes, playback, lock
  <1>4. Out("Flush")
    BY <1>1, <1>3, AskedFor
  <1>5. FlushIsOut /\ FlushIsOut' /\ Renewing(l)
    BY <1>3, <1>4 DEF Out, FlushIsOut, Renewing
  <1>6. source[l].seg < timeline /\ timeline' = timeline
    BY <1>3, <1>5 DEF SourceIs, timeline
  <1>7. timeline # 1
    <2>1. tpc[Source(l)] # "begin"
      BY <1>1, <1>5, RenewingIs
    <2>2. source[l].seg \in 0 .. timeline /\ source[l].seg # 0 /\ timeline \in Nat
      BY <1>1, <2>1 DEF Types, PlayTypes, SourceTypes
    <2> QED  BY <1>6, <2>2
  <1>8. channel'[w] = <<>> /\ \A u \in Workers : u # w => channel'[u] = channel[u]
    BY <1>1, <1>3 DEF Types, ItemTypes
  <1>9. SameTime(l) /\ tpc'[w] = p /\ \A u \in Threads : u # w => tpc'[u] = tpc[u]
    BY <1>1, <1>2, GoesOnTime
  <1>10. Ascends(l)'
    <2>1. Ascending(channel'[w])
      BY <1>8 DEF Ascending
    <2>2. \A u \in Of(l) : u = w \/ channel'[u] = channel[u]
      BY <1>1, <1>8, LineIs
    <2> QED  BY <1>1, <1>9, <2>1, <2>2, AscendsBut
  <1>11. \A x, k : Lies(l, x, k)' => Lies(l, x, k)
    <2>1. tpc'[w] # "push" /\ tpc[w] # "push"
      <3>1. WorkerNext(w, Head(control[w]).msg)
        BY DEF WorkerTakes
      <3>2. \E q \in {"look", "paused", "ending"} : tpc' = [tpc EXCEPT ![w] = q]
        BY <3>1, WorkerNextIs
      <3> QED  BY <1>1, <1>3, <3>2 DEF Types, ThreadTypes
    <2>2. PICK K : K = {2 * w[2]}
      OBVIOUS
    <2>3. \A u \in Workers : u[1] = l => 2 * u[2] \in K \/ channel'[u] = channel[u]
      BY <1>8, <2>2
    <2>4. \A u \in Threads : u[1] = l =>
              \/ 2 * u[2] + 1 \in K
              \/ /\ tpc'[u] = "push" <=> tpc[u] = "push"
                 /\ tpc[u] = "push" => hand'[u] = hand[u]
      BY <1>3, <1>9, <2>1
    <2>5. \A x, k : k \notin K => (Lies(l, x, k)' <=> Lies(l, x, k))
      BY <1>1, <2>3, <2>4, LiesElsewhere
    <2>6. \A x : ~Lies(l, x, 2 * w[2])'
      <3>1. ItemsOf(channel'[w]) = {}
        BY <1>8 DEF ItemsOf
      <3> QED  BY <3>1, QueueIs
    <2> QED  BY <2>2, <2>5, <2>6
  <1>12. /\ terminal'[l].seg = terminal[l].seg /\ terminal'[l].at = terminal[l].at
         /\ terminal'[l].from = terminal[l].from /\ terminal'[l].ended = terminal[l].ended
    BY <1>1, <1>3, HeardKeeps
  <1>13. Renews(l)
    BY <1>3, <1>5, <1>6, <1>7, <1>10, <1>11, <1>12 DEF Renews
  <1>14. Flow(l)'
    BY <1>1, <1>13, RenewsFlow
  <1> QED  BY <1>12, <1>14, NothingInOrder

\* Whatever a worker does, its line stays in order.
LEMMA WorkerFlow ==
    ASSUME Known, Types', Quiet, NEW w \in Workers, Flow(w[1]), SourceIs(w[1]), WorkerThread(w)
    PROVE  Flow(w[1])' /\ InOrder(w[1])
  <1>1. Types /\ w[1] \in Lines /\ w \in Threads
    BY ThreadsAre DEF Known
  <1>2. PICK p \in WorkerPlaces :
            Goes(w, p) /\ (p = "push" => WorkerForwards(w)) /\ (p = "paused" => WorkerTakes(w))
    BY <1>1, WorkerGoes
  <1>3. CASE WorkerForwards(w)
    BY <1>1, <1>3, WorkerForwardsFlow
  <1>4. CASE WorkerHandsOn(w)
    <2>1. /\ tpc[w] = "push" /\ tpc' = [tpc EXCEPT ![w] = "look"]
          /\ channel' = Pushed(After(w), hand[w]) /\ hand' = [hand EXCEPT ![w] = NoItem]
          /\ UNCHANGED <<flushing, terminal, source, pad>>
      BY <1>4 DEF WorkerHandsOn, GoTo, ends
    <2>2. p = "look"
      BY <1>1, <1>2, <2>1 DEF Goes, Types, ThreadTypes
    <2>3. source'[w[1]] = source[w[1]] /\ (pad[w[1]].ended => pad'[w[1]].ended)
      BY <2>1
    <2> QED  BY <1>1, <1>2, <2>1, <2>2, <2>3, HandsOnFlow
  <1>5. CASE WorkerTakes(w) /\ Head(control[w]).msg = "Flush"
    BY <1>5, FlushedFlow
  <1>6. CASE WorkerDone(w)
    BY <1>1, <1>6, WorkerDoneFlow
  <1>7. CASE \/ WorkerLooks(w) \/ WorkerLooksAgain(w) \/ WorkerCarries(w) \/ WorkerCarried(w)
             \/ DeliverPending(w) \/ WorkerDrops(w)
             \/ WorkerTakes(w) /\ Head(control[w]).msg # "Flush"
    <2>1. UNCHANGED <<channel, hand, source, pad>>
      BY <1>7 DEF WorkerLooks, WorkerLooksAgain, WorkerCarries, WorkerCarried, DeliverPending,
                  WorkerDrops, WorkerTakes, queues, ends
    <2>2. flushing' = flushing
      <3>1. CASE WorkerTakes(w) /\ Head(control[w]).msg # "Flush"
        <4>1. flushing' = [flushing EXCEPT ![w] = @ \/ Head(control[w]).msg = "Flush"]
          BY <3>1 DEF WorkerTakes
        <4>2. (flushing[w] \/ Head(control[w]).msg = "Flush") = flushing[w]
          BY <1>1, <3>1 DEF Types, QueueTypes
        <4> QED  BY <1>1, <4>1, <4>2 DEF Types, QueueTypes
      <3> QED
        BY <1>7, <3>1
           DEF WorkerLooks, WorkerLooksAgain, WorkerCarries, WorkerCarried, DeliverPending,
               WorkerDrops, queues
    <2>3. tpc[w] # "push"
      BY <1>7 DEF WorkerLooks, WorkerLooksAgain, WorkerCarries, WorkerCarried, DeliverPending,
                  GivesUp, WorkerDrops, WorkerTakes
    <2>4. p # "push"
      <3>1. tpc'[w] # "push"
        <4>1. CASE WorkerTakes(w)
          <5>1. WorkerNext(w, Head(control[w]).msg)
            BY <4>1 DEF WorkerTakes
          <5>2. \E q \in {"look", "paused", "ending"} : tpc' = [tpc EXCEPT ![w] = q]
            BY <5>1, WorkerNextIs
          <5> QED  BY <1>1, <5>2 DEF Types, ThreadTypes
        <4> QED
          BY <1>1, <1>7, <4>1
             DEF WorkerLooks, WorkerLooksAgain, WorkerCarries, WorkerCarried, DeliverPending,
                 WorkerDrops, DropsQueue, GoTo, Types, ThreadTypes
      <3>2. tpc'[w] = p
        BY <1>1, <1>2, GoesOnTime
      <3> QED  BY <3>1, <3>2
    <2>5. terminal' = terminal \/ \E msgs : terminal' = Heard(w, msgs)
      BY <1>7 DEF WorkerLooks, WorkerLooksAgain, WorkerCarries, WorkerCarried, DeliverPending,
                  WorkerDrops, WorkerTakes, ends
    <2>6. /\ terminal'[w[1]].seg = terminal[w[1]].seg /\ terminal'[w[1]].at = terminal[w[1]].at
          /\ terminal'[w[1]].from = terminal[w[1]].from
          /\ terminal'[w[1]].ended = terminal[w[1]].ended
      BY <1>1, <2>5, HeardKeeps
    <2>7. /\ UNCHANGED <<channel, hand, flushing>>
          /\ source'[w[1]].seg = source[w[1]].seg /\ source'[w[1]].pos = source[w[1]].pos
          /\ pad[w[1]].ended => pad'[w[1]].ended
      BY <2>1, <2>2
    <2> QED  BY <1>1, <1>2, <2>3, <2>4, <2>6, <2>7, IdlesFlow
  <1> QED  BY <1>3, <1>4, <1>5, <1>6, <1>7 DEF WorkerThread

-----------------------------------------------------------------------------
(* A step of a thread leaves the pipeline in order.                        *)

\* A step of one line's thread leaves the others.
LEMMA OtherLines ==
    ASSUME Types, NEW l \in Lines, OnlyLine(l), starts' = starts,
           NEW k \in Lines, k # l, Flow(k), SourceIs(k)
    PROVE  Flow(k)' /\ InOrder(k) /\ SourceIs(k)'
  <1>1. /\ \A t \in Threads : t[1] = k => tpc'[t] = tpc[t] /\ hand'[t] = hand[t]
        /\ \A w \in Workers : w[1] = k => channel'[w] = channel[w] /\ flushing'[w] = flushing[w]
        /\ terminal'[k] = terminal[k] /\ source'[k] = source[k] /\ pad'[k] = pad[k]
        /\ back'[Source(k)] = back[Source(k)]
    BY DEF OnlyLine
  <1>2. UNCHANGED <<todo, step, sending, phase>>
    BY DEF OnlyLine
  <1>3. FlushIsOut' <=> FlushIsOut
    BY <1>2 DEF FlushIsOut
  <1>4. Still(k)
    BY <1>1, <1>3 DEF Still
  <1>5. Source(k) \in Threads /\ Source(k)[1] = k
    BY ThreadsAre
  <1>6. Source(k) \in waiting' <=> Source(k) \in waiting
    BY <1>5 DEF OnlyLine
  <1>7. Renewing(k)' <=> Renewing(k)
    BY <1>2, <1>5, <1>6 DEF Renewing
  <1>8. SourceIs(k)'
    <2>1. tpc'[Source(k)] = tpc[Source(k)]
      BY <1>1, <1>5
    <2> QED  BY <1>1, <1>7, <2>1 DEF SourceIs, timeline
  <1> QED  BY <1>4, <1>8, StillFlow

\* No source is told of a timeline that works: its step leaves it where it is.
LEMMA SourceGoesOn ==
    ASSUME Known, Quiet, NEW l \in Lines, SourceIs(l),
           \/ SourceBegins(l) \/ SourceProduces(l) \/ SourceHandsOn(l) \/ SourceEnds(l)
           \/ SourceFinished(l) \/ SourceFails(l) \/ SourceCarried(l) \/ SourceReturns(l)
           \/ DropsReceiver(l) \/ SourceDrops(l) \/ SourceJoins(l)
    PROVE  SourceIs(l)'
  <1>1. /\ Types /\ Source(l) \in Threads /\ Source(l) \in Sources
        /\ source \in [Lines -> [pos : 0..Length, seg : 0..timeline, sought : BOOLEAN]]
        /\ pad \in [Lines -> [flushing : BOOLEAN, ended : BOOLEAN]]
    BY ThreadsAre DEF Known, Types, SourceTypes
  <1>2. UNCHANGED <<starts, todo, step, sending, back>> /\ waiting' \subseteq waiting
    BY DEF SourceBegins, SourceProduces, SourceHandsOn, SourceEnds, SourceFinished, SourceFails,
           SourceCarried, SourceReturns, DropsReceiver, SourceDrops, SourceJoins, playback, lock,
           requests
  <1>3. Renewing(l)' => Renewing(l)
    BY <1>2 DEF Renewing
  <1>4. \A p : tpc' = [tpc EXCEPT ![Source(l)] = p] => tpc'[Source(l)] = p
    BY <1>1 DEF Types, ThreadTypes
  <1> HIDE DEF Source
  <1>5. CASE SourceBegins(l)
    <2>1. /\ tpc[Source(l)] = "begin" /\ tpc'[Source(l)] = "ask" /\ pad' = pad
          /\ source' = [source EXCEPT ![l].seg = timeline]
      BY <1>4, <1>5 DEF SourceBegins, GoTo
    <2>2. source'[l].seg = timeline'
      BY <1>1, <1>2, <2>1 DEF timeline
    <2>3. ~Renewing(l) /\ ~pad[l].flushing /\ ~pad[l].ended
      BY <2>1, SourceWorks DEF Left
    <2> QED  BY <1>3, <2>1, <2>2, <2>3 DEF SourceIs
  <1>6. CASE SourceProduces(l)
    <2>1. tpc[Source(l)] = "ask" /\ tpc'[Source(l)] \in {"push", "ending"} /\ pad' = pad
      BY <1>4, <1>6 DEF SourceProduces, GoTo
    <2>2. source'[l].seg = source[l].seg
      BY <1>1, <1>6 DEF SourceProduces
    <2>3. ~Renewing(l) /\ ~pad[l].flushing /\ ~pad[l].ended /\ source[l].seg = timeline
      BY <2>1, SourceWorks DEF Left
    <2> QED  BY <1>2, <1>3, <2>1, <2>2, <2>3 DEF SourceIs, timeline
  <1>7. CASE SourceHandsOn(l)
    <2>1. /\ tpc[Source(l)] = "push" /\ tpc'[Source(l)] = "ask" /\ source' = source
          /\ pad' = [pad EXCEPT ![l].ended = @ /\ pad[l].flushing]
      BY <1>4, <1>7 DEF SourceHandsOn, GoTo
    <2>2. ~Renewing(l) /\ ~pad[l].flushing /\ ~pad[l].ended /\ source[l].seg = timeline
      BY <2>1, SourceWorks DEF Left
    <2>3. ~pad'[l].flushing /\ ~pad'[l].ended
      <3>1. PICK en \in BOOLEAN : en = (pad[l].ended /\ pad[l].flushing) /\ ~en
        BY <2>2
      <3>2. pad' = [pad EXCEPT ![l].ended = en]
        BY <2>1, <3>1, Zenon
      <3> QED  BY <1>1, <2>2, <3>1, <3>2
    <2> QED  BY <1>2, <1>3, <2>1, <2>2, <2>3 DEF SourceIs, timeline
  <1>8. CASE SourceEnds(l)
    <2>1. /\ tpc[Source(l)] = "ending" /\ tpc'[Source(l)] \in {"linger", "returning"}
          /\ source' = [source EXCEPT ![l].sought = FALSE]
          /\ pad' = [pad EXCEPT ![l].ended = @ \/ PadPasses(l)]
      BY <1>4, <1>8 DEF SourceEnds, GoTo
    <2>2. ~Renewing(l) /\ ~pad[l].flushing /\ source[l].seg = timeline
      BY <2>1, SourceWorks DEF Left
    <2>3. ~pad'[l].flushing
      <3>1. PICK en \in BOOLEAN : en = (pad[l].ended \/ PadPasses(l))
        OBVIOUS
      <3>2. pad' = [pad EXCEPT ![l].ended = en]
        BY <2>1, <3>1, Zenon
      <3> QED  BY <1>1, <2>2, <3>2
    <2>4. source'[l].seg = source[l].seg /\ ~source'[l].sought
      BY <1>1, <2>1
    <2> QED  BY <1>2, <1>3, <2>1, <2>2, <2>3, <2>4 DEF SourceIs, timeline, Left
  <1>9. CASE SourceFails(l)
    <2>1. tpc[Source(l)] = "ask" /\ tpc'[Source(l)] = "carrying" /\ pad' = pad /\ source' = source
      BY <1>4, <1>9 DEF SourceFails, GoTo
    <2>2. ~Renewing(l) /\ ~pad[l].flushing /\ ~pad[l].ended /\ source[l].seg = timeline
      BY <2>1, SourceWorks DEF Left
    <2> QED  BY <1>2, <1>3, <2>1, <2>2 DEF SourceIs, timeline
  <1>10. CASE \/ SourceFinished(l) \/ SourceCarried(l) \/ SourceReturns(l)
              \/ DropsReceiver(l) \/ SourceDrops(l) \/ SourceJoins(l)
    <2>1. tpc'[Source(l)] \in Left /\ source' = source
      BY <1>4, <1>10
         DEF SourceFinished, SourceCarried, SourceReturns, DropsReceiver, SourceDrops, DropsQueue,
             SourceJoins, GoTo, Left, ends
    <2>2. Left \cap {"begin"} = {}
      BY DEF Left
    <2> QED  BY <1>2, <1>3, <2>1, <2>2 DEF SourceIs, timeline
  <1> QED  BY <1>5, <1>6, <1>7, <1>8, <1>9, <1>10

\* A source told to finish has no seek to wait for.
LEMMA SourceFinishesIs ==
    ASSUME Known, Quiet, NEW l \in Lines, SourceIs(l), SourceFinishes(l)
    PROVE  SourceIs(l)'
  <1>1. Types /\ Source(l) \in Threads /\ Source(l) \in Sources
    BY ThreadsAre DEF Known
  <1>2. /\ tpc[Source(l)] \in {"ask", "ending", "linger", "paused"}
        /\ control[Source(l)] # <<>> /\ Head(control[Source(l)]).msg = "Finish"
        /\ UNCHANGED <<starts, todo, step, sending, back, pad, source>> /\ waiting' \subseteq waiting
    BY DEF SourceFinishes, playback, lock, ends
  <1>3. tpc'[Source(l)] \in {"returning", "finishing"}
    BY <1>1 DEF SourceFinishes, GoTo, Types, ThreadTypes
  <1>4. ~Renewing(l)
    <2>1. Seekable => Out("Finish")
      BY <1>1, <1>2, AskedFor
    <2> QED  BY <2>1, RenewingIs DEF Out
  <1>5. ~Renewing(l)'
    BY <1>2, <1>4 DEF Renewing
  <1>6. tpc[Source(l)] \notin {"begin"} \cup Left
    BY <1>2 DEF Left
  <1> QED  BY <1>2, <1>3, <1>4, <1>5, <1>6 DEF SourceIs, timeline, Left

\* A request taken, it is on the timeline, or has yet to be told of it.
LEMMA SourceTakesIs ==
    ASSUME Known, Quiet, NEW l \in Lines, SourceIs(l), SourceTakes(l)
    PROVE  SourceIs(l)'
  <1>1. /\ Types /\ Source(l) \in Threads /\ Source(l) \in Sources
        /\ source \in [Lines -> [pos : 0..Length, seg : 0..timeline, sought : BOOLEAN]]
        /\ pad \in [Lines -> [flushing : BOOLEAN, ended : BOOLEAN]]
    BY ThreadsAre DEF Known, Types, SourceTypes
  <1>2. PICK msg : msg = Head(control[Source(l)]).msg
    OBVIOUS
  <1>3. /\ tpc[Source(l)] \in {"ask", "ending", "linger", "paused"} /\ control[Source(l)] # <<>>
        /\ SourceNext(l, msg) /\ waiting' = waiting \ {Source(l)}
        /\ UNCHANGED <<starts, todo, step, sending, phase>>
    BY <1>2 DEF SourceTakes, lock, playback
  <1>4. PICK p \in {"ask", "ending", "linger", "paused", "returning"} :
            /\ tpc' = [tpc EXCEPT ![Source(l)] = p]
            /\ p = "returning" <=> msg = "Stop"
            /\ p = "paused" <=> /\ msg # "Stop"
                                /\ IF tpc[Source(l)] = "paused" THEN Holds ELSE msg = "Pause"
    BY <1>1, <1>3, SourceNextIs
  <1>5. tpc'[Source(l)] = p
    BY <1>1, <1>4 DEF Types, ThreadTypes
  <1>6. /\ msg \in {"Flush", "Seek"} => Seekable
        /\ Seekable => Out(msg) /\ Source(l) \in waiting
    BY <1>1, <1>2, <1>3, AskedFor
  <1>7. tpc[Source(l)] \notin {"begin"} \cup Left
    BY <1>3 DEF Left
  <1>8. CASE msg = "Seek"
    <2>1. /\ source' = [source EXCEPT ![l] =
                            [pos |-> starts[timeline], seg |-> timeline, sought |-> TRUE]]
          /\ pad' = [pad EXCEPT ![l] = [flushing |-> FALSE, ended |-> FALSE]]
      BY <1>2, <1>8 DEF SourceTakes
    <2>2. source'[l].seg = timeline' /\ ~pad'[l].flushing /\ ~pad'[l].ended
      BY <1>1, <1>3, <2>1 DEF timeline
    <2>3. ~Renewing(l)'
      <3>1. Out("Seek") /\ Source(l) \notin sending
        BY <1>1, <1>6, <1>8 DEF Types, RequestTypes
      <3> QED  BY <1>3, <3>1 DEF Renewing, Out
    <2>4. p # "begin"
      OBVIOUS
    <2> QED  BY <1>5, <2>2, <2>3, <2>4 DEF SourceIs
  <1>9. CASE msg # "Seek"
    <2>1. /\ UNCHANGED <<source, channel>>
          /\ pad' = [pad EXCEPT ![l].flushing = @ \/ msg = "Flush"]
      BY <1>2, <1>9 DEF SourceTakes
    <2>2. pad'[l].ended = pad[l].ended /\ (pad'[l].flushing => pad[l].flushing \/ msg = "Flush")
      <3>1. PICK fl \in BOOLEAN : fl = (pad[l].flushing \/ msg = "Flush")
        OBVIOUS
      <3>2. pad' = [pad EXCEPT ![l].flushing = fl]
        BY <2>1, <3>1, Zenon
      <3>3. pad'[l].ended = pad[l].ended /\ pad'[l].flushing = fl
        BY <1>1, <3>2
      <3> QED  BY <3>1, <3>3
    <2>3. pad[l].ended =>
              /\ ~source[l].sought
              /\ tpc[Source(l)] = "linger" \/ (tpc[Source(l)] = "paused" /\ back[Source(l)] = "linger")
      BY <1>3, <1>7 DEF SourceIs
    <2>4. pad[l].ended =>
              \/ p = "returning" \/ p = "linger"
              \/ p = "paused" /\ back'[Source(l)] = "linger"
      <3> SUFFICES ASSUME pad[l].ended, msg # "Stop"
                   PROVE  p = "linger" \/ (p = "paused" /\ back'[Source(l)] = "linger")
        BY <1>4
      <3>1. ~source'[l].sought
        BY <2>1, <2>3
      <3>2. \A q : tpc' = [tpc EXCEPT ![Source(l)] = q] => q = p
        BY <1>1, <1>5 DEF Types, ThreadTypes
      <3>3. CASE tpc[Source(l)] = "paused"
        <4>1. back[Source(l)] = "linger" /\ back' = back
          BY <1>3, <2>3, <3>3 DEF SourceNext
        <4>2. tpc' = [tpc EXCEPT ![Source(l)] =
                          IF Holds THEN "paused" ELSE GoesOn(l, back[Source(l)])]
          BY <1>3, <3>3 DEF SourceNext, GoTo
        <4> QED  BY <3>1, <3>2, <4>1, <4>2 DEF GoesOn
      <3>4. CASE tpc[Source(l)] = "linger" /\ msg = "Pause"
        <4>1. tpc' = [tpc EXCEPT ![Source(l)] = "paused"] /\ back' = [back EXCEPT ![Source(l)] = "linger"]
          BY <1>3, <3>4 DEF SourceNext, GoTo
        <4> QED  BY <1>1, <3>2, <4>1 DEF Types, ThreadTypes
      <3>5. CASE tpc[Source(l)] = "linger" /\ msg # "Pause"
        <4>1. tpc' = [tpc EXCEPT ![Source(l)] = GoesOn(l, "linger")]
          BY <1>3, <3>5 DEF SourceNext, GoTo
        <4> QED  BY <3>1, <3>2, <4>1 DEF GoesOn
      <3> QED  BY <2>3, <3>3, <3>4, <3>5
    <2>5. CASE msg = "Flush"
      <3>1. Renewing(l) /\ Renewing(l)'
        BY <1>3, <1>6, <2>5 DEF Renewing, Out
      <3> QED  BY <1>3, <1>5, <2>1, <2>2, <2>3, <2>4, <3>1 DEF SourceIs, timeline, Left
    <2>6. CASE msg # "Flush"
      <3>1. ~Renewing(l)
        BY <1>6, <1>9, <2>6, RenewingIs DEF Out
      <3>2. ~Renewing(l)'
        BY <1>3, <3>1 DEF Renewing
      <3>3. source[l].seg = timeline /\ ~pad[l].flushing
        BY <1>7, <3>1 DEF SourceIs
      <3> QED  BY <1>3, <1>5, <2>1, <2>2, <2>3, <2>4, <2>6, <3>2, <3>3 DEF SourceIs, timeline, Left
    <2> QED  BY <2>5, <2>6
  <1> QED  BY <1>8, <1>9

\* While a seek flushes, a worker takes what is asked of it and stays in its pause,
\* or goes on to its end.
LEMMA WorkerStaysPaused ==
    ASSUME Known, Quiet, Moving,
           NEW w \in Workers, WorkerThread(w)
    PROVE  /\ tpc'[w] \in Over \cup {"paused"}
           /\ Out("Flush") => tpc'[w] \in Over \/ channel'[w] = <<>>
           /\ \A u \in Threads : u # w => tpc'[u] = tpc[u]
           /\ \A u \in Workers : u # w =>
                  channel'[u] = channel[u] /\ (u \in waiting' <=> u \in waiting)
  <1>1. /\ Types /\ Seekable /\ w \in Threads /\ w[1] \in Lines /\ Source(w[1]) \in Sources
        /\ tpc \in [Threads -> SourcePlaces \cup WorkerPlaces]
        /\ channel \in [Workers -> Seq(ItemsTo(timeline))]
    BY ThreadsAre, MovingIs DEF Known, Types, ThreadTypes, ItemTypes
  <1>2. /\ tpc[w] \in Over \cup {"paused"} /\ Holds
        /\ tpc[Source(w[1])] \in {"paused", "dropping", "joining", "done"}
    BY <1>1 DEF Quiet, Holds
  <1>3. \A p : tpc' = [tpc EXCEPT ![w] = p] =>
            tpc'[w] = p /\ \A u \in Threads : u # w => tpc'[u] = tpc[u]
    BY <1>1
  <1>4. CASE WorkerTakes(w)
    <2>1. PICK msg : msg = Head(control[w]).msg
      OBVIOUS
    <2>2. /\ control[w] # <<>> /\ tpc[w] = "paused" /\ WorkerNext(w, msg)
          /\ channel' = IF msg = "Flush" THEN [channel EXCEPT ![w] = <<>>] ELSE channel
          /\ waiting' = waiting \/ waiting' = waiting \ {w}
      BY <1>2, <1>4, <2>1 DEF WorkerTakes, Over
    <2>3. PICK p \in {"look", "paused", "ending"} :
              /\ tpc' = [tpc EXCEPT ![w] = p]
              /\ p = "ending" <=> msg = "Stop"
              /\ p = "paused" <=> /\ msg # "Stop"
                                  /\ IF tpc[w] = "paused" THEN Holds ELSE msg = "Pause"
      BY <2>2, WorkerNextIs
    <2>4. p \in {"paused", "ending"}
      BY <1>2, <2>2, <2>3
    <2>5. Out("Flush") => msg = "Flush"
      <3>1. Head(control[w]).direct
        BY <1>1, <1>2, <2>2, AskedFor
      <3>2. Out(msg)
        BY <1>1, <2>1, <2>2, <3>1, AskedFor
      <3> QED  BY <3>2 DEF Out
    <2>6. Out("Flush") => channel'[w] = <<>>
      BY <1>1, <2>2, <2>5
    <2>7. \A u \in Workers : u # w =>
              channel'[u] = channel[u] /\ (u \in waiting' <=> u \in waiting)
      BY <1>1, <2>2
    <2> QED  BY <1>3, <2>3, <2>4, <2>6, <2>7 DEF Over
  <1>5. CASE WorkerCarries(w)
    <2>1. control[w] # <<>> /\ ~Head(control[w]).direct
      BY <1>5 DEF WorkerCarries, GoesFurther
    <2> QED  BY <1>1, <1>2, <2>1, AskedFor
  <1>6. CASE DeliverPending(w) \/ WorkerDrops(w)
    <2>1. tpc'[w] \in Over /\ \A u \in Threads : u # w => tpc'[u] = tpc[u]
      BY <1>3, <1>6 DEF DeliverPending, WorkerDrops, DropsQueue, GoTo, Over
    <2>2. channel' = channel /\ (waiting' = waiting \/ waiting' = waiting \ {w})
      BY <1>6 DEF DeliverPending, WorkerDrops, queues, requests
    <2> QED  BY <2>1, <2>2
  <1>7. CASE WorkerDone(w)
    <2>1. tpc'[w] \in Over /\ \A u \in Threads : u # w => tpc'[u] = tpc[u]
      BY <1>3, <1>7 DEF WorkerDone, GoTo, Over
    <2>2. channel' = [channel EXCEPT ![w] = <<>>] /\ waiting' = waiting \ {w}
      BY <1>7 DEF WorkerDone
    <2>3. \A u \in Workers : u # w => channel'[u] = channel[u]
      BY <1>1, <2>2
    <2> QED  BY <2>1, <2>2, <2>3
  <1>8. ~(WorkerLooks(w) \/ WorkerLooksAgain(w) \/ WorkerForwards(w) \/ WorkerHandsOn(w)
          \/ WorkerCarried(w))
    BY <1>2 DEF WorkerLooks, WorkerLooksAgain, WorkerForwards, WorkerHandsOn, WorkerCarried, Over
  <1> QED  BY <1>4, <1>5, <1>6, <1>7, <1>8 DEF WorkerThread

\* So does a source.
LEMMA SourceStaysPaused ==
    ASSUME Known, Quiet, Moving,
           NEW l \in Lines, SourceThread(l) \/ SourceFails(l)
    PROVE  /\ tpc'[Source(l)] \in {"paused", "dropping", "joining", "done"}
           /\ Out("Flush") => channel' = channel
           /\ \A u \in Threads : u # Source(l) => tpc'[u] = tpc[u]
           /\ \A u \in Workers : u \in waiting' <=> u \in waiting
  <1>1. /\ Types /\ Seekable /\ Source(l) \in Threads /\ Source(l) \in Sources
        /\ Source(l) \notin Workers
        /\ tpc \in [Threads -> SourcePlaces \cup WorkerPlaces]
    BY ThreadsAre, MovingIs DEF Known, Types, ThreadTypes
  <1>2. tpc[Source(l)] \in {"paused", "dropping", "joining", "done"} /\ Holds
    BY <1>1 DEF Quiet, Holds
  <1>3. \A p : tpc' = [tpc EXCEPT ![Source(l)] = p] =>
            tpc'[Source(l)] = p /\ \A u \in Threads : u # Source(l) => tpc'[u] = tpc[u]
    BY <1>1
  <1> HIDE DEF Source
  <1>4. CASE SourceTakes(l)
    <2>1. PICK msg : msg = Head(control[Source(l)]).msg
      OBVIOUS
    <2>2. /\ control[Source(l)] # <<>> /\ tpc[Source(l)] = "paused" /\ SourceNext(l, msg)
          /\ msg # "Seek" => channel' = channel
          /\ waiting' = waiting \ {Source(l)}
      BY <1>2, <1>4, <2>1 DEF SourceTakes
    <2>3. PICK p \in {"ask", "ending", "linger", "paused", "returning"} :
              /\ tpc' = [tpc EXCEPT ![Source(l)] = p]
              /\ p = "returning" <=> msg = "Stop"
              /\ p = "paused" <=> /\ msg # "Stop"
                                  /\ IF tpc[Source(l)] = "paused" THEN Holds ELSE msg = "Pause"
      BY <1>1, <2>2, SourceNextIs
    <2>4. Out(msg)
      BY <1>1, <2>1, <2>2, AskedFor
    <2>5. msg # "Stop" /\ (Out("Flush") => msg # "Seek")
      BY <2>4 DEF Out, Moving
    <2> QED  BY <1>1, <1>2, <1>3, <2>2, <2>3, <2>5
  <1>5. CASE SourceFinishes(l)
    <2>1. control[Source(l)] # <<>> /\ Head(control[Source(l)]).msg = "Finish"
      BY <1>5 DEF SourceFinishes
    <2>2. Out("Finish")
      BY <1>1, <2>1, AskedFor
    <2> QED  BY <2>2 DEF Out, Moving
  <1>6. CASE SourceDrops(l) \/ SourceJoins(l)
    <2>1. /\ tpc'[Source(l)] \in {"joining", "done"}
          /\ \A u \in Threads : u # Source(l) => tpc'[u] = tpc[u]
      BY <1>3, <1>6 DEF SourceDrops, DropsQueue, SourceJoins, GoTo
    <2>2. channel' = channel /\ waiting' = waiting
      BY <1>6 DEF SourceDrops, SourceJoins, queues, requests
    <2> QED  BY <2>1, <2>2
  <1>7. ~(\/ SourceBegins(l) \/ SourceProduces(l) \/ SourceHandsOn(l) \/ SourceEnds(l)
          \/ SourceFinished(l) \/ SourceFails(l) \/ SourceCarried(l) \/ SourceReturns(l)
          \/ DropsReceiver(l))
    BY <1>2 DEF SourceBegins, SourceProduces, SourceHandsOn, SourceEnds, SourceFinished,
                SourceFails, SourceCarried, SourceReturns, DropsReceiver
  <1> QED  BY <1>4, <1>5, <1>6, <1>7 DEF SourceThread

\* Where one line is kept, and the pipeline paused as it was, all is.
LEMMA LineStreams ==
    ASSUME Known, Streams, NEW l \in Lines, OnlyLine(l), UNCHANGED <<starts, paused>>,
           Flow(l)', SourceIs(l)', InOrder(l), Quiet', FlushReaches'
    PROVE  Streams' /\ \A k \in Lines : InOrder(k)
  <1>1. Types
    BY DEF Known
  <1>2. \A k \in Lines : Flow(k)' /\ SourceIs(k)' /\ InOrder(k)
    <2> TAKE k \in Lines
    <2>1. CASE k = l
      BY <2>1
    <2>2. CASE k # l
      <3>1. Flow(k) /\ SourceIs(k)
        BY DEF Streams
      <3> QED  BY <1>1, <2>2, <3>1, OtherLines
    <2> QED  BY <2>1, <2>2
  <1>3. PausedIs'
    BY DEF OnlyLine, Streams, PausedIs
  <1> QED  BY <1>2, <1>3 DEF Streams

\* A step of a source keeps it all, and what it hands the terminal, nothing, is in order.
LEMMA SourceStreams ==
    ASSUME Known, Streams, NEW l \in Lines, SourceThread(l) \/ SourceFails(l)
    PROVE  Streams' /\ \A k \in Lines : InOrder(k)
  <1>1. Types /\ Quiet /\ Flow(l) /\ SourceIs(l) /\ Source(l) \in Sources /\ Source(l) \notin Workers
    BY ThreadsAre DEF Known, Streams
  <1>2. OnlyLine(l)
    BY <1>1, SourceIsOfLine
  <1>3. UNCHANGED <<starts, paused>>
    BY DEF SourceThread, SourceBegins, SourceProduces, SourceHandsOn, SourceEnds, SourceTakes,
           SourceFinishes, SourceFinished, SourceFails, SourceCarried, SourceReturns,
           DropsReceiver, SourceDrops, SourceJoins, playback
  <1>4. Flow(l)' /\ InOrder(l)
    BY <1>1, SourceBeginsFlow, SourceProducesFlow, SourceHandsOnFlow, SourceEndsFlow,
       SourceTakesFlow, SourceIdlesFlow DEF SourceThread
  <1>5. SourceIs(l)'
    BY <1>1, SourceGoesOn, SourceFinishesIs, SourceTakesIs DEF SourceThread
  <1>6. UNCHANGED <<phase, todo, step, sending>>
    BY <1>2 DEF OnlyLine
  <1>7. Quiet'
    <2> SUFFICES ASSUME Moving PROVE Quiet'
      BY <1>6 DEF Quiet, Moving
    <2>1. /\ tpc'[Source(l)] \in {"paused", "dropping", "joining", "done"}
          /\ \A u \in Threads : u # Source(l) => tpc'[u] = tpc[u]
      BY SourceStaysPaused, <1>1
    <2>2. \A u \in Workers : u \in Threads /\ u # Source(l)
      BY <1>1, ThreadsAre
    <2>3. \A u \in Sources : u \in Threads
      BY ThreadsAre
    <2> QED  BY <1>1, <1>6, <2>1, <2>2, <2>3 DEF Quiet
  <1>8. FlushReaches'
    <2> SUFFICES ASSUME Out("Flush"), NEW w \in Workers
                 PROVE  w \in sending \cup waiting' \/ channel'[w] = <<>> \/ tpc'[w] \in Over
      BY <1>6 DEF FlushReaches, Out
    <2>1. Moving
      BY DEF Out, Moving
    <2>2. /\ channel' = channel /\ \A u \in Threads : u # Source(l) => tpc'[u] = tpc[u]
          /\ \A u \in Workers : u \in waiting' <=> u \in waiting
      BY <1>1, <2>1, SourceStaysPaused
    <2>3. w \in Threads /\ w # Source(l)
      BY <1>1, ThreadsAre
    <2>4. w \in sending \cup waiting \/ channel[w] = <<>> \/ tpc[w] \in Over
      BY DEF Streams, FlushReaches
    <2> QED  BY <2>2, <2>3, <2>4
  <1> QED  BY <1>2, <1>3, <1>4, <1>5, <1>7, <1>8, LineStreams

\* A step of a worker keeps it all, and hands the terminal what is in order.
LEMMA WorkerStreams ==
    ASSUME Known, Types', Streams, NEW w \in Workers, WorkerThread(w)
    PROVE  Streams' /\ \A k \in Lines : InOrder(k)
  <1> DEFINE l == w[1]
  <1>1. /\ Types /\ Quiet /\ Flow(l) /\ SourceIs(l) /\ l \in Lines /\ w \in Threads
        /\ Source(l) \in Sources /\ Source(l) \in Threads /\ w # Source(l)
        /\ \A u \in Sources : u # w /\ u \in Threads
    BY ThreadsAre DEF Known, Streams
  <1>2. OnlyLine(l)
    BY <1>1, WorkerIsOfLine
  <1>3. UNCHANGED <<starts, paused, source, pad, back>>
    BY DEF WorkerThread, WorkerLooks, WorkerLooksAgain, WorkerForwards, WorkerHandsOn,
           WorkerTakes, WorkerCarries, WorkerCarried, DeliverPending, WorkerDrops, WorkerDone,
           playback, ends
  <1>4. Flow(l)' /\ InOrder(l)
    BY <1>1, WorkerFlow
  <1>5. UNCHANGED <<phase, todo, step, sending>>
    BY <1>2 DEF OnlyLine
  <1>6. waiting' = waiting \/ waiting' = waiting \ {w}
    BY DEF WorkerThread, WorkerLooks, WorkerLooksAgain, WorkerForwards, WorkerHandsOn,
           WorkerTakes, WorkerCarries, WorkerCarried, DeliverPending, WorkerDrops, WorkerDone,
           requests
  <1>7. PICK p \in WorkerPlaces : Goes(w, p)
    BY <1>1, WorkerGoes
  <1>8. \A u \in Threads : u # w => tpc'[u] = tpc[u]
    BY <1>1, <1>7, GoesOnTime
  <1>9. SourceIs(l)'
    <2>1. Renewing(l)' <=> Renewing(l)
      BY <1>1, <1>5, <1>6 DEF Renewing
    <2>2. tpc'[Source(l)] = tpc[Source(l)]
      BY <1>1, <1>8
    <2> QED  BY <1>1, <1>3, <2>1, <2>2 DEF SourceIs, timeline
  <1>10. Quiet'
    <2> SUFFICES ASSUME Moving PROVE Quiet'
      BY <1>5 DEF Quiet, Moving
    <2>1. tpc'[w] \in Over \cup {"paused"}
      BY <1>1, WorkerStaysPaused
    <2>2. \A u \in Workers : u # w => tpc'[u] = tpc[u]
      BY <1>8, ThreadsAre
    <2> QED  BY <1>1, <1>5, <1>8, <2>1, <2>2 DEF Quiet
  <1>11. FlushReaches'
    <2> SUFFICES ASSUME Out("Flush"), NEW u \in Workers
                 PROVE  u \in sending \cup waiting' \/ channel'[u] = <<>> \/ tpc'[u] \in Over
      BY <1>5 DEF FlushReaches, Out
    <2>1. Moving
      BY DEF Out, Moving
    <2>2. /\ tpc'[w] \in Over \/ channel'[w] = <<>>
          /\ \A v \in Workers : v # w =>
                 channel'[v] = channel[v] /\ (v \in waiting' <=> v \in waiting)
      BY <1>1, <2>1, WorkerStaysPaused
    <2>3. u \in sending \cup waiting \/ channel[u] = <<>> \/ tpc[u] \in Over
      BY DEF Streams, FlushReaches
    <2>4. u # w => tpc'[u] = tpc[u]
      BY <1>8, ThreadsAre
    <2> QED  BY <2>2, <2>3, <2>4
  <1> QED  BY <1>1, <1>2, <1>3, <1>4, <1>9, <1>10, <1>11, LineStreams

-----------------------------------------------------------------------------
(* A step of a call leaves the pipeline in order.                          *)

\* What comes behind a seek's stages, and before.
LEMMA SeekIsNext ==
    ASSUME NEW s \in AllStages
    PROVE  /\ s[1] = "Flush" => Tail(s) # <<>> /\ Tail(s)[1] = "Seek"
           /\ Tail(s) # <<>> /\ Tail(s)[1] = "Flush" => s[1] = "Pause"
           /\ Tail(s) # <<>> /\ Tail(s)[1] = "Seek" => s[1] = "Flush"
           /\ s[1] = "Seek" => Tail(s) # <<>> /\ Tail(s)[1] = "Preroll"
           /\ Tail(s) # <<>> /\ Tail(s)[1] = "Preroll" => s[1] = "Seek"
  <1>1. s # <<>> /\ s \in Seq(StageNames)
    BY Leaves DEF StageLeaves
  <1>2. /\ Len(s) \in Nat /\ Len(s) > 0 /\ Tail(s) \in Seq(StageNames)
        /\ Len(Tail(s)) = Len(s) - 1
        /\ \A i \in 1 .. Len(Tail(s)) : Tail(s)[i] = s[i+1] /\ i+1 \in 1 .. Len(s)
    BY <1>1, HeadOf
  <1>3. Tail(s) # <<>> => Len(s) > 1 /\ Tail(s)[1] = s[2]
    <2> SUFFICES ASSUME Tail(s) # <<>> PROVE Len(s) > 1 /\ Tail(s)[1] = s[2]
      OBVIOUS
    <2>1. Len(Tail(s)) \in Nat /\ Len(Tail(s)) # 0
      BY <1>2, EmptySeq
    <2>2. 1 \in 1 .. Len(Tail(s)) /\ 1 + 1 = 2
      BY <2>1
    <2> QED  BY <1>2, <2>1, <2>2
  <1>4. /\ s[1] = "Flush" => Len(s) > 1 /\ s[2] = "Seek"
        /\ s[1] = "Seek" => Len(s) > 1 /\ s[2] = "Preroll"
    BY DEF AllStages, ToPaused, ToPlaying, ToStop, ToFinish
  <1>5. \A one \in {<<"Pause">>, <<"Resume">>, <<"Stop">>, <<"Finish">>} : Len(one) = 1
    OBVIOUS
  <1> DEFINE Follows2 == /\ s[2] = "Flush" => s[1] = "Pause"
                         /\ s[2] = "Seek" => s[1] = "Flush"
                         /\ s[2] = "Preroll" => s[1] = "Seek"
  <1>6. Len(s) > 1 => Follows2
    <2> SUFFICES ASSUME Len(s) > 1 PROVE Follows2
      OBVIOUS
    <2>1. s \notin {<<"Pause">>, <<"Resume">>, <<"Stop">>, <<"Finish">>}
      <3>1. s \in {<<"Pause">>, <<"Resume">>, <<"Stop">>, <<"Finish">>} => Len(s) = 1
        BY <1>5, Zenon
      <3>2. PICK n \in Nat : n = Len(s)
        BY <1>2
      <3>3. Len(s) # 1
        BY <3>2
      <3> QED  BY <3>1, <3>3, Zenon
    <2>2. s \in ToPaused => Follows2
      BY <2>1 DEF ToPaused
    <2>3. s \in ToPlaying => Follows2
      BY <2>1 DEF ToPlaying
    <2>4. s \in ToStop \cup ToFinish => Follows2
      BY <2>1 DEF ToStop, ToFinish
    <2> QED  BY <2>2, <2>3, <2>4 DEF AllStages
  <1>7. Len(s) > 1 => Tail(s) # <<>>
    <2>1. Tail(s) = <<>> => Len(Tail(s)) = 0
      BY <1>2, EmptySeq
    <2> QED  BY <1>2, <2>1
  <1> QED  BY <1>3, <1>4, <1>6, <1>7

\* A call leaves a line where it is, and what its source is yet to be told.
RenewsStill(l) ==
    /\ Renewing(l)' => Renewing(l)
    /\ Renewing(l) => Renewing(l)' \/ tpc[Source(l)] \in Left

\* So it keeps what is said of the lines.
LEMMA CallStreams ==
    ASSUME Known, Streams,
           UNCHANGED <<starts, tpc, back, hand, channel, flushing, source, pad, terminal>>,
           FlushIsOut' <=> FlushIsOut, \A l \in Lines : RenewsStill(l),
           PausedIs', Quiet', FlushReaches'
    PROVE  Streams' /\ \A l \in Lines : InOrder(l)
  <1>1. Types
    BY DEF Known
  <1>2. \A l \in Lines : Flow(l)' /\ InOrder(l) /\ SourceIs(l)'
    <2> TAKE l \in Lines
    <2>1. Flow(l) /\ SourceIs(l) /\ RenewsStill(l)
      BY DEF Streams
    <2>2. Still(l)
      BY DEF Still
    <2>3. SourceIs(l)'
      BY <2>1 DEF SourceIs, RenewsStill, timeline
    <2> QED  BY <1>1, <2>1, <2>2, <2>3, StillFlow
  <1> QED  BY <1>2 DEF Streams

\* One that asks nothing.
LEMMA CallerStreams ==
    ASSUME Known, Streams,
           UNCHANGED <<phase, starts, paused, todo, step, sending, waiting, tpc, back, hand,
                       channel, flushing, source, pad, terminal>>
    PROVE  Streams' /\ \A l \in Lines : InOrder(l)
  <1>1. FlushIsOut' <=> FlushIsOut
    BY DEF FlushIsOut
  <1>2. \A l \in Lines : RenewsStill(l)
    BY DEF RenewsStill, Renewing
  <1>3. PausedIs' /\ Quiet'
    BY DEF Streams, PausedIs, Quiet, Moving
  <1>4. FlushReaches'
    BY DEF Streams, FlushReaches, Out
  <1> QED  BY <1>1, <1>2, <1>3, <1>4, CallStreams

\* A call made, refused, completed or joined.
LEMMA OthersStreams ==
    ASSUME Known, Streams, NEW c \in Callers,
           Calls(c) \/ Refuses(c) \/ Joins(c) \/ Completes \/ UNCHANGED vars
    PROVE  Streams' /\ \A l \in Lines : InOrder(l)
  <1>1. UNCHANGED <<phase, starts, paused, todo, step, sending, waiting, tpc, back, hand,
                    channel, flushing, source, pad, terminal>>
    <2>1. CASE Calls(c)
      BY <2>1 DEF Calls, lock, threads, requests, queues, ends
    <2>2. CASE Refuses(c) \/ Joins(c) \/ Completes
      BY <2>2 DEF Refuses, Joins, Completes, playback, threads, requests, queues, ends
    <2>3. CASE UNCHANGED vars
      BY <2>3 DEF vars, playback, lock, threads, requests, queues, ends
    <2> QED  BY <2>1, <2>2, <2>3
  <1> QED  BY <1>1, CallerStreams

\* A seek begins with its pause, or where the pipeline stands still.
LEMMA BeginsStreams ==
    ASSUME Known, Streams, NEW c \in Callers, Begins(c)
    PROVE  Streams' /\ \A l \in Lines : InOrder(l)
  <1>1. /\ holder = None /\ ~Refused(call[c].op) /\ todo' = Stages(call[c].op) /\ step' = "say"
        /\ cpc[c] = "locking" /\ paused' = PausedBy(call[c].op)
        /\ UNCHANGED <<phase, starts, sending, waiting, tpc, back, hand, channel, flushing,
                       source, pad, terminal>>
    BY DEF Begins, playback, threads, requests, queues, ends
  <1>2. Types /\ todo = <<>> /\ call[c].op \in Ops /\ paused \in BOOLEAN
    BY <1>1 DEF Known, Types, PlayTypes, CallTypes, Plan
  <1>3. call[c].op \in {"pause", "resume", "seek", "stop", "finish"}
    BY <1>2, OpsAssumption
  <1>4. /\ todo' # <<>> /\ todo'[1] \notin {"Seek", "Preroll"}
        /\ todo'[1] = "Flush" => call[c].op = "seek" /\ paused
    <2>1. todo' \in {<<"Pause">>, <<"Resume">>, <<"Stop">>, <<"Resume", "Finish">>, <<"Finish">>,
                     <<"Pause", "Flush", "Seek", "Preroll", "await", "retire", "Pause", "Resume">>}
          \/ /\ todo' = <<"Flush", "Seek", "Preroll", "await", "retire", "Pause">>
             /\ call[c].op = "seek" /\ paused
      BY <1>1, <1>2, <1>3, StagesAre
    <2> QED  BY <2>1
  <1>5. ~FlushIsOut /\ ~FlushIsOut'
    BY <1>1, <1>2 DEF FlushIsOut
  <1>6. \A l \in Lines : RenewsStill(l)
    BY <1>1, <1>2, <1>4 DEF RenewsStill, Renewing
  <1>7. PausedIs'
    BY <1>4 DEF PausedIs
  <1>8. FlushReaches'
    BY <1>1 DEF FlushReaches, Out
  <1>9. Quiet'
    <2> SUFFICES ASSUME todo'[1] = "Flush"
                 PROVE  /\ phase = "paused"
                        /\ \A w \in Workers : tpc[w] \in Over \cup {"paused"}
                        /\ \A s \in Sources : tpc[s] \in {"paused", "dropping", "joining", "done"}
      BY <1>1, <1>4 DEF Quiet, Moving
    <2>1. call[c].op = "seek" /\ paused
      BY <1>4
    <2>2. Seekable
      BY <1>1, <2>1 DEF Refused
    <2>3. phase = "paused"
      BY <1>2, <2>1 DEF Streams, PausedIs
    <2> QED  BY <1>2, <2>2, <2>3 DEF Known, Protocol, StandsStill
  <1> QED  BY <1>1, <1>5, <1>6, <1>7, <1>8, <1>9, CallStreams

\* A timeline begins, no source told of it yet.
LEMMA SaysStreams ==
    ASSUME Known, Types', Streams, Says
    PROVE  Streams' /\ \A l \in Lines : InOrder(l)
  <1>1. Types
    BY DEF Known
  <1>2. /\ todo # <<>> /\ step = "say" /\ step' = "snapshot" /\ holder # None
        /\ UNCHANGED <<paused, holder, todo, sending, call, tpc, back, hand, waiting, channel,
                       flushing, source, pad, terminal>>
        /\ phase' = CASE todo[1] = "Pause" -> "paused"
                      [] todo[1] = "Resume" -> "playing"
                      [] todo[1] = "Stop" -> "stopped"
                      [] todo[1] = "Preroll" -> "prerolling"
                      [] OTHER -> phase
    BY <1>1, SaysIs
  <1>3. PausedIs' /\ FlushReaches'
    BY <1>2 DEF PausedIs, FlushReaches, Out
  <1>4. Quiet'
    <2> SUFFICES ASSUME todo[1] \in {"Flush", "Seek"} PROVE Quiet'
      BY <1>2 DEF Quiet, Moving
    <2>1. phase' = phase
      BY <1>2
    <2> QED  BY <1>2, <2>1 DEF Streams, Quiet, Moving
  <1>5. Head(todo) = todo[1]
    BY <1>1, <1>2, UnderWay DEF StageLeaves
  <1>6. CASE todo[1] # "Flush"
    <2>1. starts' = starts
      BY <1>5, <1>6 DEF Says, playback
    <2>2. ~FlushIsOut /\ ~FlushIsOut'
      BY <1>2, <1>6 DEF FlushIsOut
    <2>3. \A l \in Lines : RenewsStill(l)
      BY <1>2, <1>6 DEF RenewsStill, Renewing
    <2> QED  BY <1>2, <1>3, <1>4, <2>1, <2>2, <2>3, CallStreams
  <1>7. CASE todo[1] = "Flush"
    <2>1. starts' = Append(starts, call[holder].to)
      BY <1>5, <1>7 DEF Says
    <2>2. /\ starts \in Seq(0..Length) /\ timeline \in Nat /\ timeline > 0
          /\ holder \in Callers /\ call[holder].to \in 0..Length
      <3>1. starts \in Seq(0..Length) /\ timeline \in Nat \ {0} /\ holder \in Callers
        BY <1>1, <1>2 DEF Types, PlayTypes, CallTypes
      <3>2. call[holder].to \in Targets \cup {0}
        BY <1>1, <3>1 DEF Types, CallTypes
      <3>3. timeline > 0
        BY <3>1
      <3>4. Targets \cup {0} \subseteq 0 .. Length
        BY SizesAssumption
      <3> QED  BY <3>1, <3>2, <3>3, <3>4
    <2>3. timeline' = timeline + 1 /\ \A s \in 1 .. timeline : starts'[s] = starts[s]
      BY <2>1, <2>2 DEF timeline
    <2>4. FlushIsOut'
      BY <1>2, <1>7 DEF FlushIsOut
    <2>5. ASSUME NEW l \in Lines PROVE Flow(l)' /\ InOrder(l) /\ SourceIs(l)'
      <3>1. Flow(l) /\ SourceIs(l)
        BY DEF Streams
      <3>2. source[l].seg \in 0 .. timeline
        BY <1>1 DEF Types, SourceTypes
      <3>3. source[l].seg < timeline' /\ timeline' # 1
        BY <2>2, <2>3, <3>2
      <3>4. \A x, k : Lies(l, x, k)' <=> Lies(l, x, k)
        <4>1. PICK K : K = {}
          OBVIOUS
        <4>2. \A w \in Workers : w[1] = l => 2 * w[2] \in K \/ channel'[w] = channel[w]
          BY <1>2
        <4>3. \A t \in Threads : t[1] = l =>
                  \/ 2 * t[2] + 1 \in K
                  \/ /\ tpc'[t] = "push" <=> tpc[t] = "push"
                     /\ tpc[t] = "push" => hand'[t] = hand[t]
          BY <1>2
        <4>4. \A x, k : k \notin K => (Lies(l, x, k)' <=> Lies(l, x, k))
          BY <1>1, <4>2, <4>3, LiesElsewhere
        <4> QED  BY <4>1, <4>4
      <3>5. Ascends(l)'
        <4> SUFFICES ASSUME NEW w \in Of(l), NEW i \in 1 .. Len(channel[w]),
                            NEW j \in 1 .. Len(channel[w]), i < j
                     PROVE  Precedes(channel[w][i], channel[w][j])'
          BY <1>2 DEF Ascends, Ascending
        <4>1. channel[w] \in Seq(ItemsTo(timeline)) /\ w \in Workers
          BY <1>1, LineIs DEF Types, ItemTypes
        <4>2. channel[w][i] \in ItemsTo(timeline) /\ channel[w][j] \in ItemsTo(timeline)
          BY <4>1, ItemOf
        <4>3. Precedes(channel[w][i], channel[w][j])
          BY <3>1 DEF Flow, Ascends, Ascending
        <4>4. \A x \in ItemsTo(timeline) : Nth(x)' = Nth(x)
          <5> TAKE x \in ItemsTo(timeline)
          <5>1. x.seg \in 1 .. timeline
            BY <1>1, NthIs
          <5> QED  BY <2>3, <5>1 DEF Nth
        <4>5. PICK x \in ItemsTo(timeline), y \in ItemsTo(timeline) :
                  x = channel[w][i] /\ y = channel[w][j]
          BY <4>2
        <4>6. Precedes(x, y)'
          BY <4>3, <4>4, <4>5 DEF Precedes
        <4>7. channel'[w] = channel[w]
          BY <1>2
        <4> QED  BY <4>5, <4>6, <4>7 DEF Precedes, Nth
      <3>6. Renews(l)
        BY <1>2, <2>3, <2>4, <3>3, <3>4, <3>5 DEF Renews
      <3>7. SourceIs(l)'
        <4>1. Renewing(l)'
          BY <1>2, <1>7 DEF Renewing
        <4>2. tpc[Source(l)] # "begin"
          BY <1>2, <1>7, ThreadsAre DEF Streams, Quiet, Moving
        <4> QED  BY <1>2, <3>3, <4>1, <4>2, <3>1 DEF SourceIs
      <3>8. InOrder(l)
        BY <1>2, NothingInOrder
      <3> QED  BY <1>1, <3>1, <3>6, <3>7, <3>8, RenewsFlow
    <2> QED  BY <1>3, <1>4, <2>5 DEF Streams
  <1> QED  BY <1>6, <1>7

\* Who is flushed is listed, but for what is over.
LEMMA SnapshotsStreams ==
    ASSUME Known, Streams, Snapshots
    PROVE  Streams' /\ \A l \in Lines : InOrder(l)
  <1>1. /\ step = "snapshot" /\ step' = "send" /\ sending' = AskedOf(Head(todo))
        /\ UNCHANGED <<phase, starts, paused, holder, todo, call, waiting, tpc, back, hand,
                       channel, flushing, source, pad, terminal, registered>>
    BY DEF Snapshots, playback, callers, threads, requests, queues, ends
  <1>2. Types /\ todo # <<>>
    BY <1>1 DEF Known, Types, Plan
  <1>3. Head(todo) = todo[1] /\ todo \in AllStages
    BY <1>2, UnderWay DEF StageLeaves
  <1>4. FlushIsOut' <=> FlushIsOut
    BY <1>1 DEF FlushIsOut
  <1>5. \A l \in Lines : RenewsStill(l)
    <2> TAKE l \in Lines
    <2>1. todo[1] = "Seek" => Source(l) \in sending'
      BY <1>1, <1>3, ThreadsAre DEF AskedOf
    <2> QED  BY <1>1, <2>1 DEF RenewsStill, Renewing
  <1>6. PausedIs' /\ Quiet'
    BY <1>1 DEF Streams, PausedIs, Quiet, Moving
  <1>7. FlushReaches'
    <2> SUFFICES ASSUME todo[1] = "Flush", NEW w \in Workers, w \notin sending'
                 PROVE  tpc[w] \in Over
      BY <1>1 DEF FlushReaches, Out
    <2>1. ~registered[w]
      BY <1>1, <1>3 DEF AskedOf
    <2>2. Seekable
      BY <1>2 DEF Known, NoSeek
    <2>3. ~Finishing
      <3>1. todo \in Flushing
        BY <1>2, UnderWay DEF StageLeaves
      <3>2. call[holder].op = "seek"
        BY <1>2, <3>1 DEF Types, Plan
      <3> QED  BY <3>2 DEF Finishing
    <2>4. ~Out("Stop")
      BY <1>1 DEF Out
    <2> QED  BY <1>2, <2>1, <2>2, <2>3, <2>4, LeftOutIsOver DEF Known
  <1> QED  BY <1>1, <1>4, <1>5, <1>6, <1>7, CallStreams

\* Who is sent nothing has left.
LEMMA SendsStreams ==
    ASSUME Known, Streams, Sends
    PROVE  Streams' /\ \A l \in Lines : InOrder(l)
  <1>1. PICK t \in sending :
            /\ sending' = sending \ {t}
            /\ waiting' = IF Receives(t) THEN waiting \cup {t} ELSE waiting
    BY DEF Sends
  <1>2. /\ step = "send"
        /\ UNCHANGED <<phase, starts, paused, todo, step, tpc, back, hand,
                       channel, flushing, source, pad, terminal>>
    BY DEF Sends, playback, threads, queues, ends
  <1>3. Types /\ todo # <<>>
    BY <1>2 DEF Known, Types, Plan
  <1>4. FlushIsOut' <=> FlushIsOut
    BY <1>2 DEF FlushIsOut
  <1>5. \A l \in Lines : RenewsStill(l)
    <2> TAKE l \in Lines
    <2>1. Source(l) \in sending' \cup waiting' => Source(l) \in sending \cup waiting
      BY <1>1
    <2>2. Source(l) \in sending \cup waiting =>
              Source(l) \in sending' \cup waiting' \/ tpc[Source(l)] \in Left
      <3> SUFFICES ASSUME t = Source(l), ~Receives(t) PROVE tpc[Source(l)] \in Left
        BY <1>1
      <3> QED  BY ThreadsAre DEF Receives, Left
    <2> QED  BY <1>2, <2>1, <2>2 DEF RenewsStill, Renewing
  <1>6. PausedIs' /\ Quiet'
    BY <1>2 DEF Streams, PausedIs, Quiet, Moving
  <1>7. FlushReaches'
    <2> SUFFICES ASSUME Out("Flush"), NEW w \in Workers
                 PROVE  w \in sending' \cup waiting' \/ channel[w] = <<>> \/ tpc[w] \in Over
      BY <1>2 DEF FlushReaches, Out
    <2>1. w \in sending \cup waiting \/ channel[w] = <<>> \/ tpc[w] \in Over
      BY DEF Streams, FlushReaches
    <2>2. t = w /\ ~Receives(t) => tpc[w] \in Over
      BY ThreadsAre DEF Receives, Gone, Over
    <2> QED  BY <1>1, <2>1, <2>2
  <1> QED  BY <1>2, <1>4, <1>5, <1>6, <1>7, CallStreams

\* All sent to.
LEMMA InterruptsStreams ==
    ASSUME Known, Streams, Interrupts
    PROVE  Streams' /\ \A l \in Lines : InOrder(l)
  <1>1. /\ step = "send" /\ step' = "acks"
        /\ UNCHANGED <<phase, starts, paused, todo, sending, waiting, tpc, back, hand,
                       channel, flushing, source, pad, terminal>>
    BY DEF Interrupts, callers, threads, requests, queues, ends
  <1>2. FlushIsOut' <=> FlushIsOut
    BY <1>1 DEF FlushIsOut
  <1>3. \A l \in Lines : RenewsStill(l)
    BY <1>1 DEF RenewsStill, Renewing
  <1>4. PausedIs' /\ Quiet'
    BY <1>1 DEF Streams, PausedIs, Quiet, Moving
  <1>5. FlushReaches'
    BY <1>1 DEF Streams, FlushReaches, Out
  <1> QED  BY <1>1, <1>2, <1>3, <1>4, <1>5, CallStreams

\* A preroll waited for, or retired.
LEMMA AwaitsStreams ==
    ASSUME Known, Streams, Awaits
    PROVE  Streams' /\ \A l \in Lines : InOrder(l)
  <1>1. /\ step = "say" /\ todo # <<>> /\ Head(todo) \in {"await", "retire"} /\ todo' = Tail(todo)
        /\ UNCHANGED <<phase, starts, paused, step, sending, waiting, tpc, back, hand,
                       channel, flushing, source, pad, terminal>>
    BY DEF Awaits, playback, callers, threads, requests, queues, ends
  <1>2. Types /\ StageLeaves(todo) /\ todo \in AllStages
    BY <1>1, UnderWay DEF Known
  <1>3. /\ todo[1] \in {"await", "retire"} /\ todo' # <<>>
        /\ todo'[1] \notin {"Flush", "Seek", "Preroll"}
    BY <1>1, <1>2, SeekIsNext DEF StageLeaves
  <1>4. FlushIsOut' <=> FlushIsOut
    BY <1>1, <1>3 DEF FlushIsOut
  <1>5. \A l \in Lines : RenewsStill(l)
    BY <1>1, <1>3 DEF RenewsStill, Renewing
  <1>6. PausedIs' /\ Quiet'
    BY <1>3 DEF PausedIs, Quiet, Moving
  <1>7. FlushReaches'
    BY <1>1 DEF FlushReaches, Out
  <1> QED  BY <1>1, <1>4, <1>5, <1>6, <1>7, CallStreams

\* The queues flushed, nothing is on a clear way.
LEMMA FlushedIsClear ==
    ASSUME Types, Quiet, FlushReaches, Out("Flush"), sending = {}, waiting = {},
           NEW l \in Lines, NEW x, NEW k, Lies(l, x, k)
    PROVE  ~Clear(l, k)
  <1>1. /\ \A w \in Workers : channel[w] = <<>> \/ tpc[w] \in Over
        /\ \A t \in Threads : tpc[t] # "push"
    <2>1. \A t \in Threads : t \in Sources \/ t \in Workers
      BY ThreadsAre
    <2>2. todo # <<>> /\ todo[1] = "Flush"
      BY DEF Out
    <2> QED  BY <2>1, <2>2 DEF FlushReaches, Quiet, Moving, Out, Over
  <1>2. PICK w \in Workers : w[1] = l /\ k = 2 * w[2] /\ x \in ItemsOf(channel[w])
    BY <1>1 DEF Lies
  <1>3. channel[w] # <<>>
    BY <1>2 DEF ItemsOf
  <1>4. tpc[w] \in Over /\ w \in Of(l) /\ w[2] \in Int
    BY <1>1, <1>2, <1>3, ThreadsAre DEF Of
  <1>5. 2 * w[2] >= k
    BY <1>2, <1>4
  <1> QED  BY <1>4, <1>5 DEF Clear

\* So the line is in order once the timeline is on.
LEMMA FlushedStreams ==
    ASSUME Types, NEW l \in Lines, Flow(l),
           UNCHANGED <<starts, tpc, hand, channel, flushing, source, pad, terminal>>,
           \A x, k : Lies(l, x, k) => ~Clear(l, k)
    PROVE  Flow(l)'
  <1>1. /\ timeline' = timeline
        /\ \A x : Nth(x)' = Nth(x)
        /\ \A x, y : Precedes(x, y)' <=> Precedes(x, y)
        /\ \A k : Clear(l, k)' <=> Clear(l, k)
    BY DEF timeline, Nth, Precedes, Clear
  <1>2. \A x, k : Lies(l, x, k)' <=> Lies(l, x, k)
    <2>1. PICK K : K = {}
      OBVIOUS
    <2>2. \A w \in Workers : w[1] = l => 2 * w[2] \in K \/ channel'[w] = channel[w]
      OBVIOUS
    <2>3. \A t \in Threads : t[1] = l =>
              \/ 2 * t[2] + 1 \in K
              \/ /\ tpc'[t] = "push" <=> tpc[t] = "push"
                 /\ tpc[t] = "push" => hand'[t] = hand[t]
      OBVIOUS
    <2>4. \A x, k : k \notin K => (Lies(l, x, k)' <=> Lies(l, x, k))
      BY <2>2, <2>3, LiesElsewhere
    <2> QED  BY <2>1, <2>4
  <1>3. Ascends(l)'
    BY <1>1 DEF Flow, Ascends, Ascending
  <1>4. Ordered(l)'
    BY <1>1, <1>2 DEF Flow, Ordered
  <1>5. Topped(l)'
    BY <1>1, <1>2 DEF Flow, Topped, TopNth
  <1>6. Made(l)'
    BY <1>1, <1>2 DEF Flow, Made
  <1>7. TopMade(l)'
    BY DEF Flow, TopMade
  <1>8. Fresh(l)' /\ Gapless(l)'
    BY <1>1, <1>2 DEF Fresh, Gapless
  <1>9. LastMade(l)'
    BY <1>1, <1>2 DEF Flow, LastMade, Reached
  <1>10. FlushMet(l)'
    BY <1>1, <1>2 DEF Flow, FlushMet
  <1>11. FirstOnly(l)'
    BY <1>1, <1>2 DEF Flow, FirstOnly
  <1> QED  BY <1>3, <1>4, <1>5, <1>6, <1>7, <1>8, <1>9, <1>10, <1>11 DEF Flow

\* A stage over, the next finds the pipeline as the last has left it.
LEMMA SettlesStreams ==
    ASSUME Known, Streams, Settles
    PROVE  Streams' /\ \A l \in Lines : InOrder(l)
  <1>1. /\ step = "acks" /\ waiting = {} /\ todo' = Tail(todo) /\ step' = "say"
        /\ UNCHANGED <<phase, starts, paused, sending, waiting, tpc, back, hand,
                       channel, flushing, source, pad, terminal>>
    BY DEF Settles, AllAcked, callers, threads, requests, queues, ends
  <1>2. Types /\ todo # <<>> /\ sending = {}
    BY <1>1 DEF Known, Types, RequestTypes, Plan
  <1>3. StageLeaves(todo) /\ todo \in AllStages
    BY <1>2, UnderWay
  <1>4. /\ todo[1] = "Flush" => todo' # <<>> /\ todo'[1] = "Seek"
        /\ todo' # <<>> /\ todo'[1] = "Flush" => todo[1] = "Pause"
        /\ todo' # <<>> /\ todo'[1] = "Seek" => todo[1] = "Flush"
        /\ todo' # <<>> /\ todo'[1] = "Preroll" => todo[1] = "Seek"
    BY <1>1, <1>3, SeekIsNext
  <1>5. Out(todo[1])
    BY <1>1, <1>2 DEF Out
  <1>6. PausedIs'
    <2> SUFFICES ASSUME paused, Tail(todo) = <<>> PROVE phase = "paused"
      BY <1>1 DEF PausedIs
    <2>1. todo \notin ToPlaying \cup ToStop \cup ToFinish
      BY <1>2 DEF Types, Plan
    <2>2. todo[1] = "Pause"
      BY <1>3, <2>1 DEF StageLeaves
    <2> QED  BY <1>1, <1>2, <2>2 DEF Types, Plan
  <1>7. Quiet'
    <2>1. CASE todo[1] \in {"Flush", "Seek"}
      BY <1>1, <1>2, <2>1 DEF Streams, Quiet, Moving
    <2>2. CASE todo[1] \notin {"Flush", "Seek"}
      <3> SUFFICES ASSUME todo' # <<>>, todo'[1] = "Flush" PROVE Quiet'
        BY <1>4, <2>2 DEF Quiet, Moving
      <3>1. todo[1] = "Pause" /\ phase = "paused"
        BY <1>1, <1>2, <1>4 DEF Types, Plan
      <3>2. Seekable
        <4>1. todo # <<"Pause">> /\ todo # <<"Resume">> /\ todo \notin ToStop \cup ToFinish
          <5>1. todo \notin ToStop \cup ToFinish
            BY <1>3, <3>1 DEF StageLeaves
          <5>2. todo # <<"Resume">>
            BY <3>1
          <5>3. todo # <<"Pause">>
            <6>1. <<"Pause">> \in Seq({"Pause"}) /\ Len(<<"Pause">>) = 1 /\ <<"Pause">> # <<>>
              OBVIOUS
            <6>2. Tail(<<"Pause">>) = <<>>
              BY <6>1, HeadOf
            <6> QED  BY <1>1, <6>2
          <5> QED  BY <5>1, <5>2, <5>3
        <4> QED  BY <1>2, <4>1 DEF Known, NoSeek
      <3>3. Protocol /\ Out("Pause")
        BY <1>5, <3>1, <3>2 DEF Known
      <3>4. \A w \in Workers : tpc[w] \in Over \cup {"paused", "carrying"}
        BY <1>1, <1>2, <3>3 DEF Protocol, PauseReaches
      <3>5. \A s \in Sources : tpc[s] \in {"paused", "dropping", "joining", "done"}
        BY <1>1, <1>2, <3>3 DEF Protocol, PauseReaches
      <3>6. \A w \in Workers : tpc[w] # "carrying"
        <4> SUFFICES ASSUME NEW w \in Workers, tpc[w] = "carrying" PROVE FALSE
          OBVIOUS
        <4>1. tpc[Source(w[1])] = "carrying"
          BY <3>3 DEF Protocol, Carrying
        <4>2. Source(w[1]) \in Sources
          BY ThreadsAre
        <4> QED  BY <3>5, <4>1, <4>2
      <3> QED  BY <1>1, <3>1, <3>4, <3>5, <3>6 DEF Quiet, Moving
    <2> QED  BY <2>1, <2>2
  <1>8. FlushReaches'
    BY <1>1 DEF FlushReaches, Out
  <1>9. \A l \in Lines : RenewsStill(l)
    BY <1>1, <1>2, <1>4 DEF RenewsStill, Renewing
  <1>10. CASE todo[1] # "Flush"
    <2>1. FlushIsOut' <=> FlushIsOut
      BY <1>1, <1>2, <1>10 DEF FlushIsOut
    <2> QED  BY <1>1, <1>6, <1>7, <1>8, <1>9, <2>1, CallStreams
  <1>11. CASE todo[1] = "Flush"
    <2>1. Quiet /\ FlushReaches /\ Out("Flush")
      BY <1>5, <1>11 DEF Streams
    <2>2. ASSUME NEW l \in Lines PROVE Flow(l)' /\ InOrder(l) /\ SourceIs(l)'
      <3>1. Flow(l) /\ SourceIs(l) /\ RenewsStill(l)
        BY <1>9 DEF Streams
      <3>2. \A x, k : Lies(l, x, k) => ~Clear(l, k)
        BY <1>1, <1>2, <2>1, FlushedIsClear
      <3>3. Flow(l)'
        BY <1>1, <1>2, <3>1, <3>2, FlushedStreams
      <3>4. InOrder(l)
        BY <1>1, NothingInOrder
      <3>5. SourceIs(l)'
        BY <1>1, <3>1 DEF SourceIs, RenewsStill, timeline
      <3> QED  BY <3>3, <3>4, <3>5
    <2> QED  BY <1>6, <1>7, <1>8, <2>2 DEF Streams
  <1> QED  BY <1>10, <1>11

-----------------------------------------------------------------------------
(* Where a source cannot be sought, none ever is.                          *)

\* A thread is left the requests it had, fewer of them, or one more that is
\* neither of a seek's.
NoSeekAsked(t) ==
    \/ control'[t] = control[t]
    \/ control'[t] = <<>>
    \/ control[t] # <<>> /\ control'[t] = Tail(control[t])
    \/ \E asked \in [msg : StageNames \ {"Flush", "Seek"}, direct : BOOLEAN] :
           control'[t] = Append(control[t], asked)

\* So none of its requests is a seek's.
LEMMA AsksNoSeek ==
    ASSUME Types, NoSeek, NEW t \in Threads, NoSeekAsked(t)
    PROVE  \A i \in 1 .. Len(control'[t]) : control'[t][i].msg \notin {"Flush", "Seek"}
  <1> DEFINE R == [msg : StageNames, direct : BOOLEAN]
  <1>1. /\ control[t] \in Seq(R)
        /\ \A i \in 1 .. Len(control[t]) : control[t][i].msg \notin {"Flush", "Seek"}
    BY DEF Types, RequestTypes, NoSeek
  <1>2. CASE control'[t] = control[t]
    BY <1>1, <1>2
  <1>3. CASE control'[t] = <<>>
    <2>1. Len(control'[t]) = 0
      BY <1>3
    <2> QED  BY <2>1
  <1>4. CASE control[t] # <<>> /\ control'[t] = Tail(control[t])
    <2>1. \A i \in 1 .. Len(Tail(control[t])) :
              Tail(control[t])[i] = control[t][i+1] /\ i+1 \in 1 .. Len(control[t])
      BY <1>1, <1>4, HeadOf
    <2> QED  BY <1>1, <1>4, <2>1
  <1>5. ASSUME NEW asked \in [msg : StageNames \ {"Flush", "Seek"}, direct : BOOLEAN],
               control'[t] = Append(control[t], asked)
        PROVE  \A i \in 1 .. Len(control'[t]) : control'[t][i].msg \notin {"Flush", "Seek"}
    <2>1. asked \in R /\ asked.msg \notin {"Flush", "Seek"}
      OBVIOUS
    <2>2. \A i \in 1 .. Len(Append(control[t], asked)) :
              \/ i \in 1 .. Len(control[t]) /\ Append(control[t], asked)[i] = control[t][i]
              \/ i = Len(control[t]) + 1 /\ Append(control[t], asked)[i] = asked
      BY <1>1, <2>1, AppendOf
    <2> HIDE DEF R
    <2>3. ASSUME NEW i \in 1 .. Len(control'[t])
          PROVE  control'[t][i].msg \notin {"Flush", "Seek"}
      <3>1. CASE i \in 1 .. Len(control[t]) /\ control'[t][i] = control[t][i]
        <4>1. control[t][i].msg \notin {"Flush", "Seek"}
          BY <1>1, <3>1
        <4> QED  BY <3>1, <4>1
      <3>2. CASE control'[t][i] = asked
        BY <2>1, <3>2
      <3> QED  BY <1>5, <2>2, <2>3, <3>1, <3>2
    <2> QED  BY <2>3
  <1> QED  BY <1>2, <1>3, <1>4, <1>5 DEF NoSeekAsked

\* So no request of a seek comes where none was.
LEMMA NoSeekStays ==
    ASSUME Types, NoSeek, UNCHANGED <<starts, todo>>, \A t \in Threads : NoSeekAsked(t)
    PROVE  NoSeek'
  <1>1. \A t \in Threads : \A i \in 1 .. Len(control'[t]) :
            control'[t][i].msg \notin {"Flush", "Seek"}
    BY AsksNoSeek
  <1> QED  BY <1>1 DEF NoSeek, timeline

\* What is sent is the stage under way, which is none of a seek's.
LEMMA SendsNoSeek ==
    ASSUME Types, NoSeek, Sends
    PROVE  NoSeek'
  <1>1. PICK t \in sending :
            control' = IF Receives(t)
                       THEN [control EXCEPT ![t] = Append(@, Direct(Head(todo)))] ELSE control
    BY DEF Sends
  <1>2. step = "send" /\ UNCHANGED <<starts, todo>>
    BY DEF Sends, playback
  <1>3. t \in Threads /\ todo # <<>> /\ control \in [Threads -> Seq([msg : StageNames, direct : BOOLEAN])]
    BY <1>1, <1>2 DEF Types, RequestTypes, Plan
  <1>4. Head(todo) = todo[1] /\ todo[1] \in StageNames
    BY <1>3, UnderWay DEF StageLeaves
  <1>5. PICK asked \in [msg : StageNames \ {"Flush", "Seek"}, direct : BOOLEAN] :
            asked = Direct(Head(todo))
    BY <1>3, <1>4 DEF NoSeek, Direct
  <1>6. \A u \in Threads : NoSeekAsked(u)
    BY <1>1, <1>3, <1>5 DEF NoSeekAsked
  <1> QED  BY <1>2, <1>6, NoSeekStays

\* A stage over, what is left has none.
LEMMA LeavesNoSeek ==
    ASSUME Types, NoSeek, todo # <<>>, todo' = Tail(todo), UNCHANGED <<starts, control>>
    PROVE  NoSeek'
  <1>1. StageLeaves(todo) /\ todo \in AllStages
    BY UnderWay
  <1>2. todo' \in {<<>>, <<"Finish">>}
    <2>1. CASE todo \in ToStop \cup ToFinish
      BY <1>1, <2>1 DEF StageLeaves
    <2>2. CASE todo \in {<<"Pause">>, <<"Resume">>}
      <3>1. todo \in Seq(StageNames)
        BY <1>1 DEF StageLeaves
      <3>2. Len(todo) = 1
        BY <2>2
      <3> QED  BY <3>1, <3>2, HeadOf
    <2> QED  BY <2>1, <2>2 DEF NoSeek
  <1>3. todo' \in {<<>>} \cup ToFinish /\ (todo' # <<>> => todo'[1] \notin {"Flush", "Seek"})
    <2>1. CASE todo' = <<>>
      BY <2>1
    <2>2. CASE todo' = <<"Finish">>
      <3>1. todo' \in ToFinish
        BY <2>2 DEF ToFinish
      <3>2. todo'[1] = "Finish"
        BY <2>2
      <3> QED  BY <3>1, <3>2
    <2> QED  BY <1>2, <2>1, <2>2
  <1> QED  BY <1>3 DEF NoSeek, timeline

\* A call that begins is no seek.
LEMMA BeginsNoSeek ==
    ASSUME ~Seekable, Types, NoSeek, NEW c \in Callers, Begins(c)
    PROVE  NoSeek'
  <1>1. /\ ~Refused(call[c].op) /\ todo' = Stages(call[c].op) /\ cpc[c] = "locking"
        /\ UNCHANGED <<starts, control>>
    BY DEF Begins, playback, requests
  <1>2. call[c].op \in Ops /\ paused \in BOOLEAN
    BY <1>1 DEF Types, CallTypes, PlayTypes
  <1>3. call[c].op \in {"pause", "resume", "stop", "finish"}
    BY <1>1, <1>2, OpsAssumption DEF Refused
  <1>4. todo' \in ToStop \cup ToFinish \cup {<<"Pause">>, <<"Resume">>}
    BY <1>1, <1>2, <1>3, StagesAre DEF ToStop, ToFinish
  <1>5. todo'[1] \notin {"Flush", "Seek"}
    BY <1>4 DEF ToStop, ToFinish
  <1> QED  BY <1>1, <1>4, <1>5 DEF NoSeek, timeline

\* A Stop carried on is no seek.
LEMMA CarriesNoSeek ==
    ASSUME Types, NoSeek, NEW w \in Workers, WorkerCarries(w)
    PROVE  NoSeek'
  <1>1. /\ control[w] # <<>> /\ ~IsLast(w) /\ UNCHANGED <<starts, todo>>
        /\ control' = [control EXCEPT ![w] = Tail(@), ![After(w)] = Append(@, Head(control[w]))]
    BY DEF WorkerCarries, GoesFurther, playback, lock
  <1>2. w \in Threads /\ After(w) \in Threads /\ After(w) # w
        /\ control \in [Threads -> Seq([msg : StageNames, direct : BOOLEAN])]
    BY <1>1, Neighbours, ThreadsAre DEF Types, RequestTypes
  <1>3. Head(control[w]) = control[w][1] /\ Len(control[w]) \in Nat /\ Len(control[w]) > 0
        /\ control[w][1] \in [msg : StageNames, direct : BOOLEAN]
    BY <1>1, <1>2, HeadOf
  <1>4. control[w][1].msg \notin {"Flush", "Seek"}
    BY <1>2, <1>3 DEF NoSeek
  <1>5. PICK asked \in [msg : StageNames \ {"Flush", "Seek"}, direct : BOOLEAN] :
            asked = Head(control[w])
    BY <1>3, <1>4
  <1>6. control'[After(w)] = Append(control[After(w)], asked) /\ control'[w] = Tail(control[w])
        /\ \A u \in Threads : u \notin {w, After(w)} => control'[u] = control[u]
    BY <1>1, <1>2, <1>5
  <1>7. \A u \in Threads : NoSeekAsked(u)
    BY <1>1, <1>6 DEF NoSeekAsked
  <1> QED  BY <1>1, <1>7, NoSeekStays

\* A source's thread asks nothing but a Stop, when it fails.
LEMMA SourceNoSeek ==
    ASSUME Types, NoSeek, NEW l \in Lines, SourceThread(l) \/ SourceFails(l)
    PROVE  NoSeek'
  <1>1. control \in [Threads -> Seq([msg : StageNames, direct : BOOLEAN])]
        /\ Source(l) \in Threads /\ After(Source(l)) \in Threads
    BY ThreadsAre, Neighbours DEF Types, RequestTypes
  <1>2. UNCHANGED <<starts, todo>>
    BY DEF SourceThread, SourceBegins, SourceProduces, SourceHandsOn, SourceEnds, SourceTakes,
       SourceFinishes, SourceFinished, SourceCarried, SourceReturns, DropsReceiver, SourceDrops,
       SourceJoins, SourceFails, playback, lock
  <1>3. PICK asked \in [msg : StageNames \ {"Flush", "Seek"}, direct : BOOLEAN] :
            asked = Carried("Stop")
    BY DEF Carried, StageNames
  <1>4. \/ control' = control
        \/ /\ control[Source(l)] # <<>>
           /\ control' = [control EXCEPT ![Source(l)] = Tail(@)]
        \/ control' = [control EXCEPT ![Source(l)] = <<>>]
        \/ control' = [control EXCEPT ![After(Source(l))] = Append(@, asked)]
    BY <1>3 DEF SourceThread, SourceBegins, SourceProduces, SourceHandsOn, SourceEnds, SourceTakes,
       SourceFinishes, SourceFinished, SourceCarried, SourceReturns, DropsReceiver, SourceDrops,
       SourceJoins, SourceFails, requests
  <1>5. \A t \in Threads : NoSeekAsked(t)
    BY <1>1, <1>4 DEF NoSeekAsked
  <1> QED  BY <1>2, <1>5, NoSeekStays

\* A worker's asks nothing but a Stop, where it carries one on.
LEMMA WorkerNoSeek ==
    ASSUME Types, NoSeek, NEW w \in Workers, WorkerThread(w)
    PROVE  NoSeek'
  <1>1. CASE WorkerCarries(w)
    BY <1>1, CarriesNoSeek
  <1>2. CASE ~WorkerCarries(w)
    <2>1. control \in [Threads -> Seq([msg : StageNames, direct : BOOLEAN])] /\ w \in Threads
      BY ThreadsAre DEF Types, RequestTypes
    <2>2. UNCHANGED <<starts, todo>>
      BY <1>2 DEF WorkerThread, WorkerLooks, WorkerLooksAgain, WorkerForwards, WorkerHandsOn,
         WorkerTakes, WorkerCarried, DeliverPending, WorkerDrops, WorkerDone, playback, lock
    <2>3. \/ control' = control
          \/ control[w] # <<>> /\ control' = [control EXCEPT ![w] = Tail(@)]
          \/ control' = [control EXCEPT ![w] = <<>>]
      BY <1>2 DEF WorkerThread, WorkerLooks, WorkerLooksAgain, WorkerForwards, WorkerHandsOn,
         WorkerTakes, WorkerCarried, DeliverPending, WorkerDrops, WorkerDone, requests
    <2>4. \A t \in Threads : NoSeekAsked(t)
      BY <2>1, <2>3 DEF NoSeekAsked
    <2> QED  BY <2>2, <2>4, NoSeekStays
  <1> QED  BY <1>1, <1>2

\* Each step keeps it.
LEMMA NextNoSeek == ~Seekable /\ Types /\ NoSeek /\ [Next]_vars => NoSeek'
  <1> SUFFICES ASSUME ~Seekable, Types, NoSeek, [Next]_vars PROVE NoSeek'
    OBVIOUS
  <1>1. ASSUME UNCHANGED <<starts, todo, control>> PROVE NoSeek'
    BY <1>1, NoSeekStays DEF NoSeekAsked
  <1>2. CASE \E c \in Callers : Calls(c) \/ Caller(c)
    <2>1. ASSUME NEW c \in Callers, Calls(c) \/ Refuses(c) \/ Joins(c) PROVE NoSeek'
      BY <1>1, <2>1 DEF Calls, Refuses, Joins, playback, lock, requests
    <2> QED  BY <1>2, <2>1, BeginsNoSeek DEF Caller
  <1>3. CASE Asks
    <2>1. CASE Says
      <3>1. todo # <<>> /\ Head(todo) = todo[1] /\ todo[1] # "Flush"
        <4>1. todo # <<>>
          BY <2>1 DEF Says
        <4> QED  BY <4>1, UnderWay DEF NoSeek, StageLeaves
      <3>2. UNCHANGED <<todo, control>> /\ starts' = starts
        BY <2>1, <3>1 DEF Says, requests, playback
      <3> QED  BY <1>1, <3>2
    <2>2. CASE Snapshots \/ Interrupts \/ Completes
      BY <1>1, <2>2 DEF Snapshots, Interrupts, Completes, playback, lock, requests
    <2>3. CASE Settles
      <3>1. todo # <<>> /\ todo' = Tail(todo) /\ UNCHANGED <<starts, control>>
        BY <2>3 DEF Settles, requests, Types, Plan
      <3> QED  BY <3>1, LeavesNoSeek
    <2>4. CASE Awaits
      <3>1. todo # <<>> /\ todo' = Tail(todo) /\ UNCHANGED <<starts, control>>
        BY <2>4 DEF Awaits, requests, playback
      <3> QED  BY <3>1, LeavesNoSeek
    <2> QED  BY <1>3, <2>1, <2>2, <2>3, <2>4, SendsNoSeek DEF Asks
  <1>4. CASE \E l \in Lines : SourceThread(l) \/ SourceFails(l)
    BY <1>4, SourceNoSeek
  <1>5. CASE \E w \in Workers : WorkerThread(w)
    BY <1>5, WorkerNoSeek
  <1>6. CASE UNCHANGED vars
    BY <1>1, <1>6 DEF vars, playback, lock, requests
  <1> QED  BY <1>2, <1>3, <1>4, <1>5, <1>6 DEF Next

\* It holds as the pipeline starts.
LEMMA InitNoSeek == Init => NoSeek
  <1> SUFFICES ASSUME Init PROVE NoSeek
    OBVIOUS
  <1>1. starts = <<0>> /\ todo = <<>> /\ control = [t \in Threads |-> <<>>]
    BY DEF Init
  <1>2. timeline = 1
    BY <1>1 DEF timeline
  <1>3. \A t \in Threads : Len(control[t]) = 0
    BY <1>1
  <1> QED  BY <1>1, <1>2, <1>3 DEF NoSeek

\* Nothing is on its way as the pipeline starts.
LEMMA InitStreams == Init => Streams
  <1> SUFFICES ASSUME Init PROVE Streams
    OBVIOUS
  <1>1. /\ phase = "playing" /\ paused = FALSE /\ todo = <<>> /\ starts = <<0>>
        /\ tpc = [t \in Threads |-> IF t \in Sources THEN "begin" ELSE "look"]
        /\ channel = [w \in Workers |-> <<>>] /\ flushing = [w \in Workers |-> FALSE]
        /\ source = [l \in Lines |-> [pos |-> 0, seg |-> 0, sought |-> FALSE]]
        /\ pad = [l \in Lines |-> [flushing |-> FALSE, ended |-> FALSE]]
        /\ terminal = [l \in Lines |-> [seg |-> 0, from |-> 0, at |-> 0,
                                        ended |-> FALSE, heard |-> FALSE]]
    BY DEF Init
  <1>2. /\ \A t \in Threads : tpc[t] # "push"
        /\ \A w \in Workers : Len(channel[w]) = 0 /\ ~flushing[w]
        /\ \A l \in Lines :
               /\ Source(l) \in Sources /\ tpc[Source(l)] = "begin"
               /\ source[l].pos = 0 /\ source[l].seg = 0
               /\ ~pad[l].flushing /\ ~pad[l].ended
               /\ terminal[l].seg = 0 /\ terminal[l].at = 0 /\ ~terminal[l].ended
    BY <1>1, ThreadsAre
  <1>3. timeline = 1 /\ starts[1] = 0
    BY <1>1 DEF timeline
  <1>4. PausedIs /\ Quiet /\ FlushReaches
    BY <1>1 DEF PausedIs, Quiet, Moving, FlushReaches, Out
  <1>5. ASSUME NEW l \in Lines PROVE Flow(l) /\ SourceIs(l)
    <2>1. \A w \in Of(l) : w \in Workers
      BY DEF Of
    <2>2. \A x, k : ~Lies(l, x, k)
      BY <1>2 DEF Lies, ItemsOf
    <2>3. Ordered(l) /\ Topped(l) /\ Made(l) /\ Fresh(l) /\ Gapless(l)
      BY <2>2 DEF Ordered, Topped, Made, Fresh, Gapless
    <2>4. Ascends(l)
      BY <1>2, <2>1 DEF Ascends, Ascending
    <2>5. TopMade(l)
      BY <1>2 DEF TopMade
    <2>6. LastMade(l)
      BY <1>2, <1>3 DEF LastMade
    <2>7. FlushMet(l) /\ FirstOnly(l)
      BY <1>2, <2>1, <2>2 DEF FlushMet, FirstOnly
    <2>8. SourceIs(l)
      BY <1>1, <1>2, <1>3 DEF SourceIs, Renewing, Left
    <2> QED  BY <2>3, <2>4, <2>5, <2>6, <2>7, <2>8 DEF Flow
  <1> QED  BY <1>4, <1>5 DEF Streams

\* Each step keeps it, and hands each terminal what is in order.
LEMMA NextStreams ==
    Known /\ Types' /\ Streams /\ [Next]_vars => Streams' /\ \A l \in Lines : InOrder(l)
  <1> SUFFICES ASSUME Known, Types', Streams, [Next]_vars
               PROVE  Streams' /\ \A l \in Lines : InOrder(l)
    OBVIOUS
  <1>1. CASE \E c \in Callers : Calls(c) \/ Caller(c)
    BY <1>1, OthersStreams, BeginsStreams DEF Caller
  <1>2. CASE Asks
    <2>1. CASE Completes
      <3>1. holder \in Callers
        BY <2>1 DEF Completes, Known, Types, CallTypes
      <3> QED  BY <2>1, <3>1, OthersStreams
    <2> QED  BY <1>2, <2>1, SaysStreams, SnapshotsStreams, SendsStreams, InterruptsStreams,
             SettlesStreams, AwaitsStreams DEF Asks
  <1>3. CASE \E l \in Lines : SourceThread(l) \/ SourceFails(l)
    BY <1>3, SourceStreams
  <1>4. CASE \E w \in Workers : WorkerThread(w)
    BY <1>4, WorkerStreams
  <1>5. CASE UNCHANGED vars
    <2>1. UNCHANGED <<phase, starts, paused, todo, step, sending, waiting, tpc, back, hand,
                      channel, flushing, source, pad, terminal>>
      BY <1>5 DEF vars, playback, lock, threads, requests, queues, ends
    <2> QED  BY <2>1, CallerStreams
  <1> QED  BY <1>1, <1>2, <1>3, <1>4, <1>5 DEF Next

\* So it holds throughout: where the sources can be sought by what Protocol says
\* of a flush, where they cannot because nothing is flushed.
LEMMA AlwaysStreams == Spec => [](Known /\ Streams)
  <1>1. Counts => Types
    BY DEF Counts
  <1>2. CASE Seekable
    <2>1. Types /\ Protocol => Known
      BY <1>2 DEF Known
    <2> QED  BY <1>1, <1>2, <2>1, InitStreams, NextStreams, AlwaysCounts, AlwaysProtocol, PTL
             DEF Spec
  <1>3. CASE ~Seekable
    <2>1. Types /\ NoSeek => Known
      BY <1>3 DEF Known
    <2>2. Types /\ NoSeek /\ [Next]_vars => NoSeek'
      BY <1>3, NextNoSeek
    <2> QED  BY <1>1, <2>1, <2>2, InitNoSeek, InitStreams, NextStreams, AlwaysCounts, PTL
             DEF Spec
  <1> QED  BY <1>2, <1>3

\* What a terminal is handed comes in order, with no sample missing or twice,
\* through seeks, finishes, failures and drops: nothing of a timeline that is
\* over reaches it in a preroll, and an end of stream only what its source had
\* made.
THEOREM StreamInOrderHolds == Spec => StreamInOrder
  <1>1. Known => Types
    BY DEF Known
  <1>2. Known /\ Types' /\ Streams /\ [Next]_vars =>
            [\A l \in Lines :
                LET was == terminal[l]  is == terminal'[l]
                    moves == is.seg # was.seg \/ is.from # was.from \/ is.at # was.at IN
                /\ moves /\ is.seg = was.seg =>
                      is.from = is.seg /\ is.at = was.at + 1 /\ ~was.ended
                /\ moves /\ preroll.on => is.seg = timeline
                /\ is.ended /\ ~was.ended /\ source[l].seg = is.seg =>
                      is.at = source[l].pos]_vars
    BY NextStreams DEF InOrder
  <1> QED  BY <1>1, <1>2, AlwaysStreams, PTL DEF Spec, StreamInOrder

-----------------------------------------------------------------------------
(* That a terminal a preroll counts as ready stands at the target.         *)

\* A preroll that nobody has given up.
Prerolls == preroll.on /\ ~preroll.cancelled

\* A worker before a terminal that is ready is not at its select, where it would
\* take one more.
ReadyStays == Prerolls => \A l \in preroll.ready : tpc[LastOf(l)] # "select"

\* From a new timeline to its preroll, no terminal has been handed any of it.
Moved == Moving /\ (todo[1] = "Flush" => step # "say")
Renewed == Moved => \A l \in Lines : terminal[l].seg # timeline

\* In a preroll a terminal is ready with one sample at the target, or the end, and
\* has been handed nothing but the segment until then.
AtTarget(l) ==
    /\ terminal[l].seg = timeline
    /\ \/ terminal[l].at = starts[timeline] + 1
       \/ terminal[l].at = starts[timeline] /\ terminal[l].ended
AtStart(l) == terminal[l].seg = timeline => terminal[l].at = starts[timeline] /\ ~terminal[l].ended
Readies ==
    Prerolls /\ ~Moving =>
        \A l \in Lines : IF l \in preroll.ready THEN AtTarget(l) ELSE AtStart(l)

PrerollIs == ReadyStays /\ Renewed /\ Readies

\* A step that hands no terminal anything, and begins no preroll and no timeline.
Waits ==
    /\ starts' = starts
    /\ Moved' => Moved
    /\ Prerolls' => Prerolls /\ preroll'.ready = preroll.ready /\ (~Moving' => ~Moving)
    /\ \A l \in Lines :
           /\ terminal'[l].seg = terminal[l].seg /\ terminal'[l].at = terminal[l].at
           /\ terminal'[l].ended = terminal[l].ended
           /\ tpc'[LastOf(l)] = "select" =>
                  tpc[LastOf(l)] = "select" \/ ~Prerolls \/ l \notin preroll.ready

\* Such a step keeps it.
LEMMA WaitsPreroll ==
    ASSUME Types, PrerollIs, Waits
    PROVE  PrerollIs'
  <1>1. preroll.ready \subseteq Lines /\ timeline' = timeline
    BY DEF Types, PlayTypes, Waits, timeline
  <1>2. ReadyStays'
    BY <1>1 DEF Waits, PrerollIs, ReadyStays, Prerolls
  <1>3. Renewed'
    BY <1>1 DEF Waits, PrerollIs, Renewed
  <1>4. Readies'
    <2> SUFFICES ASSUME Prerolls', ~Moving', NEW l \in Lines
                 PROVE  IF l \in preroll'.ready THEN AtTarget(l)' ELSE AtStart(l)'
      BY DEF Readies
    <2>1. /\ Prerolls /\ ~Moving /\ preroll'.ready = preroll.ready
          /\ terminal'[l].seg = terminal[l].seg /\ terminal'[l].at = terminal[l].at
          /\ terminal'[l].ended = terminal[l].ended /\ starts' = starts
      BY DEF Waits
    <2>2. IF l \in preroll.ready THEN AtTarget(l) ELSE AtStart(l)
      BY <2>1 DEF PrerollIs, Readies
    <2>3. AtTarget(l)' <=> AtTarget(l)
      BY <1>1, <2>1 DEF AtTarget
    <2>4. AtStart(l)' <=> AtStart(l)
      BY <1>1, <2>1 DEF AtStart
    <2> QED  BY <2>1, <2>2, <2>3, <2>4
  <1> QED  BY <1>2, <1>3, <1>4 DEF PrerollIs

\* What it rests on of a step that leaves the terminals and their workers alone.
LEMMA CallWaits ==
    ASSUME UNCHANGED <<starts, preroll, tpc, terminal>>, Moved' => Moved, Moving => Moving'
    PROVE  Waits
  BY DEF Waits, Prerolls

\* A call made may give a preroll up, and none is begun but by its stage.
LEMMA CallsPreroll ==
    ASSUME Types, PrerollIs, NEW c \in Callers,
           Calls(c) \/ Refuses(c) \/ Begins(c) \/ Joins(c)
    PROVE  PrerollIs'
  <1>1. CASE Calls(c)
    <2>1. UNCHANGED <<starts, todo, step, tpc, terminal>>
      BY <1>1 DEF Calls, lock, threads, ends
    <2>2. PICK op \in Ops :
              preroll' = IF op \in {"stop", "finish"}
                         THEN [preroll EXCEPT !.cancelled = @ \/ active] ELSE preroll
      <3>1. PICK op \in Ops :
                IF op \in {"stop", "finish"}
                THEN preroll' = [preroll EXCEPT !.cancelled = @ \/ active]
                ELSE UNCHANGED <<slot, preroll>>
        BY <1>1 DEF Calls
      <3> QED  BY <3>1
    <2>3. preroll \in [on : BOOLEAN, ready : SUBSET Lines, cancelled : BOOLEAN] /\ active \in BOOLEAN
      BY DEF Types, PlayTypes
    <2>4. Prerolls' => Prerolls /\ preroll'.ready = preroll.ready
      <3>1. CASE preroll' = preroll
        BY <3>1 DEF Prerolls
      <3>2. CASE preroll' = [preroll EXCEPT !.cancelled = @ \/ active]
        <4>1. PICK given \in BOOLEAN : given <=> preroll.cancelled \/ active
          BY <2>3
        <4>2. (preroll.cancelled \/ active) = given
          BY <2>3, <4>1
        <4>3. preroll' = [preroll EXCEPT !.cancelled = given]
          BY <3>2, <4>2
        <4>4. preroll'.on = preroll.on /\ preroll'.ready = preroll.ready /\ preroll'.cancelled = given
          BY <2>3, <4>3
        <4> QED  BY <4>1, <4>4 DEF Prerolls
      <3> QED  BY <2>2, <3>1, <3>2
    <2>5. Waits
      BY <2>1, <2>4 DEF Waits, Moved, Moving
    <2> QED  BY <2>5, WaitsPreroll
  <1>2. CASE Refuses(c) \/ Joins(c)
    <2>1. UNCHANGED <<starts, preroll, todo, step, tpc, terminal>>
      BY <1>2 DEF Refuses, Joins, playback, threads, ends
    <2>2. Waits
      BY <2>1, CallWaits DEF Moved, Moving
    <2> QED  BY <2>2, WaitsPreroll
  <1>3. CASE Begins(c)
    <2>1. /\ UNCHANGED <<starts, preroll, tpc, terminal>> /\ todo = <<>> /\ step' = "say"
          /\ todo' = Stages(call[c].op) /\ call[c].op \in Ops /\ paused \in BOOLEAN
      BY <1>3 DEF Begins, playback, threads, ends, Types, CallTypes, PlayTypes, Plan
    <2>2. call[c].op \in {"pause", "resume", "seek", "stop", "finish"}
      BY <2>1, OpsAssumption
    <2>3. todo'[1] \notin {"Seek", "Preroll"}
      <3>1. todo' \in {<<"Pause">>, <<"Resume">>, <<"Stop">>, <<"Resume", "Finish">>, <<"Finish">>,
                       <<"Pause", "Flush", "Seek", "Preroll", "await", "retire", "Pause", "Resume">>,
                       <<"Flush", "Seek", "Preroll", "await", "retire", "Pause">>}
        BY <2>1, <2>2, StagesAre
      <3> QED  BY <3>1
    <2>4. Waits
      BY <2>1, <2>3, CallWaits DEF Moved, Moving
    <2> QED  BY <2>4, WaitsPreroll
  <1> QED  BY <1>1, <1>2, <1>3

\* A timeline begins of which no terminal has anything; a preroll begins when the
\* sources have moved to it, and ends with a Resume or a Stop.
LEMMA SaysPreroll ==
    ASSUME Types, Types', PrerollIs, Says
    PROVE  PrerollIs'
  <1>1. /\ todo # <<>> /\ step = "say" /\ step' = "snapshot" /\ UNCHANGED <<todo, tpc, terminal>>
        /\ starts' = IF todo[1] = "Flush" THEN Append(starts, call[holder].to) ELSE starts
    BY SaysIs
  <1>2. Head(todo) = todo[1]
    BY <1>1, UnderWay DEF StageLeaves
  <1>3. CASE todo[1] = "Flush"
    <2>1. preroll' = preroll /\ Moving /\ Moving'
      BY <1>1, <1>2, <1>3 DEF Says, Moving
    <2>2. timeline \in Nat /\ timeline' = timeline + 1
      BY <1>1, <1>3 DEF Types, PlayTypes, timeline
    <2>3. \A l \in Lines : terminal'[l].seg # timeline'
      <3> TAKE l \in Lines
      <3>1. terminal[l].seg \in 0 .. timeline
        BY DEF Types, TerminalTypes
      <3> QED  BY <1>1, <2>2, <3>1
    <2>4. ReadyStays'
      BY <1>1, <2>1 DEF PrerollIs, ReadyStays, Prerolls
    <2> QED  BY <2>1, <2>3, <2>4 DEF PrerollIs, Renewed, Readies
  <1>4. CASE todo[1] = "Preroll"
    <2>1. /\ preroll' = [on |-> TRUE, ready |-> {}, cancelled |-> abandoned] /\ starts' = starts
          /\ Moved /\ ~Moving'
      BY <1>1, <1>2, <1>4 DEF Says, Moving, Moved
    <2>2. preroll'.ready = {} /\ timeline' = timeline
      BY <2>1 DEF timeline
    <2>3. \A l \in Lines : terminal'[l].seg # timeline'
      BY <1>1, <2>1, <2>2 DEF PrerollIs, Renewed
    <2>4. ReadyStays' /\ Renewed'
      BY <2>1, <2>2 DEF ReadyStays, Renewed, Moved
    <2>5. Readies'
      BY <2>2, <2>3 DEF Readies, AtStart
    <2> QED  BY <2>4, <2>5 DEF PrerollIs
  <1>5. CASE todo[1] \notin {"Flush", "Preroll"}
    <2>1. preroll' = preroll \/ preroll' = NoPreroll
      BY <1>2, <1>5 DEF Says, playback
    <2>2. Prerolls' => preroll' = preroll
      BY <2>1 DEF Prerolls, NoPreroll
    <2>3. Moved' <=> Moved /\ (Moving' <=> Moving)
      BY <1>1, <1>5 DEF Moved, Moving
    <2>4. Waits
      BY <1>1, <1>5, <2>2, <2>3 DEF Waits, Prerolls, Moving, Moved
    <2> QED  BY <2>4, WaitsPreroll
  <1> QED  BY <1>3, <1>4, <1>5

\* The rest of a stage, and the stages one by one.
LEMMA AsksPreroll ==
    ASSUME Types, PrerollIs,
           Snapshots \/ Sends \/ Interrupts \/ Settles \/ Awaits \/ Completes
    PROVE  PrerollIs'
  <1>1. UNCHANGED <<starts, preroll, tpc, terminal>>
    BY DEF Snapshots, Sends, Interrupts, Settles, Awaits, Completes, playback, threads, ends
  <1>2. CASE Snapshots \/ Sends \/ Interrupts
    <2>1. todo' = todo /\ step # "say" /\ step' # "say"
      BY <1>2 DEF Snapshots, Sends, Interrupts
    <2>2. Waits
      BY <1>1, <2>1, CallWaits DEF Moved, Moving
    <2> QED  BY <2>2, WaitsPreroll
  <1>3. CASE Completes
    <2>1. UNCHANGED <<todo, step>>
      BY <1>3 DEF Completes
    <2>2. Waits
      BY <1>1, <2>1, CallWaits DEF Moved, Moving
    <2> QED  BY <2>2, WaitsPreroll
  <1>4. CASE Settles \/ Awaits
    <2>1. /\ todo # <<>> /\ todo' = Tail(todo) /\ step' = "say"
          /\ step = "acks" \/ (step = "say" /\ Head(todo) \in {"await", "retire"})
      BY <1>4 DEF Settles, Awaits, Types, Plan
    <2>2. StageLeaves(todo) /\ todo \in AllStages
      BY <2>1, UnderWay
    <2>3. Head(todo) = todo[1]
      BY <2>2 DEF StageLeaves
    <2>4. /\ todo[1] = "Flush" => todo' # <<>> /\ todo'[1] = "Seek"
          /\ todo' # <<>> /\ todo'[1] = "Seek" => todo[1] = "Flush"
          /\ todo[1] = "Seek" => todo' # <<>> /\ todo'[1] = "Preroll"
          /\ todo' # <<>> /\ todo'[1] = "Preroll" => todo[1] = "Seek"
      BY <2>1, <2>2, SeekIsNext
    <2>5. Waits
      BY <1>1, <2>1, <2>3, <2>4, CallWaits DEF Moved, Moving
    <2> QED  BY <2>5, WaitsPreroll
  <1> QED  BY <1>2, <1>3, <1>4

\* A source hands no terminal anything.
LEMMA SourcePreroll ==
    ASSUME Types, PrerollIs, NEW l \in Lines, SourceThread(l) \/ SourceFails(l)
    PROVE  PrerollIs'
  <1>1. UNCHANGED <<starts, preroll, terminal>>
    BY DEF SourceThread, SourceBegins, SourceProduces, SourceHandsOn, SourceEnds, SourceTakes,
           SourceFinishes, SourceFinished, SourceFails, SourceCarried, SourceReturns,
           DropsReceiver, SourceDrops, SourceJoins, playback, ends
  <1>2. UNCHANGED <<todo, step>>
    BY SourceIsOfLine DEF OnlyLine
  <1>3. Source(l) \in Sources /\ Source(l) \notin Workers /\ tpc \in [Threads -> SourcePlaces \cup WorkerPlaces]
    BY ThreadsAre DEF Types, ThreadTypes
  <1>4. \E p : tpc' = [tpc EXCEPT ![Source(l)] = p]
    <2>1. ASSUME SourceTakes(l) PROVE \E p : tpc' = [tpc EXCEPT ![Source(l)] = p]
      BY <2>1 DEF SourceTakes, SourceNext, GoTo
    <2> QED  BY <2>1 DEF SourceThread, SourceBegins, SourceProduces, SourceHandsOn, SourceEnds,
                SourceFinishes, SourceFinished, SourceFails, SourceCarried, SourceReturns,
                DropsReceiver, SourceDrops, SourceJoins, DropsQueue, GoTo
  <1>5. \A k \in Lines : tpc'[LastOf(k)] = tpc[LastOf(k)]
    <2> TAKE k \in Lines
    <2>1. LastOf(k) \in Workers /\ LastOf(k) \in Threads
      BY LineIs
    <2> HIDE DEF Source, LastOf
    <2> QED  BY <1>3, <1>4, <2>1
  <1>6. Waits
    BY <1>1, <1>2, <1>5 DEF Waits, Prerolls, Moved, Moving
  <1> QED  BY <1>6, WaitsPreroll

\* A worker hands its terminal an item.
LEMMA LastForwards ==
    ASSUME Known, Streams, PrerollIs, NEW w \in Workers, WorkerForwards(w), IsLast(w),
           ~Stale(w, Head(channel[w]))
    PROVE  PrerollIs'
  <1>1. Types /\ Quiet /\ w[1] \in Lines /\ Flow(w[1]) /\ w = LastOf(w[1])
    BY ThreadsAre, LineIs DEF Known, Streams
  <1>2. PICK l \in Lines : l = w[1]
    BY <1>1
  <1>3. PICK item : item = Head(channel[w])
    OBVIOUS
  <1>4. Takes(l, item)
    BY <1>1, <1>2, <1>3, WorkerForwardsFlow
  <1>5. /\ item.seg = timeline
        /\ item.kind \in {"buffer", "eos"} => terminal[l].seg = timeline /\ ~terminal[l].ended
        /\ item.kind = "buffer" => item.at = terminal[l].at + 1
    BY <1>1, <1>2, <1>4, TakesIs
  <1>6. /\ tpc[w] = "select" /\ Handed(l, item) /\ tpc' = [tpc EXCEPT ![w] = "look"]
        /\ UNCHANGED <<starts, todo, step>>
    BY <1>2, <1>3 DEF WorkerForwards, GoTo, lock
  <1>7. ~Moving /\ ~Moving' /\ timeline' = timeline
    BY <1>1, <1>6 DEF Quiet, Moving, Over, timeline
  <1>8. \A k \in Lines : tpc'[LastOf(k)] = "select" => tpc[LastOf(k)] = "select" /\ k # l
    <2> TAKE k \in Lines
    <2>1. LastOf(k) \in Threads /\ tpc \in [Threads -> SourcePlaces \cup WorkerPlaces]
      BY <1>1, LineIs DEF Types, ThreadTypes
    <2>2. k = l => LastOf(k) = w
      BY <1>1, <1>2
    <2> HIDE DEF LastOf
    <2> QED  BY <1>6, <2>1, <2>2
  <1>9. \A k \in Lines : k # l => terminal'[k] = terminal[k]
    BY <1>1, <1>6 DEF Handed, Types, TerminalTypes
  <1>10. preroll \in [on : BOOLEAN, ready : SUBSET Lines, cancelled : BOOLEAN]
    BY <1>1 DEF Types, PlayTypes
  <1>11. /\ preroll'.on = preroll.on /\ preroll'.cancelled = preroll.cancelled
         /\ preroll.on => preroll'.ready = IF item.kind \in {"buffer", "eos"}
                                           THEN preroll.ready \cup {l} ELSE preroll.ready
    <2>1. CASE item.kind \in {"buffer", "eos"} /\ preroll.on
      <3>1. preroll' = [preroll EXCEPT !.ready = @ \cup {l}]
        BY <1>6, <2>1 DEF Handed, MarkReady
      <3> QED  BY <1>10, <2>1, <3>1
    <2>2. CASE ~(item.kind \in {"buffer", "eos"} /\ preroll.on)
      <3>1. preroll' = preroll
        BY <1>6, <2>2 DEF Handed, MarkReady
      <3> QED  BY <2>2, <3>1
    <2> QED  BY <2>1, <2>2
  <1>12. Prerolls => l \notin preroll.ready
    BY <1>1, <1>2, <1>6 DEF PrerollIs, ReadyStays
  <1>13. ReadyStays'
    BY <1>8, <1>10, <1>11 DEF PrerollIs, ReadyStays, Prerolls
  <1>14. Readies'
    <2> SUFFICES ASSUME Prerolls', NEW k \in Lines
                 PROVE  IF k \in preroll'.ready THEN AtTarget(k)' ELSE AtStart(k)'
      BY DEF Readies
    <2>1. Prerolls /\ preroll.on
      BY <1>11 DEF Prerolls
    <2>2. IF k \in preroll.ready THEN AtTarget(k) ELSE AtStart(k)
      BY <1>7, <2>1 DEF PrerollIs, Readies
    <2>3. CASE k # l
      <3>1. terminal'[k] = terminal[k] /\ (k \in preroll'.ready <=> k \in preroll.ready)
        BY <1>9, <1>11, <2>1, <2>3
      <3> QED  BY <1>6, <1>7, <2>2, <3>1 DEF AtTarget, AtStart
    <2>4. CASE k = l
      <3>1. AtStart(l) /\ l \notin preroll.ready
        BY <1>12, <2>1, <2>2, <2>4
      <3>2. CASE item.kind = "buffer"
        <4>1. l \in preroll'.ready
          BY <1>11, <2>1, <3>2
        <4>2. terminal'[l].seg = timeline /\ terminal'[l].at = starts[timeline] + 1
          BY <1>4, <1>5, <3>1, <3>2 DEF Takes, AtStart
        <4> QED  BY <1>6, <1>7, <2>4, <4>1, <4>2 DEF AtTarget
      <3>3. CASE item.kind = "eos"
        <4>1. l \in preroll'.ready
          BY <1>11, <2>1, <3>3
        <4>2. terminal'[l].seg = timeline /\ terminal'[l].at = starts[timeline]
              /\ terminal'[l].ended
          BY <1>4, <1>5, <3>1, <3>3 DEF Takes, AtStart
        <4> QED  BY <1>6, <1>7, <2>4, <4>1, <4>2 DEF AtTarget
      <3>4. CASE item.kind \notin {"buffer", "eos"}
        <4>1. l \notin preroll'.ready
          BY <1>11, <2>1, <3>1, <3>4
        <4>2. terminal'[l].at = starts[timeline] /\ ~terminal'[l].ended
          BY <1>4, <1>5, <3>4 DEF Takes
        <4> QED  BY <1>6, <1>7, <2>4, <4>1, <4>2 DEF AtStart
      <3> QED  BY <3>2, <3>3, <3>4
    <2> QED  BY <2>3, <2>4
  <1> QED  BY <1>7, <1>13, <1>14 DEF PrerollIs, Renewed, Moved

\* Before a terminal that is ready a worker does not come to its select.
LEMMA WorkerPreroll ==
    ASSUME Known, Streams, PrerollIs, NEW w \in Workers, WorkerThread(w)
    PROVE  PrerollIs'
  <1>1. Types /\ w \in Threads /\ w[1] \in Lines /\ tpc \in [Threads -> SourcePlaces \cup WorkerPlaces]
    BY ThreadsAre DEF Known, Types, ThreadTypes
  <1>2. UNCHANGED <<todo, step>>
    BY <1>1, WorkerIsOfLine DEF OnlyLine
  <1>3. CASE WorkerForwards(w) /\ IsLast(w) /\ ~Stale(w, Head(channel[w]))
    BY <1>3, LastForwards
  <1>4. CASE ~(WorkerForwards(w) /\ IsLast(w) /\ ~Stale(w, Head(channel[w])))
    <2>1. UNCHANGED <<starts, preroll>>
      BY <1>4 DEF WorkerThread, WorkerLooks, WorkerLooksAgain, WorkerForwards, WorkerHandsOn,
         WorkerTakes, WorkerCarries, WorkerCarried, DeliverPending, WorkerDrops, WorkerDone,
         playback
    <2>2. terminal' = terminal \/ \E msgs : terminal' = Heard(w, msgs)
      BY <1>4 DEF WorkerThread, WorkerLooks, WorkerLooksAgain, WorkerForwards, WorkerHandsOn,
         WorkerTakes, WorkerCarries, WorkerCarried, DeliverPending, WorkerDrops, WorkerDone,
         ends
    <2>3. \A l \in Lines :
              /\ terminal'[l].seg = terminal[l].seg /\ terminal'[l].at = terminal[l].at
              /\ terminal'[l].ended = terminal[l].ended
      BY <1>1, <2>2, HeardKeeps
    <2>4. PICK p \in WorkerPlaces : tpc' = [tpc EXCEPT ![w] = p]
      BY <1>1, WorkerGoes DEF Goes
    <2>5. ASSUME tpc'[w] = "select", IsLast(w), Prerolls, w[1] \in preroll.ready PROVE FALSE
      <3>1. CASE WorkerLooks(w)
        BY <2>5, <3>1 DEF WorkerLooks, Gate, Ready, TerminalReady, Prerolls
      <3>2. CASE WorkerTakes(w)
        <4>1. tpc' # [tpc EXCEPT ![w] = "select"]
          BY <1>1, <3>2 DEF WorkerTakes, WorkerNext, GoTo
        <4> QED  BY <1>1, <2>4, <2>5, <4>1
      <3>3. CASE ~WorkerLooks(w) /\ ~WorkerTakes(w)
        BY <1>1, <2>5, <3>3 DEF WorkerThread, WorkerLooksAgain, WorkerForwards, WorkerHandsOn,
           WorkerCarries, WorkerCarried, DeliverPending, WorkerDrops, WorkerDone, DropsQueue, GoTo
      <3> QED  BY <3>1, <3>2, <3>3
    <2>6. \A l \in Lines : tpc'[LastOf(l)] = "select" =>
              tpc[LastOf(l)] = "select" \/ ~Prerolls \/ l \notin preroll.ready
      <3> TAKE l \in Lines
      <3>1. LastOf(l) \in Threads /\ LastOf(l)[1] = l /\ IsLast(LastOf(l))
        BY LineIs
      <3>2. LastOf(l) # w => tpc'[LastOf(l)] = tpc[LastOf(l)]
        BY <1>1, <2>4, <3>1
      <3> HIDE DEF LastOf
      <3> QED  BY <2>5, <3>1, <3>2
    <2>7. Waits
      BY <1>2, <2>1, <2>3, <2>6 DEF Waits, Prerolls, Moved, Moving
    <2> QED  BY <1>1, <2>7, WaitsPreroll
  <1> QED  BY <1>3, <1>4

\* It holds as the pipeline starts.
LEMMA InitPreroll == Init => PrerollIs
  <1> SUFFICES ASSUME Init PROVE PrerollIs
    OBVIOUS
  <1>1. preroll = NoPreroll /\ todo = <<>>
    BY DEF Init
  <1>2. ~Prerolls /\ ~Moving
    BY <1>1 DEF Prerolls, NoPreroll, Moving
  <1> QED  BY <1>2 DEF PrerollIs, ReadyStays, Renewed, Moved, Readies

\* Each step keeps it.
LEMMA NextPreroll ==
    Known /\ Types' /\ Streams /\ PrerollIs /\ [Next]_vars => PrerollIs'
  <1> SUFFICES ASSUME Known, Types', Streams, PrerollIs, [Next]_vars PROVE PrerollIs'
    OBVIOUS
  <1>1. Types
    BY DEF Known
  <1>2. CASE \E c \in Callers : Calls(c) \/ Caller(c)
    BY <1>1, <1>2, CallsPreroll DEF Caller
  <1>3. CASE Asks
    BY <1>1, <1>3, SaysPreroll, AsksPreroll DEF Asks
  <1>4. CASE \E l \in Lines : SourceThread(l) \/ SourceFails(l)
    BY <1>1, <1>4, SourcePreroll
  <1>5. CASE \E w \in Workers : WorkerThread(w)
    BY <1>5, WorkerPreroll
  <1>6. CASE UNCHANGED vars
    <2>1. UNCHANGED <<starts, preroll, todo, step, tpc, terminal>>
      BY <1>6 DEF vars, playback, lock, threads, ends
    <2>2. Waits
      BY <2>1, CallWaits DEF Moved, Moving
    <2> QED  BY <1>1, <2>2, WaitsPreroll
  <1> QED  BY <1>2, <1>3, <1>4, <1>5, <1>6 DEF Next

\* A terminal a preroll counts as ready is at the seek's target, with one sample
\* or the end, and stays there whatever its siblings do, for its worker came to
\* no select since.
THEOREM ReadyIsAtTargetHolds == Spec => []ReadyIsAtTarget
  <1>1. Known => Types
    BY DEF Known
  <1>2. Known /\ Types' /\ Streams /\ PrerollIs /\ [Next]_vars => PrerollIs'
    BY NextPreroll
  <1>3. Types /\ PrerollIs => ReadyIsAtTarget
    <2> SUFFICES ASSUME Types, PrerollIs, preroll.on, ~preroll.cancelled, ~Repositioning,
                        NEW l \in preroll.ready
                 PROVE  AtTarget(l)
      BY DEF ReadyIsAtTarget, AtTarget
    <2>1. todo # <<>> => Head(todo) = todo[1]
      BY UnderWay DEF StageLeaves
    <2>2. ~Moving /\ Prerolls
      BY <2>1 DEF Repositioning, Moving, Prerolls
    <2>3. l \in Lines
      BY DEF Types, PlayTypes
    <2> QED  BY <2>2, <2>3 DEF PrerollIs, Readies
  <1> QED  BY <1>1, <1>2, <1>3, InitPreroll, AlwaysStreams, PTL DEF Spec

-----------------------------------------------------------------------------
(* That a line which ends by itself has played all its source made.        *)

Stopping == todo # <<>> /\ todo[1] = "Stop"
Dry(l) == \A w \in Of(l) : Empty(w)
Drawn(l) == terminal[l].seg = source[l].seg /\ terminal[l].at = source[l].pos

\* Once its source has ended, a line with nothing left in it has been drawn.
DryIsDrawn(l) ==
    pad[l].ended /\ source[l].seg = timeline /\ ~LineOver(l) /\ ~Stopping /\ Dry(l) => Drawn(l)

\* A finish lets a line drain on its timeline; nothing repositions it meanwhile.
DrainsIts(l) == Drains(l) /\ ~LineOver(l) => source[l].seg = timeline

\* A line over without a Stop has been drawn, and its source makes no more.
OverIsDrawn(l) ==
    LineOver(l) /\ ~terminal[l].heard =>
        tpc[Source(l)] \in Left /\ terminal[l].ended /\ Drawn(l)

LineDraws(l) == DryIsDrawn(l) /\ DrainsIts(l) /\ OverIsDrawn(l)
Draws == \A l \in Lines : LineDraws(l)

\* What it rests on.
Rests == Seekable /\ Known /\ Streams /\ Finishes

\* A step that hands the terminal nothing keeps it, where no other line goes dry.
LEMMA KeptDraws ==
    ASSUME NEW k \in Lines, LineDraws(k), starts' = starts,
           source'[k] = source[k], pad'[k] = pad[k],
           terminal'[k].seg = terminal[k].seg, terminal'[k].at = terminal[k].at,
           terminal'[k].ended = terminal[k].ended, terminal[k].heard => terminal'[k].heard,
           tpc[Source(k)] \in Left => tpc'[Source(k)] \in Left,
           LineOver(k) => LineOver(k)', ~LineOver(k) /\ LineOver(k)' => OverIsDrawn(k)',
           ~LineOver(k)' /\ Stopping => Stopping',
           ~LineOver(k)' /\ Drains(k)' => Drains(k) \/ source[k].seg = timeline,
           pad[k].ended /\ source[k].seg = timeline /\ ~LineOver(k)' /\ ~Stopping /\ Dry(k)' => Dry(k)
    PROVE  LineDraws(k)'
  <1>1. timeline' = timeline
    BY DEF timeline
  <1>2. Drawn(k)' <=> Drawn(k)
    BY DEF Drawn
  <1>3. DryIsDrawn(k)'
    BY <1>1, <1>2 DEF LineDraws, DryIsDrawn
  <1>4. DrainsIts(k)'
    BY <1>1 DEF LineDraws, DrainsIts
  <1>5. OverIsDrawn(k)'
    <2>1. CASE ~LineOver(k) /\ LineOver(k)'
      BY <2>1
    <2>2. CASE LineOver(k)
      BY <1>2, <2>2 DEF LineDraws, OverIsDrawn
    <2>3. CASE ~LineOver(k)'
      BY <2>3 DEF OverIsDrawn
    <2> QED  BY <2>1, <2>2, <2>3
  <1> QED  BY <1>3, <1>4, <1>5 DEF LineDraws

\* Another line's thread keeps it.
LEMMA OtherDraws ==
    ASSUME Types, NEW l \in Lines, OnlyLine(l), starts' = starts,
           NEW k \in Lines, k # l, LineDraws(k)
    PROVE  LineDraws(k)'
  <1>1. Source(k) \in Threads /\ Source(k)[1] = k /\ LastOf(k) \in Threads /\ LastOf(k)[1] = k
    BY ThreadsAre, LineIs
  <1>2. /\ source'[k] = source[k] /\ pad'[k] = pad[k] /\ terminal'[k] = terminal[k]
        /\ tpc'[Source(k)] = tpc[Source(k)] /\ tpc'[LastOf(k)] = tpc[LastOf(k)]
        /\ UNCHANGED <<todo, step, holder, call, paused>>
    BY <1>1 DEF OnlyLine
  <1>3. \A w \in Of(k) : Empty(w)' <=> Empty(w)
    <2> TAKE w \in Of(k)
    <2>1. w \in Workers /\ w \in Threads /\ w[1] = k
      BY LineIs
    <2> QED  BY <2>1 DEF OnlyLine, Empty
  <1>4. LineOver(k)' <=> LineOver(k)
    BY <1>2 DEF LineOver
  <1>5. Dry(k)' <=> Dry(k)
    BY <1>3 DEF Dry
  <1>6. Drains(k)' <=> Drains(k)
    BY <1>2 DEF Drains, Finishing, ToNothing
  <1>7. Stopping' <=> Stopping
    BY <1>2 DEF Stopping
  <1> QED  BY <1>2, <1>4, <1>5, <1>6, <1>7, KeptDraws

-----------------------------------------------------------------------------
(* What a source's step leaves of it.                                      *)

\* A source that has left makes, and pushes, nothing more.
LEMMA LeftSource ==
    ASSUME Types, NEW l \in Lines, tpc[Source(l)] \in Left, SourceThread(l) \/ SourceFails(l)
    PROVE  UNCHANGED <<source, pad, channel>> /\ tpc'[Source(l)] \in Left
  <1>1. \A p : tpc' = [tpc EXCEPT ![Source(l)] = p] => tpc'[Source(l)] = p
    BY ThreadsAre DEF Types, ThreadTypes
  <1> HIDE DEF Source
  <1>2. SourceReturns(l) \/ DropsReceiver(l) \/ SourceDrops(l) \/ SourceJoins(l)
    BY DEF SourceThread, SourceBegins, SourceProduces, SourceHandsOn, SourceEnds, SourceTakes,
           SourceFinishes, SourceFinished, SourceCarried, SourceFails, Left
  <1>3. UNCHANGED <<source, pad, channel>>
    BY <1>2 DEF SourceReturns, DropsReceiver, SourceDrops, SourceJoins, queues, ends
  <1>4. tpc'[Source(l)] \in Left
    BY <1>1, <1>2 DEF SourceReturns, DropsReceiver, SourceDrops, SourceJoins, DropsQueue, GoTo, Left
  <1> QED  BY <1>3, <1>4

\* What is pushed stays in the queue, while there is a worker to take it.
LEMMA PushedStays ==
    ASSUME Types, NEW l \in Lines, NEW item, ~Gone(After(Source(l))),
           channel' = Pushed(After(Source(l)), item)
    PROVE  channel'[After(Source(l))] # <<>>
  <1>1. After(Source(l)) \in Workers
    BY ThreadsAre, Neighbours
  <1>2. PICK a \in Workers : a = After(Source(l))
    BY <1>1
  <1>3. PICK q \in Seq(ItemsTo(timeline)) : q = channel[a]
    BY DEF Types, ItemTypes
  <1>4. channel' = [channel EXCEPT ![a] = Append(@, item)]
    BY <1>2 DEF Pushed
  <1>5. channel'[a] = Append(q, item)
    BY <1>3, <1>4 DEF Types, ItemTypes
  <1>6. Append(q, item) # <<>>
    BY <1>3, AppendOf
  <1> QED  BY <1>2, <1>5, <1>6

\* A source that had not ended has its end behind what it made.
LEMMA SourceMakes ==
    ASSUME Types, NEW l \in Lines, SourceIs(l)', SourceThread(l) \/ SourceFails(l),
           ~Gone(After(Source(l))), channel'[After(Source(l))] = <<>>
    PROVE  /\ channel' = channel
           /\ pad'[l].ended =>
                  pad[l].ended /\ source'[l].pos = source[l].pos /\ source'[l].seg = source[l].seg
  <1>1. /\ source \in [Lines -> [pos : 0..Length, seg : 0..timeline, sought : BOOLEAN]]
        /\ pad \in [Lines -> [flushing : BOOLEAN, ended : BOOLEAN]]
    BY DEF Types, SourceTypes
  <1>2. \A item : channel' # Pushed(After(Source(l)), item)
    BY PushedStays
  <1>3. \A p : tpc' = [tpc EXCEPT ![Source(l)] = p] => tpc'[Source(l)] = p
    BY ThreadsAre DEF Types, ThreadTypes
  <1>4. pad'[l].ended => tpc'[Source(l)] \notin {"ask", "push", "ending"}
    BY DEF SourceIs, Left
  <1> HIDE DEF Source
  <1>5. CASE SourceBegins(l)
    BY <1>2, <1>5 DEF SourceBegins
  <1>6. CASE SourceProduces(l)
    <2>1. tpc'[Source(l)] \in {"push", "ending"} /\ channel' = channel
      BY <1>3, <1>6 DEF SourceProduces, GoTo, queues
    <2> QED  BY <1>4, <2>1
  <1>7. CASE SourceHandsOn(l)
    <2>1. tpc'[Source(l)] = "ask" /\ (channel' = channel \/ channel' = Pushed(After(Source(l)), hand[Source(l)]))
      BY <1>3, <1>7 DEF SourceHandsOn, GoTo
    <2> QED  BY <1>2, <1>4, <2>1
  <1>8. CASE SourceEnds(l) \/ SourceFinished(l)
    <2>1. /\ channel' = EndPushed(l)
          /\ pad' = [pad EXCEPT ![l].ended = @ \/ PadPasses(l)]
          /\ source' = source \/ source' = [source EXCEPT ![l].sought = FALSE]
      BY <1>8 DEF SourceEnds, SourceFinished
    <2>2. ~PadPasses(l) /\ channel' = channel
      BY <1>2, <2>1 DEF EndPushed
    <2>3. pad'[l].ended => pad[l].ended
      <3>1. PICK en \in BOOLEAN : en <=> pad[l].ended
        BY <1>1
      <3>2. (pad[l].ended \/ PadPasses(l)) = en
        BY <1>1, <2>2, <3>1
      <3>3. pad' = [pad EXCEPT ![l].ended = en]
        BY <2>1, <3>2, Zenon
      <3> QED  BY <1>1, <3>1, <3>3
    <2>4. source'[l].pos = source[l].pos /\ source'[l].seg = source[l].seg
      BY <1>1, <2>1
    <2> QED  BY <2>2, <2>3, <2>4
  <1>9. CASE SourceTakes(l)
    <2>1. PICK msg : msg = Head(control[Source(l)]).msg
      OBVIOUS
    <2>2. CASE msg = "Seek"
      BY <1>2, <1>9, <2>1, <2>2 DEF SourceTakes
    <2>3. CASE msg # "Seek"
      <3>1. source' = source /\ channel' = channel
            /\ pad' = [pad EXCEPT ![l].flushing = @ \/ msg = "Flush"]
        BY <1>9, <2>1, <2>3 DEF SourceTakes
      <3>2. PICK fl \in BOOLEAN : fl = (pad[l].flushing \/ msg = "Flush")
        OBVIOUS
      <3>3. pad' = [pad EXCEPT ![l].flushing = fl]
        BY <3>1, <3>2, Zenon
      <3>4. pad'[l].ended = pad[l].ended
        BY <1>1, <3>3
      <3> QED  BY <3>1, <3>4
    <2> QED  BY <2>2, <2>3
  <1>10. CASE \/ SourceFinishes(l) \/ SourceFails(l) \/ SourceCarried(l) \/ SourceReturns(l)
              \/ DropsReceiver(l) \/ SourceDrops(l) \/ SourceJoins(l)
    <2>1. UNCHANGED <<source, pad, channel>>
      BY <1>10 DEF SourceFinishes, SourceFails, SourceCarried, SourceReturns, DropsReceiver,
                   SourceDrops, SourceJoins, queues, ends
    <2> QED  BY <2>1
  <1> QED  BY <1>5, <1>6, <1>7, <1>8, <1>9, <1>10 DEF SourceThread

\* One that leaves has begun, and leaves on its segment.
LEMMA SourceLeaves ==
    ASSUME Types, NEW l \in Lines, SourceThread(l) \/ SourceFails(l), tpc'[Source(l)] \in Left
    PROVE  tpc[Source(l)] # "begin" /\ source'[l].seg = source[l].seg
  <1>1. source \in [Lines -> [pos : 0..Length, seg : 0..timeline, sought : BOOLEAN]]
    BY DEF Types, SourceTypes
  <1>2. \A p : tpc' = [tpc EXCEPT ![Source(l)] = p] => tpc'[Source(l)] = p
    BY ThreadsAre DEF Types, ThreadTypes
  <1> HIDE DEF Source
  <1>3. CASE SourceBegins(l) \/ SourceHandsOn(l) \/ SourceProduces(l) \/ SourceFails(l)
    <2>1. tpc'[Source(l)] \in {"ask", "push", "ending", "carrying"}
      BY <1>2, <1>3 DEF SourceBegins, SourceHandsOn, SourceProduces, SourceFails, GoTo
    <2> QED  BY <2>1 DEF Left
  <1>4. CASE SourceEnds(l)
    BY <1>1, <1>4 DEF SourceEnds
  <1>5. CASE SourceTakes(l)
    <2>1. PICK msg : msg = Head(control[Source(l)]).msg
      OBVIOUS
    <2>2. tpc[Source(l)] \in {"ask", "ending", "linger", "paused"}
      BY <1>5 DEF SourceTakes
    <2>3. CASE msg = "Seek"
      <3>1. PICK yes \in BOOLEAN : yes = TRUE
        OBVIOUS
      <3>2. /\ SourceNext(l, "Seek")
            /\ source' = [source EXCEPT ![l] =
                              [pos |-> starts[timeline], seg |-> timeline, sought |-> yes]]
        BY <1>5, <2>1, <2>3, <3>1 DEF SourceTakes
      <3>3. source'[l].sought = yes
        BY <1>1, <3>2
      <3>4. Source(l) \in Sources /\ back[Source(l)] \in {"ask", "ending", "linger"}
        BY ThreadsAre DEF Types, ThreadTypes
      <3>5. PICK s : s = Source(l)
        OBVIOUS
      <3>6. \E p : tpc' = [tpc EXCEPT ![s] = p] /\ p \notin Left
        BY <2>2, <3>1, <3>2, <3>3, <3>4, <3>5 DEF SourceNext, GoTo, GoesOn, Left
      <3> QED  BY <1>2, <3>5, <3>6
    <2>4. CASE msg # "Seek"
      BY <1>5, <2>1, <2>2, <2>4 DEF SourceTakes
    <2> QED  BY <2>3, <2>4
  <1>6. CASE \/ SourceFinishes(l) \/ SourceFinished(l) \/ SourceCarried(l) \/ SourceReturns(l)
             \/ DropsReceiver(l) \/ SourceDrops(l) \/ SourceJoins(l)
    <2>1. source' = source /\ tpc[Source(l)] # "begin"
      BY <1>6 DEF SourceFinishes, SourceFinished, SourceCarried, SourceReturns, DropsReceiver,
                  SourceDrops, SourceJoins, ends
    <2> QED  BY <2>1
  <1> QED  BY <1>3, <1>4, <1>5, <1>6 DEF SourceThread

\* What a source does.
LEMMA SourceDraws ==
    ASSUME Rests, Streams', Draws, NEW l \in Lines, SourceThread(l) \/ SourceFails(l)
    PROVE  Draws'
  <1>1. /\ Types /\ Protocol /\ Finishes /\ SourceIs(l) /\ SourceIs(l)' /\ LineDraws(l)
    BY DEF Rests, Known, Streams, Draws
  <1>2. OnlyLine(l) /\ UNCHANGED <<todo, step, holder, call, paused>>
    BY <1>1, SourceIsOfLine DEF OnlyLine
  <1>3. starts' = starts /\ terminal' = terminal
    BY DEF SourceThread, SourceBegins, SourceProduces, SourceHandsOn, SourceEnds, SourceTakes,
           SourceFinishes, SourceFinished, SourceFails, SourceCarried, SourceReturns,
           DropsReceiver, SourceDrops, SourceJoins, playback, ends
  <1>4. \E p : tpc' = [tpc EXCEPT ![Source(l)] = p]
    <2>1. ASSUME SourceTakes(l) PROVE \E p : tpc' = [tpc EXCEPT ![Source(l)] = p]
      BY <2>1 DEF SourceTakes, SourceNext, GoTo
    <2> QED  BY <2>1 DEF SourceThread, SourceBegins, SourceProduces, SourceHandsOn, SourceEnds,
                SourceFinishes, SourceFinished, SourceFails, SourceCarried, SourceReturns,
                DropsReceiver, SourceDrops, SourceJoins, DropsQueue, GoTo
  <1>5. /\ LineOver(l)' <=> LineOver(l)
        /\ \A w \in Of(l) : tpc'[w] = tpc[w]
        /\ After(Source(l)) \in Workers /\ After(Source(l))[1] = l /\ After(Source(l)) \in Of(l)
    <2>1. \A w \in Of(l) : w \in Workers
      BY LineIs
    <2> QED  BY <1>1, <1>4, <2>1, SourceOf DEF Of
  <1>6. Gone(After(Source(l))) => LineOver(l)
    BY <1>1, <1>5, GoneIsOver
  <1>7. timeline' = timeline /\ (Stopping' <=> Stopping)
    BY <1>2, <1>3 DEF timeline, Stopping
  <1>8. CASE tpc[Source(l)] \in Left
    <2>1. UNCHANGED <<source, pad, channel>> /\ tpc'[Source(l)] \in Left
      BY <1>1, <1>8, LeftSource
    <2>2. Drains(l)' => Drains(l)
      BY <1>2, <1>8, <2>1 DEF Drains, Finishing, ToNothing
    <2>3. Dry(l)' => Dry(l)
      BY <1>5, <2>1 DEF Dry, Empty
    <2>4. LineDraws(l)'
      BY <1>1, <1>3, <1>5, <1>7, <2>1, <2>2, <2>3, KeptDraws
    <2> QED  BY <1>1, <1>2, <1>3, <2>4, OtherDraws DEF Draws
  <1>9. CASE tpc[Source(l)] \notin Left
    <2>1. OverIsDrawn(l)'
      <3>1. LineOver(l) => terminal[l].heard
        BY <1>1, <1>9 DEF LineDraws, OverIsDrawn
      <3> QED  BY <1>3, <1>5, <3>1 DEF OverIsDrawn
    <2>2. DrainsIts(l)'
      <3> SUFFICES ASSUME Drains(l)' PROVE source'[l].seg = timeline'
        BY DEF DrainsIts
      <3>1. tpc'[Source(l)] \in Left /\ ToNothing
        BY <1>2 DEF Drains, ToNothing
      <3>2. ~Renewing(l)
        BY <3>1 DEF ToNothing, Renewing
      <3>3. tpc[Source(l)] # "begin" /\ source'[l].seg = source[l].seg
        BY <1>1, <3>1, SourceLeaves
      <3>4. source[l].seg = timeline
        BY <1>1, <1>9, <3>2, <3>3 DEF SourceIs
      <3> QED  BY <1>7, <3>3, <3>4
    <2>3. DryIsDrawn(l)'
      <3> SUFFICES ASSUME pad'[l].ended, source'[l].seg = timeline', ~LineOver(l)', ~Stopping', Dry(l)'
                   PROVE  Drawn(l)'
        BY DEF DryIsDrawn
      <3>1. ~Gone(After(Source(l))) /\ channel'[After(Source(l))] = <<>>
        BY <1>5, <1>6 DEF Dry, Empty
      <3>2. /\ channel' = channel
            /\ pad[l].ended /\ source'[l].pos = source[l].pos /\ source'[l].seg = source[l].seg
        BY <1>1, <3>1, SourceMakes
      <3>3. Dry(l)
        BY <1>5, <3>2 DEF Dry, Empty
      <3>4. Drawn(l)
        BY <1>1, <1>5, <1>7, <3>2, <3>3 DEF LineDraws, DryIsDrawn
      <3> QED  BY <1>3, <3>2, <3>4 DEF Drawn
    <2>4. LineDraws(l)'
      BY <2>1, <2>2, <2>3 DEF LineDraws
    <2> QED  BY <1>1, <1>2, <1>3, <2>4, OtherDraws DEF Draws
  <1> QED  BY <1>8, <1>9

-----------------------------------------------------------------------------
(* What a worker's step leaves of it.                                      *)

\* A worker over, in a line that goes on and is not stopped, has handed on all
\* there was before it.
LEMMA OverIsDrained ==
    ASSUME Finishes, NEW l \in Lines, ~LineOver(l), ~Stopping,
           NEW u \in Of(l), tpc[u] \in Over
    PROVE  Drained(u)
  <1>1. u \in Threads /\ u \notin Sources /\ u[1] = l
    BY LineIs, ThreadsAre
  <1>2. EndsIn(u)
    BY <1>1 DEF Finishes, OfLine, LeavesEnd, IsOver
  <1>3. ~StopComes(l)
    BY DEF StopComes, Out, Stopping
  <1> QED  BY <1>1, <1>2, <1>3 DEF EndsIn

\* The terminal takes something.
Hands(w) == WorkerForwards(w) /\ IsLast(w) /\ ~Stale(w, Head(channel[w]))

\* Only by what the terminal takes does a line go dry.
LEMMA WorkerDries ==
    ASSUME Rests, NEW w \in Workers, WorkerThread(w), ~Hands(w),
           source[w[1]].seg = timeline, ~LineOver(w[1]), ~Stopping, Dry(w[1])'
    PROVE  Dry(w[1])
  <1> DEFINE l == w[1]
  <1>1. Types /\ Protocol /\ Finishes /\ Known /\ Quiet /\ Flow(l) /\ SourceIs(l) /\ l \in Lines
    BY ThreadsAre DEF Rests, Known, Streams
  <1>2. w \in Of(l) /\ w \in Threads /\ \A v \in Of(l) : v \in Workers /\ v \in Threads /\ v[1] = l
    BY <1>1, WorkerOf
  <1>3. ~Renewing(l)
    BY <1>1 DEF SourceIs, Rests, Known, Types, PlayTypes, SourceTypes
  <1>4. PICK p \in WorkerPlaces : Goes(w, p)
    BY <1>1, WorkerGoes
  <1>5. tpc'[w] = p /\ \A u \in Threads : u # w => tpc'[u] = tpc[u]
    BY <1>1, <1>4, GoesOnTime
  <1>6. \A u \in Of(l) : tpc[u] \in Over => Drained(u)
    BY <1>1, OverIsDrained
  <1>7. ASSUME channel' = channel, tpc[w] # "push" PROVE Dry(l)
    BY <1>2, <1>5, <1>7 DEF Dry, Empty
  <1>8. CASE \/ WorkerLooks(w) \/ WorkerLooksAgain(w) \/ WorkerCarries(w) \/ WorkerCarried(w)
             \/ DeliverPending(w) \/ WorkerDrops(w)
    BY <1>7, <1>8 DEF WorkerLooks, WorkerLooksAgain, WorkerCarries, WorkerCarried, DeliverPending,
                      GivesUp, WorkerDrops, queues
  <1>9. CASE WorkerTakes(w)
    <2>1. Head(control[w]).msg # "Flush"
      <3> SUFFICES ASSUME Head(control[w]).msg = "Flush" PROVE FALSE
        OBVIOUS
      <3>1. Out("Flush")
        BY <1>1, <1>2, <1>9, AskedFor DEF WorkerTakes
      <3> QED  BY <1>3, <3>1 DEF Out, Renewing
    <2>2. channel' = channel /\ tpc[w] # "push"
      BY <1>9, <2>1 DEF WorkerTakes
    <2> QED  BY <1>7, <2>2
  <1>10. CASE WorkerHandsOn(w)
    <2>1. tpc[w] = "push" /\ channel' = Pushed(After(w), hand[w])
      BY <1>10 DEF WorkerHandsOn
    <2>2. ~IsLast(w)
      BY <1>1, <2>1 DEF Types, ThreadTypes
    <2>3. After(w) \in Workers /\ After(w) \in Of(l) /\ After(w)[1] = l
      BY <1>1, <2>2, WorkerOf
    <2>4. ~Gone(After(w))
      BY <1>1, <2>3, GoneIsOver
    <2>5. PICK a \in Workers : a = After(w)
      BY <2>3
    <2>6. PICK q \in Seq(ItemsTo(timeline)) : q = channel[a]
      BY <1>1 DEF Types, ItemTypes
    <2>7. PICK item \in ItemsTo(timeline) : item = hand[w]
      BY <1>1, <1>2, <2>1 DEF Types, ItemTypes
    <2>8. channel' = [channel EXCEPT ![a] = Append(@, item)]
      BY <2>1, <2>4, <2>5, <2>7 DEF Pushed
    <2>9. channel'[a] = Append(q, item)
      BY <1>1, <2>6, <2>8 DEF Types, ItemTypes
    <2>10. channel'[a] # <<>>
      <3>1. Len(Append(q, item)) = Len(q) + 1 /\ Len(q) \in Nat
        BY AppendOf
      <3>2. Len(Append(q, item)) # 0
        BY <3>1
      <3> QED  BY <2>9, <3>2
    <2> QED  BY <2>3, <2>5, <2>10 DEF Dry, Empty
  <1>11. CASE WorkerForwards(w)
    <2>1. channel[w] # <<>> /\ tpc[w] = "select"
      BY <1>11 DEF WorkerForwards
    <2>2. CASE Stale(w, Head(channel[w]))
      <3>1. ~Clear(l, 2 * w[2])
        BY <1>1, <1>11, <2>2, WorkerForwardsFlow
      <3>2. PICK u \in Of(l) : 2 * u[2] >= 2 * w[2] /\ tpc[u] \in Over
        BY <3>1 DEF Clear
      <3>3. w[2] <= u[2]
        BY <1>1, <3>2, WorkerOf
      <3>4. Drained(u) /\ u[1] = l
        BY <1>2, <1>6, <3>2
      <3>5. Empty(w)
        BY <1>2, <3>3, <3>4 DEF Drained
      <3> QED  BY <2>1, <3>5 DEF Empty
    <2>3. CASE ~Stale(w, Head(channel[w])) /\ ~IsLast(w)
      <3>1. tpc' = [tpc EXCEPT ![w] = "push"]
        BY <1>11, <2>3 DEF WorkerForwards, GoTo
      <3>2. tpc'[w] = "push"
        BY <1>1, <1>2, <3>1 DEF Types, ThreadTypes
      <3> QED  BY <1>2, <3>2 DEF Dry, Empty
    <2> QED  BY <1>11, <2>2, <2>3 DEF Hands
  <1>12. CASE WorkerDone(w)
    <2>1. tpc[w] \in {"ending", "joining"} /\ tpc[w] \in Over /\ tpc[w] # "push"
          /\ channel' = [channel EXCEPT ![w] = <<>>]
      BY <1>12 DEF WorkerDone, Over
    <2>2. Drained(w)
      BY <1>2, <1>6, <2>1
    <2>3. Empty(w)
      BY <1>1, <1>2, <2>2, WorkerOf DEF Drained
    <2>4. channel' = channel
      BY <1>1, <2>1, <2>3 DEF Empty, Types, ItemTypes
    <2> QED  BY <1>7, <2>1, <2>4
  <1> QED  BY <1>8, <1>9, <1>10, <1>11, <1>12 DEF WorkerThread

\* The last of a line is over with a Stop, or with all drawn.
LEMMA LastIsOver ==
    ASSUME Rests, NEW w \in Workers, LineDraws(w[1]), WorkerThread(w),
           ~LineOver(w[1]), LineOver(w[1])'
    PROVE  OverIsDrawn(w[1])'
  <1> DEFINE l == w[1]
             msgs == {control[w][i].msg : i \in DOMAIN control[w]}
  <1>1. Types /\ Protocol /\ Finishes /\ l \in Lines /\ Source(l) \in Threads
    BY ThreadsAre DEF Rests, Known
  <1>2. PICK p \in WorkerPlaces : Goes(w, p)
    BY <1>1, WorkerGoes
  <1>3. tpc'[w] = p /\ \A u \in Threads : u # w => tpc'[u] = tpc[u]
    BY <1>1, <1>2, GoesOnTime
  <1>4. w = LastOf(l) /\ IsLast(w) /\ w \in Threads
    BY <1>1, <1>3, WorkerOf DEF LineOver
  <1>5. tpc[w] \notin Over /\ tpc'[w] \in Over
    BY <1>4 DEF LineOver
  <1>6. terminal \in [Lines -> [seg : 0..timeline, from : 0..timeline, at : 0..Length,
                                ended : BOOLEAN, heard : BOOLEAN]]
    BY <1>1 DEF Types, TerminalTypes
  <1>7. ASSUME NEW asked, terminal' = Heard(w, asked), "Stop" \in asked PROVE terminal'[l].heard
    <2>1. terminal' = [terminal EXCEPT ![l].heard = TRUE]
      BY <1>4, <1>7 DEF Heard
    <2> QED  BY <1>1, <1>6, <2>1
  <1>8. CASE WorkerTakes(w)
    <2>1. PICK msg : msg = Head(control[w]).msg
      OBVIOUS
    <2>2. WorkerNext(w, msg) /\ terminal' = Heard(w, {msg})
      BY <1>8, <2>1 DEF WorkerTakes
    <2>3. PICK q \in {"look", "paused", "ending"} :
              tpc' = [tpc EXCEPT ![w] = q] /\ (q = "ending" <=> msg = "Stop")
      BY <2>2, WorkerNextIs
    <2>4. q = "ending"
      BY <1>1, <1>4, <1>5, <2>3 DEF Types, ThreadTypes, Over
    <2>5. terminal'[l].heard
      BY <1>7, <2>2, <2>3, <2>4
    <2> QED  BY <2>5 DEF OverIsDrawn
  <1>9. CASE DeliverPending(w)
    <2>1. terminal' = Heard(w, msgs) /\ UNCHANGED <<source, pad>>
      BY <1>9 DEF DeliverPending
    <2> SUFFICES ASSUME ~terminal'[l].heard
                 PROVE  tpc'[Source(l)] \in Left /\ terminal'[l].ended /\ Drawn(l)'
      BY DEF OverIsDrawn
    <2>2. "Stop" \notin msgs
      BY <1>7, <2>1
    <2>3. /\ Before(w) \in Threads /\ Before(w)[1] = l
          /\ EndsIn(Before(w)) /\ (StopComes(l) => "Stop" \in msgs)
          /\ Drains(l) /\ Drained(Before(w)) => Drained(w) /\ terminal[l].ended
      BY <1>1, <1>4, <1>9, DroppedLeaves
    <2>4. Drains(l) /\ Drained(w) /\ terminal[l].ended
      BY <2>2, <2>3 DEF EndsIn
    <2>5. tpc[Source(l)] \in Left /\ pad[l].ended /\ ToNothing
      BY <2>4 DEF Drains
    <2>6. Dry(l)
      BY <1>1, <1>4, <2>4, WorkerOf DEF Drained, Dry
    <2>7. ~Stopping
      BY <2>5 DEF ToNothing, Stopping
    <2>8. source[l].seg = timeline
      BY <2>4 DEF LineDraws, DrainsIts
    <2>9. Drawn(l)
      BY <2>5, <2>6, <2>7, <2>8 DEF LineDraws, DryIsDrawn
    <2>10. /\ terminal'[l].seg = terminal[l].seg /\ terminal'[l].at = terminal[l].at
           /\ terminal'[l].ended = terminal[l].ended
      BY <1>1, <2>1, HeardKeeps
    <2>11. tpc'[Source(l)] = tpc[Source(l)]
      BY <1>1, <1>3, WorkerOf
    <2> QED  BY <2>1, <2>4, <2>5, <2>9, <2>10, <2>11 DEF Drawn
  <1>10. CASE WorkerCarried(w)
    BY <1>1, <1>4, <1>10 DEF WorkerCarried, Protocol, Carrying
  <1>11. CASE WorkerDrops(w) \/ WorkerDone(w)
    BY <1>5, <1>11 DEF WorkerDrops, WorkerDone, Over
  <1>12. CASE WorkerLooks(w) \/ WorkerLooksAgain(w) \/ WorkerForwards(w) \/ WorkerHandsOn(w)
              \/ WorkerCarries(w)
    <2>1. \E q \in {"look", "select", "push", "carrying"} : tpc' = [tpc EXCEPT ![w] = q]
      BY <1>12 DEF WorkerLooks, WorkerLooksAgain, WorkerForwards, WorkerHandsOn, WorkerCarries, GoTo
    <2>2. tpc'[w] \in {"look", "select", "push", "carrying"}
      BY <1>1, <1>4, <2>1 DEF Types, ThreadTypes
    <2> QED  BY <1>5, <2>2 DEF Over
  <1> QED  BY <1>8, <1>9, <1>10, <1>11, <1>12 DEF WorkerThread

\* With what the terminal takes, a line goes dry only by its end.
LEMMA HandsDraws ==
    ASSUME Rests, Finishes', Streams', NEW w \in Workers, LineDraws(w[1]), Hands(w), InOrder(w[1])
    PROVE  LineDraws(w[1])'
  <1> DEFINE l == w[1]
  <1>1. /\ Types /\ Finishes /\ Quiet /\ Flow(l) /\ SourceIs(l)' /\ l \in Lines /\ w \in Threads
        /\ LineOpen(l)'
    BY ThreadsAre DEF Rests, Known, Streams, Finishes, OfLine
  <1>2. /\ WorkerForwards(w) /\ IsLast(w) /\ tpc[w] = "select"
        /\ UNCHANGED <<starts, todo, step, holder, call, paused, source, pad>>
    BY DEF Hands, WorkerForwards, lock, callers
  <1>3. PICK p \in WorkerPlaces : Goes(w, p)
    BY <1>1, WorkerGoes DEF Hands, WorkerThread
  <1>4. tpc' = [tpc EXCEPT ![w] = "look"]
    BY <1>2 DEF Hands, WorkerForwards, GoTo
  <1>5. tpc'[w] = "look" /\ \A u \in Threads : u # w => tpc'[u] = tpc[u]
    BY <1>1, <1>4 DEF Types, ThreadTypes
  <1>6. ~LineOver(l) /\ ~LineOver(l)' /\ tpc'[Source(l)] = tpc[Source(l)]
    BY <1>1, <1>2, <1>5, WorkerOf DEF LineOver, Over
  <1>7. timeline' = timeline
    BY <1>2 DEF timeline
  <1>8. PICK item : item = Head(channel[w]) /\ Takes(l, item)
    BY <1>1, <1>2, WorkerForwardsFlow DEF Hands
  <1>9. /\ item.seg = timeline
        /\ item.kind \in {"buffer", "eos"} => terminal[l].seg = timeline /\ ~terminal[l].ended
        /\ item.kind = "eos" => terminal[l].at = source[l].pos
    BY <1>1, <1>8, TakesIs
  <1>10. DrainsIts(l)'
    <2>1. Drains(l)' <=> Drains(l)
      BY <1>2, <1>6 DEF Drains, Finishing, ToNothing
    <2> QED  BY <1>2, <1>6, <1>7, <2>1 DEF LineDraws, DrainsIts
  <1>11. DryIsDrawn(l)'
    <2> SUFFICES ASSUME pad'[l].ended, source'[l].seg = timeline', Dry(l)' PROVE Drawn(l)'
      BY DEF DryIsDrawn
    <2>1. ~Renewing(l)'
      <3>1. source'[l].seg \in Nat
        BY <1>1, <1>2 DEF Types, SourceTypes, PlayTypes
      <3> QED  BY <1>1, <3>1 DEF SourceIs
    <2>2. EndOnWay(l)'
      BY <1>1, <1>6, <2>1 DEF LineOpen
    <2>3. \A v \in Of(l) : ~EndIn(v)'
      BY DEF Dry, Empty, EndIn
    <2>4. terminal'[l].ended
      BY <2>2, <2>3 DEF EndOnWay
    <2>5. item.kind = "eos"
      <3>1. CASE item.kind = "buffer"
        <4>1. terminal'[l].ended = terminal[l].ended
          BY <1>8, <3>1 DEF Takes
        <4> QED  BY <1>9, <2>4, <3>1, <4>1
      <3>2. CASE item.kind \notin {"buffer", "eos"}
        <4>1. terminal'[l].ended = FALSE
          BY <1>8, <3>2 DEF Takes
        <4> QED  BY <2>4, <4>1
      <3> QED  BY <3>1, <3>2
    <2>6. terminal'[l].at = terminal[l].at /\ terminal'[l].seg = terminal[l].seg
      BY <1>8, <2>5 DEF Takes
    <2>7. terminal[l].seg = timeline /\ terminal[l].at = source[l].pos
      BY <1>9, <2>5
    <2> QED  BY <1>2, <1>7, <2>6, <2>7 DEF Drawn
  <1>12. OverIsDrawn(l)'
    BY <1>6 DEF OverIsDrawn
  <1> QED  BY <1>10, <1>11, <1>12 DEF LineDraws

\* What a worker does.
LEMMA WorkerDraws ==
    ASSUME Rests, Finishes', Streams', Draws, NEW w \in Workers, WorkerThread(w), InOrder(w[1])
    PROVE  Draws'
  <1> DEFINE l == w[1]
  <1>1. Types /\ Protocol /\ Finishes /\ l \in Lines /\ LineDraws(l) /\ Source(l) \in Threads
    BY ThreadsAre DEF Rests, Known, Draws
  <1>2. OnlyLine(l) /\ UNCHANGED <<todo, step, holder, call, paused>>
    BY <1>1, WorkerIsOfLine DEF OnlyLine
  <1>3. PICK p \in WorkerPlaces : Goes(w, p)
    BY <1>1, WorkerGoes
  <1>4. starts' = starts /\ tpc'[w] = p /\ \A u \in Threads : u # w => tpc'[u] = tpc[u]
    BY <1>1, <1>3, GoesOnTime DEF Goes
  <1>5. LineDraws(l)'
    <2>1. CASE Hands(w)
      BY <1>1, <2>1, HandsDraws
    <2>2. CASE ~Hands(w)
      <3>1. UNCHANGED <<source, pad>>
        BY DEF WorkerThread, WorkerLooks, WorkerLooksAgain, WorkerForwards, WorkerHandsOn,
           WorkerTakes, WorkerCarries, WorkerCarried, DeliverPending, WorkerDrops, WorkerDone, ends
      <3>2. terminal' = terminal \/ \E msgs : terminal' = Heard(w, msgs)
        BY <2>2 DEF Hands, WorkerThread, WorkerLooks, WorkerLooksAgain, WorkerForwards,
           WorkerHandsOn, WorkerTakes, WorkerCarries, WorkerCarried, DeliverPending, WorkerDrops,
           WorkerDone, ends
      <3>3. /\ terminal'[l].seg = terminal[l].seg /\ terminal'[l].at = terminal[l].at
            /\ terminal'[l].ended = terminal[l].ended
        BY <1>1, <3>2, HeardKeeps
      <3>4. terminal[l].heard => terminal'[l].heard
        <4>1. CASE terminal' = terminal
          BY <4>1
        <4>2. CASE terminal' = [terminal EXCEPT ![w[1]].heard = TRUE]
          BY <1>1, <4>2 DEF Types, TerminalTypes
        <4> QED  BY <3>2, <4>1, <4>2 DEF Heard
      <3>5. tpc'[Source(l)] = tpc[Source(l)] /\ (LineOver(l) => LineOver(l)')
        <4>1. LastOf(l) = w => (tpc[w] \in Over => tpc'[w] \in Over)
          BY <1>3, <1>4 DEF Goes
        <4> QED  BY <1>1, <1>4, <4>1, WorkerOf DEF LineOver
      <3>6. ~LineOver(l) /\ LineOver(l)' => OverIsDrawn(l)'
        BY <1>1, LastIsOver
      <3>7. Drains(l)' => Drains(l)
        BY <1>2, <3>1, <3>5 DEF Drains, Finishing, ToNothing
      <3>8. Stopping' <=> Stopping
        BY <1>2 DEF Stopping
      <3>9. source[l].seg = timeline /\ ~LineOver(l)' /\ ~Stopping /\ Dry(l)' => Dry(l)
        BY <2>2, <3>5, WorkerDries
      <3> QED  BY <1>1, <1>4, <3>1, <3>3, <3>4, <3>5, <3>6, <3>7, <3>8, <3>9, KeptDraws
    <2> QED  BY <2>1, <2>2
  <1> QED  BY <1>1, <1>2, <1>4, <1>5, OtherDraws DEF Draws

-----------------------------------------------------------------------------
(* What the pipeline's calls leave of it.                                  *)

\* A timeline begins with a flush; a stage is left by its end.
LEMMA StageMoves ==
    ASSUME Types, [Next]_vars
    PROVE  /\ starts' # starts => /\ todo' = todo /\ todo # <<>> /\ todo[1] = "Flush"
                                  /\ timeline' = timeline + 1
           /\ todo' # todo => todo = <<>> \/ Settles \/ Awaits
  <1>1. CASE \E c \in Callers : Calls(c) \/ Caller(c)
    BY <1>1 DEF Calls, Caller, Refuses, Begins, Joins, playback, lock, Types, CallTypes, PlayTypes,
                Plan
  <1>2. CASE Asks
    <2>1. CASE Says
      <3>1. todo' = todo /\ todo # <<>>
            /\ starts' = IF todo[1] = "Flush" THEN Append(starts, call[holder].to) ELSE starts
        BY <2>1, SaysIs
      <3>2. todo[1] = "Flush" => timeline' = timeline + 1
        BY <3>1 DEF Types, PlayTypes, timeline
      <3> QED  BY <3>1, <3>2
    <2>2. CASE Snapshots \/ Sends \/ Interrupts \/ Completes
      BY <2>2 DEF Snapshots, Sends, Interrupts, Completes, playback
    <2>3. CASE Settles \/ Awaits
      BY <2>3 DEF Settles, Awaits, playback
    <2> QED  BY <1>2, <2>1, <2>2, <2>3 DEF Asks
  <1>3. CASE \E l \in Lines : SourceThread(l) \/ SourceFails(l)
    BY <1>3 DEF SourceThread, SourceBegins, SourceProduces, SourceHandsOn, SourceEnds, SourceTakes,
           SourceFinishes, SourceFinished, SourceFails, SourceCarried, SourceReturns,
           DropsReceiver, SourceDrops, SourceJoins, playback, lock
  <1>4. CASE \E w \in Workers : WorkerThread(w)
    BY <1>4, WorkerGoes DEF Goes
  <1>5. CASE UNCHANGED vars
    BY <1>5 DEF vars, playback, lock
  <1> QED  BY <1>1, <1>2, <1>3, <1>4, <1>5 DEF Next

\* What a call does, and what it asks.
LEMMA CallsDraw ==
    ASSUME Rests, Draws, [Next]_vars, UNCHANGED <<tpc, hand, channel, source, pad, terminal>>
    PROVE  Draws'
  <1> SUFFICES ASSUME NEW l \in Lines PROVE LineDraws(l)'
    BY DEF Draws
  <1>1. Types /\ Protocol /\ Finishes /\ OfLine(l) /\ LineDraws(l)
    BY DEF Rests, Known, Finishes, Draws
  <1>2. (LineOver(l)' <=> LineOver(l)) /\ (Dry(l)' <=> Dry(l)) /\ (Drawn(l)' <=> Drawn(l))
    BY DEF LineOver, Dry, Empty, Drawn
  <1>3. CASE starts' # starts
    <2>1. todo' = todo /\ todo # <<>> /\ todo[1] = "Flush" /\ timeline' = timeline + 1
      BY <1>1, <1>3, StageMoves
    <2>2. source'[l].seg # timeline'
      <3>1. source[l].seg \in 0 .. timeline /\ timeline \in Nat
        BY <1>1 DEF Types, SourceTypes, PlayTypes
      <3> QED  BY <2>1, <3>1
    <2>3. ~Drains(l)'
      BY <2>1 DEF Drains, ToNothing
    <2>4. OverIsDrawn(l)'
      BY <1>1, <1>2 DEF LineDraws, OverIsDrawn
    <2> QED  BY <2>2, <2>3, <2>4 DEF LineDraws, DryIsDrawn, DrainsIts
  <1>4. CASE starts' = starts
    <2>1. ~LineOver(l) /\ Stopping => Stopping'
      <3> SUFFICES ASSUME Stopping, todo' # todo PROVE LineOver(l)
        BY DEF Stopping
      <3>1. /\ todo # <<>> /\ todo[1] = "Stop" /\ (Settles \/ Awaits)
        BY <1>1, StageMoves DEF Stopping
      <3>2. Head(todo) = todo[1]
        BY <1>1, <3>1, UnderWay DEF StageLeaves
      <3>3. step = "acks" /\ waiting = {}
        BY <3>1, <3>2 DEF Settles, Awaits, AllAcked
      <3>4. sending = {}
        BY <1>1, <3>3 DEF Types, RequestTypes, Plan
      <3>5. Out("Stop")
        BY <3>1, <3>3 DEF Out
      <3>6. \A w \in Workers : tpc[w] \in Over
        BY <1>1, <3>3, <3>4, <3>5 DEF Protocol, Follows
      <3> QED  BY <3>6, LineIs DEF LineOver
    <2>2. ~LineOver(l) /\ Drains(l)' => Drains(l)
      <3> SUFFICES ASSUME ~LineOver(l), Drains(l)' PROVE Drains(l)
        OBVIOUS
      <3>1. tpc[Source(l)] \in Left /\ ToNothing'
        BY DEF Drains
      <3>2. Source(l) \in Threads /\ Source(l) \in Sources /\ Source(l)[1] = l
        BY ThreadsAre
      <3>3. EndsIn(Source(l))
        BY <1>1, <3>1, <3>2 DEF OfLine, LeavesEnd, IsOver
      <3>4. ~StopComes(l)
        <4> SUFFICES ASSUME StopComes(l) PROVE FALSE
          OBVIOUS
        <4>1. todo # <<>> /\ todo[1] = "Stop" /\ step \in {"send", "acks"} /\ waiting # {}
          BY DEF StopComes, Out
        <4>2. ~Settles /\ ~Awaits
          BY <4>1 DEF Settles, Awaits, AllAcked
        <4>3. todo' = todo
          BY <1>1, <4>1, <4>2, StageMoves
        <4> QED  BY <3>1, <4>1, <4>3 DEF ToNothing
      <3> QED  BY <3>2, <3>3, <3>4 DEF EndsIn
    <2> QED  BY <1>1, <1>2, <1>4, <2>1, <2>2, KeptDraws
  <1> QED  BY <1>3, <1>4

\* It holds as the pipeline starts.
LEMMA InitDraws == Init => Draws
  <1> SUFFICES ASSUME Init, NEW l \in Lines PROVE LineDraws(l)
    BY DEF Draws
  <1>1. Source(l) \in Threads /\ Source(l) \in Sources /\ LastOf(l) \in Threads /\ LastOf(l) \notin Sources
    BY ThreadsAre, LineIs
  <1>2. ~pad[l].ended /\ tpc[LastOf(l)] = "look"
    BY <1>1 DEF Init
  <1> QED  BY <1>2 DEF LineDraws, DryIsDrawn, DrainsIts, Drains, OverIsDrawn, LineOver, Over

\* Each step keeps it.
LEMMA NextDraws ==
    ASSUME Rests, Finishes', Streams', Draws, [Next]_vars, \A l \in Lines : InOrder(l)
    PROVE  Draws'
  <1>1. CASE (\E c \in Callers : Calls(c) \/ Caller(c)) \/ Asks \/ UNCHANGED vars
    <2>1. UNCHANGED <<tpc, hand, channel, source, pad, terminal>>
      BY <1>1 DEF Calls, Caller, Refuses, Begins, Joins, Asks, Says, Snapshots, Sends, Interrupts,
                  Settles, Awaits, Completes, vars, threads, queues, ends
    <2> QED  BY <2>1, CallsDraw
  <1>2. CASE \E l \in Lines : SourceThread(l) \/ SourceFails(l)
    BY <1>2, SourceDraws
  <1>3. CASE \E w \in Workers : WorkerThread(w)
    <2>1. \A w \in Workers : w[1] \in Lines
      BY ThreadsAre
    <2> QED  BY <1>3, <2>1, WorkerDraws
  <1> QED  BY <1>1, <1>2, <1>3 DEF Next

\* A line that ends with neither a stop nor a failure has played all its source
\* made, and its end, where every source can be sought and every queue was built
\* with the rest of its line: a finish lets it drain, and what its last worker
\* then gives up on is empty.
THEOREM EndedIsDrainedHolds ==
    ASSUME Seekable, ~LateBranch PROVE Spec => []EndedIsDrained
  <1>1. Known => Types /\ Protocol
    BY DEF Known
  <1>2. Types /\ Protocol /\ Finishes /\ [Next]_vars => Finishes'
    BY NextFinishes
  <1>3. Known /\ Known' /\ Streams /\ [Next]_vars => Streams' /\ \A l \in Lines : InOrder(l)
    BY NextStreams DEF Known
  <1>4. Known /\ Known' /\ Streams /\ Finishes /\ Draws /\ [Next]_vars => Draws'
    BY <1>1, <1>2, <1>3, NextDraws DEF Rests
  <1>5. Draws => EndedIsDrained
    <2> SUFFICES ASSUME Draws, NEW l \in Lines, tpc[LastOf(l)] = "done", ~terminal[l].heard
                 PROVE  terminal[l].ended /\ Drawn(l)
      BY DEF EndedIsDrained, Drawn, LastOf
    <2>1. LineOver(l)
      BY DEF LineOver, Over
    <2> QED  BY <2>1 DEF Draws, LineDraws, OverIsDrawn
  <1> QED  BY <1>1, <1>2, <1>4, <1>5, InitFinishes, InitDraws, AlwaysStreams, PTL DEF Spec
=============================================================================
