-------------------------- MODULE Broadcast_proofs --------------------------
(***************************************************************************)
(* What Broadcast.tla promises for any number of tracks, readers and       *)
(* publications, and any bound on what is kept: every position is held, no *)
(* wake is lost, runs are told apart; what a reader is handed is whole and *)
(* in order; and what is let go of is old.                                 *)
(***************************************************************************)
EXTENDS Broadcast, Stepwise, SequenceTheorems, TLAPS

-----------------------------------------------------------------------------
(* Least and largest elements, and the recursions of the model.            *)

\* It is what Min stands for.
LEMMA MinIs ==
    ASSUME NEW S, S \subseteq Nat, S # {}
    PROVE  Min(S) \in S /\ \A y \in S : Min(S) <= y
  BY LeastOf DEF Min

\* The larger of two numbers is what Max stands for.
LEMMA MaxOfTwo ==
    ASSUME NEW a \in Int, NEW b \in Int
    PROVE  Max({a, b}) = IF a >= b THEN a ELSE b
  <1>1. \E x \in {a, b} : \A y \in {a, b} : x >= y
    OBVIOUS
  <1>2. Max({a, b}) \in {a, b} /\ Max({a, b}) >= a /\ Max({a, b}) >= b
    BY <1>1 DEF Max
  <1> QED  BY <1>2

\* The recursion of StartsAfter defines what it says.
LEMMA StartsAfterIs ==
    ASSUME NEW ss \in Seq(Nat), NEW n \in Nat, firstSeq \in Nat
    PROVE  \E f \in [0 .. n -> Seq(Nat)] :
             /\ f[0] = ss
             /\ StartsAfter(ss, n) = f[n]
             /\ \A i \in 1 .. n : f[i] = IF f[i-1] # <<>> /\ Head(f[i-1]) = firstSeq + i - 1
                                          THEN Tail(f[i-1]) ELSE f[i-1]
  <1> DEFINE G(i, s) == IF s # <<>> /\ Head(s) = firstSeq + i - 1 THEN Tail(s) ELSE s
             g == [x \in (1 .. n) \X Seq(Nat) |-> G(x[1], x[2])]
             body(f) == [i \in 0 .. n |-> IF i = 0 THEN ss ELSE G(i, f[i-1])]
             after == CHOOSE f : f = body(f)
  <1>1. \A i \in 1 .. n, s \in Seq(Nat) : G(i, s) \in Seq(Nat)
    BY HeadTailProperties
  <1>a. StartsAfter(ss, n) = after[n]
    BY DEF StartsAfter
  <1> HIDE DEF G
  <1>2. g \in [(1 .. n) \X Seq(Nat) -> Seq(Nat)]
    BY <1>1
  <1>b. \A i \in 1 .. n, s \in Seq(Nat) : g[<<i, s>>] = G(i, s)
    OBVIOUS
  <1> HIDE DEF g
  <1>3. PICK f : GoesBy(f, n, Seq(Nat), ss, g)
    BY <1>2, Stepwise
  <1>c. \A i \in 1 .. n : f[i] = G(i, f[i-1])
    <2>1. ASSUME NEW i \in 1 .. n PROVE f[i-1] \in Seq(Nat) /\ f[i] = g[<<i, f[i-1]>>]
      BY <1>3 DEF GoesBy
    <2> QED BY <1>b, <2>1
  <1>4. f = body(f)
    <2>1. ASSUME NEW i \in 0 .. n PROVE f[i] = IF i = 0 THEN ss ELSE G(i, f[i-1])
      BY <1>3, <1>c DEF GoesBy
    <2>2. f = [i \in 0 .. n |-> f[i]]
      BY <1>3 DEF GoesBy
    <2> QED BY <2>1, <2>2
  <1>5. after = body(after)
    BY <1>4
  <1>6. after[0] = ss /\ \A i \in 1 .. n : after[i] = G(i, after[i-1])
    <2> HIDE DEF after
    <2> QED  BY <1>5
  <1> HIDE DEF after
  <1>7. \A i \in 0 .. n : after[i] = f[i]
    <2>1. GoAlike(after, f, n)
      BY <1>3, <1>c, <1>6 DEF GoesBy, GoAlike
    <2>2. Alike(after, f, n)
      BY <2>1, StepsAgree
    <2> QED  BY <2>2 DEF Alike
  <1>9. StartsAfter(ss, n) = f[n]
    BY <1>7, <1>a
  <1> QED  BY <1>3, <1>9, <1>c DEF G, GoesBy
-----------------------------------------------------------------------------
(* The starts.                                                             *)

Rising(s) == \A i, j \in 1 .. Len(s) : i < j => s[i] < s[j]

\* Taking the first of a rising sequence away takes its least number away.
LEMMA TailRises ==
    ASSUME NEW s \in Seq(Nat), s # <<>>, Rising(s)
    PROVE  /\ Tail(s) \in Seq(Nat) /\ Rising(Tail(s))
           /\ ToSet(Tail(s)) = ToSet(s) \ {Head(s)}
           /\ Head(s) \in ToSet(s) /\ \A x \in ToSet(s) : x >= Head(s)
  <1> DEFINE t == Tail(s)
  <1>1. /\ Len(s) \in Nat \ {0} /\ DOMAIN s = 1 .. Len(s) /\ Head(s) = s[1]
        /\ t \in Seq(Nat) /\ DOMAIN t = 1 .. Len(t) /\ Len(t) = Len(s) - 1
        /\ \A i \in 1 .. Len(t) : t[i] = s[i + 1]
        /\ \A i \in 1 .. Len(s) : s[i] \in Nat
    BY HeadTailProperties, EmptySeq
  <1> HIDE DEF t
  <1>2. Rising(t)
    <2>1. SUFFICES ASSUME NEW i \in 1 .. Len(t), NEW j \in 1 .. Len(t), i < j
                   PROVE  t[i] < t[j]
      BY DEF Rising
    <2>2. i + 1 \in 1 .. Len(s) /\ j + 1 \in 1 .. Len(s) /\ i + 1 < j + 1
      BY <1>1, <2>1
    <2> QED  BY <1>1, <2>2 DEF Rising
  <1>3. ASSUME NEW x \in ToSet(s), x # s[1] PROVE x \in ToSet(t)
    <2>1. PICK i \in 1 .. Len(s) : x = s[i]
      BY <1>1 DEF ToSet
    <2>2. i - 1 \in DOMAIN t /\ t[i - 1] = x
      BY <1>1, <1>3, <2>1
    <2> QED  BY <2>2 DEF ToSet
  <1>4. ASSUME NEW x \in ToSet(t) PROVE x \in ToSet(s) /\ x # s[1]
    <2>1. PICK i \in 1 .. Len(t) : x = s[i + 1]
      BY <1>1 DEF ToSet
    <2>2. i + 1 \in 1 .. Len(s) /\ 1 \in 1 .. Len(s) /\ 1 < i + 1
      BY <1>1, <2>1
    <2>3. s[1] \in Nat /\ s[i + 1] \in Nat /\ s[1] < s[i + 1]
      BY <2>2, <1>1 DEF Rising
    <2> QED  BY <2>1, <2>2, <2>3 DEF ToSet
  <1>5. ASSUME NEW x \in ToSet(s) PROVE x >= s[1]
    <2>1. PICK i \in 1 .. Len(s) : x = s[i]
      BY <1>1 DEF ToSet
    <2>2. 1 \in 1 .. Len(s) /\ (i = 1 \/ 1 < i)
      BY <1>1, <2>1
    <2>3. s[1] \in Nat /\ s[i] \in Nat /\ (i = 1 \/ s[1] < s[i])
      BY <1>1, <2>1, <2>2 DEF Rising
    <2> QED  BY <2>1, <2>2, <2>3
  <1>6. s[1] \in ToSet(s)
    <2>1. 1 \in DOMAIN s
      BY <1>1
    <2> QED  BY <2>1 DEF ToSet
  <1> QED  BY <1>1, <1>2, <1>3, <1>4, <1>5, <1>6 DEF t

\* Of the starts, dropping n entries leaves those of the entries left.
LEMMA StartsAfterKeeps ==
    ASSUME NEW ss \in Seq(Nat), NEW n \in Nat, firstSeq \in Nat, Rising(ss),
           \A x \in ToSet(ss) : x >= firstSeq
    PROVE  /\ StartsAfter(ss, n) \in Seq(Nat) /\ Rising(StartsAfter(ss, n))
           /\ ToSet(StartsAfter(ss, n)) = {x \in ToSet(ss) : x >= firstSeq + n}
  <1>1. PICK f \in [0 .. n -> Seq(Nat)] :
             /\ f[0] = ss
             /\ StartsAfter(ss, n) = f[n]
             /\ \A i \in 1 .. n : f[i] = IF f[i-1] # <<>> /\ Head(f[i-1]) = firstSeq + i - 1
                                          THEN Tail(f[i-1]) ELSE f[i-1]
    BY StartsAfterIs
  <1>a. ToSet(ss) \subseteq Nat
    BY DEF ToSet
  <1> DEFINE Left(i) == {x \in ToSet(ss) : x >= firstSeq + i}
             Keeps(i) == f[i] \in Seq(Nat) /\ Rising(f[i]) /\ ToSet(f[i]) = Left(i)
             Bad == {i \in 0 .. n : ~Keeps(i)}
  <1>2. SUFFICES ASSUME Bad # {} PROVE FALSE
    <2>1. Bad = {}
      <3> HIDE DEF Bad
      <3> QED  BY <1>2
    <2>2. Keeps(n)
      <3> HIDE DEF Keeps
      <3>1. n \in 0 .. n
        OBVIOUS
      <3> QED  BY <2>1, <3>1
    <2> QED  BY <1>1, <2>2
  <1>3. PICK i \in Bad : \A j \in Bad : i <= j
    <2>1. Bad \subseteq Nat
      OBVIOUS
    <2> HIDE DEF Bad
    <2> QED  BY <1>2, <2>1, LeastOf
  <1>4. i # 0
    <2>1. Left(0) = ToSet(ss)
      BY <1>a
    <2>2. Keeps(0)
      BY <1>1, <2>1
    <2> QED  BY <1>3, <2>2
  <1>5. i \in 1 .. n /\ i - 1 \in 0 .. n
    BY <1>3, <1>4
  <1>6. Keeps(i - 1)
    <2>1. i - 1 \notin Bad
      <3> HIDE DEF Bad
      <3> QED  BY <1>3, <1>5
    <2> HIDE DEF Keeps
    <2> QED  BY <2>1, <1>5
  <1>7. Left(i) = Left(i - 1) \ {firstSeq + i - 1}
    BY <1>a, <1>5
  <1>8. CASE f[i-1] # <<>> /\ Head(f[i-1]) = firstSeq + i - 1
    <2>1. f[i] = Tail(f[i-1])
      BY <1>1, <1>5, <1>8
    <2>2. Keeps(i)
      BY <1>6, <1>7, <1>8, <2>1, TailRises
    <2> QED  BY <1>3, <2>2
  <1>9. CASE ~(f[i-1] # <<>> /\ Head(f[i-1]) = firstSeq + i - 1)
    <2>1. f[i] = f[i-1]
      BY <1>1, <1>5, <1>9
    <2>2. firstSeq + i - 1 \notin ToSet(f[i-1])
      <3>1. CASE f[i-1] = <<>>
        BY <3>1 DEF ToSet
      <3>2. CASE f[i-1] # <<>>
        <4>1. Head(f[i-1]) \in Left(i - 1) /\ \A x \in ToSet(f[i-1]) : x >= Head(f[i-1])
          BY <1>6, <3>2, TailRises
        <4>2. Head(f[i-1]) \in Nat /\ Head(f[i-1]) >= firstSeq + (i - 1)
          BY <4>1, <1>a
        <4>3. Head(f[i-1]) # firstSeq + i - 1
          BY <1>9, <3>2
        <4>4. ~(firstSeq + i - 1 >= Head(f[i-1]))
          <5>1. firstSeq \in Nat /\ i \in Int
            BY <1>5
          <5>2. \A x \in Nat : x >= firstSeq + (i - 1) /\ x # firstSeq + i - 1
                               => ~(firstSeq + i - 1 >= x)
            BY <5>1
          <5> QED  BY <4>2, <4>3, <5>2
        <4>5. \A x \in ToSet(f[i-1]) : x # firstSeq + i - 1
          BY <4>1, <4>4
        <4> QED  BY <4>5
      <3> QED  BY <3>1, <3>2
    <2>3. Keeps(i)
      BY <1>6, <1>7, <2>1, <2>2
    <2> QED  BY <1>3, <2>3
  <1> QED  BY <1>8, <1>9

-----------------------------------------------------------------------------
(* What a reader is handed.                                                *)

StartsHeld ==
    /\ Rising(starts)
    /\ ToSet(starts) = {s \in firstSeq .. nextSeq - 1 : EntryAt(s).start}

\* What is held has the form of an entry.
LEMMA EntryIs ==
    ASSUME KeptTyped, NEW s \in firstSeq .. nextSeq - 1
    PROVE  EntryAt(s) \in Entry /\ s - firstSeq + 1 \in 1 .. Len(entries)
  <1>1. Len(entries) \in Nat /\ s - firstSeq + 1 \in 1 .. Len(entries)
    BY DEF KeptTyped
  <1> QED  BY <1>1, ElementOfSeq DEF KeptTyped, EntryAt

\* Joining puts a reader before a start that is held, or before what comes next.
LEMMA JoinedIs ==
    ASSUME KeptTyped, StartsHeld, NEW rd \in Reader
    PROVE  /\ Joined(rd) \in Reader
           /\ Joined(rd).run = rd.run /\ Joined(rd).ended = rd.ended
           /\ Joined(rd).closed = rd.closed /\ Joined(rd).back = NoBack
           /\ Joined(rd).next \in firstSeq .. nextSeq
           /\ IF Joined(rd).waitingForStart THEN Joined(rd).next = nextSeq
              ELSE Joined(rd).next < nextSeq /\ EntryAt(Joined(rd).next).start
           /\ Joined(rd).backFrom \in firstSeq .. nextSeq
           /\ \/ Joined(rd).backFrom = IF Joined(rd).waitingForStart THEN nextSeq ELSE firstSeq
              \/ /\ ~Joined(rd).waitingForStart /\ Joined(rd).backFrom < Joined(rd).next
                 /\ EntryAt(Joined(rd).backFrom).start
  <1> DEFINE start == Last(starts)
             held  == /\ starts # <<>>
                      /\ rd.within # None =>
                        (IF newest = None THEN 0 ELSE newest - EntryAt(start).at) <= rd.within
             before == IF ~held THEN nextSeq
                       ELSE IF Len(starts) > 1 THEN starts[Len(starts) - 1]
                       ELSE firstSeq
  <1>1. /\ Joined(rd) = [rd EXCEPT !.next = IF held THEN start ELSE nextSeq,
                  !.waitingForStart = ~held, !.backFrom = before, !.back = NoBack]
        /\ held => starts # <<>>
    BY DEF Joined
  <1>2. held \in BOOLEAN
    OBVIOUS
  <1> HIDE DEF held
  <1>3. firstSeq \in Nat /\ nextSeq \in Nat /\ firstSeq <= nextSeq
    <2>1. Len(entries) \in Nat
      BY LenProperties DEF KeptTyped
    <2> QED  BY <2>1 DEF KeptTyped
  <1>4. held => start \in ToSet(starts)
    <2>1. SUFFICES ASSUME held PROVE start \in ToSet(starts)
      OBVIOUS
    <2>2. Len(starts) \in Nat \ {0} /\ DOMAIN starts = 1 .. Len(starts)
      BY <1>1, <2>1, EmptySeq, LenProperties DEF KeptTyped
    <2>3. Len(starts) \in DOMAIN starts
      BY <2>2
    <2> QED  BY <2>3 DEF ToSet, Last
  <1>5. held => start \in firstSeq .. nextSeq - 1 /\ EntryAt(start).start
    BY <1>4 DEF StartsHeld
  <1>6. /\ before \in firstSeq .. nextSeq
        /\ \/ before = IF ~held THEN nextSeq ELSE firstSeq
           \/ held /\ before < start /\ EntryAt(before).start
    <2>1. CASE ~held \/ ~(Len(starts) > 1)
      BY <1>3, <2>1
    <2>2. CASE held /\ Len(starts) > 1
      <3>1. /\ Len(starts) \in Nat /\ Len(starts) - 1 \in 1 .. Len(starts)
            /\ Len(starts) \in 1 .. Len(starts) /\ Len(starts) - 1 < Len(starts)
            /\ DOMAIN starts = 1 .. Len(starts)
        BY <2>2, LenProperties DEF KeptTyped
      <3>2. starts[Len(starts) - 1] \in ToSet(starts)
        BY <3>1 DEF ToSet
      <3>3. starts[Len(starts) - 1] < start
        BY <3>1 DEF StartsHeld, Rising, Last
      <3>4. starts[Len(starts) - 1] \in firstSeq .. nextSeq - 1
            /\ EntryAt(starts[Len(starts) - 1]).start
        BY <3>2 DEF StartsHeld
      <3>5. before = starts[Len(starts) - 1]
        BY <2>2
      <3> HIDE DEF before
      <3> QED  BY <1>3, <2>2, <3>3, <3>4, <3>5
    <2> QED  BY <2>1, <2>2
  <1> HIDE DEF before, start
  <1>7. NoBack \in [cursor : Nat, end : Nat, from : Nat, track : Tracks \cup {None}]
    BY DEF NoBack
  <1> DEFINE there == IF held THEN start ELSE nextSeq
  <1>8. there \in Nat /\ there \in firstSeq .. nextSeq
        /\ IF held THEN there < nextSeq /\ EntryAt(there).start ELSE there = nextSeq
    BY <1>3, <1>5
  <1> HIDE DEF there
  <1>9. Joined(rd) = [rd EXCEPT !.next = there, !.waitingForStart = ~held,
                                !.backFrom = before, !.back = NoBack]
    BY <1>1 DEF there
  <1>10. /\ Joined(rd).next = there /\ Joined(rd).waitingForStart = ~held
         /\ Joined(rd).run = rd.run /\ Joined(rd).ended = rd.ended
         /\ Joined(rd).closed = rd.closed /\ Joined(rd).back = NoBack
    BY <1>9 DEF Reader
  <1>b. Joined(rd).backFrom = before
    BY <1>9 DEF Reader
  <1>d. before \in Nat /\ (held => there = start)
    BY <1>3, <1>6 DEF there
  <1>11. Joined(rd) \in Reader
    BY <1>9, <1>2, <1>d, <1>7, <1>8 DEF Reader
  <1> QED  BY <1>2, <1>6, <1>8, <1>b, <1>d, <1>10, <1>11

\* The eight things next_in may do.
LEMMA NextInIs ==
    ASSUME NEW rd \in Reader
    PROVE
      \/ run # rd.run /\ rd.run # 0 /\ ~rd.ended
         /\ NextIn(rd) = Handed("Ended", [rd EXCEPT !.ended = TRUE])
      \/ run # rd.run /\ (rd.run = 0 \/ rd.ended)
         /\ NextIn(rd) = Handed("Started", Joined([rd EXCEPT !.run = run, !.ended = FALSE]))
      \/ run = rd.run /\ run = 0 /\ NextIn(rd) = ClosedIn(rd)
      \/ run = rd.run /\ run # 0 /\ rd.next < firstSeq
         /\ NextIn(rd) = Handed("Skipped", Joined(rd))
      \/ run = rd.run /\ run # 0 /\ ~(rd.next < firstSeq) /\ Behind(rd) # {}
         /\ NextIn(rd) = LookBack(rd)
      \/ run = rd.run /\ run # 0 /\ ~(rd.next < firstSeq) /\ Behind(rd) = {}
         /\ Ahead(rd) # {} /\ NextIn(rd) = ReadOn(rd)
      \/ run = rd.run /\ run # 0 /\ ~(rd.next < firstSeq) /\ Behind(rd) = {}
         /\ Ahead(rd) = {} /\ NextIn(rd) = AtTheEnd(rd)
  <1>1. rd.ended \in BOOLEAN
    BY DEF Reader
  <1>2. CASE run # rd.run /\ rd.run # 0 /\ ~rd.ended
    BY <1>2 DEF NextIn
  <1>3. CASE run # rd.run /\ (rd.run = 0 \/ rd.ended)
    BY <1>3, <1>1 DEF NextIn
  <1>4. CASE run = rd.run /\ run = 0
    BY <1>4 DEF NextIn
  <1>5. CASE run = rd.run /\ run # 0
    BY <1>5 DEF NextIn
  <1> QED  BY <1>1, <1>2, <1>3, <1>4, <1>5

\* Where a reader may stand.
InPlace(rd) ==
    /\ rd.run <= run /\ (rd.ended => rd.run # 0)
    /\ rd.run = run => rd.next <= nextSeq /\ rd.back.end <= rd.next

\* One handed the end of the run stands behind all of it.
Through(rd) == rd.run = run /\ rd.ended => ~live /\ rd.next = nextSeq /\ rd.back = NoBack

\* What may be looked back to lies among the entries held.
LEMMA BehindIs ==
    ASSUME KeptTyped, NEW rd \in Reader, rd.back.end <= rd.next, rd.next <= nextSeq
    PROVE  /\ Behind(rd) \subseteq firstSeq .. nextSeq - 1
           /\ \A s \in Behind(rd) : s < rd.back.end /\ s >= rd.back.cursor
           /\ Behind(rd) \subseteq Nat
  <1>1. /\ firstSeq \in Nat /\ nextSeq \in Nat /\ rd.next \in Nat
        /\ rd.back.cursor \in Nat /\ rd.back.end \in Nat
    BY LenProperties DEF KeptTyped, Reader
  <1>2. Max({rd.back.cursor, firstSeq}) = IF rd.back.cursor >= firstSeq THEN rd.back.cursor
                                                                        ELSE firstSeq
    BY <1>1, MaxOfTwo
  <1> QED  BY <1>1, <1>2 DEF Behind

\* What lies ahead lies among the entries held.
LEMMA AheadIs ==
    ASSUME KeptTyped, NEW rd \in Reader, ~(rd.next < firstSeq)
    PROVE  Ahead(rd) \subseteq firstSeq .. nextSeq - 1 /\ Ahead(rd) \subseteq Nat
  <1>1. firstSeq \in Nat /\ nextSeq \in Nat /\ rd.next \in Nat
    BY LenProperties DEF KeptTyped, Reader
  <1> QED  BY <1>1 DEF Ahead

\* A reader at the end of the run has nothing more to be handed.
LEMMA NothingAtTheEnd ==
    ASSUME KeptTyped, run \in Nat, live \in BOOLEAN, NEW rd \in Reader,
           rd.run = run, run # 0, rd.next = nextSeq, rd.back = NoBack
    PROVE  /\ Behind(rd) = {} /\ Ahead(rd) = {} /\ ~(rd.next < firstSeq)
           /\ NextIn(rd) = AtTheEnd(rd)
           /\ AtTheEnd(rd) = IF ~live /\ ~rd.ended THEN Handed("Ended", [rd EXCEPT !.ended = TRUE])
                                                    ELSE ClosedIn(rd)
  <1>1. firstSeq \in Nat /\ nextSeq \in Nat /\ firstSeq <= nextSeq
    BY LenProperties DEF KeptTyped
  <1>2. Max({0, firstSeq}) = firstSeq /\ Max({rd.next, nextSeq}) = nextSeq
    BY <1>1, MaxOfTwo
  <1>3. Behind(rd) = {} /\ Ahead(rd) = {} /\ ~(rd.next < firstSeq)
    BY <1>1, <1>2 DEF Behind, Ahead, NoBack
  <1>4. [rd EXCEPT !.next = Max({rd.next, nextSeq}), !.back = NoBack] = rd
    BY <1>2 DEF Reader
  <1>5. NextIn(rd) = AtTheEnd(rd)
    BY <1>3, NextInIs
  <1> QED  BY <1>3, <1>4, <1>5 DEF AtTheEnd

\* What a reader is told of closing leaves it where it stands.
LEMMA ClosedInIs ==
    ASSUME NEW rd \in Reader, closed \in BOOLEAN
    PROVE  \/ ClosedIn(rd) = Handed("Closed", [rd EXCEPT !.closed = TRUE]) /\ closed /\ ~rd.closed
           \/ ClosedIn(rd) = Nothing(rd) /\ ~(closed /\ ~rd.closed)
  BY DEF ClosedIn

\* The marks a reader keeps of what it was told change nothing else of it.
LEMMA Marked ==
    ASSUME NEW rd \in Reader
    PROVE  /\ [rd EXCEPT !.ended = TRUE] \in Reader /\ [rd EXCEPT !.ended = TRUE].ended
           /\ [rd EXCEPT !.ended = TRUE].run = rd.run /\ [rd EXCEPT !.ended = TRUE].next = rd.next
           /\ [rd EXCEPT !.ended = TRUE].back = rd.back
           /\ [rd EXCEPT !.closed = TRUE] \in Reader
           /\ [rd EXCEPT !.closed = TRUE].ended = rd.ended
           /\ [rd EXCEPT !.closed = TRUE].run = rd.run
           /\ [rd EXCEPT !.closed = TRUE].next = rd.next
           /\ [rd EXCEPT !.closed = TRUE].back = rd.back
  BY DEF Reader

\* What a reader does leaves it in a place, and where it is handed nothing it
\* is handed nothing again.
LEMMA NextInKeeps ==
    ASSUME KeptTyped, RunTyped, StartsHeld, NEW rd \in Reader, InPlace(rd)
    PROVE  /\ NextIn(rd).to \in Reader /\ InPlace(NextIn(rd).to)
           /\ Through(rd) => Through(NextIn(rd).to)
           /\ NextIn(rd).item = "nothing" => NextIn(NextIn(rd).to).item = "nothing"
           /\ Through(rd) /\ rd.run = run /\ rd.ended
                  => NextIn(rd).item \notin {"Packet", "Skipped"}
           /\ NextIn(rd).item \in {"nothing", "Started", "Ended", "Skipped", "Packet", "Closed"}
  <1>t. /\ firstSeq \in Nat /\ nextSeq \in Nat /\ run \in Nat /\ rd.run \in Nat
        /\ rd.next \in Nat /\ rd.back.end \in Nat /\ rd.ended \in BOOLEAN /\ rd.closed \in BOOLEAN
        /\ firstSeq <= nextSeq /\ live \in BOOLEAN /\ closed \in BOOLEAN
    BY LenProperties DEF KeptTyped, RunTyped, Reader
  <1>1. CASE run # rd.run /\ rd.run # 0 /\ ~rd.ended
         /\ NextIn(rd) = Handed("Ended", [rd EXCEPT !.ended = TRUE])
    <2> DEFINE over == [rd EXCEPT !.ended = TRUE]
    <2>1. over \in Reader /\ over.run = rd.run /\ over.ended
      BY Marked
    <2> HIDE DEF over
    <2>2. NextIn(rd).to = over /\ NextIn(rd).item = "Ended"
      BY <1>1 DEF Handed, over
    <2> QED  BY <1>1, <2>1, <2>2 DEF InPlace, Through
  <1>2. CASE run # rd.run /\ (rd.run = 0 \/ rd.ended)
         /\ NextIn(rd) = Handed("Started", Joined([rd EXCEPT !.run = run, !.ended = FALSE]))
    <2> DEFINE of == [rd EXCEPT !.run = run, !.ended = FALSE]
    <2>1. of \in Reader /\ of.run = run /\ of.ended = FALSE
      BY <1>t DEF Reader
    <2> HIDE DEF of
    <2>2. NextIn(rd).to = Joined(of) /\ NextIn(rd).item = "Started"
      BY <1>2 DEF Handed, of
    <2>3. /\ Joined(of) \in Reader /\ Joined(of).run = run /\ Joined(of).ended = FALSE
          /\ Joined(of).next \in firstSeq .. nextSeq /\ Joined(of).back = NoBack
      BY <2>1, JoinedIs
    <2> QED  BY <1>2, <1>t, <2>2, <2>3 DEF InPlace, Through, NoBack
  <1>3. CASE run = rd.run /\ run = 0 /\ NextIn(rd) = ClosedIn(rd)
    <2>1. CASE ClosedIn(rd) = Nothing(rd)
      BY <1>3, <2>1 DEF Nothing
    <2>2. CASE ClosedIn(rd) = Handed("Closed", [rd EXCEPT !.closed = TRUE])
      <3> DEFINE over == [rd EXCEPT !.closed = TRUE]
      <3>1. over \in Reader /\ over.run = rd.run /\ over.ended = rd.ended /\ over.next = rd.next
            /\ over.back = rd.back
        BY Marked
      <3> HIDE DEF over
      <3>2. NextIn(rd).to = over /\ NextIn(rd).item = "Closed"
        BY <1>3, <2>2 DEF Handed, over
      <3> QED  BY <1>3, <3>1, <3>2 DEF InPlace, Through
    <2> QED  BY <1>t, <2>1, <2>2, ClosedInIs
  <1>4. CASE run = rd.run /\ run # 0 /\ rd.next < firstSeq
         /\ NextIn(rd) = Handed("Skipped", Joined(rd))
    <2>1. NextIn(rd).to = Joined(rd) /\ NextIn(rd).item = "Skipped"
      BY <1>4 DEF Handed
    <2>2. /\ Joined(rd) \in Reader /\ Joined(rd).run = rd.run /\ Joined(rd).ended = rd.ended
          /\ Joined(rd).next \in firstSeq .. nextSeq /\ Joined(rd).back = NoBack
      BY JoinedIs
    <2>3. Through(rd) => ~rd.ended
      BY <1>4, <1>t DEF Through
    <2> QED  BY <1>4, <1>t, <2>1, <2>2, <2>3 DEF InPlace, Through, NoBack
  <1>5. CASE run = rd.run /\ run # 0 /\ ~(rd.next < firstSeq) /\ Behind(rd) # {}
         /\ NextIn(rd) = LookBack(rd)
    <2> DEFINE s == Min(Behind(rd))
    <2>1. rd.back.end <= rd.next /\ rd.next <= nextSeq
      BY <1>5 DEF InPlace
    <2>2. s \in Behind(rd) /\ s \in Nat
      BY <1>5, <2>1, BehindIs, MinIs
    <2> HIDE DEF s
    <2>3. NextIn(rd).to = [rd EXCEPT !.back.cursor = s + 1] /\ NextIn(rd).item = "Packet"
      BY <1>5 DEF LookBack, Packet, s
    <2>4. /\ NextIn(rd).to \in Reader /\ NextIn(rd).to.run = rd.run
          /\ NextIn(rd).to.ended = rd.ended /\ NextIn(rd).to.next = rd.next
          /\ NextIn(rd).to.back.end = rd.back.end
      BY <2>2, <2>3 DEF Reader
    <2>5. Through(rd) => ~rd.ended
      BY <1>5, NothingAtTheEnd DEF Through, RunTyped
    <2> QED  BY <1>5, <2>3, <2>4, <2>5 DEF InPlace, Through
  <1>6. CASE run = rd.run /\ run # 0 /\ ~(rd.next < firstSeq) /\ Behind(rd) = {}
         /\ Ahead(rd) # {} /\ NextIn(rd) = ReadOn(rd)
    <2> DEFINE s  == Min(Ahead(rd))
               e  == EntryAt(s)
               on == [rd EXCEPT !.next = s + 1, !.waitingForStart = FALSE, !.back = NoBack]
               back == [cursor |-> rd.backFrom, end |-> s, from |-> e.ts, track |-> e.track]
               from == [on EXCEPT !.backFrom = None, !.back = back]
    <2>1. s \in Ahead(rd) /\ s \in firstSeq .. nextSeq - 1 /\ s \in Nat
      BY <1>6, AheadIs, MinIs
    <2>2. e \in Entry
      BY <2>1, EntryIs
    <2>3. NextIn(rd).item = "Packet"
          /\ NextIn(rd).to = IF e.start /\ rd.backFrom # None THEN from ELSE on
      BY <1>6 DEF ReadOn, Packet
    <2> HIDE DEF s, e
    <2>4. on \in Reader /\ on.run = rd.run /\ on.ended = rd.ended /\ on.next = s + 1
          /\ on.back = NoBack
      <3>1. s + 1 \in Nat
        BY <2>1
      <3>2. NoBack \in [cursor : Nat, end : Nat, from : Nat, track : Tracks \cup {None}]
        BY DEF NoBack
      <3> QED  BY <3>1, <3>2 DEF Reader
    <2>5. rd.backFrom # None => back \in [cursor : Nat, end : Nat, from : Nat, track : Tracks \cup {None}]
      <3>1. e.ts \in Nat /\ e.track \in Tracks
        BY <2>2, TimesAssumption DEF Entry
      <3>2. rd.backFrom # None => rd.backFrom \in Nat
        BY DEF Reader
      <3> QED  BY <2>1, <3>1, <3>2
    <2> HIDE DEF back, on
    <2>6. rd.backFrom # None => from \in Reader
      BY <2>4, <2>5 DEF Reader
    <2>7. from.run = rd.run /\ from.ended = rd.ended /\ from.next = s + 1 /\ from.back = back
      BY <2>4 DEF Reader
    <2>8. back.end = s
      BY DEF back
    <2>9. Through(rd) => ~rd.ended
      BY <1>6, NothingAtTheEnd DEF Through, RunTyped
    <2> HIDE DEF from
    <2>10. NextIn(rd).to \in Reader /\ NextIn(rd).to.run = rd.run /\ NextIn(rd).to.ended = rd.ended
           /\ NextIn(rd).to.next = s + 1 /\ NextIn(rd).to.back.end <= s + 1
      BY <2>1, <2>3, <2>4, <2>6, <2>7, <2>8, <1>t DEF NoBack
    <2> QED  BY <1>6, <1>t, <2>1, <2>3, <2>9, <2>10 DEF InPlace, Through
  <1>7. CASE run = rd.run /\ run # 0 /\ ~(rd.next < firstSeq) /\ Behind(rd) = {}
         /\ Ahead(rd) = {} /\ NextIn(rd) = AtTheEnd(rd)
    <2> DEFINE on == [rd EXCEPT !.next = Max({rd.next, nextSeq}), !.back = NoBack]
    <2>a. rd.next <= nextSeq
      BY <1>7 DEF InPlace
    <2>1. Max({rd.next, nextSeq}) = nextSeq
      <3>1. Max({rd.next, nextSeq}) = IF rd.next >= nextSeq THEN rd.next ELSE nextSeq
        BY <1>t, MaxOfTwo
      <3> QED  BY <1>t, <2>a, <3>1
    <2>2. on \in Reader /\ on.next = nextSeq /\ on.back = NoBack /\ on.run = rd.run
          /\ on.ended = rd.ended
      BY <2>1, <1>t DEF Reader, NoBack
    <2>3. NextIn(rd) = IF ~live /\ ~rd.ended THEN Handed("Ended", [on EXCEPT !.ended = TRUE])
                                             ELSE ClosedIn(on)
      BY <1>7 DEF AtTheEnd
    <2> HIDE DEF on
    <2>4. CASE ~live /\ ~rd.ended
      <3> DEFINE over == [on EXCEPT !.ended = TRUE]
      <3>1. over \in Reader /\ over.run = rd.run /\ over.ended /\ over.next = nextSeq
            /\ over.back = NoBack
        BY <2>2, Marked
      <3> HIDE DEF over
      <3>2. NextIn(rd).to = over /\ NextIn(rd).item = "Ended"
        BY <2>3, <2>4 DEF Handed, over
      <3> QED  BY <1>7, <1>t, <2>4, <3>1, <3>2 DEF InPlace, Through, NoBack
    <2>5. CASE ~(~live /\ ~rd.ended) /\ ClosedIn(on) = Nothing(on)
      <3>1. NextIn(on) = ClosedIn(on)
        BY <1>7, <1>t, <2>2, <2>5, NothingAtTheEnd
      <3> QED  BY <1>7, <1>t, <2>2, <2>3, <2>5, <3>1 DEF Nothing, InPlace, Through, NoBack
    <2>6. CASE ~(~live /\ ~rd.ended) /\ ClosedIn(on) = Handed("Closed", [on EXCEPT !.closed = TRUE])
      <3> DEFINE over == [on EXCEPT !.closed = TRUE]
      <3>1. over \in Reader /\ over.run = rd.run /\ over.ended = rd.ended /\ over.next = nextSeq
            /\ over.back = NoBack
        BY <2>2, Marked
      <3> HIDE DEF over
      <3>2. NextIn(rd).to = over /\ NextIn(rd).item = "Closed"
        BY <2>3, <2>6 DEF Handed, over
      <3> QED  BY <1>7, <1>t, <2>6, <3>1, <3>2 DEF InPlace, Through, NoBack
    <2> QED  BY <1>t, <2>2, <2>4, <2>5, <2>6, ClosedInIs
  <1> QED  BY <1>1, <1>2, <1>3, <1>4, <1>5, <1>6, <1>7, NextInIs

-----------------------------------------------------------------------------
(* What a packet written leaves held.                                      *)

\* There is a number of entries that are too old, and it is what it says.
LEMMA OlderIs ==
    ASSUME NEW es \in Seq(Entry), NEW new \in Int, NEW retain \in Int
    PROVE  /\ Older(es, new, retain) \in 0 .. Len(es)
           /\ \A i \in 1 .. Older(es, new, retain) : new - es[i].at > retain
  <1> DEFINE Enough == {n \in 0 .. Len(es) : n < Len(es) => new - es[n + 1].at <= retain}
             IsIt(n) == /\ \A i \in 1 .. n : new - es[i].at > retain
                        /\ n < Len(es) => new - es[n + 1].at <= retain
  <1>1. Len(es) \in Nat /\ \A i \in 1 .. Len(es) : es[i].at \in Nat
    <2>1. \A i \in 1 .. Len(es) : es[i] \in Entry
      BY ElementOfSeq
    <2> QED  BY <2>1, LenProperties DEF Entry
  <1>2. Len(es) \in Enough /\ Enough \subseteq Nat
    BY <1>1
  <1>3. PICK n \in Enough : \A k \in Enough : n <= k
    <2> HIDE DEF Enough
    <2> QED  BY <1>2, LeastOf
  <1>4. n \in 0 .. Len(es)
    OBVIOUS
  <1>5. ASSUME NEW i \in 1 .. n PROVE new - es[i].at > retain
    <2>1. i - 1 \notin Enough /\ i - 1 \in 0 .. Len(es) /\ i \in 1 .. Len(es)
      <3> HIDE DEF Enough
      <3> QED  BY <1>1, <1>3, <1>4
    <2>2. ~(new - es[i].at <= retain)
      BY <2>1
    <2> QED  BY <2>1, <2>2, <1>1
  <1>6. IsIt(n)
    BY <1>3, <1>5
  <1> HIDE DEF IsIt
  <1>7. Older(es, new, retain) = CHOOSE k \in 0 .. Len(es) : IsIt(k)
    BY DEF Older, IsIt
  <1>8. Older(es, new, retain) \in 0 .. Len(es) /\ IsIt(Older(es, new, retain))
    BY <1>4, <1>6, <1>7
  <1> QED  BY <1>8 DEF IsIt

\* What is written: the entries there were, some of them let go of, and one more.
Wrote(p, t, ts, all, n) ==
    /\ all \in Seq(Entry) /\ Len(all) = Len(entries) + 1 /\ n \in 0 .. Len(all)
    /\ Len(all) - n <= MaxHeld
    /\ \A i \in 1 .. Len(entries) :
          /\ all[i].start = entries[i].start /\ all[i].of = entries[i].of
          /\ all[i].track = entries[i].track /\ all[i].ts = entries[i].ts
    /\ all[Len(all)].of = <<p, gen[p][t]>> /\ all[Len(all)].track = t
    /\ all[Len(all)].ts = ts
    /\ \A i \in 1 .. Len(entries) :
          all[i].at = IF t = Timeline /\ newest = None THEN ts ELSE entries[i].at
    /\ all[Len(all)].at = IF t = Timeline THEN ts ELSE Max({newest, 0})
    /\ newest' = IF t = Timeline THEN Max({newest, ts}) ELSE newest
    /\ entries' = SubSeq(all, n + 1, Len(all))
    /\ firstSeq' = firstSeq + n /\ nextSeq' = nextSeq + 1
    /\ starts' = StartsAfter(IF all[Len(all)].start THEN Append(starts, nextSeq) ELSE starts, n)
    /\ newest' \in Nat \cup {None}
    /\ \E why \in [1 .. n -> {"bound", "retain", "unread"}] :
          /\ letGo' = letGo \o [i \in 1 .. n |-> LetGoOf(all[i], why[i])]
          /\ \A i \in 1 .. n :
                why[i] = "retain" => newest' # None /\ newest' - all[i].at > Retain

\* That is what Write does.
LEMMA WriteIs ==
    ASSUME RunTyped, KeptTyped, SinksTyped, NEW p \in Publications, NEW t \in Tracks,
           NEW key \in BOOLEAN, NEW ts \in Times, Write(p, t, key, ts)
    PROVE  \E all, n : Wrote(p, t, ts, all, n)
  <1> DEFINE start == IF keyTrack = None THEN TRUE ELSE t = keyTrack /\ key
             at    == IF t = Timeline THEN ts ELSE Max({newest, 0})
             entry == [track |-> t, start |-> start, at |-> at, ts |-> ts,
                       of |-> <<p, gen[p][t]>>]
             new   == IF t = Timeline THEN Max({newest, at}) ELSE newest
             had   == IF t = Timeline THEN Restamped(entries, at) ELSE entries
             all   == Append(had, entry)
             read  == \E r \in Readers : place[r] # "away"
             retain == IF read THEN Retain ELSE 0
             old   == IF new = None THEN 0 ELSE Older(all, new, retain)
             n     == Max({old, OverBound(all)})
             reason(i) == IF i > old THEN "bound" ELSE IF read THEN "retain" ELSE "unread"
             why   == [i \in 1 .. n |-> reason(i)]
  <1>1. /\ entries' = SubSeq(all, n + 1, Len(all)) /\ nextSeq' = nextSeq + 1
        /\ firstSeq' = firstSeq + n /\ newest' = new
        /\ starts' = StartsAfter(IF start THEN Append(starts, nextSeq) ELSE starts, n)
    BY DEF Write
  <1>a. letGo' = letGo \o [i \in 1 .. n |-> LetGoOf(all[i], reason(i))]
    BY DEF Write
  <1>2. ts \in Nat /\ newest \in Int /\ Retain \in Nat
    BY TimesAssumption DEF KeptTyped, None
  <1>3. at \in Nat
    <2>1. newest \in Nat \cup {-1} /\ 0 \in Int
      BY DEF KeptTyped, None
    <2>2. Max({newest, 0}) = IF newest >= 0 THEN newest ELSE 0
      BY <1>2, <2>1, MaxOfTwo
    <2> QED  BY <1>2, <2>1, <2>2
  <1>b. new = IF t = Timeline THEN Max({newest, ts}) ELSE newest
    OBVIOUS
  <1>c. at = IF t = Timeline THEN ts ELSE Max({newest, 0})
    OBVIOUS
  <1>4. new \in Nat \cup {None} /\ start \in BOOLEAN
    <2>1. newest \in Nat \cup {-1}
      BY DEF KeptTyped, None
    <2>2. Max({newest, at}) \in Nat
      BY <1>2, <1>3, <2>1, MaxOfTwo
    <2> QED  BY <2>1, <2>2 DEF None
  <1>5. entry \in Entry
    <2>1. gen[p][t] \in Nat
      BY DEF SinksTyped
    <2> QED  BY <1>3, <1>4, <2>1 DEF Entry
  <1> HIDE DEF at, start, new
  <1>6. /\ had \in Seq(Entry) /\ Len(had) = Len(entries)
        /\ \A i \in 1 .. Len(entries) :
              /\ had[i].start = entries[i].start /\ had[i].of = entries[i].of
              /\ had[i].track = entries[i].track /\ had[i].ts = entries[i].ts
              /\ had[i].at = IF t = Timeline /\ newest = None THEN ts ELSE entries[i].at
    <2>1. Len(entries) \in Nat /\ DOMAIN entries = 1 .. Len(entries)
          /\ \A i \in 1 .. Len(entries) : entries[i] \in Entry
      BY LenProperties, ElementOfSeq DEF KeptTyped
    <2> DEFINE stamped == [i \in 1 .. Len(entries) |-> [entries[i] EXCEPT !.at = at]]
    <2>2. /\ stamped \in Seq(Entry) /\ Len(stamped) = Len(entries)
          /\ \A i \in 1 .. Len(entries) :
              /\ stamped[i].start = entries[i].start /\ stamped[i].of = entries[i].of
              /\ stamped[i].track = entries[i].track /\ stamped[i].ts = entries[i].ts
              /\ stamped[i].at = at
      <3>1. \A i \in 1 .. Len(entries) : [entries[i] EXCEPT !.at = at] \in Entry
        BY <1>3, <2>1 DEF Entry
      <3>2. stamped \in [1 .. Len(entries) -> Entry]
        BY <3>1
      <3>3. stamped \in Seq(Entry) /\ Len(stamped) = Len(entries)
        BY <2>1, <3>2
      <3>4. ASSUME NEW i \in 1 .. Len(entries)
            PROVE  /\ stamped[i].start = entries[i].start /\ stamped[i].of = entries[i].of
                   /\ stamped[i].track = entries[i].track /\ stamped[i].ts = entries[i].ts
                   /\ stamped[i].at = at
        BY <2>1 DEF Entry
      <3> QED  BY <3>3, <3>4
    <2> HIDE DEF stamped
    <2>3. had = IF t = Timeline /\ newest = None THEN stamped ELSE entries
      BY <2>1 DEF Restamped, stamped
    <2> HIDE DEF had
    <2> QED  BY <1>c, <2>1, <2>2, <2>3 DEF KeptTyped
  <1> HIDE DEF had, entry
  <1>7. /\ all \in Seq(Entry) /\ Len(all) = Len(entries) + 1
        /\ \A i \in 1 .. Len(entries) : all[i] = had[i]
        /\ all[Len(all)] = entry
    BY <1>5, <1>6, AppendProperties
  <1>8. entry.of = <<p, gen[p][t]>> /\ entry.track = t /\ entry.ts = ts /\ entry.start = start
        /\ entry.at = at
    BY DEF entry
  <1> HIDE DEF all
  <1>9. retain \in Nat /\ (read => retain = Retain)
    BY <1>2
  <1> HIDE DEF retain
  <1>10. /\ old \in 0 .. Len(all) /\ Len(all) \in Nat
         /\ \A i \in 1 .. old : new # None /\ new - all[i].at > retain
    <2>1. Len(all) \in Nat
      BY <1>7, LenProperties
    <2>2. CASE new = None
      BY <2>1, <2>2
    <2>3. CASE new # None
      <3>1. new \in Int /\ retain \in Int
        BY <1>4, <1>9, <2>3
      <3>2. /\ Older(all, new, retain) \in 0 .. Len(all)
            /\ \A i \in 1 .. Older(all, new, retain) : new - all[i].at > retain
        BY <1>7, <3>1, OlderIs
      <3> QED  BY <2>1, <2>3, <3>2
    <2> QED  BY <2>2, <2>3
  <1> HIDE DEF old
  <1>11. OverBound(all) \in 0 .. Len(all) /\ OverBound(all) >= Len(all) - MaxHeld
    <2>1. MaxHeld \in Nat
      BY BoundsAssumption
    <2>2. Len(all) - MaxHeld \in Int
      BY <1>10, <2>1
    <2>3. Max({0, Len(all) - MaxHeld}) = IF 0 >= Len(all) - MaxHeld THEN 0 ELSE Len(all) - MaxHeld
      BY <2>2, MaxOfTwo
    <2> QED  BY <1>10, <2>1, <2>3 DEF OverBound
  <1>12. n \in 0 .. Len(all) /\ Len(all) - n <= MaxHeld
    <2>1. MaxHeld \in Nat
      BY BoundsAssumption
    <2>2. n = IF old >= OverBound(all) THEN old ELSE OverBound(all)
      BY <1>10, <1>11, MaxOfTwo
    <2> HIDE DEF n
    <2> QED  BY <1>10, <1>11, <2>1, <2>2
  <1> HIDE DEF n
  <1>13. \A i \in 1 .. n : reason(i) \in {"bound", "retain", "unread"}
    OBVIOUS
  <1>d. \A i \in 1 .. n : reason(i) = "retain" => newest' # None /\ newest' - all[i].at > Retain
    <2> SUFFICES ASSUME NEW i \in 1 .. n, reason(i) = "retain"
                 PROVE  newest' # None /\ newest' - all[i].at > Retain
      OBVIOUS
    <2>1. ~(i > old) /\ read
      OBVIOUS
    <2> HIDE DEF read
    <2>2. i \in 1 .. old
      BY <1>10, <1>12, <2>1
    <2> QED  BY <1>1, <1>9, <1>10, <2>1, <2>2
  <1> HIDE DEF reason
  <1>14. \A i \in 1 .. n : why[i] = reason(i)
    OBVIOUS
  <1>15. why \in [1 .. n -> {"bound", "retain", "unread"}]
    BY <1>13
  <1> HIDE DEF why
  <1>16. [i \in 1 .. n |-> LetGoOf(all[i], reason(i))] = [i \in 1 .. n |-> LetGoOf(all[i], why[i])]
    BY <1>14
  <1>17. letGo' = letGo \o [i \in 1 .. n |-> LetGoOf(all[i], why[i])]
    BY <1>a, <1>16
  <1>18. \A i \in 1 .. n : why[i] = "retain" => newest' # None /\ newest' - all[i].at > Retain
    BY <1>14, <1>d
  <1>19. newest' \in Nat \cup {None} /\ newest' = IF t = Timeline THEN Max({newest, ts}) ELSE newest
    BY <1>1, <1>4, <1>b
  <1>20. /\ \A i \in 1 .. Len(entries) :
               all[i].at = IF t = Timeline /\ newest = None THEN ts ELSE entries[i].at
         /\ all[Len(all)].at = IF t = Timeline THEN ts ELSE Max({newest, 0})
    BY <1>6, <1>7, <1>8, <1>c
  <1>21. /\ all \in Seq(Entry) /\ Len(all) = Len(entries) + 1 /\ n \in 0 .. Len(all)
         /\ Len(all) - n <= MaxHeld
         /\ \A i \in 1 .. Len(entries) :
               /\ all[i].start = entries[i].start /\ all[i].of = entries[i].of
               /\ all[i].track = entries[i].track /\ all[i].ts = entries[i].ts
         /\ all[Len(all)].of = <<p, gen[p][t]>> /\ all[Len(all)].track = t
         /\ all[Len(all)].ts = ts /\ all[Len(all)].start = start
    BY <1>6, <1>7, <1>8, <1>12
  <1>22. \E w \in [1 .. n -> {"bound", "retain", "unread"}] :
            /\ letGo' = letGo \o [i \in 1 .. n |-> LetGoOf(all[i], w[i])]
            /\ \A i \in 1 .. n :
                  w[i] = "retain" => newest' # None /\ newest' - all[i].at > Retain
    BY <1>15, <1>17, <1>18
  <1>23. starts' = StartsAfter(IF all[Len(all)].start THEN Append(starts, nextSeq) ELSE starts, n)
    BY <1>1, <1>21
  <1>24. entries' = SubSeq(all, n + 1, Len(all)) /\ nextSeq' = nextSeq + 1 /\ firstSeq' = firstSeq + n
    BY <1>1
  <1>25. Wrote(p, t, ts, all, n)
    BY <1>19, <1>20, <1>21, <1>22, <1>23, <1>24, Zenon DEF Wrote
  <1> QED  BY <1>25

\* What is held of what there was is as it was, and a start where it was one.
LEMMA WroteHolds ==
    ASSUME KeptTyped, StartsHeld, NEW p, NEW t, NEW ts, NEW all, NEW n, Wrote(p, t, ts, all, n)
    PROVE  /\ KeptTyped' /\ StartsHeld'
           /\ firstSeq' >= firstSeq /\ firstSeq' <= nextSeq'
           /\ \A s \in firstSeq' .. nextSeq' - 1 :
                 /\ EntryAt(s)' = all[s - firstSeq + 1]
                 /\ s < nextSeq => /\ s \in firstSeq .. nextSeq - 1
                                   /\ EntryAt(s)'.start = EntryAt(s).start
                                   /\ EntryAt(s)'.of = EntryAt(s).of
                                   /\ EntryAt(s)'.track = EntryAt(s).track
                                   /\ EntryAt(s)'.ts = EntryAt(s).ts
                 /\ s >= nextSeq => /\ s = nextSeq /\ EntryAt(s)'.of = <<p, gen[p][t]>>
                                    /\ EntryAt(s)'.track = t /\ EntryAt(s)'.ts = ts
  <1>1. /\ firstSeq \in Nat /\ Len(entries) \in Nat /\ nextSeq = firstSeq + Len(entries)
        /\ Len(all) = Len(entries) + 1 /\ n \in 0 .. Len(all) /\ all \in Seq(Entry)
        /\ firstSeq' = firstSeq + n /\ nextSeq' = nextSeq + 1
    BY LenProperties DEF KeptTyped, Wrote
  <1>2. \A i \in 1 .. Len(all) : all[i] \in Entry
    BY <1>1, ElementOfSeq
  <1>3. /\ entries' \in Seq(Entry) /\ Len(entries') = Len(all) - n
        /\ \A i \in 1 .. Len(all) - n : entries'[i] = all[n + i]
    <2>1. entries' = SubSeq(all, n + 1, Len(all))
      BY DEF Wrote
    <2>2. n + 1 \in Int /\ Len(all) \in Int /\ \A i \in n + 1 .. Len(all) : all[i] \in Entry
      BY <1>1, <1>2
    <2>3. /\ SubSeq(all, n + 1, Len(all)) \in Seq(Entry)
          /\ Len(SubSeq(all, n + 1, Len(all))) =
                IF n + 1 <= Len(all) THEN Len(all) - (n + 1) + 1 ELSE 0
          /\ \A i \in 1 .. Len(all) - (n + 1) + 1 :
                SubSeq(all, n + 1, Len(all))[i] = all[n + 1 + i - 1]
      BY <2>2, SubSeqProperties
    <2>4. \A i \in 1 .. Len(all) - n : i \in 1 .. Len(all) - (n + 1) + 1 /\ n + 1 + i - 1 = n + i
      BY <1>1
    <2>5. \A i \in 1 .. Len(all) - n : entries'[i] = all[n + i]
      BY <2>1, <2>3, <2>4
    <2>6. Len(entries') = Len(all) - n
      BY <1>1, <2>1, <2>3
    <2> QED  BY <2>1, <2>3, <2>5, <2>6
  <1>4. ASSUME NEW s \in firstSeq' .. nextSeq' - 1
        PROVE  /\ EntryAt(s)' = all[s - firstSeq + 1]
               /\ s < nextSeq => /\ s \in firstSeq .. nextSeq - 1
                                 /\ EntryAt(s)'.start = EntryAt(s).start
                                 /\ EntryAt(s)'.of = EntryAt(s).of
                                 /\ EntryAt(s)'.track = EntryAt(s).track
                                 /\ EntryAt(s)'.ts = EntryAt(s).ts
               /\ s >= nextSeq => /\ s = nextSeq /\ EntryAt(s)'.of = <<p, gen[p][t]>>
                                  /\ EntryAt(s)'.track = t /\ EntryAt(s)'.ts = ts
    <2>1. s - firstSeq' + 1 \in 1 .. Len(all) - n /\ n + (s - firstSeq' + 1) = s - firstSeq + 1
      BY <1>1
    <2>2. EntryAt(s)' = all[s - firstSeq + 1]
      BY <1>3, <2>1 DEF EntryAt
    <2>3. s < nextSeq => s \in firstSeq .. nextSeq - 1 /\ s - firstSeq + 1 \in 1 .. Len(entries)
      BY <1>1
    <2>4. s >= nextSeq => s = nextSeq /\ s - firstSeq + 1 = Len(all)
      BY <1>1
    <2> QED  BY <2>2, <2>3, <2>4 DEF Wrote, EntryAt
  <1>5. KeptTyped'
    <2>1. starts' \in Seq(Nat)
      <3> DEFINE had == IF all[Len(all)].start THEN Append(starts, nextSeq) ELSE starts
      <3>1. nextSeq \in Nat /\ starts \in Seq(Nat)
        BY <1>1 DEF KeptTyped
      <3>2. had \in Seq(Nat)
        BY <3>1, AppendProperties
      <3> HIDE DEF had
      <3>3. n \in Nat
        BY <1>1
      <3>4. PICK f \in [0 .. n -> Seq(Nat)] : StartsAfter(had, n) = f[n]
        BY <1>1, <3>2, <3>3, StartsAfterIs
      <3> QED  BY <3>3, <3>4 DEF Wrote, had
    <2>2. firstSeq' \in Nat /\ nextSeq' = firstSeq' + Len(entries')
      BY <1>1, <1>3
    <2>3. Len(entries') <= MaxHeld /\ newest' \in Nat \cup {None}
      BY <1>3 DEF Wrote
    <2>4. letGo' \in Seq(GoneEntry) /\ Len(letGo') <= firstSeq'
      <3>1. PICK why \in [1 .. n -> {"bound", "retain", "unread"}] :
               letGo' = letGo \o [i \in 1 .. n |-> LetGoOf(all[i], why[i])]
        BY DEF Wrote
      <3> DEFINE gone == [i \in 1 .. n |-> LetGoOf(all[i], why[i])]
      <3>2. \A i \in 1 .. n : all[i] \in Entry /\ why[i] \in {"bound", "retain", "unread"}
        BY <1>1, <1>2, <3>1
      <3>3. \A i \in 1 .. n : LetGoOf(all[i], why[i]) \in GoneEntry
        BY <3>2 DEF LetGoOf, Entry, GoneEntry
      <3>4. gone \in [1 .. n -> GoneEntry]
        BY <3>3
      <3>5. gone \in Seq(GoneEntry) /\ Len(gone) = n
        BY <1>1, <3>4
      <3> HIDE DEF gone
      <3>6. letGo \in Seq(GoneEntry) /\ Len(letGo) <= firstSeq /\ Len(letGo) \in Nat
        BY LenProperties DEF KeptTyped
      <3>7. letGo \o gone \in Seq(GoneEntry) /\ Len(letGo \o gone) = Len(letGo) + n
        BY <3>5, <3>6, ConcatProperties
      <3> QED  BY <1>1, <3>1, <3>6, <3>7 DEF gone
    <2> QED  BY <1>3, <2>1, <2>2, <2>3, <2>4 DEF KeptTyped
  <1>6. StartsHeld'
    <2> DEFINE is == all[Len(all)].start
               had == IF is THEN Append(starts, nextSeq) ELSE starts
    <2>1. /\ starts \in Seq(Nat) /\ Len(starts) \in Nat /\ DOMAIN starts = 1 .. Len(starts)
          /\ \A i \in 1 .. Len(starts) : starts[i] \in Nat /\ starts[i] \in ToSet(starts)
      BY LenProperties DEF KeptTyped, ToSet
    <2>2. \A x \in ToSet(starts) : x >= firstSeq /\ x < nextSeq
      BY <1>1 DEF StartsHeld
    <2>3. /\ had \in Seq(Nat) /\ Rising(had)
          /\ ToSet(had) = ToSet(starts) \cup (IF is THEN {nextSeq} ELSE {})
      <3>1. CASE ~is
        BY <2>1, <3>1 DEF StartsHeld
      <3>2. CASE is
        <4>1. had = Append(starts, nextSeq)
          BY <3>2
        <4>2. /\ had \in Seq(Nat) /\ Len(had) = Len(starts) + 1 /\ DOMAIN had = 1 .. Len(had)
              /\ \A i \in 1 .. Len(starts) : had[i] = starts[i]
              /\ had[Len(had)] = nextSeq
          BY <1>1, <2>1, <4>1, AppendProperties, LenProperties
        <4> HIDE DEF had
        <4>3. Rising(had)
          <5>1. SUFFICES ASSUME NEW i \in 1 .. Len(had), NEW j \in 1 .. Len(had), i < j
                         PROVE  had[i] < had[j]
            BY DEF Rising
          <5>2. i \in 1 .. Len(starts)
            BY <2>1, <4>2, <5>1
          <5>3. CASE j = Len(had)
            BY <2>1, <2>2, <4>2, <5>2, <5>3
          <5>4. CASE j # Len(had)
            <6>1. j \in 1 .. Len(starts)
              BY <2>1, <4>2, <5>4
            <6> QED  BY <4>2, <5>1, <5>2, <6>1 DEF StartsHeld, Rising
          <5> QED  BY <5>3, <5>4
        <4>4. ASSUME NEW x \in ToSet(had) PROVE x \in ToSet(starts) \cup {nextSeq}
          <5>1. PICK i \in 1 .. Len(had) : x = had[i]
            BY <4>2 DEF ToSet
          <5>2. i \in 1 .. Len(starts) \/ i = Len(had)
            BY <2>1, <4>2
          <5> QED  BY <2>1, <4>2, <5>1, <5>2
        <4>5. ASSUME NEW x \in ToSet(starts) PROVE x \in ToSet(had)
          <5>1. PICK i \in 1 .. Len(starts) : x = starts[i]
            BY <2>1 DEF ToSet
          <5>2. i \in DOMAIN had /\ had[i] = x
            BY <2>1, <4>2, <5>1
          <5> QED  BY <5>2 DEF ToSet
        <4>6. nextSeq \in ToSet(had)
          <5>1. Len(had) \in DOMAIN had
            BY <2>1, <4>2
          <5> QED  BY <4>2, <5>1 DEF ToSet
        <4> QED  BY <3>2, <4>2, <4>3, <4>4, <4>5, <4>6
      <3> QED  BY <3>1, <3>2
    <2>4. starts' = StartsAfter(had, n) /\ n \in Nat
      BY <1>1 DEF Wrote
    <2> HIDE DEF had
    <2>5. /\ Rising(starts')
          /\ ToSet(starts') = {x \in ToSet(had) : x >= firstSeq + n}
      <3>1. \A x \in ToSet(had) : x >= firstSeq
        BY <1>1, <2>2, <2>3
      <3> QED  BY <1>1, <2>3, <2>4, <3>1, StartsAfterKeeps
    <2>6. ASSUME NEW x
          PROVE  x \in ToSet(starts') <=> x \in firstSeq' .. nextSeq' - 1 /\ EntryAt(x)'.start
      <3>1. x \in ToSet(starts) <=> x \in firstSeq .. nextSeq - 1 /\ EntryAt(x).start
        BY DEF StartsHeld
      <3>2. x \in ToSet(starts') <=> /\ x \in ToSet(starts) \/ (is /\ x = nextSeq)
                                     /\ x >= firstSeq + n
        BY <2>3, <2>5
      <3>3. CASE x \in firstSeq' .. nextSeq' - 1
        <4>1. x >= firstSeq + n /\ x \in Int
          BY <1>1, <3>3
        <4>2. CASE x < nextSeq
          <5>1. x # nextSeq
            BY <1>1, <4>1, <4>2
          <5> QED  BY <1>4, <3>1, <3>2, <3>3, <4>1, <4>2, <5>1
        <4>3. CASE x >= nextSeq
          <5>1. x = nextSeq /\ EntryAt(x)'.start = is
            <6>1. x = nextSeq /\ EntryAt(x)' = all[x - firstSeq + 1]
              BY <1>4, <3>3, <4>3
            <6>2. x - firstSeq + 1 = Len(all)
              BY <1>1, <6>1
            <6> QED  BY <6>1, <6>2
          <5>2. x \notin ToSet(starts)
            BY <1>1, <2>2, <5>1
          <5> QED  BY <3>2, <3>3, <4>1, <5>1, <5>2
        <4> QED  BY <1>1, <4>1, <4>2, <4>3
      <3>4. CASE x \notin firstSeq' .. nextSeq' - 1
        <4>1. CASE x \in ToSet(starts) /\ x >= firstSeq + n
          <5>1. x \in firstSeq .. nextSeq - 1
            BY <3>1, <4>1
          <5> QED  BY <1>1, <3>4, <4>1, <5>1
        <4>2. CASE x = nextSeq /\ x >= firstSeq + n
          BY <1>1, <3>4, <4>2
        <4> QED  BY <3>2, <3>4, <4>1, <4>2
      <3> QED  BY <3>3, <3>4
    <2>7. ToSet(starts') = {x \in firstSeq' .. nextSeq' - 1 : EntryAt(x)'.start}
      BY <2>6
    <2> QED  BY <2>5, <2>7 DEF StartsHeld
  <1>7. firstSeq' >= firstSeq /\ firstSeq' <= nextSeq'
    BY <1>1
  <1> QED  BY <1>4, <1>5, <1>6, <1>7

-----------------------------------------------------------------------------
(* Types and positions.                                                    *)

Held == TypeOK /\ StartsHeld /\ \A r \in Readers : InPlace(reader[r])

\* Positions are held where Held is.
LEMMA HeldPositions == Held => PositionsAreHeld
  <1> SUFFICES ASSUME Held PROVE PositionsAreHeld
    OBVIOUS
  <1>1. DOMAIN starts = 1 .. Len(starts)
    BY LenProperties DEF Held, TypeOK, KeptTyped
  <1> QED  BY <1>1 DEF Held, StartsHeld, Rising, InPlace, PositionsAreHeld

\* A reader that has read nothing is in place.
LEMMA NewReaderIs ==
    ASSUME NEW within \in Withins \cup {None}, RunTyped, KeptTyped
    PROVE  /\ NewReader(within) \in Reader /\ InPlace(NewReader(within))
           /\ Through(NewReader(within)) /\ ~NewReader(within).ended
  <1>1. nextSeq \in Nat
    BY LenProperties DEF KeptTyped
  <1>2. NewReader(within) \in Reader
    BY DEF NewReader, NoBack, Reader, None
  <1> QED  BY <1>1, <1>2 DEF NewReader, NoBack, InPlace, Through, RunTyped

\* A run that begins holds nothing.
LEMMA BeganHolds ==
    ASSUME RunTyped, KeptTyped, BeginRun
    PROVE  /\ KeptTyped' /\ StartsHeld' /\ run' = run + 1 /\ live' = TRUE /\ cut' = FALSE
           /\ entries' = <<>>
  <1>1. firstSeq \in Nat /\ nextSeq \in Nat
    BY LenProperties DEF KeptTyped
  <1>2. KeptTyped'
    BY <1>1, EmptySeq, BoundsAssumption DEF BeginRun, KeptTyped
  <1>3. StartsHeld'
    <2>1. starts' = <<>> /\ firstSeq' = nextSeq /\ nextSeq' = nextSeq
      BY DEF BeginRun
    <2>2. firstSeq' .. nextSeq' - 1 = {}
      BY <1>1, <2>1
    <2> QED  BY <2>1, <2>2 DEF StartsHeld, Rising, ToSet
  <1> QED  BY <1>2, <1>3 DEF BeginRun

\* Waking everybody changes only who is woken.
LEMMA WokenTyped ==
    ASSUME ReadersTyped, WakeAll, UNCHANGED task
    PROVE  ReadersTyped'
  BY DEF ReadersTyped, WakeAll, task

\* What the sinks and the handle do to the run and to what is kept of it.
Untouched == UNCHANGED <<run, kept>>
Writes == \E p \in Publications, t \in Tracks, ts \in Times : \E all, n :
             /\ UNCHANGED <<run_, closed, sinks>> /\ Wrote(p, t, ts, all, n)
             /\ sink[p][t] = "on" /\ Accepts(p, t) /\ ~LeftOver(t) /\ WakeAll

\* The steps of the handle and of the sinks.
FromWithin ==
    \/ \E key \in KeyTracks : Publish(key)
    \/ Close
    \/ \E p \in Publications : Seek(p)
    \/ Writers

\* None of them touches a reader; and each writes a packet, begins a run or
\* leaves what is kept as it is.
LEMMA FromWithinIs ==
    ASSUME RunTyped, KeptTyped, SinksTyped, FromWithin
    PROVE  /\ UNCHANGED task
           /\ Writes \/ (BeginRun /\ WakeAll) \/ Untouched
           /\ WakeAll \/ UNCHANGED <<run, kept, live, closed, waiting>>
  <1>1. ASSUME NEW key \in KeyTracks, Publish(key)
        PROVE  UNCHANGED task /\ BeginRun /\ WakeAll
    BY <1>1 DEF Publish
  <1>2. CASE Close
    BY <1>2 DEF Close, Untouched, run_
  <1>3. ASSUME NEW p \in Publications, Seek(p)
        PROVE  UNCHANGED task /\ Untouched /\ UNCHANGED <<run, kept, live, closed, waiting>>
    BY <1>3 DEF Seek, Untouched, run_
  <1>4. ASSUME NEW p \in Publications, NEW t \in Tracks, NEW key \in BOOLEAN,
               NEW ts \in Stamps(p, t), Write(p, t, key, ts)
        PROVE  UNCHANGED task /\ Writes /\ WakeAll
    <2>1. ts \in Times
      BY DEF Stamps
    <2>2. PICK all, n : Wrote(p, t, ts, all, n)
      BY <1>4, <2>1, WriteIs
    <2>3. /\ UNCHANGED <<run_, closed, sinks>> /\ UNCHANGED task /\ WakeAll
          /\ sink[p][t] = "on" /\ Accepts(p, t) /\ ~LeftOver(t)
      BY <1>4 DEF Write
    <2> QED  BY <2>1, <2>2, <2>3 DEF Writes
  <1>5. ASSUME NEW p \in Publications, NEW t \in Tracks, WriteLeftOver(p, t)
        PROVE  UNCHANGED task /\ Untouched /\ WakeAll
    BY <1>5 DEF WriteLeftOver, Untouched, run_
  <1>6. ASSUME NEW p \in Publications, NEW t \in Tracks, NEW how, End(p, t, how)
        PROVE  /\ UNCHANGED task /\ Untouched
               /\ WakeAll \/ UNCHANGED <<run, kept, live, closed, waiting>>
    BY <1>6 DEF End, Untouched, EndTrack
  <1>7. ASSUME NEW p \in Publications, NEW t \in Tracks, Flush(p, t)
        PROVE  /\ UNCHANGED task
               /\ \/ BeginRun /\ WakeAll
                  \/ Untouched /\ UNCHANGED <<run, kept, live, closed, waiting>>
    BY <1>7 DEF Flush, FlushTrack, Untouched, run_
  <1> QED  BY <1>1, <1>2, <1>3, <1>4, <1>5, <1>6, <1>7 DEF FromWithin, Writers

\* What runs and sinks there are keeps its type in the steps of the handle
\* and of the sinks.
LEMMA FromWithinTyped ==
    ASSUME RunTyped, SinksTyped, FromWithin
    PROVE  RunTyped' /\ SinksTyped'
  <1>t. run + 1 \in Nat /\ 0 \in Nat
    BY DEF RunTyped
  <1>1. ASSUME NEW key \in KeyTracks, Publish(key)
        PROVE  RunTyped' /\ SinksTyped'
    <2>1. publication + 1 \in 0 .. MaxPublications /\ key \in Tracks \cup {None}
      BY <1>1, BoundsAssumption, TracksAssumption DEF Publish, RunTyped
    <2>2. RunTyped'
      BY <1>1, <1>t, <2>1 DEF Publish, BeginRun, RunTyped
    <2>3. SinksTyped'
      BY <1>1 DEF Publish, SinksTyped
    <2> QED  BY <2>2, <2>3
  <1>2. CASE Close
    BY <1>2 DEF Close, RunTyped, SinksTyped, run_, sinks
  <1>3. ASSUME NEW p \in Publications, Seek(p)
        PROVE  RunTyped' /\ SinksTyped'
    <2>1. RunTyped'
      BY <1>3 DEF Seek, RunTyped, run_
    <2>2. SinksTyped'
      <3>1. seeks[p] + 1 \in Nat
        BY DEF SinksTyped
      <3> QED  BY <1>3, <3>1 DEF Seek, SinksTyped
    <2> QED  BY <2>1, <2>2
  <1>4. ASSUME NEW p \in Publications, NEW t \in Tracks, NEW key \in BOOLEAN,
               NEW ts \in Stamps(p, t), Write(p, t, key, ts)
        PROVE  RunTyped' /\ SinksTyped'
    <2>1. UNCHANGED <<run_, closed, sinks>>
      BY <1>4 DEF Write
    <2> QED  BY <2>1 DEF RunTyped, SinksTyped, run_, sinks
  <1>5. ASSUME NEW p \in Publications, NEW t \in Tracks, WriteLeftOver(p, t)
        PROVE  RunTyped' /\ SinksTyped'
    BY <1>5 DEF WriteLeftOver, RunTyped, SinksTyped, run_, sinks
  <1>6. ASSUME NEW p \in Publications, NEW t \in Tracks, NEW how \in {"ended", "gone"},
               End(p, t, how)
        PROVE  RunTyped' /\ SinksTyped'
    <2>1. UNCHANGED <<run, publication, keyTrack, flushed, closed, gen, seeks>>
      BY <1>6 DEF End, kept
    <2>2. cut' \in BOOLEAN
      BY <1>6 DEF End
    <2>3. open' \subseteq Tracks /\ live' \in BOOLEAN
      BY <1>6 DEF End, EndTrack, RunTyped
    <2>4. SinksTyped'
      BY <1>6 DEF End, SinksTyped
    <2> QED  BY <2>1, <2>2, <2>3, <2>4 DEF RunTyped
  <1>7. ASSUME NEW p \in Publications, NEW t \in Tracks, Flush(p, t)
        PROVE  RunTyped' /\ SinksTyped'
    <2>1. seeks[p] \in Nat
      BY DEF SinksTyped
    <2>2. SinksTyped'
      BY <1>7, <2>1 DEF Flush, SinksTyped
    <2>3. CASE p = publication
      <3>1. FlushTrack(t)
        BY <1>7, <2>3 DEF Flush
      <3>2. open' \subseteq Tracks /\ flushed' \subseteq Tracks
        BY <3>1 DEF FlushTrack, RunTyped
      <3>3. run' \in Nat /\ live' \in BOOLEAN /\ cut' \in BOOLEAN
        BY <3>1, <1>t DEF FlushTrack, RunTyped, BeginRun
      <3> QED  BY <1>7, <2>2, <3>1, <3>2, <3>3 DEF RunTyped, FlushTrack, Flush
    <2>4. CASE p # publication
      BY <1>7, <2>2, <2>4 DEF RunTyped, Flush, run_
    <2> QED  BY <2>3, <2>4
  <1> QED  BY <1>1, <1>2, <1>3, <1>4, <1>5, <1>6, <1>7 DEF FromWithin, Writers

\* A reader that is new, that took its next turn, or that stayed as it was.
Turned(r) ==
    /\ UNCHANGED <<run_, kept, closed, sinks>>
    /\ \/ \E within \in Withins \cup {None} :
              reader' = [reader EXCEPT ![r] = NewReader(within)]
       \/ reader' = [reader EXCEPT ![r] = NextIn(reader[r]).to]
       \/ UNCHANGED reader

\* Whatever a reader does, it takes at most one turn.
LEMMA ReadersTurn ==
    ASSUME TheReaders
    PROVE  \E r \in Readers : Turned(r)
  <1>1. ASSUME NEW r \in Readers, NEW within \in Withins, NEW way \in Ways,
               Subscribe(r, within, way)
        PROVE  Turned(r)
    BY <1>1 DEF Subscribe, Turned
  <1>2. ASSUME NEW r \in Readers, NEW w \in Wakers, Poll(r, w) PROVE Turned(r)
    BY <1>2 DEF Poll, Turned, Take, UpToDate
  <1>3. ASSUME NEW r \in Readers, Open(r) PROVE Turned(r)
    BY <1>3 DEF Open, Turned, Take
  <1>4. ASSUME NEW r \in Readers, AddBell(r) PROVE Turned(r)
    BY <1>4 DEF AddBell, Turned
  <1>5. ASSUME NEW r \in Readers, TryNext(r) PROVE Turned(r)
    BY <1>5 DEF TryNext, Turned, Take, UpToDate
  <1>6. ASSUME NEW r \in Readers, Rung(r) PROVE Turned(r)
    BY <1>6 DEF Rung, Turned
  <1>7. ASSUME NEW r \in Readers, Leave(r) PROVE Turned(r)
    BY <1>7 DEF Leave, Turned
  <1> QED  BY <1>1, <1>2, <1>3, <1>4, <1>5, <1>6, <1>7 DEF TheReaders

\* What the readers keep has its type after what one of them does.
LEMMA ReadersStayTyped ==
    ASSUME RunTyped, KeptTyped, ReadersTyped, TheReaders,
           \A r \in Readers : NextIn(reader[r]).to \in Reader
    PROVE  ReadersTyped'
  <1> DEFINE Fits ==
               /\ place' \in [Readers -> {"away", "opening", "reading", "waiting", "done"}]
               /\ waker' \in [Readers -> Wakers \cup {"bell", NoWaker}]
               /\ left' \in [Readers -> Wakers \cup {NoWaker}]
               /\ wakers' \subseteq Readers \X Wakers
               /\ woken' \in [Readers -> BOOLEAN]
  <1>1. reader' \in [Readers -> Reader]
    <2>1. PICK r \in Readers : Turned(r)
      BY ReadersTurn
    <2>2. ASSUME NEW to \in Reader, reader' = [reader EXCEPT ![r] = to]
          PROVE  reader' \in [Readers -> Reader]
      BY <2>2 DEF ReadersTyped
    <2>3. \A within \in Withins \cup {None} : NewReader(within) \in Reader
      BY NewReaderIs
    <2> QED  BY <2>1, <2>2, <2>3 DEF Turned, ReadersTyped
  <1>2. ASSUME NEW r \in Readers, NEW within \in Withins, NEW way \in Ways,
               Subscribe(r, within, way)
        PROVE  Fits
    BY <1>2 DEF Subscribe, ReadersTyped
  <1>3. ASSUME NEW r \in Readers, NEW w \in Wakers, Poll(r, w) PROVE Fits
    BY <1>3 DEF Poll, ReadersTyped
  <1>4. ASSUME NEW r \in Readers, Open(r) PROVE Fits
    BY <1>4 DEF Open, ReadersTyped, waiting
  <1>5. ASSUME NEW r \in Readers, AddBell(r) PROVE Fits
    BY <1>5 DEF AddBell, ReadersTyped, waiting
  <1>6. ASSUME NEW r \in Readers, TryNext(r) PROVE Fits
    BY <1>6 DEF TryNext, ReadersTyped, waiting
  <1>7. ASSUME NEW r \in Readers, Rung(r) PROVE Fits
    BY <1>7 DEF Rung, ReadersTyped
  <1>8. ASSUME NEW r \in Readers, Leave(r) PROVE Fits
    BY <1>8 DEF Leave, ReadersTyped
  <1>9. Fits
    BY <1>2, <1>3, <1>4, <1>5, <1>6, <1>7, <1>8 DEF TheReaders
  <1> QED  BY <1>1, <1>9 DEF ReadersTyped

\* A broadcast nobody has published to holds nothing.
LEMMA HeldInit == Init => Held
  <1> SUFFICES ASSUME Init PROVE Held
    OBVIOUS
  <1>1. RunTyped
    <2>1. 0 \in 0 .. MaxPublications
      <3>1. MaxPublications \in Nat
        BY BoundsAssumption
      <3> QED  BY <3>1
    <2>2. run \in Nat /\ publication \in 0 .. MaxPublications
      BY <2>1 DEF Init
    <2> QED  BY <2>2 DEF Init, RunTyped
  <1>2. KeptTyped /\ StartsHeld
    <2>1. /\ entries = <<>> /\ starts = <<>> /\ firstSeq = 0 /\ nextSeq = 0 /\ newest = None
          /\ letGo = <<>>
      BY DEF Init
    <2>2. firstSeq .. nextSeq - 1 = {}
      BY <2>1
    <2>3. KeptTyped
      BY <2>1, EmptySeq, BoundsAssumption DEF KeptTyped
    <2> QED  BY <2>1, <2>2, <2>3 DEF StartsHeld, Rising, ToSet
  <1>3. SinksTyped
    BY DEF Init, SinksTyped
  <1>4. NewReader(None) \in Reader /\ InPlace(NewReader(None))
    BY <1>1, <1>2, NewReaderIs
  <1>5. ReadersTyped
    BY <1>4 DEF Init, ReadersTyped
  <1>6. \A r \in Readers : InPlace(reader[r])
    BY <1>4 DEF Init
  <1> QED  BY <1>1, <1>2, <1>3, <1>5, <1>6 DEF Held, TypeOK

\* What the handle and the sinks do leaves the positions held.
LEMMA HeldFromWithin ==
    ASSUME Held, FromWithin
    PROVE  Held'
  <1>1. RunTyped /\ KeptTyped /\ SinksTyped /\ ReadersTyped /\ StartsHeld
    BY DEF Held, TypeOK
  <1>2. /\ UNCHANGED task
        /\ Writes \/ (BeginRun /\ WakeAll) \/ Untouched
        /\ WakeAll \/ UNCHANGED <<run, kept, live, closed, waiting>>
    BY <1>1, FromWithinIs
  <1>3. RunTyped' /\ SinksTyped'
    BY <1>1, FromWithinTyped
  <1>4. ReadersTyped'
    <2>1. CASE WakeAll
      BY <1>1, <1>2, <2>1, WokenTyped
    <2>2. CASE UNCHANGED waiting
      BY <1>1, <1>2, <2>2 DEF ReadersTyped, task, waiting
    <2> QED  BY <1>2, <2>1, <2>2
  <1>5. ASSUME NEW rd \in Reader
        PROVE  (run' = run /\ nextSeq' >= nextSeq) \/ run' = run + 1
               => (InPlace(rd) => InPlace(rd)')
    <2>1. nextSeq \in Nat /\ rd.next \in Nat /\ run \in Nat /\ rd.run \in Nat
      BY <1>1, LenProperties DEF KeptTyped, RunTyped, Reader
    <2>2. nextSeq' \in Int
      <3>1. Writes => nextSeq' = nextSeq + 1
        BY DEF Writes, Wrote
      <3>2. BeginRun \/ Untouched => nextSeq' = nextSeq
        BY DEF BeginRun, Untouched, kept
      <3>3. nextSeq' \in {nextSeq, nextSeq + 1}
        BY <1>2, <3>1, <3>2
      <3> QED  BY <2>1, <3>3
    <2> QED  BY <2>1, <2>2 DEF InPlace
  <1>6. ASSUME KeptTyped', StartsHeld',
               (run' = run /\ nextSeq' >= nextSeq) \/ run' = run + 1
        PROVE  Held'
    <2>1. \A r \in Readers : reader'[r] \in Reader /\ InPlace(reader[r])
      BY <1>1, <1>2 DEF Held, ReadersTyped, task
    <2>2. reader' = reader
      BY <1>2 DEF task
    <2>3. \A r \in Readers : InPlace(reader[r])'
      <3>1. SUFFICES ASSUME NEW r \in Readers PROVE InPlace(reader[r])'
        OBVIOUS
      <3> DEFINE rd == reader[r]
      <3>2. rd \in Reader /\ InPlace(rd) /\ rd' = rd
        BY <2>1, <2>2
      <3> QED  BY <1>5, <1>6, <3>2 DEF InPlace
    <2> QED  BY <1>3, <1>4, <1>6, <2>3 DEF Held, TypeOK
  <1>7. CASE Writes
    <2>0. PICK p \in Publications, t \in Tracks, ts \in Times :
             \E all, n : UNCHANGED run_ /\ Wrote(p, t, ts, all, n)
      BY <1>7 DEF Writes
    <2>1. PICK all, n : UNCHANGED run_ /\ Wrote(p, t, ts, all, n)
      BY <2>0
    <2>2. KeptTyped' /\ StartsHeld'
      BY <1>1, <2>1, WroteHolds
    <2>3. nextSeq \in Nat /\ nextSeq' = nextSeq + 1 /\ run' = run
      BY <1>1, <2>1, LenProperties DEF Wrote, KeptTyped, run_
    <2> QED  BY <1>6, <2>2, <2>3
  <1>8. CASE BeginRun
    <2>1. KeptTyped' /\ StartsHeld' /\ run' = run + 1
      BY <1>1, <1>8, BeganHolds
    <2> QED  BY <1>6, <2>1
  <1>9. CASE Untouched
    <2>1. KeptTyped' /\ StartsHeld'
      BY <1>1, <1>9 DEF Untouched, kept, KeptTyped, StartsHeld, EntryAt
    <2>2. run' = run /\ nextSeq' = nextSeq /\ nextSeq \in Nat
      BY <1>1, <1>9, LenProperties DEF Untouched, kept, KeptTyped
    <2> QED  BY <1>6, <2>1, <2>2
  <1> QED  BY <1>2, <1>7, <1>8, <1>9

\* A reader's turn leaves the positions held.
LEMMA HeldRead ==
    ASSUME Held, TheReaders
    PROVE  Held'
  <1>1. RunTyped /\ KeptTyped /\ SinksTyped /\ ReadersTyped /\ StartsHeld
    BY DEF Held, TypeOK
  <1>2. ASSUME NEW r \in Readers
        PROVE  /\ reader[r] \in Reader /\ InPlace(reader[r])
               /\ NextIn(reader[r]).to \in Reader /\ InPlace(NextIn(reader[r]).to)
    <2>1. reader[r] \in Reader /\ InPlace(reader[r])
      BY <1>1 DEF Held, ReadersTyped
    <2> QED  BY <1>1, <2>1, NextInKeeps
  <1>3. ReadersTyped'
    BY <1>1, <1>2, ReadersStayTyped
  <1>4. PICK r \in Readers : Turned(r)
    BY ReadersTurn
  <1>5. RunTyped' /\ KeptTyped' /\ SinksTyped' /\ StartsHeld'
    BY <1>1, <1>4 DEF Turned, RunTyped, KeptTyped, SinksTyped, StartsHeld, EntryAt, run_, kept, sinks
  <1>6. ASSUME NEW q \in Readers
        PROVE  InPlace(reader'[q])
    <2>1. \A within \in Withins \cup {None} : InPlace(NewReader(within))
      BY <1>1, NewReaderIs
    <2>2. CASE UNCHANGED reader
      BY <1>2, <2>2
    <2>3. ASSUME NEW to \in Reader, InPlace(to), reader' = [reader EXCEPT ![r] = to]
          PROVE  InPlace(reader'[q])
      <3>1. reader'[q] = reader[q] \/ reader'[q] = to
        BY <1>1, <2>3 DEF ReadersTyped
      <3> QED  BY <1>2, <2>3, <3>1
    <2>4. \A within \in Withins \cup {None} : NewReader(within) \in Reader
      BY <1>1, NewReaderIs
    <2> QED  BY <1>2, <1>4, <2>1, <2>2, <2>3, <2>4 DEF Turned
  <1>7. \A q \in Readers : InPlace(reader[q])'
    BY <1>4, <1>6 DEF Turned, InPlace, run_, kept
  <1> QED  BY <1>3, <1>5, <1>7 DEF Held, TypeOK

\* Every step leaves the positions held.
LEMMA HeldNext == Held /\ [Next]_vars => Held'
  <1> SUFFICES ASSUME Held, [Next]_vars PROVE Held'
    OBVIOUS
  <1>1. CASE FromWithin
    BY <1>1, HeldFromWithin
  <1>2. CASE TheReaders
    BY <1>2, HeldRead
  <1>3. CASE UNCHANGED vars
    BY <1>3 DEF vars, run_, kept, sinks, task, waiting, Held, TypeOK, RunTyped, KeptTyped,
       SinksTyped, ReadersTyped, StartsHeld, EntryAt, InPlace
  <1> QED  BY <1>1, <1>2, <1>3 DEF Next, FromWithin

\* Every variable keeps its type whatever is written and read, and what is
\* held never outgrows what write allows (State::write).
THEOREM TypeCorrect == Spec => []TypeOK
  <1>1. Held => TypeOK
    BY DEF Held
  <1> QED  BY HeldInit, HeldNext, <1>1, PTL DEF Spec

\* The starts are the numbers of entries held and no reader stands outside
\* what is held, so that no index panics under the lock (State::next_in).
THEOREM PositionsAreHeldHolds == Spec => []PositionsAreHeld
  BY HeldInit, HeldNext, HeldPositions, PTL DEF Spec

\* It is an invariant.
LEMMA AlwaysHeld == Spec => []Held
  BY HeldInit, HeldNext, PTL DEF Spec

-----------------------------------------------------------------------------
(* Waking.                                                                 *)

\* What a reader is handed depends on the run and on what is kept alone.
LEMMA SameTurn ==
    ASSUME NEW r \in Readers, NEW rd, reader'[r] = rd, UNCHANGED <<run, kept, live, closed>>
    PROVE  NextIn(reader[r])' = NextIn(rd)
  BY DEF NextIn, Handed, Nothing, Packet, Joined, ClosedIn, Behind, LookBack, Ahead, ReadOn,
     AtTheEnd, EntryAt, NoBack, kept

\* The wakers a reader knows it has left are there, and one that waits and was
\* not woken has nothing to read and has left the waker it was polled with.
Waits(r) == place[r] = "waiting" /\ ~woken[r]
Calls(r) ==
    /\ left[r] # NoWaker => <<r, left[r]>> \in wakers
    /\ Waits(r) => /\ NextIn(reader[r]).item = "nothing"
                   /\ waker[r] = "bell" \/ <<r, waker[r]>> \in wakers
Waking == \A r \in Readers : Calls(r)

\* Waking everybody leaves nobody waiting.
LEMMA NobodyWaits ==
    ASSUME ReadersTyped, Waking, WakeAll, UNCHANGED task
    PROVE  Waking'
  <1>1. SUFFICES ASSUME NEW r \in Readers PROVE Calls(r)'
    BY DEF Waking
  <1>2. left'[r] = NoWaker
    BY DEF WakeAll
  <1>3. ~Waits(r)'
    <2>1. SUFFICES ASSUME place'[r] = "waiting", ~woken'[r] PROVE FALSE
      BY DEF Waits
    <2>2. place[r] = "waiting"
      BY <2>1 DEF task
    <2>3. ~woken[r] /\ ~(<<r, waker[r]>> \in wakers) /\ ~(waker[r] = "bell")
      BY <2>1, <2>2 DEF WakeAll
    <2> QED  BY <2>2, <2>3 DEF Waking, Calls, Waits
  <1> QED  BY <1>2, <1>3 DEF Calls

\* What one reader does leaves the others waiting as they were.
LEMMA OthersWait ==
    ASSUME Waking, NEW q \in Readers, Calls(q), UNCHANGED <<run, kept, live, closed>>,
           reader'[q] = reader[q], place'[q] = place[q], waker'[q] = waker[q],
           left'[q] = left[q], woken'[q] = woken[q], wakers \subseteq wakers'
    PROVE  Calls(q)'
  <1>1. PICK rd : rd = reader[q]
    OBVIOUS
  <1>2. NextIn(reader[q])' = NextIn(reader[q])
    BY <1>1, SameTurn
  <1> QED  BY <1>2 DEF Calls, Waits

\* Whatever a reader does, it does not wait with something to read.
LEMMA WakingRead ==
    ASSUME Held, Waking, TheReaders
    PROVE  Waking'
  <1>t. ReadersTyped /\ RunTyped /\ KeptTyped /\ StartsHeld
    BY DEF Held, TypeOK
  <1>n. ASSUME NEW r \in Readers, NextIn(reader[r]).item = "nothing",
               reader' = [reader EXCEPT ![r] = NextIn(reader[r]).to],
               UNCHANGED <<run, kept, live, closed>>
        PROVE  NextIn(reader[r])'.item = "nothing"
    <2>1. reader[r] \in Reader /\ InPlace(reader[r])
      BY <1>t DEF Held, ReadersTyped
    <2>2. NextIn(NextIn(reader[r]).to).item = "nothing"
      BY <1>t, <1>n, <2>1, NextInKeeps
    <2>3. PICK to : to = NextIn(reader[r]).to
      OBVIOUS
    <2>4. reader'[r] = to
      BY <1>t, <1>n, <2>3 DEF ReadersTyped
    <2>5. NextIn(reader[r])' = NextIn(to)
      BY <1>n, <2>4, SameTurn
    <2> QED  BY <2>2, <2>3, <2>5
  <1>f. ASSUME NEW r \in Readers, UNCHANGED <<run, kept, live, closed>>,
               wakers \subseteq wakers', Calls(r)',
               \A q \in Readers \ {r} :
                   /\ reader'[q] = reader[q] /\ place'[q] = place[q] /\ waker'[q] = waker[q]
                   /\ left'[q] = left[q] /\ woken'[q] = woken[q]
        PROVE  Waking'
    <2>1. SUFFICES ASSUME NEW q \in Readers PROVE Calls(q)'
      BY DEF Waking
    <2>2. CASE q = r
      BY <1>f, <2>2
    <2>3. CASE q # r
      BY <1>f, <2>3, OthersWait DEF Waking
    <2> QED  BY <2>2, <2>3
  <1>1. ASSUME NEW r \in Readers, NEW within \in Withins, NEW way \in Ways,
               Subscribe(r, within, way)
        PROVE  Waking'
    <2>1. left'[r] = NoWaker /\ place'[r] # "waiting"
      BY <1>1, <1>t DEF Subscribe, ReadersTyped
    <2>2. Calls(r)'
      BY <2>1 DEF Calls, Waits
    <2>3. UNCHANGED <<run, kept, live, closed>> /\ wakers \subseteq wakers'
      BY <1>1 DEF Subscribe, run_
    <2>4. \A q \in Readers \ {r} :
             /\ reader'[q] = reader[q] /\ place'[q] = place[q] /\ waker'[q] = waker[q]
             /\ left'[q] = left[q] /\ woken'[q] = woken[q]
      BY <1>1, <1>t DEF Subscribe, ReadersTyped
    <2> QED  BY <2>2, <2>3, <2>4, <1>f
  <1>2. ASSUME NEW r \in Readers, NEW w \in Wakers, Poll(r, w)
        PROVE  Waking'
    <2>1. UNCHANGED <<run, kept, live, closed>> /\ wakers \subseteq wakers'
      BY <1>2 DEF Poll, run_
    <2>2. \A q \in Readers \ {r} :
             /\ reader'[q] = reader[q] /\ place'[q] = place[q] /\ waker'[q] = waker[q]
             /\ left'[q] = left[q] /\ woken'[q] = woken[q]
      BY <1>2, <1>t DEF Poll, Take, UpToDate, ReadersTyped
    <2>3. CASE place'[r] # "waiting" /\ UNCHANGED <<wakers, left>>
      <3>1. Calls(r)'
        BY <2>3 DEF Waking, Calls, Waits
      <3> QED  BY <2>1, <2>2, <3>1, <1>f
    <2>4. CASE /\ UpToDate(r, NextIn(reader[r])) /\ waker' = [waker EXCEPT ![r] = w]
               /\ wakers' = IF left[r] = w THEN wakers ELSE wakers \cup {<<r, w>>}
               /\ left' = [left EXCEPT ![r] = w]
      <3>1. NextIn(reader[r])'.item = "nothing"
        BY <2>1, <2>4, <1>n DEF UpToDate
      <3>2. left'[r] = w /\ waker'[r] = w
        BY <2>4, <1>t DEF ReadersTyped
      <3>3. <<r, w>> \in wakers'
        <4>1. CASE left[r] = w
          <5>1. w # NoWaker
            BY WaysAssumption
          <5> QED  BY <2>4, <4>1, <5>1 DEF Waking, Calls
        <4> QED  BY <2>4, <4>1
      <3>4. Calls(r)'
        BY <3>1, <3>2, <3>3 DEF Calls, Waits
      <3> QED  BY <2>1, <2>2, <3>4, <1>f
    <2> QED  BY <1>2, <1>t, <2>3, <2>4 DEF Poll, ReadersTyped
  <1>3. ASSUME NEW r \in Readers, Open(r) \/ AddBell(r) \/ TryNext(r) \/ Rung(r) \/ Leave(r)
        PROVE  Waking'
    <2>1. UNCHANGED <<run, kept, live, closed>> /\ wakers \subseteq wakers'
      BY <1>3 DEF Open, AddBell, TryNext, Rung, Leave, run_, waiting
    <2>2. \A q \in Readers \ {r} :
             /\ reader'[q] = reader[q] /\ place'[q] = place[q] /\ waker'[q] = waker[q]
             /\ left'[q] = left[q] /\ woken'[q] = woken[q]
      BY <1>3, <1>t DEF Open, AddBell, TryNext, Rung, Leave, Take, UpToDate, ReadersTyped, waiting
    <2>3. wakers' = wakers /\ left'[r] \in {left[r], NoWaker}
      BY <1>3, <1>t DEF Open, AddBell, TryNext, Rung, Leave, ReadersTyped, waiting
    <2>4. place'[r] = "waiting" => /\ NextIn(reader[r]).item = "nothing" /\ waker'[r] = "bell"
                                   /\ reader' = [reader EXCEPT ![r] = NextIn(reader[r]).to]
      BY <1>3, <1>t DEF Open, AddBell, TryNext, Rung, Leave, UpToDate, Take, ReadersTyped
    <2>5. place'[r] = "waiting" => NextIn(reader[r])'.item = "nothing"
      BY <2>1, <2>4, <1>n
    <2>6. Calls(r)'
      BY <2>3, <2>4, <2>5 DEF Waking, Calls, Waits
    <2> QED  BY <2>1, <2>2, <2>6, <1>f
  <1> QED  BY <1>1, <1>2, <1>3 DEF TheReaders

\* Every step leaves Waking.
LEMMA WakingNext == Held /\ Waking /\ [Next]_vars => Waking'
  <1> SUFFICES ASSUME Held, Waking, [Next]_vars PROVE Waking'
    OBVIOUS
  <1>t. ReadersTyped /\ RunTyped /\ KeptTyped /\ SinksTyped
    BY DEF Held, TypeOK
  <1>s. ASSUME UNCHANGED <<run, kept, live, closed, waiting, task>> PROVE Waking'
    <2>1. SUFFICES ASSUME NEW q \in Readers PROVE Calls(q)'
      BY DEF Waking
    <2> QED  BY <1>s, OthersWait DEF Waking, task, waiting
  <1>1. CASE FromWithin
    <2>1. UNCHANGED task /\ (WakeAll \/ UNCHANGED <<run, kept, live, closed, waiting>>)
      BY <1>1, <1>t, FromWithinIs
    <2> QED  BY <1>t, <1>s, <2>1, NobodyWaits
  <1>2. CASE TheReaders
    BY <1>2, WakingRead
  <1>3. CASE UNCHANGED vars
    BY <1>3, <1>s DEF vars, run_
  <1> QED  BY <1>1, <1>2, <1>3 DEF Next, FromWithin

\* A reader that waits and was not woken has nothing to read: the waker is
\* left in the step that found nothing (BroadcastReader::poll_next), left
\* again once used up, and every write, end and close calls them all.
THEOREM NoWakeIsLostHolds == Spec => []NoWakeIsLost
  <1>1. Init => Waking
    BY DEF Init, Waking, Calls, Waits
  <1>2. Waking => NoWakeIsLost
    BY DEF Waking, Calls, Waits, NoWakeIsLost
  <1> QED  BY AlwaysHeld, WakingNext, <1>1, <1>2, PTL DEF Spec

-----------------------------------------------------------------------------
(* Seeks: which of the tracks of a publication write what.                 *)

\* The tracks whose sinks are still there.
Going(p) == {t \in Tracks : sink[p][t] # "gone"}

\* A seek is under way and has begun no run yet.
Unreached(p) == pending[p] # {} /\ (flushed = {} \/ pending[p] \cap flushed # {})

\* Before a seek reaches its first track, every track is ahead of it and none
\* or all are marked flushed; after that, the marked ones are those it has
\* reached, until it has reached all.
Before(p) == Going(p) \subseteq pending[p] /\ (flushed = {} \/ Going(p) \subseteq flushed)
Amid(p) ==
    /\ pending[p] \cap flushed = {}
    /\ flushed # {} => \A t \in Going(p) : t \in flushed \/ t \in pending[p]
    /\ flushed = {} => pending[p] = {}

Reached(p) ==
    /\ \A t \in Tracks : sink[p][t] # "none"
    /\ pending[p] \subseteq Going(p)
    /\ Before(p) \/ Amid(p)
    /\ \A t \in Going(p) : gen[p][t] = IF t \in pending[p] THEN seeks[p] - 1 ELSE seeks[p]

\* Nothing of what has not been published has happened.
Fresh(p) == seeks[p] = 0 /\ pending[p] = {}
            /\ \A t \in Tracks : sink[p][t] = "none" /\ gen[p][t] = 0

Sought(p) == (p = publication => Reached(p)) /\ (p > publication => Fresh(p))
Seeking == \A p \in Publications : Sought(p)

\* Where a publication's sinks are depends on them and on what is flushed.
LEMMA SameSinks ==
    ASSUME NEW p \in Publications, Sought(p), publication' = publication,
           flushed' = flushed, sink'[p] = sink[p], gen'[p] = gen[p],
           seeks'[p] = seeks[p], pending'[p] = pending[p]
    PROVE  Sought(p)'
  <1>1. Going(p)' = Going(p)
    BY DEF Going
  <1> QED  BY <1>1 DEF Sought, Reached, Fresh, Before, Amid

\* A seek that sets out has every track ahead of it.
LEMMA SeekSought ==
    ASSUME RunTyped, SinksTyped, Seeking, NEW q \in Publications, Seek(q)
    PROVE  Seeking'
  <1>1. SUFFICES ASSUME NEW p \in Publications PROVE Sought(p)'
    BY DEF Seeking
  <1>2. /\ Sought(p) /\ publication' = publication /\ flushed' = flushed
        /\ sink' = sink /\ gen' = gen
    BY DEF Seek, Seeking, run_
  <1>3. CASE p # q
    <2>1. seeks'[p] = seeks[p] /\ pending'[p] = pending[p]
      BY <1>3 DEF Seek, SinksTyped
    <2> QED  BY <1>2, <2>1, SameSinks
  <1>4. CASE p = q
    <2>1. /\ pending[p] = {} /\ pending'[p] = {t \in Tracks : sink[p][t] \in {"on", "ended"}}
          /\ pending'[p] # {} /\ seeks'[p] = seeks[p] + 1
          /\ seeks[p] \in Nat /\ publication \in Int /\ p \in Int
          /\ sink[p] \in [Tracks -> {"none", "on", "ended", "gone"}]
      BY <1>4 DEF Seek, SinksTyped, RunTyped, Publications
    <2>2. ~(p > publication)
      BY <1>2, <2>1 DEF Sought, Fresh
    <2>3. SUFFICES ASSUME p = publication PROVE Reached(p)'
      BY <1>2, <2>2 DEF Sought
    <2>4. Reached(p)
      BY <1>2, <2>3 DEF Sought
    <2>5. pending'[p] = Going(p) /\ Going(p)' = Going(p)
      BY <1>2, <2>1, <2>4 DEF Going, Reached
    <2>6. Before(p)'
      BY <1>2, <2>1, <2>4, <2>5 DEF Before, Amid, Reached
    <2>7. \A t \in Going(p) : gen[p][t] = seeks'[p] - 1
      BY <2>1, <2>4 DEF Reached
    <2> QED  BY <1>2, <2>4, <2>5, <2>6, <2>7 DEF Reached
  <1> QED  BY <1>3, <1>4

\* A flush takes the seek to one track more.
LEMMA FlushSought ==
    ASSUME RunTyped, SinksTyped, Seeking, NEW q \in Publications, NEW u \in Tracks, Flush(q, u)
    PROVE  Seeking'
  <1>1. SUFFICES ASSUME NEW p \in Publications PROVE Sought(p)'
    BY DEF Seeking
  <1>2. Sought(p) /\ publication' = publication /\ seeks' = seeks
    BY DEF Flush, Seeking, FlushTrack, run_
  <1>3. CASE p # q
    <2>1. sink'[p] = sink[p] /\ gen'[p] = gen[p] /\ pending'[p] = pending[p]
      BY <1>3 DEF Flush, SinksTyped
    <2>2. CASE q # publication
      <3>1. flushed' = flushed
        BY <2>2 DEF Flush, run_
      <3> QED  BY <1>2, <2>1, <3>1, SameSinks
    <2>3. CASE q = publication
      BY <1>2, <1>3, <2>1, <2>3 DEF Sought, Fresh
    <2> QED  BY <2>2, <2>3
  <1>4. CASE p = q
    <2>1. /\ u \in pending[p] /\ pending'[p] = pending[p] \ {u}
          /\ gen'[p] = [gen[p] EXCEPT ![u] = seeks[p]] /\ sink'[p] = [sink[p] EXCEPT ![u] = "on"]
          /\ pending[p] \subseteq Tracks /\ gen[p] \in [Tracks -> Nat]
          /\ sink[p] \in [Tracks -> {"none", "on", "ended", "gone"}]
      BY <1>4 DEF Flush, SinksTyped
    <2>2. ~(p > publication)
      BY <1>2, <2>1 DEF Sought, Fresh
    <2>3. SUFFICES ASSUME p = publication PROVE Reached(p)'
      BY <1>2, <2>2 DEF Sought
    <2>4. Reached(p)
      BY <1>2, <2>3 DEF Sought
    <2>5. Going(p)' = Going(p) /\ \A t \in Tracks : sink'[p][t] # "none"
      BY <2>1, <2>4 DEF Going, Reached
    <2>6. flushed' = IF flushed = {} \/ u \in flushed
                     THEN IF {u} = Tracks THEN {} ELSE {u}
                     ELSE IF flushed \cup {u} = Tracks THEN {} ELSE flushed \cup {u}
      BY <1>4, <2>3 DEF Flush, FlushTrack
    <2>7. Amid(p)'
      <3>1. CASE flushed = {} \/ u \in flushed
        <4>1. Going(p) \subseteq pending[p]
          BY <2>1, <2>4, <3>1 DEF Before, Amid, Reached
        <4>2. Going(p) \subseteq Tracks
          BY DEF Going
        <4> QED  BY <2>1, <2>4, <2>5, <2>6, <3>1, <4>1, <4>2 DEF Amid, Reached
      <3>2. CASE ~(flushed = {} \/ u \in flushed)
        <4>1. pending[p] \cap flushed = {} /\ \A t \in Going(p) : t \in flushed \/ t \in pending[p]
          BY <2>1, <2>4, <3>2 DEF Before, Amid, Reached
        <4> QED  BY <2>1, <2>5, <2>6, <3>2, <4>1 DEF Amid
      <3> QED  BY <3>1, <3>2
    <2>8. \A t \in Going(p) : gen'[p][t] = IF t \in pending'[p] THEN seeks[p] - 1 ELSE seeks[p]
      BY <2>1, <2>4 DEF Reached, Going
    <2>9. pending'[p] \subseteq Going(p)
      BY <2>1, <2>4 DEF Reached
    <2> QED  BY <1>2, <2>5, <2>7, <2>8, <2>9 DEF Reached
  <1> QED  BY <1>3, <1>4

\* A track that ends, or whose sink goes, leaves the seek where it is.
LEMMA EndSought ==
    ASSUME RunTyped, SinksTyped, Seeking, NEW q \in Publications, NEW u \in Tracks,
           NEW how \in {"ended", "gone"}, End(q, u, how)
    PROVE  Seeking'
  <1>1. SUFFICES ASSUME NEW p \in Publications PROVE Sought(p)'
    BY DEF Seeking
  <1>2. /\ Sought(p) /\ publication' = publication /\ seeks' = seeks /\ flushed' = flushed
        /\ gen' = gen
    BY DEF End, Seeking
  <1>3. CASE p # q
    <2>1. sink'[p] = sink[p] /\ pending'[p] = pending[p]
      BY <1>3 DEF End, SinksTyped
    <2> QED  BY <1>2, <2>1, SameSinks
  <1>4. CASE p = q
    <2>1. /\ sink[p][u] \in {"on", "ended"} /\ sink'[p] = [sink[p] EXCEPT ![u] = how]
          /\ pending'[p] = IF how = "gone" THEN pending[p] \ {u} ELSE pending[p]
          /\ sink[p] \in [Tracks -> {"none", "on", "ended", "gone"}]
      BY <1>4 DEF End, SinksTyped
    <2>2. ~(p > publication)
      BY <1>2, <2>1 DEF Sought, Fresh
    <2>3. SUFFICES ASSUME p = publication PROVE Reached(p)'
      BY <1>2, <2>2 DEF Sought
    <2>4. Reached(p)
      BY <1>2, <2>3 DEF Sought
    <2>5. Going(p)' = (IF how = "gone" THEN Going(p) \ {u} ELSE Going(p))
          /\ \A t \in Tracks : sink'[p][t] # "none"
      BY <2>1, <2>4 DEF Going, Reached
    <2>6. pending'[p] \subseteq Going(p)'
      BY <2>1, <2>4, <2>5 DEF Reached
    <2>7. (Before(p) \/ Amid(p))'
      BY <1>2, <2>1, <2>4, <2>5 DEF Before, Amid, Reached
    <2>8. \A t \in Going(p)' : gen[p][t] = IF t \in pending'[p] THEN seeks[p] - 1 ELSE seeks[p]
      BY <2>1, <2>4, <2>5 DEF Reached
    <2> QED  BY <1>2, <2>5, <2>6, <2>7, <2>8 DEF Reached
  <1> QED  BY <1>3, <1>4

\* A publication begins with no seek under way.
LEMMA PublishSought ==
    ASSUME RunTyped, SinksTyped, Seeking, NEW key, Publish(key)
    PROVE  Seeking'
  <1>1. SUFFICES ASSUME NEW p \in Publications PROVE Sought(p)'
    BY DEF Seeking
  <1>2. /\ Sought(p) /\ publication' = publication + 1 /\ flushed' = {}
        /\ gen' = gen /\ seeks' = seeks /\ pending' = pending
        /\ publication \in Int /\ p \in Int
    BY DEF Publish, Seeking, RunTyped, Publications
  <1>3. p >= publication' => Fresh(p)
    BY <1>2 DEF Sought
  <1>4. CASE p = publication'
    <2>1. sink'[p] = [t \in Tracks |-> "on"]
      BY <1>4 DEF Publish, SinksTyped
    <2>2. Going(p)' = Tracks /\ \A t \in Tracks : sink'[p][t] # "none"
      BY <2>1 DEF Going
    <2>3. seeks[p] = 0 /\ pending[p] = {} /\ \A t \in Tracks : gen[p][t] = 0
      BY <1>2, <1>3, <1>4 DEF Fresh
    <2>4. Reached(p)'
      BY <1>2, <2>2, <2>3 DEF Reached, Amid
    <2> QED  BY <1>2, <1>4, <2>4 DEF Sought
  <1>5. CASE p # publication'
    <2>1. sink'[p] = sink[p]
      BY <1>5 DEF Publish, SinksTyped
    <2>2. p > publication' => Fresh(p)'
      BY <1>2, <1>3, <2>1 DEF Fresh
    <2> QED  BY <1>5, <2>2 DEF Sought
  <1> QED  BY <1>4, <1>5

\* Every step leaves Seeking.
LEMMA SeekingNext == Held /\ Seeking /\ [Next]_vars => Seeking'
  <1> SUFFICES ASSUME Held, Seeking, [Next]_vars PROVE Seeking'
    OBVIOUS
  <1>t. RunTyped /\ SinksTyped
    BY DEF Held, TypeOK
  <1>s. ASSUME UNCHANGED <<publication, flushed, sinks>> PROVE Seeking'
    <2>1. SUFFICES ASSUME NEW p \in Publications PROVE Sought(p)'
      BY DEF Seeking
    <2> QED  BY <1>s, SameSinks DEF Seeking, sinks
  <1>1. ASSUME NEW key \in KeyTracks, Publish(key) PROVE Seeking'
    BY <1>t, <1>1, PublishSought
  <1>2. CASE Close
    BY <1>2, <1>s DEF Close, run_
  <1>3. ASSUME NEW p \in Publications, Seek(p) PROVE Seeking'
    BY <1>t, <1>3, SeekSought
  <1>4. ASSUME NEW p \in Publications, NEW t \in Tracks, NEW key \in BOOLEAN,
               NEW ts, Write(p, t, key, ts) \/ WriteLeftOver(p, t)
        PROVE  Seeking'
    BY <1>4, <1>s DEF Write, WriteLeftOver, run_
  <1>5. ASSUME NEW p \in Publications, NEW t \in Tracks, NEW how \in {"ended", "gone"},
               End(p, t, how)
        PROVE  Seeking'
    BY <1>t, <1>5, EndSought
  <1>6. ASSUME NEW p \in Publications, NEW t \in Tracks, Flush(p, t) PROVE Seeking'
    BY <1>t, <1>6, FlushSought
  <1>7. CASE TheReaders
    BY <1>7, <1>s, ReadersTurn DEF Turned, run_
  <1>8. CASE UNCHANGED vars
    BY <1>8, <1>s DEF vars, run_
  <1>9. CASE Writers
    <2>1. CASE \E p \in Publications, t \in Tracks, key \in BOOLEAN, ts \in Times : Write(p, t, key, ts)
      BY <1>4, <2>1
    <2> QED  BY <1>4, <1>5, <1>6, <1>9, <2>1 DEF Writers, Stamps
  <1> QED  BY <1>1, <1>2, <1>3, <1>7, <1>8, <1>9 DEF Next

\* Before anything is published no seek is under way.
LEMMA SeekingInit == Init => Seeking
  <1> SUFFICES ASSUME Init, NEW p \in Publications PROVE Sought(p)
    BY DEF Seeking
  <1>1. p \in Int /\ p >= 1 /\ publication = 0
    BY DEF Publications, Init
  <1>2. Fresh(p)
    BY DEF Init, Fresh
  <1> QED  BY <1>1, <1>2 DEF Sought

-----------------------------------------------------------------------------
(* What is held is of one seek.                                            *)

\* What is held is of the seek whose tracks may write.
AllOf(x) == \A i \in 1 .. Len(entries) : entries[i].of = x
TheSeek(p) == <<p, IF Unreached(p) THEN seeks[p] - 1 ELSE seeks[p]>>
OfTheSeek ==
    /\ OneTimeline
    /\ \A p \in Publications : p = publication /\ Going(p) # {} => AllOf(TheSeek(p))

\* A run that begins holds nothing of another.
LEMMA EmptyIsOne ==
    ASSUME entries' = <<>>
    PROVE  OfTheSeek'
  <1>1. DOMAIN entries' = {} /\ 1 .. Len(entries') = {}
    BY EmptySeq
  <1> QED  BY <1>1 DEF OfTheSeek, OneTimeline, AllOf

\* Where nothing is written, the same seek may write or none.
LEMMA StillOne ==
    ASSUME OfTheSeek, entries' = entries,
           \A p \in Publications : p = publication' /\ Going(p)' # {} =>
               p = publication /\ Going(p) # {} /\ TheSeek(p)' = TheSeek(p)
    PROVE  OfTheSeek'
  BY DEF OfTheSeek, OneTimeline, AllOf

\* A packet written is of the seek whose packets are held.
LEMMA WrittenIsOne ==
    ASSUME Held, Seeking, OfTheSeek, NEW p \in Publications, NEW t \in Tracks,
           NEW ts, NEW all, NEW n, Wrote(p, t, ts, all, n), UNCHANGED <<run_, closed, sinks>>,
           sink[p][t] = "on", Accepts(p, t), ~LeftOver(t)
    PROVE  OfTheSeek'
  <1>t. RunTyped /\ SinksTyped /\ KeptTyped /\ StartsHeld
    BY DEF Held, TypeOK
  <1>1. p = publication /\ Reached(p) /\ t \in Going(p)
    BY DEF Accepts, Seeking, Sought, Going
  <1>2. TheSeek(p) = <<p, gen[p][t]>>
    <2>1. gen[p][t] = IF t \in pending[p] THEN seeks[p] - 1 ELSE seeks[p]
      BY <1>1 DEF Reached
    <2>2. Unreached(p) <=> t \in pending[p]
      BY <1>1 DEF Unreached, Reached, Before, Amid, LeftOver
    <2> QED  BY <2>1, <2>2 DEF TheSeek
  <1>3. AllOf(<<p, gen[p][t]>>)
    BY <1>1, <1>2 DEF OfTheSeek
  <1>4. \A i \in 1 .. Len(entries') : entries'[i].of = <<p, gen[p][t]>>
    <2> SUFFICES ASSUME NEW i \in 1 .. Len(entries')
                 PROVE  entries'[i].of = <<p, gen[p][t]>>
      OBVIOUS
    <2>1. PICK s : s = firstSeq' + i - 1
      OBVIOUS
    <2>2. /\ KeptTyped' /\ firstSeq \in Nat /\ nextSeq = firstSeq + Len(entries)
          /\ Len(entries) \in Nat
      BY <1>t, WroteHolds, LenProperties DEF KeptTyped
    <2>3. /\ firstSeq' \in Nat /\ nextSeq' = firstSeq' + Len(entries') /\ Len(entries') \in Nat
      BY <2>2, LenProperties DEF KeptTyped
    <2>4. s \in firstSeq' .. nextSeq' - 1 /\ s - firstSeq' + 1 = i /\ s \in Int
      BY <2>1, <2>3
    <2>5. EntryAt(s)' = entries'[s - firstSeq' + 1]
      BY DEF EntryAt
    <2>6. \/ s \in firstSeq .. nextSeq - 1 /\ EntryAt(s)'.of = EntryAt(s).of
          \/ EntryAt(s)'.of = <<p, gen[p][t]>>
      <3>1. s < nextSeq \/ s >= nextSeq
        BY <2>2, <2>4
      <3> QED  BY <1>t, <2>4, <3>1, WroteHolds
    <2>7. s \in firstSeq .. nextSeq - 1 => EntryAt(s).of = <<p, gen[p][t]>>
      BY <1>3, <2>2 DEF EntryAt, AllOf
    <2> QED  BY <2>4, <2>5, <2>6, <2>7
  <1>5. publication' = publication /\ TheSeek(p)' = TheSeek(p)
    BY DEF TheSeek, Unreached, run_, sinks
  <1>6. DOMAIN entries' = 1 .. Len(entries')
    BY <1>t, WroteHolds, LenProperties DEF KeptTyped
  <1>7. OneTimeline'
    BY <1>4, <1>6 DEF OneTimeline
  <1> QED  BY <1>1, <1>2, <1>4, <1>5, <1>7 DEF OfTheSeek, AllOf

\* Every step leaves OfTheSeek.
LEMMA OfTheSeekNext == Held /\ Seeking /\ OfTheSeek /\ [Next]_vars => OfTheSeek'
  <1> SUFFICES ASSUME Held, Seeking, OfTheSeek, [Next]_vars PROVE OfTheSeek'
    OBVIOUS
  <1>t. RunTyped /\ SinksTyped /\ KeptTyped
    BY DEF Held, TypeOK
  <1>s. ASSUME UNCHANGED <<entries, publication, flushed, sinks>> PROVE OfTheSeek'
    BY <1>s, StillOne DEF Going, TheSeek, Unreached, sinks
  <1>1. ASSUME NEW key \in KeyTracks, Publish(key) PROVE OfTheSeek'
    BY <1>1, EmptyIsOne DEF Publish, BeginRun
  <1>2. CASE Close
    BY <1>2, <1>s DEF Close, run_, kept
  <1>3. ASSUME NEW q \in Publications, Seek(q) PROVE OfTheSeek'
    <2>1. SUFFICES ASSUME NEW p \in Publications, p = publication', Going(p)' # {}
                   PROVE  p = publication /\ Going(p) # {} /\ TheSeek(p)' = TheSeek(p)
      BY <1>3, StillOne DEF Seek, kept
    <2>2. p = publication /\ Going(p)' = Going(p) /\ Reached(p) /\ flushed' = flushed
      BY <1>3, <2>1 DEF Seek, Going, run_, Seeking, Sought
    <2>3. CASE p # q
      <3>1. seeks'[p] = seeks[p] /\ pending'[p] = pending[p]
        BY <1>3, <1>t, <2>3 DEF Seek, SinksTyped
      <3> QED  BY <2>1, <2>2, <3>1 DEF TheSeek, Unreached
    <2>4. CASE p = q
      <3>1. /\ pending[p] = {} /\ pending'[p] # {} /\ seeks'[p] = seeks[p] + 1 /\ seeks[p] \in Nat
            /\ pending'[p] = {t \in Tracks : sink[p][t] \in {"on", "ended"}}
            /\ sink[p] \in [Tracks -> {"none", "on", "ended", "gone"}]
        BY <1>3, <1>t, <2>4 DEF Seek, SinksTyped
      <3>2. pending'[p] = Going(p)
        BY <2>2, <3>1 DEF Going, Reached
      <3>3. flushed # {} => Going(p) \cap flushed # {}
        BY <2>1, <2>2, <3>1 DEF Reached, Before, Amid
      <3>4. ~Unreached(p) /\ Unreached(p)'
        BY <2>2, <3>1, <3>2, <3>3 DEF Unreached
      <3>5. seeks'[p] - 1 = seeks[p]
        BY <3>1
      <3> QED  BY <2>1, <2>2, <3>4, <3>5 DEF TheSeek
    <2> QED  BY <2>3, <2>4
  <1>4. ASSUME NEW p \in Publications, NEW t \in Tracks, NEW key \in BOOLEAN,
               NEW ts \in Times, Write(p, t, key, ts)
        PROVE  OfTheSeek'
    <2>1. PICK all, n : Wrote(p, t, ts, all, n)
      BY <1>t, <1>4, WriteIs
    <2>2. /\ UNCHANGED <<run_, closed, sinks>>
          /\ sink[p][t] = "on" /\ Accepts(p, t) /\ ~LeftOver(t)
      BY <1>4 DEF Write
    <2> QED  BY <2>1, <2>2, WrittenIsOne
  <1>5. ASSUME NEW p \in Publications, NEW t \in Tracks, WriteLeftOver(p, t)
        PROVE  OfTheSeek'
    BY <1>5, <1>s DEF WriteLeftOver, run_, kept
  <1>6. ASSUME NEW q \in Publications, NEW u \in Tracks, NEW how \in {"ended", "gone"},
               End(q, u, how)
        PROVE  OfTheSeek'
    <2>1. SUFFICES ASSUME NEW p \in Publications, p = publication', Going(p)' # {}
                   PROVE  p = publication /\ Going(p) # {} /\ TheSeek(p)' = TheSeek(p)
      BY <1>6, StillOne DEF End, kept
    <2>2. p = publication /\ Reached(p) /\ Reached(p)' /\ flushed' = flushed /\ seeks' = seeks
      <3>1. Seeking'
        BY <1>t, <1>6, EndSought
      <3> QED  BY <1>6, <2>1, <3>1 DEF End, Seeking, Sought
    <2>3. \/ Going(p)' = Going(p) /\ pending'[p] = pending[p]
          \/ Going(p)' = Going(p) \ {u} /\ pending'[p] = pending[p] \ {u}
      <3>1. CASE p # q
        <4>1. sink'[p] = sink[p] /\ pending'[p] = pending[p]
          BY <1>6, <1>t, <3>1 DEF End, SinksTyped
        <4> QED  BY <4>1 DEF Going
      <3>2. CASE p = q
        <4>1. /\ sink[p][u] \in {"on", "ended"} /\ sink'[p] = [sink[p] EXCEPT ![u] = how]
              /\ pending'[p] = IF how = "gone" THEN pending[p] \ {u} ELSE pending[p]
              /\ sink[p] \in [Tracks -> {"none", "on", "ended", "gone"}]
          BY <1>6, <1>t, <3>2 DEF End, SinksTyped
        <4> QED  BY <4>1 DEF Going
      <3> QED  BY <3>1, <3>2
    <2>5. Unreached(p)' <=> Unreached(p)
      <3>1. pending'[p] = {} => pending[p] = {} \/ (flushed # {} /\ pending[p] \cap flushed = {})
        BY <2>1, <2>2, <2>3 DEF Reached, Before, Amid
      <3>2. pending'[p] # {} => (pending'[p] \cap flushed # {} <=> pending[p] \cap flushed # {})
        BY <2>1, <2>2, <2>3 DEF Reached, Before, Amid
      <3> QED  BY <2>2, <2>3, <3>1, <3>2 DEF Unreached
    <2> QED  BY <2>1, <2>2, <2>3, <2>5 DEF TheSeek
  <1>7. ASSUME NEW q \in Publications, NEW u \in Tracks, Flush(q, u) PROVE OfTheSeek'
    <2>1. CASE BeginRun
      BY <2>1, EmptyIsOne DEF BeginRun
    <2>2. CASE ~BeginRun
      <3>1. entries' = entries /\ publication' = publication
        BY <1>7, <2>2 DEF Flush, FlushTrack, kept, run_
      <3>2. SUFFICES ASSUME NEW p \in Publications, p = publication', Going(p)' # {}
                     PROVE  p = publication /\ Going(p) # {} /\ TheSeek(p)' = TheSeek(p)
        BY <3>1, StillOne
      <3>3. p = publication /\ Reached(p) /\ Reached(p)' /\ seeks' = seeks
        <4>1. Seeking'
          BY <1>t, <1>7, FlushSought
        <4> QED  BY <1>7, <3>1, <3>2, <4>1 DEF Flush, Seeking, Sought
      <3>4. CASE p # q
        <4>1. sink'[p] = sink[p] /\ pending'[p] = pending[p] /\ flushed' = flushed
          BY <1>7, <1>t, <3>3, <3>4 DEF Flush, SinksTyped, run_
        <4> QED  BY <3>2, <3>3, <4>1 DEF TheSeek, Unreached, Going
      <3>5. CASE p = q
        <4>1. FlushTrack(u) /\ u \in pending[p] /\ pending'[p] = pending[p] \ {u}
          BY <1>7, <1>t, <3>3, <3>5 DEF Flush, SinksTyped
        <4>2. flushed # {} /\ u \notin flushed
          BY <2>2, <4>1 DEF FlushTrack
        <4>3. pending[p] \cap flushed = {}
          BY <3>3, <4>1, <4>2 DEF Reached, Before, Amid
        <4>4. flushed' = IF flushed \cup {u} = Tracks THEN {} ELSE flushed \cup {u}
          BY <4>1, <4>2 DEF FlushTrack
        <4>5. ~Unreached(p)
          BY <4>2, <4>3 DEF Unreached
        <4>6. ~Unreached(p)'
          <5>1. pending[p] \subseteq Tracks
            BY <1>t DEF SinksTyped
          <5> QED  BY <4>1, <4>3, <4>4, <5>1 DEF Unreached
        <4>7. u \in Going(p)
          BY <3>3, <4>1 DEF Reached
        <4> QED  BY <3>3, <4>5, <4>6, <4>7 DEF TheSeek
      <3> QED  BY <3>4, <3>5
    <2> QED  BY <2>1, <2>2
  <1>8. CASE TheReaders
    BY <1>8, <1>s, ReadersTurn DEF Turned, run_, kept
  <1>9. CASE UNCHANGED vars
    BY <1>9, <1>s DEF vars, run_, kept
  <1>10. CASE Writers
    <2>1. CASE \E p \in Publications, t \in Tracks, key \in BOOLEAN, ts \in Times : Write(p, t, key, ts)
      BY <1>4, <2>1
    <2> QED  BY <1>5, <1>6, <1>7, <1>10, <2>1 DEF Writers, Stamps
  <1> QED  BY <1>1, <1>2, <1>3, <1>8, <1>9, <1>10 DEF Next

\* A track the seek has not reached and a sink that was superseded add nothing
\* to what is held (State::write, State::flush): all of it is of one seek.
THEOREM OneTimelineHolds == Spec => []OneTimeline
  <1>1. Init => OfTheSeek
    <2>1. SUFFICES ASSUME Init PROVE OfTheSeek
      OBVIOUS
    <2>2. entries = <<>> /\ DOMAIN entries = {} /\ 1 .. Len(entries) = {}
      BY <2>1 DEF Init
    <2> QED  BY <2>2 DEF OfTheSeek, OneTimeline, AllOf
  <1>2. OfTheSeek => OneTimeline
    BY DEF OfTheSeek
  <1> QED  BY AlwaysHeld, SeekingInit, SeekingNext, OfTheSeekNext, <1>1, <1>2, PTL DEF Spec

-----------------------------------------------------------------------------
(* The end of a run.                                                       *)

\* But for a track that ended amid its seek: a run that is over has no track
\* open, and what a seek has reached is open.
Closes ==
    ~cut => /\ ~live => open = {}
            /\ \A p \in Publications :
                  p = publication /\ pending[p] # {} /\ pending[p] \cap flushed = {}
                  => flushed \subseteq open

\* And every reader told of the end stands behind all of the run.
OverIsOver == Closes /\ (~cut => \A r \in Readers : Through(reader[r]))

\* The steps that leave the flags and the sinks as they are.
LEMMA SameFlags ==
    ASSUME Closes, UNCHANGED <<cut, live, open, publication, flushed, sinks>>
    PROVE  Closes'
  BY DEF Closes, sinks

\* A seek that sets out finds all of the marks its tracks' or none.
LEMMA SeekCloses ==
    ASSUME RunTyped, SinksTyped, Seeking, Closes, NEW q \in Publications, Seek(q)
    PROVE  Closes'
  <1>1. UNCHANGED <<cut, live, open, publication, flushed, sink>>
    BY DEF Seek, run_
  <1>2. SUFFICES ASSUME ~cut, NEW p \in Publications, p = publication,
                        pending'[p] # {}, pending'[p] \cap flushed = {}
                 PROVE  flushed \subseteq open
    BY <1>1 DEF Closes
  <1>3. Reached(p)
    BY <1>2 DEF Seeking, Sought
  <1>4. CASE p # q
    <2>1. pending'[p] = pending[p]
      BY <1>4 DEF Seek, SinksTyped
    <2> QED  BY <1>2, <2>1 DEF Closes
  <1>5. CASE p = q
    <2>1. /\ pending[p] = {} /\ pending'[p] = {t \in Tracks : sink[p][t] \in {"on", "ended"}}
          /\ sink[p] \in [Tracks -> {"none", "on", "ended", "gone"}]
      BY <1>5 DEF Seek, SinksTyped
    <2>2. pending'[p] = Going(p)
      BY <1>3, <2>1 DEF Going, Reached
    <2>3. flushed = {}
      BY <1>2, <1>3, <2>1, <2>2 DEF Reached, Before, Amid
    <2> QED  BY <2>3
  <1> QED  BY <1>4, <1>5

\* A track that ends closes, and is not one the seek under way has reached.
LEMMA EndCloses ==
    ASSUME RunTyped, SinksTyped, Seeking, Closes, NEW q \in Publications, NEW u \in Tracks,
           NEW how \in {"ended", "gone"}, End(q, u, how)
    PROVE  Closes' /\ (~cut' => ~cut) /\ (~live => ~live')
  <1>1. UNCHANGED <<publication, flushed>> /\ (~cut' => ~cut) /\ (~live => ~live')
    BY DEF End, EndTrack
  <1>2. SUFFICES ASSUME ~cut' PROVE Closes'
    BY <1>1 DEF Closes
  <1>3. ~live' => open' = {}
    BY <1>1, <1>2 DEF End, EndTrack, Closes
  <1>4. ASSUME NEW p \in Publications, p = publication,
               pending'[p] # {}, pending'[p] \cap flushed = {}
        PROVE  flushed \subseteq open'
    <2>1. Reached(p)
      BY <1>4 DEF Seeking, Sought
    <2>2. CASE p # q
      <3>1. open' = open
        BY <1>4, <2>2 DEF End, EndTrack
      <3>2. pending'[p] = pending[p]
        BY <2>2 DEF End, SinksTyped
      <3> QED  BY <1>1, <1>2, <1>4, <3>1, <3>2 DEF Closes
    <2>3. CASE p = q
      <3>1. /\ pending'[p] = IF how = "gone" THEN pending[p] \ {u} ELSE pending[p]
            /\ open' = open \/ open' = open \ {u}
        BY <2>3 DEF End, EndTrack, SinksTyped
      <3>2. u \in pending[p]
        BY <1>2, <1>4, <2>3, <3>1 DEF End
      <3>3. CASE flushed = {}
        BY <3>3
      <3>4. CASE flushed # {}
        <4>1. pending[p] \cap flushed = {}
          BY <1>4, <2>1, <3>1, <3>4 DEF Reached, Before, Amid
        <4>2. u \notin flushed /\ flushed \subseteq open
          BY <1>1, <1>2, <1>4, <3>2, <4>1 DEF Closes
        <4> QED  BY <3>1, <4>2
      <3> QED  BY <3>3, <3>4
    <2> QED  BY <2>2, <2>3
  <1> QED  BY <1>1, <1>3, <1>4 DEF Closes

\* A flush that begins no run finds the run live.
LEMMA FlushCloses ==
    ASSUME RunTyped, SinksTyped, Seeking, Closes, NEW q \in Publications, NEW u \in Tracks,
           Flush(q, u)
    PROVE  Closes'
  <1>1. CASE q # publication
    <2>1. UNCHANGED <<cut, live, open, publication, flushed>>
      BY <1>1 DEF Flush, run_
    <2>2. \A p \in Publications : p = publication => pending'[p] = pending[p]
      BY <1>1 DEF Flush, SinksTyped
    <2> QED  BY <2>1, <2>2 DEF Closes
  <1>2. CASE q = publication
    <2>1. /\ FlushTrack(u) /\ u \in pending[q] /\ pending'[q] = pending[q] \ {u}
          /\ publication' = publication /\ open' = open \cup {u} /\ Reached(q)
          /\ pending[q] \subseteq Tracks
      BY <1>2 DEF Flush, FlushTrack, SinksTyped, Seeking, Sought
    <2>2. CASE flushed = {} \/ u \in flushed
      <3>1. live' = TRUE /\ flushed' \subseteq {u}
        BY <2>1, <2>2 DEF FlushTrack, BeginRun
      <3> QED  BY <1>2, <2>1, <3>1 DEF Closes
    <2>3. CASE ~(flushed = {} \/ u \in flushed)
      <3>1. UNCHANGED <<live, cut>> /\ flushed' \subseteq flushed \cup {u}
        BY <2>1, <2>3 DEF FlushTrack
      <3>2. pending[q] \cap flushed = {}
        BY <2>1, <2>3 DEF Reached, Before, Amid
      <3>3. ~cut => flushed \subseteq open /\ live
        BY <1>2, <2>1, <2>3, <3>2 DEF Closes, RunTyped
      <3> QED  BY <1>2, <2>1, <3>1, <3>3 DEF Closes
    <2> QED  BY <2>2, <2>3
  <1> QED  BY <1>1, <1>2

\* A reader behind all of a run stays so while nothing is written to it and
\* it does not come alive again, or once another begins.
LEMMA StaysThrough ==
    ASSUME Held, NEW r \in Readers, reader'[r] = reader[r], Through(reader[r]),
           \/ run' = run /\ nextSeq' = nextSeq /\ (~live => ~live')
           \/ run' = run + 1
    PROVE  Through(reader[r])'
  <1>1. reader[r].run \in Nat /\ run \in Nat /\ reader[r].run <= run
    BY DEF Held, TypeOK, ReadersTyped, RunTyped, Reader, InPlace
  <1> QED  BY <1>1 DEF Through, NoBack

\* Every step leaves OverIsOver.
LEMMA OverIsOverNext == Held /\ Seeking /\ OverIsOver /\ [Next]_vars => OverIsOver'
  <1> SUFFICES ASSUME Held, Seeking, OverIsOver, [Next]_vars PROVE OverIsOver'
    OBVIOUS
  <1>t. RunTyped /\ SinksTyped /\ KeptTyped /\ StartsHeld /\ ReadersTyped
    BY DEF Held, TypeOK
  <1>c. Closes
    BY DEF OverIsOver
  <1>r. ASSUME Closes', UNCHANGED reader, ~cut' => ~cut,
               run' = run /\ nextSeq' = nextSeq /\ (~live => ~live')
        PROVE  OverIsOver'
    BY <1>r, StaysThrough DEF OverIsOver
  <1>b. ASSUME BeginRun, Closes', UNCHANGED reader PROVE OverIsOver'
    <2>1. SUFFICES ASSUME NEW r \in Readers PROVE Through(reader[r])'
      BY <1>b DEF OverIsOver
    <2>2. reader[r].run \in Nat /\ run \in Nat /\ reader[r].run <= run /\ run' = run + 1
      BY <1>b DEF Held, TypeOK, ReadersTyped, RunTyped, Reader, InPlace, BeginRun
    <2> QED  BY <1>b, <2>2 DEF Through
  <1>1. ASSUME NEW key \in KeyTracks, Publish(key) PROVE OverIsOver'
    <2>1. live' = TRUE /\ flushed' = {} /\ UNCHANGED reader /\ BeginRun
      BY <1>1 DEF Publish, BeginRun, task
    <2>2. Closes'
      BY <2>1 DEF Closes
    <2> QED  BY <1>b, <2>1, <2>2
  <1>2. CASE Close
    <2>1. UNCHANGED <<run_, kept, sinks, reader>>
      BY <1>2 DEF Close, task
    <2> QED  BY <1>c, <1>r, <2>1, SameFlags DEF run_, kept
  <1>3. ASSUME NEW q \in Publications, Seek(q) PROVE OverIsOver'
    <2>1. UNCHANGED <<run_, kept, reader>>
      BY <1>3 DEF Seek, task
    <2>2. Closes'
      BY <1>t, <1>c, <1>3, SeekCloses
    <2> QED  BY <1>r, <2>1, <2>2 DEF run_, kept
  <1>4. ASSUME NEW p \in Publications, NEW t \in Tracks, NEW key \in BOOLEAN,
               NEW ts \in Times, Write(p, t, key, ts)
        PROVE  OverIsOver'
    <2>1. UNCHANGED <<run_, sinks, reader>> /\ t \in open
      BY <1>4 DEF Write, Accepts, task
    <2>2. Closes'
      BY <1>c, <2>1, SameFlags DEF run_
    <2>3. ASSUME NEW r \in Readers, ~cut PROVE Through(reader[r])'
      <3>1. live
        BY <1>c, <2>1, <2>3 DEF Closes
      <3>2. ~(reader[r].run = run /\ reader[r].ended)
        BY <2>3, <3>1 DEF OverIsOver, Through
      <3> QED  BY <2>1, <3>2 DEF Through, run_
    <2> QED  BY <2>1, <2>2, <2>3 DEF OverIsOver, run_
  <1>5. ASSUME NEW p \in Publications, NEW t \in Tracks, WriteLeftOver(p, t)
        PROVE  OverIsOver'
    <2>1. UNCHANGED <<run_, kept, sinks, reader>>
      BY <1>5 DEF WriteLeftOver, task
    <2> QED  BY <1>c, <1>r, <2>1, SameFlags DEF run_, kept
  <1>6. ASSUME NEW q \in Publications, NEW u \in Tracks, NEW how \in {"ended", "gone"},
               End(q, u, how)
        PROVE  OverIsOver'
    <2>1. UNCHANGED <<run, kept, reader>>
      BY <1>6 DEF End, task
    <2>2. Closes' /\ (~cut' => ~cut) /\ (~live => ~live')
      BY <1>t, <1>c, <1>6, EndCloses
    <2> QED  BY <1>r, <2>1, <2>2 DEF kept
  <1>7. ASSUME NEW q \in Publications, NEW u \in Tracks, Flush(q, u) PROVE OverIsOver'
    <2>1. UNCHANGED reader
      BY <1>7 DEF Flush, task
    <2>2. Closes'
      BY <1>t, <1>c, <1>7, FlushCloses
    <2>3. BeginRun \/ UNCHANGED <<run, live, cut, kept>>
      BY <1>7 DEF Flush, FlushTrack, run_
    <2> QED  BY <1>r, <1>b, <2>1, <2>2, <2>3 DEF kept
  <1>8. CASE TheReaders
    <2>1. PICK r \in Readers : Turned(r)
      BY <1>8, ReadersTurn
    <2>2. Closes' /\ cut' = cut
      BY <1>c, <2>1, SameFlags DEF Turned, run_
    <2>3. ASSUME NEW q \in Readers, ~cut PROVE Through(reader'[q])
      <3>1. reader[q] \in Reader /\ InPlace(reader[q]) /\ Through(reader[q])
        BY <1>t, <2>3 DEF Held, ReadersTyped, OverIsOver
      <3>2. Through(NextIn(reader[q]).to)
        BY <1>t, <3>1, NextInKeeps
      <3>3. \A within \in Withins \cup {None} : Through(NewReader(within))
        BY <1>t, NewReaderIs
      <3>4. \/ reader'[q] = reader[q] \/ reader'[q] = NextIn(reader[q]).to
            \/ \E within \in Withins \cup {None} : reader'[q] = NewReader(within)
        BY <1>t, <2>1 DEF Turned, ReadersTyped
      <3> QED  BY <3>1, <3>2, <3>3, <3>4
    <2>4. ASSUME NEW q \in Readers, ~cut PROVE Through(reader[q])'
      BY <2>1, <2>3, <2>4 DEF Turned, Through, NoBack, run_, kept
    <2> QED  BY <2>2, <2>4 DEF OverIsOver
  <1>9. CASE UNCHANGED vars
    <2>1. UNCHANGED <<run_, kept, sinks, reader>>
      BY <1>9 DEF vars, task
    <2> QED  BY <1>c, <1>r, <2>1, SameFlags DEF run_, kept
  <1>10. CASE Writers
    <2>1. CASE \E p \in Publications, t \in Tracks, key \in BOOLEAN, ts \in Times : Write(p, t, key, ts)
      BY <1>4, <2>1
    <2> QED  BY <1>5, <1>6, <1>7, <1>10, <2>1 DEF Writers, Stamps
  <1> QED  BY <1>1, <1>2, <1>3, <1>8, <1>9, <1>10 DEF Next

\* A reader told of the end of the run going is handed no packet of it after
\* that (State::end, State::next_in), but where a track ended amid its seek.
THEOREM EndedIsTheEndHolds == Spec => []EndedIsTheEnd
  <1>1. Init => OverIsOver
    <2>1. SUFFICES ASSUME Init PROVE OverIsOver
      OBVIOUS
    <2>2. open = {} /\ flushed = {} /\ \A r \in Readers : ~reader[r].ended
      BY <2>1 DEF Init, NewReader
    <2> QED  BY <2>2 DEF OverIsOver, Closes, Through
  <1>2. Held /\ OverIsOver => EndedIsTheEnd
    <2>1. SUFFICES ASSUME Held, OverIsOver, NEW r \in Readers,
                          reader[r].run = run, reader[r].ended, ~cut
                   PROVE  NextIn(reader[r]).item \notin {"Packet", "Skipped"}
      BY DEF EndedIsTheEnd
    <2>2. /\ KeptTyped /\ RunTyped /\ StartsHeld
          /\ reader[r] \in Reader /\ InPlace(reader[r]) /\ Through(reader[r])
      BY <2>1 DEF Held, TypeOK, ReadersTyped, OverIsOver
    <2> QED  BY <2>1, <2>2, NextInKeeps
  <1> QED  BY AlwaysHeld, SeekingInit, SeekingNext, OverIsOverNext, <1>1, <1>2, PTL DEF Spec

-----------------------------------------------------------------------------
(* What a reader has been handed of a run.                                 *)

\* The packet s is owed to a reader that joined at `joined` and started at k.
Owed(s, k, joined) ==
    /\ s \in firstSeq .. k - 1 /\ s >= joined
    /\ At(s).track # At(k).track /\ At(s).ts >= At(k).ts
    /\ \A u \in s + 1 .. k - 1 : ~At(u).start

\* What was handed over lies before the reader, each track in order, and what
\* it looks back for comes after what it was handed of any other track.
InOrder(rd, g) ==
    /\ \A i \in 1 .. Len(g) : g[i] \in RunBegan .. nextSeq - 1 /\ g[i] < rd.next
    /\ \A i, j \in 1 .. Len(g) :
          i < j /\ At(g[i]).track = At(g[j]).track => g[i] < g[j]
    /\ rd.back # NoBack => \A i \in 1 .. Len(g) :
          g[i] < rd.back.cursor \/ At(g[i]).track = rd.back.track

\* A reader that has joined and read nothing since: it waits for a start or
\* stands at one, and will look back no further than what it is owed.
Ready(rd, g, joined) ==
    /\ rd.back = NoBack /\ rd.backFrom # None
    /\ \A i \in 1 .. Len(g) : g[i] < rd.backFrom
    /\ ~rd.waitingForStart => rd.next \in RunBegan .. nextSeq - 1 /\ At(rd.next).start
    /\ \/ rd.backFrom <= joined
       \/ /\ ~rd.waitingForStart /\ rd.backFrom \in RunBegan .. rd.next - 1
          /\ At(rd.backFrom).start

\* A reader that has read on from a start k: it has all from there to where it
\* stands, and all it is owed of what precedes but what it still looks back for.
Under(rd, g, n, joined) ==
    LET k == g[n + 1]
        has == {g[i] : i \in n + 1 .. Len(g)}
    IN /\ At(k).start /\ ~rd.waitingForStart /\ rd.backFrom = None
       /\ k .. rd.next - 1 \subseteq has
       /\ rd.back # NoBack => /\ rd.back.end = k /\ rd.back.from = At(k).ts
                              /\ rd.back.track = At(k).track
       /\ \A s \in RunBegan .. k - 1 :
             Owed(s, k, joined) => s \in has \/ (rd.back # NoBack /\ rd.back.cursor <= s)

Reads(rd, g, n, joined) ==
    /\ InOrder(rd, g)
    /\ n = Len(g) => Ready(rd, g, joined)
    /\ n < Len(g) => Under(rd, g, n, joined)

HistoryTyped ==
    /\ got \in [Readers -> Seq(Nat)] /\ since \in [Readers -> Nat] /\ joinedAt \in [Readers -> Nat]
    /\ \A r \in Readers : since[r] <= Len(got[r])
Reading ==
    /\ HistoryTyped
    /\ \A r \in Readers :
          reader[r].run = run /\ run # 0 => Reads(reader[r], got[r], since[r], joinedAt[r])

\* What was written of a run is numbered on from where it began.
LEMMA WrittenIs ==
    ASSUME KeptTyped
    PROVE  /\ RunBegan \in Nat /\ RunBegan <= firstSeq /\ firstSeq \in Nat /\ nextSeq \in Nat
           /\ firstSeq <= nextSeq
           /\ \A s \in firstSeq .. nextSeq - 1 : At(s) = EntryAt(s)
           /\ \A s \in RunBegan .. nextSeq - 1 :
                 /\ At(s).track \in Tracks /\ At(s).ts \in Nat /\ At(s).start \in BOOLEAN
                 /\ s - RunBegan + 1 \in 1 .. Len(Written)
  <1>1. /\ letGo \in Seq(GoneEntry) /\ entries \in Seq(Entry) /\ firstSeq \in Nat
        /\ Len(letGo) \in Nat /\ Len(entries) \in Nat /\ Len(letGo) <= firstSeq
        /\ nextSeq = firstSeq + Len(entries)
    BY LenProperties DEF KeptTyped
  <1>2. letGo \in Seq(GoneEntry \cup Entry) /\ entries \in Seq(GoneEntry \cup Entry)
    <2>1. \A S, T, s : S \subseteq T /\ s \in Seq(S) => s \in Seq(T)
      OBVIOUS
    <2> QED  BY <1>1, <2>1
  <1>3. /\ Written \in Seq(GoneEntry \cup Entry) /\ Len(Written) = Len(letGo) + Len(entries)
        /\ \A i \in 1 .. Len(letGo) + Len(entries) :
              Written[i] = IF i <= Len(letGo) THEN letGo[i] ELSE entries[i - Len(letGo)]
    BY <1>1, <1>2, ConcatProperties DEF Written
  <1>4. RunBegan = firstSeq - Len(letGo) /\ RunBegan \in Nat
    BY <1>1 DEF RunBegan
  <1>5. ASSUME NEW s \in firstSeq .. nextSeq - 1
        PROVE  At(s) = EntryAt(s)
    <2>1. PICK i : i = s - RunBegan + 1
      OBVIOUS
    <2>2. /\ i \in 1 .. Len(letGo) + Len(entries) /\ ~(i <= Len(letGo))
          /\ i - Len(letGo) = s - firstSeq + 1
      BY <1>1, <1>4, <2>1
    <2>3. Written[i] = entries[s - firstSeq + 1]
      BY <1>3, <2>2
    <2> QED  BY <2>1, <2>3 DEF At, EntryAt
  <1>6. ASSUME NEW s \in RunBegan .. nextSeq - 1
        PROVE  /\ At(s).track \in Tracks /\ At(s).ts \in Nat /\ At(s).start \in BOOLEAN
               /\ s - RunBegan + 1 \in 1 .. Len(Written)
    <2>1. s - RunBegan + 1 \in 1 .. Len(Written)
      BY <1>1, <1>3, <1>4
    <2>2. At(s) \in GoneEntry \cup Entry
      BY <1>3, <2>1, ElementOfSeq DEF At
    <2> QED  BY <2>1, <2>2, TimesAssumption DEF GoneEntry, Entry
  <1> QED  BY <1>1, <1>4, <1>5, <1>6

\* Where what is written was, is and will be.
LEMMA WroteEach ==
    ASSUME KeptTyped, NEW p, NEW t, NEW ts, NEW all, NEW n, Wrote(p, t, ts, all, n), KeptTyped'
    PROVE  /\ Len(Written) \in Nat /\ Len(letGo) \in 0 .. Len(Written)
           /\ Len(Written') = Len(Written) + 1 /\ Len(letGo') \in Len(letGo) .. Len(Written')
           /\ DOMAIN Written = 1 .. Len(Written) /\ DOMAIN Written' = 1 .. Len(Written')
           /\ \A i \in 1 .. Len(Written) :
                 /\ Written'[i].track = Written[i].track /\ Written'[i].ts = Written[i].ts
                 /\ Written'[i].start = Written[i].start
                 /\ Written'[i].at = IF i > Len(letGo) /\ t = Timeline /\ newest = None
                                     THEN ts ELSE Written[i].at
           /\ Written'[Len(Written)+1].track = t /\ Written'[Len(Written)+1].ts = ts
           /\ Written'[Len(Written)+1].at = IF t = Timeline THEN ts ELSE Max({newest, 0})
           /\ \A i \in 1 .. Len(letGo) : letGo'[i] = letGo[i]
           /\ \A i \in Len(letGo) + 1 .. Len(letGo') :
                 letGo'[i].why = "retain" => newest' # None /\ newest' - letGo'[i].at > Retain
  <1>1. /\ letGo \in Seq(GoneEntry) /\ entries \in Seq(Entry) /\ firstSeq \in Nat
        /\ Len(letGo) \in Nat /\ Len(entries) \in Nat /\ Len(letGo) <= firstSeq
        /\ nextSeq = firstSeq + Len(entries)
        /\ letGo' \in Seq(GoneEntry) /\ entries' \in Seq(Entry)
        /\ Len(letGo') \in Nat /\ Len(entries') \in Nat
        /\ all \in Seq(Entry) /\ Len(all) = Len(entries) + 1 /\ n \in 0 .. Len(all)
        /\ firstSeq' = firstSeq + n
    BY LenProperties DEF KeptTyped, Wrote
  <1>2. PICK why \in [1 .. n -> {"bound", "retain", "unread"}] :
           /\ letGo' = letGo \o [i \in 1 .. n |-> LetGoOf(all[i], why[i])]
           /\ \A i \in 1 .. n :
                 why[i] = "retain" => newest' # None /\ newest' - all[i].at > Retain
    BY DEF Wrote
  <1> DEFINE gone == [i \in 1 .. n |-> LetGoOf(all[i], why[i])]
             Both == GoneEntry \cup Entry
  <1>3. gone \in Seq(GoneEntry) /\ Len(gone) = n
    <2>1. \A i \in 1 .. n : all[i] \in Entry
      BY <1>1, ElementOfSeq
    <2>2. \A i \in 1 .. n : LetGoOf(all[i], why[i]) \in GoneEntry
      BY <2>1 DEF LetGoOf, Entry, GoneEntry
    <2>3. gone \in [1 .. n -> GoneEntry]
      BY <2>2
    <2> QED  BY <1>1, <2>3
  <1>4. /\ Len(letGo') = Len(letGo) + n
        /\ \A i \in 1 .. Len(letGo) + n :
              letGo'[i] = IF i <= Len(letGo) THEN letGo[i] ELSE gone[i - Len(letGo)]
    <2> HIDE DEF gone
    <2>1. letGo' = letGo \o gone
      BY <1>2 DEF gone
    <2> QED  BY <1>1, <1>3, <2>1, ConcatProperties
  <1>5. /\ Len(entries') = Len(all) - n
        /\ \A i \in 1 .. Len(all) - n : entries'[i] = all[n + i]
    <2>1. entries' = SubSeq(all, n + 1, Len(all))
      BY DEF Wrote
    <2>2. n + 1 \in Int /\ Len(all) \in Int /\ \A i \in n + 1 .. Len(all) : all[i] \in Entry
      BY <1>1, ElementOfSeq
    <2>3. /\ Len(SubSeq(all, n + 1, Len(all))) =
                IF n + 1 <= Len(all) THEN Len(all) - (n + 1) + 1 ELSE 0
          /\ \A i \in 1 .. Len(all) - (n + 1) + 1 :
                SubSeq(all, n + 1, Len(all))[i] = all[n + 1 + i - 1]
      BY <2>2, SubSeqProperties
    <2>4. \A i \in 1 .. Len(all) - n : i \in 1 .. Len(all) - (n + 1) + 1 /\ n + 1 + i - 1 = n + i
      BY <1>1
    <2>5. \A i \in 1 .. Len(all) - n : entries'[i] = all[n + i]
      BY <2>1, <2>3, <2>4
    <2>6. Len(entries') = Len(all) - n
      BY <1>1, <2>1, <2>3
    <2> QED  BY <2>1, <2>3, <2>5, <2>6
  <1>7. \A S, T, s : S \subseteq T /\ s \in Seq(S) => s \in Seq(T)
    OBVIOUS
  <1>8. /\ Len(Written) = Len(letGo) + Len(entries) /\ DOMAIN Written = 1 .. Len(Written)
        /\ \A i \in 1 .. Len(letGo) + Len(entries) :
              Written[i] = IF i <= Len(letGo) THEN letGo[i] ELSE entries[i - Len(letGo)]
    <2>1. letGo \in Seq(Both) /\ entries \in Seq(Both)
      BY <1>1, <1>7
    <2> QED  BY <1>1, <2>1, ConcatProperties, LenProperties DEF Written
  <1>9. /\ Len(Written') = Len(letGo') + Len(entries') /\ DOMAIN Written' = 1 .. Len(Written')
        /\ \A i \in 1 .. Len(letGo') + Len(entries') :
              Written'[i] = IF i <= Len(letGo') THEN letGo'[i] ELSE entries'[i - Len(letGo')]
    <2>1. letGo' \in Seq(Both) /\ entries' \in Seq(Both)
      BY <1>1, <1>7
    <2>2. /\ letGo' \o entries' \in Seq(Both)
          /\ Len(letGo' \o entries') = Len(letGo') + Len(entries')
          /\ \A i \in 1 .. Len(letGo') + Len(entries') :
             (letGo' \o entries')[i] = IF i <= Len(letGo') THEN letGo'[i] ELSE entries'[i - Len(letGo')]
      BY <1>1, <2>1, ConcatProperties
    <2> QED  BY <2>2, LenProperties DEF Written
  <1>10. \A i \in 1 .. n : /\ letGo'[Len(letGo) + i] = LetGoOf(all[i], why[i])
                            /\ Written'[Len(letGo) + i] = LetGoOf(all[i], why[i])
    <2>0. /\ Len(letGo') = Len(letGo) + n /\ Len(letGo) \in Nat /\ n \in Nat
          /\ Len(entries') \in Nat
      BY <1>1, <1>4
    <2>1. \A i \in 1 .. n : /\ Len(letGo) + i \in 1 .. Len(letGo) + n
                             /\ ~(Len(letGo) + i <= Len(letGo)) /\ (Len(letGo) + i) - Len(letGo) = i
                             /\ Len(letGo) + i <= Len(letGo')
                             /\ Len(letGo) + i \in 1 .. Len(letGo') + Len(entries')
      BY <2>0
    <2>2. \A i \in 1 .. n : letGo'[Len(letGo) + i] = LetGoOf(all[i], why[i])
      BY <1>4, <2>1
    <2>3. \A i \in 1 .. n : Written'[Len(letGo) + i] = letGo'[Len(letGo) + i]
      BY <1>9, <2>1
    <2> QED  BY <2>2, <2>3
  <1>11. \A i \in 1 .. Len(all) - n : Written'[Len(letGo) + n + i] = all[n + i]
    <2>1. \A i \in 1 .. Len(all) - n :
              /\ Len(letGo) + n + i \in 1 .. Len(letGo') + Len(entries')
              /\ ~(Len(letGo) + n + i <= Len(letGo')) /\ (Len(letGo) + n + i) - Len(letGo') = i
      BY <1>1, <1>4, <1>5
    <2> QED  BY <1>5, <1>9, <2>1
  <1>12. ASSUME NEW m \in 1 .. Len(all)
         PROVE  /\ Written'[Len(letGo) + m].track = all[m].track
                /\ Written'[Len(letGo) + m].ts = all[m].ts
                /\ Written'[Len(letGo) + m].start = all[m].start
                /\ Written'[Len(letGo) + m].at = all[m].at
    <2>1. CASE m <= n
      <3>1. Written'[Len(letGo) + m] = LetGoOf(all[m], why[m])
        BY <1>1, <1>10, <2>1
      <3> QED  BY <3>1 DEF LetGoOf
    <2>2. CASE ~(m <= n)
      <3>1. m - n \in 1 .. Len(all) - n /\ Len(letGo) + n + (m - n) = Len(letGo) + m
            /\ n + (m - n) = m
        BY <1>1, <2>2
      <3>2. Written'[Len(letGo) + m] = all[m]
        BY <1>11, <3>1
      <3> QED  BY <3>2
    <2> QED  BY <2>1, <2>2
  <1>13. ASSUME NEW i \in 1 .. Len(Written)
         PROVE  /\ Written'[i].track = Written[i].track /\ Written'[i].ts = Written[i].ts
                /\ Written'[i].start = Written[i].start
                /\ Written'[i].at = IF i > Len(letGo) /\ t = Timeline /\ newest = None
                                    THEN ts ELSE Written[i].at
    <2>1. CASE i <= Len(letGo)
      <3>1. i \in 1 .. Len(letGo) + n /\ i <= Len(letGo') /\ ~(i > Len(letGo))
            /\ i \in 1 .. Len(letGo') + Len(entries') /\ i \in 1 .. Len(letGo) + Len(entries)
        BY <1>1, <1>4, <1>8, <2>1
      <3>2. Written'[i] = Written[i]
        BY <1>4, <1>8, <1>9, <2>1, <3>1
      <3> QED  BY <3>1, <3>2
    <2>2. CASE ~(i <= Len(letGo))
      <3>1. PICK m : m = i - Len(letGo)
        OBVIOUS
      <3>2. m \in 1 .. Len(entries) /\ m \in 1 .. Len(all) /\ Len(letGo) + m = i /\ i > Len(letGo)
            /\ i \in 1 .. Len(letGo) + Len(entries)
        BY <1>1, <1>8, <2>2, <3>1
      <3>3. Written[i] = entries[m]
        BY <1>8, <2>2, <3>1, <3>2
      <3>4. /\ all[m].start = entries[m].start /\ all[m].track = entries[m].track
            /\ all[m].ts = entries[m].ts
            /\ all[m].at = IF t = Timeline /\ newest = None THEN ts ELSE entries[m].at
        BY <3>2 DEF Wrote
      <3> QED  BY <1>12, <3>2, <3>3, <3>4
    <2> QED  BY <2>1, <2>2
  <1>14. /\ Written'[Len(Written) + 1].track = t /\ Written'[Len(Written) + 1].ts = ts
         /\ Written'[Len(Written) + 1].at = IF t = Timeline THEN ts ELSE Max({newest, 0})
    <2>1. Len(all) \in 1 .. Len(all) /\ Len(letGo) + Len(all) = Len(Written) + 1
      BY <1>1, <1>8
    <2>2. /\ all[Len(all)].track = t /\ all[Len(all)].ts = ts
          /\ all[Len(all)].at = IF t = Timeline THEN ts ELSE Max({newest, 0})
      BY DEF Wrote
    <2> QED  BY <1>12, <2>1, <2>2
  <1>15. ASSUME NEW i \in Len(letGo) + 1 .. Len(letGo'), letGo'[i].why = "retain"
         PROVE  newest' # None /\ newest' - letGo'[i].at > Retain
    <2>1. PICK m : m = i - Len(letGo)
      OBVIOUS
    <2>2. m \in 1 .. n /\ Len(letGo) + m = i
      BY <1>1, <1>4, <2>1
    <2>3. letGo'[i].why = why[m] /\ letGo'[i].at = all[m].at
      <3>1. letGo'[Len(letGo) + m] = LetGoOf(all[m], why[m])
        BY <1>10, <2>2
      <3>2. letGo'[i] = LetGoOf(all[m], why[m])
        BY <2>2, <3>1
      <3>3. LetGoOf(all[m], why[m]).why = why[m] /\ LetGoOf(all[m], why[m]).at = all[m].at
        BY DEF LetGoOf
      <3> QED  BY <3>2, <3>3
    <2> QED  BY <1>2, <1>15, <2>2, <2>3
  <1>16. \A i \in 1 .. Len(letGo) : letGo'[i] = letGo[i]
    <2>1. \A i \in 1 .. Len(letGo) : i \in 1 .. Len(letGo) + n /\ i <= Len(letGo)
      BY <1>1
    <2> QED  BY <1>4, <2>1
  <1>17. /\ Len(Written) \in Nat /\ Len(letGo) \in 0 .. Len(Written)
         /\ Len(Written') = Len(Written) + 1 /\ Len(letGo') \in Len(letGo) .. Len(Written')
    <2>1. /\ Len(Written) = Len(letGo) + Len(entries) /\ Len(Written') = Len(letGo') + Len(entries')
          /\ Len(entries') = Len(entries) + 1 - n /\ Len(letGo') = Len(letGo) + n
      BY <1>1, <1>4, <1>5, <1>8, <1>9
    <2>2. Len(letGo) \in Nat /\ Len(entries) \in Nat /\ Len(entries') \in Nat /\ n \in Nat
      BY <1>1
    <2> QED  BY <2>1, <2>2
  <1> QED  BY <1>8, <1>9, <1>13, <1>14, <1>15, <1>16, <1>17

\* Writing leaves what was written as it was.
LEMMA WroteWritten ==
    ASSUME KeptTyped, NEW p, NEW t, NEW ts, NEW all, NEW n, Wrote(p, t, ts, all, n), KeptTyped'
    PROVE  /\ RunBegan' = RunBegan
           /\ \A s \in RunBegan .. nextSeq - 1 :
                 At(s)'.track = At(s).track /\ At(s)'.ts = At(s).ts /\ At(s)'.start = At(s).start
  <1>1. RunBegan' = RunBegan /\ RunBegan \in Nat
    <2>1. PICK why \in [1 .. n -> {"bound", "retain", "unread"}] :
             letGo' = letGo \o [i \in 1 .. n |-> LetGoOf(all[i], why[i])]
      BY DEF Wrote
    <2> DEFINE gone == [i \in 1 .. n |-> LetGoOf(all[i], why[i])]
    <2>2. n \in Nat /\ letGo \in Seq(GoneEntry) /\ all \in Seq(Entry) /\ n <= Len(all)
      BY LenProperties DEF Wrote, KeptTyped
    <2>3. gone \in Seq(GoneEntry) /\ Len(gone) = n
      <3>1. \A i \in 1 .. n : all[i] \in Entry
        BY <2>2, ElementOfSeq, LenProperties
      <3>2. \A i \in 1 .. n : LetGoOf(all[i], why[i]) \in GoneEntry
        BY <3>1 DEF LetGoOf, Entry, GoneEntry
      <3> QED  BY <2>2, <3>2
    <2> HIDE DEF gone
    <2>4. Len(letGo') = Len(letGo) + n /\ Len(letGo) \in Nat
      BY <2>1, <2>2, <2>3, ConcatProperties, LenProperties DEF gone
    <2>5. firstSeq' = firstSeq + n /\ firstSeq \in Nat
      BY DEF Wrote, KeptTyped
    <2> QED  BY <2>2, <2>4, <2>5, WrittenIs DEF RunBegan
  <1>2. \A s \in RunBegan .. nextSeq - 1 : s - RunBegan + 1 \in 1 .. Len(Written)
    BY WrittenIs
  <1>3. \A s : At(s) = Written[s - RunBegan + 1] /\ At(s)' = Written'[s - RunBegan + 1]
    BY <1>1 DEF At
  <1> QED  BY <1>1, <1>2, <1>3, WroteEach

\* A reader that joins is ready, whatever it was handed before.
LEMMA JoinedReads ==
    ASSUME KeptTyped, StartsHeld, NEW rd \in Reader, NEW g \in Seq(Nat),
           \A i \in 1 .. Len(g) : g[i] \in RunBegan .. nextSeq - 1 /\ g[i] < firstSeq,
           \A i, j \in 1 .. Len(g) :
              i < j /\ At(g[i]).track = At(g[j]).track => g[i] < g[j]
    PROVE  Reads(Joined(rd), g, Len(g),
                 IF Joined(rd).waitingForStart THEN nextSeq ELSE firstSeq)
  <1> DEFINE to == Joined(rd)
  <1>1. /\ to \in Reader /\ to.back = NoBack /\ to.next \in firstSeq .. nextSeq
        /\ IF to.waitingForStart THEN to.next = nextSeq
           ELSE to.next < nextSeq /\ EntryAt(to.next).start
        /\ to.backFrom \in firstSeq .. nextSeq
        /\ \/ to.backFrom = IF to.waitingForStart THEN nextSeq ELSE firstSeq
           \/ /\ ~to.waitingForStart /\ to.backFrom < to.next /\ EntryAt(to.backFrom).start
    BY JoinedIs
  <1>2. /\ RunBegan \in Nat /\ RunBegan <= firstSeq /\ firstSeq \in Nat /\ nextSeq \in Nat
        /\ \A s \in firstSeq .. nextSeq - 1 : At(s) = EntryAt(s)
    BY WrittenIs
  <1> HIDE DEF to
  <1>3. InOrder(to, g)
    BY <1>1, <1>2 DEF InOrder
  <1>4. Ready(to, g, IF to.waitingForStart THEN nextSeq ELSE firstSeq)
    <2>1. to.backFrom # None /\ \A i \in 1 .. Len(g) : g[i] < to.backFrom
      BY <1>1, <1>2 DEF None
    <2>2. ~to.waitingForStart => to.next \in RunBegan .. nextSeq - 1 /\ At(to.next).start
      <3>1. ~to.waitingForStart => to.next \in firstSeq .. nextSeq - 1
        BY <1>1, <1>2
      <3> QED  BY <1>1, <1>2, <3>1
    <2>3. ASSUME ~to.waitingForStart, to.backFrom < to.next, EntryAt(to.backFrom).start
          PROVE  to.backFrom \in RunBegan .. to.next - 1 /\ At(to.backFrom).start
      <3>1. to.backFrom \in firstSeq .. nextSeq - 1 /\ to.backFrom \in RunBegan .. to.next - 1
        BY <1>1, <1>2, <2>3
      <3> QED  BY <1>2, <2>3, <3>1
    <2> QED  BY <1>1, <1>2, <2>1, <2>2, <2>3 DEF Ready
  <1>5. Len(g) \in Nat
    BY LenProperties
  <1> QED  BY <1>3, <1>4, <1>5 DEF Reads, to

\* What is held of one packet more.
LEMMA OneMore ==
    ASSUME NEW g \in Seq(Nat), NEW s \in Nat, NEW n \in 0 .. Len(g)
    PROVE  /\ Append(g, s) \in Seq(Nat) /\ Len(Append(g, s)) = Len(g) + 1 /\ Len(g) \in Nat
           /\ \A i \in 1 .. Len(g) : Append(g, s)[i] = g[i] /\ g[i] \in Nat
           /\ Append(g, s)[Len(g) + 1] = s
           /\ {Append(g, s)[i] : i \in n + 1 .. Len(g) + 1} =
              {g[i] : i \in n + 1 .. Len(g)} \cup {s}
  <1>1. /\ Append(g, s) \in Seq(Nat) /\ Len(Append(g, s)) = Len(g) + 1 /\ Len(g) \in Nat
        /\ \A i \in 1 .. Len(g) : Append(g, s)[i] = g[i]
        /\ Append(g, s)[Len(g) + 1] = s
    BY AppendProperties, LenProperties
  <1>2. \A i \in 1 .. Len(g) : g[i] \in Nat
    BY ElementOfSeq
  <1> DEFINE h == Append(g, s)
  <1>3. {h[i] : i \in n + 1 .. Len(g) + 1} = {g[i] : i \in n + 1 .. Len(g)} \cup {s}
    <2>0. Len(g) + 1 \in n + 1 .. Len(g) + 1
      BY <1>1
    <2> HIDE DEF h
    <2>1. \A i \in n + 1 .. Len(g) : i \in n + 1 .. Len(g) + 1 /\ h[i] = g[i]
      BY <1>1 DEF h
    <2>2. \A i \in n + 1 .. Len(g) + 1 : i \in n + 1 .. Len(g) \/ i = Len(g) + 1
      BY <1>1
    <2>3. h[Len(g) + 1] = s
      BY <1>1 DEF h
    <2> QED  BY <2>0, <2>1, <2>2, <2>3
  <1> QED  BY <1>1, <1>2, <1>3

\* Looking back hands over the next packet owed.
LEMMA LookBackReads ==
    ASSUME KeptTyped, NEW rd \in Reader, NEW g \in Seq(Nat), NEW n \in 0 .. Len(g),
           NEW joined \in Nat, InPlace(rd), rd.run = run, Behind(rd) # {},
           Reads(rd, g, n, joined)
    PROVE  LookBack(rd).seq \in Nat /\ Reads(LookBack(rd).to, Append(g, LookBack(rd).seq), n, joined)
  <1> DEFINE s  == Min(Behind(rd))
             to == [rd EXCEPT !.back.cursor = s + 1]
             h  == Append(g, s)
  <1>1. LookBack(rd).seq = s /\ LookBack(rd).to = to
    BY DEF LookBack, Packet
  <1>2. /\ RunBegan \in Nat /\ RunBegan <= firstSeq /\ firstSeq \in Nat /\ nextSeq \in Nat
        /\ \A u \in firstSeq .. nextSeq - 1 : At(u) = EntryAt(u)
        /\ \A u \in RunBegan .. nextSeq - 1 : At(u).track \in Tracks /\ At(u).ts \in Nat
    BY WrittenIs
  <1>3. /\ Behind(rd) \subseteq firstSeq .. nextSeq - 1
        /\ \A u \in Behind(rd) : u < rd.back.end /\ u >= rd.back.cursor
        /\ Behind(rd) \subseteq Nat
    BY BehindIs DEF InPlace
  <1>4. s \in Behind(rd) /\ \A u \in Behind(rd) : s <= u
    BY <1>3, MinIs
  <1>5. EntryAt(s).track # rd.back.track
    BY <1>4 DEF Behind
  <1> HIDE DEF s
  <1>6. s \in Nat /\ s \in firstSeq .. nextSeq - 1 /\ At(s) = EntryAt(s)
    BY <1>2, <1>3, <1>4
  <1>7. /\ rd.back.cursor \in Nat /\ rd.back.end \in Nat /\ rd.next \in Nat
        /\ rd.back.end <= rd.next
    BY DEF Reader, InPlace
  <1>8. /\ to.next = rd.next /\ to.waitingForStart = rd.waitingForStart
        /\ to.backFrom = rd.backFrom /\ to.back.cursor = s + 1
        /\ to.back.end = rd.back.end /\ to.back.from = rd.back.from
        /\ to.back.track = rd.back.track
    BY DEF Reader
  <1>9. rd.back # NoBack
    <2>1. ASSUME rd.back = NoBack PROVE FALSE
      <3>1. s < 0
        BY <1>3, <1>4, <2>1 DEF NoBack
      <3> QED  BY <1>6, <3>1
    <2> QED  BY <2>1
  <1>10. to.back # NoBack
    <2>1. to.back.cursor # 0
      BY <1>6, <1>8
    <2> QED  BY <2>1 DEF NoBack
  <1> HIDE DEF to, h
  <1>11. /\ Len(h) = Len(g) + 1 /\ Len(g) \in Nat
         /\ \A i \in 1 .. Len(g) : h[i] = g[i] /\ g[i] \in Nat
         /\ h[Len(g) + 1] = s
         /\ {h[i] : i \in n + 1 .. Len(g) + 1} = {g[i] : i \in n + 1 .. Len(g)} \cup {s}
    <2>1. /\ Len(Append(g, s)) = Len(g) + 1 /\ Len(g) \in Nat
          /\ \A i \in 1 .. Len(g) : Append(g, s)[i] = g[i] /\ g[i] \in Nat
          /\ Append(g, s)[Len(g) + 1] = s
          /\ {Append(g, s)[i] : i \in n + 1 .. Len(g) + 1} =
             {g[i] : i \in n + 1 .. Len(g)} \cup {s}
      BY <1>6, OneMore
    <2> QED  BY <2>1 DEF h
  <1>12. InOrder(rd, g)
    BY DEF Reads
  <1>13. \A i \in 1 .. Len(g) : g[i] < rd.back.cursor \/ At(g[i]).track = rd.back.track
    BY <1>9, <1>12 DEF InOrder
  <1>14. s >= rd.back.cursor /\ s < rd.next /\ s < rd.back.end
    BY <1>3, <1>4, <1>6, <1>7
  <1>15. InOrder(to, h)
    <2>1. ASSUME NEW i \in 1 .. Len(h)
          PROVE  /\ h[i] \in RunBegan .. nextSeq - 1 /\ h[i] < to.next
                 /\ h[i] < to.back.cursor \/ At(h[i]).track = to.back.track
      <3>1. CASE i \in 1 .. Len(g)
        <4>1. g[i] \in RunBegan .. nextSeq - 1 /\ g[i] < rd.next
          BY <1>12, <3>1 DEF InOrder
        <4>2. /\ h[i] = g[i] /\ g[i] \in Nat
              /\ g[i] < rd.back.cursor \/ At(g[i]).track = rd.back.track
          BY <1>11, <1>13, <3>1
        <4>3. g[i] < rd.back.cursor => g[i] < s + 1
          BY <1>6, <1>7, <1>14, <4>2
        <4> QED  BY <1>8, <4>1, <4>2, <4>3
      <3>2. CASE i = Len(g) + 1
        BY <1>2, <1>6, <1>8, <1>11, <1>14, <3>2
      <3> QED  BY <1>11, <3>1, <3>2
    <2>2. ASSUME NEW i \in 1 .. Len(h), NEW j \in 1 .. Len(h), i < j,
                 At(h[i]).track = At(h[j]).track
          PROVE  h[i] < h[j]
      <3>1. i \in 1 .. Len(g) /\ h[i] = g[i] /\ g[i] \in Nat
        BY <1>11, <2>2
      <3>2. CASE j \in 1 .. Len(g)
        BY <1>11, <1>12, <2>2, <3>1, <3>2 DEF InOrder
      <3>3. CASE j = Len(g) + 1
        <4>1. At(g[i]).track # rd.back.track
          BY <1>5, <1>6, <1>11, <2>2, <3>1, <3>3
        <4>2. g[i] < rd.back.cursor
          BY <1>13, <3>1, <4>1
        <4> QED  BY <1>6, <1>7, <1>11, <1>14, <3>1, <3>3, <4>2
      <3> QED  BY <1>11, <3>2, <3>3
    <2> QED  BY <2>1, <2>2 DEF InOrder
  <1>16. n < Len(g)
    <2>1. n # Len(g)
      BY <1>9 DEF Reads, Ready
    <2> QED  BY <1>11, <2>1
  <1>17. Under(to, h, n, joined)
    <2> DEFINE k == g[n + 1]
               has == {g[i] : i \in n + 1 .. Len(g)}
    <2>1. Under(rd, g, n, joined)
      BY <1>16 DEF Reads
    <2>2. n + 1 \in 1 .. Len(g) /\ h[n + 1] = k
      BY <1>11, <1>16
    <2>3. {h[i] : i \in n + 1 .. Len(h)} = has \cup {s}
      BY <1>11
    <2>4. /\ At(k).start /\ ~rd.waitingForStart /\ rd.backFrom = None
          /\ k .. rd.next - 1 \subseteq has
          /\ rd.back.end = k /\ rd.back.from = At(k).ts /\ rd.back.track = At(k).track
          /\ \A u \in RunBegan .. k - 1 :
                Owed(u, k, joined) => u \in has \/ (rd.back # NoBack /\ rd.back.cursor <= u)
      BY <1>9, <2>1 DEF Under
    <2>5. k \in RunBegan .. nextSeq - 1
      BY <1>12, <2>2 DEF InOrder
    <2> HIDE DEF k, has
    <2>6. ASSUME NEW u \in RunBegan .. k - 1, Owed(u, k, joined), u \notin has
          PROVE  u = s \/ to.back.cursor <= u
      <3>1. rd.back.cursor <= u /\ u \in firstSeq .. k - 1
        BY <2>4, <2>6 DEF Owed
      <3>2. u \in firstSeq .. nextSeq - 1 /\ At(u) = EntryAt(u)
        BY <1>2, <2>5, <3>1
      <3>3. Max({rd.back.cursor, firstSeq}) <= u /\ Max({rd.back.cursor, firstSeq}) \in Int
        <4>1. rd.back.cursor \in Int /\ firstSeq \in Int
          BY <1>2, <1>7
        <4>2. Max({rd.back.cursor, firstSeq}) \in {rd.back.cursor, firstSeq}
          BY <4>1, MaxOfTwo
        <4> QED  BY <3>1, <4>1, <4>2
      <3>5. u \in Max({rd.back.cursor, firstSeq}) .. rd.back.end - 1
        BY <1>7, <2>4, <3>1, <3>3
      <3>6. EntryAt(u).track # rd.back.track /\ EntryAt(u).ts >= rd.back.from
        BY <2>4, <2>6, <3>2 DEF Owed
      <3>7. u \in Behind(rd)
        BY <3>5, <3>6 DEF Behind
      <3> QED  BY <1>4, <1>6, <1>8, <3>1, <3>7
    <2>7. k .. to.next - 1 \subseteq has \cup {s}
      BY <1>8, <2>4
    <2>8. to.back.end = k /\ to.back.from = At(k).ts /\ to.back.track = At(k).track
      BY <1>8, <2>4
    <2> QED  BY <1>8, <1>10, <2>2, <2>3, <2>4, <2>6, <2>7, <2>8 DEF Under
  <1>18. n < Len(h)
    BY <1>11, <1>16
  <1> QED  BY <1>1, <1>6, <1>15, <1>17, <1>18 DEF Reads, h

\* Nothing that is owed is left to look back for where nothing is behind.
LEMMA NothingOwed ==
    ASSUME KeptTyped, NEW rd \in Reader, NEW g \in Seq(Nat), NEW n \in 0 .. Len(g),
           NEW joined \in Nat, InPlace(rd), rd.run = run, Behind(rd) = {},
           Reads(rd, g, n, joined), n < Len(g)
    PROVE  \A u \in RunBegan .. g[n + 1] - 1 :
              Owed(u, g[n + 1], joined) => u \in {g[i] : i \in n + 1 .. Len(g)}
  <1> DEFINE k == g[n + 1]
             has == {g[i] : i \in n + 1 .. Len(g)}
  <1>1. Under(rd, g, n, joined) /\ InOrder(rd, g) /\ Len(g) \in Nat
    BY LenProperties DEF Reads
  <1>2. n + 1 \in 1 .. Len(g)
    BY <1>1
  <1>3. /\ rd.back # NoBack => /\ rd.back.end = k /\ rd.back.from = At(k).ts
                               /\ rd.back.track = At(k).track
        /\ \A u \in RunBegan .. k - 1 :
              Owed(u, k, joined) => u \in has \/ (rd.back # NoBack /\ rd.back.cursor <= u)
    BY <1>1 DEF Under
  <1>4. k \in RunBegan .. nextSeq - 1
    BY <1>1, <1>2 DEF InOrder
  <1>5. /\ firstSeq \in Nat /\ nextSeq \in Nat /\ RunBegan \in Nat
        /\ \A u \in firstSeq .. nextSeq - 1 : At(u) = EntryAt(u)
    BY WrittenIs
  <1> HIDE DEF k, has
  <1>6. ASSUME NEW u \in RunBegan .. k - 1, Owed(u, k, joined), rd.back # NoBack,
               rd.back.cursor <= u
        PROVE  FALSE
    <2>1. u \in firstSeq .. k - 1 /\ u \in firstSeq .. nextSeq - 1 /\ At(u) = EntryAt(u)
      BY <1>4, <1>5, <1>6 DEF Owed
    <2>2. rd.back.cursor \in Int /\ firstSeq \in Int
      BY <1>5 DEF Reader
    <2>3. Max({rd.back.cursor, firstSeq}) \in {rd.back.cursor, firstSeq}
      BY <2>2, MaxOfTwo
    <2>4. u \in Max({rd.back.cursor, firstSeq}) .. rd.back.end - 1
      BY <1>3, <1>4, <1>5, <1>6, <2>1, <2>2, <2>3
    <2>5. EntryAt(u).track # rd.back.track /\ EntryAt(u).ts >= rd.back.from
      BY <1>3, <1>6, <2>1 DEF Owed
    <2> QED  BY <2>4, <2>5 DEF Behind
  <1>7. \A u \in RunBegan .. k - 1 : Owed(u, k, joined) => u \in has
    BY <1>3, <1>6
  <1> QED  BY <1>7 DEF k, has

\* Reading on hands over a start first, and what comes next after it.
LEMMA ReadOnReads ==
    ASSUME KeptTyped, NEW rd \in Reader, NEW g \in Seq(Nat), NEW n \in 0 .. Len(g),
           NEW joined \in Nat, InPlace(rd), rd.run = run, ~(rd.next < firstSeq),
           Behind(rd) = {}, Ahead(rd) # {}, Reads(rd, g, n, joined)
    PROVE  ReadOn(rd).seq \in Nat /\ Reads(ReadOn(rd).to, Append(g, ReadOn(rd).seq), n, joined)
  <1> DEFINE s  == Min(Ahead(rd))
             e  == EntryAt(s)
             on == [rd EXCEPT !.next = s + 1, !.waitingForStart = FALSE, !.back = NoBack]
             back == [cursor |-> rd.backFrom, end |-> s, from |-> e.ts, track |-> e.track]
             to == IF e.start /\ rd.backFrom # None
                   THEN [on EXCEPT !.backFrom = None, !.back = back] ELSE on
             h  == Append(g, s)
  <1>1. ReadOn(rd).seq = s /\ ReadOn(rd).to = to
    BY DEF ReadOn, Packet
  <1>2. /\ RunBegan \in Nat /\ RunBegan <= firstSeq /\ firstSeq \in Nat /\ nextSeq \in Nat
        /\ \A u \in firstSeq .. nextSeq - 1 : At(u) = EntryAt(u)
        /\ \A u \in RunBegan .. nextSeq - 1 : /\ At(u).track \in Tracks /\ At(u).ts \in Nat
                                              /\ At(u).start \in BOOLEAN
    BY WrittenIs
  <1>3. Ahead(rd) \subseteq firstSeq .. nextSeq - 1 /\ Ahead(rd) \subseteq Nat
    BY AheadIs
  <1>4. s \in Ahead(rd) /\ \A u \in Ahead(rd) : s <= u
    BY <1>3, MinIs
  <1>5. s \in rd.next .. nextSeq - 1 /\ (rd.waitingForStart => EntryAt(s).start)
    BY <1>4 DEF Ahead
  <1>6. ~rd.waitingForStart => s = rd.next
    <2>1. SUFFICES ASSUME ~rd.waitingForStart PROVE s = rd.next
      OBVIOUS
    <2>2. rd.next \in Nat /\ s \in Nat /\ nextSeq \in Nat
      BY <1>2, <1>3, <1>4 DEF Reader
    <2>3. rd.next \in Ahead(rd)
      BY <1>5, <2>1, <2>2 DEF Ahead
    <2> QED  BY <1>4, <1>5, <2>2, <2>3
  <1> HIDE DEF s
  <1>7. /\ s \in Nat /\ s \in firstSeq .. nextSeq - 1 /\ At(s) = EntryAt(s) /\ rd.next \in Nat
        /\ rd.next <= s /\ s \in RunBegan .. nextSeq - 1 /\ e = At(s)
    BY <1>2, <1>3, <1>4, <1>5 DEF Reader
  <1> HIDE DEF e
  <1>8. /\ to.next = s + 1 /\ ~to.waitingForStart
        /\ IF e.start /\ rd.backFrom # None
           THEN /\ to.backFrom = None /\ to.back.cursor = rd.backFrom /\ to.back.end = s
                /\ to.back.from = e.ts /\ to.back.track = e.track
           ELSE to.backFrom = rd.backFrom /\ to.back = NoBack
    BY DEF Reader
  <1> HIDE DEF to, h
  <1>9. /\ Len(h) = Len(g) + 1 /\ Len(g) \in Nat
        /\ \A i \in 1 .. Len(g) : h[i] = g[i] /\ g[i] \in Nat
        /\ h[Len(g) + 1] = s
        /\ {h[i] : i \in n + 1 .. Len(g) + 1} = {g[i] : i \in n + 1 .. Len(g)} \cup {s}
    <2>1. /\ Len(Append(g, s)) = Len(g) + 1 /\ Len(g) \in Nat
          /\ \A i \in 1 .. Len(g) : Append(g, s)[i] = g[i] /\ g[i] \in Nat
          /\ Append(g, s)[Len(g) + 1] = s
          /\ {Append(g, s)[i] : i \in n + 1 .. Len(g) + 1} =
             {g[i] : i \in n + 1 .. Len(g)} \cup {s}
      BY <1>7, OneMore
    <2> QED  BY <2>1 DEF h
  <1>10. InOrder(rd, g) /\ (n = Len(g) \/ n < Len(g))
    BY <1>9 DEF Reads
  <1>11. \A i \in 1 .. Len(g) : g[i] \in RunBegan .. nextSeq - 1 /\ g[i] < rd.next
    BY <1>10 DEF InOrder
  <1>12. ASSUME NEW i \in 1 .. Len(g) PROVE g[i] < s /\ h[i] < s /\ g[i] < s + 1 /\ g[i] \in Nat
    BY <1>7, <1>9, <1>11
  <1>13. n < Len(g) => rd.backFrom = None /\ ~rd.waitingForStart
    BY DEF Reads, Under
  <1>14. n = Len(g) => rd.backFrom # None /\ rd.backFrom \in Nat /\ At(s).start
    <2>1. SUFFICES ASSUME n = Len(g) PROVE rd.backFrom # None /\ rd.backFrom \in Nat /\ At(s).start
      OBVIOUS
    <2>2. Ready(rd, g, joined)
      BY <2>1 DEF Reads
    <2> QED  BY <1>5, <1>6, <1>7, <2>2 DEF Ready, Reader
  <1>15. InOrder(to, h)
    <2>1. ASSUME NEW i \in 1 .. Len(h)
          PROVE  h[i] \in RunBegan .. nextSeq - 1 /\ h[i] < to.next
      <3>1. CASE i \in 1 .. Len(g)
        BY <1>8, <1>9, <1>11, <1>12, <3>1
      <3>2. CASE i = Len(g) + 1
        BY <1>7, <1>8, <1>9, <3>2
      <3> QED  BY <1>9, <3>1, <3>2
    <2>2. ASSUME NEW i \in 1 .. Len(h), NEW j \in 1 .. Len(h), i < j,
                 At(h[i]).track = At(h[j]).track
          PROVE  h[i] < h[j]
      <3>1. i \in 1 .. Len(g) /\ h[i] = g[i] /\ g[i] \in Nat
        BY <1>9, <2>2
      <3>2. CASE j \in 1 .. Len(g)
        BY <1>9, <1>10, <2>2, <3>1, <3>2 DEF InOrder
      <3>3. CASE j = Len(g) + 1
        BY <1>9, <1>12, <3>1, <3>3
      <3> QED  BY <1>9, <3>2, <3>3
    <2>3. ASSUME to.back # NoBack, NEW i \in 1 .. Len(h)
          PROVE  h[i] < to.back.cursor \/ At(h[i]).track = to.back.track
      <3>1. to.back.cursor = rd.backFrom /\ to.back.track = e.track /\ n = Len(g)
        BY <1>8, <1>10, <1>13, <2>3
      <3>2. \A m \in 1 .. Len(g) : g[m] < rd.backFrom
        BY <3>1 DEF Reads, Ready
      <3>3. CASE i \in 1 .. Len(g)
        BY <1>9, <3>1, <3>2, <3>3
      <3>4. CASE i = Len(g) + 1
        BY <1>7, <1>9, <3>1, <3>4
      <3> QED  BY <1>9, <3>3, <3>4
    <2> QED  BY <2>1, <2>2, <2>3 DEF InOrder
  <1>16. Under(to, h, n, joined)
    <2> DEFINE has == {h[i] : i \in n + 1 .. Len(h)}
    <2>1. CASE n = Len(g)
      <3>1. h[n + 1] = s /\ has = {s}
        <4>1. {g[i] : i \in n + 1 .. Len(g)} = {}
          BY <1>9, <2>1
        <4> QED  BY <1>9, <2>1, <4>1
      <3> HIDE DEF has
      <3>2. /\ to.backFrom = None /\ to.back.cursor = rd.backFrom /\ to.back.end = s
            /\ to.back.from = At(s).ts /\ to.back.track = At(s).track
        BY <1>7, <1>8, <1>14, <2>1
      <3>3. to.back # NoBack
        <4>1. ASSUME to.back = NoBack PROVE FALSE
          <5>1. At(s).track = None /\ At(s).track \in Tracks
            BY <1>2, <1>7, <3>2, <4>1 DEF NoBack
          <5>2. None \notin Tracks
            BY TracksAssumption DEF None
          <5> QED  BY <5>1, <5>2
        <4> QED  BY <4>1
      <3>4. s .. to.next - 1 \subseteq has
        BY <1>7, <1>8, <3>1
      <3>5. ASSUME NEW u \in RunBegan .. s - 1, Owed(u, s, joined)
            PROVE  to.back.cursor <= u
        <4>1. Ready(rd, g, joined) /\ rd.backFrom \in Nat
          BY <1>14, <2>1 DEF Reads
        <4>2. CASE rd.backFrom <= joined
          BY <1>2, <3>2, <3>5, <4>1, <4>2 DEF Owed
        <4>3. CASE /\ ~rd.waitingForStart /\ rd.backFrom \in RunBegan .. rd.next - 1
                   /\ At(rd.backFrom).start
          <5>1. rd.backFrom \notin u + 1 .. s - 1
            BY <3>5, <4>3 DEF Owed
          <5> QED  BY <1>2, <1>6, <1>7, <3>2, <4>1, <4>3, <5>1
        <4> QED  BY <4>1, <4>2, <4>3 DEF Ready
      <3> QED  BY <1>8, <1>14, <2>1, <3>1, <3>2, <3>3, <3>4, <3>5 DEF Under, has
    <2>2. CASE n < Len(g)
      <3> DEFINE k == g[n + 1]
                 had == {g[i] : i \in n + 1 .. Len(g)}
      <3>1. h[n + 1] = k /\ has = had \cup {s} /\ n + 1 \in 1 .. Len(g)
        <4>1. n + 1 \in 1 .. Len(g)
          BY <1>9, <2>2
        <4>2. has = had \cup {s}
          BY <1>9
        <4> QED  BY <1>9, <4>1, <4>2
      <3>2. At(k).start /\ k .. rd.next - 1 \subseteq had
        BY <2>2 DEF Reads, Under
      <3>3. \A u \in RunBegan .. k - 1 : Owed(u, k, joined) => u \in had
        BY <2>2, NothingOwed
      <3>4. k \in Nat
        BY <1>9, <3>1
      <3> HIDE DEF has, k, had
      <3>5. to.backFrom = None /\ to.back = NoBack /\ s = rd.next
        BY <1>6, <1>8, <1>13, <2>2
      <3>6. k .. to.next - 1 \subseteq has
        BY <1>7, <1>8, <3>1, <3>2, <3>4, <3>5
      <3>7. \A u \in RunBegan .. k - 1 : Owed(u, k, joined) => u \in has
        BY <3>1, <3>3
      <3> QED  BY <1>8, <3>1, <3>2, <3>5, <3>6, <3>7 DEF Under, has
    <2> QED  BY <1>10, <2>1, <2>2
  <1>17. n < Len(h)
    BY <1>9
  <1> QED  BY <1>1, <1>7, <1>15, <1>16, <1>17 DEF Reads, h

\* A reader at the end of the run has had what it is owed.
LEMMA EndReads ==
    ASSUME KeptTyped, NEW rd \in Reader, NEW g \in Seq(Nat), NEW n \in 0 .. Len(g),
           NEW joined \in Nat, InPlace(rd), rd.run = run, ~(rd.next < firstSeq),
           Behind(rd) = {}, Ahead(rd) = {}, Reads(rd, g, n, joined),
           NEW to \in Reader, to.next = nextSeq, to.back = NoBack,
           to.waitingForStart = rd.waitingForStart, to.backFrom = rd.backFrom
    PROVE  Reads(to, g, n, joined)
  <1>1. /\ RunBegan \in Nat /\ RunBegan <= firstSeq /\ firstSeq \in Nat /\ nextSeq \in Nat
        /\ rd.next \in Nat /\ rd.next <= nextSeq /\ Len(g) \in Nat
    BY WrittenIs, LenProperties DEF Reader, InPlace
  <1>2. ~rd.waitingForStart => rd.next = nextSeq
    BY <1>1 DEF Ahead
  <1>3. InOrder(rd, g)
    BY DEF Reads
  <1>4. InOrder(to, g)
    <2>1. \A i \in 1 .. Len(g) : g[i] \in RunBegan .. nextSeq - 1 /\ g[i] < rd.next
      BY <1>3 DEF InOrder
    <2>2. \A i \in 1 .. Len(g) : g[i] < nextSeq
      BY <1>1, <2>1
    <2> QED  BY <1>3, <2>1, <2>2 DEF InOrder
  <1>5. n = Len(g) => Ready(to, g, joined)
    <2>1. SUFFICES ASSUME n = Len(g) PROVE Ready(to, g, joined)
      OBVIOUS
    <2>2. Ready(rd, g, joined)
      BY <2>1 DEF Reads
    <2>3. rd.waitingForStart
      BY <1>1, <1>2, <2>2 DEF Ready
    <2> QED  BY <2>2, <2>3 DEF Ready
  <1>6. n < Len(g) => Under(to, g, n, joined)
    <2>1. SUFFICES ASSUME n < Len(g) PROVE Under(to, g, n, joined)
      OBVIOUS
    <2>2. \A u \in RunBegan .. g[n + 1] - 1 :
              Owed(u, g[n + 1], joined) => u \in {g[i] : i \in n + 1 .. Len(g)}
      BY <2>1, NothingOwed
    <2>3. Under(rd, g, n, joined)
      BY <2>1 DEF Reads
    <2> QED  BY <1>2, <2>2, <2>3 DEF Under
  <1> QED  BY <1>4, <1>5, <1>6 DEF Reads

\* What a turn of a reader makes of what it was handed.
LEMMA TurnReads ==
    ASSUME KeptTyped, RunTyped, StartsHeld, NEW rd \in Reader, NEW g \in Seq(Nat),
           NEW n \in 0 .. Len(g), NEW joined \in Nat, InPlace(rd),
           rd.run = run /\ run # 0 => Reads(rd, g, n, joined)
    PROVE  LET next == NextIn(rd)
               now  == IF next.to.waitingForStart THEN nextSeq ELSE firstSeq
           IN /\ next.item = "Packet" => next.seq \in Nat
              /\ next.to.run = run /\ run # 0 =>
                    Reads(next.to,
                          CASE next.item = "Started" -> <<>>
                            [] next.item = "Packet"  -> Append(g, next.seq)
                            [] OTHER                 -> g,
                          CASE next.item = "Started" -> 0
                            [] next.item = "Skipped" -> Len(g)
                            [] OTHER                 -> n,
                          IF next.item \notin {"Started", "Skipped"} THEN joined ELSE now)
  <1> DEFINE next == NextIn(rd)
             now  == IF next.to.waitingForStart THEN nextSeq ELSE firstSeq
             got1 == CASE next.item = "Started" -> <<>>
                       [] next.item = "Packet"  -> Append(g, next.seq)
                       [] OTHER                 -> g
             n1   == CASE next.item = "Started" -> 0
                       [] next.item = "Skipped" -> Len(g)
                       [] OTHER                 -> n
             j1   == IF next.item \notin {"Started", "Skipped"} THEN joined ELSE now
             Goal == /\ next.item = "Packet" => next.seq \in Nat
                     /\ next.to.run = run /\ run # 0 => Reads(next.to, got1, n1, j1)
  <1>t. /\ firstSeq \in Nat /\ nextSeq \in Nat /\ run \in Nat /\ RunBegan \in Nat
        /\ live \in BOOLEAN /\ closed \in BOOLEAN /\ rd.next \in Nat
    BY WrittenIs DEF RunTyped, Reader
  <1>1. CASE run # rd.run /\ rd.run # 0 /\ ~rd.ended
         /\ NextIn(rd) = Handed("Ended", [rd EXCEPT !.ended = TRUE])
    <2>1. next.item = "Ended" /\ next.to = [rd EXCEPT !.ended = TRUE]
      BY <1>1 DEF Handed
    <2>2. next.to.run = rd.run
      BY <2>1, Marked
    <2> QED  BY <1>1, <2>1, <2>2
  <1>2. CASE run # rd.run /\ (rd.run = 0 \/ rd.ended)
         /\ NextIn(rd) = Handed("Started", Joined([rd EXCEPT !.run = run, !.ended = FALSE]))
    <2> DEFINE of == [rd EXCEPT !.run = run, !.ended = FALSE]
    <2>1. of \in Reader
      BY <1>t DEF Reader
    <2> HIDE DEF of
    <2>2. next.item = "Started" /\ next.to = Joined(of)
      BY <1>2 DEF Handed, of
    <2>3. <<>> \in Seq(Nat) /\ Len(<<>>) = 0 /\ 1 .. Len(<<>>) = {}
      BY EmptySeq
    <2>4. Reads(Joined(of), <<>>, Len(<<>>),
                IF Joined(of).waitingForStart THEN nextSeq ELSE firstSeq)
      BY <2>1, <2>3, JoinedReads
    <2>5. Reads(next.to, <<>>, 0, now)
      BY <2>2, <2>3, <2>4
    <2> HIDE DEF next, now
    <2>6. Goal
      BY <2>2, <2>5
    <2> QED  BY <2>6 DEF next, now
  <1>3. CASE run = rd.run /\ run = 0 /\ NextIn(rd) = ClosedIn(rd)
    <2>1. next.item # "Packet"
      BY <1>t, <1>3, ClosedInIs DEF Nothing, Handed
    <2> QED  BY <1>3, <2>1
  <1>4. CASE run = rd.run /\ run # 0 /\ rd.next < firstSeq
         /\ NextIn(rd) = Handed("Skipped", Joined(rd))
    <2>1. next.item = "Skipped" /\ next.to = Joined(rd)
      BY <1>4 DEF Handed
    <2>2. InOrder(rd, g)
      BY <1>4 DEF Reads
    <2>3. \A i \in 1 .. Len(g) : g[i] \in RunBegan .. nextSeq - 1 /\ g[i] < firstSeq
      <3>1. \A i \in 1 .. Len(g) : g[i] \in RunBegan .. nextSeq - 1 /\ g[i] < rd.next
        BY <2>2 DEF InOrder
      <3> QED  BY <1>4, <1>t, <3>1
    <2>4. \A i, j \in 1 .. Len(g) : i < j /\ At(g[i]).track = At(g[j]).track => g[i] < g[j]
      BY <2>2 DEF InOrder
    <2>5. Reads(next.to, g, Len(g), now)
      BY <2>1, <2>3, <2>4, JoinedReads
    <2> HIDE DEF next, now
    <2>6. Goal
      BY <2>1, <2>5
    <2> QED  BY <2>6 DEF next, now
  <1>5. CASE run = rd.run /\ run # 0 /\ ~(rd.next < firstSeq) /\ Behind(rd) # {}
         /\ NextIn(rd) = LookBack(rd)
    <2>1. next.item = "Packet"
      BY <1>5 DEF LookBack, Packet
    <2>2. next.seq \in Nat /\ Reads(next.to, Append(g, next.seq), n, joined)
      BY <1>5, LookBackReads
    <2> HIDE DEF next
    <2>3. Goal
      BY <2>1, <2>2
    <2> QED  BY <2>3 DEF next
  <1>6. CASE run = rd.run /\ run # 0 /\ ~(rd.next < firstSeq) /\ Behind(rd) = {}
         /\ Ahead(rd) # {} /\ NextIn(rd) = ReadOn(rd)
    <2>1. next.item = "Packet"
      BY <1>6 DEF ReadOn, Packet
    <2>2. next.seq \in Nat /\ Reads(next.to, Append(g, next.seq), n, joined)
      BY <1>6, ReadOnReads
    <2> HIDE DEF next
    <2>3. Goal
      BY <2>1, <2>2
    <2> QED  BY <2>3 DEF next
  <1>7. CASE run = rd.run /\ run # 0 /\ ~(rd.next < firstSeq) /\ Behind(rd) = {}
         /\ Ahead(rd) = {} /\ NextIn(rd) = AtTheEnd(rd)
    <2> DEFINE on == [rd EXCEPT !.next = Max({rd.next, nextSeq}), !.back = NoBack]
    <2>a. rd.next <= nextSeq
      BY <1>7 DEF InPlace
    <2>1. Max({rd.next, nextSeq}) = nextSeq
      <3>1. Max({rd.next, nextSeq}) = IF rd.next >= nextSeq THEN rd.next ELSE nextSeq
        BY <1>t, MaxOfTwo
      <3> QED  BY <1>t, <2>a, <3>1
    <2>0. on = [rd EXCEPT !.next = nextSeq, !.back = NoBack]
      BY <2>1
    <2>2. /\ on \in Reader /\ on.next = nextSeq /\ on.back = NoBack
          /\ on.waitingForStart = rd.waitingForStart /\ on.backFrom = rd.backFrom
      <3> HIDE DEF on
      <3> QED  BY <2>0, <1>t DEF Reader, NoBack
    <2>3. NextIn(rd) = IF ~live /\ ~rd.ended THEN Handed("Ended", [on EXCEPT !.ended = TRUE])
                                             ELSE ClosedIn(on)
      BY <1>7 DEF AtTheEnd
    <2> HIDE DEF on
    <2>4. ASSUME NEW x \in Reader,
                 x \in {on, [on EXCEPT !.ended = TRUE], [on EXCEPT !.closed = TRUE]}
          PROVE  Reads(x, g, n, joined)
      <3>1. /\ x.next = nextSeq /\ x.back = NoBack
            /\ x.waitingForStart = rd.waitingForStart /\ x.backFrom = rd.backFrom
        BY <2>2, <2>4 DEF Reader
      <3>2. Reads(rd, g, n, joined)
        BY <1>7
      <3> QED  BY <1>7, <3>1, <3>2, EndReads
    <2>5. /\ next.item \in {"Ended", "Closed", "nothing"} /\ next.to \in Reader
          /\ next.to \in {on, [on EXCEPT !.ended = TRUE], [on EXCEPT !.closed = TRUE]}
      <3> DEFINE over == [on EXCEPT !.ended = TRUE]
                 shut == [on EXCEPT !.closed = TRUE]
      <3>1. over \in Reader /\ shut \in Reader
        BY <2>2, Marked
      <3> HIDE DEF over, shut
      <3>2. CASE ~live /\ ~rd.ended
        <4>1. next.item = "Ended" /\ next.to = over
          BY <2>3, <3>2 DEF Handed, over
        <4>2. next.to \in {on, over, shut}
          BY <4>1
        <4> QED  BY <3>1, <4>1, <4>2 DEF over, shut
      <3>3. CASE ~(~live /\ ~rd.ended) /\ ClosedIn(on) = Nothing(on)
        <4>1. next.item = "nothing" /\ next.to = on
          BY <2>3, <3>3 DEF Nothing
        <4> QED  BY <2>2, <4>1
      <3>4. CASE ~(~live /\ ~rd.ended) /\ ClosedIn(on) = Handed("Closed", shut)
        <4>1. next.item = "Closed" /\ next.to = shut
          BY <2>3, <3>4 DEF Handed
        <4>2. next.to \in {on, over, shut}
          BY <4>1
        <4> QED  BY <3>1, <4>1, <4>2 DEF over, shut
      <3>5. ClosedIn(on) \in {Nothing(on), Handed("Closed", shut)}
        BY <1>t, <2>2, ClosedInIs DEF shut
      <3>6. \/ ~live /\ ~rd.ended
            \/ ~(~live /\ ~rd.ended) /\ ClosedIn(on) = Nothing(on)
            \/ ~(~live /\ ~rd.ended) /\ ClosedIn(on) = Handed("Closed", shut)
        BY <3>5
      <3> HIDE DEF next
      <3> QED  BY <3>2, <3>3, <3>4, <3>6
    <2>6. Reads(next.to, g, n, joined)
      BY <2>4, <2>5
    <2> HIDE DEF next
    <2>7. Goal
      BY <2>5, <2>6
    <2> QED  BY <2>7 DEF next
  <1>8. Goal
    BY <1>1, <1>2, <1>3, <1>4, <1>5, <1>6, <1>7, NextInIs
  <1> QED  BY <1>8

\* Writing leaves a reader what it was handed and no more than it was owed.
LEMMA WroteReads ==
    ASSUME KeptTyped, NEW p, NEW t, NEW ts, NEW all, NEW m, Wrote(p, t, ts, all, m), KeptTyped',
           NEW rd \in Reader, NEW g \in Seq(Nat), NEW n \in 0 .. Len(g), NEW joined \in Nat,
           rd.next <= nextSeq, Reads(rd, g, n, joined)
    PROVE  Reads(rd, g, n, joined)'
  <1>1. /\ RunBegan \in Nat /\ RunBegan <= firstSeq /\ firstSeq \in Nat /\ nextSeq \in Nat
        /\ nextSeq' = nextSeq + 1 /\ firstSeq' \in Nat /\ firstSeq <= firstSeq'
        /\ rd.next \in Nat /\ Len(g) \in Nat
    <2>1. m \in Nat /\ firstSeq' = firstSeq + m /\ nextSeq' = nextSeq + 1
      BY LenProperties DEF Wrote
    <2>2. RunBegan \in Nat /\ RunBegan <= firstSeq /\ firstSeq \in Nat /\ nextSeq \in Nat
      BY WrittenIs
    <2>3. rd.next \in Nat /\ Len(g) \in Nat
      BY LenProperties DEF Reader
    <2> QED  BY <2>1, <2>2, <2>3
  <1>2. /\ RunBegan' = RunBegan
        /\ \A s \in RunBegan .. nextSeq - 1 :
              At(s)'.track = At(s).track /\ At(s)'.ts = At(s).ts /\ At(s)'.start = At(s).start
    BY WroteWritten
  <1>3. InOrder(rd, g)
    BY DEF Reads
  <1>4. \A i \in 1 .. Len(g) : g[i] \in RunBegan .. nextSeq - 1 /\ g[i] < rd.next
    BY <1>3 DEF InOrder
  <1>5. InOrder(rd, g)'
    <2>1. \A i \in 1 .. Len(g) : At(g[i])'.track = At(g[i]).track
      BY <1>2, <1>4
    <2>2. \A i \in 1 .. Len(g) : g[i] \in RunBegan .. nextSeq' - 1
      BY <1>1, <1>4
    <2> QED  BY <1>2, <1>3, <1>4, <2>1, <2>2 DEF InOrder, NoBack
  <1>6. n = Len(g) => Ready(rd, g, joined)'
    <2>1. SUFFICES ASSUME n = Len(g) PROVE Ready(rd, g, joined)'
      OBVIOUS
    <2>2. Ready(rd, g, joined)
      BY <2>1 DEF Reads
    <2>3. ~rd.waitingForStart => rd.next \in RunBegan .. nextSeq' - 1 /\ At(rd.next)'.start
      BY <1>1, <1>2, <2>2 DEF Ready
    <2>4. rd.backFrom \in RunBegan .. rd.next - 1 /\ At(rd.backFrom).start => At(rd.backFrom)'.start
      BY <1>1, <1>2
    <2> QED  BY <1>2, <2>2, <2>3, <2>4 DEF Ready, NoBack, None
  <1>7. n < Len(g) => Under(rd, g, n, joined)'
    <2>1. SUFFICES ASSUME n < Len(g) PROVE Under(rd, g, n, joined)'
      OBVIOUS
    <2> DEFINE k == g[n + 1]
               has == {g[i] : i \in n + 1 .. Len(g)}
    <2>2. Under(rd, g, n, joined)
      BY <2>1 DEF Reads
    <2>3. n + 1 \in 1 .. Len(g)
      BY <1>1, <2>1
    <2>4. k \in RunBegan .. nextSeq - 1
      BY <1>4, <2>3
    <2>5. At(k)'.track = At(k).track /\ At(k)'.ts = At(k).ts /\ At(k)'.start = At(k).start
      BY <1>2, <2>4
    <2> HIDE DEF k
    <2>6. ASSUME NEW s \in RunBegan .. k - 1, Owed(s, k, joined)'
          PROVE  Owed(s, k, joined)
      <3>1. s \in firstSeq .. k - 1 /\ s >= joined
        BY <1>1, <2>4, <2>6 DEF Owed
      <3>0. k \in Int /\ k < nextSeq /\ s \in Int /\ RunBegan <= s /\ s < k
        BY <1>1, <2>4, <3>1
      <3>2. s \in RunBegan .. nextSeq - 1 /\ \A u \in s + 1 .. k - 1 : u \in RunBegan .. nextSeq - 1
        BY <1>1, <3>0
      <3>3. At(s).track # At(k).track /\ At(s).ts >= At(k).ts
        BY <1>2, <2>5, <2>6, <3>2 DEF Owed
      <3>4. \A u \in s + 1 .. k - 1 : ~At(u).start
        BY <1>2, <2>6, <3>2 DEF Owed
      <3> QED  BY <3>1, <3>3, <3>4 DEF Owed
    <2> HIDE DEF has
    <2>7. /\ At(k).start /\ ~rd.waitingForStart /\ rd.backFrom = None
          /\ k .. rd.next - 1 \subseteq has
          /\ rd.back # NoBack => /\ rd.back.end = k /\ rd.back.from = At(k).ts
                                 /\ rd.back.track = At(k).track
          /\ \A s \in RunBegan .. k - 1 :
                Owed(s, k, joined) => s \in has \/ (rd.back # NoBack /\ rd.back.cursor <= s)
      BY <2>2 DEF Under, k, has
    <2>8. /\ At(k)'.start /\ ~rd.waitingForStart /\ rd.backFrom = None
          /\ k .. rd.next - 1 \subseteq has
          /\ rd.back # NoBack => /\ rd.back.end = k /\ rd.back.from = At(k)'.ts
                                 /\ rd.back.track = At(k)'.track
          /\ \A s \in RunBegan' .. k - 1 :
                Owed(s, k, joined)' => s \in has \/ (rd.back # NoBack /\ rd.back.cursor <= s)
      BY <1>2, <2>5, <2>6, <2>7
    <2> QED  BY <2>8 DEF Under, k, has, NoBack, None
  <1> QED  BY <1>5, <1>6, <1>7 DEF Reads

\* What holds next of what a reader is left with holds next of the reader.
LEMMA LeftWith ==
    ASSUME NEW r, NEW rd, NEW g, NEW n, NEW joined, Reads(rd, g, n, joined)',
           reader'[r] = rd, got'[r] = g, since'[r] = n, joinedAt'[r] = joined
    PROVE  Reads(reader[r], got[r], since[r], joinedAt[r])'
  <1>1. InOrder(rd, g)' => InOrder(reader[r], got[r])'
    BY DEF InOrder, NoBack
  <1>2. Ready(rd, g, joined)' => Ready(reader[r], got[r], joinedAt[r])'
    BY DEF Ready, NoBack, None
  <1>3. Under(rd, g, n, joined)' => Under(reader[r], got[r], since[r], joinedAt[r])'
    BY DEF Under, Owed, NoBack, None
  <1> QED  BY <1>1, <1>2, <1>3 DEF Reads

\* So does what leaves what is kept alone.
LEMMA SameReads ==
    ASSUME UNCHANGED kept, NEW r, NEW rd, NEW g, NEW n, NEW joined, Reads(rd, g, n, joined),
           reader'[r] = rd, got'[r] = g, since'[r] = n, joinedAt'[r] = joined
    PROVE  Reads(reader[r], got[r], since[r], joinedAt[r])'
  <1>1. Reads(rd, g, n, joined)'
    <2>1. InOrder(rd, g)' <=> InOrder(rd, g)
      BY DEF kept, InOrder, At, Written, RunBegan, NoBack
    <2>2. Ready(rd, g, joined)' <=> Ready(rd, g, joined)
      BY DEF kept, Ready, At, Written, RunBegan, NoBack, None
    <2>3. Under(rd, g, n, joined)' <=> Under(rd, g, n, joined)
      BY DEF kept, Under, Owed, At, Written, RunBegan, NoBack, None
    <2> QED  BY <2>1, <2>2, <2>3 DEF Reads
  <1> QED  BY <1>1, LeftWith

\* Nobody has read of a run that begins, and writing to one leaves it read.
LEMMA ReadingFromWithin ==
    ASSUME Held, Reading, FromWithin
    PROVE  Reading'
  <1>1. KeptTyped /\ RunTyped /\ SinksTyped /\ ReadersTyped
    BY DEF Held, TypeOK
  <1>2. /\ UNCHANGED task
        /\ Writes \/ (BeginRun /\ WakeAll) \/ Untouched
    BY <1>1, FromWithinIs
  <1>3. UNCHANGED <<reader, got, since, joinedAt>>
    BY <1>2 DEF task
  <1>4. HistoryTyped'
    BY <1>3 DEF Reading, HistoryTyped
  <1>5. ASSUME NEW r \in Readers
        PROVE  /\ reader[r] \in Reader /\ InPlace(reader[r]) /\ got[r] \in Seq(Nat)
               /\ since[r] \in 0 .. Len(got[r]) /\ joinedAt[r] \in Nat
    <2>1. Len(got[r]) \in Nat
      BY LenProperties DEF Reading, HistoryTyped
    <2> QED  BY <1>1, <2>1 DEF Held, ReadersTyped, Reading, HistoryTyped
  <1>6. ASSUME NEW r \in Readers, reader'[r].run = run', run' # 0
        PROVE  Reads(reader[r], got[r], since[r], joinedAt[r])'
    <2> DEFINE rd == reader[r]
               g  == got[r]
               n  == since[r]
               joined == joinedAt[r]
    <2>1. PICK d, h, m, j : d = rd /\ h = g /\ m = n /\ j = joined
      OBVIOUS
    <2>2. /\ d \in Reader /\ InPlace(d) /\ h \in Seq(Nat) /\ m \in 0 .. Len(h) /\ j \in Nat
          /\ d.run = run' /\ run' # 0
          /\ reader'[r] = d /\ got'[r] = h /\ since'[r] = m /\ joinedAt'[r] = j
      BY <1>3, <1>5, <1>6, <2>1
    <2>3. d.run = run /\ run # 0 => Reads(d, h, m, j)
      BY <2>1 DEF Reading
    <2> HIDE DEF rd, g, n, joined
    <2>4. CASE Writes
      <3>0. PICK p \in Publications, t \in Tracks, ts \in Times :
               \E all, k : UNCHANGED run_ /\ Wrote(p, t, ts, all, k)
        BY <2>4 DEF Writes
      <3>1. PICK all, k : UNCHANGED run_ /\ Wrote(p, t, ts, all, k)
        BY <3>0
      <3>2. KeptTyped' /\ run' = run
        BY HeldFromWithin, <3>1 DEF Held, TypeOK, run_
      <3>3. Reads(d, h, m, j) /\ d.next <= nextSeq
        BY <2>2, <2>3, <3>2 DEF InPlace
      <3>4. Reads(d, h, m, j)'
        BY <1>1, <2>2, <3>1, <3>2, <3>3, WroteReads
      <3> QED  BY <2>2, <3>4, LeftWith
    <2>5. CASE BeginRun
      <3>1. run' = run + 1 /\ run \in Nat /\ d.run \in Nat
        BY <1>1, <2>2, <2>5 DEF BeginRun, RunTyped, Reader
      <3>2. d.run <= run
        BY <2>2 DEF InPlace
      <3> QED  BY <2>2, <3>1, <3>2
    <2>6. CASE Untouched
      <3>1. UNCHANGED kept /\ run' = run
        BY <2>6 DEF Untouched
      <3> QED  BY <2>2, <2>3, <3>1, SameReads
    <2> QED  BY <1>2, <2>4, <2>5, <2>6
  <1> QED  BY <1>4, <1>6 DEF Reading

\* What a reader's step leaves of it and of what it was handed.
TurnedWith(r) ==
    LET next == NextIn(reader[r])
    IN \/ /\ \E within \in Withins \cup {None} :
                reader' = [reader EXCEPT ![r] = NewReader(within)]
          /\ got' = [got EXCEPT ![r] = <<>>] /\ since' = [since EXCEPT ![r] = 0]
          /\ joinedAt' = [joinedAt EXCEPT ![r] = 0]
       \/ Take(r, next)
       \/ UpToDate(r, next)
       \/ UNCHANGED <<reader, got, since, joinedAt>>

\* Whatever a reader does leaves it with one of these.
LEMMA ReadersTurnWith ==
    ASSUME TheReaders
    PROVE  UNCHANGED <<run, kept>> /\ \E r \in Readers : TurnedWith(r)
  <1>1. ASSUME NEW r \in Readers, NEW within \in Withins, NEW way \in Ways,
               Subscribe(r, within, way)
        PROVE  UNCHANGED <<run, kept>> /\ TurnedWith(r)
    BY <1>1 DEF Subscribe, TurnedWith, run_
  <1>2. ASSUME NEW r \in Readers, NEW w \in Wakers, Poll(r, w)
        PROVE  UNCHANGED <<run, kept>> /\ TurnedWith(r)
    BY <1>2 DEF Poll, TurnedWith, run_
  <1>3. ASSUME NEW r \in Readers, Open(r)
        PROVE  UNCHANGED <<run, kept>> /\ TurnedWith(r)
    BY <1>3 DEF Open, TurnedWith, run_
  <1>4. ASSUME NEW r \in Readers, AddBell(r)
        PROVE  UNCHANGED <<run, kept>> /\ TurnedWith(r)
    BY <1>4 DEF AddBell, TurnedWith, run_
  <1>5. ASSUME NEW r \in Readers, TryNext(r)
        PROVE  UNCHANGED <<run, kept>> /\ TurnedWith(r)
    BY <1>5 DEF TryNext, TurnedWith, run_
  <1>6. ASSUME NEW r \in Readers, Rung(r)
        PROVE  UNCHANGED <<run, kept>> /\ TurnedWith(r)
    BY <1>6 DEF Rung, TurnedWith, run_
  <1>7. ASSUME NEW r \in Readers, Leave(r)
        PROVE  UNCHANGED <<run, kept>> /\ TurnedWith(r)
    BY <1>7 DEF Leave, TurnedWith, run_
  <1> QED  BY <1>1, <1>2, <1>3, <1>4, <1>5, <1>6, <1>7 DEF TheReaders

\* The reader that took a turn has read as it should, and so have the others,
\* who did nothing.
LEMMA LeftReading ==
    ASSUME Reading, UNCHANGED <<run, kept>>, reader \in [Readers -> Reader], NEW r \in Readers,
           NEW to \in Reader, NEW g \in Seq(Nat), NEW n \in 0 .. Len(g), NEW joined \in Nat,
           to.run = run /\ run # 0 => Reads(to, g, n, joined),
           reader' = [reader EXCEPT ![r] = to], got' = [got EXCEPT ![r] = g],
           since' = [since EXCEPT ![r] = n], joinedAt' = [joinedAt EXCEPT ![r] = joined]
    PROVE  Reading'
  <1>1. HistoryTyped /\ Len(g) \in Nat
    BY LenProperties DEF Reading
  <1>2. /\ reader'[r] = to /\ got'[r] = g /\ since'[r] = n /\ joinedAt'[r] = joined
        /\ \A q \in Readers \ {r} : /\ reader'[q] = reader[q] /\ got'[q] = got[q]
                                    /\ since'[q] = since[q] /\ joinedAt'[q] = joinedAt[q]
    BY <1>1 DEF HistoryTyped
  <1>3. HistoryTyped'
    <2>1. /\ got' \in [Readers -> Seq(Nat)] /\ since' \in [Readers -> Nat]
          /\ joinedAt' \in [Readers -> Nat]
      BY <1>1 DEF HistoryTyped
    <2>2. \A q \in Readers : since'[q] <= Len(got'[q])
      BY <1>1, <1>2 DEF HistoryTyped
    <2> QED  BY <2>1, <2>2 DEF HistoryTyped
  <1>4. ASSUME NEW q \in Readers, reader'[q].run = run', run' # 0
        PROVE  Reads(reader[q], got[q], since[q], joinedAt[q])'
    <2>1. run' = run /\ UNCHANGED kept
      OBVIOUS
    <2>2. CASE q = r
      <3>1. Reads(to, g, n, joined)
        BY <1>2, <1>4, <2>1, <2>2
      <3>2. /\ reader'[q] = to /\ got'[q] = g /\ since'[q] = n /\ joinedAt'[q] = joined
        BY <1>2, <2>2
      <3> QED  BY <2>1, <3>1, <3>2, SameReads
    <2>3. CASE q # r
      <3>1. PICK d, h, m, j : d = reader[q] /\ h = got[q] /\ m = since[q] /\ j = joinedAt[q]
        OBVIOUS
      <3>2. /\ reader'[q] = d /\ got'[q] = h /\ since'[q] = m /\ joinedAt'[q] = j
        BY <1>2, <2>3, <3>1
      <3>3. Reads(d, h, m, j)
        BY <1>4, <2>1, <3>1, <3>2 DEF Reading
      <3> QED  BY <2>1, <3>2, <3>3, SameReads
    <2> QED  BY <2>2, <2>3
  <1> QED  BY <1>3, <1>4 DEF Reading

\* What was handed over past the first n.
LEMMA SinceIs ==
    ASSUME NEW g \in Seq(Nat), NEW n \in 0 .. Len(g), SubSeq(g, n + 1, Len(g)) # <<>>
    PROVE  /\ n < Len(g) /\ SubSeq(g, n + 1, Len(g))[1] = g[n + 1]
           /\ ToSet(SubSeq(g, n + 1, Len(g))) = {g[i] : i \in n + 1 .. Len(g)}
  <1>1. Len(g) \in Nat /\ \A i \in 1 .. Len(g) : g[i] \in Nat
    BY LenProperties, ElementOfSeq
  <1> DEFINE h == SubSeq(g, n + 1, Len(g))
  <1>2. /\ h \in Seq(Nat) /\ Len(h) = IF n + 1 <= Len(g) THEN Len(g) - (n + 1) + 1 ELSE 0
        /\ \A i \in 1 .. Len(g) - (n + 1) + 1 : h[i] = g[n + 1 + i - 1]
    <2>1. n + 1 \in Int /\ Len(g) \in Int /\ \A i \in n + 1 .. Len(g) : g[i] \in Nat
      BY <1>1
    <2> QED  BY <2>1, SubSeqProperties
  <1>3. Len(h) \in Nat /\ (Len(h) = 0 => h = <<>>) /\ DOMAIN h = 1 .. Len(h)
    BY <1>2, LenProperties, EmptySeq
  <1> HIDE DEF h
  <1>4. h # <<>>
    BY DEF h
  <1>5. n < Len(g) /\ Len(h) = Len(g) - n
    BY <1>1, <1>2, <1>3, <1>4
  <1>6. \A i \in 1 .. Len(h) : h[i] = g[n + i]
    <2>1. \A i \in 1 .. Len(h) : i \in 1 .. Len(g) - (n + 1) + 1 /\ n + 1 + i - 1 = n + i
      BY <1>1, <1>5
    <2> QED  BY <1>2, <2>1
  <1>7. ToSet(h) = {g[i] : i \in n + 1 .. Len(g)}
    <2>1. ToSet(h) = {h[i] : i \in 1 .. Len(h)}
      BY <1>3 DEF ToSet
    <2>2. \A i \in 1 .. Len(h) : n + i \in n + 1 .. Len(g) /\ h[i] = g[n + i]
      BY <1>1, <1>5, <1>6
    <2>3. \A i \in n + 1 .. Len(g) : i - n \in 1 .. Len(h) /\ h[i - n] = g[i]
      <3>1. \A i \in n + 1 .. Len(g) : i - n \in 1 .. Len(h) /\ n + (i - n) = i
        BY <1>1, <1>5
      <3> QED  BY <1>6, <3>1
    <2>4. {h[i] : i \in 1 .. Len(h)} = {g[i] : i \in n + 1 .. Len(g)}
      <3>1. ASSUME NEW i \in 1 .. Len(h) PROVE h[i] \in {g[k] : k \in n + 1 .. Len(g)}
        <4>1. PICK k \in n + 1 .. Len(g) : h[i] = g[k]
          BY <2>2
        <4> QED  BY <4>1
      <3>2. ASSUME NEW i \in n + 1 .. Len(g) PROVE g[i] \in {h[k] : k \in 1 .. Len(h)}
        <4>1. PICK k \in 1 .. Len(h) : h[k] = g[i]
          BY <2>3
        <4> QED  BY <4>1
      <3> QED  BY <3>1, <3>2
    <2> QED  BY <2>1, <2>4
  <1>8. h[1] = g[n + 1]
    <2>1. 1 \in 1 .. Len(h)
      BY <1>1, <1>5
    <2> QED  BY <1>6, <2>1
  <1> QED  BY <1>5, <1>7, <1>8 DEF h

\* A reader's turn leaves it having read as it should.
LEMMA ReadingRead ==
    ASSUME Held, Reading, TheReaders
    PROVE  Reading'
  <1>1. KeptTyped /\ RunTyped /\ ReadersTyped /\ StartsHeld
    BY DEF Held, TypeOK
  <1>2. PICK r \in Readers : UNCHANGED <<run, kept>> /\ TurnedWith(r)
    BY ReadersTurnWith
  <1> DEFINE rd   == reader[r]
             next == NextIn(rd)
             now  == IF next.to.waitingForStart THEN nextSeq ELSE firstSeq
             g1   == CASE next.item = "Started" -> <<>>
                       [] next.item = "Packet"  -> Append(got[r], next.seq)
                       [] OTHER                 -> got[r]
             n1   == CASE next.item = "Started" -> 0
                       [] next.item = "Skipped" -> Len(got[r])
                       [] OTHER                 -> since[r]
             j1   == IF next.item \notin {"Started", "Skipped"} THEN joinedAt[r] ELSE now
  <1>3. /\ reader \in [Readers -> Reader] /\ rd \in Reader /\ InPlace(rd)
        /\ got[r] \in Seq(Nat) /\ Len(got[r]) \in Nat /\ since[r] \in 0 .. Len(got[r])
        /\ joinedAt[r] \in Nat /\ HistoryTyped
        /\ rd.run = run /\ run # 0 => Reads(rd, got[r], since[r], joinedAt[r])
    BY <1>1, LenProperties DEF Held, ReadersTyped, Reading, HistoryTyped
  <1>4. next.to \in Reader
    BY <1>1, <1>3, NextInKeeps
  <1>5. /\ next.item = "Packet" => next.seq \in Nat
        /\ next.to.run = run /\ run # 0 => Reads(next.to, g1, n1, j1)
    BY <1>1, <1>3, TurnReads
  <1> HIDE DEF next, rd
  <1>6. ASSUME reader' = [reader EXCEPT ![r] = next.to], got' = [got EXCEPT ![r] = g1],
               since' = [since EXCEPT ![r] = n1], joinedAt' = [joinedAt EXCEPT ![r] = j1]
        PROVE  Reading'
    <2>1. g1 \in Seq(Nat) /\ n1 \in 0 .. Len(g1)
      <3>1. CASE next.item = "Started"
        <4>1. g1 = <<>> /\ n1 = 0
          BY <3>1
        <4>2. <<>> \in Seq(Nat) /\ 0 \in 0 .. Len(<<>>)
          BY EmptySeq
        <4> HIDE DEF g1, n1
        <4> QED  BY <4>1, <4>2
      <3>2. CASE next.item = "Packet"
        <4>1. g1 = Append(got[r], next.seq) /\ n1 = since[r]
          BY <3>2
        <4>2. Append(got[r], next.seq) \in Seq(Nat)
              /\ Len(Append(got[r], next.seq)) = Len(got[r]) + 1
          BY <1>3, <1>5, <3>2, AppendProperties
        <4> HIDE DEF g1, n1
        <4> QED  BY <1>3, <4>1, <4>2
      <3>3. CASE next.item \notin {"Started", "Packet"}
        <4>1. g1 = got[r] /\ n1 \in {since[r], Len(got[r])}
          BY <3>3
        <4> HIDE DEF g1, n1
        <4> QED  BY <1>3, <4>1
      <3> QED  BY <3>1, <3>2, <3>3
    <2>2. j1 \in Nat
      <3>1. nextSeq \in Nat /\ firstSeq \in Nat
        BY <1>1, WrittenIs
      <3> QED  BY <1>3, <3>1
    <2> HIDE DEF g1, n1, j1
    <2> QED  BY <1>2, <1>3, <1>4, <1>5, <1>6, <2>1, <2>2, LeftReading
  <1>7. CASE Take(r, next)
    <2>1. /\ reader' = [reader EXCEPT ![r] = next.to]
          /\ got' = [got EXCEPT ![r] = g1]
          /\ since' = [since EXCEPT ![r] = n1]
          /\ joinedAt' = [joinedAt EXCEPT ![r] = j1]
      BY <1>7 DEF Take
    <2> QED  BY <1>6, <2>1
  <1>8. CASE UpToDate(r, next)
    <2>1. g1 = got[r] /\ n1 = since[r] /\ j1 = joinedAt[r]
      BY <1>8 DEF UpToDate
    <2>2. /\ reader' = [reader EXCEPT ![r] = next.to]
          /\ got' = got /\ since' = since /\ joinedAt' = joinedAt
      BY <1>8 DEF UpToDate
    <2> HIDE DEF g1, n1, j1
    <2>3. /\ got' = [got EXCEPT ![r] = g1] /\ since' = [since EXCEPT ![r] = n1]
          /\ joinedAt' = [joinedAt EXCEPT ![r] = j1]
      BY <1>3, <2>1, <2>2 DEF HistoryTyped
    <2> QED  BY <1>6, <2>2, <2>3
  <1>9. ASSUME NEW within \in Withins \cup {None}, reader' = [reader EXCEPT ![r] = NewReader(within)],
               got' = [got EXCEPT ![r] = <<>>], since' = [since EXCEPT ![r] = 0],
               joinedAt' = [joinedAt EXCEPT ![r] = 0]
        PROVE  Reading'
    <2>1. NewReader(within) \in Reader /\ NewReader(within).run = 0
      BY <1>1, NewReaderIs DEF NewReader
    <2>2. <<>> \in Seq(Nat) /\ 0 \in 0 .. Len(<<>>)
      BY EmptySeq
    <2> DEFINE to == NewReader(within)
               no == <<>>
    <2>3. /\ to \in Reader /\ ~(to.run = run /\ run # 0) /\ no \in Seq(Nat) /\ 0 \in 0 .. Len(no)
          /\ reader' = [reader EXCEPT ![r] = to] /\ got' = [got EXCEPT ![r] = no]
      BY <1>9, <2>1, <2>2
    <2> HIDE DEF to, no
    <2> QED  BY <1>2, <1>3, <1>9, <2>3, LeftReading
  <1>10. CASE UNCHANGED <<reader, got, since, joinedAt>>
    <2>1. /\ reader' = [reader EXCEPT ![r] = rd] /\ got' = [got EXCEPT ![r] = got[r]]
          /\ since' = [since EXCEPT ![r] = since[r]]
          /\ joinedAt' = [joinedAt EXCEPT ![r] = joinedAt[r]]
      BY <1>3, <1>10 DEF HistoryTyped, rd
    <2> QED  BY <1>2, <1>3, <2>1, LeftReading
  <1> QED  BY <1>2, <1>7, <1>8, <1>9, <1>10 DEF TurnedWith, next, rd

\* Before anything is published nobody has read anything.
LEMMA ReadingInit == Init => Reading
  <1> SUFFICES ASSUME Init PROVE Reading
    OBVIOUS
  <1>1. HistoryTyped
    BY EmptySeq DEF Init, HistoryTyped
  <1> QED  BY <1>1 DEF Init, Reading

\* Every step leaves each reader having read as it should.
LEMMA ReadingNext == Held /\ Reading /\ [Next]_vars => Reading'
  <1> SUFFICES ASSUME Held, Reading, [Next]_vars PROVE Reading'
    OBVIOUS
  <1>1. CASE FromWithin
    BY <1>1, ReadingFromWithin
  <1>2. CASE TheReaders
    BY <1>2, ReadingRead
  <1>3. CASE UNCHANGED vars
    <2>1. UNCHANGED <<run, kept, reader, got, since, joinedAt>>
      BY <1>3 DEF vars, run_, task
    <2>2. HistoryTyped'
      BY <2>1 DEF Reading, HistoryTyped
    <2>3. ASSUME NEW q \in Readers, reader'[q].run = run', run' # 0
          PROVE  Reads(reader[q], got[q], since[q], joinedAt[q])'
      <3>1. PICK d, h, m, j : d = reader[q] /\ h = got[q] /\ m = since[q] /\ j = joinedAt[q]
        OBVIOUS
      <3>2. /\ reader'[q] = d /\ got'[q] = h /\ since'[q] = m /\ joinedAt'[q] = j
        BY <2>1, <3>1
      <3>3. Reads(d, h, m, j)
        BY <2>1, <2>3, <3>1, <3>2 DEF Reading
      <3> QED  BY <2>1, <3>2, <3>3, SameReads
    <2> QED  BY <2>2, <2>3 DEF Reading
  <1> QED  BY <1>1, <1>2, <1>3 DEF Next, FromWithin

\* Each reader has always read as it should.
LEMMA AlwaysReading == Spec => []Reading
  BY AlwaysHeld, ReadingInit, ReadingNext, PTL DEF Spec

\* Of the run going a reader is handed a packet it may start at first, and
\* each track's packets in the order they were written, none twice
\* (BroadcastReader::next_in).
THEOREM StartsAtKeyInOrderHolds == Spec => []StartsAtKeyInOrder
  <1>1. Reading => StartsAtKeyInOrder
    <2> SUFFICES ASSUME Reading, NEW r \in Readers, reader[r].run = run, run # 0
                 PROVE  /\ HandedSince(r) # <<>> => At(HandedSince(r)[1]).start
                        /\ \A i, j \in DOMAIN got[r] :
                             i < j /\ At(got[r][i]).track = At(got[r][j]).track
                                 => got[r][i] < got[r][j]
      BY DEF StartsAtKeyInOrder
    <2> DEFINE g == got[r]
               n == since[r]
    <2>1. g \in Seq(Nat) /\ n \in 0 .. Len(g) /\ Len(g) \in Nat /\ DOMAIN g = 1 .. Len(g)
      BY LenProperties DEF Reading, HistoryTyped
    <2>2. Reads(reader[r], g, n, joinedAt[r])
      BY DEF Reading
    <2>3. ASSUME HandedSince(r) # <<>>
          PROVE  n < Len(g) /\ HandedSince(r)[1] = g[n + 1]
      BY <2>1, <2>3, SinceIs DEF HandedSince
    <2> HIDE DEF g, n
    <2>4. HandedSince(r) # <<>> => At(HandedSince(r)[1]).start
      BY <2>2, <2>3 DEF Reads, Under
    <2>5. \A i, j \in DOMAIN g : i < j /\ At(g[i]).track = At(g[j]).track => g[i] < g[j]
      BY <2>1, <2>2 DEF Reads, InOrder
    <2> QED  BY <2>4, <2>5 DEF g
  <1> QED  BY AlwaysReading, <1>1, PTL

\* A set of numbers under a bound has a greatest one.
LEMMA MaxIs ==
    ASSUME NEW S \in SUBSET Nat, S # {}, NEW b \in Nat, \A x \in S : x <= b
    PROVE  Max(S) \in S /\ \A x \in S : x <= Max(S)
  <1> DEFINE Over == {u \in Nat : \A x \in S : x <= u}
  <1>1. Over # {} /\ Over \subseteq Nat
    OBVIOUS
  <1>2. PICK m \in Over : \A u \in Over : m <= u
    <2> HIDE DEF Over
    <2> QED  BY <1>1, LeastOf
  <1>3. m \in S
    <2>1. SUFFICES ASSUME m \notin S PROVE FALSE
      OBVIOUS
    <2>2. \A x \in S : x < m
      BY <1>2, <2>1
    <2>3. m - 1 \in Nat
      <3>1. PICK x \in S : x \in Nat /\ x < m
        BY <2>2
      <3> QED  BY <1>2, <3>1
    <2>4. \A x \in S : x <= m - 1
      BY <1>2, <2>2
    <2> QED  BY <1>2, <2>3, <2>4
  <1>4. \E x \in S : \A y \in S : x >= y
    BY <1>2, <1>3
  <1> QED  BY <1>4 DEF Max

\* No packet between a start and the one before it is a start.
LEMMA PreviousStartIs ==
    ASSUME KeptTyped, NEW k \in RunBegan .. nextSeq - 1
    PROVE  /\ PreviousStart(k) \in Nat
           /\ \A u \in RunBegan .. k - 1 : At(u).start => u <= PreviousStart(k)
  <1> DEFINE S == {RunBegan} \cup {s \in RunBegan .. k - 1 : At(s).start}
  <1>1. RunBegan \in Nat /\ nextSeq \in Nat /\ k \in Nat /\ RunBegan <= k
    BY WrittenIs
  <1>2. S \in SUBSET Nat /\ S # {} /\ \A x \in S : x <= k
    BY <1>1
  <1>3. PreviousStart(k) = Max(S)
    BY DEF PreviousStart
  <1>4. \A u \in RunBegan .. k - 1 : At(u).start => u \in S
    OBVIOUS
  <1> HIDE DEF S
  <1> QED  BY <1>1, <1>2, <1>3, <1>4, MaxIs

\* The greatest of three numbers is at least each of them.
LEMMA MaxOfThree ==
    ASSUME NEW a \in Nat, NEW b \in Nat, NEW c \in Nat
    PROVE  Max({a, b, c}) \in Nat /\ Max({a, b, c}) >= a /\ Max({a, b, c}) >= b /\ Max({a, b, c}) >= c
  <1>1. {a, b, c} \in SUBSET Nat /\ {a, b, c} # {} /\ \A x \in {a, b, c} : x <= a + b + c
    OBVIOUS
  <1>2. Max({a, b, c}) \in {a, b, c} /\ \A x \in {a, b, c} : x <= Max({a, b, c})
    BY <1>1, MaxIs
  <1> QED  BY <1>2

\* A reader with nothing more to read of the run has all there was from where
\* it started on, and what it was owed of the other tracks before that
\* (BroadcastReader::next_in, State::joined).
THEOREM NothingIsMissedHolds == Spec => []NothingIsMissed
  <1>1. Held /\ Reading => NothingIsMissed
    <2> SUFFICES ASSUME Held, Reading, NEW r \in Readers, reader[r].run = run, run # 0,
                        HandedSince(r) # <<>>,
                        NextIn(reader[r]).item \notin {"Packet", "Skipped"}
                 PROVE  LET h == HandedSince(r)
                            key == h[1]
                        IN /\ (key .. nextSeq - 1) \subseteq ToSet(h)
                           /\ \A s \in Max({PreviousStart(key), firstSeq, joinedAt[r]}) .. key - 1 :
                                  At(s).track # At(key).track /\ At(s).ts >= At(key).ts
                                      => s \in ToSet(h)
      BY DEF NothingIsMissed
    <2> DEFINE rd == reader[r]
               g == got[r]
               n == since[r]
               joined == joinedAt[r]
               k == g[n + 1]
               has == {g[i] : i \in n + 1 .. Len(g)}
    <2>1. /\ g \in Seq(Nat) /\ n \in 0 .. Len(g) /\ Len(g) \in Nat /\ joined \in Nat
          /\ KeptTyped /\ RunTyped /\ rd \in Reader /\ InPlace(rd) /\ rd.run = run /\ run # 0
          /\ Reads(rd, g, n, joined)
      BY LenProperties DEF Reading, HistoryTyped, Held, TypeOK, ReadersTyped
    <2>2. n < Len(g) /\ HandedSince(r)[1] = k /\ ToSet(HandedSince(r)) = has
      BY <2>1, SinceIs DEF HandedSince
    <2>3. NextIn(rd).item \notin {"Packet", "Skipped"}
      OBVIOUS
    <2>4. /\ RunBegan \in Nat /\ RunBegan <= firstSeq /\ firstSeq \in Nat /\ nextSeq \in Nat
          /\ rd.next \in Nat /\ rd.next <= nextSeq
      BY <2>1, WrittenIs DEF Reader, InPlace
    <2> HIDE DEF rd, g, n, joined, k, has
    <2>5. ~(rd.next < firstSeq) /\ Behind(rd) = {} /\ Ahead(rd) = {}
      <3>1. Handed("Skipped", Joined(rd)).item = "Skipped" /\ LookBack(rd).item = "Packet"
            /\ ReadOn(rd).item = "Packet"
        BY DEF Handed, LookBack, ReadOn, Packet
      <3> QED  BY <2>1, <2>3, <3>1, NextInIs
    <2>6. /\ ~rd.waitingForStart /\ k .. rd.next - 1 \subseteq has
          /\ \A u \in RunBegan .. k - 1 : Owed(u, k, joined) => u \in has
      <3>1. Under(rd, g, n, joined)
        BY <2>1, <2>2 DEF Reads
      <3>2. \A u \in RunBegan .. k - 1 : Owed(u, k, joined) => u \in has
        BY <2>1, <2>2, <2>5, NothingOwed DEF k, has
      <3> QED  BY <3>1, <3>2 DEF Under, k, has
    <2>7. rd.next = nextSeq
      BY <2>4, <2>5, <2>6 DEF Ahead
    <2>8. k \in RunBegan .. nextSeq - 1
      <3>1. n + 1 \in 1 .. Len(g)
        BY <2>1, <2>2
      <3> QED  BY <2>1, <3>1 DEF Reads, InOrder, k
    <2>9. ASSUME NEW s \in Max({PreviousStart(k), firstSeq, joined}) .. k - 1,
                 At(s).track # At(k).track, At(s).ts >= At(k).ts
          PROVE  s \in has
      <3>1. /\ PreviousStart(k) \in Nat
            /\ \A u \in RunBegan .. k - 1 : At(u).start => u <= PreviousStart(k)
        BY <2>1, <2>8, PreviousStartIs
      <3>2. s \in Int /\ s >= PreviousStart(k) /\ s >= firstSeq /\ s >= joined /\ s <= k - 1
        <4>1. /\ Max({PreviousStart(k), firstSeq, joined}) \in Nat
              /\ Max({PreviousStart(k), firstSeq, joined}) >= PreviousStart(k)
              /\ Max({PreviousStart(k), firstSeq, joined}) >= firstSeq
              /\ Max({PreviousStart(k), firstSeq, joined}) >= joined
          BY <2>1, <2>4, <3>1, MaxOfThree
        <4>2. s \in Int /\ s >= Max({PreviousStart(k), firstSeq, joined}) /\ s <= k - 1
          BY <4>1, <2>8
        <4> QED  BY <2>1, <2>4, <3>1, <4>1, <4>2
      <3>3. \A u \in s + 1 .. k - 1 : ~At(u).start
        <4>1. \A u \in s + 1 .. k - 1 : u \in RunBegan .. k - 1 /\ ~(u <= PreviousStart(k))
          BY <2>4, <2>8, <3>1, <3>2
        <4> QED  BY <3>1, <4>1
      <3>4. s \in firstSeq .. k - 1 /\ s \in RunBegan .. k - 1
        BY <2>4, <2>8, <3>2
      <3> QED  BY <2>6, <2>9, <3>2, <3>3, <3>4 DEF Owed
    <2>10. /\ k .. nextSeq - 1 \subseteq has
           /\ \A s \in Max({PreviousStart(k), firstSeq, joined}) .. k - 1 :
                 At(s).track # At(k).track /\ At(s).ts >= At(k).ts => s \in has
      BY <2>6, <2>7, <2>9
    <2> QED  BY <2>2, <2>10 DEF joined
  <1> QED  BY AlwaysHeld, AlwaysReading, <1>1, PTL

-----------------------------------------------------------------------------
(* Where what is written lies on the timeline.                             *)

\* TrueTime of what was written, w, by the track tl.
TimeOf(w, tl, i) ==
    LET on     == {j \in 1 .. Len(w) : w[j].track = tl}
        before == {j \in on : j <= i}
    IN CASE w[i].track = tl -> w[i].ts
         [] w[i].track # tl /\ before # {} -> Max({w[j].ts : j \in before})
         [] OTHER -> w[Min(on)].ts

\* What is written once the timeline's track has a packet leaves the times
\* there are as they are.
LEMMA TimesStay ==
    ASSUME NEW w, NEW v, NEW tl, Len(w) \in Nat, Len(v) = Len(w) + 1,
           \A i \in 1 .. Len(w) : v[i].track = w[i].track /\ v[i].ts = w[i].ts,
           \E j \in 1 .. Len(w) : w[j].track = tl, NEW i \in 1 .. Len(w)
    PROVE  TimeOf(v, tl, i) = TimeOf(w, tl, i)
  <1> DEFINE On(x) == {j \in 1 .. Len(x) : x[j].track = tl}
             UpTo(x) == {j \in On(x) : j <= i}
  <1>1. UpTo(v) = UpTo(w)
    <2>1. \A j : j \in 1 .. Len(v) /\ j <= i <=> j \in 1 .. Len(w) /\ j <= i
      OBVIOUS
    <2> QED  BY <2>1
  <1>2. \A j \in UpTo(w) : v[j].ts = w[j].ts
    OBVIOUS
  <1>3. Min(On(v)) = Min(On(w)) /\ Min(On(w)) \in 1 .. Len(w)
    <2>1. On(w) \subseteq Nat /\ On(w) # {} /\ On(v) \subseteq Nat /\ On(v) # {}
      OBVIOUS
    <2>2. On(w) \subseteq On(v) /\ \A j \in On(v) : j \in On(w) \/ j = Len(w) + 1
      OBVIOUS
    <2>3. \A j \in On(w) : j <= Len(w) /\ j \in 1 .. Len(w)
      OBVIOUS
    <2> HIDE DEF On
    <2>4. /\ Min(On(w)) \in On(w) /\ \A j \in On(w) : Min(On(w)) <= j
          /\ Min(On(v)) \in On(v) /\ \A j \in On(v) : Min(On(v)) <= j
      BY <2>1, MinIs
    <2> QED  BY <2>1, <2>2, <2>3, <2>4
  <1>4. {v[j].ts : j \in UpTo(v)} = {w[j].ts : j \in UpTo(w)}
    <2> HIDE DEF UpTo
    <2> QED  BY <1>1, <1>2
  <1>5. v[i].track = w[i].track /\ v[i].ts = w[i].ts /\ v[Min(On(v))].ts = w[Min(On(w))].ts
    <2> HIDE DEF On
    <2> QED  BY <1>3
  <1>6. TimeOf(v, tl, i) = CASE v[i].track = tl -> v[i].ts
                             [] v[i].track # tl /\ UpTo(v) # {} -> Max({v[j].ts : j \in UpTo(v)})
                             [] OTHER -> v[Min(On(v))].ts
    BY DEF TimeOf
  <1>7. TimeOf(w, tl, i) = CASE w[i].track = tl -> w[i].ts
                             [] w[i].track # tl /\ UpTo(w) # {} -> Max({w[j].ts : j \in UpTo(w)})
                             [] OTHER -> w[Min(On(w))].ts
    BY DEF TimeOf
  <1> HIDE DEF On, UpTo
  <1> QED  BY <1>1, <1>4, <1>5, <1>6, <1>7

\* What was written ahead of the first packet on the timeline has its time.
LEMMA FirstTimes ==
    ASSUME NEW v, NEW tl, NEW n \in Nat, Len(v) = n + 1, \A i \in 1 .. n : v[i].track # tl,
           v[n + 1].track = tl, NEW i \in 1 .. n + 1
    PROVE  TimeOf(v, tl, i) = v[n + 1].ts
  <1> DEFINE on == {j \in 1 .. Len(v) : v[j].track = tl}
             before == {j \in on : j <= i}
  <1>1. on = {n + 1}
    <2>1. \A j \in 1 .. Len(v) : j \in 1 .. n \/ j = n + 1
      OBVIOUS
    <2>2. n + 1 \in 1 .. Len(v)
      OBVIOUS
    <2> QED  BY <2>1, <2>2
  <1>2. Min(on) = n + 1
    <2>1. on \subseteq Nat /\ on # {}
      BY <1>1
    <2> HIDE DEF on
    <2>2. Min(on) \in on
      BY <2>1, MinIs
    <2> QED  BY <1>1, <2>2
  <1>3. i # n + 1 => v[i].track # tl /\ before = {}
    <2>1. i # n + 1 => i \in 1 .. n /\ ~(n + 1 <= i)
      OBVIOUS
    <2> HIDE DEF on
    <2> QED  BY <1>1, <2>1
  <1>4. TimeOf(v, tl, i) = CASE v[i].track = tl -> v[i].ts
                             [] v[i].track # tl /\ before # {} -> Max({v[j].ts : j \in before})
                             [] OTHER -> v[Min(on)].ts
    BY DEF TimeOf
  <1> HIDE DEF on, before
  <1>5. CASE i = n + 1
    BY <1>4, <1>5
  <1>6. CASE i # n + 1
    BY <1>2, <1>3, <1>4, <1>6
  <1> QED  BY <1>5, <1>6

\* What is written by another track has the time of the newest on the timeline.
LEMMA LastTime ==
    ASSUME NEW v, NEW tl, NEW n \in Nat, Len(v) = n, NEW i \in 1 .. n, i = n, v[i].track # tl,
           NEW m \in Nat, \E j \in 1 .. n : v[j].track = tl /\ v[j].ts = m,
           \A j \in 1 .. n : v[j].track = tl => v[j].ts \in Nat /\ v[j].ts <= m
    PROVE  TimeOf(v, tl, i) = m
  <1> DEFINE on == {j \in 1 .. Len(v) : v[j].track = tl}
             before == {j \in on : j <= i}
             S == {v[j].ts : j \in before}
  <1>1. \A j \in before : v[j].ts \in Nat /\ v[j].ts <= m
    OBVIOUS
  <1>2. PICK k \in before : v[k].ts = m
    OBVIOUS
  <1>3. TimeOf(v, tl, i) = CASE v[i].track = tl -> v[i].ts
                             [] v[i].track # tl /\ before # {} -> Max({v[j].ts : j \in before})
                             [] OTHER -> v[Min(on)].ts
    BY DEF TimeOf
  <1> HIDE DEF on, before
  <1>4. S \in SUBSET Nat /\ S # {} /\ m \in S /\ \A x \in S : x <= m
    BY <1>1, <1>2
  <1>5. TimeOf(v, tl, i) = Max(S)
    BY <1>2, <1>3
  <1> HIDE DEF S
  <1>6. Max(S) \in S /\ \A x \in S : x <= Max(S)
    BY <1>4, MaxIs
  <1>7. Max(S) = m
    <2>1. PICK x : x = Max(S)
      OBVIOUS
    <2>2. x \in Nat /\ x <= m /\ m <= x
      BY <1>4, <1>6, <2>1
    <2> QED  BY <2>1, <2>2
  <1> QED  BY <1>5, <1>7

\* Each packet held, and each let go of for lying too far back, has its time on
\* the timeline; the newest is the newest there.
Timed ==
    /\ newest = None =>
          /\ \A j \in 1 .. Len(Written) : Written[j].track # Timeline
          /\ \A i \in 1 .. Len(letGo) : letGo[i].why # "retain"
    /\ newest # None =>
          /\ \A j \in 1 .. Len(Written) : Written[j].track = Timeline => Written[j].ts <= newest
          /\ \E j \in 1 .. Len(Written) : Written[j].track = Timeline /\ Written[j].ts = newest
          /\ \A i \in 1 .. Len(Written) :
                i > Len(letGo) \/ letGo[i].why = "retain"
                    => Written[i].at = TimeOf(Written, Timeline, i)
          /\ \A i \in 1 .. Len(letGo) :
                letGo[i].why = "retain" => newest - letGo[i].at > Retain

\* What is let go of was written, at the time it was let go of at.
LEMMA LetGoIs ==
    ASSUME KeptTyped
    PROVE  /\ Written \in Seq(GoneEntry \cup Entry) /\ DOMAIN Written = 1 .. Len(Written)
           /\ Len(letGo) \in 0 .. Len(Written) /\ Len(Written) \in Nat
           /\ DOMAIN letGo = 1 .. Len(letGo)
           /\ \A i \in 1 .. Len(letGo) : Written[i] = letGo[i] /\ letGo[i].at \in Nat
           /\ \A i \in 1 .. Len(Written) : Written[i].ts \in Nat
  <1>1. /\ letGo \in Seq(GoneEntry) /\ entries \in Seq(Entry)
        /\ Len(letGo) \in Nat /\ Len(entries) \in Nat
    BY LenProperties DEF KeptTyped
  <1>2. letGo \in Seq(GoneEntry \cup Entry) /\ entries \in Seq(GoneEntry \cup Entry)
    <2>1. \A S, T, s : S \subseteq T /\ s \in Seq(S) => s \in Seq(T)
      OBVIOUS
    <2> QED  BY <1>1, <2>1
  <1>3. /\ Written \in Seq(GoneEntry \cup Entry) /\ Len(Written) = Len(letGo) + Len(entries)
        /\ \A i \in 1 .. Len(letGo) + Len(entries) :
              Written[i] = IF i <= Len(letGo) THEN letGo[i] ELSE entries[i - Len(letGo)]
    BY <1>1, <1>2, ConcatProperties DEF Written
  <1>4. \A i \in 1 .. Len(letGo) : letGo[i] \in GoneEntry
    BY <1>1, ElementOfSeq
  <1>5. \A i \in 1 .. Len(letGo) : letGo[i].at \in Nat
    BY <1>4 DEF GoneEntry
  <1>6. \A i \in 1 .. Len(letGo) : Written[i] = letGo[i]
    <2>1. \A i \in 1 .. Len(letGo) : i \in 1 .. Len(letGo) + Len(entries) /\ i <= Len(letGo)
      BY <1>1
    <2> QED  BY <1>3, <2>1
  <1>7. \A i \in 1 .. Len(Written) : Written[i].ts \in Nat
    <2>1. \A i \in 1 .. Len(Written) : Written[i] \in GoneEntry \cup Entry
      BY <1>3, ElementOfSeq
    <2> QED  BY <2>1, TimesAssumption DEF GoneEntry, Entry
  <1>8. DOMAIN Written = 1 .. Len(Written) /\ DOMAIN letGo = 1 .. Len(letGo)
    BY <1>1, <1>3, LenProperties
  <1> QED  BY <1>1, <1>3, <1>5, <1>6, <1>7, <1>8

\* A packet written has its time, and so have those that waited for the first.
LEMMA WroteTimed ==
    ASSUME KeptTyped, Timed, NEW p, NEW t, NEW ts \in Times, NEW all, NEW n,
           Wrote(p, t, ts, all, n), KeptTyped', UNCHANGED keyTrack
    PROVE  Timed'
  <1> DEFINE w == Written
             tl == Timeline
             l == Len(letGo)
             g == letGo
             was == newest
             now == newest'
             k == Len(Written)
  <1>1. PICK v, h, m : v = Written' /\ h = letGo' /\ m = Len(letGo')
    OBVIOUS
  <1>2. /\ k \in Nat /\ l \in 0 .. k /\ Len(v) = k + 1 /\ m \in l .. k + 1
        /\ \A i \in 1 .. k : /\ v[i].track = w[i].track /\ v[i].ts = w[i].ts
                             /\ v[i].at = IF i > l /\ t = tl /\ was = None THEN ts ELSE w[i].at
        /\ v[k + 1].track = t /\ v[k + 1].ts = ts
        /\ v[k + 1].at = IF t = tl THEN ts ELSE Max({was, 0})
        /\ \A i \in 1 .. l : h[i] = g[i]
        /\ \A i \in l + 1 .. m : h[i].why = "retain" => now # None /\ now - h[i].at > Retain
    <2>1. /\ Len(Written) \in Nat /\ Len(letGo) \in 0 .. Len(Written)
          /\ Len(Written') = Len(Written) + 1 /\ Len(letGo') \in Len(letGo) .. Len(Written')
          /\ DOMAIN Written = 1 .. Len(Written) /\ DOMAIN Written' = 1 .. Len(Written')
          /\ \A i \in 1 .. Len(Written) :
                /\ Written'[i].track = Written[i].track /\ Written'[i].ts = Written[i].ts
                /\ Written'[i].start = Written[i].start
                /\ Written'[i].at = IF i > Len(letGo) /\ t = Timeline /\ newest = None
                                    THEN ts ELSE Written[i].at
          /\ Written'[Len(Written)+1].track = t /\ Written'[Len(Written)+1].ts = ts
          /\ Written'[Len(Written)+1].at = IF t = Timeline THEN ts ELSE Max({newest, 0})
          /\ \A i \in 1 .. Len(letGo) : letGo'[i] = letGo[i]
          /\ \A i \in Len(letGo) + 1 .. Len(letGo') :
                letGo'[i].why = "retain" => newest' # None /\ newest' - letGo'[i].at > Retain
      BY WroteEach, Zenon
    <2> QED  BY <1>1, <2>1, Zenon
  <1>3. tl' = tl /\ ts \in Nat /\ was \in Nat \cup {None} /\ now \in Nat \cup {None}
        /\ Retain \in Nat
    BY TimesAssumption DEF Timeline, KeptTyped
  <1>4. /\ \A i \in 1 .. l : w[i] = g[i] /\ g[i].at \in Nat
        /\ \A i \in 1 .. k : w[i].ts \in Nat
    BY LetGoIs
  <1>5. now = IF t = tl THEN Max({was, ts}) ELSE was
    BY DEF Wrote
  <1>6. Max({was, 0}) = IF was = None THEN 0 ELSE was
    BY <1>3, MaxOfTwo DEF None
  <1>7. Max({was, ts}) = IF was # None /\ was >= ts THEN was ELSE ts
    BY <1>3, MaxOfTwo DEF None
  <1>8. /\ was = None => /\ \A j \in 1 .. k : w[j].track # tl
                         /\ \A i \in 1 .. l : g[i].why # "retain"
        /\ was # None =>
             /\ \A j \in 1 .. k : w[j].track = tl => w[j].ts <= was
             /\ \E j \in 1 .. k : w[j].track = tl /\ w[j].ts = was
             /\ \A i \in 1 .. k : i > l \/ g[i].why = "retain" => w[i].at = TimeOf(w, tl, i)
             /\ \A i \in 1 .. l : g[i].why = "retain" => was - g[i].at > Retain
    BY DEF Timed
  <1>k. k = Len(w)
    OBVIOUS
  <1> HIDE DEF w, tl, l, g, was, now, k
  <1>9. \A i : i \in 1 .. k + 1 <=> i \in 1 .. k \/ i = k + 1
    BY <1>2
  <1>10. now = None => /\ \A j \in 1 .. k + 1 : v[j].track # tl
                       /\ \A i \in 1 .. m : h[i].why # "retain"
    <2> SUFFICES ASSUME now = None
                 PROVE  /\ \A j \in 1 .. k + 1 : v[j].track # tl
                        /\ \A i \in 1 .. m : h[i].why # "retain"
      OBVIOUS
    <2>1. was = None /\ t # tl
      BY <1>3, <1>5, <1>7 DEF None
    <2>2. \A i \in 1 .. m : i \in 1 .. l \/ i \in l + 1 .. m
      BY <1>2
    <2> QED  BY <1>2, <1>8, <1>9, <2>1, <2>2
  <1>11. ASSUME now # None
         PROVE  /\ \A j \in 1 .. k + 1 : v[j].track = tl => v[j].ts <= now
                /\ \E j \in 1 .. k + 1 : v[j].track = tl /\ v[j].ts = now
                /\ \A i \in 1 .. k + 1 :
                     i > m \/ h[i].why = "retain" => v[i].at = TimeOf(v, tl, i)
                /\ \A i \in 1 .. m : h[i].why = "retain" => now - h[i].at > Retain
    <2>1. was # None => was <= now
      BY <1>3, <1>5, <1>7
    <2>2. t = tl => ts <= now
      BY <1>3, <1>5, <1>7 DEF None
    <2>3. ASSUME NEW j \in 1 .. k + 1, v[j].track = tl PROVE v[j].ts <= now
      <3>1. CASE j = k + 1
        BY <1>2, <2>2, <2>3, <3>1
      <3>2. CASE j \in 1 .. k
        <4>1. was # None /\ w[j].ts <= was /\ w[j].ts \in Nat /\ v[j].ts = w[j].ts
          BY <1>2, <1>4, <1>8, <2>3, <3>2
        <4> QED  BY <1>3, <1>11, <2>1, <4>1 DEF None
      <3> QED  BY <1>9, <3>1, <3>2
    <2>4. \E j \in 1 .. k + 1 : v[j].track = tl /\ v[j].ts = now
      <3>1. CASE t = tl /\ now = ts
        <4>1. k + 1 \in 1 .. k + 1
          BY <1>2
        <4> QED  BY <1>2, <3>1, <4>1
      <3>2. CASE was # None /\ now = was
        <4>1. PICK j \in 1 .. k : w[j].track = tl /\ w[j].ts = was
          BY <1>8, <3>2
        <4>2. j \in 1 .. k + 1 /\ v[j].track = tl /\ v[j].ts = now
          BY <1>2, <1>9, <3>2, <4>1
        <4> QED  BY <4>2
      <3> QED  BY <1>5, <1>7, <1>11, <3>1, <3>2
    <2>5. ASSUME NEW i \in 1 .. m, h[i].why = "retain" PROVE now - h[i].at > Retain
      <3>1. CASE i \in l + 1 .. m
        BY <1>2, <2>5, <3>1
      <3>2. CASE i \in 1 .. l
        <4>1. h[i] = g[i] /\ g[i].at \in Nat
          BY <1>2, <1>4, <3>2
        <4>2. was # None /\ was - g[i].at > Retain
          BY <1>8, <2>5, <3>2, <4>1
        <4> QED  BY <1>3, <1>11, <2>1, <4>1, <4>2 DEF None
      <3>3. i \in 1 .. l \/ i \in l + 1 .. m
        BY <1>2
      <3> QED  BY <3>1, <3>2, <3>3
    <2>6. ASSUME NEW i \in 1 .. k + 1, i > m \/ h[i].why = "retain"
          PROVE  v[i].at = TimeOf(v, tl, i)
      <3>1. CASE was = None
        <4>1. t = tl /\ now = ts
          BY <1>5, <1>7, <1>11, <3>1
        <4>2. \A j \in 1 .. k : v[j].track # tl
          BY <1>2, <1>8, <3>1
        <4>3. v[k + 1].track = tl
          BY <1>2, <4>1
        <4>4. TimeOf(v, tl, i) = ts
          BY <1>2, <4>2, <4>3, FirstTimes
        <4>5. i > l
          <5>1. CASE i > m
            BY <1>2, <5>1
          <5>2. CASE h[i].why = "retain"
            <6>1. ~(i \in 1 .. l)
              BY <1>2, <1>8, <3>1, <5>2
            <6> QED  BY <1>2, <6>1
          <5> QED  BY <2>6, <5>1, <5>2
        <4>6. v[i].at = ts
          BY <1>2, <1>9, <3>1, <4>1, <4>5
        <4> QED  BY <4>4, <4>6
      <3>2. CASE was # None /\ i \in 1 .. k
        <4>1. v[i].at = w[i].at
          BY <1>2, <3>2
        <4>2. i > l \/ g[i].why = "retain"
          <5>1. i > m => i > l
            BY <1>2
          <5>2. i \in 1 .. l \/ i > l
            BY <1>2
          <5> QED  BY <1>2, <2>6, <5>1, <5>2
        <4>3. w[i].at = TimeOf(w, tl, i)
          BY <1>8, <3>2, <4>2
        <4>4. \E j \in 1 .. k : w[j].track = tl
          BY <1>8, <3>2
        <4>5. TimeOf(v, tl, i) = TimeOf(w, tl, i)
          BY <1>2, <1>k, <3>2, <4>4, TimesStay
        <4> QED  BY <4>1, <4>3, <4>5
      <3>3. CASE was # None /\ i = k + 1 /\ t = tl
        <4>1. v[i].at = ts /\ v[i].ts = ts /\ v[i].track = tl
          BY <1>2, <3>3
        <4> QED  BY <4>1 DEF TimeOf
      <3>4. CASE was # None /\ i = k + 1 /\ t # tl
        <4>1. now = was /\ v[i].at = was /\ v[i].track # tl
          BY <1>2, <1>5, <1>6, <3>4
        <4>2. now \in Nat /\ k + 1 \in Nat /\ Len(v) = k + 1
          BY <1>2, <1>3, <1>11
        <4>3. \A j \in 1 .. k + 1 : v[j].track = tl => v[j].ts \in Nat /\ v[j].ts <= now
          BY <1>2, <1>3, <1>4, <1>9, <2>3
        <4>4. TimeOf(v, tl, i) = now
          BY <2>4, <3>4, <4>1, <4>2, <4>3, LastTime
        <4> QED  BY <4>1, <4>4
      <3> QED  BY <1>9, <3>1, <3>2, <3>3, <3>4
    <2> QED  BY <2>3, <2>4, <2>5, <2>6
  <1>12. Timeline' = tl /\ newest' = now /\ Len(Written') = k + 1 /\ Written' = v /\ letGo' = h
         /\ Len(letGo') = m
    BY <1>1, <1>2, <1>3 DEF tl, now
  <1> QED  BY <1>10, <1>11, <1>12 DEF Timed

\* What leaves the timeline and what is kept alone leaves it timed.
LEMMA SameTimed ==
    ASSUME Timed, UNCHANGED <<kept, keyTrack>>
    PROVE  Timed'
  <1>1. Written' = Written /\ Timeline' = Timeline /\ letGo' = letGo /\ newest' = newest
    BY DEF Timeline, Written, kept
  <1> QED  BY <1>1 DEF Timed

\* Only where a run begins is its timeline another.
LEMMA SameTimeline ==
    ASSUME FromWithin
    PROVE  BeginRun \/ UNCHANGED keyTrack
  <1>1. ASSUME NEW key \in KeyTracks, Publish(key) PROVE BeginRun
    BY <1>1 DEF Publish
  <1>2. CASE Close
    BY <1>2 DEF Close, run_
  <1>3. ASSUME NEW p \in Publications, Seek(p) PROVE UNCHANGED keyTrack
    BY <1>3 DEF Seek, run_
  <1>4. ASSUME NEW p, NEW t, NEW key, NEW ts, Write(p, t, key, ts)
        PROVE  UNCHANGED keyTrack
    BY <1>4 DEF Write, run_
  <1>5. ASSUME NEW p, NEW t, WriteLeftOver(p, t) PROVE UNCHANGED keyTrack
    BY <1>5 DEF WriteLeftOver, run_
  <1>6. ASSUME NEW p, NEW t, NEW how, End(p, t, how) PROVE UNCHANGED keyTrack
    BY <1>6 DEF End
  <1>7. ASSUME NEW p, NEW t, Flush(p, t) PROVE UNCHANGED keyTrack
    BY <1>7 DEF Flush, FlushTrack, run_
  <1> QED  BY <1>1, <1>2, <1>3, <1>4, <1>5, <1>6, <1>7 DEF FromWithin, Writers

\* A run that begins has nothing written.
LEMMA BeganTimed ==
    ASSUME BeginRun
    PROVE  Timed'
  <1>1. letGo' = <<>> /\ entries' = <<>> /\ newest' = None
    BY DEF BeginRun
  <1>2. Written' = <<>> \o <<>>
    BY <1>1 DEF Written
  <1>3. Len(<<>> \o <<>>) = 0 /\ Len(<<>>) = 0
    BY EmptySeq, ConcatProperties
  <1> QED  BY <1>1, <1>2, <1>3 DEF Timed

\* Nor has a broadcast nobody has published to.
LEMMA TimedInit == Init => Timed
  <1> SUFFICES ASSUME Init PROVE Timed
    OBVIOUS
  <1>1. letGo = <<>> /\ entries = <<>> /\ newest = None
    BY DEF Init
  <1>2. Written = <<>> \o <<>>
    BY <1>1 DEF Written
  <1>3. Len(<<>> \o <<>>) = 0 /\ Len(<<>>) = 0
    BY EmptySeq, ConcatProperties
  <1> QED  BY <1>1, <1>2, <1>3 DEF Timed

\* Every step leaves what is kept timed.
LEMMA TimedNext == Held /\ Timed /\ [Next]_vars => Timed'
  <1> SUFFICES ASSUME Held, Timed, [Next]_vars PROVE Timed'
    OBVIOUS
  <1>1. KeptTyped /\ RunTyped /\ SinksTyped
    BY DEF Held, TypeOK
  <1>2. KeptTyped'
    BY HeldNext DEF Held, TypeOK
  <1>3. CASE FromWithin
    <2>1. Writes \/ (BeginRun /\ WakeAll) \/ Untouched
      BY <1>1, <1>3, FromWithinIs
    <2>2. CASE Writes
      <3>0. PICK p \in Publications, t \in Tracks, ts \in Times :
               \E all, n : UNCHANGED run_ /\ Wrote(p, t, ts, all, n)
        BY <2>2 DEF Writes
      <3>1. PICK all, n : UNCHANGED run_ /\ Wrote(p, t, ts, all, n)
        BY <3>0
      <3>2. UNCHANGED keyTrack
        BY <3>1 DEF run_
      <3> QED  BY <1>1, <1>2, <3>1, <3>2, WroteTimed
    <2>3. CASE BeginRun
      BY <2>3, BeganTimed
    <2>4. CASE Untouched
      <3>1. BeginRun \/ UNCHANGED <<kept, keyTrack>>
        BY <1>3, <2>4, SameTimeline DEF Untouched
      <3> QED  BY <3>1, BeganTimed, SameTimed
    <2> QED  BY <2>1, <2>2, <2>3, <2>4
  <1>4. CASE TheReaders
    <2>1. UNCHANGED <<kept, keyTrack>>
      BY <1>4, ReadersTurn DEF Turned, run_
    <2> QED  BY <2>1, SameTimed
  <1>5. CASE UNCHANGED vars
    BY <1>5, SameTimed DEF vars, run_
  <1> QED  BY <1>3, <1>4, <1>5 DEF Next, FromWithin

\* No packet of the last `retain` of the run is let go of, while somebody
\* reads, but for the bound (State::write).
THEOREM RecentIsKeptHolds == Spec => []RecentIsKept
  <1>1. Held /\ Timed => RecentIsKept
    <2> SUFFICES ASSUME Held, Timed, NEW i \in DOMAIN letGo, letGo[i].why = "retain"
                 PROVE  newest - TrueTime(i) > Retain
      BY DEF RecentIsKept
    <2>1. /\ DOMAIN Written = 1 .. Len(Written) /\ i \in 1 .. Len(letGo) /\ i \in 1 .. Len(Written)
          /\ Written[i] = letGo[i]
      BY LetGoIs DEF Held, TypeOK
    <2>2. TrueTime(i) = TimeOf(Written, Timeline, i)
      BY <2>1 DEF TrueTime, TimeOf
    <2>3. /\ newest # None /\ newest - letGo[i].at > Retain
          /\ Written[i].at = TimeOf(Written, Timeline, i)
      BY <2>1 DEF Timed
    <2> QED  BY <2>1, <2>2, <2>3
  <1> QED  BY AlwaysHeld, TimedInit, TimedNext, <1>1, PTL DEF Spec

====
