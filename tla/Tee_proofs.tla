----------------------------- MODULE Tee_proofs -----------------------------
(***************************************************************************)
(* What Tee.tla promises for any number of branches, callers, buffers and  *)
(* calls: what is kept for a branch is bounded; Finished is earned, and no *)
(* end is missed; a held branch gets no buffer, and a finished one nothing *)
(* more of what is handed out; what each branch hears is in order; and     *)
(* playing on, nothing a branch is to have is kept back or lost.           *)
(***************************************************************************)
EXTENDS Tee, Stepwise, FiniteSetTheorems, SequenceTheorems, TLAPS

-----------------------------------------------------------------------------
(* The invariant, in parts.                                                *)

ItemsTo(tl) == {item \in Items : item.tl <= tl}
Message == {"Pause", "Resume", "Flush", "Seek", "Preroll"}

\* What is left of a call that goes on to play, of one that stays paused, and
\* of a step.
ToPlaying ==
    {<<"Resume">>,
     <<"Pause", "Resume">>,
     <<"await", "Pause", "Resume">>,
     <<"Preroll", "await", "Pause", "Resume">>,
     <<"Seek", "Preroll", "await", "Pause", "Resume">>,
     <<"Flush", "Seek", "Preroll", "await", "Pause", "Resume">>,
     <<"Pause", "Flush", "Seek", "Preroll", "await", "Pause", "Resume">>}
ToPaused ==
    {<<"Pause">>,
     <<"await", "Pause">>,
     <<"Preroll", "await", "Pause">>,
     <<"Seek", "Preroll", "await", "Pause">>,
     <<"Flush", "Seek", "Preroll", "await", "Pause">>,
     <<"Step", "await", "Pause">>,
     <<"Pause", "Step", "await", "Pause">>}

Flushing ==
    {<<"Flush", "Seek", "Preroll", "await", "Pause", "Resume">>,
     <<"Pause", "Flush", "Seek", "Preroll", "await", "Pause", "Resume">>,
     <<"Flush", "Seek", "Preroll", "await", "Pause">>}
Awaiting == {<<"await", "Pause">>, <<"await", "Pause", "Resume">>}

\* The pipeline, its call, and the count of timelines against the bound.
PipeTypes ==
    /\ phase \in {"playing", "paused", "prerolling"}
    /\ context \in [on : BOOLEAN, expected : SUBSET Branches, ready : SUBSET Branches]
    /\ context.ready \subseteq context.expected
    /\ paused \in BOOLEAN /\ stepped \in BOOLEAN
    /\ todo \in {<<>>} \cup ToPlaying \cup ToPaused
    /\ asked \in Message \cup {None}
    /\ timeline \in Nat /\ ops \in 0 .. MaxOps
    /\ timeline <= ops /\ (todo \in Flushing => timeline < ops)

SourceTypes ==
    source \in [at : {"begin", "running", "ended"}, made : 0 .. Length,
                from : 0 .. Length, held : BOOLEAN]

\* Where the source's thread has a branch in hand, and has its pad.
AtBranch == {"locking", "pushing", "reporting", "owingLocks", "owingHolds"}
HasPad == {"pushing", "reporting", "owingHolds"}
Owing == {"owing", "owingLocks", "owingHolds"}
Handing == {"handing", "locking", "pushing", "reporting"}

TeeTypes ==
    /\ tee \in [at : {"idle", "flowing"} \cup Owing \cup Handing,
                item : ItemsTo(timeline), msg : Message \cup {None},
                left : SUBSET Branches, push : Seq(ItemsTo(timeline))]
    /\ segment \in Seq(ItemsTo(timeline)) /\ Len(segment) <= 1
    /\ segment # <<>> => segment[1].is = "segment"
    /\ owed \in [Branches -> Seq(ItemsTo(timeline))]
    /\ tee.at \in AtBranch => tee.left # {}
    /\ tee.at \in {"locking", "pushing"} => tee.push # <<>>
    /\ tee.at = "owingLocks" => owed[Branch] # <<>>

\* What is kept for a branch is bounded but for the stream's events.
Buffers(s) == {i \in 1 .. Len(s) : s[i].is = "buffer"}
OwedBounded == \A b \in Branches : Cardinality(Buffers(owed[b])) <= MaxOwed

ListTypes ==
    attached \subseteq Branches /\ active \subseteq attached /\ finished \subseteq Branches

TerminalTypes ==
    /\ pad \in [Branches -> [flushing : BOOLEAN, ended : BOOLEAN,
                             by : Threads \cup {None, "unbuilt"}]]
    /\ on \in [Branches -> Never .. timeline]
    /\ got \in [Branches -> Seq(Items)]
    /\ heard \in [Branches -> SUBSET (Never .. MaxOps)]
    /\ ended \in [Branches -> Never .. timeline]
    /\ posted \in Never .. timeline

CheckTypes ==
    check \in [Threads -> [at : {None, "graph", "timeline", "compare"},
                           terminals : SUBSET Branches, current : 0 .. timeline]]

CallTypes ==
    /\ call \in [Callers -> [at : {"idle", "finishing", "reporting", "removing"},
                             branch : Branches \cup {0}, failed : BOOLEAN]]
    /\ \A c \in Callers : call[c].at # "idle" => call[c].branch \in Branches

\* Who has which pad; a branch not built yet has taken no part in anything.
Locks ==
    /\ tee.at \in HasPad => pad[Branch].by = Source
    /\ \A c \in Callers : call[c].at = "reporting" => pad[call[c].branch].by = c
    /\ \A b \in Branches :
           pad[b].by = "unbuilt" =>
               /\ b \notin attached /\ b \notin finished /\ b \notin context.expected
               /\ ended[b] = Never

\* Every end that counts was heard.
Earned == \A b \in Branches : ended[b] # Never => ended[b] \in heard[b]

\* A finished branch is no longer in the Tee's way, but where it has its pad.
Over ==
    /\ finished \cap active = {}
    /\ tee.at = "pushing" => Branch \notin finished

AllOver == attached # {} /\ \A b \in attached : HasEnded(b)

\* Thread t is about to say Finished of the current timeline.
WillSay(t) ==
    \/ check[t].at = "graph"
    \/ /\ check[t].at \in {"timeline", "compare"}
       /\ check[t].terminals # {}
       /\ \A b \in check[t].terminals : HasEnded(b)
       /\ check[t].at = "compare" => check[t].current = timeline

\* Once all have ended, Finished has been said or somebody will.
Covered ==
    AllOver /\ timeline \notin unheard =>
        timeline \in said \/ \E t \in Threads : WillSay(t)

\* The source stands still, by a pause it took.
Still == source.held /\ source.at # "begin" /\ tee.at = "idle"

\* Where a call is, and what that says of the source.
Plan ==
    /\ stepped => paused
    /\ todo \in ToPlaying => ~paused
    /\ todo \in ToPaused => paused
    /\ asked = "Resume" => todo = <<>> /\ ~paused
    /\ asked = "Pause" => phase = "paused" /\ (todo = <<>> => paused)
    /\ asked \in {"Flush", "Seek"} => todo # <<>>
    /\ asked = "Preroll" => todo \in Awaiting
    /\ asked = "Flush" => todo[1] = "Seek"
    /\ asked = "Seek" => todo[1] = "Preroll"
    /\ asked = "Pause" /\ todo # <<>> => todo[1] \in {"Flush", "Step", "Resume"}
    /\ asked = None /\ todo = <<>> /\ paused => Still /\ phase = "paused"
    /\ asked = None /\ todo # <<>> /\ todo[1] \in {"Flush", "Seek", "Preroll", "Step"}
           => Still /\ phase = "paused"
    /\ asked \in {"Flush", "Seek", "Preroll"} =>
           source.held /\ source.at # "begin" /\ (tee.at = "idle" \/ tee.msg = asked)
    /\ asked \in {"Flush", "Seek"} => phase = "paused"
    /\ tee.at = "idle" => tee.msg = None
    /\ source.at = "begin" => tee.at = "idle"
    /\ tee.at \in {"flowing"} \cup Owing => tee.msg = asked /\ tee.msg # None
    /\ tee.at \in Handing => tee.msg = None \/ (tee.msg = "Seek" /\ asked = "Seek")

\* What is kept is kept for a held branch, and is handed on before it is held
\* again; what it is being handed has one item in it that it is to be held at.
HeldBack ==
    /\ context.on /\ asked # "Preroll" =>
           \A b \in Branches : ~IsReady(b) => owed[b] = <<>>
    /\ tee.at \in Owing => \A b \in Branches \ tee.left : owed[b] = <<>>
    /\ tee.at \in {"locking", "pushing"} /\ context.on /\ Branch \in context.expected =>
           /\ \A i \in 1 .. Len(tee.push) - 1 : tee.push[i].is = "segment"
           /\ tee.at = "locking" /\ IsReady(Branch) => Branch \notin active
           /\ tee.at = "pushing" /\ IsReady(Branch) => Branch \notin attached

Inv ==
    /\ PipeTypes /\ SourceTypes /\ TeeTypes /\ OwedBounded
    /\ ListTypes /\ TerminalTypes /\ CheckTypes /\ CallTypes
    /\ Locks /\ Earned /\ Over /\ Covered /\ Plan /\ HeldBack

-----------------------------------------------------------------------------
(* What the parts are made of.                                             *)

\* The bounds are numbers, and the branches numbers from 1 on.
LEMMA Numbers ==
    /\ Length \in Nat /\ MaxOwed \in Nat /\ MaxOps \in Nat
    /\ Branches \subseteq Nat \ {0} /\ Initial \subseteq Branches /\ Targets \subseteq 0 .. Length
    /\ Source \notin Callers /\ None \notin Callers /\ "unbuilt" \notin Callers
    /\ Source # None /\ Source # "unbuilt" /\ None # "unbuilt"
  <1>1. Cardinality(Branches) \in Nat
    BY BranchesAssumption, FS_CardinalityType
  <1> QED  BY <1>1, BranchesAssumption, BoundsAssumption DEF Source, None

\* It is what Min stands for.
LEMMA MinIs ==
    ASSUME NEW S, S \subseteq Nat, S # {}
    PROVE  Min(S) \in S
  BY LeastOf DEF Min

\* The branch in hand is one of those left.
LEMMA BranchIn ==
    ASSUME TeeTypes, tee.left # {}
    PROVE  Branch \in tee.left /\ Branch \in Branches
  <1>1. tee.left \subseteq Branches
    BY DEF TeeTypes
  <1>2. tee.left \subseteq Nat
    BY <1>1, Numbers
  <1> QED  BY <1>1, <1>2, MinIs DEF Branch

\* What a sequence is made of a larger set is too.
LEMMA SeqOfMore ==
    ASSUME NEW A, NEW B, A \subseteq B, NEW s \in Seq(A)
    PROVE  s \in Seq(B)
  <1>1. Len(s) \in Nat /\ s \in [1 .. Len(s) -> A]
    BY LenProperties, SeqDef
  <1> QED  BY <1>1, SeqDef

\* The items of a timeline are items of a later one.
LEMMA ItemsOfLater ==
    ASSUME NEW tl \in Int, NEW later \in Int, tl <= later
    PROVE  ItemsTo(tl) \subseteq ItemsTo(later)
  BY DEF ItemsTo, Items, Never

\* Concatenation, item by item.
LEMMA Joins ==
    ASSUME NEW S, NEW s \in Seq(S), NEW t \in Seq(S), NEW u \in Seq(S),
           Len(u) = Len(s) + Len(t),
           \A i \in 1 .. Len(s) : u[i] = s[i],
           \A i \in 1 .. Len(t) : u[i + Len(s)] = t[i]
    PROVE  s \o t = u
  <1>1. s \o t \in Seq(S) /\ Len(s \o t) = Len(u)
    BY ConcatProperties
  <1>2. \A i \in 1 .. Len(u) : (s \o t)[i] = u[i]
    <2> TAKE i \in 1 .. Len(u)
    <2>1. (s \o t)[i] = IF i <= Len(s) THEN s[i] ELSE t[i - Len(s)]
      BY ConcatProperties
    <2>2. CASE i <= Len(s)
      BY <2>1, <2>2
    <2>3. CASE i > Len(s)
      <3>1. i - Len(s) \in 1 .. Len(t)
        BY <2>3, LenProperties
      <3>2. u[i - Len(s) + Len(s)] = t[i - Len(s)]
        BY <3>1
      <3>3. i - Len(s) + Len(s) = i
        BY <2>3, LenProperties
      <3> QED BY <2>1, <2>3, <3>2, <3>3
    <2> QED BY <2>2, <2>3, LenProperties
  <1> QED  BY <1>1, <1>2, SeqEqual

Stage == Message \cup {"await", "Step"}

\* A sequence of one at most that is not empty is of one.
LEMMA OneLong ==
    ASSUME NEW S, NEW s \in Seq(S), Len(s) <= 1, s # <<>>
    PROVE  Len(s) = 1
  <1>1. Len(s) \in Nat
    OBVIOUS
  <1>2. Len(s) # 0
    BY EmptySeq
  <1> QED  BY <1>1, <1>2

\* What is put behind a sequence leaves its items where they are.
LEMMA OneMore ==
    ASSUME NEW S, NEW s \in Seq(S), NEW x \in S
    PROVE  /\ s \o <<x>> \in Seq(S) /\ Len(s \o <<x>>) = Len(s) + 1
           /\ \A i \in 1 .. Len(s) : (s \o <<x>>)[i] = s[i]
  <1>1. <<x>> \in Seq(S) /\ Len(<<x>>) = 1
    OBVIOUS
  <1>2. Len(s) \in Nat
    OBVIOUS
  <1>3. s \o <<x>> \in Seq(S) /\ Len(s \o <<x>>) = Len(s) + Len(<<x>>)
    BY <1>1, ConcatProperties
  <1>4. ASSUME NEW i \in 1 .. Len(s) PROVE (s \o <<x>>)[i] = s[i]
    <2>1. i \in 1 .. Len(s) + Len(<<x>>) /\ i <= Len(s)
      BY <1>1, <1>2
    <2> QED BY <1>1, <2>1, ConcatProperties
  <1> QED  BY <1>1, <1>3, <1>4

\* Two sequences and an item, one behind the other.
LEMMA TwoAndOne ==
    ASSUME NEW S, NEW s \in Seq(S), NEW t \in Seq(S), NEW x \in S
    PROVE  /\ s \o t \in Seq(S) /\ s \o t \o <<x>> \in Seq(S)
           /\ Len(s \o t \o <<x>>) = Len(s \o t) + 1
           /\ \A i \in 1 .. Len(s \o t) : (s \o t \o <<x>>)[i] = (s \o t)[i]
           /\ s = <<>> => s \o t = t
  <1>1. s \o t \in Seq(S)
    OBVIOUS
  <1>2. s = <<>> => s \o t = t
    BY ConcatEmptySeq
  <1> QED  BY <1>1, <1>2, OneMore
\* The stages put together.
LEMMA SeekThenPlays ==
    <<"Flush", "Seek", "Preroll", "await", "Pause">> \o <<"Resume">>
        = <<"Flush", "Seek", "Preroll", "await", "Pause", "Resume">>
  <1> DEFINE s == <<"Flush", "Seek", "Preroll", "await", "Pause">>
             t == <<"Resume">>
             u == <<"Flush", "Seek", "Preroll", "await", "Pause", "Resume">>
  <1>1. s \in Seq(Stage) /\ t \in Seq(Stage) /\ u \in Seq(Stage)
    BY SMT DEF Stage, Message
  <1>2. Len(s) = 5 /\ Len(t) = 1 /\ Len(u) = 6
    BY SMT
  <1>3. u[1] = s[1] /\ u[2] = s[2] /\ u[3] = s[3] /\ u[4] = s[4] /\ u[5] = s[5]
    BY SMT
  <1>4. u[6] = t[1]
    BY SMT
  <1> HIDE DEF s, t, u
  <1>5. \A i \in 1 .. Len(s) : u[i] = s[i]
    BY <1>2, <1>3
  <1>6. \A i \in 1 .. Len(t) : u[i+Len(s)] = t[i]
    BY <1>2, <1>4
  <1>7. Len(u) = Len(s) + Len(t)
    BY <1>2
  <1>8. s \o t = u
    <2> HIDE DEF Stage
    <2> QED BY <1>1, <1>5, <1>6, <1>7, Joins
  <1> QED  BY <1>8 DEF s, t, u

\* The stages put together.
LEMMA PausesThenSeeks ==
    <<"Pause">> \o <<"Flush", "Seek", "Preroll", "await", "Pause">>
        = <<"Pause", "Flush", "Seek", "Preroll", "await", "Pause">>
  <1> DEFINE s == <<"Pause">>
             t == <<"Flush", "Seek", "Preroll", "await", "Pause">>
             u == <<"Pause", "Flush", "Seek", "Preroll", "await", "Pause">>
  <1>1. s \in Seq(Stage) /\ t \in Seq(Stage) /\ u \in Seq(Stage)
    BY SMT DEF Stage, Message
  <1>2. Len(s) = 1 /\ Len(t) = 5 /\ Len(u) = 6
    BY SMT
  <1>3. u[1] = s[1]
    BY SMT
  <1>4. u[2] = t[1] /\ u[3] = t[2] /\ u[4] = t[3] /\ u[5] = t[4] /\ u[6] = t[5]
    BY SMT
  <1> HIDE DEF s, t, u
  <1>5. \A i \in 1 .. Len(s) : u[i] = s[i]
    BY <1>2, <1>3
  <1>6. \A i \in 1 .. Len(t) : u[i+Len(s)] = t[i]
    BY <1>2, <1>4
  <1>7. Len(u) = Len(s) + Len(t)
    BY <1>2
  <1>8. s \o t = u
    <2> HIDE DEF Stage
    <2> QED BY <1>1, <1>5, <1>6, <1>7, Joins
  <1> QED  BY <1>8 DEF s, t, u

\* The stages put together.
LEMMA PausesSeeksPlays ==
    <<"Pause", "Flush", "Seek", "Preroll", "await", "Pause">> \o <<"Resume">>
        = <<"Pause", "Flush", "Seek", "Preroll", "await", "Pause", "Resume">>
  <1> DEFINE s == <<"Pause", "Flush", "Seek", "Preroll", "await", "Pause">>
             t == <<"Resume">>
             u == <<"Pause", "Flush", "Seek", "Preroll", "await", "Pause", "Resume">>
  <1>1. s \in Seq(Stage) /\ t \in Seq(Stage) /\ u \in Seq(Stage)
    BY SMT DEF Stage, Message
  <1>2. Len(s) = 6 /\ Len(t) = 1 /\ Len(u) = 7
    BY SMT
  <1>3. u[1] = s[1] /\ u[2] = s[2] /\ u[3] = s[3] /\ u[4] = s[4] /\ u[5] = s[5] /\ u[6] = s[6]
    BY SMT
  <1>4. u[7] = t[1]
    BY SMT
  <1> HIDE DEF s, t, u
  <1>5. \A i \in 1 .. Len(s) : u[i] = s[i]
    BY <1>2, <1>3
  <1>6. \A i \in 1 .. Len(t) : u[i+Len(s)] = t[i]
    BY <1>2, <1>4
  <1>7. Len(u) = Len(s) + Len(t)
    BY <1>2
  <1>8. s \o t = u
    <2> HIDE DEF Stage
    <2> QED BY <1>1, <1>5, <1>6, <1>7, Joins
  <1> QED  BY <1>8 DEF s, t, u

\* The stages put together.
LEMMA PausesThenSteps ==
    <<"Pause">> \o <<"Step", "await", "Pause">>
        = <<"Pause", "Step", "await", "Pause">>
  <1> DEFINE s == <<"Pause">>
             t == <<"Step", "await", "Pause">>
             u == <<"Pause", "Step", "await", "Pause">>
  <1>1. s \in Seq(Stage) /\ t \in Seq(Stage) /\ u \in Seq(Stage)
    BY SMT DEF Stage, Message
  <1>2. Len(s) = 1 /\ Len(t) = 3 /\ Len(u) = 4
    BY SMT
  <1>3. u[1] = s[1]
    BY SMT
  <1>4. u[2] = t[1] /\ u[3] = t[2] /\ u[4] = t[3]
    BY SMT
  <1> HIDE DEF s, t, u
  <1>5. \A i \in 1 .. Len(s) : u[i] = s[i]
    BY <1>2, <1>3
  <1>6. \A i \in 1 .. Len(t) : u[i+Len(s)] = t[i]
    BY <1>2, <1>4
  <1>7. Len(u) = Len(s) + Len(t)
    BY <1>2
  <1>8. s \o t = u
    <2> HIDE DEF Stage
    <2> QED BY <1>1, <1>5, <1>6, <1>7, Joins
  <1> QED  BY <1>8 DEF s, t, u

\* What a stage leaves of its call.
StageLeaves(s) ==
    /\ s # <<>> /\ Head(s) = s[1] /\ s[1] \in Stage
    /\ s[1] = "Resume" => Tail(s) = <<>> /\ s \in ToPlaying
    /\ s[1] = "Pause" => IF Tail(s) = <<>> THEN s \in ToPaused
                         ELSE Tail(s)[1] \in {"Flush", "Step", "Resume"}
    /\ s[1] = "await" => Tail(s) # <<>> /\ Tail(s)[1] = "Pause"
    /\ s[1] \in {"Preroll", "Step"} => Tail(s) \in Awaiting
    /\ s[1] = "Seek" => Tail(s) # <<>> /\ Tail(s)[1] = "Preroll"
    /\ s[1] = "Flush" =>
           Tail(s) # <<>> /\ Tail(s)[1] = "Seek" /\ s \in Flushing /\ Tail(s) \notin Flushing
    /\ s \in ToPlaying => Tail(s) \in ToPlaying \cup {<<>>}
    /\ s \in ToPaused => Tail(s) \in ToPaused \cup {<<>>}
    /\ Tail(s) \in Flushing => s \in Flushing
    /\ s \in Awaiting => s[1] = "await"
    /\ s \in ToPlaying => s \notin ToPaused

\* It leaves what is left of the same call.
LEMMA Leaves ==
    ASSUME NEW s \in ToPlaying \cup ToPaused
    PROVE  StageLeaves(s)
  <1>1. CASE s = <<"Resume">>
    <2>1. Head(s) = "Resume" /\ s[1] = "Resume" /\ s # <<>>
      BY <1>1
    <2>2. Tail(s) = <<>>
      BY <1>1
    <2> QED BY <1>1, <2>1, <2>2 DEF StageLeaves, Stage, Message, ToPlaying, ToPaused,
        Flushing, Awaiting
  <1>2. CASE s = <<"Pause", "Resume">>
    <2>1. Head(s) = "Pause" /\ s[1] = "Pause" /\ s # <<>>
      BY <1>2
    <2>2. Tail(s) = <<"Resume">>
      BY <1>2
    <2>3. /\ <<"Resume">>[1] = "Resume"
          /\ <<"Resume">> # <<>>
      OBVIOUS
    <2> QED BY <1>2, <2>1, <2>2, <2>3 DEF StageLeaves, Stage, Message, ToPlaying, ToPaused,
        Flushing, Awaiting
  <1>3. CASE s = <<"await", "Pause", "Resume">>
    <2>1. Head(s) = "await" /\ s[1] = "await" /\ s # <<>>
      BY <1>3
    <2>2. Tail(s) = <<"Pause", "Resume">>
      BY <1>3
    <2>3. /\ <<"Pause", "Resume">>[1] = "Pause"
          /\ <<"Pause", "Resume">> # <<>>
      OBVIOUS
    <2> QED BY <1>3, <2>1, <2>2, <2>3 DEF StageLeaves, Stage, Message, ToPlaying, ToPaused,
        Flushing, Awaiting
  <1>4. CASE s = <<"Preroll", "await", "Pause", "Resume">>
    <2>1. Head(s) = "Preroll" /\ s[1] = "Preroll" /\ s # <<>>
      BY <1>4
    <2>2. Tail(s) = <<"await", "Pause", "Resume">>
      BY <1>4
    <2>3. /\ <<"await", "Pause", "Resume">>[1] = "await"
          /\ <<"await", "Pause", "Resume">> # <<>>
      OBVIOUS
    <2> QED BY <1>4, <2>1, <2>2, <2>3 DEF StageLeaves, Stage, Message, ToPlaying, ToPaused,
        Flushing, Awaiting
  <1>5. CASE s = <<"Seek", "Preroll", "await", "Pause", "Resume">>
    <2>1. Head(s) = "Seek" /\ s[1] = "Seek" /\ s # <<>>
      BY <1>5
    <2>2. Tail(s) = <<"Preroll", "await", "Pause", "Resume">>
      BY <1>5
    <2>3. /\ <<"Preroll", "await", "Pause", "Resume">>[1] = "Preroll"
          /\ <<"Preroll", "await", "Pause", "Resume">> # <<>>
      OBVIOUS
    <2> QED BY <1>5, <2>1, <2>2, <2>3 DEF StageLeaves, Stage, Message, ToPlaying, ToPaused,
        Flushing, Awaiting
  <1>6. CASE s = <<"Flush", "Seek", "Preroll", "await", "Pause", "Resume">>
    <2>1. Head(s) = "Flush" /\ s[1] = "Flush" /\ s # <<>>
      BY <1>6
    <2>2. Tail(s) = <<"Seek", "Preroll", "await", "Pause", "Resume">>
      BY <1>6
    <2>3. /\ <<"Seek", "Preroll", "await", "Pause", "Resume">>[1] = "Seek"
          /\ <<"Seek", "Preroll", "await", "Pause", "Resume">> # <<>>
      OBVIOUS
    <2> QED BY <1>6, <2>1, <2>2, <2>3 DEF StageLeaves, Stage, Message, ToPlaying, ToPaused,
        Flushing, Awaiting
  <1>7. CASE s = <<"Pause", "Flush", "Seek", "Preroll", "await", "Pause", "Resume">>
    <2>1. Head(s) = "Pause" /\ s[1] = "Pause" /\ s # <<>>
      BY <1>7
    <2>2. Tail(s) = <<"Flush", "Seek", "Preroll", "await", "Pause", "Resume">>
      BY <1>7
    <2>3. /\ <<"Flush", "Seek", "Preroll", "await", "Pause", "Resume">>[1] = "Flush"
          /\ <<"Flush", "Seek", "Preroll", "await", "Pause", "Resume">> # <<>>
      OBVIOUS
    <2> QED BY <1>7, <2>1, <2>2, <2>3 DEF StageLeaves, Stage, Message, ToPlaying, ToPaused,
        Flushing, Awaiting
  <1>8. CASE s = <<"Pause">>
    <2>1. Head(s) = "Pause" /\ s[1] = "Pause" /\ s # <<>>
      BY <1>8
    <2>2. Tail(s) = <<>>
      BY <1>8
    <2> QED BY <1>8, <2>1, <2>2 DEF StageLeaves, Stage, Message, ToPlaying, ToPaused,
        Flushing, Awaiting
  <1>9. CASE s = <<"await", "Pause">>
    <2>1. Head(s) = "await" /\ s[1] = "await" /\ s # <<>>
      BY <1>9
    <2>2. Tail(s) = <<"Pause">>
      BY <1>9
    <2>3. /\ <<"Pause">>[1] = "Pause"
          /\ <<"Pause">> # <<>>
      OBVIOUS
    <2> QED BY <1>9, <2>1, <2>2, <2>3 DEF StageLeaves, Stage, Message, ToPlaying, ToPaused,
        Flushing, Awaiting
  <1>10. CASE s = <<"Preroll", "await", "Pause">>
    <2>1. Head(s) = "Preroll" /\ s[1] = "Preroll" /\ s # <<>>
      BY <1>10
    <2>2. Tail(s) = <<"await", "Pause">>
      BY <1>10
    <2>3. /\ <<"await", "Pause">>[1] = "await"
          /\ <<"await", "Pause">> # <<>>
      OBVIOUS
    <2> QED BY <1>10, <2>1, <2>2, <2>3 DEF StageLeaves, Stage, Message, ToPlaying,
        ToPaused, Flushing, Awaiting
  <1>11. CASE s = <<"Seek", "Preroll", "await", "Pause">>
    <2>1. Head(s) = "Seek" /\ s[1] = "Seek" /\ s # <<>>
      BY <1>11
    <2>2. Tail(s) = <<"Preroll", "await", "Pause">>
      BY <1>11
    <2>3. /\ <<"Preroll", "await", "Pause">>[1] = "Preroll"
          /\ <<"Preroll", "await", "Pause">> # <<>>
      OBVIOUS
    <2> QED BY <1>11, <2>1, <2>2, <2>3 DEF StageLeaves, Stage, Message, ToPlaying,
        ToPaused, Flushing, Awaiting
  <1>12. CASE s = <<"Flush", "Seek", "Preroll", "await", "Pause">>
    <2>1. Head(s) = "Flush" /\ s[1] = "Flush" /\ s # <<>>
      BY <1>12
    <2>2. Tail(s) = <<"Seek", "Preroll", "await", "Pause">>
      BY <1>12
    <2>3. /\ <<"Seek", "Preroll", "await", "Pause">>[1] = "Seek"
          /\ <<"Seek", "Preroll", "await", "Pause">> # <<>>
      OBVIOUS
    <2> QED BY <1>12, <2>1, <2>2, <2>3 DEF StageLeaves, Stage, Message, ToPlaying,
        ToPaused, Flushing, Awaiting
  <1>13. CASE s = <<"Step", "await", "Pause">>
    <2>1. Head(s) = "Step" /\ s[1] = "Step" /\ s # <<>>
      BY <1>13
    <2>2. Tail(s) = <<"await", "Pause">>
      BY <1>13
    <2>3. /\ <<"await", "Pause">>[1] = "await"
          /\ <<"await", "Pause">> # <<>>
      OBVIOUS
    <2> QED BY <1>13, <2>1, <2>2, <2>3 DEF StageLeaves, Stage, Message, ToPlaying,
        ToPaused, Flushing, Awaiting
  <1>14. CASE s = <<"Pause", "Step", "await", "Pause">>
    <2>1. Head(s) = "Pause" /\ s[1] = "Pause" /\ s # <<>>
      BY <1>14
    <2>2. Tail(s) = <<"Step", "await", "Pause">>
      BY <1>14
    <2>3. /\ <<"Step", "await", "Pause">>[1] = "Step"
          /\ <<"Step", "await", "Pause">> # <<>>
      OBVIOUS
    <2> QED BY <1>14, <2>1, <2>2, <2>3 DEF StageLeaves, Stage, Message, ToPlaying,
        ToPaused, Flushing, Awaiting
  <1> QED  BY <1>1, <1>2, <1>3, <1>4, <1>5, <1>6, <1>7, <1>8, <1>9, <1>10, <1>11, <1>12,
      <1>13, <1>14 DEF ToPlaying, ToPaused

\* What is left while one is awaited.
LEMMA AwaitingIs == Awaiting \subseteq ToPlaying \cup ToPaused
  BY DEF Awaiting, ToPlaying, ToPaused

\* A call begins with a pause, unless it is one already, or only goes on.
LEMMA StagesAre ==
    ASSUME NEW o \in {"resume", "seek", "step"}, paused \in BOOLEAN, stepped \in BOOLEAN,
           stepped => paused
    PROVE  /\ o = "step" \/ (o = "seek" /\ paused) => Stages(o) \in ToPaused
           /\ ~(o = "step" \/ (o = "seek" /\ paused)) => Stages(o) \in ToPlaying
           /\ ~paused => Stages(o)[1] \in {"Pause", "Resume"}
  <1>1. CASE o = "resume" /\ ~stepped
    <2>1. Stages(o) = <<"Resume">>
      BY <1>1 DEF Stages
    <2> QED BY <1>1, <2>1 DEF ToPlaying
  <1>2. CASE o = "resume" /\ stepped
    <2>1. Stages(o) = <<"Flush", "Seek", "Preroll", "await", "Pause", "Resume">>
      BY <1>2, SeekThenPlays DEF Stages, SeekStages
    <2> QED BY <1>2, <2>1 DEF ToPlaying
  <1>3. CASE o = "seek" /\ paused
    <2>1. Stages(o) = <<"Flush", "Seek", "Preroll", "await", "Pause">>
      <3>1. SeekStages \in Seq(Stage)
        BY SMT DEF SeekStages, Stage, Message
      <3>2. <<>> \o SeekStages = SeekStages /\ SeekStages \o <<>> = SeekStages
        <4> HIDE DEF Stage
        <4> QED BY <3>1, ConcatEmptySeq
      <3> QED  BY <1>3, <3>2 DEF Stages, SeekStages, PauseFirst, GoOn
    <2> QED BY <1>3, <2>1 DEF ToPaused
  <1>4. CASE o = "seek" /\ ~paused
    <2>1. Stages(o) = <<"Pause", "Flush", "Seek", "Preroll", "await", "Pause", "Resume">>
      <3>1. Stages(o) = (<<"Pause">> \o SeekStages) \o <<"Resume">>
        BY <1>4 DEF Stages, PauseFirst, GoOn
      <3> QED  BY <3>1, PausesThenSeeks, PausesSeeksPlays DEF SeekStages
    <2> QED BY <1>4, <2>1 DEF ToPlaying
  <1>5. CASE o = "step" /\ paused
    <2>1. Stages(o) = <<"Step", "await", "Pause">>
      <3>1. <<"Step", "await", "Pause">> \in Seq(Stage)
        BY SMT DEF Stage, Message
      <3>2. <<>> \o <<"Step", "await", "Pause">> = <<"Step", "await", "Pause">>
        <4> HIDE DEF Stage
        <4> QED BY <3>1, ConcatEmptySeq
      <3> QED  BY <1>5, <3>2 DEF Stages, PauseFirst
    <2> QED BY <1>5, <2>1 DEF ToPaused
  <1>6. CASE o = "step" /\ ~paused
    <2>1. Stages(o) = <<"Pause", "Step", "await", "Pause">>
      BY <1>6, PausesThenSteps DEF Stages, PauseFirst
    <2> QED BY <1>6, <2>1 DEF ToPaused
  <1> QED  BY <1>1, <1>2, <1>3, <1>4, <1>5, <1>6

-----------------------------------------------------------------------------
(* Each part stays as long as what it is about does.                       *)

\* So does what is said of the pipeline and its call.
LEMMA PipeTypesStay ==
    ASSUME PipeTypes, UNCHANGED <<phase, context, timeline, todo, asked, paused, stepped, ops>>
    PROVE  PipeTypes'
  BY DEF PipeTypes

\* So does what is said of the source.
LEMMA SourceTypesStay ==
    ASSUME SourceTypes, UNCHANGED <<source>>
    PROVE  SourceTypes'
  BY DEF SourceTypes

\* So does what is said of what the Tee has in hand.
LEMMA TeeTypesStay ==
    ASSUME TeeTypes, UNCHANGED <<tee, segment, owed, timeline>>
    PROVE  TeeTypes'
  BY DEF TeeTypes, Branch

\* So does what is said of the bound on what is kept.
LEMMA OwedBoundedStay ==
    ASSUME OwedBounded, UNCHANGED <<owed>>
    PROVE  OwedBounded'
  BY DEF OwedBounded

\* So does what is said of the lists of branches.
LEMMA ListTypesStay ==
    ASSUME ListTypes, UNCHANGED <<attached, active, finished>>
    PROVE  ListTypes'
  BY DEF ListTypes

\* So does what is said of the pads and terminals.
LEMMA TerminalTypesStay ==
    ASSUME TerminalTypes, UNCHANGED <<pad, on, got, heard, ended, posted, timeline>>
    PROVE  TerminalTypes'
  BY DEF TerminalTypes

\* So does what is said of the checks.
LEMMA CheckTypesStay ==
    ASSUME CheckTypes, UNCHANGED <<check, timeline>>
    PROVE  CheckTypes'
  BY DEF CheckTypes

\* So does what is said of the calls of the handle.
LEMMA CallTypesStay ==
    ASSUME CallTypes, UNCHANGED <<call>>
    PROVE  CallTypes'
  BY DEF CallTypes

\* So does what is said of the locks.
LEMMA LocksStay ==
    ASSUME Locks, UNCHANGED <<tee, pad, call, attached, finished, ended, context>>
    PROVE  Locks'
  BY DEF Locks, Branch

\* So does what is said of the ends heard.
LEMMA EarnedStay ==
    ASSUME Earned, UNCHANGED <<ended, heard>>
    PROVE  Earned'
  BY DEF Earned

\* So does what is said of the branches finished.
LEMMA OverStay ==
    ASSUME Over, UNCHANGED <<finished, active, tee>>
    PROVE  Over'
  BY DEF Over, Branch

\* So does what is said of the end that is not missed.
LEMMA CoveredStay ==
    ASSUME Covered, UNCHANGED <<attached, ended, timeline, unheard, said, check>>
    PROVE  Covered'
  BY DEF Covered, AllOver, WillSay, HasEnded

\* So does what is said of where a call is.
LEMMA PlanStay ==
    ASSUME Plan, UNCHANGED <<stepped, paused, todo, asked, phase, source, tee>>
    PROVE  Plan'
  BY DEF Plan, Still

\* So does what is said of what is held back.
LEMMA HeldBackStay ==
    ASSUME HeldBack, UNCHANGED <<context, asked, owed, tee, active, attached>>
    PROVE  HeldBack'
  BY DEF HeldBack, Branch, IsReady

-----------------------------------------------------------------------------
(* What an item handed out, or pushed, does.                               *)

\* The records of items and of the work in hand.
LEMMA ItemTypes ==
    ASSUME PipeTypes, SourceTypes
    PROVE  /\ Segment(timeline, FALSE) \in ItemsTo(timeline)
           /\ Segment(timeline, TRUE) \in ItemsTo(timeline)
           /\ Eos(timeline) \in ItemsTo(timeline) /\ Eos(-1) \in ItemsTo(timeline)
           /\ FlushOf(timeline) \in ItemsTo(timeline) /\ Nothing \in ItemsTo(timeline)
           /\ source.made < Length => Buffer(timeline, source.made + 1) \in ItemsTo(timeline)
  BY Numbers DEF PipeTypes, SourceTypes, ItemsTo, Items, Segment, Eos, FlushOf, Nothing,
                 Buffer, Never

\* Idle is a state of the Tee.
LEMMA IdleTypes ==
    ASSUME PipeTypes, SourceTypes, TeeTypes, tee' = Idle, UNCHANGED <<segment, owed,
        timeline>>
    PROVE  TeeTypes'
  <1>1. Nothing \in ItemsTo(timeline) /\ <<>> \in Seq(ItemsTo(timeline))
    BY ItemTypes
  <1>2. tee' \in [at : {"idle", "flowing"} \cup Owing \cup Handing,
                  item : ItemsTo(timeline), msg : Message \cup {None},
                  left : SUBSET Branches, push : Seq(ItemsTo(timeline))]
    BY <1>1 DEF Idle
  <1> QED  BY <1>2 DEF TeeTypes, Idle, AtBranch

\* So is an item about to be handed out.
LEMMA HandOutTypes ==
    ASSUME TeeTypes, ListTypes, NEW item \in ItemsTo(timeline), HandOut(item),
           UNCHANGED <<owed, timeline>>
    PROVE  TeeTypes' /\ tee'.at = "handing" /\ tee'.msg = tee.msg
  <1>1. tee' \in [at : {"idle", "flowing"} \cup Owing \cup Handing,
                  item : ItemsTo(timeline), msg : Message \cup {None},
                  left : SUBSET Branches, push : Seq(ItemsTo(timeline))]
    BY DEF TeeTypes, ListTypes, HandOut, Handing
  <1>2. tee'.at = "handing" /\ tee'.msg = tee.msg
    BY DEF TeeTypes, HandOut
  <1>3. /\ segment' \in Seq(ItemsTo(timeline)) /\ Len(segment') <= 1
        /\ segment' # <<>> => segment'[1].is = "segment"
    <2>1. CASE item.is = "segment"
      <3>1. segment' = <<item>>
        BY <2>1 DEF HandOut
      <3> QED  BY <2>1, <3>1
    <2>2. CASE item.is # "segment"
      <3>1. segment' = segment
        BY <2>2 DEF HandOut
      <3> QED  BY <3>1 DEF TeeTypes
    <2> QED BY <2>1, <2>2
  <1> QED  BY <1>1, <1>2, <1>3 DEF TeeTypes, AtBranch

\* What a push does to the preroll.
LEMMA PushPipe ==
    ASSUME PipeTypes, NEW t, NEW b \in Branches, NEW item, NEW by, NEW fails,
           Push(t, b, item, by, fails), UNCHANGED <<todo, asked, paused, stepped, ops>>
    PROVE  PipeTypes'
  <1>1. phase' = phase /\ timeline' = timeline
    BY DEF Push
  <1>2. /\ context' \in [on : BOOLEAN, expected : SUBSET Branches, ready : SUBSET Branches]
        /\ context'.ready \subseteq context'.expected
    BY DEF PipeTypes, Push
  <1> QED  BY <1>1, <1>2 DEF PipeTypes

\* What it does to the pad and the terminal behind it.
LEMMA PushTerminal ==
    ASSUME PipeTypes, TerminalTypes, NEW t \in Threads, NEW b \in Branches,
           NEW item \in ItemsTo(timeline), NEW by \in Threads \cup {None},
           NEW fails \in BOOLEAN, Push(t, b, item, by, fails)
    PROVE  TerminalTypes'
  <1>1. timeline' = timeline /\ posted' = posted
    BY DEF Push
  <1>2. pad' \in [Branches -> [flushing : BOOLEAN, ended : BOOLEAN,
                               by : Threads \cup {None, "unbuilt"}]]
    <2> DEFINE passes  == Passes(b, item)
               reports == Reports(b, item, fails)
               new == [flushing |-> pad[b].flushing /\ ~(passes /\ item.is = "segment"),
                       ended    |-> IF passes THEN reports ELSE pad[b].ended,
                       by       |-> by]
    <2>1. pad' = [pad EXCEPT ![b] = new]
      BY DEF Push
    <2>2. reports \in BOOLEAN
      BY DEF Reports
    <2>3. new \in [flushing : BOOLEAN, ended : BOOLEAN, by : Threads \cup {None, "unbuilt"}]
      <3>1. pad[b].ended \in BOOLEAN
        BY DEF TerminalTypes
      <3> HIDE DEF passes, reports
      <3> QED  BY <2>2, <3>1
    <2> HIDE DEF new
    <2> QED BY <2>1, <2>3 DEF TerminalTypes
  <1>3. on' \in [Branches -> Never .. timeline]
    <2>1. item.tl \in Never .. timeline
      BY DEF ItemsTo, Items, Never, PipeTypes
    <2> QED BY <2>1 DEF TerminalTypes, Push
  <1>4. got' \in [Branches -> Seq(Items)]
    <2>1. Append(got[b], item) \in Seq(Items)
      BY DEF TerminalTypes, ItemsTo
    <2>2. got' = got \/ got' = [got EXCEPT ![b] = Append(got[b], item)]
      BY DEF Push
    <2> QED BY <2>1, <2>2 DEF TerminalTypes
  <1>5. heard' \in [Branches -> SUBSET (Never .. MaxOps)]
    <2>1. HeardOn(b) \subseteq Never .. MaxOps
      BY Numbers DEF HeardOn, TerminalTypes, PipeTypes, Never
    <2>2. heard' = heard \/ heard' = [heard EXCEPT ![b] = heard[b] \cup HeardOn(b)]
      BY DEF Push
    <2> QED BY <2>1, <2>2 DEF TerminalTypes
  <1>6. ended' \in [Branches -> Never .. timeline]
    <2>1. EndsOn(b) \in Never .. timeline
      BY DEF EndsOn, TerminalTypes, PipeTypes, Never
    <2>2. ended' = ended \/ ended' = [ended EXCEPT ![b] = EndsOn(b)]
      BY DEF Push
    <2> QED BY <2>1, <2>2 DEF TerminalTypes
  <1> QED  BY <1>1, <1>2, <1>3, <1>4, <1>5, <1>6 DEF TerminalTypes

\* What it does to the checks.
LEMMA PushCheck ==
    ASSUME PipeTypes, CheckTypes, NEW t \in Threads, NEW b \in Branches, NEW item, NEW by,
           NEW fails, Push(t, b, item, by, fails)
    PROVE  CheckTypes'
  <1>1. check' = check \/ check' = [check EXCEPT ![t] = Checking(b)]
    BY DEF Push
  <1>2. Checking(b) \in [at : {None, "graph", "timeline", "compare"},
                         terminals : SUBSET Branches, current : 0 .. timeline]
    BY DEF Checking, PipeTypes
  <1>3. timeline' = timeline
    BY DEF Push
  <1> QED  BY <1>1, <1>2, <1>3 DEF CheckTypes

\* The end it reports was heard.
LEMMA PushEarned ==
    ASSUME PipeTypes, TerminalTypes, Earned, NEW t, NEW b \in Branches, NEW item, NEW by,
           NEW fails, Push(t, b, item, by, fails)
    PROVE  Earned'
  <1>1. CASE Reports(b, item, fails)
    <2>1. /\ ended' = [ended EXCEPT ![b] = EndsOn(b)]
          /\ heard' = [heard EXCEPT ![b] = heard[b] \cup HeardOn(b)]
      BY <1>1 DEF Push
    <2>2. EndsOn(b) \in HeardOn(b)
      <3>1. timeline \in 0 .. MaxOps
        BY Numbers DEF PipeTypes
      <3> QED  BY <3>1 DEF EndsOn, HeardOn
    <2> QED BY <2>1, <2>2 DEF Earned, TerminalTypes
  <1>2. CASE ~Reports(b, item, fails)
    <2>1. ended' = ended /\ heard' = heard
      BY <1>2 DEF Push
    <2> QED BY <2>1 DEF Earned
  <1> QED  BY <1>1, <1>2

\* Whoever reports an end is about to look at the others'.
LEMMA PushCovered ==
    ASSUME CheckTypes, Covered, NEW t \in Threads, NEW b \in Branches, NEW item, NEW by,
           NEW fails, Push(t, b, item, by, fails), UNCHANGED <<attached, unheard>>
    PROVE  Covered'
  <1>1. CASE Reports(b, item, fails)
    <2>1. check' = [check EXCEPT ![t] = Checking(b)]
      BY <1>1 DEF Push
    <2>2. check'[t].at = "graph"
      BY <2>1 DEF Checking, CheckTypes
    <2> QED BY <2>2 DEF Covered, WillSay
  <1>2. CASE ~Reports(b, item, fails)
    <2>1. UNCHANGED <<ended, check, timeline, said>>
      BY <1>2 DEF Push
    <2> QED BY <2>1, CoveredStay
  <1> QED  BY <1>1, <1>2

-----------------------------------------------------------------------------
(* The pipeline's steps.                                                   *)

\* A call of the pipeline begins from where the last one left it.
LEMMA CallsKeeps ==
    ASSUME Inv, NEW o \in Ops, Calls(o)
    PROVE  Inv'
  <1>1. UNCHANGED <<phase, context, timeline, asked, source, tee, segment, owed, attached,
                      active, pad, on, ended, posted, said, check, call, got, heard,
                      finished, unheard>>
    BY DEF Calls, playback, pipeline, topology, ends, handle, terminal
  <1>2. o \in {"resume", "seek", "step"} /\ (stepped => paused)
    BY BoundsAssumption DEF Inv, Plan
  <1>3. SourceTypes' /\ TeeTypes' /\ OwedBounded' /\ ListTypes'
    BY <1>1, SourceTypesStay, TeeTypesStay, OwedBoundedStay, ListTypesStay DEF Inv
  <1>4. TerminalTypes' /\ CheckTypes' /\ CallTypes' /\ Locks'
    BY <1>1, TerminalTypesStay, CheckTypesStay, CallTypesStay, LocksStay DEF Inv
  <1>5. Earned' /\ Over' /\ Covered' /\ HeldBack'
    BY <1>1, EarnedStay, OverStay, CoveredStay, HeldBackStay DEF Inv
  <1>6. PipeTypes'
    <2>1. todo' \in ToPlaying \cup ToPaused
      BY <1>2, StagesAre DEF Inv, PipeTypes, Calls
    <2>2. paused' \in BOOLEAN /\ stepped' \in BOOLEAN /\ ops' = ops + 1 /\ ops < MaxOps
      BY DEF Inv, PipeTypes, Calls
    <2> QED BY <1>1, <2>1, <2>2, Numbers DEF Inv, PipeTypes
  <1>7. Plan'
    <2>1. /\ paused' => todo' \in ToPaused
          /\ ~paused' => todo' \in ToPlaying
          /\ ~paused => todo'[1] \in {"Pause", "Resume"}
      BY <1>2, StagesAre DEF Inv, PipeTypes, Calls
    <2>2. asked = None /\ asked' = None /\ todo = <<>> /\ todo' # <<>>
      BY <2>1, Leaves DEF Calls, StageLeaves
    <2>3. /\ stepped' => paused'
          /\ todo' \in ToPlaying => ~paused'
          /\ todo' \in ToPaused => paused'
      BY <2>1, Leaves DEF Calls, StageLeaves
    <2>4. todo'[1] \in {"Flush", "Seek", "Preroll", "Step"} => Still /\ phase = "paused"
      BY <2>1, <2>2 DEF Inv, Plan
    <2> QED BY <1>1, <2>2, <2>3, <2>4 DEF Inv, Plan, Still, None, Message
  <1> QED  BY <1>3, <1>4, <1>5, <1>6, <1>7 DEF Inv

\* A stage of a call is asked of the source, which stands still for what a pause is for.
LEMMA AsksKeeps ==
    ASSUME Inv, Asks
    PROVE  Inv'
  <1>1. UNCHANGED <<paused, stepped, source, tee, segment, owed, attached, active, pad, on,
                      ended, posted, said, check, call, ops, got, heard, finished, unheard>>
    BY DEF Asks, playback, pipeline, topology, ends, handle, terminal
  <1>2. todo \in ToPlaying \cup ToPaused /\ asked = None /\ Head(todo) = todo[1]
    BY Leaves DEF Inv, PipeTypes, Asks, StageLeaves
  <1>3. StageLeaves(todo)
    BY <1>2, Leaves
  <1>4. SourceTypes' /\ OwedBounded' /\ ListTypes' /\ CallTypes'
    BY <1>1, SourceTypesStay, OwedBoundedStay, ListTypesStay, CallTypesStay DEF Inv
  <1>5. Earned' /\ Over'
    BY <1>1, EarnedStay, OverStay DEF Inv
  <1>6. PipeTypes'
    <2>1. todo' = <<>> \/ todo' = Tail(todo)
      BY DEF Asks
    <2>2. todo' \in {<<>>} \cup ToPlaying \cup ToPaused
      BY <1>2, <1>3, <2>1 DEF StageLeaves
    <2>3. /\ phase' \in {"playing", "paused", "prerolling"}
          /\ context' \in [on : BOOLEAN, expected : SUBSET Branches, ready : SUBSET Branches]
          /\ context'.ready \subseteq context'.expected
      BY DEF Inv, PipeTypes, ListTypes, Asks, NoContext, Expecting
    <2>4. asked' \in Message \cup {None}
      BY <1>2, <1>3 DEF Asks, StageLeaves, Stage, Message
    <2>5. timeline' \in Nat /\ timeline' <= ops /\ (todo' \in Flushing => timeline' < ops)
      <3>1. CASE todo[1] = "Flush"
        <4>1. timeline' = timeline + 1 /\ timeline < ops /\ todo' \notin Flushing
          BY <3>1, <1>2, <1>3 DEF Inv, PipeTypes, Asks, StageLeaves
        <4> QED BY <4>1 DEF Inv, PipeTypes
      <3>2. CASE todo[1] # "Flush"
        <4>1. timeline' = timeline
          BY <3>2, <1>2 DEF Asks
        <4>2. todo' \in Flushing => todo \in Flushing
          <5>1. <<>> \notin Flushing
            BY DEF Flushing
          <5> QED  BY <1>3, <2>1, <5>1 DEF StageLeaves
        <4> QED BY <4>1, <4>2 DEF Inv, PipeTypes
      <3> QED  BY <3>1, <3>2
    <2> QED BY <1>1, <2>2, <2>3, <2>4, <2>5 DEF Inv, PipeTypes
  <1>7. TeeTypes'
    <2>1. timeline \in Int /\ timeline' \in Int /\ timeline <= timeline'
      BY DEF Inv, PipeTypes, Asks
    <2>2. ItemsTo(timeline) \subseteq ItemsTo(timeline')
      BY <2>1, ItemsOfLater
    <2>3. \A s \in Seq(ItemsTo(timeline)) : s \in Seq(ItemsTo(timeline'))
      BY <2>2, SeqOfMore
    <2>4. /\ tee \in [at : {"idle", "flowing"} \cup Owing \cup Handing,
                      item : ItemsTo(timeline'), msg : Message \cup {None},
                      left : SUBSET Branches, push : Seq(ItemsTo(timeline'))]
          /\ segment \in Seq(ItemsTo(timeline'))
          /\ owed \in [Branches -> Seq(ItemsTo(timeline'))]
      BY <2>2, <2>3 DEF Inv, TeeTypes
    <2> QED BY <1>1, <2>4 DEF Inv, TeeTypes, Branch
  <1>8. TerminalTypes'
    <2>1. timeline \in Int /\ timeline' \in Int /\ timeline <= timeline'
      BY DEF Inv, PipeTypes, Asks
    <2> QED BY <1>1, <2>1 DEF Inv, TerminalTypes, Never
  <1>9. CheckTypes'
    <2>1. timeline \in Int /\ timeline' \in Int /\ timeline <= timeline'
      BY DEF Inv, PipeTypes, Asks
    <2>2. 0 .. timeline \subseteq 0 .. timeline'
      BY <2>1
    <2> QED BY <1>1, <2>2 DEF Inv, CheckTypes
  <1>10. Locks'
    <2>1. context'.expected \subseteq context.expected \cup attached
      BY DEF Inv, PipeTypes, Asks, NoContext, Expecting
    <2> QED BY <1>1, <2>1 DEF Inv, Locks, Branch
  <1>11. Covered'
    <2>1. CASE timeline' = timeline
      BY <1>1, <2>1, CoveredStay DEF Inv
    <2>2. CASE timeline' = timeline + 1
      <3>1. \A b \in attached : ended[b] # timeline'
        BY <2>2 DEF Inv, ListTypes, TerminalTypes, PipeTypes, Never
      <3> QED  BY <1>1, <3>1 DEF Covered, AllOver, HasEnded
    <2> QED BY <2>1, <2>2 DEF Asks
  <1>12. Plan'
    <2>1. todo \in ToPaused => paused
      BY DEF Inv, Plan
    <2>2. /\ tee.at \notin {"flowing"} \cup Owing
          /\ tee.at \in Handing => tee.msg = None
      BY <1>2 DEF Inv, Plan
    <2>3. todo[1] \in {"Flush", "Seek", "Preroll", "Step"} => Still /\ phase = "paused"
      BY <1>2, <1>3 DEF Inv, Plan, StageLeaves
    <2>4. UNCHANGED Still
      BY <1>1 DEF Still
    <2>5. /\ source.at = "begin" => tee.at = "idle"
          /\ tee.at = "idle" => tee.msg = None
      BY DEF Inv, Plan
    <2>6. <<>> \notin ToPlaying /\ <<>> \notin ToPaused
      BY DEF ToPlaying, ToPaused
    <2>7. /\ todo' \in ToPlaying => ~paused
          /\ todo' \in ToPaused => paused
          /\ stepped => paused
      <3>1. todo' = Tail(todo) \/ todo' = <<>>
        BY DEF Asks
      <3>2. \A s \in ToPaused : s \notin ToPlaying
        BY Leaves DEF StageLeaves
      <3> QED  BY <1>2, <1>3, <2>6, <3>1, <3>2 DEF Inv, Plan, StageLeaves
    <2>8. CASE todo[1] = "Pause"
      <3>1. asked' = "Pause" /\ phase' = "paused" /\ todo' = Tail(todo)
        BY <1>2, <2>8 DEF Asks
      <3>2. IF todo' = <<>> THEN paused ELSE todo'[1] \in {"Flush", "Step", "Resume"}
        BY <1>3, <2>8, <3>1, <2>1 DEF StageLeaves
      <3> QED  BY <1>1, <2>2, <2>5, <2>7, <3>1, <3>2 DEF Plan, None
    <2>9. CASE todo[1] = "Resume"
      <3>1. asked' = "Resume" /\ todo' = Tail(todo)
        BY <1>2, <2>9 DEF Asks
      <3>2. todo' = <<>> /\ ~paused
        BY <1>3, <2>9, <3>1 DEF StageLeaves, Inv, Plan
      <3> QED  BY <1>1, <2>2, <2>5, <2>7, <3>1, <3>2 DEF Plan, None
    <2>10. CASE todo[1] = "Flush"
      <3>1. asked' = "Flush" /\ todo' = Tail(todo) /\ phase' = phase
        BY <1>2, <2>10 DEF Asks
      <3>2. todo' # <<>> /\ todo'[1] = "Seek"
        BY <1>3, <2>10, <3>1 DEF StageLeaves
      <3> QED  BY <1>1, <2>10, <2>3, <2>2, <2>5, <2>7, <3>1, <3>2 DEF Plan, None, Still
    <2>11. CASE todo[1] = "Seek"
      <3>1. asked' = "Seek" /\ todo' = Tail(todo) /\ phase' = phase
        BY <1>2, <2>11 DEF Asks
      <3>2. todo' # <<>> /\ todo'[1] = "Preroll"
        BY <1>3, <2>11, <3>1 DEF StageLeaves
      <3> QED  BY <1>1, <2>11, <2>3, <2>2, <2>5, <2>7, <3>1, <3>2 DEF Plan, None, Still
    <2>12. CASE todo[1] \in {"Preroll", "Step"} /\ asked' # None
      <3>1. asked' = "Preroll" /\ todo' = Tail(todo)
        BY <1>2, <2>12 DEF Asks
      <3>2. todo' \in Awaiting
        BY <1>3, <2>12, <3>1 DEF StageLeaves
      <3>3. todo' # <<>>
        BY <3>2 DEF Awaiting
      <3> QED  BY <1>1, <2>12, <2>3, <2>2, <2>5, <2>7, <3>1, <3>2, <3>3 DEF Plan, None,
          Still
    <2>13. CASE todo[1] = "Step" /\ asked' = None
      <3>1. asked' = None /\ todo' = <<>> /\ phase' = phase
        BY <1>2, <2>13 DEF Asks, None
      <3> QED  BY <1>1, <2>13, <2>3, <2>2, <2>5, <2>7, <2>4, <3>1 DEF Plan, None
    <2>14. CASE todo[1] \in {"Preroll", "Step"} /\ asked' = None /\ todo[1] # "Step"
      BY <2>14, <1>2 DEF Asks, None
    <2>15. todo[1] \in {"Pause", "Resume", "Flush", "Seek", "Preroll", "Step"}
      BY <1>2, <1>3 DEF StageLeaves, Stage, Message, Asks
    <2> QED BY <2>8, <2>9, <2>10, <2>11, <2>12, <2>13, <2>14, <2>15
  <1>13. HeldBack'
    <2>1. tee.at \notin {"flowing"} \cup Owing
      BY <1>2 DEF Inv, Plan
    <2>2. CASE context' = context /\ asked' # "Preroll"
      <3>1. asked # "Preroll"
        BY <1>2 DEF None
      <3> QED  BY <1>1, <2>2, <3>1 DEF Inv, HeldBack, IsReady, Branch
    <2>3. CASE context' = NoContext
      BY <1>1, <2>3, <2>1 DEF HeldBack, NoContext, Owing
    <2>4. CASE asked' = "Preroll"
      <3>1. todo[1] \in {"Preroll", "Step"}
        BY <1>2, <2>4 DEF Asks, None
      <3>2. tee.at = "idle"
        BY <1>2, <1>3, <3>1 DEF Inv, Plan, Still, StageLeaves
      <3> QED  BY <1>1, <2>4, <3>2, <2>1 DEF HeldBack, Owing
    <2> QED BY <1>2, <2>2, <2>3, <2>4 DEF Asks, None
  <1> QED  BY <1>4, <1>5, <1>6, <1>7, <1>8, <1>9, <1>10, <1>11, <1>12, <1>13 DEF Inv

\* A terminal that has gone is waited for no more.
LEMMA DepartsKeeps ==
    ASSUME Inv, NEW b \in Branches, Departs(b)
    PROVE  Inv'
  <1>1. UNCHANGED <<phase, timeline, todo, asked, paused, stepped, source, tee, segment,
                      owed, attached, active, pad, on, ended, posted, said, check, call,
                      ops, got, heard, finished, unheard>>
    BY DEF Departs, playback, pipeline, topology, ends, handle, terminal
  <1>2. SourceTypes' /\ TeeTypes' /\ OwedBounded' /\ ListTypes'
    BY <1>1, SourceTypesStay, TeeTypesStay, OwedBoundedStay, ListTypesStay DEF Inv
  <1>3. TerminalTypes' /\ CheckTypes' /\ CallTypes' /\ Earned'
    BY <1>1, TerminalTypesStay, CheckTypesStay, CallTypesStay, EarnedStay DEF Inv
  <1>4. Over' /\ Covered' /\ Plan'
    BY <1>1, OverStay, CoveredStay, PlanStay DEF Inv
  <1>5. PipeTypes'
    BY <1>1 DEF Inv, PipeTypes, Departs
  <1>6. Locks'
    <2>1. context'.expected = context.expected
      BY DEF Inv, PipeTypes, Departs
    <2> QED BY <1>1, <2>1 DEF Inv, Locks, Branch
  <1>7. HeldBack'
    <2>1. /\ context'.on = context.on /\ context'.expected = context.expected
          /\ context'.ready = context.ready \cup {b} /\ b \notin attached
      BY DEF Inv, PipeTypes, Departs
    <2>2. b \notin active
      BY <2>1 DEF Inv, ListTypes
    <2>3. \A d \in Branches : IsReady(d) => IsReady(d)'
      BY <2>1 DEF IsReady
    <2>4. context.on /\ asked # "Preroll" => \A d \in Branches : ~IsReady(d)' => owed[d] = <<>>
      BY <2>3 DEF Inv, HeldBack
    <2>5. tee.at \in Owing => \A d \in Branches \ tee.left : owed[d] = <<>>
      BY DEF Inv, HeldBack
    <2>6. tee.at \in {"locking", "pushing"} /\ context.on /\ Branch \in context.expected =>
              /\ \A i \in 1 .. Len(tee.push) - 1 : tee.push[i].is = "segment"
              /\ tee.at = "locking" /\ IsReady(Branch) => Branch \notin active
              /\ tee.at = "pushing" /\ IsReady(Branch) => Branch \notin attached
      BY DEF Inv, HeldBack
    <2>7. PICK d : d = Branch
      OBVIOUS
    <2>8. Branch' = d
      BY <1>1, <2>7 DEF Branch
    <2>9. IsReady(d)' => IsReady(d) \/ d = b
      BY <2>1 DEF IsReady
    <2> QED BY <1>1, <2>1, <2>2, <2>4, <2>5, <2>6, <2>7, <2>8, <2>9 DEF HeldBack, IsReady
  <1> QED  BY <1>2, <1>3, <1>4, <1>5, <1>6, <1>7 DEF Inv

\* All have what they were waited for.
LEMMA AwaitedKeeps ==
    ASSUME Inv, Awaited
    PROVE  Inv'
  <1>1. UNCHANGED <<phase, context, timeline, asked, paused, stepped, source, tee, segment,
                      owed, attached, active, pad, on, ended, posted, said, check, call,
                      ops, got, heard, finished, unheard>>
    BY DEF Awaited, playback, pipeline, topology, ends, handle, terminal
  <1>2. todo \in ToPlaying \cup ToPaused /\ asked = None /\ Head(todo) = todo[1]
    BY Leaves DEF Inv, PipeTypes, Awaited, StageLeaves
  <1>3. StageLeaves(todo)
    BY <1>2, Leaves
  <1>4. SourceTypes' /\ TeeTypes' /\ OwedBounded' /\ ListTypes'
    BY <1>1, SourceTypesStay, TeeTypesStay, OwedBoundedStay, ListTypesStay DEF Inv
  <1>5. TerminalTypes' /\ CheckTypes' /\ CallTypes' /\ Locks'
    BY <1>1, TerminalTypesStay, CheckTypesStay, CallTypesStay, LocksStay DEF Inv
  <1>6. Earned' /\ Over' /\ Covered' /\ HeldBack'
    BY <1>1, EarnedStay, OverStay, CoveredStay, HeldBackStay DEF Inv
  <1>7. PipeTypes'
    <2>1. todo' = Tail(todo)
      BY DEF Awaited
    <2> QED BY <1>1, <1>2, <1>3, <2>1 DEF Inv, PipeTypes, StageLeaves
  <1>8. Plan'
    <2>1. todo' = Tail(todo) /\ todo[1] = "await"
      BY <1>2 DEF Awaited
    <2>2. todo' # <<>> /\ todo'[1] = "Pause"
      BY <1>3, <2>1 DEF StageLeaves
    <2>3. /\ todo' \in ToPlaying => ~paused
          /\ todo' \in ToPaused => paused
      <3>1. \A s \in ToPaused : s \notin ToPlaying
        BY Leaves DEF StageLeaves
      <3> QED  BY <1>2, <1>3, <2>1, <2>2, <3>1 DEF Inv, Plan, StageLeaves
    <2> QED BY <1>1, <1>2, <2>2, <2>3 DEF Inv, Plan, None
  <1> QED  BY <1>4, <1>5, <1>6, <1>7, <1>8 DEF Inv

-----------------------------------------------------------------------------
(* The source's steps.                                                     *)

\* The stream begins with its segment.
LEMMA SourceBeginsKeeps ==
    ASSUME Inv, SourceBegins
    PROVE  Inv'
  <1>1. UNCHANGED <<phase, context, timeline, todo, asked, paused, stepped, owed, attached,
                      active, pad, on, ended, posted, said, check, call, ops, got, heard,
                      finished, unheard>>
    BY DEF SourceBegins, HandOut, playback, pipeline, topology, ends, handle, terminal
  <1>2. tee'.at = "handing"
    BY DEF Inv, TeeTypes, SourceBegins, HandOut
  <1>3. PipeTypes' /\ OwedBounded' /\ ListTypes' /\ TerminalTypes'
    BY <1>1, PipeTypesStay, OwedBoundedStay, ListTypesStay, TerminalTypesStay DEF Inv
  <1>4. CheckTypes' /\ CallTypes' /\ Earned' /\ Covered'
    BY <1>1, CheckTypesStay, CallTypesStay, EarnedStay, CoveredStay DEF Inv
  <1>5. SourceTypes'
    BY Numbers DEF Inv, SourceTypes, SourceBegins, MayProduce
  <1>6. TeeTypes'
    <2>1. /\ Segment(timeline, FALSE) \in ItemsTo(timeline)
          /\ HandOut(Segment(timeline, FALSE))
      BY ItemTypes DEF Inv, SourceBegins, MayProduce
    <2> QED BY <1>1, <2>1, HandOutTypes DEF Inv
  <1>7. Locks'
    BY <1>1, <1>2 DEF Inv, Locks, HasPad
  <1>8. Over'
    BY <1>1, <1>2 DEF Inv, Over
  <1>9. Plan'
    <2>1. tee'.at = "handing" /\ tee'.msg = tee.msg
      BY DEF Inv, TeeTypes, SourceBegins, HandOut
    <2>2. tee.msg = None
      BY DEF Inv, Plan, SourceBegins, MayProduce
    <2>3. source'.held = source.held /\ source'.at # "begin"
      BY DEF Inv, SourceTypes, SourceBegins, MayProduce
    <2>4. source.at = "begin" \/ (asked = None /\ ~source.held)
      BY DEF SourceBegins, MayProduce
    <2> QED BY <1>1, <2>1, <2>2, <2>3, <2>4 DEF Inv, Plan, Still, Owing
  <1>10. HeldBack'
    BY <1>1, <1>2 DEF Inv, HeldBack, Owing, IsReady
  <1> QED  BY <1>3, <1>4, <1>5, <1>6, <1>7, <1>8, <1>9, <1>10 DEF Inv

\* A buffer made is handed out.
LEMMA SourceProducesKeeps ==
    ASSUME Inv, SourceProduces
    PROVE  Inv'
  <1>1. UNCHANGED <<phase, context, timeline, todo, asked, paused, stepped, owed, attached,
                      active, pad, on, ended, posted, said, check, call, ops, got, heard,
                      finished, unheard>>
    BY DEF SourceProduces, HandOut, MayProduce, playback, pipeline, topology, ends, handle,
        terminal
  <1>2. tee'.at = "handing"
    BY DEF Inv, TeeTypes, SourceProduces, HandOut
  <1>3. PipeTypes' /\ OwedBounded' /\ ListTypes' /\ TerminalTypes'
    BY <1>1, PipeTypesStay, OwedBoundedStay, ListTypesStay, TerminalTypesStay DEF Inv
  <1>4. CheckTypes' /\ CallTypes' /\ Earned' /\ Covered'
    BY <1>1, CheckTypesStay, CallTypesStay, EarnedStay, CoveredStay DEF Inv
  <1>5. SourceTypes'
    BY Numbers DEF Inv, SourceTypes, SourceProduces, MayProduce
  <1>6. TeeTypes'
    <2>1. /\ Buffer(timeline, source.made + 1) \in ItemsTo(timeline)
          /\ HandOut(Buffer(timeline, source.made + 1))
      BY ItemTypes DEF Inv, SourceProduces, MayProduce
    <2> QED BY <1>1, <2>1, HandOutTypes DEF Inv
  <1>7. Locks'
    BY <1>1, <1>2 DEF Inv, Locks, HasPad
  <1>8. Over'
    BY <1>1, <1>2 DEF Inv, Over
  <1>9. Plan'
    <2>1. tee'.at = "handing" /\ tee'.msg = tee.msg
      BY DEF Inv, TeeTypes, SourceProduces, HandOut
    <2>2. tee.msg = None
      BY DEF Inv, Plan, SourceProduces, MayProduce
    <2>3. source'.held = source.held /\ source'.at # "begin"
      BY DEF Inv, SourceTypes, SourceProduces, MayProduce
    <2>4. source.at = "begin" \/ (asked = None /\ ~source.held)
      BY DEF SourceProduces, MayProduce
    <2> QED BY <1>1, <2>1, <2>2, <2>3, <2>4 DEF Inv, Plan, Still, Owing
  <1>10. HeldBack'
    BY <1>1, <1>2 DEF Inv, HeldBack, Owing, IsReady
  <1> QED  BY <1>3, <1>4, <1>5, <1>6, <1>7, <1>8, <1>9, <1>10 DEF Inv

\* So is the end.
LEMMA SourceEndsKeeps ==
    ASSUME Inv, SourceEnds
    PROVE  Inv'
  <1>1. UNCHANGED <<phase, context, timeline, todo, asked, paused, stepped, owed, attached,
                      active, pad, on, ended, posted, said, check, call, ops, got, heard,
                      finished, unheard>>
    BY DEF SourceEnds, HandOut, MayProduce, playback, pipeline, topology, ends, handle,
        terminal
  <1>2. tee'.at = "handing"
    BY DEF Inv, TeeTypes, SourceEnds, HandOut
  <1>3. PipeTypes' /\ OwedBounded' /\ ListTypes' /\ TerminalTypes'
    BY <1>1, PipeTypesStay, OwedBoundedStay, ListTypesStay, TerminalTypesStay DEF Inv
  <1>4. CheckTypes' /\ CallTypes' /\ Earned' /\ Covered'
    BY <1>1, CheckTypesStay, CallTypesStay, EarnedStay, CoveredStay DEF Inv
  <1>5. SourceTypes'
    BY Numbers DEF Inv, SourceTypes, SourceEnds, MayProduce
  <1>6. TeeTypes'
    <2>1. /\ Eos(timeline) \in ItemsTo(timeline)
          /\ HandOut(Eos(timeline))
      BY ItemTypes DEF Inv, SourceEnds, MayProduce
    <2> QED BY <1>1, <2>1, HandOutTypes DEF Inv
  <1>7. Locks'
    BY <1>1, <1>2 DEF Inv, Locks, HasPad
  <1>8. Over'
    BY <1>1, <1>2 DEF Inv, Over
  <1>9. Plan'
    <2>1. tee'.at = "handing" /\ tee'.msg = tee.msg
      BY DEF Inv, TeeTypes, SourceEnds, HandOut
    <2>2. tee.msg = None
      BY DEF Inv, Plan, SourceEnds, MayProduce
    <2>3. source'.held = source.held /\ source'.at # "begin"
      BY DEF Inv, SourceTypes, SourceEnds, MayProduce
    <2>4. source.at = "begin" \/ (asked = None /\ ~source.held)
      BY DEF SourceEnds, MayProduce
    <2> QED BY <1>1, <2>1, <2>2, <2>3, <2>4 DEF Inv, Plan, Still, Owing
  <1>10. HeldBack'
    BY <1>1, <1>2 DEF Inv, HeldBack, Owing, IsReady
  <1> QED  BY <1>3, <1>4, <1>5, <1>6, <1>7, <1>8, <1>9, <1>10 DEF Inv

\* A message goes on its way through the Tee.
LEMMA SourceTakesKeeps ==
    ASSUME Inv, SourceTakes
    PROVE  Inv'
  <1>1. UNCHANGED <<phase, context, timeline, todo, asked, paused, stepped, segment, owed,
                      attached, active, pad, on, ended, posted, said, check, call, ops,
                      got, heard, finished, unheard>>
    BY DEF SourceTakes, playback, pipeline, topology, ends, handle, terminal
  <1>2. tee'.at = "flowing"
    BY DEF Inv, TeeTypes, SourceTakes, HandOut
  <1>3. PipeTypes' /\ OwedBounded' /\ ListTypes' /\ TerminalTypes'
    BY <1>1, PipeTypesStay, OwedBoundedStay, ListTypesStay, TerminalTypesStay DEF Inv
  <1>4. CheckTypes' /\ CallTypes' /\ Earned' /\ Covered'
    BY <1>1, CheckTypesStay, CallTypesStay, EarnedStay, CoveredStay DEF Inv
  <1>5. SourceTypes'
    BY Numbers DEF Inv, SourceTypes, SourceTakes
  <1>6. TeeTypes'
    <2>1. tee' \in [at : {"idle", "flowing"} \cup Owing \cup Handing,
                  item : ItemsTo(timeline), msg : Message \cup {None},
                  left : SUBSET Branches, push : Seq(ItemsTo(timeline))]
      BY DEF Inv, PipeTypes, TeeTypes, ListTypes, SourceTakes
    <2>2. tee'.at = "flowing"
      BY DEF Inv, TeeTypes, SourceTakes
    <2> QED BY <1>1, <2>1, <2>2 DEF Inv, TeeTypes, AtBranch
  <1>7. Locks'
    BY <1>1, <1>2 DEF Inv, Locks, HasPad
  <1>8. Over'
    BY <1>1, <1>2 DEF Inv, Over
  <1>9. Plan'
    <2>1. tee'.at = "flowing" /\ tee'.msg = asked /\ asked # None
      BY DEF Inv, TeeTypes, SourceTakes
    <2>2. source'.held = source.held /\ source'.at # "begin" /\ source.at # "begin"
      BY DEF Inv, SourceTypes, SourceTakes
    <2> QED BY <1>1, <2>1, <2>2 DEF Inv, Plan, Still, Owing, Handing
  <1>10. HeldBack'
    BY <1>1, <1>2 DEF Inv, HeldBack, Owing, IsReady
  <1> QED  BY <1>3, <1>4, <1>5, <1>6, <1>7, <1>8, <1>9, <1>10 DEF Inv

-----------------------------------------------------------------------------
(* The Tee's steps.                                                        *)

\* What is kept for a branch, one item more.
LEMMA OweKeeps ==
    ASSUME NEW S, NEW s \in Seq(S), NEW item \in S, Cardinality(Buffers(s)) <= MaxOwed
    PROVE  /\ Owe(s, item) \in Seq(S) /\ Cardinality(Buffers(Owe(s, item))) <= MaxOwed
  <1>1. CASE Owe(s, item) = s
    BY <1>1
  <1>2. CASE Owe(s, item) # s
    <2>1. Owe(s, item) = Append(s, item) /\ ~(Len(s) >= MaxOwed /\ item.is = "buffer")
      BY <1>2 DEF Owe
    <2>2. /\ Append(s, item) \in Seq(S) /\ Len(Append(s, item)) = Len(s) + 1
          /\ \A i \in 1 .. Len(s) : Append(s, item)[i] = s[i]
          /\ Append(s, item)[Len(s) + 1] = item
      BY AppendProperties
    <2>3. Len(s) \in Nat
      OBVIOUS
    <2>4. CASE item.is = "buffer"
      <3>1. Len(s) + 1 <= MaxOwed
        BY <2>1, <2>3, <2>4, Numbers
      <3>2. IsFiniteSet(1 .. Len(s) + 1) /\ Cardinality(1 .. Len(s) + 1) = Len(s) + 1
        BY <2>3, FS_Interval
      <3>3. Buffers(Append(s, item)) \subseteq 1 .. Len(s) + 1
        BY <2>2 DEF Buffers
      <3>4. /\ IsFiniteSet(Buffers(Append(s, item)))
            /\ Cardinality(Buffers(Append(s, item))) <= Len(s) + 1
        BY <3>2, <3>3, FS_Subset
      <3>5. Cardinality(Buffers(Append(s, item))) \in Nat
        BY <3>4, FS_CardinalityType
      <3> QED  BY <2>1, <2>2, <2>3, <3>1, <3>4, <3>5, Numbers
    <2>5. CASE item.is # "buffer"
      <3>1. ASSUME NEW i \in 1 .. Len(s) + 1, Append(s, item)[i].is = "buffer"
            PROVE  i \in 1 .. Len(s) /\ s[i].is = "buffer"
        BY <2>2, <2>3, <2>5, <3>1
      <3>2. Buffers(Append(s, item)) = Buffers(s)
        BY <2>2, <2>3, <3>1 DEF Buffers
      <3> QED  BY <2>1, <2>2, <3>2
    <2> QED BY <2>4, <2>5
  <1> QED  BY <1>1, <1>2

\* And one less.
LEMMA TailKeeps ==
    ASSUME NEW S, NEW s \in Seq(S), s # <<>>, Cardinality(Buffers(s)) <= MaxOwed
    PROVE  Cardinality(Buffers(Tail(s))) <= MaxOwed
  <1> DEFINE later == Buffers(s) \ {1}
             f == [i \in later |-> i - 1]
  <1>1. /\ Len(s) \in Nat /\ Len(Tail(s)) = Len(s) - 1
        /\ \A i \in 1 .. Len(s) - 1 : Tail(s)[i] = s[i+1]
    BY HeadTailProperties
  <1>2. IsFiniteSet(Buffers(s))
    <2>1. Buffers(s) \subseteq 1 .. Len(s)
      BY DEF Buffers
    <2>2. IsFiniteSet(1 .. Len(s))
      BY <1>1, FS_Interval
    <2> QED BY <2>1, <2>2, FS_Subset
  <1>3. /\ IsFiniteSet(later) /\ Cardinality(later) <= Cardinality(Buffers(s))
    <2>1. later \in SUBSET Buffers(s)
      OBVIOUS
    <2> QED BY <1>2, <2>1, FS_Subset
  <1>4. f \in Surjection(later, Buffers(Tail(s)))
    <2>1. \A i \in later : i - 1 \in Buffers(Tail(s))
      BY <1>1 DEF Buffers
    <2>2. \A j \in Buffers(Tail(s)) : j + 1 \in later /\ f[j+1] = j
      BY <1>1 DEF Buffers
    <2> HIDE DEF later
    <2> QED BY <2>1, <2>2 DEF Surjection
  <1>5. Cardinality(Buffers(Tail(s))) <= Cardinality(later) /\ IsFiniteSet(Buffers(Tail(s)))
    <2> HIDE DEF f, later
    <2> QED BY <1>3, <1>4, FS_Surjection
  <1>6. Cardinality(later) \in Nat /\ Cardinality(Buffers(s)) \in Nat
        /\ Cardinality(Buffers(Tail(s))) \in Nat
    BY <1>2, <1>3, <1>5, FS_CardinalityType
  <1> QED  BY <1>3, <1>5, <1>6, Numbers

\* What a branch is caught up with is a segment, if anything.
LEMMA CatchUpIs ==
    ASSUME TeeTypes, NEW b
    PROVE  /\ CatchUp(b) \in Seq(ItemsTo(timeline)) /\ Len(CatchUp(b)) <= 1
           /\ CatchUp(b) # <<>> => Len(CatchUp(b)) = 1 /\ CatchUp(b)[1].is = "segment"
  <1>1. CatchUp(b) = <<>> \/ CatchUp(b) = segment
    BY DEF CatchUp
  <1>2. <<>> \in Seq(ItemsTo(timeline)) /\ Len(<<>>) = 0
    OBVIOUS
  <1> DEFINE S == ItemsTo(timeline)
  <1>3. segment \in Seq(S) /\ Len(segment) <= 1
    BY DEF TeeTypes
  <1>4. segment # <<>> => segment[1].is = "segment"
    BY DEF TeeTypes
  <1>5. segment # <<>> => Len(segment) = 1
    BY <1>3, OneLong
  <1>6. CASE CatchUp(b) = <<>>
    BY <1>2, <1>6
  <1>7. CASE CatchUp(b) # <<>>
    <2>1. CatchUp(b) = segment
      BY <1>1, <1>7
    <2> HIDE DEF S
    <2>2. CatchUp(b) \in Seq(S) /\ Len(CatchUp(b)) = 1 /\ CatchUp(b)[1].is = "segment"
      BY <1>3, <1>4, <1>5, <1>7, <2>1
    <2> QED BY <2>2 DEF S
  <1> QED  BY <1>6, <1>7

\* What is kept once the item in hand is.
LEMMA WithItemKeeps ==
    ASSUME TeeTypes, OwedBounded, NEW b \in Branches
    PROVE  /\ WithItem(b) \in Seq(ItemsTo(timeline))
           /\ Cardinality(Buffers(WithItem(b))) <= MaxOwed
  <1>1. /\ owed[b] \in Seq(ItemsTo(timeline)) /\ Cardinality(Buffers(owed[b])) <= MaxOwed
        /\ tee.item \in ItemsTo(timeline)
    BY DEF TeeTypes, OwedBounded
  <1> DEFINE before == IF CatchUp(b) = <<>> THEN owed[b] ELSE Owe(owed[b], CatchUp(b)[1])
  <1>2. before \in Seq(ItemsTo(timeline)) /\ Cardinality(Buffers(before)) <= MaxOwed
    <2>1. CASE CatchUp(b) = <<>>
      BY <1>1, <2>1
    <2>2. CASE CatchUp(b) # <<>>
      <3>1. CatchUp(b)[1] \in ItemsTo(timeline)
        BY <2>2, CatchUpIs
      <3>2. before = Owe(owed[b], CatchUp(b)[1])
        BY <2>2
      <3> HIDE DEF before
      <3> QED  BY <1>1, <3>1, <3>2, OweKeeps
    <2> QED BY <2>1, <2>2
  <1>3. WithItem(b) = Owe(before, tee.item)
    BY DEF WithItem
  <1> HIDE DEF before
  <1> QED  BY <1>1, <1>2, <1>3, OweKeeps

\* What is pushed behind what was kept: the segment, if it is owed, and the item.
LEMMA PushIs ==
    ASSUME TeeTypes, NEW b \in Branches, NEW push,
           push = owed[b] \o CatchUp(b) \o <<tee.item>>
    PROVE  /\ push \in Seq(ItemsTo(timeline)) /\ push # <<>>
           /\ owed[b] = <<>> => \A i \in 1 .. Len(push) - 1 : push[i].is = "segment"
  <1> DEFINE front == owed[b] \o CatchUp(b)
  <1>1. /\ owed[b] \in Seq(ItemsTo(timeline)) /\ tee.item \in ItemsTo(timeline)
        /\ CatchUp(b) \in Seq(ItemsTo(timeline))
    BY CatchUpIs DEF TeeTypes
  <1>3. /\ front \in Seq(ItemsTo(timeline)) /\ push \in Seq(ItemsTo(timeline))
        /\ owed[b] = <<>> => front = CatchUp(b)
        /\ Len(push) = Len(front) + 1
        /\ \A i \in 1 .. Len(front) : push[i] = front[i]
    <2>1. PICK items : items = ItemsTo(timeline)
      OBVIOUS
    <2>2. PICK kept, catch, item : kept = owed[b] /\ catch = CatchUp(b) /\ item = tee.item
      OBVIOUS
    <2>3. kept \in Seq(items) /\ catch \in Seq(items) /\ item \in items
      BY <1>1, <2>1, <2>2
    <2>4. front = kept \o catch /\ push = kept \o catch \o <<item>>
      BY <2>2
    <2> HIDE DEF front
    <2>5. /\ front \in Seq(items) /\ push \in Seq(items)
          /\ kept = <<>> => front = catch
          /\ Len(push) = Len(front) + 1
          /\ \A i \in 1 .. Len(front) : push[i] = front[i]
      <3>1. /\ kept \o catch \in Seq(items) /\ kept \o catch \o <<item>> \in Seq(items)
            /\ Len(kept \o catch \o <<item>>) = Len(kept \o catch) + 1
            /\ \A i \in 1 .. Len(kept \o catch) :
                   (kept \o catch \o <<item>>)[i] = (kept \o catch)[i]
            /\ kept = <<>> => kept \o catch = catch
        BY <2>3, TwoAndOne
      <3> QED  BY <2>4, <3>1, Zenon
    <2> QED BY <2>1, <2>2, <2>5
  <1>4. Len(front) \in Nat
    BY <1>3
  <1>5. ASSUME owed[b] = <<>>
        PROVE  \A i \in 1 .. Len(push) - 1 : push[i].is = "segment"
    <2>1. front = CatchUp(b)
      BY <1>3, <1>5
    <2>2. \A i \in 1 .. Len(front) : front[i].is = "segment"
      <3>1. CASE CatchUp(b) = <<>>
        BY <2>1, <3>1
      <3>2. CASE CatchUp(b) # <<>>
        <4>1. Len(front) = 1 /\ front[1].is = "segment"
          BY <2>1, <3>2, CatchUpIs
        <4> HIDE DEF front
        <4> QED BY <4>1
      <3> QED  BY <3>1, <3>2
    <2> HIDE DEF front
    <2>3. Len(push) - 1 = Len(front)
      BY <1>3, <1>4
    <2> QED BY <1>3, <2>2, <2>3
  <1>6. push # <<>>
    <2> HIDE DEF front
    <2> QED BY <1>3, <1>4
  <1> QED  BY <1>3, <1>5, <1>6

\* Looked at, a branch is passed by, kept for, or about to be locked.
LEMMA TeeLooksKeeps ==
    ASSUME Inv, TeeLooks
    PROVE  Inv'
  <1>1. UNCHANGED <<phase, context, timeline, todo, asked, paused, stepped, source,
                      segment, attached, active, pad, on, ended, posted, said, check, call,
                      ops, got, heard, finished, unheard>>
    BY DEF TeeLooks, ToNext, playback, pipeline, topology, ends, handle, terminal
  <1>2. tee.left # {} /\ tee.at = "handing"
    BY DEF TeeLooks
  <1>3. PICK b \in Branches : b = Branch /\ b \in tee.left
    BY <1>2, BranchIn DEF Inv
  <1>4. PipeTypes' /\ SourceTypes' /\ ListTypes' /\ TerminalTypes'
    BY <1>1, PipeTypesStay, SourceTypesStay, ListTypesStay, TerminalTypesStay DEF Inv
  <1>5. CheckTypes' /\ CallTypes' /\ Earned' /\ Covered'
    BY <1>1, CheckTypesStay, CallTypesStay, EarnedStay, CoveredStay DEF Inv
  <1>6. TeeTypes'
    <2>1. WithItem(b) \in Seq(ItemsTo(timeline))
      BY <1>3, WithItemKeeps DEF Inv
    <2>2. owed' \in [Branches -> Seq(ItemsTo(timeline))]
      <3>1. owed' = owed \/ owed' = [owed EXCEPT ![b] = WithItem(b)]
            \/ owed' = [owed EXCEPT ![b] = <<>>]
        BY <1>3 DEF TeeLooks
      <3>2. <<>> \in Seq(ItemsTo(timeline)) /\ owed \in [Branches -> Seq(ItemsTo(timeline))]
        BY DEF Inv, TeeTypes
      <3> QED  BY <1>3, <2>1, <3>1, <3>2
    <2>3. \/ tee' = ToNext
          \/ tee' = [tee EXCEPT !.at = "locking",
                                !.push = owed[b] \o CatchUp(b) \o <<tee.item>>]
      BY <1>3 DEF TeeLooks
    <2>4. CASE tee' = ToNext
      <3>1. tee' = [tee EXCEPT !.at = "handing", !.left = tee.left \ {b}, !.push = <<>>]
        BY <1>3, <2>4 DEF ToNext
      <3>2. tee'.at = "handing"
        BY <3>1 DEF Inv, TeeTypes
      <3>4. <<>> \in Seq(ItemsTo(timeline)) /\ tee.left \ {b} \in SUBSET Branches
        BY DEF Inv, TeeTypes
      <3>3. tee' \in [at : {"idle", "flowing"} \cup Owing \cup Handing,
                  item : ItemsTo(timeline), msg : Message \cup {None},
                  left : SUBSET Branches, push : Seq(ItemsTo(timeline))]
        BY <3>1, <3>4 DEF Inv, TeeTypes, Handing
      <3> QED  BY <1>1, <2>2, <3>2, <3>3 DEF Inv, TeeTypes, AtBranch
    <2>5. CASE tee' # ToNext
      <3> DEFINE push == owed[b] \o CatchUp(b) \o <<tee.item>>
      <3>1. tee' = [tee EXCEPT !.at = "locking", !.push = push]
        BY <2>3, <2>5
      <3>2. push \in Seq(ItemsTo(timeline)) /\ push # <<>>
        BY <1>3, PushIs DEF Inv
      <3> HIDE DEF push
      <3>3. tee'.at = "locking" /\ tee'.left = tee.left /\ tee'.push = push
        BY <3>1 DEF Inv, TeeTypes
      <3>4. tee' \in [at : {"idle", "flowing"} \cup Owing \cup Handing,
                  item : ItemsTo(timeline), msg : Message \cup {None},
                  left : SUBSET Branches, push : Seq(ItemsTo(timeline))]
        BY <3>1, <3>2 DEF Inv, TeeTypes, Handing
      <3> QED  BY <1>1, <1>2, <2>2, <3>2, <3>3, <3>4 DEF Inv, TeeTypes
    <2> QED BY <2>4, <2>5
  <1>7. OwedBounded'
    <2>1. Cardinality(Buffers(WithItem(b))) <= MaxOwed
      BY <1>3, WithItemKeeps DEF Inv
    <2>2. Cardinality(Buffers(<<>>)) <= MaxOwed
      <3>1. Buffers(<<>>) = {}
        BY DEF Buffers
      <3> QED  BY <3>1, FS_EmptySet, Numbers
    <2>3. owed' = owed \/ owed' = [owed EXCEPT ![b] = WithItem(b)]
          \/ owed' = [owed EXCEPT ![b] = <<>>]
      BY <1>3 DEF TeeLooks
    <2>4. \A d \in Branches : owed'[d] \in {owed[d], WithItem(b), <<>>}
      BY <2>3 DEF Inv, TeeTypes
    <2>5. \A d \in Branches : owed'[d] = owed[d] \/ owed'[d] = <<>>
                              \/ owed'[d] = WithItem(b)
      BY <2>4
    <2>6. ASSUME NEW d \in Branches PROVE Cardinality(Buffers(owed'[d])) <= MaxOwed
      BY <2>1, <2>2, <2>5 DEF Inv, OwedBounded
    <2> QED BY <2>6 DEF OwedBounded
  <1>8. Locks'
    <2>1. tee'.at \in {"handing", "locking"}
      BY DEF Inv, TeeTypes, TeeLooks, ToNext
    <2> QED BY <1>1, <2>1 DEF Inv, Locks, HasPad
  <1>9. Over'
    <2>1. tee'.at \in {"handing", "locking"}
      BY DEF Inv, TeeTypes, TeeLooks, ToNext
    <2> QED BY <1>1, <2>1 DEF Inv, Over
  <1>10. Plan'
    <2>1. tee'.at \in {"handing", "locking"} /\ tee'.msg = tee.msg /\ tee.at = "handing"
      BY DEF Inv, TeeTypes, TeeLooks, ToNext
    <2>2. source.at # "begin"
      BY <2>1 DEF Inv, Plan
    <2> QED BY <1>1, <2>1, <2>2 DEF Inv, Plan, Still, Handing, Owing
  <1>11. HeldBack'
    <2>1. asked # "Preroll"
      BY <1>2 DEF Inv, Plan, Handing, None
    <2>2. \/ owed' = owed
          \/ IsReady(b) /\ owed' = [owed EXCEPT ![b] = WithItem(b)]
          \/ owed' = [owed EXCEPT ![b] = <<>>]
      BY <1>3 DEF TeeLooks, Held
    <2>3. context.on => \A d \in Branches : ~IsReady(d) => owed'[d] = <<>>
      BY <1>3, <2>1, <2>2 DEF Inv, HeldBack, TeeTypes
    <2>4. tee'.at \in {"handing", "locking"}
      BY DEF Inv, TeeTypes, TeeLooks, ToNext
    <2>5. ASSUME tee'.at = "locking", context.on
          PROVE  /\ ~IsReady(b) /\ tee'.left = tee.left
                 /\ \A i \in 1 .. Len(tee'.push) - 1 : tee'.push[i].is = "segment"
      <3> DEFINE push == owed[b] \o CatchUp(b) \o <<tee.item>>
      <3>1. ~IsReady(b) /\ tee' = [tee EXCEPT !.at = "locking", !.push = push]
        BY <1>3, <2>5 DEF TeeLooks, Held, ToNext, Inv, TeeTypes
      <3>2. owed[b] = <<>>
        BY <2>1, <2>5, <3>1 DEF Inv, HeldBack
      <3>3. \A i \in 1 .. Len(push) - 1 : push[i].is = "segment"
        BY <1>3, <3>2, PushIs DEF Inv
      <3>4. tee'.left = tee.left /\ tee'.push = push
        BY <3>1 DEF Inv, TeeTypes
      <3> HIDE DEF push
      <3> QED  BY <3>1, <3>3, <3>4
    <2>6. tee'.left = tee.left => Branch' = b
      BY <1>3 DEF Branch
    <2>7. IsReady(b)' = IsReady(b)
      BY <1>1 DEF IsReady
    <2>8. \A d \in Branches : IsReady(d)' = IsReady(d)
      BY <1>1 DEF IsReady
    <2> QED BY <1>1, <2>3, <2>4, <2>5, <2>6, <2>7, <2>8 DEF HeldBack, Owing
  <1> QED  BY <1>4, <1>5, <1>6, <1>7, <1>8, <1>9, <1>10, <1>11 DEF Inv

\* On to the next branch.
LEMMA ToNextTypes ==
    ASSUME TeeTypes, tee' = ToNext, UNCHANGED <<segment, owed, timeline>>
    PROVE  TeeTypes' /\ tee'.at = "handing" /\ tee'.msg = tee.msg
  <1>1. PICK b : b = Branch
    OBVIOUS
  <1>2. tee' = [tee EXCEPT !.at = "handing", !.left = tee.left \ {b}, !.push = <<>>]
    BY <1>1 DEF ToNext
  <1>3. <<>> \in Seq(ItemsTo(timeline)) /\ tee.left \ {b} \in SUBSET Branches
    BY DEF TeeTypes
  <1>4. tee'.at = "handing" /\ tee'.msg = tee.msg
    BY <1>2 DEF TeeTypes
  <1>5. tee' \in [at : {"idle", "flowing"} \cup Owing \cup Handing,
            item : ItemsTo(timeline), msg : Message \cup {None},
            left : SUBSET Branches, push : Seq(ItemsTo(timeline))]
    BY <1>2, <1>3 DEF TeeTypes, Handing
  <1> QED  BY <1>4, <1>5 DEF TeeTypes, AtBranch

\* A message taken, the source stands still where the call goes on from there.
LEMMA AckedKeeps ==
    ASSUME PipeTypes, SourceTypes, Plan, tee.msg = asked, asked # None, source.at # "begin",
           Acked, UNCHANGED <<phase, context, timeline, todo, paused, stepped, ops>>
    PROVE  PipeTypes' /\ SourceTypes' /\ Plan' /\ tee'.at = "idle"
  <1>1. tee'.at = "idle" /\ tee'.msg = None /\ asked' = None
    BY DEF Acked, Idle
  <1>2. source' = [source EXCEPT !.held = IF asked = "Pause" THEN TRUE
                                         ELSE source.held /\ phase = "paused"]
    BY DEF Acked, Holds
  <1>3. PipeTypes'
    BY <1>1 DEF PipeTypes
  <1>4. SourceTypes'
    BY <1>2 DEF SourceTypes
  <1>5. source'.at = source.at
    BY <1>2 DEF SourceTypes
  <1>6. /\ asked = "Pause" => source'.held
        /\ source.held /\ phase = "paused" => source'.held
    BY <1>2 DEF SourceTypes
  <1>7. /\ todo = <<>> /\ paused => Still' /\ phase' = "paused"
        /\ todo # <<>> /\ todo[1] \in {"Flush", "Seek", "Preroll", "Step"}
              => Still' /\ phase' = "paused"
    <2>1. asked \in Message
      BY DEF PipeTypes
    <2>2. CASE asked = "Resume"
      BY <2>2 DEF Plan
    <2>3. CASE asked = "Pause"
      BY <1>1, <1>5, <1>6, <2>3 DEF Plan, Still
    <2>4. CASE asked \in {"Flush", "Seek"}
      BY <1>1, <1>5, <1>6, <2>4 DEF Plan, Still
    <2>5. CASE asked = "Preroll"
      <3>1. todo \in Awaiting
        BY <2>5 DEF Plan
      <3>2. todo # <<>> /\ todo[1] = "await"
        BY <3>1, AwaitingIs, Leaves DEF StageLeaves
      <3> QED  BY <3>2
    <2> QED BY <2>1, <2>2, <2>3, <2>4, <2>5 DEF Message
  <1>8. Plan'
    BY <1>1, <1>5, <1>7 DEF Plan, None, Message, Owing, Handing
  <1> QED  BY <1>1, <1>3, <1>4, <1>8

\* Whose pad it is after a push, and who is ready.
PushLeft(b, item, by) ==
    /\ pad'[b].by = by
    /\ \A d \in Branches \ {b} : pad'[d] = pad[d] /\ ended'[d] = ended[d]
    /\ context'.on = context.on /\ context'.expected = context.expected
    /\ context.ready \subseteq context'.ready
    /\ context'.ready \subseteq context.ready \cup {b}
    /\ item.is = "segment" => context' = context
    /\ timeline' = timeline

\* So it is.
LEMMA PushLeaves ==
    ASSUME PipeTypes, TerminalTypes, NEW t, NEW b \in Branches, NEW item, NEW by, NEW fails,
           Push(t, b, item, by, fails)
    PROVE  PushLeft(b, item, by)
  <1>1. pad'[b].by = by /\ \A d \in Branches \ {b} : pad'[d] = pad[d]
    BY DEF Push, TerminalTypes
  <1>2. \A d \in Branches \ {b} : ended'[d] = ended[d]
    BY DEF Push, TerminalTypes
  <1>3. /\ context'.on = context.on /\ context'.expected = context.expected
        /\ context.ready \subseteq context'.ready
        /\ context'.ready \subseteq context.ready \cup {b}
        /\ item.is = "segment" => context' = context
    BY DEF Push, PipeTypes
  <1>4. timeline' = timeline
    BY DEF Push
  <1> QED  BY <1>1, <1>2, <1>3, <1>4 DEF PushLeft

\* Locked, the pad of a branch that is still active is the Tee's.
LEMMA TeeLocksKeeps ==
    ASSUME Inv, TeeLocks
    PROVE  Inv'
  <1>1. UNCHANGED <<phase, context, timeline, todo, asked, paused, stepped, source,
                      segment, owed, attached, active, on, ended, posted, said, check,
                      call, ops, got, heard, finished, unheard>>
    BY DEF TeeLocks, ToNext, playback, pipeline, topology, ends, handle, terminal
  <1>2. tee.left # {}
    BY DEF Inv, TeeTypes, AtBranch, TeeLocks
  <1>3. PICK b \in Branches : b = Branch /\ b \in tee.left
    BY <1>2, BranchIn DEF Inv
  <1>4. \/ b \in active /\ tee' = [tee EXCEPT !.at = "pushing"]
           /\ pad' = [pad EXCEPT ![b].by = Source]
        \/ tee' = ToNext /\ pad' = pad
    BY <1>3 DEF TeeLocks
  <1>5. tee' = [tee EXCEPT !.at = "pushing"] =>
            tee'.at = "pushing" /\ tee'.left = tee.left /\ tee'.push = tee.push
    BY DEF Inv, TeeTypes
  <1>6. tee.at = "locking" /\ pad[b].by = None
    BY <1>3 DEF TeeLocks
  <1>7. tee'.left = tee.left => Branch' = b
    BY <1>3 DEF Branch
  <1>8. tee' = ToNext => tee'.at = "handing" /\ tee'.msg = tee.msg
    BY <1>1, ToNextTypes DEF Inv
  <1>9. PipeTypes' /\ SourceTypes' /\ OwedBounded' /\ ListTypes'
    BY <1>1, PipeTypesStay, SourceTypesStay, OwedBoundedStay, ListTypesStay DEF Inv
  <1>10. CheckTypes' /\ CallTypes' /\ Earned' /\ Covered'
    BY <1>1, CheckTypesStay, CallTypesStay, EarnedStay, CoveredStay DEF Inv
  <1>11. TeeTypes'
    <2>1. CASE tee' = [tee EXCEPT !.at = "pushing"]
      <3>1. tee' \in [at : {"idle", "flowing"} \cup Owing \cup Handing,
                  item : ItemsTo(timeline), msg : Message \cup {None},
                  left : SUBSET Branches, push : Seq(ItemsTo(timeline))]
        BY <2>1 DEF Inv, TeeTypes, Handing
      <3> QED  BY <1>1, <1>2, <1>5, <1>6, <2>1, <3>1 DEF Inv, TeeTypes
    <2> QED BY <1>1, <1>4, <2>1, ToNextTypes DEF Inv
  <1>12. TerminalTypes'
    <2>1. pad' = pad \/ pad' = [pad EXCEPT ![b].by = Source]
      BY <1>4
    <2>2. pad' \in [Branches -> [flushing : BOOLEAN, ended : BOOLEAN,
                                 by : Threads \cup {None, "unbuilt"}]]
      BY <2>1 DEF Inv, TerminalTypes, Threads
    <2> QED BY <1>1, <2>2 DEF Inv, TerminalTypes
  <1>13. Locks'
    <2>1. CASE tee' = ToNext /\ pad' = pad
      BY <1>1, <1>8, <2>1 DEF Inv, Locks, HasPad
    <2>2. CASE tee' = [tee EXCEPT !.at = "pushing"] /\ pad' = [pad EXCEPT ![b].by = Source]
      <3>1. pad'[b].by = Source /\ \A d \in Branches \ {b} : pad'[d] = pad[d]
        BY <2>2 DEF Inv, TerminalTypes
      <3>2. \A c \in Callers : call[c].at = "reporting" =>
                call[c].branch \in Branches /\ call[c].branch # b
        BY <1>6, Numbers DEF Inv, Locks, CallTypes
      <3>3. \A c \in Callers : call'[c].at = "reporting" => pad'[call'[c].branch].by = c
        BY <1>1, <3>1, <3>2 DEF Inv, Locks
      <3>4. Branch' = b
        BY <1>5, <1>7, <2>2
      <3> QED  BY <1>1, <3>1, <3>3, <3>4, Numbers DEF Inv, Locks
    <2> QED BY <1>4, <2>1, <2>2
  <1>14. Over'
    BY <1>1, <1>4, <1>5, <1>7, <1>8 DEF Inv, Over
  <1>15. Plan'
    <2>1. tee'.at \in Handing /\ tee'.msg = tee.msg /\ tee.at \in Handing
      BY <1>4, <1>8, <1>6 DEF Inv, TeeTypes, Handing
    <2>2. source.at # "begin"
      BY <1>6 DEF Inv, Plan
    <2> QED BY <1>1, <2>1, <2>2 DEF Inv, Plan, Still, Handing, Owing
  <1>16. HeldBack'
    <2>1. \A d \in Branches : IsReady(d)' = IsReady(d)
      BY <1>1 DEF IsReady
    <2>2. CASE tee'.at = "handing"
      BY <1>1, <2>1, <2>2 DEF Inv, HeldBack, Owing
    <2>3. CASE b \in active /\ tee' = [tee EXCEPT !.at = "pushing"]
      <3>1. tee'.at = "pushing" /\ tee'.push = tee.push /\ Branch' = b
        BY <1>5, <1>7, <2>3
      <3>2. context.on /\ b \in context.expected =>
              /\ \A i \in 1 .. Len(tee.push) - 1 : tee.push[i].is = "segment"
              /\ ~IsReady(b)
        BY <1>3, <1>6, <2>3 DEF Inv, HeldBack
      <3> QED  BY <1>1, <1>3, <2>1, <3>1, <3>2 DEF Inv, HeldBack, Owing
    <2> QED BY <1>4, <1>8, <2>2, <2>3
  <1> QED  BY <1>9, <1>10, <1>11, <1>12, <1>13, <1>14, <1>15, <1>16 DEF Inv

\* The first of a sequence, and what is left of it.
LEMMA FirstIs ==
    ASSUME NEW S, NEW s \in Seq(S), s # <<>>
    PROVE  /\ Head(s) = s[1] /\ s[1] \in S /\ Tail(s) \in Seq(S)
           /\ Len(s) \in Nat /\ Len(s) >= 1 /\ Len(Tail(s)) = Len(s) - 1
           /\ \A i \in 1 .. Len(s) - 1 : Tail(s)[i] = s[i + 1]
  BY HeadTailProperties, EmptySeq

\* The push of an item by the Tee: the pad goes with the last.
PushesOne(b, item, last, by, fails) ==
    /\ item = tee.push[1] /\ item \in ItemsTo(timeline)
    /\ Push(Source, b, item, by, fails)
    /\ last => by = None /\ tee' = ToNext
    /\ ~last => /\ by = Source
                /\ tee' = [tee EXCEPT !.push = Tail(tee.push), !.at =
                              IF Len(tee.push) = 1 THEN "reporting" ELSE tee.at]

\* What TeePushes is.
LEMMA PushesIs ==
    ASSUME TeeTypes, TeePushes, NEW b, b = Branch
    PROVE  \E item \in ItemsTo(timeline), last \in BOOLEAN, by \in {Source, None},
              fails \in BOOLEAN : PushesOne(b, item, last, by, fails)
  <1>1. PICK fails \in BOOLEAN :
            LET last == Len(tee.push) = 1 /\ ~Reports(Branch, tee.push[1], fails)
            IN /\ Push(Source, Branch, Head(tee.push), IF last THEN None ELSE Source, fails)
               /\ tee' = IF last THEN ToNext
                         ELSE [tee EXCEPT !.push = Tail(@),
                               !.at = IF Len(tee.push) = 1 THEN "reporting" ELSE @]
    BY DEF TeePushes
  <1>2. Head(tee.push) = tee.push[1] /\ tee.push[1] \in ItemsTo(timeline)
    <2>1. tee.push # <<>> /\ tee.push \in Seq(ItemsTo(timeline))
      BY DEF TeeTypes, TeePushes
    <2>2. PICK items, push : items = ItemsTo(timeline) /\ push = tee.push
      OBVIOUS
    <2>3. push # <<>> /\ push \in Seq(items)
      BY <2>1, <2>2
    <2>4. Head(push) = push[1] /\ push[1] \in items
      BY <2>3, FirstIs
    <2> QED BY <2>2, <2>4
  <1>3. CASE Len(tee.push) = 1 /\ ~Reports(Branch, tee.push[1], fails)
    <2>1. Push(Source, b, tee.push[1], None, fails) /\ tee' = ToNext
      BY <1>1, <1>2, <1>3
    <2>2. PushesOne(b, tee.push[1], TRUE, None, fails)
      BY <1>2, <2>1 DEF PushesOne
    <2> QED BY <1>2, <2>2
  <1>4. CASE ~(Len(tee.push) = 1 /\ ~Reports(Branch, tee.push[1], fails))
    <2>1. /\ Push(Source, b, tee.push[1], Source, fails)
          /\ tee' = [tee EXCEPT !.push = Tail(tee.push), !.at =
                              IF Len(tee.push) = 1 THEN "reporting" ELSE tee.at]
      BY <1>1, <1>2, <1>4
    <2>2. PushesOne(b, tee.push[1], FALSE, Source, fails)
      BY <1>2, <2>1 DEF PushesOne
    <2> QED BY <1>2, <2>2
  <1> QED  BY <1>3, <1>4

\* An item is pushed, and the pad goes with the last of them.
LEMMA TeePushesKeeps ==
    ASSUME Inv, TeePushes
    PROVE  Inv'
  <1>1. UNCHANGED <<phase, timeline, todo, asked, paused, stepped, source, segment, owed,
                      attached, active, posted, said, call, ops, finished, unheard>>
    BY DEF TeePushes, Push, playback, pipeline, topology, ends, handle, terminal
  <1>2. tee.left # {}
    BY DEF Inv, TeeTypes, AtBranch, TeePushes
  <1>3. PICK b \in Branches : b = Branch /\ b \in tee.left
    BY <1>2, BranchIn DEF Inv
  <1>4. PICK item \in ItemsTo(timeline), last \in BOOLEAN, by \in {Source, None},
             fails \in BOOLEAN : PushesOne(b, item, last, by, fails)
    BY <1>3, PushesIs DEF Inv
  <1>5. Push(Source, b, item, by, fails) /\ by \in Threads \cup {None} /\ Source \in Threads
    BY <1>4 DEF PushesOne, Threads
  <1>6. ~last => /\ tee'.left = tee.left /\ tee'.msg = tee.msg /\ tee'.push = Tail(tee.push)
                 /\ tee'.at = IF Len(tee.push) = 1 THEN "reporting" ELSE "pushing"
    BY <1>4 DEF PushesOne, Inv, TeeTypes, TeePushes
  <1>7. tee'.left = tee.left => Branch' = b
    BY <1>3 DEF Branch
  <1>8. last => tee'.at = "handing" /\ tee'.msg = tee.msg
    BY <1>1, <1>4, ToNextTypes DEF Inv, PushesOne, Push
  <1>9. PushLeft(b, item, by)
    BY <1>5, PushLeaves DEF Inv
  <1>10. SourceTypes' /\ OwedBounded' /\ ListTypes' /\ CallTypes'
    BY <1>1, SourceTypesStay, OwedBoundedStay, ListTypesStay, CallTypesStay DEF Inv
  <1>11. PipeTypes'
    BY <1>1, <1>5, PushPipe DEF Inv
  <1>12. TeeTypes'
    <2>1. timeline' = timeline
      BY <1>5 DEF Push
    <2>2. CASE last
      BY <1>1, <1>4, <2>1, <2>2, ToNextTypes DEF Inv, PushesOne
    <2>3. CASE ~last
      <3>1. tee.push # <<>> /\ tee.push \in Seq(ItemsTo(timeline))
        BY DEF Inv, TeeTypes, TeePushes
      <3>2. /\ Tail(tee.push) \in Seq(ItemsTo(timeline))
            /\ Len(tee.push) # 1 => Tail(tee.push) # <<>>
        <4>1. PICK items, push : items = ItemsTo(timeline) /\ push = tee.push
          OBVIOUS
        <4>2. push # <<>> /\ push \in Seq(items)
          BY <3>1, <4>1
        <4>3. /\ Tail(push) \in Seq(items) /\ Len(push) \in Nat
              /\ Len(Tail(push)) = Len(push) - 1
          BY <4>2, FirstIs
        <4>4. Len(push) # 1 => Tail(push) # <<>>
          BY <4>3
        <4> QED  BY <4>1, <4>3, <4>4
      <3>3. tee' = [tee EXCEPT !.push = Tail(tee.push), !.at =
                              IF Len(tee.push) = 1 THEN "reporting" ELSE tee.at]
        BY <1>4, <2>3 DEF PushesOne
      <3>4. tee' \in [at : {"idle", "flowing"} \cup Owing \cup Handing,
                  item : ItemsTo(timeline), msg : Message \cup {None},
                  left : SUBSET Branches, push : Seq(ItemsTo(timeline))]
        BY <3>2, <3>3 DEF Inv, TeeTypes, Handing
      <3> QED  BY <1>1, <1>2, <1>6, <2>1, <2>3, <3>2, <3>4 DEF Inv, TeeTypes
    <2> QED BY <2>2, <2>3
  <1>13. TerminalTypes'
    BY <1>5, PushTerminal DEF Inv
  <1>14. CheckTypes'
    BY <1>5, PushCheck DEF Inv
  <1>15. Locks'
    <2>1. pad[b].by = Source
      BY <1>3 DEF Inv, Locks, HasPad, TeePushes
    <2>2. \A c \in Callers : call[c].at = "reporting" =>
              call[c].branch \in Branches /\ call[c].branch # b
      BY <2>1, Numbers DEF Inv, Locks, CallTypes
    <2>3. \A c \in Callers : call'[c].at = "reporting" => pad'[call'[c].branch].by = c
      BY <1>1, <1>9, <2>2 DEF Inv, Locks, PushLeft
    <2>4. tee'.at \in HasPad => pad'[Branch'].by = Source
      <3>1. CASE last
        BY <1>8, <3>1 DEF HasPad
      <3>2. CASE ~last
        <4>1. by = Source /\ Branch' = b
          BY <1>4, <1>6, <1>7, <3>2 DEF PushesOne
        <4> QED BY <1>9, <4>1 DEF PushLeft
      <3> QED  BY <3>1, <3>2
    <2>5. \A d \in Branches : pad'[d].by = "unbuilt" => d # b
      BY <1>9, Numbers DEF PushLeft
    <2> QED BY <1>1, <1>9, <2>3, <2>4, <2>5 DEF Inv, Locks, PushLeft
  <1>16. Earned'
    BY <1>5, PushEarned DEF Inv
  <1>17. Over'
    <2>1. tee'.at = "pushing" => ~last
      BY <1>8
    <2> QED BY <1>1, <1>3, <1>6, <1>7, <2>1 DEF Inv, Over, TeePushes
  <1>18. Covered'
    BY <1>1, <1>5, PushCovered DEF Inv
  <1>19. Plan'
    <2>1. tee'.at \in Handing /\ tee'.msg = tee.msg /\ tee.at \in Handing
      BY <1>6, <1>8 DEF TeePushes, Handing
    <2>2. source.at # "begin"
      BY DEF Inv, Plan, TeePushes
    <2> QED BY <1>1, <2>1, <2>2 DEF Inv, Plan, Still, Handing, Owing, TeePushes
  <1>20. HeldBack'
    <2>1. context'.on /\ asked' # "Preroll" =>
              \A d \in Branches : ~IsReady(d)' => owed'[d] = <<>>
      BY <1>1, <1>9 DEF Inv, HeldBack, IsReady, PushLeft
    <2>2. tee'.at \in {"handing", "reporting", "pushing"}
      BY <1>6, <1>8
    <2>3. ASSUME tee'.at = "pushing", context'.on, b \in context'.expected
           PROVE  /\ \A i \in 1 .. Len(tee'.push) - 1 : tee'.push[i].is = "segment"
                  /\ IsReady(b)' => b \notin attached'
      <3>1. ~last /\ Len(tee.push) # 1 /\ tee'.push = Tail(tee.push)
        BY <1>6, <1>8, <2>3
      <3>2. tee.push # <<>> /\ tee.push \in Seq(ItemsTo(timeline)) /\ tee.at = "pushing"
        BY DEF Inv, TeeTypes, TeePushes
      <3>3. /\ \A i \in 1 .. Len(tee.push) - 1 : tee.push[i].is = "segment"
            /\ IsReady(b) => b \notin attached
        BY <1>3, <1>9, <2>3, <3>2 DEF Inv, HeldBack, PushLeft
      <3>4. /\ Len(tee.push) \in Nat /\ Len(tee.push) >= 1
            /\ Len(Tail(tee.push)) = Len(tee.push) - 1
            /\ \A i \in 1 .. Len(tee.push) - 1 : Tail(tee.push)[i] = tee.push[i + 1]
        <4>1. PICK items, push : items = ItemsTo(timeline) /\ push = tee.push
          OBVIOUS
        <4>2. push # <<>> /\ push \in Seq(items)
          BY <3>2, <4>1
        <4>3. /\ Len(push) \in Nat /\ Len(push) >= 1 /\ Len(Tail(push)) = Len(push) - 1
              /\ \A i \in 1 .. Len(push) - 1 : Tail(push)[i] = push[i + 1]
          BY <4>2, FirstIs
        <4> QED  BY <4>1, <4>3
      <3>5. context' = context
        <4>0. Len(tee.push) \in Nat /\ Len(tee.push) >= 1 /\ Len(tee.push) # 1
          BY <3>1, <3>4
        <4>1. 1 \in 1 .. Len(tee.push) - 1
          <5>1. PICK n \in Nat : n = Len(tee.push)
            BY <4>0
          <5>2. n >= 1 /\ n # 1
            BY <4>0, <5>1
          <5>3. 1 \in 1 .. n - 1
            BY <5>2
          <5> QED  BY <5>1, <5>3
        <4>2. item.is = "segment"
          BY <1>4, <3>3, <4>1 DEF PushesOne
        <4> QED BY <1>9, <4>2 DEF PushLeft
      <3>6. \A i \in 1 .. Len(Tail(tee.push)) - 1 : Tail(tee.push)[i].is = "segment"
        <4> TAKE i \in 1 .. Len(Tail(tee.push)) - 1
        <4>1. i \in 1 .. Len(tee.push) - 1 /\ i + 1 \in 1 .. Len(tee.push) - 1
          BY <3>4
        <4> QED BY <3>3, <3>4, <4>1
      <3> QED  BY <1>1, <3>1, <3>3, <3>5, <3>6 DEF IsReady
    <2>4. tee'.at = "pushing" => Branch' = b
      BY <1>6, <1>7, <1>8
    <2> QED BY <2>1, <2>2, <2>3, <2>4 DEF HeldBack, Owing
  <1> QED  BY <1>10, <1>11, <1>12, <1>13, <1>14, <1>15, <1>16, <1>17, <1>18, <1>19,
      <1>20 DEF Inv

\* With no branch left the item is handed out, and the message it came with taken.
LEMMA TeeHandedKeeps ==
    ASSUME Inv, TeeHanded
    PROVE  Inv'
  <1>1. UNCHANGED <<phase, context, timeline, todo, paused, stepped, segment, owed,
                      attached, active, pad, on, ended, posted, said, check, call, ops,
                      got, heard, finished, unheard>>
    BY DEF TeeHanded, Acked, playback, pipeline, topology, ends, handle, terminal
  <1>2. tee' = Idle
    BY DEF TeeHanded, Acked
  <1>3. tee'.at = "idle"
    BY <1>2 DEF Idle
  <1>4. OwedBounded' /\ ListTypes' /\ TerminalTypes' /\ CheckTypes'
    BY <1>1, OwedBoundedStay, ListTypesStay, TerminalTypesStay, CheckTypesStay DEF Inv
  <1>5. CallTypes' /\ Earned' /\ Covered'
    BY <1>1, CallTypesStay, EarnedStay, CoveredStay DEF Inv
  <1>6. PipeTypes'
    <2>1. asked' = asked \/ asked' = None
      BY DEF TeeHanded, Acked
    <2> QED BY <1>1, <2>1 DEF Inv, PipeTypes
  <1>7. SourceTypes'
    <2>1. source' = source \/ \E held \in BOOLEAN : source' = [source EXCEPT !.held = held]
      <3>1. CASE tee.msg = None
        BY <3>1 DEF TeeHanded
      <3>2. CASE tee.msg # None
        <4>1. PICK held : held = IF tee.msg = "Pause" THEN TRUE ELSE source.held /\ Holds
          OBVIOUS
        <4>2. held \in BOOLEAN
          BY <4>1 DEF Inv, SourceTypes, Holds
        <4>3. source' = [source EXCEPT !.held = held]
          BY <3>2, <4>1 DEF TeeHanded, Acked
        <4> QED BY <4>2, <4>3
      <3> QED  BY <3>1, <3>2
    <2> QED BY <2>1 DEF Inv, SourceTypes
  <1>8. TeeTypes'
    <2>1. tee' = Idle
      BY DEF TeeHanded, Acked
    <2> QED BY <1>1, <2>1, IdleTypes DEF Inv
  <1>9. Locks'
    BY <1>1, <1>3 DEF Inv, Locks, HasPad
  <1>10. Over'
    BY <1>1, <1>3 DEF Inv, Over
  <1>11. Plan'
    <2>1. source.at # "begin" /\ (tee.msg = None \/ (tee.msg = "Seek" /\ asked = "Seek"))
      BY DEF Inv, Plan, TeeHanded, Handing
    <2>2. CASE tee.msg = None
      <3>1. tee' = Idle /\ UNCHANGED <<asked, source>>
        BY <2>2 DEF TeeHanded
      <3>2. tee'.at = "idle" /\ tee'.msg = None /\ tee.at = "handing"
        BY <3>1 DEF Idle, TeeHanded
      <3> QED  BY <1>1, <2>1, <3>1, <3>2 DEF Inv, Plan, Still, Owing, Handing
    <2>3. CASE tee.msg # None
      <3>1. Acked /\ tee.msg = asked /\ asked # None
        BY <2>1, <2>3 DEF TeeHanded
      <3> QED  BY <1>1, <2>1, <3>1, AckedKeeps DEF Inv
    <2> QED BY <2>2, <2>3
  <1>12. HeldBack'
    <2>1. asked # "Preroll"
      BY DEF Inv, Plan, TeeHanded, Handing, None
    <2>2. \A d \in Branches : IsReady(d)' = IsReady(d)
      BY <1>1 DEF IsReady
    <2> QED BY <1>1, <1>3, <2>1, <2>2 DEF Inv, HeldBack, Owing
  <1> QED  BY <1>4, <1>5, <1>6, <1>7, <1>8, <1>9, <1>10, <1>11, <1>12 DEF Inv

\* A flush drops what a branch has on its way.
LEMMA TeeFlushesKeeps ==
    ASSUME Inv, TeeFlushes
    PROVE  Inv'
  <1>1. UNCHANGED <<phase, context, timeline, todo, asked, paused, stepped, source,
                      segment, owed, attached, active, on, ended, posted, said, check,
                      call, ops, heard, finished, unheard>>
    BY DEF TeeFlushes, playback, pipeline, topology, ends, handle, terminal
  <1>2. tee.left # {} /\ tee.at = "flowing"
    BY DEF TeeFlushes
  <1>3. PICK b \in Branches : b = Branch /\ b \in tee.left
    BY <1>2, BranchIn DEF Inv
  <1>4. tee' = [tee EXCEPT !.left = tee.left \ {b}]
    BY <1>3 DEF TeeFlushes
  <1>5. tee'.at = "flowing" /\ tee'.msg = tee.msg
    BY <1>2, <1>4 DEF Inv, TeeTypes
  <1>6. PipeTypes' /\ SourceTypes' /\ OwedBounded' /\ ListTypes'
    BY <1>1, PipeTypesStay, SourceTypesStay, OwedBoundedStay, ListTypesStay DEF Inv
  <1>7. CheckTypes' /\ CallTypes' /\ Earned' /\ Covered'
    BY <1>1, CheckTypesStay, CallTypesStay, EarnedStay, CoveredStay DEF Inv
  <1>8. TeeTypes'
    <2>1. tee' \in [at : {"idle", "flowing"} \cup Owing \cup Handing,
                  item : ItemsTo(timeline), msg : Message \cup {None},
                  left : SUBSET Branches, push : Seq(ItemsTo(timeline))]
      BY <1>4 DEF Inv, TeeTypes
    <2> QED BY <1>1, <1>5, <2>1 DEF Inv, TeeTypes, AtBranch
  <1>9. TerminalTypes'
    <2>1. \/ pad' = pad /\ got' = got
          \/ /\ pad' = [pad EXCEPT ![b].flushing = TRUE]
             /\ got' = [got EXCEPT ![b] = <<FlushOf(timeline)>>]
      BY <1>3 DEF TeeFlushes
    <2>2. <<FlushOf(timeline)>> \in Seq(Items)
      <3>1. FlushOf(timeline) \in Items
        BY ItemTypes DEF Inv, ItemsTo
      <3> QED  BY <3>1
    <2>3. pad' \in [Branches -> [flushing : BOOLEAN, ended : BOOLEAN,
                                 by : Threads \cup {None, "unbuilt"}]]
      <3>1. PICK yes \in BOOLEAN : yes = TRUE
        OBVIOUS
      <3>2. pad' = pad \/ pad' = [pad EXCEPT ![b].flushing = yes]
        BY <2>1, <3>1
      <3> QED  BY <3>2 DEF Inv, TerminalTypes
    <2>4. got' \in [Branches -> Seq(Items)]
      BY <2>1, <2>2 DEF Inv, TerminalTypes
    <2> QED BY <1>1, <2>3, <2>4 DEF Inv, TerminalTypes
  <1>10. Locks'
    <2>1. \A d \in Branches : pad'[d].by = pad[d].by
      <3>1. pad' = pad \/ pad' = [pad EXCEPT ![b].flushing = TRUE]
        BY <1>3 DEF TeeFlushes
      <3>2. pad \in [Branches -> [flushing : BOOLEAN, ended : BOOLEAN,
                                  by : Threads \cup {None, "unbuilt"}]]
        BY DEF Inv, TerminalTypes
      <3> QED  BY <3>1, <3>2
    <2>2. \A c \in Callers : call[c].at = "reporting" => call[c].branch \in Branches
      BY DEF Inv, CallTypes
    <2> QED BY <1>1, <1>5, <2>1, <2>2 DEF Inv, Locks, HasPad
  <1>11. Over'
    BY <1>1, <1>5 DEF Inv, Over
  <1>12. Plan'
    BY <1>1, <1>2, <1>5 DEF Inv, Plan, Still, Handing, Owing
  <1>13. HeldBack'
    <2>1. \A d \in Branches : IsReady(d)' = IsReady(d)
      BY <1>1 DEF IsReady
    <2> QED BY <1>1, <1>5, <2>1 DEF Inv, HeldBack, Owing
  <1> QED  BY <1>6, <1>7, <1>8, <1>9, <1>10, <1>11, <1>12, <1>13 DEF Inv

\* Where the Tee is once the branches have been told.
LEMMA FlowedAt ==
    ASSUME TeeTypes, TeeFlowed
    PROVE  /\ tee'.at \in {"idle", "handing", "owing"}
           /\ tee'.at = "owing" => \A b \in Branches \ tee'.left : owed'[b] = <<>>
           /\ Acked \/ /\ tee'.msg = tee.msg /\ UNCHANGED <<asked, source>>
                       /\ \/ tee'.at = "handing" /\ tee.msg = "Seek"
                          \/ tee'.at = "owing"
  <1>1. CASE Acked
    <2>1. tee' = Idle
      BY <1>1 DEF Acked
    <2>2. tee'.at = "idle"
      BY <2>1 DEF Idle
    <2> QED BY <1>1, <2>2
  <1>2. CASE tee.msg = "Seek" /\ ~Acked
    <2>1. HandOut(Segment(timeline, TRUE)) /\ UNCHANGED <<asked, source>>
      BY <1>2 DEF TeeFlowed, HandsOn
    <2>2. tee'.at = "handing" /\ tee'.msg = tee.msg
      BY <2>1 DEF HandOut, TeeTypes
    <2> QED BY <1>2, <2>1, <2>2
  <1>3. CASE HandsOn(tee.msg) /\ ~Acked
    <2>1. /\ tee' = [tee EXCEPT !.at = "owing", !.left = {b \in attached : owed[b] # <<>>}]
          /\ owed' = [b \in Branches |-> IF b \in attached THEN owed[b] ELSE <<>>]
          /\ UNCHANGED <<asked, source>>
      BY <1>3 DEF TeeFlowed, HandsOn
    <2>2. /\ tee'.at = "owing" /\ tee'.msg = tee.msg
          /\ tee'.left = {b \in attached : owed[b] # <<>>}
      BY <2>1 DEF TeeTypes
    <2> QED BY <2>1, <2>2
  <1>4. Acked \/ tee.msg = "Seek" \/ HandsOn(tee.msg)
    BY DEF TeeFlowed
  <1> QED  BY <1>1, <1>2, <1>3, <1>4

\* Told to the branches, a message is taken; or it has them handed something first.
LEMMA TeeFlowedKeeps ==
    ASSUME Inv, TeeFlowed
    PROVE  Inv'
  <1>1. UNCHANGED <<phase, context, timeline, todo, paused, stepped, attached, active, pad,
                      on, ended, posted, said, check, call, ops, got, heard, finished,
                      unheard>>
    BY DEF TeeFlowed, Acked, HandOut, HandsOn, playback, pipeline, topology, ends, handle,
        terminal
  <1>2. tee.msg = asked /\ asked # None /\ source.at # "begin" /\ tee.at = "flowing"
    BY DEF Inv, Plan, TeeFlowed
  <1>3. tee'.at \in {"idle", "handing", "owing"}
    BY FlowedAt DEF Inv
  <1>4. ListTypes' /\ TerminalTypes' /\ CheckTypes' /\ CallTypes'
    BY <1>1, ListTypesStay, TerminalTypesStay, CheckTypesStay, CallTypesStay DEF Inv
  <1>5. Earned' /\ Covered'
    BY <1>1, EarnedStay, CoveredStay DEF Inv
  <1>6. PipeTypes'
    <2>1. asked' = asked \/ asked' = None
      BY DEF TeeFlowed, Acked
    <2> QED BY <1>1, <2>1 DEF Inv, PipeTypes
  <1>7. SourceTypes'
    <2>1. CASE Acked
      BY <1>1, <1>2, <2>1, AckedKeeps DEF Inv
    <2>2. CASE source' = source
      BY <2>2 DEF Inv, SourceTypes
    <2> QED BY <2>1, <2>2 DEF TeeFlowed
  <1>8. TeeTypes'
    <2>1. <<>> \in Seq(ItemsTo(timeline))
      OBVIOUS
    <2>2. CASE tee.msg = "Flush"
      <3>1. tee' = Idle /\ owed' = [b \in Branches |-> <<>>] /\ segment' = segment
        BY <2>2 DEF TeeFlowed, Acked, HandsOn
      <3>2. tee' \in [at : {"idle", "flowing"} \cup Owing \cup Handing,
                  item : ItemsTo(timeline), msg : Message \cup {None},
                  left : SUBSET Branches, push : Seq(ItemsTo(timeline))]
        <4>1. Nothing \in ItemsTo(timeline)
          BY ItemTypes DEF Inv
        <4> QED BY <2>1, <3>1, <4>1 DEF Idle
      <3>3. tee'.at = "idle" /\ owed' \in [Branches -> Seq(ItemsTo(timeline))]
        BY <2>1, <3>1 DEF Idle
      <3> QED  BY <1>1, <3>1, <3>2, <3>3 DEF Inv, TeeTypes, AtBranch
    <2>3. CASE tee.msg = "Seek"
      <3>1. HandOut(Segment(timeline, TRUE)) /\ owed' = owed
        BY <2>3 DEF TeeFlowed, HandsOn
      <3>2. Segment(timeline, TRUE) \in ItemsTo(timeline)
        BY ItemTypes DEF Inv
      <3>3. PICK item \in ItemsTo(timeline) : item = Segment(timeline, TRUE)
        BY <3>2
      <3>4. HandOut(item)
        BY <3>1, <3>3
      <3> QED  BY <1>1, <3>1, <3>4, HandOutTypes DEF Inv
    <2>4. CASE HandsOn(tee.msg)
      <3>1. /\ tee' = [tee EXCEPT !.at = "owing", !.left = {b \in attached : owed[b] # <<>>}]
            /\ owed' = [b \in Branches |-> IF b \in attached THEN owed[b] ELSE <<>>]
            /\ segment' = segment
        BY <2>4 DEF TeeFlowed, HandsOn
      <3>2. {b \in attached : owed[b] # <<>>} \in SUBSET Branches
        BY DEF Inv, ListTypes
      <3>3. tee' \in [at : {"idle", "flowing"} \cup Owing \cup Handing,
                  item : ItemsTo(timeline), msg : Message \cup {None},
                  left : SUBSET Branches, push : Seq(ItemsTo(timeline))]
        BY <3>1, <3>2 DEF Inv, TeeTypes, Owing
      <3>4. owed' \in [Branches -> Seq(ItemsTo(timeline))]
        BY <2>1, <3>1 DEF Inv, TeeTypes
      <3>5. tee'.at = "owing"
        BY <3>1 DEF Inv, TeeTypes
      <3> QED  BY <1>1, <3>1, <3>3, <3>4, <3>5 DEF Inv, TeeTypes, AtBranch
    <2>5. CASE tee.msg \notin {"Flush", "Seek"} /\ ~HandsOn(tee.msg)
      <3>1. tee' = Idle /\ UNCHANGED <<segment, owed>>
        BY <2>5 DEF TeeFlowed, Acked
      <3> QED  BY <1>1, <3>1, IdleTypes DEF Inv
    <2> QED BY <2>2, <2>3, <2>4, <2>5
  <1>9. OwedBounded'
    <2>1. Cardinality(Buffers(<<>>)) <= MaxOwed
      <3>1. Buffers(<<>>) = {}
        BY DEF Buffers
      <3> QED  BY <3>1, FS_EmptySet, Numbers
    <2>2. \A b \in Branches : owed'[b] = owed[b] \/ owed'[b] = <<>>
      BY DEF TeeFlowed
    <2>3. ASSUME NEW b \in Branches PROVE Cardinality(Buffers(owed'[b])) <= MaxOwed
      BY <2>1, <2>2 DEF Inv, OwedBounded
    <2> QED BY <2>3 DEF OwedBounded
  <1>10. Locks'
    BY <1>1, <1>3 DEF Inv, Locks, HasPad
  <1>11. Over'
    BY <1>1, <1>3 DEF Inv, Over
  <1>12. Plan'
    <2>1. CASE Acked
      BY <1>1, <1>2, <2>1, AckedKeeps DEF Inv
    <2>2. CASE ~Acked
      <3>1. /\ tee'.msg = tee.msg /\ UNCHANGED <<asked, source>>
            /\ \/ tee'.at = "handing" /\ tee.msg = "Seek"
               \/ tee'.at = "owing"
        BY <2>2, FlowedAt DEF Inv
      <3> QED  BY <1>1, <1>2, <3>1 DEF Inv, Plan, Still, Handing, Owing
    <2> QED BY <2>1, <2>2
  <1>13. HeldBack'
    <2>1. \A d \in Branches : IsReady(d)' = IsReady(d)
      BY <1>1 DEF IsReady
    <2>2. \A b \in Branches : owed'[b] = owed[b] \/ owed'[b] = <<>>
      BY DEF TeeFlowed
    <2>3. tee'.at \in Owing => \A b \in Branches \ tee'.left : owed'[b] = <<>>
      BY <1>3, FlowedAt DEF Inv, Owing
    <2>4. asked = "Preroll" => asked' = "Preroll"
      BY <1>2 DEF TeeFlowed, HandsOn
    <2> QED BY <1>1, <1>3, <2>1, <2>2, <2>3, <2>4 DEF Inv, HeldBack, Owing
  <1> QED  BY <1>4, <1>5, <1>6, <1>7, <1>8, <1>9, <1>10, <1>11, <1>12, <1>13 DEF Inv

\* It is idle once the source has taken the message.
LEMMA AckedAt == Acked => tee'.at = "idle"
  <1> SUFFICES ASSUME Acked PROVE tee'.at = "idle"
    OBVIOUS
  <1>1. tee' = Idle
    BY DEF Acked
  <1> QED  BY <1>1 DEF Idle

\* What is kept for a branch is about to be handed on, unless it is no longer active.
LEMMA TeeOwesKeeps ==
    ASSUME Inv, TeeOwes
    PROVE  Inv'
  <1>1. UNCHANGED <<phase, context, timeline, todo, paused, stepped, segment, attached,
                      active, pad, on, ended, posted, said, check, call, ops, got, heard,
                      finished, unheard>>
    BY DEF TeeOwes, Acked, playback, pipeline, topology, ends, handle, terminal
  <1>2. tee.at = "owing" /\ tee.msg = asked /\ asked # None /\ source.at # "begin"
    BY DEF Inv, Plan, Owing, TeeOwes
  <1>3. ListTypes' /\ TerminalTypes' /\ CheckTypes' /\ CallTypes'
    BY <1>1, ListTypesStay, TerminalTypesStay, CheckTypesStay, CallTypesStay DEF Inv
  <1>4. Earned' /\ Covered'
    BY <1>1, EarnedStay, CoveredStay DEF Inv
  <1>5. PipeTypes'
    <2>1. asked' = asked \/ asked' = None
      BY DEF TeeOwes, Acked
    <2> QED BY <1>1, <2>1 DEF Inv, PipeTypes
  <1>6. SourceTypes'
    <2>1. CASE Acked
      BY <1>1, <1>2, <2>1, AckedKeeps DEF Inv
    <2>2. CASE source' = source
      BY <2>2 DEF Inv, SourceTypes
    <2> QED BY <2>1, <2>2 DEF TeeOwes
  <1>7. TeeTypes'
    <2>1. CASE tee.left = {}
      <3>1. Acked /\ owed' = owed
        BY <2>1 DEF TeeOwes
      <3>2. tee' = Idle
        BY <3>1 DEF Acked
      <3> QED  BY <1>1, <3>1, <3>2, IdleTypes DEF Inv
    <2>2. CASE tee.left # {}
      <3>1. PICK b \in Branches : b = Branch /\ b \in tee.left
        BY <2>2, BranchIn DEF Inv
      <3>2. /\ UNCHANGED <<asked, source>>
            /\ \/ /\ owed' = [owed EXCEPT ![b] = <<>>]
                  /\ tee' = [tee EXCEPT !.left = tee.left \ {b}]
               \/ /\ owed[b] # <<>>
                  /\ tee' = [tee EXCEPT !.at = "owingLocks"] /\ owed' = owed
        BY <2>2, <3>1 DEF TeeOwes
      <3>3. CASE owed' = [owed EXCEPT ![b] = <<>>] /\ tee' = [tee EXCEPT !.left = tee.left \ {b}]
        <4>1. tee' \in [at : {"idle", "flowing"} \cup Owing \cup Handing,
                  item : ItemsTo(timeline), msg : Message \cup {None},
                  left : SUBSET Branches, push : Seq(ItemsTo(timeline))]
          BY <3>3 DEF Inv, TeeTypes
        <4>2. owed' \in [Branches -> Seq(ItemsTo(timeline))]
          <5>1. <<>> \in Seq(ItemsTo(timeline))
            OBVIOUS
          <5> QED  BY <3>3, <5>1 DEF Inv, TeeTypes
        <4>3. tee'.at = "owing"
          BY <1>2, <3>3 DEF Inv, TeeTypes
        <4> QED BY <1>1, <4>1, <4>2, <4>3 DEF Inv, TeeTypes, AtBranch
      <3>4. CASE owed[b] # <<>> /\ owed' = owed /\ tee' = [tee EXCEPT !.at = "owingLocks"]
        <4>1. tee' \in [at : {"idle", "flowing"} \cup Owing \cup Handing,
                  item : ItemsTo(timeline), msg : Message \cup {None},
                  left : SUBSET Branches, push : Seq(ItemsTo(timeline))]
          BY <3>4 DEF Inv, TeeTypes, Owing
        <4>2. tee'.at = "owingLocks" /\ tee'.left = tee.left
          BY <3>4 DEF Inv, TeeTypes
        <4>3. Branch' = b
          BY <3>1, <4>2 DEF Branch
        <4> QED BY <1>1, <2>2, <3>4, <4>1, <4>2, <4>3 DEF Inv, TeeTypes
      <3> QED  BY <3>2, <3>3, <3>4
    <2> QED BY <2>1, <2>2
  <1>8. OwedBounded'
    <2>1. Cardinality(Buffers(<<>>)) <= MaxOwed
      <3>1. Buffers(<<>>) = {}
        BY DEF Buffers
      <3> QED  BY <3>1, FS_EmptySet, Numbers
    <2>2. \A b \in Branches : owed'[b] = owed[b] \/ owed'[b] = <<>>
      BY DEF TeeOwes, Inv, TeeTypes
    <2>3. ASSUME NEW b \in Branches PROVE Cardinality(Buffers(owed'[b])) <= MaxOwed
      BY <2>1, <2>2 DEF Inv, OwedBounded
    <2> QED BY <2>3 DEF OwedBounded
  <1>9. Locks'
    <2>1. CASE tee.left = {}
      <3>1. Acked /\ owed' = owed
        BY <2>1 DEF TeeOwes
      <3>2. tee'.at = "idle"
        BY <3>1, AckedAt
      <3> QED  BY <1>1, <3>2 DEF Inv, Locks, HasPad
    <2>2. CASE tee.left # {}
      <3>1. PICK b \in Branches : b = Branch /\ b \in tee.left
        BY <2>2, BranchIn DEF Inv
      <3>2. /\ UNCHANGED <<asked, source>>
            /\ \/ /\ owed' = [owed EXCEPT ![b] = <<>>]
                  /\ tee' = [tee EXCEPT !.left = tee.left \ {b}]
               \/ /\ owed[b] # <<>>
                  /\ tee' = [tee EXCEPT !.at = "owingLocks"] /\ owed' = owed
        BY <2>2, <3>1 DEF TeeOwes
      <3>3. /\ tee'.at \in {"owing", "owingLocks"} /\ tee'.msg = tee.msg
            /\ tee'.left = tee.left \/ (tee'.left = tee.left \ {b} /\ owed'[b] = <<>>)
            /\ \A d \in Branches \ {b} : owed'[d] = owed[d]
            /\ owed'[b] \in {owed[b], <<>>}
        BY <1>2, <3>1, <3>2 DEF Inv, TeeTypes
      <3> QED  BY <1>1, <3>3 DEF Inv, Locks, HasPad
    <2> QED BY <2>1, <2>2
  <1>10. Over'
    <2>1. CASE tee.left = {}
      <3>1. Acked /\ owed' = owed
        BY <2>1 DEF TeeOwes
      <3>2. tee'.at = "idle"
        BY <3>1, AckedAt
      <3> QED  BY <1>1, <3>2 DEF Inv, Over
    <2>2. CASE tee.left # {}
      <3>1. PICK b \in Branches : b = Branch /\ b \in tee.left
        BY <2>2, BranchIn DEF Inv
      <3>2. /\ UNCHANGED <<asked, source>>
            /\ \/ /\ owed' = [owed EXCEPT ![b] = <<>>]
                  /\ tee' = [tee EXCEPT !.left = tee.left \ {b}]
               \/ /\ owed[b] # <<>>
                  /\ tee' = [tee EXCEPT !.at = "owingLocks"] /\ owed' = owed
        BY <2>2, <3>1 DEF TeeOwes
      <3>3. /\ tee'.at \in {"owing", "owingLocks"} /\ tee'.msg = tee.msg
            /\ tee'.left = tee.left \/ (tee'.left = tee.left \ {b} /\ owed'[b] = <<>>)
            /\ \A d \in Branches \ {b} : owed'[d] = owed[d]
            /\ owed'[b] \in {owed[b], <<>>}
        BY <1>2, <3>1, <3>2 DEF Inv, TeeTypes
      <3> QED  BY <1>1, <3>3 DEF Inv, Over
    <2> QED BY <2>1, <2>2
  <1>11. Plan'
    <2>1. CASE tee.left = {}
      <3>1. Acked /\ owed' = owed
        BY <2>1 DEF TeeOwes
      <3> QED  BY <1>1, <1>2, <3>1, AckedKeeps DEF Inv
    <2>2. CASE tee.left # {}
      <3>1. PICK b \in Branches : b = Branch /\ b \in tee.left
        BY <2>2, BranchIn DEF Inv
      <3>2. /\ UNCHANGED <<asked, source>>
            /\ \/ /\ owed' = [owed EXCEPT ![b] = <<>>]
                  /\ tee' = [tee EXCEPT !.left = tee.left \ {b}]
               \/ /\ owed[b] # <<>>
                  /\ tee' = [tee EXCEPT !.at = "owingLocks"] /\ owed' = owed
        BY <2>2, <3>1 DEF TeeOwes
      <3>3. /\ tee'.at \in {"owing", "owingLocks"} /\ tee'.msg = tee.msg
            /\ tee'.left = tee.left \/ (tee'.left = tee.left \ {b} /\ owed'[b] = <<>>)
            /\ \A d \in Branches \ {b} : owed'[d] = owed[d]
            /\ owed'[b] \in {owed[b], <<>>}
        BY <1>2, <3>1, <3>2 DEF Inv, TeeTypes
      <3> QED  BY <1>1, <1>2, <3>2, <3>3 DEF Inv, Plan, Still, Handing, Owing
    <2> QED BY <2>1, <2>2
  <1>12. HeldBack'
    <2>1. \A d \in Branches : IsReady(d)' = IsReady(d)
      BY <1>1 DEF IsReady
    <2>2. CASE tee.left = {}
      <3>1. Acked /\ owed' = owed
        BY <2>2 DEF TeeOwes
      <3>2. tee'.at = "idle"
        BY <3>1, AckedAt
      <3>3. \A d \in Branches : owed'[d] = <<>>
        BY <1>2, <2>2, <3>1 DEF Inv, HeldBack, Owing
      <3> QED  BY <3>2, <3>3 DEF HeldBack, Owing
    <2>3. CASE tee.left # {}
      <3>1. PICK b \in Branches : b = Branch /\ b \in tee.left
        BY <2>3, BranchIn DEF Inv
      <3>2. /\ UNCHANGED <<asked, source>>
            /\ \/ /\ owed' = [owed EXCEPT ![b] = <<>>]
                  /\ tee' = [tee EXCEPT !.left = tee.left \ {b}]
               \/ /\ owed[b] # <<>>
                  /\ tee' = [tee EXCEPT !.at = "owingLocks"] /\ owed' = owed
        BY <2>3, <3>1 DEF TeeOwes
      <3>3. /\ tee'.at \in {"owing", "owingLocks"} /\ tee'.msg = tee.msg
            /\ tee'.left = tee.left \/ (tee'.left = tee.left \ {b} /\ owed'[b] = <<>>)
            /\ \A d \in Branches \ {b} : owed'[d] = owed[d]
            /\ owed'[b] \in {owed[b], <<>>}
        BY <1>2, <3>1, <3>2 DEF Inv, TeeTypes
      <3>4. \A d \in Branches \ tee'.left : owed'[d] = <<>>
        BY <1>2, <3>3 DEF Inv, HeldBack, Owing
      <3>5. context.on /\ asked # "Preroll" =>
                \A d \in Branches : ~IsReady(d) => owed'[d] = <<>>
        <4> SUFFICES ASSUME context.on, asked # "Preroll", NEW d \in Branches, ~IsReady(d)
                     PROVE  owed'[d] = <<>>
          OBVIOUS
        <4>1. owed[d] = <<>>
          BY DEF Inv, HeldBack
        <4> QED BY <3>3, <4>1
      <3> QED  BY <1>1, <2>1, <3>2, <3>3, <3>4, <3>5 DEF HeldBack, Owing
    <2> QED BY <2>2, <2>3
  <1> QED  BY <1>3, <1>4, <1>5, <1>6, <1>7, <1>8, <1>9, <1>10, <1>11, <1>12 DEF Inv

\* What was kept is pushed, one item at a time.
LEMMA TeeHandsOwedKeeps ==
    ASSUME Inv, TeeHandsOwed
    PROVE  Inv'
  <1>1. UNCHANGED <<phase, timeline, todo, asked, paused, stepped, source, segment,
                      attached, active, posted, said, call, ops, finished, unheard>>
    BY DEF TeeHandsOwed, Push, playback, pipeline, topology, ends, handle, terminal
  <1>2. tee.left # {}
    BY DEF Inv, TeeTypes, AtBranch, TeeHandsOwed
  <1>3. PICK b \in Branches : b = Branch /\ b \in tee.left
    BY <1>2, BranchIn DEF Inv
  <1>4. PICK fails \in BOOLEAN :
            LET item    == Head(owed[Branch])
                reports == Reports(Branch, item, fails)
            IN /\ Push(Source, Branch, item, IF reports THEN Source ELSE None, fails)
               /\ tee' = [tee EXCEPT !.at = IF reports THEN "owingHolds" ELSE "owing"]
    BY DEF TeeHandsOwed
  <1>5. owed[b] # <<>> /\ owed[b] \in Seq(ItemsTo(timeline)) /\ pad[b].by = None
    BY <1>3 DEF Inv, TeeTypes, TeeHandsOwed
  <1>6. /\ Head(owed[b]) \in ItemsTo(timeline) /\ Tail(owed[b]) \in Seq(ItemsTo(timeline))
        /\ owed' = [owed EXCEPT ![b] = Tail(owed[b])]
    <2>1. PICK items, kept : items = ItemsTo(timeline) /\ kept = owed[b]
      OBVIOUS
    <2>2. kept # <<>> /\ kept \in Seq(items)
      BY <1>5, <2>1
    <2>3. Head(kept) = kept[1] /\ kept[1] \in items /\ Tail(kept) \in Seq(items)
      BY <2>2, FirstIs
    <2>4. owed' = [owed EXCEPT ![b] = Tail(owed[b])]
      BY <1>3 DEF TeeHandsOwed
    <2> QED  BY <2>1, <2>3, <2>4
  <1>7. PICK item \in ItemsTo(timeline), by \in {Source, None} :
            /\ item = Head(owed[b])
            /\ by = IF Reports(b, item, fails) THEN Source ELSE None
    BY <1>6
  <1>8. /\ Push(Source, b, item, by, fails)
        /\ tee' = [tee EXCEPT !.at = IF by = Source THEN "owingHolds" ELSE "owing"]
    BY <1>3, <1>4, <1>7, Numbers
  <1>9. /\ tee'.at = IF by = Source THEN "owingHolds" ELSE "owing"
        /\ tee'.left = tee.left /\ tee'.msg = tee.msg
    BY <1>8 DEF Inv, TeeTypes
  <1>10. by \in Threads \cup {None} /\ Source \in Threads
    BY DEF Threads
  <1>11. PushLeft(b, item, by)
    BY <1>8, PushLeaves DEF Inv
  <1>12. SourceTypes' /\ ListTypes' /\ CallTypes'
    BY <1>1, SourceTypesStay, ListTypesStay, CallTypesStay DEF Inv
  <1>13. PipeTypes'
    BY <1>1, <1>8, PushPipe DEF Inv
  <1>14. TeeTypes'
    <2>1. tee' \in [at : {"idle", "flowing"} \cup Owing \cup Handing,
                  item : ItemsTo(timeline), msg : Message \cup {None},
                  left : SUBSET Branches, push : Seq(ItemsTo(timeline))]
      BY <1>8 DEF Inv, TeeTypes, Owing
    <2>2. owed' \in [Branches -> Seq(ItemsTo(timeline))]
      BY <1>6 DEF Inv, TeeTypes
    <2>3. timeline' = timeline
      BY <1>8 DEF Push
    <2> QED BY <1>1, <1>2, <1>9, <2>1, <2>2, <2>3 DEF Inv, TeeTypes
  <1>15. OwedBounded'
    <2>1. Cardinality(Buffers(Tail(owed[b]))) <= MaxOwed
      <3>1. PICK items, kept : items = ItemsTo(timeline) /\ kept = owed[b]
        OBVIOUS
      <3>2. kept # <<>> /\ kept \in Seq(items) /\ Cardinality(Buffers(kept)) <= MaxOwed
        BY <1>5, <3>1 DEF Inv, OwedBounded
      <3> QED  BY <3>1, <3>2, TailKeeps
    <2>2. ASSUME NEW d \in Branches PROVE Cardinality(Buffers(owed'[d])) <= MaxOwed
      <3>1. CASE d = b
        <4>1. owed'[b] = Tail(owed[b])
          BY <1>6 DEF Inv, TeeTypes
        <4> QED BY <2>1, <3>1, <4>1
      <3>2. CASE d # b
        <4>1. owed'[d] = owed[d]
          BY <1>6, <3>2 DEF Inv, TeeTypes
        <4> QED BY <4>1 DEF Inv, OwedBounded
      <3> QED  BY <3>1, <3>2
    <2> QED BY <2>2 DEF OwedBounded
  <1>16. TerminalTypes'
    BY <1>8, <1>10, PushTerminal DEF Inv
  <1>17. CheckTypes'
    BY <1>8, <1>10, PushCheck DEF Inv
  <1>18. Locks'
    <2>1. Branch' = b
      BY <1>3, <1>9 DEF Branch
    <2>2. \A c \in Callers : call[c].at = "reporting" =>
               call[c].branch \in Branches /\ call[c].branch # b
      BY <1>5, Numbers DEF Inv, Locks, CallTypes
    <2>3. \A c \in Callers : call'[c].at = "reporting" => pad'[call'[c].branch].by = c
      BY <1>1, <1>11, <2>2 DEF Inv, Locks, PushLeft
    <2>4. tee'.at \in HasPad => pad'[Branch'].by = Source
      BY <1>9, <2>1, <1>11 DEF PushLeft, HasPad
    <2>5. \A d \in Branches : pad'[d].by = "unbuilt" => d # b
      BY <1>11, Numbers DEF PushLeft
    <2> QED BY <1>1, <1>11, <2>3, <2>4, <2>5 DEF Inv, Locks, PushLeft
  <1>19. Earned'
    BY <1>8, PushEarned DEF Inv
  <1>20. Over'
    BY <1>1, <1>9 DEF Inv, Over
  <1>21. Covered'
    BY <1>1, <1>8, <1>10, PushCovered DEF Inv
  <1>22. Plan'
    <2>1. /\ tee.at \in Owing
           /\ tee'.at \in Owing /\ tee'.at \notin {"idle", "flowing"} \cup Handing
      BY <1>9 DEF Owing, Handing, TeeHandsOwed
    <2>2. source.at # "begin" /\ tee.at \notin {"idle"}
      BY DEF Inv, Plan, TeeHandsOwed
    <2> QED BY <1>1, <1>9, <2>1, <2>2 DEF Inv, Plan, Still
  <1>23. HeldBack'
    <2>1. \A d \in Branches \ {b} : owed'[d] = owed[d]
      BY <1>6 DEF Inv, TeeTypes
    <2>2. tee.at \in Owing
      BY DEF Owing, TeeHandsOwed
    <2>3. \A d \in Branches \ tee'.left : owed'[d] = <<>>
      BY <1>3, <1>9, <2>1, <2>2 DEF Inv, HeldBack
    <2>4. context'.on /\ asked' # "Preroll" =>
               \A d \in Branches : ~IsReady(d)' => owed'[d] = <<>>
      <3> SUFFICES ASSUME context'.on, asked' # "Preroll", NEW d \in Branches, ~IsReady(d)'
                   PROVE  owed'[d] = <<>>
        OBVIOUS
      <3>1. context.on /\ asked # "Preroll" /\ ~IsReady(d)
        BY <1>1, <1>11 DEF IsReady, PushLeft
      <3>2. owed[d] = <<>>
        BY <3>1 DEF Inv, HeldBack
      <3> QED  BY <1>5, <2>1, <3>2
    <2>5. tee'.at \notin {"locking", "pushing"}
      BY <1>9
    <2> QED BY <2>3, <2>4, <2>5 DEF HeldBack
  <1> QED  BY <1>12, <1>13, <1>14, <1>15, <1>16, <1>17, <1>18, <1>19, <1>20, <1>21, <1>22,
      <1>23 DEF Inv

\* The end reported, the pad is let go of.
LEMMA TeeReportedKeeps ==
    ASSUME Inv, TeeReported
    PROVE  Inv'
  <1>1. UNCHANGED <<phase, context, timeline, todo, asked, paused, stepped, source,
                      segment, owed, attached, active, on, ended, posted, said, check,
                      call, ops, got, heard, finished, unheard>>
    BY DEF TeeReported, ToNext, playback, pipeline, topology, ends, handle, terminal
  <1>2. tee.left # {}
    BY DEF Inv, TeeTypes, AtBranch, TeeReported
  <1>3. PICK b \in Branches : b = Branch /\ b \in tee.left
    BY <1>2, BranchIn DEF Inv
  <1>4. /\ pad' = [pad EXCEPT ![b].by = None]
        /\ tee' = IF tee.at = "reporting" THEN ToNext ELSE [tee EXCEPT !.at = "owing"]
        /\ tee.at \in {"reporting", "owingHolds"}
    BY <1>3 DEF TeeReported
  <1>5. PipeTypes' /\ SourceTypes' /\ OwedBounded' /\ ListTypes'
    BY <1>1, PipeTypesStay, SourceTypesStay, OwedBoundedStay, ListTypesStay DEF Inv
  <1>6. CheckTypes' /\ CallTypes' /\ Earned' /\ Covered'
    BY <1>1, CheckTypesStay, CallTypesStay, EarnedStay, CoveredStay DEF Inv
  <1>7. TeeTypes'
    <2>1. CASE tee.at = "reporting"
      <3>1. tee' = ToNext
        BY <1>4, <2>1
      <3>2. TeeTypes' /\ tee'.at = "handing" /\ tee'.msg = tee.msg
        BY <1>1, <3>1, ToNextTypes DEF Inv
      <3> QED  BY <3>2
    <2>2. CASE tee.at = "owingHolds"
      <3>1. tee' = [tee EXCEPT !.at = "owing"]
        BY <1>4, <2>2
      <3>2. tee'.at = "owing" /\ tee'.msg = tee.msg /\ tee'.left = tee.left
        BY <3>1 DEF Inv, TeeTypes
      <3>3. tee' \in [at : {"idle", "flowing"} \cup Owing \cup Handing,
                  item : ItemsTo(timeline), msg : Message \cup {None},
                  left : SUBSET Branches, push : Seq(ItemsTo(timeline))]
        BY <3>1 DEF Inv, TeeTypes, Owing
      <3> QED  BY <1>1, <3>2, <3>3 DEF Inv, TeeTypes, AtBranch
    <2> QED BY <1>4, <2>1, <2>2
  <1>8. TerminalTypes'
    <2>1. pad' = [pad EXCEPT ![b].by = None]
      BY <1>3 DEF TeeReported
    <2>2. pad' \in [Branches -> [flushing : BOOLEAN, ended : BOOLEAN,
                                 by : Threads \cup {None, "unbuilt"}]]
      BY <2>1 DEF Inv, TerminalTypes
    <2> QED BY <1>1, <2>2 DEF Inv, TerminalTypes
  <1>9. Locks'
    <2>1. pad' = [pad EXCEPT ![b].by = None] /\ tee.at \in HasPad
      BY <1>3 DEF TeeReported, HasPad
    <2>2. tee'.at \notin HasPad
      <3>1. CASE tee.at = "reporting"
        <4>1. tee' = ToNext
          BY <3>1 DEF TeeReported
        <4>2. tee'.at = "handing"
          BY <1>1, <4>1, ToNextTypes DEF Inv
        <4> QED BY <4>2 DEF HasPad
      <3>2. CASE tee.at = "owingHolds"
        <4>1. tee' = [tee EXCEPT !.at = "owing"]
          BY <3>2 DEF TeeReported
        <4>2. tee'.at = "owing"
          BY <4>1 DEF Inv, TeeTypes
        <4> QED BY <4>2 DEF HasPad
      <3> QED  BY <3>1, <3>2 DEF TeeReported
    <2>3. pad'[b].by = None /\ \A d \in Branches \ {b} : pad'[d] = pad[d]
      BY <2>1 DEF Inv, TerminalTypes
    <2>4. pad[b].by = Source
      BY <1>3, <2>1 DEF Inv, Locks, HasPad
    <2>5. \A c \in Callers : call[c].at = "reporting" =>
              call[c].branch \in Branches /\ call[c].branch # b
      BY <2>4, Numbers DEF Inv, Locks, CallTypes
    <2>6. \A c \in Callers : call'[c].at = "reporting" => pad'[call'[c].branch].by = c
      BY <1>1, <2>3, <2>5 DEF Inv, Locks
    <2>7. \A d \in Branches : pad'[d].by = "unbuilt" => d # b
      BY <2>3, Numbers
    <2> QED BY <1>1, <2>2, <2>3, <2>6, <2>7 DEF Inv, Locks
  <1>10. Over'
    <2>1. CASE tee.at = "reporting"
      <3>1. tee' = ToNext
        BY <1>4, <2>1
      <3>2. TeeTypes' /\ tee'.at = "handing" /\ tee'.msg = tee.msg
        BY <1>1, <3>1, ToNextTypes DEF Inv
      <3> QED  BY <1>1, <3>2 DEF Inv, Over
    <2>2. CASE tee.at = "owingHolds"
      <3>1. tee' = [tee EXCEPT !.at = "owing"]
        BY <1>4, <2>2
      <3>2. tee'.at = "owing" /\ tee'.msg = tee.msg /\ tee'.left = tee.left
        BY <3>1 DEF Inv, TeeTypes
      <3> QED  BY <1>1, <3>2 DEF Inv, Over
    <2> QED BY <1>4, <2>1, <2>2
  <1>11. Plan'
    <2>1. CASE tee.at = "reporting"
      <3>1. tee' = ToNext
        BY <1>4, <2>1
      <3>2. TeeTypes' /\ tee'.at = "handing" /\ tee'.msg = tee.msg
        BY <1>1, <3>1, ToNextTypes DEF Inv
      <3> QED  BY <1>1, <2>1, <3>2 DEF Inv, Plan, Still, Handing, Owing
    <2>2. CASE tee.at = "owingHolds"
      <3>1. tee' = [tee EXCEPT !.at = "owing"]
        BY <1>4, <2>2
      <3>2. tee'.at = "owing" /\ tee'.msg = tee.msg /\ tee'.left = tee.left
        BY <3>1 DEF Inv, TeeTypes
      <3> QED  BY <1>1, <2>2, <3>2 DEF Inv, Plan, Still, Handing, Owing
    <2> QED BY <1>4, <2>1, <2>2
  <1>12. HeldBack'
    <2>1. \A d \in Branches : IsReady(d)' = IsReady(d)
      BY <1>1 DEF IsReady
    <2>2. CASE tee.at = "reporting"
      <3>1. tee' = ToNext
        BY <1>4, <2>2
      <3>2. TeeTypes' /\ tee'.at = "handing" /\ tee'.msg = tee.msg
        BY <1>1, <3>1, ToNextTypes DEF Inv
      <3> QED  BY <1>1, <2>1, <3>2 DEF Inv, HeldBack, Owing
    <2>3. CASE tee.at = "owingHolds"
      <3>1. tee' = [tee EXCEPT !.at = "owing"]
        BY <1>4, <2>3
      <3>2. tee'.at = "owing" /\ tee'.msg = tee.msg /\ tee'.left = tee.left
        BY <3>1 DEF Inv, TeeTypes
      <3> QED  BY <1>1, <2>3, <2>1, <3>2 DEF Inv, HeldBack, Owing
    <2> QED BY <1>4, <2>2, <2>3
  <1> QED  BY <1>5, <1>6, <1>7, <1>8, <1>9, <1>10, <1>11, <1>12 DEF Inv

-----------------------------------------------------------------------------
(* Completion's looks, and the calls of the handle.                        *)

\* The graph is looked at: those of it that have ended are all there are.
LEMMA ReadGraphKeeps ==
    ASSUME Inv, NEW t \in Threads, ReadGraph(t),
           UNCHANGED <<playback, pipeline, source, tee, segment, owed, topology,
                       terminal, handle, finished>>
    PROVE  Inv'
  <1>1. UNCHANGED <<phase, context, timeline, todo, asked, paused, stepped, source, tee,
                      segment, owed, attached, active, pad, on, ended, posted, said, call,
                      ops, got, heard, finished, unheard>>
    BY DEF ReadGraph, playback, pipeline, topology, ends, handle, terminal
  <1>2. PipeTypes' /\ SourceTypes' /\ TeeTypes' /\ OwedBounded'
    BY <1>1, PipeTypesStay, SourceTypesStay, TeeTypesStay, OwedBoundedStay DEF Inv
  <1>3. ListTypes' /\ TerminalTypes' /\ CallTypes' /\ Locks'
    BY <1>1, ListTypesStay, TerminalTypesStay, CallTypesStay, LocksStay DEF Inv
  <1>4. Earned' /\ Over' /\ Plan' /\ HeldBack'
    BY <1>1, EarnedStay, OverStay, PlanStay, HeldBackStay DEF Inv
  <1>5. CheckTypes'
    <2>1. attached \in SUBSET Branches /\ timeline \in 0 .. timeline
      BY DEF Inv, ListTypes, PipeTypes
    <2>2. check' = [check EXCEPT ![t].at = "timeline", ![t].terminals = attached]
      BY DEF ReadGraph
    <2> QED BY <1>1, <2>1, <2>2 DEF Inv, CheckTypes
  <1>6. Covered'
    <2>1. \A u \in Threads \ {t} : check'[u] = check[u]
      BY DEF Inv, CheckTypes, ReadGraph
    <2>2. \A u \in Threads \ {t} : WillSay(u) => WillSay(u)'
      BY <1>1, <2>1 DEF WillSay, HasEnded
    <2>3. check'[t].at = "timeline" /\ check'[t].terminals = attached
      BY DEF Inv, CheckTypes, ReadGraph
    <2>4. AllOver => WillSay(t)'
      BY <1>1, <2>3 DEF WillSay, HasEnded, AllOver
    <2> QED BY <1>1, <2>2, <2>4 DEF Inv, Covered, AllOver, HasEnded
  <1> QED  BY <1>2, <1>3, <1>4, <1>5, <1>6 DEF Inv

\* The timeline is looked at, and is that of the ends that count.
LEMMA ReadTimelineKeeps ==
    ASSUME Inv, NEW t \in Threads, ReadTimeline(t),
           UNCHANGED <<playback, pipeline, source, tee, segment, owed, topology,
                       terminal, handle, finished>>
    PROVE  Inv'
  <1>1. UNCHANGED <<phase, context, timeline, todo, asked, paused, stepped, source, tee,
                      segment, owed, attached, active, pad, on, ended, posted, said, call,
                      ops, got, heard, finished, unheard>>
    BY DEF ReadTimeline, playback, pipeline, topology, ends, handle, terminal
  <1>2. PipeTypes' /\ SourceTypes' /\ TeeTypes' /\ OwedBounded'
    BY <1>1, PipeTypesStay, SourceTypesStay, TeeTypesStay, OwedBoundedStay DEF Inv
  <1>3. ListTypes' /\ TerminalTypes' /\ CallTypes' /\ Locks'
    BY <1>1, ListTypesStay, TerminalTypesStay, CallTypesStay, LocksStay DEF Inv
  <1>4. Earned' /\ Over' /\ Plan' /\ HeldBack'
    BY <1>1, EarnedStay, OverStay, PlanStay, HeldBackStay DEF Inv
  <1>5. CheckTypes'
    <2>1. attached \in SUBSET Branches /\ timeline \in 0 .. timeline
      BY DEF Inv, ListTypes, PipeTypes
    <2>2. check' = [check EXCEPT ![t].at = "compare", ![t].current = timeline]
      BY DEF ReadTimeline
    <2> QED BY <1>1, <2>1, <2>2 DEF Inv, CheckTypes
  <1>6. Covered'
    <2>1. \A u \in Threads \ {t} : check'[u] = check[u]
      BY DEF Inv, CheckTypes, ReadTimeline
    <2>2. \A u \in Threads \ {t} : WillSay(u) => WillSay(u)'
      BY <1>1, <2>1 DEF WillSay, HasEnded
    <2>3. /\ check[t].at = "timeline"
          /\ check'[t].at = "compare" /\ check'[t].terminals = check[t].terminals
          /\ check'[t].current = timeline
      BY DEF Inv, CheckTypes, ReadTimeline
    <2>4. WillSay(t) => WillSay(t)'
      BY <1>1, <2>3 DEF WillSay, HasEnded
    <2> QED BY <1>1, <2>2, <2>4 DEF Inv, Covered, AllOver, HasEnded
  <1> QED  BY <1>2, <1>3, <1>4, <1>5, <1>6 DEF Inv

\* Under its lock it says Finished, if all it looked at have ended on what it looked at.
LEMMA CompareKeeps ==
    ASSUME Inv, NEW t \in Threads, Compare(t),
           UNCHANGED <<playback, pipeline, source, tee, segment, owed, topology,
                       terminal, handle, finished>>
    PROVE  Inv'
  <1>1. UNCHANGED <<phase, context, timeline, todo, asked, paused, stepped, source, tee,
                      segment, owed, attached, active, pad, on, ended, call, ops, got,
                      heard, finished, unheard>>
    BY DEF Compare, NotChecking, playback, pipeline, topology, ends, handle, terminal
  <1>2. PipeTypes' /\ SourceTypes' /\ TeeTypes' /\ OwedBounded'
    BY <1>1, PipeTypesStay, SourceTypesStay, TeeTypesStay, OwedBoundedStay DEF Inv
  <1>3. ListTypes' /\ CallTypes' /\ Locks' /\ Earned'
    BY <1>1, ListTypesStay, CallTypesStay, LocksStay, EarnedStay DEF Inv
  <1>4. Over' /\ Plan' /\ HeldBack'
    BY <1>1, OverStay, PlanStay, HeldBackStay DEF Inv
  <1>5. TerminalTypes'
    <2>1. check[t].current \in Never .. timeline
      <3>1. check[t].current \in 0 .. timeline
        BY DEF Inv, CheckTypes
      <3> QED  BY <3>1 DEF Inv, PipeTypes, Never
    <2>2. posted' \in Never .. timeline
      BY <2>1 DEF Inv, TerminalTypes, Compare
    <2> QED BY <1>1, <2>2 DEF Inv, TerminalTypes
  <1>6. CheckTypes'
    <2>1. NotChecking \in [at : {None, "graph", "timeline", "compare"},
                           terminals : SUBSET Branches, current : 0 .. timeline]
      BY DEF Inv, PipeTypes, NotChecking
    <2> QED BY <1>1, <2>1 DEF Inv, CheckTypes, Compare
  <1>7. Covered'
    <2>1. \A u \in Threads \ {t} : check'[u] = check[u]
      BY DEF Inv, CheckTypes, Compare
    <2>2. \A u \in Threads \ {t} : WillSay(u) => WillSay(u)'
      BY <1>1, <2>1 DEF WillSay, HasEnded
    <2>3. said \subseteq said'
      BY DEF Compare
    <2>4. WillSay(t) => timeline \in said'
      <3> SUFFICES ASSUME WillSay(t) PROVE timeline \in said'
        OBVIOUS
      <3>1. check[t].at = "compare"
        BY DEF Compare
      <3>2. /\ check[t].terminals # {} /\ check[t].current = timeline
            /\ \A b \in check[t].terminals : ended[b] = timeline
        BY <3>1 DEF WillSay, HasEnded
      <3>3. AllEnded(t)
        BY <3>2 DEF AllEnded
      <3> QED  BY <3>2, <3>3 DEF Compare
    <2> QED BY <1>1, <2>2, <2>3, <2>4 DEF Inv, Covered, AllOver, HasEnded
  <1> QED  BY <1>2, <1>3, <1>4, <1>5, <1>6, <1>7 DEF Inv

\* What is attached next is built for it.
LEMMA FreshIs ==
    ASSUME Fresh # {}
    PROVE  Min(Fresh) \in Branches /\ pad[Min(Fresh)].by = "unbuilt"
  <1>1. Fresh \subseteq Nat
    BY Numbers DEF Fresh
  <1>2. PICK fresh : fresh = Fresh
    OBVIOUS
  <1>3. Min(fresh) \in fresh
    BY <1>1, <1>2, MinIs
  <1>4. Min(fresh) \in Fresh
    BY <1>2, <1>3
  <1> QED  BY <1>2, <1>4 DEF Fresh

\* A branch attached has taken no part in anything yet.
LEMMA AttachKeeps ==
    ASSUME Inv, NEW c \in Callers, Attach(c)
    PROVE  Inv'
  <1>1. UNCHANGED <<phase, context, timeline, todo, asked, paused, stepped, source, tee,
                      segment, owed, on, ended, posted, said, check, call, ops, got, heard,
                      finished, unheard>>
    BY DEF Attach, MayCall, playback, pipeline, topology, ends, handle, terminal
  <1>2. PICK b \in Branches : b = Min(Fresh) /\ pad[b].by = "unbuilt"
    BY FreshIs DEF Attach
  <1>3. /\ pad[b].by = "unbuilt" /\ pad' = [pad EXCEPT ![b].by = None]
        /\ attached' = attached \cup {b} /\ active' = active \cup {b}
    BY <1>2 DEF Attach
  <1>4. PipeTypes' /\ SourceTypes' /\ TeeTypes' /\ OwedBounded'
    BY <1>1, PipeTypesStay, SourceTypesStay, TeeTypesStay, OwedBoundedStay DEF Inv
  <1>5. CheckTypes' /\ CallTypes' /\ Earned' /\ Plan'
    BY <1>1, CheckTypesStay, CallTypesStay, EarnedStay, PlanStay DEF Inv
  <1>6. ListTypes'
    BY <1>1, FreshIs DEF Inv, ListTypes, Attach
  <1>7. TerminalTypes'
    <2>1. pad' \in [Branches -> [flushing : BOOLEAN, ended : BOOLEAN,
                                 by : Threads \cup {None, "unbuilt"}]]
      BY <1>3 DEF Inv, TerminalTypes
    <2> QED BY <1>1, <2>1 DEF Inv, TerminalTypes
  <1>8. Locks'
    <2>1. pad'[b].by = None /\ \A d \in Branches \ {b} : pad'[d] = pad[d]
      BY <1>3 DEF Inv, TerminalTypes
    <2>2. tee.at \in HasPad => Branch # b
      BY <1>3, Numbers DEF Inv, Locks
    <2>3. tee.at \in HasPad => Branch \in Branches
      BY BranchIn DEF Inv, TeeTypes, HasPad, AtBranch
    <2>4. \A d \in Callers : call[d].at = "reporting" =>
              call[d].branch \in Branches /\ call[d].branch # b
      BY <1>3, Numbers DEF Inv, Locks, CallTypes
    <2>5. Branch' = Branch
      BY <1>1 DEF Branch
    <2>6. pad'[b].by # "unbuilt"
      BY <2>1, Numbers
    <2> QED BY <1>1, <1>3, <2>1, <2>2, <2>3, <2>4, <2>5, <2>6 DEF Inv, Locks
  <1>9. Over'
    <2>1. b \notin finished
      BY <1>3 DEF Inv, Locks
    <2> QED BY <1>1, <1>3, <2>1 DEF Inv, Over, Branch
  <1>10. Covered'
    <2>1. ended[b] = Never /\ Never # timeline
      BY <1>3 DEF Inv, Locks, PipeTypes, Never
    <2> QED BY <1>1, <1>3, <2>1 DEF Covered, AllOver, HasEnded
  <1>11. HeldBack'
    <2>1. b \notin context.expected
      BY <1>3 DEF Inv, Locks
    <2>2. Branch' = Branch
      BY <1>1 DEF Branch
    <2>3. Branch \in context.expected => Branch # b
      BY <2>1
    <2>4. \A d : d # b => (d \in active' <=> d \in active) /\ (d \in attached' <=> d \in attached)
      BY <1>3
    <2> QED BY <1>1, <2>2, <2>3, <2>4 DEF Inv, HeldBack, Owing, IsReady
  <1> QED  BY <1>4, <1>5, <1>6, <1>7, <1>8, <1>9, <1>10, <1>11 DEF Inv

\* A branch detached is one less to be looked at, and somebody looks.
LEMMA DetachKeeps ==
    ASSUME Inv, NEW c \in Callers, NEW b \in Branches, Detach(c,b)
    PROVE  Inv'
  <1>1. UNCHANGED <<phase, context, timeline, todo, asked, paused, stepped, source, tee,
                      segment, owed, pad, on, ended, posted, said, call, ops, got, heard,
                      finished, unheard>>
    BY DEF Detach, MayCall, playback, pipeline, topology, ends, handle, terminal
  <1>2. PipeTypes' /\ SourceTypes' /\ TeeTypes' /\ OwedBounded'
    BY <1>1, PipeTypesStay, SourceTypesStay, TeeTypesStay, OwedBoundedStay DEF Inv
  <1>3. TerminalTypes' /\ CallTypes' /\ Earned' /\ Plan'
    BY <1>1, TerminalTypesStay, CallTypesStay, EarnedStay, PlanStay DEF Inv
  <1>4. ListTypes'
    BY <1>1 DEF Inv, ListTypes, Detach
  <1>5. CheckTypes'
    BY <1>1 DEF Inv, CheckTypes, Threads, Detach
  <1>6. Locks'
    BY <1>1 DEF Inv, Locks, Branch, Detach
  <1>7. Over'
    BY <1>1 DEF Inv, Over, Branch, Detach
  <1>8. Covered'
    <2>1. check'[c].at = "graph"
      BY DEF Inv, CheckTypes, Threads, Detach
    <2> QED BY <2>1 DEF Covered, WillSay, Threads
  <1>9. HeldBack'
    <2>1. Branch' = Branch
      BY <1>1 DEF Branch
    <2>2. attached' \subseteq attached /\ active' \subseteq active
      BY DEF Detach
    <2> QED BY <1>1, <2>1, <2>2 DEF Inv, HeldBack, Owing, IsReady
  <1> QED  BY <1>2, <1>3, <1>4, <1>5, <1>6, <1>7, <1>8, <1>9 DEF Inv

\* The branch to be finished is found in the list.
LEMMA FinishFindsKeeps ==
    ASSUME Inv, NEW c \in Callers, NEW b \in Branches, FinishFinds(c,b)
    PROVE  Inv'
  <1>1. UNCHANGED <<phase, context, timeline, todo, asked, paused, stepped, source, tee,
                      segment, owed, attached, active, pad, on, ended, posted, said, check,
                      ops, got, heard, finished, unheard>>
    BY DEF FinishFinds, MayCall, playback, pipeline, topology, ends, handle, terminal
  <1>2. PipeTypes' /\ SourceTypes' /\ TeeTypes' /\ OwedBounded'
    BY <1>1, PipeTypesStay, SourceTypesStay, TeeTypesStay, OwedBoundedStay DEF Inv
  <1>3. ListTypes' /\ TerminalTypes' /\ CheckTypes' /\ Earned'
    BY <1>1, ListTypesStay, TerminalTypesStay, CheckTypesStay, EarnedStay DEF Inv
  <1>4. Over' /\ Covered' /\ Plan' /\ HeldBack'
    BY <1>1, OverStay, CoveredStay, PlanStay, HeldBackStay DEF Inv
  <1>5. CallTypes'
    BY <1>1 DEF Inv, CallTypes, NoCall, FinishFinds
  <1>6. Locks'
    <2>1. /\ \A d \in Callers \ {c} : call'[d] = call[d]
          /\ call'[c].at = "finishing"
      BY DEF Inv, CallTypes, NoCall, FinishFinds
    <2> QED BY <1>1, <2>1 DEF Inv, Locks, Branch
  <1> QED  BY <1>2, <1>3, <1>4, <1>5, <1>6 DEF Inv

\* The branch leaves the Tee's way as it is sent its end.
LEMMA FinishPushesKeeps ==
    ASSUME Inv, NEW c \in Callers, FinishPushes(c)
    PROVE  Inv'
  <1>1. UNCHANGED <<phase, timeline, todo, asked, paused, stepped, source, tee, segment,
                      owed, attached, posted, said, ops, unheard>>
    BY DEF FinishPushes, Push, playback, pipeline, topology, ends, handle, terminal
  <1>2. PICK b \in Branches : b = call[c].branch
    BY DEF Inv, CallTypes, FinishPushes
  <1>3. PICK fails \in BOOLEAN :
            /\ Push(c, b, Eos(-1), IF Reports(b, Eos(-1), fails) THEN c ELSE None, fails)
            /\ call' = [call EXCEPT ![c].failed = fails, ![c].at =
                            IF Reports(b, Eos(-1), fails) THEN "reporting" ELSE "removing"]
    BY <1>2 DEF FinishPushes
  <1>4. PICK item \in ItemsTo(timeline), by \in {c, None} :
            /\ item = Eos(-1) /\ by = IF Reports(b, item, fails) THEN c ELSE None
    <2>1. Eos(-1) \in ItemsTo(timeline)
      BY ItemTypes DEF Inv
    <2> QED  BY <2>1
  <1>5. /\ Push(c, b, item, by, fails)
        /\ call' = [call EXCEPT ![c].failed = fails, ![c].at =
                            IF by = c THEN "reporting" ELSE "removing"]
    BY <1>3, <1>4, Numbers
  <1>6. /\ pad[b].by = None /\ active' = active \ {b} /\ finished' = finished \cup {b}
    BY <1>2 DEF FinishPushes, Deactivated
  <1>7. by \in Threads \cup {None} /\ c \in Threads
    BY DEF Threads
  <1>8. PushLeft(b, item, by)
    BY <1>5, PushLeaves DEF Inv
  <1>9. SourceTypes' /\ TeeTypes' /\ OwedBounded' /\ Plan'
    BY <1>1, SourceTypesStay, TeeTypesStay, OwedBoundedStay, PlanStay DEF Inv
  <1>10. PipeTypes'
    BY <1>1, <1>5, PushPipe DEF Inv
  <1>11. ListTypes'
    BY <1>1, <1>6 DEF Inv, ListTypes
  <1>12. TerminalTypes'
    BY <1>5, <1>7, PushTerminal DEF Inv
  <1>13. CheckTypes'
    BY <1>5, <1>7, PushCheck DEF Inv
  <1>14. CallTypes'
    <2>1. call' \in [Callers -> [at : {"idle", "finishing", "reporting", "removing"},
                                 branch : Branches \cup {0}, failed : BOOLEAN]]
      <3>1. PICK at \in {"reporting", "removing"} :
                at = IF by = c THEN "reporting" ELSE "removing"
        OBVIOUS
      <3>2. call' = [call EXCEPT ![c].failed = fails, ![c].at = at]
        BY <1>5, <3>1
      <3> QED  BY <3>2 DEF Inv, CallTypes
    <2>2. \A d \in Callers : call'[d].branch = call[d].branch
      BY <1>5 DEF Inv, CallTypes
    <2>3. \A d \in Callers \ {c} : call'[d] = call[d]
      BY <1>5 DEF Inv, CallTypes
    <2> QED BY <1>1, <1>2, <2>1, <2>2, <2>3 DEF Inv, CallTypes
  <1>15. Locks'
    <2>1. \A d \in Callers \ {c} : call'[d] = call[d]
      BY <1>5 DEF Inv, CallTypes
    <2>2. call'[c].branch = b /\ (call'[c].at = "reporting" => by = c)
      BY <1>2, <1>5 DEF Inv, CallTypes
    <2>3. \A d \in Callers : call[d].at = "reporting" =>
               call[d].branch \in Branches /\ call[d].branch # b
      BY <1>6, Numbers DEF Inv, Locks, CallTypes
    <2>4. ASSUME NEW d \in Callers, call'[d].at = "reporting"
           PROVE  pad'[call'[d].branch].by = d
      <3>1. CASE d = c
        BY <1>8, <2>2, <2>4, <3>1 DEF PushLeft
      <3>2. CASE d # c
        <4>1. call'[d] = call[d]
          BY <2>1, <3>2
        <4>2. /\ pad[call[d].branch].by = d
              /\ call[d].branch \in Branches \ {b}
          BY <2>3, <2>4, <4>1 DEF Inv, Locks
        <4> QED BY <1>8, <4>1, <4>2 DEF PushLeft
      <3> QED  BY <3>1, <3>2
    <2>5. Branch' = Branch
      BY <1>1 DEF Branch
    <2>6. tee.at \in HasPad => pad'[Branch].by = Source
      <3> SUFFICES ASSUME tee.at \in HasPad PROVE pad'[Branch].by = Source
        OBVIOUS
      <3>1. Branch \in Branches /\ pad[Branch].by = Source
        BY BranchIn DEF Inv, TeeTypes, HasPad, AtBranch, Locks
      <3>2. Branch # b
        BY <1>6, <3>1, Numbers
      <3>3. \A d \in Branches \ {b} : pad'[d] = pad[d]
        BY <1>8 DEF PushLeft
      <3> QED  BY <3>1, <3>2, <3>3
    <2>7. \A d \in Branches : pad'[d].by = "unbuilt" => d # b
      BY <1>8, Numbers DEF PushLeft
    <2> QED BY <1>1, <1>6, <1>8, <2>4, <2>5, <2>6, <2>7 DEF Inv, Locks, PushLeft
  <1>16. Earned'
    BY <1>5, PushEarned DEF Inv
  <1>17. Over'
    <2>1. Branch' = Branch
      BY <1>1 DEF Branch
    <2>2. tee.at = "pushing" => pad[Branch].by = Source
      BY DEF Inv, Locks, HasPad
    <2>3. tee.at = "pushing" => Branch # b
      BY <1>6, <2>2, Numbers
    <2> QED BY <1>1, <1>6, <2>1, <2>3 DEF Inv, Over
  <1>18. Covered'
    BY <1>1, <1>5, <1>7, PushCovered DEF Inv
  <1>19. HeldBack'
    <2>1. Branch' = Branch
      BY <1>1 DEF Branch
    <2>2. tee.at = "pushing" => pad[Branch].by = Source
      BY DEF Inv, Locks, HasPad
    <2>3. tee.at = "pushing" => Branch # b
      BY <1>6, <2>2, Numbers
    <2>4. context'.on /\ asked' # "Preroll" =>
               \A d \in Branches : ~IsReady(d)' => owed'[d] = <<>>
      BY <1>1, <1>8 DEF Inv, HeldBack, IsReady, PushLeft
    <2>5. tee'.at \in Owing => \A d \in Branches \ tee'.left : owed'[d] = <<>>
      BY <1>1 DEF Inv, HeldBack
    <2>6. ASSUME tee.at \in {"locking", "pushing"}, context'.on,
        Branch \in context'.expected
           PROVE  /\ \A i \in 1 .. Len(tee.push) - 1 : tee.push[i].is = "segment"
                  /\ tee.at = "locking" /\ Branch \in context'.ready => Branch \notin active'
                  /\ tee.at = "pushing" /\ Branch \in context'.ready => Branch \notin attached
      <3>1. /\ \A i \in 1 .. Len(tee.push) - 1 : tee.push[i].is = "segment"
            /\ tee.at = "locking" /\ Branch \in context.ready => Branch \notin active
            /\ tee.at = "pushing" /\ Branch \in context.ready => Branch \notin attached
        BY <1>8, <2>6 DEF Inv, HeldBack, IsReady, PushLeft
      <3>2. Branch # b => (Branch \in context'.ready => Branch \in context.ready)
        BY <1>8 DEF PushLeft
      <3> QED  BY <1>6, <2>3, <3>1, <3>2
    <2> QED BY <1>1, <2>1, <2>4, <2>5, <2>6 DEF HeldBack, IsReady
  <1> QED  BY <1>9, <1>10, <1>11, <1>12, <1>13, <1>14, <1>15, <1>16, <1>17, <1>18,
      <1>19 DEF Inv

\* The end reported, the pad is let go of.
LEMMA FinishReportedKeeps ==
    ASSUME Inv, NEW c \in Callers, FinishReported(c)
    PROVE  Inv'
  <1>1. UNCHANGED <<phase, context, timeline, todo, asked, paused, stepped, source, tee,
                      segment, owed, attached, active, on, ended, posted, said, check, ops,
                      got, heard, finished, unheard>>
    BY DEF FinishReported, playback, pipeline, topology, ends, handle, terminal
  <1>2. PICK b \in Branches : b = call[c].branch
    BY DEF Inv, CallTypes, FinishReported
  <1>3. PipeTypes' /\ SourceTypes' /\ TeeTypes' /\ OwedBounded'
    BY <1>1, PipeTypesStay, SourceTypesStay, TeeTypesStay, OwedBoundedStay DEF Inv
  <1>4. ListTypes' /\ CheckTypes' /\ Earned' /\ Over'
    BY <1>1, ListTypesStay, CheckTypesStay, EarnedStay, OverStay DEF Inv
  <1>5. Covered' /\ Plan' /\ HeldBack'
    BY <1>1, CoveredStay, PlanStay, HeldBackStay DEF Inv
  <1>6. TerminalTypes'
    <2>1. pad' = [pad EXCEPT ![b].by = None]
      BY <1>2 DEF FinishReported
    <2>2. pad' \in [Branches -> [flushing : BOOLEAN, ended : BOOLEAN,
                                 by : Threads \cup {None, "unbuilt"}]]
      BY <2>1 DEF Inv, TerminalTypes
    <2> QED BY <1>1, <2>2 DEF Inv, TerminalTypes
  <1>7. CallTypes'
    <2>1. call' \in [Callers -> [at : {"idle", "finishing", "reporting", "removing"},
                                 branch : Branches \cup {0}, failed : BOOLEAN]]
      BY DEF Inv, CallTypes, FinishReported
    <2>2. /\ \A d \in Callers : call'[d].branch = call[d].branch
          /\ \A d \in Callers \ {c} : call'[d] = call[d]
          /\ call[c].at = "reporting"
      BY DEF Inv, CallTypes, FinishReported
    <2> QED BY <1>1, <2>1, <2>2 DEF Inv, CallTypes
  <1>8. Locks'
    <2>1. pad' = [pad EXCEPT ![b].by = None] /\ pad[b].by = c
      BY <1>2 DEF Inv, Locks, FinishReported
    <2>2. pad'[b].by = None /\ \A d \in Branches \ {b} : pad'[d] = pad[d]
      BY <2>1 DEF Inv, TerminalTypes
    <2>3. /\ \A d \in Callers \ {c} : call'[d] = call[d]
          /\ call'[c].at = "removing"
      BY DEF Inv, CallTypes, FinishReported
    <2>4. ASSUME NEW d \in Callers, call'[d].at = "reporting"
          PROVE  pad'[call'[d].branch].by = d
      <3>1. d # c /\ call'[d] = call[d]
        BY <2>3, <2>4
      <3>2. pad[call[d].branch].by = d /\ call[d].branch \in Branches
        BY <2>4, <3>1 DEF Inv, Locks, CallTypes
      <3>3. call[d].branch # b
        BY <2>1, <3>1, <3>2
      <3> QED  BY <2>2, <3>1, <3>2, <3>3
    <2>5. Branch' = Branch
      BY <1>1 DEF Branch
    <2>6. tee.at \in HasPad => pad'[Branch].by = Source
      <3> SUFFICES ASSUME tee.at \in HasPad PROVE pad'[Branch].by = Source
        OBVIOUS
      <3>1. Branch \in Branches /\ pad[Branch].by = Source
        BY BranchIn DEF Inv, TeeTypes, HasPad, AtBranch, Locks
      <3>2. Branch # b
        BY <2>1, <3>1, Numbers
      <3> QED  BY <2>2, <3>1, <3>2
    <2>7. \A d \in Branches : pad'[d].by = "unbuilt" => d # b
      BY <2>2, Numbers
    <2> QED BY <1>1, <2>2, <2>4, <2>5, <2>6, <2>7 DEF Inv, Locks
  <1> QED  BY <1>3, <1>4, <1>5, <1>6, <1>7, <1>8 DEF Inv

\* The branch is removed, and somebody looks where its end will not be reported.
LEMMA FinishRemovesKeeps ==
    ASSUME Inv, NEW c \in Callers, FinishRemoves(c)
    PROVE  Inv'
  <1>1. UNCHANGED <<phase, context, timeline, todo, asked, paused, stepped, source, tee,
                      segment, owed, pad, on, ended, posted, said, ops, got, heard,
                      finished>>
    BY DEF FinishRemoves, playback, pipeline, topology, ends, handle, terminal
  <1>2. PipeTypes' /\ SourceTypes' /\ TeeTypes' /\ OwedBounded'
    BY <1>1, PipeTypesStay, SourceTypesStay, TeeTypesStay, OwedBoundedStay DEF Inv
  <1>3. TerminalTypes' /\ Earned' /\ Plan'
    BY <1>1, TerminalTypesStay, EarnedStay, PlanStay DEF Inv
  <1>4. ListTypes'
    BY <1>1 DEF Inv, ListTypes, FinishRemoves
  <1>5. CheckTypes'
    BY <1>1 DEF Inv, CheckTypes, Threads, FinishRemoves
  <1>6. CallTypes'
    <2>1. call' = [call EXCEPT ![c] = NoCall]
      BY DEF FinishRemoves
    <2>2. NoCall \in [at : {"idle", "finishing", "reporting", "removing"},
                      branch : Branches \cup {0}, failed : BOOLEAN]
      BY DEF NoCall
    <2>3. \A d \in Callers : d # c => call'[d] = call[d]
      BY <2>1 DEF Inv, CallTypes
    <2>4. call'[c].at = "idle"
      BY <2>1 DEF Inv, CallTypes, NoCall
    <2>5. call' \in [Callers -> [at : {"idle", "finishing", "reporting", "removing"},
                                 branch : Branches \cup {0}, failed : BOOLEAN]]
      BY <2>1, <2>2 DEF Inv, CallTypes
    <2> QED BY <1>1, <2>3, <2>4, <2>5 DEF Inv, CallTypes
  <1>7. Locks'
    <2>1. /\ \A d \in Callers \ {c} : call'[d] = call[d]
          /\ call'[c].at = "idle"
      BY DEF Inv, CallTypes, NoCall, FinishRemoves
    <2>2. attached' \subseteq attached
      BY DEF FinishRemoves
    <2> QED BY <1>1, <2>1, <2>2 DEF Inv, Locks, Branch
  <1>8. Over'
    BY <1>1 DEF Inv, Over, Branch, FinishRemoves
  <1>9. Covered'
    <2>1. CASE JudgedWithout(c)
      <3>1. check' = [check EXCEPT ![c].at = "graph"]
        BY <2>1 DEF FinishRemoves
      <3>2. check'[c].at = "graph" /\ c \in Threads
        BY <3>1 DEF Inv, CheckTypes, Threads
      <3> QED  BY <3>2 DEF Covered, WillSay
    <2>2. CASE ~JudgedWithout(c)
      <3>1. PICK b : b = call[c].branch
        OBVIOUS
      <3>2. /\ check' = check /\ attached' = attached \ {b}
            /\ unheard' = IF HasEnded(b) \/ call[c].failed THEN unheard
                          ELSE unheard \cup {timeline}
        BY <2>2, <3>1 DEF FinishRemoves
      <3>3. \A t \in Threads : WillSay(t) => WillSay(t)'
        BY <1>1, <3>2 DEF WillSay, HasEnded
      <3>4. ASSUME AllOver', timeline \notin unheard'
            PROVE  AllOver /\ timeline \notin unheard
        <4>1. timeline \notin unheard
          BY <3>2, <3>4
        <4>2. attached \ {b} # {} /\ \A d \in attached \ {b} : HasEnded(d)
          BY <1>1, <3>2, <3>4 DEF AllOver, HasEnded
        <4>3. b \in attached => HasEnded(b)
          BY <2>2, <3>1, <3>2, <3>4 DEF JudgedWithout
        <4> QED BY <4>1, <4>2, <4>3 DEF AllOver
      <3> QED  BY <1>1, <3>3, <3>4 DEF Inv, Covered
    <2> QED BY <2>1, <2>2
  <1>10. HeldBack'
    <2>1. Branch' = Branch
      BY <1>1 DEF Branch
    <2>2. attached' \subseteq attached /\ active' \subseteq active
      BY DEF FinishRemoves
    <2> QED BY <1>1, <2>1, <2>2 DEF Inv, HeldBack, Owing, IsReady
  <1> QED  BY <1>2, <1>3, <1>4, <1>5, <1>6, <1>7, <1>8, <1>9, <1>10 DEF Inv

-----------------------------------------------------------------------------
(* Who says Finished, and what hands a terminal anything.                  *)

\* Only a check says Finished.
LEMMA PostedBy ==
    ASSUME [Next]_vars, posted' # posted
    PROVE  \E t \in Threads : Compare(t)
  <1>1. CASE UNCHANGED vars
    BY <1>1 DEF vars, ends
  <1>2. CASE \E o \in Ops : Calls(o)
    BY <1>2 DEF Calls, ends
  <1>3. CASE Asks \/ Awaited \/ \E b \in Branches : Departs(b)
    BY <1>3 DEF Asks, Awaited, Departs, ends
  <1>4. CASE SourceBegins \/ SourceProduces \/ SourceEnds \/ SourceTakes
    BY <1>4 DEF SourceBegins, SourceProduces, SourceEnds, SourceTakes, ends
  <1>5. CASE TeeSteps
    <2>1. CASE \/ TeeLooks \/ TeeLocks \/ TeeHanded \/ TeeFlushes
               \/ TeeFlowed \/ TeeOwes \/ TeeReported
      BY <2>1 DEF TeeLooks, TeeLocks, TeeHanded, TeeFlushes, TeeFlowed, TeeOwes,
          TeeReported,
                  ends
    <2>2. CASE TeePushes
      BY <2>2 DEF TeePushes, Push
    <2>3. CASE TeeHandsOwed
      BY <2>3 DEF TeeHandsOwed, Push
    <2> QED BY <1>5, <2>1, <2>2, <2>3 DEF TeeSteps
  <1>6. CASE \E t \in Threads : Checks(t)
    BY <1>6 DEF Checks, ReadGraph, ReadTimeline
  <1>7. CASE \E c \in Callers : HandleSteps(c)
    <2>1. PICK c \in Callers : HandleSteps(c)
      BY <1>7
    <2>2. CASE Attach(c) \/ \E b \in Branches : Detach(c, b) \/ FinishFinds(c, b)
      BY <2>2 DEF Attach, Detach, FinishFinds, ends
    <2>3. CASE FinishPushes(c)
      BY <2>3 DEF FinishPushes, Push
    <2>4. CASE FinishReported(c) \/ FinishRemoves(c)
      BY <2>4 DEF FinishReported, FinishRemoves, ends
    <2> QED BY <2>1, <2>2, <2>3, <2>4 DEF HandleSteps
  <1> QED  BY <1>1, <1>2, <1>3, <1>4, <1>5, <1>6, <1>7 DEF Next

\* Only a flush and what is pushed is handed a terminal.
LEMMA HandedBy ==
    ASSUME [Next]_vars, got' # got
    PROVE  TeeFlushes \/ TeePushes \/ TeeHandsOwed \/ \E c \in Callers : FinishPushes(c)
  <1>1. CASE UNCHANGED vars
    BY <1>1 DEF vars, terminal
  <1>2. CASE \E o \in Ops : Calls(o)
    BY <1>2 DEF Calls, terminal
  <1>3. CASE Asks \/ Awaited \/ \E b \in Branches : Departs(b)
    BY <1>3 DEF Asks, Awaited, Departs, terminal
  <1>4. CASE SourceBegins \/ SourceProduces \/ SourceEnds \/ SourceTakes
    BY <1>4 DEF SourceBegins, SourceProduces, SourceEnds, SourceTakes, terminal
  <1>5. CASE TeeSteps
    <2>1. CASE TeeLooks \/ TeeLocks \/ TeeHanded \/ TeeFlowed \/ TeeOwes \/ TeeReported
      BY <2>1 DEF TeeLooks, TeeLocks, TeeHanded, TeeFlowed, TeeOwes, TeeReported, terminal
    <2> QED BY <1>5, <2>1 DEF TeeSteps
  <1>6. CASE \E t \in Threads : Checks(t)
    BY <1>6 DEF Checks, terminal
  <1>7. CASE \E c \in Callers : HandleSteps(c)
    <2>1. PICK c \in Callers : HandleSteps(c)
      BY <1>7
    <2>2. CASE Attach(c) \/ \E b \in Branches : Detach(c, b) \/ FinishFinds(c, b)
      BY <2>2 DEF Attach, Detach, FinishFinds, terminal
    <2>3. CASE FinishPushes(c)
      BY <2>3
    <2>4. CASE FinishReported(c) \/ FinishRemoves(c)
      BY <2>4 DEF FinishReported, FinishRemoves, terminal
    <2> QED BY <2>1, <2>2, <2>3, <2>4 DEF HandleSteps
  <1> QED  BY <1>1, <1>2, <1>3, <1>4, <1>5, <1>6, <1>7 DEF Next

\* What is last of a sequence put together.
LEMMA LastIs ==
    ASSUME NEW S, NEW s \in Seq(S), NEW x \in S
    PROVE  Last(Append(s, x)) = x /\ Last(<<x>>) = x
  BY AppendProperties DEF Last

\* A push is to one branch, and puts the item behind what it was handed.
LEMMA PushGot ==
    ASSUME TerminalTypes, NEW t, NEW b \in Branches, NEW item \in Items, NEW by, NEW fails,
           Push(t, b, item, by, fails), NEW d \in Branches, got'[d] # got[d]
    PROVE  d = b /\ Last(got'[d]) = item
  <1>1. got' = [got EXCEPT ![b] = Append(got[b], item)]
    BY DEF Push
  <1>2. d = b /\ got'[d] = Append(got[b], item)
    BY <1>1 DEF TerminalTypes
  <1>3. got[b] \in Seq(Items)
    BY DEF TerminalTypes
  <1> QED  BY <1>2, <1>3, LastIs

\* A flush is all an active branch has been handed since.
LEMMA FlushedIs ==
    ASSUME Inv, TeeFlushes, NEW b \in Branches, got'[b] # got[b]
    PROVE  b \in active /\ Last(got'[b]) = FlushOf(timeline)
  <1>1. PICK d \in Branches : d = Branch
    BY BranchIn DEF Inv, TeeFlushes
  <1>2. d \in active /\ got' = [got EXCEPT ![d] = <<FlushOf(timeline)>>]
    BY <1>1 DEF TeeFlushes
  <1>3. b = d /\ got'[b] = <<FlushOf(timeline)>>
    BY <1>2 DEF Inv, TerminalTypes
  <1>4. FlushOf(timeline) \in Items /\ <<>> \in Seq(Items)
    BY ItemTypes DEF Inv, ItemsTo
  <1> QED  BY <1>2, <1>3, <1>4, LastIs

\* What the Tee pushes goes to the branch it has in hand.
LEMMA PushesOnly ==
    ASSUME Inv, TeePushes, NEW b \in Branches, got'[b] # got[b]
    PROVE  b = Branch
  <1>1. tee.left # {}
    BY DEF Inv, TeeTypes, AtBranch, TeePushes
  <1>2. PICK d \in Branches : d = Branch
    BY <1>1, BranchIn DEF Inv
  <1>3. PICK item \in ItemsTo(timeline), last \in BOOLEAN, by \in {Source, None},
             fails \in BOOLEAN : PushesOne(d, item, last, by, fails)
    BY <1>2, PushesIs DEF Inv
  <1>4. Push(Source, d, item, by, fails) /\ item \in Items
    BY <1>3 DEF PushesOne, ItemsTo
  <1> QED  BY <1>2, <1>4, PushGot DEF Inv

\* What finish_branch pushes is an end.
LEMMA FinishedIs ==
    ASSUME Inv, NEW c \in Callers, FinishPushes(c), NEW b \in Branches, got'[b] # got[b]
    PROVE  Last(got'[b]) = Eos(-1)
  <1>1. PICK d \in Branches : d = call[c].branch
    BY DEF Inv, CallTypes, FinishPushes
  <1>2. PICK by, fails, item : Push(c, d, item, by, fails) /\ item = Eos(-1)
    BY <1>1 DEF FinishPushes
  <1>3. item \in Items
    BY <1>2, ItemTypes DEF Inv, ItemsTo
  <1> QED  BY <1>2, <1>3, PushGot DEF Inv

-----------------------------------------------------------------------------
(* The invariant holds, and what follows from it.                          *)

\* It holds at first.
LEMMA InitInv == Init => Inv
  <1> SUFFICES ASSUME Init PROVE Inv
    OBVIOUS
  <1>1. PipeTypes
    <2>1. <<>> \notin Flushing
      BY DEF Flushing
    <2>2. PICK no \in BOOLEAN : no = FALSE
      OBVIOUS
    <2>3. context = [on |-> no, expected |-> {}, ready |-> {}]
      BY <2>2 DEF Init, NoContext
    <2>4. /\ context \in [on : BOOLEAN, expected : SUBSET Branches, ready : SUBSET Branches]
          /\ context.ready \subseteq context.expected
      BY <2>3
    <2>5. paused \in BOOLEAN /\ stepped \in BOOLEAN
      BY DEF Init
    <2>6. phase = "playing" /\ timeline = 0 /\ todo = <<>> /\ asked = None /\ ops = 0
      BY DEF Init
    <2> QED BY <2>1, <2>4, <2>5, <2>6, Numbers DEF PipeTypes
  <1>2. SourceTypes
    <2>1. PICK no \in BOOLEAN : no = FALSE
      OBVIOUS
    <2>2. source = [at |-> "begin", made |-> 0, from |-> 0, held |-> no]
      BY <2>1 DEF Init
    <2> QED BY <2>2, Numbers DEF SourceTypes, Init
  <1>3. TeeTypes
    <2>1. <<>> \in Seq(ItemsTo(timeline)) /\ Len(<<>>) = 0
      OBVIOUS
    <2>2. Nothing \in ItemsTo(timeline)
      BY <1>1, <1>2, ItemTypes
    <2>3. tee \in [at : {"idle", "flowing"} \cup Owing \cup Handing,
                   item : ItemsTo(timeline), msg : Message \cup {None},
                   left : SUBSET Branches, push : Seq(ItemsTo(timeline))]
      BY <2>1, <2>2 DEF Idle, Init
    <2>4. tee.at = "idle"
      BY DEF Idle, Init
    <2> QED BY <2>1, <2>3, <2>4 DEF TeeTypes, AtBranch, Init
  <1>4. OwedBounded
    <2>1. Buffers(<<>>) = {}
      BY DEF Buffers
    <2>2. Cardinality(Buffers(<<>>)) <= MaxOwed
      <3>1. PICK none : none = {}
        OBVIOUS
      <3>2. Cardinality(none) = 0
        BY <3>1, FS_EmptySet
      <3>3. Cardinality(none) <= MaxOwed
        BY <3>2, Numbers
      <3> QED  BY <2>1, <3>1, <3>3, Zenon
    <2> QED BY <2>2 DEF OwedBounded, Init
  <1>5. ListTypes
    BY Numbers DEF ListTypes, Init
  <1>6. TerminalTypes
    <2>1. pad \in [Branches -> [flushing : BOOLEAN, ended : BOOLEAN,
                                by : Threads \cup {None, "unbuilt"}]]
      <3>1. PICK no \in BOOLEAN : no = FALSE
        OBVIOUS
      <3>2. pad = [b \in Branches |-> [flushing |-> no, ended |-> no,
                       by |-> IF b \in Initial THEN None ELSE "unbuilt"]]
        BY <3>1 DEF Init
      <3> QED  BY <3>2
    <2>2. got \in [Branches -> Seq(Items)]
      <3>1. <<>> \in Seq(Items)
        OBVIOUS
      <3> QED  BY <3>1 DEF Init
    <2>3. Never \in Never .. timeline
      <3>1. timeline = 0
        BY DEF Init
      <3> QED  BY <3>1 DEF Never
    <2> QED BY <2>1, <2>2, <2>3 DEF TerminalTypes, Init
  <1>7. CheckTypes
    BY DEF CheckTypes, NotChecking, Init
  <1>8. CallTypes
    BY DEF CallTypes, NoCall, Init
  <1>9. Locks
    <2>1. tee.at = "idle"
      BY DEF Idle, Init
    <2>2. \A c \in Callers : call[c].at = "idle"
      BY DEF NoCall, Init
    <2> QED BY <2>1, <2>2, Numbers DEF Locks, HasPad, NoContext, Init
  <1>10. Earned
    BY DEF Earned, Init
  <1>11. Over
    <2>1. tee.at = "idle"
      BY DEF Idle, Init
    <2> QED BY <2>1 DEF Over, Init
  <1>12. Covered
    <2>1. \A b \in attached : ended[b] = Never
      BY Numbers DEF Init
    <2>2. timeline # Never
      BY DEF Never, Init
    <2> QED BY <2>1, <2>2 DEF Covered, AllOver, HasEnded
  <1>13. Plan
    <2>1. tee.at = "idle" /\ tee.msg = None
      BY DEF Idle, Init
    <2>2. <<>> \notin ToPlaying /\ <<>> \notin ToPaused
      BY DEF ToPlaying, ToPaused
    <2> QED BY <2>1, <2>2 DEF Plan, Owing, Handing, None, Init
  <1>14. HeldBack
    <2>1. tee.at = "idle"
      BY DEF Idle, Init
    <2> QED BY <2>1 DEF HeldBack, Owing, NoContext, Init
  <1> QED  BY <1>1, <1>2, <1>3, <1>4, <1>5, <1>6, <1>7, <1>8, <1>9, <1>10, <1>11, <1>12,
              <1>13, <1>14 DEF Inv

\* And it stays, whatever is done.
LEMMA NextKeeps ==
    ASSUME Inv, [Next]_vars
    PROVE  Inv'
  <1>1. CASE UNCHANGED vars
    <2>1. UNCHANGED <<phase, context, timeline, todo, asked, paused, stepped, ops, source,
        tee,
                      segment, owed, attached, active, pad, on, got, heard, unheard, ended,
                      posted, said, check, call, finished>>
      BY <1>1 DEF vars, playback, pipeline, topology, terminal, ends, handle
    <2>2. PipeTypes' /\ SourceTypes' /\ TeeTypes' /\ OwedBounded' /\ ListTypes'
      BY <2>1, PipeTypesStay, SourceTypesStay, TeeTypesStay, OwedBoundedStay, ListTypesStay
         DEF Inv
    <2>3. TerminalTypes' /\ CheckTypes' /\ CallTypes' /\ Locks' /\ Earned'
      BY <2>1, TerminalTypesStay, CheckTypesStay, CallTypesStay, LocksStay,
          EarnedStay DEF Inv
    <2>4. Over' /\ Covered' /\ Plan' /\ HeldBack'
      BY <2>1, OverStay, CoveredStay, PlanStay, HeldBackStay DEF Inv
    <2> QED BY <2>2, <2>3, <2>4 DEF Inv
  <1>2. CASE \E o \in Ops : Calls(o)
    BY <1>2, CallsKeeps
  <1>3. CASE Asks \/ Awaited \/ \E b \in Branches : Departs(b)
    BY <1>3, AsksKeeps, AwaitedKeeps, DepartsKeeps
  <1>4. CASE SourceBegins \/ SourceProduces \/ SourceEnds \/ SourceTakes
    BY <1>4, SourceBeginsKeeps, SourceProducesKeeps, SourceEndsKeeps, SourceTakesKeeps
  <1>5. CASE TeeSteps
    <2>1. CASE TeeLooks \/ TeeLocks \/ TeePushes \/ TeeHanded
      BY <2>1, TeeLooksKeeps, TeeLocksKeeps, TeePushesKeeps, TeeHandedKeeps
    <2>2. CASE TeeFlushes \/ TeeFlowed
      BY <2>2, TeeFlushesKeeps, TeeFlowedKeeps
    <2>3. CASE TeeOwes \/ TeeHandsOwed \/ TeeReported
      BY <2>3, TeeOwesKeeps, TeeHandsOwedKeeps, TeeReportedKeeps
    <2> QED BY <1>5, <2>1, <2>2, <2>3 DEF TeeSteps
  <1>6. CASE \E t \in Threads : Checks(t)
    <2>1. PICK t \in Threads : Checks(t)
      BY <1>6
    <2>2. UNCHANGED <<playback, pipeline, source, tee, segment, owed, topology,
                      terminal, handle, finished>>
      BY <2>1 DEF Checks
    <2>3. ReadGraph(t) \/ ReadTimeline(t) \/ Compare(t)
      BY <2>1 DEF Checks
    <2> QED BY <2>2, <2>3, ReadGraphKeeps, ReadTimelineKeeps, CompareKeeps
  <1>7. CASE \E c \in Callers : HandleSteps(c)
    <2>1. PICK c \in Callers : HandleSteps(c)
      BY <1>7
    <2>2. CASE Attach(c) \/ \E b \in Branches : Detach(c, b) \/ FinishFinds(c, b)
      BY <2>2, AttachKeeps, DetachKeeps, FinishFindsKeeps
    <2>3. CASE FinishPushes(c) \/ FinishReported(c) \/ FinishRemoves(c)
      BY <2>3, FinishPushesKeeps, FinishReportedKeeps, FinishRemovesKeeps
    <2> QED BY <2>1, <2>2, <2>3 DEF HandleSteps
  <1> QED  BY <1>1, <1>2, <1>3, <1>4, <1>5, <1>6, <1>7 DEF Next

\* The invariant holds throughout.
LEMMA Invariant == Spec => []Inv
  <1>1. Inv /\ [Next]_vars => Inv'
    BY NextKeeps
  <1> QED  BY <1>1, InitInv, PTL DEF Spec

\* Every variable keeps its type, and what a Tee keeps for a branch is never more buffers than
\* MAX_OWED, whatever is held, attached, finished or flushed meanwhile (tee.rs:742-764).
THEOREM TypeCorrect == Spec => []TypeOK
  <1>1. Inv => TypeOK
    <2> SUFFICES ASSUME Inv PROVE TypeOK
      OBVIOUS
    <2>1. /\ phase \in {"playing", "paused", "prerolling"}
          /\ context \in [on : BOOLEAN, expected : SUBSET Branches, ready : SUBSET Branches]
          /\ context.ready \subseteq context.expected
      BY DEF Inv, PipeTypes
    <2>2. timeline \in 0 .. MaxOps
      BY Numbers DEF Inv, PipeTypes
    <2>3. owed \in [Branches -> Seq(Items)]
      <3>1. ItemsTo(timeline) \subseteq Items
        BY DEF ItemsTo
      <3>2. \A s \in Seq(ItemsTo(timeline)) : s \in Seq(Items)
        BY <3>1, SeqOfMore
      <3> QED  BY <3>2 DEF Inv, TeeTypes
    <2>4. \A b \in Branches :
              Cardinality({i \in DOMAIN owed[b] : owed[b][i].is = "buffer"}) <= MaxOwed
      <3> TAKE b \in Branches
      <3>1. DOMAIN owed[b] = 1 .. Len(owed[b])
        BY <2>3
      <3>2. {i \in DOMAIN owed[b] : owed[b][i].is = "buffer"} = Buffers(owed[b])
        BY <3>1 DEF Buffers
      <3> QED  BY <3>2 DEF Inv, OwedBounded
    <2>5. \A b \in Branches : pad[b].by \in Threads \cup {None, "unbuilt"}
      BY DEF Inv, TerminalTypes
    <2>6. /\ on \in [Branches -> Never .. MaxOps] /\ ended \in [Branches -> Never .. MaxOps]
          /\ posted \in Never .. MaxOps
      <3>1. Never .. timeline \subseteq Never .. MaxOps
        BY <2>2, Numbers DEF Never
      <3> QED  BY <3>1 DEF Inv, TerminalTypes
    <2>7. got \in [Branches -> Seq(Items)]
      BY DEF Inv, TerminalTypes
    <2>8. source \in [at : {"begin", "running", "ended"}, made : 0 .. Length,
                      from : 0 .. Length, held : BOOLEAN]
      BY DEF Inv, SourceTypes
    <2>9. attached \subseteq Branches /\ active \subseteq attached
      BY DEF Inv, ListTypes
    <2> QED BY <2>1, <2>2, <2>3, <2>4, <2>5, <2>6, <2>7, <2>8, <2>9 DEF TypeOK
  <1> QED  BY <1>1, Invariant, PTL

\* Once every terminal has ended and nobody is at it, Finished has been said of the timeline,
\* whatever was attached, detached, refused or sought meanwhile: whoever ends last, or is removed
\* without having ended, looks again (completion.rs:69-101).
THEOREM NoEndIsMissedHolds == Spec => []NoEndIsMissed
  <1>1. Inv => NoEndIsMissed
    <2> SUFFICES ASSUME Inv, timeline \notin unheard, Quiet, attached # {},
                        \A b \in attached : HasEnded(b)
                 PROVE  timeline \in said
      BY DEF NoEndIsMissed, AnEndIsNotMissed
    <2>1. \A t \in Threads : ~WillSay(t)
      BY DEF Quiet, WillSay, None
    <2> QED BY <2>1 DEF Inv, Covered, AllOver
  <1> QED  BY <1>1, Invariant, PTL

\* Finished is said of a timeline only if whatever the check saw in the graph was handed an end of
\* that timeline: an end counted before a seek never stands for one after it.
THEOREM FinishedIsEarnedHolds == Spec => FinishedIsEarned
  <1>1. ASSUME Inv, [Next]_vars, posted' # posted,
               NEW t \in Threads, check[t].at = "compare", check'[t].at = None,
               NEW b \in check[t].terminals \cap attached
        PROVE  posted' \in heard[b]
    <2>1. PICK u \in Threads : Compare(u)
      <3>1. SUFFICES ASSUME ~(\E u \in Threads : Compare(u)) PROVE FALSE
        OBVIOUS
      <3>2. \E u \in Threads : Compare(u)
        BY <1>1, PostedBy
      <3> QED  BY <3>1, <3>2
    <2>2. AllEnded(u) /\ posted' = check[u].current
      BY <1>1, <2>1 DEF Compare
    <2>3. t = u
      BY <1>1, <2>1 DEF Inv, CheckTypes, Compare, None
    <2>4. ended[b] = posted' /\ posted' # Never /\ b \in Branches
      BY <2>2, <2>3, <1>1 DEF AllEnded, Inv, CheckTypes, ListTypes, PipeTypes, Never
    <2> QED BY <1>1, <2>4 DEF Inv, Earned
  <1>2. Inv /\ [Next]_vars =>
            [\A t \in Threads :
                 check[t].at = "compare" /\ check'[t].at = None =>
                     \A b \in check[t].terminals \cap attached : posted' \in heard[b]]_posted
    BY <1>1
  <1> QED  BY <1>2, Invariant, PTL DEF Spec, FinishedIsEarned

\* A branch that a preroll holds is handed no buffer of what goes by to its siblings, and what is
\* kept for it is handed on by what ends the hold alone.
THEOREM HeldAtItsSampleHolds == Spec => HeldAtItsSample
  <1>1. ASSUME Inv, [Next]_vars, got' # got, NEW b \in attached, IsReady(b),
      got'[b] # got[b]
        PROVE  Last(got'[b]).is # "buffer" \/ tee.at = "owingLocks"
    <2>1. b \in Branches
      BY <1>1 DEF Inv, ListTypes
    <2>2. CASE TeeFlushes
      BY <1>1, <2>1, <2>2, FlushedIs DEF FlushOf
    <2>3. CASE TeePushes
      <3>1. b = Branch
        BY <1>1, <2>1, <2>3, PushesOnly
      <3>2. context.on /\ b \in context.expected /\ tee.at = "pushing"
        BY <1>1, <2>3 DEF Inv, PipeTypes, IsReady, TeePushes
      <3> QED  BY <1>1, <3>1, <3>2 DEF Inv, HeldBack
    <2>4. CASE TeeHandsOwed
      BY <2>4 DEF TeeHandsOwed
    <2>5. CASE \E c \in Callers : FinishPushes(c)
      BY <1>1, <2>1, <2>5, FinishedIs DEF Eos
    <2> QED BY <1>1, <2>2, <2>3, <2>4, <2>5, HandedBy
  <1>2. Inv /\ [Next]_vars =>
            [\A b \in attached :
                 IsReady(b) /\ got'[b] # got[b] =>
                     Last(got'[b]).is # "buffer" \/ tee.at = "owingLocks"]_got
    BY <1>1
  <1> QED  BY <1>2, Invariant, PTL DEF Spec, HeldAtItsSample

\* Nothing of what is handed out follows the end a branch is finished with, though finish_branch
\* and hand_out run at once on two threads (tee.rs:619-621, 871).
THEOREM EndIsLastOfHandedOutHolds == Spec => EndIsLastOfHandedOut
  <1>1. ASSUME Inv, [Next]_vars, got' # got, NEW b \in finished, got'[b] # got[b]
        PROVE  tee.at = "owingLocks" \/ Last(got'[b]) = Eos(-1)
    <2>1. b \in Branches
      BY <1>1 DEF Inv, ListTypes
    <2>2. CASE TeeFlushes
      <3>1. b \in active
        BY <1>1, <2>1, <2>2, FlushedIs
      <3> QED  BY <1>1, <3>1 DEF Inv, Over
    <2>3. CASE TeePushes
      <3>1. b = Branch
        BY <1>1, <2>1, <2>3, PushesOnly
      <3> QED  BY <1>1, <2>3, <3>1 DEF Inv, Over, TeePushes
    <2>4. CASE TeeHandsOwed
      BY <2>4 DEF TeeHandsOwed
    <2>5. CASE \E c \in Callers : FinishPushes(c)
      BY <1>1, <2>1, <2>5, FinishedIs
    <2> QED BY <1>1, <2>2, <2>3, <2>4, <2>5, HandedBy
  <1>2. Inv /\ [Next]_vars =>
            [\A b \in finished :
                 got'[b] # got[b] => tee.at = "owingLocks" \/ Last(got'[b]) = Eos(-1)]_got
    BY <1>1
  <1> QED  BY <1>2, Invariant, PTL DEF Spec, EndIsLastOfHandedOut

-----------------------------------------------------------------------------
(* What each branch hears is in order.  An item's rank is its place in the *)
(* stream of its timeline; what a terminal was handed last, what is kept   *)
(* for it or about to be pushed, and what is handed out are of rising      *)
(* ranks, none above what the source has made.                             *)

\* What is handed out on a timeline.
ItemsOf(tl) ==
    {item \in ItemsTo(tl) : /\ item.tl = tl /\ item.is # "flush"
                            /\ item.is = "buffer" => item.n \in 1 .. Length}

Rank(item) ==
    CASE item.is = "flush" -> -1
      [] item.is = "segment" -> 0
      [] item.is = "buffer" -> item.n
      [] OTHER -> Length + 1
Made == IF source.at = "ended" THEN Length + 1 ELSE source.made

\* What a terminal was handed last, and what is on its way to it.
LastOf(s) == Behind(s, Len(s) + 1)
Top(b) == LastOf(got[b])
Pending(b) == IF tee.at \in {"locking", "pushing"} /\ b = Branch THEN tee.push ELSE owed[b]
Live(b) == b \in active \/ Pending(b) # <<>>

\* A seek has sent its flush, and its segment is not handed out yet.
Renewing ==
    \/ asked = "Flush"
    \/ todo # <<>> /\ todo[1] = "Seek"
    \/ asked = "Seek" /\ tee.at \in {"idle", "flowing"}

\* The item handed out has not come to branch b yet.
Waiting(b) == tee.at \in Handing /\ b \in tee.left /\ (tee.at # "handing" => b # Branch)

\* The segment comes first, and a branch that has not had it nothing else.
Begun ==
    /\ source.at = "begin" => hasSegment = {}
    /\ source.at # "begin" => segment # <<>>
    /\ segment # <<>> /\ ~Renewing => segment[1].tl = timeline
    /\ tee.at \in Handing => tee.item \in ItemsOf(timeline) /\ Rank(tee.item) <= Made
    /\ tee.at \in {"locking", "pushing"} => owed[Branch] = <<>> /\ Branch \in hasSegment
    /\ tee.at \in Owing => HandsOn(tee.msg)
    /\ tee.at = "flowing" /\ tee.left # {} => tee.msg = "Flush"
    /\ \A b \in Branches : b \notin hasSegment => owed[b] = <<>> /\ Top(b).is = "flush"
    /\ \A b \in Branches : pad[b].by = "unbuilt" => got[b] = <<>> /\ b \notin hasSegment

\* What a flush leaves.
Renewed ==
    /\ asked = "Flush" /\ tee.at = "flowing" =>
           \A b \in active \ tee.left : Top(b).is = "flush" /\ pad[b].flushing
    /\ Renewing /\ asked # "Flush" =>
           \A b \in Branches : owed[b] = <<>> /\ (b \in active => Top(b).is = "flush")

\* The ranks of s rise from above low to high.
Rising(s, low, high) ==
    /\ \A i \in 1 .. Len(s) : low < Rank(s[i]) /\ Rank(s[i]) <= high
    /\ \A i, j \in 1 .. Len(s) : i < j => Rank(s[i]) < Rank(s[j])

\* What branch b was handed last, is about to be and will be, one behind the other.
Queued(b) ==
    /\ asked # "Flush" => \A i \in 1 .. Len(Pending(b)) : Pending(b)[i] \in ItemsOf(timeline)
    /\ Rank(Top(b)) <= Made
    /\ Rising(Pending(b), Rank(Top(b)), Made)
    /\ b \in hasSegment /\ Top(b).is = "flush" =>
           pad[b].flushing \/ (Pending(b) # <<>> /\ Pending(b)[1].is = "segment")
    /\ Top(b).is # "flush" /\ asked # "Flush" => Top(b).tl = timeline
    /\ Waiting(b) =>
           /\ Rank(Top(b)) < Rank(tee.item)
           /\ \A i \in 1 .. Len(Pending(b)) : Rank(Pending(b)[i]) < Rank(tee.item)
InQueue == \A b \in Branches : Live(b) => Queued(b)

InOrder(s) == \A i \in 1 .. Len(s) : OfStream(s[i]) => Follows(Behind(s, i), s[i])

Order == Begun /\ Renewed /\ InQueue /\ \A b \in Branches : InOrder(got[b])

\* It is what Max stands for.
LEMMA MaxIs ==
    ASSUME NEW S, S \subseteq Int, NEW m \in S, \A x \in S : x <= m
    PROVE  Max(S) = m
  <1>1. Max(S) \in S /\ \A x \in S : x <= Max(S)
    BY DEF Max
  <1>2. PICK k : k = Max(S)
    OBVIOUS
  <1>3. k \in S /\ m <= k /\ k <= m
    BY <1>1, <1>2
  <1>4. k = m
    BY <1>3
  <1> QED  BY <1>2, <1>4

\* A set of places that is not empty has a last one.
LEMMA LargestOf ==
    ASSUME NEW n \in Nat, NEW S, S \subseteq 1 .. n, S # {}
    PROVE  Max(S) \in S
  <1> DEFINE T == {n - x : x \in S}
  <1>1. T \subseteq Nat /\ T # {}
    <2>1. \A x \in S : n - x \in Nat /\ n - x \in T
      OBVIOUS
    <2>2. PICK x : x \in S
      OBVIOUS
    <2> QED BY <2>1, <2>2
  <1>2. PICK y \in T : \A z \in T : y <= z
    <2> HIDE DEF T
    <2> QED  BY <1>1, LeastOf
  <1>3. PICK x \in S : y = n - x
    BY <1>2
  <1>4. \A z \in S : n - z \in T
    OBVIOUS
  <1>5. \A z \in S : z <= x
    <2> HIDE DEF T
    <2> QED  BY <1>2, <1>3, <1>4
  <1>6. S \subseteq Int
    OBVIOUS
  <1>7. Max(S) = x
    <2> HIDE DEF T
    <2> QED  BY <1>5, <1>6, MaxIs
  <1> QED  BY <1>7

\* Nothing handed, the first is behind a flush; and behind a flush alone, too.
LEMMA LastOfFew ==
    ASSUME NEW tl
    PROVE  LastOf(<<>>) = FlushOf(0) /\ LastOf(<<FlushOf(tl)>>) = FlushOf(tl)
  <1>1. Before(<<>>, 1) = {}
    BY DEF Before
  <1>2. LastOf(<<>>) = FlushOf(0)
    BY <1>1 DEF LastOf, Behind
  <1>3. PICK s : s = <<FlushOf(tl)>>
    OBVIOUS
  <1>4. Len(s) = 1 /\ s[1] = FlushOf(tl)
    BY <1>3
  <1>5. OfStream(FlushOf(tl))
    BY DEF OfStream, FlushOf
  <1>6. Before(s, 2) = {1}
    BY <1>4, <1>5 DEF Before
  <1>7. Max({1}) = 1
    BY MaxIs
  <1>8. Behind(s, 2) = s[1]
    BY <1>6, <1>7 DEF Behind
  <1>9. LastOf(s) = FlushOf(tl)
    BY <1>4, <1>8 DEF LastOf
  <1> QED  BY <1>2, <1>3, <1>9

\* What was handed last is an item.
LEMMA LastTypes ==
    ASSUME NEW s \in Seq(Items)
    PROVE  LastOf(s) \in Items
  <1>1. Len(s) \in Nat
    OBVIOUS
  <1>2. Before(s, Len(s) + 1) \subseteq 1 .. Len(s)
    BY <1>1 DEF Before
  <1>3. CASE Before(s, Len(s) + 1) = {}
    BY <1>3, Numbers DEF LastOf, Behind, FlushOf, Items
  <1>4. CASE Before(s, Len(s) + 1) # {}
    <2>1. Max(Before(s, Len(s) + 1)) \in 1 .. Len(s)
      BY <1>1, <1>2, <1>4, LargestOf
    <2> QED BY <2>1, <1>4 DEF LastOf, Behind
  <1> QED  BY <1>3, <1>4

\* What is put behind a sequence is last of it, and changes nothing before.
LEMMA LastOfMore ==
    ASSUME NEW s \in Seq(Items), NEW x \in Items
    PROVE  /\ LastOf(Append(s, x)) = IF OfStream(x) THEN x ELSE LastOf(s)
           /\ InOrder(s) /\ (OfStream(x) => Follows(LastOf(s), x)) => InOrder(Append(s, x))
  <1>1. PICK n \in Nat : n = Len(s)
    OBVIOUS
  <1>2. PICK u : u = Append(s, x)
    OBVIOUS
  <1>3. Len(u) = n + 1 /\ u[n + 1] = x /\ \A i \in 1 .. n : u[i] = s[i]
    BY <1>1, <1>2, AppendProperties
  <1>4. ASSUME NEW i \in 1 .. n + 1 PROVE Behind(u, i) = Behind(s, i)
    <2>1. Before(u, i) = Before(s, i)
      BY <1>3 DEF Before
    <2>2. Before(s, i) \subseteq 1 .. n
      BY DEF Before
    <2>3. CASE Before(s, i) = {}
      BY <2>1, <2>3 DEF Behind
    <2>4. CASE Before(s, i) # {}
      <3>1. Max(Before(s, i)) \in 1 .. n
        BY <2>2, <2>4, LargestOf
      <3> QED  BY <2>1, <2>4, <3>1, <1>3 DEF Behind
    <2> QED BY <2>3, <2>4
  <1>5. Behind(u, n + 2) = IF OfStream(x) THEN x ELSE Behind(u, n + 1)
    <2>1. CASE OfStream(x)
      <3>1. n + 1 \in Before(u, n + 2) /\ Before(u, n + 2) \subseteq 1 .. n + 1
        BY <1>3, <2>1 DEF Before
      <3>2. Max(Before(u, n + 2)) = n + 1
        BY <3>1, MaxIs
      <3> QED  BY <1>3, <2>1, <3>1, <3>2 DEF Behind
    <2>2. CASE ~OfStream(x)
      <3>1. Before(u, n + 2) = Before(u, n + 1)
        BY <1>3, <2>2 DEF Before
      <3> QED  BY <2>2, <3>1 DEF Behind
    <2> QED BY <2>1, <2>2
  <1>6. LastOf(u) = IF OfStream(x) THEN x ELSE LastOf(s)
    <2>1. LastOf(u) = Behind(u, n + 2) /\ LastOf(s) = Behind(s, n + 1)
      BY <1>1, <1>3 DEF LastOf
    <2>2. Behind(u, n + 1) = Behind(s, n + 1)
      BY <1>4
    <2> QED BY <1>5, <2>1, <2>2
  <1>7. ASSUME InOrder(s), OfStream(x) => Follows(LastOf(s), x),
               NEW i \in 1 .. Len(u), OfStream(u[i])
        PROVE  Follows(Behind(u, i), u[i])
    <2>1. Behind(u, i) = Behind(s, i)
      BY <1>3, <1>4
    <2>2. CASE i \in 1 .. n
      BY <1>1, <1>3, <1>7, <2>1, <2>2 DEF InOrder
    <2>3. CASE i = n + 1
      BY <1>1, <1>3, <1>7, <2>1, <2>3 DEF LastOf
    <2> QED BY <1>3, <2>2, <2>3
  <1>8. InOrder(s) /\ (OfStream(x) => Follows(LastOf(s), x)) => InOrder(u)
    BY <1>7 DEF InOrder
  <1> QED  BY <1>2, <1>6, <1>8

\* A rank is a number, and none is below that of a segment but a flush's.
LEMMA RankIs ==
    ASSUME NEW item \in Items
    PROVE  /\ Rank(item) \in -1 .. Length + 1 /\ Length \in Nat
           /\ Rank(item) = -1 <=> item.is = "flush"
           /\ item.is = "segment" => Rank(item) = 0
           /\ item.is = "buffer" => Rank(item) = item.n
           /\ item.is = "eos" => Rank(item) = Length + 1
           /\ item.is \in {"buffer", "segment", "eos", "flush"} /\ item.n \in Int
  BY Numbers DEF Rank, Items

\* An item of a higher rank may come behind the last, but for one behind a flush that is no
\* segment.
LEMMA FollowsOn ==
    ASSUME NEW tl, NEW item \in ItemsOf(tl), NEW top \in Items, Rank(top) < Rank(item),
           top.is # "flush" => top.tl = tl, top.is = "flush" => item.is = "segment"
    PROVE  Follows(top, item)
  <1>1. item \in Items /\ item.tl = tl /\ item.is # "flush"
        /\ (item.is = "buffer" => item.n \in 1 .. Length)
    BY DEF ItemsOf, ItemsTo
  <1> QED  BY <1>1, RankIs DEF Follows

\* The first gone, the rest still rises.
LEMMA OneFewer ==
    ASSUME NEW s \in Seq(Items), s # <<>>, NEW low \in Int, NEW high \in Int, low <= high,
           Rising(s, low, high), NEW new \in {low, Rank(s[1])}
    PROVE  Rising(Tail(s), new, high) /\ new <= high
  <1>1. PICK t : t = Tail(s)
    OBVIOUS
  <1>2. /\ s[1] \in Items /\ Len(s) \in Nat /\ Len(s) >= 1 /\ Len(t) = Len(s) - 1
        /\ \A i \in 1 .. Len(s) - 1 : t[i] = s[i + 1]
    BY <1>1, FirstIs
  <1>3. new \in Int /\ new <= high
    BY <1>2 DEF Rising
  <1>4. ASSUME NEW i \in 1 .. Len(t)
        PROVE  new < Rank(t[i]) /\ Rank(t[i]) <= high
    <2>1. i + 1 \in 1 .. Len(s) /\ 1 \in 1 .. Len(s) /\ 1 < i + 1 /\ t[i] = s[i + 1]
      BY <1>2
    <2>2. /\ low < Rank(s[i + 1]) /\ Rank(s[i + 1]) <= high
          /\ Rank(s[1]) < Rank(s[i + 1])
      BY <2>1 DEF Rising
    <2> QED BY <2>1, <2>2
  <1>5. ASSUME NEW i \in 1 .. Len(t), NEW j \in 1 .. Len(t), i < j
        PROVE  Rank(t[i]) < Rank(t[j])
    <2>1. /\ i + 1 \in 1 .. Len(s) /\ j + 1 \in 1 .. Len(s) /\ i + 1 < j + 1
          /\ t[i] = s[i + 1] /\ t[j] = s[j + 1]
      BY <1>2, <1>5
    <2>2. Rank(s[i + 1]) < Rank(s[j + 1])
      BY <2>1 DEF Rising
    <2> QED BY <2>1, <2>2
  <1>6. Rising(t, new, high)
    BY <1>4, <1>5 DEF Rising
  <1> QED  BY <1>1, <1>3, <1>6

\* One more of a higher rank, it rises to that.
LEMMA OneHigher ==
    ASSUME NEW s \in Seq(Items), NEW item \in Items, NEW low \in Int, NEW high \in Int,
           Rising(s, low, high), Rank(item) <= high, low < Rank(item),
           \A i \in 1 .. Len(s) : Rank(s[i]) < Rank(item)
    PROVE  Rising(Append(s, item), low, high)
  <1>1. PICK t : t = Append(s, item)
    OBVIOUS
  <1>2. /\ Len(s) \in Nat /\ Len(t) = Len(s) + 1 /\ t[Len(s) + 1] = item
        /\ \A i \in 1 .. Len(s) : t[i] = s[i]
    BY <1>1, AppendProperties
  <1>3. ASSUME NEW i \in 1 .. Len(t)
        PROVE  low < Rank(t[i]) /\ Rank(t[i]) <= high
    <2>1. CASE i \in 1 .. Len(s)
      BY <1>2, <2>1 DEF Rising
    <2>2. CASE i = Len(s) + 1
      BY <1>2, <2>2
    <2> QED BY <1>2, <2>1, <2>2
  <1>4. ASSUME NEW i \in 1 .. Len(t), NEW j \in 1 .. Len(t), i < j
        PROVE  Rank(t[i]) < Rank(t[j])
    <2>1. i \in 1 .. Len(s) /\ t[i] = s[i]
      BY <1>2, <1>4
    <2>2. CASE j \in 1 .. Len(s)
      BY <1>2, <1>4, <2>1, <2>2 DEF Rising
    <2>3. CASE j = Len(s) + 1
      BY <1>2, <2>1, <2>3
    <2> QED BY <1>2, <2>2, <2>3
  <1>5. Rising(t, low, high)
    BY <1>3, <1>4 DEF Rising
  <1> QED  BY <1>1, <1>5

\* What the source has made is a number.
LEMMA MadeIs ==
    ASSUME SourceTypes
    PROVE  Made \in 0 .. Length + 1 /\ Made \in Int
  BY Numbers DEF SourceTypes, Made

\* What a branch was handed last is an item, and what it waits for are items.
LEMMA QueueTypes ==
    ASSUME TeeTypes, TerminalTypes, NEW b \in Branches
    PROVE  /\ Top(b) \in Items /\ Pending(b) \in Seq(Items) /\ Pending(b) \in Seq(ItemsTo(timeline))
           /\ Rank(Top(b)) \in Int
           /\ \A i \in 1 .. Len(Pending(b)) :
                  Pending(b)[i] \in Items /\ Rank(Pending(b)[i]) \in Int
           /\ tee.item \in Items /\ Rank(tee.item) \in Int
  <1>1. Top(b) \in Items
    BY LastTypes DEF TerminalTypes, Top
  <1>2. Pending(b) \in Seq(ItemsTo(timeline))
    BY DEF TeeTypes, Pending
  <1>3. ItemsTo(timeline) \subseteq Items
    BY DEF ItemsTo
  <1>4. Pending(b) \in Seq(Items)
    BY <1>2, <1>3, SeqOfMore
  <1>5. \A i \in 1 .. Len(Pending(b)) : Pending(b)[i] \in Items
    BY <1>4
  <1>6. tee.item \in Items
    BY <1>3 DEF TeeTypes
  <1> QED  BY <1>1, <1>2, <1>4, <1>5, <1>6, RankIs

\* A branch's place stays as long as what it is made of does, the source making more.
LEMMA QueuedStays ==
    ASSUME Inv, NEW b \in Branches, Queued(b),
           Top(b)' = Top(b), Pending(b)' = Pending(b), pad'[b].flushing <=> pad[b].flushing,
           b \in hasSegment' => b \in hasSegment, timeline' = timeline \/ asked' = "Flush",
           Made' \in Int, Made <= Made', asked' # "Flush" => asked # "Flush",
           Waiting(b)' => /\ tee'.item \in Items
                          /\ (Waiting(b) /\ tee'.item = tee.item) \/ Made < Rank(tee'.item)
    PROVE  Queued(b)'
  <1>1. /\ Made \in Int /\ Rank(Top(b)) \in Int
        /\ \A i \in 1 .. Len(Pending(b)) : Rank(Pending(b)[i]) \in Int
    BY MadeIs, QueueTypes DEF Inv
  <1>2. PICK top, s, high, more, item :
            top = Top(b) /\ s = Pending(b) /\ high = Made /\ more = Made' /\ item = tee'.item
    OBVIOUS
  <1>3. Rank(top) <= high /\ Rising(s, Rank(top), high)
    BY <1>2 DEF Queued
  <1>4. Rank(top) <= more /\ Rising(s, Rank(top), more)
    BY <1>1, <1>2, <1>3 DEF Rising
  <1>5. Rank(Top(b)') <= Made' /\ Rising(Pending(b)', Rank(Top(b)'), Made')
    BY <1>2, <1>4
  <1>6. asked' # "Flush" =>
            /\ \A i \in 1 .. Len(Pending(b)') : Pending(b)'[i] \in ItemsOf(timeline')
            /\ Top(b)'.is # "flush" => Top(b)'.tl = timeline'
    BY DEF Queued
  <1>7. b \in hasSegment' /\ Top(b)'.is = "flush" =>
            pad'[b].flushing \/ (Pending(b)' # <<>> /\ Pending(b)'[1].is = "segment")
    BY DEF Queued
  <1>8. ASSUME Waiting(b)'
        PROVE  /\ Rank(top) < Rank(item)
               /\ \A i \in 1 .. Len(s) : Rank(s[i]) < Rank(item)
    <2>1. CASE Waiting(b) /\ item = tee.item
      BY <1>2, <2>1 DEF Queued
    <2>2. CASE high < Rank(item)
      <3>1. Rank(item) \in Int
        BY <1>2, <1>8, RankIs
      <3> QED  BY <1>1, <1>2, <1>3, <2>2, <3>1 DEF Rising
    <2> QED BY <1>2, <1>8, <2>1, <2>2
  <1>9. Waiting(b)' =>
            /\ Rank(Top(b)') < Rank(tee'.item)
            /\ \A i \in 1 .. Len(Pending(b)') : Rank(Pending(b)'[i]) < Rank(tee'.item)
    BY <1>2, <1>8
  <1> QED  BY <1>5, <1>6, <1>7, <1>9 DEF Queued

\* The order stays as long as what is handed out, kept and pushed does.
LEMMA OrderStays ==
    ASSUME Inv, Order, UNCHANGED <<got, owed, tee, hasSegment, segment, source, timeline>>,
           active' \subseteq active,
           \A b \in Branches : /\ pad'[b].flushing = pad[b].flushing
                               /\ pad'[b].by = "unbuilt" => pad[b].by = "unbuilt",
           Renewing => Renewing', asked' # "Flush" => asked # "Flush",
           asked' = "Flush" /\ tee.at = "flowing" => asked = "Flush",
           Renewing' /\ asked' # "Flush" => Renewing
    PROVE  Order'
  <1>1. \A b \in Branches : Top(b)' = Top(b) /\ Pending(b)' = Pending(b)
                            /\ (Waiting(b)' <=> Waiting(b))
    BY DEF Top, Pending, Waiting, Branch
  <1>2. Made' = Made /\ Made \in Int
    BY MadeIs DEF Made, Inv
  <1>3. Begun'
    BY <1>1, <1>2 DEF Order, Begun, Branch
  <1>4. Renewed'
    BY <1>1 DEF Order, Renewed, Inv, ListTypes
  <1>5. InQueue'
    <2> SUFFICES ASSUME NEW b \in Branches, Live(b)' PROVE Queued(b)'
      BY DEF InQueue
    <2>1. Live(b)
      BY <1>1 DEF Live
    <2>2. Queued(b)
      BY <2>1 DEF Order, InQueue
    <2>3. tee.item \in Items
      BY QueueTypes DEF Inv
    <2> QED BY <1>1, <1>2, <2>2, <2>3, QueuedStays
  <1>6. \A b \in Branches : InOrder(got'[b])
    BY DEF Order
  <1> QED  BY <1>3, <1>4, <1>5, <1>6 DEF Order

\* No call begins with the seek itself.
LEMMA StagesBegin ==
    ASSUME NEW o \in {"resume", "seek", "step"}, paused \in BOOLEAN, stepped \in BOOLEAN,
           stepped => paused
    PROVE  Stages(o)[1] # "Seek"
  <1>1. CASE ~paused
    BY <1>1, StagesAre
  <1>2. CASE o = "resume" /\ ~stepped
    <2>1. Stages(o) = <<"Resume">>
      BY <1>2 DEF Stages
    <2> QED BY <2>1
  <1>3. CASE o = "resume" /\ stepped
    <2>1. Stages(o) = <<"Flush", "Seek", "Preroll", "await", "Pause", "Resume">>
      BY <1>3, SeekThenPlays DEF Stages, SeekStages
    <2> QED BY <2>1
  <1>4. CASE o = "seek" /\ paused
    <2>1. SeekStages \in Seq(Stage)
      BY SMT DEF SeekStages, Stage, Message
    <2>2. <<>> \o SeekStages = SeekStages /\ SeekStages \o <<>> = SeekStages
      <3> HIDE DEF Stage
      <3> QED BY <2>1, ConcatEmptySeq
    <2>3. Stages(o) = SeekStages
      BY <1>4, <2>2 DEF Stages, PauseFirst, GoOn
    <2>4. SeekStages[1] = "Flush"
      BY DEF SeekStages
    <2> QED BY <2>3, <2>4
  <1>5. CASE o = "step" /\ paused
    <2>1. <<"Step", "await", "Pause">> \in Seq(Stage)
      BY SMT DEF Stage, Message
    <2>2. <<>> \o <<"Step", "await", "Pause">> = <<"Step", "await", "Pause">>
      <3> HIDE DEF Stage
      <3> QED BY <2>1, ConcatEmptySeq
    <2>3. Stages(o) = <<"Step", "await", "Pause">>
      BY <1>5, <2>2 DEF Stages, PauseFirst
    <2> QED BY <2>3
  <1> QED  BY <1>1, <1>2, <1>3, <1>4, <1>5

\* A call begun hands nothing out.
LEMMA CallsOrder ==
    ASSUME Inv, Order, NEW o \in Ops, Calls(o)
    PROVE  Order'
  <1>1. UNCHANGED <<got, owed, tee, hasSegment, segment, source, timeline, asked, active, pad>>
    BY DEF Calls, playback, topology, terminal
  <1>2. asked = None /\ todo = <<>> /\ todo' = Stages(o)
    BY DEF Calls
  <1>3. Stages(o)[1] # "Seek"
    <2>1. o \in {"resume", "seek", "step"}
      BY BoundsAssumption
    <2> QED BY <2>1, StagesBegin DEF Inv, PipeTypes, Plan
  <1>4. ~Renewing /\ ~Renewing'
    BY <1>1, <1>2, <1>3 DEF Renewing, None
  <1> QED  BY <1>1, <1>4, OrderStays

\* Nor does a terminal that has left.
LEMMA DepartsOrder ==
    ASSUME Inv, Order, NEW b \in Branches, Departs(b)
    PROVE  Order'
  <1>1. UNCHANGED <<got, owed, tee, hasSegment, segment, source, timeline, asked, todo,
                    active, pad>>
    BY DEF Departs, pipeline, topology, terminal
  <1> QED  BY <1>1, OrderStays DEF Renewing

\* Nor does the wait that is over.
LEMMA AwaitedOrder ==
    ASSUME Inv, Order, Awaited
    PROVE  Order'
  <1>1. UNCHANGED <<got, owed, tee, hasSegment, segment, source, timeline, asked, active, pad>>
    BY DEF Awaited, playback, topology, terminal
  <1>2. asked = None /\ todo # <<>> /\ Head(todo) = "await" /\ todo' = Tail(todo)
    BY DEF Awaited
  <1>3. todo \in ToPlaying \cup ToPaused
    BY <1>2 DEF Inv, PipeTypes
  <1>4. todo[1] = "await" /\ Tail(todo)[1] = "Pause"
    BY <1>2, <1>3, Leaves DEF StageLeaves
  <1>5. ~Renewing /\ ~Renewing'
    BY <1>1, <1>2, <1>4 DEF Renewing, None
  <1> QED  BY <1>1, <1>5, OrderStays

\* Nor does a look whether all have ended.
LEMMA ChecksOrder ==
    ASSUME Inv, Order, NEW t \in Threads, Checks(t)
    PROVE  Order'
  <1>1. UNCHANGED <<got, owed, tee, hasSegment, segment, source, timeline, asked, todo,
                    active, pad>>
    BY DEF Checks, playback, pipeline, topology, terminal
  <1> QED  BY <1>1, OrderStays DEF Renewing

\* Nor does a branch detached, or found to be finished.
LEMMA DetachOrder ==
    ASSUME Inv, Order, NEW c \in Callers, NEW b \in Branches, Detach(c, b) \/ FinishFinds(c, b)
    PROVE  Order'
  <1>1. UNCHANGED <<got, owed, tee, hasSegment, segment, source, timeline, asked, todo, pad>>
    BY DEF Detach, FinishFinds, playback, pipeline, terminal
  <1>2. active' \subseteq active
    BY DEF Detach, FinishFinds, topology
  <1> QED  BY <1>1, <1>2, OrderStays DEF Renewing

\* Nor does its pad let go of, or the branch removed.
LEMMA FinishRemovesOrder ==
    ASSUME Inv, Order, NEW c \in Callers, FinishReported(c) \/ FinishRemoves(c)
    PROVE  Order'
  <1>1. UNCHANGED <<got, owed, tee, hasSegment, segment, source, timeline, asked, todo>>
    BY DEF FinishReported, FinishRemoves, playback, pipeline, terminal
  <1>2. active' \subseteq active
    BY DEF FinishReported, FinishRemoves, topology
  <1>3. \A b \in Branches : /\ pad'[b].flushing = pad[b].flushing
                            /\ pad'[b].by = "unbuilt" => pad[b].by = "unbuilt"
    <2>1. CASE FinishReported(c)
      <3>1. PICK d \in Branches : d = call[c].branch
        BY <2>1 DEF Inv, CallTypes, FinishReported
      <3>2. pad' = [pad EXCEPT ![d].by = None]
        BY <2>1, <3>1 DEF FinishReported
      <3> QED  BY <3>2, Numbers DEF Inv, TerminalTypes
    <2>2. CASE FinishRemoves(c)
      BY <2>2 DEF FinishRemoves
    <2> QED BY <2>1, <2>2
  <1> QED  BY <1>1, <1>2, <1>3, OrderStays DEF Renewing

\* A branch attached has been handed nothing.
LEMMA AttachOrder ==
    ASSUME Inv, Order, NEW c \in Callers, Attach(c)
    PROVE  Order'
  <1>1. UNCHANGED <<got, owed, tee, hasSegment, segment, source, timeline, asked, todo>>
    BY DEF Attach, playback, pipeline
  <1>2. PICK d \in Branches : d = Min(Fresh) /\ pad[d].by = "unbuilt"
    BY FreshIs DEF Attach
  <1>3. /\ pad' = [pad EXCEPT ![d].by = None] /\ active' = active \cup {d}
        /\ asked = None /\ todo = <<>>
    BY <1>2 DEF Attach
  <1>4. \A b \in Branches : /\ pad'[b].flushing = pad[b].flushing
                            /\ pad'[b].by = "unbuilt" => pad[b].by = "unbuilt"
    BY <1>3, Numbers DEF Inv, TerminalTypes
  <1>5. \A b \in Branches : Top(b)' = Top(b) /\ Pending(b)' = Pending(b)
                            /\ (Waiting(b)' <=> Waiting(b))
    BY <1>1 DEF Top, Pending, Waiting, Branch
  <1>6. Made' = Made /\ Made \in 0 .. Length + 1
    BY <1>1, MadeIs DEF Made, Inv
  <1>7. ~Renewing /\ ~Renewing'
    BY <1>1, <1>3 DEF Renewing, None
  <1>8. Begun'
    BY <1>1, <1>4, <1>5, <1>6, <1>7 DEF Order, Begun, Branch
  <1>9. Renewed'
    BY <1>1, <1>3, <1>7 DEF Renewed, None
  <1>10. got[d] = <<>> /\ d \notin hasSegment /\ owed[d] = <<>> /\ d \notin active
    BY <1>2 DEF Order, Begun, Inv, Locks, ListTypes
  <1>11. InQueue'
    <2> SUFFICES ASSUME NEW b \in Branches, Live(b)' PROVE Queued(b)'
      BY DEF InQueue
    <2>1. tee.item \in Items
      BY QueueTypes DEF Inv
    <2>2. CASE Live(b)
      <3>1. Queued(b)
        BY <2>2 DEF Order, InQueue
      <3> QED  BY <1>1, <1>4, <1>5, <1>6, <2>1, <3>1, QueuedStays
    <2>3. CASE ~Live(b)
      <3>1. b = d
        BY <1>3, <1>5, <2>3 DEF Live
      <3>2. Top(b) = FlushOf(0) /\ Pending(b) = <<>>
        <4>1. Pending(b) = owed[b]
          BY <1>10, <3>1 DEF Order, Begun, Pending
        <4> QED BY <1>10, <3>1, <4>1, LastOfFew DEF Top
      <3>3. PICK top, s, high : top = Top(b) /\ s = Pending(b) /\ high = Made
        OBVIOUS
      <3>4. top \in Items /\ top.is = "flush" /\ Rank(top) = -1
        BY <3>2, <3>3, QueueTypes, RankIs DEF FlushOf, Inv
      <3>5. Len(s) = 0 /\ high >= 0
        BY <1>6, <3>2, <3>3
      <3>6. Rank(top) <= high /\ Rising(s, Rank(top), high)
        BY <1>6, <3>3, <3>4, <3>5 DEF Rising
      <3>7. Waiting(b) => Rank(top) < Rank(tee.item)
        <4>1. ASSUME Waiting(b) PROVE tee.item \in ItemsOf(timeline)
          BY <4>1 DEF Order, Begun, Waiting
        <4> QED BY <2>1, <3>4, <4>1, RankIs DEF ItemsOf
      <3>8. Queued(b)
        BY <1>10, <3>1, <3>3, <3>4, <3>5, <3>6, <3>7 DEF Queued
      <3> QED  BY <1>1, <1>4, <1>5, <1>6, <2>1, <3>8, QueuedStays
    <2> QED BY <2>2, <2>3
  <1>12. \A b \in Branches : InOrder(got'[b])
    BY <1>1 DEF Order
  <1> QED  BY <1>8, <1>9, <1>11, <1>12 DEF Order

\* While items are handed out, or what was kept is, no seek is between its flush and its segment.
LEMMA BusyIsNot ==
    ASSUME Inv, Begun, tee.at \in Handing \cup Owing
    PROVE  ~Renewing /\ asked # "Flush" /\ tee.at \notin {"idle", "flowing"}
  <1>1. tee.at \notin {"idle", "flowing"}
    BY DEF Handing, Owing
  <1>2. asked \in {"Flush", "Seek", "Preroll"} => tee.msg = asked
    BY <1>1 DEF Inv, Plan
  <1>3. asked # "Flush"
    <2>1. CASE tee.at \in Handing
      BY <1>2, <2>1 DEF Inv, Plan, None
    <2>2. CASE tee.at \in Owing
      BY <1>2, <2>2 DEF Begun, HandsOn
    <2> QED BY <2>1, <2>2
  <1>4. ASSUME todo # <<>>, todo[1] = "Seek" PROVE FALSE
    <2>1. asked \in Message \cup {None}
      BY DEF Inv, PipeTypes
    <2>2. CASE asked = None
      BY <1>1, <1>4, <2>2 DEF Inv, Plan, Still
    <2>3. CASE asked = "Pause" \/ asked = "Resume" \/ asked = "Seek"
      BY <1>4, <2>3 DEF Inv, Plan
    <2>4. CASE asked = "Preroll"
      <3>1. todo \in Awaiting
        BY <2>4 DEF Inv, Plan
      <3>2. todo[1] = "await"
        BY <3>1, AwaitingIs, Leaves DEF StageLeaves
      <3> QED  BY <1>4, <3>2
    <2> QED BY <1>3, <2>1, <2>2, <2>3, <2>4 DEF Message
  <1> QED  BY <1>1, <1>3, <1>4 DEF Renewing

\* What a push leaves a terminal with.
LEMMA PushHands ==
    ASSUME TerminalTypes, NEW t, NEW b \in Branches, NEW item \in Items, NEW by, NEW fails,
           Push(t, b, item, by, fails)
    PROVE  /\ \A d \in Branches \ {b} :
                  Top(d)' = Top(d) /\ got'[d] = got[d] /\ pad'[d] = pad[d]
           /\ Top(b)' = IF Passes(b, item) /\ ~fails /\ OfStream(item) THEN item ELSE Top(b)
           /\ pad'[b].flushing <=>
                  pad[b].flushing /\ ~(Passes(b, item) /\ item.is = "segment")
           /\ pad'[b].by = by /\ timeline' = timeline
           /\ fails => item.is = "eos"
           /\ InOrder(got[b])
                  /\ (Passes(b, item) /\ ~fails /\ OfStream(item) => Follows(Top(b), item))
                      => InOrder(got'[b])
  <1>1. PICK passes : passes = Passes(b, item)
    OBVIOUS
  <1>2. got' = IF passes /\ ~fails THEN [got EXCEPT ![b] = Append(got[b], item)] ELSE got
    BY <1>1 DEF Push
  <1>3. \A d \in Branches \ {b} : got'[d] = got[d]
    BY <1>2 DEF TerminalTypes
  <1>4. /\ \A d \in Branches \ {b} : pad'[d] = pad[d]
        /\ pad'[b].flushing <=> pad[b].flushing /\ ~(passes /\ item.is = "segment")
        /\ pad'[b].by = by
    BY <1>1 DEF Push, TerminalTypes
  <1>5. got[b] \in Seq(Items)
    BY DEF TerminalTypes
  <1>6. CASE passes /\ ~fails
    <2>1. got'[b] = Append(got[b], item)
      BY <1>2, <1>6 DEF TerminalTypes
    <2>2. /\ Top(b)' = IF OfStream(item) THEN item ELSE Top(b)
          /\ InOrder(got[b]) /\ (OfStream(item) => Follows(Top(b), item)) => InOrder(got'[b])
      BY <1>5, <2>1, LastOfMore DEF Top
    <2> QED BY <1>1, <1>3, <1>4, <1>6, <2>2 DEF Top, Push
  <1>7. CASE ~(passes /\ ~fails)
    <2>1. got' = got
      BY <1>2, <1>7
    <2>2. \A d \in Branches : Top(d)' = Top(d)
      BY <2>1 DEF Top
    <2> QED BY <1>1, <1>4, <1>7, <2>1, <2>2 DEF Push
  <1> QED  BY <1>6, <1>7

\* The first of what is on its way to branch b goes, and nothing else changes its place.
FirstGoes(b, item) ==
    /\ Pending(b) # <<>> /\ item = Pending(b)[1] /\ Pending(b)' = Tail(Pending(b))
    /\ \A d \in Branches \ {b} : Pending(d)' = Pending(d)
    /\ \A d \in Branches : Waiting(d)' => Waiting(d) /\ d # b
    /\ tee'.item = tee.item /\ asked # "Flush"
    /\ UNCHANGED <<asked, hasSegment, source, active>>

\* Then all is in order, and branch b alone was touched.
FirstGone(b, by) ==
    /\ InQueue' /\ (\A d \in Branches : InOrder(got'[d]))
    /\ b \in hasSegment /\ pad'[b].by = by
    /\ \A d \in Branches \ {b} : Top(d)' = Top(d) /\ got'[d] = got[d] /\ pad'[d] = pad[d]

\* The first of what is on its way to a branch pushed, the rest is still in order behind it.
LEMMA PushedInQueue ==
    ASSUME Inv, Order, NEW t, NEW b \in Branches, NEW item, NEW by, NEW fails \in BOOLEAN,
           Push(t, b, item, by, fails), FirstGoes(b, item)
    PROVE  FirstGone(b, by)
  <1> USE DEF FirstGoes
  <1>1. Made \in Int /\ Made' = Made /\ tee.item \in Items
    BY MadeIs, QueueTypes DEF Inv, Made
  <1>2. PICK top, s, high, rest, new :
            top = Top(b) /\ s = Pending(b) /\ high = Made /\ rest = Tail(s) /\ new = Top(b)'
    OBVIOUS
  <1>3. top \in Items /\ s \in Seq(Items) /\ s # <<>> /\ item = s[1] /\ high \in Int
    BY <1>1, <1>2, QueueTypes DEF Inv
  <1>4. Queued(b)
    BY DEF Order, InQueue, Live
  <1>5. b \in hasSegment
    BY DEF Order, Begun, Pending
  <1>6. /\ \A i \in 1 .. Len(s) : s[i] \in ItemsOf(timeline)
        /\ Rank(top) <= high /\ Rising(s, Rank(top), high)
        /\ top.is = "flush" => pad[b].flushing \/ item.is = "segment"
        /\ top.is # "flush" => top.tl = timeline
    BY <1>2, <1>3, <1>4, <1>5 DEF Queued
  <1>7. /\ Len(s) \in Nat /\ Len(s) >= 1 /\ Len(rest) = Len(s) - 1
        /\ \A i \in 1 .. Len(s) - 1 : rest[i] = s[i + 1]
    BY <1>2, <1>3, FirstIs
  <1>8. 1 \in 1 .. Len(s)
    BY <1>7
  <1>9. item \in ItemsOf(timeline) /\ Rank(top) < Rank(item)
    BY <1>3, <1>6, <1>8 DEF Rising
  <1>10. item \in Items /\ item.tl = timeline /\ item.is # "flush" /\ OfStream(item)
    <2>1. timeline # -1
      BY DEF Inv, PipeTypes
    <2> QED BY <1>9, <2>1 DEF ItemsOf, ItemsTo, OfStream
  <1>11. /\ \A d \in Branches \ {b} :
                 Top(d)' = Top(d) /\ got'[d] = got[d] /\ pad'[d] = pad[d]
         /\ new = IF Passes(b, item) /\ ~fails THEN item ELSE top
         /\ pad'[b].flushing <=> pad[b].flushing /\ ~(Passes(b, item) /\ item.is = "segment")
         /\ pad'[b].by = by /\ timeline' = timeline
         /\ fails => item.is = "eos"
         /\ InOrder(got[b]) /\ (Passes(b, item) /\ ~fails => Follows(top, item))
                => InOrder(got'[b])
    BY <1>2, <1>10, PushHands DEF Inv
  <1>12. Passes(b, item) => ~pad[b].flushing \/ item.is = "segment"
    BY <1>10, RankIs DEF Passes
  <1>13. item.is = "segment" => Passes(b, item) \/ pad[b].flushing
    BY DEF Passes
  <1>14. Passes(b, item) /\ ~fails => Follows(top, item)
    BY <1>3, <1>6, <1>9, <1>12, FollowsOn
  <1>15. \A d \in Branches : InOrder(got'[d])
    BY <1>11, <1>14 DEF Order
  <1>16. new \in Items /\ Rising(rest, Rank(new), high) /\ Rank(new) <= high
    <2>1. new \in Items /\ Rank(new) \in {Rank(top), Rank(s[1])} /\ Rank(top) \in Int
      BY <1>3, <1>10, <1>11, RankIs
    <2> QED BY <1>2, <1>3, <1>6, <2>1, OneFewer
  <1>17. new.is = "flush" => pad'[b].flushing
    <2> SUFFICES ASSUME new.is = "flush" PROVE pad'[b].flushing
      OBVIOUS
    <2>1. new = top /\ ~(Passes(b, item) /\ ~fails)
      BY <1>10, <1>11
    <2>2. pad[b].flushing \/ item.is = "segment"
      BY <1>6, <2>1
    <2>3. ~(Passes(b, item) /\ item.is = "segment")
      BY <1>11, <2>1
    <2> QED BY <1>11, <1>13, <2>2, <2>3
  <1>18. new.is # "flush" => new.tl = timeline
    BY <1>6, <1>10, <1>11
  <1>19. \A i \in 1 .. Len(rest) : rest[i] \in ItemsOf(timeline)
    BY <1>6, <1>7
  <1>20. Queued(b)'
    <2>1. Top(b)' = new /\ Pending(b)' = rest /\ Made' = high
      BY <1>1, <1>2
    <2>2. timeline' = timeline /\ ~Waiting(b)'
      BY <1>11
    <2>3. Rank(Top(b)') <= Made' /\ Rising(Pending(b)', Rank(Top(b)'), Made')
      BY <1>16, <2>1
    <2>4. \A i \in 1 .. Len(Pending(b)') : Pending(b)'[i] \in ItemsOf(timeline')
      BY <1>19, <2>1, <2>2
    <2>5. /\ Top(b)'.is = "flush" => pad'[b].flushing
          /\ Top(b)'.is # "flush" => Top(b)'.tl = timeline'
      BY <1>17, <1>18, <2>1, <2>2
    <2> QED BY <2>2, <2>3, <2>4, <2>5 DEF Queued
  <1>21. InQueue'
    <2> SUFFICES ASSUME NEW d \in Branches, Live(d)' PROVE Queued(d)'
      BY DEF InQueue
    <2>1. CASE d = b
      BY <1>20, <2>1
    <2>2. CASE d # b
      <3>1. Top(d)' = Top(d) /\ Pending(d)' = Pending(d) /\ pad'[d] = pad[d]
        BY <1>11, <2>2
      <3>2. Live(d)
        BY <3>1 DEF Live
      <3>3. Queued(d)
        BY <3>2 DEF Order, InQueue
      <3> QED  BY <1>1, <1>11, <3>1, <3>3, QueuedStays
    <2> QED BY <2>1, <2>2
  <1> QED  BY <1>5, <1>11, <1>15, <1>21 DEF FirstGone

\* A step of the source's thread that pushes the first of what is on its way to a branch.
FirstPushed(b, item, by, fails) ==
    /\ b \in Branches /\ b = Branch /\ item \in ItemsTo(timeline)
    /\ by \in {Source, None} /\ fails \in BOOLEAN
    /\ Push(Source, b, item, by, fails) /\ FirstGoes(b, item) /\ ~Waiting(b)
    /\ \A d \in Branches : Waiting(d)' <=> Waiting(d)

\* The Tee pushes the first of what it has in hand.
LEMMA PushesFirst ==
    ASSUME Inv, Order, TeePushes
    PROVE  /\ \E b, item, by, fails : FirstPushed(b, item, by, fails)
           /\ tee'.at \in Handing /\ tee'.at # "locking" /\ tee'.item = tee.item
           /\ tee'.at = "pushing" => Branch' = Branch
  <1>1. UNCHANGED <<todo, asked, source, segment, owed, hasSegment, active, timeline>>
    BY DEF TeePushes, Push, pipeline, topology
  <1>2. tee.at = "pushing" /\ tee.left # {} /\ tee.push # <<>>
    BY DEF Inv, TeeTypes, AtBranch, TeePushes
  <1>3. PICK b \in Branches : b = Branch /\ b \in tee.left
    BY <1>2, BranchIn DEF Inv
  <1>4. PICK item \in ItemsTo(timeline), last \in BOOLEAN, by \in {Source, None},
             fails \in BOOLEAN : PushesOne(b, item, last, by, fails)
    BY <1>3, PushesIs DEF Inv
  <1>5. item = tee.push[1] /\ Push(Source, b, item, by, fails)
    BY <1>4 DEF PushesOne
  <1>6. ~Renewing /\ asked # "Flush"
    BY <1>2, BusyIsNot DEF Order, Handing
  <1>7. Pending(b) = tee.push /\ owed[b] = <<>>
    BY <1>2, <1>3 DEF Pending, Order, Begun
  <1>8. /\ tee'.item = tee.item /\ tee'.at \in Handing /\ tee'.at # "locking"
        /\ last => tee'.at = "handing" /\ tee'.left = tee.left \ {b}
        /\ ~last => /\ tee'.left = tee.left
                    /\ IF Len(tee.push) = 1 THEN tee'.at = "reporting"
                       ELSE tee'.at = "pushing" /\ tee'.push = Tail(tee.push)
    <2>1. CASE last
      <3>1. tee' = [tee EXCEPT !.at = "handing", !.left = tee.left \ {b}, !.push = <<>>]
        BY <1>3, <1>4, <2>1 DEF PushesOne, ToNext
      <3> QED  BY <2>1, <3>1 DEF Inv, TeeTypes, Handing
    <2>2. CASE ~last
      <3>1. PICK push : push = Tail(tee.push)
        OBVIOUS
      <3>2. tee' = [tee EXCEPT !.push = push, !.at =
                         IF Len(tee.push) = 1 THEN "reporting" ELSE tee.at]
        BY <1>4, <2>2, <3>1 DEF PushesOne
      <3> QED  BY <1>2, <2>2, <3>1, <3>2 DEF Inv, TeeTypes, Handing
    <2> QED BY <2>1, <2>2
  <1>9. tee'.left = tee.left => Branch' = b
    BY <1>3 DEF Branch
  <1>10. last => Len(tee.push) = 1
    <2> SUFFICES ASSUME last PROVE Len(tee.push) = 1
      OBVIOUS
    <2>1. by = None /\ tee'.at = "handing"
      BY <1>4, <1>8 DEF PushesOne
    <2> QED BY <1>2, <2>1, <1>8 DEF TeePushes, Inv, TeeTypes, ToNext
  <1>11. Len(tee.push) = 1 => Tail(tee.push) = <<>>
    <2>1. PICK push, items : push = tee.push /\ items = ItemsTo(timeline)
      OBVIOUS
    <2>2. push \in Seq(items) /\ push # <<>>
      BY <1>2, <2>1 DEF Inv, TeeTypes
    <2>3. Len(push) = 1 => Len(Tail(push)) = 0 /\ Tail(push) \in Seq(items)
      BY <2>2, FirstIs
    <2> QED BY <2>1, <2>3, EmptySeq
  <1>12. Pending(b)' = Tail(Pending(b))
    <2>1. CASE last
      BY <1>1, <1>7, <1>8, <1>10, <1>11, <2>1 DEF Pending
    <2>2. CASE ~last /\ Len(tee.push) = 1
      BY <1>1, <1>7, <1>8, <1>11, <2>2 DEF Pending
    <2>3. CASE ~last /\ Len(tee.push) # 1
      BY <1>7, <1>8, <1>9, <2>3 DEF Pending
    <2> QED BY <2>1, <2>2, <2>3
  <1>13. \A d \in Branches \ {b} : Pending(d)' = Pending(d)
    BY <1>1, <1>3, <1>8, <1>9 DEF Pending
  <1>14. ~Waiting(b) /\ \A d \in Branches : Waiting(d)' <=> Waiting(d)
    BY <1>2, <1>3, <1>8, <1>9 DEF Waiting, Handing
  <1>15. Pending(b) # <<>> /\ item = Pending(b)[1]
    BY <1>2, <1>5, <1>7
  <1>16. UNCHANGED <<asked, hasSegment, source, active>> /\ tee'.item = tee.item
    BY <1>1, <1>8
  <1>17. FirstGoes(b, item)
    BY <1>6, <1>12, <1>13, <1>14, <1>15, <1>16 DEF FirstGoes
  <1>18. FirstPushed(b, item, by, fails)
    BY <1>3, <1>5, <1>14, <1>17 DEF FirstPushed
  <1>19. tee'.at = "pushing" => Branch' = Branch
    BY <1>3, <1>8, <1>9
  <1> QED  BY <1>8, <1>18, <1>19

\* So all is still in order.
LEMMA TeePushesOrder ==
    ASSUME Inv, Order, Inv', TeePushes
    PROVE  Order'
  <1>1. UNCHANGED <<todo, asked, source, segment, owed, hasSegment, active, timeline>>
    BY DEF TeePushes, Push, pipeline, topology
  <1>2. tee.at = "pushing"
    BY DEF TeePushes
  <1>3. PICK b, item, by, fails : FirstPushed(b, item, by, fails)
    BY PushesFirst
  <1>4. b \in Branches /\ b = Branch /\ by \in {Source, None}
    BY <1>3 DEF FirstPushed
  <1>5. FirstGone(b, by)
    BY <1>3, PushedInQueue DEF FirstPushed
  <1>6. ~Renewing /\ asked # "Flush"
    BY <1>2, BusyIsNot DEF Order, Handing
  <1>7. owed[b] = <<>>
    BY <1>2, <1>4 DEF Order, Begun
  <1>8. /\ tee'.item = tee.item /\ tee'.at \in Handing /\ tee'.at # "locking"
        /\ tee'.at = "pushing" => Branch' = b
    BY <1>4, PushesFirst
  <1>9. tee'.at \notin {"idle", "flowing"} /\ ~Renewing'
    BY <1>1, <1>6, <1>8 DEF Renewing, Handing
  <1>10. Begun'
    <2>1. tee'.at \in Handing => tee'.item \in ItemsOf(timeline) /\ Rank(tee'.item) <= Made
      BY <1>2, <1>8 DEF Order, Begun, Handing
    <2>2. Made' = Made
      BY <1>1 DEF Made
    <2>3. tee'.at \in {"locking", "pushing"} => Branch' = b
      BY <1>8
    <2>4. tee'.at \notin Owing
      BY <1>8 DEF Handing, Owing
    <2>5. \A d \in Branches : d \notin hasSegment => owed[d] = <<>> /\ Top(d)'.is = "flush"
      BY <1>5 DEF FirstGone, Order, Begun
    <2>6. \A d \in Branches : pad'[d].by = "unbuilt" => got'[d] = <<>> /\ d \notin hasSegment
      BY <1>4, <1>5, Numbers DEF FirstGone, Order, Begun
    <2>7. b \in hasSegment
      BY <1>5 DEF FirstGone
    <2> QED BY <1>1, <1>6, <1>7, <1>9, <2>1, <2>2, <2>3, <2>4, <2>5, <2>6, <2>7 DEF Order, Begun
  <1>11. Renewed'
    BY <1>1, <1>6, <1>9 DEF Renewed
  <1> QED  BY <1>5, <1>10, <1>11 DEF FirstGone, Order

\* Or of what was kept for one.
LEMMA HandsFirst ==
    ASSUME Inv, Order, TeeHandsOwed
    PROVE  /\ \E b, item, by, fails :
                  FirstPushed(b, item, by, fails) /\ owed' = [owed EXCEPT ![b] = Tail(owed[b])]
           /\ tee'.at \in {"owing", "owingHolds"} /\ tee'.msg = tee.msg
           /\ owed[Branch] # <<>>
  <1>1. UNCHANGED <<todo, asked, source, segment, hasSegment, active, timeline>>
    BY DEF TeeHandsOwed, Push, pipeline, topology
  <1>2. tee.at = "owingLocks" /\ tee.left # {}
    BY DEF Inv, TeeTypes, AtBranch, TeeHandsOwed
  <1>3. PICK b \in Branches : b = Branch /\ b \in tee.left
    BY <1>2, BranchIn DEF Inv
  <1>4. PICK fails \in BOOLEAN :
            LET item    == Head(owed[Branch])
                reports == Reports(Branch, item, fails)
            IN /\ Push(Source, Branch, item, IF reports THEN Source ELSE None, fails)
               /\ tee' = [tee EXCEPT !.at = IF reports THEN "owingHolds" ELSE "owing"]
    BY DEF TeeHandsOwed
  <1>5. owed[b] # <<>> /\ owed[b] \in Seq(ItemsTo(timeline))
    BY <1>2, <1>3 DEF Inv, TeeTypes
  <1>6. Head(owed[b]) = owed[b][1]
    <2>1. PICK items, kept : items = ItemsTo(timeline) /\ kept = owed[b]
      OBVIOUS
    <2>2. kept # <<>> /\ kept \in Seq(items)
      BY <1>5, <2>1
    <2> QED BY <2>1, <2>2, FirstIs
  <1>7. PICK item \in ItemsTo(timeline), by \in {Source, None} :
            /\ item = owed[b][1] /\ Push(Source, b, item, by, fails)
            /\ tee' = [tee EXCEPT !.at = IF by = Source THEN "owingHolds" ELSE "owing"]
    <2>1. PICK first \in ItemsTo(timeline) : first = owed[b][1] /\ Head(owed[Branch]) = first
      BY <1>3, <1>3, <1>6, <1>5
    <2>2. PICK by \in {Source, None} :
              by = IF Reports(Branch, first, fails) THEN Source ELSE None
      OBVIOUS
    <2>3. Push(Source, b, first, by, fails)
      BY <1>3, <1>4, <2>1, <2>2
    <2>4. tee' = [tee EXCEPT !.at = IF by = Source THEN "owingHolds" ELSE "owing"]
      BY <1>4, <2>1, <2>2 DEF Source, None
    <2> QED BY <2>1, <2>3, <2>4
  <1>8. owed' = [owed EXCEPT ![b] = Tail(owed[b])]
    BY <1>3 DEF TeeHandsOwed
  <1>9. /\ tee'.at \in {"owing", "owingHolds"} /\ tee'.item = tee.item
        /\ tee'.msg = tee.msg
    BY <1>7 DEF Inv, TeeTypes
  <1>10. ~Renewing /\ asked # "Flush"
    BY <1>2, BusyIsNot DEF Order, Owing
  <1>11. /\ Pending(b) = owed[b] /\ Pending(b)' = Tail(owed[b])
         /\ \A d \in Branches \ {b} : Pending(d)' = Pending(d)
    BY <1>2, <1>8, <1>9 DEF Pending, Inv, TeeTypes
  <1>12. \A d \in Branches : ~Waiting(d) /\ ~Waiting(d)'
    BY <1>2, <1>9 DEF Waiting, Handing
  <1>13. UNCHANGED <<asked, hasSegment, source, active>> /\ tee'.item = tee.item
    BY <1>1, <1>9
  <1>14. Pending(b) # <<>> /\ item = Pending(b)[1] /\ Pending(b)' = Tail(Pending(b))
    BY <1>5, <1>7, <1>11
  <1>15. FirstGoes(b, item)
    BY <1>10, <1>11, <1>12, <1>13, <1>14 DEF FirstGoes
  <1>16. FirstPushed(b, item, by, fails)
    BY <1>3, <1>7, <1>12, <1>15 DEF FirstPushed
  <1> QED  BY <1>3, <1>5, <1>8, <1>9, <1>16

\* So it stays in order.
LEMMA TeeHandsOwedOrder ==
    ASSUME Inv, Order, Inv', TeeHandsOwed
    PROVE  Order'
  <1>1. UNCHANGED <<todo, asked, source, segment, hasSegment, active, timeline>>
    BY DEF TeeHandsOwed, Push, pipeline, topology
  <1>2. tee.at = "owingLocks"
    BY DEF TeeHandsOwed
  <1>3. PICK b, item, by, fails :
            FirstPushed(b, item, by, fails) /\ owed' = [owed EXCEPT ![b] = Tail(owed[b])]
    BY HandsFirst
  <1>4. b \in Branches /\ by \in {Source, None}
    BY <1>3 DEF FirstPushed
  <1>5. FirstGone(b, by)
    BY <1>3, PushedInQueue DEF FirstPushed
  <1>6. ~Renewing /\ asked # "Flush"
    BY <1>2, BusyIsNot DEF Order, Owing
  <1>7. tee'.at \in {"owing", "owingHolds"} /\ tee'.msg = tee.msg
    BY HandsFirst
  <1>8. tee'.at \notin {"idle", "flowing"} \cup Handing /\ ~Renewing'
    BY <1>1, <1>6, <1>7 DEF Renewing, Handing
  <1>9. Begun'
    <2>1. \A d \in Branches : d \notin hasSegment => owed'[d] = <<>> /\ Top(d)'.is = "flush"
      BY <1>3, <1>4, <1>5 DEF FirstGone, Order, Begun, Inv, TeeTypes
    <2>2. \A d \in Branches : pad'[d].by = "unbuilt" => got'[d] = <<>> /\ d \notin hasSegment
      BY <1>4, <1>5, Numbers DEF FirstGone, Order, Begun
    <2>3. HandsOn(tee'.msg)
      BY <1>2, <1>7 DEF Order, Begun, Owing, HandsOn
    <2>4. tee'.at \notin Handing /\ tee'.at \notin {"locking", "pushing"}
      BY <1>7 DEF Handing
    <2> QED BY <1>1, <1>6, <1>8, <2>1, <2>2, <2>3, <2>4 DEF Order, Begun
  <1>10. Renewed'
    BY <1>1, <1>6, <1>8 DEF Renewed
  <1> QED  BY <1>5, <1>9, <1>10 DEF FirstGone, Order

\* The end finish_branch sends is none of the stream's.
LEMMA FinishPushesOrder ==
    ASSUME Inv, Order, Inv', NEW c \in Callers, FinishPushes(c)
    PROVE  Order'
  <1>1. UNCHANGED <<todo, asked, tee, source, segment, owed, hasSegment, timeline>>
    BY DEF FinishPushes, Push, pipeline
  <1>2. active' \subseteq active
    BY DEF FinishPushes, Deactivated
  <1>3. PICK b \in Branches : b = call[c].branch
    BY DEF Inv, CallTypes, FinishPushes
  <1>4. PICK by \in {c, None}, fails \in BOOLEAN, item \in {Eos(-1)} :
            item = Eos(-1) /\ Push(c, b, item, by, fails)
    BY <1>3 DEF FinishPushes
  <1>5. item \in Items /\ ~OfStream(item) /\ item.is = "eos"
    BY <1>4, ItemTypes DEF Inv, ItemsTo, OfStream, Eos
  <1>6. /\ \A d \in Branches \ {b} :
               Top(d)' = Top(d) /\ got'[d] = got[d] /\ pad'[d] = pad[d]
        /\ Top(b)' = Top(b) /\ (pad'[b].flushing <=> pad[b].flushing) /\ pad'[b].by = by
        /\ InOrder(got[b]) => InOrder(got'[b])
    <2> QED BY <1>4, <1>5, PushHands DEF Inv
  <1>7. \A d \in Branches : Top(d)' = Top(d) /\ Pending(d)' = Pending(d)
                            /\ (Waiting(d)' <=> Waiting(d))
    BY <1>1, <1>6 DEF Pending, Waiting, Branch
  <1>8. \A d \in Branches : pad'[d].by = "unbuilt" => got'[d] = got[d] /\ pad'[d] = pad[d]
    BY <1>6, Numbers
  <1>9. Made' = Made /\ Made \in Int /\ tee.item \in Items
    BY <1>1, MadeIs, QueueTypes DEF Made, Inv
  <1>10. Renewing' <=> Renewing
    BY <1>1 DEF Renewing
  <1>11. Begun'
    BY <1>1, <1>7, <1>8, <1>9, <1>10 DEF Order, Begun, Branch
  <1>12. Renewed'
    <2>1. \A d \in Branches : pad'[d].flushing <=> pad[d].flushing
      BY <1>6
    <2> QED BY <1>1, <1>2, <1>7, <1>10, <2>1 DEF Order, Renewed, Inv, ListTypes
  <1>13. InQueue'
    <2> SUFFICES ASSUME NEW d \in Branches, Live(d)' PROVE Queued(d)'
      BY DEF InQueue
    <2>1. Live(d)
      BY <1>2, <1>7 DEF Live
    <2>2. Queued(d)
      BY <2>1 DEF Order, InQueue
    <2>3. pad'[d].flushing <=> pad[d].flushing
      BY <1>6
    <2> QED BY <1>1, <1>7, <1>9, <2>2, <2>3, QueuedStays
  <1>14. \A d \in Branches : InOrder(got'[d])
    BY <1>6 DEF Order
  <1> QED  BY <1>11, <1>12, <1>13, <1>14 DEF Order

\* The Tee goes on with what it is at, or is done with it: nothing is handed to a branch, and
\* what was on its way to one still is, or the branch has gone.
TeeGoesOn ==
    /\ asked # "Flush" /\ ~Renewing /\ asked' # "Flush" /\ ~Renewing'
    /\ UNCHANGED <<got, hasSegment, segment, timeline, active>>
    /\ source'.at = source.at /\ source'.made = source.made
    /\ \A b \in Branches : /\ pad'[b].flushing <=> pad[b].flushing
                           /\ pad'[b].by = "unbuilt" => pad[b].by = "unbuilt"
                           /\ owed'[b] \in {owed[b], <<>>}
                           /\ Pending(b)' = Pending(b) \/ ~Live(b)'
                           /\ Waiting(b)' => Waiting(b)
    /\ tee'.at \in Handing => tee.at \in Handing /\ tee'.item = tee.item
    /\ tee'.at \in {"locking", "pushing"} => tee.at \in {"locking", "pushing"} /\ Branch' = Branch
    /\ tee'.at \in Owing => HandsOn(tee'.msg)
    /\ tee'.at # "flowing"

\* So all is still in order.
LEMMA TeeGoesOnOrder ==
    ASSUME Inv, Order, TeeGoesOn
    PROVE  Order'
  <1> USE DEF TeeGoesOn
  <1>1. Made' = Made /\ Made \in Int
    BY MadeIs DEF Made, Inv
  <1>2. \A b \in Branches : Top(b)' = Top(b)
    BY DEF Top
  <1>3. Begun'
    <2>1. tee'.at \in Handing => tee'.item \in ItemsOf(timeline') /\ Rank(tee'.item) <= Made'
      BY <1>1 DEF Order, Begun
    <2>2. tee'.at \in {"locking", "pushing"} =>
              owed'[Branch'] = <<>> /\ Branch' \in hasSegment'
      <3> SUFFICES ASSUME tee'.at \in {"locking", "pushing"}
                   PROVE  owed'[Branch'] = <<>> /\ Branch' \in hasSegment'
        OBVIOUS
      <3>1. tee.at \in {"locking", "pushing"} /\ Branch' = Branch
        OBVIOUS
      <3>2. tee.left # {}
        BY <3>1 DEF Inv, TeeTypes, AtBranch
      <3>3. Branch \in Branches
        BY <3>2, BranchIn DEF Inv
      <3>4. owed[Branch] = <<>> /\ Branch \in hasSegment
        BY <3>1 DEF Order, Begun
      <3> QED  BY <3>1, <3>3, <3>4
    <2>3. \A b \in Branches : b \notin hasSegment' => owed'[b] = <<>> /\ Top(b)'.is = "flush"
      BY <1>2 DEF Order, Begun
    <2>4. \A b \in Branches : pad'[b].by = "unbuilt" => got'[b] = <<>> /\ b \notin hasSegment'
      BY DEF Order, Begun
    <2>5. /\ source'.at = "begin" => hasSegment' = {}
          /\ source'.at # "begin" => segment' # <<>>
          /\ segment' # <<>> => segment'[1].tl = timeline'
      BY DEF Order, Begun
    <2> QED BY <2>1, <2>2, <2>3, <2>4, <2>5 DEF Begun
  <1>4. Renewed'
    BY DEF Renewed
  <1>5. InQueue'
    <2> SUFFICES ASSUME NEW b \in Branches, Live(b)' PROVE Queued(b)'
      BY DEF InQueue
    <2>1. Pending(b)' = Pending(b)
      OBVIOUS
    <2>2. Live(b)
      BY <2>1 DEF Live
    <2>3. Queued(b)
      BY <2>2 DEF Order, InQueue
    <2>4. Waiting(b)' => tee'.item \in Items /\ Waiting(b) /\ tee'.item = tee.item
      <3>1. tee.item \in Items
        BY QueueTypes DEF Inv
      <3>2. Waiting(b)' => tee'.at \in Handing
        BY DEF Waiting
      <3> QED  BY <3>1, <3>2
    <2> QED BY <1>1, <1>2, <2>1, <2>3, <2>4, QueuedStays
  <1>6. \A b \in Branches : InOrder(got'[b])
    BY DEF Order
  <1> QED  BY <1>3, <1>4, <1>5, <1>6 DEF Order

\* It is a flush alone that the seek comes next after.
LEMMA NoSeekNext ==
    ASSUME Inv, asked \in {"Pause", "Resume", "Seek", "Preroll"}
    PROVE  ~(todo # <<>> /\ todo[1] = "Seek")
  <1>1. CASE asked # "Preroll"
    BY <1>1 DEF Inv, Plan
  <1>2. CASE asked = "Preroll"
    <2>1. todo \in Awaiting
      BY <1>2 DEF Inv, Plan
    <2>2. todo[1] = "await"
      BY <2>1, AwaitingIs, Leaves DEF StageLeaves
    <2> QED BY <2>2
  <1> QED  BY <1>1, <1>2

\* Done with a message that is not a flush, or a seek it has yet to hand the segment of.
LEMMA AckedGoesOn ==
    ASSUME Inv, Order, tee.at \in {"handing", "owing", "flowing"}, tee.msg \notin {None, "Flush"},
           ~(tee.at = "flowing" /\ tee.msg = "Seek"), Acked,
           UNCHANGED <<got, hasSegment, segment, timeline, active, owed, pad, todo>>
    PROVE  TeeGoesOn
  <1>1. tee.msg = asked
    BY DEF Inv, Plan, Owing, Handing
  <1>2. tee' = Idle /\ asked' = None
    BY DEF Acked
  <1>3. tee'.at = "idle"
    BY <1>2 DEF Idle
  <1>4. source'.at = source.at /\ source'.made = source.made
    BY DEF Acked, Inv, SourceTypes
  <1>5. ~(todo # <<>> /\ todo[1] = "Seek")
    <2>1. asked \in {"Pause", "Resume", "Seek", "Preroll"}
      BY <1>1 DEF Inv, PipeTypes, Message
    <2> QED BY <2>1, NoSeekNext
  <1>6. asked # "Flush" /\ asked' # "Flush" /\ ~Renewing /\ ~Renewing'
    BY <1>1, <1>2, <1>5 DEF Renewing, None
  <1>7. tee'.at \notin Handing \cup Owing \cup {"flowing"}
    BY <1>3 DEF Handing, Owing
  <1>8. \A b \in Branches : Pending(b)' = Pending(b) /\ ~Waiting(b)'
    BY <1>3, <1>7 DEF Pending, Waiting
  <1> QED  BY <1>3, <1>4, <1>6, <1>7, <1>8 DEF TeeGoesOn, Handing

\* So it does once an item is handed out.
LEMMA TeeHandedOrder ==
    ASSUME Inv, Order, TeeHanded
    PROVE  Order'
  <1>1. UNCHANGED <<got, hasSegment, segment, timeline, active, owed, pad, todo>>
    BY DEF TeeHanded, playback, topology, terminal
  <1>2. tee.at = "handing"
    BY DEF TeeHanded
  <1>3. CASE tee.msg = None
    <2>1. tee' = Idle /\ UNCHANGED <<asked, source>>
      BY <1>3 DEF TeeHanded
    <2>2. tee'.at = "idle"
      BY <2>1 DEF Idle
    <2>3. ~Renewing /\ asked # "Flush"
      BY <1>2, BusyIsNot DEF Order, Handing
    <2>4. asked # "Seek"
      BY <1>2, <1>3 DEF Inv, Plan, None
    <2>5. ~Renewing'
      BY <1>1, <2>1, <2>3, <2>4 DEF Renewing
    <2>6. tee'.at \notin Handing \cup Owing \cup {"flowing"}
      BY <2>2 DEF Handing, Owing
    <2>7. \A b \in Branches : Pending(b)' = Pending(b) /\ ~Waiting(b)'
      BY <1>1, <1>2, <2>2, <2>6 DEF Pending, Waiting
    <2>8. TeeGoesOn
      BY <1>1, <2>1, <2>2, <2>3, <2>5, <2>6, <2>7 DEF TeeGoesOn
    <2> QED BY <2>8, TeeGoesOnOrder
  <1>4. CASE tee.msg # None
    <2>1. Acked
      BY <1>4 DEF TeeHanded
    <2>2. tee.msg = "Seek"
      BY <1>2, <1>4 DEF Inv, Plan, Handing
    <2>3. TeeGoesOn
      BY <1>1, <1>2, <2>1, <2>2, AckedGoesOn DEF None
    <2> QED BY <2>3, TeeGoesOnOrder
  <1> QED  BY <1>3, <1>4

\* And on to the next branch, where nothing is on its way to the one in hand but what is kept.
LEMMA ToNextGoesOn ==
    ASSUME Inv, Order, tee.at \in Handing, tee.left # {}, tee' = ToNext,
           Pending(Branch) = owed[Branch] \/ Branch \notin active,
           UNCHANGED <<got, hasSegment, segment, timeline, active, owed, todo, asked, source>>,
           \A b \in Branches : /\ pad'[b].flushing <=> pad[b].flushing
                               /\ pad'[b].by = "unbuilt" => pad[b].by = "unbuilt"
    PROVE  TeeGoesOn
  <1>1. PICK b \in Branches : b = Branch /\ b \in tee.left
    BY BranchIn DEF Inv
  <1>2. tee' = [tee EXCEPT !.at = "handing", !.left = tee.left \ {b}, !.push = <<>>]
    BY <1>1 DEF ToNext
  <1>3. tee'.at = "handing" /\ tee'.left = tee.left \ {b} /\ tee'.item = tee.item
    BY <1>2 DEF Inv, TeeTypes
  <1>4. ~Renewing /\ asked # "Flush"
    BY BusyIsNot DEF Order
  <1>5. ~Renewing' /\ tee'.at \notin Owing \cup {"flowing"}
    BY <1>3, <1>4 DEF Renewing, Owing
  <1>6. \A d \in Branches : Waiting(d)' => Waiting(d)
    BY <1>1, <1>3 DEF Waiting
  <1>7. \A d \in Branches : Pending(d)' = owed[d]
    BY <1>3 DEF Pending
  <1>8. \A d \in Branches \ {b} : Pending(d) = owed[d]
    BY <1>1 DEF Pending
  <1>9. Pending(b) = owed[b] \/ ~Live(b)'
    <2>1. CASE Pending(b) = owed[b]
      BY <2>1
    <2>2. CASE Pending(b) # owed[b]
      <3>1. b \notin active /\ tee.at \in {"locking", "pushing"}
        BY <1>1, <2>2 DEF Pending
      <3>2. owed[b] = <<>>
        BY <1>1, <3>1 DEF Order, Begun
      <3>3. Pending(b)' = <<>>
        BY <1>7, <3>2
      <3> QED  BY <3>1, <3>3 DEF Live
    <2> QED BY <2>1, <2>2
  <1>10. \A d \in Branches : Pending(d)' = Pending(d) \/ ~Live(d)'
    BY <1>7, <1>8, <1>9
  <1> QED  BY <1>3, <1>4, <1>5, <1>6, <1>10 DEF TeeGoesOn

\* Where the Tee locks a branch, or finds it gone.
LEMMA TeeLocksOrder ==
    ASSUME Inv, Order, TeeLocks
    PROVE  Order'
  <1>1. UNCHANGED <<got, hasSegment, segment, timeline, active, owed, todo, asked, source>>
    BY DEF TeeLocks, playback, pipeline, topology
  <1>2. tee.at = "locking" /\ tee.left # {}
    BY DEF Inv, TeeTypes, AtBranch, TeeLocks
  <1>3. PICK b \in Branches : b = Branch /\ b \in tee.left
    BY <1>2, BranchIn DEF Inv
  <1>4. CASE b \in active
    <2>1. pad' = [pad EXCEPT ![b].by = Source] /\ tee' = [tee EXCEPT !.at = "pushing"]
      BY <1>3, <1>4 DEF TeeLocks
    <2>2. \A d \in Branches : /\ pad'[d].flushing = pad[d].flushing
                              /\ pad'[d].by = "unbuilt" => pad[d].by = "unbuilt"
      BY <2>1, Numbers DEF Inv, TerminalTypes
    <2>3. /\ tee'.at = "pushing" /\ tee'.left = tee.left /\ tee'.item = tee.item
          /\ tee'.push = tee.push
      BY <2>1 DEF Inv, TeeTypes
    <2>4. Branch' = Branch
      BY <2>3 DEF Branch
    <2>5. ~Renewing /\ asked # "Flush"
      BY <1>2, BusyIsNot DEF Order, Handing
    <2>6. ~Renewing' /\ tee'.at \notin Owing \cup {"flowing"}
      BY <1>1, <2>3, <2>5 DEF Renewing, Owing
    <2>7. \A d \in Branches : Pending(d)' = Pending(d)
      BY <1>1, <1>2, <2>3, <2>4 DEF Pending
    <2>8. \A d \in Branches : Waiting(d)' => Waiting(d)
      BY <1>2, <2>3, <2>4 DEF Waiting, Handing
    <2>9. TeeGoesOn
      BY <1>1, <1>2, <2>2, <2>3, <2>4, <2>5, <2>6, <2>7, <2>8 DEF TeeGoesOn, Handing
    <2> QED BY <2>9, TeeGoesOnOrder
  <1>5. CASE b \notin active
    <2>1. tee' = ToNext /\ pad' = pad
      BY <1>3, <1>5 DEF TeeLocks
    <2>2. TeeGoesOn
      BY <1>1, <1>2, <1>3, <1>5, <2>1, ToNextGoesOn DEF Handing
    <2> QED BY <2>2, TeeGoesOnOrder
  <1> QED  BY <1>4, <1>5

\* The end reported, the pad is let go of.
LEMMA TeeReportedOrder ==
    ASSUME Inv, Order, TeeReported
    PROVE  Order'
  <1>1. UNCHANGED <<got, hasSegment, segment, timeline, active, owed, todo, asked, source>>
    BY DEF TeeReported, playback, pipeline, topology
  <1>2. tee.at \in {"reporting", "owingHolds"} /\ tee.left # {}
    BY DEF Inv, TeeTypes, AtBranch, TeeReported
  <1>3. PICK b \in Branches : b = Branch /\ b \in tee.left
    BY <1>2, BranchIn DEF Inv
  <1>4. pad' = [pad EXCEPT ![b].by = None]
    BY <1>3 DEF TeeReported
  <1>5. \A d \in Branches : /\ pad'[d].flushing = pad[d].flushing
                            /\ pad'[d].by = "unbuilt" => pad[d].by = "unbuilt"
    BY <1>4, Numbers DEF Inv, TerminalTypes
  <1>6. CASE tee.at = "reporting"
    <2>1. tee' = ToNext
      BY <1>6 DEF TeeReported
    <2>2. Pending(b) = owed[b]
      BY <1>6 DEF Pending
    <2>3. TeeGoesOn
      BY <1>1, <1>2, <1>3, <1>5, <1>6, <2>1, <2>2, ToNextGoesOn DEF Handing
    <2> QED BY <2>3, TeeGoesOnOrder
  <1>7. CASE tee.at = "owingHolds"
    <2>1. tee' = [tee EXCEPT !.at = "owing"]
      BY <1>7 DEF TeeReported
    <2>2. tee'.at = "owing" /\ tee'.msg = tee.msg
      BY <2>1 DEF Inv, TeeTypes
    <2>3. ~Renewing /\ asked # "Flush" /\ HandsOn(tee.msg)
      BY <1>7, BusyIsNot DEF Order, Begun, Owing
    <2>4. ~Renewing' /\ tee'.at \notin Handing \cup {"flowing"}
      BY <1>1, <2>2, <2>3 DEF Renewing, Handing
    <2>5. \A d \in Branches : Pending(d)' = Pending(d)
      BY <1>1, <1>7, <2>2 DEF Pending
    <2>6. \A d \in Branches : ~Waiting(d)'
      BY <2>4 DEF Waiting
    <2>7. HandsOn(tee'.msg)
      BY <2>2, <2>3 DEF HandsOn
    <2>8. TeeGoesOn
      BY <1>1, <1>5, <2>2, <2>3, <2>4, <2>5, <2>6, <2>7 DEF TeeGoesOn, Handing
    <2> QED BY <2>8, TeeGoesOnOrder
  <1> QED  BY <1>2, <1>6, <1>7

\* What is kept for a branch is about to be handed on, or is dropped with the branch.
LEMMA TeeOwesOrder ==
    ASSUME Inv, Order, TeeOwes
    PROVE  Order'
  <1>1. UNCHANGED <<got, hasSegment, segment, timeline, active, pad, todo>>
    BY DEF TeeOwes, playback, topology, terminal
  <1>2. tee.at = "owing" /\ HandsOn(tee.msg)
    BY DEF Order, Begun, Owing, TeeOwes
  <1>3. CASE tee.left = {}
    <2>1. Acked /\ owed' = owed
      BY <1>3 DEF TeeOwes
    <2>2. TeeGoesOn
      BY <1>1, <1>2, <2>1, AckedGoesOn DEF HandsOn, None
    <2> QED BY <2>2, TeeGoesOnOrder
  <1>4. CASE tee.left # {}
    <2>1. PICK b \in Branches : b = Branch /\ b \in tee.left
      BY <1>4, BranchIn DEF Inv
    <2>2. /\ UNCHANGED <<asked, source>>
          /\ \/ /\ owed[b] = <<>> \/ b \notin active
                /\ owed' = [owed EXCEPT ![b] = <<>>]
                /\ tee' = [tee EXCEPT !.left = tee.left \ {b}]
             \/ tee' = [tee EXCEPT !.at = "owingLocks"] /\ owed' = owed
      BY <1>4, <2>1 DEF TeeOwes
    <2>3. /\ tee'.at \in {"owing", "owingLocks"} /\ tee'.msg = tee.msg
          /\ \A d \in Branches \ {b} : owed'[d] = owed[d]
          /\ owed'[b] = owed[b] \/ (owed'[b] = <<>> /\ b \notin active)
      BY <1>2, <2>1, <2>2 DEF Inv, TeeTypes
    <2>4. ~Renewing /\ asked # "Flush"
      BY <1>2, BusyIsNot DEF Order, Owing
    <2>5. ~Renewing' /\ tee'.at \notin Handing \cup {"flowing"}
      BY <1>1, <2>2, <2>3, <2>4 DEF Renewing, Handing
    <2>6. \A d \in Branches : Pending(d) = owed[d] /\ Pending(d)' = owed'[d]
      BY <1>2, <2>3 DEF Pending
    <2>7. \A d \in Branches : Pending(d)' = Pending(d) \/ ~Live(d)'
      BY <1>1, <2>3, <2>6 DEF Live
    <2>8. \A d \in Branches : ~Waiting(d)'
      BY <2>5 DEF Waiting
    <2>9. HandsOn(tee'.msg)
      BY <1>2, <2>3 DEF HandsOn
    <2>10. tee'.at \notin {"locking", "pushing"}
      BY <2>3
    <2>11. \A d \in Branches : owed'[d] \in {owed[d], <<>>}
      BY <2>3
    <2>12. TeeGoesOn
      BY <1>1, <2>2, <2>4, <2>5, <2>7, <2>8, <2>9, <2>10, <2>11 DEF TeeGoesOn
    <2> QED BY <2>12, TeeGoesOnOrder
  <1> QED  BY <1>3, <1>4

\* A flush that has come to a branch is what it was handed last.
LEMMA TeeFlushesOrder ==
    ASSUME Inv, Order, TeeFlushes
    PROVE  Order'
  <1>1. UNCHANGED <<hasSegment, segment, timeline, active, owed, todo, asked, source>>
    BY DEF TeeFlushes, playback, pipeline, topology
  <1>2. tee.at = "flowing" /\ tee.left # {}
    BY DEF TeeFlushes
  <1>3. PICK b \in Branches : b = Branch /\ b \in tee.left
    BY <1>2, BranchIn DEF Inv
  <1>4. tee' = [tee EXCEPT !.left = tee.left \ {b}]
    BY <1>3 DEF TeeFlushes
  <1>5. tee'.at = "flowing" /\ tee'.msg = tee.msg /\ tee'.left = tee.left \ {b}
    BY <1>2, <1>4 DEF Inv, TeeTypes
  <1>6. tee.msg = "Flush" /\ asked = "Flush"
    BY <1>2 DEF Order, Begun, Inv, Plan
  <1>7. Renewing'
    BY <1>1, <1>6 DEF Renewing
  <1>8. PICK flush \in Items : flush = FlushOf(timeline) /\ flush.is = "flush"
    <2>1. FlushOf(timeline) \in Items
      BY ItemTypes DEF Inv, ItemsTo
    <2> QED BY <2>1 DEF FlushOf
  <1>9. IF b \in active
        THEN pad' = [pad EXCEPT ![b].flushing = TRUE] /\ got' = [got EXCEPT ![b] = <<flush>>]
        ELSE UNCHANGED <<pad, got>>
    BY <1>3, <1>8 DEF TeeFlushes
  <1>10. \A d \in Branches : /\ pad'[d].by = pad[d].by
                             /\ pad'[d].flushing <=> pad[d].flushing \/ (d = b /\ b \in active)
    BY <1>9 DEF Inv, TerminalTypes
  <1>11. \A d \in Branches : d # b \/ b \notin active => got'[d] = got[d]
    BY <1>9 DEF Inv, TerminalTypes
  <1>12. b \in active => got'[b] = <<flush>>
    BY <1>9 DEF Inv, TerminalTypes
  <1>13. b \in active => Top(b)' = flush
    BY <1>8, <1>12, LastOfFew DEF Top
  <1>14. \A d \in Branches : d # b \/ b \notin active => Top(d)' = Top(d)
    BY <1>11 DEF Top
  <1>15. \A d \in Branches : Pending(d) = owed[d] /\ Pending(d)' = owed[d] /\ ~Waiting(d)'
    BY <1>1, <1>2, <1>5 DEF Pending, Waiting, Handing
  <1>16. Made' = Made /\ Made \in 0 .. Length + 1 /\ Length \in Nat
    BY <1>1, MadeIs, Numbers DEF Made, Inv
  <1>17. Begun'
    <2>1. \A d \in Branches : d \notin hasSegment => owed[d] = <<>> /\ Top(d)'.is = "flush"
      BY <1>8, <1>13, <1>14 DEF Order, Begun
    <2>2. \A d \in Branches : pad'[d].by = "unbuilt" => got'[d] = <<>> /\ d \notin hasSegment
      <3>1. b \in active => pad[b].by # "unbuilt"
        BY DEF Inv, Locks, ListTypes
      <3> QED  BY <1>10, <1>11, <3>1 DEF Order, Begun
    <2>3. tee'.at \notin Handing \cup Owing \cup {"locking", "pushing"}
      BY <1>5 DEF Handing, Owing
    <2> QED BY <1>1, <1>5, <1>6, <1>7, <2>1, <2>2, <2>3 DEF Order, Begun
  <1>18. Renewed'
    <2>1. \A d \in active \ tee'.left : Top(d)'.is = "flush" /\ pad'[d].flushing
      <3> SUFFICES ASSUME NEW d \in active \ tee'.left
                   PROVE  Top(d)'.is = "flush" /\ pad'[d].flushing
        OBVIOUS
      <3>1. d \in Branches
        BY DEF Inv, ListTypes
      <3>2. CASE d = b
        BY <1>8, <1>10, <1>13, <3>2
      <3>3. CASE d # b
        <4>1. Top(d).is = "flush" /\ pad[d].flushing
          BY <1>2, <1>5, <1>6, <3>3 DEF Order, Renewed
        <4> QED BY <1>10, <1>14, <3>1, <3>3, <4>1
      <3> QED  BY <3>2, <3>3
    <2> QED BY <1>1, <1>6, <2>1 DEF Renewed
  <1>19. InQueue'
    <2> SUFFICES ASSUME NEW d \in Branches, Live(d)' PROVE Queued(d)'
      BY DEF InQueue
    <2>1. Live(d)
      BY <1>1, <1>15 DEF Live
    <2>2. Queued(d)
      BY <2>1 DEF Order, InQueue
    <2>3. CASE d # b \/ b \notin active
      <3>1. /\ Top(d)' = Top(d) /\ Pending(d)' = Pending(d) /\ ~Waiting(d)'
            /\ pad'[d].flushing <=> pad[d].flushing
        BY <1>10, <1>14, <1>15, <2>3
      <3> QED  BY <1>1, <1>16, <2>2, <3>1, QueuedStays
    <2>4. CASE d = b /\ b \in active
      <3>1. PICK top, s, high : top = Top(b) /\ s = Pending(b) /\ high = Made
        OBVIOUS
      <3>2. /\ Rank(top) \in -1 .. Length + 1 /\ Rank(flush) = -1 /\ high \in 0 .. Length + 1
            /\ \A i \in 1 .. Len(s) : Rank(s[i]) \in Int
        BY <1>8, <1>16, <3>1, QueueTypes, RankIs DEF Inv
      <3>3. Rising(s, Rank(top), high)
        BY <2>2, <2>4, <3>1 DEF Queued
      <3>4. Rank(flush) <= high /\ Rising(s, Rank(flush), high)
        BY <1>16, <3>2, <3>3 DEF Rising
      <3>5. Top(b)' = flush /\ Pending(b)' = s /\ Made' = high /\ pad'[b].flushing
        BY <1>10, <1>13, <1>15, <1>16, <2>4, <3>1
      <3>6. asked' = "Flush" /\ ~Waiting(b)'
        BY <1>1, <1>6, <1>15
      <3>7. Rank(Top(b)') <= Made' /\ Rising(Pending(b)', Rank(Top(b)'), Made')
        BY <3>4, <3>5
      <3> QED  BY <1>8, <2>4, <3>5, <3>6, <3>7 DEF Queued
    <2> QED BY <2>3, <2>4
  <1>20. \A d \in Branches : InOrder(got'[d])
    <2>1. InOrder(<<flush>>)
      <3>1. PICK s : s = <<flush>>
        OBVIOUS
      <3>2. Len(s) = 1 /\ s[1] = flush
        BY <3>1
      <3>3. InOrder(s)
        BY <1>8, <3>2 DEF InOrder, Follows
      <3> QED  BY <3>1, <3>3
    <2> QED BY <1>11, <1>12, <2>1 DEF Order
  <1> QED  BY <1>17, <1>18, <1>19, <1>20 DEF Order

\* The flush done, the segment comes next, to branches nothing is kept for.
LEMMA FlushedOrder ==
    ASSUME Inv, Order, TeeFlowed, tee.msg = "Flush"
    PROVE  Order'
  <1>1. UNCHANGED <<hasSegment, segment, timeline, active, todo, pad, got>>
    BY DEF TeeFlowed, playback, topology, terminal
  <1>2. tee.at = "flowing" /\ tee.left = {} /\ asked = "Flush"
    BY DEF TeeFlowed, Inv, Plan
  <1>3. Acked /\ owed' = [b \in Branches |-> <<>>]
    BY DEF TeeFlowed, HandsOn
  <1>4. tee' = Idle /\ asked' = None
    BY <1>3 DEF Acked
  <1>5. tee'.at = "idle"
    BY <1>4 DEF Idle
  <1>6. source'.at = source.at /\ source'.made = source.made
    BY <1>3 DEF Acked, Inv, SourceTypes
  <1>7. Renewing'
    <2>1. todo # <<>> /\ todo[1] = "Seek"
      BY <1>2 DEF Inv, Plan
    <2> QED BY <1>1, <2>1 DEF Renewing
  <1>8. tee'.at \notin Handing \cup Owing \cup {"flowing", "locking", "pushing"}
    BY <1>5 DEF Handing, Owing
  <1>9. \A b \in Branches : /\ Top(b)' = Top(b) /\ owed'[b] = <<>> /\ Pending(b)' = <<>>
                            /\ ~Waiting(b)'
    BY <1>1, <1>3, <1>8 DEF Top, Pending, Waiting
  <1>10. \A b \in active : Top(b).is = "flush" /\ pad[b].flushing
    BY <1>2 DEF Order, Renewed
  <1>11. Begun'
    <2>1. \A b \in Branches : b \notin hasSegment => owed'[b] = <<>> /\ Top(b)'.is = "flush"
      BY <1>9 DEF Order, Begun
    <2> QED BY <1>1, <1>6, <1>7, <1>8, <2>1 DEF Order, Begun
  <1>12. Renewed'
    <2>1. \A b \in Branches : owed'[b] = <<>> /\ (b \in active' => Top(b)'.is = "flush")
      BY <1>1, <1>9, <1>10
    <2> QED BY <1>4, <2>1 DEF Renewed, None
  <1>13. InQueue'
    <2> SUFFICES ASSUME NEW b \in Branches, Live(b)' PROVE Queued(b)'
      BY DEF InQueue
    <2>1. b \in active
      BY <1>1, <1>9 DEF Live
    <2>2. PICK top, s : top = Top(b)' /\ s = Pending(b)'
      OBVIOUS
    <2>3. top \in Items /\ top.is = "flush" /\ Rank(top) = -1
      BY <1>9, <1>10, <2>1, <2>2, QueueTypes, RankIs DEF Inv
    <2>4. Len(s) = 0
      BY <1>9, <2>2
    <2>5. Made' = Made /\ Made >= 0 /\ Made \in Int
      BY <1>6, MadeIs DEF Made, Inv
    <2>6. Rank(top) <= Made' /\ Rising(s, Rank(top), Made')
      BY <2>3, <2>4, <2>5 DEF Rising
    <2>7. pad'[b].flushing /\ ~Waiting(b)'
      BY <1>1, <1>9, <1>10, <2>1
    <2>8. \A i \in 1 .. Len(s) : s[i] \in ItemsOf(timeline')
      BY <2>4
    <2> QED BY <2>2, <2>3, <2>6, <2>7, <2>8 DEF Queued
  <1>14. \A b \in Branches : InOrder(got'[b])
    BY <1>1 DEF Order
  <1> QED  BY <1>11, <1>12, <1>13, <1>14 DEF Order

\* And so it is handed out.
LEMMA SoughtOrder ==
    ASSUME Inv, Order, TeeFlowed, tee.msg = "Seek"
    PROVE  Order'
  <1>1. UNCHANGED <<hasSegment, timeline, active, todo, pad, got, asked, source, owed>>
    BY DEF TeeFlowed, HandsOn, playback, topology, terminal
  <1>2. tee.at = "flowing" /\ asked = "Seek"
    BY DEF TeeFlowed, Inv, Plan
  <1>3. PICK item \in Items : item = Segment(timeline, TRUE) /\ item.is = "segment"
            /\ item.tl = timeline /\ item \in ItemsTo(timeline)
    <2>1. Segment(timeline, TRUE) \in ItemsTo(timeline)
      BY ItemTypes DEF Inv
    <2> QED BY <2>1 DEF Segment, ItemsTo
  <1>4. HandOut(item)
    BY <1>3 DEF TeeFlowed, HandsOn
  <1>5. tee'.at = "handing" /\ tee'.item = item /\ tee'.msg = "Seek"
    BY <1>4 DEF HandOut, Inv, TeeTypes
  <1>6. segment' = <<item>>
    BY <1>3, <1>4 DEF HandOut
  <1>7. item \in ItemsOf(timeline) /\ Rank(item) = 0
    BY <1>3, RankIs DEF ItemsOf
  <1>8. tee'.at \notin Owing \cup {"flowing", "idle", "locking", "pushing"}
    BY <1>5 DEF Owing
  <1>9. ~Renewing'
    <2>1. todo[1] = "Preroll"
      BY <1>2 DEF Inv, Plan
    <2> QED BY <1>1, <1>2, <1>8, <2>1 DEF Renewing
  <1>10. \A b \in Branches : owed[b] = <<>> /\ (b \in active => Top(b).is = "flush")
    <2>1. Renewing /\ asked # "Flush"
      BY <1>2 DEF Renewing
    <2> QED BY <2>1 DEF Order, Renewed
  <1>11. \A b \in Branches : Top(b)' = Top(b) /\ Pending(b) = <<>> /\ Pending(b)' = <<>>
    BY <1>1, <1>2, <1>8, <1>10 DEF Top, Pending
  <1>12. Made' = Made /\ Made >= 0 /\ Made \in Int
    BY <1>1, MadeIs DEF Made, Inv
  <1>13. Begun'
    <2>1. segment' # <<>> /\ segment'[1].tl = timeline
      BY <1>3, <1>6
    <2>2. \A b \in Branches : b \notin hasSegment => owed'[b] = <<>> /\ Top(b)'.is = "flush"
      BY <1>1, <1>11 DEF Order, Begun
    <2>3. tee'.item \in ItemsOf(timeline) /\ Rank(tee'.item) <= Made'
      BY <1>5, <1>7, <1>12
    <2> QED BY <1>1, <1>8, <2>1, <2>2, <2>3 DEF Order, Begun
  <1>14. Renewed'
    BY <1>1, <1>2, <1>9 DEF Renewed
  <1>15. InQueue'
    <2> SUFFICES ASSUME NEW b \in Branches, Live(b)' PROVE Queued(b)'
      BY DEF InQueue
    <2>1. b \in active
      BY <1>1, <1>11 DEF Live
    <2>2. PICK top, s : top = Top(b)' /\ s = Pending(b)'
      OBVIOUS
    <2>3. top \in Items /\ top.is = "flush" /\ Rank(top) = -1
      BY <1>10, <1>11, <2>1, <2>2, QueueTypes, RankIs DEF Inv
    <2>4. Len(s) = 0
      BY <1>11, <2>2
    <2>5. Rank(top) <= Made' /\ Rising(s, Rank(top), Made')
      BY <1>12, <2>3, <2>4 DEF Rising
    <2>6. b \in hasSegment' => pad'[b].flushing
      <3>1. Queued(b)
        BY <2>1 DEF Order, InQueue, Live
      <3> QED  BY <1>1, <1>10, <1>11, <2>1, <3>1 DEF Queued
    <2>7. /\ Rank(top) < Rank(tee'.item)
          /\ \A i \in 1 .. Len(s) : s[i] \in ItemsOf(timeline') /\ Rank(s[i]) < Rank(tee'.item)
      BY <1>5, <1>7, <2>3, <2>4
    <2> QED BY <2>2, <2>3, <2>5, <2>6, <2>7 DEF Queued
  <1>16. \A b \in Branches : InOrder(got'[b])
    BY <1>1 DEF Order
  <1> QED  BY <1>13, <1>14, <1>15, <1>16 DEF Order

\* What is left of a message once the branches have been told.
LEMMA TeeFlowedOrder ==
    ASSUME Inv, Order, TeeFlowed
    PROVE  Order'
  <1>1. UNCHANGED <<hasSegment, timeline, active, todo, pad, got>>
    BY DEF TeeFlowed, playback, topology, terminal
  <1>2. tee.at = "flowing" /\ tee.left = {} /\ tee.msg = asked /\ tee.msg # None
    BY DEF TeeFlowed, Inv, Plan
  <1>3. CASE tee.msg \in {"Flush", "Seek"}
    BY <1>3, FlushedOrder, SoughtOrder
  <1>4. CASE HandsOn(tee.msg)
    <2>1. /\ tee' = [tee EXCEPT !.at = "owing", !.left = {b \in attached : owed[b] # <<>>}]
          /\ owed' = [b \in Branches |-> IF b \in attached THEN owed[b] ELSE <<>>]
          /\ UNCHANGED <<asked, source, segment>>
      BY <1>4 DEF TeeFlowed, HandsOn
    <2>2. tee'.at = "owing" /\ tee'.msg = tee.msg
      BY <2>1 DEF Inv, TeeTypes
    <2>3. asked \in {"Pause", "Resume", "Seek", "Preroll"} /\ asked \notin {"Flush", "Seek"}
      BY <1>2, <1>4 DEF HandsOn
    <2>4. ~Renewing /\ ~Renewing'
      BY <1>1, <2>1, <2>3, NoSeekNext DEF Renewing
    <2>5. tee'.at \notin Handing \cup {"flowing", "locking", "pushing"}
      BY <2>2 DEF Handing
    <2>6. \A b \in Branches : Pending(b) = owed[b] /\ Pending(b)' = owed'[b] /\ ~Waiting(b)'
      BY <1>2, <2>5 DEF Pending, Waiting
    <2>7. \A b \in Branches : owed'[b] = owed[b] \/ (owed'[b] = <<>> /\ b \notin active)
      BY <2>1 DEF Inv, ListTypes
    <2>8. \A b \in Branches : Pending(b)' = Pending(b) \/ ~Live(b)'
      BY <1>1, <2>6, <2>7 DEF Live
    <2>9. HandsOn(tee'.msg)
      BY <1>4, <2>2 DEF HandsOn
    <2>10. \A b \in Branches : owed'[b] \in {owed[b], <<>>}
      BY <2>7
    <2>11. TeeGoesOn
      BY <1>1, <2>1, <2>3, <2>4, <2>5, <2>6, <2>8, <2>9, <2>10 DEF TeeGoesOn
    <2> QED BY <2>11, TeeGoesOnOrder
  <1>5. CASE tee.msg \notin {"Flush", "Seek"} /\ ~HandsOn(tee.msg)
    <2>1. Acked /\ UNCHANGED <<owed, segment>>
      BY <1>5 DEF TeeFlowed
    <2>2. TeeGoesOn
      BY <1>1, <1>2, <1>5, <2>1, AckedGoesOn
    <2> QED BY <2>2, TeeGoesOnOrder
  <1> QED  BY <1>3, <1>4, <1>5

\* A flush sent, what is on its way to the branches is of the timeline before.
LEMMA AsksOrder ==
    ASSUME Inv, Order, Asks
    PROVE  Order'
  <1>1. UNCHANGED <<got, owed, tee, hasSegment, segment, source, active, pad>>
    BY DEF Asks, topology, terminal
  <1>2. todo \in ToPlaying \cup ToPaused /\ asked = None /\ Head(todo) = todo[1] /\ todo # <<>>
    BY Leaves DEF Inv, PipeTypes, Asks, StageLeaves
  <1>3. StageLeaves(todo)
    BY <1>2, Leaves
  <1>4. Renewing <=> todo[1] = "Seek"
    BY <1>2 DEF Renewing, None
  <1>5. CASE todo[1] = "Flush"
    <2>1. timeline' = timeline + 1 /\ asked' = "Flush"
      BY <1>2, <1>5 DEF Asks
    <2>2. Renewing'
      BY <2>1 DEF Renewing
    <2>3. tee.at = "idle"
      BY <1>2, <1>5 DEF Inv, Plan, Still
    <2>4. tee.at \notin Handing \cup Owing \cup {"flowing", "locking", "pushing"}
      BY <2>3 DEF Handing, Owing
    <2>5. \A b \in Branches : Top(b)' = Top(b) /\ Pending(b)' = Pending(b) /\ ~Waiting(b)'
      BY <1>1, <2>4 DEF Top, Pending, Waiting
    <2>6. Made' = Made /\ Made \in Int
      BY <1>1, MadeIs DEF Made, Inv
    <2>7. Begun'
      BY <1>1, <2>2, <2>4, <2>5 DEF Order, Begun
    <2>8. Renewed'
      BY <1>1, <2>1, <2>4 DEF Renewed
    <2>9. InQueue'
      <3> SUFFICES ASSUME NEW b \in Branches, Live(b)' PROVE Queued(b)'
        BY DEF InQueue
      <3>1. Queued(b)
        BY <1>1, <2>5 DEF Order, InQueue, Live
      <3> QED  BY <1>1, <2>1, <2>5, <2>6, <3>1, QueuedStays
    <2>10. \A b \in Branches : InOrder(got'[b])
      BY <1>1 DEF Order
    <2> QED BY <2>7, <2>8, <2>9, <2>10 DEF Order
  <1>6. CASE todo[1] = "Seek"
    <2>1. timeline' = timeline /\ asked' = "Seek"
      BY <1>2, <1>6 DEF Asks
    <2>2. tee.at = "idle"
      BY <1>2, <1>6 DEF Inv, Plan, Still
    <2>3. Renewing /\ Renewing'
      BY <1>1, <1>4, <1>6, <2>1, <2>2 DEF Renewing
    <2> QED BY <1>1, <1>2, <2>1, <2>3, OrderStays DEF None
  <1>7. CASE todo[1] \notin {"Flush", "Seek"}
    <2>1. timeline' = timeline /\ asked' \notin {"Flush", "Seek"}
      BY <1>2, <1>7 DEF Asks, None
    <2>2. todo' = <<>> \/ todo' = Tail(todo)
      BY DEF Asks
    <2>3. ~(Tail(todo) # <<>> /\ Tail(todo)[1] = "Seek")
      <3>1. todo[1] \in {"Resume", "Pause", "await", "Preroll", "Step"}
        BY <1>3, <1>7 DEF StageLeaves, Stage, Message
      <3>2. CASE todo[1] \in {"Preroll", "Step"}
        <4>1. Tail(todo) \in Awaiting
          BY <1>3, <3>2 DEF StageLeaves
        <4>2. Tail(todo)[1] = "await"
          BY <4>1, AwaitingIs, Leaves DEF StageLeaves
        <4> QED BY <4>2
      <3>3. CASE todo[1] \in {"Resume", "Pause", "await"}
        BY <1>3, <3>3 DEF StageLeaves
      <3> QED  BY <3>1, <3>2, <3>3
    <2>4. ~Renewing /\ ~Renewing'
      BY <1>4, <1>7, <2>1, <2>2, <2>3 DEF Renewing
    <2> QED BY <1>1, <1>2, <2>1, <2>4, OrderStays DEF None
  <1> QED  BY <1>5, <1>6, <1>7

\* The first segment comes before anything else.
LEMMA SourceBeginsOrder ==
    ASSUME Inv, Order, SourceBegins
    PROVE  Order'
  <1>1. UNCHANGED <<hasSegment, timeline, active, todo, pad, got, asked, owed>>
    BY DEF SourceBegins, playback, pipeline, topology, terminal
  <1>2. source.at = "begin" /\ tee.at = "idle" /\ hasSegment = {}
    BY DEF SourceBegins, Inv, Plan, Order, Begun
  <1>3. PICK item \in Items : item = Segment(timeline, FALSE) /\ item.is = "segment"
            /\ item.tl = timeline /\ item \in ItemsTo(timeline)
    <2>1. Segment(timeline, FALSE) \in ItemsTo(timeline)
      BY ItemTypes DEF Inv
    <2> QED BY <2>1 DEF Segment, ItemsTo
  <1>4. HandOut(item) /\ source' = [source EXCEPT !.at = "running"]
    BY <1>3 DEF SourceBegins
  <1>5. tee'.at = "handing" /\ tee'.item = item
    BY <1>4 DEF HandOut, Inv, TeeTypes
  <1>6. segment' = <<item>>
    BY <1>3, <1>4 DEF HandOut
  <1>7. item \in ItemsOf(timeline) /\ Rank(item) = 0
    BY <1>3, RankIs DEF ItemsOf
  <1>8. tee'.at \notin Owing \cup {"flowing", "idle", "locking", "pushing"}
    BY <1>5 DEF Owing
  <1>9. source'.at = "running" /\ Made' >= 0 /\ Made' \in Int
    <2>1. source'.at = "running" /\ source'.made = source.made /\ source.made \in 0 .. Length
      BY <1>4 DEF Inv, SourceTypes
    <2> QED BY <2>1, Numbers DEF Made
  <1>10. ~Renewing'
    <2>1. asked \in {None, "Pause", "Resume"}
      BY <1>2 DEF Inv, Plan, PipeTypes, Message
    <2>2. asked = None => ~(todo # <<>> /\ todo[1] = "Seek")
      BY <1>2 DEF Inv, Plan, Still
    <2> QED BY <1>1, <2>1, <2>2, NoSeekNext DEF Renewing, None
  <1>11. \A b \in Branches : owed[b] = <<>> /\ Top(b).is = "flush"
    BY <1>2 DEF Order, Begun
  <1>12. \A b \in Branches : Top(b)' = Top(b) /\ Pending(b)' = <<>>
    BY <1>1, <1>8, <1>11 DEF Top, Pending
  <1>13. Begun'
    <2>1. segment' # <<>> /\ segment'[1].tl = timeline
      BY <1>3, <1>6
    <2>2. \A b \in Branches : b \notin hasSegment => owed'[b] = <<>> /\ Top(b)'.is = "flush"
      BY <1>1, <1>11, <1>12
    <2>3. tee'.item \in ItemsOf(timeline) /\ Rank(tee'.item) <= Made'
      BY <1>5, <1>7, <1>9
    <2> QED BY <1>1, <1>8, <1>9, <2>1, <2>2, <2>3 DEF Order, Begun
  <1>14. Renewed'
    BY <1>8, <1>10 DEF Renewed
  <1>15. InQueue'
    <2> SUFFICES ASSUME NEW b \in Branches PROVE Queued(b)'
      BY DEF InQueue
    <2>1. PICK top, s : top = Top(b)' /\ s = Pending(b)'
      OBVIOUS
    <2>2. top \in Items /\ top.is = "flush" /\ Rank(top) = -1
      BY <1>11, <1>12, <2>1, QueueTypes, RankIs DEF Inv
    <2>3. Len(s) = 0
      BY <1>12, <2>1
    <2>4. Rank(top) <= Made' /\ Rising(s, Rank(top), Made')
      BY <1>9, <2>2, <2>3 DEF Rising
    <2>5. b \notin hasSegment'
      BY <1>1, <1>2
    <2>6. /\ Rank(top) < Rank(tee'.item)
          /\ \A i \in 1 .. Len(s) : s[i] \in ItemsOf(timeline') /\ Rank(s[i]) < Rank(tee'.item)
      BY <1>5, <1>7, <2>2, <2>3
    <2> QED BY <2>1, <2>2, <2>4, <2>5, <2>6 DEF Queued
  <1>16. \A b \in Branches : InOrder(got'[b])
    BY <1>1 DEF Order
  <1> QED  BY <1>13, <1>14, <1>15, <1>16 DEF Order

\* What the source makes is of a higher rank than all it has.
LEMMA NextItemOrder ==
    ASSUME Inv, Order, MayProduce, NEW item \in ItemsOf(timeline), item.is # "segment",
           HandOut(item), source'.at \in {"running", "ended"}, Made' \in Int,
           Made < Rank(item), Rank(item) <= Made',
           UNCHANGED <<hasSegment, timeline, active, todo, pad, got, asked, owed>>
    PROVE  Order'
  <1>1. asked = None /\ tee.at = "idle" /\ source.at = "running" /\ ~source.held
    BY DEF MayProduce
  <1>2. tee'.at = "handing" /\ tee'.item = item /\ segment' = segment
    BY DEF HandOut, Inv, TeeTypes
  <1>3. tee'.at \notin Owing \cup {"flowing", "idle", "locking", "pushing"}
    BY <1>2 DEF Owing
  <1>4. ~Renewing /\ ~Renewing'
    <2>1. ~(todo # <<>> /\ todo[1] = "Seek")
      BY <1>1 DEF Inv, Plan, Still
    <2> QED BY <1>1, <2>1 DEF Renewing, None
  <1>5. \A b \in Branches : Top(b)' = Top(b) /\ Pending(b)' = Pending(b)
    BY <1>1, <1>3 DEF Top, Pending
  <1>6. item \in Items /\ Rank(item) \in Int /\ Made \in Int
    BY RankIs, MadeIs DEF ItemsOf, ItemsTo, Inv
  <1>7. Begun'
    <2>1. \A b \in Branches : b \notin hasSegment => owed'[b] = <<>> /\ Top(b)'.is = "flush"
      BY <1>5 DEF Order, Begun
    <2>2. segment # <<>> /\ segment[1].tl = timeline
      BY <1>1, <1>4 DEF Order, Begun
    <2> QED BY <1>2, <1>3, <2>1, <2>2 DEF Order, Begun
  <1>8. Renewed'
    BY <1>3, <1>4 DEF Renewed
  <1>9. InQueue'
    <2> SUFFICES ASSUME NEW b \in Branches, Live(b)' PROVE Queued(b)'
      BY DEF InQueue
    <2>1. Queued(b)
      BY <1>5 DEF Order, InQueue, Live
    <2>2. Made <= Made'
      BY <1>6
    <2>3. Waiting(b)' => tee'.item \in Items /\ Made < Rank(tee'.item)
      BY <1>2, <1>6
    <2> QED BY <1>5, <2>1, <2>2, <2>3, QueuedStays
  <1>10. \A b \in Branches : InOrder(got'[b])
    BY DEF Order
  <1> QED  BY <1>7, <1>8, <1>9, <1>10 DEF Order

\* So is a buffer.
LEMMA SourceProducesOrder ==
    ASSUME Inv, Order, SourceProduces
    PROVE  Order'
  <1>1. /\ UNCHANGED <<hasSegment, timeline, active, todo, pad, got, asked, owed>>
        /\ MayProduce /\ source.made < Length /\ source.at = "running"
    BY DEF SourceProduces, MayProduce, playback, pipeline, topology, terminal
  <1>2. Buffer(timeline, source.made + 1) \in ItemsTo(timeline)
    BY <1>1, ItemTypes DEF Inv
  <1>3. PICK item \in ItemsTo(timeline) :
            /\ item = Buffer(timeline, source.made + 1)
            /\ item.is = "buffer" /\ item.tl = timeline /\ item.n = source.made + 1
    BY <1>2 DEF Buffer
  <1>4. item \in ItemsOf(timeline) /\ Rank(item) = source.made + 1
    BY <1>1, <1>3, Numbers DEF ItemsOf, Rank, Inv, SourceTypes
  <1>5. Made = source.made /\ Made' = source.made + 1 /\ source'.at = "running"
        /\ source.made \in Int
    BY <1>1 DEF SourceProduces, Made, Inv, SourceTypes
  <1>6. HandOut(item)
    BY <1>3 DEF SourceProduces
  <1>7. Made' \in Int /\ Made < Rank(item) /\ Rank(item) <= Made'
    BY <1>4, <1>5
  <1> QED  BY <1>1, <1>3, <1>4, <1>5, <1>6, <1>7, NextItemOrder

\* And the end.
LEMMA SourceEndsOrder ==
    ASSUME Inv, Order, SourceEnds
    PROVE  Order'
  <1>1. /\ UNCHANGED <<hasSegment, timeline, active, todo, pad, got, asked, owed>>
        /\ MayProduce /\ source.made = Length /\ source.at = "running"
    BY DEF SourceEnds, MayProduce, playback, pipeline, topology, terminal
  <1>2. Eos(timeline) \in ItemsTo(timeline)
    BY ItemTypes DEF Inv
  <1>3. PICK item \in ItemsTo(timeline) :
            item = Eos(timeline) /\ item.is = "eos" /\ item.tl = timeline
    BY <1>2 DEF Eos
  <1>4. item \in ItemsOf(timeline) /\ Rank(item) = Length + 1 /\ Length \in Nat
    BY <1>3, Numbers DEF ItemsOf, Rank
  <1>5. Made = Length /\ Made' = Length + 1 /\ source'.at = "ended"
    BY <1>1 DEF SourceEnds, Made, Inv, SourceTypes
  <1>6. HandOut(item)
    BY <1>3 DEF SourceEnds
  <1>7. Made' \in Int /\ Made < Rank(item) /\ Rank(item) <= Made'
    BY <1>4, <1>5
  <1> QED  BY <1>1, <1>3, <1>4, <1>5, <1>6, <1>7, NextItemOrder

\* A seek taken, the source has made less; but then nothing is on its way.
LEMMA SourceTakesOrder ==
    ASSUME Inv, Order, SourceTakes
    PROVE  Order'
  <1>1. UNCHANGED <<hasSegment, timeline, active, todo, pad, got, asked, owed, segment>>
    BY DEF SourceTakes, playback, pipeline, topology, terminal
  <1>2. asked # None /\ tee.at = "idle" /\ source.at # "begin"
    BY DEF SourceTakes
  <1>3. /\ tee'.at = "flowing" /\ tee'.msg = asked
        /\ tee'.left = IF asked = "Flush" THEN attached ELSE {}
    BY DEF SourceTakes, Inv, TeeTypes
  <1>4. tee'.at \notin Owing \cup Handing \cup {"idle", "locking", "pushing"}
    BY <1>3 DEF Owing, Handing
  <1>5. Renewing' <=> Renewing
    BY <1>1, <1>2, <1>3 DEF Renewing
  <1>6. \A b \in Branches : /\ Top(b)' = Top(b) /\ Pending(b)' = Pending(b) /\ ~Waiting(b)'
                            /\ Pending(b) = owed[b]
    BY <1>1, <1>2, <1>4 DEF Top, Pending, Waiting
  <1>7. source'.at # "begin" /\ Made' >= 0 /\ Made' \in Int
        /\ (asked # "Seek" => Made' = Made)
    <2>1. CASE asked = "Seek"
      <3>1. PICK n \in Targets : source' = [source EXCEPT !.at = "running", !.made = n,
                                                         !.from = n]
        BY <2>1 DEF SourceTakes
      <3>2. source'.at = "running" /\ source'.made = n /\ n \in 0 .. Length
        BY <3>1, Numbers DEF Inv, SourceTypes
      <3> QED  BY <2>1, <3>2, Numbers DEF Made
    <2>2. CASE asked # "Seek"
      <3>1. source' = source
        BY <2>2 DEF SourceTakes
      <3>2. Made' = Made
        BY <3>1 DEF Made
      <3> QED  BY <1>2, <3>1, <3>2, MadeIs DEF Inv
    <2> QED BY <2>1, <2>2
  <1>8. Begun'
    <2>1. \A b \in Branches : b \notin hasSegment => owed'[b] = <<>> /\ Top(b)'.is = "flush"
      BY <1>1, <1>6 DEF Order, Begun
    <2>2. tee'.left # {} => tee'.msg = "Flush"
      BY <1>3
    <2> QED BY <1>1, <1>2, <1>4, <1>5, <1>7, <2>1, <2>2 DEF Order, Begun
  <1>9. Renewed'
    <2>1. asked = "Flush" => active \ tee'.left = {}
      BY <1>3 DEF Inv, ListTypes
    <2> QED BY <1>1, <1>5, <1>6, <2>1 DEF Order, Renewed
  <1>10. InQueue'
    <2> SUFFICES ASSUME NEW b \in Branches, Live(b)' PROVE Queued(b)'
      BY DEF InQueue
    <2>1. Live(b) /\ Queued(b)
      BY <1>1, <1>6 DEF Order, InQueue, Live
    <2>2. CASE asked # "Seek"
      <3>1. Made' = Made /\ Made \in Int /\ Made <= Made'
        BY <1>7, <2>2
      <3> QED  BY <1>1, <1>6, <2>1, <3>1, QueuedStays
    <2>3. CASE asked = "Seek"
      <3>1. Renewing /\ asked # "Flush"
        BY <1>2, <2>3 DEF Renewing
      <3>2. owed[b] = <<>> /\ Top(b).is = "flush"
        BY <1>6, <2>1, <3>1 DEF Order, Renewed, Live
      <3>3. PICK top, s : top = Top(b)' /\ s = Pending(b)'
        OBVIOUS
      <3>4. top \in Items /\ top.is = "flush" /\ Rank(top) = -1
        BY <1>6, <3>2, <3>3, QueueTypes, RankIs DEF Inv
      <3>5. s = <<>> /\ Len(s) = 0
        BY <1>6, <3>2, <3>3
      <3>6. Rank(top) <= Made' /\ Rising(s, Rank(top), Made')
        BY <1>7, <3>4, <3>5 DEF Rising
      <3>7. b \in hasSegment' => pad'[b].flushing
        BY <1>1, <1>6, <2>1, <3>2 DEF Queued
      <3>8. \A i \in 1 .. Len(s) : s[i] \in ItemsOf(timeline')
        BY <3>5
      <3> QED  BY <1>6, <3>3, <3>4, <3>6, <3>7, <3>8 DEF Queued
    <2> QED BY <2>2, <2>3
  <1>11. \A b \in Branches : InOrder(got'[b])
    BY <1>1 DEF Order
  <1> QED  BY <1>8, <1>9, <1>10, <1>11 DEF Order

\* One behind the other: what is kept, the segment if it is owed, and the item in hand.
LEMMA FrontIs ==
    ASSUME Inv, Order, tee.at = "handing", NEW b \in Branches, b \in active, b \in tee.left
    PROVE  \E front \in Seq(Items) :
               /\ front = IF CatchUp(b) = <<>> THEN owed[b] ELSE Owe(owed[b], CatchUp(b)[1])
               /\ front = owed[b] \o CatchUp(b)
               /\ \A i \in 1 .. Len(front) :
                      front[i] \in ItemsOf(timeline) /\ Rank(front[i]) < Rank(tee.item)
               /\ Rising(front, Rank(Top(b)), Made)
               /\ Top(b).is = "flush" =>
                      \/ pad[b].flushing
                      \/ front # <<>> /\ front[1].is = "segment"
                      \/ front = <<>> /\ tee.item.is = "segment"
  <1>1. ~Renewing /\ asked # "Flush"
    BY BusyIsNot DEF Order, Handing
  <1>2. Pending(b) = owed[b] /\ owed[b] \in Seq(Items) /\ Waiting(b)
    <2>1. Pending(b) = owed[b]
      BY DEF Pending
    <2> QED BY <2>1, QueueTypes DEF Inv, Waiting, Handing
  <1>3. Queued(b)
    BY DEF Order, InQueue, Live
  <1>4. tee.item \in Items /\ tee.item \in ItemsOf(timeline) /\ Rank(tee.item) <= Made
    BY QueueTypes DEF Inv, Order, Begun, Handing
  <1>5. PICK s, top, high, item :
            s = owed[b] /\ top = Top(b) /\ high = Made /\ item = tee.item
    OBVIOUS
  <1>6. /\ s \in Seq(Items) /\ top \in Items /\ high \in Int /\ item \in Items
        /\ \A i \in 1 .. Len(s) : s[i] \in ItemsOf(timeline) /\ Rank(s[i]) < Rank(item)
        /\ Rising(s, Rank(top), high) /\ Rank(item) <= high
        /\ item \in ItemsOf(timeline) /\ Rank(top) < Rank(item)
        /\ b \in hasSegment /\ top.is = "flush" =>
               pad[b].flushing \/ (s # <<>> /\ s[1].is = "segment")
        /\ b \notin hasSegment => s = <<>> /\ top.is = "flush"
    BY <1>1, <1>2, <1>3, <1>4, <1>5, QueueTypes, MadeIs DEF Queued, Order, Begun, Inv
  <1>7. CASE CatchUp(b) = <<>>
    <2>1. s \o <<>> = s
      BY <1>6, ConcatEmptySeq
    <2>2. b \in hasSegment \/ item.is = "segment"
      <3>1. segment # <<>>
        BY DEF Order, Begun, Inv, Plan
      <3> QED  BY <1>5, <1>7, <3>1 DEF CatchUp
    <2> QED BY <1>5, <1>6, <1>7, <2>1, <2>2
  <1>8. CASE CatchUp(b) # <<>>
    <2>1. /\ b \notin hasSegment /\ item.is # "segment" /\ CatchUp(b) = segment
          /\ segment # <<>>
      BY <1>5, <1>8 DEF CatchUp
    <2>2. PICK seg \in ItemsTo(timeline) :
              segment = <<seg>> /\ seg.is = "segment" /\ seg.tl = timeline
      <3>1. PICK items, one : items = ItemsTo(timeline) /\ one = segment
        OBVIOUS
      <3>2. one \in Seq(items) /\ Len(one) <= 1 /\ one # <<>>
        BY <2>1, <3>1 DEF Inv, TeeTypes
      <3>3. one[1] \in items /\ one = <<one[1]>>
        <4>1. Len(one) = 1
          BY <3>2, OneLong
        <4>2. one[1] \in items
          BY <3>2, <4>1
        <4>3. PICK single : single = <<one[1]>>
          OBVIOUS
        <4>4. single \in Seq(items) /\ Len(single) = 1 /\ single[1] = one[1]
          BY <4>2, <4>3
        <4>5. single = one
          BY <3>2, <4>1, <4>4, SeqEqual
        <4> QED BY <4>2, <4>3, <4>5
      <3>4. one[1].is = "segment" /\ one[1].tl = timeline
        BY <1>1, <2>1, <3>1 DEF Order, Begun, Inv, TeeTypes
      <3> QED  BY <3>1, <3>3, <3>4
    <2>3. seg \in Items /\ seg \in ItemsOf(timeline) /\ Rank(seg) = 0
      BY <2>2, RankIs DEF ItemsOf, ItemsTo
    <2>4. Rank(top) = -1 /\ Rank(item) > 0 /\ Rank(item) \in Int
      BY <1>6, <2>1, RankIs DEF ItemsOf
    <2>5. PICK front : front = <<seg>>
      OBVIOUS
    <2>6. front \in Seq(Items) /\ Len(front) = 1 /\ front[1] = seg
      BY <2>3, <2>5
    <2>7. front # <<>>
      BY <2>5
    <2>8. s = <<>> /\ <<>> \o front = front /\ Append(<<>>, seg) = front
      BY <1>6, <2>1, <2>5, <2>6, ConcatEmptySeq
    <2>9. front = owed[b] \o CatchUp(b)
      BY <1>5, <2>1, <2>2, <2>5, <2>8
    <2>10. front = Owe(owed[b], CatchUp(b)[1])
      <3>1. CatchUp(b)[1] = seg
        BY <2>1, <2>2
      <3>2. Owe(<<>>, seg) = Append(<<>>, seg)
        BY <2>2 DEF Owe
      <3> QED  BY <1>5, <2>8, <3>1, <3>2
    <2>11. Rising(front, Rank(top), high)
      BY <1>6, <2>3, <2>4, <2>6 DEF Rising
    <2>12. \A i \in 1 .. Len(front) : front[i] \in ItemsOf(timeline) /\ Rank(front[i]) < Rank(item)
      BY <2>3, <2>4, <2>6
    <2> QED BY <1>5, <1>8, <2>2, <2>6, <2>7, <2>9, <2>10, <2>11, <2>12
  <1> QED  BY <1>7, <1>8

\* So kept or about to be pushed, it is in order, and all of the stream but where it is dropped.
LEMMA WithItIs ==
    ASSUME Inv, Order, tee.at = "handing", NEW b \in Branches, b \in active, b \in tee.left,
           NEW all \in {WithItem(b), owed[b] \o CatchUp(b) \o <<tee.item>>}
    PROVE  /\ \A i \in 1 .. Len(all) : all[i] \in ItemsOf(timeline)
           /\ Rising(all, Rank(Top(b)), Made)
           /\ Top(b).is = "flush" => pad[b].flushing \/ (all # <<>> /\ all[1].is = "segment")
  <1>1. PICK front \in Seq(Items) :
               /\ front = IF CatchUp(b) = <<>> THEN owed[b] ELSE Owe(owed[b], CatchUp(b)[1])
               /\ front = owed[b] \o CatchUp(b)
               /\ \A i \in 1 .. Len(front) :
                      front[i] \in ItemsOf(timeline) /\ Rank(front[i]) < Rank(tee.item)
               /\ Rising(front, Rank(Top(b)), Made)
               /\ Top(b).is = "flush" =>
                      \/ pad[b].flushing
                      \/ front # <<>> /\ front[1].is = "segment"
                      \/ front = <<>> /\ tee.item.is = "segment"
    BY FrontIs
  <1>2. PICK item, top, high : item = tee.item /\ top = Top(b) /\ high = Made
    OBVIOUS
  <1>3. item \in Items /\ item \in ItemsOf(timeline) /\ Rank(item) <= high
    BY <1>2, QueueTypes DEF Inv, Order, Begun, Handing
  <1>4. all = Owe(front, item) \/ all = front \o <<item>>
    BY <1>1, <1>2 DEF WithItem
  <1>5. front \o <<item>> = Append(front, item)
    BY <1>3
  <1>6. CASE all = Append(front, item)
    <2>1. /\ Len(front) \in Nat /\ Len(all) = Len(front) + 1 /\ all[Len(front) + 1] = item
          /\ \A i \in 1 .. Len(front) : all[i] = front[i]
      BY <1>3, <1>6, AppendProperties
    <2>2. \A i \in 1 .. Len(all) : all[i] \in ItemsOf(timeline)
      <3> TAKE i \in 1 .. Len(all)
      <3>1. i \in 1 .. Len(front) \/ i = Len(front) + 1
        BY <2>1
      <3> QED  BY <1>1, <1>3, <2>1, <3>1
    <2>3. Rising(all, Rank(top), high)
      <3>1. Rank(top) \in Int /\ high \in Int
        BY <1>2, QueueTypes, MadeIs DEF Inv
      <3>2. Rank(top) < Rank(item)
        <4>1. Waiting(b)
          BY DEF Waiting, Handing
        <4>2. Queued(b)
          BY DEF Order, InQueue, Live
        <4> QED BY <1>2, <4>1, <4>2 DEF Queued
      <3> QED  BY <1>1, <1>2, <1>3, <1>6, <3>1, <3>2, OneHigher
    <2>4. all # <<>>
      BY <2>1
    <2>5. front # <<>> => all[1] = front[1]
      <3>1. front # <<>> => Len(front) >= 1
        BY <2>1
      <3> QED  BY <2>1, <3>1
    <2>6. front = <<>> => all[1] = item
      BY <2>1
    <2> QED BY <1>1, <1>2, <2>2, <2>3, <2>4, <2>5, <2>6
  <1>7. CASE all = front /\ item.is = "buffer"
    BY <1>1, <1>2, <1>7
  <1>8. all = Append(front, item) \/ (all = front /\ item.is = "buffer")
    BY <1>4, <1>5 DEF Owe
  <1> QED  BY <1>6, <1>7, <1>8

\* Looked at, a branch is passed by, or what it is handed is put behind what it waits for.
LEMMA TeeLooksOrder ==
    ASSUME Inv, Order, TeeLooks
    PROVE  Order'
  <1>1. UNCHANGED <<got, segment, timeline, active, todo, asked, source, pad>>
    BY DEF TeeLooks, playback, pipeline, topology, terminal
  <1>2. tee.at = "handing" /\ tee.left # {}
    BY DEF TeeLooks
  <1>3. PICK b \in Branches : b = Branch /\ b \in tee.left
    BY <1>2, BranchIn DEF Inv
  <1>4. CASE b \notin active \/ RoutedAway(b, tee.item)
    <2>1. tee' = ToNext /\ UNCHANGED <<owed, hasSegment>>
      BY <1>3, <1>4 DEF TeeLooks
    <2>2. Pending(Branch) = owed[Branch]
      BY <1>2 DEF Pending
    <2>3. TeeGoesOn
      BY <1>1, <1>2, <2>1, <2>2, ToNextGoesOn DEF Handing
    <2> QED BY <2>3, TeeGoesOnOrder
  <1>5. CASE b \in active /\ ~RoutedAway(b, tee.item)
    <2>1. PICK all : /\ all \in {WithItem(b), owed[b] \o CatchUp(b) \o <<tee.item>>}
                     /\ \/ tee' = ToNext /\ owed' = [owed EXCEPT ![b] = all]
                        \/ /\ tee' = [tee EXCEPT !.at = "locking", !.push = all]
                           /\ owed' = [owed EXCEPT ![b] = <<>>]
      BY <1>3, <1>5 DEF TeeLooks
    <2>2. hasSegment' = hasSegment \cup {b}
      BY <1>3, <1>5 DEF TeeLooks
    <2>3. /\ \A i \in 1 .. Len(all) : all[i] \in ItemsOf(timeline)
          /\ Rising(all, Rank(Top(b)), Made)
          /\ Top(b).is = "flush" => pad[b].flushing \/ (all # <<>> /\ all[1].is = "segment")
      BY <1>2, <1>3, <1>5, <2>1, WithItIs
    <2>4. /\ tee'.item = tee.item
          /\ \/ /\ tee'.at = "handing" /\ tee'.left = tee.left \ {b} /\ owed'[b] = all
             \/ /\ tee'.at = "locking" /\ tee'.left = tee.left /\ tee'.push = all
                /\ owed'[b] = <<>>
          /\ \A d \in Branches \ {b} : owed'[d] = owed[d]
      <3>1. CASE tee' = ToNext /\ owed' = [owed EXCEPT ![b] = all]
        <4>1. tee' = [tee EXCEPT !.at = "handing", !.left = tee.left \ {b}, !.push = <<>>]
          BY <1>3, <3>1 DEF ToNext
        <4> QED BY <3>1, <4>1 DEF Inv, TeeTypes
      <3>2. CASE /\ tee' = [tee EXCEPT !.at = "locking", !.push = all]
                 /\ owed' = [owed EXCEPT ![b] = <<>>]
        BY <3>2 DEF Inv, TeeTypes
      <3> QED  BY <2>1, <3>1, <3>2
    <2>5. tee'.at = "locking" => Branch' = b
      <3>1. tee'.at = "locking" => tee'.left = tee.left
        BY <2>4
      <3> QED  BY <1>3, <3>1 DEF Branch
    <2>6. ~Renewing /\ asked # "Flush" /\ tee'.at \in {"handing", "locking"}
      BY <1>2, <2>4, BusyIsNot DEF Order, Handing
    <2>7. ~Renewing' /\ tee'.at \in Handing /\ tee'.at \notin Owing \cup {"idle", "flowing"}
      BY <1>1, <2>6 DEF Renewing, Handing, Owing
    <2>8. \A d \in Branches : Top(d)' = Top(d)
      BY <1>1 DEF Top
    <2>9. Pending(b)' = all
      BY <2>4, <2>5 DEF Pending
    <2>10. \A d \in Branches \ {b} : Pending(d)' = Pending(d)
      BY <1>2, <2>4, <2>5 DEF Pending
    <2>11. \A d \in Branches : Waiting(d)' => Waiting(d) /\ d # b
      BY <1>2, <2>4, <2>5 DEF Waiting, Handing
    <2>12. Made' = Made /\ Made \in Int /\ tee.item \in Items
      BY <1>1, MadeIs, QueueTypes DEF Made, Inv
    <2>13. Begun'
      <3>1. tee'.item \in ItemsOf(timeline') /\ Rank(tee'.item) <= Made'
        BY <1>1, <1>2, <2>4, <2>12 DEF Order, Begun, Handing
      <3>2. tee'.at \in {"locking", "pushing"} =>
                owed'[Branch'] = <<>> /\ Branch' \in hasSegment'
        BY <2>2, <2>4, <2>5, <2>6
      <3>3. \A d \in Branches : d \notin hasSegment' => owed'[d] = <<>> /\ Top(d)'.is = "flush"
        BY <2>2, <2>4, <2>8 DEF Order, Begun
      <3>4. \A d \in Branches : pad'[d].by = "unbuilt" => got'[d] = <<>> /\ d \notin hasSegment'
        <4>1. pad[b].by # "unbuilt"
          BY <1>5 DEF Inv, Locks, ListTypes
        <4> QED BY <1>1, <2>2, <4>1 DEF Order, Begun
      <3>5. source.at # "begin"
        BY <1>2 DEF Inv, Plan
      <3>6. segment # <<>> /\ segment[1].tl = timeline
        BY <2>6, <3>5 DEF Order, Begun
      <3> QED  BY <1>1, <2>7, <3>1, <3>2, <3>3, <3>4, <3>5, <3>6 DEF Begun
    <2>14. Renewed'
      BY <2>7 DEF Renewed
    <2>15. InQueue'
      <3> SUFFICES ASSUME NEW d \in Branches, Live(d)' PROVE Queued(d)'
        BY DEF InQueue
      <3>1. CASE d # b
        <4>1. /\ Top(d)' = Top(d) /\ Pending(d)' = Pending(d)
              /\ d \in hasSegment' => d \in hasSegment
          BY <2>2, <2>8, <2>10, <3>1
        <4>2. Queued(d)
          BY <1>1, <4>1 DEF Order, InQueue, Live
        <4> QED BY <1>1, <2>4, <2>11, <2>12, <4>1, <4>2, QueuedStays
      <3>2. CASE d = b
        <4>1. Queued(b)
          BY <1>5 DEF Order, InQueue, Live
        <4>2. /\ Rank(Top(b)) <= Made
              /\ Top(b).is # "flush" => Top(b).tl = timeline
          BY <2>6, <4>1 DEF Queued
        <4>3. Top(b)' = Top(b) /\ Pending(b)' = all /\ Made' = Made /\ ~Waiting(b)'
              /\ timeline' = timeline /\ pad' = pad
          BY <1>1, <2>8, <2>9, <2>11, <2>12
        <4>4. Rank(Top(b)') <= Made' /\ Rising(Pending(b)', Rank(Top(b)'), Made')
          BY <2>3, <4>2, <4>3
        <4>5. \A i \in 1 .. Len(Pending(b)') : Pending(b)'[i] \in ItemsOf(timeline')
          BY <2>3, <4>3
        <4>6. /\ Top(b)'.is = "flush" =>
                     pad'[b].flushing \/ (Pending(b)' # <<>> /\ Pending(b)'[1].is = "segment")
              /\ Top(b)'.is # "flush" => Top(b)'.tl = timeline'
          BY <2>3, <4>2, <4>3
        <4>7. Queued(b)'
          BY <4>3, <4>4, <4>5, <4>6 DEF Queued
        <4> QED BY <3>2, <4>7
      <3> QED  BY <3>1, <3>2
    <2>16. \A d \in Branches : InOrder(got'[d])
      BY <1>1 DEF Order
    <2> QED BY <2>13, <2>14, <2>15, <2>16 DEF Order
  <1> QED  BY <1>4, <1>5

\* At first nothing has been handed out.
LEMMA InitOrder == Init => Order
  <1> SUFFICES ASSUME Init PROVE Order
    OBVIOUS
  <1> USE DEF Init
  <1>1. /\ tee.at = "idle" /\ asked = None /\ todo = <<>> /\ source.at = "begin"
        /\ segment = <<>> /\ source.made = 0 /\ hasSegment = {}
    BY DEF Idle
  <1>2. tee.at \notin Handing \cup Owing \cup {"flowing", "locking", "pushing"}
    BY <1>1 DEF Handing, Owing
  <1>3. \A b \in Branches : got[b] = <<>> /\ owed[b] = <<>>
    OBVIOUS
  <1>4. \A b \in Branches : Top(b) = FlushOf(0) /\ Pending(b) = <<>> /\ ~Waiting(b)
    BY <1>2, <1>3, LastOfFew DEF Top, Pending, Waiting
  <1>5. Begun
    BY <1>1, <1>2, <1>3, <1>4 DEF Begun, FlushOf
  <1>6. Renewed
    BY <1>1, <1>2, <1>3, <1>4 DEF Renewed, FlushOf
  <1>7. InQueue
    <2> SUFFICES ASSUME NEW b \in Branches PROVE Queued(b)
      BY DEF InQueue
    <2>1. PICK top, s, high : top = Top(b) /\ s = Pending(b) /\ high = Made
      OBVIOUS
    <2>2. top.is = "flush" /\ Rank(top) = -1 /\ Len(s) = 0 /\ high = 0
      BY <1>1, <1>4, <2>1 DEF FlushOf, Rank, Made
    <2>3. Rank(top) <= high /\ Rising(s, Rank(top), high)
      BY <2>2 DEF Rising
    <2> QED BY <1>1, <1>4, <2>1, <2>2, <2>3 DEF Queued
  <1>8. \A b \in Branches : InOrder(got[b])
    <2>1. Len(<<>>) = 0
      OBVIOUS
    <2> QED BY <1>3, <2>1 DEF InOrder
  <1> QED  BY <1>5, <1>6, <1>7, <1>8 DEF Order

\* It stays so whatever step is taken.
LEMMA NextOrder ==
    ASSUME Inv, Order, Inv', [Next]_vars
    PROVE  Order'
  <1>1. CASE UNCHANGED vars
    <2>1. UNCHANGED <<got, owed, tee, hasSegment, segment, source, timeline, asked, todo,
                      active, pad>>
      BY <1>1 DEF vars, playback, pipeline, topology, terminal
    <2> QED BY <2>1, OrderStays DEF Renewing
  <1>2. CASE \E o \in Ops : Calls(o)
    BY <1>2, CallsOrder
  <1>3. CASE Asks \/ Awaited \/ \E b \in Branches : Departs(b)
    BY <1>3, AsksOrder, AwaitedOrder, DepartsOrder
  <1>4. CASE SourceBegins \/ SourceProduces \/ SourceEnds \/ SourceTakes
    BY <1>4, SourceBeginsOrder, SourceProducesOrder, SourceEndsOrder, SourceTakesOrder
  <1>5. CASE TeeSteps
    <2>1. CASE TeeLooks \/ TeeLocks \/ TeePushes \/ TeeHanded
      BY <2>1, TeeLooksOrder, TeeLocksOrder, TeePushesOrder, TeeHandedOrder
    <2>2. CASE TeeFlushes \/ TeeFlowed
      BY <2>2, TeeFlushesOrder, TeeFlowedOrder
    <2>3. CASE TeeOwes \/ TeeHandsOwed \/ TeeReported
      BY <2>3, TeeOwesOrder, TeeHandsOwedOrder, TeeReportedOrder
    <2> QED BY <1>5, <2>1, <2>2, <2>3 DEF TeeSteps
  <1>6. CASE \E t \in Threads : Checks(t)
    BY <1>6, ChecksOrder
  <1>7. CASE \E c \in Callers : HandleSteps(c)
    <2>1. PICK c \in Callers : HandleSteps(c)
      BY <1>7
    <2>2. CASE Attach(c) \/ \E b \in Branches : Detach(c, b) \/ FinishFinds(c, b)
      BY <2>2, AttachOrder, DetachOrder
    <2>3. CASE FinishPushes(c)
      BY <2>3, FinishPushesOrder
    <2>4. CASE FinishReported(c) \/ FinishRemoves(c)
      BY <2>4, FinishRemovesOrder
    <2> QED BY <2>1, <2>2, <2>3, <2>4 DEF HandleSteps
  <1> QED  BY <1>1, <1>2, <1>3, <1>4, <1>5, <1>6, <1>7 DEF Next

\* A terminal hears a stream, whatever a preroll keeps for it, a flush drops and finish_branch
\* slips in between: the segment of the timeline first, then its buffers in order and none
\* twice, and its end once and last (hand_out, hand_on_owed, SrcPad::push_item).
THEOREM StreamInOrderHolds == Spec => []StreamInOrder
  <1>1. Inv /\ Order /\ [Next]_vars => Inv' /\ Order'
    <2> SUFFICES ASSUME Inv, Order, [Next]_vars PROVE Inv' /\ Order'
      OBVIOUS
    <2>1. Inv'
      BY NextKeeps
    <2> QED BY <2>1, NextOrder
  <1>2. Inv /\ Order => StreamInOrder
    <2> SUFFICES ASSUME Inv, Order, NEW b \in Branches, NEW i \in DOMAIN got[b],
                        OfStream(got[b][i])
                 PROVE  Follows(Behind(got[b], i), got[b][i])
      BY DEF StreamInOrder
    <2>1. got[b] \in Seq(Items) /\ DOMAIN got[b] = 1 .. Len(got[b])
      BY DEF Inv, TerminalTypes
    <2> QED BY <2>1 DEF Order, InOrder
  <1> QED  BY <1>1, <1>2, InitInv, InitOrder, PTL DEF Spec

-----------------------------------------------------------------------------
(* That nothing is kept back: every buffer made has come to a branch, or   *)
(* is on its way to it, from the first it was there for; and so has the    *)
(* end.  The invariant, in parts.                                          *)

Has(s, item) == \E i \in 1 .. Len(s) : s[i] = item

\* Buffer n of this timeline was handed to branch b, or is on its way to it.
Comes(b, n) ==
    Has(got[b], Buffer(timeline, n)) \/ Has(Pending(b), Buffer(timeline, n))

\* The last buffer made that has come by branch b.
Reach(b) == IF Waiting(b) /\ tee.item.is = "buffer" THEN source.made - 1 ELSE source.made

Gapless(b) ==
    \A n \in Nat :
        /\ Comes(b, n) => n \in Takes[b] /\ n <= Reach(b)
        /\ \A m \in Nat :
               Comes(b, m) /\ m <= n /\ n <= Reach(b) /\ n \in Takes[b] => Comes(b, n)
        /\ b \in Initial /\ ~Renewing =>
               (Comes(b, n) <=> n \in Takes[b] /\ source.from < n /\ n <= Reach(b))

\* A flushed pad is let go of by the segment behind the flush, which comes next.
SegmentNext(b) ==
    pad[b].flushing /\ ~Renewing =>
        \/ Waiting(b) /\ tee.item = Segment(timeline, TRUE)
        \/ Pending(b) # <<>> /\ Pending(b)[1] = Segment(timeline, TRUE)

\* The end of a source at its end comes to every branch, past its pad.
EndNext(b) ==
    source.at = "ended" /\ failures = 0 /\ ~Renewing /\ b \in hasSegment =>
        Waiting(b) \/ Has(Pending(b), Eos(timeline)) \/ Top(b) = Eos(timeline)
PadEnded(b) == pad[b].ended => Top(b).is = "eos" \/ pad[b].flushing

Whole(b) == (b \notin lost => Gapless(b)) /\ SegmentNext(b) /\ EndNext(b) /\ PadEnded(b)

\* A branch not built has a new pad, and what is handed is of no later timeline.
Unbuilt ==
    \A b \in Branches :
        pad[b].by = "unbuilt" => ~pad[b].flushing /\ ~pad[b].ended /\ b \notin Initial
GotTypes == \A b \in Branches : got[b] \in Seq(ItemsTo(timeline))

\* What is handed out is what the source made last; a seek taken, it has made nothing yet.
InHand ==
    /\ tee.at \in Handing =>
           /\ tee.item.is = "buffer" => tee.item.n = source.made /\ source.from < source.made
           /\ tee.item.is = "segment" => source.from = source.made
           /\ tee.item.is = "eos" <=> source.at = "ended"
           /\ tee.item.is = "eos" => tee.item = Eos(timeline)
    /\ tee.at = "flowing" /\ tee.msg = "Seek" =>
           source.from = source.made /\ source.at = "running"
Counted ==
    /\ failures \in Nat /\ source.from <= source.made
    /\ source.at = "begin" => source.made = 0 /\ source.from = 0

\* Playing, no branch is held, and nothing kept but while it is handed on.
Going ==
    phase = "playing" =>
        /\ context = NoContext
        /\ asked # "Resume" => \A b \in Branches : owed[b] = <<>>

\* A seek under way, there is no buffer of its timeline yet.
Emptied == Renewing => \A b \in Branches : \A n \in Nat : ~Comes(b, n)

Complete ==
    /\ Unbuilt /\ GotTypes /\ InHand /\ Counted /\ Going /\ Emptied
    /\ \A b \in active : Whole(b)

\* What a sequence has, one more behind it or one fewer before.
LEMMA HasIs ==
    ASSUME NEW S, NEW s \in Seq(S), NEW x
    PROVE  /\ ~Has(<<>>, x)
           /\ \A y \in S : Has(Append(s, y), x) <=> Has(s, x) \/ x = y
           /\ s # <<>> => (Has(s, x) <=> x = s[1] \/ Has(Tail(s), x))
  <1>1. ~Has(<<>>, x)
    BY DEF Has
  <1>2. ASSUME NEW y \in S
        PROVE  Has(Append(s, y), x) <=> Has(s, x) \/ x = y
    <2>1. PICK t : t = Append(s, y)
      OBVIOUS
    <2>2. /\ Len(s) \in Nat /\ Len(t) = Len(s) + 1 /\ t[Len(s) + 1] = y
          /\ \A i \in 1 .. Len(s) : t[i] = s[i]
      BY <2>1, AppendProperties
    <2>3. 1 .. Len(t) = (1 .. Len(s)) \cup {Len(s) + 1}
      BY <2>2
    <2>4. Has(t, x) <=> Has(s, x) \/ x = y
      BY <2>2, <2>3 DEF Has
    <2> QED  BY <2>1, <2>4
  <1>3. ASSUME s # <<>>
        PROVE  Has(s, x) <=> x = s[1] \/ Has(Tail(s), x)
    <2>1. PICK t : t = Tail(s)
      OBVIOUS
    <2>2. /\ Len(s) \in Nat /\ Len(s) >= 1 /\ Len(t) = Len(s) - 1
          /\ \A i \in 1 .. Len(s) - 1 : t[i] = s[i + 1]
      BY <1>3, <2>1, FirstIs
    <2>3. ASSUME NEW i \in 1 .. Len(s), s[i] = x
          PROVE  x = s[1] \/ Has(t, x)
      <3>1. CASE i = 1
        BY <2>3, <3>1
      <3>2. CASE i # 1
        <4>1. i - 1 \in 1 .. Len(t) /\ (i - 1) + 1 = i
          BY <2>2, <3>2
        <4>2. t[i - 1] = x
          BY <2>2, <2>3, <4>1
        <4> QED  BY <4>1, <4>2 DEF Has
      <3> QED  BY <3>1, <3>2
    <2>4. ASSUME NEW i \in 1 .. Len(t), t[i] = x
          PROVE  Has(s, x)
      <3>1. i + 1 \in 1 .. Len(s) /\ s[i + 1] = x
        BY <2>2, <2>4
      <3> QED  BY <3>1 DEF Has
    <2>5. x = s[1] => Has(s, x)
      BY <2>2 DEF Has
    <2>6. Has(t, x) => Has(s, x)
      BY <2>4 DEF Has
    <2>7. Has(s, x) => x = s[1] \/ Has(t, x)
      BY <2>3 DEF Has
    <2> QED  BY <2>1, <2>5, <2>6, <2>7
  <1> QED  BY <1>1, <1>2, <1>3

\* Where nothing of this timeline was handed and nothing is on its way, nothing comes.
LEMMA NothingComes ==
    ASSUME NEW b, NEW n, got[b] = <<>> \/ got[b] = <<FlushOf(timeline)>>, Pending(b) = <<>>
    PROVE  ~Comes(b, n)
  <1>1. ~Has(Pending(b), Buffer(timeline, n))
    BY DEF Has
  <1>2. CASE got[b] = <<>>
    BY <1>1, <1>2 DEF Has, Comes
  <1>3. CASE got[b] = <<FlushOf(timeline)>>
    <2>1. PICK s : s = <<FlushOf(timeline)>>
      OBVIOUS
    <2>2. Len(s) = 1 /\ s[1] = FlushOf(timeline)
      BY <2>1
    <2>3. FlushOf(timeline) # Buffer(timeline, n)
      BY DEF FlushOf, Buffer
    <2>4. ~Has(s, Buffer(timeline, n))
      BY <2>2, <2>3 DEF Has
    <2> QED  BY <1>1, <1>3, <2>1, <2>4 DEF Comes
  <1> QED  BY <1>2, <1>3

\* No buffer of a later timeline comes.
LEMMA NotYet ==
    ASSUME Inv, GotTypes, NEW b \in Branches, NEW later \in Nat, timeline < later, NEW n
    PROVE  ~Has(got[b], Buffer(later, n)) /\ ~Has(Pending(b), Buffer(later, n))
  <1>1. got[b] \in Seq(ItemsTo(timeline)) /\ Pending(b) \in Seq(ItemsTo(timeline))
    BY QueueTypes DEF GotTypes, Inv
  <1>2. timeline \in Nat
    BY DEF Inv, PipeTypes
  <1>3. ASSUME NEW s \in Seq(ItemsTo(timeline))
        PROVE  ~Has(s, Buffer(later, n))
    <2> SUFFICES ASSUME NEW i \in 1 .. Len(s), s[i] = Buffer(later, n) PROVE FALSE
      BY DEF Has
    <2>1. PICK items : items = ItemsTo(timeline)
      OBVIOUS
    <2>2. s \in Seq(items)
      BY <2>1
    <2>3. s[i] \in items
      BY <2>2
    <2>4. s[i].tl <= timeline
      BY <2>1, <2>3 DEF ItemsTo
    <2>5. s[i].tl = later
      BY DEF Buffer
    <2> QED  BY <1>2, <2>4, <2>5
  <1> QED  BY <1>1, <1>3

\* A step that leaves a branch alone, and what is to come to it.
LeftAlone(b) ==
    /\ got'[b] = got[b] /\ Pending(b)' = Pending(b)
    /\ pad'[b].flushing <=> pad[b].flushing
    /\ pad'[b].ended <=> pad[b].ended
    /\ Waiting(b)' <=> Waiting(b)
    /\ Waiting(b) => tee'.item = tee.item
    /\ source'.made = source.made /\ source'.from = source.from /\ source'.at = source.at
    /\ timeline' = timeline /\ (b \in lost => b \in lost')
    /\ Renewing' <=> Renewing
    /\ failures' = 0 => failures = 0
    /\ b \in hasSegment' => b \in hasSegment

\* It stays whole.
LEMMA WholeStays ==
    ASSUME NEW b, Whole(b), LeftAlone(b)
    PROVE  Whole(b)'
  <1> USE DEF LeftAlone
  <1>1. \A n \in Nat : Comes(b, n)' <=> Comes(b, n)
    BY DEF Comes
  <1>2. Reach(b)' = Reach(b)
    BY DEF Reach
  <1>3. b \notin lost' => Gapless(b)'
    BY <1>1, <1>2 DEF Whole, Gapless
  <1>4. SegmentNext(b)'
    BY DEF Whole, SegmentNext
  <1>5. Top(b)' = Top(b)
    BY DEF Top
  <1>6. EndNext(b)'
    BY <1>5 DEF Whole, EndNext
  <1>7. PadEnded(b)'
    BY <1>5 DEF Whole, PadEnded
  <1> QED  BY <1>3, <1>4, <1>6, <1>7 DEF Whole

\* A step that hands nothing to any branch it leaves, and drops no more than what is on its
\* way to one.
StaysWhole ==
    /\ got' = got /\ timeline' = timeline
    /\ \A b \in Branches : pad'[b].by = "unbuilt" => pad'[b] = pad[b]
    /\ \A b \in Branches : Pending(b)' \in {Pending(b), <<>>}
    /\ Renewing' => Renewing
    /\ active' \subseteq active
    /\ \A b \in active' : LeftAlone(b)

\* Every branch left stays whole.
LEMMA StaysComplete ==
    ASSUME Inv, Complete, StaysWhole, InHand', Counted', Going'
    PROVE  Complete'
  <1> USE DEF StaysWhole
  <1>1. Unbuilt'
    BY DEF Complete, Unbuilt
  <1>2. GotTypes'
    BY DEF Complete, GotTypes
  <1>3. Emptied'
    <2> SUFFICES ASSUME Renewing', NEW b \in Branches, NEW n \in Nat PROVE ~Comes(b, n)'
      BY DEF Emptied
    <2>1. ~Comes(b, n)
      BY DEF Complete, Emptied
    <2>2. Pending(b)' = Pending(b) \/ Pending(b)' = <<>>
      OBVIOUS
    <2>3. ~Has(<<>>, Buffer(timeline, n))
      BY DEF Has
    <2> QED  BY <2>1, <2>2, <2>3 DEF Comes
  <1>4. ASSUME NEW b \in active' PROVE Whole(b)'
    <2>1. Whole(b) /\ LeftAlone(b)
      BY DEF Complete
    <2> QED  BY <2>1, WholeStays
  <1> QED  BY <1>1, <1>2, <1>3, <1>4 DEF Complete

\* The same where the Tee's thread and the source do nothing.
LEMMA QuietComplete ==
    ASSUME Inv, Complete, UNCHANGED <<got, owed, tee, hasSegment, source, timeline, lost, failures>>,
           active' \subseteq active,
           \A b \in Branches : /\ pad'[b].flushing = pad[b].flushing /\ pad'[b].ended = pad[b].ended
                               /\ pad'[b].by = "unbuilt" => pad'[b] = pad[b],
           Renewing' <=> Renewing, Going'
    PROVE  Complete'
  <1>1. \A b \in Branches : Pending(b)' = Pending(b) /\ (Waiting(b)' <=> Waiting(b))
    BY DEF Pending, Waiting, Branch
  <1>2. \A b \in active' : LeftAlone(b)
    BY <1>1 DEF LeftAlone, Inv, ListTypes
  <1>3. InHand' /\ Counted'
    BY DEF Complete, InHand, Counted
  <1>4. StaysWhole
    BY <1>1, <1>2 DEF StaysWhole
  <1> QED  BY <1>3, <1>4, StaysComplete

\* So a call begun.
LEMMA CallsComplete ==
    ASSUME Inv, Order, Complete, NEW o \in Ops, Calls(o)
    PROVE  Complete'
  <1>1. UNCHANGED <<got, owed, tee, hasSegment, source, timeline, lost, failures, asked, active,
                    pad, phase, context>>
    BY DEF Calls, playback, topology, terminal
  <1>2. asked = None /\ todo = <<>> /\ todo' = Stages(o)
    BY DEF Calls
  <1>3. Stages(o)[1] # "Seek"
    <2>1. o \in {"resume", "seek", "step"}
      BY BoundsAssumption
    <2> QED  BY <2>1, StagesBegin DEF Inv, PipeTypes, Plan
  <1>4. ~Renewing /\ ~Renewing'
    BY <1>1, <1>2, <1>3 DEF Renewing, None
  <1>5. Going'
    BY <1>1 DEF Complete, Going
  <1> QED  BY <1>1, <1>4, <1>5, QuietComplete

\* A terminal that has left.
LEMMA DepartsComplete ==
    ASSUME Inv, Complete, NEW b \in Branches, Departs(b)
    PROVE  Complete'
  <1>1. UNCHANGED <<got, owed, tee, hasSegment, source, timeline, lost, failures, asked, todo,
                    active, pad, phase>>
    BY DEF Departs, pipeline, topology, terminal
  <1>2. context.expected # {}
    BY DEF Departs
  <1>3. phase # "playing"
    BY <1>2 DEF Complete, Going, NoContext
  <1>4. Going'
    BY <1>1, <1>3 DEF Going
  <1> QED  BY <1>1, <1>4, QuietComplete DEF Renewing

\* The wait that is over.
LEMMA AwaitedComplete ==
    ASSUME Inv, Complete, Awaited
    PROVE  Complete'
  <1>1. UNCHANGED <<got, owed, tee, hasSegment, source, timeline, lost, failures, asked, active,
                    pad, phase, context>>
    BY DEF Awaited, playback, topology, terminal
  <1>2. asked = None /\ todo # <<>> /\ Head(todo) = "await" /\ todo' = Tail(todo)
    BY DEF Awaited
  <1>3. todo \in ToPlaying \cup ToPaused
    BY <1>2 DEF Inv, PipeTypes
  <1>4. todo[1] = "await" /\ Tail(todo)[1] = "Pause"
    BY <1>2, <1>3, Leaves DEF StageLeaves
  <1>5. ~Renewing /\ ~Renewing'
    BY <1>1, <1>2, <1>4 DEF Renewing, None
  <1>6. Going'
    BY <1>1 DEF Complete, Going
  <1> QED  BY <1>1, <1>5, <1>6, QuietComplete

\* A look whether all have ended.
LEMMA ChecksComplete ==
    ASSUME Inv, Complete, NEW t \in Threads, Checks(t)
    PROVE  Complete'
  <1>1. UNCHANGED <<got, owed, tee, hasSegment, source, timeline, lost, failures, asked, todo,
                    active, pad, phase, context>>
    BY DEF Checks, playback, pipeline, topology, terminal
  <1>2. Going'
    BY <1>1 DEF Complete, Going
  <1> QED  BY <1>1, <1>2, QuietComplete DEF Renewing

\* A branch detached, or found to be finished.
LEMMA DetachComplete ==
    ASSUME Inv, Complete, NEW c \in Callers, NEW b \in Branches, Detach(c, b) \/ FinishFinds(c, b)
    PROVE  Complete'
  <1>1. UNCHANGED <<got, owed, tee, hasSegment, source, timeline, lost, failures, asked, todo,
                    pad, phase, context>>
    BY DEF Detach, FinishFinds, playback, pipeline, terminal
  <1>2. active' \subseteq active
    BY DEF Detach, FinishFinds, topology
  <1>3. Going'
    BY <1>1 DEF Complete, Going
  <1> QED  BY <1>1, <1>2, <1>3, QuietComplete DEF Renewing

\* Its pad let go of, or the branch removed.
LEMMA FinishRemovesComplete ==
    ASSUME Inv, Complete, NEW c \in Callers, FinishReported(c) \/ FinishRemoves(c)
    PROVE  Complete'
  <1>1. UNCHANGED <<got, owed, tee, hasSegment, source, timeline, lost, failures, asked, todo,
                    phase, context>>
    BY DEF FinishReported, FinishRemoves, playback, pipeline, terminal
  <1>2. active' \subseteq active
    BY DEF FinishReported, FinishRemoves, topology
  <1>3. \A b \in Branches : /\ pad'[b].flushing = pad[b].flushing /\ pad'[b].ended = pad[b].ended
                            /\ pad'[b].by = "unbuilt" => pad'[b] = pad[b]
    <2>1. CASE FinishReported(c)
      <3>1. PICK d \in Branches : d = call[c].branch
        BY <2>1 DEF Inv, CallTypes, FinishReported
      <3>2. pad' = [pad EXCEPT ![d].by = None]
        BY <2>1, <3>1 DEF FinishReported
      <3> QED  BY <3>2, Numbers DEF Inv, TerminalTypes
    <2>2. CASE FinishRemoves(c)
      BY <2>2 DEF FinishRemoves
    <2> QED BY <2>1, <2>2
  <1>4. Going'
    BY <1>1 DEF Complete, Going
  <1> QED  BY <1>1, <1>2, <1>3, <1>4, QuietComplete DEF Renewing

\* What a push gives.
LEMMA PushGives ==
    ASSUME Inv, GotTypes, NEW t, NEW b \in Branches, NEW item \in ItemsTo(timeline), NEW by,
           NEW fails \in BOOLEAN, Push(t, b, item, by, fails)
    PROVE  /\ got'[b] = IF Passes(b, item) /\ ~fails THEN Append(got[b], item) ELSE got[b]
           /\ \A d \in Branches \ {b} : got'[d] = got[d] /\ pad'[d] = pad[d]
           /\ pad'[b].ended <=> IF Passes(b, item) THEN item.is = "eos" /\ ~fails
                                ELSE pad[b].ended
           /\ pad'[b].flushing <=> pad[b].flushing /\ ~(Passes(b, item) /\ item.is = "segment")
           /\ pad'[b].by = by
           /\ GotTypes'
           /\ failures \in Nat => failures' \in Nat /\ (failures' = 0 => failures = 0 /\ ~fails)
           /\ UNCHANGED <<phase, timeline>> /\ (context = NoContext => context' = context)
           /\ fails => item.is = "eos" /\ Passes(b, item)
  <1>1. PICK passes \in BOOLEAN : passes <=> Passes(b, item)
    OBVIOUS
  <1>2. got' = IF passes /\ ~fails THEN [got EXCEPT ![b] = Append(got[b], item)] ELSE got
    BY <1>1 DEF Push
  <1>3. /\ got'[b] = IF passes /\ ~fails THEN Append(got[b], item) ELSE got[b]
        /\ \A d \in Branches \ {b} : got'[d] = got[d]
    BY <1>2 DEF Inv, TerminalTypes
  <1>4. PICK fl \in BOOLEAN, en \in BOOLEAN :
            /\ fl <=> pad[b].flushing /\ ~(passes /\ item.is = "segment")
            /\ en <=> IF passes THEN item.is = "eos" /\ ~fails ELSE pad[b].ended
            /\ pad' = [pad EXCEPT ![b] = [flushing |-> fl, ended |-> en, by |-> by]]
    <2>1. pad[b].flushing \in BOOLEAN /\ pad[b].ended \in BOOLEAN
      BY DEF Inv, TerminalTypes
    <2>2. pad' = [pad EXCEPT ![b] =
                     [flushing |-> pad[b].flushing /\ ~(passes /\ item.is = "segment"),
                      ended    |-> IF passes THEN item.is = "eos" /\ passes /\ ~fails
                                   ELSE pad[b].ended,
                      by       |-> by]]
      BY <1>1, Zenon DEF Push, Reports
    <2>3. PICK fl \in BOOLEAN, en \in BOOLEAN :
              /\ fl = (pad[b].flushing /\ ~(passes /\ item.is = "segment"))
              /\ en = IF passes THEN item.is = "eos" /\ passes /\ ~fails ELSE pad[b].ended
      BY <2>1
    <2>4. pad' = [pad EXCEPT ![b] = [flushing |-> fl, ended |-> en, by |-> by]]
      BY <2>2, <2>3, Zenon
    <2> QED  BY <2>3, <2>4
  <1>5. pad'[b] = [flushing |-> fl, ended |-> en, by |-> by]
        /\ \A d \in Branches \ {b} : pad'[d] = pad[d]
    BY <1>4 DEF Inv, TerminalTypes
  <1>6. timeline' = timeline /\ phase' = phase
    BY DEF Push
  <1>7. \A d \in Branches : got'[d] \in Seq(ItemsTo(timeline))
    <2>1. PICK items : items = ItemsTo(timeline)
      OBVIOUS
    <2>2. \A d \in Branches : got[d] \in Seq(items)
      BY <2>1 DEF GotTypes
    <2>3. Append(got[b], item) \in Seq(items)
      BY <2>1, <2>2
    <2> QED  BY <1>3, <2>1, <2>2, <2>3
  <1>8. failures \in Nat => failures' \in Nat /\ (failures' = 0 => failures = 0 /\ ~fails)
    <2>1. failures' = IF fails THEN failures + 1 ELSE failures
      BY DEF Push
    <2> QED  BY <2>1
  <1>9. context = NoContext => context' = context
    BY DEF Push, NoContext
  <1>10. fails => item.is = "eos" /\ Passes(b, item)
    BY DEF Push
  <1>11. /\ pad'[b].flushing <=> pad[b].flushing /\ ~(Passes(b, item) /\ item.is = "segment")
         /\ pad'[b].by = by
    BY <1>1, <1>4, <1>5
  <1>12. pad'[b].ended <=> IF Passes(b, item) THEN item.is = "eos" /\ ~fails ELSE pad[b].ended
    BY <1>1, <1>4, <1>5
  <1>13. GotTypes'
    BY <1>6, <1>7 DEF GotTypes
  <1>14. got'[b] = IF Passes(b, item) /\ ~fails THEN Append(got[b], item) ELSE got[b]
    BY <1>1, <1>3
  <1>15. \A d \in Branches \ {b} : got'[d] = got[d] /\ pad'[d] = pad[d]
    BY <1>3, <1>5
  <1> QED  BY <1>6, <1>8, <1>9, <1>10, <1>11, <1>12, <1>13, <1>14, <1>15

\* A branch attached has been handed nothing.
LEMMA AttachComplete ==
    ASSUME Inv, Order, Complete, NEW c \in Callers, Attach(c)
    PROVE  Complete'
  <1>1. UNCHANGED <<got, owed, tee, hasSegment, source, timeline, lost, failures, asked, todo,
                    phase, context>>
    BY DEF Attach, playback, pipeline
  <1>2. PICK d \in Branches : d = Min(Fresh) /\ pad[d].by = "unbuilt"
    BY FreshIs DEF Attach
  <1>3. /\ pad' = [pad EXCEPT ![d].by = None] /\ active' = active \cup {d}
        /\ asked = None /\ todo = <<>>
    BY <1>2 DEF Attach
  <1>4. \A b \in Branches : /\ pad'[b].flushing = pad[b].flushing /\ pad'[b].ended = pad[b].ended
                            /\ pad'[b].by = "unbuilt" => pad'[b] = pad[b]
    BY <1>3, Numbers DEF Inv, TerminalTypes
  <1>5. \A b \in Branches : Pending(b)' = Pending(b) /\ (Waiting(b)' <=> Waiting(b))
    BY <1>1 DEF Pending, Waiting, Branch
  <1>6. ~Renewing /\ ~Renewing'
    BY <1>1, <1>3 DEF Renewing, None
  <1>7. Going'
    BY <1>1 DEF Complete, Going
  <1>8. InHand' /\ Counted'
    BY <1>1 DEF Complete, InHand, Counted
  <1>9. GotTypes' /\ Unbuilt' /\ Emptied'
    BY <1>1, <1>4, <1>6 DEF Complete, GotTypes, Unbuilt, Emptied
  <1>10. got[d] = <<>> /\ d \notin hasSegment /\ owed[d] = <<>>
    BY <1>2 DEF Order, Begun
  <1>11. Whole(d)'
    <2>1. Pending(d) = <<>>
      BY <1>10 DEF Order, Begun, Pending
    <2>2. \A n \in Nat : ~Comes(d, n)'
      <3> SUFFICES ASSUME NEW n \in Nat PROVE ~Comes(d, n)'
        OBVIOUS
      <3>1. ~Comes(d, n)
        BY <1>10, <2>1, NothingComes
      <3> QED  BY <1>1, <1>5, <3>1 DEF Comes
    <2>3. ~pad[d].flushing /\ ~pad[d].ended /\ d \notin Initial
      BY <1>2 DEF Complete, Unbuilt
    <2>4. Gapless(d)'
      BY <2>2, <2>3 DEF Gapless
    <2> QED  BY <1>1, <1>4, <1>10, <2>3, <2>4 DEF Whole, SegmentNext, EndNext, PadEnded
  <1>12. ASSUME NEW b \in active' PROVE Whole(b)'
    <2>1. CASE b = d
      BY <1>11, <2>1
    <2>2. CASE b # d
      <3>1. b \in active /\ b \in Branches
        BY <1>3, <2>2 DEF Inv, ListTypes
      <3>2. LeftAlone(b)
        BY <1>1, <1>4, <1>5, <1>6, <3>1 DEF LeftAlone
      <3> QED  BY <3>1, <3>2, WholeStays DEF Complete
    <2> QED  BY <2>1, <2>2
  <1> QED  BY <1>7, <1>8, <1>9, <1>12 DEF Complete

\* The branch an end is sent to for a finish is no longer handed anything.
LEMMA FinishPushesComplete ==
    ASSUME Inv, Order, Complete, NEW c \in Callers, FinishPushes(c)
    PROVE  Complete'
  <1>1. UNCHANGED <<todo, asked, tee, source, owed, hasSegment, timeline, lost, phase>>
    BY DEF FinishPushes, Push, pipeline
  <1>2. PICK b \in Branches : b = call[c].branch
    BY DEF Inv, CallTypes, FinishPushes
  <1>3. active' = active \ {b}
    BY <1>2 DEF FinishPushes, Deactivated
  <1>4. PICK by \in {c, None}, fails \in BOOLEAN, item \in {Eos(-1)} :
            item = Eos(-1) /\ Push(c, b, item, by, fails)
    BY <1>2 DEF FinishPushes
  <1>5. item \in ItemsTo(timeline) /\ item.is = "eos"
    BY <1>4, ItemTypes DEF Inv, Eos
  <1>6. /\ got'[b] \in {got[b], Append(got[b], item)}
        /\ \A d \in Branches \ {b} : got'[d] = got[d] /\ pad'[d] = pad[d]
        /\ pad'[b].by = by /\ GotTypes'
        /\ failures' \in Nat /\ (failures' = 0 => failures = 0)
        /\ context = NoContext => context' = context
    <2>1. GotTypes /\ failures \in Nat
      BY DEF Complete, Counted
    <2>2. /\ got'[b] = IF Passes(b, item) /\ ~fails THEN Append(got[b], item) ELSE got[b]
          /\ \A d \in Branches \ {b} : got'[d] = got[d] /\ pad'[d] = pad[d]
          /\ pad'[b].by = by /\ GotTypes'
          /\ failures \in Nat => failures' \in Nat /\ (failures' = 0 => failures = 0 /\ ~fails)
          /\ context = NoContext => context' = context
      BY <1>4, <1>5, <2>1, PushGives
    <2> QED  BY <2>1, <2>2
  <1>7. \A d \in Branches : Pending(d)' = Pending(d) /\ (Waiting(d)' <=> Waiting(d))
    BY <1>1 DEF Pending, Waiting, Branch
  <1>8. Renewing' <=> Renewing
    BY <1>1 DEF Renewing
  <1>9. InHand' /\ Counted' /\ Going'
    BY <1>1, <1>6 DEF Complete, InHand, Counted, Going
  <1>10. Unbuilt'
    <2>1. by # "unbuilt"
      BY <1>4, Numbers
    <2> QED  BY <1>6, <2>1 DEF Complete, Unbuilt
  <1>11. Emptied'
    <2> SUFFICES ASSUME Renewing, NEW d \in Branches, NEW n \in Nat PROVE ~Comes(d, n)'
      BY <1>8 DEF Emptied
    <2>1. ~Comes(d, n)
      BY DEF Complete, Emptied
    <2>2. Has(got'[d], Buffer(timeline, n)) => Has(got[d], Buffer(timeline, n))
      <3>1. CASE got'[d] = got[d]
        BY <3>1
      <3>2. CASE got'[d] # got[d]
        <4>1. got'[d] = Append(got[d], item)
          BY <1>6, <3>2
        <4>2. got[d] \in Seq(ItemsTo(timeline))
          BY DEF Complete, GotTypes
        <4>3. item # Buffer(timeline, n)
          BY <1>5 DEF Buffer
        <4> QED  BY <1>5, <4>1, <4>2, <4>3, HasIs
      <3> QED  BY <3>1, <3>2
    <2> QED  BY <1>1, <1>7, <2>1, <2>2 DEF Comes
  <1>12. ASSUME NEW d \in active' PROVE Whole(d)'
    <2>1. d \in active /\ d \in Branches /\ d # b
      BY <1>3 DEF Inv, ListTypes
    <2>2. LeftAlone(d)
      BY <1>1, <1>6, <1>7, <1>8, <2>1 DEF LeftAlone
    <2> QED  BY <2>1, <2>2, WholeStays DEF Complete
  <1> QED  BY <1>6, <1>9, <1>10, <1>11, <1>12 DEF Complete

\* The Tee goes on with what it is at, or is done with it: what is on its way to a branch still
\* is, or the branch has gone.
TeeStands ==
    /\ UNCHANGED <<got, hasSegment, timeline, active, lost, failures>>
    /\ source'.made = source.made /\ source'.from = source.from /\ source'.at = source.at
    /\ Renewing' <=> Renewing
    /\ \A b \in Branches : /\ pad'[b].flushing <=> pad[b].flushing
                           /\ pad'[b].ended <=> pad[b].ended
                           /\ pad'[b].by = "unbuilt" => pad'[b] = pad[b]
                           /\ Pending(b)' \in {Pending(b), <<>>}
                           /\ b \in active => Pending(b)' = Pending(b)
                           /\ Waiting(b)' <=> Waiting(b)
    /\ tee'.at \in Handing => tee.at \in Handing /\ tee'.item = tee.item
    /\ tee'.at = "flowing" => tee'.msg # "Seek"

\* So what was whole stays so.
LEMMA TeeStandsComplete ==
    ASSUME Inv, Complete, TeeStands, Going'
    PROVE  Complete'
  <1> USE DEF TeeStands
  <1>1. ASSUME NEW b \in active' PROVE LeftAlone(b)
    <2>1. b \in active /\ b \in Branches
      BY DEF Inv, ListTypes
    <2>2. Waiting(b) => tee'.item = tee.item
      BY <2>1 DEF Waiting
    <2> QED  BY <2>1, <2>2 DEF LeftAlone
  <1>2. StaysWhole
    BY <1>1 DEF StaysWhole
  <1>3. InHand' /\ Counted'
    BY DEF Complete, InHand, Counted
  <1> QED  BY <1>2, <1>3, StaysComplete

\* So it is on the way to the next branch, done with one nothing is about to be pushed to.
LEMMA ToNextStands ==
    ASSUME Inv, Order, tee.at \in Handing \ {"handing"}, tee' = ToNext,
           Pending(Branch) = owed[Branch] \/ Branch \notin active,
           UNCHANGED <<got, hasSegment, timeline, active, owed, todo, asked, source, lost,
                       failures>>,
           \A b \in Branches : /\ pad'[b].flushing <=> pad[b].flushing
                               /\ pad'[b].ended <=> pad[b].ended
                               /\ pad'[b].by = "unbuilt" => pad'[b] = pad[b]
    PROVE  TeeStands
  <1>1. PICK b \in Branches : b = Branch /\ b \in tee.left
    <2>1. tee.left # {}
      BY DEF Inv, TeeTypes, AtBranch, Handing
    <2> QED  BY <2>1, BranchIn DEF Inv
  <1>2. tee' = [tee EXCEPT !.at = "handing", !.left = tee.left \ {b}, !.push = <<>>]
    BY <1>1 DEF ToNext
  <1>3. tee'.at = "handing" /\ tee'.left = tee.left \ {b} /\ tee'.item = tee.item
    BY <1>2 DEF Inv, TeeTypes
  <1>4. ~Renewing
    BY BusyIsNot DEF Order
  <1>5. ~Renewing'
    BY <1>3, <1>4 DEF Renewing
  <1>6. \A d \in Branches : Waiting(d)' <=> Waiting(d)
    BY <1>1, <1>3 DEF Waiting, Handing
  <1>7. \A d \in Branches : Pending(d)' = owed[d] /\ (d # b => Pending(d) = owed[d])
    BY <1>1, <1>3 DEF Pending
  <1>8. Pending(b) = owed[b] \/ (owed[b] = <<>> /\ b \notin active)
    <2>1. CASE Pending(b) = owed[b]
      BY <2>1
    <2>2. CASE Pending(b) # owed[b]
      BY <1>1, <2>2 DEF Pending, Order, Begun
    <2> QED  BY <2>1, <2>2
  <1>9. \A d \in Branches : /\ Pending(d)' \in {Pending(d), <<>>}
                            /\ d \in active => Pending(d)' = Pending(d)
    BY <1>7, <1>8
  <1>10. tee'.at \in Handing
    BY <1>3 DEF Handing
  <1> QED  BY <1>3, <1>4, <1>5, <1>6, <1>9, <1>10 DEF TeeStands

\* Where the Tee locks a branch, or finds it gone.
LEMMA TeeLocksComplete ==
    ASSUME Inv, Order, Complete, TeeLocks
    PROVE  Complete'
  <1>1. UNCHANGED <<got, hasSegment, timeline, active, owed, todo, asked, source, lost, failures,
                    phase, context>>
    BY DEF TeeLocks, playback, pipeline, topology
  <1>2. tee.at = "locking" /\ tee.left # {}
    BY DEF Inv, TeeTypes, AtBranch, TeeLocks
  <1>3. PICK b \in Branches : b = Branch /\ b \in tee.left
    BY <1>2, BranchIn DEF Inv
  <1>4. Going'
    BY <1>1 DEF Complete, Going
  <1>5. CASE b \in active
    <2>1. pad' = [pad EXCEPT ![b].by = Source] /\ tee' = [tee EXCEPT !.at = "pushing"]
      BY <1>3, <1>5 DEF TeeLocks
    <2>2. \A d \in Branches : /\ pad'[d].flushing = pad[d].flushing
                              /\ pad'[d].ended = pad[d].ended
                              /\ pad'[d].by = "unbuilt" => pad'[d] = pad[d]
      BY <2>1, Numbers DEF Inv, TerminalTypes
    <2>3. /\ tee'.at = "pushing" /\ tee'.left = tee.left /\ tee'.item = tee.item
          /\ tee'.push = tee.push
      BY <2>1 DEF Inv, TeeTypes
    <2>4. Branch' = Branch
      BY <2>3 DEF Branch
    <2>5. ~Renewing
      BY <1>2, BusyIsNot DEF Order, Handing
    <2>6. ~Renewing'
      BY <1>1, <2>3, <2>5 DEF Renewing
    <2>7. \A d \in Branches : Pending(d)' = Pending(d)
      BY <1>1, <1>2, <2>3, <2>4 DEF Pending
    <2>8. \A d \in Branches : Waiting(d)' <=> Waiting(d)
      BY <1>2, <2>3, <2>4 DEF Waiting, Handing
    <2>9. TeeStands
      BY <1>1, <1>2, <2>2, <2>3, <2>5, <2>6, <2>7, <2>8 DEF TeeStands, Handing
    <2> QED  BY <1>4, <2>9, TeeStandsComplete
  <1>6. CASE b \notin active
    <2>1. tee' = ToNext /\ pad' = pad
      BY <1>3, <1>6 DEF TeeLocks
    <2>2. TeeStands
      BY <1>1, <1>2, <1>3, <1>6, <2>1, ToNextStands DEF Handing
    <2> QED  BY <1>4, <2>2, TeeStandsComplete
  <1> QED  BY <1>5, <1>6

\* The end reported, the pad is let go of.
LEMMA TeeReportedComplete ==
    ASSUME Inv, Order, Complete, TeeReported
    PROVE  Complete'
  <1>1. UNCHANGED <<got, hasSegment, timeline, active, owed, todo, asked, source, lost, failures,
                    phase, context>>
    BY DEF TeeReported, playback, pipeline, topology
  <1>2. tee.at \in {"reporting", "owingHolds"} /\ tee.left # {}
    BY DEF Inv, TeeTypes, AtBranch, TeeReported
  <1>3. PICK b \in Branches : b = Branch /\ b \in tee.left
    BY <1>2, BranchIn DEF Inv
  <1>4. pad' = [pad EXCEPT ![b].by = None]
    BY <1>3 DEF TeeReported
  <1>5. \A d \in Branches : /\ pad'[d].flushing = pad[d].flushing /\ pad'[d].ended = pad[d].ended
                            /\ pad'[d].by = "unbuilt" => pad'[d] = pad[d]
    BY <1>4, Numbers DEF Inv, TerminalTypes
  <1>6. Going'
    BY <1>1 DEF Complete, Going
  <1>7. CASE tee.at = "reporting"
    <2>1. tee' = ToNext
      BY <1>7 DEF TeeReported
    <2>2. Pending(b) = owed[b]
      BY <1>7 DEF Pending
    <2>3. TeeStands
      BY <1>1, <1>3, <1>5, <1>7, <2>1, <2>2, ToNextStands DEF Handing
    <2> QED  BY <1>6, <2>3, TeeStandsComplete
  <1>8. CASE tee.at = "owingHolds"
    <2>1. tee' = [tee EXCEPT !.at = "owing"]
      BY <1>8 DEF TeeReported
    <2>2. tee'.at = "owing"
      BY <2>1 DEF Inv, TeeTypes
    <2>3. ~Renewing
      BY <1>8, BusyIsNot DEF Order, Owing
    <2>4. ~Renewing' /\ tee'.at \notin Handing /\ tee.at \notin Handing
      BY <1>1, <1>8, <2>2, <2>3 DEF Renewing, Handing
    <2>5. \A d \in Branches : Pending(d)' = Pending(d)
      BY <1>1, <1>8, <2>2 DEF Pending
    <2>6. \A d \in Branches : ~Waiting(d) /\ ~Waiting(d)'
      BY <2>4 DEF Waiting
    <2>7. TeeStands
      BY <1>1, <1>5, <2>2, <2>3, <2>4, <2>5, <2>6 DEF TeeStands
    <2> QED  BY <1>6, <2>7, TeeStandsComplete
  <1> QED  BY <1>2, <1>7, <1>8

\* Done with a message that is not a flush, or a seek it has yet to hand the segment of.
LEMMA AckedStands ==
    ASSUME Inv, Order, tee.at \in {"handing", "owing", "flowing"}, tee.left = {},
           tee.msg \notin {None, "Flush"},
           ~(tee.at = "flowing" /\ tee.msg = "Seek"), Acked,
           UNCHANGED <<got, hasSegment, timeline, active, lost, failures, owed, pad, todo>>
    PROVE  TeeStands
  <1>1. tee.msg = asked
    BY DEF Inv, Plan, Owing, Handing
  <1>2. tee' = Idle /\ asked' = None
    BY DEF Acked
  <1>3. tee'.at = "idle"
    BY <1>2 DEF Idle
  <1>4. source'.at = source.at /\ source'.made = source.made /\ source'.from = source.from
    BY DEF Acked, Inv, SourceTypes
  <1>5. ~(todo # <<>> /\ todo[1] = "Seek")
    <2>1. asked \in {"Pause", "Resume", "Seek", "Preroll"}
      BY <1>1 DEF Inv, PipeTypes, Message
    <2> QED  BY <2>1, NoSeekNext
  <1>6. ~Renewing /\ ~Renewing'
    BY <1>1, <1>2, <1>5 DEF Renewing, None
  <1>7. tee'.at \notin Handing
    BY <1>3 DEF Handing
  <1>8. \A b \in Branches : Pending(b)' = Pending(b) /\ ~Waiting(b) /\ ~Waiting(b)'
    BY <1>3, <1>7 DEF Pending, Waiting
  <1> QED  BY <1>3, <1>4, <1>6, <1>7, <1>8 DEF TeeStands

\* So it does once an item is handed out.
LEMMA TeeHandedComplete ==
    ASSUME Inv, Order, Complete, TeeHanded
    PROVE  Complete'
  <1>1. UNCHANGED <<got, hasSegment, timeline, active, owed, pad, todo, lost, failures, phase,
                    context>>
    BY DEF TeeHanded, playback, topology, terminal
  <1>2. tee.at = "handing" /\ tee.left = {}
    BY DEF TeeHanded
  <1>3. CASE tee.msg = None
    <2>1. tee' = Idle /\ UNCHANGED <<asked, source>>
      BY <1>3 DEF TeeHanded
    <2>2. tee'.at = "idle"
      BY <2>1 DEF Idle
    <2>3. ~Renewing /\ asked # "Flush"
      BY <1>2, BusyIsNot DEF Order, Handing
    <2>4. asked # "Seek"
      BY <1>2, <1>3 DEF Inv, Plan, None
    <2>5. ~Renewing'
      BY <1>1, <2>1, <2>3, <2>4 DEF Renewing
    <2>6. tee'.at \notin Handing
      BY <2>2 DEF Handing
    <2>7. \A b \in Branches : Pending(b)' = Pending(b) /\ ~Waiting(b) /\ ~Waiting(b)'
      BY <1>1, <1>2, <2>2, <2>6 DEF Pending, Waiting
    <2>8. TeeStands
      BY <1>1, <2>1, <2>2, <2>3, <2>5, <2>6, <2>7 DEF TeeStands
    <2>9. Going'
      BY <1>1, <2>1 DEF Complete, Going
    <2> QED  BY <2>8, <2>9, TeeStandsComplete
  <1>4. CASE tee.msg # None
    <2>1. Acked
      BY <1>4 DEF TeeHanded
    <2>2. tee.msg = "Seek" /\ asked = "Seek"
      BY <1>2, <1>4 DEF Inv, Plan, Handing
    <2>3. TeeStands
      BY <1>1, <1>2, <2>1, <2>2, AckedStands DEF None
    <2>4. phase = "paused"
      BY <2>2 DEF Inv, Plan
    <2>5. Going'
      BY <1>1, <2>4 DEF Going
    <2> QED  BY <2>3, <2>5, TeeStandsComplete
  <1> QED  BY <1>3, <1>4

\* What is kept for a branch is about to be handed on, or is dropped with the branch.
LEMMA TeeOwesComplete ==
    ASSUME Inv, Order, Complete, TeeOwes
    PROVE  Complete'
  <1>1. UNCHANGED <<got, hasSegment, timeline, active, pad, todo, lost, failures, phase, context>>
    BY DEF TeeOwes, playback, topology, terminal
  <1>2. tee.at = "owing" /\ HandsOn(tee.msg)
    BY DEF Order, Begun, Owing, TeeOwes
  <1>3. CASE tee.left = {}
    <2>1. Acked /\ owed' = owed
      BY <1>3 DEF TeeOwes
    <2>2. TeeStands
      BY <1>1, <1>2, <1>3, <2>1, AckedStands DEF HandsOn, None
    <2>3. \A b \in Branches : owed[b] = <<>>
      BY <1>2, <1>3 DEF Inv, HeldBack, Owing
    <2>4. Going'
      BY <1>1, <2>1, <2>3 DEF Complete, Going
    <2> QED  BY <2>2, <2>4, TeeStandsComplete
  <1>4. CASE tee.left # {}
    <2>1. PICK b \in Branches : b = Branch /\ b \in tee.left
      BY <1>4, BranchIn DEF Inv
    <2>2. /\ UNCHANGED <<asked, source>>
          /\ \/ /\ owed[b] = <<>> \/ b \notin active
                /\ owed' = [owed EXCEPT ![b] = <<>>]
                /\ tee' = [tee EXCEPT !.left = tee.left \ {b}]
             \/ tee' = [tee EXCEPT !.at = "owingLocks"] /\ owed' = owed
      BY <1>4, <2>1 DEF TeeOwes
    <2>3. /\ tee'.at \in {"owing", "owingLocks"}
          /\ \A d \in Branches \ {b} : owed'[d] = owed[d]
          /\ owed'[b] = owed[b] \/ (owed'[b] = <<>> /\ b \notin active)
      BY <1>2, <2>1, <2>2 DEF Inv, TeeTypes
    <2>4. ~Renewing
      BY <1>2, BusyIsNot DEF Order, Owing
    <2>5. ~Renewing' /\ tee'.at \notin Handing /\ tee.at \notin Handing
      BY <1>1, <1>2, <2>2, <2>3, <2>4 DEF Renewing, Handing
    <2>6. \A d \in Branches : Pending(d) = owed[d] /\ Pending(d)' = owed'[d]
      BY <1>2, <2>3 DEF Pending
    <2>7. \A d \in Branches : /\ Pending(d)' \in {Pending(d), <<>>}
                              /\ d \in active => Pending(d)' = Pending(d)
      BY <1>1, <2>3, <2>6
    <2>8. \A d \in Branches : ~Waiting(d) /\ ~Waiting(d)'
      BY <2>5 DEF Waiting
    <2>9. TeeStands
      BY <1>1, <2>2, <2>3, <2>4, <2>5, <2>7, <2>8 DEF TeeStands
    <2>10. \A d \in Branches : owed[d] = <<>> => owed'[d] = <<>>
      BY <2>3
    <2>11. Going'
      BY <1>1, <2>2, <2>10 DEF Complete, Going
    <2> QED  BY <2>9, <2>11, TeeStandsComplete
  <1> QED  BY <1>3, <1>4

\* While a seek is under way nothing is whole but a pad's end.
LEMMA RenewingComplete ==
    ASSUME Renewing', Unbuilt', GotTypes', InHand', Counted', Going', Emptied',
           active' \subseteq Branches, \A b \in Branches : b \in active' => PadEnded(b)'
    PROVE  Complete'
  <1>1. ASSUME NEW b \in active' PROVE Whole(b)'
    <2>1. \A n \in Nat : ~Comes(b, n)'
      BY DEF Emptied
    <2>2. Gapless(b)'
      BY <2>1 DEF Gapless
    <2> QED  BY <2>2 DEF Whole, SegmentNext, EndNext
  <1> QED  BY <1>1 DEF Complete

\* Where it stays under way, and no branch is handed anything.
RenewingStands ==
    /\ Renewing' /\ UNCHANGED <<got, pad, timeline, active>>
    /\ \A b \in Branches : Pending(b)' \in {Pending(b), <<>>}

\* There is no buffer of its timeline yet.
LEMMA RenewingStandsComplete ==
    ASSUME Inv, Complete, Renewing, RenewingStands, InHand', Counted', Going'
    PROVE  Complete'
  <1> USE DEF RenewingStands
  <1>1. Unbuilt' /\ GotTypes'
    BY DEF Complete, Unbuilt, GotTypes
  <1>2. Emptied'
    <2> SUFFICES ASSUME NEW b \in Branches, NEW n \in Nat PROVE ~Comes(b, n)'
      BY DEF Emptied
    <2>1. ~Comes(b, n)
      BY DEF Complete, Emptied
    <2>2. Pending(b)' = Pending(b) \/ Pending(b)' = <<>>
      OBVIOUS
    <2>3. ~Has(<<>>, Buffer(timeline, n))
      BY DEF Has
    <2> QED  BY <2>1, <2>2, <2>3 DEF Comes
  <1>3. \A b \in Branches : b \in active' => PadEnded(b)'
    BY DEF Complete, Whole, PadEnded, Top
  <1>4. active' \subseteq Branches
    BY DEF Inv, ListTypes
  <1> QED  BY <1>1, <1>2, <1>3, <1>4, RenewingComplete

\* A flush that has come to a branch leaves it nothing of before.
LEMMA TeeFlushesComplete ==
    ASSUME Inv, Order, Complete, TeeFlushes
    PROVE  Complete'
  <1>1. UNCHANGED <<hasSegment, timeline, active, owed, todo, asked, source, failures, phase,
                    context>>
    BY DEF TeeFlushes, playback, pipeline, topology
  <1>2. tee.at = "flowing" /\ tee.left # {}
    BY DEF TeeFlushes
  <1>3. PICK b \in Branches : b = Branch /\ b \in tee.left
    BY <1>2, BranchIn DEF Inv
  <1>4. tee' = [tee EXCEPT !.left = tee.left \ {b}]
    BY <1>3 DEF TeeFlushes
  <1>5. tee'.at = "flowing" /\ tee'.msg = tee.msg
    BY <1>2, <1>4 DEF Inv, TeeTypes
  <1>6. tee.msg = "Flush" /\ asked = "Flush"
    BY <1>2 DEF Order, Begun, Inv, Plan
  <1>7. Renewing /\ Renewing'
    BY <1>1, <1>6 DEF Renewing
  <1>8. PICK flush \in ItemsTo(timeline) : flush = FlushOf(timeline) /\ flush.is = "flush"
    <2>1. FlushOf(timeline) \in ItemsTo(timeline)
      BY ItemTypes DEF Inv
    <2> QED  BY <2>1 DEF FlushOf
  <1>9. IF b \in active
        THEN pad' = [pad EXCEPT ![b].flushing = TRUE] /\ got' = [got EXCEPT ![b] = <<flush>>]
        ELSE UNCHANGED <<pad, got>>
    BY <1>3, <1>8 DEF TeeFlushes
  <1>10. \A d \in Branches : /\ d # b \/ b \notin active => got'[d] = got[d] /\ pad'[d] = pad[d]
                             /\ pad'[d].by = pad[d].by
    BY <1>9 DEF Inv, TerminalTypes
  <1>11. b \in active => got'[b] = <<flush>> /\ pad'[b].flushing
    BY <1>9 DEF Inv, TerminalTypes
  <1>12. \A d \in Branches : Pending(d)' = Pending(d)
    BY <1>1, <1>2, <1>5 DEF Pending
  <1>13. Unbuilt'
    <2>1. b \in active => pad[b].by # "unbuilt"
      BY DEF Inv, Locks, ListTypes
    <2> QED  BY <1>10, <2>1 DEF Complete, Unbuilt
  <1>14. GotTypes'
    <2>1. PICK items : items = ItemsTo(timeline)
      OBVIOUS
    <2>2. <<flush>> \in Seq(items) /\ \A d \in Branches : got[d] \in Seq(items)
      BY <1>8, <2>1 DEF Complete, GotTypes
    <2>3. \A d \in Branches : got'[d] \in Seq(items)
      BY <1>10, <1>11, <2>2
    <2> QED  BY <1>1, <2>1, <2>3 DEF GotTypes
  <1>15. Emptied'
    <2> SUFFICES ASSUME NEW d \in Branches, NEW n \in Nat PROVE ~Comes(d, n)'
      BY DEF Emptied
    <2>1. ~Comes(d, n)
      BY <1>7 DEF Complete, Emptied
    <2>2. CASE d # b \/ b \notin active
      BY <1>1, <1>10, <1>12, <2>1, <2>2 DEF Comes
    <2>3. CASE d = b /\ b \in active
      <3>1. PICK s : s = <<flush>>
        OBVIOUS
      <3>2. Len(s) = 1 /\ s[1] = flush
        BY <3>1
      <3>3. ~Has(s, Buffer(timeline, n))
        BY <1>8, <3>2 DEF Has, Buffer
      <3> QED  BY <1>1, <1>11, <1>12, <2>1, <2>3, <3>1, <3>3 DEF Comes
    <2> QED  BY <2>2, <2>3
  <1>16. ASSUME NEW d \in Branches, d \in active' PROVE PadEnded(d)'
    <2>1. CASE d = b
      BY <1>1, <1>11, <1>16, <2>1 DEF PadEnded
    <2>2. CASE d # b
      BY <1>1, <1>10, <1>16, <2>2 DEF Complete, Whole, PadEnded, Top
    <2> QED  BY <2>1, <2>2
  <1>17. InHand' /\ Counted'
    BY <1>1, <1>5, <1>6 DEF Complete, InHand, Counted, Handing
  <1>18. Going'
    BY <1>1 DEF Complete, Going
  <1>19. active' \subseteq Branches
    BY <1>1 DEF Inv, ListTypes
  <1> QED  BY <1>7, <1>13, <1>14, <1>15, <1>16, <1>17, <1>18, <1>19, RenewingComplete

\* The flush done, the segment comes next, to branches nothing is kept for.
LEMMA FlushedComplete ==
    ASSUME Inv, Order, Complete, TeeFlowed, tee.msg = "Flush"
    PROVE  Complete'
  <1>1. UNCHANGED <<hasSegment, timeline, active, todo, pad, got, failures, phase, context>>
    BY DEF TeeFlowed, playback, topology, terminal
  <1>2. tee.at = "flowing" /\ tee.left = {} /\ asked = "Flush"
    BY DEF TeeFlowed, Inv, Plan
  <1>3. Acked /\ owed' = [b \in Branches |-> <<>>]
    BY DEF TeeFlowed, HandsOn
  <1>4. tee'.at = "idle"
    BY <1>3 DEF Acked, Idle
  <1>5. source'.at = source.at /\ source'.made = source.made /\ source'.from = source.from
    BY <1>3 DEF Acked, Inv, SourceTypes
  <1>6. Renewing /\ Renewing'
    <2>1. todo # <<>> /\ todo[1] = "Seek"
      BY <1>2 DEF Inv, Plan
    <2> QED  BY <1>1, <2>1 DEF Renewing
  <1>7. \A b \in Branches : Pending(b)' = <<>>
    BY <1>3, <1>4 DEF Pending
  <1>8. InHand' /\ Counted'
    BY <1>1, <1>4, <1>5 DEF Complete, InHand, Counted, Handing
  <1>9. Going'
    <2>1. phase = "paused"
      BY <1>2 DEF Inv, Plan
    <2> QED  BY <1>1, <2>1 DEF Going
  <1>10. RenewingStands
    BY <1>1, <1>6, <1>7 DEF RenewingStands
  <1> QED  BY <1>6, <1>8, <1>9, <1>10, RenewingStandsComplete

\* And so it is handed out: every flushed branch waits for it.
LEMMA SoughtComplete ==
    ASSUME Inv, Order, Complete, TeeFlowed, tee.msg = "Seek"
    PROVE  Complete'
  <1>1. UNCHANGED <<hasSegment, timeline, active, attached, todo, pad, got, asked, source, owed,
                    lost, failures, phase, context>>
    BY DEF TeeFlowed, HandsOn, playback, topology, terminal
  <1>2. tee.at = "flowing" /\ asked = "Seek"
    BY DEF TeeFlowed, Inv, Plan
  <1>3. PICK item \in ItemsTo(timeline) :
            item = Segment(timeline, TRUE) /\ item.is = "segment"
    <2>1. Segment(timeline, TRUE) \in ItemsTo(timeline)
      BY ItemTypes DEF Inv
    <2> QED  BY <2>1 DEF Segment
  <1>4. HandOut(item)
    BY <1>3 DEF TeeFlowed, HandsOn
  <1>5. tee'.at = "handing" /\ tee'.item = item /\ tee'.left = attached
    BY <1>4 DEF HandOut, Inv, TeeTypes
  <1>6. Renewing
    BY <1>2 DEF Renewing
  <1>7. ~Renewing'
    <2>1. todo[1] = "Preroll"
      BY <1>2 DEF Inv, Plan
    <2> QED  BY <1>1, <1>2, <1>5, <2>1 DEF Renewing
  <1>8. \A b \in Branches : Pending(b) = owed[b] /\ Pending(b)' = owed[b]
    BY <1>1, <1>2, <1>5 DEF Pending
  <1>9. source.from = source.made /\ source.at = "running" /\ source.made \in Int
    BY <1>2 DEF Complete, InHand, Inv, SourceTypes
  <1>10. \A b \in Branches : \A n \in Nat : ~Comes(b, n)'
    BY <1>1, <1>6, <1>8 DEF Complete, Emptied, Comes
  <1>11. Unbuilt' /\ GotTypes' /\ Counted' /\ Going'
    BY <1>1 DEF Complete, Unbuilt, GotTypes, Counted, Going
  <1>12. InHand'
    BY <1>1, <1>3, <1>5, <1>9 DEF InHand
  <1>13. Emptied'
    BY <1>7 DEF Emptied
  <1>14. ASSUME NEW b \in active' PROVE Whole(b)'
    <2>1. b \in active /\ b \in attached /\ b \in Branches
      BY <1>1 DEF Inv, ListTypes
    <2>2. Waiting(b)'
      BY <1>5, <2>1 DEF Waiting, Handing
    <2>3. Reach(b)' = source.made
      BY <1>1, <1>3, <1>5 DEF Reach
    <2>4. Gapless(b)'
      <3>1. \A n \in Nat : ~(source'.from < n /\ n <= Reach(b)')
        BY <1>1, <1>9, <2>3
      <3> QED  BY <1>10, <2>1, <3>1 DEF Gapless
    <2>5. SegmentNext(b)'
      BY <1>1, <1>3, <1>5, <2>2 DEF SegmentNext
    <2>6. EndNext(b)'
      BY <2>2 DEF EndNext
    <2>7. PadEnded(b)'
      BY <1>1, <2>1 DEF Complete, Whole, PadEnded, Top
    <2> QED  BY <2>4, <2>5, <2>6, <2>7 DEF Whole
  <1> QED  BY <1>11, <1>12, <1>13, <1>14 DEF Complete

\* What is left of a message once the branches have been told.
LEMMA TeeFlowedComplete ==
    ASSUME Inv, Order, Complete, TeeFlowed
    PROVE  Complete'
  <1>1. UNCHANGED <<hasSegment, timeline, active, todo, pad, got, failures, phase, context>>
    BY DEF TeeFlowed, playback, topology, terminal
  <1>2. tee.at = "flowing" /\ tee.left = {} /\ tee.msg = asked /\ tee.msg # None
    BY DEF TeeFlowed, Inv, Plan
  <1>3. CASE tee.msg \in {"Flush", "Seek"}
    BY <1>3, FlushedComplete, SoughtComplete
  <1>4. CASE HandsOn(tee.msg)
    <2>1. /\ tee' = [tee EXCEPT !.at = "owing", !.left = {b \in attached : owed[b] # <<>>}]
          /\ owed' = [b \in Branches |-> IF b \in attached THEN owed[b] ELSE <<>>]
          /\ UNCHANGED <<asked, source, lost>>
      BY <1>4 DEF TeeFlowed, HandsOn
    <2>2. tee'.at = "owing"
      BY <2>1 DEF Inv, TeeTypes
    <2>3. asked \in {"Pause", "Resume", "Seek", "Preroll"} /\ asked \notin {"Flush", "Seek"}
      BY <1>2, <1>4 DEF HandsOn
    <2>4. ~Renewing /\ ~Renewing'
      BY <1>1, <2>1, <2>3, NoSeekNext DEF Renewing
    <2>5. tee'.at \notin Handing /\ tee.at \notin Handing
      BY <1>2, <2>2 DEF Handing
    <2>6. \A b \in Branches : /\ Pending(b) = owed[b] /\ Pending(b)' = owed'[b]
                              /\ ~Waiting(b) /\ ~Waiting(b)'
      BY <1>2, <2>2, <2>5 DEF Pending, Waiting
    <2>7. \A b \in Branches : owed'[b] = owed[b] \/ (owed'[b] = <<>> /\ b \notin active)
      BY <2>1 DEF Inv, ListTypes
    <2>8. TeeStands
      BY <1>1, <2>1, <2>2, <2>4, <2>5, <2>6, <2>7 DEF TeeStands
    <2>9. \A b \in Branches : owed[b] = <<>> => owed'[b] = <<>>
      BY <2>7
    <2>10. Going'
      BY <1>1, <2>1, <2>9 DEF Complete, Going
    <2> QED  BY <2>8, <2>10, TeeStandsComplete
  <1>5. CASE tee.msg \notin {"Flush", "Seek"} /\ ~HandsOn(tee.msg)
    <2>1. Acked /\ UNCHANGED <<owed, lost>>
      BY <1>5 DEF TeeFlowed
    <2>2. TeeStands
      BY <1>1, <1>2, <1>5, <2>1, AckedStands
    <2>3. phase = "paused"
      <3>1. asked = "Pause"
        BY <1>2, <1>5 DEF HandsOn, Inv, PipeTypes, Message
      <3> QED  BY <3>1 DEF Inv, Plan
    <2>4. Going'
      BY <1>1, <2>3 DEF Going
    <2> QED  BY <2>2, <2>4, TeeStandsComplete
  <1> QED  BY <1>3, <1>4, <1>5

\* A message taken.
LEMMA SourceTakesComplete ==
    ASSUME Inv, Order, Complete, SourceTakes
    PROVE  Complete'
  <1>1. UNCHANGED <<hasSegment, timeline, active, todo, pad, got, asked, owed, lost, failures,
                    phase, context>>
    BY DEF SourceTakes, playback, pipeline, topology, terminal
  <1>2. asked # None /\ tee.at = "idle" /\ source.at # "begin"
    BY DEF SourceTakes
  <1>3. tee'.at = "flowing" /\ tee'.msg = asked
    BY DEF SourceTakes, Inv, TeeTypes
  <1>4. tee'.at \notin Handing /\ tee.at \notin Handing
    BY <1>2, <1>3 DEF Handing
  <1>5. Renewing' <=> Renewing
    BY <1>1, <1>2, <1>3 DEF Renewing
  <1>6. \A b \in Branches : /\ Pending(b)' = Pending(b)
                            /\ ~Waiting(b) /\ ~Waiting(b)'
    BY <1>1, <1>2, <1>3, <1>4 DEF Pending, Waiting
  <1>7. Going'
    BY <1>1 DEF Complete, Going
  <1>8. CASE asked = "Seek"
    <2>1. PICK n \in Targets : source' = [source EXCEPT !.at = "running", !.made = n, !.from = n]
      BY <1>8 DEF SourceTakes
    <2>2. source'.at = "running" /\ source'.made = n /\ source'.from = n /\ n \in Int
      BY <2>1, Numbers DEF Inv, SourceTypes
    <2>3. InHand' /\ Counted'
      BY <1>1, <1>4, <2>2 DEF Complete, InHand, Counted
    <2>4. Renewing
      BY <1>2, <1>8 DEF Renewing
    <2>5. RenewingStands
      BY <1>1, <1>5, <1>6, <2>4 DEF RenewingStands
    <2> QED  BY <1>7, <2>3, <2>4, <2>5, RenewingStandsComplete
  <1>9. CASE asked # "Seek"
    <2>1. source' = source
      BY <1>9 DEF SourceTakes
    <2>2. TeeStands
      BY <1>1, <1>3, <1>4, <1>5, <1>6, <1>9, <2>1 DEF TeeStands
    <2> QED  BY <1>7, <2>2, TeeStandsComplete
  <1> QED  BY <1>8, <1>9

\* A flush sent, there is nothing of its timeline yet.
LEMMA AsksComplete ==
    ASSUME Inv, Order, Complete, Asks
    PROVE  Complete'
  <1>1. UNCHANGED <<got, owed, tee, hasSegment, source, active, pad, lost, failures>>
    BY DEF Asks, topology, terminal
  <1>2. todo \in ToPlaying \cup ToPaused /\ asked = None /\ Head(todo) = todo[1] /\ todo # <<>>
    BY Leaves DEF Inv, PipeTypes, Asks, StageLeaves
  <1>3. StageLeaves(todo)
    BY <1>2, Leaves
  <1>4. Renewing <=> todo[1] = "Seek"
    BY <1>2 DEF Renewing, None
  <1>5. Going'
    <2>1. todo[1] \in {"Flush", "Seek", "Preroll", "Step"} => phase = "paused"
      BY <1>2 DEF Inv, Plan
    <2>2. todo[1] \in Stage /\ todo[1] # "await"
      BY <1>2, <1>3 DEF StageLeaves, Asks
    <2>3. CASE todo[1] = "Resume"
      <3>1. context' = NoContext /\ asked' = "Resume"
        BY <1>2, <2>3 DEF Asks
      <3> QED  BY <3>1 DEF Going
    <2>4. CASE todo[1] \in {"Pause", "Preroll"}
      <3>1. phase' # "playing"
        BY <1>2, <2>4 DEF Asks
      <3> QED  BY <3>1 DEF Going
    <2>5. CASE todo[1] \in {"Flush", "Seek", "Step"}
      <3>1. phase' \in {phase, "prerolling"}
        BY <1>2, <2>5 DEF Asks
      <3> QED  BY <2>1, <2>5, <3>1 DEF Going
    <2> QED  BY <2>2, <2>3, <2>4, <2>5 DEF Stage, Message
  <1>6. CASE todo[1] = "Flush"
    <2>1. timeline' = timeline + 1 /\ asked' = "Flush" /\ timeline \in Nat
      BY <1>2, <1>6 DEF Asks, Inv, PipeTypes
    <2>2. Renewing'
      BY <2>1 DEF Renewing
    <2>3. \A b \in Branches : Pending(b)' = Pending(b) /\ Top(b)' = Top(b)
      BY <1>1 DEF Pending, Branch, Top
    <2>4. Emptied'
      <3> SUFFICES ASSUME NEW b \in Branches, NEW n \in Nat PROVE ~Comes(b, n)'
        BY DEF Emptied
      <3>1. PICK later \in Nat : later = timeline + 1 /\ timeline < later
        BY <2>1
      <3>2. ~Has(got[b], Buffer(later, n)) /\ ~Has(Pending(b), Buffer(later, n))
        BY <3>1, NotYet DEF Complete
      <3> QED  BY <1>1, <2>1, <2>3, <3>1, <3>2 DEF Comes
    <2>5. GotTypes'
      <3>1. PICK less, more : less = ItemsTo(timeline) /\ more = ItemsTo(timeline + 1)
        OBVIOUS
      <3>2. less \subseteq more
        BY <2>1, <3>1, ItemsOfLater
      <3>3. \A b \in Branches : got[b] \in Seq(less)
        BY <3>1 DEF Complete, GotTypes
      <3>4. \A b \in Branches : got[b] \in Seq(more)
        BY <3>2, <3>3, SeqOfMore
      <3> QED  BY <1>1, <2>1, <3>1, <3>4 DEF GotTypes
    <2>6. Unbuilt' /\ Counted'
      BY <1>1 DEF Complete, Unbuilt, Counted
    <2>7. InHand'
      <3>1. tee.at = "idle" /\ tee' = tee
        BY <1>1, <1>2, <1>6 DEF Inv, Plan, Still
      <3> QED  BY <1>1, <3>1 DEF Complete, InHand, Handing, AtBranch
    <2>8. active' \subseteq Branches
      BY <1>1 DEF Inv, ListTypes
    <2>9. \A b \in Branches : b \in active' => PadEnded(b)'
      BY <1>1, <2>3 DEF Complete, Whole, PadEnded
    <2> QED  BY <1>5, <2>2, <2>4, <2>5, <2>6, <2>7, <2>8, <2>9, RenewingComplete
  <1>7. CASE todo[1] = "Seek"
    <2>1. timeline' = timeline /\ asked' = "Seek"
      BY <1>2, <1>7 DEF Asks
    <2>2. tee.at = "idle"
      BY <1>2, <1>7 DEF Inv, Plan, Still
    <2>3. Renewing'
      BY <1>1, <2>1, <2>2 DEF Renewing
    <2> QED  BY <1>1, <1>4, <1>5, <1>7, <2>1, <2>3, QuietComplete
  <1>8. CASE todo[1] \notin {"Flush", "Seek"}
    <2>1. timeline' = timeline /\ asked' \notin {"Flush", "Seek"}
      BY <1>2, <1>8 DEF Asks, None
    <2>2. todo' = <<>> \/ todo' = Tail(todo)
      BY DEF Asks
    <2>3. ~(Tail(todo) # <<>> /\ Tail(todo)[1] = "Seek")
      <3>1. todo[1] \in {"Resume", "Pause", "await", "Preroll", "Step"}
        BY <1>3, <1>8 DEF StageLeaves, Stage, Message
      <3>2. CASE todo[1] \in {"Preroll", "Step"}
        <4>1. Tail(todo) \in Awaiting
          BY <1>3, <3>2 DEF StageLeaves
        <4>2. Tail(todo)[1] = "await"
          BY <4>1, AwaitingIs, Leaves DEF StageLeaves
        <4> QED  BY <4>2
      <3>3. CASE todo[1] \in {"Resume", "Pause", "await"}
        BY <1>3, <3>3 DEF StageLeaves
      <3> QED  BY <3>1, <3>2, <3>3
    <2>4. ~Renewing /\ ~Renewing'
      BY <1>4, <1>8, <2>1, <2>2, <2>3 DEF Renewing
    <2> QED  BY <1>1, <1>5, <2>1, <2>4, QuietComplete
  <1> QED  BY <1>6, <1>7, <1>8

\* What is handed out of what the source makes next has all come by or waits for it.
HandsNext(item) ==
    /\ tee.at = "idle" /\ tee'.at = "handing" /\ tee'.item = item /\ tee'.left = attached
    /\ ~Renewing /\ ~Renewing'
    /\ UNCHANGED <<hasSegment, timeline, active, attached, pad, got, owed, lost, failures>>
    /\ source'.from = source.from
    /\ source'.made = IF item.is = "buffer" THEN source.made + 1 ELSE source.made
    /\ source'.at = "ended" <=> item.is = "eos"

\* A buffer, or the end, is to come to every branch attached.
LEMMA HandsNextComplete ==
    ASSUME Inv, Complete, NEW item, HandsNext(item), InHand', Counted', Going'
    PROVE  Complete'
  <1> USE DEF HandsNext
  <1>1. Unbuilt' /\ GotTypes' /\ Emptied'
    BY DEF Complete, Unbuilt, GotTypes, Emptied
  <1>2. ASSUME NEW b \in active' PROVE Whole(b)'
    <2>1. b \in active /\ b \in attached /\ b \in Branches /\ Whole(b)
      BY DEF Complete, Inv, ListTypes
    <2>2. Pending(b)' = Pending(b) /\ Top(b)' = Top(b)
      BY DEF Pending, Top
    <2>3. ~Waiting(b) /\ Waiting(b)'
      BY <2>1 DEF Waiting, Handing
    <2>4. \A n \in Nat : Comes(b, n)' <=> Comes(b, n)
      BY <2>2 DEF Comes
    <2>5. Reach(b)' = Reach(b)
      <3>1. source.made \in Int
        BY DEF Inv, SourceTypes
      <3> QED  BY <2>3, <3>1 DEF Reach
    <2>6. b \notin lost' => Gapless(b)'
      BY <2>1, <2>4, <2>5 DEF Whole, Gapless
    <2>7. SegmentNext(b)'
      BY <2>1, <2>2, <2>3 DEF Whole, SegmentNext
    <2>8. EndNext(b)'
      BY <2>3 DEF EndNext
    <2>9. PadEnded(b)'
      BY <2>1, <2>2 DEF Whole, PadEnded
    <2> QED  BY <2>6, <2>7, <2>8, <2>9 DEF Whole
  <1> QED  BY <1>1, <1>2 DEF Complete

\* The first segment.
LEMMA SourceBeginsComplete ==
    ASSUME Inv, Order, Complete, SourceBegins
    PROVE  Complete'
  <1>1. UNCHANGED <<hasSegment, timeline, active, attached, todo, pad, got, asked, owed, lost,
                    failures, phase, context>>
    BY DEF SourceBegins, playback, pipeline, topology, terminal
  <1>2. source.at = "begin" /\ tee.at = "idle"
    BY DEF SourceBegins, Inv, Plan
  <1>3. PICK item \in {Segment(timeline, FALSE)} :
            item = Segment(timeline, FALSE) /\ item.is = "segment"
    BY DEF Segment
  <1>4. HandOut(item) /\ source' = [source EXCEPT !.at = "running"]
    BY <1>3 DEF SourceBegins
  <1>5. tee'.at = "handing" /\ tee'.item = item /\ tee'.left = attached
    BY <1>4 DEF HandOut, Inv, TeeTypes
  <1>6. source'.at = "running" /\ source'.made = source.made /\ source'.from = source.from
    BY <1>4 DEF Inv, SourceTypes
  <1>7. ~Renewing
    <2>1. asked \in {None, "Pause", "Resume"}
      BY <1>2 DEF Inv, Plan, PipeTypes, Message
    <2>2. asked = None => ~(todo # <<>> /\ todo[1] = "Seek")
      BY <1>2 DEF Inv, Plan, Still
    <2> QED  BY <2>1, <2>2, NoSeekNext DEF Renewing, None
  <1>8. ~Renewing'
    BY <1>1, <1>5, <1>7 DEF Renewing
  <1>9. HandsNext(item)
    BY <1>1, <1>2, <1>3, <1>5, <1>6, <1>7, <1>8 DEF HandsNext
  <1>10. InHand'
    BY <1>2, <1>3, <1>5, <1>6 DEF Complete, Counted, InHand
  <1>11. Counted' /\ Going'
    BY <1>1, <1>6 DEF Complete, Counted, Going
  <1> QED  BY <1>9, <1>10, <1>11, HandsNextComplete

\* A buffer.
LEMMA SourceProducesComplete ==
    ASSUME Inv, Order, Complete, SourceProduces
    PROVE  Complete'
  <1>1. /\ UNCHANGED <<hasSegment, timeline, active, attached, todo, pad, got, asked, owed, lost,
                       failures, phase, context>>
        /\ asked = None /\ ~source.held /\ tee.at = "idle" /\ source.at = "running"
    BY DEF SourceProduces, MayProduce, playback, pipeline, topology, terminal
  <1>2. PICK item \in {Buffer(timeline, source.made + 1)} :
            /\ item = Buffer(timeline, source.made + 1)
            /\ item.is = "buffer" /\ item.n = source.made + 1
    BY DEF Buffer
  <1>3. HandOut(item) /\ source' = [source EXCEPT !.made = source.made + 1]
    BY <1>2 DEF SourceProduces
  <1>4. tee'.at = "handing" /\ tee'.item = item /\ tee'.left = attached
    BY <1>3 DEF HandOut, Inv, TeeTypes
  <1>5. /\ source'.at = "running" /\ source'.made = source.made + 1
        /\ source'.from = source.from /\ source.made \in Int /\ source.from \in Int
    BY <1>1, <1>3 DEF Inv, SourceTypes
  <1>6. ~Renewing /\ ~Renewing'
    <2>1. ~(todo # <<>> /\ todo[1] = "Seek")
      BY <1>1 DEF Inv, Plan, Still
    <2> QED  BY <1>1, <2>1 DEF Renewing, None
  <1>7. HandsNext(item)
    BY <1>1, <1>2, <1>4, <1>5, <1>6 DEF HandsNext
  <1>8. Counted' /\ Going'
    BY <1>1, <1>5 DEF Complete, Counted, Going
  <1>9. InHand'
    BY <1>2, <1>4, <1>5 DEF Complete, Counted, InHand
  <1> QED  BY <1>7, <1>8, <1>9, HandsNextComplete

\* And the end.
LEMMA SourceEndsComplete ==
    ASSUME Inv, Order, Complete, SourceEnds
    PROVE  Complete'
  <1>1. /\ UNCHANGED <<hasSegment, timeline, active, attached, todo, pad, got, asked, owed, lost,
                       failures, phase, context>>
        /\ asked = None /\ ~source.held /\ tee.at = "idle" /\ source.at = "running"
    BY DEF SourceEnds, MayProduce, playback, pipeline, topology, terminal
  <1>2. PICK item \in {Eos(timeline)} : item = Eos(timeline) /\ item.is = "eos"
    BY DEF Eos
  <1>3. HandOut(item) /\ source' = [source EXCEPT !.at = "ended"]
    BY <1>2 DEF SourceEnds
  <1>4. tee'.at = "handing" /\ tee'.item = item /\ tee'.left = attached
    BY <1>3 DEF HandOut, Inv, TeeTypes
  <1>5. source'.at = "ended" /\ source'.made = source.made /\ source'.from = source.from
    BY <1>3 DEF Inv, SourceTypes
  <1>6. ~Renewing /\ ~Renewing'
    <2>1. ~(todo # <<>> /\ todo[1] = "Seek")
      BY <1>1 DEF Inv, Plan, Still
    <2> QED  BY <1>1, <2>1 DEF Renewing, None
  <1>7. HandsNext(item)
    BY <1>1, <1>2, <1>4, <1>5, <1>6 DEF HandsNext
  <1>8. Counted' /\ Going'
    BY <1>1, <1>5 DEF Complete, Counted, Going
  <1>9. InHand'
    <2>1. timeline' = timeline /\ Eos(timeline)' = Eos(timeline)
      BY <1>1 DEF Eos
    <2> QED  BY <1>2, <1>4, <1>5, <2>1 DEF InHand
  <1> QED  BY <1>7, <1>8, <1>9, HandsNextComplete

\* What is pushed to a branch that is there gets past its pad.
LEMMA FirstPasses ==
    ASSUME Inv, Order, Complete, NEW b \in Branches, b \in active, NEW item,
           Pending(b) # <<>>, item = Pending(b)[1], ~Waiting(b), ~Renewing
    PROVE  /\ Passes(b, item) /\ item \in ItemsOf(timeline) /\ Rank(Top(b)) < Rank(item)
           /\ pad[b].flushing => item.is = "segment"
           /\ Pending(b) \in Seq(ItemsTo(timeline))
  <1>1. Queued(b) /\ Whole(b)
    BY DEF Order, InQueue, Live, Complete
  <1>2. Pending(b) \in Seq(ItemsTo(timeline)) /\ Made \in 0 .. Length + 1 /\ Top(b) \in Items
    BY QueueTypes, MadeIs DEF Inv
  <1>3. 1 \in 1 .. Len(Pending(b))
    <2>1. PICK s, items : s = Pending(b) /\ items = ItemsTo(timeline)
      OBVIOUS
    <2>2. s \in Seq(items) /\ s # <<>>
      BY <1>2, <2>1
    <2>3. Len(s) \in Nat /\ Len(s) >= 1
      BY <2>2, FirstIs
    <2> QED  BY <2>1, <2>3
  <1>4. asked # "Flush"
    BY DEF Renewing
  <1>5. item \in ItemsOf(timeline) /\ Rank(Top(b)) < Rank(item) /\ Rank(item) <= Made
    BY <1>1, <1>3, <1>4 DEF Queued, Rising
  <1>6. item \in Items /\ item.is # "flush"
    BY <1>5 DEF ItemsOf, ItemsTo
  <1>7. pad[b].flushing => item = Segment(timeline, TRUE)
    BY <1>1 DEF Whole, SegmentNext
  <1>8. pad[b].flushing => item.is = "segment" /\ item.n = 1
    BY <1>7 DEF Segment
  <1>9. CASE item.is = "segment"
    BY <1>2, <1>5, <1>8, <1>9 DEF Passes
  <1>10. CASE item.is = "buffer"
    BY <1>2, <1>5, <1>8, <1>10 DEF Passes
  <1>11. CASE item.is = "eos"
    <2>1. ~pad[b].flushing
      BY <1>8, <1>11
    <2>2. ~pad[b].ended
      <3> SUFFICES ASSUME pad[b].ended PROVE FALSE
        OBVIOUS
      <3>1. Top(b).is = "eos"
        BY <1>1, <2>1 DEF Whole, PadEnded
      <3>2. Rank(Top(b)) = Length + 1 /\ Rank(item) = Length + 1 /\ Length \in Nat
        BY <1>2, <1>6, <1>11, <3>1, RankIs
      <3> QED  BY <1>5, <3>2
    <2> QED  BY <1>2, <1>5, <1>8, <1>11, <2>1, <2>2 DEF Passes
  <1> QED  BY <1>6, <1>9, <1>10, <1>11, RankIs

\* The first of what is on its way to a branch pushed, and all else where it was.
PushStands(b, item) ==
    /\ FirstGoes(b, item) /\ ~Waiting(b) /\ ~Renewing /\ ~Renewing'
    /\ \A d \in Branches : Waiting(d)' <=> Waiting(d)
    /\ UNCHANGED <<todo, lost>>

\* It has come, where it was to come.
LEMMA PushedWhole ==
    ASSUME Inv, Order, Complete, NEW t, NEW b \in Branches, NEW item \in ItemsTo(timeline), NEW by,
           NEW fails \in BOOLEAN, Push(t, b, item, by, fails), PushStands(b, item), b \in active
    PROVE  Whole(b)'
  <1> USE DEF PushStands, FirstGoes
  <1>1. /\ Passes(b, item) /\ item \in ItemsOf(timeline) /\ Rank(Top(b)) < Rank(item)
        /\ pad[b].flushing => item.is = "segment"
        /\ Pending(b) \in Seq(ItemsTo(timeline))
    BY FirstPasses
  <1>2. Whole(b) /\ GotTypes /\ failures \in Nat
    BY DEF Complete, Counted
  <1>3. /\ got'[b] = IF ~fails THEN Append(got[b], item) ELSE got[b]
        /\ pad'[b].ended <=> item.is = "eos" /\ ~fails
        /\ pad'[b].flushing <=> pad[b].flushing /\ item.is # "segment"
        /\ failures' = 0 => failures = 0 /\ ~fails
        /\ timeline' = timeline
        /\ fails => item.is = "eos"
    BY <1>1, <1>2, PushGives
  <1>4. item \in Items /\ item.tl = timeline /\ item.is # "flush" /\ OfStream(item)
    <2>1. timeline # -1
      BY DEF Inv, PipeTypes
    <2> QED  BY <1>1, <2>1 DEF ItemsOf, ItemsTo, OfStream
  <1>5. Top(b)' = IF ~fails THEN item ELSE Top(b)
    BY <1>1, <1>4, PushHands DEF Inv
  <1>6. \A x : Has(Pending(b), x) <=> x = item \/ Has(Pending(b)', x)
    <2>1. PICK s, items : s = Pending(b) /\ items = ItemsTo(timeline)
      OBVIOUS
    <2>2. s \in Seq(items) /\ s # <<>>
      BY <1>1, <2>1
    <2>3. \A x : Has(s, x) <=> x = s[1] \/ Has(Tail(s), x)
      <3> TAKE x
      <3> QED  BY <2>2, HasIs
    <2> QED  BY <2>1, <2>3
  <1>7. \A x : Has(Append(got[b], item), x) <=> Has(got[b], x) \/ x = item
    <2>1. PICK s, items : s = got[b] /\ items = ItemsTo(timeline)
      OBVIOUS
    <2>2. s \in Seq(items) /\ item \in items
      BY <1>2, <2>1 DEF GotTypes
    <2>3. \A x : Has(Append(s, item), x) <=> Has(s, x) \/ x = item
      <3> TAKE x
      <3>1. \A y \in items : Has(Append(s, y), x) <=> Has(s, x) \/ x = y
        BY <2>2, HasIs
      <3> QED  BY <2>2, <3>1
    <2> QED  BY <2>1, <2>3
  <1>8. \A n \in Nat : Comes(b, n)' <=> Comes(b, n)
    <2> SUFFICES ASSUME NEW n \in Nat PROVE Comes(b, n)' <=> Comes(b, n)
      OBVIOUS
    <2>1. PICK x : x = Buffer(timeline, n)
      OBVIOUS
    <2>2. x.is = "buffer"
      BY <2>1 DEF Buffer
    <2>3. fails => x # item
      BY <1>3, <2>2
    <2>4. Has(got'[b], x) \/ Has(Pending(b)', x) <=> Has(got[b], x) \/ Has(Pending(b), x)
      <3>1. CASE fails
        BY <1>3, <1>6, <2>3, <3>1
      <3>2. CASE ~fails
        BY <1>3, <1>6, <1>7, <3>2
      <3> QED  BY <3>1, <3>2
    <2> QED  BY <1>3, <2>1, <2>4 DEF Comes
  <1>9. Reach(b)' = Reach(b)
    BY DEF Reach
  <1>10. b \notin lost' => Gapless(b)'
    BY <1>2, <1>8, <1>9 DEF Whole, Gapless
  <1>11. SegmentNext(b)'
    BY <1>1, <1>3 DEF SegmentNext
  <1>12. EndNext(b)'
    <2> SUFFICES ASSUME source.at = "ended", failures' = 0, b \in hasSegment
                 PROVE  Has(Pending(b)', Eos(timeline)) \/ Top(b)' = Eos(timeline)
      BY <1>3 DEF EndNext
    <2>1. failures = 0 /\ Top(b)' = item
      BY <1>3, <1>5
    <2>2. Has(Pending(b), Eos(timeline)) \/ Top(b) = Eos(timeline)
      BY <1>2, <2>1 DEF Whole, EndNext
    <2>3. Top(b) # Eos(timeline)
      <3> SUFFICES ASSUME Top(b) = Eos(timeline) PROVE FALSE
        OBVIOUS
      <3>1. Top(b).is = "eos" /\ Top(b) \in Items
        BY QueueTypes DEF Eos, Inv
      <3>2. Rank(Top(b)) = Length + 1
        BY <3>1, RankIs
      <3>3. Rank(item) <= Length + 1 /\ Rank(item) \in Int /\ Length \in Nat
        BY <1>4, RankIs
      <3> QED  BY <1>1, <3>2, <3>3
    <2> QED  BY <1>6, <2>1, <2>2, <2>3
  <1>13. PadEnded(b)'
    BY <1>3, <1>5 DEF PadEnded
  <1> QED  BY <1>10, <1>11, <1>12, <1>13 DEF Whole

\* And nothing else has changed.
LEMMA PushedComplete ==
    ASSUME Inv, Order, Complete, NEW t, NEW b \in Branches, NEW item \in ItemsTo(timeline),
           NEW by \in {Source, None},
           NEW fails \in BOOLEAN, Push(t, b, item, by, fails), PushStands(b, item), InHand', Going'
    PROVE  Complete'
  <1> USE DEF PushStands, FirstGoes
  <1>1. /\ \A d \in Branches \ {b} : got'[d] = got[d] /\ pad'[d] = pad[d]
        /\ pad'[b].by = by /\ GotTypes'
        /\ failures' \in Nat /\ (failures' = 0 => failures = 0)
        /\ timeline' = timeline
    <2>1. GotTypes /\ failures \in Nat
      BY DEF Complete, Counted
    <2>2. /\ \A d \in Branches \ {b} : got'[d] = got[d] /\ pad'[d] = pad[d]
          /\ pad'[b].by = by /\ GotTypes'
          /\ failures \in Nat => failures' \in Nat /\ (failures' = 0 => failures = 0 /\ ~fails)
          /\ timeline' = timeline
      BY <2>1, PushGives
    <2> QED  BY <2>1, <2>2
  <1>2. Unbuilt'
    BY <1>1, Numbers DEF Complete, Unbuilt
  <1>3. Counted' /\ Emptied'
    BY <1>1 DEF Complete, Counted, Emptied
  <1>4. ASSUME NEW d \in active' PROVE Whole(d)'
    <2>1. CASE d = b
      BY <2>1, PushedWhole
    <2>2. CASE d # b
      <3>1. d \in active /\ d \in Branches
        BY DEF Inv, ListTypes
      <3>2. LeftAlone(d)
        BY <1>1, <2>2, <3>1 DEF LeftAlone
      <3> QED  BY <3>1, <3>2, WholeStays DEF Complete
    <2> QED  BY <2>1, <2>2
  <1> QED  BY <1>1, <1>2, <1>3, <1>4 DEF Complete

\* So the Tee pushes the first of what it has in hand.
LEMMA TeePushesComplete ==
    ASSUME Inv, Order, Complete, TeePushes
    PROVE  Complete'
  <1>1. UNCHANGED <<todo, asked, source, owed, timeline, lost, phase>>
    BY DEF TeePushes, Push, pipeline
  <1>2. tee.at = "pushing"
    BY DEF TeePushes
  <1>3. PICK b, item, by, fails : FirstPushed(b, item, by, fails)
    BY PushesFirst
  <1>4. /\ tee'.item = tee.item /\ tee'.at \in Handing /\ tee'.at # "flowing"
        /\ tee.at \in Handing
    BY <1>2, PushesFirst DEF Handing
  <1>5. ~Renewing /\ tee'.at \notin {"idle", "flowing"}
    BY <1>2, <1>4, BusyIsNot DEF Order, Handing
  <1>6. ~Renewing'
    BY <1>1, <1>5 DEF Renewing
  <1>7. PushStands(b, item)
    BY <1>1, <1>3, <1>5, <1>6 DEF FirstPushed, PushStands
  <1>8. InHand'
    BY <1>1, <1>4 DEF Complete, InHand
  <1>9. Going'
    <2>1. context = NoContext => context' = context
      BY <1>3 DEF FirstPushed, Push, NoContext
    <2> QED  BY <1>1, <2>1 DEF Complete, Going
  <1> QED  BY <1>3, <1>7, <1>8, <1>9, PushedComplete DEF FirstPushed

\* And what was kept.
LEMMA TeeHandsOwedComplete ==
    ASSUME Inv, Order, Complete, TeeHandsOwed
    PROVE  Complete'
  <1>1. UNCHANGED <<todo, asked, source, timeline, lost, phase>>
    BY DEF TeeHandsOwed, Push, pipeline
  <1>2. tee.at = "owingLocks" /\ tee'.at \in {"owing", "owingHolds"} /\ owed[Branch] # <<>>
    BY HandsFirst DEF TeeHandsOwed
  <1>3. PICK b, item, by, fails :
            FirstPushed(b, item, by, fails) /\ owed' = [owed EXCEPT ![b] = Tail(owed[b])]
    BY HandsFirst
  <1>4. ~Renewing
    BY <1>2, BusyIsNot DEF Order, Owing
  <1>5. ~Renewing'
    BY <1>1, <1>2, <1>4 DEF Renewing
  <1>6. PushStands(b, item)
    BY <1>1, <1>3, <1>4, <1>5 DEF FirstPushed, PushStands
  <1>7. InHand'
    BY <1>2 DEF InHand, Handing
  <1>8. Going'
    <2>1. context = NoContext => context' = context
      BY <1>3 DEF FirstPushed, Push, NoContext
    <2>2. b \in Branches /\ owed[b] # <<>>
      BY <1>2, <1>3 DEF FirstPushed
    <2>3. phase = "playing" => asked = "Resume"
      BY <2>2 DEF Complete, Going
    <2> QED  BY <1>1, <2>1, <2>3 DEF Complete, Going
  <1> QED  BY <1>3, <1>6, <1>7, <1>8, PushedComplete DEF FirstPushed

\* A branch passed by misses nothing its route lets by.
LEMMA PassedByWhole ==
    ASSUME Inv, Complete, NEW b \in Branches, b \in active, RoutedAway(b, tee.item),
           tee.at = "handing", Pending(b)' = Pending(b), Waiting(b), ~Waiting(b)',
           Renewing' <=> Renewing,
           UNCHANGED <<got, pad, timeline, source, lost, failures, hasSegment>>
    PROVE  Whole(b)'
  <1>1. Whole(b) /\ tee.item.is = "buffer" /\ tee.item.n \notin Takes[b]
    BY DEF Complete, RoutedAway
  <1>2. tee.item.n = source.made /\ source.at # "ended" /\ source.made \in Int
    BY <1>1 DEF Complete, InHand, Handing, Inv, SourceTypes
  <1>3. Reach(b) = source.made - 1 /\ Reach(b)' = source.made
    BY <1>1 DEF Reach
  <1>4. \A n \in Nat : Comes(b, n)' <=> Comes(b, n)
    BY DEF Comes
  <1>5. \A n \in Nat : n \in Takes[b] => (n <= Reach(b)' <=> n <= Reach(b))
    BY <1>1, <1>2, <1>3
  <1>6. \A n \in Nat : n <= Reach(b) => n <= Reach(b)'
    BY <1>2, <1>3
  <1>7. b \notin lost' => Gapless(b)'
    BY <1>1, <1>4, <1>5, <1>6 DEF Whole, Gapless
  <1>8. SegmentNext(b)'
    <2>1. tee.item # Segment(timeline, TRUE)
      BY <1>1 DEF Segment
    <2> QED  BY <1>1, <2>1 DEF Whole, SegmentNext
  <1>9. EndNext(b)'
    BY <1>2 DEF EndNext
  <1>10. PadEnded(b)'
    BY <1>1 DEF Whole, PadEnded, Top
  <1> QED  BY <1>7, <1>8, <1>9, <1>10 DEF Whole

\* What is kept for a branch, or about to be pushed to it, with the item handed out.
LEMMA AllIs ==
    ASSUME Inv, Order, tee.at = "handing", NEW b \in Branches, b \in active, b \in tee.left,
           NEW all \in {WithItem(b), owed[b] \o CatchUp(b) \o <<tee.item>>}
    PROVE  /\ \A x : Has(owed[b], x) => Has(all, x)
           /\ \A x : Has(all, x) => Has(owed[b], x) \/ x.is = "segment" \/ x = tee.item
           /\ owed[b] # <<>> => all # <<>> /\ all[1] = owed[b][1]
           /\ owed[b] = <<>> /\ tee.item.is = "segment" => all # <<>> /\ all[1] = tee.item
           /\ tee.item.is # "buffer" \/ all = owed[b] \o CatchUp(b) \o <<tee.item>> =>
                  Has(all, tee.item)
  <1>1. PICK front \in Seq(Items) :
            /\ front = IF CatchUp(b) = <<>> THEN owed[b] ELSE Owe(owed[b], CatchUp(b)[1])
            /\ front = owed[b] \o CatchUp(b)
    BY FrontIs
  <1>2. PICK item, kept, catch : item = tee.item /\ kept = owed[b] /\ catch = CatchUp(b)
    OBVIOUS
  <1>3. item \in Items /\ item.is \in {"buffer", "segment", "eos", "flush"}
    BY <1>2, QueueTypes, RankIs DEF Inv
  <1>4. kept \in Seq(Items) /\ catch \in Seq(Items) /\ Len(catch) <= 1
        /\ (catch # <<>> => Len(catch) = 1 /\ catch[1].is = "segment" /\ item.is # "segment")
    <2>1. ItemsTo(timeline) \subseteq Items
      BY DEF ItemsTo
    <2>2. kept \in Seq(ItemsTo(timeline))
      BY <1>2 DEF Inv, TeeTypes
    <2>3. /\ catch \in Seq(ItemsTo(timeline)) /\ Len(catch) <= 1
          /\ catch # <<>> => Len(catch) = 1 /\ catch[1].is = "segment"
      BY <1>2, CatchUpIs DEF Inv
    <2>4. catch # <<>> => item.is # "segment"
      BY <1>2 DEF CatchUp
    <2> QED  BY <2>1, <2>2, <2>3, <2>4, SeqOfMore
  <1>5. /\ Len(kept) \in Nat /\ Len(catch) \in 0 .. 1 /\ Len(front) = Len(kept) + Len(catch)
        /\ \A i \in 1 .. Len(kept) : front[i] = kept[i]
        /\ \A i \in 1 .. Len(front) : i > Len(kept) => front[i] = catch[i - Len(kept)]
    <2>1. front = kept \o catch
      BY <1>1, <1>2
    <2> QED  BY <1>4, <2>1, ConcatProperties
  <1>6. \A x : Has(kept, x) => Has(front, x)
    BY <1>5 DEF Has
  <1>7. \A x : Has(front, x) => Has(kept, x) \/ x.is = "segment"
    <2> SUFFICES ASSUME NEW i \in 1 .. Len(front), front[i].is # "segment"
                 PROVE  Has(kept, front[i])
      BY DEF Has
    <2>1. CASE i > Len(kept)
      <3>1. i - Len(kept) = 1 /\ catch # <<>>
        BY <1>4, <1>5, <2>1
      <3> QED  BY <1>4, <1>5, <2>1, <3>1
    <2>2. CASE ~(i > Len(kept))
      <3>1. i \in 1 .. Len(kept)
        BY <1>5, <2>2
      <3> QED  BY <1>5, <3>1 DEF Has
    <2> QED  BY <2>1, <2>2
  <1>8. kept # <<>> => front # <<>> /\ front[1] = kept[1]
    <2> SUFFICES ASSUME kept # <<>> PROVE front # <<>> /\ front[1] = kept[1]
      OBVIOUS
    <2>1. Len(kept) >= 1
      BY <1>4, FirstIs
    <2>2. Len(front) >= 1 /\ 1 \in 1 .. Len(kept)
      BY <1>5, <2>1
    <2> QED  BY <1>5, <2>2
  <1>9. kept = <<>> /\ item.is = "segment" => front = <<>>
    BY <1>1, <1>2, <1>4
  <1>10. all = Owe(front, item) \/ all = front \o <<item>>
    BY <1>1, <1>2 DEF WithItem
  <1>11. front \o <<item>> = Append(front, item)
    BY <1>3
  <1>12. all = Append(front, item) \/ (all = front /\ item.is = "buffer")
    BY <1>10, <1>11 DEF Owe
  <1>13. CASE all = Append(front, item)
    <2>1. /\ Len(front) \in Nat /\ Len(all) = Len(front) + 1 /\ all[Len(front) + 1] = item
          /\ \A i \in 1 .. Len(front) : all[i] = front[i]
      BY <1>3, <1>13, AppendProperties
    <2>2. \A x : Has(all, x) <=> Has(front, x) \/ x = item
      <3> TAKE x
      <3>1. \A y \in Items : Has(Append(front, y), x) <=> Has(front, x) \/ x = y
        BY HasIs
      <3> QED  BY <1>3, <1>13, <3>1
    <2>3. all # <<>> /\ (front = <<>> => all[1] = item)
      BY <2>1
    <2>4. front # <<>> => all[1] = front[1]
      <3>1. front # <<>> => Len(front) >= 1
        BY <2>1
      <3> QED  BY <2>1, <3>1
    <2> QED  BY <1>2, <1>6, <1>7, <1>8, <1>9, <2>2, <2>3, <2>4
  <1>14. CASE all # Append(front, item)
    <2>1. all = front /\ item.is = "buffer"
      BY <1>12, <1>14
    <2>2. all # owed[b] \o CatchUp(b) \o <<tee.item>>
      BY <1>1, <1>2, <1>11, <1>14
    <2> QED  BY <1>2, <1>6, <1>7, <1>8, <2>1, <2>2
  <1> QED  BY <1>13, <1>14

\* With it, nothing is missing but what is counted as lost.
LEMMA LookedWhole ==
    ASSUME Inv, Order, Complete, tee.at = "handing", NEW b \in Branches, b \in active,
           b \in tee.left, ~RoutedAway(b, tee.item),
           NEW all \in {WithItem(b), owed[b] \o CatchUp(b) \o <<tee.item>>},
           b \notin lost' => b \notin lost /\ Has(all, tee.item),
           Pending(b)' = all, ~Waiting(b)', ~Renewing,
           UNCHANGED <<got, pad, timeline, source, failures>>
    PROVE  Whole(b)'
  <1>1. /\ \A x : Has(owed[b], x) => Has(all, x)
        /\ \A x : Has(all, x) => Has(owed[b], x) \/ x.is = "segment" \/ x = tee.item
        /\ owed[b] # <<>> => all # <<>> /\ all[1] = owed[b][1]
        /\ owed[b] = <<>> /\ tee.item.is = "segment" => all # <<>> /\ all[1] = tee.item
        /\ tee.item.is # "buffer" => Has(all, tee.item)
    BY AllIs
  <1>2. Pending(b) = owed[b] /\ Waiting(b) /\ Whole(b) /\ Queued(b) /\ asked # "Flush"
    BY BusyIsNot DEF Pending, Waiting, Handing, Complete, Order, InQueue, Live
  <1>3. tee.item \in ItemsOf(timeline) /\ tee.item \in Items /\ tee.item.tl = timeline
    BY DEF Order, Begun, Handing, ItemsOf, ItemsTo
  <1>4. /\ tee.item.is = "buffer" => tee.item.n = source.made /\ source.from < source.made
        /\ tee.item.is = "eos" <=> source.at = "ended"
        /\ source.made \in Int /\ source.made >= 0 /\ source.from \in Int
    BY Numbers DEF Complete, InHand, Handing, Inv, SourceTypes
  <1>5. b \notin lost' => Gapless(b)'
    <2> SUFFICES ASSUME b \notin lost' PROVE Gapless(b)'
      OBVIOUS
    <2>1. Gapless(b) /\ Has(all, tee.item)
      BY <1>2 DEF Whole
    <2>2. Reach(b)' = source.made
      BY DEF Reach
    <2>3. CASE tee.item.is = "buffer"
      <3>1. Reach(b) = source.made - 1 /\ source.made \in Takes[b] /\ source.made \in Nat
        BY <1>2, <1>4, <2>3 DEF Reach, RoutedAway
      <3>2. tee.item = Buffer(timeline, source.made)
        BY <1>3, <1>4, <2>3 DEF Items, Buffer
      <3>3. ASSUME NEW n \in Nat PROVE Comes(b, n)' <=> Comes(b, n) \/ n = source.made
        <4>1. PICK x : x = Buffer(timeline, n)
          OBVIOUS
        <4>2. x.is = "buffer" /\ (x = tee.item <=> n = source.made)
          BY <3>2, <4>1 DEF Buffer
        <4>3. Has(all, x) <=> Has(owed[b], x) \/ n = source.made
          BY <1>1, <2>1, <4>2
        <4> QED  BY <1>2, <4>1, <4>3 DEF Comes
      <3>4. ASSUME NEW n \in Nat
            PROVE  /\ Comes(b, n)' => n \in Takes[b] /\ n <= source.made
                   /\ b \in Initial => (Comes(b, n)' <=>
                                        n \in Takes[b] /\ source.from < n /\ n <= source.made)
        <4>1. /\ Comes(b, n) => n \in Takes[b] /\ n <= source.made - 1
              /\ b \in Initial => (Comes(b, n) <=>
                                   n \in Takes[b] /\ source.from < n /\ n <= source.made - 1)
          BY <2>1, <3>1 DEF Gapless
        <4>2. n <= source.made <=> n <= source.made - 1 \/ n = source.made
          BY <1>4
        <4> QED  BY <1>4, <2>3, <3>1, <3>3, <4>1, <4>2
      <3>5. ASSUME NEW n \in Nat, NEW m \in Nat, Comes(b, m)', m <= n, n <= source.made,
                   n \in Takes[b]
            PROVE  Comes(b, n)'
        <4>1. CASE n = source.made
          BY <3>3, <4>1
        <4>2. CASE n # source.made
          <5>1. n <= source.made - 1 /\ m # source.made
            BY <1>4, <3>5, <4>2
          <5>2. Comes(b, m)
            BY <3>3, <3>5, <5>1
          <5>3. Comes(b, n)
            BY <2>1, <3>1, <3>5, <5>1, <5>2 DEF Gapless
          <5> QED  BY <3>3, <5>3
        <4> QED  BY <4>1, <4>2
      <3> QED  BY <2>2, <3>4, <3>5 DEF Gapless
    <2>4. CASE tee.item.is # "buffer"
      <3>1. Reach(b) = source.made
        BY <2>4 DEF Reach
      <3>2. ASSUME NEW n \in Nat PROVE Comes(b, n)' <=> Comes(b, n)
        <4>1. PICK x : x = Buffer(timeline, n)
          OBVIOUS
        <4>2. x.is = "buffer" /\ x # tee.item
          BY <2>4, <4>1 DEF Buffer
        <4>3. Has(all, x) <=> Has(owed[b], x)
          BY <1>1, <4>2
        <4> QED  BY <1>2, <4>1, <4>3 DEF Comes
      <3> QED  BY <2>1, <2>2, <3>1, <3>2 DEF Gapless
    <2> QED  BY <2>3, <2>4
  <1>6. SegmentNext(b)'
    <2> SUFFICES ASSUME pad[b].flushing
                 PROVE  all # <<>> /\ all[1] = Segment(timeline, TRUE)
      BY DEF SegmentNext
    <2>1. CASE owed[b] # <<>> /\ owed[b][1] = Segment(timeline, TRUE)
      BY <1>1, <2>1
    <2>2. CASE tee.item = Segment(timeline, TRUE)
      <3>1. tee.item.is = "segment" /\ Rank(tee.item) = 0
        BY <1>3, <2>2, RankIs DEF Segment
      <3>2. PICK s, top : s = owed[b] /\ top = Top(b)
        OBVIOUS
      <3>3. s \in Seq(Items) /\ Len(s) \in Nat /\ Rank(top) \in -1 .. Length + 1
            /\ \A i \in 1 .. Len(s) : Rank(s[i]) \in Int
        BY <1>2, <3>2, QueueTypes, RankIs DEF Inv
      <3>4. \A i \in 1 .. Len(s) : Rank(top) < Rank(s[i]) /\ Rank(s[i]) < 0
        BY <1>2, <3>1, <3>2 DEF Queued, Rising
      <3>5. Len(s) = 0
        <4>1. 1 \notin 1 .. Len(s)
          BY <3>3, <3>4
        <4> QED  BY <3>3, <4>1
      <3>6. s = <<>>
        BY <3>3, <3>5, EmptySeq
      <3> QED  BY <1>1, <2>2, <3>1, <3>2, <3>6
    <2> QED  BY <1>2, <2>1, <2>2 DEF Whole, SegmentNext
  <1>7. EndNext(b)'
    <2>1. source.at = "ended" => Has(all, Eos(timeline))
      <3> SUFFICES ASSUME source.at = "ended" PROVE Has(all, Eos(timeline))
        OBVIOUS
      <3>1. tee.item.is = "eos"
        BY <1>4
      <3>2. Has(all, tee.item)
        BY <1>1, <3>1
      <3>3. tee.item = Eos(timeline)
        BY <3>1 DEF Complete, InHand, Handing
      <3> QED  BY <3>2, <3>3
    <2> QED  BY <2>1 DEF EndNext
  <1>8. PadEnded(b)'
    BY <1>2 DEF Whole, PadEnded, Top
  <1> QED  BY <1>5, <1>6, <1>7, <1>8 DEF Whole

\* Looked at, a branch is passed by, or what it is handed is put behind what it waits for.
LEMMA TeeLooksComplete ==
    ASSUME Inv, Order, Complete, TeeLooks
    PROVE  Complete'
  <1>1. UNCHANGED <<got, timeline, active, todo, asked, source, pad, failures, phase, context>>
    BY DEF TeeLooks, playback, pipeline, topology, terminal
  <1>2. tee.at = "handing" /\ tee.left # {}
    BY DEF TeeLooks
  <1>3. PICK b \in Branches : b = Branch /\ b \in tee.left
    BY <1>2, BranchIn DEF Inv
  <1>4. ~Renewing /\ asked # "Flush"
    BY <1>2, BusyIsNot DEF Order, Handing
  <1>5. /\ tee'.item = tee.item /\ tee'.at \in {"handing", "locking"}
        /\ tee'.at = "handing" => tee'.left = tee.left \ {b}
        /\ tee'.at = "locking" => tee'.left = tee.left /\ Branch' = b
    <2>1. CASE tee' = ToNext
      <3>1. tee' = [tee EXCEPT !.at = "handing", !.left = tee.left \ {b}, !.push = <<>>]
        BY <1>3, <2>1 DEF ToNext
      <3> QED  BY <3>1 DEF Inv, TeeTypes
    <2>2. CASE tee' # ToNext
      <3>1. PICK all : tee' = [tee EXCEPT !.at = "locking", !.push = all]
        BY <2>2 DEF TeeLooks
      <3>2. tee'.item = tee.item /\ tee'.at = "locking" /\ tee'.left = tee.left
        BY <3>1 DEF Inv, TeeTypes
      <3>3. Branch' = b
        BY <1>3, <3>2 DEF Branch
      <3> QED  BY <3>2, <3>3
    <2> QED  BY <2>1, <2>2
  <1>6. ~Renewing' /\ tee'.at \in Handing /\ tee'.at # "flowing"
    BY <1>1, <1>4, <1>5 DEF Renewing, Handing
  <1>7. Waiting(b) /\ ~Waiting(b)' /\ \A d \in Branches \ {b} : Waiting(d)' <=> Waiting(d)
    BY <1>2, <1>3, <1>5 DEF Waiting, Handing
  <1>8. InHand' /\ Counted'
    BY <1>1, <1>2, <1>5, <1>6 DEF Complete, InHand, Counted, Handing
  <1>9. Unbuilt' /\ GotTypes'
    BY <1>1 DEF Complete, Unbuilt, GotTypes
  <1>10. Emptied'
    BY <1>6 DEF Emptied
  <1>11. SUFFICES Going' /\ \A d \in Branches : d \in active => Whole(d)'
    BY <1>1, <1>8, <1>9, <1>10 DEF Complete, Inv, ListTypes
  <1>12. ASSUME NEW d \in Branches, d \in active, d # b, Pending(d)' = Pending(d),
                d \in lost => d \in lost', d \in hasSegment' => d \in hasSegment
         PROVE  Whole(d)'
    <2>1. Waiting(d)' <=> Waiting(d)
      BY <1>7, <1>12
    <2>2. LeftAlone(d)
      BY <1>1, <1>4, <1>5, <1>6, <1>12, <2>1 DEF LeftAlone
    <2> QED  BY <1>12, <2>2, WholeStays DEF Complete
  <1>13. CASE b \notin active \/ RoutedAway(b, tee.item)
    <2>1. tee' = ToNext /\ UNCHANGED <<owed, hasSegment, lost>>
      BY <1>3, <1>13 DEF TeeLooks
    <2>2. tee'.at = "handing"
      BY <2>1 DEF ToNext, Inv, TeeTypes
    <2>3. \A d \in Branches : Pending(d)' = Pending(d)
      BY <1>2, <2>1, <2>2 DEF Pending
    <2>4. Going'
      BY <1>1, <2>1 DEF Complete, Going
    <2>5. b \in active => Whole(b)'
      BY <1>1, <1>2, <1>4, <1>6, <1>7, <1>13, <2>1, <2>3, PassedByWhole
    <2> QED  BY <1>12, <2>1, <2>3, <2>4, <2>5
  <1>14. CASE b \in active /\ ~RoutedAway(b, tee.item)
    <2>1. hasSegment' = hasSegment \cup {b}
      BY <1>3, <1>14 DEF TeeLooks
    <2>2. CASE Held(b)
      <3>1. PICK all : all = WithItem(b)
        OBVIOUS
      <3>2. /\ owed' = [owed EXCEPT ![b] = all] /\ tee' = ToNext
            /\ lost' = IF tee.item \in ToSet(all) THEN lost ELSE lost \cup {b}
        BY <1>3, <1>14, <2>2, <3>1 DEF TeeLooks
      <3>3. tee'.at = "handing" /\ owed'[b] = all /\ \A d \in Branches \ {b} : owed'[d] = owed[d]
        BY <3>2 DEF ToNext, Inv, TeeTypes
      <3>4. Pending(b)' = all /\ \A d \in Branches \ {b} : Pending(d)' = Pending(d)
        BY <1>2, <3>3 DEF Pending
      <3>5. b \notin lost' => b \notin lost /\ Has(all, tee.item)
        <4>1. owed' \in [Branches -> Seq(ItemsTo(timeline'))]
          <5>1. Inv'
            BY TeeLooksKeeps
          <5> QED  BY <5>1 DEF Inv, TeeTypes
        <4>2. DOMAIN all = 1 .. Len(all)
          BY <3>3, <4>1
        <4>3. tee.item \in ToSet(all) => Has(all, tee.item)
          BY <4>2 DEF ToSet, Has
        <4> QED  BY <3>2, <4>3
      <3>6. Whole(b)'
        BY <1>1, <1>2, <1>3, <1>4, <1>7, <1>14, <3>1, <3>4, <3>5, LookedWhole
      <3>7. Going'
        <4>1. phase # "playing"
          BY <2>2 DEF Complete, Going, Held, IsReady, NoContext
        <4> QED  BY <1>1, <4>1 DEF Going
      <3>8. \A d \in Branches \ {b} : d \in lost => d \in lost'
        BY <3>2
      <3> QED  BY <1>12, <2>1, <3>4, <3>6, <3>7, <3>8
    <2>3. CASE ~Held(b)
      <3>1. PICK all : all = owed[b] \o CatchUp(b) \o <<tee.item>>
        OBVIOUS
      <3>2. /\ owed' = [owed EXCEPT ![b] = <<>>] /\ lost' = lost
            /\ tee' = [tee EXCEPT !.at = "locking", !.push = all]
        BY <1>3, <1>14, <2>3, <3>1 DEF TeeLooks
      <3>3. /\ tee'.at = "locking" /\ tee'.push = all
            /\ owed'[b] = <<>> /\ \A d \in Branches \ {b} : owed'[d] = owed[d]
        BY <3>2 DEF Inv, TeeTypes
      <3>4. Pending(b)' = all /\ \A d \in Branches \ {b} : Pending(d)' = Pending(d)
        BY <1>2, <1>5, <3>3 DEF Pending
      <3>5. Has(all, tee.item)
        BY <1>2, <1>3, <1>14, <3>1, AllIs
      <3>6. Whole(b)'
        BY <1>1, <1>2, <1>3, <1>4, <1>7, <1>14, <3>1, <3>2, <3>4, <3>5, LookedWhole
      <3>7. Going'
        BY <1>1, <3>3 DEF Complete, Going
      <3> QED  BY <1>12, <2>1, <3>2, <3>4, <3>6, <3>7
    <2> QED  BY <2>2, <2>3
  <1> QED  BY <1>13, <1>14

\* At first nothing has been made.
LEMMA InitComplete == Init => Complete
  <1> SUFFICES ASSUME Init PROVE Complete
    OBVIOUS
  <1> USE DEF Init
  <1>1. /\ tee.at = "idle" /\ asked = None /\ todo = <<>> /\ source.at = "begin"
        /\ source.made = 0 /\ source.from = 0 /\ hasSegment = {}
    BY DEF Idle
  <1>2. tee.at \notin Handing
    BY <1>1 DEF Handing
  <1>3. \A b \in Branches : got[b] = <<>> /\ Pending(b) = <<>>
    BY <1>1 DEF Pending
  <1>4. \A b \in Branches : \A n \in Nat : ~Comes(b, n)
    BY <1>3, NothingComes
  <1>5. \A b \in Branches : /\ ~pad[b].flushing /\ ~pad[b].ended
                            /\ pad[b].by = "unbuilt" => b \notin Initial
    BY Numbers
  <1>6. Unbuilt /\ Emptied
    BY <1>4, <1>5 DEF Unbuilt, Emptied
  <1>7. GotTypes
    <2>1. PICK items : items = ItemsTo(timeline)
      OBVIOUS
    <2>2. <<>> \in Seq(items)
      OBVIOUS
    <2> QED  BY <1>3, <2>1, <2>2 DEF GotTypes
  <1>8. InHand /\ Counted /\ Going
    BY <1>1, <1>2 DEF InHand, Counted, Going
  <1>9. ASSUME NEW b \in active PROVE Whole(b)
    <2>1. b \in Branches
      BY Numbers
    <2>2. Reach(b) = 0
      BY <1>1, <1>2 DEF Reach, Waiting
    <2>3. Gapless(b)
      <3>1. \A n \in Nat : ~(source.from < n /\ n <= Reach(b))
        BY <1>1, <2>2
      <3> QED  BY <1>4, <2>1, <3>1 DEF Gapless
    <2> QED  BY <1>1, <1>5, <2>1, <2>3 DEF Whole, SegmentNext, EndNext, PadEnded
  <1> QED  BY <1>6, <1>7, <1>8, <1>9 DEF Complete

\* It stays so whatever step is taken.
LEMMA NextComplete ==
    ASSUME Inv, Order, Complete, [Next]_vars
    PROVE  Complete'
  <1>1. CASE UNCHANGED vars
    <2>1. UNCHANGED <<got, owed, tee, hasSegment, source, timeline, asked, todo, active, pad,
                      lost, failures, phase, context>>
      BY <1>1 DEF vars, playback, pipeline, topology, terminal
    <2>2. Going'
      BY <2>1 DEF Complete, Going
    <2> QED  BY <2>1, <2>2, QuietComplete DEF Renewing
  <1>2. CASE \E o \in Ops : Calls(o)
    BY <1>2, CallsComplete
  <1>3. CASE Asks \/ Awaited \/ \E b \in Branches : Departs(b)
    BY <1>3, AsksComplete, AwaitedComplete, DepartsComplete
  <1>4. CASE SourceBegins \/ SourceProduces \/ SourceEnds \/ SourceTakes
    BY <1>4, SourceBeginsComplete, SourceProducesComplete, SourceEndsComplete,
       SourceTakesComplete
  <1>5. CASE TeeSteps
    <2>1. CASE TeeLooks \/ TeeLocks \/ TeePushes \/ TeeHanded
      BY <2>1, TeeLooksComplete, TeeLocksComplete, TeePushesComplete, TeeHandedComplete
    <2>2. CASE TeeFlushes \/ TeeFlowed
      BY <2>2, TeeFlushesComplete, TeeFlowedComplete
    <2>3. CASE TeeOwes \/ TeeHandsOwed \/ TeeReported
      BY <2>3, TeeOwesComplete, TeeHandsOwedComplete, TeeReportedComplete
    <2> QED  BY <1>5, <2>1, <2>2, <2>3 DEF TeeSteps
  <1>6. CASE \E t \in Threads : Checks(t)
    BY <1>6, ChecksComplete
  <1>7. CASE \E c \in Callers : HandleSteps(c)
    <2>1. PICK c \in Callers : HandleSteps(c)
      BY <1>7
    <2>2. CASE Attach(c) \/ \E b \in Branches : Detach(c, b) \/ FinishFinds(c, b)
      BY <2>2, AttachComplete, DetachComplete
    <2>3. CASE FinishPushes(c)
      BY <2>3, FinishPushesComplete
    <2>4. CASE FinishReported(c) \/ FinishRemoves(c)
      BY <2>4, FinishRemovesComplete
    <2> QED  BY <2>1, <2>2, <2>3, <2>4 DEF HandleSteps
  <1> QED  BY <1>1, <1>2, <1>3, <1>4, <1>5, <1>6, <1>7 DEF Next

\* What a branch has come to be handed is what it had, where nothing is on its way to it.
LEMMA HadIs ==
    ASSUME Inv, NEW b \in Branches, Pending(b) = <<>>
    PROVE  Had(b) \subseteq Nat /\ \A n \in Nat : n \in Had(b) <=> Comes(b, n)
  <1>1. got[b] \in Seq(Items) /\ DOMAIN got[b] = 1 .. Len(got[b])
    BY DEF Inv, TerminalTypes
  <1>2. \A i \in 1 .. Len(got[b]) : got[b][i] \in Items /\ got[b][i].n \in Nat
    <2>1. \A i \in 1 .. Len(got[b]) : got[b][i] \in Items
      BY <1>1
    <2>2. \A item \in Items : item.n \in Nat
      BY Numbers DEF Items
    <2> QED  BY <2>1, <2>2
  <1>3. Had(b) \subseteq Nat
    BY <1>1, <1>2 DEF Had
  <1>4. \A item \in Items : \A n : item = Buffer(timeline, n)
            <=> item.is = "buffer" /\ item.tl = timeline /\ item.n = n
    BY DEF Items, Buffer
  <1>5. ASSUME NEW n \in Nat PROVE n \in Had(b) <=> Has(got[b], Buffer(timeline, n))
    BY <1>1, <1>2, <1>4 DEF Had, Has
  <1>6. \A x : ~Has(<<>>, x)
    BY DEF Has
  <1> QED  BY <1>3, <1>5, <1>6 DEF Comes

\* Playing on, between two items, nothing is still kept back from a branch: it has had every
\* buffer made that its route lets by, from the first it was there for, but for those past
\* MaxOwed; and the end, once the source has handed it on (hand_out, hand_on_owed).
THEOREM NothingIsKeptBackHolds == Spec => []NothingIsKeptBack
  <1>1. Inv /\ Order /\ Complete /\ [Next]_vars => Inv' /\ Order' /\ Complete'
    <2> SUFFICES ASSUME Inv, Order, Complete, [Next]_vars PROVE Inv' /\ Order' /\ Complete'
      OBVIOUS
    <2>1. Inv'
      BY NextKeeps
    <2> QED  BY <2>1, NextOrder, NextComplete
  <1>2. Inv /\ Order /\ Complete => NothingIsKeptBack
    <2> SUFFICES ASSUME Inv, Order, Complete, phase = "playing", todo = <<>>, asked = None,
                        tee.at = "idle", NEW b \in attached \cap active \cap hasSegment
                 PROVE  /\ b \notin lost /\ Had(b) # {} =>
                             Had(b) = {n \in Takes[b] : Min(Had(b)) <= n /\ n <= source.made}
                        /\ b \in Initial /\ b \notin lost =>
                             Had(b) = {n \in Takes[b] : source.from < n /\ n <= source.made}
                        /\ source.at = "ended" /\ failures = 0 => AtEnd(b)
      BY DEF NothingIsKeptBack
    <2>1. b \in Branches /\ Whole(b) /\ Takes[b] \subseteq Nat
      BY BranchesAssumption DEF Complete, Inv, ListTypes
    <2>2. Pending(b) = <<>> /\ ~Waiting(b) /\ ~Renewing
      BY <2>1 DEF Complete, Going, Pending, Waiting, Handing, Renewing, None
    <2>3. Reach(b) = source.made
      BY <2>2 DEF Reach
    <2>4. Had(b) \subseteq Nat /\ \A n \in Nat : n \in Had(b) <=> Comes(b, n)
      BY <2>1, <2>2, HadIs
    <2>5. ASSUME b \notin lost, Had(b) # {}
          PROVE  Had(b) = {n \in Takes[b] : Min(Had(b)) <= n /\ n <= source.made}
      <3>1. PICK first \in Had(b) : first = Min(Had(b)) /\ \A n \in Had(b) : first <= n
        <4>1. Min(Had(b)) \in Had(b) /\ \A n \in Had(b) : Min(Had(b)) <= n
          BY <2>4, <2>5, LeastOf DEF Min
        <4> QED  BY <4>1
      <3>2. \A n \in Nat : Comes(b, n) => n \in Takes[b] /\ n <= source.made
        BY <2>1, <2>3, <2>5 DEF Whole, Gapless
      <3>3. \A n \in Nat : first <= n /\ n <= source.made /\ n \in Takes[b] => Comes(b, n)
        BY <2>1, <2>3, <2>4, <2>5 DEF Whole, Gapless
      <3> QED  BY <2>1, <2>4, <3>1, <3>2, <3>3
    <2>6. ASSUME b \in Initial, b \notin lost
          PROVE  Had(b) = {n \in Takes[b] : source.from < n /\ n <= source.made}
      <3>1. \A n \in Nat : Comes(b, n) <=> n \in Takes[b] /\ source.from < n /\ n <= source.made
        BY <2>1, <2>2, <2>3, <2>6 DEF Whole, Gapless
      <3> QED  BY <2>1, <2>4, <3>1
    <2>7. ASSUME source.at = "ended", failures = 0 PROVE AtEnd(b)
      <3>1. ~Has(<<>>, Eos(timeline))
        BY DEF Has
      <3>2. Top(b) = Eos(timeline)
        BY <2>1, <2>2, <2>7, <3>1 DEF Whole, EndNext
      <3> QED  BY <3>2 DEF AtEnd, Top, LastOf, Eos
    <2> QED  BY <2>5, <2>6, <2>7
  <1> QED  BY <1>1, <1>2, InitInv, InitOrder, InitComplete, PTL DEF Spec
=============================================================================
