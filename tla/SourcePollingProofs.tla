------------------------- MODULE SourcePollingProofs -------------------------
(***************************************************************************)
(* Proofs about SourcePolling, for every set of sources and modes, every   *)
(* limit and cap, and feeds of every length.                               *)
(*                                                                         *)
(* PollInv holds under every fault.  SkipInv adds what holds when polls    *)
(* find no more than Cap items and lose none of them; FloodInv, what holds *)
(* as long as no source is changed to another mode.                        *)
(***************************************************************************)
EXTENDS SourcePolling, SequenceTheorems, FiniteSetTheorems, TLAPS

\* A watermark is None for a source that does not exist, and is never ahead of
\* what has appeared.
SourceInv(s) ==
    LET w == source[s].watermark IN
    /\ source[s].life = "unused" => w = None
    /\ w # None => w.seen <= last[w.mode]

FeedInv(m) == \A i \in feed[m] : i <= last[m]

\* The rows of a round are those of different sources, and their watermarks are
\* still those of the table: nobody but the poller writes them.
RoundInv ==
    \A i \in 1..Len(round) :
        /\ round[i].watermark = source[round[i].id].watermark
        /\ \A j \in 1..Len(round) : round[i].id = round[j].id => i = j

\* What is to be written belongs to the mode of the first row, does not go back,
\* and is not ahead of what has appeared.
TaskInv ==
    IF task.pc = "next"
    THEN task = NextRow
    ELSE /\ round # <<>>
         /\ task.mark # None
         /\ task.mark.mode = Current.mode
         /\ SeenBy(Current.mode, Current.watermark) <= task.mark.seen
         /\ task.mark.seen <= last[Current.mode]
         /\ First(Current) => task.items = {}

PollInv ==
    /\ TypeOK
    /\ \A s \in Sources : SourceInv(s)
    /\ \A m \in Modes : FeedInv(m)
    /\ RoundInv
    /\ TaskInv

-----------------------------------------------------------------------------
(***************************************************************************)
(* What the operators do.                                                  *)
(***************************************************************************)

\* Moving a source to the end of the order keeps ranks natural numbers.
LEMMA MovedBackTyped ==
  ASSUME TypeOK, NEW s \in Sources
  PROVE  MovedBack(s) \in [Sources -> Nat]
  <1>1. Cardinality(Sources) \in Nat
    BY SourcesAssumption, FS_CardinalityType
  <1> QED
    BY <1>1 DEF MovedBack, TypeOK

\* A watermark is written to a row that is there, and to no other.
LEMMA WriteEffect ==
  ASSUME TypeOK, NEW s \in Sources, NEW w \in Watermarks, WriteWatermark(s, w)
  PROVE  /\ source' \in [Sources -> SourceState]
         /\ rank' \in [Sources -> Nat] /\ due' \in [Sources -> BOOLEAN]
         /\ \A t \in Sources : /\ source'[t].life = source[t].life
                               /\ source'[t].mode = source[t].mode
         /\ \A t \in Sources : t # s => source'[t] = source[t]
         /\ source'[s].watermark = IF Kept(s) THEN w ELSE source[s].watermark
  <1> DEFINE x == [source[s] EXCEPT !.watermark = IF Kept(s) THEN w ELSE @,
                                    !.polled = @ \/ Kept(s)]
  <1>1. source[s] \in SourceState
    BY DEF TypeOK
  <1>2. /\ x \in SourceState /\ x.life = source[s].life /\ x.mode = source[s].mode
        /\ x.watermark = IF Kept(s) THEN w ELSE source[s].watermark
    BY <1>1 DEF SourceState, Kept
  <1>3. source' = [source EXCEPT ![s] = x]
    BY DEF WriteWatermark, TypeOK
  <1>4. /\ source' \in [Sources -> SourceState] /\ source'[s] = x
        /\ \A t \in Sources : t # s => source'[t] = source[t]
    BY <1>2, <1>3 DEF TypeOK
  <1>5. rank' \in [Sources -> Nat]
    BY MovedBackTyped DEF WriteWatermark, TypeOK
  <1>6. due' \in [Sources -> BOOLEAN]
    BY DEF WriteWatermark, TypeOK
  <1> QED
    BY <1>2, <1>4, <1>5, <1>6

LEMMA RowTyped ==
  ASSUME round \in Seq(RowState), NEW i \in 1..Len(round)
  PROVE  round[i] \in RowState /\ round[i].id \in Sources
  <1>1. round[i] \in RowState
    BY ElementOfSeq
  <1> QED
    BY <1>1 DEF RowState

\* The first row of a round, and those after it.
LEMMA FirstRow ==
  ASSUME round \in Seq(RowState), round # <<>>
  PROVE  /\ Current \in RowState /\ Current = round[1] /\ 1 \in 1..Len(round)
         /\ Tail(round) \in Seq(RowState)
         /\ \A i \in 1..Len(Tail(round)) :
               i \in Nat /\ i + 1 \in 1..Len(round) /\ Tail(round)[i] = round[i + 1]
  <1>1. Len(round) \in Nat \ {0}
    BY EmptySeq
  <1>2. /\ Head(round) \in RowState /\ Tail(round) \in Seq(RowState)
        /\ Len(Tail(round)) = Len(round) - 1
        /\ \A i \in 1..Len(Tail(round)) : Tail(round)[i] = round[i + 1]
    BY HeadTailProperties
  <1>3. Head(round) = round[1]
    BY <1>1
  <1> QED
    BY <1>1, <1>2, <1>3 DEF Current

\* What a watermark says is a number.
LEMMA SeenTyped ==
  ASSUME NEW m \in Modes, NEW w \in Watermarks
  PROVE  SeenBy(m, w) \in 0..MaxItem
  BY BoundsAssumption, NoneAssumption DEF SeenBy, Watermarks

\* The next watermark is a number of the list or the old one, and no less than
\* either.
LEMMA NextSeenEffect ==
  ASSUME TypeOK, NEW m \in Modes, NEW seen \in 0..MaxItem, NEW next \in NextSeen(m, seen)
  PROVE  /\ next \in 0..MaxItem /\ next \in feed[m] \cup {seen}
         /\ seen <= next /\ \A i \in feed[m] : i <= next
  <1>1. next \in feed[m] \cup {seen} /\ \A j \in feed[m] \cup {seen} : j <= next
    BY DEF NextSeen, Newest
  <1>2. feed[m] \subseteq 0..MaxItem
    BY BoundsAssumption DEF TypeOK, Items
  <1> QED
    BY <1>1, <1>2

-----------------------------------------------------------------------------
(***************************************************************************)
(* Every fault.                                                            *)
(***************************************************************************)

LEMMA PollInit == Init => PollInv
  <1> SUFFICES ASSUME Init PROVE PollInv
    OBVIOUS
  <1>1. NoSource \in SourceState /\ NextRow \in TaskState
    BY SourcesAssumption DEF NoSource, SourceState, NextRow, TaskState, Watermarks
  <1>2. 1..Cardinality(Sources) \subseteq Nat
    BY SourcesAssumption, FS_CardinalityType
  <1>3. round \in Seq(RowState) /\ Len(round) = 0
    BY EmptySeq DEF Init
  <1>4. TypeOK
    BY <1>1, <1>2, <1>3, BoundsAssumption DEF Init, TypeOK, Items
  <1>5. (\A s \in Sources : SourceInv(s)) /\ \A m \in Modes : FeedInv(m)
    BY DEF Init, SourceInv, FeedInv, NoSource
  <1>6. RoundInv /\ TaskInv
    BY <1>3 DEF Init, RoundInv, TaskInv, NextRow
  <1> QED
    BY <1>4, <1>5, <1>6 DEF PollInv

\* A user's operation writes one row, and never its watermark: a new row has
\* none, and had none.
LEMMA UserEffect ==
  ASSUME TypeOK, NEW s \in Sources, SourceInv(s), NEW m \in Modes, NEW e \in BOOLEAN,
         Create(s, m, e) \/ Update(s, m, e) \/ Delete(s)
  PROVE  /\ rank' \in [Sources -> Nat]
         /\ UNCHANGED <<due, feed, last, round, task, alerts, start>>
         /\ source' \in [Sources -> SourceState]
         /\ \A t \in Sources : t # s => source'[t] = source[t]
         /\ source'[s].life # "unused"
         /\ source'[s].watermark = source[s].watermark
         /\ source'[s].life = "kept" => Kept(s) \/ source[s].watermark = None
  <1>1. /\ rank' \in [Sources -> Nat]
        /\ UNCHANGED <<due, feed, last, round, task, alerts, start>>
    BY MovedBackTyped DEF Create, Update, Delete, TypeOK, world, history, vars
  <1>2. source[s] \in SourceState
    BY DEF TypeOK
  <1>3. \E x \in SourceState :
           /\ source' = [source EXCEPT ![s] = x]
           /\ x.life # "unused" /\ x.watermark = source[s].watermark
           /\ x.life = "kept" => Kept(s) \/ source[s].watermark = None
    <2>1. CASE Create(s, m, e)
      <3> DEFINE x == [life |-> "kept", mode |-> m, enabled |-> e,
                       watermark |-> None, polled |-> FALSE]
      <3>1. x \in SourceState /\ source[s].watermark = None
        BY <2>1 DEF Create, SourceState, Watermarks, SourceInv
      <3> QED
        BY <2>1, <3>1 DEF Create
    <2>2. CASE Update(s, m, e)
      <3> DEFINE x == [source[s] EXCEPT !.mode = m, !.enabled = e]
      <3>1. /\ x \in SourceState
            /\ x.life = source[s].life /\ x.watermark = source[s].watermark
        BY <1>2 DEF SourceState
      <3>2. source' = [source EXCEPT ![s] = x]
        BY <2>2 DEF Update, TypeOK
      <3> QED
        BY <2>2, <3>1, <3>2 DEF Update, Kept
    <2>3. CASE Delete(s)
      <3> DEFINE x == [source[s] EXCEPT !.life = "deleted"]
      <3>1. /\ x \in SourceState
            /\ x.life = "deleted" /\ x.watermark = source[s].watermark
        BY <1>2 DEF SourceState
      <3>2. source' = [source EXCEPT ![s] = x]
        BY <2>3 DEF Delete, TypeOK
      <3> QED
        BY <3>1, <3>2
    <2> QED
      BY <2>1, <2>2, <2>3
  <1>4. /\ source' \in [Sources -> SourceState]
        /\ \A t \in Sources : t # s => source'[t] = source[t]
        /\ source'[s].life # "unused"
        /\ source'[s].watermark = source[s].watermark
        /\ source'[s].life = "kept" => Kept(s) \/ source[s].watermark = None
    BY <1>3 DEF TypeOK
  <1> QED
    BY <1>1, <1>4

\* A user's operation leaves the poller's rows true.
LEMMA UsersKeepPollInv ==
  ASSUME PollInv,
         NEW s \in Sources, NEW m \in Modes, NEW e \in BOOLEAN,
         Create(s, m, e) \/ Update(s, m, e) \/ Delete(s)
  PROVE  PollInv'
  <1> USE DEF PollInv
  <1>1. TypeOK'
    BY UserEffect DEF TypeOK
  <1>2. \A t \in Sources : SourceInv(t)'
    BY UserEffect DEF SourceInv
  <1>3. \A n \in Modes : FeedInv(n)'
    BY UserEffect DEF FeedInv
  <1>4. \A i \in 1..Len(round) : round[i].id \in Sources
    BY RowTyped DEF TypeOK
  <1>5. RoundInv'
    BY <1>4, UserEffect DEF RoundInv
  <1>6. TaskInv'
    BY UserEffect DEF TaskInv, Current, First, SeenBy
  <1> QED
    BY <1>1, <1>2, <1>3, <1>5, <1>6

\* Items are appended to feeds, or leave them.
LEMMA WorldEffect ==
  ASSUME PollInv, NEW m \in Modes, Appear(m) \/ \E i \in Items : Vanish(m, i)
  PROVE  /\ UNCHANGED <<source, rank, due, round, task, alerts, start>>
         /\ last' \in [Modes -> 0..MaxItem] /\ feed' \in [Modes -> SUBSET Items]
         /\ \A n \in Modes : last[n] <= last'[n]
         /\ \A n \in Modes : \A i \in feed'[n] :
               i <= last'[n] /\ (i \in feed[n] \/ i > last[n])
  <1> USE DEF PollInv
  <1>1. UNCHANGED <<source, rank, due, round, task, alerts, start>>
    BY DEF Appear, Vanish, rows, history
  <1>2. /\ last' \in [Modes -> 0..MaxItem] /\ feed' \in [Modes -> SUBSET Items]
        /\ \A n \in Modes : last[n] <= last'[n]
        /\ \A n \in Modes : \A i \in feed'[n] :
              i <= last'[n] /\ (i \in feed[n] \/ i > last[n])
    <2>1. CASE Appear(m)
      <3>1. last[m] + 1 \in Items /\ last[m] + 1 \in 0..MaxItem
        BY <2>1, BoundsAssumption DEF Appear, TypeOK, Items
      <3>2. /\ last' = [last EXCEPT ![m] = last[m] + 1]
            /\ feed' = [feed EXCEPT ![m] = feed[m] \cup {last[m] + 1}]
        BY <2>1 DEF Appear, TypeOK
      <3>3. /\ last' \in [Modes -> 0..MaxItem] /\ feed' \in [Modes -> SUBSET Items]
        BY <3>1, <3>2 DEF TypeOK
      <3>4. ASSUME NEW n \in Modes
            PROVE  /\ last[n] <= last'[n]
                   /\ \A i \in feed'[n] :
                         i <= last'[n] /\ (i \in feed[n] \/ i > last[n])
        <4>1. last[n] \in Nat /\ \A i \in feed[n] : i \in Nat /\ i <= last[n]
          BY BoundsAssumption DEF TypeOK, FeedInv, Items
        <4> QED
          BY <3>2, <4>1 DEF TypeOK
      <3> QED
        BY <3>3, <3>4
    <2>2. CASE \E i \in Items : Vanish(m, i)
      BY <2>2, BoundsAssumption DEF Vanish, TypeOK, FeedInv
    <2> QED
      BY <2>1, <2>2
  <1> QED
    BY <1>1, <1>2

\* What happens at the sites is not known to the poller.
LEMMA WorldKeepsPollInv ==
  ASSUME PollInv,
         NEW m \in Modes, Appear(m) \/ \E i \in Items : Vanish(m, i)
  PROVE  PollInv'
  <1> USE DEF PollInv
  <1>1. TypeOK'
    BY WorldEffect DEF TypeOK
  <1>2. \A t \in Sources : SourceInv(t)'
    <2> SUFFICES ASSUME NEW t \in Sources, source[t].watermark # None
                 PROVE  source[t].watermark.seen <= last'[source[t].watermark.mode]
      BY WorldEffect DEF SourceInv
    <2>1. source[t].watermark \in [mode : Modes, seen : 0..MaxItem]
      BY DEF TypeOK, SourceState, Watermarks
    <2>2. source[t].watermark.seen <= last[source[t].watermark.mode]
      BY DEF SourceInv
    <2> QED
      BY WorldEffect, <2>1, <2>2, BoundsAssumption DEF TypeOK
  <1>3. \A n \in Modes : FeedInv(n)'
    BY WorldEffect DEF FeedInv
  <1>4. RoundInv'
    BY WorldEffect DEF RoundInv
  <1>5. TaskInv'
    <2>1. CASE task.pc = "next"
      BY WorldEffect, <2>1 DEF TaskInv
    <2>2. CASE task.pc # "next"
      <3>1. /\ Current.mode \in Modes
            /\ task.mark \in [mode : Modes, seen : 0..MaxItem]
        BY <2>2, FirstRow DEF TaskInv, TypeOK, TaskState, RowState, Watermarks
      <3>2. task.mark.seen <= last'[Current.mode]
        BY WorldEffect, <2>2, <3>1, BoundsAssumption DEF TaskInv, TypeOK
      <3> QED
        BY WorldEffect, <2>2, <3>2 DEF TaskInv, Current, First, SeenBy
    <2> QED
      BY <2>1, <2>2
  <1> QED
    BY <1>1, <1>2, <1>3, <1>4, <1>5

\* A round begins with what the table says.
LEMMA StartKeepsPollInv ==
  ASSUME PollInv, StartRound
  PROVE  PollInv'
  <1> USE DEF PollInv
  <1>1. UNCHANGED <<source, rank, due, feed, last, task, alerts, start>> /\ round = <<>>
    BY DEF StartRound, rows, world, history
  <1>0. PICK n \in 1..Limit : \E list \in [1..n -> Sources] :
           /\ Listed(list)
           /\ round' = [i \in 1..n |-> [id |-> list[i], mode |-> source[list[i]].mode,
                                        watermark |-> source[list[i]].watermark]]
    BY DEF StartRound
  <1>2. PICK list \in [1..n -> Sources] :
           /\ Listed(list)
           /\ round' = [i \in 1..n |-> [id |-> list[i], mode |-> source[list[i]].mode,
                                        watermark |-> source[list[i]].watermark]]
    BY <1>0
  <1>3. n \in Nat /\ Len(list) = n /\ Len(round') = n
    BY <1>2, BoundsAssumption
  <1>4. ASSUME NEW i \in 1..n
        PROVE  /\ round'[i] \in RowState /\ round'[i].id = list[i]
               /\ round'[i].watermark = source[list[i]].watermark
    <2>1. source[list[i]] \in SourceState
      BY DEF TypeOK
    <2> QED
      BY <1>2, <2>1 DEF SourceState, RowState
  <1>5. round' \in Seq(RowState)
    BY <1>2, <1>3, <1>4, SeqDef
  <1>6. ASSUME NEW i \in 1..n, NEW j \in 1..n, list[i] = list[j]
        PROVE  i = j
    <2>1. ASSUME NEW a \in 1..n, NEW b \in 1..n, list[a] = list[b]
          PROVE  ~(a < b)
      <3>1. a < b => Before(list[a], list[a])
        BY <1>2, <1>3, <2>1 DEF Listed
      <3>2. rank[list[a]] \in Nat
        BY DEF TypeOK
      <3> QED
        BY <3>1, <3>2 DEF Before
    <2> QED
      BY <1>3, <1>6, <2>1
  <1>7. RoundInv'
    BY <1>1, <1>3, <1>4, <1>6 DEF RoundInv
  <1>8. TaskInv'
    BY <1>1 DEF TaskInv
  <1>9. TypeOK' /\ (\A s \in Sources : SourceInv(s)') /\ \A m \in Modes : FeedInv(m)'
    BY <1>1, <1>5 DEF TypeOK, SourceInv, FeedInv
  <1> QED
    BY <1>7, <1>8, <1>9

\* The end of a row: at most its own watermark is written, so what was read of
\* the other rows is still true.
LEMMA EndOfRowKeepsPollInv ==
  ASSUME PollInv, round # <<>>, round' = Tail(round), task' = NextRow,
         UNCHANGED <<world, alerts>>,
         start' \in [Sources -> [Modes -> 0..MaxItem \cup {None}]],
         NEW w \in Watermarks, w # None => w.seen <= last[w.mode],
         WriteWatermark(Current.id, w) \/ UNCHANGED rows
  PROVE  PollInv'
  <1> USE DEF PollInv
  <1> DEFINE s == Current.id
  <1>1. Current \in RowState /\ s \in Sources
    BY FirstRow DEF TypeOK, RowState
  <1>2. UNCHANGED <<feed, last, alerts>>
    BY DEF world
  <1>3. /\ source' \in [Sources -> SourceState]
        /\ rank' \in [Sources -> Nat] /\ due' \in [Sources -> BOOLEAN]
        /\ \A t \in Sources : source'[t].life = source[t].life
        /\ \A t \in Sources : t # s => source'[t] = source[t]
        /\ source'[s].watermark \in {source[s].watermark, IF Kept(s) THEN w ELSE None}
    <2>1. CASE WriteWatermark(s, w)
      BY <1>1, <2>1, WriteEffect
    <2>2. CASE UNCHANGED rows
      BY <2>2 DEF rows, TypeOK
    <2> QED
      BY <2>1, <2>2
  <1>4. NextRow \in TaskState
    BY DEF NextRow, TaskState, Watermarks
  <1>5. TypeOK'
    BY <1>2, <1>3, <1>4, FirstRow DEF TypeOK
  <1>6. ASSUME NEW t \in Sources
        PROVE  SourceInv(t)'
    BY <1>2, <1>3 DEF SourceInv, Kept
  <1>7. \A m \in Modes : FeedInv(m)'
    BY <1>2 DEF FeedInv
  <1>8. RoundInv'
    <2> SUFFICES ASSUME NEW i \in 1..Len(Tail(round))
                 PROVE  /\ round'[i].watermark = source'[round'[i].id].watermark
                        /\ \A j \in 1..Len(Tail(round)) :
                               round'[i].id = round'[j].id => i = j
      BY DEF RoundInv
    <2>1. /\ i \in Nat /\ i + 1 \in 1..Len(round) /\ round'[i] = round[i + 1]
          /\ \A j \in 1..Len(Tail(round)) :
                j \in Nat /\ j + 1 \in 1..Len(round) /\ round'[j] = round[j + 1]
          /\ Current = round[1] /\ 1 \in 1..Len(round)
      BY FirstRow DEF TypeOK
    <2>2. round[i + 1].id \in Sources /\ round[i + 1].id # s
      BY <2>1, RowTyped DEF RoundInv, TypeOK
    <2>3. round'[i].watermark = source'[round'[i].id].watermark
      BY <1>3, <2>1, <2>2 DEF RoundInv
    <2>4. \A j \in 1..Len(Tail(round)) : round'[i].id = round'[j].id => i = j
      BY <2>1 DEF RoundInv
    <2> QED
      BY <2>3, <2>4
  <1>9. TaskInv'
    BY DEF TaskInv, NextRow
  <1> QED
    BY <1>5, <1>6, <1>7, <1>8, <1>9

\* The first row is that of a source, with the watermark it still has.
LEMMA CurrentIsTrue ==
  ASSUME PollInv, round # <<>>
  PROVE  /\ Current \in RowState /\ Current.id \in Sources /\ Current.mode \in Modes
         /\ Current.watermark \in Watermarks
         /\ Current.watermark = source[Current.id].watermark
         /\ Current.watermark # None =>
               /\ Current.watermark \in [mode : Modes, seen : 0..MaxItem]
               /\ Current.watermark.seen <= last[Current.watermark.mode]
  <1>1. /\ Current \in RowState
        /\ Current.watermark = source[Current.id].watermark
    BY FirstRow DEF PollInv, TypeOK, RoundInv
  <1>2. /\ Current.id \in Sources /\ Current.mode \in Modes
        /\ Current.watermark \in Watermarks
    BY <1>1 DEF RowState
  <1>3. Current.watermark # None =>
           Current.watermark.seen <= last[Current.watermark.mode]
    BY <1>1, <1>2 DEF PollInv, SourceInv
  <1> QED
    BY <1>1, <1>2, <1>3 DEF Watermarks

\* A poll prepares a watermark that does not go back.
LEMMA PollEffect ==
  ASSUME PollInv, Poll
  PROVE  /\ round # <<>> /\ task.pc = "next"
         /\ UNCHANGED <<source, rank, due, feed, last, round, alerts, start>>
         /\ \E drop \in {Unwanted, {}}, got \in SUBSET Page(Fresh(Current.mode,
                              SeenBy(Current.mode, Current.watermark))) :
               /\ "fetch" \in Faults
                     \/ got = Page(Fresh(Current.mode, SeenBy(Current.mode, Current.watermark)))
               /\ task'.items = IF First(Current) THEN {} ELSE got \ drop
         /\ task'.pc = "ingest"
         /\ task'.mark \in [mode : Modes, seen : 0..MaxItem]
         /\ task'.mark.mode = Current.mode
         /\ SeenBy(Current.mode, Current.watermark) <= task'.mark.seen
         /\ task'.mark.seen <= last[Current.mode]
         /\ task' \in TaskState
  <1> DEFINE m == Current.mode
             seen == SeenBy(m, Current.watermark)
             page == Page(Fresh(m, seen))
  <1>1. /\ round # <<>> /\ task.pc = "next"
        /\ UNCHANGED <<source, rank, due, feed, last, round, alerts, start>>
    BY DEF Poll, Ready, NextRow, rows, world, history
  <1>2. PICK got \in SUBSET page, drop \in {Unwanted, {}}, next \in NextSeen(m, seen) :
           /\ "fetch" \in Faults \/ got = page
           /\ task' = [pc |-> "ingest",
                       items |-> IF First(Current) THEN {} ELSE got \ drop,
                       mark |-> [mode |-> m, seen |-> next]]
    BY DEF Poll
  <1>3. m \in Modes /\ seen \in 0..MaxItem
    BY <1>1, CurrentIsTrue, SeenTyped
  <1>4. /\ next \in 0..MaxItem /\ next \in feed[m] \cup {seen} /\ seen <= next
    BY <1>2, <1>3, NextSeenEffect DEF PollInv
  <1>5. seen <= last[m]
    <2>1. last[m] \in Nat
      BY <1>3, BoundsAssumption DEF PollInv, TypeOK
    <2> QED
      BY <1>1, <2>1, CurrentIsTrue DEF SeenBy
  <1>6. next <= last[m]
    BY <1>3, <1>4, <1>5 DEF PollInv, FeedInv
  <1>7. page \subseteq Items
    BY <1>3 DEF Page, Fresh, PollInv, TypeOK
  <1>8. task' \in TaskState
    BY <1>2, <1>3, <1>4, <1>7 DEF TaskState, Watermarks
  <1> QED
    BY <1>1, <1>2, <1>3, <1>4, <1>6, <1>8

\* The ingestion of an item leaves all but the alerts alone.
LEMMA IngestEffect ==
  ASSUME PollInv, NEW i \in Items, Ingest(i)
  PROVE  /\ round # <<>> /\ task.pc = "ingest" /\ i \in task.items
         /\ UNCHANGED <<source, rank, due, feed, last, round, start>>
         /\ task' \in TaskState /\ task'.pc = "ingest" /\ task'.mark = task.mark
         /\ task'.items = task.items \ {i}
         /\ alerts' \in [Sources -> [Modes -> SUBSET Items]]
         /\ \A s \in Sources, m \in Modes : s # Current.id \/ m # Current.mode =>
               alerts'[s][m] = alerts[s][m]
         /\ \/ /\ Kept(Current.id)
               /\ alerts'[Current.id][Current.mode] =
                     alerts[Current.id][Current.mode] \cup {i}
            \/ /\ ~Kept(Current.id) \/ "ingest" \in Faults
               /\ alerts' = alerts
  <1> DEFINE s == Current.id
             m == Current.mode
             x == [alerts[s] EXCEPT ![m] = alerts[s][m] \cup {i}]
  <1>1. /\ task.pc = "ingest" /\ i \in task.items
        /\ UNCHANGED <<source, rank, due, feed, last, round, start>>
        /\ task' = [task EXCEPT !.items = task.items \ {i}]
    BY DEF Ingest, rows, world
  <1>2. round # <<>>
    BY <1>1 DEF PollInv, TaskInv
  <1>3. s \in Sources /\ m \in Modes
    BY <1>2, CurrentIsTrue
  <1>4. /\ task' \in TaskState /\ task'.pc = "ingest" /\ task'.mark = task.mark
        /\ task'.items = task.items \ {i}
    BY <1>1 DEF PollInv, TypeOK, TaskState
  <1>5. x \in [Modes -> SUBSET Items] /\ x[m] = alerts[s][m] \cup {i}
        /\ \A n \in Modes : n # m => x[n] = alerts[s][n]
    BY <1>3 DEF PollInv, TypeOK
  <1>6. CASE /\ Kept(s)
             /\ alerts' = [alerts EXCEPT ![s][m] = alerts[s][m] \cup {i}]
    <2>1. alerts' = [alerts EXCEPT ![s] = x]
      BY <1>6
    <2>2. /\ alerts' \in [Sources -> [Modes -> SUBSET Items]] /\ alerts'[s] = x
          /\ \A t \in Sources : t # s => alerts'[t] = alerts[t]
      BY <1>3, <1>5, <2>1 DEF PollInv, TypeOK
    <2> QED
      BY <1>1, <1>2, <1>3, <1>4, <1>5, <1>6, <2>2
  <1>7. CASE (~Kept(s) \/ "ingest" \in Faults) /\ UNCHANGED alerts
    BY <1>1, <1>2, <1>4, <1>7 DEF PollInv, TypeOK
  <1> QED
    BY <1>6, <1>7 DEF Ingest

\* What the end of a poll does: the watermark of the task, or nothing.
LEMMA FinishEffect ==
  ASSUME PollInv, Finish
  PROVE  /\ round # <<>> /\ task.pc = "ingest" /\ task.items = {}
         /\ UNCHANGED <<world, alerts>> /\ round' = Tail(round) /\ task' = NextRow
         /\ task.mark \in [mode : Modes, seen : 0..MaxItem] /\ task.mark # None
         /\ task.mark.mode = Current.mode
         /\ start' \in [Sources -> [Modes -> 0..MaxItem \cup {None}]]
         /\ \A s \in Sources, m \in Modes :
               s # Current.id \/ m # Current.mode \/ ~First(Current) =>
                  start'[s][m] = start[s][m]
         /\ \/ /\ WriteWatermark(Current.id, task.mark)
               /\ First(Current) =>
                     start'[Current.id][Current.mode] = task.mark.seen
            \/ UNCHANGED rows /\ start' = start
  <1> DEFINE s == Current.id
             m == Current.mode
             x == [start[s] EXCEPT ![m] = task.mark.seen]
  <1>1. /\ task.pc = "ingest" /\ task.items = {}
        /\ UNCHANGED <<world, alerts>> /\ round' = Tail(round) /\ task' = NextRow
    BY DEF Finish
  <1>2. /\ round # <<>> /\ task.mark # None /\ task.mark.mode = Current.mode
    BY <1>1 DEF PollInv, TaskInv
  <1>3. task.mark \in [mode : Modes, seen : 0..MaxItem]
    BY <1>2 DEF PollInv, TypeOK, TaskState, Watermarks
  <1>4. s \in Sources /\ m \in Modes
    BY <1>2, CurrentIsTrue
  <1>5. CASE UNCHANGED <<rows, start>> \/ (WriteWatermark(s, task.mark) /\ ~First(Current)
                                             /\ start' = start)
    BY <1>1, <1>2, <1>3, <1>5 DEF PollInv, TypeOK
  <1>6. CASE /\ WriteWatermark(s, task.mark) /\ First(Current)
             /\ start' = [start EXCEPT ![s][m] = task.mark.seen]
    <2>1. start' = [start EXCEPT ![s] = x]
      BY <1>6
    <2>2. x \in [Modes -> 0..MaxItem \cup {None}] /\ x[m] = task.mark.seen
          /\ \A n \in Modes : n # m => x[n] = start[s][n]
      BY <1>3, <1>4 DEF PollInv, TypeOK
    <2>3. /\ start' \in [Sources -> [Modes -> 0..MaxItem \cup {None}]] /\ start'[s] = x
          /\ \A t \in Sources : t # s => start'[t] = start[t]
      BY <1>4, <2>1, <2>2 DEF PollInv, TypeOK
    <2> QED
      BY <1>1, <1>2, <1>3, <1>4, <1>6, <2>2, <2>3
  <1> QED
    BY <1>5, <1>6 DEF Finish

LEMMA PollerKeepsPollInv ==
  ASSUME PollInv, Step \/ Crash \/ \E s \in Sources : BecomeDue(s)
  PROVE  PollInv'
  <1> NextRow \in TaskState /\ None \in Watermarks /\ NextRow.pc = "next"
    BY DEF NextRow, TaskState, Watermarks
  <1>1. CASE Skip
    <2>1. /\ round # <<>> /\ task' = NextRow /\ round' = Tail(round)
          /\ UNCHANGED <<rows, world, alerts, start>>
      BY <1>1 DEF Skip, Ready, history
    <2>2. start' \in [Sources -> [Modes -> 0..MaxItem \cup {None}]]
      BY <2>1 DEF PollInv, TypeOK
    <2> QED
      BY <2>1, <2>2, EndOfRowKeepsPollInv
  <1>2. CASE PollFails
    <2>1. /\ round # <<>> /\ task' = NextRow /\ round' = Tail(round)
          /\ UNCHANGED <<world, alerts, start>>
          /\ WriteWatermark(Current.id, Current.watermark) \/ UNCHANGED rows
      BY <1>2 DEF PollFails, Ready, history
    <2>2. start' \in [Sources -> [Modes -> 0..MaxItem \cup {None}]]
      BY <2>1 DEF PollInv, TypeOK
    <2> QED
      BY <2>1, <2>2, CurrentIsTrue, EndOfRowKeepsPollInv
  <1>3. CASE Poll
    <2>1. TypeOK'
      BY <1>3, PollEffect DEF PollInv, TypeOK
    <2>2. /\ \A s \in Sources : SourceInv(s)'
          /\ \A m \in Modes : FeedInv(m)'
          /\ RoundInv'
      BY <1>3, PollEffect DEF PollInv, SourceInv, FeedInv, RoundInv
    <2>3. task'.mark # None
      BY <1>3, PollEffect, NoneAssumption, BoundsAssumption
    <2>4. First(Current) => task'.items = {}
      BY <1>3, PollEffect
    <2>5. round' = round /\ last' = last
      BY <1>3, PollEffect
    <2>6. TaskInv'
      BY <1>3, <2>3, <2>4, <2>5, PollEffect DEF TaskInv, Current, First
    <2> QED
      BY <2>1, <2>2, <2>6 DEF PollInv
  <1>4. ASSUME NEW i \in Items, Ingest(i)
        PROVE  PollInv'
    <2>1. TypeOK'
      BY <1>4, IngestEffect DEF PollInv, TypeOK
    <2>2. /\ \A s \in Sources : SourceInv(s)'
          /\ \A m \in Modes : FeedInv(m)'
          /\ RoundInv'
      BY <1>4, IngestEffect DEF PollInv, SourceInv, FeedInv, RoundInv
    <2>3. TaskInv'
      BY <1>4, IngestEffect DEF PollInv, TaskInv, Current, First, SeenBy
    <2> QED
      BY <2>1, <2>2, <2>3 DEF PollInv
  <1>5. CASE Finish
    <2>1. task.mark \in Watermarks /\ task.mark.seen <= last[task.mark.mode]
      BY <1>5, FinishEffect DEF PollInv, TaskInv, Watermarks
    <2> QED
      BY <1>5, <2>1, FinishEffect, EndOfRowKeepsPollInv
  <1>6. CASE Crash
    <2>1. round' = <<>> /\ task' = NextRow
          /\ UNCHANGED <<source, rank, due, feed, last, alerts, start>>
      BY <1>6 DEF Crash, rows, world, history
    <2>2. round' \in Seq(RowState) /\ Len(round') = 0
      BY <2>1, EmptySeq
    <2>3. RoundInv' /\ TaskInv'
      BY <2>1, <2>2 DEF RoundInv, TaskInv
    <2> QED
      BY <2>1, <2>2, <2>3 DEF PollInv, TypeOK, SourceInv, FeedInv
  <1>7. ASSUME NEW s \in Sources, BecomeDue(s)
        PROVE  PollInv'
    <2>1. /\ due' \in [Sources -> BOOLEAN]
          /\ UNCHANGED <<source, rank, feed, last, round, task, alerts, start>>
      BY <1>7 DEF BecomeDue, world, history, PollInv, TypeOK
    <2> QED
      BY <2>1 DEF PollInv, TypeOK, SourceInv, FeedInv, RoundInv, TaskInv, Current, First
  <1> QED
    BY <1>1, <1>2, <1>3, <1>4, <1>5, <1>6, <1>7 DEF Step

LEMMA StutterKeepsPollInv ==
  ASSUME PollInv, UNCHANGED vars
  PROVE  PollInv'
  <1>1. UNCHANGED <<source, rank, due, feed, last, round, task, alerts, start>>
    BY DEF vars, rows, world, history
  <1>2. TypeOK' /\ RoundInv'
    BY <1>1 DEF PollInv, TypeOK, RoundInv
  <1>3. (\A s \in Sources : SourceInv(s)') /\ \A m \in Modes : FeedInv(m)'
    BY <1>1 DEF PollInv, SourceInv, FeedInv
  <1>4. TaskInv'
    BY <1>1 DEF PollInv, TaskInv, Current, First, SeenBy
  <1> QED
    BY <1>2, <1>3, <1>4 DEF PollInv

\* PollInv is inductive.
LEMMA PollStep ==
  ASSUME PollInv, [Next]_vars
  PROVE  PollInv'
  <1>1. ASSUME NEW s \in Sources, NEW m \in Modes, NEW e \in BOOLEAN,
               Create(s, m, e) \/ Update(s, m, e)
        PROVE  PollInv'
    BY <1>1, UsersKeepPollInv
  <1>2. ASSUME NEW s \in Sources, Delete(s)
        PROVE  PollInv'
    BY <1>2, UsersKeepPollInv, SourcesAssumption
  <1>3. ASSUME NEW m \in Modes, Appear(m) \/ \E i \in Items : Vanish(m, i)
        PROVE  PollInv'
    BY <1>3, WorldKeepsPollInv
  <1>4. CASE StartRound
    BY <1>4, StartKeepsPollInv
  <1>5. CASE Step \/ Crash \/ \E s \in Sources : BecomeDue(s)
    BY <1>5, PollerKeepsPollInv
  <1>6. CASE UNCHANGED vars
    BY <1>6, StutterKeepsPollInv
  <1> QED
    BY <1>1, <1>2, <1>3, <1>4, <1>5, <1>6 DEF Next

LEMMA PollInvariant == Spec => []PollInv
  <1>1. PollInv /\ [Next]_vars => PollInv'
    BY PollStep
  <1> QED
    BY PollInit, <1>1, PTL DEF Spec

\* Every variable keeps its type under every fault: service/source_poller.go and
\* service/monitor_source.go.
THEOREM SourceTypes == Spec => []TypeOK
  BY PollInvariant, PTL DEF PollInv

-----------------------------------------------------------------------------
(***************************************************************************)
(* Watermarks never go back.                                               *)
(***************************************************************************)

\* Of the poller's actions, two write watermarks: the one that was read, and
\* the one that the poll prepared.
LEMMA WatermarkStep ==
  ASSUME PollInv, [Next]_vars, NEW s \in Sources,
         source[s].watermark # None
  PROVE  /\ source'[s].watermark # None
         /\ source[s].watermark.mode = source'[s].watermark.mode =>
               source[s].watermark.seen <= source'[s].watermark.seen
  <1> DEFINE old == source[s].watermark
             new == source'[s].watermark
  <1>1. source[s] \in SourceState /\ old.seen \in 0..MaxItem /\ old.seen \in Nat
    BY BoundsAssumption DEF PollInv, TypeOK, SourceState, Watermarks
  <1>2. CASE new = old
    BY <1>1, <1>2
  <1>3. ASSUME NEW t \in Sources, NEW m \in Modes, NEW e \in BOOLEAN,
               Create(t, m, e) \/ Update(t, m, e) \/ Delete(t)
        PROVE  new = old
    BY <1>3, UserEffect DEF PollInv
  <1>4. CASE PollFails
    <2>1. /\ round # <<>>
          /\ WriteWatermark(Current.id, Current.watermark) \/ UNCHANGED source
      BY <1>4 DEF PollFails, Ready, rows
    <2>2. /\ Current.id \in Sources /\ Current.watermark \in Watermarks
          /\ Current.watermark = source[Current.id].watermark
      BY <2>1, CurrentIsTrue
    <2>3. new = old
      BY <2>1, <2>2, WriteEffect DEF PollInv
    <2> QED
      BY <1>2, <2>3
  <1>5. CASE Finish
    <2>1. /\ round # <<>> /\ Current.id \in Sources
          /\ Current.watermark = source[Current.id].watermark
          /\ task.mark \in [mode : Modes, seen : 0..MaxItem] /\ task.mark # None
          /\ task.mark.mode = Current.mode
          /\ WriteWatermark(Current.id, task.mark) \/ UNCHANGED source
      BY <1>5, FinishEffect, CurrentIsTrue DEF rows
    <2>2. SeenBy(Current.mode, Current.watermark) <= task.mark.seen
      BY <1>5, FinishEffect DEF PollInv, TaskInv
    <2>3. CASE s = Current.id /\ new = task.mark
      BY <2>1, <2>2, <2>3, SeenTyped DEF SeenBy
    <2>4. CASE s # Current.id \/ new # task.mark
      <3>1. task.mark \in Watermarks
        BY <2>1 DEF Watermarks
      <3>2. new = old
        BY <2>1, <2>4, <3>1, WriteEffect DEF PollInv
      <3> QED
        BY <1>2, <3>2
    <2> QED
      BY <2>3, <2>4
  <1>6. CASE UNCHANGED source
    BY <1>2, <1>6
  <1>7. \/ \E t \in Sources, m \in Modes, e \in BOOLEAN :
              Create(t, m, e) \/ Update(t, m, e) \/ Delete(t)
        \/ PollFails \/ Finish \/ UNCHANGED source
    <2>1. \E m \in Modes : TRUE
      BY SourcesAssumption
    <2> QED
      BY <2>1 DEF Next, Step, Appear, Vanish, BecomeDue, StartRound, Skip, Poll, Ingest,
                  Crash, rows, vars
  <1> QED
    BY <1>2, <1>3, <1>4, <1>5, <1>6, <1>7

\* However rounds, failures, crashes and changes of the row interleave, the
\* watermark of a mode never goes back: UpdateSourceWatermark is unconditional,
\* and only one round at a time writes it (service/source_poller.go).
THEOREM WatermarksNeverGoBack == Spec => WatermarkAdvances
  <1> DEFINE Advance ==
        \A s \in Sources :
          LET old == source[s].watermark
              new == source'[s].watermark IN
          old # None => new # None /\ (old.mode = new.mode => old.seen <= new.seen)
  <1>1. PollInv /\ [Next]_vars => [Advance]_vars
    BY WatermarkStep
  <1> QED
    BY <1>1, PollInvariant, PTL DEF Spec, WatermarkAdvances

-----------------------------------------------------------------------------
(***************************************************************************)
(* Nothing is skipped.                                                     *)
(***************************************************************************)

\* A poll finds no more than Cap items, unless it is the first of its source.
PollsFit ==
    Ready /\ ~First(Current) =>
        Cardinality(Fresh(Current.mode, SeenBy(Current.mode, Current.watermark))) <= Cap

\* When the watermark of the task is written, it will not have passed an item:
\* what it passes has arrived before or is still to be ingested.
Pending ==
    task.pc = "ingest" /\ ~First(Current) /\ Kept(Current.id) =>
        \A i \in feed[Current.mode] :
            Floor(Current.id, Current.mode) < i /\ i <= task.mark.seen =>
                i \in alerts[Current.id][Current.mode] \cup Unwanted \cup task.items

SkipInv == NothingSkipped /\ Pending

\* A page that the cap does not cut holds all items.
LEMMA WholePage ==
  ASSUME TypeOK, NEW m \in Modes, NEW seen \in 0..MaxItem,
         Cardinality(Fresh(m, seen)) <= Cap
  PROVE  Page(Fresh(m, seen)) = Fresh(m, seen)
  <1> DEFINE fresh == Fresh(m, seen)
  <1>1. fresh \subseteq Items /\ fresh \in SUBSET Nat
    BY BoundsAssumption DEF Fresh, TypeOK, Items
  <1>2. IsFiniteSet(fresh)
    <2>1. IsFiniteSet(Items)
      BY BoundsAssumption, FS_Interval DEF Items
    <2> QED
      BY <1>1, <2>1, FS_Subset
  <1>3. ASSUME NEW i \in fresh
        PROVE  Cardinality({j \in fresh : j > i}) < Cap
    <2> DEFINE above == {j \in fresh : j > i}
    <2>1. above \subseteq fresh \ {i}
      BY <1>1
    <2>2. /\ IsFiniteSet(fresh \ {i})
          /\ Cardinality(fresh \ {i}) = Cardinality(fresh) - 1
      BY <1>2, FS_RemoveElement
    <2>3. /\ IsFiniteSet(above)
          /\ Cardinality(above) <= Cardinality(fresh \ {i})
      BY <2>1, <2>2, FS_Subset
    <2>4. Cardinality(fresh) \in Nat /\ Cardinality(above) \in Nat
      BY <1>2, <2>3, FS_CardinalityType
    <2> QED
      BY <2>2, <2>3, <2>4, BoundsAssumption
  <1> QED
    BY <1>3 DEF Page

LEMMA SkipInit == Init => SkipInv
  BY DEF Init, SkipInv, NothingSkipped, Pending, NoSource, NextRow

LEMMA UsersKeepSkipInv ==
  ASSUME PollInv, SkipInv, NEW s \in Sources, NEW m \in Modes, NEW e \in BOOLEAN,
         Create(s, m, e) \/ Update(s, m, e) \/ Delete(s)
  PROVE  SkipInv'
  <1>1. /\ UNCHANGED <<feed, last, round, task, alerts, start>>
        /\ \A t \in Sources : source'[t].watermark = source[t].watermark
        /\ \A t \in Sources : source'[t].life = "kept" =>
                                  Kept(t) \/ source[t].watermark = None
    BY UserEffect DEF PollInv, Kept
  <1>2. NothingSkipped'
    BY <1>1 DEF SkipInv, NothingSkipped, Floor, Kept
  <1>3. Pending'
    <2> SUFFICES ASSUME task.pc = "ingest", ~First(Current),
                        source'[Current.id].life = "kept"
                 PROVE  Pending'
      BY <1>1 DEF Pending, First, Current, Kept
    <2>1. /\ Current.id \in Sources
          /\ Current.watermark = source[Current.id].watermark
      BY CurrentIsTrue DEF PollInv, TaskInv
    <2>2. Kept(Current.id)
      BY <1>1, <2>1 DEF First
    <2> QED
      BY <1>1, <2>2 DEF SkipInv, Pending, Floor, Current, First
  <1> QED
    BY <1>2, <1>3 DEF SkipInv

LEMMA WorldKeepsSkipInv ==
  ASSUME PollInv, SkipInv,
         NEW m \in Modes, Appear(m) \/ \E i \in Items : Vanish(m, i)
  PROVE  SkipInv'
  <1>1. NothingSkipped'
    <2> SUFFICES ASSUME NEW s \in Sources, source[s].watermark # None,
                        NEW i \in feed'[source[s].watermark.mode],
                        Floor(s, source[s].watermark.mode) < i,
                        i <= source[s].watermark.seen
                 PROVE  \/ i \in alerts[s][source[s].watermark.mode] \cup Unwanted
                        \/ ~Kept(s)
      BY WorldEffect DEF NothingSkipped, Floor, Kept
    <2> DEFINE w == source[s].watermark
    <2>1. w \in [mode : Modes, seen : 0..MaxItem] /\ w.seen <= last[w.mode]
      BY DEF PollInv, SourceInv, TypeOK, SourceState, Watermarks
    <2>2. i \in Nat /\ last[w.mode] \in Nat /\ w.seen \in Nat
      BY <2>1, WorldEffect, BoundsAssumption DEF PollInv, TypeOK, Items
    <2>3. i \in feed[w.mode]
      BY <2>1, <2>2, WorldEffect
    <2> QED
      BY <2>3 DEF SkipInv, NothingSkipped
  <1>2. Pending'
    <2> SUFFICES ASSUME task.pc = "ingest", ~First(Current), Kept(Current.id),
                        NEW i \in feed'[Current.mode],
                        Floor(Current.id, Current.mode) < i, i <= task.mark.seen
                 PROVE  i \in alerts[Current.id][Current.mode] \cup Unwanted \cup task.items
      BY WorldEffect DEF Pending, First, Current, Floor, Kept
    <2>1. /\ Current.mode \in Modes /\ task.mark.seen <= last[Current.mode]
          /\ task.mark \in [mode : Modes, seen : 0..MaxItem]
      BY CurrentIsTrue DEF PollInv, TaskInv, TypeOK, TaskState, Watermarks
    <2>2. i \in Nat /\ last[Current.mode] \in Nat /\ task.mark.seen \in Nat
      BY <2>1, WorldEffect, BoundsAssumption DEF PollInv, TypeOK, Items
    <2>3. i \in feed[Current.mode]
      BY <2>1, <2>2, WorldEffect
    <2> QED
      BY <2>3 DEF SkipInv, Pending
  <1> QED
    BY <1>1, <1>2 DEF SkipInv

\* What a poll will pass over is what it is going to ingest, what the rules
\* drop, and what the old watermark had passed.
LEMMA PollKeepsSkipInv ==
  ASSUME PollInv, SkipInv, PollsFit, "fetch" \notin Faults, Poll
  PROVE  SkipInv'
  <1> DEFINE s == Current.id
             m == Current.mode
             seen == SeenBy(m, Current.watermark)
  <1>1. UNCHANGED <<source, feed, last, round, alerts, start>> /\ Ready
    BY PollEffect DEF Poll
  <1>2. NothingSkipped'
    BY <1>1 DEF SkipInv, NothingSkipped, Floor, Kept
  <1>3. Pending'
    <2> SUFFICES ASSUME ~First(Current), Kept(s),
                        NEW i \in feed[m], Floor(s, m) < i, i <= task'.mark.seen
                 PROVE  i \in alerts[s][m] \cup Unwanted \cup task'.items
      BY <1>1 DEF Pending, First, Current, Floor, Kept
    <2>1. /\ s \in Sources /\ m \in Modes /\ seen \in 0..MaxItem /\ seen \in Nat
          /\ Current.watermark = source[s].watermark /\ Current.watermark # None
          /\ Current.watermark \in [mode : Modes, seen : 0..MaxItem]
      BY <1>1, CurrentIsTrue, SeenTyped, BoundsAssumption DEF Ready, First
    <2>2. i \in Items /\ i \in Nat /\ i > 0
      BY <2>1, BoundsAssumption DEF PollInv, TypeOK, Items
    <2>3. CASE i > seen
      <3>1. Page(Fresh(m, seen)) = Fresh(m, seen)
        BY <1>1, <2>1, WholePage DEF PollsFit, PollInv
      <3>2. \E drop \in {Unwanted, {}} : task'.items = Fresh(m, seen) \ drop
        BY <3>1, PollEffect
      <3> QED
        BY <2>3, <3>2 DEF Fresh
    <2>4. CASE i <= seen
      <3>1. Current.watermark.mode = m /\ Current.watermark.seen = seen
        BY <2>1, <2>2, <2>4 DEF SeenBy
      <3> QED
        BY <2>1, <2>4, <3>1 DEF SkipInv, NothingSkipped
    <2> QED
      BY <2>1, <2>2, <2>3, <2>4
  <1> QED
    BY <1>2, <1>3 DEF SkipInv

LEMMA IngestKeepsSkipInv ==
  ASSUME PollInv, SkipInv, "ingest" \notin Faults, NEW i \in Items, Ingest(i)
  PROVE  SkipInv'
  <1> DEFINE s == Current.id
             m == Current.mode
  <1>1. /\ UNCHANGED <<source, feed, last, round, start>> /\ task.pc = "ingest"
        /\ task'.mark = task.mark /\ task'.items = task.items \ {i}
        /\ \A t \in Sources, n \in Modes : t # s \/ n # m => alerts'[t][n] = alerts[t][n]
        /\ IF Kept(s) THEN alerts'[s][m] = alerts[s][m] \cup {i} ELSE alerts' = alerts
        /\ s \in Sources /\ m \in Modes
    BY IngestEffect, CurrentIsTrue
  <1>2. \A t \in Sources, n \in Modes : alerts[t][n] \subseteq alerts'[t][n]
    BY <1>1
  <1>3. NothingSkipped'
    <2> SUFFICES ASSUME NEW t \in Sources, source[t].watermark # None,
                        NEW j \in feed[source[t].watermark.mode],
                        Floor(t, source[t].watermark.mode) < j,
                        j <= source[t].watermark.seen, Kept(t)
                 PROVE  j \in alerts'[t][source[t].watermark.mode] \cup Unwanted
      BY <1>1 DEF NothingSkipped, Floor, Kept
    <2>1. source[t].watermark.mode \in Modes
      BY DEF PollInv, TypeOK, SourceState, Watermarks
    <2>2. j \in alerts[t][source[t].watermark.mode] \cup Unwanted
      BY DEF SkipInv, NothingSkipped
    <2> QED
      BY <1>2, <2>1, <2>2
  <1>4. Pending'
    BY <1>1, <1>2 DEF SkipInv, Pending, First, Current, Floor, Kept
  <1> QED
    BY <1>3, <1>4 DEF SkipInv

\* When the watermark is written, all items have been ingested; if it is the
\* first, nothing that appeared before it counts.
LEMMA FinishKeepsSkipInv ==
  ASSUME PollInv, SkipInv, Finish
  PROVE  SkipInv'
  <1> DEFINE s == Current.id
             m == Current.mode
             w == task.mark
             FloorNext(t, n) == IF start'[t][n] = None THEN 0 ELSE start'[t][n]
  <1>1. /\ s \in Sources /\ m \in Modes
        /\ w \in Watermarks /\ w # None /\ w.mode = m /\ w.seen \in Nat
        /\ task.pc = "ingest" /\ task.items = {} /\ task' = NextRow
        /\ UNCHANGED <<feed, last, alerts>>
    BY FinishEffect, CurrentIsTrue, BoundsAssumption DEF Watermarks, world
  <1>2. CASE UNCHANGED rows /\ start' = start
    BY <1>1, <1>2 DEF SkipInv, NothingSkipped, Pending, Floor, Kept, NextRow, rows
  <1>3. CASE WriteWatermark(s, w) /\ (First(Current) => start'[s][m] = w.seen)
    <2>1. /\ \A t \in Sources : source'[t].life = source[t].life
          /\ \A t \in Sources : t # s => source'[t] = source[t]
          /\ source'[s].watermark = IF Kept(s) THEN w ELSE source[s].watermark
      BY <1>1, <1>3, WriteEffect DEF PollInv
    <2>2. ASSUME NEW t \in Sources, source'[t].watermark # None,
                 NEW j \in feed[source'[t].watermark.mode],
                 FloorNext(t, source'[t].watermark.mode) < j,
                 j <= source'[t].watermark.seen, source[t].life = "kept"
          PROVE  j \in alerts[t][source'[t].watermark.mode] \cup Unwanted
      <3>1. CASE t # s
        <4>1. source[t].watermark.mode \in Modes
          BY <2>1, <2>2, <3>1 DEF PollInv, TypeOK, SourceState, Watermarks
        <4>2. Floor(t, source[t].watermark.mode) < j
          BY <2>1, <2>2, <3>1, <4>1, FinishEffect DEF Floor
        <4> QED
          BY <2>1, <2>2, <3>1, <4>2 DEF SkipInv, NothingSkipped, Kept
      <3>2. CASE t = s /\ First(Current)
        <4>1. source'[s].watermark = w
          BY <2>1, <2>2, <3>2 DEF Kept
        <4>2. start'[s][m] = w.seen
          BY <1>3, <3>2
        <4>3. w.seen < j /\ j <= w.seen
          BY <1>1, <2>2, <3>2, <4>1, <4>2, NoneAssumption DEF Floor
        <4>4. j \in Nat
          BY <1>1, <2>2, <3>2, <4>1, BoundsAssumption DEF PollInv, TypeOK, Items
        <4> QED
          BY <1>1, <4>3, <4>4
      <3>3. CASE t = s /\ ~First(Current)
        <4>1. source'[s].watermark = w /\ Kept(s)
          BY <2>1, <2>2, <3>3 DEF Kept
        <4>2. start'[s][m] = start[s][m]
          BY <1>1, <3>3, FinishEffect
        <4>3. j \in feed[m] /\ Floor(s, m) < j /\ j <= w.seen
          BY <1>1, <2>2, <3>3, <4>1, <4>2 DEF Floor
        <4> QED
          BY <1>1, <3>3, <4>1, <4>3 DEF SkipInv, Pending
      <3> QED
        BY <3>1, <3>2, <3>3
    <2>3. NothingSkipped'
      BY <1>1, <2>1, <2>2 DEF NothingSkipped, Kept, Floor
    <2>4. Pending'
      BY <1>1 DEF Pending, NextRow
    <2> QED
      BY <2>3, <2>4 DEF SkipInv
  <1> QED
    BY <1>1, <1>2, <1>3, FinishEffect

\* The other actions write the watermark that was read, or none.
LEMMA OthersKeepSkipInv ==
  ASSUME PollInv, SkipInv,
         StartRound \/ Skip \/ PollFails \/ Crash
            \/ (\E s \in Sources : BecomeDue(s)) \/ UNCHANGED vars
  PROVE  SkipInv'
  <1>1. CASE UNCHANGED vars
    BY <1>1 DEF SkipInv, NothingSkipped, Pending, Floor, Kept, First, Current, vars
  <1>2. CASE \E s \in Sources : BecomeDue(s)
    BY <1>2 DEF BecomeDue, world, history, SkipInv, NothingSkipped, Pending, Floor, Kept,
                First, Current
  <1>3. CASE StartRound \/ Skip \/ PollFails \/ Crash
    <2>1. /\ task'.pc = "next" /\ UNCHANGED <<feed, last, alerts, start>>
          /\ \/ UNCHANGED source
             \/ round # <<>> /\ WriteWatermark(Current.id, Current.watermark)
      BY <1>3 DEF StartRound, Skip, PollFails, Crash, Ready, NextRow, rows, world, history,
                  PollInv, TaskInv
    <2>2. \A s \in Sources : /\ source'[s].life = source[s].life
                             /\ source'[s].watermark = source[s].watermark
      BY <2>1, CurrentIsTrue, WriteEffect DEF PollInv
    <2> QED
      BY <2>1, <2>2 DEF SkipInv, NothingSkipped, Pending, Floor, Kept
  <1> QED
    BY <1>1, <1>2, <1>3

LEMMA SkipStep ==
  ASSUME PollInv, SkipInv, PollsFit, "fetch" \notin Faults, "ingest" \notin Faults,
         [Next]_vars
  PROVE  SkipInv'
  <1>1. ASSUME NEW s \in Sources, NEW m \in Modes, NEW e \in BOOLEAN,
               Create(s, m, e) \/ Update(s, m, e)
        PROVE  SkipInv'
    BY <1>1, UsersKeepSkipInv
  <1>2. ASSUME NEW s \in Sources, Delete(s)
        PROVE  SkipInv'
    BY <1>2, UsersKeepSkipInv, SourcesAssumption
  <1>3. ASSUME NEW m \in Modes, Appear(m) \/ \E i \in Items : Vanish(m, i)
        PROVE  SkipInv'
    BY <1>3, WorldKeepsSkipInv
  <1>4. CASE Poll
    BY <1>4, PollKeepsSkipInv
  <1>5. CASE \E i \in Items : Ingest(i)
    BY <1>5, IngestKeepsSkipInv
  <1>6. CASE Finish
    BY <1>6, FinishKeepsSkipInv
  <1>7. CASE StartRound \/ Skip \/ PollFails \/ Crash
                \/ (\E s \in Sources : BecomeDue(s)) \/ UNCHANGED vars
    BY <1>7, OthersKeepSkipInv
  <1> QED
    BY <1>1, <1>2, <1>3, <1>4, <1>5, <1>6, <1>7 DEF Next, Step

\* If items can be fetched and ingested, and no poll but a first one finds more
\* than Cap items, no watermark passes an item that arrived nowhere: crashes,
\* failed polls, lost writes and changes of the row repeat items, never lose
\* them (service/source_poller.go, integration/hn_new_monitor.go).
THEOREM NothingIsSkipped ==
  ASSUME "fetch" \notin Faults, "ingest" \notin Faults
  PROVE  Spec /\ []PollsFit => []NothingSkipped
  <1>1. PollInv /\ SkipInv /\ PollsFit /\ [Next]_vars => SkipInv'
    BY SkipStep
  <1>2. SkipInv => NothingSkipped
    BY DEF SkipInv
  <1> QED
    BY SkipInit, <1>1, <1>2, PollInvariant, PTL DEF Spec

-----------------------------------------------------------------------------
(***************************************************************************)
(* Nothing is ingested that appeared before the source was initialised.    *)
(***************************************************************************)

\* No source is changed to another mode.
ModeStays == \A s \in Sources : Kept(s) => source'[s].mode = source[s].mode

\* A source without a watermark has ingested nothing; one with a watermark was
\* initialised in its mode, and the watermark has not gone back since.
InitialisedInv(s) ==
    LET w == source[s].watermark IN
    IF w = None
    THEN \A m \in Modes : alerts[s][m] = {}
    ELSE /\ w.mode = source[s].mode
         /\ start[s][w.mode] # None
         /\ start[s][w.mode] <= w.seen

\* The rows of a round are those of sources that exist, in their mode.
RowsInMode ==
    \A i \in 1..Len(round) : /\ source[round[i].id].life # "unused"
                             /\ round[i].mode = source[round[i].id].mode

\* What is still to be ingested appeared after the initialisation.
ItemsAreNew ==
    task.pc = "ingest" =>
        \A i \in task.items : /\ start[Current.id][Current.mode] # None
                              /\ i > start[Current.id][Current.mode]

FloodInv ==
    /\ \A s \in Sources : InitialisedInv(s)
    /\ RowsInMode
    /\ ItemsAreNew
    /\ NoFlood

LEMMA FloodInit == Init => FloodInv
  <1> SUFFICES ASSUME Init PROVE FloodInv
    OBVIOUS
  <1>1. Len(round) = 0
    BY EmptySeq DEF Init
  <1>2. \A s \in Sources : source[s].watermark = None /\ \A m \in Modes : alerts[s][m] = {}
    BY DEF Init, NoSource
  <1> QED
    BY <1>1, <1>2 DEF Init, FloodInv, InitialisedInv, RowsInMode, ItemsAreNew, NoFlood, NextRow

\* The first row is that of a source that exists, in its mode.
LEMMA CurrentInMode ==
  ASSUME PollInv, FloodInv, round # <<>>
  PROVE  /\ source[Current.id].life # "unused"
         /\ Current.mode = source[Current.id].mode
  BY FirstRow DEF PollInv, TypeOK, FloodInv, RowsInMode

LEMMA UsersKeepFloodInv ==
  ASSUME PollInv, FloodInv, NEW s \in Sources, NEW m \in Modes, NEW e \in BOOLEAN,
         Create(s, m, e) \/ Update(s, m, e) \/ Delete(s),
         \A t \in Sources : Kept(t) => source'[t].mode = source[t].mode
  PROVE  FloodInv'
  <1>1. source[s].life = "unused" \/ Kept(s)
    BY DEF Create, Update, Delete
  <1>2. /\ UNCHANGED <<feed, last, round, task, alerts, start>>
        /\ \A t \in Sources : source'[t].watermark = source[t].watermark
        /\ \A t \in Sources : source[t].life # "unused" =>
              source'[t].life # "unused" /\ source'[t].mode = source[t].mode
    BY <1>1, UserEffect DEF PollInv
  <1>3. \A t \in Sources : source[t].watermark # None =>
                              source'[t].mode = source[t].mode
    BY <1>2 DEF PollInv, SourceInv
  <1>4. ASSUME NEW t \in Sources
        PROVE  InitialisedInv(t)'
    BY <1>2, <1>3 DEF FloodInv, InitialisedInv
  <1>5. RowsInMode'
    <2>1. \A i \in 1..Len(round) : round[i].id \in Sources
      BY RowTyped DEF PollInv, TypeOK
    <2> QED
      BY <1>2, <2>1 DEF FloodInv, RowsInMode
  <1>6. ItemsAreNew' /\ NoFlood'
    BY <1>2 DEF FloodInv, ItemsAreNew, NoFlood, Current
  <1> QED
    BY <1>4, <1>5, <1>6 DEF FloodInv

LEMMA StartKeepsFloodInv ==
  ASSUME PollInv, FloodInv, StartRound
  PROVE  FloodInv'
  <1>1. UNCHANGED <<source, feed, last, task, alerts, start>> /\ round = <<>>
    BY DEF StartRound, rows, world, history
  <1>2. PICK n \in 1..Limit : \E list \in [1..n -> Sources] :
           /\ Listed(list)
           /\ round' = [i \in 1..n |-> [id |-> list[i], mode |-> source[list[i]].mode,
                                        watermark |-> source[list[i]].watermark]]
    BY DEF StartRound
  <1>3. PICK list \in [1..n -> Sources] :
           /\ Listed(list)
           /\ round' = [i \in 1..n |-> [id |-> list[i], mode |-> source[list[i]].mode,
                                        watermark |-> source[list[i]].watermark]]
    BY <1>2
  <1>4. Len(list) = n /\ Len(round') = n
    BY <1>3, BoundsAssumption
  <1>5. \A i \in 1..n : source[list[i]].life = "kept"
    BY <1>3, <1>4 DEF Listed, Enabled, Kept
  <1>6. RowsInMode'
    BY <1>1, <1>3, <1>4, <1>5 DEF RowsInMode
  <1>7. ItemsAreNew'
    BY <1>1 DEF PollInv, TaskInv, NextRow, ItemsAreNew
  <1> QED
    BY <1>1, <1>6, <1>7 DEF FloodInv, InitialisedInv, NoFlood

\* A poll of an initialised source takes what is newer than its watermark.
LEMMA PollKeepsFloodInv ==
  ASSUME PollInv, FloodInv, Poll
  PROVE  FloodInv'
  <1> DEFINE s == Current.id
             m == Current.mode
             seen == SeenBy(m, Current.watermark)
  <1>1. UNCHANGED <<source, feed, last, round, alerts, start>> /\ round # <<>>
    BY PollEffect
  <1>2. ItemsAreNew'
    <2> SUFFICES ASSUME NEW i \in task'.items
                 PROVE  start[s][m] # None /\ i > start[s][m]
      BY <1>1 DEF ItemsAreNew, Current
    <2>1. ~First(Current) /\ i \in Page(Fresh(m, seen))
      BY PollEffect
    <2>2. /\ s \in Sources /\ m \in Modes /\ m = source[s].mode
          /\ source[s].watermark # None /\ source[s].watermark = Current.watermark
          /\ Current.watermark \in [mode : Modes, seen : 0..MaxItem]
      BY <1>1, <2>1, CurrentIsTrue, CurrentInMode DEF First
    <2>3. /\ Current.watermark.mode = m /\ seen = Current.watermark.seen
          /\ start[s][m] # None /\ start[s][m] <= seen
      BY <2>2 DEF FloodInv, InitialisedInv, SeenBy
    <2>4. i > seen /\ i \in Items
      BY <2>1, <2>2 DEF Page, Fresh, PollInv, TypeOK
    <2>5. start[s][m] \in Nat /\ seen \in Nat /\ i \in Nat
      BY <2>2, <2>3, <2>4, BoundsAssumption DEF PollInv, TypeOK, Items
    <2> QED
      BY <2>3, <2>4, <2>5
  <1> QED
    BY <1>1, <1>2 DEF FloodInv, InitialisedInv, RowsInMode, NoFlood

LEMMA IngestKeepsFloodInv ==
  ASSUME PollInv, FloodInv, NEW i \in Items, Ingest(i)
  PROVE  FloodInv'
  <1> DEFINE s == Current.id
             m == Current.mode
  <1>1. /\ UNCHANGED <<source, round, start>> /\ task.pc = "ingest" /\ i \in task.items
        /\ task'.items = task.items \ {i}
        /\ s \in Sources /\ m \in Modes
        /\ \A t \in Sources, n \in Modes : t # s \/ n # m => alerts'[t][n] = alerts[t][n]
        /\ alerts'[s][m] \subseteq alerts[s][m] \cup {i}
    BY IngestEffect, CurrentIsTrue
  <1>2. source[s].watermark # None
    BY <1>1, IngestEffect, CurrentIsTrue DEF PollInv, TaskInv, First
  <1>3. start[s][m] # None /\ i > start[s][m]
    BY <1>1 DEF FloodInv, ItemsAreNew
  <1>4. ASSUME NEW t \in Sources
        PROVE  InitialisedInv(t)'
    <2>1. CASE t = s
      BY <1>1, <1>2, <2>1 DEF FloodInv, InitialisedInv
    <2>2. CASE t # s
      BY <1>1, <2>2 DEF FloodInv, InitialisedInv
    <2> QED
      BY <2>1, <2>2
  <1>5. RowsInMode' /\ ItemsAreNew'
    BY <1>1 DEF FloodInv, RowsInMode, ItemsAreNew, Current
  <1>6. NoFlood'
    <2> SUFFICES ASSUME NEW t \in Sources, NEW n \in Modes, NEW j \in alerts'[t][n]
                 PROVE  start[t][n] # None /\ j > start[t][n]
      BY <1>1 DEF NoFlood
    <2> QED
      BY <1>1, <1>3 DEF FloodInv, NoFlood
  <1> QED
    BY <1>4, <1>5, <1>6 DEF FloodInv

\* The first watermark is where the history starts; later ones are not behind.
LEMMA FinishKeepsFloodInv ==
  ASSUME PollInv, FloodInv, Finish
  PROVE  FloodInv'
  <1> DEFINE s == Current.id
             m == Current.mode
             w == task.mark
  <1>1. /\ s \in Sources /\ m \in Modes /\ m = source[s].mode
        /\ source[s].watermark = Current.watermark
        /\ w \in Watermarks /\ w # None /\ w.mode = m /\ w.seen \in 0..MaxItem
        /\ w.seen \in Nat
        /\ alerts' = alerts /\ task' = NextRow /\ round' = Tail(round) /\ round # <<>>
        /\ SeenBy(m, Current.watermark) <= w.seen
    BY FinishEffect, CurrentIsTrue, CurrentInMode, BoundsAssumption
       DEF Watermarks, world, PollInv, TaskInv
  <1>2. \A t \in Sources : source'[t].life = source[t].life /\ source'[t].mode = source[t].mode
    BY <1>1, FinishEffect, WriteEffect DEF rows, PollInv
  <1>3. \A t \in Sources : t # s => source'[t] = source[t]
    BY <1>1, FinishEffect, WriteEffect DEF rows, PollInv
  <1>4. \A t \in Sources, n \in Modes : t # s \/ n # m \/ ~First(Current) =>
                                           start'[t][n] = start[t][n]
    BY FinishEffect
  <1>5. First(Current) => \A n \in Modes : alerts[s][n] = {}
    BY <1>1 DEF First, FloodInv, InitialisedInv
  <1>6. ~First(Current) => start[s][m] # None /\ start[s][m] <= w.seen
    <2> SUFFICES ASSUME ~First(Current)
                 PROVE  start[s][m] # None /\ start[s][m] <= w.seen
      OBVIOUS
    <2>1. /\ Current.watermark \in [mode : Modes, seen : 0..MaxItem]
          /\ Current.watermark.mode = m
          /\ start[s][m] # None /\ start[s][m] <= Current.watermark.seen
      BY <1>1, CurrentIsTrue DEF First, FloodInv, InitialisedInv
    <2>2. SeenBy(m, Current.watermark) = Current.watermark.seen
      BY <1>1, <2>1 DEF SeenBy, First
    <2>3. start[s][m] \in Nat /\ Current.watermark.seen \in Nat
      BY <1>1, <2>1, BoundsAssumption DEF PollInv, TypeOK
    <2> QED
      BY <1>1, <2>1, <2>2, <2>3
  <1>7. ASSUME NEW t \in Sources, t = s
        PROVE  InitialisedInv(t)'
    <2>1. CASE source'[t].watermark = None
      <3>1. source[t].watermark = None
        BY <1>1, <1>7, <2>1, FinishEffect, WriteEffect DEF rows, PollInv
      <3> QED
        BY <1>1, <2>1, <3>1 DEF FloodInv, InitialisedInv
    <2>2. CASE source'[t].watermark = w /\ start'[t][m] # None /\ start'[t][m] <= w.seen
      BY <1>1, <1>2, <1>7, <2>2 DEF InitialisedInv
    <2>3. CASE source'[t].watermark = source[t].watermark /\ ~First(Current)
      <3>1. source[t].watermark.mode = source[t].mode /\ source[t].watermark # None
        BY <1>1, <1>7, <2>3 DEF InitialisedInv, FloodInv, First
      <3>2. start'[t][m] = start[t][m]
        BY <1>1, <1>4, <2>3
      <3> QED
        BY <1>1, <1>2, <1>7, <2>3, <3>1, <3>2 DEF InitialisedInv, FloodInv
    <2>4. CASE source'[t].watermark = w /\ ~First(Current)
      BY <1>1, <1>4, <1>6, <1>7, <2>2, <2>4
    <2>5. CASE First(Current) /\ WriteWatermark(s, w) /\ start'[s][m] = w.seen
      <3>1. source'[t].watermark \in {w, None}
        BY <1>1, <1>7, <2>5, WriteEffect DEF PollInv, First
      <3>2. start'[t][m] # None /\ start'[t][m] <= w.seen
        BY <1>1, <1>7, <2>5, NoneAssumption
      <3> QED
        BY <2>1, <2>2, <3>1, <3>2
    <2>6. CASE First(Current) /\ UNCHANGED rows
      BY <1>1, <1>7, <2>1, <2>6 DEF First, rows
    <2>7. source'[t].watermark \in {w, source[t].watermark}
      BY <1>1, <1>7, FinishEffect, WriteEffect DEF rows, PollInv
    <2> QED
      BY <2>3, <2>4, <2>5, <2>6, <2>7, FinishEffect
  <1>8. ASSUME NEW t \in Sources, t # s
        PROVE  InitialisedInv(t)'
    <2>1. source[t].watermark # None => source[t].watermark.mode \in Modes
      BY DEF PollInv, TypeOK, SourceState, Watermarks
    <2> QED
      BY <1>1, <1>3, <1>4, <1>8, <2>1 DEF FloodInv, InitialisedInv
  <1>9. RowsInMode'
    <2> SUFFICES ASSUME NEW i \in 1..Len(Tail(round))
                 PROVE  /\ source'[round'[i].id].life # "unused"
                        /\ round'[i].mode = source'[round'[i].id].mode
      BY <1>1 DEF RowsInMode
    <2>1. i + 1 \in 1..Len(round) /\ round'[i] = round[i + 1]
      BY <1>1, FirstRow DEF PollInv, TypeOK
    <2>2. round[i + 1].id \in Sources
      BY <2>1, RowTyped DEF PollInv, TypeOK
    <2> QED
      BY <1>2, <2>1, <2>2 DEF FloodInv, RowsInMode
  <1>10. ItemsAreNew'
    BY <1>1 DEF ItemsAreNew, NextRow
  <1>11. NoFlood'
    BY <1>1, <1>4, <1>5 DEF FloodInv, NoFlood
  <1> QED
    BY <1>7, <1>8, <1>9, <1>10, <1>11 DEF FloodInv

LEMMA OthersKeepFloodInv ==
  ASSUME PollInv, FloodInv,
         \/ Skip \/ PollFails \/ Crash \/ (\E s \in Sources : BecomeDue(s))
         \/ (\E m \in Modes : Appear(m) \/ \E i \in Items : Vanish(m, i))
         \/ UNCHANGED vars
  PROVE  FloodInv'
  <1>1. CASE UNCHANGED vars \/ (\E s \in Sources : BecomeDue(s))
                \/ \E m \in Modes : Appear(m) \/ \E i \in Items : Vanish(m, i)
    <2>1. UNCHANGED <<source, round, task, alerts, start>>
      BY <1>1 DEF vars, BecomeDue, Appear, Vanish, rows, history
    <2> QED
      BY <2>1 DEF FloodInv, InitialisedInv, RowsInMode, ItemsAreNew, NoFlood, Current
  <1>2. CASE Skip \/ PollFails \/ Crash
    <2>1. /\ task' = NextRow /\ UNCHANGED <<feed, last, alerts, start>>
          /\ round' = <<>> \/ (round # <<>> /\ round' = Tail(round))
          /\ \/ UNCHANGED source
             \/ round # <<>> /\ WriteWatermark(Current.id, Current.watermark)
      BY <1>2 DEF Skip, PollFails, Crash, Ready, rows, world, history
    <2>2. \A s \in Sources : /\ source'[s].life = source[s].life
                             /\ source'[s].mode = source[s].mode
                             /\ source'[s].watermark = source[s].watermark
      BY <2>1, CurrentIsTrue, WriteEffect DEF PollInv
    <2>3. \A s \in Sources : InitialisedInv(s)'
      BY <2>1, <2>2 DEF FloodInv, InitialisedInv
    <2>4. RowsInMode'
      <3>1. CASE round' = <<>>
        <4>1. Len(round') = 0
          BY <3>1, EmptySeq
        <4> QED
          BY <4>1 DEF RowsInMode
      <3>2. CASE round # <<>> /\ round' = Tail(round)
        <4> SUFFICES ASSUME NEW i \in 1..Len(Tail(round))
                     PROVE  /\ source'[round'[i].id].life # "unused"
                            /\ round'[i].mode = source'[round'[i].id].mode
          BY <3>2 DEF RowsInMode
        <4>1. i + 1 \in 1..Len(round) /\ round'[i] = round[i + 1]
          BY <3>2, FirstRow DEF PollInv, TypeOK
        <4>2. round[i + 1].id \in Sources
          BY <4>1, RowTyped DEF PollInv, TypeOK
        <4> QED
          BY <2>2, <4>1, <4>2 DEF FloodInv, RowsInMode
      <3> QED
        BY <2>1, <3>1, <3>2
    <2>5. ItemsAreNew' /\ NoFlood'
      BY <2>1 DEF ItemsAreNew, NextRow, FloodInv, NoFlood
    <2> QED
      BY <2>3, <2>4, <2>5 DEF FloodInv
  <1> QED
    BY <1>1, <1>2

LEMMA FloodStep ==
  ASSUME PollInv, FloodInv, [Next]_vars, [ModeStays]_vars
  PROVE  FloodInv'
  <1>1. CASE UNCHANGED vars
    BY <1>1, OthersKeepFloodInv
  <1>2. ASSUME ModeStays, NEW s \in Sources, NEW m \in Modes, NEW e \in BOOLEAN,
               Create(s, m, e) \/ Update(s, m, e)
        PROVE  FloodInv'
    BY <1>2, UsersKeepFloodInv DEF ModeStays
  <1>3. ASSUME ModeStays, NEW s \in Sources, Delete(s)
        PROVE  FloodInv'
    BY <1>3, UsersKeepFloodInv, SourcesAssumption DEF ModeStays
  <1>4. CASE Poll
    BY <1>4, PollKeepsFloodInv
  <1>5. CASE \E i \in Items : Ingest(i)
    BY <1>5, IngestKeepsFloodInv
  <1>6. CASE Finish
    BY <1>6, FinishKeepsFloodInv
  <1>7. CASE StartRound
    BY <1>7, StartKeepsFloodInv
  <1>8. CASE \/ Skip \/ PollFails \/ Crash \/ (\E s \in Sources : BecomeDue(s))
             \/ \E m \in Modes : Appear(m) \/ \E i \in Items : Vanish(m, i)
    BY <1>8, OthersKeepFloodInv
  <1> QED
    BY <1>1, <1>2, <1>3, <1>4, <1>5, <1>6, <1>7, <1>8 DEF Next, Step

\* "On first poll, set watermark but don't ingest (prevents startup flood)"
\* (service/source_poller.go): as long as no source is changed to another mode,
\* under every fault, whatever is ingested appeared after the initialisation.
THEOREM NoFloodInOneMode == Spec /\ [][ModeStays]_vars => []NoFlood
  <1>1. PollInv /\ FloodInv /\ [Next]_vars /\ [ModeStays]_vars => FloodInv'
    BY FloodStep
  <1>2. FloodInv => NoFlood
    BY DEF FloodInv
  <1> QED
    BY FloodInit, <1>1, <1>2, PollInvariant, PTL DEF Spec
=============================================================================
