--------------------------- MODULE BacklogProofs ---------------------------
(***************************************************************************)
(* Theorems about Backlog, for every interval and timeout, any number of    *)
(* orders and whatever the table does between two statements of a refresh.  *)
(*                                                                         *)
(* What the gauges show was true at three different times: when the counts  *)
(* were taken, when the age was asked for and when the refresh began.       *)
(* ClockInv orders those times, FreshInv bounds how long a refresher that   *)
(* has not told anybody can go without publishing, CountInv says which      *)
(* gauges of a half-done SetBacklog are new, and AgeInv what the age covers.*)
(***************************************************************************)
EXTENDS Backlog, FiniteSetTheorems, WellFoundedInduction, TLAPS

\* The statuses SetBacklog has still to set, and the value it gives one.
Left == {todo[i] : i \in 1..Len(todo)}
Shown(s) == IF s \in DOMAIN counts THEN counts[s] ELSE 0

ClockInv ==
    /\ refreshedAt <= now
    /\ \A o \in Orders : created[o] <= now
    /\ nextTick # 0 => now < nextTick /\ nextTick <= now + Interval
    /\ pc \in {"waiting", "stopped"} => nextTick # 0
    /\ pc \in Busy => refreshedAt <= began /\ began <= now /\ now <= began + Timeout
    /\ pc \in {"ageing", "publishing", "stamping"} => began <= countedAt /\ countedAt <= now

FreshInv ==
    /\ ~told /\ pc \in Busy => began <= refreshedAt + Interval
    /\ ~told /\ pc = "waiting" /\ tick => now <= refreshedAt + Interval
    /\ ~told /\ pc = "waiting" /\ ~tick => nextTick <= refreshedAt + Interval
    /\ ~told /\ pc = "stopped" => now <= refreshedAt + Interval

CountInv ==
    /\ pc \in {"publishing", "stamping"} =>
          \A s \in Known \ Left : gauge[s] = Shown(s) /\ shownFrom[s] = countedAt
    /\ pc \in {"ageing", "publishing", "stamping"} /\ calm = Orders =>
          \A s \in Known : Shown(s) = Cardinality(Rows(s))
    /\ pc = "stamping" => todo = <<>> /\ shownCalm = calm /\ shownBegan = began

AgeInv ==
    pc = "publishing" =>
        \A o \in Orders : o \in calm /\ status[o] = "pending" => age + created[o] >= began

IInv ==
    /\ TypeOK /\ ClockInv /\ FreshInv /\ CountInv /\ AgeInv
    /\ TimestampNeverAhead /\ GaugesExactAtRest /\ NoPendingOrderHidden
-----------------------------------------------------------------------------
(* The operators *)

\* The least of some numbers.
LEMMA MinOfNat ==
    ASSUME NEW S \in SUBSET Nat, S # {}
    PROVE  MinOf(S) \in S /\ \A y \in S : MinOf(S) <= y
<1> DEFINE Less == {p \in Nat \X Nat : p[1] < p[2]}
<1>1. IsWellFoundedOn(Less, Nat)
  BY NatLessThanWellFounded, Zenon DEF OpToRel
<1>2. PICK x \in S : \A y \in S : ~(<<y, x>> \in Less)
  BY <1>1, WFMin
<1>3. ASSUME NEW y \in S PROVE x <= y
  <2>1. y < x => <<y, x>> \in Less  OBVIOUS
  <2>2. ~(y < x)  BY <1>2, <2>1
  <2> QED  BY <2>2
<1> QED  BY <1>3 DEF MinOf

\* A list that is not empty is its head and its tail.
LEMMA HeadTail ==
    ASSUME NEW S, NEW t \in Seq(S), t # <<>>
    PROVE  {t[i] : i \in 1..Len(t)} = {Head(t)} \cup {Tail(t)[i] : i \in 1..Len(Tail(t))}
<1>1. Head(t) = t[1] /\ Len(Tail(t)) = Len(t) - 1 /\ Len(t) \in Nat /\ Len(t) >= 1
  OBVIOUS
<1>2. \A i \in 1..Len(Tail(t)) : Tail(t)[i] = t[i + 1]
  OBVIOUS
<1>3. ASSUME NEW i \in 1..Len(t) PROVE t[i] \in {Head(t)} \cup {Tail(t)[j] : j \in 1..Len(Tail(t))}
  <2>1. CASE i = 1  BY <2>1, <1>1
  <2>2. CASE i # 1
    <3>1. i - 1 \in 1..Len(Tail(t)) /\ Tail(t)[i - 1] = t[i]  BY <2>2, <1>1, <1>2
    <3> QED  BY <3>1
  <2> QED  BY <2>1, <2>2
<1>4. ASSUME NEW i \in 1..Len(Tail(t)) PROVE Tail(t)[i] \in {t[j] : j \in 1..Len(t)}
  <2>1. i + 1 \in 1..Len(t)  BY <1>1
  <2> QED  BY <2>1, <1>2
<1>5. Head(t) \in {t[j] : j \in 1..Len(t)}
  BY <1>1
<1> QED  BY <1>3, <1>4, <1>5

\* The list of known statuses.
LEMMA KnownStatuses == AllStatuses \in Seq(Known) /\
    Known = {AllStatuses[i] : i \in 1..Len(AllStatuses)}
  BY DEF AllStatuses, Known

\* The rows of a status are finitely many, and none is no row.
LEMMA RowCount ==
    ASSUME NEW s
    PROVE  Cardinality(Rows(s)) \in Nat /\ (Rows(s) = {} => Cardinality(Rows(s)) = 0)
<1>1. IsFiniteSet(Rows(s))  BY OrdersAssumption, FS_Subset DEF Rows
<1> QED  BY <1>1, FS_CardinalityType, FS_EmptySet

-----------------------------------------------------------------------------
(* The steps *)

\* The table moves: an order that keeps its status keeps its creation time.
LEMMA TableEffect ==
    ASSUME TypeOK, LifecycleNext
    PROVE  status' \in [Orders -> Statuses] /\ charges' \in [Orders -> Seq(Outcomes)]
<1> USE DEF TypeOK, Statuses, Outcomes
<1>1. ASSUME NEW x \in Orders, Create(x) \/ Release(x)
      PROVE  status' \in [Orders -> Statuses] /\ charges' \in [Orders -> Seq(Outcomes)]
  BY <1>1 DEF Create, Release
<1>2. ASSUME NEW batch \in SUBSET Orders, Claim(batch)
      PROVE  status' \in [Orders -> Statuses] /\ charges' \in [Orders -> Seq(Outcomes)]
  BY <1>2 DEF Claim
<1>3. ASSUME NEW x \in Orders, NEW outcome \in Outcomes, Settle(x, outcome)
      PROVE  status' \in [Orders -> Statuses] /\ charges' \in [Orders -> Seq(Outcomes)]
  BY <1>3 DEF Settle
<1>4. ASSUME NEW x \in Orders, NEW outcome \in Outcomes, Charge(x, outcome)
      PROVE  status' \in [Orders -> Statuses] /\ charges' \in [Orders -> Seq(Outcomes)]
  <2>1. Append(charges[x], outcome) \in Seq(Outcomes)  OBVIOUS
  <2> QED  BY <1>4, <2>1 DEF Charge
<1> QED  BY <1>1, <1>2, <1>3, <1>4 DEF LifecycleNext

\* A signal.
LEMMA ShutdownStep ==
    ASSUME IInv, Shutdown
    PROVE  IInv'
<1> USE DEF IInv, lifecycleVars, tableVars, localVars, gaugeVars, tickerVars, Busy
<1> USE IntervalAssumption, TimeoutAssumption
<1>t. TypeOK'  BY DEF Shutdown, TypeOK
<1>ClockInv. ClockInv'  BY DEF Shutdown, ClockInv, TypeOK
<1>FreshInv. FreshInv'  BY DEF Shutdown, FreshInv, TypeOK
<1>CountInv. CountInv'  BY DEF Shutdown, CountInv, TypeOK, Left, Shown, Rows
<1>AgeInv. AgeInv'  BY DEF Shutdown, AgeInv, TypeOK
<1>TimestampNeverAhead. TimestampNeverAhead'  BY DEF Shutdown, TimestampNeverAhead, TypeOK
<1>GaugesExactAtRest. GaugesExactAtRest'
  BY DEF Shutdown, GaugesExactAtRest, TypeOK, Left, Shown, Rows
<1>NoPendingOrderHidden. NoPendingOrderHidden'  BY DEF Shutdown, NoPendingOrderHidden, TypeOK
<1> QED
  BY <1>t, <1>ClockInv, <1>FreshInv, <1>CountInv, <1>AgeInv, <1>TimestampNeverAhead,
     <1>GaugesExactAtRest, <1>NoPendingOrderHidden

\* The refresher stops.
LEMMA StopStep ==
    ASSUME IInv, Stop
    PROVE  IInv'
<1> USE DEF IInv, lifecycleVars, tableVars, localVars, gaugeVars, tickerVars, Busy
<1> USE IntervalAssumption, TimeoutAssumption
<1>t. TypeOK'  BY DEF Stop, TypeOK
<1>ClockInv. ClockInv'  BY DEF Stop, ClockInv, TypeOK
<1>FreshInv. FreshInv'
  BY DEF Stop, FreshInv, ClockInv, TypeOK
<1>CountInv. CountInv'  BY DEF Stop, CountInv, TypeOK, Left, Shown, Rows
<1>AgeInv. AgeInv'  BY DEF Stop, AgeInv, TypeOK
<1>TimestampNeverAhead. TimestampNeverAhead'  BY DEF Stop, TimestampNeverAhead, TypeOK
<1>GaugesExactAtRest. GaugesExactAtRest'
  BY DEF Stop, GaugesExactAtRest, TypeOK, Left, Shown, Rows
<1>NoPendingOrderHidden. NoPendingOrderHidden'  BY DEF Stop, NoPendingOrderHidden, TypeOK
<1> QED
  BY <1>t, <1>ClockInv, <1>FreshInv, <1>CountInv, <1>AgeInv, <1>TimestampNeverAhead,
     <1>GaugesExactAtRest, <1>NoPendingOrderHidden

\* The clock moves.
LEMMA AdvanceStep ==
    ASSUME IInv, Advance
    PROVE  IInv'
<1> USE DEF IInv, lifecycleVars, tableVars, localVars, gaugeVars, tickerVars, Busy
<1> USE IntervalAssumption, TimeoutAssumption
<1>t. TypeOK'
  <2>1. now' = now + 1 /\ now \in Nat  BY DEF Advance, TypeOK
  <2>2. tick' \in BOOLEAN /\ nextTick' \in Nat
    <3>1. CASE nextTick = now + 1
      <4>1. tick' = TRUE /\ nextTick' = nextTick + Interval /\ nextTick \in Nat
        BY <3>1 DEF Advance, TypeOK
      <4> QED  BY <4>1
    <3>2. CASE nextTick # now + 1  BY <3>2 DEF Advance, TypeOK
    <3> QED  BY <3>1, <3>2
  <2>3. now' \in Nat  BY <2>1
  <2> QED  BY <2>2, <2>3 DEF Advance, TypeOK
<1>ClockInv. ClockInv'  BY DEF Advance, ClockInv, TypeOK
<1>FreshInv. FreshInv'  BY DEF Advance, FreshInv, TypeOK
<1>CountInv. CountInv'  BY DEF Advance, CountInv, TypeOK, Left, Shown, Rows
<1>AgeInv. AgeInv'  BY DEF Advance, AgeInv, TypeOK
<1>TimestampNeverAhead. TimestampNeverAhead'  BY DEF Advance, TimestampNeverAhead, TypeOK
<1>GaugesExactAtRest. GaugesExactAtRest'
  BY DEF Advance, GaugesExactAtRest, TypeOK, Left, Shown, Rows
<1>NoPendingOrderHidden. NoPendingOrderHidden'  BY DEF Advance, NoPendingOrderHidden, TypeOK
<1> QED
  BY <1>t, <1>ClockInv, <1>FreshInv, <1>CountInv, <1>AgeInv, <1>TimestampNeverAhead,
     <1>GaugesExactAtRest, <1>NoPendingOrderHidden

\* A refresh begins.
LEMMA BeginStep ==
    ASSUME IInv, Begin
    PROVE  IInv'
<1> USE DEF IInv, lifecycleVars, tableVars, localVars, gaugeVars, tickerVars, Busy
<1> USE IntervalAssumption, TimeoutAssumption
<1>t. TypeOK'  BY DEF Begin, TypeOK
<1>ClockInv. ClockInv'  BY DEF Begin, ClockInv, TypeOK
<1>FreshInv. FreshInv'  BY DEF Begin, FreshInv, TypeOK
<1>CountInv. CountInv'  BY DEF Begin, CountInv, TypeOK, Left, Shown, Rows
<1>AgeInv. AgeInv'  BY DEF Begin, AgeInv, TypeOK
<1>TimestampNeverAhead. TimestampNeverAhead'  BY DEF Begin, TimestampNeverAhead, TypeOK
<1>GaugesExactAtRest. GaugesExactAtRest'
  BY DEF Begin, GaugesExactAtRest, TypeOK, Left, Shown, Rows
<1>NoPendingOrderHidden. NoPendingOrderHidden'  BY DEF Begin, NoPendingOrderHidden, TypeOK
<1> QED
  BY <1>t, <1>ClockInv, <1>FreshInv, <1>CountInv, <1>AgeInv, <1>TimestampNeverAhead,
     <1>GaugesExactAtRest, <1>NoPendingOrderHidden

\* A query fails.
LEMMA FailStep ==
    ASSUME IInv, Fail
    PROVE  IInv'
<1> USE DEF IInv, lifecycleVars, tableVars, localVars, gaugeVars, tickerVars, Busy
<1> USE IntervalAssumption, TimeoutAssumption
<1>t. TypeOK'  BY DEF Fail, Counted, BackToRun, TypeOK
<1>ClockInv. ClockInv'  BY DEF Fail, Counted, BackToRun, ClockInv, TypeOK
<1>FreshInv. FreshInv'  BY DEF Fail, Counted, BackToRun, FreshInv, TypeOK
<1>CountInv. CountInv'  BY DEF Fail, Counted, BackToRun, CountInv, TypeOK, Left, Shown, Rows
<1>AgeInv. AgeInv'  BY DEF Fail, Counted, BackToRun, AgeInv, TypeOK
<1>TimestampNeverAhead. TimestampNeverAhead'
  BY DEF Fail, Counted, BackToRun, TimestampNeverAhead, TypeOK
<1>GaugesExactAtRest. GaugesExactAtRest'
  BY DEF Fail, Counted, BackToRun, GaugesExactAtRest, TypeOK, Left, Shown, Rows
<1>NoPendingOrderHidden. NoPendingOrderHidden'
  BY DEF Fail, Counted, BackToRun, NoPendingOrderHidden, TypeOK
<1> QED
  BY <1>t, <1>ClockInv, <1>FreshInv, <1>CountInv, <1>AgeInv, <1>TimestampNeverAhead,
     <1>GaugesExactAtRest, <1>NoPendingOrderHidden

\* A refresh panics.
LEMMA PanicStep ==
    ASSUME IInv, Panic
    PROVE  IInv'
<1> USE DEF IInv, lifecycleVars, tableVars, localVars, gaugeVars, tickerVars, Busy
<1> USE IntervalAssumption, TimeoutAssumption
<1>t. TypeOK'  BY DEF Panic, Counted, BackToRun, TypeOK
<1>ClockInv. ClockInv'  BY DEF Panic, Counted, BackToRun, ClockInv, TypeOK
<1>FreshInv. FreshInv'  BY DEF Panic, Counted, BackToRun, FreshInv, TypeOK
<1>CountInv. CountInv'  BY DEF Panic, Counted, BackToRun, CountInv, TypeOK, Left, Shown, Rows
<1>AgeInv. AgeInv'  BY DEF Panic, Counted, BackToRun, AgeInv, TypeOK
<1>TimestampNeverAhead. TimestampNeverAhead'
  BY DEF Panic, Counted, BackToRun, TimestampNeverAhead, TypeOK
<1>GaugesExactAtRest. GaugesExactAtRest'
  BY DEF Panic, Counted, BackToRun, GaugesExactAtRest, TypeOK, Left, Shown, Rows
<1>NoPendingOrderHidden. NoPendingOrderHidden'
  BY DEF Panic, Counted, BackToRun, NoPendingOrderHidden, TypeOK
<1> QED
  BY <1>t, <1>ClockInv, <1>FreshInv, <1>CountInv, <1>AgeInv, <1>TimestampNeverAhead,
     <1>GaugesExactAtRest, <1>NoPendingOrderHidden

\* The age is published.
LEMMA SetOldestStep ==
    ASSUME IInv, SetOldest
    PROVE  IInv'
<1> USE DEF IInv, lifecycleVars, tableVars, localVars, gaugeVars, tickerVars, Busy
<1> USE IntervalAssumption, TimeoutAssumption
<1>set. /\ pc = "publishing" /\ pc' = "stamping" /\ todo = <<>> /\ todo' = todo
        /\ oldest' = age /\ shownBegan' = began /\ shownCalm' = calm
        /\ began' = began /\ counts' = counts /\ countedAt' = countedAt
        /\ status' = status /\ created' = created /\ calm' = calm
        /\ gauge' = gauge /\ shownFrom' = shownFrom /\ refreshedAt' = refreshedAt
  BY DEF SetOldest
<1>t. TypeOK'  BY DEF SetOldest, TypeOK
<1>ClockInv. ClockInv'  BY DEF SetOldest, ClockInv, TypeOK
<1>FreshInv. FreshInv'  BY DEF SetOldest, FreshInv, TypeOK
<1>CountInv. CountInv'
  <2>1. \A x : Rows(x)' = Rows(x) /\ Shown(x)' = Shown(x)  BY <1>set DEF Rows, Shown
  <2>2. Left' = Left  BY <1>set DEF Left
  <2> QED  BY <2>1, <2>2, <1>set DEF CountInv
<1>AgeInv. AgeInv'  BY <1>set DEF AgeInv
<1>TimestampNeverAhead. TimestampNeverAhead'
  <2>1. refreshedAt <= began + Timeout
    BY <1>set DEF ClockInv, TypeOK
  <2> QED  BY <2>1, <1>set DEF TimestampNeverAhead
<1>GaugesExactAtRest. GaugesExactAtRest'
  BY <1>set DEF GaugesExactAtRest
<1>NoPendingOrderHidden. NoPendingOrderHidden'
  BY <1>set DEF NoPendingOrderHidden, AgeInv
<1> QED
  BY <1>t, <1>ClockInv, <1>FreshInv, <1>CountInv, <1>AgeInv, <1>TimestampNeverAhead,
     <1>GaugesExactAtRest, <1>NoPendingOrderHidden

\* The time of the refresh is published.
LEMMA SetTimestampStep ==
    ASSUME IInv, SetTimestamp
    PROVE  IInv'
<1> USE DEF IInv, lifecycleVars, tableVars, localVars, gaugeVars, tickerVars, Busy
<1> USE IntervalAssumption, TimeoutAssumption
<1>loc. /\ now \in Nat /\ age \in Nat /\ began \in Nat /\ refreshedAt \in Nat /\ countedAt \in Nat
        /\ nextTick \in Nat /\ tick \in BOOLEAN /\ calm \subseteq Orders /\ pc = "stamping"
        /\ gauge \in [Known -> Nat] /\ shownFrom \in [Known -> Nat]
  BY DEF SetTimestamp, TypeOK
<1>set. /\ pc' = "waiting" /\ began' = 0 /\ counts' = <<>> /\ countedAt' = 0 /\ age' = 0
        /\ todo' = <<>>
        /\ refreshedAt' = now /\ told' = FALSE /\ tick' = tick
        /\ nextTick' = IF nextTick = 0 THEN now + Interval ELSE nextTick
  BY DEF SetTimestamp, BackToRun
<1>same. /\ status' = status /\ charges' = charges /\ created' = created /\ calm' = calm
         /\ oldest' = oldest /\ shownBegan' = shownBegan /\ shownCalm' = shownCalm
         /\ gauge' = gauge /\ shownFrom' = shownFrom /\ now' = now /\ ctx' = ctx
  BY DEF SetTimestamp
<1>all. /\ Left = {} /\ shownCalm = calm /\ shownBegan = began
        /\ shownCalm \subseteq Orders /\ oldest \in Nat
  <2>1. todo = <<>> /\ shownCalm = calm /\ shownBegan = began  BY <1>loc DEF CountInv
  <2> QED  BY <2>1 DEF Left, TypeOK
<1>clock. /\ refreshedAt <= began /\ began <= now /\ now <= began + Timeout
          /\ began <= countedAt /\ countedAt <= now
          /\ nextTick # 0 => now < nextTick /\ nextTick <= now + Interval
  BY <1>loc DEF ClockInv
<1>t. TypeOK'
  <2>1. nextTick' \in Nat  BY <1>loc, <1>set
  <2>2. counts' = <<>> /\ todo' \in Seq(Known)  BY <1>set
  <2>3. DOMAIN counts' = {}  BY <2>2
  <2> QED  BY <2>1, <2>2, <2>3, <1>loc, <1>set, <1>same, <1>all DEF TypeOK
<1>ClockInv. ClockInv'
  BY <1>loc, <1>set, <1>same, <1>clock DEF ClockInv
<1>FreshInv. FreshInv'
  <2>1. nextTick' <= now + Interval  BY <1>loc, <1>set, <1>clock
  <2>2. now <= now + Interval  BY <1>loc
  <2> QED  BY <2>1, <2>2, <1>set, <1>same DEF FreshInv
<1>CountInv. CountInv'  BY DEF SetTimestamp, BackToRun, CountInv, TypeOK, Left, Shown, Rows
<1>AgeInv. AgeInv'
  BY <1>set DEF AgeInv
<1>TimestampNeverAhead. TimestampNeverAhead'
  <2>1. \A s \in Known : shownFrom[s] = countedAt  BY <1>loc, <1>all DEF CountInv
  <2>2. now <= countedAt + Timeout  BY <1>loc, <1>clock
  <2>3. refreshedAt' <= shownBegan' + Timeout  BY <1>loc, <1>all, <1>clock, <1>set, <1>same
  <2> QED  BY <2>1, <2>2, <2>3, <1>set, <1>same DEF TimestampNeverAhead
<1>GaugesExactAtRest. GaugesExactAtRest'
  <2>1. \A s \in Known : gauge[s] = Shown(s)  BY <1>loc, <1>all DEF CountInv
  <2>2. calm = Orders => \A s \in Known : Shown(s) = Cardinality(Rows(s))  BY <1>loc DEF CountInv
  <2>3. \A s : Rows(s)' = Rows(s)  BY <1>same DEF Rows
  <2> QED  BY <2>1, <2>2, <2>3, <1>all, <1>set, <1>same DEF GaugesExactAtRest
<1>NoPendingOrderHidden. NoPendingOrderHidden'
  BY <1>set, <1>same DEF NoPendingOrderHidden
<1> QED
  BY <1>t, <1>ClockInv, <1>FreshInv, <1>CountInv, <1>AgeInv, <1>TimestampNeverAhead,
     <1>GaugesExactAtRest, <1>NoPendingOrderHidden

\* The orders are counted.
LEMMA CountStep ==
    ASSUME IInv, Count
    PROVE  IInv'
<1> USE DEF IInv, lifecycleVars, tableVars, localVars, gaugeVars, tickerVars, Busy
<1> USE IntervalAssumption, TimeoutAssumption
<1>rows. /\ DOMAIN counts' = {x \in Known : Rows(x) # {}}
         /\ \A s \in DOMAIN counts' : counts'[s] = Cardinality(Rows(s))
  BY DEF Count
<1>t. TypeOK'
  <2>1. DOMAIN counts' \subseteq Known /\ \A s \in DOMAIN counts' : counts'[s] \in Nat
    BY <1>rows, RowCount
  <2> QED  BY <2>1 DEF Count, TypeOK
<1>ClockInv. ClockInv'  BY DEF Count, ClockInv, TypeOK
<1>FreshInv. FreshInv'  BY DEF Count, FreshInv, TypeOK
<1>CountInv. CountInv'
  <2>1. pc' = "ageing"  BY DEF Count
  <2>2. \A s : Rows(s)' = Rows(s)  BY DEF Count, Rows
  <2>3. ASSUME NEW s \in Known PROVE Shown(s)' = Cardinality(Rows(s))
    <3>1. CASE Rows(s) = {}  BY <3>1, <1>rows, RowCount DEF Shown
    <3>2. CASE Rows(s) # {}  BY <3>2, <1>rows DEF Shown
    <3> QED  BY <3>1, <3>2
  <2> QED  BY <2>1, <2>2, <2>3 DEF CountInv
<1>AgeInv. AgeInv'  BY DEF Count, AgeInv, TypeOK
<1>TimestampNeverAhead. TimestampNeverAhead'  BY DEF Count, TimestampNeverAhead, TypeOK
<1>GaugesExactAtRest. GaugesExactAtRest'
  BY DEF Count, GaugesExactAtRest, TypeOK, Left, Shown, Rows
<1>NoPendingOrderHidden. NoPendingOrderHidden'  BY DEF Count, NoPendingOrderHidden, TypeOK
<1> QED
  BY <1>t, <1>ClockInv, <1>FreshInv, <1>CountInv, <1>AgeInv, <1>TimestampNeverAhead,
     <1>GaugesExactAtRest, <1>NoPendingOrderHidden

\* The age query covers every pending order.
LEMMA AgeCovers ==
    ASSUME TypeOK, ClockInv
    PROVE  /\ PendingAge \in Nat
           /\ \A o \in Orders : status[o] = "pending" => PendingAge + created[o] >= now
<1>1. CASE Rows("pending") = {}
  BY <1>1 DEF PendingAge, Rows
<1>2. CASE Rows("pending") # {}
  <2> DEFINE S == {created[o] : o \in Rows("pending")}
             least == MinOf(S)
  <2>1. S \subseteq Nat /\ S # {}  BY <1>2 DEF Rows, TypeOK
  <2>2. \A y \in S : y <= now  BY DEF ClockInv, Rows
  <2>3. PendingAge = now - least  BY <1>2 DEF PendingAge
  <2>4. now \in Nat  BY DEF TypeOK
  <2>5. \A o \in Orders : status[o] = "pending" => created[o] \in S  BY DEF Rows
  <2> HIDE DEF S
  <2>6. least \in S /\ \A y \in S : least <= y  BY <2>1, MinOfNat
  <2> HIDE DEF least
  <2>7. least \in Nat /\ least <= now  BY <2>1, <2>2, <2>6
  <2>8. now - least \in Nat  BY <2>4, <2>7
  <2>9. ASSUME NEW o \in Orders, status[o] = "pending" PROVE now - least + created[o] >= now
    <3>1. created[o] \in Nat /\ least <= created[o]  BY <2>1, <2>5, <2>6, <2>9
    <3> QED  BY <3>1, <2>4, <2>7
  <2> QED  BY <2>3, <2>8, <2>9
<1> QED  BY <1>1, <1>2

\* The age of the oldest pending order.
LEMMA OldestAgeStep ==
    ASSUME IInv, OldestAge
    PROVE  IInv'
<1> USE DEF IInv, lifecycleVars, tableVars, localVars, gaugeVars, tickerVars, Busy
<1> USE IntervalAssumption, TimeoutAssumption
<1>set. /\ pc = "ageing" /\ pc' = "publishing" /\ age' = PendingAge /\ todo' = AllStatuses
        /\ began' = began /\ created' = created /\ status' = status /\ calm' = calm /\ now' = now
        /\ counts' = counts /\ gauge' = gauge /\ shownFrom' = shownFrom /\ countedAt' = countedAt
  BY DEF OldestAge
<1>age. PendingAge \in Nat /\
    \A x \in Orders : status[x] = "pending" => PendingAge + created[x] >= now
  BY AgeCovers
<1>t. TypeOK'
  BY <1>age, <1>set, KnownStatuses DEF OldestAge, TypeOK
<1>ClockInv. ClockInv'  BY DEF OldestAge, ClockInv, TypeOK
<1>FreshInv. FreshInv'  BY DEF OldestAge, FreshInv, TypeOK
<1>CountInv. CountInv'
  <2>1. Left' = Known  BY <1>set, KnownStatuses DEF Left
  <2>2. \A s : Rows(s)' = Rows(s) /\ Shown(s)' = Shown(s)  BY <1>set DEF Rows, Shown
  <2> QED  BY <2>1, <2>2, <1>set DEF CountInv
<1>AgeInv. AgeInv'
  <2>1. began <= now /\ began \in Nat /\ now \in Nat  BY <1>set DEF ClockInv, TypeOK
  <2>2. created \in [Orders -> Nat]  BY DEF TypeOK
  <2> QED  BY <2>1, <2>2, <1>age, <1>set DEF AgeInv
<1>TimestampNeverAhead. TimestampNeverAhead'  BY DEF OldestAge, TimestampNeverAhead, TypeOK
<1>GaugesExactAtRest. GaugesExactAtRest'
  BY DEF OldestAge, GaugesExactAtRest, TypeOK, Left, Shown, Rows
<1>NoPendingOrderHidden. NoPendingOrderHidden'  BY DEF OldestAge, NoPendingOrderHidden, TypeOK
<1> QED
  BY <1>t, <1>ClockInv, <1>FreshInv, <1>CountInv, <1>AgeInv, <1>TimestampNeverAhead,
     <1>GaugesExactAtRest, <1>NoPendingOrderHidden

\* One gauge is set.
LEMMA SetGaugeStep ==
    ASSUME IInv, NEW s \in Known, SetGauge(s)
    PROVE  IInv'
<1> USE DEF IInv, lifecycleVars, tableVars, localVars, gaugeVars, tickerVars, Busy
<1> USE IntervalAssumption, TimeoutAssumption
<1>set. /\ pc = "publishing" /\ pc' = "publishing" /\ todo # <<>> /\ s = Head(todo)
        /\ todo' = Tail(todo)
        /\ gauge' = [gauge EXCEPT ![s] = Shown(s)]
        /\ shownFrom' = [shownFrom EXCEPT ![s] = countedAt]
        /\ counts' = counts /\ countedAt' = countedAt /\ status' = status /\ calm' = calm
        /\ refreshedAt' = refreshedAt /\ shownBegan' = shownBegan
  BY DEF SetGauge, Shown
<1>loc. /\ todo \in Seq(Known) /\ gauge \in [Known -> Nat] /\ shownFrom \in [Known -> Nat]
        /\ countedAt \in Nat /\ refreshedAt \in Nat /\ began \in Nat
  BY DEF TypeOK
<1>left. Left = {s} \cup Left'
  <2>1. {todo[i] : i \in 1..Len(todo)} = {Head(todo)} \cup {Tail(todo)[i] : i \in 1..Len(Tail(todo))}
    BY <1>set, <1>loc, HeadTail
  <2> QED  BY <2>1, <1>set DEF Left
<1>t. TypeOK'  BY DEF SetGauge, TypeOK
<1>ClockInv. ClockInv'  BY DEF SetGauge, ClockInv, TypeOK
<1>FreshInv. FreshInv'  BY DEF SetGauge, FreshInv, TypeOK
<1>CountInv. CountInv'
  <2>1. \A x : Rows(x)' = Rows(x) /\ Shown(x)' = Shown(x)  BY <1>set DEF Rows, Shown
  <2>2. ASSUME NEW x \in Known \ Left' PROVE gauge'[x] = Shown(x) /\ shownFrom'[x] = countedAt
    <3>1. CASE x = s  BY <3>1, <1>set, <1>loc
    <3>2. CASE x # s
      <4>1. gauge[x] = Shown(x) /\ shownFrom[x] = countedAt
        BY <3>2, <2>2, <1>left, <1>set DEF CountInv
      <4> QED  BY <3>2, <4>1, <1>set, <1>loc
    <3> QED  BY <3>1, <3>2
  <2> QED  BY <2>1, <2>2, <1>set DEF CountInv
<1>AgeInv. AgeInv'  BY DEF SetGauge, AgeInv, TypeOK
<1>TimestampNeverAhead. TimestampNeverAhead'
  <2>1. refreshedAt <= countedAt + Timeout  BY <1>set, <1>loc DEF ClockInv
  <2>2. ASSUME NEW x \in Known PROVE refreshedAt <= shownFrom'[x] + Timeout
    <3>1. CASE x = s  BY <3>1, <2>1, <1>set, <1>loc
    <3>2. CASE x # s  BY <3>2, <1>set, <1>loc DEF TimestampNeverAhead
    <3> QED  BY <3>1, <3>2
  <2> QED  BY <2>2, <1>set, <1>loc DEF TimestampNeverAhead
<1>GaugesExactAtRest. GaugesExactAtRest'
  BY DEF SetGauge, GaugesExactAtRest, TypeOK, Left, Shown, Rows
<1>NoPendingOrderHidden. NoPendingOrderHidden'  BY DEF SetGauge, NoPendingOrderHidden, TypeOK
<1> QED
  BY <1>t, <1>ClockInv, <1>FreshInv, <1>CountInv, <1>AgeInv, <1>TimestampNeverAhead,
     <1>GaugesExactAtRest, <1>NoPendingOrderHidden

\* The table moves.
LEMMA TableStep ==
    ASSUME IInv, Table
    PROVE  IInv'
<1> USE DEF IInv, lifecycleVars, tableVars, localVars, gaugeVars, tickerVars, Busy
<1> USE IntervalAssumption, TimeoutAssumption
<1>st. status' \in [Orders -> Statuses] /\ charges' \in [Orders -> Seq(Outcomes)]
  BY TableEffect DEF Table
<1>set. /\ created' = [o \in Orders |-> IF status[o] = "new" /\ status'[o] # "new" THEN now ELSE created[o]]
        /\ calm' = calm \ {o \in Orders : status'[o] # status[o]}
        /\ shownCalm' = shownCalm \ {o \in Orders : status'[o] # status[o]}
        /\ began' = began /\ counts' = counts /\ countedAt' = countedAt /\ age' = age
        /\ todo' = todo
        /\ gauge' = gauge /\ shownFrom' = shownFrom /\ oldest' = oldest
        /\ shownBegan' = shownBegan
        /\ refreshedAt' = refreshedAt /\ nextTick' = nextTick /\ tick' = tick
        /\ now' = now /\ ctx' = ctx /\ pc' = pc /\ told' = told
  BY DEF Table
<1>still. \A o \in Orders : o \in calm' \/ o \in shownCalm' => status'[o] = status[o] /\
    created'[o] = created[o]
  BY <1>set
<1>rest. calm' = Orders \/ shownCalm' = Orders => \A s : Rows(s)' = Rows(s)
  BY <1>set DEF Rows
<1>t. TypeOK'
  <2>1. created' \in [Orders -> Nat]  BY <1>set DEF TypeOK
  <2> QED  BY <2>1, <1>st, <1>set DEF TypeOK
<1>ClockInv. ClockInv'
  BY <1>set DEF ClockInv, TypeOK
<1>FreshInv. FreshInv'
  BY <1>set DEF FreshInv
<1>CountInv. CountInv'
  <2>1. Left' = Left /\ \A s : Shown(s)' = Shown(s)  BY <1>set DEF Left, Shown
  <2>2. calm' = Orders => calm = Orders  BY <1>set DEF TypeOK
  <2> QED  BY <2>1, <2>2, <1>set, <1>rest DEF CountInv
<1>AgeInv. AgeInv'
  BY <1>set, <1>still DEF AgeInv
<1>TimestampNeverAhead. TimestampNeverAhead'
  BY <1>set DEF TimestampNeverAhead
<1>GaugesExactAtRest. GaugesExactAtRest'
  <2>1. shownCalm' = Orders => shownCalm = Orders  BY <1>set DEF TypeOK
  <2> QED  BY <2>1, <1>set, <1>rest DEF GaugesExactAtRest
<1>NoPendingOrderHidden. NoPendingOrderHidden'
  BY <1>set, <1>still DEF NoPendingOrderHidden
<1> QED
  BY <1>t, <1>ClockInv, <1>FreshInv, <1>CountInv, <1>AgeInv, <1>TimestampNeverAhead,
     <1>GaugesExactAtRest, <1>NoPendingOrderHidden

-----------------------------------------------------------------------------
\* The invariant holds when the process starts.
LEMMA InitIInv == Init => IInv
<1> SUFFICES ASSUME Init PROVE IInv
  OBVIOUS
<1> USE DEF Init, LifecycleInit, Busy
<1>1. TypeOK
  <2>1. counts = <<>> /\ todo \in Seq(Known)  OBVIOUS
  <2>2. DOMAIN counts = {}  BY <2>1
  <2>3. charges \in [Orders -> Seq(Outcomes)]  OBVIOUS
  <2>4. status \in [Orders -> Statuses]  BY DEF Statuses
  <2> QED  BY <2>1, <2>2, <2>3, <2>4 DEF TypeOK
<1>2. ClockInv /\ FreshInv  BY IntervalAssumption, TimeoutAssumption DEF ClockInv, FreshInv
<1>3. CountInv /\ AgeInv  BY DEF CountInv, AgeInv
<1>4. TimestampNeverAhead /\ GaugesExactAtRest /\ NoPendingOrderHidden
  BY TimeoutAssumption DEF TimestampNeverAhead, GaugesExactAtRest, NoPendingOrderHidden
<1> QED  BY <1>1, <1>2, <1>3, <1>4 DEF IInv

\* Every step preserves the invariant.
LEMMA NextIInv == IInv /\ [Next]_vars => IInv'
<1> SUFFICES ASSUME IInv, [Next]_vars PROVE IInv'
  OBVIOUS
<1>1. CASE UNCHANGED vars
  <2> USE DEF vars, tableVars, localVars, gaugeVars, tickerVars, lifecycleVars
  <2>1. TypeOK' /\ ClockInv' /\ FreshInv'  BY <1>1 DEF IInv, TypeOK, ClockInv, FreshInv
  <2>2. CountInv' /\ AgeInv'  BY <1>1 DEF IInv, CountInv, AgeInv, Left, Shown, Rows
  <2>3. TimestampNeverAhead' /\ GaugesExactAtRest' /\ NoPendingOrderHidden'
    BY <1>1 DEF IInv, TimestampNeverAhead, GaugesExactAtRest, NoPendingOrderHidden, Rows
  <2> QED  BY <2>1, <2>2, <2>3 DEF IInv
<1>2. CASE Table  BY <1>2, TableStep
<1>3. CASE Advance  BY <1>3, AdvanceStep
<1>4. CASE Shutdown  BY <1>4, ShutdownStep
<1>5. CASE Refresher
  BY <1>5, BeginStep, StopStep, CountStep, OldestAgeStep, FailStep, PanicStep, SetOldestStep,
     SetTimestampStep, SetGaugeStep DEF Refresher
<1> QED  BY <1>1, <1>2, <1>3, <1>4, <1>5 DEF Next

\* The inductive invariant holds in every reachable state.
THEOREM Invariance == Spec => []IInv
  BY InitIInv, NextIInv, PTL DEF Spec

\* Every variable keeps its type.
THEOREM TypeCorrect == Spec => []TypeOK
<1>1. IInv => TypeOK  BY DEF IInv
<1> QED  BY <1>1, Invariance, PTL

\* No count on display is more than one timeout older than the timestamp on
\* display, in the middle of SetBacklog too (TimestampNeverAhead).
THEOREM TimestampHonest == Spec => []TimestampNeverAhead
<1>1. IInv => TimestampNeverAhead  BY DEF IInv
<1> QED  BY <1>1, Invariance, PTL

\* Gauges that have gone Interval + Timeout without a publication have an error
\* or a panic counter that moved (FrozenIsNotSilent).
THEOREM FreezeIsTold == Spec => []FrozenIsNotSilent
<1>1. IInv => FrozenIsNotSilent
  <2> SUFFICES ASSUME IInv, ~told PROVE ~(now > refreshedAt + Interval + Timeout)
    BY DEF FrozenIsNotSilent
  <2> USE IntervalAssumption, TimeoutAssumption DEF IInv, TypeOK, ClockInv, FreshInv
  <2>1. CASE pc \in Busy  BY <2>1
  <2>2. CASE pc = "waiting" /\ tick  BY <2>2
  <2>3. CASE pc = "waiting" /\ ~tick  BY <2>3
  <2>4. CASE pc = "stopped"  BY <2>4
  <2> QED  BY <2>1, <2>2, <2>3, <2>4
<1> QED  BY <1>1, Invariance, PTL

\* While no order moves, the gauges are exact (GaugesExactAtRest).
THEOREM GaugesExact == Spec => []GaugesExactAtRest
<1>1. IInv => GaugesExactAtRest  BY DEF IInv
<1> QED  BY <1>1, Invariance, PTL

\* The published age covers every order that was pending when the refresh began
\* and has not moved since (NoPendingOrderHidden).
THEOREM AgeHidesNoOrder == Spec => []NoPendingOrderHidden
<1>1. IInv => NoPendingOrderHidden  BY DEF IInv
<1> QED  BY <1>1, Invariance, PTL
============================================================================
