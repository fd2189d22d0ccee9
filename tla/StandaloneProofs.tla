-------------------------- MODULE StandaloneProofs --------------------------
(***************************************************************************)
(* Proofs about the parts that share no state with the service: the load   *)
(* generator, the alert sink and the configuration, for any number of      *)
(* clients, notifications and settings and any capacity.                   *)
(*                                                                         *)
(* What a loop computes is proved by the least number for which it would   *)
(* be false: the naturals are well founded (LeastNatural).                 *)
(***************************************************************************)
EXTENDS LoadGen, AlertSink, Configuration, FiniteSetTheorems, WellFoundedInduction, TLAPS

(* Every set of naturals that is not empty has a least element. *)
LEMMA LeastNatural ==
    ASSUME NEW T \in SUBSET Nat, T # {}
    PROVE  \E n \in T : \A m \in T : n <= m
<1>1. PICK n \in T : \A m \in T : ~(<<m, n>> \in OpToRel(<, Nat))
  BY NatLessThanWellFounded, WFMin
<1>2. \A m \in T : ~(m < n)
  BY <1>1 DEF OpToRel
<1> QED
  BY <1>2
-----------------------------------------------------------------------------
(* AlertSink: dedupe.                                                          *)

\* out is what the loop of dedupe has kept after each of the first n names.
LoopOn(in, out, n) ==
    out = [k \in 0..n |->
            IF k = 0 THEN <<>>
            ELSE IF in[k] \in ToSet(out[k - 1]) THEN out[k - 1] ELSE Append(out[k - 1], in[k])]

(* The loop of dedupe is defined for every number of names. *)
LEMMA LoopExists ==
    ASSUME NEW S, NEW in \in Seq(S), NEW n \in Nat
    PROVE  \E out : LoopOn(in, out, n)
<1> DEFINE T == {k \in Nat : ~\E out : LoopOn(in, out, k)}
<1>1. SUFFICES ASSUME T # {} PROVE FALSE
  OBVIOUS
<1>2. PICK k \in T : \A m \in T : k <= m
  BY <1>1, LeastNatural
<1>3. k # 0
  <2>1. LoopOn(in, [i \in 0..0 |-> <<>>], 0)
    BY DEF LoopOn
  <2> QED
    BY <2>1
<1>4. k - 1 \in Nat /\ k - 1 \notin T
  BY <1>2, <1>3
<1>5. PICK g : LoopOn(in, g, k - 1)
  BY <1>4
<1> DEFINE h == [i \in 0..k |-> IF i < k THEN g[i]
                                ELSE IF in[k] \in ToSet(g[k - 1]) THEN g[k - 1]
                                ELSE Append(g[k - 1], in[k])]
<1>6. LoopOn(in, h, k)
  <2>1. ASSUME NEW i \in 0..k
        PROVE  h[i] = IF i = 0 THEN <<>>
                      ELSE IF in[i] \in ToSet(h[i - 1]) THEN h[i - 1] ELSE Append(h[i - 1], in[i])
    <3>1. CASE i < k
      <4>1. i \in 0..(k - 1) /\ h[i] = g[i] /\ (i # 0 => h[i - 1] = g[i - 1])
        BY <3>1, <1>3
      <4>2. g[i] = IF i = 0 THEN <<>>
                   ELSE IF in[i] \in ToSet(g[i - 1]) THEN g[i - 1] ELSE Append(g[i - 1], in[i])
        BY <4>1, <1>5 DEF LoopOn
      <4> QED
        BY <4>1, <4>2
    <3>2. CASE i = k
      <4>1. h[k - 1] = g[k - 1]
        BY <1>3
      <4> QED
        BY <3>2, <4>1, <1>3
    <3> QED
      BY <3>1, <3>2
  <2> HIDE DEF h
  <2>2. h = [i \in 0..k |-> h[i]]
    BY DEF h
  <2> QED
    BY <2>1, <2>2 DEF LoopOn
<1> QED
  BY <1>2, <1>6

(* dedupe returns what its loop has kept after the last name. *)
LEMMA DedupeLoop ==
    ASSUME NEW S, NEW in \in Seq(S)
    PROVE  \E out : LoopOn(in, out, Len(in)) /\ dedupe(in) = out[Len(in)]
<1> DEFINE out[n \in 0..Len(in)] ==
              IF n = 0 THEN <<>>
              ELSE IF in[n] \in ToSet(out[n - 1]) THEN out[n - 1] ELSE Append(out[n - 1], in[n])
<1>1. dedupe(in) = out[Len(in)]
  BY DEF dedupe
<1>2. out = CHOOSE g : LoopOn(in, g, Len(in))
  BY DEF LoopOn
<1>3. LoopOn(in, out, Len(in))
  BY <1>2, LoopExists
<1> HIDE DEF out
<1> QED
  BY <1>1, <1>3

\* kept names every one of the first n names of in, once.
NamesOnce(in, kept, n) ==
    /\ kept \in Seq({in[k] : k \in 1..n})
    /\ ToSet(kept) = {in[k] : k \in 1..n}
    /\ IsInjective(kept)

(* One turn of the loop: a name that was kept already is passed over, a new    *)
(* one is appended.                                                            *)
LEMMA KeepsOnce ==
    ASSUME NEW in, NEW kept, NEW n \in Nat, NamesOnce(in, kept, n)
    PROVE  NamesOnce(in, IF in[n + 1] \in ToSet(kept) THEN kept ELSE Append(kept, in[n + 1]), n + 1)
<1> DEFINE A == {in[k] : k \in 1..n}
           B == {in[k] : k \in 1..(n + 1)}
           x == in[n + 1]
<1>1. B = A \cup {x}
  OBVIOUS
<1>2. kept \in Seq(A) /\ ToSet(kept) = A /\ IsInjective(kept)
  BY DEF NamesOnce
<1> HIDE DEF A, B, x
<1>3. kept \in Seq(B)
  BY <1>1, <1>2
<1>4. CASE x \in ToSet(kept)
  BY <1>1, <1>2, <1>3, <1>4 DEF NamesOnce, A, B, x
<1>5. CASE x \notin ToSet(kept)
  <2> DEFINE more == Append(kept, x)
  <2>1. /\ more \in Seq(B) /\ Len(more) = Len(kept) + 1 /\ more[Len(kept) + 1] = x
        /\ \A i \in 1..Len(kept) : more[i] = kept[i]
    BY <1>1, <1>3
  <2>2. DOMAIN more = 1..(Len(kept) + 1) /\ DOMAIN kept = 1..Len(kept) /\ Len(kept) \in Nat
    BY <1>1, <1>3, <2>1
  <2> HIDE DEF more
  <2>3. ToSet(more) = ToSet(kept) \cup {x}
    BY <2>1, <2>2 DEF ToSet
  <2>4. IsInjective(more)
    <3> SUFFICES ASSUME NEW i \in DOMAIN more, NEW j \in DOMAIN more, more[i] = more[j]
                 PROVE  i = j
      BY DEF IsInjective
    <3>1. \A k \in 1..Len(kept) : more[k] # x
      BY <1>5, <2>1, <2>2 DEF ToSet
    <3>2. CASE i \in 1..Len(kept) /\ j \in 1..Len(kept)
      BY <1>2, <2>1, <2>2, <3>2 DEF IsInjective
    <3> QED
      BY <2>1, <2>2, <3>1, <3>2
  <2> QED
    BY <1>1, <1>2, <1>5, <2>1, <2>3, <2>4 DEF NamesOnce, A, B, x, more
<1> QED
  BY <1>4, <1>5 DEF x

(* dedupe keeps every name, once. *)
LEMMA DedupeNamesOnce ==
    ASSUME NEW S, NEW in \in Seq(S)
    PROVE  ToSet(dedupe(in)) = ToSet(in) /\ IsInjective(dedupe(in))
<1>1. PICK out : LoopOn(in, out, Len(in)) /\ dedupe(in) = out[Len(in)]
  BY DedupeLoop
<1>2. Len(in) \in Nat /\ DOMAIN in = 1..Len(in)
  OBVIOUS
<1> DEFINE T == {n \in 0..Len(in) : ~NamesOnce(in, out[n], n)}
<1>3. T = {}
  <2> SUFFICES ASSUME T # {} PROVE FALSE
    OBVIOUS
  <2>0. T \in SUBSET Nat
    BY <1>2
  <2> HIDE DEF T
  <2>1. PICK n \in T : \A m \in T : n <= m
    BY <2>0, LeastNatural
  <2> USE DEF T
  <2>2. n # 0
    <3>1. out[0] = <<>>
      BY <1>1, <1>2 DEF LoopOn
    <3>2. NamesOnce(in, <<>>, 0)
      BY DEF NamesOnce, ToSet, IsInjective
    <3> QED
      BY <2>1, <3>1, <3>2
  <2>3. n - 1 \in 0..Len(in) /\ NamesOnce(in, out[n - 1], n - 1)
    BY <1>2, <2>1, <2>2
  <2>4. out[n] = IF in[n] \in ToSet(out[n - 1]) THEN out[n - 1] ELSE Append(out[n - 1], in[n])
    BY <1>1, <1>2, <2>1, <2>2 DEF LoopOn
  <2>5. n - 1 \in Nat /\ (n - 1) + 1 = n
    BY <1>2, <2>1, <2>2
  <2>6. NamesOnce(in, IF in[(n - 1) + 1] \in ToSet(out[n - 1]) THEN out[n - 1]
                      ELSE Append(out[n - 1], in[(n - 1) + 1]), (n - 1) + 1)
    BY <2>3, <2>5, KeepsOnce
  <2> QED
    BY <2>1, <2>4, <2>5, <2>6
<1>4. NamesOnce(in, dedupe(in), Len(in))
  BY <1>1, <1>2, <1>3
<1> QED
  BY <1>2, <1>4 DEF NamesOnce, ToSet
-----------------------------------------------------------------------------
(* AlertSink: the history.                                                     *)

Records   == [note : Notes, at : Nat]
Posts     == [note : Notes, at : Nat, pc : {"arrived", "decoded", "rejected", "done"}]
Knowledge == {"due", "posted", "delivered", "hopeless"}

SinkTyped ==
    /\ clock \in Nat
    /\ am \in [Notes -> Knowledge]
    /\ posts \in Seq(Posts)
    /\ history \in Seq(Records)
    /\ received \in Seq(Records)

\* The history is the end of what was received.
EndOf(h, all) ==
    /\ Len(h) = IF Len(all) < HistoryMax THEN Len(all) ELSE HistoryMax
    /\ \A i \in 1..Len(h) : h[i] = all[Len(all) - Len(h) + i]

\* Records are in the order of their timestamps, none from the future.
InOrder ==
    /\ \A i, j \in 1..Len(received) : i < j => received[i].at <= received[j].at
    /\ \A i \in 1..Len(received) : received[i].at <= clock

\* A handler that is done has left its record, and so has a delivered notification.
Recorded(n) == \E k \in 1..Len(received) : received[k].note = n

LeftRecord(i) == posts[i].pc = "done" => Recorded(posts[i].note)

DoneIsRecorded ==
    /\ \A i \in 1..Len(posts) : LeftRecord(i)
    /\ \A n \in Notes : am[n] = "delivered" => Recorded(n)

SinkInv == SinkTyped /\ EndOf(history, received) /\ InOrder /\ DoneIsRecorded

(* Trimming what was appended leaves the end of what was received. *)
LEMMA TrimIsEnd ==
    ASSUME NEW S, NEW h \in Seq(S), NEW all \in Seq(S), NEW r \in S, EndOf(h, all)
    PROVE  Trim(Append(h, r)) \in Seq(S) /\ EndOf(Trim(Append(h, r)), Append(all, r))
<1> USE HistoryAssumption
<1> DEFINE g == Append(h, r)
           every == Append(all, r)
<1>1. /\ g \in Seq(S) /\ Len(g) = Len(h) + 1 /\ g[Len(h) + 1] = r
      /\ \A i \in 1..Len(h) : g[i] = h[i]
  OBVIOUS
<1>2. /\ every \in Seq(S) /\ Len(every) = Len(all) + 1 /\ every[Len(all) + 1] = r
      /\ \A i \in 1..Len(all) : every[i] = all[i]
  OBVIOUS
<1>3. Len(h) \in Nat /\ Len(all) \in Nat /\ Len(h) <= Len(all)
  BY DEF EndOf
<1> HIDE DEF g, every
<1>4. \A i \in 1..Len(g) : g[i] = every[Len(every) - Len(g) + i]
  <2> TAKE i \in 1..Len(g)
  <2>1. CASE i = Len(h) + 1
    BY <1>1, <1>2, <1>3, <2>1
  <2>2. CASE i \in 1..Len(h)
    <3>1. h[i] = all[Len(all) - Len(h) + i]
      BY <2>2 DEF EndOf
    <3>2. Len(all) - Len(h) + i \in 1..Len(all)
      BY <1>3, <2>2
    <3> QED
      BY <1>1, <1>2, <1>3, <2>2, <3>1, <3>2
  <2> QED
    BY <1>1, <1>3, <2>1, <2>2
<1>5. CASE Len(g) <= HistoryMax
  <2>1. Trim(g) = g
    BY <1>1, <1>3, <1>5 DEF Trim
  <2>2. Len(g) = IF Len(every) < HistoryMax THEN Len(every) ELSE HistoryMax
    BY <1>1, <1>2, <1>3, <1>5 DEF EndOf
  <2> QED
    BY <1>1, <1>4, <2>1, <2>2 DEF EndOf, g, every
<1>6. CASE Len(g) > HistoryMax
  <2>1. Len(h) = HistoryMax /\ Len(g) = HistoryMax + 1 /\ Len(every) > HistoryMax
    BY <1>1, <1>2, <1>3, <1>6 DEF EndOf
  <2> DEFINE k == SubSeq(g, Len(g) - HistoryMax + 1, Len(g))
  <2>2. Trim(g) = k
    BY <1>6 DEF Trim
  <2>3. k = SubSeq(g, 2, HistoryMax + 1)
    BY <2>1
  <2>4. k \in Seq(S) /\ Len(k) = HistoryMax /\ \A i \in 1..HistoryMax : k[i] = g[i + 1]
    BY <1>1, <2>1, <2>3
  <2> HIDE DEF k
  <2>5. \A i \in 1..HistoryMax : k[i] = every[Len(every) - HistoryMax + i]
    <3> TAKE i \in 1..HistoryMax
    <3>1. i + 1 \in 1..Len(g) /\ Len(every) - Len(g) + (i + 1) = Len(every) - HistoryMax + i
      BY <1>2, <1>3, <2>1
    <3>2. k[i] = g[i + 1] /\ g[i + 1] = every[Len(every) - Len(g) + (i + 1)]
      BY <1>4, <2>4, <3>1
    <3> QED
      BY <3>1, <3>2
  <2>6. EndOf(k, every)
    BY <1>2, <1>3, <2>1, <2>4, <2>5 DEF EndOf
  <2> QED
    BY <2>2, <2>4, <2>6 DEF g, every
<1> QED
  BY <1>1, <1>3, <1>5, <1>6 DEF g

(* Every step of Alertmanager, of a handler and of the clock keeps it. *)
LEMMA SinkStep == SinkInv /\ [SinkNext]_sinkVars => SinkInv'
<1> SUFFICES ASSUME SinkInv, [SinkNext]_sinkVars PROVE SinkInv'
  OBVIOUS
<1> USE DEF SinkInv
<1>1. ASSUME NEW n \in Notes, Post(n) PROVE SinkInv'
  <2> DEFINE p == [note |-> n, at |-> 0, pc |-> "arrived"]
  <2>1. p \in Posts /\ posts' = Append(posts, p) /\ UNCHANGED <<clock, history, received>>
    BY <1>1 DEF Posts, Post
  <2>2. am' = [am EXCEPT ![n] = "posted"]
    BY <1>1 DEF Post
  <2>3. p.pc = "arrived"
    OBVIOUS
  <2> HIDE DEF p
  <2>4. /\ posts' \in Seq(Posts) /\ Len(posts') = Len(posts) + 1 /\ Len(posts) \in Nat
        /\ posts'[Len(posts) + 1] = p /\ \A i \in 1..Len(posts) : posts'[i] = posts[i]
    BY <2>1 DEF SinkTyped
  <2>5. SinkTyped'
    BY <2>1, <2>2, <2>4 DEF SinkTyped, Knowledge
  <2>6. \A i \in 1..Len(posts') : LeftRecord(i)'
    <3> TAKE i \in 1..Len(posts')
    <3>1. CASE i \in 1..Len(posts)
      BY <2>1, <2>4, <3>1 DEF DoneIsRecorded, LeftRecord, Recorded
    <3>2. CASE i = Len(posts) + 1
      BY <2>3, <2>4, <3>2 DEF LeftRecord
    <3> QED
      BY <2>4, <3>1, <3>2
  <2>7. \A m \in Notes : am'[m] = "delivered" => Recorded(m)'
    BY <2>1, <2>2 DEF DoneIsRecorded, Recorded, SinkTyped
  <2> QED
    BY <2>1, <2>5, <2>6, <2>7 DEF EndOf, InOrder, DoneIsRecorded
<1>2. ASSUME NEW n \in Notes, Answered(n) PROVE SinkInv'
  <2>1. UNCHANGED <<clock, posts, history, received>>
    BY <1>2 DEF Answered
  <2>2. DOMAIN posts = 1..Len(posts)
    BY DEF SinkTyped
  <2>3. \/ am' = [am EXCEPT ![n] = "delivered"] /\ Recorded(n)
        \/ am' = [am EXCEPT ![n] = "hopeless"]
        \/ am' = [am EXCEPT ![n] = "due"]
    BY <1>2, <2>2 DEF Answered, DoneIsRecorded, LeftRecord
  <2>4. SinkTyped'
    BY <2>1, <2>3 DEF SinkTyped, Knowledge
  <2>5. \A m \in Notes : am'[m] = "delivered" => Recorded(m)
    BY <2>3 DEF DoneIsRecorded, SinkTyped
  <2> QED
    BY <2>1, <2>4, <2>5 DEF EndOf, InOrder, DoneIsRecorded, LeftRecord, Recorded
<1>3. ASSUME NEW i \in DOMAIN posts, Decode(i) PROVE SinkInv'
  <2>1. i \in 1..Len(posts) /\ posts[i] \in Posts
    BY DEF SinkTyped
  <2>2. PICK pc \in {"decoded", "rejected"} : posts' = [posts EXCEPT ![i].pc = pc, ![i].at = clock]
    BY <1>3 DEF Decode
  <2> DEFINE p == [posts[i] EXCEPT !.pc = pc]
             q == [p EXCEPT !.at = clock]
  <2>3. p \in Posts
    BY <2>1 DEF Posts
  <2>4. q \in Posts /\ q.pc = pc
    BY <2>3 DEF Posts, SinkTyped
  <2>5. posts' = [posts EXCEPT ![i] = q]
    BY <2>1, <2>2 DEF SinkTyped
  <2> HIDE DEF p, q
  <2>6. posts' \in Seq(Posts) /\ Len(posts') = Len(posts)
    BY <2>1, <2>4, <2>5 DEF SinkTyped
  <2>7. UNCHANGED <<clock, am, history, received>>
    BY <1>3 DEF Decode
  <2>8. \A j \in 1..Len(posts) : posts'[j].pc = "done" => posts'[j] = posts[j]
    BY <2>1, <2>4, <2>5 DEF SinkTyped
  <2>9. SinkTyped'
    BY <2>6, <2>7 DEF SinkTyped
  <2> QED
    BY <2>6, <2>7, <2>8, <2>9 DEF EndOf, InOrder, DoneIsRecorded, LeftRecord, Recorded
<1>4. ASSUME NEW i \in DOMAIN posts, Keep(i) PROVE SinkInv'
  <2>1. i \in 1..Len(posts) /\ posts[i] \in Posts
    BY DEF SinkTyped
  <2> DEFINE r == NewRecord(i)
             q == [posts[i] EXCEPT !.pc = "done"]
  <2>2. r \in Records /\ r.note = posts[i].note /\ r.at = clock
    BY <2>1 DEF NewRecord, Records, Posts, SinkTyped
  <2>3. q \in Posts /\ q.note = posts[i].note
    BY <2>1 DEF Posts
  <2>4. /\ history' = Trim(Append(history, r)) /\ received' = Append(received, r)
        /\ posts' = [posts EXCEPT ![i] = q] /\ UNCHANGED <<clock, am>>
    BY <1>4 DEF Keep
  <2> HIDE DEF r, q
  <2>5. history' \in Seq(Records) /\ EndOf(history', received')
    BY <2>2, <2>4, TrimIsEnd DEF SinkTyped
  <2>6. /\ received' \in Seq(Records) /\ Len(received) \in Nat /\ Len(received') = Len(received) + 1
        /\ received'[Len(received) + 1] = r
        /\ \A k \in 1..Len(received) : received'[k] = received[k]
    BY <2>2, <2>4 DEF SinkTyped
  <2>7. posts' \in Seq(Posts) /\ Len(posts') = Len(posts)
    BY <2>1, <2>3, <2>4 DEF SinkTyped
  <2>8. SinkTyped'
    BY <2>4, <2>5, <2>6, <2>7 DEF SinkTyped
  <2>9. InOrder'
    <3>1. \A j \in 1..Len(received') : received'[j].at <= clock
      BY <2>2, <2>6 DEF InOrder, SinkTyped
    <3>2. ASSUME NEW j \in 1..Len(received'), NEW k \in 1..Len(received'), j < k
          PROVE  received'[j].at <= received'[k].at
      <4>1. j \in 1..Len(received)
        BY <2>6, <3>2
      <4>2. k \in 1..Len(received) \/ k = Len(received) + 1
        BY <2>6
      <4> QED
        BY <2>2, <2>6, <3>1, <3>2, <4>1, <4>2 DEF InOrder
    <3> QED
      BY <2>4, <3>1, <3>2 DEF InOrder
  <2>10. \A n \in Notes : Recorded(n) => Recorded(n)'
    <3> SUFFICES ASSUME NEW n \in Notes, NEW k \in 1..Len(received), received[k].note = n
                 PROVE  Recorded(n)'
      BY DEF Recorded
    <3>1. k \in 1..Len(received') /\ received'[k].note = n
      BY <2>6
    <3> QED
      BY <3>1 DEF Recorded
  <2>11. LeftRecord(i)'
    <3>1. Len(received) + 1 \in 1..Len(received') /\ received'[Len(received) + 1].note = posts'[i].note
      BY <2>1, <2>2, <2>3, <2>4, <2>6 DEF SinkTyped
    <3> QED
      BY <3>1 DEF LeftRecord, Recorded
  <2>12. \A j \in 1..Len(posts') : LeftRecord(j)'
    <3> TAKE j \in 1..Len(posts')
    <3>1. CASE j = i
      BY <2>11, <3>1
    <3>2. CASE j # i
      <4>1. posts'[j] = posts[j] /\ j \in 1..Len(posts) /\ posts[j] \in Posts
        BY <2>4, <2>7, <3>2 DEF SinkTyped
      <4>2. PICK n \in Notes : n = posts[j].note
        BY <4>1 DEF Posts
      <4>3. posts[j].pc = "done" => Recorded(n)
        BY <4>1, <4>2 DEF DoneIsRecorded, LeftRecord
      <4>4. posts'[j].pc = "done" => Recorded(n)'
        BY <2>10, <4>1, <4>3
      <4> QED
        BY <4>1, <4>2, <4>4 DEF LeftRecord, Recorded
    <3> QED
      BY <3>1, <3>2
  <2> QED
    BY <2>4, <2>5, <2>8, <2>9, <2>10, <2>12 DEF DoneIsRecorded
<1>5. CASE Passing
  <2>1. clock' = clock + 1 /\ UNCHANGED <<am, posts, history, received>>
    BY <1>5 DEF Passing
  <2>2. SinkTyped'
    BY <2>1 DEF SinkTyped
  <2>3. InOrder'
    <3>1. \A i \in 1..Len(received) : received[i] \in Records
      BY DEF SinkTyped
    <3>2. \A i \in 1..Len(received) : received[i].at \in Nat
      BY <3>1 DEF Records
    <3> QED
      BY <2>1, <3>2 DEF InOrder, SinkTyped
  <2> QED
    BY <2>1, <2>2, <2>3 DEF EndOf, DoneIsRecorded, LeftRecord, Recorded
<1>6. CASE UNCHANGED sinkVars
  BY <1>6 DEF sinkVars, SinkTyped, EndOf, InOrder, DoneIsRecorded, LeftRecord, Recorded
<1> QED
  BY <1>1, <1>2, <1>3, <1>4, <1>5, <1>6 DEF SinkNext

(* A notification Alertmanager takes for delivered is on the page until        *)
(* HistoryMax newer ones are, the page is newest first and names every alert   *)
(* once, whatever handlers overtake each other (alertsink/main.go).            *)
THEOREM DeliveredStaysListed == SinkSpec => []DeliveredIsListed
<1>1. SinkInit => SinkInv
  <2> SUFFICES ASSUME SinkInit PROVE SinkInv
    OBVIOUS
  <2>1. SinkTyped /\ Len(posts) = 0 /\ Len(history) = 0 /\ Len(received) = 0
    BY DEF SinkInit, SinkTyped, Knowledge
  <2>2. EndOf(history, received) /\ InOrder
    BY <2>1, HistoryAssumption DEF EndOf, InOrder
  <2>3. DoneIsRecorded
    BY <2>1 DEF DoneIsRecorded, SinkInit
  <2> QED
    BY <2>1, <2>2, <2>3 DEF SinkInv
<1>2. SinkInv => DeliveredIsListed
  <2> SUFFICES ASSUME SinkInv PROVE DeliveredIsListed
    OBVIOUS
  <2> USE DEF SinkInv
  <2> DEFINE L == Len(history)
             R == Len(received)
  <2>1. /\ L \in Nat /\ R \in Nat /\ L <= R /\ L <= HistoryMax /\ DOMAIN history = 1..L
        /\ DOMAIN received = 1..R /\ (R - L > 0 => L = HistoryMax)
    BY HistoryAssumption DEF SinkTyped, EndOf
  <2>2. \A i \in 1..L : history[i] \in Records /\ history[i] = received[R - L + i]
    BY DEF SinkTyped, EndOf
  <2> HIDE DEF L, R
  <2>3. /\ DOMAIN list = 1..L
        /\ \A i \in 1..L : LET r == history[L - i + 1]
                           IN  list[i] = [note |-> r.note, at |-> r.at, names |-> dedupe(NamesOf[r.note])]
    <3>1. \A i \in 1..L : Reverse(history)[i] = history[L - i + 1]
      BY DEF Reverse, L
    <3> QED
      BY <2>1, <3>1 DEF list
  <2>4. \A i \in 1..L : /\ list[i].note = history[L - i + 1].note
                        /\ list[i].at = history[L - i + 1].at
                        /\ list[i].names = dedupe(NamesOf[list[i].note])
                        /\ L - i + 1 \in 1..L
    BY <2>1, <2>3
  <2>5. ASSUME NEW n \in Notes, am[n] = "delivered"
        PROVE  \E k \in DOMAIN received :
                 /\ received[k].note = n
                 /\ Len(received) - k < HistoryMax => \E i \in DOMAIN list : list[i].note = n
    <3>1. PICK k \in 1..R : received[k].note = n
      BY <2>5 DEF DoneIsRecorded, Recorded, R
    <3>2. ASSUME R - k < HistoryMax PROVE \E i \in DOMAIN list : list[i].note = n
      <4> DEFINE i == R - k + 1
      <4>1. i \in 1..L /\ L - i + 1 \in 1..L /\ R - L + (L - i + 1) = k
        BY <2>1, <3>1, <3>2, HistoryAssumption
      <4>2. history[L - i + 1] = received[k]
        BY <2>2, <4>1
      <4> QED
        BY <2>3, <2>4, <3>1, <4>1, <4>2
    <3> QED
      BY <2>1, <3>1, <3>2 DEF R
  <2>6. Len(list) <= HistoryMax
    <3>1. list = [i \in 1..L |-> list[i]]
      BY <2>1 DEF list
    <3>2. Len(list) = L
      BY <2>1, <2>3, <3>1
    <3> QED
      BY <2>1, <3>2
  <2>7. ASSUME NEW i \in DOMAIN list, NEW j \in DOMAIN list, i < j
        PROVE  list[i].at >= list[j].at
    <3>1. /\ list[i].at = history[L - i + 1].at /\ list[j].at = history[L - j + 1].at
          /\ L - i + 1 \in 1..L /\ L - j + 1 \in 1..L
      BY <2>3, <2>4
    <3>2. /\ history[L - i + 1] = received[R - L + (L - i + 1)]
          /\ history[L - j + 1] = received[R - L + (L - j + 1)]
      BY <2>2, <3>1
    <3>3. /\ R - L + (L - i + 1) \in 1..R /\ R - L + (L - j + 1) \in 1..R
          /\ R - L + (L - j + 1) < R - L + (L - i + 1)
      BY <2>1, <2>3, <2>7, <3>1
    <3>4. received[R - L + (L - j + 1)].at <= received[R - L + (L - i + 1)].at
      BY <3>3 DEF InOrder, R
    <3>5. list[i].at \in Nat /\ list[j].at \in Nat
      BY <2>2, <3>1 DEF Records
    <3> QED
      BY <3>1, <3>2, <3>4, <3>5
  <2>8. ASSUME NEW i \in DOMAIN list
        PROVE  /\ ToSet(list[i].names) = ToSet(NamesOf[list[i].note])
               /\ IsInjective(list[i].names)
    <3>1. list[i].note \in Notes /\ list[i].names = dedupe(NamesOf[list[i].note])
      BY <2>2, <2>3, <2>4 DEF Records
    <3>2. NamesOf[list[i].note] \in Seq(ToSet(NamesOf[list[i].note]))
      BY <3>1, NamesAssumption
    <3> QED
      BY <3>1, <3>2, DedupeNamesOnce
  <2> QED
    BY <2>5, <2>6, <2>7, <2>8 DEF DeliveredIsListed
<1> QED
  BY <1>1, <1>2, SinkStep, PTL DEF SinkSpec
-----------------------------------------------------------------------------
(* Configuration.                                                              *)

\* What Load accepted is what the environment says, or the default.
Accepted ==
    /\ cfg = [v \in Names |-> envValue(v)]
    /\ \A v \in Names : IsSet(v) => Parses(v)
    /\ cfg[Ratio] = NaN \/ cfg[Ratio] \in 0..1
    /\ cfg["DB_MAX_CONNS"] >= cfg["DB_MIN_CONNS"]

\* n can be used and is the number that was set, if that one can be used.
Honours(v, n) == n > 0 /\ (environ[v] \in Numbers /\ environ[v] > 0 => n = environ[v])

\* Each part that was started uses numbers it can run with.
WorkerRuns    == parts["worker"] # Unset => /\ Honours("WORKER_INTERVAL", parts["worker"].interval)
                                            /\ Honours("WORKER_BATCH_SIZE", parts["worker"].batch)
RefresherRuns == parts["refresher"] # Unset => Honours("BACKLOG_INTERVAL", parts["refresher"])
SamplerRuns   == parts["sampler"] # Unset => /\ Honours("LOG_SAMPLE_N", parts["sampler"].budget)
                                             /\ Honours("LOG_SAMPLE_INTERVAL", parts["sampler"].window)
PoolRuns      == parts["pool"] # Unset => /\ Honours("DB_MAX_CONNS", parts["pool"].max)
                                          /\ parts["pool"].min <= parts["pool"].max
TracerRuns    == parts["tracer"] # Unset /\ environ[Ratio] = 0 => parts["tracer"] = "never"

Parts == {"sampler", "tracer", "pool", "worker", "refresher"}

CfgInv ==
    /\ stage \in {"begin", "failed", "logger", "tracing", "pool", "worker", "refresher", "serving"}
    /\ parts = [p \in Parts |-> parts[p]]
    /\ stage \notin {"begin", "failed"} => Accepted
    /\ WorkerRuns /\ RefresherRuns /\ SamplerRuns /\ PoolRuns /\ TracerRuns

(* An accepted configuration holds a number for every name but the ratio, and  *)
(* that number is the one the environment names.                               *)
LEMMA AcceptedNumbers ==
    ASSUME Accepted, NEW v \in Durations \cup Int32s
    PROVE  cfg[v] \in Int /\ (environ[v] \in Numbers => cfg[v] = environ[v])
<1>1. v \in Names /\ v # Ratio
  BY DEF Names, Durations, Int32s, Ratio
<1>2. cfg[v] = IF IsSet(v) THEN environ[v] ELSE Default(v)
  BY <1>1 DEF Accepted, envValue
<1>3. Default(v) \in Int
  BY DEF Default
<1>4. environ[v] \in Numbers => IsSet(v)
  BY NumbersAssumption, SettingsAssumption DEF IsSet
<1>5. ASSUME IsSet(v) PROVE environ[v] \in Int
  <2>1. Parses(v)
    BY <1>1, <1>5 DEF Accepted
  <2>2. CASE v \in Int32s
    <3>1. environ[v] \in -(MaxInt32 + 1)..MaxInt32
      BY <2>1, <2>2 DEF Parses, Int32s, Durations, Ratio
    <3> QED
      BY <3>1, MaxInt32Assumption
  <2>3. CASE v \in Durations
    <3>1. environ[v] \in Numbers
      BY <2>1, <2>3 DEF Parses, Int32s, Durations, Ratio
    <3> QED
      BY <3>1, NumbersAssumption
  <2> QED
    BY <2>2, <2>3
<1> QED
  BY <1>2, <1>3, <1>4, <1>5

(* The default of a constructor replaces exactly the numbers it cannot use. *)
LEMMA OrElseHonours ==
    ASSUME Accepted, NEW v \in Durations \cup Int32s, NEW d \in Nat \ {0}
    PROVE  Honours(v, OrElse(cfg[v], d)) /\ OrElse(cfg[v], d) \in Int
<1>1. cfg[v] \in Int /\ (environ[v] \in Numbers => cfg[v] = environ[v])
  BY AcceptedNumbers
<1> QED
  BY <1>1 DEF Honours, OrElse

(* Load and every constructor keep it. *)
LEMMA CfgStep == CfgInv /\ [CfgNext]_cfgVars => CfgInv'
<1> SUFFICES ASSUME CfgInv, [CfgNext]_cfgVars PROVE CfgInv'
  OBVIOUS
<1> USE DEF CfgInv
<1>0. /\ {"WORKER_INTERVAL", "BACKLOG_INTERVAL", "LOG_SAMPLE_INTERVAL"} \subseteq Durations \cup Int32s
      /\ {"LOG_SAMPLE_N", "WORKER_BATCH_SIZE", "DB_MAX_CONNS", "DB_MIN_CONNS"} \subseteq Durations \cup Int32s
  BY DEF Durations, Int32s
<1>1. ASSUME UNCHANGED <<environ, cfg>>, Accepted PROVE Accepted'
  BY <1>1 DEF Accepted, envValue, IsSet, Parses
<1>2. ASSUME UNCHANGED <<environ, parts>>
      PROVE  (WorkerRuns /\ RefresherRuns /\ SamplerRuns /\ PoolRuns /\ TracerRuns)'
  BY <1>2 DEF WorkerRuns, RefresherRuns, SamplerRuns, PoolRuns, TracerRuns, Honours
<1>3. CASE Load
  <2>1. UNCHANGED <<environ, parts>>
    BY <1>3 DEF Load
  <2>2. CASE stage' = "failed"
    BY <1>2, <2>1, <2>2
  <2>3. CASE stage' # "failed"
    <3>1. /\ stage' = "logger" /\ cfg' = [v \in Names |-> envValue(v)]
          /\ \A v \in Names : IsSet(v) => Parses(v)
          /\ cfg'[Ratio] = NaN \/ cfg'[Ratio] \in 0..1
          /\ cfg'["DB_MAX_CONNS"] >= cfg'["DB_MIN_CONNS"]
      BY <1>3, <2>3 DEF Load
    <3>2. Accepted'
      BY <2>1, <3>1 DEF Accepted, envValue, IsSet, Parses
    <3> QED
      BY <1>2, <2>1, <3>1, <3>2
  <2> QED
    BY <2>2, <2>3
<1>4. ASSUME NEW p \in Parts, NEW n, parts' = [parts EXCEPT ![p] = n], UNCHANGED environ
      PROVE  /\ parts' = [q \in Parts |-> parts'[q]] /\ parts'[p] = n
             /\ p # "worker" => WorkerRuns'
             /\ p # "refresher" => RefresherRuns'
             /\ p # "sampler" => SamplerRuns'
             /\ p # "pool" => PoolRuns'
             /\ p # "tracer" => TracerRuns'
  <2>1. parts' = [q \in Parts |-> parts'[q]] /\ parts'[p] = n /\ \A q \in Parts \ {p} : parts'[q] = parts[q]
    BY <1>4
  <2> QED
    BY <1>4, <2>1 DEF WorkerRuns, RefresherRuns, SamplerRuns, PoolRuns, TracerRuns, Honours, Parts
<1>5. CASE NewLogger
  <2>1. stage' = "tracing" /\ UNCHANGED <<environ, cfg>> /\ Accepted
    BY <1>5 DEF NewLogger
  <2>2. CASE cfg["LOG_SAMPLE_N"] > 0
    <3> DEFINE n == [budget |-> cfg["LOG_SAMPLE_N"], window |-> OrElse(cfg["LOG_SAMPLE_INTERVAL"], 1)]
    <3>1. parts' = [parts EXCEPT !["sampler"] = n] /\ "sampler" \in Parts
      BY <1>5, <2>2 DEF NewLogger, Use, Parts
    <3>2. Honours("LOG_SAMPLE_N", n.budget) /\ Honours("LOG_SAMPLE_INTERVAL", n.window)
      <4>1. Honours("LOG_SAMPLE_N", cfg["LOG_SAMPLE_N"])
        BY <1>0, <2>1, <2>2, AcceptedNumbers DEF Honours
      <4>2. "LOG_SAMPLE_INTERVAL" \in Durations \cup Int32s /\ 1 \in Nat \ {0}
        BY DEF Durations
      <4>3. Honours("LOG_SAMPLE_INTERVAL", OrElse(cfg["LOG_SAMPLE_INTERVAL"], 1))
        BY <2>1, <4>2, OrElseHonours
      <4> QED
        BY <4>1, <4>3
    <3> HIDE DEF n
    <3>3. parts'["sampler"] = n /\ parts' = [q \in Parts |-> parts'[q]]
      BY <1>4, <2>1, <3>1
    <3>4. SamplerRuns'
      BY <2>1, <3>2, <3>3 DEF SamplerRuns, Honours
    <3> QED
      BY <1>1, <1>4, <2>1, <3>1, <3>3, <3>4
  <2>3. CASE ~(cfg["LOG_SAMPLE_N"] > 0)
    <3>1. parts' = parts
      BY <1>5, <2>3 DEF NewLogger
    <3> QED
      BY <1>1, <1>2, <2>1, <3>1
  <2> QED
    BY <2>2, <2>3
<1>6. CASE InitTracing
  <2>1. stage' = "pool" /\ UNCHANGED <<environ, cfg>> /\ Accepted
    BY <1>6 DEF InitTracing
  <2>2. PICK s \in newSampler(cfg[Ratio]) : parts' = [parts EXCEPT !["tracer"] = s]
    BY <1>6 DEF InitTracing, Use
  <2>3. "tracer" \in Parts
    BY DEF Parts
  <2>4. environ[Ratio] = 0 => s = "never"
    <3> SUFFICES ASSUME environ[Ratio] = 0 PROVE s = "never"
      OBVIOUS
    <3>1. IsSet(Ratio) /\ NaN # 0
      BY SettingsAssumption DEF IsSet
    <3>2. cfg[Ratio] = 0
      BY <2>1, <3>1 DEF Accepted, envValue, Names
    <3>3. newSampler(0) = {"never"}
      BY <3>1 DEF newSampler
    <3> QED
      BY <2>2, <3>2, <3>3
  <2>5. parts'["tracer"] = s /\ parts' = [q \in Parts |-> parts'[q]]
    BY <1>4, <2>1, <2>2, <2>3
  <2>6. TracerRuns'
    BY <2>1, <2>4, <2>5 DEF TracerRuns
  <2> QED
    BY <1>1, <1>4, <2>1, <2>2, <2>3, <2>5, <2>6
<1>7. CASE OpenPool
  <2>1. UNCHANGED <<environ, cfg>> /\ Accepted
    BY <1>7 DEF OpenPool
  <2>2. CASE cfg["DB_MAX_CONNS"] < 1
    <3>1. stage' = "failed" /\ parts' = parts
      BY <1>7, <2>2 DEF OpenPool
    <3> QED
      BY <1>2, <2>1, <3>1
  <2>3. CASE ~(cfg["DB_MAX_CONNS"] < 1)
    <3> DEFINE n == [min |-> cfg["DB_MIN_CONNS"], max |-> cfg["DB_MAX_CONNS"]]
    <3>1. stage' = "worker" /\ parts' = [parts EXCEPT !["pool"] = n] /\ "pool" \in Parts
      BY <1>7, <2>3 DEF OpenPool, Use, Parts
    <3>2. Honours("DB_MAX_CONNS", n.max) /\ n.min <= n.max
      BY <1>0, <2>1, <2>3, AcceptedNumbers DEF Honours, Accepted
    <3> HIDE DEF n
    <3>3. parts'["pool"] = n /\ parts' = [q \in Parts |-> parts'[q]]
      BY <1>4, <2>1, <3>1
    <3>4. PoolRuns'
      BY <2>1, <3>2, <3>3 DEF PoolRuns, Honours
    <3> QED
      BY <1>1, <1>4, <2>1, <3>1, <3>3, <3>4
  <2> QED
    BY <2>2, <2>3
<1>8. CASE StartWorker
  <2>1. UNCHANGED <<environ, cfg>> /\ Accepted
    BY <1>8 DEF StartWorker
  <2>2. CASE stage' = "serving" /\ UNCHANGED parts
    BY <1>1, <1>2, <2>1, <2>2
  <2>3. CASE ~(stage' = "serving" /\ UNCHANGED parts)
    <3> DEFINE n == withDefaults(cfg["WORKER_INTERVAL"], cfg["WORKER_BATCH_SIZE"])
    <3>1. /\ parts' = [parts EXCEPT !["worker"] = n] /\ "worker" \in Parts
          /\ stage' = IF n.interval > 0 THEN "refresher" ELSE "panicked"
      BY <1>8, <2>3 DEF StartWorker, Use, Ticking, Parts
    <3>2. Honours("WORKER_INTERVAL", n.interval) /\ Honours("WORKER_BATCH_SIZE", n.batch)
      BY <1>0, <2>1, OrElseHonours DEF withDefaults
    <3> HIDE DEF n
    <3>3. stage' = "refresher"
      BY <3>1, <3>2 DEF Honours
    <3>4. parts'["worker"] = n /\ parts' = [q \in Parts |-> parts'[q]]
      BY <1>4, <2>1, <3>1
    <3>5. WorkerRuns'
      BY <2>1, <3>2, <3>4 DEF WorkerRuns, Honours
    <3> QED
      BY <1>1, <1>4, <2>1, <3>1, <3>3, <3>4, <3>5
  <2> QED
    BY <2>2, <2>3
<1>9. CASE StartRefresher
  <2> DEFINE n == OrElse(cfg["BACKLOG_INTERVAL"], 1)
  <2>1. UNCHANGED <<environ, cfg>> /\ Accepted
    BY <1>9 DEF StartRefresher
  <2>2. /\ parts' = [parts EXCEPT !["refresher"] = n] /\ "refresher" \in Parts
        /\ stage' = IF n > 0 THEN "serving" ELSE "panicked"
    BY <1>9 DEF StartRefresher, Use, Ticking, Parts
  <2>3. Honours("BACKLOG_INTERVAL", n)
    <3>1. "BACKLOG_INTERVAL" \in Durations \cup Int32s /\ 1 \in Nat \ {0}
      BY DEF Durations
    <3> QED
      BY <2>1, <3>1, OrElseHonours
  <2> HIDE DEF n
  <2>4. stage' = "serving"
    BY <2>2, <2>3 DEF Honours
  <2>5. parts'["refresher"] = n /\ parts' = [q \in Parts |-> parts'[q]]
    BY <1>4, <2>1, <2>2
  <2>6. RefresherRuns'
    BY <2>1, <2>3, <2>5 DEF RefresherRuns, Honours
  <2> QED
    BY <1>1, <1>4, <2>1, <2>2, <2>4, <2>5, <2>6
<1>10. CASE UNCHANGED cfgVars
  BY <1>1, <1>2, <1>10 DEF cfgVars
<1> QED
  BY <1>3, <1>5, <1>6, <1>7, <1>8, <1>9, <1>10 DEF CfgNext

(* Whatever the environment holds, the process refuses to start or every part  *)
(* it starts can run, with the numbers the operator set wherever those can be  *)
(* used (config.go and the constructors).                                      *)
THEOREM ConfigAlwaysRunnable == CfgSpec => []ConfigIsRunnable
<1>1. CfgInit => CfgInv
  BY DEF CfgInit, CfgInv, Parts, WorkerRuns, RefresherRuns, SamplerRuns, PoolRuns, TracerRuns
<1>2. CfgInv => ConfigIsRunnable
  BY DEF CfgInv, ConfigIsRunnable, WorkerRuns, RefresherRuns, SamplerRuns, PoolRuns, TracerRuns, Honours
<1> QED
  BY <1>1, <1>2, CfgStep, PTL DEF CfgSpec
-----------------------------------------------------------------------------
(* LoadGen.                                                                    *)

Kinds  == {"create", "get", "list", "slow_query", "get_missing_404", "unknown_path_404",
           "bad_payload_422", "bad_uuid_400"}
Jobs   == [kind : Kinds \cup {"none"}, id : Nat, code : Nat]
Places == {"pull", "pick", "request", "record", "add", "exited"}

LoadTyped ==
    /\ fired \in Nat /\ buffered \in Nat /\ dropped \in Nat /\ created \in Nat /\ next \in Nat
    /\ ended \in BOOLEAN
    /\ main \in {"loop", "waiting", "printed"}
    /\ worker \in [Clients -> Places]
    /\ job \in [Clients -> Jobs]
    /\ buf \in Seq(Nat) /\ added \in Seq(Nat)
    /\ results.count \in Nat

InHand == {w \in Clients : worker[w] \in {"pick", "request", "record"}}

\* The account of the ticks, and why nothing is left of them when main prints.
TickInv ==
    /\ fired = dropped + buffered + Cardinality(InHand) + results.count
    /\ \A w \in Clients : worker[w] = "exited" => buffered = 0 /\ main # "loop"
    /\ main = "printed" => fired = report.total + report.dropped

\* The ring is the last of what was added, turned by next places.
Turned ==
    /\ Len(buf) = IF Len(added) < RingCap THEN Len(added) ELSE RingCap
    /\ next < RingCap /\ (Len(buf) < RingCap => next = 0)
    /\ \A j \in 1..(Len(buf) - next) : buf[next + j] = added[Len(added) - Len(buf) + j]
    /\ \A j \in 1..next : buf[j] = added[Len(added) - next + j]

\* Every ID in the ring, or on its way there, is an order that exists.
JobIsReal(w) ==
    /\ worker[w] \in {"request", "record"} => job[w].kind \in Kinds
    /\ worker[w] = "request" /\ job[w].kind = "get" => job[w].id \in 1..created
    /\ worker[w] = "record" => ~(job[w].kind = "get" /\ job[w].code = 404)
    /\ worker[w] = "record" /\ job[w].code = 201 => job[w].id \in 1..created
    /\ worker[w] = "add" => job[w].id \in 1..created

IdsExist ==
    /\ \A i \in 1..Len(added) : added[i] \in 1..created
    /\ \A w \in Clients : JobIsReal(w)
    /\ <<"get", 404>> \notin results.seen

LoadInv == LoadTyped /\ TickInv /\ Turned /\ IdsExist

(* The requests in hand are finitely many, and a worker that takes one or ends *)
(* one changes their number by one.                                            *)
LEMMA InHandMoves ==
    ASSUME LoadTyped, NEW w \in Clients, NEW place \in Places, worker' = [worker EXCEPT ![w] = place]
    PROVE  /\ IsFiniteSet(InHand) /\ Cardinality(InHand) \in Nat
           /\ LET was == worker[w] \in {"pick", "request", "record"}
                  is  == place \in {"pick", "request", "record"}
              IN  Cardinality(InHand') = IF is /\ ~was THEN Cardinality(InHand) + 1
                                         ELSE IF was /\ ~is THEN Cardinality(InHand) - 1
                                         ELSE Cardinality(InHand)
<1>1. IsFiniteSet(InHand) /\ Cardinality(InHand) \in Nat
  <2>1. InHand \subseteq Clients
    BY DEF InHand
  <2> QED
    BY <2>1, ClientsAssumption, FS_Subset, FS_CardinalityType
<1>2. worker'[w] = place /\ \A v \in Clients \ {w} : worker'[v] = worker[v]
  BY DEF LoadTyped
<1>3. InHand' = IF place \in {"pick", "request", "record"} THEN InHand \cup {w} ELSE InHand \ {w}
  BY <1>2 DEF InHand
<1>4. w \in InHand <=> worker[w] \in {"pick", "request", "record"}
  BY DEF InHand
<1>5. Cardinality(InHand \cup {w}) = IF w \in InHand THEN Cardinality(InHand) ELSE Cardinality(InHand) + 1
  BY <1>1, FS_AddElement
<1>6. Cardinality(InHand \ {w}) = IF w \in InHand THEN Cardinality(InHand) - 1 ELSE Cardinality(InHand)
  BY <1>1, FS_RemoveElement
<1> QED
  BY <1>1, <1>3, <1>4, <1>5, <1>6

(* Putting an ID into the ring replaces the oldest one there. *)
LEMMA PutTurns ==
    ASSUME LoadTyped, Turned, NEW id \in Nat, Put(id), added' = Append(added, id)
    PROVE  Turned' /\ buf' \in Seq(Nat) /\ added' \in Seq(Nat) /\ next' \in Nat
<1> USE RingAssumption
<1> DEFINE n == Len(added)
           L == Len(buf)
<1>1. /\ n \in Nat /\ L \in Nat /\ next \in Nat /\ L = (IF n < RingCap THEN n ELSE RingCap)
      /\ next < RingCap /\ (L < RingCap => next = 0) /\ RingCap \in Nat /\ RingCap > 0
  BY DEF Turned, LoadTyped
<1>2. /\ added' \in Seq(Nat) /\ Len(added') = n + 1 /\ added'[n + 1] = id
      /\ \A i \in 1..n : added'[i] = added[i]
  BY DEF LoadTyped
<1>3. \A j \in 1..(L - next) : buf[next + j] = added[n - L + j]
  BY DEF Turned
<1>4. \A j \in 1..next : buf[j] = added[n - next + j]
  BY DEF Turned
<1>5. CASE L < RingCap
  <2>1. buf' = Append(buf, id) /\ next' = next /\ next = 0 /\ n = L
    BY <1>1, <1>5 DEF Put
  <2>2. buf' \in Seq(Nat) /\ Len(buf') = L + 1 /\ buf'[L + 1] = id /\ \A i \in 1..L : buf'[i] = buf[i]
    BY <2>1 DEF LoadTyped
  <2>3. \A i \in 1..L : buf[i] = added[i]
    <3> HIDE DEF n, L
    <3> TAKE i \in 1..L
    <3>1. i \in 1..(L - next) /\ next + i = i /\ n - L + i = i
      BY <1>1, <2>1
    <3> QED
      BY <1>3, <3>1
  <2> HIDE DEF n, L
  <2>4. Len(buf') = IF Len(added') < RingCap THEN Len(added') ELSE RingCap
    BY <1>1, <1>2, <1>5, <2>1, <2>2
  <2>5. \A j \in 1..(L + 1) : buf'[j] = added'[j]
    <3> TAKE j \in 1..(L + 1)
    <3>1. CASE j = L + 1
      BY <1>2, <2>1, <2>2, <3>1
    <3>2. CASE j \in 1..L
      BY <1>2, <2>1, <2>2, <2>3, <3>2
    <3>3. j = L + 1 \/ j \in 1..L
      BY <1>1
    <3> QED
      BY <3>1, <3>2, <3>3
  <2>6. \A j \in 1..(Len(buf') - next') : buf'[next' + j] = added'[Len(added') - Len(buf') + j]
    <3> TAKE j \in 1..(Len(buf') - next')
    <3>1. j \in 1..(L + 1) /\ next' + j = j /\ Len(added') - Len(buf') + j = j
      BY <1>1, <1>2, <2>1, <2>2
    <3> QED
      BY <2>5, <3>1
  <2>7. next' < RingCap /\ next' = 0 /\ \A j \in 1..next' : buf'[j] = added'[Len(added') - next' + j]
    BY <1>1, <2>1
  <2> QED
    BY <1>2, <2>2, <2>4, <2>6, <2>7 DEF Turned
<1>6. CASE ~(L < RingCap)
  <2>1. L = RingCap /\ n >= RingCap
    BY <1>1, <1>6
  <2>2. buf' = [buf EXCEPT ![next + 1] = id] /\ next' = (next + 1) % RingCap
    BY <1>6 DEF Put
  <2>3. next' = IF next + 1 = RingCap THEN 0 ELSE next + 1
    BY <1>1, <2>2
  <2>4. next + 1 \in 1..L
    BY <1>1, <2>1
  <2>5. buf' \in Seq(Nat) /\ Len(buf') = L /\ \A i \in 1..L : buf'[i] = IF i = next + 1 THEN id ELSE buf[i]
    BY <2>2, <2>4 DEF LoadTyped
  <2> HIDE DEF n, L
  <2>6. ASSUME NEW j \in 1..(RingCap - next - 1)
        PROVE  buf'[next + 1 + j] = added'[n + 1 - RingCap + j]
    <3>1. /\ j + 1 \in 1..(L - next) /\ next + (j + 1) = next + 1 + j /\ next + 1 + j \in 1..L
          /\ next + 1 + j # next + 1 /\ n - L + (j + 1) = n + 1 - RingCap + j
          /\ n + 1 - RingCap + j \in 1..n
      BY <1>1, <2>1
    <3>2. buf[next + (j + 1)] = added[n - L + (j + 1)]
      BY <1>3, <3>1
    <3> QED
      BY <1>2, <2>5, <3>1, <3>2
  <2>7. ASSUME NEW j \in 1..(next + 1)
        PROVE  buf'[j] = added'[n - next + j]
    <3>1. CASE j = next + 1
      <4>1. n - next + j = n + 1
        BY <1>1, <3>1
      <4> QED
        BY <1>2, <2>4, <2>5, <3>1, <4>1
    <3>2. CASE j \in 1..next
      <4>1. j \in 1..L /\ j # next + 1 /\ n - next + j \in 1..n
        BY <1>1, <2>1, <3>2
      <4> QED
        BY <1>2, <1>4, <2>5, <3>2, <4>1
    <3>3. j = next + 1 \/ j \in 1..next
      BY <1>1
    <3> QED
      BY <3>1, <3>2, <3>3
  <2>8. Len(buf') = RingCap /\ ~(Len(added') < RingCap) /\ Len(added') = n + 1
    BY <1>1, <1>2, <2>1, <2>5
  <2>9. CASE next + 1 = RingCap
    <3>1. next' = 0
      BY <2>3, <2>9
    <3>2. \A j \in 1..(Len(buf') - next') : buf'[next' + j] = added'[Len(added') - Len(buf') + j]
      <4> TAKE j \in 1..(Len(buf') - next')
      <4>1. j \in 1..(next + 1) /\ next' + j = j /\ Len(added') - Len(buf') + j = n - next + j
        BY <1>1, <2>8, <2>9, <3>1
      <4> QED
        BY <2>7, <4>1
    <3>3. next' < RingCap /\ \A j \in 1..next' : buf'[j] = added'[Len(added') - next' + j]
      BY <1>1, <3>1
    <3>4. next' \in Nat /\ ~(Len(buf') < RingCap)
      BY <1>1, <2>8, <3>1
    <3> QED
      BY <1>2, <2>5, <2>8, <3>2, <3>3, <3>4 DEF Turned
  <2>10. CASE next + 1 # RingCap
    <3>1. next' = next + 1 /\ next' < RingCap
      BY <1>1, <2>3, <2>10
    <3>2. \A j \in 1..(Len(buf') - next') : buf'[next' + j] = added'[Len(added') - Len(buf') + j]
      <4> TAKE j \in 1..(Len(buf') - next')
      <4>1. j \in 1..(RingCap - next - 1) /\ Len(added') - Len(buf') + j = n + 1 - RingCap + j
        BY <1>1, <2>8, <3>1
      <4> QED
        BY <2>6, <3>1, <4>1
    <3>3. \A j \in 1..next' : buf'[j] = added'[Len(added') - next' + j]
      <4> TAKE j \in 1..next'
      <4>1. j \in 1..(next + 1) /\ Len(added') - next' + j = n - next + j
        BY <1>1, <2>8, <3>1
      <4> QED
        BY <2>7, <4>1
    <3>4. next' \in Nat /\ ~(Len(buf') < RingCap)
      BY <1>1, <2>8, <3>1
    <3> QED
      BY <1>2, <2>5, <2>8, <3>1, <3>2, <3>3, <3>4 DEF Turned
  <2> QED
    BY <2>9, <2>10
<1> QED
  BY <1>5, <1>6

(* A turned ring holds exactly the end of what was added. *)
LEMMA RingIsEnd ==
    ASSUME LoadTyped, Turned, IdsExist
    PROVE  /\ ToSet(buf) = {added[i] : i \in (Len(added) - Len(buf) + 1)..Len(added)}
           /\ \A i \in DOMAIN buf : buf[i] \in 1..created
<1> DEFINE n == Len(added)
           L == Len(buf)
<1>1. /\ n \in Nat /\ L \in Nat /\ next \in Nat /\ L <= n /\ next <= L
      /\ DOMAIN buf = 1..L
  BY RingAssumption DEF Turned, LoadTyped
<1>2. \A j \in 1..(L - next) : buf[next + j] = added[n - L + j]
  BY DEF Turned
<1>3. \A j \in 1..next : buf[j] = added[n - next + j]
  BY DEF Turned
<1>4. \A i \in 1..n : added[i] \in 1..created
  BY DEF IdsExist
<1> HIDE DEF n, L
<1>5. \A k \in 1..L : \E i \in (n - L + 1)..n : buf[k] = added[i]
  <2> TAKE k \in 1..L
  <2>1. CASE k <= next
    <3>1. k \in 1..next /\ n - next + k \in (n - L + 1)..n
      BY <1>1, <2>1
    <3> QED
      BY <1>3, <3>1
  <2>2. CASE k > next
    <3>1. k - next \in 1..(L - next) /\ next + (k - next) = k /\ n - L + (k - next) \in (n - L + 1)..n
      BY <1>1, <2>2
    <3> QED
      BY <1>2, <3>1
  <2>3. k <= next \/ k > next
    BY <1>1
  <2> QED
    BY <2>1, <2>2, <2>3
<1>6. \A i \in (n - L + 1)..n : \E k \in 1..L : buf[k] = added[i]
  <2> TAKE i \in (n - L + 1)..n
  <2>1. CASE i <= n - next
    <3>1. i - (n - L) \in 1..(L - next) /\ n - L + (i - (n - L)) = i /\ next + (i - (n - L)) \in 1..L
      BY <1>1, <2>1
    <3> QED
      BY <1>2, <3>1
  <2>2. CASE i > n - next
    <3>1. i - (n - next) \in 1..next /\ n - next + (i - (n - next)) = i /\ i - (n - next) \in 1..L
      BY <1>1, <2>2
    <3> QED
      BY <1>3, <3>1
  <2>3. i <= n - next \/ i > n - next
    BY <1>1
  <2> QED
    BY <2>1, <2>2, <2>3
<1>7. ToSet(buf) = {added[i] : i \in (n - L + 1)..n}
  <2>1. ToSet(buf) = {buf[k] : k \in 1..L}
    BY <1>1 DEF ToSet
  <2>2. {buf[k] : k \in 1..L} \subseteq {added[i] : i \in (n - L + 1)..n}
    BY <1>5
  <2>3. {added[i] : i \in (n - L + 1)..n} \subseteq {buf[k] : k \in 1..L}
    BY <1>6
  <2> QED
    BY <2>1, <2>2, <2>3
<1>8. (n - L + 1)..n \subseteq 1..n
  BY <1>1
<1>9. \A k \in 1..L : buf[k] \in 1..created
  BY <1>4, <1>5, <1>8
<1> QED
  BY <1>1, <1>7, <1>9 DEF n, L

(* Every step of main and of the workers keeps it. *)
LEMMA LoadStep == LoadInv /\ [LoadNext]_loadVars => LoadInv'
<1> SUFFICES ASSUME LoadInv, [LoadNext]_loadVars PROVE LoadInv'
  OBVIOUS
<1> USE DEF LoadInv
<1>0. IsFiniteSet(InHand) /\ Cardinality(InHand) \in Nat
  <2>1. InHand \subseteq Clients
    BY DEF InHand
  <2> QED
    BY <2>1, ClientsAssumption, FS_Subset, FS_CardinalityType
<1>1. ASSUME UNCHANGED ringVars PROVE Turned'
  BY <1>1 DEF ringVars, Turned
<1>2. ASSUME UNCHANGED <<worker, job, added, created, results>> PROVE IdsExist'
  BY <1>2 DEF IdsExist, JobIsReal
<1>3. ASSUME UNCHANGED worker PROVE InHand' = InHand
  BY <1>3 DEF InHand
<1>4. CASE Tick
  <2>1. /\ main = "loop" /\ fired' = fired + 1
        /\ UNCHANGED <<ended, main, worker, job, ringVars, created, results, report>>
    BY <1>4 DEF Tick
  <2>2. \/ buffered' = buffered + 1 /\ dropped' = dropped
        \/ dropped' = dropped + 1 /\ buffered' = buffered
    BY <1>4 DEF Tick
  <2>3. LoadTyped'
    BY <2>1, <2>2 DEF LoadTyped, ringVars
  <2>4. fired' = dropped' + buffered' + Cardinality(InHand)' + results'.count
    BY <1>0, <1>3, <2>1, <2>2 DEF TickInv, LoadTyped
  <2>5. TickInv'
    BY <2>1, <2>4 DEF TickInv
  <2> QED
    BY <1>1, <1>2, <2>1, <2>3, <2>5 DEF ringVars
<1>5. CASE Expire
  <2>1. ended' = TRUE /\ UNCHANGED <<mainVars, worker, job, ringVars, created, results>>
    BY <1>5 DEF Expire
  <2>2. LoadTyped' /\ TickInv'
    BY <1>3, <2>1 DEF LoadTyped, TickInv, mainVars, ringVars
  <2> QED
    BY <1>1, <1>2, <2>1, <2>2 DEF ringVars
<1>6. CASE Stop
  <2>1. /\ main = "loop" /\ main' = "waiting"
        /\ UNCHANGED <<fired, buffered, dropped, ended, worker, job, ringVars, created, results, report>>
    BY <1>6 DEF Stop
  <2>2. LoadTyped' /\ TickInv'
    BY <1>3, <2>1 DEF LoadTyped, TickInv, ringVars
  <2> QED
    BY <1>1, <1>2, <2>1, <2>2 DEF ringVars
<1>7. CASE WaitAndPrint
  <2>1. /\ main = "waiting" /\ main' = "printed" /\ \A w \in Clients : worker[w] = "exited"
        /\ report' = [total |-> results.count, dropped |-> dropped]
        /\ UNCHANGED <<fired, buffered, dropped, ended, worker, job, ringVars, created, results>>
    BY <1>7 DEF WaitAndPrint
  <2>2. LoadTyped'
    BY <2>1 DEF LoadTyped, ringVars
  <2>3. buffered = 0
    BY <2>1, ClientsAssumption DEF TickInv
  <2>4. InHand = {}
    BY <2>1 DEF InHand
  <2>5. fired = dropped + results.count
    BY <2>3, <2>4, FS_EmptySet DEF TickInv, LoadTyped
  <2>6. report'.total = results.count /\ report'.dropped = dropped
    BY <2>1
  <2>7. TickInv'
    <3>1. fired' = report'.total + report'.dropped
      BY <2>1, <2>5, <2>6 DEF LoadTyped
    <3> QED
      BY <1>3, <2>1, <3>1 DEF TickInv
  <2> QED
    BY <1>1, <1>2, <2>1, <2>2, <2>7 DEF ringVars
<1>8. ASSUME NEW w \in Clients, NEW place \in Places, worker' = [worker EXCEPT ![w] = place]
      PROVE  worker'[w] = place /\ (\A v \in Clients \ {w} : worker'[v] = worker[v])
             /\ worker' \in [Clients -> Places]
  BY <1>8 DEF LoadTyped
\* A step of worker w: what the others have in hand stays real.
<1>9. ASSUME NEW w \in Clients, 1..created \subseteq 1..created', UNCHANGED <<added, results>>, JobIsReal(w)',
             \A v \in Clients \ {w} : worker'[v] = worker[v] /\ job'[v] = job[v]
      PROVE  IdsExist'
  <2>1. \A i \in 1..Len(added') : added'[i] \in 1..created'
    BY <1>9 DEF IdsExist
  <2>2. \A v \in Clients \ {w} : JobIsReal(v)'
    BY <1>9 DEF IdsExist, JobIsReal
  <2> QED
    BY <1>9, <2>1, <2>2 DEF IdsExist
<1>10. ASSUME NEW w \in Clients, Pull(w) PROVE LoadInv'
  <2>1. worker[w] = "pull" /\ UNCHANGED <<fired, dropped, ended, main, job, ringVars, created, results, report>>
    BY <1>10 DEF Pull
  <2>2. CASE buffered > 0 /\ buffered' = buffered - 1 /\ Walk(w, "pick")
    <3>1. worker' = [worker EXCEPT ![w] = "pick"] /\ "pick" \in Places
      BY <2>2 DEF Walk, Places
    <3>2. Cardinality(InHand') = Cardinality(InHand) + 1
      BY <2>1, <3>1, InHandMoves
    <3>3. LoadTyped'
      BY <1>8, <2>1, <2>2, <3>1 DEF LoadTyped, ringVars
    <3>4. fired' = dropped' + buffered' + Cardinality(InHand)' + results'.count
      BY <1>0, <2>1, <2>2, <3>2 DEF TickInv, LoadTyped
    <3>5. TickInv'
      BY <1>8, <2>1, <2>2, <3>1, <3>4 DEF TickInv, LoadTyped
    <3>6. IdsExist'
      BY <1>8, <2>1, <3>1 DEF IdsExist, JobIsReal, ringVars
    <3> QED
      BY <1>1, <2>1, <3>3, <3>5, <3>6
  <2>3. CASE buffered = 0 /\ main = "waiting" /\ Walk(w, "exited") /\ UNCHANGED buffered
    <3>1. worker' = [worker EXCEPT ![w] = "exited"] /\ "exited" \in Places
      BY <2>3 DEF Walk, Places
    <3>2. Cardinality(InHand') = Cardinality(InHand)
      BY <2>1, <3>1, InHandMoves
    <3>3. LoadTyped'
      BY <1>8, <2>1, <2>3, <3>1 DEF LoadTyped, ringVars
    <3>4. fired' = dropped' + buffered' + Cardinality(InHand)' + results'.count
      BY <1>0, <2>1, <2>3, <3>2 DEF TickInv, LoadTyped
    <3>5. TickInv'
      BY <1>8, <2>1, <2>3, <3>1, <3>4 DEF TickInv, LoadTyped
    <3>6. IdsExist'
      BY <1>8, <2>1, <3>1 DEF IdsExist, JobIsReal, ringVars
    <3> QED
      BY <1>1, <2>1, <3>3, <3>5, <3>6
  <2> QED
    BY <1>10, <2>2, <2>3 DEF Pull
<1>11. ASSUME NEW w \in Clients, NEW j \in Jobs, NEW place \in Places, job' = [job EXCEPT ![w] = j]
       PROVE  /\ job'[w] = j /\ (\A v \in Clients \ {w} : job'[v] = job[v])
              /\ job' \in [Clients -> Jobs]
  BY <1>11 DEF LoadTyped
\* A worker that goes from one request place to another holds its tick.
<1>12. ASSUME NEW w \in Clients, NEW place \in {"request", "record"}, worker' = [worker EXCEPT ![w] = place],
              worker[w] \in {"pick", "request"}, UNCHANGED mainVars, results' = results
       PROVE  TickInv'
  <2>1. place \in Places
    BY DEF Places
  <2>2. Cardinality(InHand') = Cardinality(InHand)
    BY <1>12, <2>1, InHandMoves
  <2> QED
    BY <1>8, <1>12, <2>1, <2>2 DEF TickInv, mainVars
<1>13. ASSUME NEW w \in Clients, Pick(w) PROVE LoadInv'
  <2>1. /\ worker[w] = "pick" /\ worker' = [worker EXCEPT ![w] = "request"] /\ "request" \in Places
        /\ UNCHANGED <<mainVars, ended, ringVars, created, results>>
    BY <1>13 DEF Pick, Walk, Places
  <2>2. PICK kind \in Mix : \E j \in Draw(kind) : job' = [job EXCEPT ![w] = j]
    BY <1>13 DEF Pick
  <2>3. PICK j \in Draw(kind) : job' = [job EXCEPT ![w] = j]
    BY <2>2
  <2>4. kind \in Kinds
    BY MixAssumption DEF Kinds
  <2>5. j \in Jobs /\ j.kind \in Kinds /\ (j.kind = "get" => j.id \in 1..created)
    <3>1. CASE kind # "get"
      <4>1. j = [NoJob EXCEPT !.kind = kind]
        BY <2>3, <3>1 DEF Draw
      <4> QED
        BY <2>4, <3>1, <4>1 DEF NoJob, Jobs
    <3>2. CASE kind = "get" /\ buf = <<>>
      <4>1. j = [NoJob EXCEPT !.kind = "create"]
        BY <2>3, <3>2 DEF Draw
      <4> QED
        BY <4>1 DEF NoJob, Jobs, Kinds
    <3>3. CASE kind = "get" /\ buf # <<>>
      <4>1. PICK i \in DOMAIN buf : j = [NoJob EXCEPT !.kind = "get", !.id = buf[i]]
        BY <2>3, <3>3 DEF Draw
      <4>2. buf[i] \in Nat /\ buf[i] \in 1..created
        BY RingIsEnd DEF LoadTyped
      <4>3. j = [kind |-> "get", id |-> buf[i], code |-> 0]
        BY <4>1 DEF NoJob
      <4> QED
        BY <4>2, <4>3 DEF Jobs, Kinds
    <3> QED
      BY <3>1, <3>2, <3>3
  <2>6. LoadTyped'
    BY <1>8, <1>11, <2>1, <2>3, <2>5 DEF LoadTyped, mainVars, ringVars
  <2>7. TickInv'
    BY <1>12, <2>1
  <2>8. IdsExist'
    <3>0. worker'[w] = "request" /\ job'[w] = j
      BY <2>1, <2>3 DEF LoadTyped
    <3>1. JobIsReal(w)'
      BY <2>1, <2>5, <3>0 DEF JobIsReal
    <3> QED
      BY <1>8, <1>11, <1>9, <2>1, <2>3, <2>5, <3>1 DEF ringVars
  <2> QED
    BY <1>1, <2>1, <2>6, <2>7, <2>8
<1>14. ASSUME NEW w \in Clients, Reply(w) PROVE LoadInv'
  <2>1. /\ worker[w] = "request" /\ worker' = [worker EXCEPT ![w] = "record"] /\ "record" \in Places
        /\ UNCHANGED <<mainVars, ended, ringVars, results>>
    BY <1>14 DEF Reply, Walk, Places
  <2>2. PICK code \in Replies(job[w]) :
          /\ created' = IF code = 201 THEN created + 1 ELSE created
          /\ job' = [job EXCEPT ![w].code = code, ![w].id = IF code = 201 THEN created' ELSE @]
    BY <1>14 DEF Reply
  <2>3. job[w] \in Jobs /\ job[w].kind \in Kinds
    BY <2>1 DEF LoadTyped, IdsExist, JobIsReal
  <2>4. code \in Nat /\ (job[w].kind = "get" => code # 404 /\ code # 201)
    <3>1. CASE job[w].kind = "get"
      <4>1. job[w].id <= created
        BY <2>1, <3>1 DEF IdsExist, JobIsReal, LoadTyped
      <4>2. Replies(job[w]) = {200, 500}
        BY <3>1, <4>1 DEF Replies
      <4> QED
        BY <4>2
    <3>2. CASE job[w].kind # "get"
      <4>1. Replies(job[w]) \subseteq {200, 201, 400, 404, 422, 500}
        BY <2>3, <3>2 DEF Replies, Kinds
      <4> QED
        BY <3>2, <4>1
    <3> QED
      BY <3>1, <3>2
  <2> DEFINE p == [job[w] EXCEPT !.code = code]
             q == [p EXCEPT !.id = IF code = 201 THEN created' ELSE @]
  <2>5. created' \in Nat /\ created' >= created
    BY <2>2 DEF LoadTyped
  <2>6. p \in Jobs /\ p.kind = job[w].kind /\ p.code = code /\ p.id = job[w].id
    BY <2>3, <2>4 DEF Jobs
  <2>7. job' = [job EXCEPT ![w] = q]
    BY <2>2 DEF LoadTyped
  <2> HIDE DEF p
  <2>8. /\ q \in Jobs /\ q.kind = job[w].kind /\ q.code = code
        /\ code = 201 => q.id = created'
    BY <2>5, <2>6 DEF Jobs
  <2> HIDE DEF q
  <2>9. /\ job'[w] = q /\ (\A v \in Clients \ {w} : job'[v] = job[v])
        /\ job' \in [Clients -> Jobs]
    BY <2>7, <2>8 DEF LoadTyped
  <2>10. LoadTyped'
    BY <1>8, <2>1, <2>5, <2>9 DEF LoadTyped, mainVars, ringVars
  <2>11. code = 201 => q.id \in 1..created'
    BY <2>2, <2>5, <2>8 DEF LoadTyped
  <2>12. 1..created \subseteq 1..created'
    BY <2>5 DEF LoadTyped
  <2>13. IdsExist'
    <3>0. worker'[w] = "record"
      BY <2>1 DEF LoadTyped
    <3>1. JobIsReal(w)'
      BY <2>3, <2>4, <2>8, <2>9, <2>11, <3>0 DEF JobIsReal
    <3> QED
      BY <1>8, <1>9, <2>1, <2>9, <2>12, <3>1 DEF ringVars
  <2>14. TickInv'
    BY <1>12, <2>1
  <2> QED
    BY <1>1, <2>1, <2>10, <2>13, <2>14
<1>15. ASSUME NEW w \in Clients, Unanswered(w) PROVE LoadInv'
  <2>1. /\ worker[w] = "request" /\ worker' = [worker EXCEPT ![w] = "record"] /\ "record" \in Places
        /\ UNCHANGED <<mainVars, ended, ringVars, results>>
    BY <1>15 DEF Unanswered, Walk, Places
  <2>2. created' \in Nat /\ created' >= created
    BY <1>15 DEF Unanswered, LoadTyped
  <2> DEFINE p == [job[w] EXCEPT !.code = 0]
  <2>3. job[w] \in Jobs /\ job[w].kind \in Kinds
    BY <2>1 DEF LoadTyped, IdsExist, JobIsReal
  <2>4. p \in Jobs /\ p.kind = job[w].kind /\ p.code = 0
    BY <2>3 DEF Jobs
  <2>5. job' = [job EXCEPT ![w] = p]
    BY <1>15 DEF Unanswered
  <2> HIDE DEF p
  <2>6. /\ job'[w] = p /\ (\A v \in Clients \ {w} : job'[v] = job[v])
        /\ job' \in [Clients -> Jobs]
    BY <2>4, <2>5 DEF LoadTyped
  <2>7. LoadTyped'
    BY <1>8, <2>1, <2>2, <2>6 DEF LoadTyped, mainVars, ringVars
  <2>8. 1..created \subseteq 1..created'
    BY <2>2 DEF LoadTyped
  <2>9. IdsExist'
    <3>0. worker'[w] = "record"
      BY <2>1 DEF LoadTyped
    <3>1. JobIsReal(w)'
      BY <2>3, <2>4, <2>6, <3>0 DEF JobIsReal
    <3> QED
      BY <1>8, <1>9, <2>1, <2>6, <2>8, <3>1 DEF ringVars
  <2>10. TickInv'
    BY <1>12, <2>1
  <2> QED
    BY <1>1, <2>1, <2>7, <2>9, <2>10
<1>16. ASSUME NEW w \in Clients, RecordResult(w) PROVE LoadInv'
  <2>1. worker[w] = "record" /\ UNCHANGED <<mainVars, ended, job, ringVars, created>>
    BY <1>16 DEF RecordResult
  <2>2. results'.count = results.count + 1 /\ results'.seen = results.seen \cup {<<job[w].kind, job[w].code>>}
    BY <1>16 DEF RecordResult
  <2>3. PICK place \in {"add", "pull"} :
          /\ worker' = [worker EXCEPT ![w] = place]
          /\ place = "add" => job[w].code = 201
    BY <1>16 DEF RecordResult, Walk
  <2>4. place \in Places
    BY <2>3 DEF Places
  <2>5. Cardinality(InHand') = Cardinality(InHand) - 1
    BY <2>1, <2>3, <2>4, InHandMoves
  <2>6. LoadTyped'
    BY <1>8, <2>1, <2>2, <2>3, <2>4 DEF LoadTyped, mainVars, ringVars
  <2>7. fired' = dropped' + buffered' + Cardinality(InHand)' + results'.count
    BY <1>0, <2>1, <2>2, <2>5 DEF TickInv, LoadTyped, mainVars
  <2>8. TickInv'
    BY <1>8, <2>1, <2>3, <2>4, <2>7 DEF TickInv, mainVars
  <2>9. <<"get", 404>> \notin results'.seen
    BY <2>1, <2>2 DEF IdsExist, JobIsReal
  <2>10. IdsExist'
    BY <1>8, <2>1, <2>3, <2>4, <2>9 DEF IdsExist, JobIsReal, ringVars
  <2> QED
    BY <1>1, <2>1, <2>6, <2>8, <2>10
<1>17. ASSUME NEW w \in Clients, Add(w) PROVE LoadInv'
  <2>1. /\ worker[w] = "add" /\ worker' = [worker EXCEPT ![w] = "pull"] /\ "pull" \in Places
        /\ UNCHANGED <<mainVars, ended, job, created, results>>
    BY <1>17 DEF Add, Walk, Places
  <2>2. Cardinality(InHand') = Cardinality(InHand)
    BY <2>1, InHandMoves
  <2>3. TickInv'
    BY <1>8, <2>1, <2>2 DEF TickInv, mainVars
  <2>4. job[w].id \in 1..created /\ job[w].id \in Nat
    BY <2>1 DEF IdsExist, JobIsReal, LoadTyped
  <2>5. CASE UNCHANGED ringVars
    <3>1. LoadTyped' /\ IdsExist'
      BY <1>8, <2>1, <2>5 DEF LoadTyped, IdsExist, JobIsReal, ringVars, mainVars
    <3> QED
      BY <1>1, <2>3, <2>5, <3>1
  <2>6. CASE Put(job[w].id) /\ added' = Append(added, job[w].id)
    <3>1. Turned' /\ buf' \in Seq(Nat) /\ added' \in Seq(Nat) /\ next' \in Nat
      BY <2>4, <2>6, PutTurns
    <3>2. LoadTyped'
      BY <1>8, <2>1, <3>1 DEF LoadTyped, mainVars
    <3>3. \A i \in 1..Len(added') : added'[i] \in 1..created
      BY <2>4, <2>6 DEF IdsExist, JobIsReal, LoadTyped
    <3>4. IdsExist'
      BY <1>8, <2>1, <3>3 DEF IdsExist, JobIsReal
    <3> QED
      BY <2>3, <3>1, <3>2, <3>4
  <2> QED
    BY <1>17, <2>5, <2>6 DEF Add
<1>18. CASE UNCHANGED loadVars
  BY <1>1, <1>2, <1>3, <1>18 DEF loadVars, LoadTyped, TickInv, ringVars
<1> QED
  BY <1>4, <1>5, <1>6, <1>7, <1>10, <1>13, <1>14, <1>15, <1>16, <1>17, <1>18 DEF LoadNext, ClientStep

(* A load generator starts with nothing in hand. *)
LEMMA LoadStart == LoadInit => LoadInv
<1> SUFFICES ASSUME LoadInit PROVE LoadInv
  OBVIOUS
<1>1. LoadTyped
  <2>1. NoJob \in Jobs /\ "pull" \in Places
    BY DEF NoJob, Jobs, Places
  <2>2. worker \in [Clients -> Places] /\ job \in [Clients -> Jobs]
    BY <2>1 DEF LoadInit
  <2>3. buf \in Seq(Nat) /\ added \in Seq(Nat) /\ results.count \in Nat
    BY DEF LoadInit
  <2> QED
    BY <2>2, <2>3 DEF LoadInit, LoadTyped
<1>2. InHand = {}
  BY DEF LoadInit, InHand
<1>3. TickInv
  BY <1>2, FS_EmptySet DEF LoadInit, TickInv
<1>4. Turned
  BY RingAssumption DEF LoadInit, Turned
<1>5. IdsExist
  BY DEF LoadInit, IdsExist, JobIsReal
<1> QED
  BY <1>1, <1>3, <1>4, <1>5 DEF LoadInv

(* Every tick is dropped and counted or becomes one recorded request, for any  *)
(* number of workers and any rate: what is printed adds up (loadgen/main.go).  *)
THEOREM TicksAlwaysAccounted == LoadSpec => []TicksAccounted
<1>1. LoadInv => TicksAccounted
  BY DEF LoadInv, TickInv, TicksAccounted, InHand
<1> QED
  BY <1>1, LoadStart, LoadStep, PTL DEF LoadSpec

(* The ring holds the last IDs that were added, each an order that exists, and *)
(* no get of one is answered 404, for every capacity (idRing).                 *)
THEOREM RingAlwaysLatest == LoadSpec => []RingHoldsLatest
<1>1. LoadInv => RingHoldsLatest
  <2> SUFFICES ASSUME LoadInv PROVE RingHoldsLatest
    OBVIOUS
  <2>1. LoadTyped /\ Turned /\ IdsExist
    BY DEF LoadInv
  <2>2. /\ ToSet(buf) = {added[i] : i \in (Len(added) - Len(buf) + 1)..Len(added)}
        /\ \A i \in DOMAIN buf : buf[i] \in 1..created
    BY <2>1, RingIsEnd
  <2> QED
    BY <2>1, <2>2 DEF RingHoldsLatest, Turned, IdsExist
<1> QED
  BY <1>1, LoadStart, LoadStep, PTL DEF LoadSpec
=============================================================================
