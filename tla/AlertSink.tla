------------------------------ MODULE AlertSink ------------------------------
(***************************************************************************)
(* cmd/alertsink: concurrent webhook handlers that append to a bounded      *)
(* history under a mutex, and the page that lists it.                       *)
(*                                                                         *)
(* Alertmanager is external: it posts a notification, takes a 200 for       *)
(* delivered and a 400 for hopeless, and posts again when it got no answer. *)
(* So is net/http: a header without a body leaves when the handler returns. *)
(***************************************************************************)
EXTENDS Naturals, Sequences, SequencesExt

CONSTANTS
    Notes,      \* notifications Alertmanager has to deliver
    NamesOf,    \* [Notes -> Seq]: the alertname of each alert in them
    HistoryMax, \* sink.max
    MaxPosts,   \* bound: posts in all
    MaxClock    \* bound: the clock stops here

ASSUME HistoryAssumption == HistoryMax \in Nat \ {0}
ASSUME NamesAssumption   == \A n \in Notes : NamesOf[n] \in Seq(ToSet(NamesOf[n]))

VARIABLES
    clock,
    am,         \* what Alertmanager knows of each notification
    posts,      \* sequence of [note, at (when it was decoded), pc]
    history,    \* sink.history: sequence of [note, at]
    received    \* every record that was ever appended

sinkVars == <<clock, am, posts, history, received>>
-----------------------------------------------------------------------------
(* Alertmanager *)

Post(n) ==
    /\ am[n] = "due" /\ Len(posts) < MaxPosts
    /\ posts' = Append(posts, [note |-> n, at |-> 0, pc |-> "arrived"])
    /\ am' = [am EXCEPT ![n] = "posted"]
    /\ UNCHANGED <<clock, history, received>>

\* The answer to the last post comes back, or never does.
Answered(n) ==
    /\ am[n] = "posted"
    /\ \/ \E i \in DOMAIN posts :
            /\ posts[i].note = n /\ posts[i].pc \in {"done", "rejected"}
            /\ \A j \in DOMAIN posts : posts[j].note = n => j <= i
            /\ am' = [am EXCEPT ![n] = IF posts[i].pc = "done" THEN "delivered" ELSE "hopeless"]
       \/ am' = [am EXCEPT ![n] = "due"]
    /\ UNCHANGED <<clock, posts, history, received>>
-----------------------------------------------------------------------------
(* sink.handle *)

\* Decode, and WriteHeader(200) or a 400.
Decode(i) ==
    /\ posts[i].pc = "arrived"
    /\ \E pc \in {"decoded", "rejected"} :
         posts' = [posts EXCEPT ![i].pc = pc, ![i].at = clock]
    /\ UNCHANGED <<clock, am, history, received>>

\* mutant: the record is stamped before the mutex is taken
NewRecordEarly(i) == [note |-> posts[i].note, at |-> posts[i].at]

NewRecord(i) == [note |-> posts[i].note, at |-> clock]

\* The last HistoryMax records stay.
Trim(h) == IF Len(h) > HistoryMax THEN SubSeq(h, Len(h) - HistoryMax + 1, Len(h)) ELSE h

\* The critical section, and the end of the handler.
Keep(i) ==
    /\ posts[i].pc = "decoded"
    /\ history' = Trim(Append(history, NewRecord(i)))
    /\ received' = Append(received, NewRecord(i))
    /\ posts' = [posts EXCEPT ![i].pc = "done"]
    /\ UNCHANGED <<clock, am>>

\* out[n] is what the loop has kept of the first n names.
dedupe(in) ==
    LET out[n \in 0..Len(in)] ==
            IF n = 0 THEN <<>>
            ELSE IF in[n] \in ToSet(out[n - 1]) THEN out[n - 1] ELSE Append(out[n - 1], in[n])
    IN  out[Len(in)]

\* sink.list under the mutex, newest first.
list == [i \in DOMAIN history |->
            LET r == Reverse(history)[i]
            IN  [note |-> r.note, at |-> r.at, names |-> dedupe(NamesOf[r.note])]]

Passing ==
    /\ clock < MaxClock /\ clock' = clock + 1
    /\ UNCHANGED <<am, posts, history, received>>
-----------------------------------------------------------------------------
SinkInit ==
    /\ clock = 0
    /\ am = [n \in Notes |-> "due"]
    /\ posts = <<>> /\ history = <<>> /\ received = <<>>

SinkNext ==
    \/ \E n \in Notes : Post(n) \/ Answered(n)
    \/ \E i \in DOMAIN posts : Decode(i) \/ Keep(i)
    \/ Passing

SinkSpec == SinkInit /\ [][SinkNext]_sinkVars
-----------------------------------------------------------------------------
(* Properties *)

(* "It also keeps the last N notifications in memory and serves them": with   *)
(* handlers that overtake each other and posts that are repeated, a           *)
(* notification Alertmanager takes for delivered is on the page until         *)
(* HistoryMax newer ones are, the page is newest first by its own timestamps, *)
(* and names every alert once.                                                *)
DeliveredIsListed ==
    /\ \A n \in Notes : am[n] = "delivered" =>
         \E k \in DOMAIN received :
            /\ received[k].note = n
            /\ Len(received) - k < HistoryMax => \E i \in DOMAIN list : list[i].note = n
    /\ Len(list) <= HistoryMax
    /\ \A i, j \in DOMAIN list : i < j => list[i].at >= list[j].at
    /\ \A i \in DOMAIN list :
         /\ ToSet(list[i].names) = ToSet(NamesOf[list[i].note])
         /\ IsInjective(list[i].names)
=============================================================================
