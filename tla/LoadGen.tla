------------------------------- MODULE LoadGen -------------------------------
(***************************************************************************)
(* cmd/loadgen: a ticker that feeds a buffered channel, workers that turn   *)
(* each tick into one request, a ring of recently created IDs they share,   *)
(* and the results printed at the end.                                      *)
(*                                                                         *)
(* The orders API is external.  It numbers the orders it creates, so that   *)
(* an ID is an order that exists iff it is at most `created`.  byKind,      *)
(* byCode and latencies are updated in one critical section: record adds    *)
(* one to one kind's count, under one code, and print sums the counts, so    *)
(* what is kept of them is that sum and the pairs <<kind, code>> they hold.  *)
(***************************************************************************)
EXTENDS Naturals, Sequences, FiniteSets, SequencesExt

CONSTANTS
    Clients,    \* the worker goroutines (-concurrency)
    Rate,       \* -rate, the capacity of the channel
    Mix,        \* the kinds of requests that are drawn
    RingCap,    \* capacity of the ring of IDs
    MaxTicks    \* bound: ticks of the ticker

ASSUME ClientsAssumption == IsFiniteSet(Clients) /\ Clients # {}
ASSUME RateAssumption    == Rate \in Nat \ {0}
ASSUME RingAssumption    == RingCap \in Nat \ {0}
ASSUME MixAssumption     ==
    Mix \subseteq {"create", "get", "list", "slow_query", "get_missing_404", "unknown_path_404",
                   "bad_payload_422", "bad_uuid_400"}

VARIABLES
    fired,      \* ticks main has received from the ticker
    buffered,   \* ticks in the channel
    dropped,    \* ticks that found it full
    ended,      \* ctx is done: a signal, or the end of -duration
    main,       \* "loop", "waiting" (channel closed, wg.Wait) or "printed"
    worker,     \* where each worker is
    job,        \* what it asks for: [kind, id, code]
    buf, next,  \* the ring
    created,    \* orders the API has created
    added,      \* every ID that was put into the ring, in order
    results,    \* [count, seen]: the records made, and the pairs <<kind, code>> in them
    report      \* what print says

loadVars == <<fired, buffered, dropped, ended, main, worker, job, buf, next,
              created, added, results, report>>

mainVars == <<fired, buffered, dropped, main, report>>
ringVars == <<buf, next, added>>

Walk(w, where) == worker' = [worker EXCEPT ![w] = where]

NoJob == [kind |-> "none", id |-> 0, code |-> 0]
-----------------------------------------------------------------------------
(* main *)

Tick ==
    /\ main = "loop" /\ fired < MaxTicks
    /\ fired' = fired + 1
    /\ IF buffered < Rate THEN buffered' = buffered + 1 /\ UNCHANGED dropped
                          ELSE dropped' = dropped + 1 /\ UNCHANGED buffered
    /\ UNCHANGED <<ended, main, worker, job, ringVars, created, results, report>>

\* A signal arrives or the duration is over.
Expire ==
    /\ ~ended /\ ended' = TRUE
    /\ UNCHANGED <<mainVars, worker, job, ringVars, created, results>>

\* mutant: the channel is never closed
StopWithoutClose ==
    /\ main = "loop" /\ ended /\ main' = "left"
    /\ UNCHANGED <<fired, buffered, dropped, ended, worker, job, ringVars, created, results, report>>

\* break loop, close(ticks)
Stop ==
    /\ main = "loop" /\ ended
    /\ main' = "waiting"
    /\ UNCHANGED <<fired, buffered, dropped, ended, worker, job, ringVars, created, results, report>>

\* wg.Wait returns, and print.
WaitAndPrint ==
    /\ main = "waiting" /\ \A w \in Clients : worker[w] = "exited"
    /\ main' = "printed"
    /\ report' = [total |-> results.count, dropped |-> dropped]
    /\ UNCHANGED <<fired, buffered, dropped, ended, worker, job, ringVars, created, results>>
-----------------------------------------------------------------------------
(* A worker *)

\* mutant: a worker looks at ctx before it takes another tick
PullUnlessEnded(w) ==
    /\ worker[w] = "pull"
    /\ \/ ~ended /\ buffered > 0 /\ buffered' = buffered - 1 /\ Walk(w, "pick")
       \/ ended /\ Walk(w, "exited") /\ UNCHANGED buffered
    /\ UNCHANGED <<fired, dropped, ended, main, job, ringVars, created, results, report>>

\* for range ticks: what is left in a closed channel is still received.
Pull(w) ==
    /\ worker[w] = "pull"
    /\ \/ buffered > 0 /\ buffered' = buffered - 1 /\ Walk(w, "pick")
       \/ buffered = 0 /\ main = "waiting" /\ Walk(w, "exited") /\ UNCHANGED buffered
    /\ UNCHANGED <<fired, dropped, ended, main, job, ringVars, created, results, report>>

\* pick, and the start of do: a get takes a random ID from the ring, and becomes a
\* create while there is none.
Draw(kind) ==
    IF kind # "get" THEN {[NoJob EXCEPT !.kind = kind]}
    ELSE IF buf = <<>> THEN {[NoJob EXCEPT !.kind = "create"]}
    ELSE {[NoJob EXCEPT !.kind = "get", !.id = buf[i]] : i \in DOMAIN buf}

Pick(w) ==
    /\ worker[w] = "pick"
    /\ \E kind \in Mix : \E j \in Draw(kind) : job' = [job EXCEPT ![w] = j]
    /\ Walk(w, "request")
    /\ UNCHANGED <<mainVars, ended, ringVars, created, results>>

\* What the API may answer.
Replies(j) ==
    CASE j.kind = "create"                          -> {201, 500}
      [] j.kind = "get"                             -> IF j.id <= created THEN {200, 500} ELSE {404}
      [] j.kind \in {"list", "slow_query"}          -> {200, 500}
      [] j.kind = "get_missing_404"                 -> {404, 500}
      [] j.kind = "unknown_path_404"                -> {404}
      [] j.kind = "bad_payload_422"                 -> {422}
      [] j.kind = "bad_uuid_400"                    -> {400}

Reply(w) ==
    /\ worker[w] = "request" /\ ~ended
    /\ \E code \in Replies(job[w]) :
         /\ created' = IF code = 201 THEN created + 1 ELSE created
         /\ job' = [job EXCEPT ![w].code = code, ![w].id = IF code = 201 THEN created' ELSE @]
    /\ Walk(w, "record")
    /\ UNCHANGED <<mainVars, ended, ringVars, results>>

\* client.Do fails: refused, reset, the client's 10 s, or ctx.  The API may have
\* created the order all the same.
Unanswered(w) ==
    /\ worker[w] = "request"
    /\ \/ UNCHANGED created
       \/ job[w].kind = "create" /\ ~ended /\ created' = created + 1
    /\ job' = [job EXCEPT ![w].code = 0]
    /\ Walk(w, "record")
    /\ UNCHANGED <<mainVars, ended, ringVars, results>>

\* results.record
RecordResult(w) ==
    /\ worker[w] = "record"
    /\ results' = [count |-> results.count + 1,
                   seen  |-> results.seen \cup {<<job[w].kind, job[w].code>>}]
    /\ Walk(w, IF job[w].code = 201 THEN "add" ELSE "pull")
    /\ UNCHANGED <<mainVars, ended, job, ringVars, created>>

\* mutant: a full ring always overwrites its first place
PutFirst(id) == IF Len(buf) < RingCap THEN buf' = Append(buf, id) /\ UNCHANGED next
                ELSE buf' = [buf EXCEPT ![1] = id] /\ UNCHANGED next

\* idRing.add under the mutex
Put(id) == IF Len(buf) < RingCap THEN buf' = Append(buf, id) /\ UNCHANGED next
           ELSE buf' = [buf EXCEPT ![next + 1] = id] /\ next' = (next + 1) % RingCap

\* extractID finds no ID in a body that was cut off, and add ignores it.
Add(w) ==
    /\ worker[w] = "add"
    /\ \/ Put(job[w].id) /\ added' = Append(added, job[w].id)
       \/ UNCHANGED ringVars
    /\ Walk(w, "pull")
    /\ UNCHANGED <<mainVars, ended, job, created, results>>

ClientStep(w) == Pull(w) \/ Pick(w) \/ Reply(w) \/ Unanswered(w) \/ RecordResult(w) \/ Add(w)
-----------------------------------------------------------------------------
LoadInit ==
    /\ fired = 0 /\ buffered = 0 /\ dropped = 0 /\ ended = FALSE /\ main = "loop"
    /\ worker = [w \in Clients |-> "pull"]
    /\ job = [w \in Clients |-> NoJob]
    /\ buf = <<>> /\ next = 0 /\ created = 0 /\ added = <<>>
    /\ results = [count |-> 0, seen |-> {}]
    /\ report = [total |-> 0, dropped |-> 0]

LoadNext ==
    \/ Tick \/ Expire \/ Stop \/ WaitAndPrint
    \/ \E w \in Clients : ClientStep(w)

\* Goroutines run, select does not pass ctx.Done by for ever, and a request ends
\* with an answer or with the client's timeout.
LoadFairness ==
    /\ WF_loadVars(Stop) /\ WF_loadVars(WaitAndPrint)
    /\ \A w \in Clients : WF_loadVars(ClientStep(w))

LoadSpec == LoadInit /\ [][LoadNext]_loadVars /\ LoadFairness
-----------------------------------------------------------------------------
(* Properties *)

(* Every tick of the ticker is dropped and counted, or becomes one recorded   *)
(* request - the fallback of a get to a create and the ticks still buffered   *)
(* when ctx ends included - so what print says adds up to the rate asked for. *)
TicksAccounted ==
    LET inHand == {w \in Clients : worker[w] \in {"pick", "request", "record"}}
    IN  /\ fired = dropped + buffered + Cardinality(inHand) + results.count
        /\ main = "printed" => fired = report.total + report.dropped

(* idRing: "so GETs hit real rows": whatever the workers' order, the ring     *)
(* holds the last RingCap IDs that were added, each an order that exists, and *)
(* no get of one is answered 404.                                             *)
RingHoldsLatest ==
    LET n == Len(added) IN
    /\ Len(buf) = IF n < RingCap THEN n ELSE RingCap
    /\ ToSet(buf) = {added[i] : i \in (n - Len(buf) + 1)..n}
    /\ \A i \in DOMAIN buf : buf[i] \in 1..created
    /\ <<"get", 404>> \notin results.seen

(* After a signal or at the end of -duration the workers drain the channel,   *)
(* exit, and the results are printed.  A context that is done stays done, so  *)
(* this says of it what `ended ~> main = "printed"` would.                    *)
LoadEnds == []<>(ended => main = "printed")
=============================================================================
