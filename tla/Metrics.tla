------------------------------- MODULE Metrics -------------------------------
(***************************************************************************)
(* The metrics of src/pkg/circuitbreaker.go: per host a registry of        *)
(* endpoints, with an aggregate of the whole host and, once the host has   *)
(* too many endpoints, one of those that are not registered.  Every update *)
(* runs under metricsMu and is one step.  The instants it works with were  *)
(* read before, by goroutines that reach the lock in any order.            *)
(***************************************************************************)
EXTENDS Family, Sequences, FiniteSets

CONSTANTS
  Hosts,
  Paths,         \* URL paths of requests
  Kinds,         \* the families of an endpoint
  Durations,     \* what an attempt may take
  MaxEndpoints,  \* maxEndpointsPerHost
  MaxTime,       \* bound on the clock
  MaxEvents      \* bound on the events

ASSUME MetricsAssumption ==
  /\ MaxEndpoints \in Nat \ {0}
  /\ MaxTime \in Nat \ {0}
  /\ MaxEvents \in Nat
  /\ Durations \subseteq Nat
  /\ "cancel" \notin Kinds

VARIABLES
  metrics,  \* cb.metrics
  clock,    \* the wall clock, in seconds
  latest,   \* history: the latest second the clock has shown
  log       \* history: all events, in the order in which they were recorded

metricsVars == <<metrics, clock, latest, log>>

\* An event began in the second start and is recorded in the second now; a wait
\* that was cancelled only counts.
Events ==
  [host : Hosts, path : Paths, kind : Kinds, start : 1..latest, took : Durations, now : {clock}]
    \cup [host : Hosts, path : Paths, kind : {"cancel"}]

\* An endpointState: counters of its own beside what summarises the events.
EmptyEndpoint ==
  [counts |-> [k \in Kinds |-> 0], family |-> [k \in Kinds |-> EmptyFamily], cancels |-> 0]

MetricsInit ==
  /\ metrics = [h \in {} |-> {}]
  /\ clock = 1
  /\ latest = 1
  /\ log = << >>

(***************************************************************************)
(* recordAttempt and its siblings                                          *)
(***************************************************************************)

Apply(s, e) ==
  IF e.kind = "cancel"
    THEN [s EXCEPT !.cancels = @ + 1]
    ELSE [s EXCEPT !.counts[e.kind] = @ + 1,
                   !.family[e.kind] =
                     RecordSample(@, [start |-> e.start, took |-> e.took], e.now)]

\* A path that looks like the key of an aggregate gets a slash.
Escaped(path) ==
  CASE path = "::root" -> "/::root"
    [] path = "::other" -> "/::other"
    [] OTHER -> path

Full(endpoints) == Cardinality(DOMAIN endpoints) >= MaxEndpoints

\* Mutant: once the host is full, known endpoints go to the aggregate too.
KeyWhenFull(endpoints, path) == IF Full(endpoints) THEN "::other" ELSE path

\* The key under which a host with these endpoints accounts for a path.
Key(endpoints, path) ==
  IF path \notin DOMAIN endpoints /\ Full(endpoints) THEN "::other" ELSE path

\* updateMetrics: the endpoint and the aggregate of its host.
Update(e) ==
  LET known == IF e.host \in DOMAIN metrics THEN metrics[e.host]
               ELSE [key \in {"::root"} |-> EmptyEndpoint]
      own   == Key(known, Escaped(e.path))
      State(key) == IF key \in DOMAIN known THEN known[key] ELSE EmptyEndpoint
      endpoints  == [key \in DOMAIN known \cup {own} |->
                       IF key \in {own, "::root"} THEN Apply(State(key), e) ELSE known[key]]
  IN  metrics' = [h \in DOMAIN metrics \cup {e.host} |->
                    IF h = e.host THEN endpoints ELSE metrics[h]]

Record ==
  /\ Len(log) < MaxEvents
  /\ \E e \in Events : Update(e) /\ log' = Append(log, e)
  /\ UNCHANGED <<clock, latest>>

(***************************************************************************)
(* The wall clock, which may be set back.  It matters until the last event *)
(***************************************************************************)

ClockRuns ==
  /\ Len(log) < MaxEvents
  /\ \E t \in clock+1..MaxTime : clock' = t /\ latest' = IF t > latest THEN t ELSE latest
  /\ UNCHANGED <<metrics, log>>

ClockSetBack ==
  /\ Len(log) < MaxEvents
  /\ \E t \in 1..clock-1 : clock' = t
  /\ UNCHANGED <<metrics, latest, log>>

MetricsNext == Record \/ ClockRuns \/ ClockSetBack

MetricsSpec == MetricsInit /\ [][MetricsNext]_metricsVars

(***************************************************************************)
(* What Metrics() answers.  A mean is a sum and the number of its terms.   *)
(***************************************************************************)

Summary(f, total) ==
  [total |-> total, samples |-> Slice(f.ring), mean |-> <<f.ring.total, Held(f.ring)>>,
   ratio |-> f.ratio]

\* Mutant: the counters answer how many samples there are.
SnapshotCountsSamples(s) ==
  [k \in Kinds |-> Summary(s.family[k], Held(s.family[k].ring))]

Snapshot(s) == [k \in Kinds |-> Summary(s.family[k], s.counts[k])]

Answer == [h \in DOMAIN metrics |-> [key \in DOMAIN metrics[h] |-> Snapshot(metrics[h][key])]]

(***************************************************************************)
(* What it has to answer, read off the log                                 *)
(***************************************************************************)

\* The paths a host had seen before the i-th event.
SeenBefore(h, i) == {Escaped(log[j].path) : j \in {x \in 1..i-1 : log[x].host = h}}

\* The first paths get an entry each, as many as fit beside the aggregate.
OwnEntries(h) ==
  {Escaped(log[i].path) :
     i \in {x \in DOMAIN log : log[x].host = h /\ Cardinality(SeenBefore(h, x)) < MaxEndpoints - 1}}

\* The two entries an event counts for.
Entries(e) ==
  {"::root", IF Escaped(e.path) \in OwnEntries(e.host) THEN Escaped(e.path) ELSE "::other"}

\* Of the indices I, the one that has j of them up to itself.
Nth(I, j) == CHOOSE i \in I : Cardinality({x \in I : x <= i}) = j

\* The events of one kind that an entry stands for, in their order.
RecordedAt(h, key, kind) ==
  {i \in DOMAIN log : log[i].host = h /\ key \in Entries(log[i]) /\ log[i].kind = kind}

Recorded(h, key, kind) ==
  LET I == RecordedAt(h, key, kind) IN [j \in 1..Cardinality(I) |-> log[Nth(I, j)]]

(***************************************************************************)
(* Properties                                                              *)
(***************************************************************************)

\* Every event counts for its endpoint and for its host, once each, also after its
\* sample has left the ring: the first paths of a host keep their own entries when
\* the host is full, no path is mistaken for an aggregate, and what the endpoints
\* count adds up to what the host counts (circuitbreaker.go:585-665,
\* metrics_state.go:175-179).
EventsAccounted ==
  \A h \in DOMAIN metrics :
    /\ DOMAIN metrics[h] = UNION {Entries(log[i]) : i \in {x \in DOMAIN log : log[x].host = h}}
    /\ \A key \in DOMAIN metrics[h] :
         metrics[h][key].cancels = Len(Recorded(h, key, "cancel"))
    /\ \A k \in Kinds :
         /\ \A key \in DOMAIN metrics[h] : Answer[h][key][k].total = Len(Recorded(h, key, k))
         /\ Answer[h]["::root"][k].total =
              SumFunction([key \in DOMAIN metrics[h] \ {"::root"} |-> Answer[h][key][k].total])

\* The samples are the latest ones in the order in which they were recorded, and
\* the running sum of the mean is theirs, however often the ring has gone round
\* (metrics_state.go:32-57, 66-78).
SamplesExact ==
  \A h \in DOMAIN metrics : \A key \in DOMAIN metrics[h], k \in Kinds :
    LET all    == Recorded(h, key, k)
        first  == IF Len(all) > RingSize THEN Len(all) - RingSize ELSE 0
        answer == Answer[h][key][k]
    IN  /\ answer.samples = [j \in 1..Len(all)-first |->
                               [start |-> all[first+j].start, took |-> all[first+j].took]]
        /\ answer.mean = <<SumFunction([j \in DOMAIN answer.samples |-> answer.samples[j].took]),
                           Len(answer.samples)>>

\* The ratios count the events of their windows, as of the latest one, although
\* goroutines record events late and out of order and the wall clock is set back:
\* they are exact whenever that clock shows no earlier second than it has shown
\* this endpoint before, and until then they are at most the number of the events
\* (metrics_state.go:87-130, 151-154).
RatiosExact ==
  \A h \in DOMAIN metrics : \A key \in DOMAIN metrics[h], k \in Kinds :
    LET all   == Recorded(h, key, k)
        now   == all[Len(all)].now
        ratio == Answer[h][key][k].ratio
    IN  all # << >> =>
          \A seconds \in Windows :
            IF \A i \in DOMAIN all : all[i].start <= now /\ all[i].now <= now
              THEN ratio[seconds] =
                     Cardinality({i \in DOMAIN all : all[i].start > now - seconds})
              ELSE ratio[seconds] \in 0..Len(all)
=============================================================================
