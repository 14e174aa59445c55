------------------------------- MODULE Tracer -------------------------------
(***************************************************************************)
(* internal/trace/tracer.go: what one tracer holds, where it files what it *)
(* is told, and how Absorb folds the tracers of the workers into the main  *)
(* one.                                                                    *)
(*                                                                         *)
(* A call of a stub is [events, adds, decoded, watched, tainted]: the      *)
(* events it records in order, [cat, op, args, note]; the indicators it adds,    *)
(* <<field, item>>; the blobs it passes to AddDecoded; the values it has   *)
(* watched as secrets and under a rule. A step is [call, scope, muted].    *)
(* The field by of an event is a history: which tracer recorded it.        *)
(***************************************************************************)
EXTENDS Signatures, SequencesExt

CONSTANT MaxIOC     \* maxIOCEntries
ASSUME CapAssumption == MaxIOC \in Nat

(* What New and Fork start from; seeds is what installProcess has watched. *)
Fresh(who, seeds) == [who |-> who, seq |-> 0, events |-> <<>>, iocs |-> {}, devIOCs |-> {}, mutedIOCs |-> {},
                      watched |-> seeds.watched, tainted |-> seeds.tainted]

(* IOCSet.add: an entry of a full map is dropped.                          *)
Add(iocs, pair) == IF pair \in iocs \/ Cardinality(In(iocs, {pair[1]})) < MaxIOC THEN iocs \cup {pair} ELSE iocs
AddAll(iocs, pairs) == FoldSet(LAMBDA p, acc : Add(acc, p), iocs, pairs)

Scan(items) == UNION {Text[i].finds : i \in items}

(* sink and scoredSink                                                     *)
SinkOfScope(step) == IF step.scope \in DevScopes THEN "devIOCs" ELSE "iocs"
SinkOfMute(step) == IF step.muted THEN "mutedIOCs" ELSE "iocs"
Sink(step) == IF step.muted THEN "mutedIOCs"
              ELSE IF step.scope \in DevScopes THEN "devIOCs" ELSE "iocs"
ScoredSink(step) == IF step.scope \in DevScopes THEN "devIOCs" ELSE "iocs"

(* The indicators of one step: what the scan finds in its events and what  *)
(* it adds, and those of the blobs it decodes.                             *)
Heard(step) == Scan(UNION {Said(e) : e \in Range(step.call.events)}) \cup step.call.adds
Bared(step) == {<<"Decoded", i>> : i \in step.call.decoded} \cup Scan(step.call.decoded)

(* Record and Note, the Add methods, AddDecoded and the Watch methods, in  *)
(* the order in which a stub calls them.                                   *)
Stamped(t, step, at) ==
    [k \in 1..Len(step.call.events) |->
        [seq |-> t.seq + k, at |-> at, by |-> t.who, src |-> step.scope, muted |-> step.muted,
         cat |-> step.call.events[k].cat, op |-> step.call.events[k].op, args |-> step.call.events[k].args,
         note |-> step.call.events[k].note]]
Filed(t, step, set) ==
    LET heard == IF Sink(step) = set THEN AddAll(t[set], Heard(step)) ELSE t[set]
    IN  IF ScoredSink(step) = set THEN AddAll(heard, Bared(step)) ELSE heard
Take(t, step, at) ==
    [t EXCEPT !.seq = @ + Len(step.call.events), !.events = @ \o Stamped(t, step, at),
              !.iocs = Filed(t, step, "iocs"), !.devIOCs = Filed(t, step, "devIOCs"),
              !.mutedIOCs = Filed(t, step, "mutedIOCs"),
              !.watched = @ \cup step.call.watched, !.tainted = @ \cup step.call.tainted]

(* Absorb: the events of all tracers, the main one first and the others in *)
(* the order of the workers, sorted stably by time and numbered anew; the  *)
(* sets are united, which is not capped. A slot is an event's tracer and   *)
(* its place there.                                                        *)
Slots(tracers) == UNION {{k} \X DOMAIN tracers[k].events : k \in DOMAIN tracers}
At(tracers, slot) == tracers[slot[1]].events[slot[2]]
Sooner(p, q) == p[1] < q[1] \/ (p[1] = q[1] /\ p[2] < q[2])
Earlier(tracers, p, q) ==
    \/ At(tracers, p).at < At(tracers, q).at
    \/ At(tracers, p).at = At(tracers, q).at /\ Sooner(p, q)
Timeline(tracers) ==
    LET slots == Slots(tracers)
        place(p) == Cardinality({q \in slots : Earlier(tracers, q, p)}) + 1
    IN  [n \in 1..Cardinality(slots) |-> At(tracers, CHOOSE p \in slots : place(p) = n)]
Numbered(events) == [k \in DOMAIN events |-> [events[k] EXCEPT !.seq = k]]
United(t, workers, set) == t[set] \cup UNION {w[set] : w \in Range(workers)}
AbsorbScored(t, workers) ==
    LET all == Numbered(Timeline(<<t>> \o workers))
    IN  [t EXCEPT !.events = all, !.seq = Len(all), !.iocs = United(t, workers, "iocs"),
                  !.devIOCs = United(t, workers, "devIOCs"), !.mutedIOCs = United(t, workers, "mutedIOCs")]
AbsorbUnnumbered(t, workers) ==
    LET all == Timeline(<<t>> \o workers)
    IN  [t EXCEPT !.events = all, !.seq = Len(all), !.iocs = United(t, workers, "iocs"),
                  !.devIOCs = United(t, workers, "devIOCs"), !.mutedIOCs = United(t, workers, "mutedIOCs"),
                  !.watched = United(t, workers, "watched"), !.tainted = United(t, workers, "tainted")]
Absorb(t, workers) ==
    LET all == Numbered(Timeline(<<t>> \o workers))
    IN  [t EXCEPT !.events = all, !.seq = Len(all), !.iocs = United(t, workers, "iocs"),
                  !.devIOCs = United(t, workers, "devIOCs"), !.mutedIOCs = United(t, workers, "mutedIOCs"),
                  !.watched = United(t, workers, "watched"), !.tainted = United(t, workers, "tainted")]
=============================================================================
