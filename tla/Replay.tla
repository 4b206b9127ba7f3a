--------------------------------- MODULE Replay ---------------------------------
(***************************************************************************)
(* replay.py rebuilds the span tree of a run from its committed and its    *)
(* quarantined events, up to a sequence number; snapshot_diff.py compares  *)
(* two such snapshots.                                                     *)
(*                                                                         *)
(* A log is a sequence of events [id, seq, span, parent, source, type,     *)
(* engine, value]; its order stands for the timestamps, which order equal  *)
(* sequence numbers.                                                       *)
(***************************************************************************)
EXTENDS Integers, Sequences, FiniteSets, SequencesExt, FiniteSetsExt

NoSpan == "no span"
NoLimit == -1
Committed == "committed"
Quarantined == "quarantined"

(* TraceReplayEngine: the log in replay order.                             *)
ReplayOrder(log) ==
  LET order == SetToSortSeq(DOMAIN log,
                 LAMBDA i, j : \/ log[i].seq < log[j].seq
                               \/ log[i].seq = log[j].seq /\ i < j)
  IN  [k \in DOMAIN log |-> log[order[k]] @@ [order |-> k]]

ValidEvents(log, at) ==
  SelectSeq(ReplayOrder(log), LAMBDA e : at = NoLimit \/ e.seq <= at)

OfSpan(events, s) == SelectSeq(events, LAMBDA e : e.span = s)
SpansOf(events) == {events[i].span : i \in DOMAIN events} \ {NoSpan}

(* The first event of a span in replay order says what its parent is.      *)
ParentIn(events, s) == OfSpan(events, s)[1].parent

ChildrenIn(events, s) ==
  {t \in SpansOf(events) : ParentIn(events, t) = s}

RootSpans(events) == {s \in SpansOf(events) : ParentIn(events, s) = NoSpan}

(* Mutant: the old test, a span is orphaned when its parent is missing.    *)
ReachableByPresence(events) ==
  {s \in SpansOf(events) : ParentIn(events, s) \in SpansOf(events) \cup {NoSpan}}

RECURSIVE Spread(_, _)
Spread(events, reached) ==
  LET more == UNION {ChildrenIn(events, s) : s \in reached} \ reached
  IN  IF more = {} THEN reached ELSE Spread(events, reached \cup more)

Reachable(events) == Spread(events, RootSpans(events))

(* The spans of a subtree; only spans that a root leads to have one.       *)
SubtreeSpans(events, s) == Spread(events, {s})

(* _NodeBuilder.build: quarantined events taint the spans above them.      *)
Contaminated(events, s) ==
  \E t \in SubtreeSpans(events, s) :
    \E i \in DOMAIN events : events[i].span = t /\ events[i].source = Quarantined

SeqsOf(events) == {events[i].seq : i \in DOMAIN events}

(* expected_next starts at 0 and never goes back.                          *)
SequenceGaps(events) ==
  FoldLeft(LAMBDA acc, e :
             [gaps |-> IF e.seq > acc.next
                       THEN acc.gaps \cup {<<acc.next, e.seq - 1>>} ELSE acc.gaps,
              next |-> IF e.seq >= acc.next THEN e.seq + 1 ELSE acc.next],
           [gaps |-> {}, next |-> 0], events).gaps

Manifest(events, reachable, orphaned) ==
  [total |-> Len(events),
   committed |-> Len(SelectSeq(events, LAMBDA e : e.source = Committed)),
   quarantined |-> Len(SelectSeq(events, LAMBDA e : e.source = Quarantined)),
   orphaned |-> Len(orphaned),
   duplicates |-> Len(events) - Cardinality({events[i].id : i \in DOMAIN events}),
   spans |-> Cardinality(reachable),
   contaminated |-> Cardinality({s \in reachable : Contaminated(events, s)}),
   gaps |-> SequenceGaps(events)]

(* snapshot(at): rooted holds the events without a span, each a root of    *)
(* its own; spans the tree, by the id of its nodes.                        *)
Snapshot(log, at) ==
  LET events == ValidEvents(log, at)
      reachable == Reachable(events)
      orphaned == SelectSeq(events, LAMBDA e : e.span # NoSpan /\ e.span \notin reachable)
  IN  [rooted |-> OfSpan(events, NoSpan),
       spans |-> [s \in reachable |->
                    [parent |-> ParentIn(events, s), events |-> OfSpan(events, s),
                     children |-> ChildrenIn(events, s),
                     contaminated |-> Contaminated(events, s),
                     start |-> Min(SeqsOf(OfSpan(events, s))),
                     end |-> Max(SeqsOf(OfSpan(events, s)))]],
       orphaned |-> orphaned,
       manifest |-> Manifest(events, reachable, orphaned)]

-----------------------------------------------------------------------------
(* SnapshotDiffEngine.                                                     *)

Identity(e) == <<e.seq, e.type, e.engine>>
DiffSignature(e) == <<e.value, e.source>>

CommonPrefix(a, b) ==
  Max({n \in 0 .. Min({Len(a), Len(b)}) :
         \A i \in 1 .. n : /\ Identity(a[i]) = Identity(b[i])
                           /\ DiffSignature(a[i]) = DiffSignature(b[i])})

(* base_dict keeps the last event of an identity.                          *)
Keeps(events, id) ==
  Last(SelectSeq(events, LAMBDA e : Identity(e) = id))

Identities(events) == {Identity(events[i]) : i \in DOMAIN events}

EventChanges(a, b) ==
  {[kind |-> "added", event |-> e] :
     e \in {x \in ToSet(b) : Identity(x) \notin Identities(a)}}
  \cup {[kind |-> "modified", event |-> e] :
     e \in {x \in ToSet(b) : /\ Identity(x) \in Identities(a)
                             /\ DiffSignature(Keeps(a, Identity(x))) # DiffSignature(x)}}
  \cup {[kind |-> "removed", event |-> e] :
     e \in {x \in ToSet(a) : Identity(x) \notin Identities(b)}}

Divergences(a, b) ==
  LET n == CommonPrefix(a, b)
  IN  IF n < Min({Len(a), Len(b)}) THEN {[prefix |-> n, at |-> b[n + 1].seq]} ELSE {}

(* Two nodes are equal when their events and their children are.           *)
RECURSIVE SameNode(_, _, _)
SameNode(x, y, s) ==
  /\ s \in DOMAIN x.spans \cap DOMAIN y.spans
  /\ x.spans[s].events = y.spans[s].events
  /\ x.spans[s].children = y.spans[s].children
  /\ \A t \in x.spans[s].children : SameNode(x, y, t)

EventsIn(snap, s) == IF s \in DOMAIN snap.spans THEN snap.spans[s].events ELSE <<>>

SpanChanges(x, y) ==
  {[kind |-> "added", span |-> s] : s \in DOMAIN y.spans \ DOMAIN x.spans}
  \cup {[kind |-> "removed", span |-> s] : s \in DOMAIN x.spans \ DOMAIN y.spans}
  \cup {[kind |-> "reparented", span |-> s] :
          s \in {t \in DOMAIN x.spans \cap DOMAIN y.spans :
                   x.spans[t].parent # y.spans[t].parent}}
  \cup {[kind |-> "contaminationChanged", span |-> s] :
          s \in {t \in DOMAIN x.spans \cap DOMAIN y.spans :
                   x.spans[t].contaminated # y.spans[t].contaminated}}

(* diff: the events without a span, then every span that is not the same   *)
(* node in both.                                                           *)
SnapshotDiff(x, y) ==
  LET compared == {s \in DOMAIN x.spans \cup DOMAIN y.spans : ~ SameNode(x, y, s)}
  IN  [spans |-> SpanChanges(x, y),
       events |-> EventChanges(x.rooted, y.rooted)
                    \cup UNION {EventChanges(EventsIn(x, s), EventsIn(y, s)) : s \in compared},
       divergences |-> Divergences(x.rooted, y.rooted)
                    \cup UNION {Divergences(EventsIn(x, s), EventsIn(y, s)) : s \in compared}]
=============================================================================
