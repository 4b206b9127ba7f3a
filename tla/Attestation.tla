------------------------------- MODULE Attestation -------------------------------
(***************************************************************************)
(* attestation.py and dpk attest: a trace is validated, reduced to one     *)
(* canonical form and signed; verification repeats the validation, then    *)
(* compares counts, digest, key and signature, in this order.              *)
(*                                                                         *)
(* A trace is [run, context, events, edges]; an event is [id, run,         *)
(* context, seq, data], where data stands for the other fields, and an     *)
(* edge is [source, target, type].  A digest is what it digests and a      *)
(* signature is the envelope it signs with its key: both are injective.    *)
(* Checks of the byte formats (algorithm names, malformed digests, keys    *)
(* and signatures) are left out.                                           *)
(***************************************************************************)
EXTENDS Integers, Sequences, FiniteSets, Functions, SequencesExt, FiniteSetsExt

NoFailure == "none"
BadPayload == "no JSON"
SchemaVersion == 1

(* _validate_for_signing: what is wrong with the event at i, looked at in  *)
(* this order.                                                             *)
EventFailure(trace, i) ==
  LET e == trace.events[i]
  IN  CASE e.run # trace.run -> "eventRunIDMismatch"
        [] e.run = trace.run ->
             IF e.context # trace.context THEN "eventContextIDMismatch"
             ELSE IF \E j \in 1 .. i - 1 : trace.events[j].id = e.id
             THEN "duplicateEventID"
             ELSE IF i > 1 /\ e.seq <= trace.events[i - 1].seq
             THEN "nonMonotonicSequence"
             ELSE IF e.data = BadPayload THEN "invalidPayloadJSON" ELSE NoFailure

EdgeFailure(edges, i) ==
  IF edges[i].source = edges[i].target THEN "selfReferentialEdge"
  ELSE IF \E j \in 1 .. i - 1 : edges[j] = edges[i] THEN "duplicateEdge" ELSE NoFailure

(* One pass over the edges that remain: an edge with an anchored end       *)
(* anchors the other.                                                      *)
WithEnds(anchored, e) ==
  IF {e.source, e.target} \cap anchored = {} THEN anchored
  ELSE anchored \cup {e.source, e.target}

AnchorPass(edges, anchored) ==
  LET upto[i \in 0 .. Len(edges)] ==
        IF i = 0 THEN anchored ELSE WithEnds(upto[i - 1], edges[i])
  IN  upto[Len(edges)]

(* Mutant: a single pass.                                                  *)
AnchoredOnce(edges, anchored) == AnchorPass(edges, anchored)

(* The loop ends with a pass that uses up no edge, so it makes no more     *)
(* passes that matter than there are edges.                                *)
Anchored(edges, anchored) ==
  LET after[n \in 0 .. Len(edges)] ==
        IF n = 0 THEN anchored ELSE AnchorPass(edges, after[n - 1])
  IN  after[Len(edges)]

Dangling(trace) ==
  LET anchored == Anchored(trace.edges, {e.id : e \in ToSet(trace.events)})
  IN  \E e \in ToSet(trace.edges) : e.source \notin anchored

(* The first failure of those of events or of edges, in their order.       *)
FirstOf(failures) ==
  LET failing == {i \in DOMAIN failures : failures[i] # NoFailure}
  IN  IF failing = {} THEN NoFailure ELSE failures[Min(failing)]

StructuralFailure(trace) ==
  LET event == FirstOf([i \in DOMAIN trace.events |-> EventFailure(trace, i)])
      edge == FirstOf([i \in DOMAIN trace.edges |-> EdgeFailure(trace.edges, i)])
  IN  IF event # NoFailure THEN event
      ELSE IF edge # NoFailure THEN edge
      ELSE IF Dangling(trace) THEN "danglingEdge" ELSE NoFailure

-----------------------------------------------------------------------------
(* _sorted_edges: by source, target and the wire name of the type, which   *)
(* orders the types as follows.                                            *)
TypeOrder == [CORRECTED_BY |-> 1, DERIVED_FROM |-> 2, GENERATED_FROM |-> 3,
              INFLUENCED_BY |-> 4, INFORMED |-> 5, VERIFIED_BY |-> 6]

EdgeBefore(e, f) ==
  \/ e.source < f.source
  \/ e.source = f.source /\ e.target < f.target
  \/ e.source = f.source /\ e.target = f.target /\ TypeOrder[e.type] < TypeOrder[f.type]

Earlier(edges, i) ==
  {j \in DOMAIN edges : \/ EdgeBefore(edges[j], edges[i])
                        \/ edges[j] = edges[i] /\ j < i}

SortedEdges(edges) ==
  [k \in DOMAIN edges |->
     edges[CHOOSE i \in DOMAIN edges : Cardinality(Earlier(edges, i)) = k - 1]]

(* canonical_trace_bytes: events in array order, every field of them.      *)
CanonicalTrace(trace) ==
  [run |-> trace.run, context |-> trace.context, events |-> trace.events,
   edges |-> SortedEdges(trace.edges)]

TraceDigest(trace) == [digest |-> CanonicalTrace(trace)]

KeyId(public) == <<"sha256", public>>

(* signing_payload_bytes: every field of the envelope but the signature.   *)
SigningPayload(a) == [a EXCEPT !.signature = NoFailure]

Sign(public, payload) == [key |-> public, payload |-> payload]

(* attest and signed_document: a trace that fails is not signed.           *)
Attest(trace, public, issued) ==
  LET unsigned == [version |-> SchemaVersion, run |-> trace.run,
                   context |-> trace.context, events |-> Len(trace.events),
                   edges |-> Len(trace.edges), digest |-> TraceDigest(trace),
                   issued |-> issued, keyId |-> KeyId(public), public |-> public,
                   signature |-> NoFailure]
  IN  [unsigned EXCEPT !.signature = Sign(public, SigningPayload(unsigned))]

Signs(trace) == StructuralFailure(trace) = NoFailure

(* TraceAttestationVerifier.verify; trusted is empty or <<the set of the   *)
(* key ids that are trusted>>.                                             *)
KeyFailure(a, trusted) ==
  CASE KeyId(a.public) # a.keyId -> "keyIDMismatch"
    [] OTHER -> IF trusted # <<>> /\ a.keyId \notin trusted[1] THEN "untrustedKey"
                ELSE IF a.signature # Sign(a.public, SigningPayload(a))
                THEN "invalidSignature" ELSE NoFailure

Verify(a, trace, trusted) ==
  CASE a.version # SchemaVersion -> "unsupportedVersion"
    [] OTHER ->
         IF a.run # trace.run THEN "runIDMismatch"
         ELSE IF a.context # trace.context THEN "contextIDMismatch"
         ELSE IF ~ Signs(trace) THEN StructuralFailure(trace)
         ELSE IF a.events # Len(trace.events) THEN "eventCountMismatch"
         ELSE IF a.edges # Len(trace.edges) THEN "edgeCountMismatch"
         ELSE IF a.digest # TraceDigest(trace) THEN "digestMismatch"
         ELSE KeyFailure(a, trusted)

-----------------------------------------------------------------------------
(* What a signed trace looks like: its events belong to it and are in      *)
(* order, and each of its edges is connected, over edges in any order and  *)
(* direction, to an event of it.                                           *)
InOrder(events) ==
  \A i, j \in DOMAIN events : i < j =>
    events[i].id # events[j].id /\ events[i].seq < events[j].seq

Connected(edges, ids) ==
  \A S \in SUBSET UNION {{e.source, e.target} : e \in edges} :
    (\A e \in edges : e.source \in S <=> e.target \in S) => S = {} \/ S \cap ids # {}

WellFormed(trace) ==
  /\ \A e \in ToSet(trace.events) :
       e.run = trace.run /\ e.context = trace.context /\ e.data # BadPayload
  /\ InOrder(trace.events)
  /\ \A e \in ToSet(trace.edges) : e.source # e.target
  /\ IsInjective(trace.edges)
  /\ Connected(ToSet(trace.edges), {e.id : e \in ToSet(trace.events)})

SameTrace(t, u) ==
  /\ t.run = u.run /\ t.context = u.context /\ t.events = u.events
  /\ Len(t.edges) = Len(u.edges) /\ ToSet(t.edges) = ToSet(u.edges)

(* A trace is signed exactly when it is well formed.  The document then    *)
(* verifies that trace, however its edges are listed, and no other, and    *)
(* only for a verifier that trusts its key or any key; and no other        *)
(* document with its signature verifies anything.                          *)
Binds(trace, other, envelope, public, issued, trusted) ==
  LET a == Attest(trace, public, issued)
  IN  /\ Signs(trace) <=> WellFormed(trace)
      /\ Signs(trace) =>
           (Verify(a, other, trusted) = NoFailure
              <=> /\ SameTrace(trace, other)
                  /\ trusted = <<>> \/ KeyId(public) \in trusted[1])
      /\ envelope.signature = a.signature /\ Verify(envelope, other, trusted) = NoFailure
           => envelope = a
=============================================================================
