-------------------------------- MODULE Signing --------------------------------
(***************************************************************************)
(* The trace that dpk attest is given, an AttestableTrace of any events    *)
(* and edges, is signed; somebody then edits the trace or the signed       *)
(* document, and a verifier reads both.                                    *)
(***************************************************************************)
EXTENDS Attestation

CONSTANTS
  RunId, ContextId,   \* of the trace
  Event, Edge,        \* what it may hold
  MaxStored           \* bounds the model: events, and edges

VARIABLE subject   \* the trace, once there is one: <<>> or <<trace>>

SigningInit == subject = <<>>

BeginRun ==
  /\ subject = <<>>
  /\ subject' = <<[run |-> RunId, context |-> ContextId, events |-> <<>>, edges |-> <<>>]>>

StoreEvent ==
  /\ subject # <<>> /\ subject[1].edges = <<>> /\ Len(subject[1].events) < MaxStored
  /\ \E e \in Event : subject' = <<[subject[1] EXCEPT !.events = Append(@, e)]>>

(* The model looks at the edges of sound events only.                      *)
StoreEdge ==
  /\ subject # <<>> /\ Len(subject[1].edges) < MaxStored
  /\ \A e \in ToSet(subject[1].events) : e.run = RunId /\ e.data # BadPayload
  /\ \E e \in Edge : subject' = <<[subject[1] EXCEPT !.edges = Append(@, e)]>>

SigningNext == BeginRun \/ StoreEvent \/ StoreEdge

-----------------------------------------------------------------------------
(* One edit of an event, of an edge or of a field of the document.         *)

EventEdits(trace) ==
  {[trace EXCEPT !.events = RemoveAt(@, i)] : i \in DOMAIN trace.events}
  \cup {[trace EXCEPT !.events[i].data = "edited"] : i \in DOMAIN trace.events}
  \cup {[trace EXCEPT !.events[i].seq = @ + 5] : i \in DOMAIN trace.events}

EdgeEdits(trace) ==
  {[trace EXCEPT !.edges = RemoveAt(@, i)] : i \in DOMAIN trace.edges}
  \cup {[trace EXCEPT !.edges[i] = [@ EXCEPT !.source = trace.edges[i].target,
                                             !.target = trace.edges[i].source]] :
          i \in DOMAIN trace.edges}
  \cup {[trace EXCEPT !.edges[i].type = "CORRECTED_BY"] : i \in DOMAIN trace.edges}
  \cup {[trace EXCEPT !.edges = Append(@, [source |-> 1, target |-> 3,
                                           type |-> "VERIFIED_BY"])]}

DocumentEdits(a, trace) ==
  {[a EXCEPT !.version = 2], [a EXCEPT !.run = "other"], [a EXCEPT !.context = "other"],
   [a EXCEPT !.events = @ + 1], [a EXCEPT !.edges = @ + 1],
   [a EXCEPT !.digest = TraceDigest([trace EXCEPT !.context = "other"])],
   [a EXCEPT !.issued = @ + 1], [a EXCEPT !.keyId = KeyId("other")],
   [a EXCEPT !.keyId = KeyId("other"), !.public = "other"]}

(* A signed document is bound to its trace and to its key, against every   *)
(* such edit and for a verifier that trusts any key, none, or this one.    *)
AttestedUnchanged ==
  \A trace \in ToSet(subject) :
    LET a == Attest(trace, "key", 1)
        listed == [trace EXCEPT !.edges = Reverse(@)]
        pairs == ({trace, listed} \cup EventEdits(trace) \cup EdgeEdits(trace)) \X {a}
                   \cup {trace} \X DocumentEdits(a, trace)
    IN  \A x \in pairs, trusted \in {<<>>, <<{}>>, <<{KeyId("key")}>>} :
          Binds(trace, x[1], x[2], "key", 1, trusted)
=============================================================================
