----------------------------- MODULE MCRecorders -----------------------------
(***************************************************************************)
(* The recording adapters, one per behaviour, over a common log.           *)
(***************************************************************************)
EXTENDS RunLog

CONSTANTS n1, n2, n3, t1, t2, s1, s2, o1, o2, o3, k1, k2, a, b, u1, u2, none

VARIABLE adapter
vars == <<adapter, log, edges, fw, mem>>

LC == INSTANCE LangChain WITH Node <- {n1, n2, n3}, NoNode <- none, MaxPoints <- 1
OA == INSTANCE OpenAIAgents WITH Trace <- {t1, t2}, Span <- {s1, s2},
                                 NoSpan <- none, MaxRepeats <- 1, MaxSpans <- 3
LI == INSTANCE LlamaIndex WITH Op <- {o1, o2, o3}, RootMarker <- none, MaxStray <- 1
(* Nested runs, and three spans deep in one run.                           *)
IT == INSTANCE Instrumentation WITH Task <- {u1, u2}, First <- u1,
                                    MaxSteps <- 2, MaxRuns <- 2
ID == INSTANCE Instrumentation WITH Task <- {u1, u2}, First <- u1,
                                    MaxSteps <- 3, MaxRuns <- 1

(* Two kickoffs of two crews, the first with nested operations; and of one *)
(* crew, an operation under one that the listener does not hear of.  Then  *)
(* an operation that kicks off a crew, with links and without.             *)
CA == INSTANCE CrewAI WITH
        Kickoff <- <<k1, k2>>, Op <- {a, b}, Internal <- none,
        CrewOf <- [k \in {k1, k2} |-> k],
        KickoffOf <- (a :> k1 @@ b :> k1), ParentOf <- (a :> k1 @@ b :> a),
        LinkLifecycle <- TRUE
CR == INSTANCE CrewAI WITH
        Kickoff <- <<k1, k2>>, Op <- {a, b}, Internal <- none,
        CrewOf <- [k \in {k1, k2} |-> "crew"],
        KickoffOf <- (a :> k1 @@ b :> k2), ParentOf <- (a :> k1 @@ b :> none),
        LinkLifecycle <- TRUE
CN == INSTANCE CrewAI WITH
        Kickoff <- <<k1, k2>>, Op <- {a, b}, Internal <- none,
        CrewOf <- [k \in {k1, k2} |-> k],
        KickoffOf <- (a :> k1 @@ b :> k2), ParentOf <- (a :> k1 @@ k2 :> a @@ b :> k2),
        LinkLifecycle <- TRUE
CO == INSTANCE CrewAI WITH
        Kickoff <- <<k1, k2>>, Op <- {a, b}, Internal <- none,
        CrewOf <- [k \in {k1, k2} |-> k],
        KickoffOf <- (a :> k1 @@ b :> k2), ParentOf <- (a :> k1 @@ k2 :> a @@ b :> k2),
        LinkLifecycle <- FALSE

Symmetry == Permutations({n1, n2, n3}) \cup Permutations({t1, t2})
              \cup Permutations({s1, s2}) \cup Permutations({o1, o2, o3})

Init ==
  \/ adapter = "langchain" /\ LC!Init
  \/ adapter = "openai_agents" /\ OA!Init
  \/ adapter = "llama_index" /\ LI!Init
  \/ adapter = "instrument" /\ IT!Init
  \/ adapter = "instrument_deep" /\ ID!Init
  \/ adapter = "crewai" /\ CA!Init
  \/ adapter = "crew_again" /\ CR!Init
  \/ adapter = "crew_nested" /\ CN!Init
  \/ adapter = "crew_unlinked" /\ CO!Init

Next ==
  /\ UNCHANGED adapter
  /\ \/ adapter = "langchain" /\ LC!Next
     \/ adapter = "openai_agents" /\ OA!Next
     \/ adapter = "llama_index" /\ LI!Next
     \/ adapter = "instrument" /\ IT!Next
     \/ adapter = "instrument_deep" /\ ID!Next
     \/ adapter = "crewai" /\ CA!Next
     \/ adapter = "crew_again" /\ CR!Next
     \/ adapter = "crew_nested" /\ CN!Next
     \/ adapter = "crew_unlinked" /\ CO!Next

Spec == Init /\ [][Next]_vars

-----------------------------------------------------------------------------
(* The links of what was recorded are complete: none is missing or made    *)
(* twice, for callbacks that interleave, arrive in any order, late, again  *)
(* or not at all.                                                          *)
LineageComplete ==
  CASE adapter = "langchain" -> LC!Complete
    [] adapter = "openai_agents" -> OA!Complete
    [] adapter = "llama_index" -> LI!Complete
    [] adapter = "instrument" -> IT!Complete
    [] adapter = "instrument_deep" -> ID!Complete
    [] adapter = "crewai" -> CA!Complete
    [] adapter = "crew_again" -> CR!Complete
    [] adapter = "crew_nested" -> CN!Complete
    [] adapter = "crew_unlinked" -> edges = <<>>

(* What an adapter remembers is what is open: no span of a finished        *)
(* operation is kept or leaks into the context of other code.              *)
MemoryIsCurrent ==
  CASE adapter = "langchain" -> LC!Current
    [] adapter = "openai_agents" -> OA!Current
    [] adapter = "llama_index" -> LI!Current
    [] adapter = "instrument" -> IT!Current
    [] adapter = "instrument_deep" -> ID!Current
    [] adapter = "crewai" -> CA!Current
    [] adapter = "crew_again" -> CR!Current
    [] adapter = "crew_nested" -> CN!Current
    [] adapter = "crew_unlinked" -> CO!Current

(* What OpenAI agents, LlamaIndex and instrumented code record is in the   *)
(* run and under the span of what it is about, although ids repeat,        *)
(* operations overlap and callbacks come from code with a context of its   *)
(* own.  Of the others it is only claimed that no link leaves a run: a     *)
(* LangChain handler writes to the one run it is given, and the events of  *)
(* CrewAI do not say whose they are (NestedCrewsApart).  Instrumented code *)
(* links across runs where runs nest.                                      *)
Attribution ==
  /\ adapter # "instrument" => \A e \in ToSet(edges) : WithinRun(e)
  /\ adapter = "openai_agents" => OA!Attributed
  /\ adapter = "llama_index" => LI!Attributed
  /\ adapter = "instrument" => IT!Attributed
  /\ adapter = "instrument_deep" => ID!Attributed

-----------------------------------------------------------------------------
(* What the documentation says and the code does not do *)

(* crewai.py:60-61: attribution to the innermost open kickoff "is exact    *)
(* for the normal sequential case and for nested crews".                   *)
NestedCrewsApart == adapter = "crew_nested" => CN!Attributed
=============================================================================
