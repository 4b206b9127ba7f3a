----------------------------- MODULE MCOTelIngest -----------------------------
(* Small exports for OTelIngest: every way to link three spans of a trace  *)
(* (roots, orphans, their own parent, cycles) in one delivery, and for     *)
(* three of these trees several deliveries in two files.  Span 4 is the    *)
(* only one of a second trace, span 5 that of the same trace as another    *)
(* exporter spells its id; 9 is the id of a span nobody exports.           *)
EXTENDS OTelIngest

MCTraceOf == [s \in Span |-> CASE s = 4 -> "t2" [] s = 5 -> "T2" [] OTHER -> "t1"]
MCStartOf == [s \in Span |-> IF s = 3 THEN 2 ELSE 1]
MCRunIdOf == [t1 |-> "r1", t2 |-> "r2", T2 |-> "r2"]

Http == [d \in {} |-> "unknown"]
Odd == [d \in {"openinference"} |-> "unknown"]
Tool == [d \in {"traceloop", "operation"} |->
           IF d = "operation" THEN "tool_call" ELSE "unknown"]
Model == [d \in {"operation", "request_model", "sniffed"} |->
            IF d = "sniffed" THEN "tool_call" ELSE "unknown"]
Chat == [d \in {"name_prefix"} |-> "llm_call"]

Trees ==
  {[parent |-> <<p[1], p[2], p[3], NoSpan, NoSpan>>, attrs |-> <<a, b, Chat, Model, Model>>] :
     p \in [1 .. 3 -> {0, 1, 2, 3, 9}], a \in {Http, Odd}, b \in {Http, Tool}}

Part(s) == [span |-> s, end |-> 0, error |-> FALSE]
Whole(s) == [span |-> s, end |-> 2, error |-> s = 2]

FewTrees ==
  {x \in Trees : x.parent \in {<<0, 1, 2, 0, 0>>, <<0, 1, 1, 0, 0>>, <<9, 3, 2, 0, 0>>}}

Deliveries ==
  {<<<<Whole(1), Part(2), Whole(2)>>, <<Whole(3), Whole(4)>>>>,
   <<<<Whole(2), Whole(4), Whole(1)>>, <<Whole(5), Whole(5)>>>>,
   <<<<Whole(1)>>, <<Whole(2), Whole(1), Part(2), Part(4)>>>>,
   <<<<Whole(4)>>, <<Whole(1), Whole(4), Whole(2)>>>>}

MCScenario ==
  [shape : Trees,
   files : {<<<<Whole(3), Part(2), Whole(1), Whole(2)>>,
              <<Whole(1), Whole(2), Whole(3), Part(3), Whole(1)>>>>}]
  \cup [shape : FewTrees, files : Deliveries]

MCInvocation == {<<1>>, <<1, 2>>, <<2, 1, 2>>}
=============================================================================
