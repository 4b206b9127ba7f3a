--------------------------------- MODULE Corpus ---------------------------------
(***************************************************************************)
(* corpus.py: the labelled pairs of runs that dpk demo and the benchmark   *)
(* score the aligner on.  A case is [base, comparison, expected]; an       *)
(* expected finding is what the extractor of Reports would report.         *)
(***************************************************************************)
EXTENDS Reports

Step(type, value, priority, parent) ==
  [type |-> type, value |-> value, priority |-> priority, parent |-> parent,
   engine |-> "Agent"]

FileIO(file) == Step("fileIO", file, Structural, NoParent)
Tool(name) == Step("tool", name, Structural, NoParent)
Decision(action) == Step("decision", action, Critical, NoParent)
Planning(hypothesis) == Step("planning", hypothesis, Diagnostic, NoParent)

Within(span, step) == [step EXCEPT !.parent = span]

RemovedFinding(type) == [kind |-> "criticalStepRemoved", base |-> type]
EvolvedFinding(type) == [kind |-> "semanticEvolution", base |-> type, comp |-> type]
MovedFinding(type, from, to) ==
  [kind |-> "reorderedExecution", base |-> type, from |-> from, to |-> to]
RiskFinding(reason) ==
  [kind |-> "regressionRisk", level |-> "high", strength |-> reason, reasoning |-> {}]

Case(base, comparison, expected) ==
  [base |-> base, comparison |-> comparison, expected |-> expected]

-----------------------------------------------------------------------------
(* The standard corpus.  Sequence numbers count from 1 here, from 0 there. *)

CodingAgentRegression ==
  Case(<<FileIO("App"), Tool("SearchDocs"), Decision("ValidateAPI"),
         Decision("GenerateFix"), Tool("VerifyFix")>>,
       <<FileIO("App"), Decision("GenerateFix")>>,
       <<RemovedFinding("decision"), RiskFinding("removed")>>)

SemanticEvolution ==
  Case(<<Tool("SearchDocumentation")>>, <<Tool("LookupAPIDocs")>>,
       <<EvolvedFinding("tool")>>)

Reordering ==
  Case(<<FileIO("Config"), Tool("SearchDocs"), Decision("GenerateFix")>>,
       <<Tool("SearchDocs"), FileIO("Config"), Decision("GenerateFix")>>,
       <<MovedFinding("fileIO", 1, 2), MovedFinding("tool", 2, 1)>>)

BranchCollapse ==
  Case(<<Decision("Investigate"), Within("s1", Planning("A")),
         Within("s1", Planning("B")), Within("s1", Planning("C"))>>,
       <<Decision("Investigate"), Within("s2", Planning("A")),
         Within("s2", Planning("C"))>>,
       <<>>)

CachingMutation ==
  Case(<<Decision("UserLogin"), Tool("FetchProfile"), Decision("RenderDashboard")>>,
       <<Decision("UserLogin"), Tool("FetchCachedProfile"), Decision("RenderDashboard")>>,
       <<EvolvedFinding("tool")>>)

NoiseInjection ==
  Case(<<Tool("FetchProfile"), Decision("RenderDashboard")>>,
       <<Tool("FetchProfile"), Planning("Log"), Decision("RenderDashboard")>>,
       <<>>)

SemanticDrift ==
  Case(<<Decision("PaymentAuthorization")>>, <<Decision("PaymentPrecheck")>>,
       <<EvolvedFinding("decision")>>)

DegenerateTraces == Case(<<>>, <<>>, <<>>)

Dataset ==
  <<CodingAgentRegression, SemanticEvolution, Reordering, BranchCollapse,
    CachingMutation, NoiseInjection, SemanticDrift, DegenerateTraces>>

(* Dependency inversion, causal ambiguity, truncation, substitution and    *)
(* two tools collapsed into one.                                           *)
AdversarialDataset ==
  <<Case(<<Decision("CreateCustomer"), Decision("GenerateInvoice")>>,
         <<Decision("GenerateInvoice"), Decision("CreateCustomer")>>,
         <<MovedFinding("decision", 1, 2), MovedFinding("decision", 2, 1),
           RiskFinding("reordered")>>),
    Case(<<Tool("Search"), Tool("Search")>>, <<Tool("Search"), Tool("Search")>>, <<>>),
    Case(<<Decision("Auth"), Decision("Commit")>>, <<Decision("Auth")>>,
         <<RemovedFinding("decision"), RiskFinding("removed")>>),
    Case(<<Tool("FetchUserProfile")>>, <<Tool("RecomputeProfileFromEvents")>>,
         <<EvolvedFinding("tool")>>),
    Case(<<Tool("GetLocation"), Tool("GetWeather")>>, <<Tool("GetLocationAndWeather")>>,
         <<EvolvedFinding("tool")>>)>>

Cases == Dataset \o AdversarialDataset

(* The engine the corpus is scored with: cli.py _make_engine.              *)
BenchmarkProfile == [DeveloperDebug EXCEPT !.alike = StandardEvaluator]
=============================================================================
