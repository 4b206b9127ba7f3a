------------------------------ MODULE LangChain ------------------------------
(***************************************************************************)
(* DProvenanceCallbackHandler of integrations/langchain.py: one handler,   *)
(* without a lock, called by the threads of a chain.  A callback records   *)
(* its event and only then touches the table of start events, so that the  *)
(* callbacks of other nodes come in between.                               *)
(*                                                                         *)
(* The framework is external: a node (run_id) starts under an open parent, *)
(* its callbacks come one after another, and a parent may be finished      *)
(* while a child is still running, but not inside the child's on_start.    *)
(***************************************************************************)
EXTENDS RunLog

CONSTANTS Node, NoNode,
  MaxPoints          \* bound: agent actions and finishes recorded

(* fw: phase, parent and chain of each node, points so far.                *)
(* mem: the options link_lifecycle and record_chains, and _start_event.    *)
Init ==
  /\ log = <<>> /\ edges = <<>>
  /\ fw = [phase |-> [n \in Node |-> "idle"], parent |-> [n \in Node |-> NoNode],
           chain |-> [n \in Node |-> FALSE], points |-> 0]
  /\ \E link, chains \in BOOLEAN :
        mem = [link |-> link, chains |-> chains,
               startEvent |-> [n \in Node |-> NoId]]

Recorded(chain) == mem.chains \/ ~ chain

(* on_chain_start and on_llm_start, on_tool_start, ...: record.            *)
OnStart(n, parent, chain) ==
  /\ fw.phase[n] = "idle" /\ parent # n
  /\ parent # NoNode => fw.phase[parent] = "open"
  /\ fw' = [fw EXCEPT !.phase[n] = IF Recorded(chain) THEN "starting" ELSE "open",
                      !.parent[n] = parent, !.chain[n] = chain]
  /\ IF Recorded(chain) THEN Record(Event("run", "start", n, parent, n))
                        ELSE UNCHANGED log
  /\ UNCHANGED <<edges, mem>>

(* The rest of _on_start: the table, then the edge from the parent.        *)
Started(n) ==
  LET id == Max(Of("start", n))
      table == [mem.startEvent EXCEPT ![n] = id]
      parent == fw.parent[n]
  IN
  /\ fw.phase[n] = "starting"
  /\ fw' = [fw EXCEPT !.phase[n] = "open"]
  /\ mem' = [mem EXCEPT !.startEvent = table]
  /\ edges' = edges \o IF mem.link /\ parent # NoNode
                       THEN Edge(table[parent], id, "INFORMED") ELSE <<>>
  /\ UNCHANGED log

(* on_*_end and on_*_error: record.                                        *)
OnFinish(n) ==
  /\ fw.phase[n] = "open"
  /\ \A c \in Node : fw.parent[c] = n => fw.phase[c] # "starting"
  /\ fw' = [fw EXCEPT !.phase[n] = IF Recorded(fw.chain[n]) THEN "finishing"
                                                            ELSE "done"]
  /\ IF Recorded(fw.chain[n]) THEN Record(Event("run", "end", n, fw.parent[n], n))
                              ELSE UNCHANGED log
  /\ UNCHANGED <<edges, mem>>

(* The rest of _on_finish: without link the entry is never popped.         *)
Finished(n) ==
  /\ fw.phase[n] = "finishing"
  /\ fw' = [fw EXCEPT !.phase[n] = "done"]
  /\ IF mem.link
     THEN /\ edges' = edges \o Edge(mem.startEvent[n], Max(Of("end", n)), "DERIVED_FROM")
          /\ mem' = [mem EXCEPT !.startEvent[n] = NoId]
     ELSE UNCHANGED <<edges, mem>>
  /\ UNCHANGED log

(* on_agent_action, on_agent_finish: also when chains are not recorded.    *)
OnAgent(n) ==
  /\ fw.phase[n] = "open" /\ fw.chain[n] /\ fw.points < MaxPoints
  /\ fw' = [fw EXCEPT !.points = @ + 1]
  /\ Record(Event("run", "point", n, fw.parent[n], n))
  /\ UNCHANGED <<edges, mem>>

Next ==
  \/ \E n \in Node, parent \in Node \cup {NoNode}, chain \in BOOLEAN :
        OnStart(n, parent, chain)
  \/ \E n \in Node : Started(n) \/ OnFinish(n) \/ Finished(n) \/ OnAgent(n)

Spec == Init /\ [][Next]_logVars

-----------------------------------------------------------------------------
Settled(i) == fw.phase[log[i].span] \notin {"starting", "finishing"}

(* Links are exact once a callback has returned: a child is informed by    *)
(* its parent unless the parent had finished or is not recorded.           *)
Complete ==
  mem.link => \A i, j \in DOMAIN log : Settled(i) /\ Settled(j) =>
     DerivedOnce(i, j) /\ (IsChildOf(j, i) /\ OpenAt(i, j) => InformedOnce(i, j))

(* The table holds the recorded nodes that are open, and no others.        *)
Current ==
  mem.link => \A n \in Node :
    mem.startEvent[n] # NoId <=>
      fw.phase[n] \in {"open", "finishing"} /\ Recorded(fw.chain[n])
=============================================================================
