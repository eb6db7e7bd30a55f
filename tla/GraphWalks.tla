----------------------------- MODULE GraphWalks ------------------------------
(* The walks over graphs the program decides with: topologicalSort(),         *)
(* reachableSubgraph() and buildDag() of core/dag/graph.ts, the batches of    *)
(* core/dag/orchestrator.ts, and the resolution of a template's ancestors.    *)
(* Each runs on every small graph; the order in which a node's references     *)
(* are listed is left open.                                                   *)
EXTENDS Naturals, Sequences, FiniteSets

CONSTANTS Nodes, Root

VARIABLES walk,     \* which of the walks this is
          refs,     \* node |-> the nodes it refers to
          present,  \* nodes that can be looked up
          path,     \* nodes on the current path
          visited,
          frames,   \* the recursion: <<node, references still to visit>>
          degree,   \* incoming edges not yet accounted for
          pending,  \* nodes whose incoming edges are all accounted for
          order,    \* nodes in the order they were taken up
          edges,    \* edges of the graph that was built
          errors,   \* what buildDag() reports
          result    \* "none" while the walk goes on

vars == <<walk, refs, present, path, visited, frames, degree, pending, order, edges, errors, result>>
world == <<walk, refs, present>>
depth == <<path, visited, frames, edges, errors>>

Incoming(n) == {m \in present : n \in refs[m]}

\* A graph has no edge to a node it does not have: only the two walks that
\* look nodes up by name can meet one.
References == {r \in [Nodes -> SUBSET Nodes] :
             \A n \in Nodes : r[n] \subseteq IF n \notin present THEN {}
                                             ELSE IF walk \in {"sort", "reach", "batches"} THEN present ELSE Nodes}

Acyclic(S) == \A T \in SUBSET S \ {{}} : \E n \in T : refs[n] \cap T = {}

Init == /\ walk \in {"sort", "reach", "build", "resolve", "batches"}
        /\ present \in SUBSET Nodes /\ (walk = "resolve" => Root \in present)
        /\ refs \in References
        /\ path = {} /\ visited = {} /\ order = <<>> /\ edges = {} /\ errors = {}
        /\ degree = [n \in Nodes |-> Cardinality(Incoming(n))]
        /\ pending = CASE walk = "sort" -> {n \in present : Incoming(n) = {}}
                       [] walk = "batches" -> present
                       [] OTHER -> {}
        /\ frames = IF walk \in {"sort", "batches"} THEN <<>> ELSE << <<"top", {Root}>> >>
        /\ result = IF walk = "batches" /\ ~Acyclic(present) THEN "cycle" ELSE "none"

Running == result = "none"

----------------------------------------------------------------------------
(* Kahn's algorithm. The queue is taken from in any order.                    *)

Seed(to) == degree'[to] = 0

Sort ==
    /\ walk = "sort" /\ Running
    /\ \E id \in pending :
         /\ order' = Append(order, id)
         /\ degree' = [n \in Nodes |-> IF n \in refs[id] THEN degree[n] - 1 ELSE degree[n]]
         /\ pending' = (pending \ {id}) \cup {n \in refs[id] : Seed(n)}
    /\ UNCHANGED <<depth, result, world>>

Sorted ==
    /\ walk = "sort" /\ Running /\ pending = {}
    /\ result' = IF Len(order) < Cardinality(present) THEN "cycle" ELSE "success"
    /\ UNCHANGED <<depth, degree, pending, order, world>>

----------------------------------------------------------------------------
(* The orchestrator runs every task whose dependencies have succeeded, all of *)
(* a batch at once, until none is left that could run. The path holds the     *)
(* tasks that ran, visited those that succeeded.                              *)

Satisfied(n) == refs[n] \subseteq visited
InBatch == {n \in pending : Satisfied(n)}

Batch ==
    /\ walk = "batches" /\ Running /\ InBatch # {}
    /\ \E ok \in SUBSET InBatch :
         visited' = visited \cup ok /\ errors' = errors \cup (InBatch \ ok)
    /\ path' = path \cup InBatch
    /\ pending' = pending \ InBatch
    /\ UNCHANGED <<frames, degree, order, edges, result, world>>

Unsatisfied ==
    /\ walk = "batches" /\ Running /\ InBatch = {}
    /\ errors' = errors \cup pending
    /\ result' = IF errors' = {} THEN "success" ELSE "failed"
    /\ UNCHANGED <<path, visited, frames, degree, pending, order, edges, world>>

----------------------------------------------------------------------------
(* The depth-first walks                                                      *)

Top == frames[Len(frames)]
Rest == SubSeq(frames, 1, Len(frames) - 1)
Left(id) == Append(Rest, <<Top[1], Top[2] \ {id}>>)
Edge(id) == IF Top[1] = "top" \/ walk = "resolve" THEN edges ELSE edges \cup {<<Top[1], id>>}

OnPath(id) == id \in path

Circular(id) ==
    /\ OnPath(id)
    /\ IF walk = "build" THEN errors' = errors \cup {"cycle"} /\ result' = "none" /\ edges' = Edge(id)
       ELSE result' = "cycle" /\ UNCHANGED <<errors, edges>>
    /\ frames' = Left(id)
    /\ UNCHANGED <<path, visited, order>>

Seen(id) ==
    /\ ~OnPath(id) /\ id \in visited
    /\ frames' = Left(id) /\ edges' = Edge(id)
    /\ UNCHANGED <<path, visited, order, errors, result>>

\* A template that is missing is never taken off the path again.
Missing(id) ==
    /\ ~OnPath(id) /\ id \notin visited /\ id \notin present
    /\ result' = IF walk = "reach" THEN "missing" ELSE "none"
    /\ errors' = IF walk = "build" THEN errors \cup {id} ELSE errors
    /\ path' = IF walk = "resolve" THEN path \cup {id} ELSE path
    /\ frames' = Left(id)
    /\ UNCHANGED <<visited, order, edges>>

Fresh(id) ==
    /\ ~OnPath(id) /\ id \notin visited /\ id \in present
    /\ path' = path \cup {id}
    /\ order' = Append(order, id)
    /\ visited' = IF walk = "resolve" THEN visited ELSE visited \cup {id}
    /\ frames' = Append(Left(id), <<id, refs[id]>>)
    /\ edges' = Edge(id)
    /\ UNCHANGED <<errors, result>>

Visit ==
    /\ frames # <<>> /\ Running
    /\ \E id \in Top[2] : Circular(id) \/ Seen(id) \/ Missing(id) \/ Fresh(id)
    /\ UNCHANGED <<degree, pending, world>>

\* All references of a node are visited.
Off(id) == path \ {id}
Leave ==
    /\ frames # <<>> /\ Running /\ Top[2] = {}
    /\ path' = Off(Top[1])
    /\ visited' = visited \cup ({Top[1]} \ {"top"})
    /\ frames' = Rest
    /\ result' = IF Rest = <<>> THEN "success" ELSE "none"
    /\ UNCHANGED <<order, edges, errors, degree, pending, world>>

Next == Sort \/ Sorted \/ Batch \/ Unsatisfied \/ Visit \/ Leave

Spec == Init /\ [][Next]_vars

----------------------------------------------------------------------------
(* The reference definitions                                                  *)

Reached == {n \in Nodes : \A S \in SUBSET Nodes :
              (Root \in S /\ \A m \in S : refs[m] \subseteq S) => n \in S}
Live == Reached \cap present
Ordered == \A i, j \in DOMAIN order : i < j => order[i] # order[j] /\ order[i] \notin refs[order[j]]

\* A sort succeeds exactly on the graphs without a cycle, and then lists every
\* node, once, before the nodes its edges lead to.
SortSound ==
    walk = "sort" /\ ~Running =>
        /\ (result = "success") <=> Acyclic(present)
        /\ result = "success" => Ordered /\ {order[i] : i \in DOMAIN order} = present

\* The orchestrator runs a task exactly if all it depends on succeeded, and
\* accounts for every task: it succeeds only if all of them did.
BatchesSound ==
    walk = "batches" /\ ~Running /\ result # "cycle" =>
        /\ path = {n \in present : refs[n] \subseteq visited}
        /\ visited \cup errors = present /\ visited \cap errors = {}
        /\ (result = "success") <=> visited = present

\* A depth-first walk reports a cycle if and only if there is one to reach,
\* however often it meets a node by different ways; otherwise it returns all
\* that can be reached and the edges between. buildDag() goes on after an
\* error and reports all the nodes that are missing. Template resolution is
\* right as long as no ancestor is missing.
WalkSound ==
    ~Running =>
        CASE walk \in {"sort", "batches"} -> TRUE
          [] walk = "reach" ->
               /\ (result = "success") <=> (Root \in present /\ Acyclic(Live))
               /\ result = "success" => /\ visited = Live
                                        /\ edges = {e \in Live \X Live : e[2] \in refs[e[1]]}
          [] walk = "build" ->
               /\ ("cycle" \in errors) <=> ~Acyclic(Live)
               /\ errors \ {"cycle"} = Reached \ present
               /\ visited = Live
               /\ edges = {e \in Live \X Live : e[2] \in refs[e[1]]}
          [] walk = "resolve" ->
               Reached \subseteq present =>
                   /\ (result = "success") <=> Acyclic(Live)
                   /\ result = "success" => /\ {order[i] : i \in DOMAIN order} = Live
                                            /\ Len(order) = Cardinality(Live)
=============================================================================
