------------------------------ MODULE MCWorkflow ------------------------------
(***************************************************************************)
(* Small workflows for WorkflowEngine: each has a case that another lacks.  *)
(***************************************************************************)
EXTENDS WorkflowEngine

MCNodes == 1..5

Flow(kind, again, edges) ==
  [nodes |-> DOMAIN kind, kind |-> kind, again |-> again,
   edges |-> {[from |-> e[1], type |-> e[2], to |-> e[3]] : e \in edges}]

\* Two nodes to begin with, and one that waits for both.
Meet == Flow(<<"work", "work", "work">>, {}, {<<1, "sequence", 3>>, <<2, "sequence", 3>>})

\* A condition with a branch of two nodes and one of one node that meet, and a
\* node that only reads data.
Choice == Flow(<<"condition", "work", "work", "work", "work">>, {},
  {<<1, "true", 2>>, <<2, "sequence", 3>>, <<1, "false", 4>>, <<3, "sequence", 5>>,
   <<4, "sequence", 5>>})
Reader == Flow(<<"condition", "work", "work", "work">>, {},
  {<<1, "true", 2>>, <<1, "false", 3>>, <<2, "data", 4>>})

\* Two branches that meet in the body, and a node after it; two branches of a
\* node that is tried again; one branch.
Fan == Flow(<<"parallel", "work", "work", "work", "work">>, {2},
  {<<1, "sequence", 2>>, <<1, "sequence", 3>>, <<2, "sequence", 4>>,
   <<3, "sequence", 4>>, <<1, "true", 5>>})
Fork == Flow(<<"parallel", "work", "work">>, {1}, {<<1, "sequence", 2>>, <<1, "sequence", 3>>})
Solo == Flow(<<"parallel", "work">>, {}, {<<1, "sequence", 2>>})

\* A loop with a condition in its body, and a "while" with a parallel node.
Loop == Flow(<<"loop", "condition", "work", "work">>, {3},
  {<<1, "loop", 2>>, <<2, "true", 3>>, <<1, "sequence", 4>>})
While == Flow(<<"while", "parallel", "work">>, {1},
  {<<1, "loop", 2>>, <<2, "sequence", 3>>})

\* One branch leads to the entry of another: not structured.
Early == Flow(<<"parallel", "work", "work">>, {},
  {<<1, "sequence", 2>>, <<1, "sequence", 3>>, <<2, "sequence", 3>>})

\* No way out of a cycle; a loop without a body.
Cyclic == Flow(<<"work", "work">>, {}, {<<1, "sequence", 2>>, <<2, "data", 1>>})
Bodiless == Flow(<<"loop", "work">>, {}, {<<1, "sequence", 2>>})

MCWorkflows == {Meet, Choice, Reader, Fan, Fork, Loop, While, Cyclic, Bodiless, Solo,
                 Early}

MCMaxLive == [g \in MCWorkflows |-> IF g = Solo THEN 2 ELSE 1]
MCMaxRuns == [g \in MCWorkflows |-> IF g \in {Meet, Bodiless} THEN 2 ELSE 1]

=============================================================================
