------------------------------ MODULE PlanLint ------------------------------
(* The lint of a plan's task graph (loop/plan.py): duplicate ids, unknown    *)
(* dependencies, undeclared approval gates, and the iterative depth-first    *)
(* search for a dependency cycle, one step of its loop at a time.            *)
EXTENDS Naturals, Sequences

CONSTANTS
  Names,     \* the strings a plan uses for tasks
  Ids,       \* the ids of the tasks, in document order
  Deps,      \* edges: what the last task with an id depends on
  Joins      \* join_on of the task at each position of Ids

ASSUME PlanAssumption ==
  /\ Ids \in Seq(Names)
  /\ Deps \in [ Names -> Seq(Names) ]
  /\ Joins \in Seq(Seq(Names))

Known == { Ids[i] : i \in DOMAIN Ids }

-----------------------------------------------------------------------------
(* Findings about ids.                                                       *)

DuplicateIds == { Ids[i] : i \in { j \in DOMAIN Ids : \E k \in 1 .. j - 1 : Ids[k] = Ids[j] } }

UnknownDependencies ==
  (UNION { { Deps[Ids[i]][k] : k \in DOMAIN Deps[Ids[i]] }
           \cup { Joins[i][k] : k \in DOMAIN Joins[i] } : i \in DOMAIN Ids }) \ Known

\* gates: the approval_gate of each approval task; declared: approval_gates.
GateFindings(gates, declared) ==
  IF gates # {} /\ declared = {} THEN { "missing_approval_gates" }
  ELSE IF gates \subseteq declared THEN {} ELSE { "unknown_approval_gate" }

-----------------------------------------------------------------------------
(* The search.  at is the position of a node's iterator over its edges.      *)

Frames == [ node : Known, at : Nat \ {0} ]

Searches ==
  [ next : Nat \ {0}, color : [ Known -> {"white", "gray", "black"} ],
    stack : Seq(Frames), cyclic : SUBSET Known ]

FirstSearch ==
  [ next |-> 1, color |-> [ t \in Known |-> "white" ], stack |-> << >>, cyclic |-> {} ]

Frame(t) == [ node |-> t, at |-> 1 ]
Under(s) == SubSeq(s.stack, 1, Len(s.stack) - 1)
Top(s) == s.stack[Len(s.stack)]
Edges(s) == Deps[Top(s).node]

\* The stack with the top's iterator moved on.
Moved(s) == Append(Under(s), [ Top(s) EXCEPT !.at = @ + 1 ])

\* The next start that is still white, if any.
StartAt(s) ==
  IF s.color[Ids[s.next]] # "white" THEN [ s EXCEPT !.next = @ + 1 ]
  ELSE [ s EXCEPT !.next = @ + 1, !.color[Ids[s.next]] = "gray",
                  !.stack = << Frame(Ids[s.next]) >> ]

\* Not advanced: every edge of the top is explored.
Leave(s) == [ s EXCEPT !.color[Top(s).node] = "black", !.stack = Under(s) ]

Follow(s, dep) ==
  IF dep \notin Known \/ s.color[dep] = "black" THEN [ s EXCEPT !.stack = Moved(s) ]
  ELSE IF s.color[dep] = "gray"
       THEN [ s EXCEPT !.stack = Moved(s), !.cyclic = @ \cup { Top(s).node, dep } ]
       ELSE [ s EXCEPT !.stack = Append(Moved(s), Frame(dep)), !.color[dep] = "gray" ]

Done(s) == s.stack = << >> /\ s.next > Len(Ids)

Step(s) ==
  IF s.stack = << >> THEN IF Done(s) THEN s ELSE StartAt(s)
  ELSE IF Top(s).at > Len(Edges(s)) THEN Leave(s)
  ELSE Follow(s, Edges(s)[Top(s).at])

\* The search after n steps.
SearchAfter[ n \in Nat ] ==
  IF n = 0 THEN FirstSearch ELSE LET s == SearchAfter[n - 1] IN Step(s)

-----------------------------------------------------------------------------

\* What a cycle is: tasks that each depend on one of them.
HasCycle ==
  \E S \in SUBSET Known :
    /\ S # {}
    /\ \A t \in S : \E i \in DOMAIN Deps[t] : Deps[t][i] \in S

\* The search ends within n steps and reports a cycle exactly when there is
\* one, and only tasks that reach one.
SearchDecides(n) ==
  LET s == SearchAfter[n] IN Done(s) /\ ((s.cyclic # {}) <=> HasCycle)
=============================================================================
