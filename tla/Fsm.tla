-------------------------------- MODULE Fsm --------------------------------
(***************************************************************************)
(* The run state machine of loop/fsm.py: nine non-terminal states, the     *)
(* terminal marker, the directed edges between active states, and the two  *)
(* rules layered on them (an approval gate can open anywhere after intake, *)
(* and any run can end).  The module has no variables: the reducer and the *)
(* state.json writers both consult it.                                     *)
(***************************************************************************)

TerminalMarker == "terminal"
ApprovalWait == "approval-wait"

NonTerminalStates ==
  {"intake", "plan", "critique-plan", "queue-tasks", "execute-task",
   "verify", "repair", "replan", ApprovalWait}

AllStates == NonTerminalStates \cup {TerminalMarker}

ActiveEdges ==
  { <<"intake", "plan">>, <<"plan", "critique-plan">>,
    <<"critique-plan", "queue-tasks">>, <<"queue-tasks", "execute-task">>,
    <<"execute-task", "verify">>, <<"verify", "execute-task">>,
    <<"verify", "repair">>, <<"repair", "verify">>,
    <<"repair", "replan">>, <<"replan", "queue-tasks">> }

ApprovalResumeTargets ==
  {"plan", "critique-plan", "queue-tasks", "execute-task", "verify",
   "repair", "replan"}

\* The canonical state-changing targets of a state; none from terminal.
LegalTargets(s) ==
  { t \in AllStates \ {s} :
      /\ s \in NonTerminalStates
      /\ \/ t = TerminalMarker
         \/ t = ApprovalWait /\ s # "intake"
         \/ s = ApprovalWait /\ t \in ApprovalResumeTargets
         \/ <<s, t>> \in ActiveEdges }

\* Adjacency of known states; an unknown endpoint deliberately passes.
IsLegalTransition(old, new) ==
  \/ {old, new} \cap AllStates # {old, new}
  \/ old = new
  \/ new \in LegalTargets(old)

\* Where an approved resolution may send the run.
ResumeTargets == LegalTargets(ApprovalWait) \ {TerminalMarker}
=============================================================================
