------------------------------ MODULE AppendLog ------------------------------
(* What an event store promises to its callers: one log per run, to which   *)
(* whole entries are added at the end and from which nothing is taken or     *)
(* changed. An event id is used once in the whole store.                     *)
EXTENDS Naturals, Sequences

CONSTANTS Runs, Entries

VARIABLE logs

IdUsed(id) == \E r \in Runs : \E i \in DOMAIN logs[r] : logs[r][i].id = id

Init == logs \in [ Runs -> Seq(Entries) ]

Add(r, e) ==
  /\ ~IdUsed(e.id)
  /\ logs' = [ logs EXCEPT ![r] = Append(@, e) ]

Next == \E r \in Runs, e \in Entries : Add(r, e)

Spec == Init /\ [][Next]_logs
=============================================================================
