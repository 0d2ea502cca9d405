---------------------------- MODULE SerialExecution ----------------------------
(***************************************************************************)
(* What an Agent's executions are to one another: each Run is admitted     *)
(* when no other is under way, has one process at most, and gives way once *)
(* nothing is left that touches the workspace or an active Run.  This is   *)
(* where AgentLifecycle and RunExecution meet: the one has requests,       *)
(* failing writes and restarts decide when a Run is admitted, and one step *)
(* for all its process does; the other has the process, and admits a Run   *)
(* when it may.  It speaks of what the living server executes: the         *)
(* execution of a server that died is over here, even while its child runs *)
(* on.                                                                     *)
(***************************************************************************)
CONSTANT Runs

VARIABLE state  \* Run -> where its execution stands

UnderWay(r) == state[r] \in {"admitted", "running", "ended"}

Init == state = [r \in Runs |-> "new"]

Becomes(r, next) == state' = [state EXCEPT ![r] = next]

Admit(r) ==
    /\ state[r] = "new"
    /\ \A s \in Runs : ~UnderWay(s)
    /\ Becomes(r, "admitted")

Launch(r) == state[r] = "admitted" /\ Becomes(r, "running")

\* The process is over, or was never launched.
End(r) == state[r] \in {"admitted", "running"} /\ Becomes(r, "ended")

\* The Run has its verdict, or the server died.
Leave(r) == UnderWay(r) /\ Becomes(r, "over")

Next == \E r \in Runs : Admit(r) \/ Launch(r) \/ End(r) \/ Leave(r)

Spec == Init /\ [][Next]_state
=============================================================================
