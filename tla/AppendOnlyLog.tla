---------------------------- MODULE AppendOnlyLog ----------------------------
(***************************************************************************)
(* What EvidenceLedger promises its callers: one log per chain, which only *)
(* grows at its end, by the event of an append that is acknowledged; an    *)
(* append that is refused leaves no trace.  It promises this as long as    *)
(* nothing but the ledger has put a line there.                            *)
(***************************************************************************)
EXTENDS Sequences

CONSTANTS Chains, Events, ChainOf

VARIABLES
    log,      \* Chain -> the events recorded on it
    answer,   \* Event -> what the caller of append was told
    disturbed \* something else has

vars == <<log, answer, disturbed>>

Init ==
    /\ log = [c \in Chains |-> << >>]
    /\ answer = [e \in Events |-> "none"]
    /\ disturbed = FALSE

Record(e) ==
    /\ answer[e] = "none"
    /\ log' = [log EXCEPT ![ChainOf[e]] = Append(@, e)]
    /\ answer' = [answer EXCEPT ![e] = "recorded"]

Refuse(e) ==
    /\ answer[e] = "none"
    /\ answer' = [answer EXCEPT ![e] = "refused"]
    /\ UNCHANGED log

Next ==
    \/ ~disturbed' /\ ~disturbed /\ \E e \in Events : Record(e) \/ Refuse(e)
    \/ disturbed'

Spec == Init /\ [][Next]_vars
=============================================================================
