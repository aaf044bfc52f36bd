----------------------------- MODULE IntentPromise -----------------------------
(***************************************************************************)
(* What an intent log promises to whoever makes a change in several steps:  *)
(* from the moment WriteIntent returns the intent is not forgotten.  Either *)
(* it is confirmed, or a later life of the process hands it to the handler  *)
(* and settles it before it serves anybody.  What is settled is not handed  *)
(* to the handler again.                                                    *)
(***************************************************************************)
CONSTANT Transaction

VARIABLES
    state,      \* [Transaction -> {"none", "open", "settled"}]
    undone,     \* the Transactions given to the handler
    serving     \* the process is up and takes commands

vars == <<state, undone, serving>>

TypeOK ==
    /\ state \in [Transaction -> {"none", "open", "settled"}]
    /\ undone \subseteq Transaction
    /\ serving \in BOOLEAN

Init ==
    /\ state = [t \in Transaction |-> "none"]
    /\ undone = {}
    /\ serving = TRUE

(* An intent may also get into the log whole and its writer die before it   *)
(* learns of it.                                                            *)
WriteIntent(t) ==
    /\ serving
    /\ state[t] = "none"
    /\ state' = [state EXCEPT ![t] = "open"]
    /\ UNCHANGED <<undone, serving>>

Settle(t) ==
    /\ state[t] = "open"
    /\ serving \/ t \in undone
    /\ state' = [state EXCEPT ![t] = "settled"]
    /\ UNCHANGED <<undone, serving>>

Handle(t) ==
    /\ ~serving
    /\ state[t] = "open"
    /\ undone' = undone \cup {t}
    /\ UNCHANGED <<state, serving>>

Die ==
    /\ serving' = FALSE
    /\ UNCHANGED <<state, undone>>

Serve ==
    /\ \A t \in Transaction : state[t] # "open"
    /\ serving' = TRUE
    /\ UNCHANGED <<state, undone>>

Next ==
    \/ \E t \in Transaction : WriteIntent(t) \/ Settle(t) \/ Handle(t)
    \/ Die
    \/ Serve

Spec == Init /\ [][Next]_vars
=============================================================================
