----------------------------- MODULE JobPromise -----------------------------
(***************************************************************************)
(* What the durable job queue promises about a job, without workers,       *)
(* leases or attempts: its handlers get their receipts in order, a         *)
(* receipt stays, and "completed" is said once, for good, and only of a    *)
(* job whose handlers all have one.                                        *)
(***************************************************************************)
EXTENDS Naturals

CONSTANTS Jobs, HandlerCount

VARIABLES
    phase,      \* "absent", "open", "failed" or "completed", for each job
    receipt     \* handlers with a completed receipt, for each job

promiseVars == <<phase, receipt>>

Init ==
    /\ phase = [j \in Jobs |-> "absent"]
    /\ receipt = [j \in Jobs |-> {}]

Publish(j) ==
    /\ phase[j] = "absent"
    /\ phase' = [phase EXCEPT ![j] = "open"]
    /\ UNCHANGED receipt

Receive(j, h) ==
    /\ phase[j] # "absent"
    /\ 1 .. h - 1 \subseteq receipt[j]
    /\ receipt' = [receipt EXCEPT ![j] = @ \cup {h}]
    /\ UNCHANGED phase

Complete(j) ==
    /\ phase[j] \in {"open", "failed"}
    /\ receipt[j] = 1 .. HandlerCount
    /\ phase' = [phase EXCEPT ![j] = "completed"]
    /\ UNCHANGED receipt

GiveUp(j) ==
    /\ phase[j] = "open"
    /\ phase' = [phase EXCEPT ![j] = "failed"]
    /\ UNCHANGED receipt

Next ==
    \E j \in Jobs :
        \/ Publish(j) \/ Complete(j) \/ GiveUp(j)
        \/ \E h \in 1 .. HandlerCount : Receive(j, h)

Spec == Init /\ [][Next]_promiseVars
=============================================================================
