----------------------------- MODULE TurnLedger -----------------------------
(***************************************************************************)
(* What turn idempotency promises, without locks, clocks or processes: a   *)
(* turn (one idempotency key) has at most one running attempt, and the     *)
(* result of the first attempt that succeeds is the turn's result for good.*)
(***************************************************************************)
CONSTANTS Requests, Keys, NoRequest

VARIABLES
    running,    \* the attempts of each turn that may still change it
    committed   \* the attempt whose result is stored, or NoRequest

ledgerVars == <<running, committed>>

Init ==
    /\ running = [k \in Keys |-> {}]
    /\ committed = [k \in Keys |-> NoRequest]

Begin(k, r) ==
    /\ running[k] = {} /\ committed[k] = NoRequest
    /\ running' = [running EXCEPT ![k] = {r}]
    /\ UNCHANGED committed

Commit(k, r) ==
    /\ running[k] = {r}
    /\ running' = [running EXCEPT ![k] = {}]
    /\ committed' = [committed EXCEPT ![k] = r]

\* Attempts fail, are cancelled, or die with their process, several at once.
GiveUp ==
    /\ \E K \in SUBSET Keys :
          running' = [k \in Keys |-> IF k \in K THEN {} ELSE running[k]]
    /\ UNCHANGED committed

Next ==
    \/ \E k \in Keys, r \in Requests : Begin(k, r) \/ Commit(k, r)
    \/ GiveUp

Spec == Init /\ [][Next]_ledgerVars
=============================================================================
