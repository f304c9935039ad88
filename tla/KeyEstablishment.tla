-------------------------- MODULE KeyEstablishment --------------------------
(***************************************************************************)
(* What the handshake promises to the program above it, the one that sends *)
(* an OSCORE request when core_run_client has its session: a client that   *)
(* succeeds shares its keys with the server, which bound them before, and  *)
(* with nobody else; an outcome is final.                                  *)
(***************************************************************************)
EXTENDS Integers

CONSTANTS Clients, Exchanges

VARIABLES
    outcome,   \* of each client: running, failed, or established with keys
    bound      \* the exchanges whose keys the server holds

Outcome(state, e) == [state |-> state, exchange |-> e]
Running == Outcome("running", 0)
Failed == Outcome("failed", 0)

Init ==
    /\ outcome = [c \in Clients |-> Running]
    /\ bound = {}

ServerBinds(e) ==
    /\ e \notin bound
    /\ bound' = bound \cup {e}
    /\ UNCHANGED outcome

ClientEstablishes(c, e) ==
    /\ outcome[c] = Running
    /\ e \in bound
    /\ \A d \in Clients : outcome[d] # Outcome("established", e)
    /\ outcome' = [outcome EXCEPT ![c] = Outcome("established", e)]
    /\ UNCHANGED bound

ClientFails(c) ==
    /\ outcome[c] = Running
    /\ outcome' = [outcome EXCEPT ![c] = Failed]
    /\ UNCHANGED bound

Next ==
    \/ \E e \in Exchanges : ServerBinds(e)
    \/ \E c \in Clients : ClientFails(c)
    \/ \E c \in Clients, e \in Exchanges : ClientEstablishes(c, e)

Spec == Init /\ [][Next]_<<outcome, bound>>
=============================================================================
