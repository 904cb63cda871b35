------------------------------- MODULE Breaker -------------------------------
(***************************************************************************)
(* The billing circuit breaker (infra/billing-breaker).  Budget            *)
(* notifications come late, twice and out of order, and each is delivered  *)
(* once: the trigger does not retry (deploy.sh, deployment_checks.py), so  *)
(* what the handler fails on is gone and the next periodic notification is *)
(* the next attempt.  Cloud Billing, Pub/Sub and the billing API are       *)
(* external.                                                               *)
(***************************************************************************)
EXTENDS Naturals

CONSTANTS
    Budget,         \* budgetAmount of the expected budget
    MaxCost         \* bound on the cost

ASSUME BreakerAssumption == Budget \in Nat \ {0} /\ MaxCost \in Nat

VARIABLES
    cost,           \* what the project has cost
    topic,          \* notifications not delivered yet
    detached        \* the project has no billing account

breakerVars == <<cost, topic, detached>>

-----------------------------------------------------------------------------
(* The project costs while its billing account is attached.                *)
Spend ==
    /\ ~detached /\ cost < MaxCost
    /\ cost' = cost + 1
    /\ UNCHANGED <<topic, detached>>

(* Cloud Billing publishes the cost so far, again and again; one of its    *)
(* earlier notifications may come late or a second time; another budget on *)
(* the topic has its own, and so do malformed payloads.                    *)
PublishCost ==
    /\ topic' = topic \cup {[budget |-> "expected", cost |-> cost]}
    /\ UNCHANGED <<cost, detached>>

LateCopy(n) ==
    /\ n <= cost
    /\ topic' = topic \cup {[budget |-> "expected", cost |-> n]}
    /\ UNCHANGED <<cost, detached>>

PublishOther(n) ==
    /\ topic' = topic \cup {[budget |-> "other", cost |-> n]}
    /\ UNCHANGED <<cost, detached>>

(* parse_budget_notification refuses every payload but the expected one.   *)
Parses(m) == m.budget = "expected"

(* Fault: the budget itself counts as below.                               *)
AboveBudget(m) == m.cost > Budget

AtOrOver(m) == m.cost >= Budget

(* An invalid notification, or one below the budget, changes nothing.      *)
Acknowledge(m) ==
    /\ m \in topic /\ ~(Parses(m) /\ AtOrOver(m))
    /\ topic' = topic \ {m}
    /\ UNCHANGED <<cost, detached>>

Detach(m) ==
    /\ m \in topic /\ Parses(m) /\ AtOrOver(m)
    /\ detached' = TRUE
    /\ topic' = topic \ {m}
    /\ UNCHANGED cost

(* The API refuses, or does not confirm what it may have done: the handler *)
(* raises, and the notification is lost.                                   *)
DetachFails(m) ==
    /\ m \in topic /\ Parses(m) /\ AtOrOver(m)
    /\ detached' \in {detached, TRUE}
    /\ topic' = topic \ {m}
    /\ UNCHANGED cost

-----------------------------------------------------------------------------
BreakerInit == cost = 0 /\ topic = {} /\ detached = FALSE

BreakerNext ==
    \/ Spend \/ PublishCost
    \/ \E n \in 0 .. MaxCost : LateCopy(n) \/ PublishOther(n)
    \/ \E m \in topic : Acknowledge(m) \/ Detach(m) \/ DetachFails(m)

(* Cloud Billing keeps publishing the cost, and of the attempts that are   *)
(* made again and again not every one fails.  Nothing is delivered again   *)
(* because it failed.                                                      *)
BreakerFairness ==
    /\ WF_breakerVars(PublishCost)
    /\ SF_breakerVars(\E m \in topic : Detach(m))

BreakerSpec == BreakerInit /\ [][BreakerNext]_breakerVars /\ BreakerFairness

-----------------------------------------------------------------------------
(***************************************************************************)
(* Billing is detached only of a project that reached its budget, whatever *)
(* else the topic carries (handle_budget_notification).                    *)
(***************************************************************************)
NoFalseTrip == detached => cost >= Budget

(***************************************************************************)
(* A project that reached its budget is detached although attempts fail    *)
(* and the notifications they were made on are lost, and although others   *)
(* come late, twice or out of order (handle_budget_notification raises;    *)
(* the next periodic notification is the next attempt).                    *)
(***************************************************************************)
OverBudgetTrips == (cost >= Budget) ~> detached
=============================================================================
