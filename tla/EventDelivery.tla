----------------------------- MODULE EventDelivery -----------------------------
(***************************************************************************)
(* What the backend promises for the events of the AI server: an event is  *)
(* stored together with its incident, an incident is made once and         *)
(* announced to the browsers at most once and not before it is stored, and *)
(* an event is acknowledged only when it is stored.                        *)
(***************************************************************************)
EXTENDS Naturals

CONSTANTS AllEvents, Codes, Code  \* Code[e]: the incident code of event e

VARIABLES
  stored,     \* events with a row in ai_events
  filed,      \* codes with an incident
  announced,  \* how often each incident was announced
  acked       \* events whose sender was told that they are stored

deliveryVars == <<stored, filed, announced, acked>>

DeliveryInit ==
  /\ stored = {} /\ filed = {} /\ acked = {}
  /\ announced = [i \in Codes |-> 0]

Store(e) ==
  /\ stored' = stored \cup {e}
  /\ filed' = filed \cup {Code[e]}
  /\ UNCHANGED <<announced, acked>>

File(i) ==
  /\ i \notin filed
  /\ filed' = filed \cup {i}
  /\ UNCHANGED <<stored, announced, acked>>

Announce(i) ==
  /\ i \in filed /\ announced[i] = 0
  /\ announced' = [announced EXCEPT ![i] = 1]
  /\ UNCHANGED <<stored, filed, acked>>

Acknowledge(e) ==
  /\ e \in stored
  /\ acked' = acked \cup {e}
  /\ UNCHANGED <<stored, filed, announced>>

DeliveryNext ==
  \/ \E e \in AllEvents : Store(e) \/ Acknowledge(e)
  \/ \E i \in Codes : File(i) \/ Announce(i)

DeliverySpec == DeliveryInit /\ [][DeliveryNext]_deliveryVars
=============================================================================
