---------------------------- MODULE DispatchGate ----------------------------
(***************************************************************************)
(* What the Gemini Security Proxy promises the trusted parent that owns    *)
(* the credential: requests may be sent upstream only while the gate is    *)
(* open, each send holds a reservation of its own, a reservation is never  *)
(* returned, and there are at most Cap reservations.                       *)
(* A reservation may be taken and never used, also after the gate closed.  *)
(***************************************************************************)
EXTENDS Naturals

CONSTANTS Requests,   \* the requests a session may ask the proxy to forward
          Cap         \* the most reservations the parent grants

VARIABLES open,   \* no shutdown has been requested
          held,   \* the requests that consumed a reservation
          used,   \* how many reservations were granted
          sent    \* the requests that were sent upstream

gateVars == <<open, held, used, sent>>

GateInit ==
    /\ open = TRUE
    /\ held = {}
    /\ used = 0
    /\ sent = {}

\* A reservation is granted while the budget lasts.
Grant(r) ==
    /\ r \notin held
    /\ used < Cap
    /\ held' = held \cup {r}
    /\ used' = used + 1

\* A reservation whose request is then not sent stays consumed.
Reserve(r) ==
    /\ Grant(r)
    /\ UNCHANGED <<open, sent>>

\* A send reserves and leaves in one step: no other step comes between.
ReserveAndSend(r) ==
    /\ open
    /\ Grant(r)
    /\ sent' = sent \cup {r}
    /\ UNCHANGED open

Close ==
    /\ open' = FALSE
    /\ UNCHANGED <<held, used, sent>>

GateNext ==
    \/ \E r \in Requests : Reserve(r) \/ ReserveAndSend(r)
    \/ Close

GateSpec == GateInit /\ [][GateNext]_gateVars

=============================================================================
