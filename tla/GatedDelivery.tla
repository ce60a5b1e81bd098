---------------------------- MODULE GatedDelivery ----------------------------
(***************************************************************************)
(* What the graph of one task promises, without its agents: it works until *)
(* it asks a person, and what it writes to GitHub (a push, then one pull   *)
(* request) is written only after that person has approved.                *)
(***************************************************************************)

VARIABLES
    phase,     \* what the graph is doing
    answer,    \* the last decision on the delivery
    delivered  \* what GitHub has seen

gate == <<phase, answer, delivered>>

GateTypeOK ==
    /\ phase \in {"working", "waiting", "authorised", "closed"}
    /\ answer \in {"none", "approve", "reject"}
    /\ delivered \in {"nothing", "pushed", "proposed"}

GateInit ==
    /\ phase = "working"
    /\ answer = "none"
    /\ delivered = "nothing"

Ask ==
    /\ phase = "working"
    /\ phase' = "waiting"
    /\ UNCHANGED <<answer, delivered>>

\* The delivery is approved.
Grant ==
    /\ phase = "waiting"
    /\ phase' = "authorised"
    /\ answer' = "approve"
    /\ UNCHANGED delivered

\* The person lets the task go on to its next question, or ends it.
Continue ==
    /\ phase = "waiting"
    /\ phase' \in {"working", "closed"}
    /\ answer' \in {answer, "reject"}
    /\ UNCHANGED delivered

Push ==
    /\ phase = "authorised"
    /\ delivered = "nothing"
    /\ delivered' = "pushed"
    /\ UNCHANGED <<phase, answer>>

Propose ==
    /\ phase = "authorised"
    /\ delivered = "pushed"
    /\ delivered' = "proposed"
    /\ phase' = "closed"
    /\ UNCHANGED answer

GiveUp ==
    /\ phase \in {"working", "authorised"}
    /\ phase' = "closed"
    /\ UNCHANGED <<answer, delivered>>

OwnStep == Ask \/ Push \/ Propose \/ GiveUp

GateNext == OwnStep \/ Grant \/ Continue

GatedDelivery == GateInit /\ [][GateNext]_gate /\ WF_gate(OwnStep)

\* Nothing is written to GitHub that nobody approved.
WrittenOnlyIfApproved == delivered # "nothing" => answer = "approve"
=============================================================================
