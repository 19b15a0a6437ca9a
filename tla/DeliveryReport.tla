--------------------------- MODULE DeliveryReport ---------------------------
(***************************************************************************)
(* What the delivery compose worker promises of the report a user reads:   *)
(* a delivery begins with the agent's own words, marked as pending; the    *)
(* model may replace them; whatever is retried, resumed or overtaken, the  *)
(* model's words are never taken back, nor is the report ever pending      *)
(* again.  Only the label can change back, from composed to fallback.      *)
(*                                                                         *)
(* ComposeJobs is shown to implement this module.                          *)
(***************************************************************************)

CONSTANT Deliveries \* identities of deliveries rows

VARIABLE report     \* presentation of payload_json.deliveryReport

NoReport == [status |-> "none", text |-> "none"]
Pending  == [status |-> "pending", text |-> "agent"]
Composed == [status |-> "composed", text |-> "model"]

Init == report = [d \in Deliveries |-> NoReport]

\* The agent delivers; its own words are shown until the worker has been.
Deliver(d) ==
    /\ report[d] = NoReport
    /\ report' = [report EXCEPT ![d] = Pending]

\* The model's words replace what is there.
Compose(d) ==
    /\ report[d] # NoReport
    /\ report' = [report EXCEPT ![d] = Composed]

\* No draft: the words stay, labelled as the deterministic fallback.
FallBack(d) ==
    /\ report[d] # NoReport
    /\ report' = [report EXCEPT ![d].status = "fallback"]

Next == \E d \in Deliveries : Deliver(d) \/ Compose(d) \/ FallBack(d)

Spec == Init /\ [][Next]_report

=============================================================================
