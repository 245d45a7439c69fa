---------------------------- MODULE MCProvider ----------------------------
(* The two programs of a machine that lends, each on its own small instance: *)
(* one delivery of the agent (AgentDelivery) with a near and a far deadline, *)
(* and the coordinator's life from its first check to its exit               *)
(* (CoordinatorStart), as each check, each mode and each system has it.      *)
EXTENDS AgentDelivery, CoordinatorStart

VARIABLE component   \* "delivery" or "start": which of them this behavior is of

NearOrFar == {2, 99}

Plainly ==
    [defects |-> {}, mode |-> "alone", shared |-> FALSE, unix |-> FALSE, prefix |-> FALSE,
     os |-> "linux", env |-> Untyped, file |-> "unset", rule |-> "q4", slots |-> 1, mtp |-> FALSE]
Clustered == [Plainly EXCEPT !.mode = "cluster", !.prefix = TRUE, !.os = "macos"]
Lending == [Plainly EXCEPT !.shared = TRUE, !.unix = TRUE, !.os = "windows", !.file = "q8"]
Measured == [Plainly EXCEPT !.slots = 2, !.env = <<"unset", "q8">>]
Wrongs ==
    {"argument", "policy", "overflow", "model", "one flag", "request", "manifest", "size", "draft",
     "tower", "probe", "quant", "expert slots", "files", "view", "extra"}
SomeSetups ==
    {[Plainly EXCEPT !.defects = {w}] : w \in Wrongs}
    \cup {[Lending EXCEPT !.defects = {"home"}]}
    \cup {Plainly, Clustered, Lending, Measured, [Lending EXCEPT !.os = "linux"],
          [Measured EXCEPT !.mtp = TRUE], [Clustered EXCEPT !.env = <<"bad", "unset">>],
          [Plainly EXCEPT !.rule = "unset"], [Plainly EXCEPT !.mode = "tokenizer"],
          [Plainly EXCEPT !.mode = "legacy"]}

\* A component that is not the behavior's own stays in one of its initial states.
ProviderVars == <<vars, startVars, component>>
ProviderInit ==
    /\ component \in {"delivery", "start"}
    /\ Init /\ StartInit
    /\ component # "delivery" => job = [expires |-> 2, stream |-> FALSE]
    /\ component # "start" => setup = Plainly
ProviderNext ==
    /\ UNCHANGED component
    /\ \/ component = "delivery" /\ Next /\ UNCHANGED startVars
       \/ component = "start" /\ StartNext /\ UNCHANGED vars

\* Each component's own fairness, in the behaviors that are its own.
Delivering == component = "delivery"
DeliveryFairness ==
    /\ WF_vars(Delivering /\ Tick) /\ WF_vars(Delivering /\ MainStep) /\ WF_vars(Delivering /\ WatchStep)
Starting == component = "start"
StartFairness ==
    /\ WF_startVars(Starting /\ Main) /\ WF_startVars(Starting /\ Take)
    /\ WF_startVars(Starting /\ EndRequest) /\ WF_startVars(Starting /\ EndWarming)
ProviderSpec == ProviderInit /\ [][ProviderNext]_ProviderVars /\ DeliveryFairness /\ StartFairness
=============================================================================
