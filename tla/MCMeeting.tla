----------------------------- MODULE MCMeeting -----------------------------
(* How a machine is found, each way on its own small instance: the platform  *)
(* lists it (AgentListing), another machine finds its cluster's coordinator  *)
(* (Discovery), and proves its join code there (Pairing).                    *)
EXTENDS AgentListing, Pairing, Discovery

CONSTANTS Long, Short   \* the configurations a machine is switched between

TwoServices == {Long, Short}

VARIABLE component   \* "listing", "finding" or "pairing": which of them this behavior is of

GivenOrNot == {NoAddr, <<"given">>}

\* A component that is not the behavior's own stays in one of its initial states.
MeetingVars == <<vars, pairVars, findVars, component>>
MeetingInit ==
    /\ component \in {"listing", "finding", "pairing"}
    /\ Init /\ PairInit /\ FindInit
    /\ component # "finding" => reach = "none"
    /\ component # "listing" => transport = "relay" /\ engine = None
MeetingNext ==
    /\ UNCHANGED component
    /\ \/ component = "listing" /\ Next /\ UNCHANGED <<pairVars, findVars>>
       \/ component = "finding" /\ FindNext /\ UNCHANGED <<vars, pairVars>>
       \/ component = "pairing" /\ PairNext /\ UNCHANGED <<vars, findVars>>

\* AgentListing's fairness, in the behaviors that are its own.
Listed == component = "listing"
ListingFairness ==
    /\ WF_vars(Listed /\ MainStep) /\ WF_vars(Listed /\ BeatStep)
    /\ WF_vars(Listed /\ RetryTime) /\ WF_vars(Listed /\ Expire)

\* The join loop runs, time is never stopped, and a machine that has the code tries again.
Joining == component = "pairing"
PairFairness ==
    /\ WF_pairVars(Joining /\ JoinLoop) /\ SF_pairVars(Joining /\ JoinTick)
    /\ \A s \in Holders : SF_pairVars(Joining /\ Knock(s, "right"))

MeetingSpec == MeetingInit /\ [][MeetingNext]_MeetingVars /\ ListingFairness /\ PairFairness

\* What a join rests on: the machine dials its own cluster, and the coordinator's throttle
\* holds guesses back.
JoinsItsOwn == FindsTheCluster /\ PairingHolds

\* An engine that is back is listed again.
ServiceReturns == Listed => ListingReturns
\* Whoever has the code gets in.
TheRightfulJoin == Joining => TheRightfulGetIn
=============================================================================
