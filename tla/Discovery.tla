----------------------------- MODULE Discovery -----------------------------
(***************************************************************************)
(* How a machine that has a join code finds the coordinator: the address   *)
(* it was given, a broadcast query, a query to every address of its /24    *)
(* network, and for an account the cloud's rendezvous, in that order and   *)
(* each for its share of the time (src/src/common/discovery.c).  The       *)
(* machine asks from a port of its own, so it hears only answers to its    *)
(* queries: the beacon a coordinator broadcasts every second goes to the   *)
(* discovery port, where only coordinators listen, and changes nothing.    *)
(***************************************************************************)
EXTENDS Integers

CONSTANTS
    Coords,        \* coordinators; more than one may be of the machine's group
    Ours,          \* those of the machine's group (its code or account)
    Account,       \* the machine and its group pair through an account
    Given,         \* the addresses the machine may be given; NoAddr: it was given none
    Slices,        \* reads of 300 ms in the whole search
    ProbeEvery,    \* a query is sent again after as many reads (3)
    MaxStarts,     \* bound: coordinators that start
    MaxLosses      \* bound: datagrams lost, and datagrams that are none of the protocol's

ASSUME DiscoveryAssumption ==
    /\ Ours \subseteq Coords /\ Account \in BOOLEAN
    /\ ProbeEvery \in Nat \ {0} /\ {Slices, MaxStarts, MaxLosses} \subseteq Nat
\* Single losses: the shorter search sends more queries than datagrams are lost.
ASSUME FewLossesAssumption == ProbeEvery * MaxLosses < (Slices * 3) \div 10

VARIABLES
    adv,           \* the address each coordinator advertises, or NoAddr
    cloud,         \* what the rendezvous last heard for the machine's group
    reach,         \* what the network between them lets through
    query, reply,  \* coordinators a query, and answers the machine, has yet to receive
    stage, waited, \* the machine's search: the provider it tries and its reads so far
    found,         \* the address the search came to
    starts, losses,
    steady,        \* history: coordinators of ours that advertise all through the search
    ever           \* history: the addresses coordinators of our group have advertised

findVars == <<adv, cloud, reach, query, reply, stage, waited, found, starts, losses, steady, ever>>

NoAddr == <<"none">>
\* adv_addr: the machine's own address on its network, or the loopback address if it has
\* no route that tells it which that is (idletoken_local_ipv4).
Lan(c) == <<"lan", c>>
Loopback == <<"loopback">>

FindInit ==
    /\ adv = [c \in Coords |-> NoAddr] /\ cloud = NoAddr
    /\ reach \in {"all", "unicast", "none"}
    /\ query = {} /\ reply = {}
    /\ stage = "manual" /\ waited = 0 /\ found = NoAddr
    /\ starts = 0 /\ losses = 0 /\ steady = {} /\ ever = {}

Up == {c \in Coords : adv[c] # NoAddr}

----------------------------------------------------------------------------
\* Coordinators.

\* multi_advertise: the beacon thread, which answers queries, and in account mode the
\* rendezvous thread; a coordinator that starts again has another address.
Advertise(c) ==
    /\ adv[c] = NoAddr /\ starts < MaxStarts
    /\ \E a \in {Lan(c), Loopback} :
          /\ adv' = [adv EXCEPT ![c] = a]
          /\ ever' = IF c \in Ours THEN ever \cup {a} ELSE ever
    /\ starts' = starts + 1
    /\ UNCHANGED <<cloud, reach, query, reply, stage, waited, found, losses, steady>>

\* multi_close: the threads are joined, so what is still on its way finds nobody.
Withdraw(c) ==
    /\ adv[c] # NoAddr
    /\ adv' = [adv EXCEPT ![c] = NoAddr]
    /\ query' = query \ {c}
    /\ steady' = steady \ {c}
    /\ UNCHANGED <<cloud, reach, reply, stage, waited, found, starts, losses, ever>>

\* beacon_loop: a query of the coordinator's own group is answered to the port it came from.
AnswerQuery(c) ==
    /\ c \in query
    /\ query' = query \ {c}
    /\ reply' = IF c \in Ours THEN reply \cup {[group |-> "ours", addr |-> adv[c]]} ELSE reply
    /\ UNCHANGED <<adv, cloud, reach, stage, waited, found, starts, losses, steady, ever>>

\* rdv_register_once, every five seconds.
Register(c) ==
    /\ Account /\ c \in Ours /\ adv[c] # NoAddr /\ cloud # adv[c]
    /\ cloud' = adv[c]
    /\ UNCHANGED <<adv, reach, query, reply, stage, waited, found, starts, losses, steady, ever>>

----------------------------------------------------------------------------
\* The machine: multi_resolve.

Share(s) == CASE s = "broadcast" -> (Slices * 6) \div 10
              [] s = "subnet" -> (Slices * 3) \div 10
              [] OTHER -> Slices - (Slices * 6) \div 10 - (Slices * 3) \div 10

\* A query is broadcast; the second provider also sends it to each address of the /24.
Probed(s) == IF reach = "all" \/ (reach = "unicast" /\ s = "subnet") THEN Up ELSE {}

Come(a) == stage' = "found" /\ found' = a /\ UNCHANGED <<query, reply, waited>>
\* A provider opens a socket of its own: what came for the one before is lost.
Try(s) ==
    /\ stage' = s /\ waited' = 0 /\ query' = Probed(s) /\ reply' = {}
    /\ UNCHANGED found

StartSearch ==
    /\ stage = "manual"
    /\ steady' = Up \cap Ours
    /\ \E a \in Given : IF a # NoAddr THEN Come(a) ELSE Try("broadcast")
    /\ UNCHANGED <<adv, cloud, reach, starts, losses, ever>>

NextProvider ==
    CASE stage = "broadcast" -> Try("subnet")
      [] stage = "subnet" /\ Account -> Try("cloud")
      [] OTHER -> stage' = "lost" /\ UNCHANGED <<query, reply, waited, found>>

\* MUTANT: the query is sent but once.
AskedOnce == waited' = waited + 1 /\ UNCHANGED <<query, stage, reply, found>>
\* A read that ends without an answer of ours costs the time of a whole slice, and every
\* third one sends the query again.
ReadInVain ==
    /\ waited' = waited + 1
    /\ query' = IF (waited + 1) % ProbeEvery = 0 THEN query \cup Probed(stage) ELSE query
    /\ UNCHANGED <<stage, reply, found>>

Searching == stage \in {"broadcast", "subnet"}

\* parse_beacon takes an answer of the machine's group, by its name and its proof, and the
\* address in it as it stands.
ReadAnswer ==
    /\ Searching /\ waited < Share(stage)
    /\ \E b \in reply : b.group = "ours" /\ Come(b.addr)
    /\ UNCHANGED <<adv, cloud, reach, starts, losses, steady, ever>>
\* Nothing comes within the slice: the network delivers, or loses, faster than that.
ReadNothing ==
    /\ Searching /\ waited < Share(stage) /\ query = {} /\ reply = {}
    /\ ReadInVain
    /\ UNCHANGED <<adv, cloud, reach, starts, losses, steady, ever>>
\* Something that is not an answer of ours is read.
ReadOther ==
    /\ Searching /\ waited < Share(stage) /\ losses < MaxLosses
    /\ losses' = losses + 1
    /\ ReadInVain
    /\ UNCHANGED <<adv, cloud, reach, starts, steady, ever>>
\* The provider's time is over.
ProviderEnds ==
    /\ stage \in {"broadcast", "subnet", "cloud"} /\ waited >= Share(stage)
    /\ NextProvider
    /\ UNCHANGED <<adv, cloud, reach, starts, losses, steady, ever>>
\* rdv_resolve: the rendezvous is asked every 700 ms.
AskCloud ==
    /\ stage = "cloud" /\ waited < Share(stage)
    /\ IF cloud # NoAddr THEN Come(cloud)
       ELSE waited' = waited + 1 /\ UNCHANGED <<query, reply, stage, found>>
    /\ UNCHANGED <<adv, cloud, reach, starts, losses, steady, ever>>

Lose ==
    /\ losses < MaxLosses /\ losses' = losses + 1
    /\ \/ \E c \in query : query' = query \ {c} /\ UNCHANGED reply
       \/ \E b \in reply : reply' = reply \ {b} /\ UNCHANGED query
    /\ UNCHANGED <<adv, cloud, reach, stage, waited, found, starts, steady, ever>>

FindNext ==
    \/ \E c \in Coords : Advertise(c) \/ Withdraw(c) \/ AnswerQuery(c) \/ Register(c)
    \/ StartSearch \/ ReadAnswer \/ ReadNothing \/ ReadOther \/ ProviderEnds \/ AskCloud \/ Lose

----------------------------------------------------------------------------

\* The address a search comes to is one the user gave, or one a coordinator of the
\* machine's own group advertised, whatever other clusters share the network.
FoundIsOurs == found # NoAddr => found \in Given \cup ever

\* A coordinator that is up all through the search, and can be reached by broadcast or
\* address by address, is found, although single datagrams are lost.
ReachableIsFound == stage = "lost" /\ steady # {} => reach = "none"

FindsTheCluster == FoundIsOurs /\ ReachableIsFound
=============================================================================
