---------------------------- MODULE ServingProofs ----------------------------
(***************************************************************************)
(* Proofs about what a serving machine stands on.  CoordinatorStart:       *)
(* whatever refuses it, whoever ends it and however many threads it gets,  *)
(* a coordinator that has gone has left nothing, and one that serves has   *)
(* an engine of the type and the width that were decided.  AgentDirect,    *)
(* for any finite set of connections and any number of places: the places  *)
(* that are taken are the threads there are, the main thread serves what   *)
(* it says it serves, and only a session that was served is reported.      *)
(* EngineCommand, for any settings and any arguments of the user's: the    *)
(* engine is started with what was planned for it on every system.         *)
(***************************************************************************)
EXTENDS CoordinatorStart, AgentDirect, EngineCommand, SequenceTheorems, FiniteSetTheorems,
        WellFoundedInduction, TLAPS

\* The stages in groups: up to the one that prices the plan, up to the one that spawns the
\* engine, those with an engine, and those in which connections are taken and ended.
Early == {"arguments", "policy", "overflow", "model", "mode", "request", "manifest", "size",
          "draft", "tower", "price"}
Checks == Early \cup {"probe", "quant", "fix cache", "form", "plan", "expert slots", "slots",
                      "state", "files", "view", "engine"}
Arming == {"monitor", "handlers", "listen"}
Opening == {"listen unix", "threads", "gate"}
Working == {"serving", "stopping", "joining"}
Leaving == {"warm joining", "closing", "shutting down"}
Over == {"exited", "killed", "elsewhere"}

\* What the variables may hold, whatever the stage.  The names of types are strings, among them
\* those the file may come to hold.
Names == STRING \cup {"unset", "q8", "bad"}
KvType == Names \X Names
Caches == [env : KvType, file : Names, edited : BOOLEAN, scaled : Seq(KvType), spawned : KvType \cup {<<>>}]
Widths == [slots : Nat, np : Nat, gate : Nat]
Engines == {"none", "loading", "ready", "fatal"}
Doors == {"monitor", "api", "unix"}
Warmings == {"none", "wanted", "warming", "done", "failed"}
DataOK ==
    /\ setup \in Setups
    /\ cache \in Caches
    /\ width \in Widths
    /\ engine \in Engines
    /\ held \in SUBSET Doors
    /\ crew \in [pool : 0..PoolThreads, control : 0..ControlThreads]
    /\ postload \in Warmings
    /\ load \in [queued : Nat, busy : Nat]
    /\ signal \in [armed : BOOLEAN, told : BOOLEAN]
EveryStage == Checks \cup Arming \cup Opening \cup Working \cup Leaving \cup Over
StageOK ==
    /\ stage \in EveryStage
    /\ code \in Nat
StartTypeOK == DataOK /\ StageOK

NoLoad == [queued |-> 0, busy |-> 0]
NoCrew == [pool |-> 0, control |-> 0]

\* What the process has at each stage of its life.
HasAtStage ==
    /\ stage \in Checks => engine = "none"
    /\ stage \in Checks \cup {"monitor"} => held = {}
    /\ stage \in Arming \cup Opening \cup Working => engine # "none"
    /\ stage \in Opening \cup Working => "api" \in held
    /\ stage \notin Working => load = NoLoad
    /\ stage \notin Working \cup {"gate"} => crew = NoCrew
    /\ stage \notin Working \cup {"warm joining"} => postload # "warming"
    /\ stage \in Working => width.gate > 0
\* A width is decided before anything is built for it, and one too large for the threads
\* there are is set before the gate is.
WidthAtStage ==
    /\ stage \in {"state", "files", "view", "engine"} \cup Arming \cup Opening => width.slots > 0
    /\ stage \in Arming \cup {"listen unix", "threads"} => width.np = width.slots
    /\ stage = "gate" /\ crew.pool = PoolThreads => width.np = width.slots
    /\ stage = "serving" /\ crew.pool = PoolThreads => width.np = width.gate
\* While nobody edits the file, what the plan was priced at is what a look at the type would find.
PriceAtStage ==
    /\ stage \in Checks => cache.spawned = <<>>
    /\ ~cache.edited =>
          /\ stage \in Early => cache.scaled = <<>>
          /\ stage \in Checks \ Early => cache.scaled = Scaled(KvTypes)
          /\ cache.spawned # <<>> => cache.scaled = Scaled(cache.spawned)
StartIInv == StartTypeOK /\ HasAtStage /\ WidthAtStage /\ PriceAtStage /\ LeavesNothing
-----------------------------------------------------------------------------
\* Pricing once leaves one type, or none where none was asked for.
LEMMA PricedOnce ==
    ASSUME NEW t \in KvType
    PROVE  Scaled(t) \in Seq(KvType) /\ <<>> \o Scaled(t) = Scaled(t)
<1>1. Scaled(t) \in Seq(KvType)
  BY DEF Scaled
<1>2. QED BY <1>1, ConcatEmptySeq

\* Neither the environment nor the file holds anything but the name of a type.
LEMMA LookedUp == ASSUME DataOK PROVE KvTypes \in KvType
BY DEF DataOK, Caches, KvTypes, KvType

\* Every step writes what belongs there.
LEMMA DataKept == DataOK /\ StartNext => DataOK'
<1> SUFFICES ASSUME DataOK, StartNext PROVE DataOK'
  OBVIOUS
<1>0. KvTypes \in KvType
  BY LookedUp
<1>a. 0 \in 0..PoolThreads /\ 0 \in 0..ControlThreads
  BY StartAssumption
<1> USE DEF DataOK
<1>1. CASE UNCHANGED afterStage
  BY <1>1 DEF afterStage
<1>2. CASE PriceCache
  <2>1. cache.scaled \o Scaled(KvTypes) \in Seq(KvType)
    BY <1>0, PricedOnce, ConcatProperties DEF Caches
  <2>2. cache' \in Caches
    BY <1>2, <2>1 DEF PriceCache, Caches
  <2>3. QED BY <1>2, <2>2 DEF PriceCache
<1>3. CASE FixCache
  <2> DEFINE fixed == <<setup.rule, setup.rule>>
  <2>1. fixed \in KvType
    BY StartAssumption DEF KvType, Names
  <2>2. cache.scaled \o Scaled(fixed) \in Seq(KvType)
    BY <2>1, PricedOnce, ConcatProperties DEF Caches
  <2>3. cache' = cache \/ cache' = [cache EXCEPT !.env = fixed, !.scaled = @ \o Scaled(fixed)]
    BY <1>3 DEF FixCache
  <2> HIDE DEF fixed
  <2>4. cache' \in Caches
    BY <2>1, <2>2, <2>3 DEF Caches
  <2>5. QED BY <1>3, <2>4 DEF FixCache
<1>4. CASE DecideSlots
  <2>1. setup.slots \in Nat
    BY StartAssumption
  <2>2. QED BY <1>4, <2>1 DEF DecideSlots, Widths
<1>5. CASE PrepareState
  BY <1>5 DEF PrepareState, Warmings
<1>6. CASE StartEngine
  <2>1. cache' \in Caches
    BY <1>0, <1>6 DEF StartEngine, Caches
  <2>2. engine' \in Engines
    BY <1>6 DEF StartEngine, Engines
  <2>3. width' \in Widths
    BY <1>6 DEF StartEngine, Widths
  <2>4. QED BY <1>6, <2>1, <2>2, <2>3 DEF StartEngine
<1>7. CASE StartMonitor \/ ListenHere \/ ListenForAgent
  BY <1>7 DEF StartMonitor, ListenHere, ListenForAgent, Engines, Doors
<1>8. CASE InstallHandlers
  BY <1>8 DEF InstallHandlers
<1>9. CASE StartThreads
  <2>1. engine' \in Engines /\ held' \in SUBSET Doors
    BY <1>9 DEF StartThreads, Engines
  <2>2. crew' \in [pool : 0..PoolThreads, control : 0..ControlThreads]
    BY <1>9 DEF StartThreads
  <2>3. \A p \in 0..PoolThreads : p # 0 => (IF (p - 1) \div 2 > 0 THEN (p - 1) \div 2 ELSE 1) \in Nat
    BY StartAssumption
  <2>4. width' = width \/ \E n \in Nat : width' = [width EXCEPT !.slots = n]
    BY <1>9, <2>3 DEF StartThreads
  <2>5. width' \in Widths
    BY <2>4 DEF Widths
  <2>6. QED BY <1>9, <2>1, <2>2, <2>5 DEF StartThreads
<1>10. CASE OpenGate
  BY <1>10 DEF OpenGate, Widths
<1>11. CASE Look
  <2>1. postload' \in Warmings
    BY <1>11 DEF Look, Warmings
  <2>2. load' \in [queued : Nat, busy : Nat]
    BY <1>11 DEF Look, Stop, AcceptOne
  <2>3. QED BY <1>11, <2>1, <2>2 DEF Look
<1>12. CASE JoinPools
  BY <1>a, <1>12 DEF JoinPools
<1>13. CASE CloseDoors \/ ShutDown
  BY <1>13 DEF CloseDoors, ShutDown, Engines, Doors
<1>14. CASE Take \/ EndRequest
  BY <1>14 DEF Take, EndRequest
<1>15. CASE EndWarming \/ EngineMoves
  BY <1>15 DEF EndWarming, EngineMoves, Warmings, Engines
<1>16. CASE EditFile
  <2>1. PICK t \in {"unset", "q8", "bad"} : cache' = [cache EXCEPT !.file = t, !.edited = TRUE]
    BY <1>16 DEF EditFile
  <2>2. t \in Names
    BY DEF Names
  <2>3. cache' \in Caches
    BY <2>1, <2>2 DEF Caches
  <2>4. QED BY <1>16, <2>3 DEF EditFile
<1>17. CASE Terminate
  <2>1. engine' \in Engines /\ held' \in SUBSET Doors /\ postload' \in Warmings
    BY <1>17 DEF Terminate, Engines, Doors, Warmings
  <2>2. crew' \in [pool : 0..PoolThreads, control : 0..ControlThreads] /\ load' \in [queued : Nat, busy : Nat]
    BY <1>a, <1>17 DEF Terminate
  <2>3. signal' \in [armed : BOOLEAN, told : BOOLEAN]
    BY <1>17 DEF Terminate
  <2>4. QED BY <1>17, <2>1, <2>2, <2>3 DEF Terminate
<1>18. CASE \/ ReadArguments \/ SetPolicy \/ ConfigureOverflow \/ ResolveModel \/ ChooseMode
            \/ CheckRequest \/ ReadManifest \/ SizeModel \/ CheckDraft \/ CheckTower
            \/ ProbeMachine \/ ResolveQuant \/ FormCluster \/ PlanAlone \/ ExpertSlots
            \/ CheckFiles \/ CheckView \/ StopPools \/ JoinWarming
  BY <1>1, <1>18 DEF ReadArguments, SetPolicy, ConfigureOverflow, ResolveModel, ChooseMode, CheckRequest,
     ReadManifest, SizeModel, CheckDraft, CheckTower, ProbeMachine, ResolveQuant, FormCluster,
     PlanAlone, ExpertSlots, CheckFiles, CheckView, Check, StopPools, JoinWarming
<1>19. QED
  BY <1>2, <1>3, <1>4, <1>5, <1>6, <1>7, <1>8, <1>9, <1>10, <1>11, <1>12, <1>13, <1>14, <1>15, <1>16,
     <1>17, <1>18 DEF StartNext, Main

-----------------------------------------------------------------------------
\* Whatever passes or refuses before there is an engine, and changes nothing else, keeps the
\* invariant.
LEMMA PassOrRefuse ==
    ASSUME StartIInv, stage \in Checks,
           stage' \in Checks \cup {"exited", "elsewhere"}, code' \in Nat, UNCHANGED afterStage,
           stage' \in Early => stage \in Early,
           stage' \in Checks \ Early => stage \notin Early,
           stage' \in {"state", "files", "view", "engine"} => width.slots > 0
    PROVE  StartIInv'
<1>1. StartTypeOK'
  BY DEF StartIInv, StartTypeOK, DataOK, StageOK, EveryStage, afterStage, Over
<1>2. HasAtStage'
  BY DEF StartIInv, HasAtStage, afterStage, Checks, Early, Arming, Opening, Working, Leaving, Over
<1>3. WidthAtStage'
  BY DEF StartIInv, WidthAtStage, afterStage, Checks, Early, Arming, Opening, Working, Leaving, Over
<1>4. PriceAtStage'
  BY DEF StartIInv, PriceAtStage, afterStage, KvTypes, Checks, Early, Arming, Opening, Working, Leaving, Over
<1>5. LeavesNothing'
  BY DEF StartIInv, HasAtStage, LeavesNothing, NoLoad, NoCrew, afterStage, Checks, Early, Arming, Opening, Working, Leaving, Over
<1>6. QED BY <1>1, <1>2, <1>3, <1>4, <1>5 DEF StartIInv

\* The checks do nothing else.
LEMMA ChecksKeep ==
    ASSUME StartIInv,
           \/ ReadArguments \/ SetPolicy \/ ConfigureOverflow \/ ResolveModel \/ ChooseMode
           \/ CheckRequest \/ ReadManifest \/ SizeModel \/ CheckDraft \/ CheckTower
           \/ ProbeMachine \/ ResolveQuant \/ FormCluster \/ PlanAlone \/ ExpertSlots
           \/ CheckFiles \/ CheckView
    PROVE  StartIInv'
<1>1. /\ stage \in Checks /\ stage' \in Checks \cup {"exited", "elsewhere"} /\ UNCHANGED afterStage
      /\ stage' \in Early => stage \in Early
      /\ stage' \in Checks \ Early => stage \notin Early
      /\ stage' \in {"state", "files", "view", "engine"} => stage \in {"files", "view"}
  BY DEF ReadArguments, SetPolicy, ConfigureOverflow, ResolveModel, ChooseMode, CheckRequest,
     ReadManifest, SizeModel, CheckDraft, CheckTower, ProbeMachine, ResolveQuant, FormCluster,
     PlanAlone, ExpertSlots, CheckFiles, CheckView, Check, At, GoTo, Quit, Checks, Early
<1>2. code' \in Nat
  <2>1. code \in Nat
    BY DEF StartIInv, StartTypeOK, StageOK
  <2>2. code' = code \/ \E exit \in {1, 2, 3} : code' = exit
    BY DEF ReadArguments, SetPolicy, ConfigureOverflow, ResolveModel, ChooseMode, CheckRequest,
       ReadManifest, SizeModel, CheckDraft, CheckTower, ProbeMachine, ResolveQuant, FormCluster,
       PlanAlone, ExpertSlots, CheckFiles, CheckView, Check, GoTo, Quit
  <2>3. QED BY <2>1, <2>2
<1>3. stage \in {"files", "view"} => width.slots > 0
  BY DEF StartIInv, WidthAtStage
<1>4. QED BY <1>1, <1>2, <1>3, PassOrRefuse

-----------------------------------------------------------------------------
\* The invariant is inductive: one step for every action that does more than pass or refuse.
LEMMA StartInductive == StartIInv /\ [StartNext]_startVars => StartIInv'
<1> SUFFICES ASSUME StartIInv, [StartNext]_startVars PROVE StartIInv'
  OBVIOUS
<1> USE StartAssumption DEF Checks, Early, Arming, Opening, Working, Leaving, Over
<1>0. StartNext => DataOK'
  BY DataKept DEF StartIInv, StartTypeOK
<1>1. CASE PriceCache
  <2>1. StartTypeOK'
    <3>1. StageOK'
      <4>1. stage' \in EveryStage
        BY <1>1 DEF PriceCache, At, GoTo, Quit, EveryStage
      <4>2. code \in Nat /\ (code' = code \/ code' \in {0, 1, 2, 3})
        BY <1>1 DEF StartIInv, StartTypeOK, StageOK, PriceCache, At, GoTo, Quit
      <4>3. QED BY <4>1, <4>2 DEF StageOK
    <3>2. DataOK'
      BY <1>0, <1>1 DEF Main, StartNext
    <3>3. QED BY <3>1, <3>2 DEF StartTypeOK
  <2>2. HasAtStage'
    BY <1>1 DEF StartIInv, StartTypeOK, DataOK, HasAtStage, NoLoad, NoCrew, PriceCache, At, GoTo, Quit
  <2>3. WidthAtStage'
    BY <1>1 DEF StartIInv, StartTypeOK, DataOK, Widths, WidthAtStage, HasAtStage, NoCrew, PriceCache, At, GoTo, Quit
  <2>4. PriceAtStage'
    <3>1. CASE Quit(2) /\ UNCHANGED cache
      BY <1>1, <3>1 DEF StartIInv, PriceAtStage, KvTypes, PriceCache, At, Quit
    <3>2. CASE GoTo("probe") /\ cache' = [cache EXCEPT !.scaled = @ \o Scaled(KvTypes)]
      <4>1. /\ KvTypes' = KvTypes /\ cache'.scaled = cache.scaled \o Scaled(KvTypes)
            /\ cache'.spawned = cache.spawned /\ cache'.edited = cache.edited
        BY <3>2 DEF StartIInv, StartTypeOK, DataOK, Caches, KvTypes
      <4>2. cache.scaled = <<>> => cache'.scaled = Scaled(KvTypes)
        BY <4>1, LookedUp, PricedOnce DEF StartIInv, StartTypeOK
      <4>3. stage = "price" /\ stage' = "probe"
        BY <1>1, <3>2 DEF PriceCache, At, GoTo
      <4>4. QED BY <4>1, <4>2, <4>3 DEF StartIInv, PriceAtStage
    <3>3. QED BY <1>1, <3>1, <3>2 DEF PriceCache
  <2>5. LeavesNothing'
    BY <1>1 DEF StartIInv, StartTypeOK, DataOK, HasAtStage, LeavesNothing, NoLoad, NoCrew, PriceCache, At, GoTo, Quit
  <2>6. QED BY <2>1, <2>2, <2>3, <2>4, <2>5 DEF StartIInv
<1>2. CASE FixCache
  <2>1. StartTypeOK'
    <3>1. StageOK'
      <4>1. stage' \in EveryStage
        BY <1>2 DEF FixCache, At, GoTo, Quit, EveryStage
      <4>2. code \in Nat /\ (code' = code \/ code' \in {0, 1, 2, 3})
        BY <1>2 DEF StartIInv, StartTypeOK, StageOK, FixCache, At, GoTo, Quit
      <4>3. QED BY <4>1, <4>2 DEF StageOK
    <3>2. DataOK'
      BY <1>0, <1>2 DEF Main, StartNext
    <3>3. QED BY <3>1, <3>2 DEF StartTypeOK
  <2>2. HasAtStage'
    BY <1>2 DEF StartIInv, StartTypeOK, DataOK, HasAtStage, NoLoad, NoCrew, FixCache, At, GoTo, Quit
  <2>3. WidthAtStage'
    BY <1>2 DEF StartIInv, StartTypeOK, DataOK, Widths, WidthAtStage, HasAtStage, NoCrew, FixCache, At, GoTo, Quit
  <2>4. PriceAtStage'
    <3>1. CASE UNCHANGED cache
      BY <1>2, <3>1 DEF StartIInv, PriceAtStage, KvTypes, FixCache, At, GoTo, Quit
    <3>2. CASE ~UNCHANGED cache
      <4> DEFINE fixed == <<setup.rule, setup.rule>>
      <4>1. /\ stage = "fix cache" /\ stage' \in {"form", "plan"}
            /\ KvTypes = Untyped /\ cache' = [cache EXCEPT !.env = fixed, !.scaled = @ \o Scaled(fixed)]
        BY <1>2, <3>2 DEF FixCache, At, GoTo
      <4>2. fixed \in KvType /\ fixed[1] = setup.rule /\ fixed[2] = setup.rule
        BY StartAssumption DEF KvType, Names, StartIInv, StartTypeOK, DataOK
      <4>3. cache'.scaled = cache.scaled \o Scaled(fixed) /\ cache'.env = fixed /\ cache'.file = cache.file
            /\ cache'.spawned = cache.spawned /\ cache'.edited = cache.edited
        BY <4>1 DEF StartIInv, StartTypeOK, DataOK, Caches
      <4>4. ~cache.edited => cache.scaled = <<>>
        BY <4>1 DEF StartIInv, PriceAtStage, Scaled
      <4>5. ~cache.edited => cache'.scaled = Scaled(fixed)
        BY <4>2, <4>3, <4>4, PricedOnce
      <4>6. KvTypes' = fixed
        <5>1. cache.file = "unset"
          BY <4>1 DEF KvTypes, Untyped
        <5>2. QED BY <4>2, <4>3, <5>1 DEF KvTypes
      <4>7. QED BY <4>1, <4>3, <4>5, <4>6 DEF StartIInv, PriceAtStage
    <3>3. QED BY <3>1, <3>2
  <2>5. LeavesNothing'
    BY <1>2 DEF StartIInv, StartTypeOK, DataOK, HasAtStage, LeavesNothing, NoLoad, NoCrew, FixCache, At, GoTo, Quit
  <2>6. QED BY <2>1, <2>2, <2>3, <2>4, <2>5 DEF StartIInv
<1>3. CASE DecideSlots
  <2>1. StartTypeOK'
    <3>1. StageOK'
      <4>1. stage' \in EveryStage
        BY <1>3 DEF DecideSlots, At, GoTo, Quit, EveryStage
      <4>2. code \in Nat /\ (code' = code \/ code' \in {0, 1, 2, 3})
        BY <1>3 DEF StartIInv, StartTypeOK, StageOK, DecideSlots, At, GoTo, Quit
      <4>3. QED BY <4>1, <4>2 DEF StageOK
    <3>2. DataOK'
      BY <1>0, <1>3 DEF Main, StartNext
    <3>3. QED BY <3>1, <3>2 DEF StartTypeOK
  <2>2. HasAtStage'
    BY <1>3 DEF StartIInv, StartTypeOK, DataOK, HasAtStage, NoLoad, NoCrew, DecideSlots, At, GoTo, Quit
  <2>3. WidthAtStage'
    BY <1>3 DEF StartIInv, StartTypeOK, DataOK, Widths, WidthAtStage, HasAtStage, NoCrew, DecideSlots, At, GoTo, Quit
  <2>4. PriceAtStage'
    BY <1>3 DEF StartIInv, StartTypeOK, DataOK, Caches, PriceAtStage, KvTypes, DecideSlots, At, GoTo, Quit
  <2>5. LeavesNothing'
    BY <1>3 DEF StartIInv, StartTypeOK, DataOK, HasAtStage, LeavesNothing, NoLoad, NoCrew, DecideSlots, At, GoTo, Quit
  <2>6. QED BY <2>1, <2>2, <2>3, <2>4, <2>5 DEF StartIInv
<1>4. CASE PrepareState
  <2>1. StartTypeOK'
    <3>1. StageOK'
      <4>1. stage' \in EveryStage
        BY <1>4 DEF PrepareState, At, GoTo, Quit, EveryStage
      <4>2. code \in Nat /\ (code' = code \/ code' \in {0, 1, 2, 3})
        BY <1>4 DEF StartIInv, StartTypeOK, StageOK, PrepareState, At, GoTo, Quit
      <4>3. QED BY <4>1, <4>2 DEF StageOK
    <3>2. DataOK'
      BY <1>0, <1>4 DEF Main, StartNext
    <3>3. QED BY <3>1, <3>2 DEF StartTypeOK
  <2>2. HasAtStage'
    BY <1>4 DEF StartIInv, StartTypeOK, DataOK, HasAtStage, NoLoad, NoCrew, PrepareState, At, GoTo, Quit
  <2>3. WidthAtStage'
    BY <1>4 DEF StartIInv, StartTypeOK, DataOK, Widths, WidthAtStage, HasAtStage, NoCrew, PrepareState, At, GoTo, Quit
  <2>4. PriceAtStage'
    BY <1>4 DEF StartIInv, StartTypeOK, DataOK, Caches, PriceAtStage, KvTypes, PrepareState, At, GoTo, Quit
  <2>5. LeavesNothing'
    BY <1>4 DEF StartIInv, StartTypeOK, DataOK, HasAtStage, LeavesNothing, NoLoad, NoCrew, PrepareState, At, GoTo, Quit
  <2>6. QED BY <2>1, <2>2, <2>3, <2>4, <2>5 DEF StartIInv
<1>5. CASE StartEngine
  <2>1. StartTypeOK'
    <3>1. StageOK'
      <4>1. stage' \in EveryStage
        BY <1>5 DEF StartEngine, At, GoTo, Quit, Refused, EveryStage
      <4>2. code \in Nat /\ (code' = code \/ code' \in {0, 1, 2, 3})
        BY <1>5 DEF StartIInv, StartTypeOK, StageOK, StartEngine, At, GoTo, Quit, Refused
      <4>3. QED BY <4>1, <4>2 DEF StageOK
    <3>2. DataOK'
      BY <1>0, <1>5 DEF Main, StartNext
    <3>3. QED BY <3>1, <3>2 DEF StartTypeOK
  <2>2. HasAtStage'
    BY <1>5 DEF StartIInv, StartTypeOK, DataOK, HasAtStage, NoLoad, NoCrew, StartEngine, At, GoTo, Quit, Refused
  <2>3. WidthAtStage'
    <3>1. width'.slots = width.slots
      BY <1>5 DEF StartIInv, StartTypeOK, DataOK, Widths, StartEngine
    <3>2. stage' = "monitor" => width'.np = width.slots
      BY <1>5 DEF StartIInv, StartTypeOK, DataOK, Widths, StartEngine, Quit, GoTo
    <3>3. QED BY <1>5, <3>1, <3>2 DEF StartIInv, WidthAtStage, HasAtStage, StartEngine, At, GoTo, Quit
  <2>4. PriceAtStage'
    BY <1>5 DEF StartIInv, StartTypeOK, DataOK, Caches, PriceAtStage, KvTypes, StartEngine, At, GoTo, Quit, Refused
  <2>5. LeavesNothing'
    BY <1>5 DEF StartIInv, StartTypeOK, DataOK, HasAtStage, LeavesNothing, NoLoad, NoCrew, StartEngine, At, GoTo, Quit, Refused
  <2>6. QED BY <2>1, <2>2, <2>3, <2>4, <2>5 DEF StartIInv
<1>6. CASE StartMonitor
  <2>1. StartTypeOK'
    <3>1. StageOK'
      <4>1. stage' \in EveryStage
        BY <1>6 DEF StartMonitor, At, GoTo, Quit, EveryStage
      <4>2. code \in Nat /\ (code' = code \/ code' \in {0, 1, 2, 3})
        BY <1>6 DEF StartIInv, StartTypeOK, StageOK, StartMonitor, At, GoTo, Quit
      <4>3. QED BY <4>1, <4>2 DEF StageOK
    <3>2. DataOK'
      BY <1>0, <1>6 DEF Main, StartNext
    <3>3. QED BY <3>1, <3>2 DEF StartTypeOK
  <2>2. HasAtStage'
    BY <1>6 DEF StartIInv, StartTypeOK, DataOK, HasAtStage, NoLoad, NoCrew, StartMonitor, At, GoTo, Quit
  <2>3. WidthAtStage'
    BY <1>6 DEF StartIInv, StartTypeOK, DataOK, Widths, WidthAtStage, HasAtStage, NoCrew, StartMonitor, At, GoTo, Quit
  <2>4. PriceAtStage'
    BY <1>6 DEF StartIInv, StartTypeOK, DataOK, Caches, PriceAtStage, KvTypes, StartMonitor, At, GoTo, Quit
  <2>5. LeavesNothing'
    BY <1>6 DEF StartIInv, StartTypeOK, DataOK, HasAtStage, LeavesNothing, NoLoad, NoCrew, StartMonitor, At, GoTo, Quit
  <2>6. QED BY <2>1, <2>2, <2>3, <2>4, <2>5 DEF StartIInv
<1>7. CASE InstallHandlers
  <2>1. StartTypeOK'
    <3>1. StageOK'
      <4>1. stage' \in EveryStage
        BY <1>7 DEF InstallHandlers, At, GoTo, Quit, EveryStage
      <4>2. code \in Nat /\ (code' = code \/ code' \in {0, 1, 2, 3})
        BY <1>7 DEF StartIInv, StartTypeOK, StageOK, InstallHandlers, At, GoTo, Quit
      <4>3. QED BY <4>1, <4>2 DEF StageOK
    <3>2. DataOK'
      BY <1>0, <1>7 DEF Main, StartNext
    <3>3. QED BY <3>1, <3>2 DEF StartTypeOK
  <2>2. HasAtStage'
    BY <1>7 DEF StartIInv, StartTypeOK, DataOK, HasAtStage, NoLoad, NoCrew, InstallHandlers, At, GoTo, Quit
  <2>3. WidthAtStage'
    BY <1>7 DEF StartIInv, StartTypeOK, DataOK, Widths, WidthAtStage, HasAtStage, NoCrew, InstallHandlers, At, GoTo, Quit
  <2>4. PriceAtStage'
    BY <1>7 DEF StartIInv, StartTypeOK, DataOK, Caches, PriceAtStage, KvTypes, InstallHandlers, At, GoTo, Quit
  <2>5. LeavesNothing'
    BY <1>7 DEF StartIInv, StartTypeOK, DataOK, HasAtStage, LeavesNothing, NoLoad, NoCrew, InstallHandlers, At, GoTo, Quit
  <2>6. QED BY <2>1, <2>2, <2>3, <2>4, <2>5 DEF StartIInv
<1>8. CASE ListenHere
  <2>1. StartTypeOK'
    <3>1. StageOK'
      <4>1. stage' \in EveryStage
        BY <1>8 DEF ListenHere, At, GoTo, Quit, EveryStage
      <4>2. code \in Nat /\ (code' = code \/ code' \in {0, 1, 2, 3})
        BY <1>8 DEF StartIInv, StartTypeOK, StageOK, ListenHere, At, GoTo, Quit
      <4>3. QED BY <4>1, <4>2 DEF StageOK
    <3>2. DataOK'
      BY <1>0, <1>8 DEF Main, StartNext
    <3>3. QED BY <3>1, <3>2 DEF StartTypeOK
  <2>2. HasAtStage'
    BY <1>8 DEF StartIInv, StartTypeOK, DataOK, HasAtStage, NoLoad, NoCrew, ListenHere, At, GoTo, Quit
  <2>3. WidthAtStage'
    BY <1>8 DEF StartIInv, StartTypeOK, DataOK, Widths, WidthAtStage, HasAtStage, NoCrew, ListenHere, At, GoTo, Quit
  <2>4. PriceAtStage'
    BY <1>8 DEF StartIInv, StartTypeOK, DataOK, Caches, PriceAtStage, KvTypes, ListenHere, At, GoTo, Quit
  <2>5. LeavesNothing'
    BY <1>8 DEF StartIInv, StartTypeOK, DataOK, HasAtStage, LeavesNothing, NoLoad, NoCrew, ListenHere, At, GoTo, Quit
  <2>6. QED BY <2>1, <2>2, <2>3, <2>4, <2>5 DEF StartIInv
<1>9. CASE ListenForAgent
  <2>1. StartTypeOK'
    <3>1. StageOK'
      <4>1. stage' \in EveryStage
        BY <1>9 DEF ListenForAgent, At, GoTo, Quit, EveryStage
      <4>2. code \in Nat /\ (code' = code \/ code' \in {0, 1, 2, 3})
        BY <1>9 DEF StartIInv, StartTypeOK, StageOK, ListenForAgent, At, GoTo, Quit
      <4>3. QED BY <4>1, <4>2 DEF StageOK
    <3>2. DataOK'
      BY <1>0, <1>9 DEF Main, StartNext
    <3>3. QED BY <3>1, <3>2 DEF StartTypeOK
  <2>2. HasAtStage'
    BY <1>9 DEF StartIInv, StartTypeOK, DataOK, HasAtStage, NoLoad, NoCrew, ListenForAgent, At, GoTo, Quit
  <2>3. WidthAtStage'
    BY <1>9 DEF StartIInv, StartTypeOK, DataOK, Widths, WidthAtStage, HasAtStage, NoCrew, ListenForAgent, At, GoTo, Quit
  <2>4. PriceAtStage'
    BY <1>9 DEF StartIInv, StartTypeOK, DataOK, Caches, PriceAtStage, KvTypes, ListenForAgent, At, GoTo, Quit
  <2>5. LeavesNothing'
    BY <1>9 DEF StartIInv, StartTypeOK, DataOK, HasAtStage, LeavesNothing, NoLoad, NoCrew, ListenForAgent, At, GoTo, Quit
  <2>6. QED BY <2>1, <2>2, <2>3, <2>4, <2>5 DEF StartIInv
<1>10. CASE StartThreads
  <2>1. StartTypeOK'
    <3>1. StageOK'
      <4>1. stage' \in EveryStage
        BY <1>10 DEF StartThreads, At, GoTo, Quit, EveryStage
      <4>2. code \in Nat /\ (code' = code \/ code' \in {0, 1, 2, 3})
        BY <1>10 DEF StartIInv, StartTypeOK, StageOK, StartThreads, At, GoTo, Quit
      <4>3. QED BY <4>1, <4>2 DEF StageOK
    <3>2. DataOK'
      BY <1>0, <1>10 DEF Main, StartNext
    <3>3. QED BY <3>1, <3>2 DEF StartTypeOK
  <2>2. HasAtStage'
    BY <1>10 DEF StartIInv, StartTypeOK, DataOK, HasAtStage, NoLoad, NoCrew, StartThreads, At, GoTo, Quit
  <2>3. WidthAtStage'
    <3>1. PICK p \in 0..PoolThreads, c \in 0..ControlThreads :
                IF p = 0 \/ c = 0
                THEN Quit(1) /\ UNCHANGED <<crew, width>>
                ELSE /\ GoTo("gate") /\ crew' = [pool |-> p, control |-> c]
                     /\ width' = IF p < PoolThreads
                                 THEN [width EXCEPT !.slots = IF (p - 1) \div 2 > 0 THEN (p - 1) \div 2 ELSE 1]
                                 ELSE width
      BY <1>10 DEF StartThreads
    <3>2. stage = "threads" /\ width.slots > 0 /\ width.np = width.slots
      BY <1>10 DEF StartIInv, WidthAtStage, StartThreads, At
    <3>3. CASE p = 0 \/ c = 0
      BY <3>1, <3>3 DEF WidthAtStage, Quit
    <3>4. CASE p # 0 /\ c # 0
      <4>1. (IF (p - 1) \div 2 > 0 THEN (p - 1) \div 2 ELSE 1) > 0
        BY <3>4
      <4>2. stage' = "gate" /\ crew'.pool = p
        BY <3>1, <3>4 DEF GoTo
      <4>3. p = PoolThreads => UNCHANGED width
        BY <3>1, <3>4
      <4>4. width'.slots > 0
        BY <3>1, <3>2, <3>4, <4>1 DEF StartIInv, StartTypeOK, DataOK, Widths
      <4>5. QED BY <3>2, <4>2, <4>3, <4>4 DEF WidthAtStage
    <3>5. QED BY <3>3, <3>4
  <2>4. PriceAtStage'
    BY <1>10 DEF StartIInv, StartTypeOK, DataOK, Caches, PriceAtStage, KvTypes, StartThreads, At, GoTo, Quit
  <2>5. LeavesNothing'
    BY <1>10 DEF StartIInv, StartTypeOK, DataOK, HasAtStage, LeavesNothing, NoLoad, NoCrew, StartThreads, At, GoTo, Quit
  <2>6. QED BY <2>1, <2>2, <2>3, <2>4, <2>5 DEF StartIInv
<1>11. CASE OpenGate
  <2>1. StartTypeOK'
    <3>1. StageOK'
      <4>1. stage' \in EveryStage
        BY <1>11 DEF OpenGate, At, GoTo, Quit, EveryStage
      <4>2. code \in Nat /\ (code' = code \/ code' \in {0, 1, 2, 3})
        BY <1>11 DEF StartIInv, StartTypeOK, StageOK, OpenGate, At, GoTo, Quit
      <4>3. QED BY <4>1, <4>2 DEF StageOK
    <3>2. DataOK'
      BY <1>0, <1>11 DEF Main, StartNext
    <3>3. QED BY <3>1, <3>2 DEF StartTypeOK
  <2>2. HasAtStage'
    <3>1. stage = "gate" /\ stage' = "serving" /\ width'.gate = width.slots /\ width.slots > 0
      BY <1>11 DEF StartIInv, StartTypeOK, DataOK, Widths, WidthAtStage, OpenGate, At, GoTo
    <3>2. QED BY <1>11, <3>1 DEF StartIInv, HasAtStage, OpenGate
  <2>3. WidthAtStage'
    BY <1>11 DEF StartIInv, StartTypeOK, DataOK, Widths, WidthAtStage, HasAtStage, NoCrew, OpenGate, At, GoTo, Quit
  <2>4. PriceAtStage'
    BY <1>11 DEF StartIInv, StartTypeOK, DataOK, Caches, PriceAtStage, KvTypes, OpenGate, At, GoTo, Quit
  <2>5. LeavesNothing'
    BY <1>11 DEF StartIInv, StartTypeOK, DataOK, HasAtStage, LeavesNothing, NoLoad, NoCrew, OpenGate, At, GoTo, Quit
  <2>6. QED BY <2>1, <2>2, <2>3, <2>4, <2>5 DEF StartIInv
<1>12. CASE Look
  <2>1. StartTypeOK'
    <3>1. StageOK'
      <4>1. stage' \in EveryStage
        BY <1>12 DEF Look, At, GoTo, Quit, Stop, AcceptOne, EveryStage
      <4>2. code \in Nat /\ (code' = code \/ code' \in {0, 1, 2, 3})
        BY <1>12 DEF StartIInv, StartTypeOK, StageOK, Look, At, GoTo, Quit, Stop, AcceptOne
      <4>3. QED BY <4>1, <4>2 DEF StageOK
    <3>2. DataOK'
      BY <1>0, <1>12 DEF Main, StartNext
    <3>3. QED BY <3>1, <3>2 DEF StartTypeOK
  <2>2. HasAtStage'
    BY <1>12 DEF StartIInv, StartTypeOK, DataOK, HasAtStage, NoLoad, NoCrew, Look, At, GoTo, Quit, Stop, AcceptOne
  <2>3. WidthAtStage'
    BY <1>12 DEF StartIInv, StartTypeOK, DataOK, Widths, WidthAtStage, HasAtStage, NoCrew, Look, At, GoTo, Quit, Stop, AcceptOne
  <2>4. PriceAtStage'
    BY <1>12 DEF StartIInv, StartTypeOK, DataOK, Caches, PriceAtStage, KvTypes, Look, At, GoTo, Quit, Stop, AcceptOne
  <2>5. LeavesNothing'
    BY <1>12 DEF StartIInv, StartTypeOK, DataOK, HasAtStage, LeavesNothing, NoLoad, NoCrew, Look, At, GoTo, Quit, Stop, AcceptOne
  <2>6. QED BY <2>1, <2>2, <2>3, <2>4, <2>5 DEF StartIInv
<1>13. CASE StopPools
  <2>1. StartTypeOK'
    <3>1. StageOK'
      <4>1. stage' \in EveryStage
        BY <1>13 DEF StopPools, At, GoTo, Quit, afterStage, EveryStage
      <4>2. code \in Nat /\ (code' = code \/ code' \in {0, 1, 2, 3})
        BY <1>13 DEF StartIInv, StartTypeOK, StageOK, StopPools, At, GoTo, Quit, afterStage
      <4>3. QED BY <4>1, <4>2 DEF StageOK
    <3>2. DataOK'
      BY <1>0, <1>13 DEF Main, StartNext
    <3>3. QED BY <3>1, <3>2 DEF StartTypeOK
  <2>2. HasAtStage'
    BY <1>13 DEF StartIInv, StartTypeOK, DataOK, HasAtStage, NoLoad, NoCrew, StopPools, At, GoTo, Quit, afterStage
  <2>3. WidthAtStage'
    BY <1>13 DEF StartIInv, StartTypeOK, DataOK, Widths, WidthAtStage, HasAtStage, NoCrew, StopPools, At, GoTo, Quit, afterStage
  <2>4. PriceAtStage'
    BY <1>13 DEF StartIInv, StartTypeOK, DataOK, Caches, PriceAtStage, KvTypes, StopPools, At, GoTo, Quit, afterStage
  <2>5. LeavesNothing'
    BY <1>13 DEF StartIInv, StartTypeOK, DataOK, HasAtStage, LeavesNothing, NoLoad, NoCrew, StopPools, At, GoTo, Quit, afterStage
  <2>6. QED BY <2>1, <2>2, <2>3, <2>4, <2>5 DEF StartIInv
<1>14. CASE JoinPools
  <2>1. StartTypeOK'
    <3>1. StageOK'
      <4>1. stage' \in EveryStage
        BY <1>14 DEF JoinPools, At, GoTo, Quit, EveryStage
      <4>2. code \in Nat /\ (code' = code \/ code' \in {0, 1, 2, 3})
        BY <1>14 DEF StartIInv, StartTypeOK, StageOK, JoinPools, At, GoTo, Quit
      <4>3. QED BY <4>1, <4>2 DEF StageOK
    <3>2. DataOK'
      BY <1>0, <1>14 DEF Main, StartNext
    <3>3. QED BY <3>1, <3>2 DEF StartTypeOK
  <2>2. HasAtStage'
    BY <1>14 DEF StartIInv, StartTypeOK, DataOK, HasAtStage, NoLoad, NoCrew, JoinPools, At, GoTo, Quit
  <2>3. WidthAtStage'
    BY <1>14 DEF StartIInv, StartTypeOK, DataOK, Widths, WidthAtStage, HasAtStage, NoCrew, JoinPools, At, GoTo, Quit
  <2>4. PriceAtStage'
    BY <1>14 DEF StartIInv, StartTypeOK, DataOK, Caches, PriceAtStage, KvTypes, JoinPools, At, GoTo, Quit
  <2>5. LeavesNothing'
    BY <1>14 DEF StartIInv, StartTypeOK, DataOK, HasAtStage, LeavesNothing, NoLoad, NoCrew, JoinPools, At, GoTo, Quit
  <2>6. QED BY <2>1, <2>2, <2>3, <2>4, <2>5 DEF StartIInv
<1>15. CASE JoinWarming
  <2>1. StartTypeOK'
    <3>1. StageOK'
      <4>1. stage' \in EveryStage
        BY <1>15 DEF JoinWarming, At, GoTo, Quit, afterStage, EveryStage
      <4>2. code \in Nat /\ (code' = code \/ code' \in {0, 1, 2, 3})
        BY <1>15 DEF StartIInv, StartTypeOK, StageOK, JoinWarming, At, GoTo, Quit, afterStage
      <4>3. QED BY <4>1, <4>2 DEF StageOK
    <3>2. DataOK'
      BY <1>0, <1>15 DEF Main, StartNext
    <3>3. QED BY <3>1, <3>2 DEF StartTypeOK
  <2>2. HasAtStage'
    BY <1>15 DEF StartIInv, StartTypeOK, DataOK, HasAtStage, NoLoad, NoCrew, JoinWarming, At, GoTo, Quit, afterStage
  <2>3. WidthAtStage'
    BY <1>15 DEF StartIInv, StartTypeOK, DataOK, Widths, WidthAtStage, HasAtStage, NoCrew, JoinWarming, At, GoTo, Quit, afterStage
  <2>4. PriceAtStage'
    BY <1>15 DEF StartIInv, StartTypeOK, DataOK, Caches, PriceAtStage, KvTypes, JoinWarming, At, GoTo, Quit, afterStage
  <2>5. LeavesNothing'
    BY <1>15 DEF StartIInv, StartTypeOK, DataOK, HasAtStage, LeavesNothing, NoLoad, NoCrew, JoinWarming, At, GoTo, Quit, afterStage
  <2>6. QED BY <2>1, <2>2, <2>3, <2>4, <2>5 DEF StartIInv
<1>16. CASE CloseDoors
  <2>1. StartTypeOK'
    <3>1. StageOK'
      <4>1. stage' \in EveryStage
        BY <1>16 DEF CloseDoors, At, GoTo, Quit, EveryStage
      <4>2. code \in Nat /\ (code' = code \/ code' \in {0, 1, 2, 3})
        BY <1>16 DEF StartIInv, StartTypeOK, StageOK, CloseDoors, At, GoTo, Quit
      <4>3. QED BY <4>1, <4>2 DEF StageOK
    <3>2. DataOK'
      BY <1>0, <1>16 DEF Main, StartNext
    <3>3. QED BY <3>1, <3>2 DEF StartTypeOK
  <2>2. HasAtStage'
    BY <1>16 DEF StartIInv, StartTypeOK, DataOK, HasAtStage, NoLoad, NoCrew, CloseDoors, At, GoTo, Quit
  <2>3. WidthAtStage'
    BY <1>16 DEF StartIInv, StartTypeOK, DataOK, Widths, WidthAtStage, HasAtStage, NoCrew, CloseDoors, At, GoTo, Quit
  <2>4. PriceAtStage'
    BY <1>16 DEF StartIInv, StartTypeOK, DataOK, Caches, PriceAtStage, KvTypes, CloseDoors, At, GoTo, Quit
  <2>5. LeavesNothing'
    BY <1>16 DEF StartIInv, StartTypeOK, DataOK, HasAtStage, LeavesNothing, NoLoad, NoCrew, CloseDoors, At, GoTo, Quit
  <2>6. QED BY <2>1, <2>2, <2>3, <2>4, <2>5 DEF StartIInv
<1>17. CASE ShutDown
  <2>1. StartTypeOK'
    <3>1. StageOK'
      <4>1. stage' \in EveryStage
        BY <1>17 DEF ShutDown, At, GoTo, Quit, EveryStage
      <4>2. code \in Nat /\ (code' = code \/ code' \in {0, 1, 2, 3})
        BY <1>17 DEF StartIInv, StartTypeOK, StageOK, ShutDown, At, GoTo, Quit
      <4>3. QED BY <4>1, <4>2 DEF StageOK
    <3>2. DataOK'
      BY <1>0, <1>17 DEF Main, StartNext
    <3>3. QED BY <3>1, <3>2 DEF StartTypeOK
  <2>2. HasAtStage'
    BY <1>17 DEF StartIInv, StartTypeOK, DataOK, HasAtStage, NoLoad, NoCrew, ShutDown, At, GoTo, Quit
  <2>3. WidthAtStage'
    BY <1>17 DEF StartIInv, StartTypeOK, DataOK, Widths, WidthAtStage, HasAtStage, NoCrew, ShutDown, At, GoTo, Quit
  <2>4. PriceAtStage'
    BY <1>17 DEF StartIInv, StartTypeOK, DataOK, Caches, PriceAtStage, KvTypes, ShutDown, At, GoTo, Quit
  <2>5. LeavesNothing'
    BY <1>17 DEF StartIInv, StartTypeOK, DataOK, HasAtStage, LeavesNothing, NoLoad, NoCrew, ShutDown, At, GoTo, Quit
  <2>6. QED BY <2>1, <2>2, <2>3, <2>4, <2>5 DEF StartIInv
<1>18. CASE Take
  <2>1. StartTypeOK'
    <3>1. StageOK'
      <4>1. stage' \in EveryStage
        BY <1>18 DEF Take, At, GoTo, Quit, Ended, StartIInv, StartTypeOK, StageOK, EveryStage
      <4>2. code \in Nat /\ (code' = code \/ code' \in {0, 1, 2, 3})
        BY <1>18 DEF StartIInv, StartTypeOK, StageOK, Take, At, GoTo, Quit, Ended
      <4>3. QED BY <4>1, <4>2 DEF StageOK
    <3>2. DataOK'
      BY <1>0, <1>18 DEF StartNext
    <3>3. QED BY <3>1, <3>2 DEF StartTypeOK
  <2>2. HasAtStage'
    <3>1. stage \in Working
      <4>1. load # NoLoad
        BY <1>18 DEF NoLoad, Take
      <4>2. QED BY <4>1 DEF StartIInv, HasAtStage
    <3>2. QED BY <1>18, <3>1 DEF StartIInv, HasAtStage, Take
  <2>3. WidthAtStage'
    BY <1>18 DEF StartIInv, StartTypeOK, DataOK, Widths, WidthAtStage, HasAtStage, NoCrew, Take, At, GoTo, Quit, Ended
  <2>4. PriceAtStage'
    BY <1>18 DEF StartIInv, StartTypeOK, DataOK, Caches, PriceAtStage, KvTypes, Take, At, GoTo, Quit, Ended
  <2>5. LeavesNothing'
    BY <1>18 DEF StartIInv, StartTypeOK, DataOK, HasAtStage, LeavesNothing, NoLoad, NoCrew, Take, At, GoTo, Quit, Ended
  <2>6. QED BY <2>1, <2>2, <2>3, <2>4, <2>5 DEF StartIInv
<1>19. CASE EndRequest
  <2>1. StartTypeOK'
    <3>1. StageOK'
      <4>1. stage' \in EveryStage
        BY <1>19 DEF EndRequest, At, GoTo, Quit, Ended, StartIInv, StartTypeOK, StageOK, EveryStage
      <4>2. code \in Nat /\ (code' = code \/ code' \in {0, 1, 2, 3})
        BY <1>19 DEF StartIInv, StartTypeOK, StageOK, EndRequest, At, GoTo, Quit, Ended
      <4>3. QED BY <4>1, <4>2 DEF StageOK
    <3>2. DataOK'
      BY <1>0, <1>19 DEF StartNext
    <3>3. QED BY <3>1, <3>2 DEF StartTypeOK
  <2>2. HasAtStage'
    <3>1. stage \in Working
      <4>1. load # NoLoad
        BY <1>19 DEF NoLoad, EndRequest
      <4>2. QED BY <4>1 DEF StartIInv, HasAtStage
    <3>2. QED BY <1>19, <3>1 DEF StartIInv, HasAtStage, EndRequest
  <2>3. WidthAtStage'
    BY <1>19 DEF StartIInv, StartTypeOK, DataOK, Widths, WidthAtStage, HasAtStage, NoCrew, EndRequest, At, GoTo, Quit, Ended
  <2>4. PriceAtStage'
    BY <1>19 DEF StartIInv, StartTypeOK, DataOK, Caches, PriceAtStage, KvTypes, EndRequest, At, GoTo, Quit, Ended
  <2>5. LeavesNothing'
    BY <1>19 DEF StartIInv, StartTypeOK, DataOK, HasAtStage, LeavesNothing, NoLoad, NoCrew, EndRequest, At, GoTo, Quit, Ended
  <2>6. QED BY <2>1, <2>2, <2>3, <2>4, <2>5 DEF StartIInv
<1>20. CASE EndWarming
  <2>1. StartTypeOK'
    <3>1. StageOK'
      <4>1. stage' \in EveryStage
        BY <1>20 DEF EndWarming, At, GoTo, Quit, Ended, StartIInv, StartTypeOK, StageOK, EveryStage
      <4>2. code \in Nat /\ (code' = code \/ code' \in {0, 1, 2, 3})
        BY <1>20 DEF StartIInv, StartTypeOK, StageOK, EndWarming, At, GoTo, Quit, Ended
      <4>3. QED BY <4>1, <4>2 DEF StageOK
    <3>2. DataOK'
      BY <1>0, <1>20 DEF StartNext
    <3>3. QED BY <3>1, <3>2 DEF StartTypeOK
  <2>2. HasAtStage'
    BY <1>20 DEF StartIInv, StartTypeOK, DataOK, HasAtStage, NoLoad, NoCrew, EndWarming, At, GoTo, Quit, Ended
  <2>3. WidthAtStage'
    BY <1>20 DEF StartIInv, StartTypeOK, DataOK, Widths, WidthAtStage, HasAtStage, NoCrew, EndWarming, At, GoTo, Quit, Ended
  <2>4. PriceAtStage'
    BY <1>20 DEF StartIInv, StartTypeOK, DataOK, Caches, PriceAtStage, KvTypes, EndWarming, At, GoTo, Quit, Ended
  <2>5. LeavesNothing'
    BY <1>20 DEF StartIInv, StartTypeOK, DataOK, HasAtStage, LeavesNothing, NoLoad, NoCrew, EndWarming, At, GoTo, Quit, Ended
  <2>6. QED BY <2>1, <2>2, <2>3, <2>4, <2>5 DEF StartIInv
<1>21. CASE EngineMoves
  <2>1. StartTypeOK'
    <3>1. StageOK'
      <4>1. stage' \in EveryStage
        BY <1>21 DEF EngineMoves, At, GoTo, Quit, Ended, StartIInv, StartTypeOK, StageOK, EveryStage
      <4>2. code \in Nat /\ (code' = code \/ code' \in {0, 1, 2, 3})
        BY <1>21 DEF StartIInv, StartTypeOK, StageOK, EngineMoves, At, GoTo, Quit, Ended
      <4>3. QED BY <4>1, <4>2 DEF StageOK
    <3>2. DataOK'
      BY <1>0, <1>21 DEF StartNext
    <3>3. QED BY <3>1, <3>2 DEF StartTypeOK
  <2>2. HasAtStage'
    BY <1>21 DEF StartIInv, StartTypeOK, DataOK, HasAtStage, NoLoad, NoCrew, EngineMoves, At, GoTo, Quit, Ended
  <2>3. WidthAtStage'
    BY <1>21 DEF StartIInv, StartTypeOK, DataOK, Widths, WidthAtStage, HasAtStage, NoCrew, EngineMoves, At, GoTo, Quit, Ended
  <2>4. PriceAtStage'
    BY <1>21 DEF StartIInv, StartTypeOK, DataOK, Caches, PriceAtStage, KvTypes, EngineMoves, At, GoTo, Quit, Ended
  <2>5. LeavesNothing'
    BY <1>21 DEF StartIInv, StartTypeOK, DataOK, HasAtStage, LeavesNothing, NoLoad, NoCrew, EngineMoves, At, GoTo, Quit, Ended
  <2>6. QED BY <2>1, <2>2, <2>3, <2>4, <2>5 DEF StartIInv
<1>22. CASE EditFile
  <2>1. StartTypeOK'
    <3>1. StageOK'
      <4>1. stage' \in EveryStage
        BY <1>22 DEF EditFile, At, GoTo, Quit, Ended, StartIInv, StartTypeOK, StageOK, EveryStage
      <4>2. code \in Nat /\ (code' = code \/ code' \in {0, 1, 2, 3})
        BY <1>22 DEF StartIInv, StartTypeOK, StageOK, EditFile, At, GoTo, Quit, Ended
      <4>3. QED BY <4>1, <4>2 DEF StageOK
    <3>2. DataOK'
      BY <1>0, <1>22 DEF StartNext
    <3>3. QED BY <3>1, <3>2 DEF StartTypeOK
  <2>2. HasAtStage'
    BY <1>22 DEF StartIInv, StartTypeOK, DataOK, HasAtStage, NoLoad, NoCrew, EditFile, At, GoTo, Quit, Ended
  <2>3. WidthAtStage'
    BY <1>22 DEF StartIInv, StartTypeOK, DataOK, Widths, WidthAtStage, HasAtStage, NoCrew, EditFile, At, GoTo, Quit, Ended
  <2>4. PriceAtStage'
    BY <1>22 DEF StartIInv, StartTypeOK, DataOK, Caches, PriceAtStage, KvTypes, EditFile, At, GoTo, Quit, Ended
  <2>5. LeavesNothing'
    BY <1>22 DEF StartIInv, StartTypeOK, DataOK, HasAtStage, LeavesNothing, NoLoad, NoCrew, EditFile, At, GoTo, Quit, Ended
  <2>6. QED BY <2>1, <2>2, <2>3, <2>4, <2>5 DEF StartIInv
<1>23. CASE Terminate
  <2>1. StartTypeOK'
    <3>1. StageOK'
      <4>1. stage' \in EveryStage
        BY <1>23 DEF Terminate, At, GoTo, Quit, Ended, StartIInv, StartTypeOK, StageOK, EveryStage
      <4>2. code \in Nat /\ (code' = code \/ code' \in {0, 1, 2, 3})
        BY <1>23 DEF StartIInv, StartTypeOK, StageOK, Terminate, At, GoTo, Quit, Ended
      <4>3. QED BY <4>1, <4>2 DEF StageOK
    <3>2. DataOK'
      BY <1>0, <1>23 DEF StartNext
    <3>3. QED BY <3>1, <3>2 DEF StartTypeOK
  <2>2. HasAtStage'
    BY <1>23 DEF StartIInv, StartTypeOK, DataOK, HasAtStage, NoLoad, NoCrew, Terminate, At, GoTo, Quit, Ended
  <2>3. WidthAtStage'
    BY <1>23 DEF StartIInv, StartTypeOK, DataOK, Widths, WidthAtStage, HasAtStage, NoCrew, Terminate, At, GoTo, Quit, Ended
  <2>4. PriceAtStage'
    BY <1>23 DEF StartIInv, StartTypeOK, DataOK, Caches, PriceAtStage, KvTypes, Terminate, At, GoTo, Quit, Ended
  <2>5. LeavesNothing'
    BY <1>23 DEF StartIInv, StartTypeOK, DataOK, HasAtStage, LeavesNothing, NoLoad, NoCrew, Terminate, At, GoTo, Quit, Ended
  <2>6. QED BY <2>1, <2>2, <2>3, <2>4, <2>5 DEF StartIInv
<1>24. CASE UNCHANGED startVars
  <2>1. StartTypeOK'
    BY <1>24 DEF StartIInv, StartTypeOK, DataOK, StageOK, startVars
  <2>2. HasAtStage' /\ WidthAtStage' /\ PriceAtStage' /\ LeavesNothing'
    BY <1>24 DEF StartIInv, HasAtStage, WidthAtStage, PriceAtStage, LeavesNothing, NoLoad, NoCrew, KvTypes, startVars
  <2>3. QED BY <2>1, <2>2 DEF StartIInv
<1>25. QED
  BY <1>1, <1>2, <1>3, <1>4, <1>5, <1>6, <1>7, <1>8, <1>9, <1>10, <1>11, <1>12, <1>13, <1>14,
     <1>15, <1>16, <1>17, <1>18, <1>19, <1>20, <1>21, <1>22, <1>23, <1>24, ChecksKeep DEF StartNext, Main

\* A coordinator that has just been called has nothing.
LEMMA StartInitially == StartInit => StartIInv
<1> SUFFICES ASSUME StartInit PROVE StartIInv
  OBVIOUS
<1> USE StartAssumption DEF StartInit
<1>1. StageOK
  BY DEF StageOK, EveryStage, Checks, Early
<1>2. DataOK
  <2>1. cache \in Caches
    <3>1. setup.env \in KvType /\ setup.file \in Names
      BY DEF KvType, Names
    <3>2. QED BY <3>1 DEF Caches
  <2>2. QED BY <2>1 DEF DataOK, Engines, Warmings, Widths
<1>3. HasAtStage /\ WidthAtStage /\ PriceAtStage /\ LeavesNothing
  BY DEF HasAtStage, WidthAtStage, PriceAtStage, LeavesNothing, NoLoad, NoCrew, Checks, Early, Arming, Opening, Working, Leaving, Over
<1>4. QED BY <1>1, <1>2, <1>3 DEF StartIInv, StartTypeOK

\* What was put on a stage at which connections are served has an engine behind it.
LEMMA StartedIsWhole == StartIInv => ServiceIsWhole
<1> SUFFICES ASSUME StartIInv PROVE ServiceIsWhole
  OBVIOUS
<1>1. LeavesNothing /\ PricedIsSpawned
  BY DEF StartIInv, PriceAtStage, PricedIsSpawned
<1>2. WorkHasEngine
  <2>1. load.busy + load.queued > 0 => load # NoLoad
    BY DEF NoLoad
  <2>2. QED BY <2>1 DEF StartIInv, HasAtStage, WorkHasEngine
<1>3. GateFitsEngine
  BY DEF StartIInv, WidthAtStage, GateFitsEngine
<1>4. QED BY <1>1, <1>2, <1>3 DEF ServiceIsWhole

\* However it is started, refused, short of threads, edited around or killed: a coordinator
\* that has exited leaves no engine, no door, no thread and no connection; whoever is being
\* served has an engine and a gate that was set; the engine's cache is of the type the plan was
\* priced at, once; and the gate is as wide as the engine unless threads were short
\* (coord_main.c, main() and run_llamacpp_mode()).
THEOREM ServiceStandsWhole == StartSpec => []ServiceIsWhole
<1>1. QED BY StartInitially, StartInductive, StartedIsWhole, PTL DEF StartSpec

-----------------------------------------------------------------------------
\* AgentDirect.
\* The main thread is out of its loop exactly while it serves somebody.
InlineServes == agent.pc = "inline" <=> agent.serves # Nobody
\* How far a connection is says what is known of it: who serves it, what the coordinator said
\* of it, and that what is answered has a status.
Whole(conn) == conn.whole /\ conn.said = 200
Known(conn) ==
    /\ conn.by = "none" <=> conn.pc \in {"away", "dialed", "accepted"}
    /\ conn.pc \in {"away", "dialed", "accepted", "reading", "opening", "asked"} => conn.said = NotAsked
    /\ conn.pc = "sealing" => Whole(conn)
    /\ conn.pc \in {"answered", "closed"} => conn.status # 0
    /\ conn.said \in Passed => conn.status = conn.said
\* The session that was served is what is cached.
Cached(c) == prefix' = [prefix EXCEPT !.live = c, !.dirty = TRUE]
KnownByPlace == \A c \in Conns : Known(conns[c])
\* The key is there as soon as it was looked for.
KeyIsFound == agent.pc \in Started \cup {"socket"} => agent.key \in {"whole", "not given"}
DirectIInv ==
    /\ DirectTypeOK /\ InlineServes /\ KnownByPlace /\ PlacesAreThreads
    /\ MainServesOne /\ ReportedIsServed /\ KeyIsFound

-----------------------------------------------------------------------------
\* The threads there are can be counted.
LEMMA ThreadsFinite == IsFiniteSet(Threads) /\ Cardinality(Threads) \in Nat
<1>1. Threads \in SUBSET Conns
  BY DEF Threads
<1>2. QED BY <1>1, DirectAssumption, FS_Subset, FS_CardinalityType

\* A step that starts no thread and closes no thread's connection leaves the count as it is.
LEMMA SameThreads ==
    ASSUME PlacesAreThreads, UNCHANGED inflight,
           agent'.pc = "placing" <=> agent.pc = "placing",
           \A c \in Conns : (conns'[c].by = "thread" /\ conns'[c].pc # "closed")
                              <=> (conns[c].by = "thread" /\ conns[c].pc # "closed")
    PROVE  PlacesAreThreads'
<1>1. Threads' = Threads
  BY DEF Threads
<1>2. QED BY <1>1 DEF PlacesAreThreads

\* The main thread's own steps, as long as it neither serves nor accepts anybody.
LEMMA MainKeeps ==
    ASSUME DirectIInv, UNCHANGED <<conns, inflight>>,
           agent'.serves = agent.serves, agent.pc \notin {"inline", "placing"},
           agent'.pc \notin {"inline", "placing"}, DirectTypeOK', ReportedIsServed', KeyIsFound'
    PROVE  DirectIInv'
<1>1. PlacesAreThreads'
  BY SameThreads DEF DirectIInv
<1>2. KnownByPlace' /\ MainServesOne' /\ InlineServes'
  BY DEF DirectIInv, KnownByPlace, MainServesOne, InlineServes
<1>3. QED BY <1>1, <1>2 DEF DirectIInv

\* A connection that goes on in the hands it is in, and is not closed: no place is taken or given
\* back, and what becomes the session is what the coordinator answered.
LEMMA ConnGoesOn ==
    ASSUME DirectIInv, NEW c \in Conns, NEW conn \in Conn,
           conns' = [conns EXCEPT ![c] = conn], UNCHANGED <<agent, inflight>>,
           conns[c].pc # "closed", conn.pc # "closed", conn.by = conns[c].by,
           Known(conn), Whole(conns[c]) => Whole(conn),
           \/ UNCHANGED prefix
           \/ Whole(conn) /\ Cached(c)
    PROVE  DirectIInv'
<1> USE DEF DirectIInv
<1>1. DirectTypeOK'
  BY DEF DirectTypeOK, Cached
<1>2. \A d \in Conns : /\ conns'[d].by = conns[d].by
                       /\ conns'[d].pc # "closed" <=> conns[d].pc # "closed"
  BY DEF DirectTypeOK
<1>3. PlacesAreThreads'
  BY <1>2, SameThreads
<1>4. MainServesOne' /\ InlineServes'
  BY <1>2 DEF MainServesOne, InlineServes
<1>5. KnownByPlace'
  BY DEF KnownByPlace, DirectTypeOK
<1>6. ReportedIsServed'
  <2>1. \A d \in Conns : Whole(conns[d]) => Whole(conns'[d])
    BY DEF DirectTypeOK
  <2>2. CASE UNCHANGED prefix
    BY <2>1, <2>2, DirectAssumption DEF ReportedIsServed, DirectTypeOK, Whole
  <2>3. CASE Whole(conn) /\ Cached(c)
    <3>1. prefix'.live = c /\ prefix'.told = prefix.told /\ Whole(conns'[c])
      BY <2>3 DEF DirectTypeOK, Cached
    <3>2. QED BY <2>1, <3>1 DEF ReportedIsServed, DirectTypeOK, Whole
  <2>4. QED BY <2>2, <2>3
<1>7. KeyIsFound'
  BY DEF KeyIsFound
<1>8. QED BY <1>1, <1>3, <1>4, <1>5, <1>6, <1>7

\* What the steps below name is named in the types.
LEMMA Named ==
    /\ "dialed" \in Places /\ "reading" \in Places /\ "opening" \in Places /\ "asked" \in Places
    /\ "sealing" \in Places /\ "answered" \in Places /\ "closed" \in Places
    /\ "accepted" \in Places /\ "placing" \in Stages
    /\ 200 \in Statuses /\ Silence \in Statuses /\ "thread" \in Hands /\ "main" \in Hands
    /\ "key" \in Stages /\ "socket" \in Stages /\ "engine" \in Stages /\ "register" \in Stages
    /\ "listen" \in Stages /\ "loop" \in Stages /\ "report" \in Stages /\ "posting" \in Stages
    /\ "accept" \in Stages /\ "inline" \in Stages /\ "relay" \in Stages /\ "exited" \in Stages
BY DEF Places, Statuses, Silence, Hands, Stages

-----------------------------------------------------------------------------
\* What the main thread may be after a step that serves nobody: where its key is asked for it is.
Unengaged(old, new) ==
    /\ new \in Agent /\ new.pc \notin {"inline", "placing"}
    /\ new.serves = old.serves
    /\ new.pc \in Started \cup {"socket"} => new.key \in {"whole", "not given"}

\* The main thread's start and its loop.
LEMMA MainStepKeeps == DirectIInv /\ (StartStep \/ LoopStep) => DirectIInv'
<1> SUFFICES ASSUME DirectIInv, StartStep \/ LoopStep PROVE DirectIInv'
  OBVIOUS
<1>1. agent \in Agent /\ prefix \in [live : Conns \cup {Nobody}, dirty : BOOLEAN, told : Conns \cup {Nobody}]
  BY DEF DirectIInv, DirectTypeOK
<1>2. agent.pc \in Started \cup {"socket"} => agent.key \in {"whole", "not given"}
  BY DEF DirectIInv, KeyIsFound
\* Where the main thread goes, and that nobody is served for it.
<1>3. ASSUME NEW pc \in Stages, Goes(pc), pc \notin {"inline", "placing"},
             pc \in Started \cup {"socket"} => agent.key \in {"whole", "not given"}
      PROVE  Unengaged(agent, agent') /\ agent'.folded = agent.folded
  BY <1>1, <1>3 DEF Goes, Agent, Unengaged
<1>4. ASSUME NEW exit \in 0..4, Exits(exit)
      PROVE  Unengaged(agent, agent') /\ agent'.folded = agent.folded
  BY <1>1, <1>4, Named DEF Exits, Agent, Unengaged, Started
\* What follows, once the main thread and the report of a prefix are what they may be.
<1>5. ASSUME Unengaged(agent, agent'), agent.pc \notin {"inline", "placing"},
             UNCHANGED <<conns, inflight>>,
             prefix' \in [live : Conns \cup {Nobody}, dirty : BOOLEAN, told : Conns \cup {Nobody}],
             prefix'.live = prefix.live, prefix'.told \in {prefix.told, agent.folded},
             agent'.folded \in {agent.folded, prefix.live, Nobody}
      PROVE  DirectIInv'
  <2>1. DirectTypeOK'
    BY <1>5 DEF DirectTypeOK, DirectIInv, Unengaged
  <2>2. ReportedIsServed'
    BY <1>5 DEF ReportedIsServed, DirectIInv
  <2>3. KeyIsFound'
    BY <1>5 DEF KeyIsFound, Unengaged
  <2>4. QED BY <1>5, <2>1, <2>2, <2>3, MainKeeps DEF Unengaged
<1>6. CASE StartStep
  <2>1. UNCHANGED <<conns, inflight, prefix>> /\ agent.pc \notin {"inline", "placing"}
    BY <1>6 DEF StartStep, ReadCommandLine, LoadKey, AwaitSocket, AwaitEngine, Register, Listen, Unserved
  <2>2. CASE LoadKey
    <3>1. KeyFiles = {"not given", "absent", "short", "whole", "unreadable"}
      BY DEF KeyFiles
    <3>2. \/ Exits(1)
          \/ Goes("socket") /\ agent.key \in {"whole", "not given"}
          \/ agent' = [agent EXCEPT !.pc = "socket", !.key = "whole"]
          \/ \E left \in {"absent", "short"} : agent' = [agent EXCEPT !.pc = "exited", !.code = 1, !.key = left]
      BY <1>1, <2>2 DEF LoadKey, Agent, KeyFiles
    <3>3. Unengaged(agent, agent') /\ agent'.folded = agent.folded
      <4>1. CASE Exits(1)
        BY <1>4, <4>1
      <4>2. CASE Goes("socket") /\ agent.key \in {"whole", "not given"}
        BY <1>3, <4>2, Named
      <4>3. CASE agent' = [agent EXCEPT !.pc = "socket", !.key = "whole"]
        BY <1>1, <3>1, <4>3, Named DEF Agent, Unengaged
      <4>4. ASSUME NEW left \in {"absent", "short"}, agent' = [agent EXCEPT !.pc = "exited", !.code = 1, !.key = left]
            PROVE  Unengaged(agent, agent') /\ agent'.folded = agent.folded
        <5>1. left \in KeyFiles
          BY <3>1, <4>4
        <5>5. 1 \in 0..4
          OBVIOUS
        <5>4. agent' = [agent EXCEPT !.pc = "exited", !.code = 1, !.key = left]
          BY <4>4
        <5>2. /\ agent' \in Agent /\ agent'.pc = "exited"
              /\ agent'.serves = agent.serves /\ agent'.folded = agent.folded
          BY <1>1, <5>4, <5>1, <5>5, Named DEF Agent
        <5>3. QED BY <5>2 DEF Unengaged, Started
      <4>5. QED BY <3>2, <4>1, <4>2, <4>3, <4>4
    <3>4. QED BY <1>1, <1>5, <2>1, <3>3
  <2>3. CASE ~LoadKey
    <3>1. \/ \E exit \in 0..4 : Exits(exit)
          \/ \E pc \in Stages : /\ pc \notin {"inline", "placing"} /\ Goes(pc)
                                /\ pc = "key" \/ agent.pc \in Started \cup {"socket"}
      BY <1>6, <2>3, Named DEF StartStep, ReadCommandLine, AwaitSocket, AwaitEngine, Register, Listen, Started
    <3>2. Unengaged(agent, agent') /\ agent'.folded = agent.folded
      <4>1. "key" \notin Started \cup {"socket"}
        BY DEF Started
      <4>2. QED BY <1>2, <1>3, <1>4, <3>1, <4>1
    <3>3. QED BY <1>1, <1>5, <2>1, <3>2
  <2>4. QED BY <2>2, <2>3
<1>7. CASE LoopStep
  <2>1. UNCHANGED <<conns, inflight>> /\ agent.pc \notin {"inline", "placing"} /\ agent.pc \in Started
    BY <1>7 DEF LoopStep, Beat, Report, Reported, Nothing, Unserved, Started
  <2>2. CASE Beat \/ Nothing \/ Report
    <3>1. \/ /\ Exits(0) \/ \E pc \in Stages : pc \notin {"inline", "placing"} /\ Goes(pc)
             /\ UNCHANGED prefix \/ prefix' = [prefix EXCEPT !.dirty = FALSE]
          \/ agent' = [agent EXCEPT !.pc = "posting", !.folded = prefix.live] /\ UNCHANGED prefix
      BY <2>2, Named DEF Beat, Nothing, Report, Unserved
    <3>2. Unengaged(agent, agent') /\ agent'.folded \in {agent.folded, prefix.live}
      <4>1. CASE Exits(0)
        BY <1>4, <4>1
      <4>2. CASE \E pc \in Stages : pc \notin {"inline", "placing"} /\ Goes(pc)
        BY <1>2, <1>3, <2>1, <4>2
      <4>3. CASE agent' = [agent EXCEPT !.pc = "posting", !.folded = prefix.live]
        BY <1>1, <1>2, <2>1, <4>3, Named DEF Agent, Unengaged
      <4>4. QED BY <3>1, <4>1, <4>2, <4>3
    <3>3. /\ prefix' \in [live : Conns \cup {Nobody}, dirty : BOOLEAN, told : Conns \cup {Nobody}]
          /\ prefix'.live = prefix.live /\ prefix'.told = prefix.told
      BY <1>1, <3>1
    <3>4. QED BY <1>5, <2>1, <3>2, <3>3
  <2>3. CASE Reported
    <3>1. /\ agent' = [agent EXCEPT !.pc = "accept", !.folded = Nobody]
          /\ prefix' = [prefix EXCEPT !.dirty = FALSE, !.told = agent.folded] \/ UNCHANGED prefix
      BY <2>3 DEF Reported
    <3>2. Unengaged(agent, agent') /\ agent'.folded = Nobody /\ agent.folded \in Conns \cup {Nobody}
      BY <1>1, <1>2, <2>1, <3>1, Named DEF Agent, Unengaged
    <3>3. /\ prefix' \in [live : Conns \cup {Nobody}, dirty : BOOLEAN, told : Conns \cup {Nobody}]
          /\ prefix'.live = prefix.live /\ prefix'.told \in {prefix.told, agent.folded}
      BY <1>1, <3>1, <3>2
    <3>4. QED BY <1>5, <2>1, <3>2, <3>3
  <2>4. QED BY <1>7, <2>2, <2>3 DEF LoopStep
<1>8. QED BY <1>6, <1>7

\* The main thread serves a connection itself, which nobody served yet.
LEMMA MainTakes ==
    ASSUME DirectIInv, NEW c \in Conns, conns[c].by = "none", conns[c].pc # "closed",
           agent.serves = Nobody, agent.pc \in Started, conns' = ByMain(c), Serves(c), UNCHANGED prefix,
           inflight' \in Nat, inflight' = Cardinality(Threads), inflight' <= Inflight
    PROVE  DirectIInv'
<1> USE DEF DirectIInv
<1> DEFINE new == [conns[c] EXCEPT !.pc = "reading", !.by = "main"]
<1>1. /\ new \in Conn /\ new.pc = "reading" /\ new.by = "main"
      /\ new.said = conns[c].said /\ new.whole = conns[c].whole /\ new.status = conns[c].status
  BY Named DEF DirectTypeOK, Conn
<1>2. conns' = [conns EXCEPT ![c] = new]
  BY DEF ByMain
<1> HIDE DEF new
<1>3. agent' \in Agent /\ agent'.pc = "inline" /\ agent'.serves = c /\ agent'.folded = agent.folded
      /\ agent'.key = agent.key
  BY Named DEF Serves, Agent, DirectTypeOK
<1>4. DirectTypeOK'
  BY <1>1, <1>2, <1>3 DEF DirectTypeOK
<1>5. PlacesAreThreads'
  <2>1. Threads' = Threads
    BY <1>1, <1>2 DEF Threads, DirectTypeOK
  <2>2. QED BY <1>3, <2>1 DEF PlacesAreThreads
<1>6. MainServesOne' /\ InlineServes'
  BY <1>1, <1>2, <1>3, DirectAssumption DEF MainServesOne, InlineServes, DirectTypeOK
<1>7. KnownByPlace'
  <2>1. Known(new)
    BY <1>1 DEF KnownByPlace, Known
  <2>2. QED BY <1>2, <2>1 DEF KnownByPlace, DirectTypeOK
<1>8. ReportedIsServed'
  BY <1>1, <1>2, <1>3 DEF ReportedIsServed, DirectTypeOK
<1>9. KeyIsFound'
  BY <1>3 DEF KeyIsFound
<1>10. QED BY <1>4, <1>5, <1>6, <1>7, <1>8, <1>9

\* A connection is given a place, if there is one.
LEMMA AcceptKeeps ==
    ASSUME DirectIInv, NEW c \in Conns, Accept(c)
    PROVE  DirectIInv'
<1> USE DEF DirectIInv
<1>1. /\ conns[c].pc = "dialed" /\ conns[c].by = "none" /\ UNCHANGED prefix
      /\ agent.pc = "accept" /\ agent.serves = Nobody /\ agent.pc \in Started
  BY DEF Accept, KnownByPlace, Known, InlineServes, Started
<1>2. CASE inflight < Inflight
  <2>1. inflight' = inflight + 1 /\ conns' = [conns EXCEPT ![c].pc = "accepted"] /\ Goes("placing")
    BY <1>2 DEF Accept
  <2> DEFINE new == [conns[c] EXCEPT !.pc = "accepted"]
  <2>2. /\ new \in Conn /\ new.pc = "accepted" /\ new.by = conns[c].by
        /\ new.said = conns[c].said /\ new.whole = conns[c].whole /\ new.status = conns[c].status
    BY Named DEF DirectTypeOK, Conn
  <2>3. conns' = [conns EXCEPT ![c] = new]
    BY <2>1
  <2> HIDE DEF new
  <2>4. agent' \in Agent /\ agent'.pc = "placing" /\ agent'.serves = agent.serves
        /\ agent'.folded = agent.folded /\ agent'.key = agent.key
    BY <2>1, Named DEF Goes, Agent, DirectTypeOK
  <2>5. DirectTypeOK'
    BY <1>1, <2>1, <2>2, <2>3, <2>4 DEF DirectTypeOK
  <2>6. PlacesAreThreads'
    <3>1. Threads' = Threads
      BY <1>1, <2>2, <2>3 DEF Threads, DirectTypeOK
    <3>2. inflight = Cardinality(Threads)
      BY <1>1, ThreadsFinite DEF PlacesAreThreads
    <3>3. QED BY <1>2, <2>1, <2>4, <3>1, <3>2, ThreadsFinite, DirectAssumption DEF PlacesAreThreads
  <2>7. MainServesOne' /\ InlineServes'
    BY <1>1, <2>2, <2>3, <2>4 DEF MainServesOne, InlineServes, DirectTypeOK
  <2>8. KnownByPlace'
    <3>1. Known(new)
      BY <1>1, <2>2 DEF KnownByPlace, Known
    <3>2. QED BY <2>3, <3>1 DEF KnownByPlace, DirectTypeOK
  <2>9. ReportedIsServed'
    BY <1>1, <2>2, <2>3, <2>4 DEF ReportedIsServed, DirectTypeOK
  <2>10. KeyIsFound'
    BY <1>1, <2>4 DEF KeyIsFound
  <2>11. QED BY <2>5, <2>6, <2>7, <2>8, <2>9, <2>10
<1>3. CASE ~(inflight < Inflight)
  <2>1. conns' = ByMain(c) /\ Serves(c) /\ UNCHANGED inflight
    BY <1>3 DEF Accept
  <2>2. inflight' \in Nat /\ inflight' = Cardinality(Threads) /\ inflight' <= Inflight
    BY <1>1, <2>1, ThreadsFinite DEF PlacesAreThreads, DirectTypeOK
  <2>3. QED BY <1>1, <2>1, <2>2, MainTakes
<1>4. QED BY <1>2, <1>3

\* The place becomes a thread's, or it is given back.
LEMMA PlaceKeeps ==
    ASSUME DirectIInv, NEW c \in Conns, Place(c)
    PROVE  DirectIInv'
<1> USE DEF DirectIInv
<1>1. /\ conns[c].pc = "accepted" /\ conns[c].by = "none" /\ UNCHANGED prefix
      /\ agent.pc = "placing" /\ agent.serves = Nobody /\ agent.pc \in Started
  BY DEF Place, KnownByPlace, Known, InlineServes, Started
<1>2. inflight = Cardinality(Threads) + 1 /\ inflight <= Inflight
  BY <1>1, ThreadsFinite DEF PlacesAreThreads
<1>3. CASE conns' = ByMain(c) /\ Serves(c) /\ inflight' = inflight - 1
  <2>1. inflight' = Cardinality(Threads) /\ inflight' \in Nat /\ inflight' <= Inflight
    BY <1>2, <1>3, ThreadsFinite, DirectAssumption
  <2>2. QED BY <1>1, <1>3, <2>1, MainTakes
<1>4. CASE conns' = ByThread(c) /\ Goes("loop") /\ UNCHANGED inflight
  <2> DEFINE new == [conns[c] EXCEPT !.pc = "reading", !.by = "thread"]
  <2>1. /\ new \in Conn /\ new.pc = "reading" /\ new.by = "thread"
        /\ new.said = conns[c].said /\ new.whole = conns[c].whole /\ new.status = conns[c].status
    BY Named DEF DirectTypeOK, Conn
  <2>2. conns' = [conns EXCEPT ![c] = new]
    BY <1>4 DEF ByThread
  <2> HIDE DEF new
  <2>3. agent' \in Agent /\ agent'.pc = "loop" /\ agent'.serves = agent.serves
        /\ agent'.folded = agent.folded /\ agent'.key = agent.key
    BY <1>4, Named DEF Goes, Agent, DirectTypeOK
  <2>4. DirectTypeOK'
    BY <1>1, <1>4, <2>1, <2>2, <2>3 DEF DirectTypeOK
  <2>5. PlacesAreThreads'
    <3>1. c \notin Threads /\ Threads' = Threads \cup {c}
      BY <1>1, <2>1, <2>2 DEF Threads, DirectTypeOK
    <3>2. Cardinality(Threads') = Cardinality(Threads) + 1
      BY <3>1, ThreadsFinite, FS_AddElement
    <3>3. QED BY <1>2, <1>4, <2>3, <3>2, ThreadsFinite DEF PlacesAreThreads
  <2>6. MainServesOne' /\ InlineServes'
    BY <1>1, <2>1, <2>2, <2>3, DirectAssumption DEF MainServesOne, InlineServes, DirectTypeOK
  <2>7. KnownByPlace'
    <3>1. Known(new)
      BY <1>1, <2>1 DEF KnownByPlace, Known
    <3>2. QED BY <2>2, <3>1 DEF KnownByPlace, DirectTypeOK
  <2>8. ReportedIsServed'
    BY <1>1, <2>1, <2>2, <2>3 DEF ReportedIsServed, DirectTypeOK
  <2>9. KeyIsFound'
    BY <1>1, <2>3 DEF KeyIsFound
  <2>10. QED BY <2>4, <2>5, <2>6, <2>7, <2>8, <2>9
<1>5. QED BY <1>3, <1>4 DEF Place

\* The connection is closed, and the place it had is free again.
LEMMA ReturnKeeps ==
    ASSUME DirectIInv, NEW c \in Conns, Return(c)
    PROVE  DirectIInv'
<1> USE DEF DirectIInv
<1>1. conns[c].pc = "answered" /\ conns[c].by \in {"thread", "main"}
  BY DEF Return, Alive, DirectTypeOK, Conn, Hands
<1>2. KnownByPlace'
  BY <1>1 DEF Return, KnownByPlace, Known, DirectTypeOK, Conn
<1>3. CASE conns[c].by = "main"
  <2>1. /\ conns' = [conns EXCEPT ![c].pc = "closed"] /\ UNCHANGED <<inflight, prefix>>
        /\ agent' = [agent EXCEPT !.pc = "loop", !.serves = Nobody]
        /\ agent.serves = c
    BY <1>1, <1>3 DEF Return, MainServesOne
  <2>2. DirectTypeOK'
    <3> DEFINE new == [conns[c] EXCEPT !.pc = "closed"]
    <3>1. new \in Conn
      BY Named DEF DirectTypeOK, Conn
    <3>2. agent' \in Agent
      BY <2>1, Named DEF Agent, DirectTypeOK
    <3>3. conns' = [conns EXCEPT ![c] = new]
      BY <2>1
    <3> HIDE DEF new
    <3>4. QED BY <2>1, <3>1, <3>2, <3>3 DEF DirectTypeOK
  <2>3. PlacesAreThreads'
    <3>1. agent.pc = "inline" /\ agent'.pc = "loop"
      BY <2>1, DirectAssumption DEF InlineServes, Agent, DirectTypeOK
    <3>2. QED BY <1>3, <2>1, <3>1, SameThreads DEF DirectTypeOK, Conn
  <2>4. MainServesOne' /\ InlineServes'
    BY <1>3, <2>1, DirectAssumption DEF MainServesOne, InlineServes, DirectTypeOK, Conn
  <2>5. ReportedIsServed'
    BY <2>1 DEF ReportedIsServed, DirectTypeOK, Conn
  <2>6. KeyIsFound'
    <3>1. agent.pc = "inline" /\ agent'.key = agent.key
      BY <2>1, DirectAssumption DEF InlineServes, Agent, DirectTypeOK
    <3>2. QED BY <3>1 DEF KeyIsFound, Started
  <2>7. QED BY <1>2, <2>2, <2>3, <2>4, <2>5, <2>6
<1>4. CASE conns[c].by = "thread"
  <2>1. /\ conns' = [conns EXCEPT ![c].pc = "closed"] /\ UNCHANGED <<agent, prefix>>
        /\ inflight' = inflight - 1
    BY <1>4 DEF Return
  <2>2. c \in Threads /\ Threads' = Threads \ {c}
    BY <1>1, <1>4, <2>1 DEF Threads, DirectTypeOK, Conn
  <2>3. PlacesAreThreads'
    <3>1. Cardinality(Threads') = Cardinality(Threads) - 1
      BY <2>2, ThreadsFinite, FS_RemoveElement
    <3>2. QED BY <2>1, <3>1, ThreadsFinite, DirectAssumption DEF PlacesAreThreads
  <2>4. inflight' \in Nat
    <3>1. IsFiniteSet(Threads')
      BY <2>2, ThreadsFinite, FS_RemoveElement
    <3>2. Cardinality(Threads') \in Nat
      BY <3>1, FS_CardinalityType
    <3>3. QED BY <2>3, <3>2 DEF PlacesAreThreads
  <2>5. DirectTypeOK'
    BY <2>1, <2>4, Named DEF DirectTypeOK, Conn
  <2>6. MainServesOne' /\ InlineServes'
    BY <1>4, <2>1 DEF MainServesOne, InlineServes, DirectTypeOK, Conn
  <2>7. ReportedIsServed'
    BY <2>1 DEF ReportedIsServed, DirectTypeOK, Conn
  <2>8. KeyIsFound'
    BY <2>1 DEF KeyIsFound
  <2>9. QED BY <1>2, <2>3, <2>5, <2>6, <2>7, <2>8
<1>5. QED BY <1>1, <1>3, <1>4

-----------------------------------------------------------------------------
\* What a connection is when it has been answered.
LEMMA ToldIs ==
    ASSUME NEW c \in Conns, conns \in [Conns -> Conn], NEW status, Tell(c, status),
           NEW new, new = [conns[c] EXCEPT !.pc = "answered", !.status = status]
    PROVE  conns' = [conns EXCEPT ![c] = new]
BY DEF Tell
\* What is not a failure that is passed on, and what a consumer is told of one that is.
LEMMA Unasked == NotAsked \notin Passed /\ Silence \notin Passed /\ 200 \notin Passed /\ NotAsked # 200
BY DEF NotAsked, Silence, Passed
LEMMA BlameIs ==
    ASSUME NEW c, NEW said
    PROVE  /\ Blame(c, said) \in Statuses /\ Blame(c, said) # 0
           /\ said \in Passed => Blame(c, said) = said
<1>1. CASE said \in Passed
  <2>1. said # Silence /\ said \in Statuses /\ said # 0
    BY <1>1 DEF Passed, Silence, Statuses
  <2>2. Blame(c, said) = said
    BY <1>1, <2>1 DEF Blame
  <2>3. QED BY <2>1, <2>2
<1>2. CASE said \notin Passed
  <2>1. Blame(c, said) \in {499, 502}
    BY <1>2 DEF Blame
  <2>2. QED BY <1>2, <2>1 DEF Statuses
<1>3. QED BY <1>1, <1>2

\* What the coordinator may have said where its answer was not whole.
NoAnswer(said) == said \in Failures \/ said = Silence \/ said = 200
LEMMA RefuseKeeps ==
    ASSUME DirectIInv, NEW c \in Conns, NEW said, NoAnswer(said), Refuse(c, said),
           conns[c].pc = "asked", conns[c].head => said \notin Passed,
           UNCHANGED <<agent, inflight, prefix>>
    PROVE  DirectIInv'
<1>1. conns \in [Conns -> Conn] /\ conns[c] \in Conn /\ Known(conns[c])
  BY DEF DirectIInv, DirectTypeOK, KnownByPlace
<1>2. said \in Statuses
  <2>1. CASE said \in Failures
    BY <2>1, DirectAssumption DEF Statuses
  <2>2. CASE said = Silence \/ said = 200
    BY <2>2, Named
  <2>3. QED BY <2>1, <2>2 DEF NoAnswer
<1>3. PICK status : status = IF conns[c].head THEN 200 ELSE Blame(c, said)
  OBVIOUS
<1>4. /\ status \in Statuses /\ status # 0
      /\ said \in Passed => status = said
  <2>1. /\ Blame(c, said) \in Statuses /\ Blame(c, said) # 0
        /\ said \in Passed => Blame(c, said) = said
    BY BlameIs
  <2>2. CASE conns[c].head
    BY <1>3, <2>2, Named
  <2>3. CASE ~conns[c].head
    BY <1>3, <2>1, <2>3
  <2>4. QED BY <2>2, <2>3
<1>5. conns' = [conns EXCEPT ![c].pc = "answered", ![c].said = said, ![c].status = status]
  BY <1>3 DEF Refuse
<1>6. PICK new : new = [conns[c] EXCEPT !.pc = "answered", !.said = said, !.status = status]
  OBVIOUS
<1>7. conns' = [conns EXCEPT ![c] = new]
  BY <1>1, <1>5, <1>6
<1>8. /\ new \in Conn /\ new.pc = "answered" /\ new.by = conns[c].by
      /\ new.said = said /\ new.status = status
  BY <1>1, <1>2, <1>4, <1>6, Named DEF Conn
<1>9. conns[c].by # "none" /\ ~Whole(conns[c])
  BY <1>1, Unasked DEF Known, Whole
<1>10. Known(new)
  BY <1>4, <1>8, <1>9 DEF Known
<1>11. QED BY <1>1, <1>7, <1>8, <1>9, <1>10, ConnGoesOn

\* Everything else that happens to a connection lets it go on in the hands it is in.
LEMMA ServiceKeeps ==
    ASSUME DirectIInv, NEW c \in Conns,
           \/ Dial(c) \/ Leave(c) \/ ReadRequest(c) \/ OpenEnvelope(c) \/ FirstFrame(c)
           \/ CoordinatorFails(c) \/ StreamEnds(c) \/ AnswerComes(c) \/ SealReply(c)
    PROVE  DirectIInv'
<1> DEFINE old == conns[c]
<1>1. conns \in [Conns -> Conn] /\ old \in Conn /\ Known(old)
  BY DEF DirectIInv, DirectTypeOK, KnownByPlace
<1> HIDE DEF DirectIInv
\* A connection that goes on, and of which nothing more is known.
<1>3. ASSUME NEW new \in Conn, conns' = [conns EXCEPT ![c] = new],
             new.by = old.by, new.said = old.said, old.said = NotAsked, UNCHANGED <<agent, inflight, prefix>>,
             \/ new.pc \in {"opening", "asked"} /\ old.by # "none"
             \/ new.pc = "dialed" /\ old.by = "none",
             old.pc # "closed"
      PROVE  DirectIInv'
  <2>1. Known(new)
    BY <1>1, <1>3, Unasked DEF Known
  <2>2. ~Whole(old)
    BY <1>3, Unasked DEF Whole
  <2>3. QED BY <1>1, <1>3, <2>1, <2>2, ConnGoesOn
<1>4. CASE Dial(c)
  <2> DEFINE new == [old EXCEPT !.pc = "dialed"]
  <2>1. new \in Conn /\ new.by = old.by /\ new.said = old.said /\ new.pc = "dialed"
    BY <1>1, Named DEF Conn
  <2>2. conns' = [conns EXCEPT ![c] = new] /\ UNCHANGED <<agent, inflight, prefix>> /\ old.pc = "away"
    BY <1>4 DEF Dial
  <2> HIDE DEF new
  <2>3. old.by = "none" /\ old.said = NotAsked
    BY <1>1, <2>2 DEF Known
  <2>4. QED BY <1>3, <2>1, <2>2, <2>3
<1>5. CASE Leave(c)
  <2> DEFINE new == [old EXCEPT !.gone = TRUE]
  <2>1. new \in Conn /\ new.by = old.by /\ new.said = old.said /\ new.pc = old.pc
    BY <1>1, Named DEF Conn
  <2>2. conns' = [conns EXCEPT ![c] = new] /\ UNCHANGED <<agent, inflight, prefix>> /\ old.pc = "asked"
    BY <1>5 DEF Leave
  <2> HIDE DEF new
  <2>3. old.by # "none" /\ old.said = NotAsked
    BY <1>1, <2>2 DEF Known
  <2>4. QED BY <1>3, <2>1, <2>2, <2>3
\* An answer nobody asked the coordinator for.
<1>6. ASSUME NEW status \in {200, 400, 404, 413, 500}, Tell(c, status), UNCHANGED <<agent, inflight, prefix>>,
             old.pc \in {"reading", "opening"}
      PROVE  DirectIInv'
  <2> DEFINE new == [old EXCEPT !.pc = "answered", !.status = status]
  <2>1. old.said = NotAsked /\ old.by # "none"
    BY <1>1, <1>6 DEF Known
  <2>2. status \in Statuses /\ status # 0
    BY <1>6 DEF Statuses
  <2>3. new \in Conn /\ new.pc = "answered" /\ new.by = old.by /\ new.said = old.said /\ new.status = status
    BY <1>1, <2>2, Named DEF Conn
  <2>4. conns' = [conns EXCEPT ![c] = new]
    <3>1. Tell(c, status)
      BY <1>6
    <3>2. QED BY <1>1, <3>1, ToldIs
  <2> HIDE DEF new
  <2>5. Known(new)
    BY <2>1, <2>2, <2>3, Unasked DEF Known
  <2>6. ~Whole(old)
    BY <2>1, Unasked DEF Whole
  <2>7. QED BY <1>1, <1>6, <2>1, <2>3, <2>4, <2>5, <2>6, ConnGoesOn
<1>7. CASE ReadRequest(c)
  <2>1. old.pc = "reading" /\ UNCHANGED <<agent, inflight, prefix>>
    BY <1>7 DEF ReadRequest
  <2>2. CASE \E status \in {400, 413, 200, 404} : Tell(c, status)
    BY <1>6, <2>1, <2>2
  <2>3. CASE \E kind \in {"job", "stream"}, long \in BOOLEAN :
                conns' = [conns EXCEPT ![c].pc = "opening", ![c].kind = kind, ![c].long = long]
    <3>1. PICK kind \in {"job", "stream"}, long \in BOOLEAN :
                conns' = [conns EXCEPT ![c].pc = "opening", ![c].kind = kind, ![c].long = long]
      BY <2>3
    <3> DEFINE new == [old EXCEPT !.pc = "opening", !.kind = kind, !.long = long]
    <3>2. new \in Conn /\ new.by = old.by /\ new.said = old.said /\ new.pc = "opening"
      <4>1. kind \in Kinds
        BY DEF Kinds
      <4>2. QED BY <1>1, <4>1, Named DEF Conn
    <3>3. conns' = [conns EXCEPT ![c] = new]
      BY <1>1, <3>1
    <3> HIDE DEF new
    <3>4. old.by # "none" /\ old.said = NotAsked
      BY <1>1, <2>1 DEF Known
    <3>5. QED BY <1>3, <2>1, <3>2, <3>3, <3>4
  <2>4. QED BY <1>7, <2>2, <2>3 DEF ReadRequest
<1>8. CASE OpenEnvelope(c)
  <2>1. old.pc = "opening" /\ UNCHANGED <<agent, inflight, prefix>>
    BY <1>8 DEF OpenEnvelope
  <2>2. CASE Tell(c, 400) \/ Tell(c, 500)
    BY <1>6, <2>1, <2>2
  <2>3. CASE conns' = [conns EXCEPT ![c].pc = "asked"]
    <3> DEFINE new == [old EXCEPT !.pc = "asked"]
    <3>1. new \in Conn /\ new.by = old.by /\ new.said = old.said /\ new.pc = "asked"
      BY <1>1, Named DEF Conn
    <3>2. conns' = [conns EXCEPT ![c] = new]
      BY <2>3
    <3> HIDE DEF new
    <3>3. old.by # "none" /\ old.said = NotAsked
      BY <1>1, <2>1 DEF Known
    <3>4. QED BY <1>3, <2>1, <3>1, <3>2, <3>3
  <2>4. QED BY <1>8, <2>2, <2>3 DEF OpenEnvelope
<1>9. CASE FirstFrame(c)
  <2> DEFINE new == [old EXCEPT !.head = TRUE]
  <2>1. new \in Conn /\ new.by = old.by /\ new.said = old.said /\ new.pc = old.pc
    BY <1>1, Named DEF Conn
  <2>2. conns' = [conns EXCEPT ![c] = new] /\ UNCHANGED <<agent, inflight, prefix>> /\ old.pc = "asked"
    BY <1>9 DEF FirstFrame
  <2> HIDE DEF new
  <2>3. old.by # "none" /\ old.said = NotAsked
    BY <1>1, <2>2 DEF Known
  <2>4. QED BY <1>3, <2>1, <2>2, <2>3
<1>11. CASE CoordinatorFails(c)
  <2>1. PICK said \in Failures \cup {Silence} : (old.head => said = Silence) /\ Refuse(c, said)
    BY <1>11 DEF CoordinatorFails
  <2>2. NoAnswer(said) /\ (old.head => said \notin Passed)
    BY <2>1, Unasked DEF NoAnswer
  <2>3. QED BY <1>11, <2>1, <2>2, RefuseKeeps DEF CoordinatorFails
\* The session is committed with a whole answer, if it is long enough.
<1>12. Commit(c) => UNCHANGED prefix \/ Cached(c)
  BY DEF Commit, Cached
<1>13. CASE StreamEnds(c)
  <2>1. old.pc = "asked" /\ UNCHANGED <<agent, inflight>>
    BY <1>13 DEF StreamEnds
  <2>2. CASE Refuse(c, 200) /\ UNCHANGED prefix
    BY <2>1, <2>2, Unasked, RefuseKeeps DEF NoAnswer
  <2>3. CASE /\ conns' = [conns EXCEPT ![c].pc = "answered", ![c].said = 200, ![c].whole = TRUE,
                                      ![c].head = TRUE, ![c].status = 200]
             /\ Commit(c)
    <3> DEFINE new == [old EXCEPT !.pc = "answered", !.said = 200, !.whole = TRUE, !.head = TRUE, !.status = 200]
    <3>1. conns' = [conns EXCEPT ![c] = new]
      BY <2>3
    <3>2. new \in Conn /\ new.pc = "answered" /\ new.by = old.by /\ Whole(new) /\ new.status = 200
      BY <1>1, Named DEF Conn, Whole
    <3> HIDE DEF new
    <3>3. old.by # "none"
      BY <1>1, <2>1 DEF Known
    <3>4. UNCHANGED prefix \/ Cached(c)
      BY <1>12, <2>3
    <3>5. Known(new)
      BY <3>2, <3>3, Unasked DEF Known, Whole
    <3>6. QED BY <1>1, <2>1, <3>1, <3>2, <3>4, <3>5, ConnGoesOn
  <2>4. QED BY <1>13, <2>2, <2>3 DEF StreamEnds
<1>14. CASE AnswerComes(c)
  <2>1. old.pc = "asked" /\ UNCHANGED <<agent, inflight, prefix>>
    BY <1>14 DEF AnswerComes
  <2>2. CASE Refuse(c, 200)
    BY <2>1, <2>2, Unasked, RefuseKeeps DEF NoAnswer
  <2>3. CASE conns' = [conns EXCEPT ![c].pc = "sealing", ![c].said = 200, ![c].whole = TRUE]
    <3> DEFINE new == [old EXCEPT !.pc = "sealing", !.said = 200, !.whole = TRUE]
    <3>1. new \in Conn /\ new.by = old.by /\ Whole(new) /\ new.pc = "sealing"
      BY <1>1, Named DEF Conn, Whole
    <3>2. conns' = [conns EXCEPT ![c] = new]
      BY <2>3
    <3> HIDE DEF new
    <3>3. Known(new)
      BY <1>1, <2>1, <3>1, Unasked DEF Known, Whole
    <3>4. QED BY <2>1, <3>1, <3>2, <3>3, ConnGoesOn
  <2>4. QED BY <1>14, <2>2, <2>3 DEF AnswerComes
<1>15. CASE SealReply(c)
  <2>1. PICK status \in {200, 500} : Tell(c, status) /\ (UNCHANGED prefix \/ Commit(c))
    BY <1>15 DEF SealReply
  <2>2. old.pc = "sealing" /\ UNCHANGED <<agent, inflight>>
    BY <1>15 DEF SealReply
  <2> DEFINE new == [old EXCEPT !.pc = "answered", !.status = status]
  <2>3. Whole(old) /\ old.by # "none"
    BY <1>1, <2>2 DEF Known
  <2>4. status \in Statuses /\ status # 0
    BY <2>1 DEF Statuses
  <2>5. new \in Conn /\ new.pc = "answered" /\ new.by = old.by /\ new.said = old.said /\ new.whole = old.whole /\ new.status = status
    BY <1>1, <2>4, Named DEF Conn
  <2>6. conns' = [conns EXCEPT ![c] = new]
    BY <1>1, <2>1, ToldIs
  <2> HIDE DEF new
  <2>7. UNCHANGED prefix \/ Cached(c)
    BY <1>12, <2>1
  <2>8. Known(new) /\ Whole(new)
    BY <2>3, <2>4, <2>5, Unasked DEF Known, Whole
  <2>9. QED BY <1>1, <2>2, <2>3, <2>5, <2>6, <2>7, <2>8, ConnGoesOn
<1>16. QED BY <1>4, <1>5, <1>7, <1>8, <1>9, <1>11, <1>13, <1>14, <1>15

-----------------------------------------------------------------------------
\* Nobody is served before anybody has dialed.
LEMMA DirectInitially == DirectInit => DirectIInv
<1> SUFFICES ASSUME DirectInit PROVE DirectIInv
  OBVIOUS
<1> USE DirectAssumption DEF DirectInit, Idle
<1>1. DirectTypeOK
  BY Named DEF DirectTypeOK, Conn, Agent, Stages, Places, Hands, Statuses, Kinds, NotAsked
<1>2. InlineServes /\ KnownByPlace /\ MainServesOne /\ ReportedIsServed /\ KeyIsFound
  <2>1. /\ agent.pc = "arguments" /\ agent.serves = Nobody /\ agent.folded = Nobody
        /\ prefix.live = Nobody /\ prefix.told = Nobody
        /\ \A c \in Conns : conns[c] = Idle
    OBVIOUS
  <2>2. InlineServes /\ MainServesOne /\ ReportedIsServed
    BY <2>1 DEF InlineServes, MainServesOne, ReportedIsServed
  <2>3. KnownByPlace
    BY <2>1, Unasked DEF KnownByPlace, Known
  <2>4. KeyIsFound
    BY <2>1 DEF KeyIsFound, Started
  <2>5. QED BY <2>2, <2>3, <2>4
<1>3. PlacesAreThreads
  <2>1. Threads = {}
    BY DEF Threads
  <2>2. QED BY <2>1, FS_EmptySet DEF PlacesAreThreads
<1>4. QED BY <1>1, <1>2, <1>3 DEF DirectIInv

\* The invariant is inductive.
LEMMA DirectInductive == DirectIInv /\ [DirectNext]_directVars => DirectIInv'
<1> SUFFICES ASSUME DirectIInv, [DirectNext]_directVars PROVE DirectIInv'
  OBVIOUS
<1>1. CASE StartStep \/ LoopStep
  BY <1>1, MainStepKeeps
<1>2. ASSUME NEW c \in Conns, Dial(c) \/ Leave(c) \/ ConnStep(c)
      PROVE  DirectIInv'
  BY <1>2, AcceptKeeps, PlaceKeeps, ReturnKeeps, ServiceKeeps DEF ConnStep
<1>3. CASE UNCHANGED directVars
  <2>1. UNCHANGED <<agent, conns, inflight, prefix>>
    BY <1>3 DEF directVars
  <2>2. Threads' = Threads
    BY <2>1 DEF Threads
  <2>3. PlacesAreThreads'
    BY <2>1, <2>2 DEF DirectIInv, PlacesAreThreads
  <2>4. (DirectTypeOK /\ InlineServes /\ KnownByPlace)'
    BY <2>1 DEF DirectIInv, DirectTypeOK, InlineServes, KnownByPlace
  <2>5. (MainServesOne /\ ReportedIsServed /\ KeyIsFound)'
    BY <2>1 DEF DirectIInv, MainServesOne, ReportedIsServed, KeyIsFound
  <2>6. QED BY <2>3, <2>4, <2>5 DEF DirectIInv
<1>4. QED BY <1>1, <1>2, <1>3 DEF DirectNext

\* Whatever the consumers do, however many of them there are, and wherever a thread cannot be
\* started: g_inflight is the number of threads, no more than AGENT_MAX_INFLIGHT; the accept
\* thread serves one connection at a time; what is reported as cached was served to its end;
\* whatever status the coordinator has for one request reaches the consumer as it is; nobody's
\* connection is closed on them without an answer; and whoever listens has a key that the next
\* start finds again (handle_conn(), handle_infer(), load_or_make_key() and main()).
THEOREM DirectServesJobs == DirectSpec => []JobsAreServed
<1>1. DirectIInv => JobsAreServed
  BY DEF DirectIInv, JobsAreServed, BusyIsNotBroken, ClosedIsAnswered, KnownByPlace, Known, KeyIsFound, KeyIsKept
<1>2. QED BY <1>1, DirectInitially, DirectInductive, PTL DEF DirectSpec

-----------------------------------------------------------------------------
(* EngineCommand: the line an engine is started with.  Lists of arguments first: *)
(* what flags are in them, which of two equal ones counts, and how many entries  *)
(* they take. *)

\* A set of numbers has a least one.
LEMMA LeastOf ==
    ASSUME NEW T, T \subseteq Nat, T # {}
    PROVE  \E m \in T : \A k \in T : m <= k
<1> DEFINE Before == {p \in Nat \X Nat : p[1] < p[2]}
<1>1. IsWellFoundedOn(Before, Nat)
  BY NatLessThanWellFounded DEF OpToRel
<1>2. PICK m \in T : \A k \in T : <<k, m>> \notin Before
  <2> HIDE DEF Before
  <2> QED BY <1>1, WFMin
<1>3. ASSUME NEW k \in T PROVE m <= k
  <2>1. k \in Nat /\ m \in Nat /\ <<k, m>> \notin Before
    BY <1>2
  <2>2. QED BY <2>1
<1>4. QED BY <1>3

FlagsOf(args) == {args[i].flag : i \in DOMAIN args}

LEMMA FlagsJoin ==
    ASSUME NEW S, NEW s \in Seq(S), NEW t \in Seq(S)
    PROVE  FlagsOf(s \o t) = FlagsOf(s) \cup FlagsOf(t)
<1>1. /\ s \o t \in Seq(S) /\ Len(s \o t) = Len(s) + Len(t)
      /\ \A i \in 1..Len(s) : (s \o t)[i] = s[i]
      /\ \A i \in 1..Len(t) : (s \o t)[Len(s) + i] = t[i]
  OBVIOUS
<1> DEFINE u == s \o t
<1>2. /\ u \in Seq(S) /\ Len(u) = Len(s) + Len(t) /\ Len(s) \in Nat /\ Len(t) \in Nat
      /\ DOMAIN u = 1..Len(u) /\ DOMAIN s = 1..Len(s) /\ DOMAIN t = 1..Len(t)
      /\ \A i \in 1..Len(s) : u[i] = s[i]
      /\ \A i \in 1..Len(t) : u[Len(s) + i] = t[i]
  BY <1>1
<1> HIDE DEF u
<1>3. ASSUME NEW i \in DOMAIN u PROVE u[i].flag \in FlagsOf(s) \cup FlagsOf(t)
  <2>1. CASE i \in 1..Len(s)
    BY <1>2, <2>1 DEF FlagsOf
  <2>2. CASE i \notin 1..Len(s)
    <3>1. i - Len(s) \in 1..Len(t) /\ Len(s) + (i - Len(s)) = i
      BY <1>2, <2>2
    <3>2. u[i] = t[i - Len(s)]
      BY <1>2, <3>1
    <3>3. QED BY <1>2, <3>1, <3>2 DEF FlagsOf
  <2>3. QED BY <2>1, <2>2
<1>4. ASSUME NEW i \in DOMAIN s PROVE s[i].flag \in FlagsOf(u)
  <2>1. i \in DOMAIN u /\ u[i] = s[i]
    BY <1>2
  <2>2. QED BY <2>1 DEF FlagsOf
<1>5. ASSUME NEW i \in DOMAIN t PROVE t[i].flag \in FlagsOf(u)
  <2>1. Len(s) + i \in DOMAIN u /\ u[Len(s) + i] = t[i]
    BY <1>2
  <2>2. QED BY <2>1 DEF FlagsOf
<1>6. FlagsOf(u) = FlagsOf(s) \cup FlagsOf(t)
  BY <1>3, <1>4, <1>5 DEF FlagsOf
<1>7. QED BY <1>6 DEF u

\* What counts of a flag is its last place.
LEMMA EffectiveIs ==
    ASSUME NEW S, NEW s \in Seq(S), NEW f
    PROVE  /\ f \notin FlagsOf(s) => Effective(s, f) = "absent"
           /\ \A i \in DOMAIN s :
                 s[i].flag = f /\ (\A j \in DOMAIN s : s[j].flag = f => j <= i)
                 => Effective(s, f) = s[i].value
<1> DEFINE at == {i \in DOMAIN s : s[i].flag = f}
<1>1. Effective(s, f) = IF at = {} THEN "absent" ELSE s[CHOOSE i \in at : \A j \in at : j <= i].value
  BY DEF Effective
<1>2. f \notin FlagsOf(s) => at = {}
  BY DEF FlagsOf
<1>3. ASSUME NEW i \in DOMAIN s, s[i].flag = f, \A j \in DOMAIN s : s[j].flag = f => j <= i
      PROVE  Effective(s, f) = s[i].value
  <2>1. i \in at /\ (\A j \in at : j <= i) /\ at \subseteq Nat
    BY <1>3
  <2> HIDE DEF at
  <2>2. \A k \in at : (\A j \in at : j <= k) => k = i
    BY <2>1
  <2>3. (CHOOSE k \in at : \A j \in at : j <= k) = i
    BY <2>1, <2>2
  <2>4. at # {}
    BY <2>1
  <2>5. QED BY <1>1, <2>3, <2>4
<1>4. QED BY <1>1, <1>2, <1>3

LEMMA HasLast ==
    ASSUME NEW S, NEW s \in Seq(S), NEW f \in FlagsOf(s)
    PROVE  \E i \in DOMAIN s : s[i].flag = f /\ \A j \in DOMAIN s : s[j].flag = f => j <= i
<1> DEFINE Back == {d \in 0..Len(s) : Len(s) - d \in DOMAIN s /\ s[Len(s) - d].flag = f}
<1>1. Len(s) \in Nat /\ DOMAIN s = 1..Len(s)
  OBVIOUS
<1>2. Back \subseteq Nat
  BY <1>1
<1>3. Back # {}
  <2>1. PICK i \in DOMAIN s : s[i].flag = f
    BY DEF FlagsOf
  <2>2. Len(s) - i \in 0..Len(s) /\ Len(s) - (Len(s) - i) = i
    BY <1>1
  <2>3. QED BY <2>1, <2>2
<1>4. PICK d \in Back : \A k \in Back : d <= k
  <2> HIDE DEF Back
  <2>1. QED BY <1>2, <1>3, LeastOf
<1>5. ASSUME NEW j \in DOMAIN s, s[j].flag = f PROVE j <= Len(s) - d
  <2>1. Len(s) - j \in 0..Len(s) /\ Len(s) - (Len(s) - j) = j
    BY <1>1
  <2>2. Len(s) - j \in Back
    BY <1>5, <2>1
  <2>3. d <= Len(s) - j
    BY <1>4, <2>2
  <2>4. QED BY <1>1, <1>4, <2>3
<1>6. QED BY <1>4, <1>5

LEMMA EffectiveJoin ==
    ASSUME NEW S, NEW s \in Seq(S), NEW t \in Seq(S), NEW f
    PROVE  Effective(s \o t, f) = IF f \in FlagsOf(t) THEN Effective(t, f) ELSE Effective(s, f)
<1> DEFINE u == s \o t
<1>1. /\ u \in Seq(S) /\ Len(u) = Len(s) + Len(t) /\ Len(s) \in Nat /\ Len(t) \in Nat
      /\ DOMAIN u = 1..Len(u) /\ DOMAIN s = 1..Len(s) /\ DOMAIN t = 1..Len(t)
      /\ \A i \in 1..Len(s) : u[i] = s[i]
      /\ \A i \in 1..Len(t) : u[Len(s) + i] = t[i]
  OBVIOUS
<1>2. FlagsOf(u) = FlagsOf(s) \cup FlagsOf(t)
  BY FlagsJoin
<1> HIDE DEF u
<1>3. \A i \in DOMAIN u : i \in 1..Len(s) \/ (i - Len(s) \in 1..Len(t) /\ u[i] = t[i - Len(s)])
  <2>1. SUFFICES ASSUME NEW i \in DOMAIN u, i \notin 1..Len(s)
                 PROVE  i - Len(s) \in 1..Len(t) /\ u[i] = t[i - Len(s)]
    OBVIOUS
  <2>2. i - Len(s) \in 1..Len(t) /\ Len(s) + (i - Len(s)) = i
    BY <1>1, <2>1
  <2>3. QED BY <1>1, <2>2
<1>4. CASE f \in FlagsOf(t)
  <2>1. PICK i \in DOMAIN t : t[i].flag = f /\ \A j \in DOMAIN t : t[j].flag = f => j <= i
    BY <1>4, HasLast
  <2>2. Len(s) + i \in DOMAIN u /\ u[Len(s) + i] = t[i]
    BY <1>1, <2>1
  <2>3. ASSUME NEW j \in DOMAIN u, u[j].flag = f PROVE j <= Len(s) + i
    <3>1. CASE j \in 1..Len(s)
      BY <1>1, <2>1, <3>1
    <3>2. CASE j - Len(s) \in 1..Len(t) /\ u[j] = t[j - Len(s)]
      <4>1. j - Len(s) <= i
        BY <1>1, <2>1, <2>3, <3>2
      <4>2. QED BY <1>1, <2>1, <4>1
    <3>3. QED BY <1>3, <3>1, <3>2
  <2>4. Effective(u, f) = t[i].value
    <3>1. PICK k \in DOMAIN u : k = Len(s) + i /\ u[k] = t[i]
      BY <2>2
    <3>2. u[k].flag = f /\ \A j \in DOMAIN u : u[j].flag = f => j <= k
      BY <2>1, <2>3, <3>1
    <3>3. u \in Seq(S)
      BY <1>1
    <3>4. Effective(u, f) = u[k].value
      BY <3>2, <3>3, EffectiveIs
    <3>5. QED BY <3>1, <3>4
  <2>5. Effective(t, f) = t[i].value
    BY <2>1, EffectiveIs
  <2>6. QED BY <1>4, <2>4, <2>5 DEF u
<1>5. CASE f \notin FlagsOf(t) /\ f \in FlagsOf(s)
  <2>1. PICK i \in DOMAIN s : s[i].flag = f /\ \A j \in DOMAIN s : s[j].flag = f => j <= i
    BY <1>5, HasLast
  <2>2. i \in DOMAIN u /\ u[i] = s[i]
    BY <1>1, <2>1
  <2>3. ASSUME NEW j \in DOMAIN u, u[j].flag = f PROVE j <= i
    <3>1. j \in 1..Len(s)
      BY <1>1, <1>3, <1>5, <2>3 DEF FlagsOf
    <3>2. QED BY <1>1, <2>1, <2>3, <3>1
  <2>4. Effective(u, f) = s[i].value
    BY <1>1, <2>1, <2>2, <2>3, EffectiveIs
  <2>5. Effective(s, f) = s[i].value
    BY <2>1, EffectiveIs
  <2>6. QED BY <1>5, <2>4, <2>5 DEF u
<1>6. CASE f \notin FlagsOf(t) /\ f \notin FlagsOf(s)
  <2>1. Effective(u, f) = "absent" /\ Effective(s, f) = "absent"
    BY <1>1, <1>2, <1>6, EffectiveIs
  <2>2. QED BY <1>6, <2>1 DEF u
<1>7. QED BY <1>4, <1>5, <1>6

\* The entries up to an argument grow with it by one or two.
LEMMA EntriesGrow ==
    ASSUME NEW S, NEW s \in Seq(S)
    PROVE  /\ \A i \in 0..Len(s) : EntriesOf(s)[i] \in Nat
           /\ EntriesOf(s)[0] = 1
           /\ \A i \in 1..Len(s) :
                 EntriesOf(s)[i] = EntriesOf(s)[i - 1] + (IF s[i].value = "" THEN 1 ELSE 2)
<1> DEFINE With(i) == {j \in 1..i : s[j].value # ""}
<1>0. Len(s) \in Nat
  OBVIOUS
<1>1. \A i \in 0..Len(s) : EntriesOf(s)[i] = 1 + i + Cardinality(With(i))
  BY DEF EntriesOf
<1>2. ASSUME NEW i \in 0..Len(s) PROVE IsFiniteSet(With(i)) /\ Cardinality(With(i)) \in Nat
  <2>1. IsFiniteSet(1..i)
    BY <1>0, FS_Interval
  <2>2. With(i) \subseteq 1..i
    OBVIOUS
  <2> HIDE DEF With
  <2>3. IsFiniteSet(With(i))
    BY <2>1, <2>2, FS_Subset
  <2>4. QED BY <2>3, FS_CardinalityType
<1>3. With(0) = {}
  BY <1>0
<1>4. ASSUME NEW i \in 1..Len(s)
      PROVE  /\ i - 1 \in 0..Len(s) /\ i \in 0..Len(s) /\ i \notin With(i - 1)
             /\ With(i) = IF s[i].value = "" THEN With(i - 1) ELSE With(i - 1) \cup {i}
  <2>1. \A j : j \in 1..i <=> j \in 1..(i - 1) \/ j = i
    BY <1>0
  <2>2. i \notin 1..(i - 1) /\ i - 1 \in 0..Len(s) /\ i \in 0..Len(s)
    BY <1>0
  <2>3. QED BY <2>1, <2>2
<1> HIDE DEF With
<1>5. ASSUME NEW i \in 1..Len(s)
      PROVE  EntriesOf(s)[i] = EntriesOf(s)[i - 1] + (IF s[i].value = "" THEN 1 ELSE 2)
  <2>1. s[i].value # "" => Cardinality(With(i)) = Cardinality(With(i - 1)) + 1
    BY <1>2, <1>4, FS_AddElement
  <2>2. s[i].value = "" => Cardinality(With(i)) = Cardinality(With(i - 1))
    BY <1>4
  <2>3. PICK h \in 0..Len(s) : h = i - 1
    BY <1>4
  <2>4. EntriesOf(s)[i] = 1 + i + Cardinality(With(i)) /\ Cardinality(With(i)) \in Nat
    BY <1>1, <1>2, <1>4
  <2>5. EntriesOf(s)[h] = 1 + h + Cardinality(With(h)) /\ Cardinality(With(h)) \in Nat
    BY <1>1, <1>2
  <2>6. PICK ci \in Nat, ch \in Nat : ci = Cardinality(With(i)) /\ ch = Cardinality(With(h))
    BY <2>4, <2>5
  <2>7. PICK ei \in Nat, eh \in Nat : ei = EntriesOf(s)[i] /\ eh = EntriesOf(s)[h]
                                     /\ ei = 1 + i + ci /\ eh = 1 + h + ch
    BY <1>0, <2>4, <2>5, <2>6
  <2>8. CASE s[i].value = ""
    <3>1. ci = ch
      BY <2>2, <2>3, <2>6, <2>8
    <3>2. ei = eh + 1
      BY <1>0, <2>3, <2>7, <3>1
    <3>3. QED BY <2>3, <2>7, <2>8, <3>2
  <2>9. CASE s[i].value # ""
    <3>1. ci = ch + 1
      BY <2>1, <2>3, <2>6, <2>9
    <3>2. ei = eh + 2
      BY <1>0, <2>3, <2>7, <3>1
    <3>3. QED BY <2>3, <2>7, <2>9, <3>2
  <2>10. QED BY <2>8, <2>9
<1>6. EntriesOf(s)[0] = 1
  <2>1. 0 \in 0..Len(s)
    BY <1>0
  <2>2. Cardinality(With(0)) = 0
    BY <1>3, FS_EmptySet
  <2>3. EntriesOf(s)[0] = 1 + 0 + Cardinality(With(0))
    BY <1>1, <2>1
  <2>4. QED BY <2>2, <2>3
<1>7. \A i \in 0..Len(s) : EntriesOf(s)[i] \in Nat
  BY <1>0, <1>1, <1>2
<1>8. QED BY <1>5, <1>6, <1>7

\* They never fall, and are twice the arguments at most.
LEMMA EntriesRise ==
    ASSUME NEW S, NEW s \in Seq(S)
    PROVE  /\ \A i, j \in 0..Len(s) : i <= j => EntriesOf(s)[i] <= EntriesOf(s)[j]
           /\ Entries(s) \in Nat /\ Entries(s) <= 1 + 2 * Len(s) /\ Entries(s) >= 1
<1>0. Len(s) \in Nat /\ Len(s) \in 0..Len(s) /\ 0 \in 0..Len(s)
  OBVIOUS
<1> DEFINE e == EntriesOf(s)
<1>1. /\ \A i \in 0..Len(s) : e[i] \in Nat
      /\ e[0] = 1
      /\ \A i \in 1..Len(s) : e[i - 1] <= e[i] /\ e[i] <= e[i - 1] + 2
  <2>1. /\ \A i \in 0..Len(s) : e[i] \in Nat
        /\ e[0] = 1
        /\ \A i \in 1..Len(s) : e[i] = e[i - 1] + (IF s[i].value = "" THEN 1 ELSE 2)
    BY EntriesGrow
  <2> HIDE DEF e
  <2>2. ASSUME NEW i \in 1..Len(s) PROVE e[i - 1] <= e[i] /\ e[i] <= e[i - 1] + 2
    <3>1. PICK h \in 0..Len(s) : h = i - 1
      BY <1>0
    <3>2. e[h] \in Nat /\ e[i] = e[h] + (IF s[i].value = "" THEN 1 ELSE 2)
      BY <2>1, <3>1
    <3>3. PICK eh \in Nat, b \in {1, 2} : eh = e[h] /\ e[i] = eh + b
      BY <3>2
    <3>4. PICK ei \in Nat : ei = e[i] /\ ei = eh + b
      BY <3>3
    <3>5. eh <= ei /\ ei <= eh + 2
      BY <3>4
    <3>6. QED BY <3>1, <3>3, <3>4, <3>5
  <2>3. QED BY <2>1, <2>2
<1>2. Entries(s) = e[Len(s)]
  BY DEF Entries
<1> HIDE DEF e
<1>3. ASSUME NEW i \in 0..Len(s) PROVE \A j \in i..Len(s) : e[i] <= e[j]
  <2> DEFINE Bad == {j \in i..Len(s) : ~(e[i] <= e[j])}
  <2>1. ASSUME Bad # {} PROVE FALSE
    <3>1. PICK j \in Bad : \A k \in Bad : j <= k
      <4>1. Bad \subseteq Nat
        BY <1>0
      <4> HIDE DEF Bad
      <4>2. QED BY <2>1, <4>1, LeastOf
    <3>2. j # i /\ j \in (i + 1)..Len(s)
      BY <1>0, <1>1, <3>1
    <3>3. j - 1 \in i..Len(s) /\ j - 1 < j /\ j \in 1..Len(s)
      BY <1>0, <3>2
    <3>4. j - 1 \notin Bad
      BY <1>0, <3>1, <3>3
    <3>5. e[i] <= e[j - 1] /\ e[j - 1] <= e[j]
      BY <1>1, <3>3, <3>4
    <3>6. e[i] \in Nat /\ e[j - 1] \in Nat /\ e[j] \in Nat
      BY <1>0, <1>1, <3>3
    <3>7. QED BY <3>1, <3>5, <3>6
  <2>2. QED BY <2>1
<1>4. \A j \in 0..Len(s) : e[j] <= 1 + 2 * j
  <2> DEFINE Bad == {j \in 0..Len(s) : ~(e[j] <= 1 + 2 * j)}
  <2>1. ASSUME Bad # {} PROVE FALSE
    <3>1. PICK j \in Bad : \A k \in Bad : j <= k
      <4>1. Bad \subseteq Nat
        BY <1>0
      <4> HIDE DEF Bad
      <4>2. QED BY <2>1, <4>1, LeastOf
    <3>2. j # 0 /\ j \in 1..Len(s)
      BY <1>0, <1>1, <3>1
    <3>3. j - 1 \in 0..Len(s) /\ j - 1 < j
      BY <1>0, <3>2
    <3>4. j - 1 \notin Bad
      BY <1>0, <3>1, <3>3
    <3>5. e[j - 1] <= 1 + 2 * (j - 1) /\ e[j] <= e[j - 1] + 2
      BY <1>1, <3>2, <3>3, <3>4
    <3>6. e[j - 1] \in Nat /\ e[j] \in Nat /\ j \in Nat
      BY <1>0, <1>1, <3>2, <3>3
    <3>7. QED BY <3>1, <3>5, <3>6
  <2>2. QED BY <2>1
<1>5. \A i, j \in 0..Len(s) : i <= j => e[i] <= e[j]
  <2>1. ASSUME NEW i \in 0..Len(s), NEW j \in 0..Len(s), i <= j PROVE e[i] <= e[j]
    <3>1. j \in i..Len(s)
      BY <1>0, <2>1
    <3>2. QED BY <1>3, <3>1
  <2>2. QED BY <2>1
<1>6. e[0] <= e[Len(s)] /\ e[Len(s)] <= 1 + 2 * Len(s) /\ e[Len(s)] \in Nat
  BY <1>0, <1>1, <1>4, <1>5
<1>7. /\ \A i, j \in 0..Len(s) : i <= j => EntriesOf(s)[i] <= EntriesOf(s)[j]
  BY <1>5 DEF e
<1>8. QED BY <1>1, <1>2, <1>6, <1>7

\* A list takes the entries of its parts, the program's name once.
LEMMA EntriesJoin ==
    ASSUME NEW S, NEW s \in Seq(S), NEW t \in Seq(S)
    PROVE  /\ \A i \in 0..Len(s) : EntriesOf(s \o t)[i] = EntriesOf(s)[i]
           /\ Entries(s \o t) = Entries(s) + Entries(t) - 1
<1> DEFINE u == s \o t
<1>1. /\ u \in Seq(S) /\ Len(u) = Len(s) + Len(t) /\ Len(s) \in Nat /\ Len(t) \in Nat
      /\ \A i \in 1..Len(s) : u[i] = s[i]
      /\ \A i \in 1..Len(t) : u[Len(s) + i] = t[i]
  OBVIOUS
<1> DEFINE e == EntriesOf(u)
<1> DEFINE f == EntriesOf(s)
<1> DEFINE g == EntriesOf(t)
<1> HIDE DEF u
<1>2. /\ \A i \in 0..Len(u) : e[i] \in Nat
      /\ e[0] = 1
      /\ \A i \in 1..Len(u) : e[i] = e[i - 1] + (IF u[i].value = "" THEN 1 ELSE 2)
  BY <1>1, EntriesGrow
<1>3. /\ \A i \in 0..Len(s) : f[i] \in Nat
      /\ f[0] = 1
      /\ \A i \in 1..Len(s) : f[i] = f[i - 1] + (IF s[i].value = "" THEN 1 ELSE 2)
  BY <1>1, EntriesGrow
<1>4. /\ \A i \in 0..Len(t) : g[i] \in Nat
      /\ g[0] = 1
      /\ \A i \in 1..Len(t) : g[i] = g[i - 1] + (IF t[i].value = "" THEN 1 ELSE 2)
  BY <1>1, EntriesGrow
<1>5. Entries(u) = e[Len(u)] /\ Entries(s) = f[Len(s)] /\ Entries(t) = g[Len(t)]
  BY DEF Entries
<1> HIDE DEF e, f, g
<1>6. \A i \in 0..Len(s) : e[i] = f[i]
  <2> DEFINE Bad == {i \in 0..Len(s) : e[i] # f[i]}
  <2>1. ASSUME Bad # {} PROVE FALSE
    <3>1. PICK j \in Bad : \A k \in Bad : j <= k
      <4>1. Bad \subseteq Nat
        BY <1>1
      <4> HIDE DEF Bad
      <4>2. QED BY <2>1, <4>1, LeastOf
    <3>2. j # 0
      BY <1>2, <1>3, <3>1
    <3>3. j - 1 \in 0..Len(s) /\ j - 1 < j /\ j \in 1..Len(s) /\ j \in 1..Len(u)
      BY <1>1, <3>1, <3>2
    <3>4. e[j - 1] = f[j - 1]
      BY <1>1, <3>1, <3>3
    <3>5. u[j] = s[j]
      BY <1>1, <3>3
    <3>6. QED BY <1>2, <1>3, <3>1, <3>3, <3>4, <3>5
  <2>2. QED BY <2>1
<1>7. \A i \in 0..Len(t) : e[Len(s) + i] = f[Len(s)] + g[i] - 1
  <2> DEFINE Bad == {i \in 0..Len(t) : e[Len(s) + i] # f[Len(s)] + g[i] - 1}
  <2>1. ASSUME Bad # {} PROVE FALSE
    <3>1. PICK j \in Bad : \A k \in Bad : j <= k
      <4>1. Bad \subseteq Nat
        BY <1>1
      <4> HIDE DEF Bad
      <4>2. QED BY <2>1, <4>1, LeastOf
    <3>2. j # 0
      <4>1. Len(s) + 0 = Len(s) /\ Len(s) \in 0..Len(s)
        BY <1>1
      <4>2. e[Len(s) + 0] = f[Len(s)] /\ f[Len(s)] \in Nat
        BY <1>3, <1>6, <4>1
      <4>3. PICK fs \in Nat : fs = f[Len(s)]
        BY <4>2
      <4>4. fs = fs + 1 - 1
        OBVIOUS
      <4>5. e[Len(s) + 0] = f[Len(s)] + g[0] - 1
        BY <1>4, <4>2, <4>3, <4>4
      <4>6. QED BY <3>1, <4>5
    <3>3. j - 1 \in 0..Len(t) /\ j - 1 < j /\ j \in 1..Len(t) /\ Len(s) + j \in 1..Len(u)
          /\ (Len(s) + j) - 1 = Len(s) + (j - 1)
      BY <1>1, <3>1, <3>2
    <3>4. e[Len(s) + (j - 1)] = f[Len(s)] + g[j - 1] - 1
      BY <1>1, <3>1, <3>3
    <3>5. u[Len(s) + j] = t[j]
      BY <1>1, <3>3
    <3>6. e[Len(s) + j] = e[Len(s) + (j - 1)] + (IF t[j].value = "" THEN 1 ELSE 2)
      BY <1>2, <3>3, <3>5
    <3>7. g[j] = g[j - 1] + (IF t[j].value = "" THEN 1 ELSE 2) /\ g[j - 1] \in Nat
      BY <1>4, <3>3
    <3>8. Len(s) \in 0..Len(s)
      BY <1>1
    <3>9. f[Len(s)] \in Nat
      BY <1>3, <3>8
    <3>10. PICK b \in Nat, fs \in Nat, gj \in Nat :
               /\ b = (IF t[j].value = "" THEN 1 ELSE 2) /\ fs = f[Len(s)] /\ gj = g[j - 1]
      BY <3>7, <3>9
    <3>11. e[Len(s) + j] = (fs + gj - 1) + b /\ g[j] = gj + b
      BY <3>4, <3>6, <3>7, <3>10
    <3>12. e[Len(s) + j] = f[Len(s)] + g[j] - 1
      <4>1. (fs + gj - 1) + b = fs + (gj + b) - 1
        OBVIOUS
      <4>2. QED BY <3>10, <3>11, <4>1
    <3>13. QED BY <3>1, <3>12
  <2>2. QED BY <2>1
<1>8. Len(t) \in 0..Len(t)
  BY <1>1
<1>9. Entries(u) = Entries(s) + Entries(t) - 1
  BY <1>1, <1>5, <1>7, <1>8
<1>10. QED BY <1>6, <1>9 DEF u, e, f

\* A list is cut after as many arguments as there is room for.
LEMMA FittingIs ==
    ASSUME NEW S, NEW s \in Seq(S), NEW room \in Int, room >= 1
    PROVE  /\ Fitting(s, room) \in 0..Len(s)
           /\ EntriesOf(s)[Fitting(s, room)] <= room
           /\ Fitting(s, room) < Len(s) => EntriesOf(s)[Fitting(s, room) + 1] > room
<1> DEFINE e == EntriesOf(s)
<1> DEFINE Ends == {k \in 0..Len(s) : k < Len(s) => ~(e[k + 1] <= room)}
<1>0. Len(s) \in Nat /\ Len(s) \in 0..Len(s)
  OBVIOUS
<1>1. e[0] = 1 /\ \A i \in 0..Len(s) : e[i] \in Nat
  BY EntriesGrow
<1> HIDE DEF e
<1>2. PICK k \in Ends : \A j \in Ends : k <= j
  <2>1. Ends \subseteq Nat /\ Len(s) \in Ends
    BY <1>0
  <2> HIDE DEF Ends
  <2>2. QED BY <2>1, LeastOf
<1>3. e[k] <= room
  <2>1. CASE k = 0
    BY <1>1, <2>1
  <2>2. CASE k # 0
    <3>1. k - 1 \in 0..Len(s) /\ k - 1 < k /\ k - 1 < Len(s) /\ (k - 1) + 1 = k
      BY <1>0, <1>2, <2>2
    <3>2. k - 1 \notin Ends
      BY <1>0, <1>2, <3>1
    <3>3. QED BY <3>1, <3>2
  <2>3. QED BY <2>1, <2>2
<1>4. k < Len(s) => e[k + 1] > room
  <2>1. ASSUME k < Len(s) PROVE e[k + 1] > room
    <3>1. k + 1 \in 0..Len(s) /\ ~(e[k + 1] <= room)
      BY <1>0, <1>2, <2>1
    <3>2. PICK x \in Nat : x = e[k + 1]
      BY <1>1, <3>1
    <3>3. QED BY <3>1, <3>2
  <2>2. QED BY <2>1
<1>5. k \in 0..Len(s)
  BY <1>2
<1>6. \E j \in 0..Len(s) : EntriesOf(s)[j] <= room /\ (j < Len(s) => EntriesOf(s)[j + 1] > room)
  BY <1>3, <1>4, <1>5 DEF e
<1>7. Fitting(s, room) = CHOOSE j \in 0..Len(s) :
        EntriesOf(s)[j] <= room /\ (j < Len(s) => EntriesOf(s)[j + 1] > room)
  BY DEF Fitting
<1>8. QED BY <1>6, <1>7, Zenon

\* The first part of a list that fits is kept whole; what is left out, or cut, is of
\* the second, and nothing is where both fit.
Cuttable(S) == \A x \in S : [flag |-> x.flag, value |-> "", by |-> "cut"] \in S
LEMMA CutKeeps ==
    ASSUME NEW S, Cuttable(S),
           NEW c \in Seq(S), NEW u \in Seq(S), NEW room \in Int, Entries(c) <= room
    PROVE  \E v \in Seq(S) :
              /\ Cut(c \o u, room) = c \o v
              /\ FlagsOf(v) \subseteq FlagsOf(u)
              /\ Entries(c \o u) <= room => v = u
<1> DEFINE a == c \o u
<1>1. /\ a \in Seq(S) /\ Len(a) = Len(c) + Len(u) /\ Len(c) \in Nat /\ Len(u) \in Nat
      /\ \A i \in 1..Len(c) : a[i] = c[i]
      /\ \A i \in 1..Len(u) : a[Len(c) + i] = u[i]
  OBVIOUS
<1>2. EntriesOf(a)[Len(c)] = Entries(c)
  <2>1. Len(c) \in 0..Len(c) /\ \A i \in 0..Len(c) : EntriesOf(a)[i] = EntriesOf(c)[i]
    BY <1>1, EntriesJoin
  <2>2. QED BY <2>1 DEF Entries
<1> HIDE DEF a
<1> DEFINE k == Fitting(a, room)
<1>3. Entries(c) \in Nat /\ Entries(c) >= 1
  BY EntriesRise
<1>4. /\ k \in 0..Len(a) /\ EntriesOf(a)[k] <= room
      /\ k < Len(a) => EntriesOf(a)[k + 1] > room
  BY <1>1, <1>3, FittingIs
<1> HIDE DEF k
<1>5. /\ \A i, j \in 0..Len(a) : i <= j => EntriesOf(a)[i] <= EntriesOf(a)[j]
      /\ \A i \in 0..Len(a) : EntriesOf(a)[i] \in Nat
  BY <1>1, EntriesRise, EntriesGrow
<1>6. Len(c) <= k
  <2>1. ASSUME k < Len(c) PROVE FALSE
    <3>1. k + 1 \in 0..Len(a) /\ Len(c) \in 0..Len(a) /\ k + 1 <= Len(c) /\ k < Len(a)
      BY <1>1, <1>4, <2>1
    <3>2. PICK x \in Nat, y \in Nat : x = EntriesOf(a)[k + 1] /\ y = Entries(c)
      BY <1>3, <1>5, <3>1
    <3>3. x <= y /\ x > room /\ y <= room
      BY <1>2, <1>4, <1>5, <3>1, <3>2
    <3>4. QED BY <3>2, <3>3
  <2>2. QED BY <1>1, <1>4, <2>1
<1>7. PICK m \in 0..Len(u) : k = Len(c) + m
  <2>1. k - Len(c) \in 0..Len(u) /\ k = Len(c) + (k - Len(c))
    BY <1>1, <1>4, <1>6
  <2>2. QED BY <2>1
<1> DEFINE p == SubSeq(u, 1, m)
<1>8. /\ p \in Seq(S) /\ Len(p) = m /\ (\A i \in 1..m : p[i] = u[i])
      /\ DOMAIN p = 1..m /\ DOMAIN u = 1..Len(u)
  BY <1>1, <1>7
<1>9. SubSeq(a, 1, k) = c \o p
  <2> DEFINE l == SubSeq(a, 1, k)
  <2> DEFINE r == c \o p
  <2>1. l \in Seq(S) /\ Len(l) = k /\ (\A i \in 1..k : l[i] = a[i])
    BY <1>1, <1>4
  <2>2. /\ r \in Seq(S) /\ Len(r) = Len(c) + m
        /\ \A i \in 1..Len(c) : r[i] = c[i]
        /\ \A i \in 1..m : r[Len(c) + i] = p[i]
    BY <1>8
  <2> HIDE DEF l, r, p
  <2>3. ASSUME NEW i \in 1..k PROVE l[i] = r[i]
    <3>1. CASE i \in 1..Len(c)
      BY <1>1, <2>1, <2>2, <3>1
    <3>2. CASE i \notin 1..Len(c)
      <4>1. PICK j \in 1..m : i = Len(c) + j
        <5>1. i - Len(c) \in 1..m /\ i = Len(c) + (i - Len(c))
          BY <1>1, <1>4, <1>7, <3>2
        <5>2. QED BY <5>1
      <4>2. j \in 1..Len(u)
        BY <1>1, <1>7
      <4>3. QED BY <1>1, <1>8, <2>1, <2>2, <4>1, <4>2
    <3>3. QED BY <3>1, <3>2
  <2>4. l = r
    BY <1>7, <2>1, <2>2, <2>3, SeqEqual
  <2>5. QED BY <2>4 DEF l, r
<1> DEFINE w == When(k < Len(a) /\ EntriesOf(a)[k] < room,
                     <<[flag |-> a[k + 1].flag, value |-> "", by |-> "cut"]>>)
<1>10. Cut(a, room) = SubSeq(a, 1, k) \o w
  BY DEF Cut, k
<1>11. w \in Seq(S) /\ FlagsOf(w) \subseteq FlagsOf(u) /\ (k = Len(a) => w = <<>>)
  <2>1. CASE k < Len(a) /\ EntriesOf(a)[k] < room
    <3>1. m + 1 \in 1..Len(u) /\ k + 1 = Len(c) + (m + 1)
      BY <1>1, <1>7, <2>1
    <3>2. a[k + 1] = u[m + 1] /\ u[m + 1] \in S
      BY <1>1, <3>1
    <3>3. PICK x \in S : x = [flag |-> a[k + 1].flag, value |-> "", by |-> "cut"] /\ x.flag = u[m + 1].flag
      BY <3>2 DEF Cuttable
    <3>4. w = <<x>>
      BY <2>1, <3>3 DEF When
    <3>5. <<x>> \in Seq(S) /\ DOMAIN <<x>> = {1} /\ <<x>>[1] = x
      OBVIOUS
    <3>6. FlagsOf(<<x>>) \subseteq FlagsOf(u)
      BY <1>8, <3>1, <3>3, <3>5 DEF FlagsOf
    <3>7. k # Len(a)
      BY <1>1, <1>4, <2>1
    <3>8. QED BY <3>4, <3>5, <3>6, <3>7
  <2>2. CASE ~(k < Len(a) /\ EntriesOf(a)[k] < room)
    <3>1. w = <<>>
      BY <2>2 DEF When
    <3>2. <<>> \in Seq(S) /\ DOMAIN <<>> = {}
      OBVIOUS
    <3>3. FlagsOf(<<>>) = {}
      BY <3>2 DEF FlagsOf
    <3>4. QED BY <3>1, <3>2, <3>3
  <2>3. QED BY <2>1, <2>2
<1>12. FlagsOf(p) \subseteq FlagsOf(u)
  BY <1>7, <1>8 DEF FlagsOf
<1> HIDE DEF p, w
<1>13. p \o w \in Seq(S) /\ FlagsOf(p \o w) \subseteq FlagsOf(u)
  <2>1. FlagsOf(p \o w) = FlagsOf(p) \cup FlagsOf(w)
    BY <1>8, <1>11, FlagsJoin
  <2>2. QED BY <1>8, <1>11, <1>12, <2>1
<1>14. Cut(a, room) = c \o (p \o w)
  <2>1. (c \o p) \o w = c \o (p \o w)
    BY <1>8, <1>11, ConcatAssociative
  <2>2. QED BY <1>9, <1>10, <2>1
<1>15. ASSUME Entries(a) <= room PROVE p \o w = u
  <2>1. k = Len(a)
    <3>1. ASSUME k < Len(a) PROVE FALSE
      <4>1. k + 1 \in 0..Len(a) /\ Len(a) \in 0..Len(a) /\ k + 1 <= Len(a)
        BY <1>1, <1>4, <3>1
      <4>2. PICK x \in Nat, y \in Nat : x = EntriesOf(a)[k + 1] /\ y = EntriesOf(a)[Len(a)]
        BY <1>5, <4>1
      <4>3. x <= y /\ x > room /\ y <= room
        BY <1>4, <1>5, <1>15, <3>1, <4>1, <4>2 DEF Entries
      <4>4. QED BY <4>2, <4>3
    <3>2. PICK l \in Nat : l = Len(a)
      BY <1>1
    <3>3. k \in 0..l /\ ~(k < l)
      BY <1>4, <3>1, <3>2
    <3>4. k = l
      BY <3>2, <3>3
    <3>5. QED BY <3>2, <3>4
  <2>2. m = Len(u)
    BY <1>1, <1>7, <2>1
  <2>3. p = u
    BY <2>2, SubSeqFull DEF p
  <2>4. w = <<>>
    BY <1>11, <2>1
  <2>5. QED BY <2>3, <2>4, ConcatEmptySeq
<1>16. QED
  <2>1. Cut(a, room) = c \o (p \o w) /\ p \o w \in Seq(S) /\ FlagsOf(p \o w) \subseteq FlagsOf(u)
        /\ (Entries(a) <= room => p \o w = u)
    BY <1>13, <1>14, <1>15
  <2>2. QED BY <2>1 DEF a

-----------------------------------------------------------------------------
\* The planned line: what its parts are made of.
Values(s, k) ==
    {"", "gguf", "tower", "socket", "loopback", "ours", "0", "off", "planned", "none", "auto", "3",
     "f16", "admitted", "all", "yarn", "on", "workers", "given", s.device, k.ngl, k.spec, Ctk(k),
     Ctv(k), Window(s, k), Scale(s, k), ToString(k.orig), ToString(k.np)}
Flags ==
    {"--idletoken-managed", "-m", "--mmproj", "--host", "--port", "--no-slots", "--poll",
     "--slot-save-path", "-ngl", "--fit", "--n-cpu-moe", "--load-mode", "--reasoning", "-c",
     "--rope-scaling", "--rope-scale", "--yarn-orig-ctx", "-np", "--spec-type", "--idletoken-mtp-safe",
     "--spec-draft-n-max", "-ctkd", "-ctvd", "--idletoken-mtp-external-safe", "--spec-draft-model",
     "--spec-draft-device", "--spec-draft-ngl"}
ClusterFlags ==
    {"--rpc", "--device", "--tensor-split", "--fit", "--override-tensor", "--load-mode", "--vocab-only",
     "--no-warmup", "--cache-ram"}
CacheFlags == {"-ctk", "-ctv", "-fa"}
Ours(flags, s, k) == [flag : flags, value : Values(s, k), by : {"us"}]
Arguments(s, k) ==
    [flag : Flags \cup ClusterFlags \cup CacheFlags \cup FlagsOf(k.extra), value : Values(s, k),
     by : {"us", "the user", "cut"}]

\* A list of so many arguments at most; such lists join to one.
UpTo(S, args, n) == args \in Seq(S) /\ Len(args) <= n

LEMMA UpToJoin ==
    ASSUME NEW S, NEW s, NEW t, NEW m \in Nat, NEW n \in Nat, UpTo(S, s, m), UpTo(S, t, n),
           NEW l \in Nat, m + n <= l
    PROVE  UpTo(S, s \o t, l)
<1>1. s \o t \in Seq(S) /\ Len(s \o t) = Len(s) + Len(t) /\ Len(s) \in Nat /\ Len(t) \in Nat
  BY DEF UpTo
<1>2. QED BY <1>1 DEF UpTo

LEMMA UpToWhen ==
    ASSUME NEW S, NEW condition, NEW args, NEW n \in Nat, UpTo(S, args, n)
    PROVE  UpTo(S, When(condition, args), n)
<1>1. CASE condition
  BY <1>1 DEF When
<1>2. CASE ~condition
  <2>1. <<>> \in Seq(S) /\ Len(<<>>) = 0
    OBVIOUS
  <2>2. QED BY <1>2, <2>1 DEF When, UpTo
<1>3. QED BY <1>1, <1>2

LEMMA UpToOne ==
    ASSUME NEW S, NEW a \in S, NEW b \in S, NEW c \in S
    PROVE  UpTo(S, <<a>>, 1) /\ UpTo(S, <<a, b>>, 2) /\ UpTo(S, <<a, b, c>>, 3) /\ UpTo(S, <<>>, 0)
BY DEF UpTo

LEMMA UpToFour ==
    ASSUME NEW S, NEW a \in S, NEW b \in S, NEW c \in S, NEW d \in S
    PROVE  UpTo(S, <<a, b, c, d>>, 4)
BY DEF UpTo

LEMMA ArgumentIs ==
    ASSUME NEW s, NEW k, NEW flags, NEW f \in flags, NEW v \in Values(s, k)
    PROVE  A(f, v) \in Ours(flags, s, k)
BY DEF A, Ours

\* What the two ways of making the line write of drafting is the same.
LEMMA DraftsAgree ==
    ASSUME NEW s, NEW k
    PROVE  PosixDraft(s, k) = WindowsDraft(s, k)
<1> DEFINE x == <<A("--spec-type", k.spec)>>
<1> DEFINE y == <<A("--idletoken-mtp-safe", ""), A("--spec-draft-n-max", "3"), A("-ctkd", "f16"), A("-ctvd", "f16")>>
<1> DEFINE z == <<A("--idletoken-mtp-external-safe", ""), A("--spec-draft-model", "admitted"),
                  A("--spec-draft-device", s.device), A("--spec-draft-ngl", "all")>>
<1> DEFINE S == {x[1], y[1], y[2], y[3], y[4], z[1], z[2], z[3], z[4]}
<1>1. x \in Seq(S) /\ y \in Seq(S) /\ z \in Seq(S)
  OBVIOUS
<1>2. /\ PosixDraft(s, k) = When(k.spec # "", x \o When(Drafts(k.spec), y \o When(s.draft, z)))
      /\ WindowsDraft(s, k) = When(k.spec # "", x \o When(Drafts(k.spec), y)) \o When(s.draft /\ Drafts(k.spec), z)
  BY Zenon DEF PosixDraft, WindowsDraft
<1> HIDE DEF x, y, z, S
<1>3. x \o y \in Seq(S) /\ x \o <<>> = x /\ y \o <<>> = y /\ (x \o y) \o <<>> = x \o y
      /\ <<>> \o <<>> = <<>> /\ x \o (y \o z) = (x \o y) \o z
  <2>1. x \o y \in Seq(S)
    BY <1>1
  <2>2. <<>> \in Seq(S)
    OBVIOUS
  <2>3. QED BY <1>1, <2>1, <2>2, ConcatEmptySeq, ConcatAssociative
<1>4. Drafts(k.spec) => k.spec # ""
  BY DEF Drafts
<1>5. CASE k.spec = ""
  BY <1>2, <1>3, <1>4, <1>5 DEF When
<1>6. CASE k.spec # "" /\ ~Drafts(k.spec)
  BY <1>2, <1>3, <1>6 DEF When
<1>7. CASE k.spec # "" /\ Drafts(k.spec) /\ ~s.draft
  BY <1>2, <1>3, <1>7 DEF When
<1>8. CASE k.spec # "" /\ Drafts(k.spec) /\ s.draft
  BY <1>2, <1>3, <1>8 DEF When
<1>9. QED BY <1>4, <1>5, <1>6, <1>7, <1>8

\* What is ours and fixed: thirty arguments at most, of which the last three alone say how
\* the cache is kept.
CacheArgs(k) == When(k.ctk # "" \/ k.ctv # "", <<A("-ctk", Ctk(k)), A("-ctv", Ctv(k)), A("-fa", "on")>>)
LEMMA FixedIs ==
    ASSUME NEW s, NEW k
    PROVE  \E h : /\ UpTo(Ours(Flags, s, k), h, 27)
                  /\ PosixFixed(s, k) = h \o CacheArgs(k)
                  /\ WindowsPlan(s, k) = (h \o CacheArgs(k)) \o ClusterArgs(s)
<1> DEFINE S == Ours(Flags, s, k)
<1> DEFINE F == Flags
<1> DEFINE V == Values(s, k)
<1>0. \A f \in F, v \in V : A(f, v) \in S
  BY ArgumentIs
<1>01. {"--idletoken-managed", "-m", "--mmproj", "--host", "--port", "--no-slots", "--poll",
        "--slot-save-path", "-ngl", "--fit", "--n-cpu-moe", "--load-mode", "--reasoning"} \subseteq F
  BY Zenon DEF Flags
<1>02. {"-c", "--rope-scaling", "--rope-scale", "--yarn-orig-ctx", "-np", "--spec-type",
        "--idletoken-mtp-safe", "--spec-draft-n-max", "-ctkd", "-ctvd", "--idletoken-mtp-external-safe",
        "--spec-draft-model", "--spec-draft-device", "--spec-draft-ngl"} \subseteq F
  BY Zenon DEF Flags
<1>03. {"", "gguf", "tower", "socket", "loopback", "ours", "0", "off", "planned", "none", "auto", "3",
        "f16", "admitted", "all", "yarn", s.device, k.ngl, k.spec, Window(s, k), Scale(s, k),
        ToString(k.orig), ToString(k.np)} \subseteq V
  BY Zenon DEF Values
<1> HIDE DEF S, F, V
<1>1. /\ A("--idletoken-managed", "") \in S /\ A("-m", "gguf") \in S /\ A("--mmproj", "tower") \in S
      /\ A("--host", "socket") \in S /\ A("--host", "loopback") \in S /\ A("--port", "ours") \in S
      /\ A("--no-slots", "") \in S /\ A("--poll", "0") \in S /\ A("--slot-save-path", "ours") \in S
  BY <1>0, <1>01, <1>03
<1>2. /\ A("-ngl", k.ngl) \in S /\ A("--fit", "off") \in S /\ A("--n-cpu-moe", "planned") \in S
      /\ A("--load-mode", "none") \in S /\ A("--reasoning", "auto") \in S
      /\ A("-c", Window(s, k)) \in S /\ A("--rope-scaling", "yarn") \in S
      /\ A("--rope-scale", Scale(s, k)) \in S /\ A("--yarn-orig-ctx", ToString(k.orig)) \in S
      /\ A("-np", ToString(k.np)) \in S
  BY <1>0, <1>01, <1>02, <1>03
<1>3. /\ A("--spec-type", k.spec) \in S /\ A("--idletoken-mtp-safe", "") \in S
      /\ A("--spec-draft-n-max", "3") \in S /\ A("-ctkd", "f16") \in S /\ A("-ctvd", "f16") \in S
      /\ A("--idletoken-mtp-external-safe", "") \in S /\ A("--spec-draft-model", "admitted") \in S
      /\ A("--spec-draft-device", s.device) \in S /\ A("--spec-draft-ngl", "all") \in S
  BY <1>0, <1>02, <1>03
<1> DEFINE c1 == <<A("--idletoken-managed", ""), A("-m", "gguf")>>
<1> DEFINE c2 == When(s.vision, <<A("--mmproj", "tower")>>)
<1> DEFINE socket == <<A("--host", "socket")>>
<1> DEFINE address == <<A("--host", "loopback"), A("--port", "ours")>>
<1> DEFINE c3 == IF s.sock # "" THEN socket ELSE address
<1> DEFINE c4 == When(s.shared, <<A("--no-slots", "")>>)
<1> DEFINE c5 == When(s.gpuOnly, <<A("--poll", "0")>>)
<1> DEFINE c6 == When(k.grow /\ ~s.shared, <<A("--slot-save-path", "ours")>>)
<1> DEFINE c7 == <<A("-ngl", k.ngl), A("--fit", "off")>>
<1> DEFINE c8 == When(CpuMoe(s), <<A("--n-cpu-moe", "planned"), A("--load-mode", "none")>>)
<1> DEFINE c9 == <<A("--reasoning", "auto")>>
<1> DEFINE c10 == PosixDraft(s, k)
<1> DEFINE c11 == When(s.ctx > 0, <<A("-c", Window(s, k))>>)
<1> DEFINE c12 == When(k.orig > 0, <<A("--rope-scaling", "yarn"), A("--rope-scale", Scale(s, k)),
                                    A("--yarn-orig-ctx", ToString(k.orig))>>)
<1> DEFINE c13 == <<A("-np", ToString(k.np))>>
<1>4. /\ UpTo(S, c1, 2) /\ UpTo(S, c2, 1) /\ UpTo(S, socket, 1) /\ UpTo(S, address, 2)
      /\ UpTo(S, c4, 1) /\ UpTo(S, c5, 1) /\ UpTo(S, c6, 1)
  BY <1>1, UpToOne, UpToWhen
<1>5. /\ UpTo(S, c7, 2) /\ UpTo(S, c8, 2) /\ UpTo(S, c9, 1) /\ UpTo(S, c11, 1) /\ UpTo(S, c12, 3)
      /\ UpTo(S, c13, 1)
  BY <1>2, UpToOne, UpToWhen
<1>6. UpTo(S, c10, 9)
  <2> DEFINE x == <<A("--spec-type", k.spec)>>
  <2> DEFINE y == <<A("--idletoken-mtp-safe", ""), A("--spec-draft-n-max", "3"), A("-ctkd", "f16"), A("-ctvd", "f16")>>
  <2> DEFINE z == <<A("--idletoken-mtp-external-safe", ""), A("--spec-draft-model", "admitted"),
                    A("--spec-draft-device", s.device), A("--spec-draft-ngl", "all")>>
  <2>1. UpTo(S, x, 1) /\ UpTo(S, y, 4) /\ UpTo(S, z, 4)
    BY <1>3, UpToOne, UpToFour
  <2>2. PosixDraft(s, k) = When(k.spec # "", x \o When(Drafts(k.spec), y \o When(s.draft, z)))
    BY Zenon DEF PosixDraft
  <2> HIDE DEF x, y, z
  <2>3. UpTo(S, When(s.draft, z), 4)
    BY <2>1, UpToWhen
  <2>4. UpTo(S, y \o When(s.draft, z), 8)
    BY <2>1, <2>3, UpToJoin
  <2>5. UpTo(S, When(Drafts(k.spec), y \o When(s.draft, z)), 8)
    BY <2>4, UpToWhen
  <2>6. UpTo(S, x \o When(Drafts(k.spec), y \o When(s.draft, z)), 9)
    BY <2>1, <2>5, UpToJoin
  <2>7. UpTo(S, When(k.spec # "", x \o When(Drafts(k.spec), y \o When(s.draft, z))), 9)
    BY <2>6, UpToWhen
  <2>8. QED BY <2>2, <2>7
<1>7. UpTo(S, c3, 2)
  <2> HIDE DEF socket, address
  <2>1. UpTo(S, socket, 2)
    <3>1. UpTo(S, socket, 1)
      BY <1>4
    <3>2. QED BY <3>1 DEF UpTo
  <2>2. CASE s.sock # ""
    BY <2>1, <2>2
  <2>3. CASE s.sock = ""
    BY <1>4, <2>3
  <2>4. QED BY <2>2, <2>3
<1>8. /\ PosixFixed(s, k) = c1 \o c2 \o When(s.sock # "", socket) \o When(s.sock = "", address)
             \o c4 \o c5 \o c6 \o c7 \o c8 \o c9 \o c10 \o c11 \o c12 \o c13 \o CacheArgs(k)
      /\ WindowsPlan(s, k) = c1 \o c2 \o c3 \o c4 \o c5 \o c6 \o c7 \o c8 \o c9
             \o WindowsDraft(s, k) \o c11 \o c12 \o c13 \o CacheArgs(k) \o ClusterArgs(s)
  BY Zenon DEF PosixFixed, WindowsPlan, CacheArgs
<1> HIDE DEF c1, c2, socket, address, c4, c5, c6, c7, c8, c9, c10, c11, c12, c13
<1> DEFINE h3 == (c1 \o c2) \o c3
<1> DEFINE hosted == ((c1 \o c2) \o When(s.sock # "", socket)) \o When(s.sock = "", address)
<1>9. UpTo(S, h3, 5) /\ hosted = h3
  <2>1. UpTo(S, c1 \o c2, 3)
    BY <1>4, UpToJoin
  <2>2. UpTo(S, h3, 5)
    <3> HIDE DEF c3
    <3>1. QED BY <1>7, <2>1, UpToJoin
  <2>3. c1 \o c2 \in Seq(S) /\ socket \in Seq(S) /\ address \in Seq(S)
    BY <1>4, <2>1 DEF UpTo
  <2>4. hosted = h3
    <3> DEFINE g == c1 \o c2
    <3> HIDE DEF c1, c2, g, socket, address
    <3>1. g \in Seq(S) /\ socket \in Seq(S) /\ address \in Seq(S)
      BY <2>3 DEF g
    <3>2. (g \o socket) \o <<>> = g \o socket /\ g \o <<>> = g
      <4>1. g \o socket \in Seq(S)
        BY <3>1
      <4>2. QED BY <3>1, <4>1, ConcatEmptySeq
    <3>3. hosted = (g \o When(s.sock # "", socket)) \o When(s.sock = "", address) /\ h3 = g \o c3
      BY Zenon DEF g
    <3> HIDE DEF hosted, h3
    <3>4. CASE s.sock = ""
      BY <3>2, <3>3, <3>4 DEF When
    <3>5. CASE s.sock # ""
      BY <3>2, <3>3, <3>5 DEF When
    <3>6. QED BY <3>4, <3>5
  <2>5. QED BY <2>2, <2>4
<1> HIDE DEF h3, c3, hosted
<1> DEFINE h6 == ((h3 \o c4) \o c5) \o c6
<1>10. UpTo(S, h6, 8)
  <2>1. UpTo(S, h3 \o c4, 6)
    BY <1>4, <1>9, UpToJoin
  <2>2. UpTo(S, (h3 \o c4) \o c5, 7)
    BY <1>4, <2>1, UpToJoin
  <2>3. QED BY <1>4, <2>2, UpToJoin
<1> HIDE DEF h6
<1> DEFINE h9 == ((h6 \o c7) \o c8) \o c9
<1>11. UpTo(S, h9, 13)
  <2>1. UpTo(S, h6 \o c7, 10)
    BY <1>5, <1>10, UpToJoin
  <2>2. UpTo(S, (h6 \o c7) \o c8, 12)
    BY <1>5, <2>1, UpToJoin
  <2>3. QED BY <1>5, <2>2, UpToJoin
<1> HIDE DEF h9
<1> DEFINE h == (((h9 \o c10) \o c11) \o c12) \o c13
<1>12. UpTo(S, h, 27)
  <2>1. UpTo(S, h9 \o c10, 22)
    BY <1>6, <1>11, UpToJoin
  <2>2. UpTo(S, (h9 \o c10) \o c11, 23)
    BY <1>5, <2>1, UpToJoin
  <2>3. UpTo(S, ((h9 \o c10) \o c11) \o c12, 26)
    BY <1>5, <2>2, UpToJoin
  <2>4. QED BY <1>5, <2>3, UpToJoin
<1>13. PosixFixed(s, k) = h \o CacheArgs(k)
  BY <1>8, <1>9, Zenon DEF h6, h9, hosted
<1>14. WindowsPlan(s, k) = (h \o CacheArgs(k)) \o ClusterArgs(s)
  <2>1. WindowsDraft(s, k) = c10
    BY DraftsAgree, Zenon DEF c10
  <2>2. QED BY <1>8, <2>1, Zenon DEF h3, h6, h9
<1> HIDE DEF h
<1>15. QED BY <1>12, <1>13, <1>14 DEF S

LEMMA CacheIs ==
    ASSUME NEW s, NEW k
    PROVE  UpTo(Ours(CacheFlags, s, k), CacheArgs(k), 3)
<1> DEFINE S == Ours(CacheFlags, s, k)
<1>1. "-ctk" \in CacheFlags /\ "-ctv" \in CacheFlags /\ "-fa" \in CacheFlags
  BY DEF CacheFlags
<1>2. Ctk(k) \in Values(s, k) /\ Ctv(k) \in Values(s, k) /\ "on" \in Values(s, k)
  BY Zenon DEF Values
<1>3. A("-ctk", Ctk(k)) \in S /\ A("-ctv", Ctv(k)) \in S /\ A("-fa", "on") \in S
  BY <1>1, <1>2, ArgumentIs
<1> HIDE DEF S
<1>4. UpTo(S, <<A("-ctk", Ctk(k)), A("-ctv", Ctv(k)), A("-fa", "on")>>, 3)
  BY <1>3, UpToOne
<1>5. UpTo(S, CacheArgs(k), 3)
  BY <1>4, UpToWhen DEF CacheArgs
<1>6. QED BY <1>5 DEF S

LEMMA ClusterIs ==
    ASSUME NEW s, NEW k
    PROVE  UpTo(Ours(ClusterFlags, s, k), ClusterArgs(s), 6)
<1> DEFINE S == Ours(ClusterFlags, s, k)
<1> DEFINE V == Values(s, k)
<1>1. {"--rpc", "--device", "--tensor-split", "--fit", "--override-tensor", "--load-mode",
       "--vocab-only", "--no-warmup", "--cache-ram"} \subseteq ClusterFlags
  BY Zenon DEF ClusterFlags
<1>2. {"workers", "planned", "off", "none", "", "0"} \subseteq V
  BY Zenon DEF Values
<1>3. \A f \in ClusterFlags, v \in V : A(f, v) \in S
  BY ArgumentIs
<1> HIDE DEF S, V
<1>4. /\ A("--rpc", "workers") \in S /\ A("--device", "planned") \in S
      /\ A("--tensor-split", "planned") \in S /\ A("--fit", "off") \in S
      /\ A("--override-tensor", "planned") \in S /\ A("--load-mode", "none") \in S
      /\ A("--vocab-only", "") \in S /\ A("--no-warmup", "") \in S /\ A("--cache-ram", "0") \in S
  BY <1>1, <1>2, <1>3
<1> DEFINE x == <<A("--rpc", "workers"), A("--device", "planned"), A("--tensor-split", "planned"), A("--fit", "off")>>
<1> DEFINE y == <<A("--override-tensor", "planned"), A("--load-mode", "none")>>
<1> DEFINE z == <<A("--vocab-only", ""), A("--no-warmup", ""), A("--cache-ram", "0")>>
<1>5. UpTo(S, x, 4) /\ UpTo(S, y, 2) /\ UpTo(S, z, 3) /\ UpTo(S, <<>>, 0)
  BY <1>4, UpToOne, UpToFour
<1>6. ClusterArgs(s) = When(s.mode = "cluster", x \o When(s.moe, y)) \o When(s.mode = "tokenizer", z)
  BY Zenon DEF ClusterArgs
<1> HIDE DEF x, y, z
<1>7. UpTo(S, x \o When(s.moe, y), 6)
  <2>1. UpTo(S, When(s.moe, y), 2)
    BY <1>5, UpToWhen
  <2>2. QED BY <1>5, <2>1, UpToJoin
<1> DEFINE w == x \o When(s.moe, y)
<1> HIDE DEF w
<1>8. CASE s.mode = "tokenizer"
  <2>1. When(s.mode = "cluster", w) = <<>> /\ When(s.mode = "tokenizer", z) = z
    BY <1>8 DEF When
  <2>2. UpTo(S, <<>> \o z, 6)
    <3>1. z \in Seq(S) /\ Len(z) <= 3
      BY <1>5 DEF UpTo
    <3>2. <<>> \o z = z /\ Len(z) \in Nat
      BY <3>1, ConcatEmptySeq
    <3>3. QED BY <3>1, <3>2 DEF UpTo
  <2>3. ClusterArgs(s) = <<>> \o z
    BY <1>6, <2>1, Zenon DEF w
  <2>4. QED BY <2>2, <2>3 DEF S
<1>9. CASE s.mode # "tokenizer"
  <2>1. When(s.mode = "tokenizer", z) = <<>>
    BY <1>9 DEF When
  <2>2. UpTo(S, When(s.mode = "cluster", w), 6)
    BY <1>7, UpToWhen DEF w
  <2>3. UpTo(S, When(s.mode = "cluster", w) \o <<>>, 6)
    BY <1>5, <2>2, UpToJoin
  <2>4. ClusterArgs(s) = When(s.mode = "cluster", w) \o <<>>
    BY <1>6, <2>1, Zenon DEF w
  <2>5. QED BY <2>3, <2>4 DEF S
<1>10. QED BY <1>8, <1>9

\* All of them together.
LEMMA UpToWider ==
    ASSUME NEW S, NEW T, S \subseteq T, NEW args, NEW n \in Nat, UpTo(S, args, n)
    PROVE  UpTo(T, args, n)
<1>1. args \in Seq(S) /\ Len(args) <= n
  BY DEF UpTo
<1>2. args \in Seq(T)
  <2>1. Len(args) \in Nat /\ (\A i \in 1..Len(args) : args[i] \in T) /\ args = [i \in 1..Len(args) |-> args[i]]
    BY <1>1
  <2>2. QED BY <2>1
<1>3. QED BY <1>1, <1>2 DEF UpTo

LEMMA OursAreArguments ==
    ASSUME NEW s, NEW k
    PROVE  /\ Ours(Flags, s, k) \subseteq Arguments(s, k)
           /\ Ours(ClusterFlags, s, k) \subseteq Arguments(s, k)
           /\ Ours(CacheFlags, s, k) \subseteq Arguments(s, k)
           /\ Cuttable(Arguments(s, k))
<1> DEFINE V == Values(s, k)
<1> DEFINE F == Flags
<1> DEFINE C == ClusterFlags
<1> DEFINE H == CacheFlags
<1> DEFINE E == FlagsOf(k.extra)
<1> DEFINE G == F \cup C \cup H \cup E
<1>1. "" \in V
  BY Zenon DEF Values
<1> HIDE DEF V, F, C, H, E
<1>2. \A D : D \subseteq G => [flag : D, value : V, by : {"us"}] \subseteq [flag : G, value : V, by : {"us", "the user", "cut"}]
  <2> HIDE DEF G
  <2>1. QED OBVIOUS
<1>3. \A x \in [flag : G, value : V, by : {"us", "the user", "cut"}] :
          [flag |-> x.flag, value |-> "", by |-> "cut"] \in [flag : G, value : V, by : {"us", "the user", "cut"}]
  <2> HIDE DEF G
  <2>1. QED BY <1>1
<1>4. F \subseteq G /\ C \subseteq G /\ H \subseteq G
  OBVIOUS
<1>5. Arguments(s, k) = [flag : G, value : V, by : {"us", "the user", "cut"}]
  BY Zenon DEF Arguments, V, F, C, H, E
<1>6. Ours(Flags, s, k) = [flag : F, value : V, by : {"us"}] /\ Ours(ClusterFlags, s, k) = [flag : C, value : V, by : {"us"}]
      /\ Ours(CacheFlags, s, k) = [flag : H, value : V, by : {"us"}]
  BY Zenon DEF Ours, V, F, C, H
<1> HIDE DEF G
<1>7. Cuttable(Arguments(s, k))
  BY <1>3, <1>5, Zenon DEF Cuttable
<1>8. QED BY <1>2, <1>4, <1>5, <1>6, <1>7, Zenon

\* What is planned fits the vector: sixty-one entries of ours at most and thirteen of a
\* cluster, in ArgvMax - 1.
LEMMA PlanHasRoom ==
    ASSUME NEW s, NEW k
    PROVE  /\ PosixFixed(s, k) \in Seq(Arguments(s, k)) /\ ClusterArgs(s) \in Seq(Arguments(s, k))
           /\ Entries(PosixFixed(s, k)) \in Nat
           /\ Room(s, k) \in Int /\ Entries(ClusterArgs(s)) <= Room(s, k)
<1> DEFINE T == Arguments(s, k)
<1> DEFINE P == PosixFixed(s, k)
<1> DEFINE C == ClusterArgs(s)
<1>1. UpTo(T, P, 30)
  <2>1. PICK h : UpTo(Ours(Flags, s, k), h, 27) /\ P = h \o CacheArgs(k)
    BY FixedIs
  <2>2. UpTo(T, h, 27)
    BY <2>1, OursAreArguments, UpToWider
  <2>3. UpTo(T, CacheArgs(k), 3)
    BY CacheIs, OursAreArguments, UpToWider
  <2> HIDE DEF T, P
  <2>4. QED BY <2>1, <2>2, <2>3, UpToJoin
<1>2. UpTo(T, C, 6)
  BY ClusterIs, OursAreArguments, UpToWider
<1> HIDE DEF T, P, C
<1>3. P \in Seq(T) /\ C \in Seq(T) /\ Len(P) <= 30 /\ Len(C) <= 6
  BY <1>1, <1>2 DEF UpTo
<1>4. Len(P) \in Nat /\ Len(C) \in Nat
  BY <1>3
<1>5. /\ Entries(P) \in Nat /\ Entries(P) <= 1 + 2 * Len(P)
      /\ Entries(C) \in Nat /\ Entries(C) <= 1 + 2 * Len(C)
  BY <1>3, EntriesRise
<1>6. PICK p \in Nat, c \in Nat : p = Entries(P) /\ c = Entries(C) /\ p <= 61 /\ c <= 13
  BY <1>3, <1>4, <1>5
<1>7. Room(s, k) = ArgvMax - 1 - p
  BY <1>6, Zenon DEF Room, P
<1>8. ArgvMax \in Nat /\ ArgvMax >= 75
  BY CommandAssumption
<1>9. Room(s, k) \in Int /\ c <= Room(s, k)
  BY <1>6, <1>7, <1>8
<1>10. QED BY <1>3, <1>6, <1>9 DEF P, C, T

LEMMA UserIs ==
    ASSUME NEW s, NEW k, NEW S, k.extra \in Seq(S)
    PROVE  /\ UserArgs(k) \in Seq(Arguments(s, k)) /\ FlagsOf(UserArgs(k)) = FlagsOf(k.extra)
           /\ k.extra = <<>> => UserArgs(k) = <<>>
<1> DEFINE V == Values(s, k)
<1> DEFINE E == FlagsOf(k.extra)
<1> DEFINE G == Flags \cup ClusterFlags \cup CacheFlags \cup E
<1> DEFINE T == [flag : G, value : V, by : {"us", "the user", "cut"}]
<1> DEFINE u == UserArgs(k)
<1>0. "given" \in V
  BY Zenon DEF Values
<1>1. Arguments(s, k) = T
  BY Zenon DEF Arguments
<1> HIDE DEF V
<1>2. DOMAIN k.extra = 1..Len(k.extra) /\ Len(k.extra) \in Nat
  OBVIOUS
<1>3. u = [i \in DOMAIN k.extra |-> [flag |-> k.extra[i].flag, value |-> "given", by |-> "the user"]]
  BY Zenon DEF UserArgs
<1>4. ASSUME NEW i \in DOMAIN k.extra PROVE k.extra[i].flag \in E
  BY DEF FlagsOf
<1> HIDE DEF u, G
<1>5. E \subseteq G
  BY DEF G
<1> HIDE DEF E
<1>6. ASSUME NEW i \in DOMAIN k.extra
      PROVE  [flag |-> k.extra[i].flag, value |-> "given", by |-> "the user"] \in T
  BY <1>0, <1>4, <1>5
<1> HIDE DEF T
<1>7. u \in [1..Len(k.extra) -> T]
  BY <1>2, <1>3, <1>6
<1>8. u \in Seq(T) /\ DOMAIN u = DOMAIN k.extra
  BY <1>2, <1>7
<1>9. \A i \in DOMAIN u : u[i].flag = k.extra[i].flag
  BY <1>3, <1>8
<1>10. FlagsOf(u) = FlagsOf(k.extra)
  BY <1>8, <1>9 DEF FlagsOf
<1>11. k.extra = <<>> => u = <<>>
  BY <1>2, <1>7
<1>12. QED BY <1>1, <1>8, <1>10, <1>11 DEF u

\* Either line is what is planned, and then what is left of the user's arguments: all of
\* them where they fit.
Plan(s, k) == PosixFixed(s, k) \o ClusterArgs(s)
LEMMA PlanIs ==
    ASSUME NEW s, NEW k
    PROVE  /\ Plan(s, k) \in Seq(Arguments(s, k)) /\ WindowsPlan(s, k) = Plan(s, k)
           /\ \A i \in DOMAIN Plan(s, k) : Plan(s, k)[i].by = "us"
           /\ \E h : /\ Plan(s, k) = (h \o CacheArgs(k)) \o ClusterArgs(s)
                     /\ h \in Seq(Arguments(s, k)) /\ FlagsOf(h) \subseteq Flags
<1> DEFINE T == Arguments(s, k)
<1>1. PICK h : /\ UpTo(Ours(Flags, s, k), h, 27)
               /\ PosixFixed(s, k) = h \o CacheArgs(k)
               /\ WindowsPlan(s, k) = (h \o CacheArgs(k)) \o ClusterArgs(s)
  BY FixedIs
<1> DEFINE O == Ours(Flags \cup ClusterFlags \cup CacheFlags, s, k)
<1>2. Ours(Flags, s, k) \subseteq O /\ Ours(ClusterFlags, s, k) \subseteq O /\ Ours(CacheFlags, s, k) \subseteq O
  <2> DEFINE V == Values(s, k)
  <2> HIDE DEF V
  <2>1. \A D, G : D \subseteq G => [flag : D, value : V, by : {"us"}] \subseteq [flag : G, value : V, by : {"us"}]
    OBVIOUS
  <2>2. \A D, G : D \subseteq G => Ours(D, s, k) \subseteq Ours(G, s, k)
    BY <2>1, Zenon DEF Ours, V
  <2>3. /\ Flags \subseteq Flags \cup ClusterFlags \cup CacheFlags
        /\ ClusterFlags \subseteq Flags \cup ClusterFlags \cup CacheFlags
        /\ CacheFlags \subseteq Flags \cup ClusterFlags \cup CacheFlags
    OBVIOUS
  <2>4. QED BY <2>2, <2>3, Zenon
<1>3. \A a \in O : a.by = "us"
  <2> DEFINE V == Values(s, k)
  <2> DEFINE G == Flags \cup ClusterFlags \cup CacheFlags
  <2> HIDE DEF V, G
  <2>1. \A a \in [flag : G, value : V, by : {"us"}] : a.by = "us"
    OBVIOUS
  <2>2. QED BY <2>1, Zenon DEF Ours, V, G
<1>4. O \subseteq T
  <2> DEFINE V == Values(s, k)
  <2> DEFINE D == Flags \cup ClusterFlags \cup CacheFlags
  <2> DEFINE G == Flags \cup ClusterFlags \cup CacheFlags \cup FlagsOf(k.extra)
  <2>1. D \subseteq G
    OBVIOUS
  <2> HIDE DEF V, D, G
  <2>2. [flag : D, value : V, by : {"us"}] \subseteq [flag : G, value : V, by : {"us", "the user", "cut"}]
    BY <2>1
  <2>3. QED BY <2>2, Zenon DEF Ours, Arguments, V, D, G
<1> HIDE DEF O, T
<1>5. UpTo(O, h, 27) /\ UpTo(O, CacheArgs(k), 3) /\ UpTo(O, ClusterArgs(s), 6)
  BY <1>1, <1>2, CacheIs, ClusterIs, UpToWider
<1>6. UpTo(O, h \o CacheArgs(k), 30)
  BY <1>5, UpToJoin
<1>7. UpTo(O, (h \o CacheArgs(k)) \o ClusterArgs(s), 36)
  BY <1>5, <1>6, UpToJoin
<1>8. Plan(s, k) = (h \o CacheArgs(k)) \o ClusterArgs(s)
  BY <1>1, Zenon DEF Plan
<1>9. Plan(s, k) \in Seq(O)
  BY <1>7, <1>8 DEF UpTo
<1>10. \A i \in DOMAIN Plan(s, k) : Plan(s, k)[i] \in O
  BY <1>9
<1>11. UpTo(T, (h \o CacheArgs(k)) \o ClusterArgs(s), 36) /\ UpTo(T, h, 27)
  BY <1>4, <1>5, <1>7, UpToWider
<1>12. Plan(s, k) \in Seq(T) /\ h \in Seq(T)
  BY <1>8, <1>11 DEF UpTo
<1>13. FlagsOf(h) \subseteq Flags
  <2> DEFINE V == Values(s, k)
  <2> HIDE DEF V
  <2>1. \A a \in [flag : Flags, value : V, by : {"us"}] : a.flag \in Flags
    OBVIOUS
  <2>2. \A a \in Ours(Flags, s, k) : a.flag \in Flags
    BY <2>1, Zenon DEF Ours, V
  <2>3. \A i \in DOMAIN h : h[i] \in Ours(Flags, s, k)
    BY <1>1 DEF UpTo
  <2>4. QED BY <2>2, <2>3 DEF FlagsOf
<1>14. WindowsPlan(s, k) = Plan(s, k)
  BY <1>1, <1>8
<1>15. \A i \in DOMAIN Plan(s, k) : Plan(s, k)[i].by = "us"
  BY <1>3, <1>10
<1>16. QED BY <1>8, <1>12, <1>13, <1>14, <1>15, Zenon DEF T

LEMMA LineIs ==
    ASSUME NEW s, NEW k, NEW S, k.extra \in Seq(S), NEW args \in {WindowsLine(s, k), PosixLine(s, k)}
    PROVE  \E v \in Seq(Arguments(s, k)) :
              /\ args = Plan(s, k) \o v
              /\ FlagsOf(v) \subseteq FlagsOf(k.extra)
              /\ k.extra = <<>> => v = <<>>
              /\ args = PosixLine(s, k) /\ Entries(WindowsLine(s, k)) <= ArgvMax - 2 => v = UserArgs(k)
<1> DEFINE T == Arguments(s, k)
<1> DEFINE u == UserArgs(k)
<1> DEFINE P == PosixFixed(s, k)
<1> DEFINE C == ClusterArgs(s)
<1>1. u \in Seq(T) /\ FlagsOf(u) = FlagsOf(k.extra) /\ (k.extra = <<>> => u = <<>>)
  BY UserIs
<1>2. WindowsLine(s, k) = Plan(s, k) \o u
  BY PlanIs DEF WindowsLine
<1>3. CASE args = WindowsLine(s, k) /\ args # PosixLine(s, k)
  BY <1>1, <1>2, <1>3
<1>4. CASE args = PosixLine(s, k)
  <2>1. /\ P \in Seq(T) /\ C \in Seq(T) /\ Entries(P) \in Nat
        /\ Room(s, k) \in Int /\ Entries(C) <= Room(s, k)
    BY PlanHasRoom
  <2>2. Cuttable(T)
    BY OursAreArguments
  <2> HIDE DEF T, u, P, C
  <2>3. PICK v \in Seq(T) : /\ Cut(C \o u, Room(s, k)) = C \o v
                            /\ FlagsOf(v) \subseteq FlagsOf(u)
                            /\ Entries(C \o u) <= Room(s, k) => v = u
    BY <1>1, <2>1, <2>2, CutKeeps
  <2>4. PosixLine(s, k) = P \o (C \o v)
    BY <2>3, Zenon DEF PosixLine, P, C, u
  <2>5. P \o (C \o v) = (P \o C) \o v /\ P \o (C \o u) = (P \o C) \o u
    <3>1. P \in Seq(T) /\ C \in Seq(T) /\ v \in Seq(T) /\ u \in Seq(T)
      BY <1>1, <2>1
    <3>2. P \o (C \o v) = (P \o C) \o v
      BY <3>1, ConcatAssociative
    <3>3. P \o (C \o u) = (P \o C) \o u
      BY <3>1, ConcatAssociative
    <3>4. QED BY <3>2, <3>3
  <2>6. args = Plan(s, k) \o v
    BY <1>4, <2>4, <2>5, Zenon DEF Plan, P, C
  <2>7. ASSUME k.extra = <<>> PROVE v = <<>>
    <3>1. u = <<>>
      BY <1>1, <2>7
    <3>2. C \o u = C
      BY <2>1, <3>1, ConcatEmptySeq
    <3>3. QED BY <2>1, <2>3, <3>1, <3>2
  <2>8. ASSUME Entries(WindowsLine(s, k)) <= ArgvMax - 2 PROVE v = u
    <3>1. C \o u \in Seq(T)
      BY <1>1, <2>1
    <3>2. Entries(P \o (C \o u)) = Entries(P) + Entries(C \o u) - 1
      BY <2>1, <3>1, EntriesJoin
    <3>3. WindowsLine(s, k) = P \o (C \o u)
      BY <1>2, <2>5, Zenon DEF Plan, P, C
    <3>4. Entries(C \o u) \in Nat /\ ArgvMax \in Nat
      BY <3>1, EntriesRise, CommandAssumption
    <3>5. PICK a \in Nat, b \in Nat : a = Entries(P) /\ b = Entries(C \o u) /\ a + b - 1 <= ArgvMax - 2
      BY <2>1, <2>8, <3>2, <3>3, <3>4
    <3>6. Room(s, k) = ArgvMax - 1 - a
      BY <3>5, Zenon DEF Room, P
    <3>7. b <= Room(s, k)
      BY <3>4, <3>5, <3>6
    <3>8. QED BY <2>3, <3>5, <3>7
  <2>9. QED BY <1>1, <2>3, <2>6, <2>7, <2>8 DEF T, u
<1>5. QED BY <1>3, <1>4

\* What start() lets through: no flag of the user's that places tensors, none that was
\* measured where drafts are made, none at all for a machine that lends.
LEMMA KeptIs ==
    ASSUME NEW s \in Settings, ~Refuses(s)
    PROVE  /\ Kept(s).extra \in Seq([flag : STRING, spelled : STRING])
           /\ s.shared => Kept(s).extra = <<>>
           /\ FlagsOf(Kept(s).extra) \cap (Placement \cup DraftArgs) = {}
           /\ Drafts(Kept(s).spec) => FlagsOf(Kept(s).extra) \cap Profile = {}
           /\ Kept(s).ctk = kv_types(s).ctk /\ Kept(s).ctv = kv_types(s).ctv
<1>1. /\ Kept(s).extra = (IF s.shared THEN <<>> ELSE s.extra) /\ Kept(s).spec = spec_type(s)
      /\ Kept(s).ctk = kv_types(s).ctk /\ Kept(s).ctv = kv_types(s).ctv
  BY Zenon DEF Kept
<1> DEFINE S == [flag : STRING, spelled : STRING]
<1>2. s.extra \in Seq(S)
  BY CommandAssumption
<1> HIDE DEF S
<1>3. s.shared \/ ~budget_flag(s.extra, Drafts(spec_type(s)))
  BY Zenon DEF Refuses
<1>4. CASE s.shared
  <2>1. Kept(s).extra = <<>>
    BY <1>1, <1>4
  <2>2. FlagsOf(<<>>) = {} /\ <<>> \in Seq(S)
    BY DEF FlagsOf
  <2>3. QED BY <1>1, <1>4, <2>1, <2>2 DEF S
<1>5. CASE ~s.shared
  <2>1. Kept(s).extra = s.extra
    BY <1>1, <1>5
  <2>2. \A i \in DOMAIN s.extra : ~Forbidden(s.extra[i], Drafts(spec_type(s)))
    BY <1>3, <1>5, Zenon DEF budget_flag
  <2> DEFINE M == Placement \cup DraftArgs
  <2>3. \A i \in DOMAIN s.extra :
            /\ s.extra[i].flag \notin M
            /\ Drafts(spec_type(s)) => s.extra[i].flag \notin Profile
    BY <2>2, Zenon DEF Forbidden
  <2> HIDE DEF M
  <2>4. FlagsOf(s.extra) \cap M = {}
    BY <2>3 DEF FlagsOf
  <2>5. Drafts(spec_type(s)) => FlagsOf(s.extra) \cap Profile = {}
    BY <2>3 DEF FlagsOf
  <2>6. QED BY <1>1, <1>2, <1>5, <2>1, <2>4, <2>5, Zenon DEF S, M
<1>6. QED BY <1>4, <1>5

\* What counts of a flag the user does not say, then, is what is planned.
LEMMA PlannedCounts ==
    ASSUME NEW s, NEW k, NEW S, k.extra \in Seq(S), NEW args \in {WindowsLine(s, k), PosixLine(s, k)},
           NEW f, f \notin FlagsOf(k.extra)
    PROVE  Effective(args, f) = Effective(Plan(s, k), f)
<1> DEFINE T == Arguments(s, k)
<1>1. PICK v \in Seq(T) : args = Plan(s, k) \o v /\ FlagsOf(v) \subseteq FlagsOf(k.extra)
  BY LineIs
<1>2. Plan(s, k) \in Seq(T)
  BY PlanIs
<1> DEFINE q == Plan(s, k)
<1> HIDE DEF T, q
<1>3. Effective(q \o v, f) = IF f \in FlagsOf(v) THEN Effective(v, f) ELSE Effective(q, f)
  BY <1>1, <1>2, EffectiveJoin DEF q
<1>4. QED BY <1>1, <1>3 DEF q

\* The cache of the engine is of the kinds that were kept.
LEMMA CacheCounts ==
    ASSUME NEW s, NEW k
    PROVE  /\ Effective(Plan(s, k), "-ctk") = IF k.ctk # "" \/ k.ctv # "" THEN Ctk(k) ELSE "absent"
           /\ Effective(Plan(s, k), "-ctv") = IF k.ctk # "" \/ k.ctv # "" THEN Ctv(k) ELSE "absent"
<1> DEFINE T == Arguments(s, k)
<1>1. PICK h \in Seq(T) : Plan(s, k) = (h \o CacheArgs(k)) \o ClusterArgs(s) /\ FlagsOf(h) \subseteq Flags
  BY PlanIs
<1>2. UpTo(T, CacheArgs(k), 3) /\ UpTo(T, ClusterArgs(s), 6)
  BY CacheIs, ClusterIs, OursAreArguments, UpToWider
<1>3. FlagsOf(ClusterArgs(s)) \subseteq ClusterFlags
  <2> DEFINE V == Values(s, k)
  <2> HIDE DEF V
  <2>1. \A a \in [flag : ClusterFlags, value : V, by : {"us"}] : a.flag \in ClusterFlags
    OBVIOUS
  <2>2. \A a \in Ours(ClusterFlags, s, k) : a.flag \in ClusterFlags
    BY <2>1, Zenon DEF Ours, V
  <2>3. \A i \in DOMAIN ClusterArgs(s) : ClusterArgs(s)[i] \in Ours(ClusterFlags, s, k)
    BY ClusterIs DEF UpTo
  <2>4. QED BY <2>2, <2>3 DEF FlagsOf
<1>4. {"-ctk", "-ctv"} \cap (Flags \cup ClusterFlags) = {}
  BY DEF Flags, ClusterFlags
<1> HIDE DEF T
<1> DEFINE H == CacheArgs(k)
<1> DEFINE C == ClusterArgs(s)
<1> HIDE DEF H, C
<1>5. H \in Seq(T) /\ C \in Seq(T) /\ h \o H \in Seq(T)
  <2>1. H \in Seq(T) /\ C \in Seq(T)
    BY <1>2 DEF UpTo, H, C
  <2>2. QED BY <1>1, <2>1
<1>6. ASSUME NEW f \in {"-ctk", "-ctv"}
      PROVE  Effective(Plan(s, k), f) = IF f \in FlagsOf(H) THEN Effective(H, f) ELSE "absent"
  <2>1. f \notin FlagsOf(C) /\ f \notin FlagsOf(h)
    BY <1>1, <1>3, <1>4 DEF C
  <2>2. Effective((h \o H) \o C, f) = IF f \in FlagsOf(C) THEN Effective(C, f) ELSE Effective(h \o H, f)
    BY <1>5, EffectiveJoin
  <2>3. Effective(h \o H, f) = IF f \in FlagsOf(H) THEN Effective(H, f) ELSE Effective(h, f)
    BY <1>5, EffectiveJoin
  <2>4. Effective(h, f) = "absent"
    BY <2>1, EffectiveIs
  <2>5. Plan(s, k) = (h \o H) \o C
    BY <1>1, Zenon DEF H, C
  <2>6. Effective(Plan(s, k), f) = Effective(h \o H, f)
    BY <2>1, <2>2, <2>5
  <2>7. QED BY <2>3, <2>4, <2>6
<1>7. CASE k.ctk # "" \/ k.ctv # ""
  <2>1. H = <<A("-ctk", Ctk(k)), A("-ctv", Ctv(k)), A("-fa", "on")>>
    BY <1>7, Zenon DEF H, CacheArgs, When
  <2>2. /\ DOMAIN H = {1, 2, 3}
        /\ H[1].flag = "-ctk" /\ H[2].flag = "-ctv" /\ H[3].flag = "-fa"
        /\ H[1].value = Ctk(k) /\ H[2].value = Ctv(k)
    BY <2>1 DEF A
  <2>3. "-ctk" \in FlagsOf(H) /\ "-ctv" \in FlagsOf(H)
    BY <2>2 DEF FlagsOf
  <2>4. Effective(H, "-ctk") = H[1].value
    <3>1. PICK i \in DOMAIN H : i = 1
      BY <2>2
    <3>2. H[i].flag = "-ctk" /\ \A j \in DOMAIN H : H[j].flag = "-ctk" => j <= i
      BY <2>2, <3>1
    <3>3. H \in Seq(T)
      BY <1>5
    <3>4. Effective(H, "-ctk") = H[i].value
      BY <3>2, <3>3, EffectiveIs
    <3>5. QED BY <3>1, <3>4
  <2>5. Effective(H, "-ctv") = H[2].value
    BY <1>5, <2>2, EffectiveIs
  <2>6. Effective(Plan(s, k), "-ctk") = Ctk(k) /\ Effective(Plan(s, k), "-ctv") = Ctv(k)
    BY <1>6, <2>2, <2>3, <2>4, <2>5, Zenon
  <2>7. QED BY <1>7, <2>6, Zenon
<1>8. CASE ~(k.ctk # "" \/ k.ctv # "")
  <2>1. H = <<>>
    BY <1>8, Zenon DEF H, CacheArgs, When
  <2>2. FlagsOf(H) = {}
    BY <2>1 DEF FlagsOf
  <2>3. Effective(Plan(s, k), "-ctk") = "absent" /\ Effective(Plan(s, k), "-ctv") = "absent"
    BY <1>6, <2>2, Zenon
  <2>4. QED BY <1>8, <2>3, Zenon
<1>9. QED BY <1>7, <1>8, Zenon

\* What is charged for a token is what its two halves take, said or not.
LEMMA CacheCharged ==
    ASSUME NEW s, NEW k, k.ctk = kv_types(s).ctk, k.ctv = kv_types(s).ctv,
           NEW keys, NEW values,
           keys = (IF k.ctk # "" \/ k.ctv # "" THEN Ctk(k) ELSE "absent"),
           values = (IF k.ctk # "" \/ k.ctv # "" THEN Ctv(k) ELSE "absent")
    PROVE  Block(IF keys = "absent" THEN "f16" ELSE keys) + Block(IF values = "absent" THEN "f16" ELSE values)
           = kv_scale(kv_types(s))
<1>1. /\ Block("q8_0") = 34 /\ \A t : t # "q8_0" => Block(t) = 64
  BY DEF Block
<1> DEFINE said(t) == IF t = "absent" THEN "f16" ELSE t
<1>2. ASSUME NEW t PROVE Block(said(t)) = Block(t)
  <2>1. CASE t = "absent"
    <3>1. said(t) = "f16" /\ t # "q8_0" /\ said(t) # "q8_0"
      BY <2>1
    <3>2. Block(said(t)) = 64 /\ Block(t) = 64
      <4> HIDE DEF said
      <4>1. QED BY <1>1, <3>1
    <3>3. QED BY <3>2
  <2>2. CASE t # "absent"
    <3>1. said(t) = t
      BY <2>2, Zenon
    <3>2. QED BY <3>1, Zenon
  <2>3. QED BY <2>1, <2>2
<1>3. Block(keys) = Block(k.ctk)
  <2>1. CASE k.ctk # ""
    <3>1. keys = k.ctk
      BY <2>1, Zenon DEF Ctk
    <3>2. QED BY <3>1
  <2>2. CASE k.ctk = ""
    <3>1. keys = "f16" \/ keys = "absent"
      BY <2>2, Zenon DEF Ctk
    <3>2. keys # "q8_0" /\ k.ctk # "q8_0"
      BY <2>2, <3>1
    <3>3. QED BY <1>1, <3>2
  <2>3. QED BY <2>1, <2>2
<1>4. Block(values) = Block(IF k.ctv # "" THEN k.ctv ELSE k.ctk)
  <2>1. CASE k.ctv # ""
    <3>1. values = k.ctv /\ (IF k.ctv # "" THEN k.ctv ELSE k.ctk) = k.ctv
      BY <2>1, Zenon DEF Ctv
    <3>2. QED BY <3>1, Zenon
  <2>2. CASE k.ctv = ""
    <3>1. values = keys /\ (IF k.ctv # "" THEN k.ctv ELSE k.ctk) = k.ctk
      BY <2>2, Zenon DEF Ctv
    <3>2. QED BY <1>3, <3>1, Zenon
  <2>3. QED BY <2>1, <2>2
<1>5. kv_scale(kv_types(s)) = Block(k.ctk) + Block(IF k.ctv # "" THEN k.ctv ELSE k.ctk)
  BY Zenon DEF kv_scale
<1>6. Block(said(keys)) = Block(k.ctk)
  BY <1>2, <1>3, Zenon
<1>7. Block(said(values)) = Block(IF k.ctv # "" THEN k.ctv ELSE k.ctk)
  BY <1>2, <1>4, Zenon
<1>8. QED BY <1>5, <1>6, <1>7, Zenon

LEMMA Unchanged ==
    ASSUME NEW n, NEW a, NEW b, NEW c, n = [prefix |-> a, rest |-> b, capitals |-> c]
    PROVE  [n EXCEPT !.capitals = c] = n
OBVIOUS

\* The child's environment: the filter leaves of the engine's names what is ours.
LEMMA EnvironmentIs ==
    ASSUME NEW s
    PROVE  /\ \A e \in ChildEnv(s) : e.name.prefix \in {"LLAMA_", "GGML_", "HF_"} =>
                 [e.name EXCEPT !.capitals = TRUE] \in Owned
           /\ s.mode = "cluster" => Name("GGML_", "RPC_PSK") \in {e.name : e \in ChildEnv(s)}
           /\ s.vision => \A e \in ChildEnv(s) : e.name = TowerDevice => e.value = s.device
<1> DEFINE Left == {n \in Inherited(s) : env_keep(n) /\ ~(n = TowerDevice /\ s.vision)}
<1> DEFINE inherited == {[name |-> n, value |-> "inherited"] : n \in Left}
<1> DEFINE tower == [name |-> TowerDevice, value |-> s.device]
<1>1. ChildEnv(s) = inherited \cup (IF s.vision THEN {tower} ELSE {})
  BY Zenon DEF ChildEnv
<1>2. \A e \in ChildEnv(s) : (e \in inherited) \/ (s.vision /\ e = tower)
  BY <1>1, Zenon
<1>3. TowerDevice.prefix = "" /\ tower.name = TowerDevice /\ tower.value = s.device
  BY DEF TowerDevice, Name
<1>4. ASSUME NEW e \in inherited
      PROVE  e.name \in Inherited(s) /\ env_keep(e.name) /\ ~(e.name = TowerDevice /\ s.vision)
  <2>1. PICK n \in Left : e = [name |-> n, value |-> "inherited"]
    OBVIOUS
  <2>2. e.name = n
    <3> HIDE DEF Left
    <3>1. QED BY <2>1
  <2>3. QED BY <2>1, <2>2, Zenon
<1> HIDE DEF inherited, tower
<1>5. ASSUME NEW e \in ChildEnv(s), e.name.prefix \in {"LLAMA_", "GGML_", "HF_"}
      PROVE  [e.name EXCEPT !.capitals = TRUE] \in Owned
  <2>1. CASE e \in inherited
    <3>1. env_keep(e.name)
      BY <1>4, <2>1
    <3>2. QED BY <1>5, <3>1, Zenon DEF env_keep
  <2>2. CASE e = tower
    <3>1. e.name.prefix = ""
      BY <1>3, <2>2
    <3>2. QED BY <1>5, <3>1
  <2>3. QED BY <1>2, <2>1, <2>2
<1>6. ASSUME s.mode = "cluster" PROVE Name("GGML_", "RPC_PSK") \in {e.name : e \in ChildEnv(s)}
  <2> DEFINE n == Name("GGML_", "RPC_PSK")
  <2>1. n \in Inherited(s)
    BY <1>6, Zenon DEF Inherited
  <2>2. [n EXCEPT !.capitals = TRUE] = n /\ n \in Owned /\ n # TowerDevice
    <3>1. n = [prefix |-> "GGML_", rest |-> "RPC_PSK", capitals |-> TRUE]
      BY Zenon DEF Name
    <3> HIDE DEF n
    <3>2. TowerDevice.prefix = "" /\ n.prefix = "GGML_"
      BY <3>1, <1>3
    <3>3. n \in Owned
      BY DEF Owned, n
    <3>4. [n EXCEPT !.capitals = TRUE] = n
      BY <3>1, Unchanged
    <3>5. n # TowerDevice
      BY <3>2
    <3>6. QED BY <3>3, <3>4, <3>5
  <2>3. env_keep(n)
    BY <2>2, Zenon DEF env_keep
  <2> HIDE DEF n
  <2>4. n \in Left
    BY <2>1, <2>2, <2>3
  <2> DEFINE e == [name |-> n, value |-> "inherited"]
  <2>5. e \in inherited /\ e.name = n
    BY <2>4 DEF inherited
  <2> HIDE DEF e
  <2>6. e \in ChildEnv(s)
    BY <1>1, <2>5, Zenon
  <2>7. QED BY <2>5, <2>6 DEF n
<1>7. ASSUME s.vision, NEW e \in ChildEnv(s), e.name = TowerDevice PROVE e.value = s.device
  BY <1>2, <1>3, <1>4, <1>7
<1>8. QED BY <1>5, <1>6, <1>7

\* CommandIsPlan is not inductive: what start() settled must be what this setting gives, and
\* the line one of the two that are made of it.
LineIsMade ==
    \/ line = NoLine
    \/ line.args \in {WindowsLine(setting, lc), PosixLine(setting, lc)} /\ line.env = ChildEnv(setting)
CommandInv ==
    /\ setting \in Settings
    /\ outcome = "kept" => ~Refuses(setting) /\ lc = Kept(setting) /\ LineIsMade

LEMMA SpawnMakes ==
    ASSUME NEW s, NEW k, NEW r \in spawn(s, k), r.ok
    PROVE  \/ r.line = NoLine
           \/ r.line.args \in {WindowsLine(s, k), PosixLine(s, k)} /\ r.line.env = ChildEnv(s)
<1> DEFINE W == WindowsLine(s, k)
<1> DEFINE P == PosixLine(s, k)
<1> DEFINE E == ChildEnv(s)
<1>1. r \in SpawnWindows(s, k) \/ r \in SpawnPosix(s, k)
  BY Zenon DEF spawn
<1>2. r # Failed
  BY DEF Failed
<1>3. SpawnWindows(s, k) \subseteq {Failed, [ok |-> TRUE, line |-> [args |-> W, env |-> E, log |-> "own"]]}
  BY Zenon DEF SpawnWindows
<1>4. SpawnPosix(s, k) =
        {Failed, [ok |-> TRUE, line |-> NoLine]} \cup
        {[ok |-> TRUE, line |-> [args |-> P, env |-> E, log |-> l]] : l \in {"own", "stderr"}}
  BY Zenon DEF SpawnPosix
<1> HIDE DEF W, P, E
<1>5. CASE r \in SpawnWindows(s, k)
  <2>1. r = [ok |-> TRUE, line |-> [args |-> W, env |-> E, log |-> "own"]]
    BY <1>2, <1>3, <1>5
  <2>2. r.line.args = W /\ r.line.env = E
    BY <2>1
  <2>3. QED BY <2>2, Zenon DEF W, E
<1>6. CASE r \in SpawnPosix(s, k)
  <2>1. r = [ok |-> TRUE, line |-> NoLine]
        \/ \E l \in {"own", "stderr"} : r = [ok |-> TRUE, line |-> [args |-> P, env |-> E, log |-> l]]
    BY <1>2, <1>4, <1>6
  <2>2. r.line = NoLine \/ (r.line.args = P /\ r.line.env = E)
    BY <2>1
  <2>3. QED BY <2>2, Zenon DEF P, E
<1>7. QED BY <1>1, <1>5, <1>6

LEMMA CommandInitially == CommandInit => CommandInv
BY DEF CommandInit, CommandInv

LEMMA CommandInductive == CommandInv /\ [CommandNext]_commandVars => CommandInv'
<1> SUFFICES ASSUME CommandInv, [CommandNext]_commandVars PROVE CommandInv'
  OBVIOUS
<1>1. CASE Start
  <2>1. setting' = setting
    BY <1>1 DEF Start
  <2>2. CASE outcome' = "kept"
    <3>0. ~Refuses(setting)
      BY <1>1, <2>2 DEF Start
    <3>1. PICK r \in spawn(setting, Kept(setting)) : r.ok /\ lc' = Kept(setting) /\ line' = r.line
      BY <1>1, <2>2, <3>0 DEF Start
    <3>2. PICK s, k : s = setting /\ k = Kept(setting)
      OBVIOUS
    <3>3. \/ line' = NoLine
          \/ line'.args \in {WindowsLine(s, k), PosixLine(s, k)} /\ line'.env = ChildEnv(s)
      BY <3>1, <3>2, SpawnMakes
    <3>4. LineIsMade'
      BY <2>1, <3>1, <3>2, <3>3 DEF LineIsMade
    <3>5. (~Refuses(setting))'
      BY <2>1, <3>0, Zenon
    <3>6. QED BY <2>1, <3>1, <3>4, <3>5, Zenon DEF CommandInv
  <2>3. CASE outcome' # "kept"
    BY <2>1, <2>3 DEF CommandInv
  <2>4. QED BY <2>2, <2>3
<1>2. CASE Respawn
  <2>1. setting' = setting /\ lc' = lc /\ outcome = "kept"
    BY <1>2 DEF Respawn
  <2>2. CASE outcome' = "kept"
    <3>1. PICK r \in spawn(setting, lc) : r.ok /\ line' = r.line
      BY <1>2, <2>2 DEF Respawn
    <3>2. PICK s, k : s = setting /\ k = lc
      OBVIOUS
    <3>3. \/ line' = NoLine
          \/ line'.args \in {WindowsLine(s, k), PosixLine(s, k)} /\ line'.env = ChildEnv(s)
      BY <3>1, <3>2, SpawnMakes
    <3>4. LineIsMade'
      BY <2>1, <3>2, <3>3 DEF LineIsMade
    <3>5. ~Refuses(setting) /\ lc = Kept(setting) /\ setting \in Settings
      BY <2>1 DEF CommandInv
    <3>6. QED BY <2>1, <3>4, <3>5, Zenon DEF CommandInv
  <2>3. CASE outcome' # "kept"
    BY <2>1, <2>3 DEF CommandInv
  <2>4. QED BY <2>2, <2>3
<1>3. CASE UNCHANGED commandVars
  BY <1>3, Zenon DEF commandVars, CommandInv, LineIsMade
<1>4. QED BY <1>1, <1>2, <1>3 DEF CommandNext

LEMMA KeptLineIsPlan == CommandInv => CommandIsPlan
<1> SUFFICES ASSUME CommandInv PROVE CommandIsPlan
  OBVIOUS
<1>1. CASE outcome # "kept"
  BY <1>1, Zenon DEF CommandIsPlan, PlanPrevails, PathsAgree, EnvironmentIsOurs, CacheIsCharged, Runs
<1>2. CASE outcome = "kept"
  <2>1. PICK s \in Settings : s = setting
    BY DEF CommandInv
  <2>2. PICK k : k = lc
    OBVIOUS
  <2>3. ~Refuses(s) /\ k = Kept(s) /\ LineIsMade
    BY <1>2, <2>1, <2>2, Zenon DEF CommandInv
  <2> DEFINE S == [flag : STRING, spelled : STRING]
  <2> DEFINE T == Arguments(s, k)
  <2>4. /\ k.extra \in Seq(S)
        /\ s.shared => k.extra = <<>>
        /\ FlagsOf(k.extra) \cap (Placement \cup DraftArgs) = {}
        /\ Drafts(k.spec) => FlagsOf(k.extra) \cap Profile = {}
        /\ k.ctk = kv_types(s).ctk /\ k.ctv = kv_types(s).ctv
    BY <2>3, KeptIs, Zenon
  <2> HIDE DEF S
  <2>5. /\ WindowsPlan(s, k) = Plan(s, k) /\ Plan(s, k) \in Seq(T)
        /\ \A i \in DOMAIN Plan(s, k) : Plan(s, k)[i].by = "us"
    BY PlanIs
  <2>6. \A f : Planned(f) = Effective(Plan(s, k), f)
    BY <2>1, <2>2, Zenon DEF Planned, Plan
  <2>7. Runs => /\ line.args \in {WindowsLine(s, k), PosixLine(s, k)}
                /\ line.env = ChildEnv(s)
    BY <2>1, <2>2, <2>3, Zenon DEF Runs, LineIsMade
  <2>8. PlanPrevails
    <3> SUFFICES ASSUME Runs
                 PROVE  /\ \A f \in Placement \cup DraftArgs : Effective(line.args, f) = Planned(f)
                        /\ Drafts(lc.spec) => \A f \in Profile : Effective(line.args, f) = Planned(f)
                        /\ setting.shared => \A i \in DOMAIN line.args : line.args[i].by = "us"
      BY Zenon DEF PlanPrevails
    <3> PICK args : args = line.args
      OBVIOUS
    <3>1. args \in {WindowsLine(s, k), PosixLine(s, k)}
      BY <2>7
    <3>2. \A f : f \notin FlagsOf(k.extra) => Effective(args, f) = Effective(Plan(s, k), f)
      BY <2>4, <3>1, PlannedCounts
    <3>3. \A f \in Placement \cup DraftArgs : f \notin FlagsOf(k.extra)
      <4> DEFINE M == Placement \cup DraftArgs
      <4> HIDE DEF M
      <4>1. FlagsOf(k.extra) \cap M = {}
        BY <2>4, Zenon DEF M
      <4>2. \A f \in M : f \notin FlagsOf(k.extra)
        BY <4>1
      <4>3. QED BY <4>2, Zenon DEF M
    <3>4. Drafts(k.spec) => \A f \in Profile : f \notin FlagsOf(k.extra)
      BY <2>4
    <3>5. ASSUME s.shared PROVE \A i \in DOMAIN args : args[i].by = "us"
      <4>1. PICK v \in Seq(T) : args = Plan(s, k) \o v /\ (k.extra = <<>> => v = <<>>)
        BY <2>4, <3>1, LineIs
      <4>2. v = <<>>
        BY <2>4, <3>5, <4>1
      <4>3. args = Plan(s, k)
        BY <2>5, <4>1, <4>2, ConcatEmptySeq
      <4>4. QED BY <2>5, <4>3
    <3>6. QED BY <2>1, <2>2, <2>6, <3>2, <3>3, <3>4, <3>5, Zenon
  <2>9. PathsAgree
    <3> DEFINE p == PosixLine(s, k)
    <3>1. p \in {WindowsLine(s, k), PosixLine(s, k)}
      OBVIOUS
    <3>2. PICK v \in Seq(T) : /\ p = Plan(s, k) \o v
                              /\ p = PosixLine(s, k) /\ Entries(WindowsLine(s, k)) <= ArgvMax - 2 => v = UserArgs(k)
      BY <2>4, <3>1, LineIs
    <3> DEFINE q == Plan(s, k)
    <3>3. q \in Seq(T) /\ p = q \o v
      BY <2>5, <3>2
    <3>4. IsPrefix(q, p)
      <4> HIDE DEF p, q
      <4>1. /\ p \in Seq(T) /\ Len(p) = Len(q) + Len(v) /\ Len(q) \in Nat /\ Len(v) \in Nat
            /\ \A i \in 1..Len(q) : p[i] = q[i]
        BY <3>3
      <4>2. Len(q) <= Len(p)
        BY <4>1
      <4> DEFINE l == SubSeq(q, 1, Len(q))
      <4> DEFINE r == SubSeq(p, 1, Len(q))
      <4>3. l \in Seq(T) /\ Len(l) = Len(q) /\ \A i \in 1..Len(q) : l[i] = q[i]
        BY <3>3, <4>1, SubSeqFull
      <4>4. r \in Seq(T) /\ Len(r) = Len(q) /\ \A i \in 1..Len(q) : r[i] = p[i]
        BY <4>1, <4>2
      <4> HIDE DEF l, r
      <4>5. l = r
        BY <4>1, <4>3, <4>4, SeqEqual
      <4>6. QED BY <4>2, <4>5 DEF IsPrefix, l, r
    <3>5. Entries(WindowsLine(s, k)) <= ArgvMax - 2 => WindowsLine(s, k) = PosixLine(s, k)
      <4>1. WindowsLine(s, k) = Plan(s, k) \o UserArgs(k)
        BY <2>5, Zenon DEF WindowsLine
      <4>2. QED BY <3>2, <4>1, Zenon
    <3>6. QED BY <2>1, <2>2, <2>5, <3>4, <3>5, Zenon DEF PathsAgree
  <2>10. EnvironmentIsOurs
    <3>1. ASSUME Runs
          PROVE  /\ \A e \in line.env : e.name.prefix \in {"LLAMA_", "GGML_", "HF_"} =>
                     [e.name EXCEPT !.capitals = TRUE] \in Owned
                 /\ setting.mode = "cluster" => Name("GGML_", "RPC_PSK") \in {e.name : e \in line.env}
                 /\ setting.vision => \A e \in line.env : e.name = TowerDevice => e.value = setting.device
      <4>1. line.env = ChildEnv(s)
        BY <2>7, <3>1
      <4>2. QED BY <2>1, <4>1, EnvironmentIs, Zenon
    <3>2. QED BY <3>1, Zenon DEF EnvironmentIsOurs
  <2>11. CacheIsCharged
    <3> DEFINE said(flag) == IF Effective(line.args, flag) = "absent" THEN "f16" ELSE Effective(line.args, flag)
    <3>1. ASSUME Runs, \A i \in DOMAIN lc.extra : lc.extra[i].flag \notin {"-ctk", "-ctv"}
          PROVE  Block(said("-ctk")) + Block(said("-ctv")) = kv_scale(kv_types(setting))
      <4>1. PICK args : args = line.args
        OBVIOUS
      <4>2. args \in {WindowsLine(s, k), PosixLine(s, k)}
        BY <2>7, <3>1, <4>1
      <4>3. "-ctk" \notin FlagsOf(k.extra) /\ "-ctv" \notin FlagsOf(k.extra)
        BY <2>2, <3>1 DEF FlagsOf
      <4>4. Effective(args, "-ctk") = Effective(Plan(s, k), "-ctk")
        BY <2>4, <4>2, <4>3, PlannedCounts
      <4>5. Effective(args, "-ctv") = Effective(Plan(s, k), "-ctv")
        BY <2>4, <4>2, <4>3, PlannedCounts
      <4>6. PICK keys, values : keys = Effective(args, "-ctk") /\ values = Effective(args, "-ctv")
        OBVIOUS
      <4>7. /\ keys = (IF k.ctk # "" \/ k.ctv # "" THEN Ctk(k) ELSE "absent")
            /\ values = (IF k.ctk # "" \/ k.ctv # "" THEN Ctv(k) ELSE "absent")
        BY <4>4, <4>5, <4>6, CacheCounts, Zenon
      <4>8. Block(IF keys = "absent" THEN "f16" ELSE keys) + Block(IF values = "absent" THEN "f16" ELSE values)
            = kv_scale(kv_types(s))
        BY <2>4, <4>7, CacheCharged, Zenon
      <4>9. QED BY <2>1, <4>1, <4>6, <4>8, Zenon
    <3>2. QED BY <3>1, Zenon DEF CacheIsCharged
  <2>12. QED BY <2>8, <2>9, <2>10, <2>11 DEF CommandIsPlan
<1>3. QED BY <1>1, <1>2

\* An engine is started with what was planned for it, on Windows as elsewhere, whatever the
\* user appends and however often it is started again (idletoken_llama_start(),
\* llama_spawn()): for any settings, any length of the vector that holds the plan, any
\* command line of Windows.
THEOREM CommandKeepsPlan == CommandSpec => []CommandIsPlan
<1>1. CommandSpec => []CommandInv
  BY CommandInitially, CommandInductive, PTL DEF CommandSpec
<1>2. QED BY <1>1, KeptLineIsPlan, PTL
=============================================================================
