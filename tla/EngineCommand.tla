---------------------------- MODULE EngineCommand ----------------------------
(***************************************************************************)
(* What the coordinator starts its engine with                             *)
(* (src/src/coord/llama_sidecar.c, idletoken_llama_start(), llama_spawn(), *)
(* idletoken_llama_budget_flag(), idletoken_llama_env_keep()): the         *)
(* requests that are refused, the command line of Windows and the argument *)
(* vector of the other systems, which must say the same, and the           *)
(* environment the child is left with.                                     *)
(*                                                                         *)
(* A user may append arguments of his own, and of two equal flags the      *)
(* engine takes the last; what decides where tensors live, or was          *)
(* measured, is not for him to say.  A flag has one name here whatever its *)
(* aliases; an argument of the user's is a flag and the way it is spelled. *)
(* An argument is shorter than the buffer it is copied to.  The offset the *)
(* log is read from and the process itself are Sidecar's.                  *)
(***************************************************************************)
EXTENDS Integers, Sequences, FiniteSets, SequencesExt

CONSTANTS Settings,     \* what the coordinator may ask for, with the environment it runs in
          ArgvMax,      \* LLAMA_ARGV_MAX (80)
          CommandMax    \* arguments a Windows command line has room for (16384 bytes)

\* The flags of idletoken_llama_budget_flag(): where tensors live, what was measured with drafts
\* on, and what a user may still look at then.
Placement ==
    {"--device", "--rpc", "-m", "-mu", "-hf", "-hff", "--mmproj", "-mmu", "--mmproj-auto",
     "--mmproj-offload", "-mg", "--override-kv", "--lora", "--lora-scaled",
     "--lora-init-without-apply", "--control-vector", "--control-vector-scaled",
     "--control-vector-layer-range", "--models-dir", "--models-preset", "--models-max",
     "--models-autoload", "--tensor-split", "-ngl", "--fit", "--cpu-moe", "--n-cpu-moe",
     "--override-tensor", "--spec-type", "-md", "-hfd", "-ctkd", "-ctvd", "-devd", "-ngld",
     "-otd", "-cmoed", "-ncmoed"}
DraftArgs == {"--spec-draft-n-max", "--spec-draft-model", "--spec-draft-device", "--spec-draft-ngl"}
Profile == {"-c", "-np", "-b", "-ub", "-ctk", "-ctv", "-fa", "-nkvo", "--no-op-offload", "--swa-full"}
Diagnostics ==
    {"--threads", "-tb", "--threads-http", "--poll", "--poll-batch", "--metrics", "--log-disable",
     "--log-file", "--log-colors", "--log-prefix", "--log-timestamps", "--log-verbosity", "-v"}
\* What is planned has room in the vector; a user's argument is a flag and a spelling.
ASSUME CommandAssumption ==
    /\ ArgvMax \in Nat /\ ArgvMax >= 75 /\ CommandMax \in Nat
    /\ \A s \in Settings : s.extra \in Seq([flag : STRING, spelled : STRING])

VARIABLES setting,  \* what is asked for
          outcome,  \* of idletoken_llama_start(): "none" yet, "refused", "kept"; "failed" to start again
          lc,       \* what it kept: the setting, and what it settled of it
          line,     \* what the engine was last started with
          spawns    \* how often

commandVars == <<setting, outcome, lc, line, spawns>>
NoLine == [args |-> <<>>, env |-> {}, log |-> "none"]
NoEngine == [spec |-> "", extra |-> <<>>, orig |-> 0, np |-> 1, ngl |-> "", grow |-> FALSE, ctk |-> "", ctv |-> ""]
CommandInit ==
    /\ setting \in Settings
    /\ outcome = "none" /\ lc = NoEngine
    /\ line = NoLine /\ spawns = 0

-----------------------------------------------------------------------------
\* "auto" is also what no IDLETOKEN_SPEC_TYPE is; "" asks for no drafting at all.
spec_type(s) ==
    CASE s.spec = "auto" -> IF s.mtp THEN "ngram-mod,draft-mtp" ELSE "ngram-mod"
      [] s.spec \in {"", "off", "none"} -> ""
      [] s.spec = "ngram-mod" -> s.spec
      [] s.mtp /\ s.spec \in {"draft-mtp", "ngram-mod,draft-mtp", "draft-mtp,ngram-mod"} -> s.spec
      [] OTHER -> "refused"
Drafts(type) == type \in {"draft-mtp", "ngram-mod,draft-mtp", "draft-mtp,ngram-mod"}

\* Mutant: a name is looked at as it is spelled.
ForbiddenAsSpelled(arg, drafts) ==
    /\ arg.spelled = "plainly"
    /\ \/ arg.flag \in Placement \cup DraftArgs
       \/ drafts /\ (arg.flag \in Profile \/ arg.flag \notin Diagnostics)
\* An alias, quotes, a value after "=", or underscores in a long name: the engine takes each for
\* the flag, and so does the guard.
Forbidden(arg, drafts) ==
    \/ arg.flag \in Placement \cup DraftArgs
    \/ drafts /\ (arg.flag \in Profile \/ arg.flag \notin Diagnostics)
budget_flag(args, drafts) == \E i \in DOMAIN args : Forbidden(args[i], drafts)

\* The way a cache is kept: of keys the environment's word before the file's, of values only the
\* environment's.
kv_types(s) == [ctk |-> IF s.ctk # "" THEN s.ctk ELSE s.ctkFile, ctv |-> s.ctv]
\* What the planner charges for the two halves of a token, in the bytes of a block of each.
Block(type) == IF type = "q8_0" THEN 34 ELSE 64
kv_scale(types) == Block(types.ctk) + Block(IF types.ctv # "" THEN types.ctv ELSE types.ctk)

SlotCount(s) == IF s.np > 0 THEN s.np ELSE 1
\* A tower or a draft without a local device, a socket the engine would not know for one, an
\* unknown way of drafting, drafting for two, a guarded argument, an unsupported cache.
Refuses(s) ==
    \/ s.vision /\ s.device = ""
    \/ s.draft /\ (~s.mtp \/ s.device \in {"", "RPC0", "GPU0,GPU1"})
    \/ s.sock \in {"no suffix", "too long"}
    \/ spec_type(s) = "refused"
    \/ Drafts(spec_type(s)) /\ SlotCount(s) # 1
    \/ ~s.shared /\ budget_flag(s.extra, Drafts(spec_type(s)))
    \/ kv_types(s).ctk = "bad" \/ kv_types(s).ctv = "bad"
\* Mutant: a lender's own arguments are appended too.
KeptUnlocked(s) ==
    [spec |-> spec_type(s), extra |-> s.extra, orig |-> IF s.orig > 0 /\ s.ctx > s.orig THEN s.orig ELSE 0,
     np |-> SlotCount(s), ngl |-> IF s.ngl # "" THEN s.ngl ELSE "99", grow |-> s.grow /\ ~s.shared,
     ctk |-> kv_types(s).ctk, ctv |-> kv_types(s).ctv]
\* What start() settles once: a window the engine must stretch only beyond the trained one, a
\* directory for slots and the user's arguments only where nobody else's prompts are held.
Kept(s) ==
    [spec |-> spec_type(s), extra |-> IF s.shared THEN <<>> ELSE s.extra,
     orig |-> IF s.orig > 0 /\ s.ctx > s.orig THEN s.orig ELSE 0,
     np |-> SlotCount(s), ngl |-> IF s.ngl # "" THEN s.ngl ELSE "99", grow |-> s.grow /\ ~s.shared,
     ctk |-> kv_types(s).ctk, ctv |-> kv_types(s).ctv]

-----------------------------------------------------------------------------
\* An argument and its value, "" where it takes none, and whose it is: ours, the user's, or what
\* is left of one that was cut.  The two command lines are put together apart, each in its order.
A(flag, value) == [flag |-> flag, value |-> value, by |-> "us"]
When(condition, args) == IF condition THEN args ELSE <<>>
UserArgs(k) == [i \in DOMAIN k.extra |-> [flag |-> k.extra[i].flag, value |-> "given", by |-> "the user"]]
\* V follows K where only K is set; V alone leaves K at f16.
Ctk(k) == IF k.ctk # "" THEN k.ctk ELSE "f16"
Ctv(k) == IF k.ctv # "" THEN k.ctv ELSE Ctk(k)
\* What run_llamacpp_cluster_mode() and the tokenizer's start ask for beside the rest.
ClusterArgs(s) ==
    When(s.mode = "cluster",
         <<A("--rpc", "workers"), A("--device", "planned"), A("--tensor-split", "planned"), A("--fit", "off")>>
         \o When(s.moe, <<A("--override-tensor", "planned"), A("--load-mode", "none")>>))
    \o When(s.mode = "tokenizer", <<A("--vocab-only", ""), A("--no-warmup", ""), A("--cache-ram", "0")>>)
\* One engine alone keeps experts in memory (n_cpu_moe); in a cluster each node's override does.
CpuMoe(s) == s.moe /\ s.mode = "alone"
Window(s, k) == ToString(s.ctx * k.np)
Scale(s, k) == ToString(s.ctx) \o "/" \o ToString(k.orig)

WindowsDraft(s, k) ==
    When(k.spec # "", <<A("--spec-type", k.spec)>>
         \o When(Drafts(k.spec), <<A("--idletoken-mtp-safe", ""), A("--spec-draft-n-max", "3"),
                                   A("-ctkd", "f16"), A("-ctvd", "f16")>>))
    \o When(s.draft /\ Drafts(k.spec),
            <<A("--idletoken-mtp-external-safe", ""), A("--spec-draft-model", "admitted"),
              A("--spec-draft-device", s.device), A("--spec-draft-ngl", "all")>>)
WindowsPlan(s, k) ==
    <<A("--idletoken-managed", ""), A("-m", "gguf")>>
    \o When(s.vision, <<A("--mmproj", "tower")>>)
    \o (IF s.sock # "" THEN <<A("--host", "socket")>> ELSE <<A("--host", "loopback"), A("--port", "ours")>>)
    \o When(s.shared, <<A("--no-slots", "")>>)
    \o When(s.gpuOnly, <<A("--poll", "0")>>)
    \o When(k.grow /\ ~s.shared, <<A("--slot-save-path", "ours")>>)
    \o <<A("-ngl", k.ngl), A("--fit", "off")>>
    \o When(CpuMoe(s), <<A("--n-cpu-moe", "planned"), A("--load-mode", "none")>>)
    \o <<A("--reasoning", "auto")>>
    \o WindowsDraft(s, k)
    \o When(s.ctx > 0, <<A("-c", Window(s, k))>>)
    \o When(k.orig > 0, <<A("--rope-scaling", "yarn"), A("--rope-scale", Scale(s, k)),
                          A("--yarn-orig-ctx", ToString(k.orig))>>)
    \o <<A("-np", ToString(k.np))>>
    \o When(k.ctk # "" \/ k.ctv # "", <<A("-ctk", Ctk(k)), A("-ctv", Ctv(k)), A("-fa", "on")>>)
    \o ClusterArgs(s)
WindowsLine(s, k) == WindowsPlan(s, k) \o UserArgs(k)

PosixDraft(s, k) ==
    When(k.spec # "",
         <<A("--spec-type", k.spec)>>
         \o When(Drafts(k.spec),
                 <<A("--idletoken-mtp-safe", ""), A("--spec-draft-n-max", "3"), A("-ctkd", "f16"), A("-ctvd", "f16")>>
                 \o When(s.draft, <<A("--idletoken-mtp-external-safe", ""), A("--spec-draft-model", "admitted"),
                                    A("--spec-draft-device", s.device), A("--spec-draft-ngl", "all")>>)))
PosixFixed(s, k) ==
    <<A("--idletoken-managed", ""), A("-m", "gguf")>>
    \o When(s.vision, <<A("--mmproj", "tower")>>)
    \o When(s.sock # "", <<A("--host", "socket")>>)
    \o When(s.sock = "", <<A("--host", "loopback"), A("--port", "ours")>>)
    \o When(s.shared, <<A("--no-slots", "")>>)
    \o When(s.gpuOnly, <<A("--poll", "0")>>)
    \o When(k.grow /\ ~s.shared, <<A("--slot-save-path", "ours")>>)
    \o <<A("-ngl", k.ngl), A("--fit", "off")>>
    \o When(CpuMoe(s), <<A("--n-cpu-moe", "planned"), A("--load-mode", "none")>>)
    \o <<A("--reasoning", "auto")>>
    \o PosixDraft(s, k)
    \o When(s.ctx > 0, <<A("-c", Window(s, k))>>)
    \o When(k.orig > 0, <<A("--rope-scaling", "yarn"), A("--rope-scale", Scale(s, k)),
                          A("--yarn-orig-ctx", ToString(k.orig))>>)
    \o <<A("-np", ToString(k.np))>>
    \o When(k.ctk # "" \/ k.ctv # "", <<A("-ctk", Ctk(k)), A("-ctv", Ctv(k)), A("-fa", "on")>>)
\* Entries of the vector up to an argument, the program's name the first: the flags and the
\* values they take.
EntriesOf(args) == [i \in 0..Len(args) |-> 1 + i + Cardinality({j \in 1..i : args[j].value # ""})]
Entries(args) == EntriesOf(args)[Len(args)]
\* The vector has room for ArgvMax entries, and entries are taken from the lists while two are
\* left; what remains is left out silently.  It may part a flag from its value, and the engine
\* then refuses to start.
Fitting(args, room) == CHOOSE k \in 0..Len(args) :
    EntriesOf(args)[k] <= room /\ (k < Len(args) => EntriesOf(args)[k + 1] > room)
Cut(args, room) ==
    LET k == Fitting(args, room)
    IN SubSeq(args, 1, k)
       \o When(k < Len(args) /\ EntriesOf(args)[k] < room,
               <<[flag |-> args[k + 1].flag, value |-> "", by |-> "cut"]>>)
Room(s, k) == ArgvMax - 1 - Entries(PosixFixed(s, k))
\* Mutant: the user's arguments stand before the cluster's.
PosixLineUserFirst(s, k) == PosixFixed(s, k) \o Cut(UserArgs(k) \o ClusterArgs(s), Room(s, k))
PosixLine(s, k) == PosixFixed(s, k) \o Cut(ClusterArgs(s) \o UserArgs(k), Room(s, k))

-----------------------------------------------------------------------------
\* A name of the environment: the prefix it has of those looked at, the rest, and whether it is
\* written in capitals.
Name(prefix, rest) == [prefix |-> prefix, rest |-> rest, capitals |-> TRUE]
Owned == {Name("GGML_", "RPC_PSK"), Name("GGML_", "RPC_REQUIRE_MODEL_CACHE"), Name("GGML_", "RPC_NODE_LOCAL_MOE")}
TowerDevice == Name("", "MTMD_BACKEND_DEVICE")
\* Mutant: a name is looked at as it is written.
env_keepAsWritten(name) == name.capitals => name \in Owned \/ name.prefix \notin {"LLAMA_", "GGML_", "HF_"}
\* Nothing of the engine's own names is left but what the coordinator sets; the names of
\* Windows have no case, so none is looked at.
env_keep(name) ==
    LET upper == [name EXCEPT !.capitals = TRUE]
    IN upper \in Owned \/ name.prefix \notin {"LLAMA_", "GGML_", "HF_"}
\* The coordinator's own environment: what it was started with, and what it has set for a
\* cluster and for experts in memory.
Inherited(s) ==
    s.environment
    \cup (IF s.mode = "cluster" THEN {Name("GGML_", "RPC_PSK"), Name("GGML_", "RPC_REQUIRE_MODEL_CACHE")} ELSE {})
    \cup (IF s.mode = "cluster" /\ s.moe THEN {Name("GGML_", "RPC_NODE_LOCAL_MOE")} ELSE {})
    \cup (IF s.moe THEN {Name("GGML_MOE_", "POOL_EXPERTS")} ELSE {})
\* Where the tower runs is set by us, after the filter or before one that lets it through.
ChildEnv(s) ==
    {[name |-> n, value |-> "inherited"] : n \in {n \in Inherited(s) : env_keep(n) /\ ~(n = TowerDevice /\ s.vision)}}
    \cup (IF s.vision THEN {[name |-> TowerDevice, value |-> s.device]} ELSE {})

\* How a spawn may end.  On Windows a line too long, an environment that cannot be read, a log
\* that cannot be opened or a process that cannot be made are failures; elsewhere only fork()
\* is one: the vector is cut, a child without a log keeps our stderr, and one that cannot be
\* rid of its environment or execute the engine ends by itself.
Failed == [ok |-> FALSE, line |-> NoLine]
SpawnWindows(s, k) ==
    {Failed} \cup
    IF Entries(WindowsLine(s, k)) <= CommandMax
    THEN {[ok |-> TRUE, line |-> [args |-> WindowsLine(s, k), env |-> ChildEnv(s), log |-> "own"]]}
    ELSE {}
SpawnPosix(s, k) ==
    {Failed, [ok |-> TRUE, line |-> NoLine]} \cup
    {[ok |-> TRUE, line |-> [args |-> PosixLine(s, k), env |-> ChildEnv(s), log |-> l]] : l \in {"own", "stderr"}}
spawn(s, k) == IF s.os = "windows" THEN SpawnWindows(s, k) ELSE SpawnPosix(s, k)

\* idletoken_llama_start(): nothing of it remains where the child, or the thread that watches
\* it, cannot be had.
Start ==
    /\ outcome = "none"
    /\ IF Refuses(setting) THEN outcome' = "refused" /\ UNCHANGED <<lc, line, spawns>>
       ELSE \E r \in spawn(setting, Kept(setting)), watched \in BOOLEAN :
              IF r.ok /\ watched
              THEN outcome' = "kept" /\ lc' = Kept(setting) /\ line' = r.line /\ spawns' = 1
              ELSE outcome' = "refused" /\ UNCHANGED <<lc, line, spawns>>
    /\ UNCHANGED setting
\* The monitor starts the same again, and gives up where it cannot; MaxSpawns, a bound.
MaxSpawns == 2
Respawn ==
    /\ outcome = "kept" /\ spawns < MaxSpawns
    /\ \E r \in spawn(setting, lc) :
          IF r.ok THEN line' = r.line /\ UNCHANGED outcome
          ELSE outcome' = "failed" /\ UNCHANGED line
    /\ spawns' = spawns + 1
    /\ UNCHANGED <<setting, lc>>

CommandNext == Start \/ Respawn
CommandSpec == CommandInit /\ [][CommandNext]_commandVars

-----------------------------------------------------------------------------
Runs == outcome = "kept" /\ line # NoLine
Effective(args, flag) ==
    LET at == {i \in DOMAIN args : args[i].flag = flag}
    IN IF at = {} THEN "absent" ELSE args[CHOOSE i \in at : \A j \in at : j <= i].value
Planned(flag) == Effective(PosixFixed(setting, lc) \o ClusterArgs(setting), flag)

\* What places tensors is what was planned, whoever else has an opinion; with drafting also
\* what was measured; and a machine that lends runs the planned line and nothing more.
PlanPrevails ==
    Runs =>
        /\ \A f \in Placement \cup DraftArgs : Effective(line.args, f) = Planned(f)
        /\ Drafts(lc.spec) => \A f \in Profile : Effective(line.args, f) = Planned(f)
        /\ setting.shared => \A i \in DOMAIN line.args : line.args[i].by = "us"
\* "the two spawn paths must not diverge": they do only where the user's own arguments did not
\* all fit, and the planned ones always fit.
PathsAgree ==
    outcome = "kept" =>
        /\ IsPrefix(WindowsPlan(setting, lc), PosixLine(setting, lc))
        /\ Entries(WindowsLine(setting, lc)) <= ArgvMax - 2 => WindowsLine(setting, lc) = PosixLine(setting, lc)
\* The child has nothing of the engine's names but ours, in capitals or not, and a tower is on a
\* local device.
EnvironmentIsOurs ==
    Runs =>
        /\ \A e \in line.env : e.name.prefix \in {"LLAMA_", "GGML_", "HF_"} =>
                 [e.name EXCEPT !.capitals = TRUE] \in Owned
        /\ setting.mode = "cluster" => Name("GGML_", "RPC_PSK") \in {e.name : e \in line.env}
        /\ setting.vision => \A e \in line.env : e.name = TowerDevice => e.value = setting.device
\* "the memory plan and the engine's actual cache can never disagree", where the user does not
\* append a way of his own.
CacheIsCharged ==
    LET cache(flag) == IF Effective(line.args, flag) = "absent" THEN "f16" ELSE Effective(line.args, flag)
    IN Runs /\ (\A i \in DOMAIN lc.extra : lc.extra[i].flag \notin {"-ctk", "-ctv"})
         => Block(cache("-ctk")) + Block(cache("-ctv")) = kv_scale(kv_types(setting))
\* What an engine is started with.
CommandIsPlan == PlanPrevails /\ PathsAgree /\ EnvironmentIsOurs /\ CacheIsCharged
=============================================================================
