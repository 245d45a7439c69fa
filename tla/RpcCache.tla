------------------------------ MODULE RpcCache ------------------------------
(***************************************************************************)
(* The tensor cache of one machine (src/src/common/weights.c,              *)
(* idletoken_rpc_cache_fetch): every tensor of a range of layers is        *)
(* fetched into a file named by the hash of its bytes, published under the *)
(* hash of its name by a hard link, and recorded, so that a later seed of  *)
(* another range, or the same one after an interruption, need not fetch it *)
(* again.  Models share the names of their tensors and not their bytes.    *)
(*                                                                         *)
(* One seed runs at a time; it may fail or be killed between any two steps.*)
(* A file is complete or absent: it is written under another name first.   *)
(***************************************************************************)
EXTENDS Integers, FiniteSets

CONSTANTS Indexes,       \* indexes, by their hash
          NTensors,      \* tensors are numbered in the order of the index
          LayerOf,       \* the layer of each, -1 when every range needs it
          SeedRanges,    \* <<lo, hi>>: the layers [lo, hi) a seed asks for
          MaxStops,      \* bound on the seeds that are cut short
          MaxLosses      \* bound on the content files that disappear

Tensors == 1..NTensors

ASSUME CacheAssumption ==
    /\ NTensors \in Nat \ {0}
    /\ LayerOf \in [Tensors -> Int]
    /\ SeedRanges \subseteq Nat \X Nat
    /\ MaxStops \in Nat /\ MaxLosses \in Nat

VARIABLES content,      \* files named by hash: <<model, tensor>> stands for the bytes
          link,         \* the file each name is linked to
          record,       \* the model and the bytes each name was last recorded with
          doneMarks,    \* finished seeds: <<model, range>>
          seed,         \* the seed under way
          unrecorded,   \* names whose link was changed and whose record was not
          faults        \* what has gone wrong so far

cacheVars == <<content, link, record, doneMarks, seed, unrecorded, faults>>

Absent == <<>>
Idle == [pc |-> "idle", model |-> Absent, range |-> Absent, at |-> 0]

\* Shared tensors and those of the layers.
Selected(range) ==
    {t \in Tensors : LayerOf[t] < 0 \/ (range[1] <= LayerOf[t] /\ LayerOf[t] < range[2])}

\* The next tensor of the index that the range selects, 0 after the last.
After(range, t) ==
    LET rest == {u \in Selected(range) : u > t} IN
    IF rest = {} THEN 0 ELSE CHOOSE u \in rest : \A v \in rest : u <= v

CacheInit ==
    /\ content = {}
    /\ link = [t \in Tensors |-> Absent]
    /\ record = [t \in Tensors |-> Absent]
    /\ doneMarks = {}
    /\ seed = Idle
    /\ unrecorded = {}
    /\ faults = [stops |-> 0, losses |-> 0]

Bytes(t) == <<seed.model, t>>
Mark == <<seed.model, seed.range>>
SeedGoto(pc) == seed' = [seed EXCEPT !.pc = pc]

\* On to the next tensor, or to the marker when there is none.
NextTensor(pc) ==
    LET t == After(seed.range, seed.at) IN
    seed' = IF t = 0 THEN [seed EXCEPT !.pc = "publish", !.at = 0]
                     ELSE [seed EXCEPT !.pc = pc, !.at = t]

-----------------------------------------------------------------------------
\* The index is read and the tensors selected.  With a marker of this range the
\* names are linked again from the files it lists; without, tensor by tensor.
Seed(m, r) ==
    /\ seed.pc = "idle"
    /\ LET first == After(r, 0) IN
       seed' = [pc    |-> IF first = 0 THEN "publish"
                          ELSE IF <<m, r>> \in doneMarks THEN "warm" ELSE "resume",
                model |-> m, range |-> r, at |-> first]
    /\ UNCHANGED <<content, link, record, doneMarks, unrecorded, faults>>

\* A marker without its files is not a hit: the seed goes on as a cold one.
WarmMiss ==
    /\ seed.pc = "warm"
    /\ Bytes(seed.at) \notin content
    /\ seed' = [seed EXCEPT !.pc = "resume", !.at = After(seed.range, 0)]
    /\ UNCHANGED <<content, link, record, doneMarks, unrecorded, faults>>

\* Mutant: a name is taken as it is, whichever model it was linked for.
ResumableAnyModel(t) == link[t] # Absent /\ record[t] # Absent /\ record[t].bytes \in content
\* Mutant: only a seed that finished is resumed.
ResumableFinished(t) ==
    /\ link[t] # Absent /\ record[t] # Absent
    /\ record[t].model = seed.model /\ record[t].bytes \in content
    /\ Mark \in doneMarks

\* The record names this model and bytes of the right size that are still there
\* under the name and under their hash.
Resumable(t) ==
    /\ link[t] # Absent
    /\ record[t] # Absent
    /\ record[t].model = seed.model
    /\ record[t].bytes \in content

Resume ==
    /\ seed.pc = "resume"
    /\ Resumable(seed.at)
    /\ NextTensor("resume")
    /\ UNCHANGED <<content, link, record, doneMarks, unrecorded, faults>>

\* Fetched, or copied from this machine's own file, under a temporary name, then
\* renamed to its hash unless that file is there.
Fetch ==
    /\ seed.pc = "resume"
    /\ ~Resumable(seed.at)
    /\ content' = content \cup {Bytes(seed.at)}
    /\ SeedGoto("activate")
    /\ UNCHANGED <<link, record, doneMarks, unrecorded, faults>>

\* Activation: the name is removed, linked to the file, then recorded.
Unlink ==
    /\ seed.pc \in {"warm", "activate"}
    /\ Bytes(seed.at) \in content
    /\ link' = [link EXCEPT ![seed.at] = Absent]
    /\ SeedGoto(IF seed.pc = "warm" THEN "linkWarm" ELSE "link")
    /\ UNCHANGED <<content, record, doneMarks, unrecorded, faults>>

\* The file is lost while it is being activated.
ActivateFails ==
    /\ seed.pc \in {"activate", "link", "linkWarm"}
    /\ Bytes(seed.at) \notin content
    /\ seed' = IF seed.pc = "linkWarm"
               THEN [seed EXCEPT !.pc = "resume", !.at = After(seed.range, 0)]
               ELSE Idle
    /\ UNCHANGED <<content, link, record, doneMarks, unrecorded, faults>>

Link ==
    /\ seed.pc \in {"link", "linkWarm"}
    /\ Bytes(seed.at) \in content
    /\ link' = [link EXCEPT ![seed.at] = Bytes(seed.at)]
    /\ unrecorded' = unrecorded \cup {seed.at}
    /\ SeedGoto(IF seed.pc = "linkWarm" THEN "recordWarm" ELSE "record")
    /\ UNCHANGED <<content, record, doneMarks, faults>>

\* Opening the record for writing empties it.  When it cannot be opened the old
\* one stays; when it cannot be written it is removed.  The seed goes on.
Record(written) ==
    /\ seed.pc \in {"record", "recordWarm"}
    /\ CASE written = "all"    -> record' = [record EXCEPT ![seed.at] =
                                               [model |-> seed.model, bytes |-> Bytes(seed.at)]]
         [] written = "nothing" -> record' = [record EXCEPT ![seed.at] = Absent]
         [] written = "unopened" -> UNCHANGED record
    /\ unrecorded' = IF written = "unopened" THEN unrecorded ELSE unrecorded \ {seed.at}
    /\ IF written = "all" THEN UNCHANGED faults
       ELSE /\ faults.stops < MaxStops
            /\ faults' = [faults EXCEPT !.stops = @ + 1]
    /\ IF seed.pc = "recordWarm" /\ After(seed.range, seed.at) = 0
       THEN seed' = [seed EXCEPT !.pc = "ready", !.at = 0]
       ELSE NextTensor(IF seed.pc = "recordWarm" THEN "warm" ELSE "resume")
    /\ UNCHANGED <<content, link, doneMarks>>

\* The marker is written under another name, the old one removed, the new one
\* renamed.
Withdraw ==
    /\ seed.pc = "publish"
    /\ doneMarks' = doneMarks \ {Mark}
    /\ SeedGoto("rename")
    /\ UNCHANGED <<content, link, record, unrecorded, faults>>

Rename ==
    /\ seed.pc = "rename"
    /\ doneMarks' = doneMarks \cup {Mark}
    /\ SeedGoto("ready")
    /\ UNCHANGED <<content, link, record, unrecorded, faults>>

\* The engine has been given the directory; another seed may begin.
Release ==
    /\ seed.pc = "ready"
    /\ seed' = Idle
    /\ UNCHANGED <<content, link, record, doneMarks, unrecorded, faults>>

-----------------------------------------------------------------------------
\* A fetch gives up, the disk is full, the process is killed.  A record is empty
\* when the kill falls between its opening and its closing.
Stop ==
    /\ seed.pc \notin {"idle", "ready"}
    /\ faults.stops < MaxStops
    /\ faults' = [faults EXCEPT !.stops = @ + 1]
    /\ \/ UNCHANGED <<record, unrecorded>>
       \/ /\ seed.pc \in {"record", "recordWarm"}
          /\ record' = [record EXCEPT ![seed.at] = Absent]
          /\ unrecorded' = unrecorded \ {seed.at}
    /\ seed' = Idle
    /\ UNCHANGED <<content, link, doneMarks>>

\* Somebody frees space.  The links keep their bytes.
LoseContent(c) ==
    /\ faults.losses < MaxLosses
    /\ content' = content \ {c}
    /\ faults' = [faults EXCEPT !.losses = @ + 1]
    /\ UNCHANGED <<link, record, doneMarks, seed, unrecorded>>

SeedStep ==
    \/ WarmMiss \/ Resume \/ Fetch \/ Unlink \/ ActivateFails \/ Link
    \/ \E written \in {"all", "nothing", "unopened"} : Record(written)
    \/ Withdraw \/ Rename

CacheNext ==
    \/ \E m \in Indexes, r \in SeedRanges : Seed(m, r)
    \/ SeedStep \/ Release \/ Stop
    \/ \E c \in content : LoseContent(c)

-----------------------------------------------------------------------------
CacheTypeOK ==
    /\ content \subseteq Indexes \X Tensors
    /\ link \in [Tensors -> (Indexes \X Tensors) \cup {Absent}]
    /\ record \in [Tensors -> [model : Indexes, bytes : Indexes \X Tensors] \cup {Absent}]
    /\ doneMarks \subseteq Indexes \X SeedRanges
    /\ seed.at \in Tensors \cup {0}
    /\ unrecorded \subseteq Tensors

(***************************************************************************)
(* When a seed reports its range ready, every name of the range is linked  *)
(* to the bytes of that model, whatever was seeded, interrupted or lost    *)
(* before.  Excluded by name are the links that were changed and whose     *)
(* record then was not (README, section 3): the record of the other model  *)
(* still vouches for them.                                                 *)
(***************************************************************************)
SeededNamesAreTheirs ==
    seed.pc = "ready" =>
        \A t \in Selected(seed.range) \ unrecorded : link[t] = Bytes(t)

(***************************************************************************)
(* A resumed seed does not fetch what it has: as long as the bytes are in  *)
(* the cache, a tensor is fetched for a model only when the last activation*)
(* of its name was for another model, or was cut short.                    *)
(***************************************************************************)
NothingFetchedTwice ==
    [][Fetch => \/ link[seed.at] # Bytes(seed.at)
                \/ Bytes(seed.at) \notin content
                \/ record[seed.at] = Absent
                \/ seed.at \in unrecorded]_cacheVars
=============================================================================
