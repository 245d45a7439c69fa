---------------------------- MODULE TensorIndex -----------------------------
(***************************************************************************)
(* The tensor index kept beside a GGUF (src/src/common/weights.c,          *)
(* idletoken_write_idx and idletoken_idx_stale; the coordinator at         *)
(* coord_main.c 8541-8546, the worker at worker_main.c 2138 and in         *)
(* idletoken_rpc_local_prepare).  What an index says depends on the file   *)
(* and on the build that walked it, so a tag beside it names the build.    *)
(* The three are written in turn, and the process may be killed, upgraded, *)
(* or find another GGUF under the same name, between any two writes.       *)
(***************************************************************************)
EXTENDS Integers

CONSTANTS NFiles,      \* GGUFs put under the name in turn, each of its own size
          NBuilds,     \* builds of the program, in the order they are installed
          MaxKills     \* bound on the runs cut short

ASSUME IndexAssumption ==
    /\ NFiles \in Nat \ {0} /\ NBuilds \in Nat \ {0} /\ MaxKills \in Nat

VARIABLES gguf,     \* the file that is there now
          index,    \* the file and the build the index was made from, or NoIndex
          tag,      \* the build the tag names, 0 without one
          build,    \* the build that is installed
          indexer,  \* the process that needs an index
          kills

indexVars == <<gguf, index, tag, build, indexer, kills>>

NoIndex == [of |-> 0, by |-> 0]

IndexInit ==
    /\ gguf = 1 /\ build = 1
    /\ index = NoIndex
    /\ tag = 0
    /\ indexer = [pc |-> "idle", of |-> 0]
    /\ kills = 0

\* Mutant: the index of another build is good enough.
StaleBySize == index = NoIndex \/ index.of # gguf

\* Stale: another build's tag, no index, or an index of a file of another size.
Stale == \/ tag # build
         \/ index = NoIndex
         \/ index.of # gguf

Need ==
    /\ indexer.pc = "idle"
    /\ indexer' = [pc |-> IF Stale THEN "scan" ELSE "use", of |-> 0]
    /\ UNCHANGED <<gguf, index, tag, build, kills>>

\* The header is walked and the index written under another name.
Scan ==
    /\ indexer.pc = "scan"
    /\ indexer' = [pc |-> "remove", of |-> gguf]
    /\ UNCHANGED <<gguf, index, tag, build, kills>>

RemoveIndex ==
    /\ indexer.pc = "remove"
    /\ index' = NoIndex
    /\ indexer' = [indexer EXCEPT !.pc = "rename"]
    /\ UNCHANGED <<gguf, tag, build, kills>>

RenameIndex ==
    /\ indexer.pc = "rename"
    /\ index' = [of |-> indexer.of, by |-> build]
    /\ indexer' = [indexer EXCEPT !.pc = "tag"]
    /\ UNCHANGED <<gguf, tag, build, kills>>

\* Best effort: the tag is opened (which empties it) and written, or it cannot be
\* opened and the old one stays, or it cannot be written and stays empty.
WriteTag(t) ==
    /\ indexer.pc = "tag"
    /\ tag' = t
    /\ indexer' = [indexer EXCEPT !.pc = "use"]
    /\ UNCHANGED <<gguf, index, build, kills>>

Used ==
    /\ indexer.pc = "use"
    /\ indexer' = [pc |-> "idle", of |-> 0]
    /\ UNCHANGED <<gguf, index, tag, build, kills>>

\* The process ends where it is; the kill may fall on an opened tag.
KillIndexer ==
    /\ indexer.pc # "idle"
    /\ kills < MaxKills
    /\ kills' = kills + 1
    /\ \/ UNCHANGED tag
       \/ indexer.pc = "tag" /\ tag' = 0
    /\ indexer' = [pc |-> "idle", of |-> 0]
    /\ UNCHANGED <<gguf, index, build>>

Upgrade ==
    /\ indexer.pc = "idle"
    /\ build < NBuilds
    /\ build' = build + 1
    /\ UNCHANGED <<gguf, index, tag, indexer, kills>>

\* A download finishes, or the file is replaced by a larger one.
ReplaceGguf ==
    /\ gguf < NFiles
    /\ gguf' = gguf + 1
    /\ indexer.pc # "use"
    /\ UNCHANGED <<index, tag, build, indexer, kills>>

IndexNext ==
    \/ Need \/ Scan \/ RemoveIndex \/ RenameIndex
    \/ \E t \in {build, tag, 0} : WriteTag(t)
    \/ Used \/ KillIndexer \/ Upgrade \/ ReplaceGguf

-----------------------------------------------------------------------------
IndexTypeOK ==
    /\ gguf \in 1..NFiles /\ build \in 1..NBuilds
    /\ index \in [of : 0..NFiles, by : 0..NBuilds]
    /\ tag \in 0..NBuilds
    /\ indexer.pc \in {"idle", "scan", "remove", "rename", "tag", "use"}

(***************************************************************************)
(* An index that reads as fresh was written by the build that reads it,    *)
(* from a file of the size of the one that is there, wherever an earlier   *)
(* run was killed and whatever was upgraded or replaced since.             *)
(***************************************************************************)
FreshIsOurs == ~Stale => index = [of |-> gguf, by |-> build]

=============================================================================
