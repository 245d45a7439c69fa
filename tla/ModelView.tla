----------------------------- MODULE ModelView ------------------------------
(***************************************************************************)
(* Partial copies of a model that are kept between runs                    *)
(* (src/src/common/weights.c).  A view is a sparse file of the size of the *)
(* original ("file"), or a directory of them when the model is split       *)
(* ("split"); it covers the layers [0, coverage) its marker names and grows*)
(* with the plan.  A shard ("shard") is one file of one range of layers,   *)
(* kept under a name that does not say of which model.                     *)
(*                                                                         *)
(* A tensor is <<part, layer>>, as in the index; layer -1 is what every    *)
(* range needs.  A file has its full size from the moment it is opened, so *)
(* its size says nothing of the holes in it.                               *)
(***************************************************************************)
EXTENDS Integers, FiniteSets

CONSTANTS NLayers,     \* repeating layers of the model
          NParts,      \* files of a split model
          NVersions,   \* models the repository serves in turn, each of its own size
          MaxFaults    \* bound on failures, kills and files lost

ASSUME ViewAssumption ==
    /\ NLayers \in Nat \ {0} /\ NParts \in Nat \ {0} /\ NVersions \in Nat \ {0}
    /\ MaxFaults \in Nat

VARIABLES kind,      \* "file", "split" or "shard"
          repo,      \* the version the repository serves
          file,      \* part -> its size and the version each tensor in it is of
          mark,      \* coverage the marker names; NoMark without one
          prep,      \* the call under way
          unwithdrawn, \* a rebuild began and the marker of the previous build stayed
          wrong      \* failures, kills and losses so far

viewVars == <<kind, repo, file, mark, prep, unwithdrawn, wrong>>

NoMark == -1
Missing == [size |-> 0, has |-> {}]

Parts == IF kind = "split" THEN 1..NParts ELSE {1}
PartOf(l) == IF kind = "split" THEN 1 + (l % NParts) ELSE 1
IndexTensors == {<<p, -1>> : p \in Parts} \cup {<<PartOf(l), l>> : l \in 0..(NLayers - 1)}

\* The byte ranges of a part for the layers [lo, hi), with or without the shared
\* ones, as a set of tensors.
PartRanges(p, lo, hi, shared) ==
    {t \in IndexTensors : /\ t[1] = p
                          /\ \/ shared /\ t[2] < 0
                             \/ t[2] >= lo /\ t[2] < hi}

Quiet == [pc |-> "idle", hi |-> 0, warm |-> FALSE, from |-> 0, part |-> 0, todo |-> {}]

ViewInit ==
    /\ kind \in {"file", "split", "shard"}
    /\ repo = 1
    /\ file = [p \in Parts |-> Missing]
    /\ mark = NoMark
    /\ prep = Quiet
    /\ unwithdrawn = FALSE
    /\ wrong = 0

\* Mutant: the marker counts without a look at the files.
ValidUnmeasured == mark # NoMark

\* The marker is read: it counts when every file has the size of the index.
Valid == mark # NoMark /\ \A p \in Parts : file[p].size = repo

Holds(p, t) == <<t, repo>> \in file[p].has
Whole(hi) == \A p \in Parts : \A t \in PartRanges(p, 0, hi, TRUE) : Holds(p, t)

-----------------------------------------------------------------------------
\* The index is fetched and the marker read.  A view is reused when its coverage
\* suffices and is extended from it otherwise; without a valid marker it is built
\* anew, and the one-file view withdraws its marker first.
Prepare(hi) ==
    /\ prep.pc = "idle"
    /\ kind = "shard" => hi = NLayers
    /\ LET warm == Valid /\ kind # "shard" IN
       /\ IF Valid /\ mark >= hi
          THEN /\ prep' = [Quiet EXCEPT !.pc = "ready", !.hi = hi]
               /\ UNCHANGED <<file, mark, unwithdrawn>>
          ELSE /\ prep' = [pc |-> "open", hi |-> hi, warm |-> warm,
                           from |-> IF warm THEN mark ELSE 0, part |-> 1, todo |-> {}]
               /\ IF kind = "file" /\ ~warm
                  THEN /\ mark' = NoMark
                       /\ file' = [file EXCEPT ![1] = Missing]
                       /\ unwithdrawn' = FALSE
                  ELSE /\ unwithdrawn' = IF warm THEN unwithdrawn ELSE mark # NoMark
                       /\ UNCHANGED <<file, mark>>
    /\ UNCHANGED <<kind, repo, wrong>>

\* The file of a part is created or opened and given its full size.  Cold split
\* parts are removed first; a shard's old bytes stay under the new size.
Open ==
    /\ prep.pc = "open"
    /\ LET p == prep.part
           kept == IF kind = "split" /\ ~prep.warm THEN {} ELSE file[p].has IN
       /\ file' = [file EXCEPT ![p] = [size |-> repo, has |-> kept]]
       /\ prep' = [prep EXCEPT !.pc = "fetch",
                     !.todo = PartRanges(p, prep.from, prep.hi, ~prep.warm)]
    /\ UNCHANGED <<kind, repo, mark, unwithdrawn, wrong>>

\* One range, in pieces that are each retried; a piece overwrites what was there.
FetchRange(t) ==
    /\ prep.pc = "fetch"
    /\ t \in prep.todo
    /\ file' = [file EXCEPT ![prep.part].has =
                  {x \in @ : x[1] # t} \cup {<<t, repo>>}]
    /\ prep' = [prep EXCEPT !.todo = @ \ {t}]
    /\ UNCHANGED <<kind, repo, mark, unwithdrawn, wrong>>

\* The part is synced (a shard is not) and closed.
ClosePart ==
    /\ prep.pc = "fetch"
    /\ prep.todo = {}
    /\ prep' = IF prep.part + 1 \in Parts
               THEN [prep EXCEPT !.pc = "open", !.part = @ + 1]
               ELSE [prep EXCEPT !.pc = "publish"]
    /\ UNCHANGED <<kind, repo, file, mark, unwithdrawn, wrong>>

\* The marker is written aside, the old one removed, the new one renamed.
WithdrawMark ==
    /\ prep.pc = "publish"
    /\ kind # "shard"
    /\ mark' = NoMark
    /\ prep' = [prep EXCEPT !.pc = "rename"]
    /\ UNCHANGED <<kind, repo, file, unwithdrawn, wrong>>

Ready ==
    /\ prep' = [Quiet EXCEPT !.pc = "ready", !.hi = prep.hi]
    /\ unwithdrawn' = (unwithdrawn /\ prep.warm)
    /\ UNCHANGED <<kind, repo, file, wrong>>

RenameMark ==
    /\ prep.pc = "rename"
    /\ mark' = prep.hi
    /\ Ready

\* A shard writes its marker in place, over the one a fetch before it left; that it
\* could not be opened fails nothing.
MarkShard ==
    /\ prep.pc = "publish"
    /\ kind = "shard"
    /\ mark' \in {mark, prep.hi}
    /\ Ready

\* Mutant: a failed call removes the view it was extending.
FailDiscards ==
    /\ prep.pc \in {"open", "fetch", "publish", "rename"}
    /\ wrong < MaxFaults
    /\ wrong' = wrong + 1
    /\ file' = [p \in Parts |-> Missing]
    /\ prep' = [prep EXCEPT !.pc = "failed"]
    /\ UNCHANGED <<kind, repo, mark, unwithdrawn>>

\* A call that failed returns; a cold split build that left no marker is removed
\* with its directory, so that its sparse files cannot fill the volume.
Fail ==
    /\ prep.pc \in {"open", "fetch", "publish", "rename"}
    /\ wrong < MaxFaults
    /\ wrong' = wrong + 1
    /\ file' = IF kind = "split" /\ mark = NoMark
               THEN [p \in Parts |-> Missing] ELSE file
    /\ prep' = [prep EXCEPT !.pc = "failed"]
    /\ UNCHANGED <<kind, repo, mark, unwithdrawn>>

Return ==
    /\ prep.pc \in {"ready", "failed"}
    /\ prep' = Quiet
    /\ UNCHANGED <<kind, repo, file, mark, unwithdrawn, wrong>>

-----------------------------------------------------------------------------
Kill ==
    /\ prep.pc \in {"open", "fetch", "publish", "rename"}
    /\ wrong < MaxFaults
    /\ wrong' = wrong + 1
    /\ prep' = Quiet
    /\ UNCHANGED <<kind, repo, file, mark, unwithdrawn>>

\* A file is deleted by hand, or by the system that cleans caches.
LoseFile(p) ==
    /\ prep.pc = "idle"
    /\ wrong < MaxFaults
    /\ wrong' = wrong + 1
    /\ file' = [file EXCEPT ![p] = Missing]
    /\ UNCHANGED <<kind, repo, mark, prep, unwithdrawn>>

\* The repository serves another model.  The views of another index are other
\* files, so only a shard meets it.
Replace ==
    /\ kind = "shard"
    /\ prep.pc = "idle"
    /\ repo < NVersions
    /\ repo' = repo + 1
    /\ UNCHANGED <<kind, file, mark, prep, unwithdrawn, wrong>>

ViewStep ==
    \/ Open \/ ClosePart \/ WithdrawMark \/ RenameMark \/ MarkShard
    \/ \E t \in IndexTensors : FetchRange(t)

ViewNext ==
    \/ \E hi \in 0..NLayers : Prepare(hi)
    \/ ViewStep \/ Fail \/ Return \/ Kill \/ Replace
    \/ \E p \in Parts : LoseFile(p)

-----------------------------------------------------------------------------
ViewTypeOK ==
    /\ kind \in {"file", "split", "shard"}
    /\ repo \in 1..NVersions
    /\ \A p \in Parts : /\ file[p].size \in 0..NVersions
                        /\ file[p].has \subseteq IndexTensors \X (1..NVersions)
    /\ mark \in {NoMark} \cup 0..NLayers
    /\ prep.todo \subseteq IndexTensors

(***************************************************************************)
(* A copy that counts as complete, because its marker does or because a    *)
(* call returned it, holds every byte of the layers it is said to cover.   *)
(* What is excluded by name: a rebuild that began over the marker of the   *)
(* previous build and was cut short (README, section 3).  The one-file     *)
(* view never does that.                                                   *)
(***************************************************************************)
CompleteIsWhole ==
    \/ unwithdrawn /\ kind # "file"
    \/ /\ Valid => Whole(mark)
       /\ prep.pc = "ready" => Whole(prep.hi)

(***************************************************************************)
(* Extending a view never loses what it covered: while nobody deletes a    *)
(* file of it, a view that counts goes on counting, and for no fewer       *)
(* layers, whatever fails, save in the moment between the removal of the   *)
(* marker and the renaming of the new one.                                 *)
(***************************************************************************)
CoverageStands ==
    [][Valid /\ kind # "shard" /\ prep.pc \notin {"publish", "rename"} /\ prep'.pc # "rename"
         => /\ mark' >= mark
            /\ Valid' \/ \E p \in Parts : LoseFile(p)]_viewVars
=============================================================================
