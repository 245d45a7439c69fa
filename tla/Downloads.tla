----------------------------- MODULE Downloads -----------------------------
(***************************************************************************)
(* The desktop client's weight folder (src/client/src-tauri/src/weights.rs) *)
(* A download takes the files of a split model one after another: what is  *)
(* there already is verified, what is not is fetched into `<file>.part`,   *)
(* hashed, and renamed; a marker beside the file then vouches for it by    *)
(* its fingerprint.  Downloads, verifications, cancels and deletions run   *)
(* at the same time; the client may be killed and started again.           *)
(*                                                                         *)
(* A file is what it is a prefix of and how many blocks of it there are.   *)
(* Every file is pinned to a hash, which only the whole curated file has.  *)
(***************************************************************************)
EXTENDS Integers, Sequences

CONSTANTS NumFiles,         \* the files of the model: it is split into so many
          FullLen,          \* their length, in blocks
          LeastLen,         \* what the manifest says they have at least
          Ids,              \* the names downloads run under
          Tasks,            \* bound: tasks at once
          FoundFinals,      \* what a client may find under a name when it starts
          FoundParts,       \* and under its .part
          MaxTrouble        \* bound: kills, deletions and other programs' writes

ASSUME DownloadsAssumption ==
    /\ NumFiles \in Nat \ {0} /\ FullLen \in Nat \ {0} /\ LeastLen \in 1..FullLen
    /\ MaxTrouble \in Nat

VARIABLES final, part,      \* what lies under each file's name and under its .part
          marker,           \* "this" when it vouches for the file that is there now
          active,           \* ACTIVE: the id and the first file of each running task
          tasks,
          deleting,         \* what the deletion under way has still to remove
          trouble,
          disturbed,        \* whether somebody else's hand was in the folder
          crossed           \* whether two tasks have met on one file

downloadVars == <<final, part, marker, active, tasks, deleting, trouble, disturbed, crossed>>

FilesOf == 1..NumFiles
NoFile == [of |-> "nothing", len |-> 0]
EmptyFile == [of |-> "empty", len |-> 0]
Curated(c) == c = [of |-> "curated", len |-> FullLen]
LongEnough(c) == c.len >= LeastLen
Contents == {NoFile} \cup [of : {"curated", "other"}, len : 1..FullLen]
Resting == [pc |-> "rest"]

\* The folder a client may find: earlier runs, a script's download, a copy.
DownloadsInit ==
    /\ final \in [FilesOf -> FoundFinals] /\ part \in [FilesOf -> FoundParts]
    /\ marker = [f \in FilesOf |-> "none"]
    /\ active = {}
    /\ tasks = [t \in Tasks |-> Resting]
    /\ deleting = <<>> /\ trouble = 0 /\ disturbed = FALSE /\ crossed = FALSE

\* A task's own file descriptor, and the hash pass that has begun on a path, notice
\* what happens to the file under the path.
Notice(ts, f, which, unlinked) ==
    [t \in Tasks |->
        IF ts[t] = Resting \/ ts[t].file # f THEN ts[t]
        ELSE [ts[t] EXCEPT !.steady = @ /\ ts[t].hashes # which,
                           !.linked = @ /\ ~(unlinked /\ which = "part")]]
\* MUTANT: the marker is compared by its digest alone.
SupersededByDigest(f) == marker
Superseded(f) == [marker EXCEPT ![f] = IF @ = "this" THEN "stale" ELSE @]

\* Tasks are tried for a step in `ts`; what they leave alone.
Folder == <<final, part, marker>>
Others == <<active, deleting, trouble, disturbed>>
TaskGoto(t, pc) == tasks' = [tasks EXCEPT ![t].pc = pc]
TaskAt(t, pc) == tasks[t].pc = pc
F(t) == tasks[t].file

-----------------------------------------------------------------------------
\* weights_fetch and weights_verify: nothing of this id, and nothing that writes the
\* first file, is running; then the entry is made, under the lock taken again.
Ask(t, id, kind, f) ==
    /\ tasks[t] = Resting
    /\ kind = "fetch" => f = 1
    /\ ~ \E e \in active : e.id = id \/ e.file = f
    /\ tasks' = [tasks EXCEPT ![t] =
          [pc |-> "register", id |-> id, kind |-> kind, file |-> f, first |-> f, cancelled |-> FALSE,
           done |-> 0, total |-> 0, append |-> FALSE, linked |-> FALSE, steady |-> FALSE,
           hashes |-> "neither", ok |-> FALSE]]
    /\ UNCHANGED <<Folder, Others>>
Register(t) ==
    /\ TaskAt(t, "register")
    /\ active' = {e \in active : e.id # tasks[t].id}
                 \cup {[id |-> tasks[t].id, file |-> tasks[t].first, task |-> t]}
    /\ TaskGoto(t, "file")
    /\ UNCHANGED <<Folder, deleting, trouble, disturbed>>

\* weights_cancel reaches the task that the id's entry belongs to.
Cancel(id) ==
    \E e \in active :
        /\ e.id = id /\ tasks[e.task] # Resting /\ tasks[e.task].id = id
        /\ tasks' = [tasks EXCEPT ![e.task].cancelled = TRUE]
        /\ UNCHANGED <<Folder, Others>>

\* What is left of a task that has ended, well or not: its entry.
Left(task, ok) ==
    [task EXCEPT !.pc = "leave", !.ok = ok, !.cancelled = FALSE, !.file = task.first, !.done = 0,
                 !.total = 0, !.append = FALSE, !.linked = FALSE, !.steady = FALSE,
                 !.hashes = "neither"]
Fails(t) == tasks' = [tasks EXCEPT ![t] = Left(@, FALSE)]
Leave(t) ==
    /\ TaskAt(t, "leave")
    /\ active' = {e \in active : e.id # tasks[t].id}
    /\ tasks' = [tasks EXCEPT ![t] = Resting]
    /\ UNCHANGED <<Folder, deleting, trouble, disturbed>>

NextFile(t) ==
    tasks' = [tasks EXCEPT ![t] =
        IF @.kind = "verify" \/ @.file = NumFiles THEN Left(@, TRUE)
        ELSE [@ EXCEPT !.pc = "file", !.file = F(t) + 1, !.hashes = "neither"]]

-----------------------------------------------------------------------------
\* fetch_inner, file by file.
LooksAtFile(t) ==
    /\ TaskAt(t, "file")
    /\ IF tasks[t].kind = "verify" \/ LongEnough(final[F(t)])
       THEN tasks' = [tasks EXCEPT ![t].pc = IF marker[F(t)] = "this" THEN "drop part" ELSE "hash",
                                   ![t].hashes = "final"]
       ELSE TaskGoto(t, "open")
    /\ UNCHANGED <<Folder, Others>>

\* MUTANT: the fragment beside a verified file stays.
DropsPartNot(t) ==
    /\ TaskAt(t, "drop part")
    /\ NextFile(t)
    /\ UNCHANGED <<Folder, Others>>
\* A verified file supersedes the fragment beside it.
DropsPart(t) ==
    /\ TaskAt(t, "drop part")
    /\ IF tasks[t].kind = "fetch"
       THEN part' = [part EXCEPT ![F(t)] = NoFile] ELSE UNCHANGED part
    /\ NextFile(t)
    /\ UNCHANGED <<final, marker, Others>>

\* The probe, the length of what is there, and the request.  The server gives the
\* length of the file or none; it may ignore the range, and then the file starts over.
Opens(t, total, resumes) ==
    LET have == IF part[F(t)].len > total THEN 0 ELSE part[F(t)].len
        at == IF resumes THEN have ELSE 0
    IN  /\ TaskAt(t, "open") /\ ~tasks[t].cancelled
        /\ IF have = total
           THEN /\ tasks' = [tasks EXCEPT ![t].pc = "hash", ![t].hashes = "part"]
                /\ UNCHANGED part
           ELSE /\ part' = [part EXCEPT ![F(t)] = IF at = 0 THEN EmptyFile ELSE @]
                /\ tasks' = [Notice(tasks, F(t), "part", FALSE) EXCEPT
                       ![t].pc = "copy", ![t].total = total, ![t].done = at,
                       ![t].append = at > 0, ![t].linked = TRUE]
        /\ UNCHANGED <<final, marker, Others>>
NoSource(t) ==
    /\ TaskAt(t, "open") \/ TaskAt(t, "copy")
    /\ Fails(t)
    /\ UNCHANGED <<Folder, Others>>

\* One more block of what the server sends, at the end or at the task's own place.
Written(c, block, place, source) ==
    CASE place = c.len -> [of |-> IF (c.len = 0 \/ c.of = source) /\ block = place THEN source
                                  ELSE "other", len |-> place + 1]
      [] place < c.len -> [c EXCEPT !.of = IF @ = source /\ block = place THEN @ ELSE "other"]
      [] OTHER -> [of |-> "other", len |-> place + 1]
Copies(t, source) ==
    LET c == part[F(t)]
        place == IF tasks[t].append THEN c.len ELSE tasks[t].done
    IN  /\ TaskAt(t, "copy") /\ ~tasks[t].cancelled /\ tasks[t].done < FullLen
        /\ IF tasks[t].linked
           THEN /\ part' = [part EXCEPT ![F(t)] = Written(c, tasks[t].done, place, source)]
                /\ tasks' = [Notice(tasks, F(t), "part", FALSE) EXCEPT ![t].done = @ + 1]
           ELSE tasks' = [tasks EXCEPT ![t].done = @ + 1] /\ UNCHANGED part
        /\ UNCHANGED <<final, marker, Others>>

\* The stream ends, early or not: what lies under the name must be long enough.
EndOfStream(t) ==
    /\ TaskAt(t, "copy")
    /\ IF part[F(t)].len < tasks[t].total THEN Fails(t)
       ELSE tasks' = [tasks EXCEPT ![t] = [@ EXCEPT !.pc = "hash", !.hashes = "part", !.linked = FALSE,
                                            !.append = FALSE, !.done = 0, !.total = 0]]
    /\ UNCHANGED <<Folder, Others>>

\* The hash pass: fingerprint, read, fingerprint again; then what it decides.
Hashed(t) == IF tasks[t].hashes = "part" THEN part[F(t)] ELSE final[F(t)]
HashBegins(t) ==
    /\ TaskAt(t, "hash")
    /\ IF Hashed(t) = NoFile THEN Fails(t)
       ELSE tasks' = [tasks EXCEPT ![t].pc = "hashing", ![t].steady = TRUE]
    /\ UNCHANGED <<Folder, Others>>
HashEnds(t) ==
    /\ TaskAt(t, "hashing")
    /\ IF ~tasks[t].steady \/ tasks[t].cancelled THEN Fails(t)
       ELSE tasks' = [tasks EXCEPT ![t].steady = FALSE,
                ![t].pc = IF ~Curated(Hashed(t)) THEN "remove"
                          ELSE IF tasks[t].hashes = "part" THEN "rename" ELSE "mark"]
    /\ UNCHANGED <<Folder, Others>>
Removes(t) ==
    /\ TaskAt(t, "remove")
    /\ IF tasks[t].hashes = "part"
       THEN part' = [part EXCEPT ![F(t)] = NoFile] /\ UNCHANGED <<final, marker>>
       ELSE /\ final' = [final EXCEPT ![F(t)] = NoFile]
            /\ marker' = [marker EXCEPT ![F(t)] = "none"]
            /\ UNCHANGED part
    /\ tasks' = [Notice(tasks, F(t), tasks[t].hashes, TRUE) EXCEPT ![t] = Left(@, FALSE)]
    /\ UNCHANGED Others
Renames(t) ==
    /\ TaskAt(t, "rename")
    /\ IF part[F(t)] = NoFile THEN Fails(t) /\ UNCHANGED Folder
       ELSE /\ final' = [final EXCEPT ![F(t)] = part[F(t)]]
            /\ part' = [part EXCEPT ![F(t)] = NoFile]
            /\ marker' = Superseded(F(t))
            /\ tasks' = [Notice(Notice(tasks, F(t), "part", TRUE), F(t), "final", FALSE)
                            EXCEPT ![t].pc = "mark"]
    /\ UNCHANGED Others
Marks(t) ==
    /\ TaskAt(t, "mark")
    /\ marker' = IF final[F(t)] = NoFile THEN marker ELSE [marker EXCEPT ![F(t)] = "this"]
    /\ IF tasks[t].hashes = "part" THEN NextFile(t) ELSE TaskGoto(t, "drop part")
    /\ UNCHANGED <<final, part, Others>>

-----------------------------------------------------------------------------
Trouble == trouble < MaxTrouble /\ trouble' = trouble + 1

\* weights_delete does not ask whether a task is at work: file, fragment and marker go,
\* one after the other.
Delete ==
    /\ deleting = <<>> /\ Trouble
    /\ deleting' = [i \in 1..(3 * NumFiles) |->
          [file |-> (i + 2) \div 3, what |-> <<"final", "part", "marker">>[((i - 1) % 3) + 1]]]
    /\ disturbed' = TRUE
    /\ UNCHANGED <<Folder, active, tasks>>
DeleteOne ==
    LET d == Head(deleting) IN
    /\ deleting # <<>> /\ deleting' = Tail(deleting)
    /\ CASE d.what = "final" -> /\ final' = [final EXCEPT ![d.file] = NoFile]
                                /\ marker' = Superseded(d.file) /\ UNCHANGED part
         [] d.what = "part" -> part' = [part EXCEPT ![d.file] = NoFile] /\ UNCHANGED <<final, marker>>
         [] OTHER -> marker' = [marker EXCEPT ![d.file] = "none"] /\ UNCHANGED <<final, part>>
    /\ tasks' = IF d.what = "marker" THEN tasks ELSE Notice(tasks, d.file, d.what, TRUE)
    /\ UNCHANGED <<active, trouble, disturbed>>

\* Another program puts a file under the name, but not in the moment between a task's
\* hash pass and its marker.
ReplaceFound(f, c) ==
    /\ Trouble /\ disturbed' = TRUE
    /\ \A t \in Tasks : ~TaskAt(t, "mark")
    /\ final' = [final EXCEPT ![f] = c]
    /\ marker' = Superseded(f)
    /\ tasks' = Notice(tasks, f, "final", TRUE)
    /\ UNCHANGED <<part, active, deleting>>

\* The client is killed: what is on the disk stays.
KillClient ==
    /\ Trouble
    /\ tasks' = [t \in Tasks |-> Resting] /\ active' = {} /\ deleting' = <<>>
    /\ disturbed' = FALSE
    /\ UNCHANGED Folder

DownloadsStep ==
    \/ \E t \in Tasks :
          \/ \E id \in Ids, kind \in {"fetch", "verify"}, f \in FilesOf : Ask(t, id, kind, f)
          \/ Register(t) \/ Leave(t) \/ LooksAtFile(t) \/ DropsPart(t)
          \/ \E total \in {LeastLen, FullLen}, resumes \in BOOLEAN : Opens(t, total, resumes)
          \/ \E source \in {"curated", "other"} : Copies(t, source)
          \/ NoSource(t) \/ EndOfStream(t) \/ HashBegins(t) \/ HashEnds(t)
          \/ Removes(t) \/ Renames(t) \/ Marks(t)
    \/ \E id \in Ids : Cancel(id)
    \/ Delete \/ DeleteOne \/ KillClient
    \/ \E f \in FilesOf, c \in FoundFinals : ReplaceFound(f, c)

\* Two tasks on one file: both asked before either had made its entry, or a
\* verification of a later file, which no entry names, met its download.  What becomes
\* of such a file nobody promises, and no behaviour is followed any further.
Overlap == \E t, u \in Tasks :
    /\ t # u /\ tasks[t].pc \notin {"rest", "leave"} /\ tasks[u].pc \notin {"rest", "leave"}
    /\ tasks[t].file = tasks[u].file

DownloadsNext == ~crossed /\ DownloadsStep /\ crossed' = Overlap'
DownloadsSpec == DownloadsInit /\ [][DownloadsNext]_downloadVars

-----------------------------------------------------------------------------
\* The marker that spares a serving client the hash vouches for nothing but the curated
\* file, whole: through resumes, cancels, deletions, other programs and kills, as long
\* as two tasks do not meet on one file.
MarkedIsCurated == ~crossed => \A f \in FilesOf : marker[f] = "this" => Curated(final[f])

\* A download that reports success with nobody else's hand in the folder leaves every
\* file of the model curated, marked, and without a fragment that would make it look
\* unfinished.
DoneIsReady ==
    \A t \in Tasks :
        TaskAt(t, "leave") /\ tasks[t].ok /\ tasks[t].kind = "fetch" /\ ~disturbed /\ ~crossed =>
        \A f \in FilesOf : Curated(final[f]) /\ marker[f] = "this" /\ part[f] = NoFile
=============================================================================
