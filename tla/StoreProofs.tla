----------------------------- MODULE StoreProofs -----------------------------
(***************************************************************************)
(* What a machine keeps on its disk is what it is called, and is kept:     *)
(* proofs about the stores of model bytes (RpcCache, ModelView,            *)
(* TensorIndex) and the desktop client's downloads (Downloads), composed   *)
(* in MCMachine, for every number of tensors, layers, parts, files, ranges *)
(* and tasks, and every bound on faults.                                   *)
(***************************************************************************)
EXTENDS MCMachine, WellFoundedInduction, TLAPS

-----------------------------------------------------------------------------
(* The cache of seeded tensors (RpcCache). *)

\* A set of naturals that is not empty has a least member.
LEMMA LeastOf ==
    ASSUME NEW T, T \subseteq Nat, T # {}
    PROVE  \E m \in T : \A k \in T : m <= k
<1> DEFINE Before == {p \in Nat \X Nat : p[1] < p[2]}
<1>1. IsWellFoundedOn(Before, Nat)
  BY NatLessThanWellFounded DEF OpToRel
<1>2. PICK m \in T : \A k \in T : <<k, m>> \notin Before
  <2> HIDE DEF Before
  <2> QED BY <1>1, WFMin
<1>3. ASSUME NEW k \in T PROVE m <= k
  <2>1. k \in Nat /\ m \in Nat /\ <<k, m>> \notin Before
    BY <1>2
  <2>2. QED BY <2>1
<1>4. QED BY <1>3
\* The stages of a seed: those at a tensor, and those past the last one.
AtTensor == {"warm", "linkWarm", "recordWarm", "resume", "activate", "link", "record"}
PastTensors == {"publish", "rename", "ready"}
Seeds == [pc : AtTensor \cup PastTensors, model : Indexes, range : SeedRanges, at : Tensors \cup {0}]
\* What is recorded of a name is what it is linked to, but for the names of `unrecorded`.
RecordsTell == \A t \in Tensors :
    record[t] # Absent => /\ record[t].bytes = <<record[t].model, t>>
                          /\ t \in unrecorded \/ link[t] \in {Absent, record[t].bytes}
\* The names of the range that the seed has passed are linked to its bytes.
Passed(t) == seed.pc \in PastTensors \/ (seed.pc \in AtTensor /\ t < seed.at)
SeedLinks ==
    seed # Idle => \A t \in Selected(seed.range) \ unrecorded : Passed(t) => link[t] = Bytes(t)
CacheInv ==
    /\ content \subseteq Indexes \X Tensors
    /\ link \in [Tensors -> (Indexes \X Tensors) \cup {Absent}]
    /\ record \in [Tensors -> [model : Indexes, bytes : Indexes \X Tensors] \cup {Absent}]
    /\ seed \in Seeds \cup {Idle}
    /\ seed.pc \in AtTensor => seed.at \in Selected(seed.range)
    /\ seed.pc \in {"record", "recordWarm"} => link[seed.at] = Bytes(seed.at)
    /\ RecordsTell /\ SeedLinks

\* The next tensor of a range, if there is one: none is passed over.
LEMMA AfterIs ==
    ASSUME NEW range \in SeedRanges, NEW t \in Nat, NEW n, n = After(range, t)
    PROVE  \/ n = 0 /\ \A u \in Selected(range) : u <= t
           \/ /\ n \in Selected(range) /\ n \in Tensors /\ t < n
              /\ \A u \in Selected(range) : u <= t \/ n <= u
<1> DEFINE rest == {u \in Selected(range) : u > t}
<1>1. \A u \in Selected(range) : u \in Tensors /\ u \in Nat
  <2>1. NTensors \in Nat
    BY CacheAssumption
  <2>2. \A u \in Tensors : u \in Nat
    BY <2>1 DEF Tensors
  <2>3. QED BY <2>2 DEF Selected
<1>0. \A u \in Selected(range) : u > t <=> ~(u <= t)
  BY <1>1
<1>2. CASE rest = {}
  <2>1. n = 0
    BY <1>2 DEF After
  <2>2. \A u \in Selected(range) : ~(u > t)
    BY <1>2
  <2>3. QED BY <1>0, <2>1, <2>2
<1>3. CASE rest # {}
  <2>1. rest \subseteq Nat
    BY <1>1
  <2>2. PICK least \in rest : \A v \in rest : least <= v
    BY <1>3, <2>1, LeastOf
  <2>3. n = CHOOSE u \in rest : \A v \in rest : u <= v
    BY <1>3 DEF After
  <2>4. n \in rest /\ \A v \in rest : n <= v
    BY <2>2, <2>3
  <2>5. n \in Selected(range) /\ n > t
    BY <2>4
  <2>6. n \in Tensors /\ t < n
    BY <1>1, <2>5
  <2>7. ASSUME NEW u \in Selected(range), ~(u <= t) PROVE n <= u
    <3>1. u > t
      BY <1>0, <2>7
    <3>2. QED BY <2>4, <2>7, <3>1
  <2>8. QED BY <2>5, <2>6, <2>7
<1>4. QED BY <1>2, <1>3

\* RpcCache starts in the invariant.
LEMMA CacheStarts ==
    ASSUME CacheInit
    PROVE  CacheInv
BY DEF CacheInit, CacheInv, RecordsTell, SeedLinks, Passed, Idle, AtTensor, PastTensors, Absent

\* On to the next tensor: what was passed, and the one that is left, are the seed's.
LEMMA Advances ==
    ASSUME seed \in Seeds, seed.at \in Tensors, NEW pc \in {"warm", "resume"},
           NEW next, next = After(seed.range, seed.at),
           NextTensor(pc) \/ (seed' = [seed EXCEPT !.pc = "ready", !.at = 0] /\ next = 0),
           \A u \in Selected(seed.range) \ unrecorded' : u <= seed.at => link'[u] = Bytes(u)
    PROVE  /\ seed' \in Seeds /\ (seed'.pc \in AtTensor => seed'.at \in Selected(seed'.range))
           /\ seed'.pc \in {pc} \cup PastTensors /\ SeedLinks'
<1>1. \/ next = 0 /\ \A u \in Selected(seed.range) : u <= seed.at
      \/ /\ next \in Selected(seed.range) /\ next \in Tensors /\ seed.at < next
         /\ \A u \in Selected(seed.range) : u <= seed.at \/ next <= u
  <2>1. seed.range \in SeedRanges
    BY DEF Seeds
  <2>2. \A u \in Tensors : u \in Nat
    BY CacheAssumption DEF Tensors
  <2>3. seed.at \in Nat
    BY <2>2
  <2>4. QED BY <2>1, <2>3, AfterIs
<1>2. PICK zero : zero = 0
  OBVIOUS
<1>4. CASE next = 0
  <2>1. PICK p \in PastTensors : seed' = [seed EXCEPT !.pc = p, !.at = zero]
    BY <1>2, <1>4 DEF NextTensor, PastTensors
  <2>2. /\ seed' \in Seeds /\ seed'.pc = p /\ seed'.model = seed.model /\ seed'.range = seed.range
    <3>1. zero \in Tensors \cup {0} /\ p \in AtTensor \cup PastTensors
      BY <1>2
    <3>2. QED BY <2>1, <3>1 DEF Seeds
  <2>3. p \notin AtTensor
    BY DEF AtTensor, PastTensors
  <2>4. SeedLinks'
    BY <1>1, <1>4, <2>2, CacheAssumption DEF SeedLinks, Bytes, Selected, Tensors
  <2>5. QED BY <2>2, <2>3, <2>4
<1>5. CASE next # 0
  <2>1. seed' = [seed EXCEPT !.pc = pc, !.at = next] /\ next \in Tensors /\ next \in Selected(seed.range)
    BY <1>1, <1>5 DEF NextTensor
  <2>2. /\ seed' \in Seeds /\ seed'.pc = pc /\ seed'.model = seed.model /\ seed'.range = seed.range
        /\ seed'.at = next /\ pc \in AtTensor
    <3>1. next \in Tensors \cup {0} /\ pc \in AtTensor
      BY <2>1 DEF AtTensor
    <3>2. QED BY <2>1, <3>1 DEF Seeds
  <2>3. pc \notin PastTensors
    BY DEF PastTensors
  <2>4. ASSUME NEW u \in Selected(seed.range) \ unrecorded', u < next
        PROVE  link'[u] = Bytes(u)
    <3>1. u \in Nat /\ next \in Nat
      BY <2>1, CacheAssumption DEF Selected, Tensors
    <3>2. ~(next <= u)
      BY <2>4, <3>1
    <3>3. QED BY <1>1, <1>5, <3>2
  <2>5. SeedLinks'
    BY <2>2, <2>3, <2>4 DEF SeedLinks, Bytes, Passed
  <2>6. QED BY <2>1, <2>2, <2>5
<1>6. QED BY <1>4, <1>5

\* The seed goes on at the same tensor.
LEMMA Stays ==
    ASSUME seed \in Seeds, seed.at \in Tensors, NEW pc \in AtTensor, SeedGoto(pc)
    PROVE  /\ seed' \in Seeds /\ seed'.pc = pc /\ seed'.at = seed.at /\ seed'.model = seed.model
           /\ seed'.range = seed.range
BY DEF SeedGoto, Seeds

\* A range is begun at its first tensor: nothing has been passed.
LEMMA Begins ==
    ASSUME NEW m \in Indexes, NEW r \in SeedRanges, NEW pc \in {"warm", "resume"}, NEW first,
           first = After(r, 0),
           seed' = [pc |-> IF first = 0 THEN "publish" ELSE pc, model |-> m, range |-> r, at |-> first]
    PROVE  /\ seed' \in Seeds /\ (seed'.pc \in AtTensor => seed'.at \in Selected(seed'.range))
           /\ seed'.pc \in {pc, "publish"} /\ SeedLinks'
<1>1. \/ first = 0 /\ \A u \in Selected(r) : u <= 0
      \/ /\ first \in Selected(r) /\ first \in Tensors /\ 0 < first
         /\ \A u \in Selected(r) : u <= 0 \/ first <= u
  <2>1. 0 \in Nat
    OBVIOUS
  <2>2. QED BY <2>1, AfterIs
<1>2. \A u \in Selected(r) : u \in Nat /\ ~(u <= 0)
  BY CacheAssumption DEF Selected, Tensors
<1>3. PICK p : p = IF first = 0 THEN "publish" ELSE pc
  OBVIOUS
<1>4. p \in AtTensor \cup PastTensors /\ (p \in AtTensor => first \in Selected(r)) /\ first \in Tensors \cup {0}
      /\ p \in {pc, "publish"}
  BY <1>1, <1>3 DEF AtTensor, PastTensors
<1>5. seed' \in Seeds /\ seed'.pc = p /\ seed'.range = r /\ seed'.at = first
  BY <1>3, <1>4 DEF Seeds
<1>6. \A u \in Selected(r) : ~Passed(u)'
  <2>1. CASE first = 0
    BY <1>1, <1>2, <2>1
  <2>2. CASE first # 0
    <3>1. first \in Nat /\ \A u \in Selected(r) : ~(u < first)
      BY <1>1, <1>2, <2>2, CacheAssumption DEF Tensors
    <3>2. p \notin PastTensors
      BY <1>3, <2>2 DEF PastTensors
    <3>3. QED BY <1>5, <3>1, <3>2 DEF Passed
  <2>3. QED BY <2>1, <2>2
<1>7. QED BY <1>4, <1>5, <1>6 DEF SeedLinks

\* A seed begins at the first tensor of its range (seed).
LEMMA SeedBegins ==
    ASSUME CacheInv, NEW m \in Indexes, NEW r \in SeedRanges, Seed(m, r)
    PROVE  CacheInv'
<1>1. PICK first : first = After(r, 0)
  OBVIOUS
<1>2. PICK pc \in {"warm", "resume"} : seed' = [pc |-> IF first = 0 THEN "publish" ELSE pc, model |-> m,
                                                  range |-> r, at |-> first]
  BY <1>1 DEF Seed
<1>3. /\ seed' \in Seeds /\ (seed'.pc \in AtTensor => seed'.at \in Selected(seed'.range))
      /\ seed'.pc \in {pc, "publish"} /\ SeedLinks'
  BY <1>1, <1>2, Begins
<1>4. RecordsTell'
  BY DEF Seed, CacheInv, RecordsTell
<1>5. QED BY <1>3, <1>4 DEF Seed, CacheInv

\* A seed that begins anew.
LEMMA BeginsAnew ==
    ASSUME CacheInv, seed.pc \in AtTensor, seed' = [seed EXCEPT !.pc = "resume", !.at = After(seed.range, 0)],
           UNCHANGED <<content, link, record, doneMarks, unrecorded, faults>>
    PROVE  CacheInv'
<1>1. seed \in Seeds /\ seed.range \in SeedRanges /\ seed.model \in Indexes /\ seed.at \in Selected(seed.range)
  BY DEF CacheInv, Seeds, Idle, AtTensor
<1>2. PICK first : first = After(seed.range, 0)
  OBVIOUS
<1>3. first # 0
  <2>1. 0 \in Nat /\ seed.at \in Nat /\ ~(seed.at <= 0)
    BY <1>1, CacheAssumption DEF Selected, Tensors
  <2>2. QED BY <1>1, <1>2, <2>1, AfterIs
<1>4. first \in Selected(seed.range) /\ first \in Tensors /\ \A u \in Selected(seed.range) : u <= 0 \/ first <= u
  <2>1. 0 \in Nat
    OBVIOUS
  <2>2. QED BY <1>1, <1>2, <1>3, <2>1, AfterIs
<1>5. /\ seed' \in Seeds /\ seed'.pc = "resume" /\ seed'.range = seed.range /\ seed'.at = first
  <2>1. first \in Tensors \cup {0} /\ "resume" \in AtTensor \cup PastTensors
    BY <1>4 DEF AtTensor
  <2>2. QED BY <1>1, <1>2, <2>1 DEF Seeds
<1>6. \A u \in Selected(seed.range) : ~Passed(u)'
  <2>1. \A u \in Selected(seed.range) : u \in Nat /\ first \in Nat /\ ~(u <= 0)
    BY <1>4, CacheAssumption DEF Selected, Tensors
  <2>2. QED BY <1>4, <1>5, <2>1 DEF Passed, PastTensors
<1>7. SeedLinks' /\ RecordsTell'
  BY <1>5, <1>6 DEF SeedLinks, CacheInv, RecordsTell
<1>8. QED BY <1>4, <1>5, <1>7 DEF CacheInv

\* A step at one tensor: its link, its record or its file.
LEMMA TensorStep ==
    ASSUME CacheInv, Resume \/ Fetch \/ Unlink \/ Link
    PROVE  CacheInv'
<1>1. /\ seed \in Seeds /\ seed.range \in SeedRanges /\ seed.model \in Indexes /\ seed.pc \in AtTensor
      /\ seed.at \in Selected(seed.range) /\ seed.at \in Tensors /\ seed # Idle
  <2>1. seed.pc \in AtTensor /\ seed # Idle
    BY DEF Resume, Fetch, Unlink, Link, AtTensor, Idle
  <2>2. QED BY <2>1 DEF CacheInv, Seeds, Selected
<1>2. Bytes(seed.at) \in Indexes \X Tensors /\ Bytes(seed.at) # Absent
  BY <1>1 DEF Bytes, Absent
<1>3. \A u \in Selected(seed.range) \ unrecorded : u < seed.at => link[u] = Bytes(u)
  BY <1>1 DEF CacheInv, SeedLinks, Passed
<1>4. \A u \in Selected(seed.range) : u \in Tensors /\ u \in Nat /\ seed.at \in Nat
      /\ (u <= seed.at <=> u < seed.at \/ u = seed.at)
  BY <1>1, CacheAssumption DEF Selected, Tensors
<1>5. CASE Resume
  <2>1. /\ record[seed.at] # Absent /\ record[seed.at].model = seed.model /\ link[seed.at] # Absent
        /\ NextTensor("resume") /\ UNCHANGED <<content, link, record, doneMarks, unrecorded, faults>>
    BY <1>5 DEF Resume, Resumable
  <2>2. seed.at \notin unrecorded => link[seed.at] = Bytes(seed.at)
    BY <1>1, <2>1 DEF CacheInv, RecordsTell, Bytes
  <2>3. \A u \in Selected(seed.range) \ unrecorded' : u <= seed.at => link'[u] = Bytes(u)
    BY <1>3, <1>4, <2>1, <2>2
  <2>4. /\ seed' \in Seeds /\ (seed'.pc \in AtTensor => seed'.at \in Selected(seed'.range))
        /\ seed'.pc \in {"resume"} \cup PastTensors /\ SeedLinks'
    BY <1>1, <2>1, <2>3, Advances
  <2>5. RecordsTell' /\ seed'.pc \notin {"record", "recordWarm"}
    BY <2>1, <2>4 DEF CacheInv, RecordsTell, PastTensors
  <2>6. QED BY <2>1, <2>4, <2>5 DEF CacheInv
<1>6. CASE Fetch
  <2>1. SeedGoto("activate") /\ content' = content \cup {Bytes(seed.at)} /\ UNCHANGED <<link, record, unrecorded>>
        /\ "activate" \in AtTensor
    BY <1>6 DEF Fetch, AtTensor
  <2>2. /\ seed' \in Seeds /\ seed'.pc = "activate" /\ seed'.at = seed.at /\ seed'.model = seed.model
        /\ seed'.range = seed.range
    BY <1>1, <2>1, Stays
  <2>3. RecordsTell'
    BY <2>1 DEF CacheInv, RecordsTell
  <2>4. SeedLinks'
    BY <1>3, <2>1, <2>2 DEF SeedLinks, Passed, Bytes, PastTensors
  <2>5. QED BY <1>1, <1>2, <2>1, <2>2, <2>3, <2>4 DEF CacheInv
<1>7. CASE Unlink
  <2>1. PICK pc \in {"link", "linkWarm"} : SeedGoto(pc)
    BY <1>7 DEF Unlink
  <2>2. pc \in AtTensor /\ pc \notin PastTensors /\ pc \notin {"record", "recordWarm"}
    BY <2>1 DEF AtTensor, PastTensors
  <2>3. /\ seed' \in Seeds /\ seed'.pc = pc /\ seed'.at = seed.at /\ seed'.model = seed.model
        /\ seed'.range = seed.range
    BY <1>1, <2>1, <2>2, Stays
  <2>4. /\ link' = [link EXCEPT ![seed.at] = Absent] /\ UNCHANGED <<content, record, unrecorded>>
        /\ link' \in [Tensors -> (Indexes \X Tensors) \cup {Absent}]
    BY <1>7 DEF Unlink, CacheInv
  <2>5. \A u \in Tensors : link'[u] = IF u = seed.at THEN Absent ELSE link[u]
    BY <2>4 DEF CacheInv
  <2>6. RecordsTell'
    BY <2>4, <2>5 DEF CacheInv, RecordsTell
  <2>7. SeedLinks'
    BY <1>3, <1>4, <2>2, <2>3, <2>4, <2>5 DEF SeedLinks, Passed, Bytes
  <2>8. QED BY <1>1, <2>2, <2>3, <2>4, <2>6, <2>7 DEF CacheInv
<1>8. CASE Link
  <2>1. PICK pc \in {"record", "recordWarm"} : SeedGoto(pc)
    BY <1>8 DEF Link
  <2>2. pc \in AtTensor /\ pc \notin PastTensors
    BY <2>1 DEF AtTensor, PastTensors
  <2>3. /\ seed' \in Seeds /\ seed'.pc = pc /\ seed'.at = seed.at /\ seed'.model = seed.model
        /\ seed'.range = seed.range
    BY <1>1, <2>1, <2>2, Stays
  <2>4. /\ link' = [link EXCEPT ![seed.at] = Bytes(seed.at)] /\ UNCHANGED <<content, record>>
        /\ unrecorded' = unrecorded \cup {seed.at}
        /\ link' \in [Tensors -> (Indexes \X Tensors) \cup {Absent}]
    BY <1>2, <1>8 DEF Link, CacheInv
  <2>5. \A u \in Tensors : link'[u] = IF u = seed.at THEN Bytes(seed.at) ELSE link[u]
    BY <2>4 DEF CacheInv
  <2>6. RecordsTell'
    BY <2>4, <2>5 DEF CacheInv, RecordsTell
  <2>7. SeedLinks'
    BY <1>3, <1>4, <2>2, <2>3, <2>4, <2>5 DEF SeedLinks, Passed, Bytes
  <2>8. (link[seed.at] = Bytes(seed.at))'
    BY <1>1, <2>3, <2>5 DEF Bytes
  <2>9. QED BY <1>1, <2>2, <2>3, <2>4, <2>6, <2>7, <2>8 DEF CacheInv
<1>9. QED BY <1>5, <1>6, <1>7, <1>8

\* The link is recorded, or the record is emptied, or the old one stays and the name is one of
\* `unrecorded`.
LEMMA RecordStep ==
    ASSUME CacheInv, NEW written \in {"all", "nothing", "unopened"}, Record(written)
    PROVE  CacheInv'
<1>1. /\ seed \in Seeds /\ seed.range \in SeedRanges /\ seed.model \in Indexes
      /\ seed.pc \in {"record", "recordWarm"} /\ link[seed.at] = Bytes(seed.at)
      /\ seed.at \in Selected(seed.range) /\ seed.at \in Tensors /\ seed # Idle
  <2>1. seed.pc \in {"record", "recordWarm"} /\ seed.pc \in AtTensor /\ seed # Idle
    BY DEF Record, AtTensor, Idle
  <2>2. QED BY <2>1 DEF CacheInv, Seeds, Selected
<1>2. Bytes(seed.at) \in Indexes \X Tensors /\ Bytes(seed.at) # Absent
  BY <1>1 DEF Bytes, Absent
<1>3. \A u \in Selected(seed.range) \ unrecorded : u < seed.at => link[u] = Bytes(u)
  BY <1>1 DEF CacheInv, SeedLinks, Passed, AtTensor
<1>4. \A u \in Selected(seed.range) : u \in Tensors /\ u \in Nat /\ seed.at \in Nat
      /\ (u <= seed.at <=> u < seed.at \/ u = seed.at)
  BY <1>1, CacheAssumption DEF Selected, Tensors
<1>5. UNCHANGED <<content, link, doneMarks>> /\ \A u \in Tensors : u # seed.at => (u \in unrecorded' <=> u \in unrecorded)
  BY DEF Record
<1>6. \A u \in Selected(seed.range) \ unrecorded' : u <= seed.at => link'[u] = Bytes(u)
  BY <1>1, <1>3, <1>4, <1>5
<1>7. PICK pc \in {"warm", "resume"} :
          NextTensor(pc) \/ (seed' = [seed EXCEPT !.pc = "ready", !.at = 0] /\ After(seed.range, seed.at) = 0)
  BY DEF Record
<1>8. /\ seed' \in Seeds /\ (seed'.pc \in AtTensor => seed'.at \in Selected(seed'.range))
      /\ seed'.pc \in {pc} \cup PastTensors /\ SeedLinks'
  BY <1>1, <1>6, <1>7, Advances
<1>9. seed'.pc \notin {"record", "recordWarm"}
  BY <1>8 DEF PastTensors
<1>10. /\ record' \in [Tensors -> [model : Indexes, bytes : Indexes \X Tensors] \cup {Absent}]
       /\ \A u \in Tensors : u # seed.at => record'[u] = record[u]
  <2>1. record \in [Tensors -> [model : Indexes, bytes : Indexes \X Tensors] \cup {Absent}]
    BY DEF CacheInv
  <2>2. PICK r \in [model : Indexes, bytes : Indexes \X Tensors] \cup {Absent} :
            record' = record \/ record' = [record EXCEPT ![seed.at] = r]
    <3>1. [model |-> seed.model, bytes |-> Bytes(seed.at)] \in [model : Indexes, bytes : Indexes \X Tensors]
      BY <1>1, <1>2
    <3>2. QED BY <3>1 DEF Record
  <2>3. QED BY <1>1, <2>1, <2>2
<1>11. record'[seed.at] # Absent =>
           /\ record'[seed.at].bytes = <<record'[seed.at].model, seed.at>>
           /\ seed.at \in unrecorded' \/ link[seed.at] = record'[seed.at].bytes
              \/ (record'[seed.at] = record[seed.at] /\ (seed.at \in unrecorded' <=> seed.at \in unrecorded))
  <2>1. CASE written = "all"
    <3>1. record'[seed.at] = [model |-> seed.model, bytes |-> Bytes(seed.at)]
      BY <1>1, <2>1 DEF Record, CacheInv
    <3>2. QED BY <1>1, <3>1 DEF Bytes
  <2>2. CASE written = "nothing"
    BY <1>1, <2>2 DEF Record, CacheInv
  <2>3. CASE written = "unopened"
    BY <1>1, <2>3 DEF Record, CacheInv, RecordsTell
  <2>4. QED BY <2>1, <2>2, <2>3
<1>12. RecordsTell'
  BY <1>1, <1>5, <1>10, <1>11 DEF CacheInv, RecordsTell
<1>13. QED BY <1>5, <1>8, <1>9, <1>10, <1>12 DEF CacheInv

\* Every step of the cache keeps the invariant.
LEMMA CacheStepKeeps ==
    ASSUME CacheInv, [CacheNext]_cacheVars
    PROVE  CacheInv'
<1>1. ASSUME NEW m \in Indexes, NEW r \in SeedRanges, Seed(m, r)
      PROVE  CacheInv'
  BY <1>1, SeedBegins
<1>2. CASE WarmMiss
  <2>1. seed.pc \in AtTensor
    BY <1>2 DEF WarmMiss, AtTensor
  <2>2. QED BY <1>2, <2>1, BeginsAnew DEF WarmMiss
<1>3. CASE Resume \/ Fetch \/ Unlink \/ Link
  BY <1>3, TensorStep
<1>4. ASSUME NEW written \in {"all", "nothing", "unopened"}, Record(written)
      PROVE  CacheInv'
  BY <1>4, RecordStep
<1>5. CASE ActivateFails
  <2>1. seed.pc \in AtTensor
    BY <1>5 DEF ActivateFails, AtTensor
  <2>2. CASE seed.pc = "linkWarm"
    BY <1>5, <2>1, <2>2, BeginsAnew DEF ActivateFails
  <2>3. CASE seed.pc # "linkWarm"
    BY <1>5, <2>3 DEF ActivateFails, CacheInv, RecordsTell, SeedLinks, Idle, AtTensor
  <2>4. QED BY <2>2, <2>3
<1>6. CASE Withdraw \/ Rename
  <2>1. seed.pc \in PastTensors /\ seed \in Seeds
    BY <1>6 DEF Withdraw, Rename, CacheInv, Idle, PastTensors
  <2>2. PICK pc \in {"rename", "ready"} : seed' = [seed EXCEPT !.pc = pc]
    BY <1>6 DEF Withdraw, Rename, SeedGoto
  <2>3. pc \in PastTensors /\ pc \notin AtTensor /\ pc \notin {"record", "recordWarm"}
    BY <2>2 DEF PastTensors, AtTensor
  <2>4. seed' \in Seeds /\ seed'.pc = pc /\ seed'.at = seed.at /\ seed'.model = seed.model /\ seed'.range = seed.range
    BY <2>1, <2>2, <2>3 DEF Seeds
  <2>5. UNCHANGED <<content, link, record, unrecorded>>
    BY <1>6 DEF Withdraw, Rename
  <2>6. seed # Idle
    BY <2>1 DEF Idle, PastTensors
  <2>7. RecordsTell' /\ SeedLinks'
    BY <2>1, <2>3, <2>4, <2>5, <2>6 DEF CacheInv, RecordsTell, SeedLinks, Passed, Bytes
  <2>8. QED BY <2>3, <2>4, <2>5, <2>7 DEF CacheInv
<1>7. CASE Release
  BY <1>7 DEF Release, CacheInv, RecordsTell, SeedLinks, Idle, AtTensor
<1>8. CASE Stop
  <2>1. seed' = Idle /\ UNCHANGED <<content, link>>
    BY <1>8 DEF Stop
  <2>2. /\ record' \in [Tensors -> [model : Indexes, bytes : Indexes \X Tensors] \cup {Absent}]
        /\ RecordsTell'
    BY <1>8 DEF Stop, CacheInv, RecordsTell
  <2>3. QED BY <2>1, <2>2 DEF CacheInv, SeedLinks, Idle, AtTensor
<1>9. ASSUME NEW c \in content, LoseContent(c)
      PROVE  CacheInv'
  BY <1>9 DEF LoseContent, CacheInv, RecordsTell, SeedLinks, Passed, Bytes
<1>10. CASE UNCHANGED cacheVars
  BY <1>10 DEF cacheVars, CacheInv, RecordsTell, SeedLinks, Passed, Bytes
<1>11. QED BY <1>1, <1>2, <1>3, <1>4, <1>5, <1>6, <1>7, <1>8, <1>9, <1>10 DEF CacheNext, SeedStep

\* A range that is ready is linked to its model's bytes, and what is fetched was not there.
LEMMA CacheInvIsEnough ==
    ASSUME CacheInv
    PROVE  /\ SeededNamesAreTheirs
           /\ Fetch => \/ link[seed.at] # Bytes(seed.at) \/ Bytes(seed.at) \notin content
                       \/ record[seed.at] = Absent \/ seed.at \in unrecorded
<1>1. SeededNamesAreTheirs
  BY DEF CacheInv, SeedLinks, SeededNamesAreTheirs, Passed, PastTensors, Idle
<1>2. ASSUME Fetch, link[seed.at] = Bytes(seed.at), Bytes(seed.at) \in content, record[seed.at] # Absent,
             seed.at \notin unrecorded
      PROVE  FALSE
  <2>1. seed.pc \in AtTensor /\ seed.at \in Tensors
    BY <1>2 DEF Fetch, AtTensor, CacheInv, Selected
  <2>2. /\ record[seed.at].bytes = <<record[seed.at].model, seed.at>>
        /\ link[seed.at] \in {Absent, record[seed.at].bytes}
    BY <1>2, <2>1 DEF CacheInv, RecordsTell
  <2>3. link[seed.at] # Absent
    BY <1>2 DEF Bytes, Absent
  <2>4. record[seed.at].bytes = Bytes(seed.at) /\ record[seed.at].model = seed.model
    BY <1>2, <2>2, <2>3 DEF Bytes
  <2>5. QED BY <1>2, <2>3, <2>4 DEF Fetch, Resumable
<1>3. QED BY <1>1, <1>2

-----------------------------------------------------------------------------
(* Partial copies and their markers (ModelView). *)

\* A call that is under way.
Calling == {"open", "fetch", "publish", "rename"}
PreparedTypeOK ==
    /\ kind \in {"file", "split", "shard"} /\ repo \in Nat \ {0}
    /\ file \in [Parts -> [size : Nat, has : SUBSET (IndexTensors \X Nat)]]
    /\ mark \in {NoMark} \cup 0..NLayers /\ unwithdrawn \in BOOLEAN
    /\ prep \in [pc : {"idle", "ready", "failed"} \cup Calling, hi : 0..NLayers, warm : BOOLEAN,
                 from : 0..NLayers, part : Parts \cup {0}, todo : SUBSET IndexTensors]
    /\ prep.pc \in Calling => prep.part \in Parts
    /\ \A p \in Parts : file[p].size <= repo
\* What each kind of copy may be left with.
KindsApart ==
    /\ kind = "file" => ~unwithdrawn
    /\ kind = "shard" => /\ mark \in {NoMark, NLayers} /\ ~prep.warm
                         /\ prep.pc \in Calling => prep.hi = NLayers
\* A call that builds anew has no marker to answer for; one that extends has every file open in
\* full size.
CallFrom ==
    prep.pc \in Calling =>
        IF prep.warm THEN \A p \in Parts : file[p].size = repo
        ELSE prep.from = 0 /\ (mark = NoMark \/ unwithdrawn)
\* What a call has yet to fetch: all that is not there.
Due(p, t) ==
    \/ /\ p > prep.part \/ (prep.pc = "open" /\ p = prep.part)
       /\ prep.pc \in {"open", "fetch"}
       /\ prep.warm => t \in PartRanges(p, prep.from, prep.hi, FALSE)
    \/ prep.pc = "fetch" /\ p = prep.part /\ t \in prep.todo
Fetched ==
    prep.pc \in Calling /\ ~(prep.warm /\ unwithdrawn) =>
        \A p \in Parts : \A t \in PartRanges(p, 0, prep.hi, TRUE) : Holds(p, t) \/ Due(p, t)
MarkTells == unwithdrawn \/ (Valid => Whole(mark))
ReadyTells == unwithdrawn \/ (prep.pc = "ready" => Whole(prep.hi))
ViewInv == PreparedTypeOK /\ KindsApart /\ CallFrom /\ Fetched /\ MarkTells /\ ReadyTells

\* The parts are numbered, and so are the layers.
LEMMA PartsAre ==
    ASSUME kind \in {"file", "split", "shard"}
    PROVE  /\ 1 \in Parts /\ \A p \in Parts : p \in Nat /\ p >= 1
           /\ \A p, q \in Parts : q + 1 \notin Parts => p <= q
           /\ \A t \in IndexTensors : t[2] \in Int
<1>1. NParts \in Nat \ {0} /\ NLayers \in Nat \ {0}
  BY ViewAssumption
<1>2. \A t \in IndexTensors : t[2] \in Int
  BY <1>1 DEF IndexTensors
<1>3. CASE kind = "split"
  BY <1>1, <1>2, <1>3 DEF Parts
<1>4. CASE kind # "split"
  BY <1>1, <1>2, <1>4 DEF Parts
<1>5. QED BY <1>3, <1>4
\* A view of the layers before hi is one of those before `from`, and the rest.
LEMMA RangesAre ==
    ASSUME kind \in {"file", "split", "shard"}, NEW p, NEW from \in Nat, NEW hi \in Nat,
           NEW t \in PartRanges(p, 0, hi, TRUE)
    PROVE  /\ t \in PartRanges(p, 0, from, TRUE) \/ t \in PartRanges(p, from, hi, FALSE)
           /\ hi <= from => t \in PartRanges(p, 0, from, TRUE)
           /\ t \in IndexTensors /\ t[1] = p
BY PartsAre DEF PartRanges
\* A view that covers more covers less.
LEMMA WholeBelow ==
    ASSUME kind \in {"file", "split", "shard"}, NEW hi \in Nat, NEW more \in Nat, hi <= more, Whole(more)
    PROVE  Whole(hi)
BY RangesAre DEF Whole

\* ModelView starts in the invariant.
LEMMA ViewStarts ==
    ASSUME ViewInit
    PROVE  ViewInv
<1>1. NLayers \in Nat \ {0}
  BY ViewAssumption
<1>2. file \in [Parts -> [size : Nat, has : SUBSET (IndexTensors \X Nat)]] /\ \A p \in Parts : file[p].size = 0
  BY DEF ViewInit, Missing
<1>3. Quiet \in [pc : {"idle", "ready", "failed"} \cup Calling, hi : 0..NLayers, warm : BOOLEAN,
                 from : 0..NLayers, part : Parts \cup {0}, todo : SUBSET IndexTensors]
      /\ Quiet.pc = "idle" /\ ~Quiet.warm
  BY <1>1 DEF Quiet
<1>4. PreparedTypeOK
  <2>1. /\ kind \in {"file", "split", "shard"} /\ repo \in Nat \ {0} /\ repo = 1 /\ mark \in {NoMark} \cup 0..NLayers
        /\ prep = Quiet
    BY DEF ViewInit
  <2>0. unwithdrawn \in BOOLEAN
    BY DEF ViewInit
  <2>2. \A p \in Parts : file[p].size <= repo
    BY <1>2, <2>1
  <2>3. prep.pc \notin Calling
    BY <1>3, <2>1 DEF Calling
  <2>4. QED BY <1>2, <1>3, <2>0, <2>1, <2>2, <2>3 DEF PreparedTypeOK
<1>5. QED BY <1>3, <1>4 DEF ViewInit, ViewInv, KindsApart, CallFrom, Fetched, MarkTells, ReadyTells, Calling, Valid

\* A call begins, with the marker it finds.
LEMMA PrepareKeeps ==
    ASSUME ViewInv, NEW hi \in 0..NLayers, Prepare(hi)
    PROVE  ViewInv'
<1>1. /\ prep.pc = "idle" /\ (kind = "shard" => hi = NLayers) /\ UNCHANGED <<kind, repo, wrong>>
      /\ hi \in Nat /\ NLayers \in Nat /\ kind \in {"file", "split", "shard"} /\ repo \in Nat \ {0}
      /\ mark \in Int /\ (mark # NoMark => mark \in 0..NLayers)
  BY ViewAssumption DEF Prepare, ViewInv, PreparedTypeOK, NoMark
<1>2. Parts' = Parts /\ IndexTensors' = IndexTensors /\ 1 \in Parts /\ \A p \in Parts : p \in Nat /\ p >= 1
  BY <1>1, PartsAre DEF Parts, IndexTensors, PartOf
<1>3. CASE Valid /\ mark >= hi
  <2>1. prep' = [Quiet EXCEPT !.pc = "ready", !.hi = hi] /\ UNCHANGED <<file, mark, unwithdrawn>>
    BY <1>3 DEF Prepare
  <2>2. /\ prep' \in [pc : {"idle", "ready", "failed"} \cup Calling, hi : 0..NLayers, warm : BOOLEAN,
                      from : 0..NLayers, part : Parts \cup {0}, todo : SUBSET IndexTensors]
        /\ prep'.pc = "ready" /\ prep'.hi = hi /\ ~prep'.warm
    <3>1. PICK quiet : quiet = Quiet
      OBVIOUS
    <3>2. quiet \in [pc : {"idle", "ready", "failed"} \cup Calling, hi : 0..NLayers, warm : BOOLEAN,
                     from : 0..NLayers, part : Parts \cup {0}, todo : SUBSET IndexTensors]
          /\ quiet.warm = FALSE
      BY <1>1, <3>1 DEF Quiet
    <3>3. prep' = [quiet EXCEPT !.pc = "ready", !.hi = hi]
      BY <2>1, <3>1
    <3>4. QED BY <1>1, <3>2, <3>3
  <2>3. PreparedTypeOK'
    BY <1>1, <1>2, <2>1, <2>2 DEF ViewInv, PreparedTypeOK, Calling
  <2>4. unwithdrawn \/ Whole(hi)
    BY <1>1, <1>3, WholeBelow DEF ViewInv, MarkTells, Valid
  <2>5. (Whole(hi) => (Whole(prep.hi))') /\ (Valid' => Valid) /\ (Whole(mark) => Whole(mark)')
    BY <1>1, <1>2, <2>1, <2>2 DEF Whole, Holds, Valid, PartRanges
  <2>6. MarkTells' /\ ReadyTells'
    BY <2>1, <2>4, <2>5 DEF ViewInv, MarkTells, ReadyTells
  <2>7. KindsApart' /\ CallFrom' /\ Fetched'
    BY <1>1, <2>1, <2>2 DEF ViewInv, KindsApart, CallFrom, Fetched, Calling
  <2>8. QED BY <2>3, <2>6, <2>7 DEF ViewInv
<1>4. CASE ~(Valid /\ mark >= hi)
  <2> DEFINE warm == Valid /\ kind # "shard"
  <2>1. prep' = [pc |-> "open", hi |-> hi, warm |-> warm, from |-> IF warm THEN mark ELSE 0, part |-> 1, todo |-> {}]
    BY <1>4 DEF Prepare
  <2>2. PICK from \in 0..NLayers : from = (IF warm THEN mark ELSE 0)
    BY <1>1 DEF Valid
  <2>3. warm \in BOOLEAN
    BY DEF Valid
  <2>4. /\ prep' \in [pc : {"idle", "ready", "failed"} \cup Calling, hi : 0..NLayers, warm : BOOLEAN,
                      from : 0..NLayers, part : Parts \cup {0}, todo : SUBSET IndexTensors]
        /\ prep'.pc = "open" /\ prep'.hi = hi /\ prep'.warm = warm /\ prep'.from = from /\ prep'.part = 1
    <3> HIDE DEF warm
    <3>1. prep' = [pc |-> "open", hi |-> hi, warm |-> warm, from |-> from, part |-> 1, todo |-> {}]
      BY <2>1, <2>2
    <3>2. QED BY <1>2, <2>2, <2>3, <3>1 DEF Calling
  <2>d. ~warm => Fetched'
    <3>1. ASSUME ~warm, NEW p \in Parts, NEW t
          PROVE  Due(p, t)'
      <4>1. prep'.warm = FALSE
        BY <2>4, <3>1
      <4>2. p > prep'.part \/ p = prep'.part
        BY <1>2, <2>4
      <4>3. QED BY <2>4, <4>1, <4>2 DEF Due
    <3>2. QED BY <1>2, <3>1 DEF Fetched
  <2>5. CASE kind = "file" /\ ~warm
    <3>1. mark' = NoMark /\ unwithdrawn' = FALSE /\ file' = [file EXCEPT ![1] = Missing]
      BY <1>4, <2>5 DEF Prepare
    <3>2. /\ file' \in [Parts -> [size : Nat, has : SUBSET (IndexTensors \X Nat)]]
          /\ \A p \in Parts : file'[p].size <= repo
      BY <1>1, <1>2, <3>1 DEF ViewInv, PreparedTypeOK, Missing
    <3>3. PreparedTypeOK'
      BY <1>1, <1>2, <2>4, <3>1, <3>2 DEF PreparedTypeOK, Calling
    <3>4. KindsApart' /\ CallFrom' /\ MarkTells' /\ ReadyTells'
      BY <1>1, <2>2, <2>4, <2>5, <3>1 DEF KindsApart, CallFrom, MarkTells, ReadyTells, Valid
    <3>5. Fetched'
      BY <2>5, <2>d
    <3>6. QED BY <3>3, <3>4, <3>5 DEF ViewInv
  <2>6. CASE ~(kind = "file" /\ ~warm)
    <3>1. unwithdrawn' = (IF warm THEN unwithdrawn ELSE mark # NoMark) /\ UNCHANGED <<file, mark>>
      BY <1>4, <2>6 DEF Prepare
    <3>2. PreparedTypeOK'
      BY <1>1, <1>2, <2>4, <3>1 DEF ViewInv, PreparedTypeOK, Calling
    <3>3. KindsApart' /\ CallFrom'
      BY <1>1, <1>2, <2>2, <2>4, <2>6, <3>1 DEF ViewInv, KindsApart, CallFrom, Valid
    <3>4. (Valid' => Valid) /\ (Whole(mark) => Whole(mark)')
      BY <1>1, <1>2, <3>1 DEF Valid, Whole, Holds, PartRanges
    <3>5. MarkTells' /\ ReadyTells'
      BY <2>4, <3>1, <3>4 DEF ViewInv, MarkTells, ReadyTells, Valid
    <3>6. CASE warm
      <4>1. ASSUME ~unwithdrawn, NEW p \in Parts, NEW t \in PartRanges(p, 0, hi, TRUE)
            PROVE  Holds(p, t) \/ t \in PartRanges(p, from, hi, FALSE)
        <5>1. t \in PartRanges(p, 0, mark, TRUE) \/ t \in PartRanges(p, from, hi, FALSE)
          <6>1. from = mark
            BY <2>2, <3>6
          <6>2. from \in Nat
            BY <1>1
          <6>3. QED BY <1>1, <4>1, <6>1, <6>2, RangesAre
        <5>2. Whole(mark)
          BY <3>6, <4>1 DEF ViewInv, MarkTells
        <5>3. QED BY <4>1, <5>1, <5>2 DEF Whole
      <4>2. Fetched'
        BY <1>1, <1>2, <2>4, <3>1, <3>6, <4>1 DEF Fetched, Due, Holds, PartRanges
      <4>3. QED BY <3>2, <3>3, <3>5, <4>2 DEF ViewInv
    <3>7. CASE ~warm
      <4>1. Fetched'
        BY <2>d, <3>7
      <4>2. QED BY <3>2, <3>3, <3>5, <4>1 DEF ViewInv
    <3>8. QED BY <3>6, <3>7
  <2>7. QED BY <2>5, <2>6
<1>5. QED BY <1>3, <1>4

\* What a step of a call must keep: the files gain, and what is due is fetched or stays due.
PrepSet == [pc : {"idle", "ready", "failed"} \cup Calling, hi : 0..NLayers, warm : BOOLEAN,
            from : 0..NLayers, part : Parts \cup {0}, todo : SUBSET IndexTensors]

\* What a call under way is.
LEMMA CallIs ==
    ASSUME ViewInv, prep.pc \in Calling
    PROVE  /\ prep \in PrepSet /\ prep.part \in Parts /\ prep.part \in Nat /\ prep.hi \in Nat /\ prep.from \in Nat
           /\ prep.hi \in 0..NLayers /\ NLayers \in Nat /\ prep.warm \in BOOLEAN
           /\ kind \in {"file", "split", "shard"} /\ repo \in Nat \ {0}
           /\ file \in [Parts -> [size : Nat, has : SUBSET (IndexTensors \X Nat)]]
<1>1. prep \in PrepSet /\ prep.part \in Parts /\ kind \in {"file", "split", "shard"} /\ repo \in Nat \ {0}
      /\ file \in [Parts -> [size : Nat, has : SUBSET (IndexTensors \X Nat)]]
  BY DEF ViewInv, PreparedTypeOK, PrepSet
<1>2. NLayers \in Nat /\ prep.hi \in 0..NLayers /\ prep.from \in 0..NLayers
  BY <1>1, ViewAssumption DEF PrepSet
<1>3. prep.warm \in BOOLEAN
  BY <1>1 DEF PrepSet
<1>4. prep.part \in Nat
  BY <1>1, PartsAre
<1>5. QED BY <1>1, <1>2, <1>3, <1>4

\* The part is opened in its full size.
LEMMA OpenKeeps ==
    ASSUME ViewInv, Open
    PROVE  ViewInv'
<1>1. prep.pc = "open" /\ prep.pc \in Calling /\ UNCHANGED <<kind, repo, mark, unwithdrawn, wrong>>
  BY DEF Open, Calling
<1>2. /\ prep \in PrepSet /\ prep.part \in Parts /\ prep.part \in Nat /\ prep.hi \in Nat /\ prep.from \in Nat
      /\ prep.hi \in 0..NLayers /\ NLayers \in Nat /\ prep.warm \in BOOLEAN
      /\ kind \in {"file", "split", "shard"} /\ repo \in Nat \ {0}
      /\ file \in [Parts -> [size : Nat, has : SUBSET (IndexTensors \X Nat)]]
  BY <1>1, CallIs
<1>3. Parts' = Parts /\ IndexTensors' = IndexTensors
      /\ \A p, lo, hi, s : PartRanges(p, lo, hi, s)' = PartRanges(p, lo, hi, s)
  BY <1>1 DEF Parts, IndexTensors, PartOf, PartRanges
<1>4. PICK kept : kept = IF kind = "split" /\ ~prep.warm THEN {} ELSE file[prep.part].has
  OBVIOUS
<1>5. kept \in SUBSET (IndexTensors \X Nat)
  BY <1>2, <1>4
<1>6. /\ file' = [file EXCEPT ![prep.part] = [size |-> repo, has |-> kept]]
      /\ file' \in [Parts -> [size : Nat, has : SUBSET (IndexTensors \X Nat)]]
      /\ \A p \in Parts : file'[p] = IF p = prep.part THEN [size |-> repo, has |-> kept] ELSE file[p]
  BY <1>2, <1>4, <1>5 DEF Open
<1>7. PICK todo \in SUBSET IndexTensors : todo = PartRanges(prep.part, prep.from, prep.hi, ~prep.warm)
  BY DEF PartRanges
<1>8. /\ prep' \in PrepSet /\ prep'.pc = "fetch" /\ prep'.hi = prep.hi /\ prep'.warm = prep.warm
      /\ prep'.from = prep.from /\ prep'.part = prep.part /\ prep'.todo = todo
  BY <1>2, <1>7 DEF Open, PrepSet, Calling
<1>9. PreparedTypeOK'
  <2>1. \A p \in Parts : file'[p].size <= repo
    BY <1>2, <1>6 DEF ViewInv, PreparedTypeOK
  <2>2. PrepSet' = PrepSet
    BY <1>3 DEF PrepSet
  <2>3. QED BY <1>1, <1>2, <1>3, <1>6, <1>8, <2>1, <2>2 DEF ViewInv, PreparedTypeOK, PrepSet
<1>10. KindsApart'
  BY <1>1, <1>8 DEF ViewInv, KindsApart
<1>11. CallFrom'
  BY <1>1, <1>3, <1>6, <1>8 DEF ViewInv, CallFrom
<1>12. \A t : \A p \in Parts : Holds(p, t) /\ (p # prep.part \/ kind # "split" \/ prep.warm) => Holds(p, t)'
  BY <1>1, <1>4, <1>6 DEF Holds
<1>13. Fetched'
  <2>1. ASSUME ~(prep.warm /\ unwithdrawn), NEW p \in Parts, NEW t \in PartRanges(p, 0, prep.hi, TRUE)
        PROVE  Holds(p, t)' \/ Due(p, t)'
    <3>1. p \in Nat
      BY <1>2, PartsAre
    <3>2. Holds(p, t) \/ Due(p, t)
      BY <1>1, <2>1 DEF ViewInv, Fetched
    <3>3. CASE p # prep.part
      <4>1. Due(p, t) => Due(p, t)'
        BY <1>1, <1>2, <1>3, <1>8, <3>1, <3>3 DEF Due
      <4>2. QED BY <1>12, <2>1, <3>2, <3>3, <4>1
    <3>4. CASE p = prep.part
      <4>1. CASE prep.warm
        <5>1. Due(p, t) => t \in todo
          BY <1>1, <1>7, <3>4, <4>1 DEF Due
        <5>2. QED BY <1>8, <1>12, <2>1, <3>2, <3>4, <4>1, <5>1 DEF Due
      <4>2. CASE ~prep.warm
        <5>1. prep.from = 0
          BY <1>1, <4>2 DEF ViewInv, CallFrom
        <5>2. t \in todo
          BY <1>2, <1>7, <2>1, <3>4, <4>2, <5>1
        <5>3. QED BY <1>8, <3>4, <5>2 DEF Due
      <4>3. QED BY <4>1, <4>2
    <3>5. QED BY <3>3, <3>4
  <2>2. QED BY <1>1, <1>3, <1>8, <2>1 DEF Fetched
<1>14. MarkTells'
  <2>1. CASE prep.warm
    <3>1. \A t : \A p \in Parts : Holds(p, t) => Holds(p, t)'
      BY <1>12, <2>1
    <3>2. Valid' => Valid
      BY <1>1, <1>3, <2>1 DEF ViewInv, CallFrom, Valid
    <3>3. Whole(mark) => Whole(mark)'
      BY <1>1, <1>3, <3>1 DEF Whole
    <3>4. QED BY <1>1, <3>2, <3>3 DEF ViewInv, MarkTells
  <2>2. CASE ~prep.warm
    BY <1>1, <2>2 DEF ViewInv, CallFrom, MarkTells, Valid
  <2>3. QED BY <2>1, <2>2
<1>15. ReadyTells'
  BY <1>8 DEF ReadyTells
<1>16. QED BY <1>9, <1>10, <1>11, <1>13, <1>14, <1>15 DEF ViewInv

\* A range is fetched, and is due no more.
LEMMA FetchKeeps ==
    ASSUME ViewInv, NEW t \in IndexTensors, FetchRange(t)
    PROVE  ViewInv'
<1>1. prep.pc = "fetch" /\ prep.pc \in Calling /\ t \in prep.todo /\ UNCHANGED <<kind, repo, mark, unwithdrawn, wrong>>
  BY DEF FetchRange, Calling
<1>2. /\ prep \in PrepSet /\ prep.part \in Parts /\ prep.part \in Nat /\ prep.hi \in Nat /\ prep.from \in Nat
      /\ prep.hi \in 0..NLayers /\ NLayers \in Nat /\ prep.warm \in BOOLEAN
      /\ kind \in {"file", "split", "shard"} /\ repo \in Nat \ {0}
      /\ file \in [Parts -> [size : Nat, has : SUBSET (IndexTensors \X Nat)]]
  BY <1>1, CallIs
<1>3. Parts' = Parts /\ IndexTensors' = IndexTensors
      /\ \A p, lo, hi, s : PartRanges(p, lo, hi, s)' = PartRanges(p, lo, hi, s)
  BY <1>1 DEF Parts, IndexTensors, PartOf, PartRanges
<1>4. PICK has : has = {x \in file[prep.part].has : x[1] # t} \cup {<<t, repo>>}
  OBVIOUS
<1>5. has \in SUBSET (IndexTensors \X Nat)
  <2>1. file[prep.part].has \in SUBSET (IndexTensors \X Nat) /\ <<t, repo>> \in IndexTensors \X Nat
    BY <1>2
  <2>2. QED BY <1>4, <2>1
<1>6. /\ file' \in [Parts -> [size : Nat, has : SUBSET (IndexTensors \X Nat)]]
      /\ \A p \in Parts : file'[p] = IF p = prep.part THEN [file[p] EXCEPT !.has = has] ELSE file[p]
  <2>1. file' = [file EXCEPT ![prep.part].has = has]
    BY <1>4 DEF FetchRange
  <2>2. QED BY <1>2, <1>5, <2>1
<1>7. \A p \in Parts : /\ file'[p].size = file[p].size
                       /\ file'[p].has = IF p = prep.part THEN has ELSE file[p].has
  BY <1>2, <1>5, <1>6
<1>8. /\ prep' \in PrepSet /\ prep'.pc = "fetch" /\ prep'.hi = prep.hi /\ prep'.warm = prep.warm
      /\ prep'.from = prep.from /\ prep'.part = prep.part /\ prep'.todo = prep.todo \ {t}
  <2>1. PICK todo : todo = prep.todo \ {t}
    OBVIOUS
  <2>2. todo \in SUBSET IndexTensors
    BY <1>2, <2>1 DEF PrepSet
  <2>3. prep' = [prep EXCEPT !.todo = todo]
    BY <2>1 DEF FetchRange
  <2>4. QED BY <1>1, <1>2, <2>1, <2>2, <2>3 DEF PrepSet
<1>9. PreparedTypeOK'
  <2>1. \A p \in Parts : file'[p].size <= repo
    BY <1>2, <1>7 DEF ViewInv, PreparedTypeOK
  <2>2. PrepSet' = PrepSet
    BY <1>3 DEF PrepSet
  <2>3. QED BY <1>1, <1>2, <1>3, <1>6, <1>8, <2>1, <2>2 DEF ViewInv, PreparedTypeOK, PrepSet
<1>10. KindsApart' /\ CallFrom'
  BY <1>1, <1>3, <1>7, <1>8 DEF ViewInv, KindsApart, CallFrom
<1>12. \A u : \A p \in Parts : Holds(p, u) => Holds(p, u)'
  BY <1>1, <1>4, <1>7 DEF Holds
<1>13. Holds(prep.part, t)'
  BY <1>1, <1>2, <1>4, <1>7, <1>8 DEF Holds
<1>14. Fetched'
  <2>1. ASSUME ~(prep.warm /\ unwithdrawn), NEW p \in Parts, NEW u \in PartRanges(p, 0, prep.hi, TRUE)
        PROVE  Holds(p, u)' \/ Due(p, u)'
    <3>1. Holds(p, u) \/ Due(p, u)
      BY <1>1, <2>1 DEF ViewInv, Fetched
    <3>2. CASE p = prep.part /\ u = t
      BY <1>1, <1>2, <1>4, <1>7, <3>2 DEF Holds
    <3>3. CASE ~(p = prep.part /\ u = t)
      <4>1. Due(p, u) => Due(p, u)'
        BY <1>1, <1>3, <1>8, <3>3 DEF Due
      <4>2. QED BY <1>12, <2>1, <3>1, <4>1
    <3>4. QED BY <3>2, <3>3
  <2>2. QED BY <1>1, <1>3, <1>8, <2>1 DEF Fetched
<1>15. MarkTells' /\ ReadyTells'
  <2>1. Valid' => Valid
    BY <1>1, <1>3, <1>7 DEF Valid
  <2>2. Whole(mark) => Whole(mark)'
    BY <1>1, <1>3, <1>12 DEF Whole
  <2>3. QED BY <1>1, <1>8, <2>1, <2>2 DEF ViewInv, MarkTells, ReadyTells
<1>16. QED BY <1>9, <1>10, <1>14, <1>15 DEF ViewInv

\* A step that leaves the files and the repository keeps what they hold.
LEMMA FilesStay ==
    ASSUME UNCHANGED <<kind, repo, file>>
    PROVE  /\ Parts' = Parts /\ IndexTensors' = IndexTensors /\ PrepSet' = PrepSet
           /\ \A p, lo, hi, s : PartRanges(p, lo, hi, s)' = PartRanges(p, lo, hi, s)
           /\ \A p, t : Holds(p, t)' = Holds(p, t)
           /\ \A hi : Whole(hi)' = Whole(hi)
           /\ mark' = mark => Valid' = Valid
BY DEF Parts, IndexTensors, PrepSet, PartOf, PartRanges, Holds, Whole, Valid
\* No call, or a call that has returned.
LEMMA QuietIs ==
    ASSUME ViewInv, NEW hi \in 0..NLayers
    PROVE  /\ Quiet \in PrepSet /\ Quiet.pc = "idle" /\ Quiet.warm = FALSE
           /\ [Quiet EXCEPT !.pc = "ready", !.hi = hi] \in PrepSet
           /\ [Quiet EXCEPT !.pc = "ready", !.hi = hi].pc = "ready"
           /\ [Quiet EXCEPT !.pc = "ready", !.hi = hi].hi = hi
           /\ [Quiet EXCEPT !.pc = "ready", !.hi = hi].warm = FALSE
<1>1. PICK quiet : quiet = Quiet
  OBVIOUS
<1>2. NLayers \in Nat
  BY ViewAssumption
<1>3. quiet \in PrepSet /\ quiet.pc = "idle" /\ quiet.warm = FALSE
  BY <1>1, <1>2 DEF Quiet, PrepSet
<1>4. PICK r : r = [quiet EXCEPT !.pc = "ready", !.hi = hi]
  OBVIOUS
<1>5. r \in PrepSet /\ r.pc = "ready" /\ r.hi = hi /\ r.warm = FALSE
  BY <1>3, <1>4 DEF PrepSet
<1>6. QED BY <1>1, <1>3, <1>4, <1>5

\* A part is closed when nothing of it is due; the next one is opened, or the copy published.
LEMMA ClosePartKeeps ==
    ASSUME ViewInv, ClosePart
    PROVE  ViewInv'
<1>1. /\ prep.pc = "fetch" /\ prep.pc \in Calling /\ prep.todo = {}
      /\ UNCHANGED <<kind, repo, file, mark, unwithdrawn, wrong>>
  BY DEF ClosePart, Calling
<1>2. /\ prep \in PrepSet /\ prep.part \in Parts /\ prep.part \in Nat /\ prep.hi \in Nat /\ prep.from \in Nat
      /\ prep.hi \in 0..NLayers /\ NLayers \in Nat /\ prep.warm \in BOOLEAN
      /\ kind \in {"file", "split", "shard"} /\ repo \in Nat \ {0}
      /\ file \in [Parts -> [size : Nat, has : SUBSET (IndexTensors \X Nat)]]
  BY <1>1, CallIs
<1>3. /\ prep' \in PrepSet /\ prep'.hi = prep.hi /\ prep'.warm = prep.warm /\ prep'.from = prep.from
      /\ prep'.part \in Parts
      /\ IF prep.part + 1 \in Parts THEN prep'.pc = "open" /\ prep'.part = prep.part + 1
         ELSE prep'.pc = "publish" /\ prep'.part = prep.part
  <2>1. CASE prep.part + 1 \in Parts
    <3>1. PICK following \in Parts : following = prep.part + 1
      BY <2>1
    <3>2. prep' = [prep EXCEPT !.pc = "open", !.part = following]
      BY <2>1, <3>1 DEF ClosePart
    <3>3. QED BY <1>2, <2>1, <3>1, <3>2 DEF PrepSet, Calling
  <2>2. CASE prep.part + 1 \notin Parts
    BY <1>2, <2>2 DEF ClosePart, PrepSet, Calling
  <2>3. QED BY <2>1, <2>2
<1>4. prep'.pc \in Calling /\ prep'.pc # "ready"
  BY <1>3 DEF Calling
<1>5. PreparedTypeOK'
  BY <1>1, <1>3, <1>4, FilesStay DEF ViewInv, PreparedTypeOK, PrepSet
<1>6. KindsApart' /\ CallFrom'
  BY <1>1, <1>3, <1>4, FilesStay DEF ViewInv, KindsApart, CallFrom
<1>7. MarkTells' /\ ReadyTells'
  BY <1>1, <1>4, FilesStay DEF ViewInv, MarkTells, ReadyTells
<1>8. Fetched'
  <2>1. ASSUME ~(prep.warm /\ unwithdrawn), NEW p \in Parts, NEW t \in PartRanges(p, 0, prep.hi, TRUE)
        PROVE  Holds(p, t)' \/ Due(p, t)'
    <3>1. Holds(p, t) \/ Due(p, t)
      BY <1>1, <2>1 DEF ViewInv, Fetched
    <3>2. p \in Nat /\ (prep.part + 1 \notin Parts => p <= prep.part)
      BY <1>2, PartsAre
    <3>3. Due(p, t) => p > prep.part /\ (prep.warm => t \in PartRanges(p, prep.from, prep.hi, FALSE))
      BY <1>1 DEF Due
    <3>4. Due(p, t) => prep.part + 1 \in Parts /\ (p > prep.part + 1 \/ p = prep.part + 1)
      BY <1>2, <3>2, <3>3
    <3>5. Due(p, t) => Due(p, t)'
      BY <1>1, <1>3, <3>3, <3>4 DEF Due, PartRanges, IndexTensors, Parts, PartOf
    <3>6. QED BY <1>1, <3>1, <3>5, FilesStay
  <2>2. Parts' = Parts /\ \A p : PartRanges(p, 0, prep.hi, TRUE)' = PartRanges(p, 0, prep'.hi, TRUE)
    BY <1>1, <1>3 DEF Parts, PartRanges, IndexTensors, PartOf
  <2>3. QED BY <1>1, <1>3, <2>1, <2>2 DEF Fetched, PartRanges, IndexTensors, Parts, PartOf
<1>9. QED BY <1>5, <1>6, <1>7, <1>8 DEF ViewInv

\* When the last part is closed nothing is due.
LEMMA AllFetched ==
    ASSUME ViewInv, prep.pc \in {"publish", "rename"}, ~(prep.warm /\ unwithdrawn)
    PROVE  Whole(prep.hi)
<1>1. prep.pc \in Calling
  BY DEF Calling
<1>2. \A p, t : ~Due(p, t)
  BY DEF Due
<1>3. QED BY <1>1, <1>2 DEF ViewInv, Fetched, Whole

\* The old marker goes before the new one comes.
LEMMA WithdrawKeeps ==
    ASSUME ViewInv, WithdrawMark
    PROVE  ViewInv'
<1>1. /\ prep.pc = "publish" /\ prep.pc \in Calling /\ mark' = NoMark /\ kind # "shard"
      /\ UNCHANGED <<kind, repo, file, unwithdrawn, wrong>>
  BY DEF WithdrawMark, Calling
<1>2. /\ prep \in PrepSet /\ prep.part \in Parts
  BY <1>1, CallIs
<1>3. /\ prep' \in PrepSet /\ prep'.hi = prep.hi /\ prep'.warm = prep.warm /\ prep'.from = prep.from
      /\ prep'.part = prep.part /\ prep'.pc = "rename" /\ prep'.pc \in Calling /\ prep'.pc # "ready"
  BY <1>2 DEF WithdrawMark, PrepSet, Calling
<1>4. PreparedTypeOK'
  BY <1>1, <1>2, <1>3, FilesStay DEF ViewInv, PreparedTypeOK, PrepSet
<1>5. KindsApart' /\ CallFrom'
  BY <1>1, <1>3, FilesStay DEF ViewInv, KindsApart, CallFrom
<1>6. MarkTells' /\ ReadyTells'
  BY <1>1, <1>3 DEF MarkTells, ReadyTells, Valid
<1>7. Fetched'
  BY <1>1, <1>3, AllFetched, FilesStay DEF Fetched, Whole
<1>8. QED BY <1>4, <1>5, <1>6, <1>7 DEF ViewInv

\* A call that returns a whole copy, and the marker it may have left.
LEMMA ReadyKeeps ==
    ASSUME ViewInv, prep.pc \in {"publish", "rename"}, Ready,
           \/ mark' = prep.hi
           \/ kind = "shard" /\ mark' = mark
    PROVE  ViewInv'
<1>1. /\ prep.pc \in Calling /\ UNCHANGED <<kind, repo, file, wrong>>
      /\ unwithdrawn' = (unwithdrawn /\ prep.warm)
  BY DEF Ready, Calling
<1>2. prep.hi \in 0..NLayers /\ prep.warm \in BOOLEAN /\ NLayers \in Nat
  BY <1>1, CallIs
<1>3. PICK hi \in 0..NLayers : hi = prep.hi
  BY <1>2
<1>4. prep' \in PrepSet /\ prep'.pc = "ready" /\ prep'.hi = prep.hi /\ prep'.warm = FALSE /\ prep'.pc \notin Calling
  BY <1>3, QuietIs DEF Ready, Calling
<1>5. mark' \in {NoMark} \cup 0..NLayers /\ unwithdrawn' \in BOOLEAN
  BY <1>1, <1>2 DEF ViewInv, PreparedTypeOK
<1>6. PreparedTypeOK'
  BY <1>1, <1>4, <1>5, FilesStay DEF ViewInv, PreparedTypeOK, PrepSet
<1>7. KindsApart' /\ CallFrom' /\ Fetched'
  <2>1. kind = "shard" => prep.hi = NLayers /\ mark \in {NoMark, NLayers}
    BY <1>1 DEF ViewInv, KindsApart
  <2>2. QED BY <1>1, <1>4, <2>1 DEF ViewInv, KindsApart, CallFrom, Fetched
<1>8. ~unwithdrawn' => Whole(prep.hi)
  BY <1>1, <1>2, AllFetched
<1>9. ReadyTells'
  BY <1>1, <1>4, <1>8, FilesStay DEF ReadyTells
<1>10. MarkTells'
  <2>1. mark' # prep.hi => mark' = NoMark
    BY <1>1 DEF ViewInv, KindsApart
  <2>2. Whole(prep.hi)' = Whole(prep.hi)
    BY <1>1 DEF Whole, Holds, Parts, PartRanges, IndexTensors, PartOf, Ready
  <2>3. mark' = prep.hi /\ Whole(prep.hi) => Whole(mark)'
    BY <1>1 DEF Whole, Holds, Parts, PartRanges, IndexTensors, PartOf
  <2>4. Valid' => mark' # NoMark
    BY DEF Valid
  <2>5. QED BY <1>8, <2>1, <2>3, <2>4 DEF MarkTells
<1>11. QED BY <1>6, <1>7, <1>9, <1>10 DEF ViewInv

\* A call fails, and a cold split build takes its files with it.
LEMMA FailKeeps ==
    ASSUME ViewInv, Fail
    PROVE  ViewInv'
<1>1. prep.pc \in Calling /\ UNCHANGED <<kind, repo, mark, unwithdrawn>>
  BY DEF Fail, Calling
<1>2. /\ prep \in PrepSet /\ prep.warm \in BOOLEAN /\ kind \in {"file", "split", "shard"} /\ repo \in Nat \ {0}
  BY <1>1, CallIs
<1>3. prep' \in PrepSet /\ prep'.pc = "failed" /\ prep'.warm = prep.warm /\ prep'.pc \notin Calling
  BY <1>2 DEF Fail, PrepSet, Calling
<1>4. CASE kind = "split" /\ mark = NoMark
  <2>1. file' = [p \in Parts |-> Missing] /\ Parts' = Parts /\ IndexTensors' = IndexTensors
    BY <1>1, <1>4 DEF Fail, Parts, IndexTensors, PartOf
  <2>2. file' \in [Parts -> [size : Nat, has : SUBSET (IndexTensors \X Nat)]] /\ \A p \in Parts : file'[p].size <= repo
    BY <1>2, <2>1 DEF Missing
  <2>3. PreparedTypeOK'
    BY <1>1, <1>3, <2>1, <2>2 DEF ViewInv, PreparedTypeOK, PrepSet
  <2>4. KindsApart' /\ CallFrom' /\ Fetched' /\ MarkTells' /\ ReadyTells'
    BY <1>1, <1>3, <1>4 DEF ViewInv, KindsApart, CallFrom, Fetched, MarkTells, ReadyTells, Valid
  <2>5. QED BY <2>3, <2>4 DEF ViewInv
<1>5. CASE ~(kind = "split" /\ mark = NoMark)
  <2>1. UNCHANGED file
    BY <1>5 DEF Fail
  <2>2. PreparedTypeOK'
    BY <1>1, <1>3, <2>1, FilesStay DEF ViewInv, PreparedTypeOK, PrepSet
  <2>3. KindsApart' /\ CallFrom' /\ Fetched' /\ MarkTells' /\ ReadyTells'
    <3>1. Valid' = Valid /\ Whole(mark)' = Whole(mark)
      BY <1>1, <2>1 DEF Valid, Whole, Holds, Parts, PartRanges, IndexTensors, PartOf
    <3>2. QED BY <1>1, <1>3, <3>1 DEF ViewInv, KindsApart, CallFrom, Fetched, MarkTells, ReadyTells
  <2>4. QED BY <2>2, <2>3 DEF ViewInv
<1>6. QED BY <1>4, <1>5

\* The call is over, returned or killed.
LEMMA OverKeeps ==
    ASSUME ViewInv, prep' = Quiet, UNCHANGED <<kind, repo, file, mark, unwithdrawn>>
    PROVE  ViewInv'
<1>1. prep' \in PrepSet /\ prep'.pc = "idle" /\ prep'.warm = FALSE /\ prep'.pc \notin Calling
  <2>1. 0 \in 0..NLayers
    BY ViewAssumption
  <2>2. QED BY <2>1, QuietIs DEF Calling
<1>2. PreparedTypeOK'
  BY <1>1, FilesStay DEF ViewInv, PreparedTypeOK, PrepSet
<1>3. Valid' = Valid /\ Whole(mark)' = Whole(mark)
  BY DEF Valid, Whole, Holds, Parts, PartRanges, IndexTensors, PartOf
<1>4. KindsApart' /\ CallFrom' /\ Fetched' /\ MarkTells' /\ ReadyTells'
  BY <1>1, <1>3 DEF ViewInv, KindsApart, CallFrom, Fetched, MarkTells, ReadyTells
<1>5. QED BY <1>2, <1>4 DEF ViewInv

\* A file is lost: no marker counts.
LEMMA LossKeeps ==
    ASSUME ViewInv, NEW p \in Parts, LoseFile(p)
    PROVE  ViewInv'
<1>1. /\ prep.pc = "idle" /\ prep.pc \notin Calling /\ UNCHANGED <<kind, repo, mark, prep, unwithdrawn>>
      /\ file' = [file EXCEPT ![p] = Missing]
  BY DEF LoseFile, Calling
<1>2. /\ kind \in {"file", "split", "shard"} /\ repo \in Nat \ {0} /\ Parts' = Parts /\ IndexTensors' = IndexTensors
  BY <1>1 DEF ViewInv, PreparedTypeOK, Parts, IndexTensors, PartOf
<1>3. file' \in [Parts -> [size : Nat, has : SUBSET (IndexTensors \X Nat)]] /\ \A q \in Parts : file'[q].size <= repo
  BY <1>1, <1>2 DEF ViewInv, PreparedTypeOK, Missing
<1>4. PreparedTypeOK'
  BY <1>1, <1>2, <1>3 DEF ViewInv, PreparedTypeOK
<1>5. ~Valid'
  <2>1. file'[p].size = 0
    BY <1>1 DEF ViewInv, PreparedTypeOK, Missing
  <2>2. QED BY <1>1, <1>2, <2>1 DEF Valid
<1>6. KindsApart' /\ CallFrom' /\ Fetched' /\ MarkTells' /\ ReadyTells'
  BY <1>1, <1>5 DEF ViewInv, KindsApart, CallFrom, Fetched, MarkTells, ReadyTells
<1>7. QED BY <1>4, <1>6 DEF ViewInv

\* The repository serves another model: no shard's marker counts.
LEMMA ReplaceKeeps ==
    ASSUME ViewInv, Replace
    PROVE  ViewInv'
<1>1. /\ prep.pc = "idle" /\ prep.pc \notin Calling /\ UNCHANGED <<kind, file, mark, prep, unwithdrawn>>
      /\ repo' = repo + 1
  BY DEF Replace, Calling
<1>2. /\ kind \in {"file", "split", "shard"} /\ repo \in Nat \ {0} /\ Parts' = Parts /\ IndexTensors' = IndexTensors
      /\ file \in [Parts -> [size : Nat, has : SUBSET (IndexTensors \X Nat)]]
  BY <1>1 DEF ViewInv, PreparedTypeOK, Parts, IndexTensors, PartOf
<1>3. \A q \in Parts : file[q].size \in Nat /\ file[q].size <= repo
  BY <1>2 DEF ViewInv, PreparedTypeOK
<1>4. PreparedTypeOK'
  BY <1>1, <1>2, <1>3 DEF ViewInv, PreparedTypeOK
<1>5. ~Valid'
  <2>1. 1 \in Parts
    BY <1>2, PartsAre
  <2>2. QED BY <1>1, <1>2, <1>3, <2>1 DEF Valid
<1>6. KindsApart' /\ CallFrom' /\ Fetched' /\ MarkTells' /\ ReadyTells'
  BY <1>1, <1>5 DEF ViewInv, KindsApart, CallFrom, Fetched, MarkTells, ReadyTells
<1>7. QED BY <1>4, <1>6 DEF ViewInv

\* A step of the rest of the machine.
LEMMA ViewIdles ==
    ASSUME ViewInv, UNCHANGED viewVars
    PROVE  ViewInv'
<1>1. UNCHANGED <<kind, repo, file, mark, prep, unwithdrawn>>
  BY DEF viewVars
<1>2. Valid' = Valid /\ Whole(mark)' = Whole(mark) /\ Whole(prep.hi)' = Whole(prep.hi)
  BY <1>1 DEF Valid, Whole, Holds, Parts, PartRanges, IndexTensors, PartOf
<1>3. PreparedTypeOK'
  BY <1>1, FilesStay DEF ViewInv, PreparedTypeOK
<1>4. KindsApart' /\ CallFrom' /\ MarkTells' /\ ReadyTells'
  BY <1>1, <1>2, FilesStay DEF ViewInv, KindsApart, CallFrom, MarkTells, ReadyTells
<1>5. Fetched'
  BY <1>1 DEF ViewInv, Fetched, Due, Holds, Parts, PartRanges, IndexTensors, PartOf
<1>6. QED BY <1>3, <1>4, <1>5 DEF ViewInv

\* Every step of ModelView keeps the invariant.
LEMMA ViewStepKeeps ==
    ASSUME ViewInv, [ViewNext]_viewVars
    PROVE  ViewInv'
<1>1. CASE \E hi \in 0..NLayers : Prepare(hi)
  BY <1>1, PrepareKeeps
<1>2. CASE Open
  BY <1>2, OpenKeeps
<1>3. CASE ClosePart
  BY <1>3, ClosePartKeeps
<1>4. CASE WithdrawMark
  BY <1>4, WithdrawKeeps
<1>5. CASE RenameMark
  BY <1>5, ReadyKeeps DEF RenameMark
<1>6. CASE MarkShard
  BY <1>6, ReadyKeeps DEF MarkShard
<1>7. CASE \E t \in IndexTensors : FetchRange(t)
  BY <1>7, FetchKeeps
<1>8. CASE Fail
  BY <1>8, FailKeeps
<1>9. CASE Return
  BY <1>9, OverKeeps DEF Return
<1>10. CASE Kill
  BY <1>10, OverKeeps DEF Kill
<1>11. CASE Replace
  BY <1>11, ReplaceKeeps
<1>12. CASE \E p \in Parts : LoseFile(p)
  BY <1>12, LossKeeps
<1>13. CASE UNCHANGED viewVars
  BY <1>13, ViewIdles
<1>14. QED
  BY <1>1, <1>2, <1>3, <1>4, <1>5, <1>6, <1>7, <1>8, <1>9, <1>10, <1>11, <1>12, <1>13 DEF ViewNext, ViewStep

\* The invariant says of the copies what the run checks of them.
LEMMA ViewInvIsEnough ==
    ASSUME ViewInv
    PROVE  CompleteIsWhole
BY DEF ViewInv, KindsApart, MarkTells, ReadyTells, CompleteIsWhole

\* A step of an invariant state leaves a view that counts counting.
LEMMA CoverageStandsIn ==
    ASSUME ViewInv, [ViewNext]_viewVars,
           Valid, kind # "shard", prep.pc \notin {"publish", "rename"}, prep'.pc # "rename"
    PROVE  /\ mark' >= mark
           /\ Valid' \/ \E p \in Parts : LoseFile(p)
<1>1. /\ kind \in {"file", "split"} /\ repo \in Nat \ {0} /\ mark \in Int /\ mark # NoMark
      /\ file \in [Parts -> [size : Nat, has : SUBSET (IndexTensors \X Nat)]]
      /\ \A p \in Parts : file[p].size = repo
  BY ViewAssumption DEF ViewInv, PreparedTypeOK, NoMark, Valid
<1>2. CASE UNCHANGED <<kind, repo, file, mark>>
  BY <1>1, <1>2, FilesStay
<1>3. CASE \E hi \in 0..NLayers : Prepare(hi)
  <2>1. UNCHANGED <<kind, repo, file, mark>>
    BY <1>1, <1>3 DEF Prepare
  <2>2. QED BY <1>2, <2>1
<1>4. CASE Open
  <2>1. UNCHANGED <<kind, repo, mark>> /\ Parts' = Parts
    BY <1>4 DEF Open, Parts
  <2>2. \A p \in Parts : file'[p].size = repo
    BY <1>1, <1>4 DEF Open
  <2>3. QED BY <1>1, <2>1, <2>2 DEF Valid
<1>5. CASE \E t \in IndexTensors : FetchRange(t)
  <2>1. UNCHANGED <<kind, repo, mark>> /\ Parts' = Parts
    BY <1>5 DEF FetchRange, Parts
  <2>2. \A p \in Parts : file'[p].size = repo
    <3>1. PICK t \in IndexTensors : FetchRange(t)
      BY <1>5
    <3>2. PICK has : has = {x \in file[prep.part].has : x[1] # t} \cup {<<t, repo>>}
      OBVIOUS
    <3>3. file' = [file EXCEPT ![prep.part].has = has]
      BY <3>1, <3>2 DEF FetchRange
    <3>4. QED BY <1>1, <3>3
  <2>3. QED BY <1>1, <2>1, <2>2 DEF Valid
<1>6. CASE ClosePart \/ Return \/ Kill \/ UNCHANGED viewVars
  BY <1>2, <1>6 DEF ClosePart, Return, Kill, viewVars
<1>7. CASE WithdrawMark \/ RenameMark \/ MarkShard
  BY <1>7 DEF WithdrawMark, RenameMark, MarkShard
<1>8. CASE Fail
  BY <1>1, <1>2, <1>8 DEF Fail
<1>9. CASE Replace
  BY <1>9 DEF Replace
<1>10. CASE \E p \in Parts : LoseFile(p)
  <2>1. mark' = mark
    BY <1>10 DEF LoseFile
  <2>2. mark' >= mark
    BY <1>1, <2>1
  <2>3. QED BY <1>10, <2>2
<1>11. QED
  BY <1>3, <1>4, <1>5, <1>6, <1>7, <1>8, <1>9, <1>10 DEF ViewNext, ViewStep

-----------------------------------------------------------------------------
(* The tensor index and its tag (TensorIndex). *)

\* A tag that names the installed build is beside an index that this build wrote, or none.
IndexInv ==
    /\ gguf \in Nat \ {0} /\ build \in Nat \ {0}
    /\ index \in [of : Nat, by : Nat]
    /\ tag \in Nat /\ tag <= build
    /\ indexer \in [pc : {"idle", "scan", "remove", "rename", "tag", "use"}, of : Nat]
    /\ tag = build => index = NoIndex \/ index.by = build
    /\ indexer.pc = "tag" => index.by = build

\* TensorIndex starts in the invariant.
LEMMA IndexStarts ==
    ASSUME IndexInit
    PROVE  IndexInv
BY DEF IndexInit, IndexInv, NoIndex

\* Every step of TensorIndex keeps the invariant.
LEMMA IndexStepKeeps ==
    ASSUME IndexInv, [IndexNext]_indexVars
    PROVE  IndexInv'
<1>1. CASE Need
  BY <1>1 DEF Need, IndexInv
<1>2. CASE Scan
  BY <1>2 DEF Scan, IndexInv
<1>3. CASE RemoveIndex
  BY <1>3 DEF RemoveIndex, IndexInv, NoIndex
<1>4. CASE RenameIndex
  BY <1>4 DEF RenameIndex, IndexInv
<1>5. ASSUME NEW t \in {build, tag, 0}, WriteTag(t)
      PROVE  IndexInv'
  BY <1>5 DEF WriteTag, IndexInv
<1>6. CASE Used
  BY <1>6 DEF Used, IndexInv
<1>7. CASE KillIndexer
  BY <1>7 DEF KillIndexer, IndexInv
<1>8. CASE Upgrade
  BY <1>8 DEF Upgrade, IndexInv
<1>9. CASE ReplaceGguf
  BY <1>9 DEF ReplaceGguf, IndexInv
<1>10. CASE UNCHANGED indexVars
  BY <1>10 DEF indexVars, IndexInv
<1>11. QED BY <1>1, <1>2, <1>3, <1>4, <1>5, <1>6, <1>7, <1>8, <1>9, <1>10 DEF IndexNext

\* The invariant says of the index what the run checks of it.
LEMMA IndexInvIsEnough ==
    ASSUME IndexInv
    PROVE  FreshIsOurs
BY DEF IndexInv, FreshIsOurs, Stale

-----------------------------------------------------------------------------
(* The weight folder of the desktop client (Downloads). *)

TaskFields == {"pc", "id", "kind", "file", "first", "cancelled", "done", "total", "append", "linked",
               "steady", "hashes", "ok"}
TaskIs(task) ==
    /\ DOMAIN task = TaskFields
    /\ task.pc # "rest" /\ task.kind \in {"fetch", "verify"}
    /\ task.file \in FilesOf /\ task.first \in FilesOf
    /\ task.kind = "fetch" => task.first = 1
FolderOK ==
    /\ DOMAIN final = FilesOf /\ DOMAIN part = FilesOf /\ DOMAIN marker = FilesOf
    /\ DOMAIN tasks = Tasks /\ \A t \in Tasks : tasks[t] = Resting \/ TaskIs(tasks[t])
    /\ crossed = Overlap
    /\ deleting # <<>> => disturbed
\* A task that is on a file.
OnFile(task) == task.pc \notin {"rest", "leave"}
\* The files a download has left behind it, all of them when it ends well.
Behind(task, g) ==
    /\ task.pc # "rest" /\ task.kind = "fetch"
    /\ IF task.pc = "leave" THEN task.ok ELSE g < task.file
Settled(f) == Curated(final[f]) /\ marker[f] = "this" /\ part[f] = NoFile
\* A task that changes nothing of a settled file.
Passing(task) == task.pc \in {"register", "file", "drop part"}
\* What a task has seen of its file is still so.
Verified(task) ==
    /\ task.pc = "mark" => final[task.file] = NoFile \/ Curated(final[task.file])
    /\ task.pc = "rename" => part[task.file] = NoFile \/ Curated(part[task.file])
\* And in a folder nobody else touched, the file is there.
Unshaken(task) ==
    /\ task.pc = "mark" => /\ Curated(final[task.file])
                           /\ task.hashes = "part" => part[task.file] = NoFile
    /\ task.pc = "rename" => Curated(part[task.file]) /\ task.hashes = "part"
    /\ task.pc = "drop part" => marker[task.file] = "this"
DownInv ==
    /\ FolderOK
    /\ MarkedIsCurated
    /\ ~crossed => \A t \in Tasks : Verified(tasks[t])
    /\ ~crossed /\ ~disturbed =>
          /\ \A t \in Tasks : Unshaken(tasks[t])
          /\ \A t \in Tasks, g \in FilesOf : Behind(tasks[t], g) =>
                /\ Settled(g)
                /\ \A u \in Tasks : OnFile(tasks[u]) /\ tasks[u].file = g => Passing(tasks[u])
\* What a step leaves of the other tasks: all that the invariant asks of them.
Alike(a, b) ==
    /\ b.pc = a.pc /\ b.kind = a.kind /\ b.file = a.file /\ b.hashes = a.hashes /\ b.ok = a.ok
    /\ b.first = a.first
    /\ b = Resting \/ TaskIs(b)

\* The step of one task, which then is `task`: only the folder's file it is on may change.
TaskStep(t, task) ==
    /\ DOMAIN tasks' = Tasks /\ tasks'[t] = task /\ (task = Resting \/ TaskIs(task))
    /\ \A u \in Tasks \ {t} : Alike(tasks[u], tasks'[u])
    /\ UNCHANGED <<deleting, disturbed>>
    /\ DOMAIN final' = FilesOf /\ DOMAIN part' = FilesOf /\ DOMAIN marker' = FilesOf
    /\ \A f \in FilesOf : \/ OnFile(tasks[t]) /\ f = tasks[t].file
                          \/ final'[f] = final[f] /\ part'[f] = part[f] /\ marker'[f] = marker[f]
    /\ OnFile(tasks[t]) => (marker'[tasks[t].file] = "this" => Curated(final'[tasks[t].file]))
    /\ task.pc = "mark" => final'[task.file] = NoFile \/ Curated(final'[task.file])
    /\ task.pc = "rename" => part'[task.file] = NoFile \/ Curated(part'[task.file])
\* And what it keeps in a folder that nobody else touched.
CalmStep(t, task) ==
    /\ task.pc = "mark" => /\ Curated(final'[task.file])
                           /\ task.hashes = "part" => part'[task.file] = NoFile
    /\ task.pc = "rename" => Curated(part'[task.file]) /\ task.hashes = "part"
    /\ task.pc = "drop part" => marker'[task.file] = "this"
    /\ OnFile(tasks[t]) /\ Passing(tasks[t]) /\ Settled(tasks[t].file) =>
          /\ Curated(final'[tasks[t].file]) /\ marker'[tasks[t].file] = "this"
          /\ part'[tasks[t].file] = NoFile
    /\ OnFile(task) => \/ Passing(task)
                       \/ /\ OnFile(tasks[t]) /\ task.file = tasks[t].file
                          /\ ~(Passing(tasks[t]) /\ Settled(tasks[t].file))
    /\ \A g \in FilesOf : Behind(task, g) =>
          \/ Behind(tasks[t], g)
          \/ /\ OnFile(tasks[t]) /\ g = tasks[t].file
             /\ Curated(final'[g]) /\ marker'[g] = "this" /\ part'[g] = NoFile

\* Of two tasks that are on a file, before two have met on one.
LEMMA Apart ==
    ASSUME DownInv, ~crossed, NEW t \in Tasks, NEW u \in Tasks, u # t,
           OnFile(tasks[t]), OnFile(tasks[u])
    PROVE  tasks[u].file # tasks[t].file
BY DEF DownInv, FolderOK, Overlap, OnFile
\* A task on a file has one.
LEMMA OnFileIs ==
    ASSUME DownInv, NEW t \in Tasks, tasks[t].pc # "rest"
    PROVE  /\ TaskIs(tasks[t]) /\ tasks[t].file \in FilesOf /\ tasks[t] # Resting
BY DEF DownInv, FolderOK, TaskIs, Resting

\* A task's step keeps the invariant: no other task is on its file, and a file that a download has
\* settled stays so.
LEMMA TaskKeeps ==
    ASSUME DownInv, ~crossed, crossed' = Overlap', NEW t \in Tasks, NEW task, TaskStep(t, task),
           ~disturbed => CalmStep(t, task)
    PROVE  DownInv'
<1>1. /\ DOMAIN tasks' = Tasks /\ tasks'[t] = task /\ (task = Resting \/ TaskIs(task))
      /\ UNCHANGED <<deleting, disturbed>>
      /\ DOMAIN final' = FilesOf /\ DOMAIN part' = FilesOf /\ DOMAIN marker' = FilesOf
      /\ FilesOf \subseteq Nat
  BY DownloadsAssumption DEF TaskStep, FilesOf
<1>2. ASSUME NEW u \in Tasks, u # t
      PROVE  /\ tasks'[u].pc = tasks[u].pc /\ tasks'[u].kind = tasks[u].kind /\ tasks'[u].file = tasks[u].file
             /\ tasks'[u].hashes = tasks[u].hashes /\ tasks'[u].ok = tasks[u].ok
             /\ tasks'[u] = Resting \/ TaskIs(tasks'[u])
  BY <1>2 DEF TaskStep, Alike
<1>3. \A f \in FilesOf : \/ OnFile(tasks[t]) /\ f = tasks[t].file
                         \/ final'[f] = final[f] /\ part'[f] = part[f] /\ marker'[f] = marker[f]
  BY DEF TaskStep
<1>4. ASSUME NEW u \in Tasks, u # t, OnFile(tasks[u])
      PROVE  /\ tasks[u].file \in FilesOf /\ final'[tasks[u].file] = final[tasks[u].file]
             /\ part'[tasks[u].file] = part[tasks[u].file] /\ marker'[tasks[u].file] = marker[tasks[u].file]
  <2>1. tasks[u].file \in FilesOf
    BY <1>4, OnFileIs DEF OnFile
  <2>2. ~(OnFile(tasks[t]) /\ tasks[u].file = tasks[t].file)
    BY <1>4, Apart
  <2>3. QED BY <1>3, <2>1, <2>2
<1>5. FolderOK'
  <2>1. \A u \in Tasks : tasks'[u] = Resting \/ TaskIs(tasks'[u])
    BY <1>1, <1>2
  <2>2. deleting' # <<>> => disturbed'
    BY <1>1 DEF DownInv, FolderOK
  <2>3. QED BY <1>1, <2>1, <2>2 DEF FolderOK, Overlap, TaskIs, Resting
<1>6. MarkedIsCurated'
  <2>1. ASSUME NEW f \in FilesOf, marker'[f] = "this"
        PROVE  Curated(final'[f])
    BY <1>3, <2>1 DEF TaskStep, DownInv, MarkedIsCurated
  <2>2. QED BY <2>1 DEF MarkedIsCurated, Curated
<1>7. \A u \in Tasks : Verified(tasks[u])'
  <2>1. ASSUME NEW u \in Tasks, u # t
        PROVE  Verified(tasks[u])'
    <3>1. Verified(tasks[u])
      BY DEF DownInv
    <3>2. CASE OnFile(tasks[u])
      BY <1>2, <1>4, <2>1, <3>1, <3>2 DEF Verified
    <3>3. CASE ~OnFile(tasks[u])
      BY <1>2, <2>1, <3>3 DEF Verified, OnFile
    <3>4. QED BY <3>2, <3>3
  <2>2. Verified(tasks[t])'
    BY <1>1 DEF Verified, TaskStep
  <2>3. QED BY <2>1, <2>2
<1>8. ASSUME ~disturbed'
      PROVE  \A u \in Tasks : Unshaken(tasks[u])'
  <2>1. ASSUME NEW u \in Tasks, u # t
        PROVE  Unshaken(tasks[u])'
    <3>1. Unshaken(tasks[u])
      BY <1>1, <1>8 DEF DownInv
    <3>2. CASE OnFile(tasks[u])
      BY <1>2, <1>4, <2>1, <3>1, <3>2 DEF Unshaken
    <3>3. CASE ~OnFile(tasks[u])
      BY <1>2, <2>1, <3>3 DEF Unshaken, OnFile
    <3>4. QED BY <3>2, <3>3
  <2>2. Unshaken(tasks[t])'
    BY <1>1, <1>8 DEF Unshaken, CalmStep
  <2>3. QED BY <2>1, <2>2
<1>9. ASSUME ~disturbed', NEW s \in Tasks, NEW g \in FilesOf, Behind(tasks[s], g)'
      PROVE  /\ Curated(final'[g]) /\ marker'[g] = "this" /\ part'[g] = NoFile
             /\ \A u \in Tasks : OnFile(tasks[u])' /\ tasks'[u].file = g => Passing(tasks[u])'
  <2>1. CalmStep(t, task) /\ ~disturbed
    BY <1>1, <1>9
  <2>2. ASSUME NEW r \in Tasks, Behind(tasks[r], g)
        PROVE  Settled(g) /\ \A u \in Tasks : OnFile(tasks[u]) /\ tasks[u].file = g => Passing(tasks[u])
    BY <2>1, <2>2 DEF DownInv
  <2>3. ASSUME NEW r \in Tasks, Behind(tasks[r], g)
        PROVE  /\ Curated(final'[g]) /\ marker'[g] = "this" /\ part'[g] = NoFile
               /\ \A u \in Tasks \ {t} : OnFile(tasks[u])' /\ tasks'[u].file = g => Passing(tasks[u])'
               /\ OnFile(task) /\ task.file = g => Passing(task)
    <3>1. Settled(g) /\ \A u \in Tasks : OnFile(tasks[u]) /\ tasks[u].file = g => Passing(tasks[u])
      BY <2>2, <2>3
    <3>2. Curated(final'[g]) /\ marker'[g] = "this" /\ part'[g] = NoFile
      <4>1. CASE OnFile(tasks[t]) /\ g = tasks[t].file
        BY <2>1, <3>1, <4>1 DEF CalmStep
      <4>2. CASE final'[g] = final[g] /\ part'[g] = part[g] /\ marker'[g] = marker[g]
        BY <3>1, <4>2 DEF Settled
      <4>3. QED BY <1>3, <4>1, <4>2
    <3>3. \A u \in Tasks \ {t} : OnFile(tasks[u])' /\ tasks'[u].file = g => Passing(tasks[u])'
      BY <1>2, <3>1 DEF OnFile, Passing
    <3>4. OnFile(task) /\ task.file = g => Passing(task)
      BY <2>1, <3>1 DEF CalmStep
    <3>5. QED BY <3>2, <3>3, <3>4
  <2>4. CASE s # t
    <3>1. Behind(tasks[s], g)
      BY <1>2, <1>9, <2>4 DEF Behind
    <3>2. \A u \in Tasks : OnFile(tasks[u])' /\ tasks'[u].file = g => Passing(tasks[u])'
      <4>1. OnFile(tasks[t])' /\ tasks'[t].file = g => Passing(tasks[t])'
        <5>1. OnFile(task) /\ task.file = g => Passing(task)
          BY <2>3, <3>1
        <5>2. QED BY <1>1, <5>1 DEF OnFile, Passing
      <4>2. QED BY <2>3, <3>1, <4>1
    <3>3. QED BY <2>3, <3>1, <3>2
  <2>5. CASE s = t
    <3>1. Behind(task, g)
      BY <1>1, <1>9, <2>5 DEF Behind
    <3>2. ~(OnFile(task) /\ task.file = g)
      BY <1>1, <3>1 DEF Behind, OnFile
    <3>3. ~(OnFile(tasks[t])' /\ tasks'[t].file = g)
      BY <1>1, <3>2 DEF OnFile
    <3>4. CASE Behind(tasks[t], g)
      BY <2>3, <3>3, <3>4
    <3>5. CASE ~Behind(tasks[t], g)
      <4>1. OnFile(tasks[t]) /\ g = tasks[t].file /\ Curated(final'[g]) /\ marker'[g] = "this" /\ part'[g] = NoFile
        BY <2>1, <3>1, <3>5 DEF CalmStep
      <4>2. \A u \in Tasks \ {t} : ~(OnFile(tasks[u])' /\ tasks'[u].file = g)
        BY <1>2, <4>1, Apart DEF OnFile
      <4>3. QED BY <3>3, <4>1, <4>2
    <3>6. QED BY <3>4, <3>5
  <2>6. QED BY <2>4, <2>5
<1>10. QED
  <2>1. ASSUME ~disturbed'
        PROVE  \A s \in Tasks, g \in FilesOf : Behind(tasks[s], g)' =>
                  /\ Settled(g)'
                  /\ \A u \in Tasks : OnFile(tasks[u])' /\ tasks'[u].file = g => Passing(tasks[u])'
    BY <1>9, <2>1 DEF Settled, Curated
  <2>2. QED BY <1>5, <1>6, <1>7, <1>8, <2>1 DEF DownInv, FilesOf

\* What the files do under a task is noticed, and nothing else of it changes.
LEMMA NoticeIs ==
    ASSUME NEW ts, \A u \in Tasks : ts[u] = Resting \/ TaskIs(ts[u]), NEW f, NEW which, NEW unlinked
    PROVE  /\ DOMAIN Notice(ts, f, which, unlinked) = Tasks
           /\ \A u \in Tasks : Alike(ts[u], Notice(ts, f, which, unlinked)[u])
<1>1. ASSUME NEW u \in Tasks
      PROVE  Alike(ts[u], Notice(ts, f, which, unlinked)[u])
  <2>1. CASE ts[u] = Resting \/ ts[u].file # f
    BY <2>1 DEF Notice, Alike
  <2>2. CASE ~(ts[u] = Resting \/ ts[u].file # f)
    <3>1. TaskIs(ts[u])
      BY <2>2
    <3>2. PICK steady : steady = (ts[u].steady /\ ts[u].hashes # which)
      OBVIOUS
    <3>3. PICK linked : linked = (ts[u].linked /\ ~(unlinked /\ which = "part"))
      OBVIOUS
    <3>4. Notice(ts, f, which, unlinked)[u] = [ts[u] EXCEPT !.steady = steady, !.linked = linked]
      BY <2>2, <3>2, <3>3 DEF Notice
    <3>5. PICK task : task = [ts[u] EXCEPT !.steady = steady, !.linked = linked]
      OBVIOUS
    <3>6. Alike(ts[u], task)
      BY <3>1, <3>5 DEF Alike, TaskIs, TaskFields
    <3>7. QED BY <3>4, <3>5, <3>6
  <2>3. QED BY <2>1, <2>2
<1>2. QED BY <1>1 DEF Notice
\* A task left as it is.
LEMMA SameIsAlike ==
    ASSUME DownInv, NEW u \in Tasks
    PROVE  Alike(tasks[u], tasks[u])
BY DEF DownInv, FolderOK, Alike
\* What is left of a task that has ended.
LEMMA LeftIs ==
    ASSUME NEW old, TaskIs(old), NEW task
    PROVE  /\ task = Left(old, TRUE) => TaskIs(task) /\ task.pc = "leave" /\ task.kind = old.kind
           /\ task = Left(old, FALSE) => TaskIs(task) /\ task.pc = "leave" /\ ~task.ok
BY DEF Left, TaskIs, TaskFields

\* The next file, or the end of a task.
LEMMA NextFileIs ==
    ASSUME DownInv, NEW t \in Tasks, OnFile(tasks[t]), NextFile(t)
    PROVE  \E task : /\ DOMAIN tasks' = Tasks /\ tasks'[t] = task /\ TaskIs(task)
                     /\ \A u \in Tasks \ {t} : Alike(tasks[u], tasks'[u])
                     /\ task.pc \in {"file", "leave"} /\ task.kind = tasks[t].kind
                     /\ \A g \in FilesOf : Behind(task, g) => Behind(tasks[t], g) \/ g = tasks[t].file
<1>1. TaskIs(tasks[t]) /\ NumFiles \in Nat /\ tasks[t].file \in 1..NumFiles /\ FilesOf \subseteq Nat
  BY OnFileIs, DownloadsAssumption DEF OnFile, FilesOf
<1>2. PICK task : task = IF tasks[t].kind = "verify" \/ tasks[t].file = NumFiles THEN Left(tasks[t], TRUE)
                         ELSE [tasks[t] EXCEPT !.pc = "file", !.file = tasks[t].file + 1, !.hashes = "neither"]
  OBVIOUS
<1>3. tasks' = [tasks EXCEPT ![t] = task]
  BY <1>2, Zenon DEF NextFile, F
<1>4. DOMAIN tasks' = Tasks /\ tasks'[t] = task /\ \A u \in Tasks \ {t} : Alike(tasks[u], tasks'[u])
  BY <1>3, SameIsAlike DEF DownInv, FolderOK
<1>5. CASE tasks[t].kind = "verify" \/ tasks[t].file = NumFiles
  <2>1. TaskIs(task) /\ task.pc = "leave" /\ task.kind = tasks[t].kind
    <3>1. task = Left(tasks[t], TRUE)
      BY <1>2, <1>5
    <3>2. QED BY <1>1, <3>1, LeftIs
  <2>2. ASSUME NEW g \in FilesOf, Behind(task, g)
        PROVE  Behind(tasks[t], g) \/ g = tasks[t].file
    <3>1. tasks[t].kind = "fetch" /\ tasks[t].file = NumFiles
      BY <1>5, <2>1, <2>2 DEF Behind
    <3>2. g \in 1..NumFiles
      BY DEF FilesOf
    <3>3. QED BY <1>1, <3>1, <3>2 DEF Behind, OnFile
  <2>3. QED BY <1>4, <2>1, <2>2
<1>6. CASE ~(tasks[t].kind = "verify" \/ tasks[t].file = NumFiles)
  <2>1. PICK next \in FilesOf : next = tasks[t].file + 1
    BY <1>1, <1>6 DEF FilesOf
  <2>2. task = [tasks[t] EXCEPT !.pc = "file", !.file = next, !.hashes = "neither"]
    BY <1>2, <1>6, <2>1
  <2>3. TaskIs(task) /\ task.pc = "file" /\ task.kind = tasks[t].kind /\ task.file = tasks[t].file + 1
    BY <1>1, <2>1, <2>2 DEF TaskIs, TaskFields
  <2>4. ASSUME NEW g \in FilesOf, Behind(task, g)
        PROVE  Behind(tasks[t], g) \/ g = tasks[t].file
    BY <1>1, <2>3, <2>4 DEF Behind, OnFile
  <2>5. QED BY <1>4, <2>3, <2>4
<1>7. QED BY <1>5, <1>6

\* A task at work on its file, which it has not yet verified, or has given up.
LEMMA WorkKeeps ==
    ASSUME DownInv, ~crossed, crossed' = Overlap', NEW t \in Tasks, NEW task,
           DOMAIN tasks' = Tasks, tasks'[t] = task, TaskIs(task),
           \A u \in Tasks \ {t} : Alike(tasks[u], tasks'[u]),
           UNCHANGED <<deleting, disturbed>>,
           OnFile(tasks[t]), ~Passing(tasks[t]),
           \/ task.pc = "leave" /\ ~task.ok
           \/ /\ task.pc \in {"open", "copy", "hash", "hashing", "remove"}
              /\ task.file = tasks[t].file /\ task.kind = tasks[t].kind,
           DOMAIN final' = FilesOf, DOMAIN part' = FilesOf, DOMAIN marker' = FilesOf,
           \A f \in FilesOf : \/ f = tasks[t].file
                              \/ final'[f] = final[f] /\ part'[f] = part[f] /\ marker'[f] = marker[f],
           marker'[tasks[t].file] = "this" => UNCHANGED <<final, marker>>
    PROVE  DownInv'
<1>1. tasks[t].file \in FilesOf
  BY OnFileIs DEF OnFile
<1>2. TaskStep(t, task)
  BY <1>1 DEF TaskStep, DownInv, MarkedIsCurated
<1>3. CalmStep(t, task)
  <2>1. \A g \in FilesOf : Behind(task, g) => Behind(tasks[t], g)
    BY DEF Behind, OnFile
  <2>2. QED BY <2>1 DEF CalmStep, OnFile, Passing
<1>4. QED BY <1>2, <1>3, TaskKeeps

\* What is left of a task that fails.
LEMMA FailsIs ==
    ASSUME DownInv, NEW t \in Tasks, OnFile(tasks[t]), Fails(t)
    PROVE  \E task : /\ DOMAIN tasks' = Tasks /\ tasks'[t] = task /\ TaskIs(task)
                     /\ \A u \in Tasks \ {t} : Alike(tasks[u], tasks'[u])
                     /\ task.pc = "leave" /\ ~task.ok
<1>1. PICK task : task = Left(tasks[t], FALSE)
  OBVIOUS
<1>2. tasks' = [tasks EXCEPT ![t] = task]
  BY <1>1 DEF Fails
<1>3. TaskIs(task) /\ task.pc = "leave" /\ ~task.ok
  <2>1. TaskIs(tasks[t])
    BY OnFileIs DEF OnFile
  <2>2. QED BY <1>1, <2>1, LeftIs
<1>4. DOMAIN tasks' = Tasks /\ tasks'[t] = task /\ \A u \in Tasks \ {t} : Alike(tasks[u], tasks'[u])
  BY <1>2, SameIsAlike DEF DownInv, FolderOK
<1>5. QED BY <1>3, <1>4
\* A task that fails leaves the folder alone.
LEMMA FailsKeeps ==
    ASSUME DownInv, ~crossed, crossed' = Overlap', NEW t \in Tasks, OnFile(tasks[t]), ~Passing(tasks[t]),
           Fails(t), UNCHANGED <<final, part, marker, deleting, disturbed>>
    PROVE  DownInv'
<1>1. PICK task : /\ DOMAIN tasks' = Tasks /\ tasks'[t] = task /\ TaskIs(task)
                  /\ \A u \in Tasks \ {t} : Alike(tasks[u], tasks'[u])
                  /\ task.pc = "leave" /\ ~task.ok
  BY FailsIs
<1>2. DOMAIN final' = FilesOf /\ DOMAIN part' = FilesOf /\ DOMAIN marker' = FilesOf
  BY DEF DownInv, FolderOK
<1>3. QED BY <1>1, <1>2, WorkKeeps
\* And so does one that only goes on.
LEMMA GoesKeeps ==
    ASSUME DownInv, ~crossed, crossed' = Overlap', NEW t \in Tasks, OnFile(tasks[t]), ~Passing(tasks[t]),
           NEW task, tasks' = [tasks EXCEPT ![t] = task], TaskIs(task),
           task.pc \in {"open", "copy", "hash", "hashing", "remove"},
           task.file = tasks[t].file /\ task.kind = tasks[t].kind,
           UNCHANGED <<final, part, marker, deleting, disturbed>>
    PROVE  DownInv'
<1>1. DOMAIN tasks' = Tasks /\ tasks'[t] = task /\ \A u \in Tasks \ {t} : Alike(tasks[u], tasks'[u])
  BY SameIsAlike DEF DownInv, FolderOK
<1>2. DOMAIN final' = FilesOf /\ DOMAIN part' = FilesOf /\ DOMAIN marker' = FilesOf
  BY DEF DownInv, FolderOK
<1>3. QED BY <1>1, <1>2, WorkKeeps

\* A task is asked for, and has yet to make its entry.
LEMMA AskKeeps ==
    ASSUME DownInv, ~crossed, crossed' = Overlap', NEW t \in Tasks, NEW id \in Ids,
           NEW k \in {"fetch", "verify"}, NEW f \in FilesOf, Ask(t, id, k, f)
    PROVE  DownInv'
<1>1. /\ tasks[t] = Resting /\ (k = "fetch" => f = 1)
      /\ UNCHANGED <<final, part, marker, deleting, disturbed>> /\ ~OnFile(tasks[t])
  BY DEF Ask, Folder, Others, Resting, OnFile
<1>2. PICK task : task = [pc |-> "register", id |-> id, kind |-> k, file |-> f, first |-> f, cancelled |-> FALSE,
           done |-> 0, total |-> 0, append |-> FALSE, linked |-> FALSE, steady |-> FALSE,
           hashes |-> "neither", ok |-> FALSE]
  OBVIOUS
<1>3. tasks' = [tasks EXCEPT ![t] = task]
  BY <1>2, Zenon DEF Ask
<1>4. TaskIs(task) /\ task.pc = "register" /\ task.kind = k /\ task.file = f
  BY <1>1, <1>2 DEF TaskIs, TaskFields
<1>5. DOMAIN tasks' = Tasks /\ tasks'[t] = task /\ \A u \in Tasks \ {t} : Alike(tasks[u], tasks'[u])
  BY <1>3, SameIsAlike DEF DownInv, FolderOK
<1>6. TaskStep(t, task)
  BY <1>1, <1>4, <1>5 DEF TaskStep, DownInv, FolderOK
<1>7. CalmStep(t, task)
  <2>1. ASSUME NEW g \in FilesOf
        PROVE  ~Behind(task, g)
    <3>1. g \in Nat /\ g >= 1
      BY DownloadsAssumption DEF FilesOf
    <3>2. QED BY <1>1, <1>4, <3>1 DEF Behind
  <2>2. QED BY <1>1, <1>4, <2>1 DEF CalmStep, Passing
<1>8. QED BY <1>6, <1>7, TaskKeeps

\* The entry is made.
LEMMA RegisterKeeps ==
    ASSUME DownInv, ~crossed, crossed' = Overlap', NEW t \in Tasks, Register(t)
    PROVE  DownInv'
<1>1. /\ tasks[t].pc = "register" /\ UNCHANGED <<final, part, marker, deleting, disturbed>>
      /\ OnFile(tasks[t]) /\ Passing(tasks[t])
  BY DEF Register, TaskAt, Folder, OnFile, Passing
<1>2. PICK task : task = [tasks[t] EXCEPT !.pc = "file"]
  OBVIOUS
<1>3. tasks' = [tasks EXCEPT ![t] = task]
  BY <1>2, Zenon DEF Register, TaskGoto
<1>4. TaskIs(tasks[t]) /\ tasks[t].file \in FilesOf
  BY <1>1, OnFileIs
<1>5. TaskIs(task) /\ task.pc = "file" /\ task.kind = tasks[t].kind /\ task.file = tasks[t].file
  BY <1>2, <1>4 DEF TaskIs, TaskFields
<1>6. DOMAIN tasks' = Tasks /\ tasks'[t] = task /\ \A u \in Tasks \ {t} : Alike(tasks[u], tasks'[u])
  BY <1>3, SameIsAlike DEF DownInv, FolderOK
<1>7. TaskStep(t, task)
  BY <1>1, <1>4, <1>5, <1>6 DEF TaskStep, DownInv, FolderOK, MarkedIsCurated
<1>8. CalmStep(t, task)
  BY <1>1, <1>5 DEF CalmStep, Passing, Behind, Settled
<1>9. QED BY <1>7, <1>8, TaskKeeps

\* A task that has ended takes its entry with it.
LEMMA LeaveKeeps ==
    ASSUME DownInv, ~crossed, crossed' = Overlap', NEW t \in Tasks, Leave(t)
    PROVE  DownInv'
<1>1. /\ tasks[t].pc = "leave" /\ UNCHANGED <<final, part, marker, deleting, disturbed>>
      /\ ~OnFile(tasks[t]) /\ tasks' = [tasks EXCEPT ![t] = Resting]
  BY DEF Leave, TaskAt, Folder, OnFile
<1>2. PICK task : task = Resting
  OBVIOUS
<1>3. task.pc = "rest" /\ ~OnFile(task)
  BY <1>2 DEF Resting, OnFile
<1>4. DOMAIN tasks' = Tasks /\ tasks'[t] = task /\ \A u \in Tasks \ {t} : Alike(tasks[u], tasks'[u])
  BY <1>1, <1>2, SameIsAlike DEF DownInv, FolderOK
<1>5. TaskStep(t, task)
  BY <1>1, <1>2, <1>3, <1>4 DEF TaskStep, DownInv, FolderOK
<1>6. CalmStep(t, task)
  BY <1>1, <1>3 DEF CalmStep, Behind
<1>7. QED BY <1>5, <1>6, TaskKeeps

\* A cancel reaches the task of the id's entry, if there is one.
LEMMA CancelKeeps ==
    ASSUME DownInv, ~crossed, crossed' = Overlap', NEW id \in Ids, Cancel(id)
    PROVE  DownInv'
<1>1. PICK e \in active : /\ tasks[e.task] # Resting
                          /\ tasks' = [tasks EXCEPT ![e.task].cancelled = TRUE]
                          /\ UNCHANGED <<Folder, Others>>
  BY DEF Cancel
<1>2. UNCHANGED <<final, part, marker, deleting, disturbed>>
  BY <1>1 DEF Folder, Others
<1>3. CASE e.task \notin Tasks
  <2>1. PICK x : x = e.task
    OBVIOUS
  <2>2. PICK task : task = [tasks[x] EXCEPT !.cancelled = TRUE]
    OBVIOUS
  <2>3. tasks' = [tasks EXCEPT ![x] = task]
    BY <1>1, <2>1, <2>2
  <2>4. DOMAIN tasks' = Tasks /\ \A u \in Tasks : tasks'[u] = tasks[u]
    BY <1>3, <2>1, <2>3 DEF DownInv, FolderOK
  <2>5. Overlap' = Overlap
    BY <2>4 DEF Overlap
  <2>6. FolderOK' /\ MarkedIsCurated'
    BY <1>2, <2>4, <2>5 DEF DownInv, FolderOK, MarkedIsCurated, Curated, Overlap
  <2>7. \A u \in Tasks : Verified(tasks[u])' /\ (Unshaken(tasks[u]) => Unshaken(tasks[u])')
    BY <1>2, <2>4 DEF DownInv, Verified, Unshaken
  <2>8. \A u \in Tasks, g \in FilesOf : Behind(tasks[u], g)' => Behind(tasks[u], g)
    BY <2>4 DEF Behind
  <2>9. \A u \in Tasks : /\ OnFile(tasks[u])' => OnFile(tasks[u])
                         /\ Passing(tasks[u]) => Passing(tasks[u])'
    BY <2>4 DEF OnFile, Passing
  <2>10. \A g \in FilesOf : Settled(g) => Settled(g)'
    BY <1>2 DEF Settled
  <2>11. QED BY <1>2, <2>4, <2>6, <2>7, <2>8, <2>9, <2>10 DEF DownInv, FilesOf
<1>4. CASE e.task \in Tasks
  <2>1. PICK t \in Tasks : t = e.task
    BY <1>4
  <2>2. PICK task : task = [tasks[t] EXCEPT !.cancelled = TRUE]
    OBVIOUS
  <2>3. tasks' = [tasks EXCEPT ![t] = task]
    BY <1>1, <2>1, <2>2
  <2>4. TaskIs(tasks[t])
    BY <1>1, <2>1 DEF DownInv, FolderOK
  <2>5. /\ TaskIs(task) /\ task.pc = tasks[t].pc /\ task.kind = tasks[t].kind /\ task.file = tasks[t].file
        /\ task.hashes = tasks[t].hashes /\ task.ok = tasks[t].ok
    BY <2>2, <2>4 DEF TaskIs, TaskFields
  <2>6. DOMAIN tasks' = Tasks /\ tasks'[t] = task /\ \A u \in Tasks \ {t} : Alike(tasks[u], tasks'[u])
    BY <2>3, SameIsAlike DEF DownInv, FolderOK
  <2>7. Verified(tasks[t]) /\ (~disturbed => Unshaken(tasks[t]))
    BY DEF DownInv
  <2>8. TaskStep(t, task)
    BY <1>2, <2>4, <2>5, <2>6, <2>7 DEF TaskStep, DownInv, FolderOK, MarkedIsCurated, Verified, TaskIs
  <2>9. ~disturbed => CalmStep(t, task)
    <3>1. OnFile(task) = OnFile(tasks[t]) /\ Passing(task) = Passing(tasks[t])
      BY <2>5 DEF OnFile, Passing
    <3>2. \A g \in FilesOf : Behind(task, g) => Behind(tasks[t], g)
      BY <2>5 DEF Behind
    <3>3. QED BY <1>2, <2>5, <2>7, <3>1, <3>2 DEF CalmStep, Unshaken, Settled
  <2>10. QED BY <2>8, <2>9, TaskKeeps
<1>5. QED BY <1>3, <1>4

\* What is there already is verified, what is not is fetched.
LEMMA LooksKeeps ==
    ASSUME DownInv, ~crossed, crossed' = Overlap', NEW t \in Tasks, LooksAtFile(t)
    PROVE  DownInv'
<1>1. /\ tasks[t].pc = "file" /\ UNCHANGED <<final, part, marker, deleting, disturbed>>
      /\ OnFile(tasks[t]) /\ Passing(tasks[t])
  BY DEF LooksAtFile, TaskAt, Folder, Others, OnFile, Passing
<1>2. TaskIs(tasks[t]) /\ tasks[t].file \in FilesOf
  BY <1>1, OnFileIs
<1>3. PICK pc : pc = IF tasks[t].kind = "verify" \/ LongEnough(final[tasks[t].file])
                     THEN IF marker[tasks[t].file] = "this" THEN "drop part" ELSE "hash"
                     ELSE "open"
  OBVIOUS
<1>4. PICK hashes : hashes = IF tasks[t].kind = "verify" \/ LongEnough(final[tasks[t].file])
                             THEN "final" ELSE tasks[t].hashes
  OBVIOUS
<1>5. PICK task : task = [tasks[t] EXCEPT !.pc = pc, !.hashes = hashes]
  OBVIOUS
<1>6. /\ TaskIs(task) /\ task.pc = pc /\ task.kind = tasks[t].kind /\ task.file = tasks[t].file
      /\ pc \in {"drop part", "hash", "open"}
  BY <1>2, <1>3, <1>5 DEF TaskIs, TaskFields
<1>7. DOMAIN tasks' = Tasks /\ tasks'[t] = task /\ \A u \in Tasks \ {t} : tasks'[u] = tasks[u]
  <2>1. CASE tasks[t].kind = "verify" \/ LongEnough(final[tasks[t].file])
    <3>1. tasks' = [tasks EXCEPT ![t].pc = IF marker[tasks[t].file] = "this" THEN "drop part" ELSE "hash",
                                 ![t].hashes = "final"]
      BY <2>1 DEF LooksAtFile, F
    <3>2. tasks' = [tasks EXCEPT ![t].pc = pc, ![t].hashes = hashes]
      BY <1>3, <1>4, <2>1, <3>1
    <3>3. QED BY <1>2, <1>5, <3>2 DEF DownInv, FolderOK, TaskIs, TaskFields
  <2>2. CASE ~(tasks[t].kind = "verify" \/ LongEnough(final[tasks[t].file]))
    <3>1. tasks' = [tasks EXCEPT ![t].pc = pc]
      BY <1>3, <2>2 DEF LooksAtFile, F, TaskGoto
    <3>2. task = [tasks[t] EXCEPT !.pc = pc]
      BY <1>2, <1>4, <1>5, <2>2 DEF TaskIs, TaskFields
    <3>3. tasks' = [tasks EXCEPT ![t] = task]
      BY <3>1, <3>2
    <3>4. QED BY <3>3 DEF DownInv, FolderOK
  <2>3. QED BY <2>1, <2>2
<1>8. \A u \in Tasks \ {t} : Alike(tasks[u], tasks'[u])
  BY <1>7, SameIsAlike
<1>9. TaskStep(t, task)
  BY <1>1, <1>2, <1>6, <1>7, <1>8 DEF TaskStep, DownInv, FolderOK, MarkedIsCurated
<1>10. CalmStep(t, task)
  <2>1. Settled(tasks[t].file) => pc = "drop part"
    <3>1. FullLen \in Nat /\ LeastLen \in 1..FullLen
      BY DownloadsAssumption
    <3>2. Settled(tasks[t].file) => LongEnough(final[tasks[t].file])
      BY <3>1 DEF Settled, Curated, LongEnough
    <3>3. QED BY <1>3, <3>2 DEF Settled
  <2>2. pc = "drop part" => marker[tasks[t].file] = "this"
    BY <1>3
  <2>3. \A g \in FilesOf : Behind(task, g) => Behind(tasks[t], g)
    BY <1>1, <1>6 DEF Behind
  <2>4. QED BY <1>1, <1>6, <2>1, <2>2, <2>3 DEF CalmStep, Passing, Settled
<1>11. QED BY <1>9, <1>10, TaskKeeps

\* A verified file supersedes the fragment beside it.
LEMMA DropsKeeps ==
    ASSUME DownInv, ~crossed, crossed' = Overlap', NEW t \in Tasks, DropsPart(t)
    PROVE  DownInv'
<1>1. /\ tasks[t].pc = "drop part" /\ UNCHANGED <<final, marker, deleting, disturbed>>
      /\ OnFile(tasks[t]) /\ Passing(tasks[t]) /\ NextFile(t)
  BY DEF DropsPart, TaskAt, Others, OnFile, Passing
<1>2. TaskIs(tasks[t]) /\ tasks[t].file \in FilesOf /\ DOMAIN part = FilesOf
  BY <1>1, OnFileIs DEF DownInv, FolderOK
<1>3. PICK task : /\ DOMAIN tasks' = Tasks /\ tasks'[t] = task /\ TaskIs(task)
                  /\ \A u \in Tasks \ {t} : Alike(tasks[u], tasks'[u])
                  /\ task.pc \in {"file", "leave"} /\ task.kind = tasks[t].kind
                  /\ \A g \in FilesOf : Behind(task, g) => Behind(tasks[t], g) \/ g = tasks[t].file
  BY <1>1, NextFileIs
<1>4. /\ DOMAIN part' = FilesOf /\ \A f \in FilesOf \ {tasks[t].file} : part'[f] = part[f]
      /\ part'[tasks[t].file] = IF tasks[t].kind = "fetch" THEN NoFile ELSE part[tasks[t].file]
  BY <1>2 DEF DropsPart, F
<1>5. TaskStep(t, task)
  BY <1>1, <1>2, <1>3, <1>4 DEF TaskStep, DownInv, FolderOK, MarkedIsCurated
<1>6. ~disturbed => CalmStep(t, task)
  <2>1. ASSUME ~disturbed
        PROVE  marker[tasks[t].file] = "this" /\ Curated(final[tasks[t].file])
    BY <1>1, <1>2, <2>1 DEF DownInv, MarkedIsCurated, Unshaken
  <2>2. OnFile(task) => Passing(task)
    BY <1>3 DEF OnFile, Passing
  <2>3. ASSUME NEW g \in FilesOf, Behind(task, g), ~Behind(tasks[t], g), ~disturbed
        PROVE  g = tasks[t].file /\ Curated(final'[g]) /\ marker'[g] = "this" /\ part'[g] = NoFile
    <3>1. g = tasks[t].file
      BY <1>3, <2>3
    <3>2. CASE tasks[t].kind = "fetch"
      BY <1>1, <1>4, <2>1, <2>3, <3>1, <3>2
    <3>3. CASE tasks[t].kind # "fetch"
      BY <1>3, <2>3, <3>3 DEF Behind
    <3>4. QED BY <3>2, <3>3
  <2>4. QED BY <1>1, <1>3, <1>4, <2>1, <2>2, <2>3 DEF CalmStep, Settled
<1>7. QED BY <1>5, <1>6, TaskKeeps

\* The probe, and the request that begins or resumes the fragment.
LEMMA OpensKeeps ==
    ASSUME DownInv, ~crossed, crossed' = Overlap', NEW t \in Tasks, NEW total, NEW resumes,
           Opens(t, total, resumes)
    PROVE  DownInv'
<1>1. /\ tasks[t].pc = "open" /\ UNCHANGED <<final, marker, deleting, disturbed>>
      /\ OnFile(tasks[t]) /\ ~Passing(tasks[t])
  BY DEF Opens, TaskAt, Others, OnFile, Passing
<1>2. /\ TaskIs(tasks[t]) /\ tasks[t].file \in FilesOf /\ DOMAIN part = FilesOf
      /\ DOMAIN final = FilesOf /\ DOMAIN marker = FilesOf
  BY <1>1, OnFileIs DEF DownInv, FolderOK
<1>3. PICK have : have = IF part[tasks[t].file].len > total THEN 0 ELSE part[tasks[t].file].len
  OBVIOUS
<1>4. PICK at : at = IF resumes THEN have ELSE 0
  OBVIOUS
<1>5. CASE have = total
  <2>1. UNCHANGED part /\ tasks' = [tasks EXCEPT ![t].pc = "hash", ![t].hashes = "part"]
    BY <1>3, <1>5 DEF Opens, F
  <2>2. PICK task : task = [tasks[t] EXCEPT !.pc = "hash", !.hashes = "part"]
    OBVIOUS
  <2>3. TaskIs(task) /\ task.pc = "hash" /\ task.kind = tasks[t].kind /\ task.file = tasks[t].file
    BY <1>2, <2>2 DEF TaskIs, TaskFields
  <2>4. tasks' = [tasks EXCEPT ![t] = task]
    BY <1>2, <2>1, <2>2 DEF DownInv, FolderOK, TaskIs, TaskFields
  <2>5. QED BY <1>1, <2>1, <2>3, <2>4, GoesKeeps
<1>6. CASE have # total
  <2>1. PICK ts : ts = Notice(tasks, tasks[t].file, "part", FALSE)
    OBVIOUS
  <2>2. /\ part' = [part EXCEPT ![tasks[t].file] = IF at = 0 THEN EmptyFile ELSE @]
        /\ tasks' = [ts EXCEPT ![t].pc = "copy", ![t].total = total, ![t].done = at,
                               ![t].append = at > 0, ![t].linked = TRUE]
    BY <1>3, <1>4, <1>6, <2>1 DEF Opens, F
  <2>3. DOMAIN ts = Tasks /\ \A u \in Tasks : Alike(tasks[u], ts[u])
    <3>1. \A u \in Tasks : tasks[u] = Resting \/ TaskIs(tasks[u])
      BY DEF DownInv, FolderOK
    <3>2. PICK no : no = FALSE
      OBVIOUS
    <3>3. ts = Notice(tasks, tasks[t].file, "part", no)
      BY <2>1, <3>2
    <3>4. QED BY <3>1, <3>3, NoticeIs
  <2>4. PICK app : app = (at > 0)
    OBVIOUS
  <2>5. PICK task : task = [ts[t] EXCEPT !.pc = "copy", !.total = total, !.done = at, !.append = app, !.linked = TRUE]
    OBVIOUS
  <2>6. TaskIs(ts[t]) /\ ts[t].file = tasks[t].file /\ ts[t].kind = tasks[t].kind
    BY <1>2, <2>3 DEF Alike, TaskIs, Resting
  <2>7. TaskIs(task) /\ task.pc = "copy" /\ task.kind = tasks[t].kind /\ task.file = tasks[t].file
    BY <2>5, <2>6 DEF TaskIs, TaskFields
  <2>8. DOMAIN tasks' = Tasks /\ tasks'[t] = task /\ \A u \in Tasks \ {t} : tasks'[u] = ts[u]
    <3>1. tasks' = [ts EXCEPT ![t].pc = "copy", ![t].total = total, ![t].done = at,
                              ![t].append = app, ![t].linked = TRUE]
      BY <2>2, <2>4
    <3>2. QED BY <2>3, <2>5, <2>6, <3>1 DEF TaskIs, TaskFields
  <2>9. \A u \in Tasks \ {t} : Alike(tasks[u], tasks'[u])
    BY <2>3, <2>8
  <2>10. DOMAIN part' = FilesOf /\ \A f \in FilesOf \ {tasks[t].file} : part'[f] = part[f]
    BY <1>2, <2>2
  <2>11. QED BY <1>1, <1>2, <2>7, <2>8, <2>9, <2>10, WorkKeeps
<1>7. QED BY <1>5, <1>6

\* A block of what the server sends.
LEMMA CopiesKeeps ==
    ASSUME DownInv, ~crossed, crossed' = Overlap', NEW t \in Tasks, NEW source, Copies(t, source)
    PROVE  DownInv'
<1>1. /\ tasks[t].pc = "copy" /\ UNCHANGED <<final, marker, deleting, disturbed>>
      /\ OnFile(tasks[t]) /\ ~Passing(tasks[t])
  BY DEF Copies, TaskAt, Others, OnFile, Passing
<1>2. /\ TaskIs(tasks[t]) /\ tasks[t].file \in FilesOf /\ DOMAIN part = FilesOf /\ DOMAIN tasks = Tasks
      /\ DOMAIN final = FilesOf /\ DOMAIN marker = FilesOf
  BY <1>1, OnFileIs DEF DownInv, FolderOK
<1>3. PICK ts : ts = IF tasks[t].linked THEN Notice(tasks, tasks[t].file, "part", FALSE) ELSE tasks
  OBVIOUS
<1>4. /\ DOMAIN part' = FilesOf /\ \A f \in FilesOf \ {tasks[t].file} : part'[f] = part[f]
      /\ tasks' = [ts EXCEPT ![t].done = @ + 1]
  <2>1. CASE tasks[t].linked
    <3>1. ts = Notice(tasks, tasks[t].file, "part", FALSE)
      BY <1>3, <2>1
    <3>2. tasks' = [Notice(tasks, tasks[t].file, "part", FALSE) EXCEPT ![t].done = @ + 1]
      BY <2>1 DEF Copies, F
    <3>3. PICK place : place = IF tasks[t].append THEN part[tasks[t].file].len ELSE tasks[t].done
      OBVIOUS
    <3>4. part' = [part EXCEPT ![tasks[t].file] = Written(part[tasks[t].file], tasks[t].done, place, source)]
      BY <2>1, <3>3 DEF Copies, F
    <3>5. QED BY <1>2, <3>1, <3>2, <3>4
  <2>2. CASE ~tasks[t].linked
    BY <1>2, <1>3, <2>2 DEF Copies
  <2>3. QED BY <2>1, <2>2
<1>5. DOMAIN ts = Tasks /\ \A u \in Tasks : Alike(tasks[u], ts[u])
  <2>1. \A u \in Tasks : tasks[u] = Resting \/ TaskIs(tasks[u])
    BY DEF DownInv, FolderOK
  <2>2. PICK no : no = FALSE
    OBVIOUS
  <2>3. ts = Notice(tasks, tasks[t].file, "part", no) \/ ts = tasks
    BY <1>3, <2>2
  <2>4. QED BY <1>2, <2>1, <2>3, NoticeIs, SameIsAlike
<1>6. PICK done : done = ts[t].done + 1
  OBVIOUS
<1>7. PICK task : task = [ts[t] EXCEPT !.done = done]
  OBVIOUS
<1>8. TaskIs(ts[t]) /\ ts[t].file = tasks[t].file /\ ts[t].kind = tasks[t].kind /\ ts[t].pc = "copy"
  BY <1>1, <1>2, <1>5 DEF Alike, TaskIs, Resting
<1>9. TaskIs(task) /\ task.pc = "copy" /\ task.kind = tasks[t].kind /\ task.file = tasks[t].file
  BY <1>7, <1>8 DEF TaskIs, TaskFields
<1>10. DOMAIN tasks' = Tasks /\ tasks'[t] = task /\ \A u \in Tasks \ {t} : tasks'[u] = ts[u]
  <2>1. tasks' = [ts EXCEPT ![t] = task]
    BY <1>4, <1>6, <1>7
  <2>2. QED BY <1>5, <2>1
<1>11. \A u \in Tasks \ {t} : Alike(tasks[u], tasks'[u])
  BY <1>5, <1>10
<1>12. QED BY <1>1, <1>2, <1>4, <1>9, <1>10, <1>11, WorkKeeps

\* No source answers, or the stream ends.
LEMMA StreamKeeps ==
    ASSUME DownInv, ~crossed, crossed' = Overlap', NEW t \in Tasks, NoSource(t) \/ EndOfStream(t)
    PROVE  DownInv'
<1>1. /\ tasks[t].pc \in {"open", "copy"} /\ UNCHANGED <<final, part, marker, deleting, disturbed>>
      /\ OnFile(tasks[t]) /\ ~Passing(tasks[t])
  BY DEF NoSource, EndOfStream, TaskAt, Folder, Others, OnFile, Passing
<1>2. CASE Fails(t)
  BY <1>1, <1>2, FailsKeeps
<1>3. CASE ~Fails(t)
  <2>1. PICK task : task = [tasks[t] EXCEPT !.pc = "hash", !.hashes = "part", !.linked = FALSE,
                                            !.append = FALSE, !.done = 0, !.total = 0]
    OBVIOUS
  <2>2. tasks' = [tasks EXCEPT ![t] = [tasks[t] EXCEPT !.pc = "hash", !.hashes = "part", !.linked = FALSE,
                                            !.append = FALSE, !.done = 0, !.total = 0]]
    BY <1>3, Zenon DEF EndOfStream, NoSource
  <2>3. tasks' = [tasks EXCEPT ![t] = task]
    BY <2>1, <2>2
  <2>4. TaskIs(tasks[t])
    BY <1>1, OnFileIs
  <2>5. TaskIs(task) /\ task.pc = "hash" /\ task.kind = tasks[t].kind /\ task.file = tasks[t].file
    BY <2>1, <2>4 DEF TaskIs, TaskFields
  <2>6. QED BY <1>1, <2>3, <2>5, GoesKeeps
<1>4. QED BY <1>2, <1>3

\* The hash pass begins.
LEMMA HashBeginsKeeps ==
    ASSUME DownInv, ~crossed, crossed' = Overlap', NEW t \in Tasks, HashBegins(t)
    PROVE  DownInv'
<1>1. /\ tasks[t].pc = "hash" /\ UNCHANGED <<final, part, marker, deleting, disturbed>>
      /\ OnFile(tasks[t]) /\ ~Passing(tasks[t])
  BY DEF HashBegins, TaskAt, Folder, Others, OnFile, Passing
<1>2. CASE Fails(t)
  BY <1>1, <1>2, FailsKeeps
<1>3. CASE ~Fails(t)
  <2>1. PICK task : task = [tasks[t] EXCEPT !.pc = "hashing", !.steady = TRUE]
    OBVIOUS
  <2>2. TaskIs(tasks[t])
    BY <1>1, OnFileIs
  <2>3. tasks' = [tasks EXCEPT ![t].pc = "hashing", ![t].steady = TRUE]
    BY <1>3 DEF HashBegins
  <2>4. tasks' = [tasks EXCEPT ![t] = task]
    BY <2>1, <2>2, <2>3 DEF DownInv, FolderOK, TaskIs, TaskFields
  <2>5. TaskIs(task) /\ task.pc = "hashing" /\ task.kind = tasks[t].kind /\ task.file = tasks[t].file
    BY <2>1, <2>2 DEF TaskIs, TaskFields
  <2>6. QED BY <1>1, <2>4, <2>5, GoesKeeps
<1>4. QED BY <1>2, <1>3

\* The hash decides.
LEMMA HashEndsKeeps ==
    ASSUME DownInv, ~crossed, crossed' = Overlap', NEW t \in Tasks, HashEnds(t)
    PROVE  DownInv'
<1>1. /\ tasks[t].pc = "hashing" /\ UNCHANGED <<final, part, marker, deleting, disturbed>>
      /\ OnFile(tasks[t]) /\ ~Passing(tasks[t])
  BY DEF HashEnds, TaskAt, Folder, Others, OnFile, Passing
<1>2. CASE Fails(t)
  BY <1>1, <1>2, FailsKeeps
<1>3. CASE ~Fails(t)
  <2>1. PICK hashed : hashed = IF tasks[t].hashes = "part" THEN part[tasks[t].file] ELSE final[tasks[t].file]
    OBVIOUS
  <2>2. PICK pc : pc = IF ~Curated(hashed) THEN "remove"
                       ELSE IF tasks[t].hashes = "part" THEN "rename" ELSE "mark"
    OBVIOUS
  <2>3. PICK task : task = [tasks[t] EXCEPT !.steady = FALSE, !.pc = pc]
    OBVIOUS
  <2>4. TaskIs(tasks[t]) /\ tasks[t].file \in FilesOf
    BY <1>1, OnFileIs
  <2>5. tasks' = [tasks EXCEPT ![t].steady = FALSE, ![t].pc = pc]
    <3>1. Hashed(t) = hashed
      BY <2>1 DEF Hashed, F
    <3>2. QED BY <1>3, <2>2, <3>1 DEF HashEnds
  <2>6. tasks' = [tasks EXCEPT ![t] = task]
    BY <2>3, <2>4, <2>5 DEF DownInv, FolderOK, TaskIs, TaskFields
  <2>7. /\ TaskIs(task) /\ task.pc = pc /\ task.kind = tasks[t].kind /\ task.file = tasks[t].file
        /\ task.hashes = tasks[t].hashes /\ pc \in {"remove", "rename", "mark"}
    BY <2>2, <2>3, <2>4 DEF TaskIs, TaskFields
  <2>8. DOMAIN tasks' = Tasks /\ tasks'[t] = task /\ \A u \in Tasks \ {t} : Alike(tasks[u], tasks'[u])
    BY <2>6, SameIsAlike DEF DownInv, FolderOK
  <2>9. /\ pc = "mark" => Curated(final[tasks[t].file]) /\ tasks[t].hashes # "part"
        /\ pc = "rename" => Curated(part[tasks[t].file]) /\ tasks[t].hashes = "part"
    BY <2>1, <2>2
  <2>10. TaskStep(t, task)
    BY <1>1, <2>4, <2>7, <2>8, <2>9 DEF TaskStep, DownInv, FolderOK, MarkedIsCurated
  <2>11. CalmStep(t, task)
    <3>1. \A g \in FilesOf : Behind(task, g) => Behind(tasks[t], g)
      BY <1>1, <2>7 DEF Behind
    <3>2. QED BY <1>1, <2>7, <2>9, <3>1 DEF CalmStep
  <2>12. QED BY <2>10, <2>11, TaskKeeps
<1>4. QED BY <1>2, <1>3

\* What does not have the hash is removed.
LEMMA RemovesKeeps ==
    ASSUME DownInv, ~crossed, crossed' = Overlap', NEW t \in Tasks, Removes(t)
    PROVE  DownInv'
<1>1. /\ tasks[t].pc = "remove" /\ UNCHANGED <<deleting, disturbed>>
      /\ OnFile(tasks[t]) /\ ~Passing(tasks[t])
  BY DEF Removes, TaskAt, Others, OnFile, Passing
<1>2. /\ TaskIs(tasks[t]) /\ tasks[t].file \in FilesOf /\ DOMAIN part = FilesOf /\ DOMAIN tasks = Tasks
      /\ DOMAIN final = FilesOf /\ DOMAIN marker = FilesOf
  BY <1>1, OnFileIs DEF DownInv, FolderOK
<1>3. PICK ts : ts = Notice(tasks, tasks[t].file, tasks[t].hashes, TRUE)
  OBVIOUS
<1>4. DOMAIN ts = Tasks /\ \A u \in Tasks : Alike(tasks[u], ts[u])
  <2>1. \A u \in Tasks : tasks[u] = Resting \/ TaskIs(tasks[u])
    BY DEF DownInv, FolderOK
  <2>2. PICK yes : yes = TRUE
    OBVIOUS
  <2>3. ts = Notice(tasks, tasks[t].file, tasks[t].hashes, yes)
    BY <1>3, <2>2
  <2>4. QED BY <2>1, <2>3, NoticeIs
<1>5. PICK task : task = Left(ts[t], FALSE)
  OBVIOUS
<1>6. tasks' = [ts EXCEPT ![t] = task]
  BY <1>3, <1>5, Zenon DEF Removes, F
<1>7. TaskIs(task) /\ task.pc = "leave" /\ ~task.ok
  <2>1. TaskIs(ts[t])
    BY <1>2, <1>4 DEF Alike, TaskIs, Resting
  <2>2. QED BY <1>5, <2>1, LeftIs
<1>8. DOMAIN tasks' = Tasks /\ tasks'[t] = task /\ \A u \in Tasks \ {t} : Alike(tasks[u], tasks'[u])
  BY <1>4, <1>6
<1>9. /\ DOMAIN final' = FilesOf /\ DOMAIN part' = FilesOf /\ DOMAIN marker' = FilesOf
      /\ \A f \in FilesOf \ {tasks[t].file} : final'[f] = final[f] /\ part'[f] = part[f] /\ marker'[f] = marker[f]
      /\ marker'[tasks[t].file] = "this" => UNCHANGED <<final, marker>>
  BY <1>2 DEF Removes, F
<1>10. QED BY <1>1, <1>7, <1>8, <1>9, WorkKeeps

\* The fragment becomes the file.
LEMMA RenamesKeeps ==
    ASSUME DownInv, ~crossed, crossed' = Overlap', NEW t \in Tasks, Renames(t)
    PROVE  DownInv'
<1>1. /\ tasks[t].pc = "rename" /\ UNCHANGED <<deleting, disturbed>>
      /\ OnFile(tasks[t]) /\ ~Passing(tasks[t])
  BY DEF Renames, TaskAt, Others, OnFile, Passing
<1>2. /\ TaskIs(tasks[t]) /\ tasks[t].file \in FilesOf /\ DOMAIN part = FilesOf /\ DOMAIN tasks = Tasks
      /\ DOMAIN final = FilesOf /\ DOMAIN marker = FilesOf
      /\ \A u \in Tasks : tasks[u] = Resting \/ TaskIs(tasks[u])
  BY <1>1, OnFileIs DEF DownInv, FolderOK
<1>3. CASE part[tasks[t].file] = NoFile
  BY <1>1, <1>3, FailsKeeps DEF Renames, Folder, F
<1>4. CASE part[tasks[t].file] # NoFile
  <2>1. PICK one : one = Notice(tasks, tasks[t].file, "part", TRUE)
    OBVIOUS
  <2>2. PICK ts : ts = Notice(one, tasks[t].file, "final", FALSE)
    OBVIOUS
  <2>3. DOMAIN one = Tasks /\ \A u \in Tasks : Alike(tasks[u], one[u])
    <3>1. PICK yes : yes = TRUE
      OBVIOUS
    <3>2. one = Notice(tasks, tasks[t].file, "part", yes)
      BY <2>1, <3>1
    <3>3. QED BY <1>2, <3>2, NoticeIs
  <2>4. DOMAIN ts = Tasks /\ \A u \in Tasks : Alike(one[u], ts[u])
    <3>1. PICK no : no = FALSE
      OBVIOUS
    <3>2. ts = Notice(one, tasks[t].file, "final", no)
      BY <2>2, <3>1
    <3>3. \A u \in Tasks : one[u] = Resting \/ TaskIs(one[u])
      BY <2>3 DEF Alike
    <3>4. QED BY <3>2, <3>3, NoticeIs
  <2>5. \A u \in Tasks : Alike(tasks[u], ts[u])
    BY <2>3, <2>4 DEF Alike
  <2>6. /\ final' = [final EXCEPT ![tasks[t].file] = part[tasks[t].file]]
        /\ part' = [part EXCEPT ![tasks[t].file] = NoFile]
        /\ marker' = Superseded(tasks[t].file)
        /\ tasks' = [ts EXCEPT ![t].pc = "mark"]
    BY <1>4, <2>1, <2>2 DEF Renames, F
  <2>7. PICK task : task = [ts[t] EXCEPT !.pc = "mark"]
    OBVIOUS
  <2>8. /\ TaskIs(ts[t]) /\ ts[t].file = tasks[t].file /\ ts[t].kind = tasks[t].kind
        /\ ts[t].hashes = tasks[t].hashes
    BY <1>2, <2>5 DEF Alike, TaskIs, Resting
  <2>9. /\ TaskIs(task) /\ task.pc = "mark" /\ task.kind = tasks[t].kind /\ task.file = tasks[t].file
        /\ task.hashes = tasks[t].hashes
    BY <2>7, <2>8 DEF TaskIs, TaskFields
  <2>10. DOMAIN tasks' = Tasks /\ tasks'[t] = task /\ \A u \in Tasks \ {t} : Alike(tasks[u], tasks'[u])
    BY <2>4, <2>5, <2>6, <2>7
  <2>11. /\ DOMAIN final' = FilesOf /\ DOMAIN part' = FilesOf /\ DOMAIN marker' = FilesOf
         /\ \A f \in FilesOf \ {tasks[t].file} : final'[f] = final[f] /\ part'[f] = part[f] /\ marker'[f] = marker[f]
         /\ final'[tasks[t].file] = part[tasks[t].file] /\ part'[tasks[t].file] = NoFile
         /\ marker'[tasks[t].file] # "this"
    BY <1>2, <2>6 DEF Superseded
  <2>12. Verified(tasks[t]) /\ (~disturbed => Unshaken(tasks[t]))
    BY DEF DownInv
  <2>13. TaskStep(t, task)
    BY <1>1, <1>4, <2>9, <2>10, <2>11, <2>12 DEF TaskStep, Verified
  <2>14. ~disturbed => CalmStep(t, task)
    <3>1. \A g \in FilesOf : Behind(task, g) => Behind(tasks[t], g)
      BY <1>1, <2>9 DEF Behind
    <3>2. QED BY <1>1, <2>9, <2>11, <2>12, <3>1 DEF CalmStep, Unshaken
  <2>15. QED BY <2>13, <2>14, TaskKeeps
<1>5. QED BY <1>3, <1>4

\* The marker is set for the file that is there.
LEMMA MarksKeeps ==
    ASSUME DownInv, ~crossed, crossed' = Overlap', NEW t \in Tasks, Marks(t)
    PROVE  DownInv'
<1>1. /\ tasks[t].pc = "mark" /\ UNCHANGED <<final, part, deleting, disturbed>>
      /\ OnFile(tasks[t]) /\ ~Passing(tasks[t])
  BY DEF Marks, TaskAt, Others, OnFile, Passing
<1>2. /\ TaskIs(tasks[t]) /\ tasks[t].file \in FilesOf /\ DOMAIN part = FilesOf /\ DOMAIN tasks = Tasks
      /\ DOMAIN final = FilesOf /\ DOMAIN marker = FilesOf
  BY <1>1, OnFileIs DEF DownInv, FolderOK
<1>3. /\ DOMAIN marker' = FilesOf /\ \A f \in FilesOf \ {tasks[t].file} : marker'[f] = marker[f]
      /\ marker'[tasks[t].file] = IF final[tasks[t].file] = NoFile THEN marker[tasks[t].file] ELSE "this"
  BY <1>2 DEF Marks, F
<1>4. Verified(tasks[t]) /\ (~disturbed => Unshaken(tasks[t])) /\ MarkedIsCurated
  BY DEF DownInv
<1>5. marker'[tasks[t].file] = "this" => Curated(final[tasks[t].file])
  BY <1>1, <1>2, <1>3, <1>4 DEF Verified, MarkedIsCurated
<1>6. ~disturbed => marker'[tasks[t].file] = "this" /\ Curated(final[tasks[t].file])
                    /\ (tasks[t].hashes = "part" => part[tasks[t].file] = NoFile)
  BY <1>1, <1>3, <1>4 DEF Unshaken, Curated, NoFile
<1>7. CASE tasks[t].hashes = "part"
  <2>1. PICK task : /\ DOMAIN tasks' = Tasks /\ tasks'[t] = task /\ TaskIs(task)
                    /\ \A u \in Tasks \ {t} : Alike(tasks[u], tasks'[u])
                    /\ task.pc \in {"file", "leave"} /\ task.kind = tasks[t].kind
                    /\ \A g \in FilesOf : Behind(task, g) => Behind(tasks[t], g) \/ g = tasks[t].file
    BY <1>1, <1>7, NextFileIs DEF Marks
  <2>2. TaskStep(t, task)
    BY <1>1, <1>2, <1>3, <1>5, <2>1 DEF TaskStep
  <2>3. ~disturbed => CalmStep(t, task)
    BY <1>1, <1>6, <1>7, <2>1 DEF CalmStep, OnFile, Passing
  <2>4. QED BY <2>2, <2>3, TaskKeeps
<1>8. CASE tasks[t].hashes # "part"
  <2>1. PICK task : task = [tasks[t] EXCEPT !.pc = "drop part"]
    OBVIOUS
  <2>2. tasks' = [tasks EXCEPT ![t] = task]
    BY <1>8, <2>1 DEF Marks, TaskGoto
  <2>3. TaskIs(task) /\ task.pc = "drop part" /\ task.kind = tasks[t].kind /\ task.file = tasks[t].file
    BY <1>2, <2>1 DEF TaskIs, TaskFields
  <2>4. DOMAIN tasks' = Tasks /\ tasks'[t] = task /\ \A u \in Tasks \ {t} : Alike(tasks[u], tasks'[u])
    BY <1>2, <2>2, SameIsAlike
  <2>5. TaskStep(t, task)
    BY <1>1, <1>2, <1>3, <1>5, <2>3, <2>4 DEF TaskStep
  <2>6. ~disturbed => CalmStep(t, task)
    <3>1. \A g \in FilesOf : Behind(task, g) => Behind(tasks[t], g)
      BY <1>1, <2>3 DEF Behind
    <3>2. QED BY <1>1, <1>6, <2>3, <3>1 DEF CalmStep, Passing
  <2>7. QED BY <2>5, <2>6, TaskKeeps
<1>9. QED BY <1>7, <1>8

\* Somebody else's hand in the folder: files go, or are replaced while no task is about to mark
\* one, and no marker comes of it.
LEMMA HandKeeps ==
    ASSUME DownInv, ~crossed, crossed' = Overlap', disturbed',
           DOMAIN tasks' = Tasks, \A u \in Tasks : Alike(tasks[u], tasks'[u]),
           DOMAIN final' = FilesOf, DOMAIN part' = FilesOf, DOMAIN marker' = FilesOf,
           \A f \in FilesOf : marker'[f] = "this" => marker[f] = "this" /\ final'[f] = final[f],
           \A f \in FilesOf : part'[f] = part[f] \/ part'[f] = NoFile,
           \A f \in FilesOf : \/ final'[f] = final[f] \/ final'[f] = NoFile
                              \/ \A t \in Tasks : tasks[t].pc # "mark"
    PROVE  DownInv'
<1>1. FolderOK'
  BY DEF Alike, FolderOK, Overlap, TaskIs, Resting
<1>2. MarkedIsCurated'
  <2>1. \A f \in FilesOf : marker'[f] = "this" => Curated(final'[f])
    BY DEF DownInv, MarkedIsCurated
  <2>2. QED BY <2>1 DEF MarkedIsCurated, Curated
<1>3. ASSUME NEW u \in Tasks
      PROVE  Verified(tasks[u])'
  <2>1. Verified(tasks[u]) /\ tasks'[u].pc = tasks[u].pc /\ tasks'[u].file = tasks[u].file
    BY DEF DownInv, Alike
  <2>2. tasks[u].pc # "rest" => tasks[u].file \in FilesOf
    BY OnFileIs
  <2>3. QED BY <2>1, <2>2 DEF Verified
<1>4. QED BY <1>1, <1>2, <1>3 DEF DownInv

\* Deletions and other programs' files.
LEMMA DeleteKeeps ==
    ASSUME DownInv, ~crossed, crossed' = Overlap', Delete \/ DeleteOne \/ \E f \in FilesOf, c \in FoundFinals : ReplaceFound(f, c)
    PROVE  DownInv'
<1>1. /\ DOMAIN part = FilesOf /\ DOMAIN tasks = Tasks /\ DOMAIN final = FilesOf /\ DOMAIN marker = FilesOf
      /\ \A u \in Tasks : tasks[u] = Resting \/ TaskIs(tasks[u])
      /\ \A u \in Tasks : Alike(tasks[u], tasks[u])
  BY SameIsAlike DEF DownInv, FolderOK
<1>2. CASE Delete
  <2>1. UNCHANGED <<final, part, marker, tasks>> /\ disturbed'
    BY <1>2 DEF Delete, Folder
  <2>2. \A u \in Tasks : Alike(tasks[u], tasks'[u])
    BY <1>1, <2>1
  <2>3. QED BY <1>1, <2>1, <2>2, HandKeeps
<1>3. CASE DeleteOne
  <2>1. PICK d : d = Head(deleting)
    OBVIOUS
  <2>2. disturbed'
    BY <1>3 DEF DeleteOne, DownInv, FolderOK
  <2>3. /\ DOMAIN final' = FilesOf /\ DOMAIN part' = FilesOf /\ DOMAIN marker' = FilesOf
        /\ \A f \in FilesOf : marker'[f] = "this" => marker[f] = "this" /\ final'[f] = final[f]
        /\ \A f \in FilesOf : part'[f] = part[f] \/ part'[f] = NoFile
        /\ \A f \in FilesOf : final'[f] = final[f] \/ final'[f] = NoFile
    <3>1. CASE d.what = "final"
      <4>1. final' = [final EXCEPT ![d.file] = NoFile] /\ marker' = Superseded(d.file) /\ UNCHANGED part
        BY <1>3, <2>1, <3>1 DEF DeleteOne
      <4>2. QED BY <1>1, <4>1 DEF Superseded
    <3>2. CASE d.what = "part"
      <4>1. part' = [part EXCEPT ![d.file] = NoFile] /\ UNCHANGED <<final, marker>>
        BY <1>3, <2>1, <3>2 DEF DeleteOne
      <4>2. QED BY <1>1, <4>1
    <3>3. CASE d.what \notin {"final", "part"}
      <4>1. marker' = [marker EXCEPT ![d.file] = "none"] /\ UNCHANGED <<final, part>>
        BY <1>3, <2>1, <3>3 DEF DeleteOne
      <4>2. QED BY <1>1, <4>1
    <3>4. QED BY <3>1, <3>2, <3>3
  <2>4. DOMAIN tasks' = Tasks /\ \A u \in Tasks : Alike(tasks[u], tasks'[u])
    <3>1. PICK yes : yes = TRUE
      OBVIOUS
    <3>2. tasks' = tasks \/ tasks' = Notice(tasks, d.file, d.what, yes)
      BY <1>3, <2>1, <3>1 DEF DeleteOne
    <3>3. PICK ts : ts = tasks'
      OBVIOUS
    <3>4. DOMAIN ts = Tasks /\ \A u \in Tasks : Alike(tasks[u], ts[u])
      BY <1>1, <3>2, <3>3, NoticeIs
    <3>5. QED BY <3>3, <3>4
  <2>5. QED BY <2>2, <2>3, <2>4, HandKeeps
<1>4. CASE \E f \in FilesOf, c \in FoundFinals : ReplaceFound(f, c)
  <2>1. PICK f \in FilesOf, c \in FoundFinals : ReplaceFound(f, c)
    BY <1>4
  <2>2. disturbed' /\ UNCHANGED part /\ (\A t \in Tasks : tasks[t].pc # "mark")
        /\ final' = [final EXCEPT ![f] = c] /\ marker' = Superseded(f)
    BY <2>1 DEF ReplaceFound, TaskAt
  <2>3. /\ DOMAIN final' = FilesOf /\ DOMAIN part' = FilesOf /\ DOMAIN marker' = FilesOf
        /\ \A g \in FilesOf : marker'[g] = "this" => marker[g] = "this" /\ final'[g] = final[g]
        /\ \A g \in FilesOf : part'[g] = part[g]
    BY <1>1, <2>2 DEF Superseded
  <2>4. DOMAIN tasks' = Tasks /\ \A u \in Tasks : Alike(tasks[u], tasks'[u])
    <3>1. PICK yes : yes = TRUE
      OBVIOUS
    <3>2. PICK which : which = "final"
      OBVIOUS
    <3>3. PICK ts : ts = Notice(tasks, f, which, yes)
      OBVIOUS
    <3>4. tasks' = ts
      BY <2>1, <3>1, <3>2, <3>3 DEF ReplaceFound
    <3>5. DOMAIN ts = Tasks /\ \A u \in Tasks : Alike(tasks[u], ts[u])
      BY <1>1, <3>3, NoticeIs
    <3>6. QED BY <3>4, <3>5
  <2>5. QED BY <2>2, <2>3, <2>4, HandKeeps
<1>5. QED BY <1>2, <1>3, <1>4

\* The client is killed, and its tasks with it.
LEMMA KillKeeps ==
    ASSUME DownInv, ~crossed, crossed' = Overlap', KillClient
    PROVE  DownInv'
<1>1. /\ tasks' = [t \in Tasks |-> Resting] /\ deleting' = <<>> /\ UNCHANGED <<final, part, marker>>
  BY DEF KillClient, Folder
<1>2. \A t \in Tasks : tasks'[t] = Resting /\ tasks'[t].pc = "rest"
  BY <1>1 DEF Resting
<1>3. FolderOK'
  BY <1>1, <1>2 DEF DownInv, FolderOK
<1>4. MarkedIsCurated'
  BY <1>1 DEF DownInv, MarkedIsCurated, Curated
<1>5. QED BY <1>2, <1>3, <1>4 DEF DownInv, Verified, Unshaken, Behind

\* Downloads starts in the invariant.
LEMMA DownStarts ==
    ASSUME DownloadsInit
    PROVE  DownInv
<1>1. /\ DOMAIN final = FilesOf /\ DOMAIN part = FilesOf /\ DOMAIN marker = FilesOf
      /\ tasks = [t \in Tasks |-> Resting] /\ deleting = <<>> /\ crossed = FALSE
      /\ \A f \in FilesOf : marker[f] # "this"
  BY DEF DownloadsInit
<1>2. \A t \in Tasks : tasks[t] = Resting /\ tasks[t].pc = "rest"
  BY <1>1 DEF Resting
<1>3. Overlap = FALSE
  BY <1>2 DEF Overlap
<1>4. QED BY <1>1, <1>2, <1>3 DEF DownInv, FolderOK, MarkedIsCurated, Verified, Unshaken, Behind

\* A step of the rest of the machine.
LEMMA DownIdles ==
    ASSUME DownInv, UNCHANGED downloadVars
    PROVE  DownInv'
<1>1. UNCHANGED <<final, part, marker, tasks, deleting, disturbed, crossed>>
  BY DEF downloadVars
<1>2. FolderOK' /\ MarkedIsCurated'
  BY <1>1 DEF DownInv, FolderOK, MarkedIsCurated, Overlap, Curated
<1>3. /\ \A t \in Tasks : /\ Verified(tasks[t])' = Verified(tasks[t])
                        /\ Unshaken(tasks[t])' = Unshaken(tasks[t])
                        /\ OnFile(tasks[t])' = OnFile(tasks[t])
                        /\ Passing(tasks[t])' = Passing(tasks[t])
      /\ \A t \in Tasks, g \in FilesOf : Behind(tasks[t], g)' = Behind(tasks[t], g)
      /\ \A g \in FilesOf : Settled(g)' = Settled(g)
  BY <1>1 DEF Verified, Unshaken, Behind, Settled, OnFile, Passing
<1>4. QED BY <1>1, <1>2, <1>3 DEF DownInv, FilesOf

\* Every step of Downloads keeps the invariant.
LEMMA DownStepKeeps ==
    ASSUME DownInv, [DownloadsNext]_downloadVars
    PROVE  DownInv'
<1>1. CASE UNCHANGED downloadVars
  BY <1>1, DownIdles
<1>2. CASE DownloadsNext
  <2>1. ~crossed /\ crossed' = Overlap' /\ DownloadsStep
    BY <1>2 DEF DownloadsNext
  <2>2. CASE \E t \in Tasks, id \in Ids, k \in {"fetch", "verify"}, f \in FilesOf : Ask(t, id, k, f)
    BY <2>1, <2>2, AskKeeps
  <2>3. CASE \E t \in Tasks : Register(t) \/ Leave(t) \/ LooksAtFile(t) \/ DropsPart(t)
    BY <2>1, <2>3, RegisterKeeps, LeaveKeeps, LooksKeeps, DropsKeeps
  <2>4. CASE \E t \in Tasks, total \in {LeastLen, FullLen}, resumes \in BOOLEAN : Opens(t, total, resumes)
    BY <2>1, <2>4, OpensKeeps
  <2>5. CASE \E t \in Tasks, source \in {"curated", "other"} : Copies(t, source)
    BY <2>1, <2>5, CopiesKeeps
  <2>6. CASE \E t \in Tasks : NoSource(t) \/ EndOfStream(t)
    BY <2>1, <2>6, StreamKeeps
  <2>7. CASE \E t \in Tasks : HashBegins(t) \/ HashEnds(t)
    BY <2>1, <2>7, HashBeginsKeeps, HashEndsKeeps
  <2>8. CASE \E t \in Tasks : Removes(t) \/ Renames(t) \/ Marks(t)
    BY <2>1, <2>8, RemovesKeeps, RenamesKeeps, MarksKeeps
  <2>9. CASE \E id \in Ids : Cancel(id)
    BY <2>1, <2>9, CancelKeeps
  <2>10. CASE Delete \/ DeleteOne \/ \E f \in FilesOf, c \in FoundFinals : ReplaceFound(f, c)
    BY <2>1, <2>10, DeleteKeeps
  <2>11. CASE KillClient
    BY <2>1, <2>11, KillKeeps
  <2>12. QED
    BY <2>1, <2>2, <2>3, <2>4, <2>5, <2>6, <2>7, <2>8, <2>9, <2>10, <2>11 DEF DownloadsStep
<1>3. QED BY <1>1, <1>2

\* The invariant says of the folder what the run checks of it.
LEMMA DownInvIsEnough ==
    ASSUME DownInv
    PROVE  MarkedIsCurated /\ DoneIsReady
<1>1. ASSUME NEW t \in Tasks, tasks[t].pc = "leave", tasks[t].ok, tasks[t].kind = "fetch", ~disturbed, ~crossed,
             NEW f \in FilesOf
      PROVE  Curated(final[f]) /\ marker[f] = "this" /\ part[f] = NoFile
  <2>1. Behind(tasks[t], f)
    BY <1>1 DEF Behind
  <2>2. QED BY <1>1, <2>1 DEF DownInv, Settled
<1>2. DoneIsReady
  BY <1>1 DEF DoneIsReady, TaskAt
<1>3. QED BY <1>2 DEF DownInv

-----------------------------------------------------------------------------
(* The machine (MCMachine): each component is proved by itself, and the others stay in their *)
(* initial states.                                                                           *)
StoreInv == CacheInv /\ ViewInv /\ IndexInv /\ DownInv

\* The machine starts in the stores' invariants.
LEMMA StoresStart ==
    ASSUME MachineInit
    PROVE  StoreInv
BY CacheStarts, ViewStarts, IndexStarts, DownStarts DEF MachineInit, StoreInv

\* A step of the machine is one of each store, or leaves it alone.
LEMMA StoresStep ==
    ASSUME [MachineNext]_MachineVars
    PROVE  /\ [CacheNext]_cacheVars /\ [ViewNext]_viewVars /\ [IndexNext]_indexVars
           /\ [DownloadsNext]_downloadVars
BY DEF MachineNext, MachineVars, storeVars

\* What is on the disk stays sound through every step of the machine.
LEMMA StoresAlways == MachineSpec => []StoreInv
<1>1. MachineInit => StoreInv
  BY StoresStart
<1>2. StoreInv /\ [MachineNext]_MachineVars => StoreInv'
  BY StoresStep, CacheStepKeeps, ViewStepKeeps, IndexStepKeeps, DownStepKeeps DEF StoreInv
<1>3. QED BY <1>1, <1>2, PTL DEF MachineSpec

\* A seeded name stands for the bytes of the model the seed was for, a view called complete has
\* every byte of its layers, a fresh index is of this file and this build, and what a download
\* calls done is the curated file: in every state of a machine (seed_range, weights_prepare_view,
\* ensure_tensor_index, fetch_inner).
THEOREM StoresAreSound == MachineSpec => []StoresSound
<1>1. StoreInv => StoresSound
  BY CacheInvIsEnough, ViewInvIsEnough, IndexInvIsEnough, DownInvIsEnough DEF StoreInv, StoresSound
<1>2. QED BY <1>1, StoresAlways, PTL

\* No tensor is fetched while the machine has its bytes, and a view that counts goes on counting
\* for no fewer layers, in every step of a machine.
THEOREM StoresAreKept == MachineSpec => StoresKeep
<1>1. StoreInv /\ [MachineNext]_MachineVars =>
         [Fetch => \/ link[seed.at] # Bytes(seed.at)
                   \/ Bytes(seed.at) \notin content
                   \/ record[seed.at] = Absent
                   \/ seed.at \in unrecorded]_cacheVars
  BY CacheInvIsEnough DEF StoreInv
<1>2. StoreInv /\ [MachineNext]_MachineVars =>
         [Valid /\ kind # "shard" /\ prep.pc \notin {"publish", "rename"} /\ prep'.pc # "rename"
            => /\ mark' >= mark
               /\ Valid' \/ \E p \in Parts : LoseFile(p)]_viewVars
  BY StoresStep, CoverageStandsIn DEF StoreInv
<1>3. QED BY <1>1, <1>2, StoresAlways, PTL DEF MachineSpec, StoresKeep, NothingFetchedTwice, CoverageStands

=============================================================================
