-------------------------- MODULE BufferPoolProofs --------------------------
(***************************************************************************)
(* Proofs that the pool never recycles, frees or hands out a Data that is  *)
(* in use, for every number of items, Data, pools and processes, and       *)
(* whichever processes crash.                                              *)
(***************************************************************************)
EXTENDS BufferPool, TLAPS

\* The members of an item at each stage of its life.
ItemsHold ==
    \A i \in Item :
        /\ phase[i] = "none" => data[i] = Null /\ queue[i] = Null
        /\ phase[i] = "missed" => data[i] = Null /\ queue[i] \in Pool
        /\ data[i] # Null /\ phase[i] # "released" => queue[i] \in Pool

\* m_blob is empty from clear() to Push.
ClearedIsEmpty ==
    \A i \in Item : phase[i] = "clearing" => ~bytes[data[i]]

\* ~Data runs for constructed Data only.
DestroyedExists ==
    \A d \in Data : destroyer[d] # Null => d \in memory

IndInv ==
    /\ TypeOK
    /\ ItemsHold
    /\ ClearedIsEmpty
    /\ DestroyedExists
    /\ NoDangling
    /\ RecycledIsExclusive
    /\ IdleIsClean
    /\ SameHome

\* The part of the invariant that relates the items and the queues to the
\* memory.
HeapInv == DestroyedExists /\ NoDangling /\ IdleIsClean

-----------------------------------------------------------------------------
\* What Destroy leaves alone, and that it never fills a blob.
LEMMA DestroyFacts ==
    ASSUME TypeOK, NEW p \in Process, NEW D, Destroy(p, D)
    PROVE  /\ memory' \in SUBSET Data
           /\ destroyer' \in [Data -> Process \cup {Null}]
           /\ bytes' \in [Data -> BOOLEAN]
           /\ \A d \in Data : bytes'[d] => bytes[d]
           /\ \A d \in Data : d \notin D =>
                /\ d \in memory' <=> d \in memory
                /\ destroyer'[d] = destroyer[d]
                /\ bytes'[d] = bytes[d]
           /\ \A d \in Data : destroyer'[d] # Null =>
                d \in memory' \/ (d \in D /\ d \notin memory)
                    \/ destroyer[d] # Null
  BY DEF TypeOK, Destroy

\* Dropping the Data of D and the queues of Q keeps the heap consistent, when
\* D is what nobody refers to any more.
LEMMA DropKeepsHeap ==
    ASSUME TypeOK, HeapInv,
           NEW p \in Process, NEW D \in SUBSET memory, NEW Q \in SUBSET Pool,
           Destroy(p, D), DropQueues(Q),
           IdleOf(Q) \subseteq D,
           \A r \in Pool \ Q : idle[r] \cap D = {},
           \A d \in D : destroyer[d] = Null,
           \A i \in Item : data'[i] # Null =>
                data'[i] \notin D /\ \E j \in Item : data[j] = data'[i],
           \A i \in Item : place'[i] = place[i] \/ place'[i] = Null
    PROVE  /\ HeapInv'
           /\ idle' \in [Pool -> SUBSET Data]
<1>1. /\ \A r \in Q : idle'[r] = {}
      /\ \A r \in Pool \ Q : idle'[r] = idle[r]
      /\ idle' \in [Pool -> SUBSET Data]
  BY DEF TypeOK, DropQueues
<1>2. DestroyedExists'
  <2>1. SUFFICES ASSUME NEW d \in Data, destroyer'[d] # Null
                 PROVE  d \in memory'
    BY DEF DestroyedExists
  <2>2. d \in memory
    BY <2>1, DestroyFacts DEF HeapInv, DestroyedExists
  <2>3. CASE d \in D
    BY <2>1, <2>2, <2>3 DEF Destroy, TypeOK
  <2>4. CASE d \notin D
    BY <2>2, <2>4, DestroyFacts
  <2>5. QED
    BY <2>3, <2>4
<1>3. NoDangling'
  <2>1. SUFFICES ASSUME NEW i \in Item, data'[i] # Null
                 PROVE  /\ data'[i] \in memory'
                        /\ destroyer'[data'[i]] = Null
                        /\ \A q \in Pool : data'[i] \notin idle'[q]
    BY DEF NoDangling
  <2>2. PICK j \in Item : data[j] = data'[i]
    BY <2>1
  <2>3. /\ data[j] \in memory /\ destroyer[data[j]] = Null
        /\ \A q \in Pool : data[j] \notin idle[q]
    BY <2>1, <2>2 DEF HeapInv, NoDangling
  <2>4. data[j] \in Data /\ data[j] \notin D
    BY <2>1, <2>2, <2>3 DEF TypeOK
  <2>5. QED
    BY <2>2, <2>3, <2>4, <1>1, DestroyFacts
<1>4. IdleIsClean'
  <2>1. SUFFICES ASSUME NEW q \in Pool, NEW d \in idle'[q]
                 PROVE  /\ d \in memory' /\ destroyer'[d] = Null
                        /\ ~bytes'[d] /\ Nested(d)' = {}
                        /\ \A r \in Pool : d \in idle'[r] => r = q
    BY DEF IdleIsClean
  <2>2. q \notin Q /\ d \in idle[q] /\ d \notin D /\ d \in Data
    BY <1>1 DEF TypeOK
  <2>3. /\ d \in memory /\ destroyer[d] = Null /\ ~bytes[d]
        /\ Nested(d) = {}
        /\ \A r \in Pool : d \in idle[r] => r = q
    BY <2>2 DEF HeapInv, IdleIsClean
  <2>4. \A r \in Pool : d \in idle'[r] => r = q
    BY <2>3, <1>1
  <2>5. Nested(d)' = {}
    BY <2>3, <2>2, Distinct DEF Nested, TypeOK
  <2>6. QED
    BY <2>2, <2>3, <2>4, <2>5, DestroyFacts
<1>5. QED
  BY <1>1, <1>2, <1>3, <1>4 DEF HeapInv

-----------------------------------------------------------------------------
(* One lemma for each operation: the step keeps the invariant.             *)

LEMMA TakePopKeeps ==
    ASSUME IndInv, NEW p \in Process, NEW i \in Item, NEW q \in Pool,
           NEW k \in Kinds, TakePop(p, i, q, k)
    PROVE  IndInv'
<1> USE DEF TakePop, Create
<1>1. PICK d \in idle[q] :
        /\ idle' = [idle EXCEPT ![q] = @ \ {d}]
        /\ data' = [data EXCEPT ![i] = d]
  OBVIOUS
<1>2. /\ d \in memory /\ d \in Data /\ destroyer[d] = Null
      /\ \A r \in Pool : d \in idle[r] => r = q
      /\ \A j \in Item : data[j] # d
      /\ d # Null
  BY Distinct DEF IndInv, TypeOK, IdleIsClean, NoDangling
<1>3. TypeOK'
  BY <1>1, <1>2 DEF IndInv, TypeOK, Phases
<1>4. ItemsHold'
  BY <1>1, <1>2, Distinct DEF IndInv, ItemsHold, TypeOK
<1>5. ClearedIsEmpty'
  BY <1>1 DEF IndInv, ClearedIsEmpty, TypeOK
<1>6. DestroyedExists'
  BY DEF IndInv, DestroyedExists
<1>7. NoDangling'
  BY <1>1, <1>2 DEF IndInv, NoDangling, TypeOK
<1>8. RecycledIsExclusive'
  BY <1>1, <1>2 DEF IndInv, RecycledIsExclusive, TypeOK, Unique, Holders
<1>9. IdleIsClean'
  BY <1>1, <1>2, Distinct DEF IndInv, IdleIsClean, TypeOK, Nested
<1>10. SameHome'
  BY <1>1, <1>2 DEF IndInv, SameHome, TypeOK
<1>11. QED
  BY <1>3, <1>4, <1>5, <1>6, <1>7, <1>8, <1>9, <1>10 DEF IndInv

LEMMA TakeMissKeeps ==
    ASSUME IndInv, NEW p \in Process, NEW i \in Item, NEW q \in Pool,
           NEW k \in Kinds, TakeMiss(p, i, q, k)
    PROVE  IndInv'
<1> USE DEF TakeMiss, Create
<1>1. TypeOK'
  BY DEF IndInv, TypeOK, Phases
<1>2. ItemsHold'
  BY DEF IndInv, ItemsHold, TypeOK
<1>3. ClearedIsEmpty' /\ DestroyedExists'
  BY DEF IndInv, ClearedIsEmpty, DestroyedExists, TypeOK
<1>4. NoDangling'
  BY DEF IndInv, NoDangling, TypeOK
<1>5. RecycledIsExclusive'
  BY DEF IndInv, RecycledIsExclusive, TypeOK, Unique, Holders
<1>6. IdleIsClean'
  BY Distinct DEF IndInv, IdleIsClean, TypeOK, Nested
<1>7. SameHome'
  BY DEF IndInv, SameHome, TypeOK
<1>8. QED
  BY <1>1, <1>2, <1>3, <1>4, <1>5, <1>6, <1>7 DEF IndInv

LEMMA TakeNewKeeps ==
    ASSUME IndInv, NEW p \in Process, NEW i \in Item, TakeNew(p, i)
    PROVE  IndInv'
<1> USE DEF TakeNew
<1>1. PICK d \in Data \ memory :
        /\ memory' = memory \cup {d}
        /\ data' = [data EXCEPT ![i] = d]
  OBVIOUS
<1>2. /\ destroyer[d] = Null
      /\ \A q \in Pool : d \notin idle[q]
      /\ \A j \in Item : data[j] # d
      /\ d # Null
  BY Distinct DEF IndInv, TypeOK, DestroyedExists, IdleIsClean, NoDangling
<1>3. TypeOK'
  BY <1>1 DEF IndInv, TypeOK, Phases
<1>4. ItemsHold'
  BY <1>1, <1>2 DEF IndInv, ItemsHold, TypeOK
<1>5. ClearedIsEmpty'
  BY <1>1 DEF IndInv, ClearedIsEmpty, TypeOK
<1>6. DestroyedExists'
  BY <1>1 DEF IndInv, DestroyedExists
<1>7. NoDangling'
  BY <1>1, <1>2 DEF IndInv, NoDangling, TypeOK
<1>8. RecycledIsExclusive'
  BY <1>1, <1>2 DEF IndInv, RecycledIsExclusive, TypeOK, Unique, Holders
<1>9. IdleIsClean'
  BY <1>1, <1>2 DEF IndInv, IdleIsClean, TypeOK, Nested
<1>10. SameHome'
  BY <1>1, <1>2 DEF IndInv, SameHome, TypeOK
<1>11. QED
  BY <1>3, <1>4, <1>5, <1>6, <1>7, <1>8, <1>9, <1>10 DEF IndInv

LEMMA TakeFailsKeeps ==
    ASSUME IndInv, NEW p \in Process, NEW i \in Item, TakeFails(p, i)
    PROVE  IndInv'
<1> USE DEF TakeFails, Create
<1>1. TypeOK'
  BY DEF IndInv, TypeOK, Phases, Kinds, BlobKinds
<1>2. ItemsHold'
  BY DEF IndInv, ItemsHold, TypeOK
<1>3. ClearedIsEmpty' /\ DestroyedExists'
  BY DEF IndInv, ClearedIsEmpty, DestroyedExists, TypeOK
<1>4. NoDangling'
  BY DEF IndInv, NoDangling, TypeOK
<1>5. RecycledIsExclusive'
  BY DEF IndInv, RecycledIsExclusive, ItemsHold, TypeOK, Unique, Holders
<1>6. IdleIsClean'
  BY Distinct DEF IndInv, IdleIsClean, TypeOK, Nested
<1>7. SameHome'
  BY DEF IndInv, SameHome, TypeOK
<1>8. QED
  BY <1>1, <1>2, <1>3, <1>4, <1>5, <1>6, <1>7 DEF IndInv

LEMMA WriteKeeps ==
    ASSUME IndInv, NEW p \in Process, NEW i \in Item, Write(p, i)
    PROVE  IndInv'
<1> USE DEF Write, Usable
<1>1. data[i] \in Data
  BY DEF IndInv, TypeOK
<1>2. TypeOK'
  BY <1>1 DEF IndInv, TypeOK
<1>3. ClearedIsEmpty'
  <2>1. SUFFICES ASSUME NEW j \in Item, phase[j] = "clearing"
                 PROVE  ~bytes'[data[j]]
    BY DEF ClearedIsEmpty
  <2>2. Holders(data[j]) = {j} /\ data[j] # Null
    BY <2>1 DEF IndInv, RecycledIsExclusive, Unique
  <2>3. data[i] # data[j]
    BY <2>1, <2>2 DEF Holders
  <2>4. QED
    BY <1>1, <2>1, <2>2, <2>3 DEF IndInv, ClearedIsEmpty, TypeOK
<1>4. IdleIsClean'
  BY <1>1 DEF IndInv, IdleIsClean, NoDangling, TypeOK, Nested
<1>5. ItemsHold' /\ DestroyedExists' /\ SameHome'
  BY DEF IndInv, ItemsHold, DestroyedExists, SameHome
<1>6. NoDangling' /\ RecycledIsExclusive'
  BY DEF IndInv, NoDangling, RecycledIsExclusive, Unique, Holders
<1>7. QED
  BY <1>2, <1>3, <1>4, <1>5, <1>6 DEF IndInv

\* A new live item i that refers to what item j refers to, wherever it is
\* put, except in a Data that nobody refers to.
LEMMA ShareKeeps ==
    ASSUME IndInv, NEW i \in Item, NEW j \in Item, NEW k \in Kinds,
           NEW w \in Process \cup Data,
           phase[i] = "none", phase[j] = "live", data[j] # Null,
           w \in Data => \E b \in Item : data[b] = w,
           Create(i, data[j], queue[j], w, k, "live"),
           UNCHANGED <<memory, destroyer, bytes, idle, open, alive>>
    PROVE  IndInv'
<1> USE DEF Create
<1>1. data[j] \in Data /\ queue[j] \in Pool
  BY DEF IndInv, TypeOK, ItemsHold
<1>2. TypeOK'
  BY <1>1 DEF IndInv, TypeOK, Phases
<1>3. ItemsHold'
  BY <1>1 DEF IndInv, ItemsHold, TypeOK
<1>4. ClearedIsEmpty' /\ DestroyedExists'
  BY DEF IndInv, ClearedIsEmpty, DestroyedExists, TypeOK
<1>5. NoDangling'
  BY <1>1 DEF IndInv, NoDangling, TypeOK
<1>6. RecycledIsExclusive'
  <2>1. SUFFICES ASSUME NEW u \in Item, phase'[u] \in {"unique", "clearing"}
                 PROVE  Unique(u)'
    BY DEF RecycledIsExclusive
  <2>2. u # i /\ phase[u] = phase'[u] /\ data'[u] = data[u]
    BY <2>1 DEF IndInv, TypeOK
  <2>3. data[u] # Null /\ Holders(data[u]) = {u}
    BY <2>1, <2>2 DEF IndInv, RecycledIsExclusive, Unique
  <2>4. data[j] # data[u]
    BY <2>1, <2>2, <2>3 DEF Holders
  <2>5. QED
    BY <2>2, <2>3, <2>4 DEF Unique, Holders, IndInv, TypeOK
<1>7. IdleIsClean'
  <2>1. SUFFICES ASSUME NEW q \in Pool, NEW d \in idle[q]
                 PROVE  Nested(d)' = {}
    BY DEF IndInv, IdleIsClean
  <2>2. d \in Data /\ Nested(d) = {} /\ \A b \in Item : data[b] # d
    BY Distinct DEF IndInv, TypeOK, IdleIsClean, NoDangling
  <2>3. w # d
    BY <2>2, Distinct
  <2>4. QED
    BY <2>2, <2>3 DEF Nested, IndInv, TypeOK
<1>8. SameHome'
  BY <1>1 DEF IndInv, SameHome, TypeOK
<1>9. QED
  BY <1>2, <1>3, <1>4, <1>5, <1>6, <1>7, <1>8 DEF IndInv

LEMMA CopyKeeps ==
    ASSUME IndInv, NEW p \in Process, NEW r \in Process, NEW i \in Item,
           NEW j \in Item, NEW k \in Kinds, Copy(p, r, i, j, k)
    PROVE  IndInv'
<1>1. r \in Data => \E b \in Item : data[b] = r
  BY Distinct
<1>2. QED
  BY <1>1, ShareKeeps DEF Copy, Usable

LEMMA PushBackKeeps ==
    ASSUME IndInv, NEW p \in Process, NEW i \in Item, NEW j \in Item,
           NEW b \in Item, PushBack(p, i, j, b)
    PROVE  IndInv'
<1>1. data[b] \in Data /\ "ConstBlob" \in Kinds
  BY DEF PushBack, Usable, IndInv, TypeOK, Kinds, BlobKinds
<1>2. QED
  BY <1>1, ShareKeeps DEF PushBack, Usable

\* What an item drops with its last reference is in the memory, and it is not
\* in a queue.
LEMMA LastDataFacts ==
    ASSUME IndInv, NEW i \in Item
    PROVE  /\ LastData(i) \subseteq memory
           /\ \A d \in LastData(i) :
                /\ d = data[i] /\ destroyer[d] = Null
                /\ \A q \in Pool : d \notin idle[q]
                /\ \A j \in Item : data[j] = d => j = i
  BY DEF LastData, Unique, Holders, IndInv, NoDangling

\* What a queue drops is in the memory, and nobody refers to it.
LEMMA IdleOfFacts ==
    ASSUME IndInv, NEW Q \in SUBSET Pool
    PROVE  /\ IdleOf(Q) \subseteq memory
           /\ \A r \in Pool \ Q : idle[r] \cap IdleOf(Q) = {}
           /\ \A d \in IdleOf(Q) :
                destroyer[d] = Null /\ \A j \in Item : data[j] # d
<1>1. SUFFICES ASSUME NEW q \in Q, NEW d \in idle[q]
               PROVE  /\ d \in memory /\ destroyer[d] = Null
                      /\ \A r \in Pool \ Q : d \notin idle[r]
                      /\ \A j \in Item : data[j] # d
  BY DEF IdleOf
<1>2. QED
  BY Distinct DEF IndInv, IdleIsClean, NoDangling, TypeOK

\* No step that only lets go of references disturbs the items.
LEMMA DropKeepsItems ==
    ASSUME IndInv, NEW i \in Item, NEW D,
           NEW x \in Item, phase[i] \notin {"unique", "clearing"},
           data' = [data EXCEPT ![i] = Null] \/
             /\ data' = [data EXCEPT ![i] = data[x]]
             /\ phase[x] \notin {"unique", "clearing"},
           phase' = phase \/
             \E f \in {"none", "released"} : phase' = [phase EXCEPT ![i] = f],
           \A d \in Data : bytes'[d] => bytes[d]
    PROVE  ClearedIsEmpty' /\ RecycledIsExclusive'
<1>1. SUFFICES ASSUME NEW u \in Item, phase'[u] \in {"unique", "clearing"}
               PROVE  /\ Unique(u)'
                      /\ phase'[u] = "clearing" => ~bytes'[data'[u]]
  BY DEF ClearedIsEmpty, RecycledIsExclusive
<1>2. u # i /\ phase[u] = phase'[u] /\ data'[u] = data[u]
  BY <1>1 DEF IndInv, TypeOK
<1>3. data[u] # Null /\ data[u] \in Data /\ Holders(data[u]) = {u}
  BY <1>1, <1>2 DEF IndInv, RecycledIsExclusive, Unique, TypeOK
<1>4. Unique(u)'
  <2>1. CASE data' = [data EXCEPT ![i] = Null]
    BY <1>2, <1>3, <2>1 DEF Unique, Holders, IndInv, TypeOK
  <2>2. CASE /\ data' = [data EXCEPT ![i] = data[x]]
             /\ phase[x] \notin {"unique", "clearing"}
    <3>1. data[x] # data[u]
      BY <1>1, <1>2, <1>3, <2>2 DEF Holders
    <3>2. QED
      BY <1>2, <1>3, <2>2, <3>1 DEF Unique, Holders, IndInv, TypeOK
  <2>3. QED
    BY <2>1, <2>2
<1>5. QED
  BY <1>1, <1>2, <1>3, <1>4 DEF IndInv, ClearedIsEmpty

LEMMA AssignKeeps ==
    ASSUME IndInv, NEW p \in Process, NEW i \in Item, NEW j \in Item,
           Assign(p, i, j)
    PROVE  IndInv'
<1> DEFINE Q == IF queue[j] = queue[i] THEN {} ELSE LastQueue(i)
<1> DEFINE D == LastData(i) \cup IdleOf(Q)
<1>1. /\ Destroy(p, D) /\ DropQueues(Q)
      /\ data' = [data EXCEPT ![i] = data[j]]
      /\ queue' = [queue EXCEPT ![i] = queue[j]]
      /\ UNCHANGED <<place, kind, phase, open, alive>>
      /\ i # j /\ phase[i] = "live" /\ phase[j] = "live" /\ data[j] # Null
  BY DEF Assign, Usable
<1>2. Q \subseteq Pool
  BY DEF LastQueue
<1>3. /\ data[j] \in Data /\ queue[j] \in Pool
  BY <1>1 DEF IndInv, TypeOK, ItemsHold
<1> HIDE DEF Q
<1>4. /\ D \subseteq memory
      /\ \A r \in Pool \ Q : idle[r] \cap D = {}
      /\ \A d \in D : destroyer[d] = Null
      /\ \A u \in Item : u # i => data[u] \notin D
  BY <1>2, LastDataFacts, IdleOfFacts
<1>5. \A u \in Item : data'[u] # Null =>
        data'[u] \notin D /\ \E v \in Item : data[v] = data'[u]
  BY <1>1, <1>4 DEF IndInv, TypeOK
<1>6. HeapInv' /\ idle' \in [Pool -> SUBSET Data]
  <2>1. TypeOK /\ HeapInv /\ IdleOf(Q) \subseteq D
    BY DEF IndInv, HeapInv
  <2> HIDE DEF D
  <2>2. QED
    BY <1>1, <1>2, <1>4, <1>5, <2>1, DropKeepsHeap
<1> HIDE DEF D
<1>7. TypeOK'
  BY <1>1, <1>3, <1>6, DestroyFacts DEF IndInv, TypeOK
<1>8. ClearedIsEmpty' /\ RecycledIsExclusive'
  <2>1. \A d \in Data : bytes'[d] => bytes[d]
    BY <1>1, DestroyFacts DEF IndInv
  <2>2. QED
    BY <1>1, <2>1, DropKeepsItems
<1>9. ItemsHold'
  BY <1>1, <1>3 DEF IndInv, ItemsHold, TypeOK
<1>10. SameHome'
  BY <1>1, <1>3 DEF IndInv, SameHome, TypeOK
<1>11. QED
  BY <1>6, <1>7, <1>8, <1>9, <1>10 DEF IndInv, HeapInv

LEMMA ResetKeeps ==
    ASSUME IndInv, NEW p \in Process, NEW i \in Item, Reset(p, i)
    PROVE  IndInv'
<1> DEFINE Q == LastQueue(i)
<1> DEFINE D == LastData(i) \cup IdleOf(Q)
<1>1. /\ Destroy(p, D) /\ DropQueues(Q)
      /\ data' = [data EXCEPT ![i] = Null]
      /\ queue' = [queue EXCEPT ![i] = Null]
      /\ UNCHANGED <<place, kind, phase, open, alive>>
      /\ phase[i] = "live"
  BY DEF Reset
<1>2. Q \subseteq Pool
  BY DEF LastQueue
<1> HIDE DEF Q
<1>3. /\ D \subseteq memory
      /\ \A r \in Pool \ Q : idle[r] \cap D = {}
      /\ \A d \in D : destroyer[d] = Null
      /\ \A u \in Item : u # i => data[u] \notin D
  BY <1>2, LastDataFacts, IdleOfFacts
<1>4. \A u \in Item : data'[u] # Null =>
        data'[u] \notin D /\ \E v \in Item : data[v] = data'[u]
  BY <1>1, <1>3 DEF IndInv, TypeOK
<1>5. HeapInv' /\ idle' \in [Pool -> SUBSET Data]
  <2>1. TypeOK /\ HeapInv /\ IdleOf(Q) \subseteq D
    BY DEF IndInv, HeapInv
  <2> HIDE DEF D
  <2>2. QED
    BY <1>1, <1>2, <1>3, <1>4, <2>1, DropKeepsHeap
<1> HIDE DEF D
<1>6. TypeOK'
  BY <1>1, <1>5, DestroyFacts DEF IndInv, TypeOK
<1>7. ClearedIsEmpty' /\ RecycledIsExclusive'
  <2>1. \A d \in Data : bytes'[d] => bytes[d]
    BY <1>1, DestroyFacts DEF IndInv
  <2>2. QED
    BY <1>1, <2>1, DropKeepsItems
<1>8. ItemsHold'
  BY <1>1 DEF IndInv, ItemsHold, TypeOK
<1>9. SameHome'
  BY <1>1 DEF IndInv, SameHome, TypeOK
<1>10. QED
  BY <1>5, <1>6, <1>7, <1>8, <1>9 DEF IndInv, HeapInv

LEMMA BeginKeeps ==
    ASSUME IndInv, NEW p \in Process, NEW i \in Item, Begin(p, i)
    PROVE  IndInv'
<1>1. TypeOK'
  BY DEF Begin, IndInv, TypeOK, Phases
<1>2. ItemsHold'
  BY DEF Begin, IndInv, ItemsHold, TypeOK
<1>3. ClearedIsEmpty'
  BY DEF Begin, IndInv, ClearedIsEmpty, TypeOK
<1>4. RecycledIsExclusive'
  BY DEF Begin, IndInv, RecycledIsExclusive, TypeOK, Unique, Holders
<1>5. NoDangling' /\ IdleIsClean' /\ SameHome' /\ DestroyedExists'
  BY DEF Begin, IndInv, NoDangling, IdleIsClean, SameHome, DestroyedExists,
         Nested
<1>6. QED
  BY <1>1, <1>2, <1>3, <1>4, <1>5 DEF IndInv

LEMMA ClearKeeps ==
    ASSUME IndInv, NEW p \in Process, NEW i \in Item, Clear(p, i)
    PROVE  IndInv'
<1>1. data[i] \in Data /\ Unique(i)
  BY DEF Clear, IndInv, RecycledIsExclusive, TypeOK, Unique
<1>2. TypeOK'
  BY <1>1 DEF Clear, IndInv, TypeOK, Phases
<1>3. ItemsHold'
  BY DEF Clear, IndInv, ItemsHold, TypeOK
<1>4. ClearedIsEmpty'
  BY <1>1 DEF Clear, IndInv, ClearedIsEmpty, TypeOK
<1>5. RecycledIsExclusive'
  BY <1>1 DEF Clear, IndInv, RecycledIsExclusive, TypeOK, Unique, Holders
<1>6. IdleIsClean'
  BY <1>1 DEF Clear, IndInv, IdleIsClean, TypeOK, Nested
<1>7. NoDangling' /\ SameHome' /\ DestroyedExists'
  BY DEF Clear, IndInv, NoDangling, SameHome, DestroyedExists
<1>8. QED
  BY <1>2, <1>3, <1>4, <1>5, <1>6, <1>7 DEF IndInv

LEMMA RecycleKeeps ==
    ASSUME IndInv, NEW p \in Process, NEW i \in Item, Recycle(p, i)
    PROVE  IndInv'
<1> DEFINE d == data[i]
<1>1. /\ d \in Data /\ d # Null /\ queue[i] \in Pool /\ ~bytes[d]
      /\ d \in memory /\ destroyer[d] = Null /\ Nested(d) = {}
      /\ \A q \in Pool : d \notin idle[q]
      /\ \A j \in Item : data[j] = d => j = i
  BY DEF Recycle, IndInv, RecycledIsExclusive, TypeOK, Unique, Holders,
         ItemsHold, ClearedIsEmpty, NoDangling
<1>2. /\ idle' = [idle EXCEPT ![queue[i]] = @ \cup {d}]
      /\ data' = [data EXCEPT ![i] = Null]
      /\ phase' = [phase EXCEPT ![i] = "releasing"]
      /\ UNCHANGED <<memory, destroyer, bytes, queue, place, kind, open,
                     alive>>
  BY DEF Recycle
<1> HIDE DEF d
<1>3. TypeOK'
  BY <1>1, <1>2 DEF IndInv, TypeOK, Phases
<1>4. ItemsHold'
  BY <1>2 DEF IndInv, ItemsHold, TypeOK
<1>5. ClearedIsEmpty'
  BY <1>2 DEF IndInv, ClearedIsEmpty, TypeOK
<1>6. RecycledIsExclusive'
  BY <1>2 DEF IndInv, RecycledIsExclusive, TypeOK, Unique, Holders
<1>7. NoDangling'
  <2>1. SUFFICES ASSUME NEW j \in Item, data'[j] # Null
                 PROVE  /\ data'[j] \in memory /\ destroyer[data'[j]] = Null
                        /\ \A q \in Pool : data'[j] \notin idle'[q]
    BY <1>2 DEF NoDangling
  <2>2. j # i /\ data'[j] = data[j]
    BY <1>2, <2>1 DEF IndInv, TypeOK
  <2>3. data[j] # d
    BY <1>1, <2>2
  <2>4. QED
    BY <1>2, <2>1, <2>2, <2>3 DEF IndInv, NoDangling, TypeOK
<1>8. IdleIsClean'
  BY <1>1, <1>2 DEF IndInv, IdleIsClean, TypeOK, Nested
<1>9. SameHome' /\ DestroyedExists'
  BY <1>2 DEF IndInv, SameHome, DestroyedExists, TypeOK
<1>10. QED
  BY <1>3, <1>4, <1>5, <1>6, <1>7, <1>8, <1>9 DEF IndInv

LEMMA ReleaseQueueKeeps ==
    ASSUME IndInv, NEW p \in Process, NEW i \in Item, ReleaseQueue(p, i)
    PROVE  IndInv'
<1> DEFINE Q == LastQueue(i)
<1> DEFINE D == IdleOf(Q)
<1>1. /\ Destroy(p, D) /\ DropQueues(Q)
      /\ queue' = [queue EXCEPT ![i] = Null]
      /\ phase' = [phase EXCEPT ![i] = "released"]
      /\ UNCHANGED <<data, place, kind, open, alive>>
      /\ phase[i] = "releasing"
  BY DEF ReleaseQueue
<1>2. Q \subseteq Pool
  BY DEF LastQueue
<1> HIDE DEF Q
<1>3. /\ D \subseteq memory
      /\ \A r \in Pool \ Q : idle[r] \cap D = {}
      /\ \A d \in D : destroyer[d] = Null
      /\ \A u \in Item : data[u] \notin D
  BY <1>2, IdleOfFacts
<1>4. HeapInv' /\ idle' \in [Pool -> SUBSET Data]
  <2>1. TypeOK /\ HeapInv /\ IdleOf(Q) \subseteq D
    BY DEF IndInv, HeapInv
  <2> HIDE DEF D
  <2>2. QED
    BY <1>1, <1>2, <1>3, <2>1, DropKeepsHeap
<1> HIDE DEF D
<1>5. TypeOK'
  BY <1>1, <1>4, DestroyFacts DEF IndInv, TypeOK, Phases
<1>6. ClearedIsEmpty' /\ RecycledIsExclusive'
  <2>1. \A d \in Data : bytes'[d] => bytes[d]
    BY <1>1, DestroyFacts DEF IndInv
  <2>2. QED
    BY <1>1, <2>1 DEF IndInv, ClearedIsEmpty, RecycledIsExclusive, Unique,
         Holders, TypeOK
<1>7. ItemsHold'
  BY <1>1 DEF IndInv, ItemsHold, TypeOK
<1>8. SameHome'
  BY <1>1 DEF IndInv, SameHome, TypeOK
<1>9. QED
  BY <1>4, <1>5, <1>6, <1>7, <1>8 DEF IndInv, HeapInv

LEMMA ReleaseDataKeeps ==
    ASSUME IndInv, NEW p \in Process, NEW i \in Item, ReleaseData(p, i)
    PROVE  IndInv'
<1> DEFINE D == LastData(i)
<1>1. /\ Destroy(p, D)
      /\ data' = [data EXCEPT ![i] = Null]
      /\ queue' = [queue EXCEPT ![i] = Null]
      /\ place' = [place EXCEPT ![i] = Null]
      /\ kind' = [kind EXCEPT ![i] = "Blob"]
      /\ phase' = [phase EXCEPT ![i] = "none"]
      /\ UNCHANGED <<idle, open, alive>>
      /\ phase[i] = "released"
  BY DEF ReleaseData, Create
<1>2. /\ D \subseteq memory
      /\ \A r \in Pool \ {} : idle[r] \cap D = {}
      /\ \A d \in D : destroyer[d] = Null
      /\ \A u \in Item : u # i => data[u] \notin D
  BY LastDataFacts
<1>3. \A u \in Item : data'[u] # Null =>
        data'[u] \notin D /\ \E v \in Item : data[v] = data'[u]
  BY <1>1, <1>2 DEF IndInv, TypeOK
<1>4. DropQueues({}) /\ IdleOf({}) = {}
  BY <1>1 DEF DropQueues, IdleOf, IndInv, TypeOK
<1>5. HeapInv'
  <2>1. TypeOK /\ HeapInv
    BY DEF IndInv, HeapInv
  <2>2. \A u \in Item : place'[u] = place[u] \/ place'[u] = Null
    BY <1>1 DEF IndInv, TypeOK
  <2> HIDE DEF D
  <2>3. QED
    BY <1>1, <1>2, <1>3, <1>4, <2>1, <2>2, DropKeepsHeap
<1> HIDE DEF D
<1>6. TypeOK'
  BY <1>1, DestroyFacts DEF IndInv, TypeOK, Phases, Kinds, BlobKinds
<1>7. ClearedIsEmpty' /\ RecycledIsExclusive'
  <2>1. \A d \in Data : bytes'[d] => bytes[d]
    BY <1>1, DestroyFacts DEF IndInv
  <2>2. QED
    BY <1>1, <2>1, DropKeepsItems
<1>8. ItemsHold'
  BY <1>1 DEF IndInv, ItemsHold, TypeOK
<1>9. SameHome'
  BY <1>1 DEF IndInv, SameHome, TypeOK
<1>10. QED
  BY <1>5, <1>6, <1>7, <1>8, <1>9 DEF IndInv, HeapInv

LEMMA FreeKeeps ==
    ASSUME IndInv, NEW p \in Process, NEW d \in Data, Free(p, d)
    PROVE  IndInv'
<1>1. /\ destroyer[d] # Null
      /\ \A j \in Item : data[j] # d
      /\ \A q \in Pool : d \notin idle[q]
  BY Distinct DEF Free, IndInv, NoDangling, IdleIsClean, TypeOK
<1>2. TypeOK'
  BY DEF Free, IndInv, TypeOK
<1>3. DestroyedExists'
  BY DEF Free, IndInv, DestroyedExists, TypeOK
<1>4. NoDangling'
  BY <1>1 DEF Free, IndInv, NoDangling, TypeOK
<1>5. IdleIsClean'
  BY <1>1 DEF Free, IndInv, IdleIsClean, TypeOK, Nested
<1>6. ItemsHold' /\ ClearedIsEmpty' /\ RecycledIsExclusive' /\ SameHome'
  BY DEF Free, IndInv, ItemsHold, ClearedIsEmpty, RecycledIsExclusive,
         SameHome, Unique, Holders
<1>7. QED
  BY <1>2, <1>3, <1>4, <1>5, <1>6 DEF IndInv

LEMMA CloseKeeps ==
    ASSUME IndInv, NEW p \in Process, NEW q \in Pool, Close(p, q)
    PROVE  IndInv'
<1> DEFINE Q == IF Users(q) = {} THEN {q} ELSE {}
<1> DEFINE D == IdleOf(Q)
<1>1. /\ Destroy(p, D) /\ DropQueues(Q)
      /\ open' = [open EXCEPT ![q] = FALSE]
      /\ UNCHANGED <<data, queue, place, kind, phase, alive>>
  BY DEF Close
<1>2. Q \subseteq Pool
  OBVIOUS
<1> HIDE DEF Q
<1>3. /\ D \subseteq memory
      /\ \A r \in Pool \ Q : idle[r] \cap D = {}
      /\ \A d \in D : destroyer[d] = Null
      /\ \A u \in Item : data[u] \notin D
  BY <1>2, IdleOfFacts
<1>4. HeapInv' /\ idle' \in [Pool -> SUBSET Data]
  <2>1. TypeOK /\ HeapInv /\ IdleOf(Q) \subseteq D
    BY DEF IndInv, HeapInv
  <2> HIDE DEF D
  <2>2. QED
    BY <1>1, <1>2, <1>3, <2>1, DropKeepsHeap
<1> HIDE DEF D
<1>5. TypeOK'
  BY <1>1, <1>4, DestroyFacts DEF IndInv, TypeOK
<1>6. ClearedIsEmpty'
  <2>1. \A d \in Data : bytes'[d] => bytes[d]
    BY <1>1, DestroyFacts DEF IndInv
  <2>2. QED
    BY <1>1, <2>1 DEF IndInv, ClearedIsEmpty, RecycledIsExclusive, Unique,
         TypeOK
<1>7. RecycledIsExclusive' /\ ItemsHold' /\ SameHome'
  BY <1>1 DEF IndInv, RecycledIsExclusive, Unique, Holders, ItemsHold,
       SameHome
<1>8. QED
  BY <1>4, <1>5, <1>6, <1>7 DEF IndInv, HeapInv

LEMMA CrashKeeps ==
    ASSUME IndInv, NEW p \in Process, Crash(p)
    PROVE  IndInv'
  BY DEF Crash, IndInv, TypeOK, ItemsHold, ClearedIsEmpty, DestroyedExists,
         NoDangling, RecycledIsExclusive, IdleIsClean, SameHome, Unique,
         Holders, Nested

-----------------------------------------------------------------------------
LEMMA InitEstablishes == Init => IndInv
<1>1. Init => TypeOK
  BY DEF Init, TypeOK, Phases, Kinds, BlobKinds
<1>2. Init => /\ ItemsHold /\ ClearedIsEmpty /\ DestroyedExists
              /\ NoDangling /\ RecycledIsExclusive /\ IdleIsClean
              /\ SameHome
  BY DEF Init, ItemsHold, ClearedIsEmpty, DestroyedExists, NoDangling,
         RecycledIsExclusive, IdleIsClean, SameHome
<1>3. QED
  BY <1>1, <1>2 DEF IndInv

LEMMA NextKeeps == IndInv /\ [Next]_vars => IndInv'
<1>1. SUFFICES ASSUME IndInv, [Next]_vars
               PROVE  IndInv'
  OBVIOUS
<1>2. CASE UNCHANGED vars
  BY <1>1, <1>2 DEF vars, IndInv, TypeOK, ItemsHold, ClearedIsEmpty,
       DestroyedExists, NoDangling, RecycledIsExclusive, IdleIsClean,
       SameHome, Unique, Holders, Nested
<1>3. ASSUME NEW p \in Process, Take(p)
      PROVE  IndInv'
  <2>1. PICK i \in Item :
          \/ \E q \in Pool, k \in {"Blob", "Buffer"} :
                TakePop(p, i, q, k) \/ TakeMiss(p, i, q, k)
          \/ TakeNew(p, i)
          \/ TakeFails(p, i)
    BY <1>3 DEF Take
  <2>2. {"Blob", "Buffer"} \subseteq Kinds
    BY DEF Kinds, BlobKinds, BufferKinds
  <2>3. QED
    BY <1>1, <2>1, <2>2, TakePopKeeps, TakeMissKeeps, TakeNewKeeps,
       TakeFailsKeeps
<1>4. ASSUME NEW p \in Process, Use(p)
      PROVE  IndInv'
  BY <1>1, <1>4, WriteKeeps, ResetKeeps, CopyKeeps, PushBackKeeps,
     AssignKeeps DEF Use
<1>5. ASSUME NEW p \in Process, NEW i \in Item, Begin(p, i) \/ Finish(p, i)
      PROVE  IndInv'
  BY <1>1, <1>5, BeginKeeps, ClearKeeps, RecycleKeeps, ReleaseQueueKeeps,
     ReleaseDataKeeps DEF Finish
<1>6. QED
  BY <1>1, <1>2, <1>3, <1>4, <1>5, FreeKeeps, CloseKeeps, CrashKeeps DEF Next

\* Every reachable state satisfies the invariant: the parts that the runs
\* check, and what makes them inductive.
THEOREM Invariance == Spec => []IndInv
  BY InitEstablishes, NextKeeps, PTL DEF Spec

\* The state of the pool has its types (BufferPool.h:45-46, 58-59, 116-117).
THEOREM TypeCorrect == Spec => []TypeOK
<1>1. IndInv => TypeOK
  BY DEF IndInv
<1>2. QED
  BY <1>1, Invariance, PTL

\* ~ItemBase clears and recycles only what nobody else refers to
\* (BufferPool.h:69-74), for every number of items and processes.
THEOREM RecyclesOnlyExclusive == Spec => []RecycledIsExclusive
<1>1. IndInv => RecycledIsExclusive
  BY DEF IndInv
<1>2. QED
  BY <1>1, Invariance, PTL

\* No item refers to what is destroyed or back in a queue.
THEOREM NeverDangling == Spec => []NoDangling
<1>1. IndInv => NoDangling
  BY DEF IndInv
<1>2. QED
  BY <1>1, Invariance, PTL

\* What a pool hands out (BufferPool.h:26-29) is constructed, empty and in
\* one queue.
THEOREM IdleAlwaysClean == Spec => []IdleIsClean
<1>1. IndInv => IdleIsClean
  BY DEF IndInv
<1>2. QED
  BY <1>1, Invariance, PTL

\* A Data goes back to the pool that it was taken from, whoever is the last
\* to let it go.
THEOREM AlwaysSameHome == Spec => []SameHome
<1>1. IndInv => SameHome
  BY DEF IndInv
<1>2. QED
  BY <1>1, Invariance, PTL
=============================================================================
