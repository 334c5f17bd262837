--------------------------- MODULE SharedDataProofs ---------------------------
(***************************************************************************)
(* Proofs that the pool implements SharedData, that what has readers keeps *)
(* its contents, and that no Data is leaked, for every number of items,    *)
(* Data, pools and processes.                                              *)
(***************************************************************************)
EXTENDS BufferPoolProofs

\* Where an item is at each stage of its life, and which classes a m_buffer
\* holds.
Housed ==
    \A i \in Item :
        /\ place[i] = Null <=> phase[i] = "none"
        /\ place[i] \in Data => kind[i] \in BlobKinds /\ place[i] \in memory
        /\ phase[i] = "missed" => open[queue[i]]
        /\ phase[i] = "released" => queue[i] = Null

\* A Data is used through its m_blob or through its m_buffer, never both.
Kin ==
    \A i \in Item : data[i] # Null =>
        /\ \A j \in Item : data[j] = data[i] =>
                (kind[j] \in BlobKinds <=> kind[i] \in BlobKinds)
        /\ bytes[data[i]] => kind[i] \in BlobKinds
        /\ Nested(data[i]) # {} => kind[i] \notin BlobKinds

\* Everything that is kept is kept by somebody.
Counted ==
    /\ \A d \in memory :
        \/ destroyer[d] # Null
        \/ Holders(d) # {}
        \/ \E q \in Pool : d \in idle[q]
    /\ \A d \in Data : bytes[d] => Holders(d) # {}
    /\ \A q \in Pool : idle[q] # {} => open[q] \/ Users(q) # {}

Accounts == IndInv /\ Housed /\ Kin /\ Counted

-----------------------------------------------------------------------------
\* Kin is kept when items only copy, drop or keep what others refer to.
LEMMA KinKept ==
    ASSUME Accounts,
           \A u \in Item : data'[u] # Null => \E v \in Item :
                /\ data[v] = data'[u]
                /\ kind'[u] \in BlobKinds <=> kind[v] \in BlobKinds,
           \A d \in Data : (bytes'[d] => bytes[d]) /\ Nested(d)' \subseteq Nested(d)
    PROVE  Kin'
<1>1. SUFFICES ASSUME NEW u \in Item, data'[u] # Null
               PROVE  /\ \A j \in Item : data'[j] = data'[u] =>
                            (kind'[j] \in BlobKinds <=> kind'[u] \in BlobKinds)
                      /\ bytes'[data'[u]] => kind'[u] \in BlobKinds
                      /\ Nested(data[u])' # {} => kind'[u] \notin BlobKinds
  BY DEF Kin
<1>2. PICK v \in Item : /\ data[v] = data'[u]
                        /\ kind'[u] \in BlobKinds <=> kind[v] \in BlobKinds
  BY <1>1
<1>3. data[v] \in Data
  BY <1>1, <1>2 DEF Accounts, IndInv, TypeOK
<1>4. \A j \in Item : data'[j] = data'[u] =>
        (kind'[j] \in BlobKinds <=> kind'[u] \in BlobKinds)
  BY <1>1, <1>2 DEF Accounts, Kin
<1>5. bytes'[data'[u]] => kind'[u] \in BlobKinds
  BY <1>1, <1>2, <1>3 DEF Accounts, Kin
<1>6. Nested(data[u])' # {} => kind'[u] \notin BlobKinds
  <2>1. Nested(data[v]) = {i \in Item : place[i] = data[v]}
    BY DEF Nested
  <2>2. Nested(data[u])' = {i \in Item : place'[i] = data[v]}
    BY <1>2 DEF Nested
  <2>3. Nested(data[u])' \subseteq Nested(data[v])
    BY <2>2, <1>3 DEF Nested
  <2>4. QED
    BY <1>1, <1>2, <2>3 DEF Accounts, Kin
<1>7. QED
  BY <1>4, <1>5, <1>6

\* What is dropped with its last reference is destroyed, so that everything
\* that is left is kept by somebody.
LEMMA DropKeepsCounted ==
    ASSUME Accounts,
           NEW p \in Process, NEW D, NEW Q \in SUBSET Pool,
           Destroy(p, D), DropQueues(Q), IdleOf(Q) \subseteq D,
           \A d \in Data \ D : Holders(d) # {} => Holders(d)' # {},
           \A q \in Pool \ Q :
                open[q] \/ Users(q) # {} => open'[q] \/ Users(q)' # {}
    PROVE  Counted'
<1>1. \A r \in Pool : idle'[r] = IF r \in Q THEN {} ELSE idle[r]
  BY DEF DropQueues
<1>2. ASSUME NEW d \in memory'
      PROVE  destroyer'[d] # Null \/ Holders(d)' # {}
                \/ \E q \in Pool : d \in idle'[q]
  <2>1. d \in memory /\ d \in Data
    BY <1>2 DEF Destroy, Accounts, IndInv, TypeOK
  <2>2. CASE d \in D
    <3>1. destroyer'[d] = p
      BY <1>2, <2>1, <2>2 DEF Destroy
    <3>2. QED
      BY <3>1, Distinct
  <2>3. CASE d \notin D
    <3>1. destroyer'[d] = destroyer[d]
      BY <2>1, <2>3 DEF Destroy
    <3>2. \A q \in Pool : d \in idle[q] => d \in idle'[q]
      BY <1>1, <2>3 DEF IdleOf
    <3>3. Holders(d) # {} => Holders(d)' # {}
      BY <2>1, <2>3
    <3>4. QED
      BY <2>1, <3>1, <3>2, <3>3 DEF Accounts, Counted
  <2>4. QED
    BY <2>2, <2>3
<1>3. ASSUME NEW d \in Data, bytes'[d]
      PROVE  Holders(d)' # {}
  BY <1>3 DEF Destroy, Accounts, Counted
<1>4. ASSUME NEW q \in Pool, idle'[q] # {}
      PROVE  open'[q] \/ Users(q)' # {}
  BY <1>1, <1>4 DEF Accounts, Counted
<1>5. QED
  BY <1>2, <1>3, <1>4 DEF Counted

-----------------------------------------------------------------------------
(* One lemma for each operation: the step keeps the accounts.              *)

LEMMA TakePopAccounts ==
    ASSUME Accounts, NEW p \in Process, NEW i \in Item, NEW q \in Pool,
           NEW k \in Kinds, TakePop(p, i, q, k)
    PROVE  Housed' /\ Kin' /\ Counted'
<1>1. PICK d \in idle[q] :
        /\ idle' = [idle EXCEPT ![q] = @ \ {d}]
        /\ data' = [data EXCEPT ![i] = d]
  BY DEF TakePop, Create
<1>2. /\ d \in Data /\ d \in memory /\ ~bytes[d] /\ Nested(d) = {}
      /\ \A j \in Item : data[j] # d
      /\ data[i] = Null /\ queue[i] = Null
  BY Distinct DEF TakePop, Accounts, IndInv, TypeOK, IdleIsClean, NoDangling,
     ItemsHold
<1>3. /\ place' = [place EXCEPT ![i] = p]
      /\ kind' = [kind EXCEPT ![i] = k]
      /\ phase' = [phase EXCEPT ![i] = "live"]
      /\ queue' = [queue EXCEPT ![i] = q]
      /\ UNCHANGED <<memory, destroyer, bytes, open, alive>>
      /\ open[q]
  BY DEF TakePop, Create
<1>4. \A e \in Data : Nested(e)' \subseteq Nested(e)
  BY <1>3, Distinct DEF Nested, Accounts, IndInv, TypeOK
<1>5. Housed'
  BY <1>3, Distinct DEF Housed, Accounts, IndInv, TypeOK
<1>6. Kin'
  <2>1. SUFFICES ASSUME NEW u \in Item, data'[u] # Null
                 PROVE  /\ \A j \in Item : data'[j] = data'[u] =>
                            (kind'[j] \in BlobKinds <=> kind'[u] \in BlobKinds)
                        /\ bytes'[data'[u]] => kind'[u] \in BlobKinds
                        /\ Nested(data[u])' # {} => kind'[u] \notin BlobKinds
    BY DEF Kin
  <2>2. CASE u = i
    <3>1. data'[u] = d /\ \A j \in Item : data'[j] = d => j = i
      BY <1>1, <1>2, <2>2 DEF Accounts, IndInv, TypeOK
    <3>2. Nested(data[u])' = Nested(d)'
      BY <3>1 DEF Nested
    <3>3. QED
      BY <1>2, <1>3, <1>4, <2>2, <3>1, <3>2
  <2>3. CASE u # i
    <3>1. data'[u] = data[u] /\ data[u] \in Data /\ data[u] # d
      BY <1>1, <1>2, <2>1, <2>3 DEF Accounts, IndInv, TypeOK
    <3>2. \A j \in Item : data'[j] = data'[u] => j # i /\ data[j] = data[u]
      BY <1>1, <3>1 DEF Accounts, IndInv, TypeOK
    <3>3. \A j \in Item : j # i => kind'[j] = kind[j]
      BY <1>3 DEF Accounts, IndInv, TypeOK
    <3>4. Nested(data[u])' \subseteq Nested(data[u])
      BY <1>3, <3>1, Distinct DEF Nested, Accounts, IndInv, TypeOK
    <3>5. QED
      BY <1>3, <2>1, <2>3, <3>1, <3>2, <3>3, <3>4 DEF Accounts, Kin
  <2>4. QED
    BY <2>2, <2>3
<1>7. Counted'
  <2>1. \A e \in Data : Holders(e) # {} => Holders(e)' # {}
    BY <1>1, <1>2, Distinct DEF Holders, Accounts, IndInv, TypeOK
  <2>2. Holders(d)' # {}
    BY <1>1 DEF Holders, Accounts, IndInv, TypeOK
  <2>3. \A r \in Pool : Users(r) # {} => Users(r)' # {}
    BY <1>2, <1>3, Distinct DEF Users, Accounts, IndInv, TypeOK
  <2>4. \A e \in memory : e # d => \A r \in Pool : e \in idle[r] => e \in idle'[r]
    BY <1>1 DEF Accounts, IndInv, TypeOK
  <2>5. \A r \in Pool : idle'[r] # {} => idle[r] # {}
    BY <1>1 DEF Accounts, IndInv, TypeOK
  <2>6. memory \subseteq Data
    BY DEF Accounts, IndInv, TypeOK
  <2>7. QED
    BY <1>3, <2>1, <2>2, <2>3, <2>4, <2>5, <2>6 DEF Accounts, Counted
<1>8. QED
  BY <1>5, <1>6, <1>7

LEMMA TakeMissAccounts ==
    ASSUME Accounts, NEW p \in Process, NEW i \in Item, NEW q \in Pool,
           NEW k \in Kinds, TakeMiss(p, i, q, k)
    PROVE  Housed' /\ Kin' /\ Counted'
<1>1. data[i] = Null /\ queue[i] = Null /\ data' = data
  BY DEF TakeMiss, Create, Accounts, IndInv, ItemsHold, TypeOK
<1>2. Housed'
  BY Distinct DEF TakeMiss, Create, Housed, Accounts, IndInv, TypeOK
<1>3. Kin'
  <2>1. \A u \in Item : data'[u] # Null => kind'[u] = kind[u]
    BY <1>1 DEF TakeMiss, Create, Accounts, IndInv, TypeOK
  <2>2. \A d \in Data : Nested(d)' \subseteq Nested(d)
    BY Distinct DEF TakeMiss, Create, Nested, Accounts, IndInv, TypeOK
  <2>3. QED
    BY <1>1, <2>1, <2>2, KinKept DEF TakeMiss
<1>4. Counted'
  <2>1. \A r \in Pool : Users(r) # {} => Users(r)' # {}
    BY <1>1, Distinct DEF TakeMiss, Create, Users, Accounts, IndInv, TypeOK
  <2>2. \A e \in Data : Holders(e)' = Holders(e)
    BY <1>1 DEF Holders
  <2>3. memory \subseteq Data
    BY DEF Accounts, IndInv, TypeOK
  <2>4. QED
    BY <2>1, <2>2, <2>3 DEF TakeMiss, Accounts, Counted
<1>5. QED
  BY <1>2, <1>3, <1>4

LEMMA TakeNewAccounts ==
    ASSUME Accounts, NEW p \in Process, NEW i \in Item, TakeNew(p, i)
    PROVE  Housed' /\ Kin' /\ Counted'
<1>1. PICK d \in Data \ memory :
        /\ memory' = memory \cup {d}
        /\ data' = [data EXCEPT ![i] = d]
  BY DEF TakeNew
<1>2. /\ Nested(d) = {}
      /\ \A j \in Item : data[j] # d
      /\ ~bytes[d]
      /\ d # Null
      /\ data[i] = Null
  <2>1. Nested(d) = {}
    BY <1>1 DEF Nested, Accounts, Housed
  <2>2. \A j \in Item : data[j] # d
    BY <1>1, Distinct DEF Accounts, IndInv, NoDangling
  <2>3. ~bytes[d]
    BY <2>2 DEF Accounts, Counted, Holders
  <2>4. d # Null /\ data[i] = Null
    BY Distinct DEF TakeNew, Accounts, IndInv, ItemsHold
  <2>5. QED
    BY <2>1, <2>2, <2>3, <2>4
<1>3. /\ phase' = [phase EXCEPT ![i] = "live"]
      /\ UNCHANGED <<destroyer, bytes, queue, place, kind, idle, open, alive>>
      /\ phase[i] = "missed"
  BY DEF TakeNew
<1>4. Housed'
  BY <1>1, <1>3 DEF Housed, Accounts, IndInv, TypeOK
<1>5. Kin'
  <2>1. SUFFICES ASSUME NEW u \in Item, data'[u] # Null
                 PROVE  /\ \A j \in Item : data'[j] = data'[u] =>
                            (kind'[j] \in BlobKinds <=> kind'[u] \in BlobKinds)
                        /\ bytes'[data'[u]] => kind'[u] \in BlobKinds
                        /\ Nested(data[u])' # {} => kind'[u] \notin BlobKinds
    BY DEF Kin
  <2>2. CASE u = i
    <3>1. data'[u] = d /\ \A j \in Item : data'[j] = d => j = i
      BY <1>1, <1>2, <2>2 DEF Accounts, IndInv, TypeOK
    <3>2. Nested(data[u])' = Nested(d)
      BY <1>3, <3>1 DEF Nested
    <3>3. QED
      BY <1>2, <1>3, <2>2, <3>1, <3>2
  <2>3. CASE u # i
    <3>1. data'[u] = data[u] /\ data[u] # d
      BY <1>1, <1>2, <2>1, <2>3 DEF Accounts, IndInv, TypeOK
    <3>2. \A j \in Item : data'[j] = data'[u] => data[j] = data[u]
      BY <1>1, <3>1 DEF Accounts, IndInv, TypeOK
    <3>3. Nested(data[u])' = Nested(data[u])
      BY <1>3, <3>1 DEF Nested
    <3>4. QED
      BY <1>3, <2>1, <3>1, <3>2, <3>3 DEF Accounts, Kin
  <2>4. QED
    BY <2>2, <2>3
<1>6. Counted'
  <2>1. \A e \in Data : Holders(e) # {} => Holders(e)' # {}
    BY <1>1, <1>2, Distinct DEF Holders, Accounts, IndInv, TypeOK
  <2>2. Holders(d)' # {}
    BY <1>1 DEF Holders, Accounts, IndInv, TypeOK
  <2>3. \A r \in Pool : Users(r)' = Users(r)
    BY <1>3 DEF Users
  <2>4. memory \subseteq Data
    BY DEF Accounts, IndInv, TypeOK
  <2>5. QED
    BY <1>1, <1>3, <2>1, <2>2, <2>3, <2>4 DEF Accounts, Counted
<1>7. QED
  BY <1>4, <1>5, <1>6

LEMMA TakeFailsAccounts ==
    ASSUME Accounts, NEW p \in Process, NEW i \in Item, TakeFails(p, i)
    PROVE  Housed' /\ Kin' /\ Counted'
<1>1. data[i] = Null /\ queue[i] \in Pool /\ open[queue[i]] /\ data' = data
  BY DEF TakeFails, Create, Accounts, Housed, IndInv, ItemsHold, TypeOK
<1>2. Housed'
  BY Distinct DEF TakeFails, Create, Housed, Accounts, IndInv, TypeOK
<1>3. Kin'
  <2>1. \A u \in Item : data'[u] # Null => kind'[u] = kind[u]
    BY <1>1 DEF TakeFails, Create, Accounts, IndInv, TypeOK
  <2>2. \A d \in Data : Nested(d)' \subseteq Nested(d)
    BY Distinct DEF TakeFails, Create, Nested, Accounts, IndInv, TypeOK
  <2>3. QED
    BY <1>1, <2>1, <2>2, KinKept DEF TakeFails
<1>4. Counted'
  <2>1. \A r \in Pool : Users(r) # {} => open[r] \/ Users(r)' # {}
    <3>1. SUFFICES ASSUME NEW r \in Pool, NEW u \in Users(r), ~open[r]
                   PROVE  u \in Users(r)'
      OBVIOUS
    <3>2. u # i
      BY <1>1, <3>1 DEF Users
    <3>3. QED
      BY <3>1, <3>2 DEF TakeFails, Create, Users, Accounts, IndInv, TypeOK
  <2>2. \A e \in Data : Holders(e)' = Holders(e)
    BY <1>1 DEF Holders
  <2>3. memory \subseteq Data
    BY DEF Accounts, IndInv, TypeOK
  <2>4. QED
    BY <2>1, <2>2, <2>3 DEF TakeFails, Accounts, Counted
<1>5. QED
  BY <1>2, <1>3, <1>4

LEMMA WriteAccounts ==
    ASSUME Accounts, NEW p \in Process, NEW i \in Item, Write(p, i)
    PROVE  Housed' /\ Kin' /\ Counted'
<1>1. /\ data[i] \in Data /\ data[i] # Null /\ kind[i] \in BlobKinds
      /\ bytes' = [bytes EXCEPT ![data[i]] = TRUE]
      /\ UNCHANGED <<memory, destroyer, data, queue, place, kind, phase, idle,
                     open, alive>>
  BY DEF Write, Usable, BlobKinds, Accounts, IndInv, TypeOK
<1>2. Housed'
  BY <1>1 DEF Housed, Accounts
<1>3. Kin'
  <2>1. \A u \in Item : data[u] # Null /\ bytes'[data[u]] =>
            data[u] = data[i] \/ bytes[data[u]]
    BY <1>1 DEF Accounts, IndInv, TypeOK
  <2>2. QED
    BY <1>1, <2>1 DEF Accounts, Kin, Nested
<1>4. Counted'
  BY <1>1 DEF Counted, Holders, Users, Accounts, IndInv, TypeOK
<1>5. QED
  BY <1>2, <1>3, <1>4

\* A new live item i that refers to what item j refers to.
LEMMA ShareAccounts ==
    ASSUME Accounts, NEW i \in Item, NEW j \in Item, NEW k \in Kinds,
           NEW w \in Process \cup memory,
           phase[i] = "none", phase[j] = "live", data[j] # Null,
           w \in Data => k \in BlobKinds,
           Create(i, data[j], queue[j], w, k, "live"),
           UNCHANGED <<memory, destroyer, bytes, idle, open, alive>>
    PROVE  /\ Housed' /\ Counted'
           /\ data[i] = Null /\ data[j] \in Data /\ queue[j] \in Pool
<1> USE DEF Create
<1>1. /\ data[i] = Null /\ queue[i] = Null
      /\ data[j] \in Data /\ queue[j] \in Pool
  BY DEF Accounts, IndInv, TypeOK, ItemsHold
<1>2. Housed'
  <2>1. w # Null
    BY Distinct DEF Accounts, IndInv, TypeOK
  <2>2. w \in Process \cup Data /\ (w \in Data => w \in memory)
    BY Distinct DEF Accounts, IndInv, TypeOK
  <2>3. QED
    BY <2>1, <2>2, Distinct DEF Housed, Accounts, IndInv, TypeOK
<1>3. Counted'
  <2>1. \A e \in Data : Holders(e) # {} => Holders(e)' # {}
    BY <1>1, Distinct DEF Holders, Accounts, IndInv, TypeOK
  <2>2. \A r \in Pool : Users(r) # {} => Users(r)' # {}
    BY <1>1, Distinct DEF Users, Accounts, IndInv, TypeOK
  <2>3. memory \subseteq Data
    BY DEF Accounts, IndInv, TypeOK
  <2>4. QED
    BY <2>1, <2>2, <2>3 DEF Accounts, Counted
<1>4. QED
  BY <1>1, <1>2, <1>3

LEMMA CopyAccounts ==
    ASSUME Accounts, NEW p \in Process, NEW r \in Process, NEW i \in Item,
           NEW j \in Item, NEW k \in Kinds, Copy(p, r, i, j, k)
    PROVE  Housed' /\ Kin' /\ Counted'
<1>1. /\ phase[i] = "none" /\ phase[j] = "live" /\ data[j] # Null
      /\ Create(i, data[j], queue[j], r, k, "live")
      /\ UNCHANGED <<memory, destroyer, bytes, idle, open, alive>>
      /\ k \in BlobKinds <=> kind[j] \in BlobKinds
  <2>1. kind[j] \in Kinds
    BY DEF Accounts, IndInv, TypeOK
  <2>2. k \in BlobKinds <=> kind[j] \in BlobKinds
    BY <2>1 DEF Copy, Converts, Kinds, BlobKinds, BufferKinds
  <2>3. QED
    BY <2>2 DEF Copy, Usable
<1>2. r \notin Data
  BY Distinct
<1>3. Housed' /\ Counted'
  BY <1>1, <1>2, ShareAccounts
<1>4. \A u \in Item : data'[u] # Null => \E v \in Item :
        /\ data[v] = data'[u]
        /\ kind'[u] \in BlobKinds <=> kind[v] \in BlobKinds
  <2>1. SUFFICES ASSUME NEW u \in Item, data'[u] # Null
                 PROVE  \E v \in Item :
                            /\ data[v] = data'[u]
                            /\ kind'[u] \in BlobKinds <=> kind[v] \in BlobKinds
    OBVIOUS
  <2>2. CASE u = i
    BY <1>1, <2>2 DEF Create, Accounts, IndInv, TypeOK
  <2>3. CASE u # i
    BY <1>1, <2>3 DEF Create, Accounts, IndInv, TypeOK
  <2>4. QED
    BY <2>2, <2>3
<1>5. \A d \in Data : Nested(d)' \subseteq Nested(d)
  BY <1>1, <1>2 DEF Create, Nested, Accounts, IndInv, TypeOK
<1>6. QED
  BY <1>1, <1>3, <1>4, <1>5, KinKept

\* An element is put in a Data whose items are buffers, and refers to one
\* whose items are blobs.
LEMMA PushBackAccounts ==
    ASSUME Accounts, NEW p \in Process, NEW i \in Item, NEW j \in Item,
           NEW b \in Item, PushBack(p, i, j, b)
    PROVE  Housed' /\ Kin' /\ Counted'
<1>1. /\ phase[i] = "none" /\ phase[j] = "live" /\ data[j] # Null
      /\ Create(i, data[j], queue[j], data[b], "ConstBlob", "live")
      /\ UNCHANGED <<memory, destroyer, bytes, idle, open, alive>>
      /\ kind[j] \in BlobKinds /\ data[b] # Null
      /\ kind[b] \notin BlobKinds
      /\ "ConstBlob" \in BlobKinds /\ "ConstBlob" \in Kinds
  BY DEF PushBack, Usable, Kinds, BlobKinds
<1>2. data[b] \in memory
  BY <1>1 DEF Accounts, IndInv, NoDangling
<1>3. Housed' /\ Counted' /\ data[i] = Null
  BY <1>1, <1>2, ShareAccounts
<1>4. Kin'
  <2>1. SUFFICES ASSUME NEW u \in Item, data'[u] # Null
                 PROVE  /\ \A v \in Item : data'[v] = data'[u] =>
                            (kind'[v] \in BlobKinds <=> kind'[u] \in BlobKinds)
                        /\ bytes'[data'[u]] => kind'[u] \in BlobKinds
                        /\ Nested(data[u])' # {} => kind'[u] \notin BlobKinds
    BY DEF Kin
  <2>2. \A v \in Item : v # i =>
            data'[v] = data[v] /\ kind'[v] = kind[v] /\ place'[v] = place[v]
    BY <1>1 DEF Create, Accounts, IndInv, TypeOK
  <2>3. data'[i] = data[j] /\ kind'[i] = "ConstBlob" /\ place'[i] = data[b]
    BY <1>1 DEF Create, Accounts, IndInv, TypeOK
  <2>4. PICK w \in Item : /\ data[w] = data'[u]
                          /\ kind'[u] \in BlobKinds <=> kind[w] \in BlobKinds
    BY <1>1, <2>2, <2>3
  <2>5. \A v \in Item : data'[v] = data'[u] =>
            (kind'[v] \in BlobKinds <=> kind'[u] \in BlobKinds)
    BY <1>1, <2>1, <2>2, <2>3, <2>4 DEF Accounts, Kin
  <2>6. bytes'[data'[u]] => kind'[u] \in BlobKinds
    BY <1>1, <2>1, <2>4 DEF Accounts, Kin
  <2>7. ASSUME Nested(data[u])' # {}
        PROVE  kind'[u] \notin BlobKinds
    <3>1. PICK x \in Item : place'[x] = data'[u]
      BY <2>7 DEF Nested
    <3>2. CASE x = i
      <4>1. data[b] = data[w]
        BY <2>3, <2>4, <3>1, <3>2
      <4>2. QED
        BY <1>1, <2>4, <4>1 DEF Accounts, Kin
    <3>3. CASE x # i
      <4>1. x \in Nested(data[w])
        BY <2>2, <2>4, <3>1, <3>3 DEF Nested
      <4>2. QED
        BY <2>1, <2>4, <4>1 DEF Accounts, Kin
    <3>4. QED
      BY <3>2, <3>3
  <2>8. QED
    BY <2>5, <2>6, <2>7
<1>5. QED
  BY <1>3, <1>4

\* Destroy frees no Data that has elements in its m_buffer.
LEMMA NestedStays ==
    ASSUME Accounts, NEW p \in Process, NEW D, Destroy(p, D),
           NEW u \in Item, place[u] \in Data
    PROVE  place[u] \in memory'
<1>1. place[u] \in memory /\ Nested(place[u]) # {}
  BY DEF Accounts, Housed, Nested
<1>2. QED
  BY <1>1 DEF Destroy

LEMMA AssignAccounts ==
    ASSUME Accounts, NEW p \in Process, NEW i \in Item, NEW j \in Item,
           Assign(p, i, j)
    PROVE  Housed' /\ Kin' /\ Counted'
<1> DEFINE Q == IF queue[j] = queue[i] THEN {} ELSE LastQueue(i)
<1> DEFINE D == LastData(i) \cup IdleOf(Q)
<1>1. /\ Destroy(p, D) /\ DropQueues(Q) /\ IdleOf(Q) \subseteq D
      /\ data' = [data EXCEPT ![i] = data[j]]
      /\ queue' = [queue EXCEPT ![i] = queue[j]]
      /\ UNCHANGED <<place, kind, phase, open, alive>>
      /\ i # j /\ kind[i] = kind[j] /\ phase[i] = "live"
  BY DEF Assign
<1>2. Q \in SUBSET Pool
  BY DEF LastQueue
<1>3. Housed'
  BY <1>1, NestedStays DEF Housed, Accounts, IndInv, TypeOK
<1>4. Kin'
  <2>1. \A d \in Data : bytes'[d] => bytes[d]
    BY <1>1 DEF Destroy
  <2>2. \A d \in Data : Nested(d)' = Nested(d)
    BY <1>1 DEF Nested
  <2>3. \A u \in Item : data'[u] # Null => \E v \in Item :
            /\ data[v] = data'[u]
            /\ kind'[u] \in BlobKinds <=> kind[v] \in BlobKinds
    BY <1>1 DEF Accounts, IndInv, TypeOK
  <2>4. QED
    BY <2>1, <2>2, <2>3, KinKept
<1>5. Counted'
  <2>1. \A d \in Data \ D : Holders(d) # {} => Holders(d)' # {}
    <3>1. SUFFICES ASSUME NEW d \in Data \ D, NEW u \in Holders(d)
                   PROVE  Holders(d)' # {}
      OBVIOUS
    <3>2. d # Null
      BY Distinct
    <3>3. PICK v \in Holders(d) : v # i
      BY <3>1, <3>2 DEF LastData, Unique, Holders
    <3>4. QED
      BY <1>1, <3>3 DEF Holders, Accounts, IndInv, TypeOK
  <2>2. \A q \in Pool \ Q :
            open[q] \/ Users(q) # {} => open'[q] \/ Users(q)' # {}
    <3>1. SUFFICES ASSUME NEW q \in Pool \ Q, NEW u \in Users(q), ~open[q]
                   PROVE  Users(q)' # {}
      BY <1>1
    <3>2. CASE queue[i] # q
      BY <1>1, <3>1, <3>2 DEF Users, Accounts, IndInv, TypeOK
    <3>3. CASE queue[i] = q /\ queue[j] = q
      BY <1>1, <3>3 DEF Users, Accounts, IndInv, TypeOK
    <3>4. CASE queue[i] = q /\ queue[j] # q
      <4>1. PICK v \in Users(q) : v # i
        BY <3>1, <3>4 DEF LastQueue, Users
      <4>2. QED
        BY <1>1, <4>1 DEF Users, Accounts, IndInv, TypeOK
    <3>5. QED
      BY <3>2, <3>3, <3>4
  <2> HIDE DEF D, Q
  <2>3. QED
    BY <1>1, <1>2, <2>1, <2>2, DropKeepsCounted
<1>6. QED
  BY <1>3, <1>4, <1>5

LEMMA ResetAccounts ==
    ASSUME Accounts, NEW p \in Process, NEW i \in Item, Reset(p, i)
    PROVE  Housed' /\ Kin' /\ Counted'
<1> DEFINE Q == LastQueue(i)
<1> DEFINE D == LastData(i) \cup IdleOf(Q)
<1>1. /\ Destroy(p, D) /\ DropQueues(Q) /\ IdleOf(Q) \subseteq D
      /\ data' = [data EXCEPT ![i] = Null]
      /\ queue' = [queue EXCEPT ![i] = Null]
      /\ UNCHANGED <<place, kind, phase, open, alive>>
      /\ phase[i] = "live"
  BY DEF Reset
<1>2. Q \in SUBSET Pool
  BY DEF LastQueue
<1>3. Housed'
  BY <1>1, NestedStays DEF Housed, Accounts, IndInv, TypeOK
<1>4. Kin'
  <2>1. \A d \in Data : bytes'[d] => bytes[d]
    BY <1>1 DEF Destroy
  <2>2. \A d \in Data : Nested(d)' = Nested(d)
    BY <1>1 DEF Nested
  <2>3. \A u \in Item : data'[u] # Null => data[u] = data'[u]
    BY <1>1 DEF Accounts, IndInv, TypeOK
  <2>4. QED
    BY <1>1, <2>1, <2>2, <2>3, KinKept
<1>5. Counted'
  <2>1. \A d \in Data \ D : Holders(d) # {} => Holders(d)' # {}
    <3>1. SUFFICES ASSUME NEW d \in Data \ D, NEW u \in Holders(d)
                   PROVE  Holders(d)' # {}
      OBVIOUS
    <3>2. d # Null
      BY Distinct
    <3>3. PICK v \in Holders(d) : v # i
      BY <3>1, <3>2 DEF LastData, Unique, Holders
    <3>4. QED
      BY <1>1, <3>3 DEF Holders, Accounts, IndInv, TypeOK
  <2>2. \A q \in Pool \ Q :
            open[q] \/ Users(q) # {} => open'[q] \/ Users(q)' # {}
    <3>1. SUFFICES ASSUME NEW q \in Pool \ Q, NEW u \in Users(q), ~open[q]
                   PROVE  Users(q)' # {}
      BY <1>1
    <3>2. PICK v \in Users(q) : v # i
      BY <3>1 DEF LastQueue, Users
    <3>3. QED
      BY <1>1, <3>2 DEF Users, Accounts, IndInv, TypeOK
  <2> HIDE DEF D, Q
  <2>3. QED
    BY <1>1, <1>2, <2>1, <2>2, DropKeepsCounted
<1>6. QED
  BY <1>3, <1>4, <1>5

LEMMA BeginAccounts ==
    ASSUME Accounts, NEW p \in Process, NEW i \in Item, Begin(p, i)
    PROVE  Housed' /\ Kin' /\ Counted'
<1>1. Housed'
  BY DEF Begin, Housed, Accounts, IndInv, TypeOK
<1>2. Kin' /\ Counted'
  BY DEF Begin, Kin, Counted, Nested, Holders, Users, Accounts
<1>3. QED
  BY <1>1, <1>2

LEMMA ClearAccounts ==
    ASSUME Accounts, NEW p \in Process, NEW i \in Item, Clear(p, i)
    PROVE  Housed' /\ Kin' /\ Counted'
<1>1. \A d \in Data : bytes'[d] => bytes[d]
  BY DEF Clear, Accounts, IndInv, TypeOK
<1>2. Housed'
  BY DEF Clear, Housed, Accounts, IndInv, TypeOK
<1>3. Kin'
  <2>1. \A d \in Data : Nested(d)' = Nested(d)
    BY DEF Clear, Nested
  <2>2. UNCHANGED <<data, kind>>
    BY DEF Clear
  <2>3. QED
    BY <1>1, <2>1, <2>2, KinKept
<1>4. Counted'
  BY <1>1 DEF Clear, Counted, Holders, Users, Accounts
<1>5. QED
  BY <1>2, <1>3, <1>4

LEMMA RecycleAccounts ==
    ASSUME Accounts, NEW p \in Process, NEW i \in Item, Recycle(p, i)
    PROVE  Housed' /\ Kin' /\ Counted'
<1>1. /\ idle' = [idle EXCEPT ![queue[i]] = @ \cup {data[i]}]
      /\ data' = [data EXCEPT ![i] = Null]
      /\ phase' = [phase EXCEPT ![i] = "releasing"]
      /\ UNCHANGED <<memory, destroyer, bytes, queue, place, kind, open,
                     alive>>
      /\ phase[i] = "clearing"
  BY DEF Recycle
<1>2. /\ data[i] \in Data /\ queue[i] \in Pool /\ ~bytes[data[i]]
      /\ Holders(data[i]) = {i}
  BY <1>1 DEF Accounts, IndInv, RecycledIsExclusive, TypeOK, Unique,
     ItemsHold, ClearedIsEmpty
<1>3. Housed'
  BY <1>1 DEF Housed, Accounts, IndInv, TypeOK
<1>4. Kin'
  <2>1. \A u \in Item : data'[u] # Null => data[u] = data'[u]
    BY <1>1 DEF Accounts, IndInv, TypeOK
  <2>2. \A d \in Data : Nested(d)' = Nested(d)
    BY <1>1 DEF Nested
  <2>3. QED
    BY <1>1, <2>1, <2>2, KinKept
<1>5. Counted'
  <2>1. \A d \in Data : d # data[i] => Holders(d)' = Holders(d)
    BY <1>1, Distinct DEF Holders, Accounts, IndInv, TypeOK
  <2>2. \A q \in Pool : Users(q)' = Users(q)
    BY <1>1 DEF Users
  <2>3. i \in Users(queue[i])
    BY DEF Users
  <2>4. /\ data[i] \in idle'[queue[i]]
        /\ \A q \in Pool : idle[q] \subseteq idle'[q]
        /\ \A q \in Pool : q # queue[i] => idle'[q] = idle[q]
    BY <1>1, <1>2 DEF Accounts, IndInv, TypeOK
  <2>5. memory \subseteq Data
    BY DEF Accounts, IndInv, TypeOK
  <2>6. \A d \in memory' : \/ destroyer'[d] # Null
                           \/ Holders(d)' # {}
                           \/ \E q \in Pool : d \in idle'[q]
    BY <1>1, <1>2, <2>1, <2>4, <2>5 DEF Accounts, Counted
  <2>7. \A d \in Data : bytes'[d] => Holders(d)' # {}
    BY <1>1, <1>2, <2>1 DEF Accounts, Counted
  <2>8. \A q \in Pool : idle'[q] # {} => open'[q] \/ Users(q)' # {}
    BY <1>1, <2>2, <2>3, <2>4 DEF Accounts, Counted
  <2>9. QED
    BY <2>6, <2>7, <2>8 DEF Counted
<1>6. QED
  BY <1>3, <1>4, <1>5

LEMMA ReleaseQueueAccounts ==
    ASSUME Accounts, NEW p \in Process, NEW i \in Item, ReleaseQueue(p, i)
    PROVE  Housed' /\ Kin' /\ Counted'
<1> DEFINE Q == LastQueue(i)
<1> DEFINE D == IdleOf(Q)
<1>1. /\ Destroy(p, D) /\ DropQueues(Q) /\ IdleOf(Q) \subseteq D
      /\ queue' = [queue EXCEPT ![i] = Null]
      /\ phase' = [phase EXCEPT ![i] = "released"]
      /\ UNCHANGED <<data, place, kind, open, alive>>
      /\ phase[i] = "releasing"
  BY DEF ReleaseQueue
<1>2. Q \in SUBSET Pool
  BY DEF LastQueue
<1>3. Housed'
  BY <1>1, NestedStays DEF Housed, Accounts, IndInv, TypeOK
<1>4. Kin'
  <2>1. \A d \in Data : bytes'[d] => bytes[d]
    BY <1>1 DEF Destroy
  <2>2. \A d \in Data : Nested(d)' = Nested(d)
    BY <1>1 DEF Nested
  <2>3. QED
    BY <1>1, <2>1, <2>2, KinKept
<1>5. Counted'
  <2>1. \A d \in Data \ D : Holders(d) # {} => Holders(d)' # {}
    BY <1>1 DEF Holders
  <2>2. \A q \in Pool \ Q :
            open[q] \/ Users(q) # {} => open'[q] \/ Users(q)' # {}
    <3>1. SUFFICES ASSUME NEW q \in Pool \ Q, NEW u \in Users(q), ~open[q]
                   PROVE  Users(q)' # {}
      BY <1>1
    <3>2. PICK v \in Users(q) : v # i
      BY <3>1 DEF LastQueue, Users
    <3>3. QED
      BY <1>1, <3>2 DEF Users, Accounts, IndInv, TypeOK
  <2> HIDE DEF D, Q
  <2>3. QED
    BY <1>1, <1>2, <2>1, <2>2, DropKeepsCounted
<1>6. QED
  BY <1>3, <1>4, <1>5

LEMMA ReleaseDataAccounts ==
    ASSUME Accounts, NEW p \in Process, NEW i \in Item, ReleaseData(p, i)
    PROVE  Housed' /\ Kin' /\ Counted'
<1> DEFINE D == LastData(i)
<1>1. /\ Destroy(p, D)
      /\ data' = [data EXCEPT ![i] = Null]
      /\ queue' = [queue EXCEPT ![i] = Null]
      /\ place' = [place EXCEPT ![i] = Null]
      /\ kind' = [kind EXCEPT ![i] = "Blob"]
      /\ phase' = [phase EXCEPT ![i] = "none"]
      /\ UNCHANGED <<idle, open, alive>>
      /\ phase[i] = "released"
  BY DEF ReleaseData, Create
<1>2. queue[i] = Null
  BY <1>1 DEF Accounts, Housed
<1>3. Housed'
  BY <1>1, NestedStays, Distinct DEF Housed, Accounts, IndInv, TypeOK
<1>4. Kin'
  <2>1. \A d \in Data : bytes'[d] => bytes[d]
    BY <1>1 DEF Destroy
  <2>2. \A d \in Data : Nested(d)' \subseteq Nested(d)
    BY <1>1, Distinct DEF Nested, Accounts, IndInv, TypeOK
  <2>3. \A u \in Item : data'[u] # Null =>
            data[u] = data'[u] /\ kind'[u] = kind[u]
    BY <1>1 DEF Accounts, IndInv, TypeOK
  <2>4. QED
    BY <2>1, <2>2, <2>3, KinKept
<1>5. Counted'
  <2>1. \A d \in Data \ D : Holders(d) # {} => Holders(d)' # {}
    <3>1. SUFFICES ASSUME NEW d \in Data \ D, NEW u \in Holders(d)
                   PROVE  Holders(d)' # {}
      OBVIOUS
    <3>2. d # Null
      BY Distinct
    <3>3. PICK v \in Holders(d) : v # i
      BY <3>1, <3>2 DEF LastData, Unique, Holders
    <3>4. QED
      BY <1>1, <3>3 DEF Holders, Accounts, IndInv, TypeOK
  <2>2. \A q \in Pool : Users(q)' = Users(q)
    BY <1>1, <1>2, Distinct DEF Users, Accounts, IndInv, TypeOK
  <2>3. DropQueues({}) /\ IdleOf({}) \subseteq D
    BY <1>1 DEF DropQueues, IdleOf, Accounts, IndInv, TypeOK
  <2> HIDE DEF D
  <2>4. QED
    BY <1>1, <2>1, <2>2, <2>3, DropKeepsCounted
<1>6. QED
  BY <1>3, <1>4, <1>5

LEMMA FreeAccounts ==
    ASSUME Accounts, NEW p \in Process, NEW d \in Data, Free(p, d)
    PROVE  Housed' /\ Kin' /\ Counted'
<1>1. Housed'
  BY DEF Free, Housed, Nested, Accounts, IndInv, TypeOK
<1>2. Kin'
  BY DEF Free, Kin, Nested, Accounts
<1>3. Counted'
  BY DEF Free, Counted, Holders, Users, Accounts, IndInv, TypeOK
<1>4. QED
  BY <1>1, <1>2, <1>3

LEMMA CloseAccounts ==
    ASSUME Accounts, NEW p \in Process, NEW q \in Pool, Close(p, q)
    PROVE  Housed' /\ Kin' /\ Counted'
<1> DEFINE Q == IF Users(q) = {} THEN {q} ELSE {}
<1> DEFINE D == IdleOf(Q)
<1>1. /\ Destroy(p, D) /\ DropQueues(Q) /\ IdleOf(Q) \subseteq D
      /\ open' = [open EXCEPT ![q] = FALSE]
      /\ UNCHANGED <<data, queue, place, kind, phase, alive>>
      /\ \A i \in Users(q) : phase[i] # "missed"
  BY DEF Close
<1>2. Q \in SUBSET Pool
  OBVIOUS
<1>3. Housed'
  <2>1. \A i \in Item : phase[i] = "missed" => open'[queue[i]]
    BY <1>1 DEF Users, Accounts, Housed, IndInv, ItemsHold, TypeOK
  <2>2. QED
    BY <1>1, <2>1, NestedStays DEF Housed, Accounts
<1>4. Kin'
  <2>1. \A d \in Data : bytes'[d] => bytes[d]
    BY <1>1 DEF Destroy
  <2>2. \A d \in Data : Nested(d)' = Nested(d)
    BY <1>1 DEF Nested
  <2>3. QED
    BY <1>1, <2>1, <2>2, KinKept
<1>5. Counted'
  <2>1. \A d \in Data : Holders(d)' = Holders(d)
    BY <1>1 DEF Holders
  <2>2. \A r \in Pool \ Q :
            open[r] \/ Users(r) # {} => open'[r] \/ Users(r)' # {}
    BY <1>1 DEF Users, Accounts, IndInv, TypeOK
  <2> HIDE DEF D, Q
  <2>3. QED
    BY <1>1, <1>2, <2>1, <2>2, DropKeepsCounted
<1>6. QED
  BY <1>3, <1>4, <1>5

-----------------------------------------------------------------------------
LEMMA AccountsInit == Init => Accounts
<1>1. Init => Housed /\ Kin
  BY Distinct DEF Init, Housed, Kin
<1>2. Init => Counted
  BY DEF Init, Counted
<1>3. QED
  BY <1>1, <1>2, InitEstablishes DEF Accounts

LEMMA AccountsNext == Accounts /\ [Next]_vars => Accounts'
<1>1. SUFFICES ASSUME Accounts, [Next]_vars
               PROVE  Housed' /\ Kin' /\ Counted'
  BY NextKeeps DEF Accounts
<1>2. CASE UNCHANGED vars
  BY <1>1, <1>2 DEF vars, Accounts, Housed, Kin, Counted, Nested, Holders,
     Users
<1>3. ASSUME NEW p \in Process, Take(p)
      PROVE  Housed' /\ Kin' /\ Counted'
  <2>1. PICK i \in Item :
          \/ \E q \in Pool, k \in {"Blob", "Buffer"} :
                TakePop(p, i, q, k) \/ TakeMiss(p, i, q, k)
          \/ TakeNew(p, i)
          \/ TakeFails(p, i)
    BY <1>3 DEF Take
  <2>2. {"Blob", "Buffer"} \subseteq Kinds
    BY DEF Kinds, BlobKinds, BufferKinds
  <2>3. QED
    BY <1>1, <2>1, <2>2, TakePopAccounts, TakeMissAccounts, TakeNewAccounts,
       TakeFailsAccounts
<1>4. ASSUME NEW p \in Process, Use(p)
      PROVE  Housed' /\ Kin' /\ Counted'
  BY <1>1, <1>4, WriteAccounts, ResetAccounts, CopyAccounts,
     PushBackAccounts, AssignAccounts DEF Use
<1>5. ASSUME NEW p \in Process, NEW i \in Item, Begin(p, i) \/ Finish(p, i)
      PROVE  Housed' /\ Kin' /\ Counted'
  BY <1>1, <1>5, BeginAccounts, ClearAccounts, RecycleAccounts,
     ReleaseQueueAccounts, ReleaseDataAccounts DEF Finish
<1>6. ASSUME NEW p \in Process, Crash(p)
      PROVE  Housed' /\ Kin' /\ Counted'
  BY <1>1, <1>6 DEF Crash, Accounts, Housed, Kin, Counted, Nested, Holders,
     Users
<1>7. QED
  BY <1>1, <1>2, <1>3, <1>4, <1>5, <1>6, FreeAccounts, CloseAccounts DEF Next

LEMMA AccountsAlways == Spec => []Accounts
  BY AccountsInit, AccountsNext, PTL DEF Spec

\* An item that exists while no process has one is an element of the m_buffer
\* of a Data that is being destroyed: the Data is in the memory, so someone
\* keeps it, which for a m_buffer with an element is a buffer, in a process.
LEMMA NestedIsDestroyed ==
    ASSUME Accounts, \A i \in Item : place[i] \notin Process,
           NEW u \in Item, phase[u] # "none"
    PROVE  \E d \in Data : destroyer[d] # Null
<1>1. PICK e \in Data : e = place[u] /\ e \in memory
  BY DEF Accounts, Housed, IndInv, TypeOK
<1>2. Nested(e) # {}
  BY <1>1 DEF Nested
<1>3. \A q \in Pool : e \notin idle[q]
  BY <1>2 DEF Accounts, IndInv, IdleIsClean
<1>4. Holders(e) = {}
  <2>1. SUFFICES ASSUME NEW h \in Item, data[h] = e
                 PROVE  FALSE
    BY DEF Holders
  <2>2. data[h] # Null
    BY <2>1, Distinct
  <2>3. kind[h] \notin BlobKinds
    BY <1>2, <2>1, <2>2 DEF Accounts, Kin
  <2>4. phase[h] # "none"
    BY <2>2 DEF Accounts, IndInv, ItemsHold
  <2>5. place[h] \in Process
    BY <2>3, <2>4 DEF Accounts, Housed, IndInv, TypeOK
  <2>6. QED
    BY <2>5
<1>5. QED
  BY <1>1, <1>3, <1>4 DEF Accounts, Counted

LEMMA AccountsLeakNothing == Accounts => NoLeak
<1>1. SUFFICES ASSUME Accounts,
                      \A i \in Item : place[i] \notin Process,
                      \A q \in Pool : ~open[q],
                      \A d \in Data : destroyer[d] = Null,
                      NEW d \in memory
               PROVE  FALSE
  BY DEF NoLeak
<1>2. \A u \in Item : phase[u] = "none"
  BY <1>1, NestedIsDestroyed
<1>3. \A u \in Item : data[u] = Null /\ queue[u] = Null
  BY <1>1, <1>2 DEF Accounts, IndInv, ItemsHold
<1>4. d \in Data
  BY <1>1 DEF Accounts, IndInv, TypeOK
<1>5. Holders(d) = {}
  BY <1>3, <1>4, Distinct DEF Holders
<1>6. PICK q \in Pool : d \in idle[q]
  BY <1>1, <1>4, <1>5 DEF Accounts, Counted
<1>7. Users(q) # {}
  BY <1>1, <1>6 DEF Accounts, Counted
<1>8. QED
  BY <1>3, <1>7, Distinct DEF Users

\* Once the items and the pools are gone, the whole memory is free
\* (BufferPool.h:69-76, 122-123): no cycle of references and no reference that
\* nobody drops keeps a Data.
THEOREM NothingLeaks == Spec => []NoLeak
  BY AccountsAlways, AccountsLeakNothing, PTL

-----------------------------------------------------------------------------
(* The refinement of SharedData, and what readers keep.                    *)

\* A Data that readers have is in use; one in a queue, or outside of the
\* memory, has none.
LEMMA StatusFacts ==
    ASSUME Accounts, NEW d \in Data
    PROVE  /\ Status(d) = "free" <=> d \notin memory
           /\ Status(d) = "idle" <=> \E q \in Pool : d \in idle[q]
           /\ Status(d) = "used" <=>
                d \in memory /\ \A q \in Pool : d \notin idle[q]
           /\ Holders(d) # {} => Status(d) = "used"
           /\ Readers(d) \subseteq Holders(d)
<1>1. \A q \in Pool : d \in idle[q] => d \in memory
  BY DEF Accounts, IndInv, IdleIsClean
<1>2. Holders(d) # {} => d \in memory /\ \A q \in Pool : d \notin idle[q]
  BY Distinct DEF Holders, Accounts, IndInv, NoDangling
<1>3. QED
  BY <1>1, <1>2 DEF Status, Readers, Holders

\* Destroy takes the Data of D from those who use them, and empties them.
LEMMA DestroyStatus ==
    ASSUME Accounts, Accounts', NEW p \in Process, NEW D, NEW Q \in SUBSET Pool,
           Destroy(p, D), DropQueues(Q), IdleOf(Q) \subseteq D,
           NEW d \in Data
    PROVE  /\ d \notin D => Status(d)' = Status(d) /\ bytes'[d] = bytes[d]
           /\ d \in D => ~bytes'[d]
           /\ d \in D /\ Nested(d) = {} => Status(d)' = "free"
           /\ d \in D /\ Nested(d) # {} /\ Status(d) = "used" =>
                Status(d)' = "used"
<1>1. \A r \in Pool : idle'[r] = IF r \in Q THEN {} ELSE idle[r]
  BY DEF DropQueues
<1>2. bytes'[d] <=> bytes[d] /\ d \notin D
  BY DEF Destroy
<1>3. d \notin D => bytes'[d] = bytes[d]
  BY <1>2 DEF Accounts, IndInv, TypeOK, Destroy
<1>4. d \notin D => (\A r \in Pool : d \in idle'[r] <=> d \in idle[r])
  BY <1>1 DEF IdleOf
<1>5. \A r \in Pool : d \in idle'[r] => d \in idle[r]
  BY <1>1
<1>6. d \in memory' <=> d \in memory /\ ~(d \in D /\ Nested(d) = {})
  BY DEF Destroy
<1>7. d \notin D => Status(d)' = Status(d)
  BY <1>4, <1>6 DEF Status
<1>8. ASSUME d \in D, Nested(d) = {}
      PROVE  Status(d)' = "free"
  <2>1. d \notin memory'
    BY <1>6, <1>8
  <2>2. \A q \in Pool : d \notin idle'[q]
    BY <2>1 DEF Accounts, IndInv, IdleIsClean
  <2>3. QED
    BY <2>1, <2>2 DEF Status
<1>9. d \in D /\ Nested(d) # {} /\ Status(d) = "used" => Status(d)' = "used"
  BY <1>5, <1>6 DEF Status
<1>10. QED
  BY <1>2, <1>3, <1>7, <1>8, <1>9

\* The variables of SharedData, at d.
LEMMA SharedVars ==
    ASSUME NEW d \in Data
    PROVE  /\ [e \in Data |-> Status(e)][d] = Status(d)
           /\ [e \in Data |-> Status(e)]'[d] = Status(d)'
           /\ [e \in Data |-> Readers(e)][d] = Readers(d)
           /\ [e \in Data |-> Readers(e)]'[d] = Readers(d)'
  OBVIOUS

LEMMA Stays ==
    ASSUME NEW d \in Data, Readers(d)' = Readers(d), Status(d)' = Status(d),
           bytes'[d] = bytes[d]
    PROVE  Shared!Step(d)
  BY SharedVars DEF Shared!Step, Shared!Stay

LEMMA Leaves ==
    ASSUME NEW d \in Data, NEW i \in Readers(d),
           Readers(d)' = Readers(d) \ {i}, Status(d)' = Status(d),
           bytes'[d] = bytes[d]
    PROVE  Shared!Step(d)
  BY SharedVars DEF Shared!Step, Shared!Leave

LEMMA Shares ==
    ASSUME NEW d \in Data, NEW i \in Item, Readers(d) # {},
           Readers(d)' = Readers(d) \cup {i}, Status(d)' = Status(d),
           bytes'[d] = bytes[d]
    PROVE  Shared!Step(d)
  BY SharedVars DEF Shared!Step, Shared!Share

LEMMA Taken ==
    ASSUME NEW d \in Data, NEW i \in Item, Status(d) \in {"free", "idle"},
           Readers(d)' = {i}, Status(d)' = "used", ~bytes'[d]
    PROVE  Shared!Step(d)
  BY SharedVars DEF Shared!Step, Shared!Take

LEMMA Discarded ==
    ASSUME NEW d \in Data, Readers(d)' = {}, Status(d)' = "free", ~bytes'[d],
           \A i, j \in Readers(d) : i = j
    PROVE  Shared!Step(d)
  BY SharedVars DEF Shared!Step, Shared!Discard

LEMMA Emptied ==
    ASSUME NEW d \in Data, Readers(d) = {}, Readers(d)' = {},
           Status(d) = "used", Status(d)' = "used", ~bytes'[d]
    PROVE  Shared!Step(d)
  BY SharedVars DEF Shared!Step, Shared!Empty

\* The readers of d when only item i changes.
LEMMA ReadersOfOne ==
    ASSUME TypeOK, NEW i \in Item, NEW d \in Data, NEW x, NEW f,
           data' = [data EXCEPT ![i] = x], phase' = [phase EXCEPT ![i] = f]
    PROVE  /\ x = d /\ f = "live" => Readers(d)' = Readers(d) \cup {i}
           /\ x # d \/ f # "live" => Readers(d)' = Readers(d) \ {i}
           /\ x = d /\ f = "live" /\ Readers(d) = {} => Readers(d)' = {i}
           /\ (x # d \/ f # "live") /\ (data[i] # d \/ phase[i] # "live") =>
                Readers(d)' = Readers(d)
  BY DEF Readers, TypeOK

LEMMA SameStatus ==
    ASSUME NEW d \in Data, UNCHANGED <<memory, idle>>
    PROVE  Status(d)' = Status(d)
  BY DEF Status

LEMMA TakePopShares ==
    ASSUME Accounts, Accounts', NEW p \in Process, NEW i \in Item,
           NEW q \in Pool, NEW k \in Kinds, TakePop(p, i, q, k), NEW d \in Data
    PROVE  Shared!Step(d)
<1>1. PICK e \in idle[q] :
        /\ idle' = [idle EXCEPT ![q] = @ \ {e}]
        /\ data' = [data EXCEPT ![i] = e]
        /\ phase' = [phase EXCEPT ![i] = "live"]
        /\ UNCHANGED <<memory, bytes>>
  BY DEF TakePop, Create
<1>2. TypeOK /\ TypeOK' /\ phase[i] = "none" /\ e \in Data
  BY DEF TakePop, Accounts, IndInv, TypeOK
<1>3. CASE d = e
  <2>1. Status(d) = "idle" /\ Readers(d) = {} /\ ~bytes[d]
    BY <1>3, StatusFacts DEF Accounts, IndInv, IdleIsClean
  <2>2. Readers(d)' = {i}
    BY <1>1, <1>2, <1>3, <2>1, ReadersOfOne
  <2>3. \A r \in Pool : d \notin idle'[r]
    BY <1>1, <1>3 DEF Accounts, IndInv, IdleIsClean, TypeOK
  <2>4. d \in memory'
    BY <1>1, <1>3 DEF Accounts, IndInv, IdleIsClean
  <2>5. Status(d)' = "used"
    BY <2>3, <2>4 DEF Status
  <2>6. QED
    BY <1>1, <2>1, <2>2, <2>5, Taken
<1>4. CASE d # e
  <2>1. Readers(d)' = Readers(d)
    BY <1>1, <1>2, <1>4, ReadersOfOne
  <2>2. \A r \in Pool : d \in idle'[r] <=> d \in idle[r]
    BY <1>1, <1>2, <1>4 DEF TypeOK
  <2>3. Status(d)' = Status(d)
    BY <1>1, <2>2 DEF Status
  <2>4. QED
    BY <1>1, <2>1, <2>3, Stays
<1>5. QED
  BY <1>3, <1>4

LEMMA TakeNewShares ==
    ASSUME Accounts, Accounts', NEW p \in Process, NEW i \in Item,
           TakeNew(p, i), NEW d \in Data
    PROVE  Shared!Step(d)
<1>1. PICK e \in Data \ memory :
        /\ memory' = memory \cup {e}
        /\ data' = [data EXCEPT ![i] = e]
        /\ phase' = [phase EXCEPT ![i] = "live"]
        /\ UNCHANGED <<idle, bytes>>
  BY DEF TakeNew
<1>2. TypeOK /\ phase[i] = "missed"
  BY DEF TakeNew, Accounts, IndInv
<1>3. CASE d = e
  <2>1. Status(d) = "free" /\ Holders(d) = {} /\ Readers(d) = {}
    BY <1>1, <1>3, StatusFacts
  <2>2. ~bytes[d]
    BY <2>1 DEF Accounts, Counted
  <2>3. Readers(d)' = {i}
    BY <1>1, <1>2, <1>3, <2>1, ReadersOfOne
  <2>4. d \in memory' /\ \A r \in Pool : d \notin idle'[r]
    BY <1>1, <1>3 DEF Accounts, IndInv, IdleIsClean
  <2>5. Status(d)' = "used"
    BY <2>4 DEF Status
  <2>6. QED
    BY <1>1, <2>1, <2>2, <2>3, <2>5, Taken
<1>4. CASE d # e
  <2>1. Readers(d)' = Readers(d)
    BY <1>1, <1>2, <1>4, ReadersOfOne
  <2>2. Status(d)' = Status(d)
    BY <1>1, <1>4 DEF Status
  <2>3. QED
    BY <1>1, <2>1, <2>2, Stays
<1>5. QED
  BY <1>3, <1>4

LEMMA WriteShares ==
    ASSUME Accounts, Accounts', NEW p \in Process, NEW i \in Item,
           Write(p, i), NEW d \in Data
    PROVE  Shared!Step(d)
<1>1. /\ bytes' = [bytes EXCEPT ![data[i]] = TRUE]
      /\ UNCHANGED <<data, phase, memory, idle>>
      /\ phase[i] = "live"
  BY DEF Write, Usable
<1>2. Readers(d)' = Readers(d) /\ Status(d)' = Status(d)
  BY <1>1, SameStatus DEF Readers
<1>3. CASE d = data[i]
  <2>1. i \in Readers(d) /\ bytes'[d]
    BY <1>1, <1>3 DEF Readers, Accounts, IndInv, TypeOK
  <2>2. QED
    BY <1>2, <2>1, SharedVars DEF Shared!Step, Shared!Fill
<1>4. CASE d # data[i]
  <2>1. bytes'[d] = bytes[d]
    BY <1>1, <1>4 DEF Accounts, IndInv, TypeOK
  <2>2. QED
    BY <1>2, <2>1, Stays
<1>5. QED
  BY <1>3, <1>4

\* A new item refers to what item j refers to, or to nothing.
LEMMA CreateShares ==
    ASSUME Accounts, NEW i \in Item, NEW j \in Item, NEW q, NEW w, NEW k,
           phase[i] = "none", phase[j] = "live",
           Create(i, data[j], q, w, k, "live"),
           UNCHANGED <<memory, bytes, idle>>, NEW d \in Data
    PROVE  Shared!Step(d)
<1>1. /\ data' = [data EXCEPT ![i] = data[j]]
      /\ phase' = [phase EXCEPT ![i] = "live"]
      /\ TypeOK
      /\ Status(d)' = Status(d)
  BY SameStatus DEF Create, Accounts, IndInv
<1>2. CASE d = data[j]
  <2>1. j \in Readers(d)
    BY <1>2 DEF Readers
  <2>2. Readers(d)' = Readers(d) \cup {i}
    BY <1>1, <1>2, ReadersOfOne
  <2>3. QED
    BY <1>1, <2>1, <2>2, Shares
<1>3. CASE d # data[j]
  <2>1. Readers(d)' = Readers(d)
    BY <1>1, <1>3, ReadersOfOne
  <2>2. QED
    BY <1>1, <2>1, Stays
<1>4. QED
  BY <1>2, <1>3

\* Nobody reads what is in a queue.
LEMMA IdleUnread ==
    ASSUME Accounts, NEW Q \in SUBSET Pool, NEW d \in IdleOf(Q)
    PROVE  Readers(d) = {} /\ Holders(d) = {} /\ Nested(d) = {} /\ d \in Data
<1>1. PICK q \in Q : d \in idle[q]
  BY DEF IdleOf
<1>2. Nested(d) = {} /\ d \in Data
  BY <1>1 DEF Accounts, IndInv, IdleIsClean, TypeOK
<1>3. \A i \in Item : data[i] # d
  BY <1>1, <1>2, Distinct DEF Accounts, IndInv, NoDangling
<1>4. QED
  BY <1>2, <1>3 DEF Readers, Holders

\* The live item i lets go of what it refers to, and perhaps refers to what
\* item j refers to instead.
LEMMA LetGoShares ==
    ASSUME Accounts, Accounts', NEW p \in Process, NEW i \in Item,
           NEW j \in Item, NEW x \in {Null, data[j]}, NEW Q \in SUBSET Pool,
           phase[i] = "live", phase[j] = "live", x # Null => j # i,
           Destroy(p, LastData(i) \cup IdleOf(Q)), DropQueues(Q),
           data' = [data EXCEPT ![i] = x], phase' = phase,
           NEW d \in Data
    PROVE  Shared!Step(d)
<1> DEFINE D == LastData(i) \cup IdleOf(Q)
<1>1. /\ d \notin D => Status(d)' = Status(d) /\ bytes'[d] = bytes[d]
      /\ d \in D => ~bytes'[d]
      /\ d \in D /\ Nested(d) = {} => Status(d)' = "free"
      /\ d \in D /\ Nested(d) # {} /\ Status(d) = "used" =>
            Status(d)' = "used"
  <2>1. IdleOf(Q) \subseteq D
    OBVIOUS
  <2>2. QED
    BY <2>1, DestroyStatus
<1>2. TypeOK /\ phase' = [phase EXCEPT ![i] = "live"] /\ d # Null
  BY Distinct DEF Accounts, IndInv, TypeOK
<1>3. /\ x = d => Readers(d)' = Readers(d) \cup {i}
      /\ x # d => Readers(d)' = Readers(d) \ {i}
      /\ x # d /\ data[i] # d => Readers(d)' = Readers(d)
  BY <1>2, ReadersOfOne
<1>4. data[i] = d => i \in Readers(d)
  BY DEF Readers
<1>5. CASE d \in IdleOf(Q)
  <2>1. Readers(d) = {} /\ Nested(d) = {} /\ data[j] # d
    BY <1>5, IdleUnread DEF Holders
  <2>2. Readers(d)' = {}
    BY <1>2, <1>3, <2>1
  <2>3. QED
    BY <1>1, <1>5, <2>1, <2>2, Discarded
<1>6. CASE x = d /\ d \notin IdleOf(Q)
  <2>1. j \in Readers(d) /\ j # i /\ j \in Holders(d)
    BY <1>2, <1>6 DEF Readers, Holders
  <2>2. d \notin D
    BY <1>6, <2>1 DEF LastData, Unique, Holders
  <2>3. QED
    BY <1>1, <1>3, <1>6, <2>1, <2>2, Shares
<1>7. CASE x # d /\ data[i] = d /\ d \notin IdleOf(Q)
  <2>1. CASE Unique(i)
    <3>1. d \in D /\ Holders(d) = {i}
      BY <1>7, <2>1 DEF LastData, Unique
    <3>2. Status(d) = "used" /\ Readers(d) \subseteq {i}
      BY <3>1, StatusFacts
    <3>3. Readers(d)' = {}
      BY <1>3, <1>7, <3>2
    <3>4. CASE Nested(d) = {}
      BY <1>1, <3>1, <3>2, <3>3, <3>4, Discarded
    <3>5. CASE Nested(d) # {}
      <4>1. ~bytes[d]
        BY <1>2, <1>7, <3>5 DEF Accounts, Kin
      <4>2. bytes'[d] = bytes[d]
        BY <1>1, <3>1, <4>1 DEF Accounts, IndInv, TypeOK
      <4>3. QED
        BY <1>1, <1>3, <1>4, <1>7, <3>1, <3>2, <3>5, <4>2, Leaves
    <3>6. QED
      BY <3>4, <3>5
  <2>2. CASE ~Unique(i)
    <3>1. d \notin D
      BY <1>7, <2>2 DEF LastData
    <3>2. QED
      BY <1>1, <1>3, <1>4, <1>7, <3>1, Leaves
  <2>3. QED
    BY <2>1, <2>2
<1>8. CASE x # d /\ data[i] # d /\ d \notin IdleOf(Q)
  <2>1. d \notin D
    BY <1>8 DEF LastData
  <2>2. QED
    BY <1>1, <1>3, <1>8, <2>1, Stays
<1>9. QED
  BY <1>5, <1>6, <1>7, <1>8

LEMMA AssignShares ==
    ASSUME Accounts, Accounts', NEW p \in Process, NEW i \in Item,
           NEW j \in Item, Assign(p, i, j), NEW d \in Data
    PROVE  Shared!Step(d)
<1> DEFINE Q == IF queue[j] = queue[i] THEN {} ELSE LastQueue(i)
<1>1. Q \in SUBSET Pool
  BY DEF LastQueue
<1>2. /\ Destroy(p, LastData(i) \cup IdleOf(Q)) /\ DropQueues(Q)
      /\ data' = [data EXCEPT ![i] = data[j]] /\ phase' = phase
      /\ i # j /\ phase[i] = "live" /\ phase[j] = "live"
  BY DEF Assign, Usable
<1> HIDE DEF Q
<1>3. data[j] \in {Null, data[j]}
  OBVIOUS
<1>4. QED
  BY <1>1, <1>2, <1>3, LetGoShares

LEMMA ResetShares ==
    ASSUME Accounts, Accounts', NEW p \in Process, NEW i \in Item,
           Reset(p, i), NEW d \in Data
    PROVE  Shared!Step(d)
<1> DEFINE Q == LastQueue(i)
<1>1. Q \in SUBSET Pool
  BY DEF LastQueue
<1>2. /\ Destroy(p, LastData(i) \cup IdleOf(Q)) /\ DropQueues(Q)
      /\ data' = [data EXCEPT ![i] = Null] /\ phase' = phase
      /\ phase[i] = "live"
  BY DEF Reset
<1> HIDE DEF Q
<1>3. Null \in {Null, data[i]}
  OBVIOUS
<1>4. QED
  BY <1>1, <1>2, <1>3, LetGoShares

LEMMA BeginShares ==
    ASSUME Accounts, NEW p \in Process, NEW i \in Item, Begin(p, i),
           NEW d \in Data
    PROVE  Shared!Step(d)
<1>1. /\ phase[i] = "live" /\ Status(d)' = Status(d)
      /\ bytes' = bytes /\ data' = data
      /\ \A u \in Item : u # i => phase'[u] = phase[u]
      /\ phase'[i] # "live"
      /\ Status(d)' = Status(d)
  BY SameStatus DEF Begin, Accounts, IndInv, TypeOK
<1>2. CASE data[i] = d
  <2>1. i \in Readers(d) /\ Readers(d)' = Readers(d) \ {i}
    BY <1>1, <1>2 DEF Readers
  <2>2. QED
    BY <1>1, <2>1, Leaves
<1>3. CASE data[i] # d
  <2>1. Readers(d)' = Readers(d)
    BY <1>1, <1>3 DEF Readers
  <2>2. QED
    BY <1>1, <2>1, Stays
<1>4. QED
  BY <1>2, <1>3

LEMMA ClearShares ==
    ASSUME Accounts, NEW p \in Process, NEW i \in Item, Clear(p, i),
           NEW d \in Data
    PROVE  Shared!Step(d)
<1>1. /\ phase[i] = "unique" /\ Status(d)' = Status(d) /\ data' = data
      /\ bytes' = [bytes EXCEPT ![data[i]] = FALSE]
      /\ phase' = [phase EXCEPT ![i] = "clearing"]
      /\ Holders(data[i]) = {i}
  BY SameStatus DEF Clear, Accounts, IndInv, RecycledIsExclusive, Unique
<1>2. Readers(d)' = Readers(d)
  BY <1>1 DEF Readers, Accounts, IndInv, TypeOK
<1>3. CASE data[i] = d
  <2>1. Readers(d) = {} /\ Status(d) = "used"
    BY <1>1, <1>3, StatusFacts DEF Readers, Holders
  <2>2. ~bytes'[d]
    BY <1>1, <1>3 DEF Accounts, IndInv, TypeOK
  <2>3. QED
    BY <1>1, <1>2, <2>1, <2>2, Emptied
<1>4. CASE data[i] # d
  <2>1. bytes'[d] = bytes[d]
    BY <1>1, <1>4 DEF Accounts, IndInv, TypeOK
  <2>2. QED
    BY <1>1, <1>2, <2>1, Stays
<1>5. QED
  BY <1>3, <1>4

LEMMA RecycleShares ==
    ASSUME Accounts, Accounts', NEW p \in Process, NEW i \in Item,
           Recycle(p, i), NEW d \in Data
    PROVE  Shared!Step(d)
<1>1. /\ idle' = [idle EXCEPT ![queue[i]] = @ \cup {data[i]}]
      /\ data' = [data EXCEPT ![i] = Null]
      /\ phase' = [phase EXCEPT ![i] = "releasing"]
      /\ UNCHANGED <<memory, bytes>>
      /\ phase[i] = "clearing"
  BY DEF Recycle
<1>2. /\ data[i] \in Data /\ queue[i] \in Pool /\ ~bytes[data[i]]
      /\ Holders(data[i]) = {i}
  BY <1>1 DEF Accounts, IndInv, RecycledIsExclusive, TypeOK, Unique,
     ItemsHold, ClearedIsEmpty
<1>3. Readers(d)' = Readers(d)
  <2>1. TypeOK /\ Null # d
    BY Distinct DEF Accounts, IndInv
  <2>2. QED
    BY <1>1, <2>1, ReadersOfOne
<1>4. CASE data[i] = d
  <2>1. Readers(d) = {} /\ Status(d) = "used" /\ d \in memory
    BY <1>1, <1>2, <1>4, StatusFacts DEF Readers, Holders
  <2>2. d \in idle'[queue[i]]
    BY <1>1, <1>2, <1>4 DEF Accounts, IndInv, TypeOK
  <2>3. Status(d)' = "idle"
    BY <1>1, <1>2, <2>1, <2>2 DEF Status
  <2>4. QED
    BY <1>1, <1>2, <1>3, <1>4, <2>1, <2>3, SharedVars DEF Shared!Step,
       Shared!Recycle
<1>5. CASE data[i] # d
  <2>1. \A q \in Pool : d \in idle'[q] <=> d \in idle[q]
    BY <1>1, <1>2, <1>5 DEF Accounts, IndInv, TypeOK
  <2>2. Status(d)' = Status(d)
    BY <1>1, <2>1 DEF Status
  <2>3. QED
    BY <1>1, <1>3, <2>2, Stays
<1>6. QED
  BY <1>4, <1>5

\* Only Data that nobody refers to are dropped, with a queue.
LEMMA DropQueueShares ==
    ASSUME Accounts, Accounts', NEW p \in Process, NEW Q \in SUBSET Pool,
           Destroy(p, IdleOf(Q)), DropQueues(Q), data' = data,
           \A u \in Item : phase'[u] = "live" <=> phase[u] = "live",
           NEW d \in Data
    PROVE  Shared!Step(d)
<1>1. /\ d \notin IdleOf(Q) =>
            Status(d)' = Status(d) /\ bytes'[d] = bytes[d]
      /\ d \in IdleOf(Q) => ~bytes'[d]
      /\ d \in IdleOf(Q) /\ Nested(d) = {} => Status(d)' = "free"
  BY DestroyStatus
<1>2. Readers(d)' = Readers(d)
  BY DEF Readers
<1>3. CASE d \in IdleOf(Q)
  <2>1. Readers(d) = {} /\ Nested(d) = {}
    BY <1>3, IdleUnread
  <2>2. QED
    BY <1>1, <1>2, <1>3, <2>1, Discarded
<1>4. CASE d \notin IdleOf(Q)
  BY <1>1, <1>2, <1>4, Stays
<1>5. QED
  BY <1>3, <1>4

LEMMA ReleaseQueueShares ==
    ASSUME Accounts, Accounts', NEW p \in Process, NEW i \in Item,
           ReleaseQueue(p, i), NEW d \in Data
    PROVE  Shared!Step(d)
<1>1. LastQueue(i) \in SUBSET Pool
  BY DEF LastQueue
<1>2. \A u \in Item : phase'[u] = "live" <=> phase[u] = "live"
  BY DEF ReleaseQueue, Accounts, IndInv, TypeOK
<1>3. QED
  BY <1>1, <1>2, DropQueueShares DEF ReleaseQueue

LEMMA CloseShares ==
    ASSUME Accounts, Accounts', NEW p \in Process, NEW q \in Pool,
           Close(p, q), NEW d \in Data
    PROVE  Shared!Step(d)
<1> DEFINE Q == IF Users(q) = {} THEN {q} ELSE {}
<1>1. Q \in SUBSET Pool
  OBVIOUS
<1>2. /\ Destroy(p, IdleOf(Q)) /\ DropQueues(Q)
      /\ UNCHANGED <<data, phase>>
  BY DEF Close
<1> HIDE DEF Q
<1>3. QED
  BY <1>1, <1>2, DropQueueShares

LEMMA ReleaseDataShares ==
    ASSUME Accounts, Accounts', NEW p \in Process, NEW i \in Item,
           ReleaseData(p, i), NEW d \in Data
    PROVE  Shared!Step(d)
<1> DEFINE D == LastData(i)
<1>1. /\ Destroy(p, D)
      /\ data' = [data EXCEPT ![i] = Null]
      /\ phase' = [phase EXCEPT ![i] = "none"]
      /\ phase[i] = "released" /\ idle' = idle
  BY DEF ReleaseData, Create
<1>2. TypeOK /\ Null # d
  BY Distinct DEF Accounts, IndInv
<1>3. DropQueues({}) /\ IdleOf({}) \subseteq D
  BY <1>1, <1>2 DEF DropQueues, IdleOf, TypeOK
<1>4. /\ d \notin D => Status(d)' = Status(d) /\ bytes'[d] = bytes[d]
      /\ d \in D => ~bytes'[d]
      /\ d \in D /\ Nested(d) = {} => Status(d)' = "free"
      /\ d \in D /\ Nested(d) # {} /\ Status(d) = "used" =>
            Status(d)' = "used"
  <2> HIDE DEF D
  <2>1. QED
    BY <1>1, <1>3, DestroyStatus
<1>5. Readers(d)' = Readers(d)
  BY <1>1, <1>2, ReadersOfOne
<1>6. CASE d \in D
  <2>1. Holders(d) = {i} /\ data[i] = d
    BY <1>6 DEF LastData, Unique
  <2>2. Readers(d) = {} /\ Status(d) = "used"
    BY <1>1, <2>1, StatusFacts DEF Readers, Holders
  <2>3. QED
    BY <1>4, <1>5, <1>6, <2>2, Discarded, Emptied
<1>7. CASE d \notin D
  BY <1>4, <1>5, <1>7, Stays
<1>8. QED
  BY <1>6, <1>7

LEMMA FreeShares ==
    ASSUME Accounts, Accounts', NEW p \in Process, NEW e \in Data,
           Free(p, e), NEW d \in Data
    PROVE  Shared!Step(d)
<1>1. /\ memory' = memory \ {e} /\ destroyer[e] # Null
      /\ UNCHANGED <<bytes, data, phase, idle>>
  BY Distinct DEF Free
<1>2. Readers(d)' = Readers(d)
  BY <1>1 DEF Readers
<1>3. CASE d = e
  <2>1. \A u \in Item : data[u] # d
    BY <1>1, <1>3, Distinct DEF Accounts, IndInv, NoDangling
  <2>2. Readers(d) = {} /\ Holders(d) = {}
    BY <2>1 DEF Readers, Holders
  <2>3. ~bytes[d]
    BY <2>2 DEF Accounts, Counted
  <2>4. d \notin memory' /\ \A q \in Pool : d \notin idle'[q]
    BY <1>1, <1>3 DEF Accounts, IndInv, IdleIsClean
  <2>5. Status(d)' = "free"
    BY <2>4 DEF Status
  <2>6. QED
    BY <1>1, <1>2, <2>2, <2>3, <2>5, Discarded
<1>4. CASE d # e
  <2>1. Status(d)' = Status(d)
    BY <1>1, <1>4 DEF Status
  <2>2. QED
    BY <1>1, <1>2, <2>1, Stays
<1>5. QED
  BY <1>3, <1>4

\* The steps that SharedData does not see.
LEMMA UnseenShares ==
    ASSUME UNCHANGED <<memory, bytes, data, idle>>,
           \A u \in Item : phase'[u] = "live" <=> phase[u] = "live",
           NEW d \in Data
    PROVE  Shared!Step(d)
<1>1. Readers(d)' = Readers(d)
  BY DEF Readers
<1>2. QED
  BY <1>1, SameStatus, Stays

LEMMA TakeMissShares ==
    ASSUME Accounts, NEW p \in Process, NEW i \in Item, NEW q \in Pool,
           NEW k \in Kinds, TakeMiss(p, i, q, k) \/ TakeFails(p, i),
           NEW d \in Data
    PROVE  Shared!Step(d)
<1>1. data[i] = Null
  BY DEF TakeMiss, TakeFails, Accounts, IndInv, ItemsHold
<1>2. UNCHANGED <<memory, bytes, data, idle>>
  BY <1>1 DEF TakeMiss, TakeFails, Create, Accounts, IndInv, TypeOK
<1>3. \A u \in Item : phase'[u] = "live" <=> phase[u] = "live"
  BY DEF TakeMiss, TakeFails, Create, Accounts, IndInv, TypeOK
<1>4. QED
  BY <1>2, <1>3, UnseenShares

-----------------------------------------------------------------------------
LEMMA InitShares == Init => Shared!Init
<1>1. SUFFICES ASSUME Init, NEW d \in Data
               PROVE  Status(d) = "free" /\ Readers(d) = {}
  BY DEF Init, Shared!Init
<1>2. Readers(d) = {}
  BY <1>1, Distinct DEF Init, Readers
<1>3. d \notin memory /\ \A q \in Pool : d \notin idle[q]
  BY <1>1 DEF Init
<1>4. Status(d) = "free"
  BY <1>3 DEF Status
<1>5. QED
  BY <1>2, <1>4

LEMMA NextShares ==
    ASSUME Accounts, Accounts', [Next]_vars, NEW d \in Data
    PROVE  Shared!Step(d)
<1>1. CASE UNCHANGED vars
  BY <1>1, UnseenShares DEF vars
<1>2. ASSUME NEW p \in Process, Take(p)
      PROVE  Shared!Step(d)
  <2>1. PICK i \in Item :
          \/ \E q \in Pool, k \in {"Blob", "Buffer"} :
                TakePop(p, i, q, k) \/ TakeMiss(p, i, q, k)
          \/ TakeNew(p, i)
          \/ TakeFails(p, i)
    BY <1>2 DEF Take
  <2>2. {"Blob", "Buffer"} \subseteq Kinds
    BY DEF Kinds, BlobKinds, BufferKinds
  <2>3. CASE TakeFails(p, i)
    <3>1. queue[i] \in Pool /\ kind[i] \in Kinds
      BY <2>3 DEF TakeFails, Accounts, IndInv, ItemsHold, TypeOK
    <3>2. QED
      BY <2>3, <3>1, TakeMissShares
  <2>4. QED
    BY <2>1, <2>2, <2>3, TakePopShares, TakeMissShares, TakeNewShares
<1>3. ASSUME NEW p \in Process, NEW i \in Item, NEW j \in Item,
             \/ \E r \in Process, k \in Kinds : Copy(p, r, i, j, k)
             \/ \E b \in Item : PushBack(p, i, j, b)
      PROVE  Shared!Step(d)
  BY <1>3, CreateShares DEF Copy, PushBack, Usable
<1>4. ASSUME NEW p \in Process, Use(p)
      PROVE  Shared!Step(d)
  BY <1>3, <1>4, WriteShares, ResetShares, AssignShares DEF Use
<1>5. ASSUME NEW p \in Process, NEW i \in Item, Begin(p, i) \/ Finish(p, i)
      PROVE  Shared!Step(d)
  BY <1>5, BeginShares, ClearShares, RecycleShares, ReleaseQueueShares,
     ReleaseDataShares DEF Finish
<1>6. ASSUME NEW p \in Process, Crash(p)
      PROVE  Shared!Step(d)
  BY <1>6, UnseenShares DEF Crash
<1>7. QED
  BY <1>1, <1>2, <1>4, <1>5, <1>6, FreeShares, CloseShares DEF Next

\* Whatever the items, the queues and the processes do, those who share a
\* Data see what SharedData promises them (BufferPool.h:67-76).
THEOREM PoolSharesData == Spec => SharesData
<1>1. Init => Shared!Init
  BY InitShares
<1>2. Accounts /\ Accounts' /\ [Next]_vars => [Shared!Next]_(Shared!vars)
  BY NextShares DEF Shared!Next
<1>3. QED
  BY <1>1, <1>2, AccountsAlways, PTL DEF Spec, SharesData, Shared!Spec

-----------------------------------------------------------------------------
\* What SharedData says of the bytes that somebody reads.
LEMMA ReadBytesStay ==
    ASSUME Accounts, NEW d \in Data, Shared!Step(d), Readers(d) # {},
           Readers(d)' # {}, bytes[d]
    PROVE  bytes'[d]
<1>1. Status(d) = "used"
  BY StatusFacts
<1>2. QED
  BY <1>1, SharedVars DEF Shared!Step, Shared!Take, Shared!Share, Shared!Fill,
     Shared!Leave, Shared!Discard, Shared!Empty, Shared!Recycle, Shared!Stay

\* No process empties a m_buffer that has a reader: neither ~Data nor the
\* clear() of ~ItemBase runs then.
LEMMA ReadIsNotEmptied ==
    ASSUME Accounts, NEW d \in Data, NEW r \in Readers(d), NEW p \in Process
    PROVE  ~Empties(p, d)
<1>1. data[r] = d /\ phase[r] = "live" /\ d # Null /\ p # Null
  BY Distinct DEF Readers
<1>2. destroyer[d] # p
  BY <1>1 DEF Readers, Accounts, IndInv, NoDangling
<1>3. ASSUME NEW j \in Item, data[j] = d, phase[j] = "clearing"
      PROVE  FALSE
  <2>1. Holders(d) = {j}
    BY <1>3 DEF Accounts, IndInv, RecycledIsExclusive, Unique
  <2>2. QED
    BY <1>1, <1>3, <2>1 DEF Readers, Holders
<1>4. QED
  BY <1>2, <1>3 DEF Empties

LEMMA ReadElementsStay ==
    ASSUME Accounts, [Next]_vars, NEW d \in Data, Readers(d) # {},
           NEW i \in Nested(d), phase[i] = "live"
    PROVE  place'[i] = d /\ phase'[i] = "live"
<1>1. i \in Item /\ place[i] = d /\ TypeOK /\ d \notin Process
  BY Distinct DEF Nested, Accounts, IndInv
<1>2. CASE UNCHANGED vars
  BY <1>1, <1>2 DEF vars
<1>3. ASSUME NEW p \in Process, Take(p)
      PROVE  place'[i] = d /\ phase'[i] = "live"
  BY <1>1, <1>3 DEF Take, TakePop, TakeMiss, TakeNew, TakeFails, Create, TypeOK
<1>4. ASSUME NEW p \in Process, Use(p)
      PROVE  place'[i] = d /\ phase'[i] = "live"
  <2>1. PICK u \in Item, v \in Item :
          \/ Write(p, u) \/ Reset(p, u) \/ Assign(p, u, v)
          \/ \E r \in Process, k \in Kinds : Copy(p, r, u, v, k)
          \/ \E b \in Item : PushBack(p, u, v, b)
    BY <1>4 DEF Use
  <2>2. CASE Write(p, u) \/ Reset(p, u) \/ Assign(p, u, v)
    BY <1>1, <2>2 DEF Write, Reset, Assign
  <2>3. ASSUME NEW r \in Process, NEW k \in Kinds, Copy(p, r, u, v, k)
        PROVE  place'[i] = d /\ phase'[i] = "live"
    BY <1>1, <2>3 DEF Copy, Create, TypeOK
  <2>4. ASSUME NEW b \in Item, PushBack(p, u, v, b)
        PROVE  place'[i] = d /\ phase'[i] = "live"
    BY <1>1, <2>4 DEF PushBack, Create, TypeOK
  <2>5. QED
    BY <2>1, <2>2, <2>3, <2>4
<1>5. ASSUME NEW p \in Process, NEW u \in Item, Begin(p, u)
      PROVE  place'[i] = d /\ phase'[i] = "live"
  <2>1. ~RunsIn(p, i)
    BY <1>1, ReadIsNotEmptied DEF RunsIn
  <2>2. u # i
    BY <1>5, <2>1 DEF Begin
  <2>3. QED
    BY <1>1, <1>5, <2>2 DEF Begin, TypeOK
<1>6. ASSUME NEW p \in Process, NEW u \in Item, Finish(p, u)
      PROVE  place'[i] = d /\ phase'[i] = "live"
  BY <1>1, <1>5, <1>6 DEF Finish, Clear, Recycle, ReleaseQueue, ReleaseData,
     Create, TypeOK
<1>7. QED
  BY <1>1, <1>2, <1>3, <1>4, <1>5, <1>6 DEF Next, Free, Close, Crash

\* The bytes of a Data and the elements of its m_buffer stay while it is read,
\* in whichever process (BufferPool.h:69-74).
THEOREM ReadContentsStay == Spec => ReadersKeepContents
<1>1. Accounts /\ Accounts' /\ [Next]_vars => KeepsContents
  BY NextShares, ReadBytesStay, ReadElementsStay DEF KeepsContents
<1>2. Accounts /\ Accounts' /\ [Next]_vars => [KeepsContents]_vars
  BY <1>1
<1>3. QED
  BY <1>2, AccountsAlways, PTL DEF Spec, ReadersKeepContents
=============================================================================
