-------------------------- MODULE PrismaStepsProofs --------------------------
(***************************************************************************)
(* The per-run queue of PrismaPipelineStore numbers steps as StepLog       *)
(* promises, for every set of runs and calls and whatever the database     *)
(* does.                                                                   *)
(***************************************************************************)
EXTENDS PrismaSteps, FiniteSetTheorems, WellFoundedInduction, TLAPS

OffQueue == {"reading", "creating", "committed", "settled"}

(* A call that was made has a place in its run's order.                     *)
LEMMA HasPlace ==
    ASSUME AskedOnce, NEW c \in Calls, pc[c] # "idle"
    PROVE  \E i \in DOMAIN asked[RunOf[c]] : asked[RunOf[c]][i] = c
  BY DEF AskedOnce

(* The calls in a run's order are calls of that run, and were made.         *)
LEMMA PlacesAreTaken ==
    ASSUME TypeOK, AskedOnce, NEW r \in Runs, NEW i \in DOMAIN asked[r]
    PROVE  /\ asked[r][i] \in Calls
           /\ RunOf[asked[r][i]] = r
           /\ pc[asked[r][i]] # "idle"
  <1>1. asked[r] \in Seq(Calls)
    BY DEF TypeOK
  <1>2. asked[r][i] \in Calls
    BY <1>1
  <1>3. RunOf[asked[r][i]] = r
    BY DEF AskedOnce
  <1> QED
    BY <1>2, <1>3 DEF AskedOnce

(* At most one call of a run is off the queue and not yet released.         *)
LEMMA OneAtATime ==
    ASSUME TypeOK, AskedOnce, InTurn,
           NEW c \in Calls, NEW d \in Calls, RunOf[c] = RunOf[d],
           pc[c] \in OffQueue, pc[d] \in OffQueue
    PROVE  c = d
  <1> DEFINE r == RunOf[c]
  <1>0. r \in Runs
    BY QueueAssumption
  <1>1. PICK i \in DOMAIN asked[r] : asked[r][i] = c
    BY HasPlace DEF OffQueue
  <1>2. PICK j \in DOMAIN asked[r] : asked[r][j] = d
    BY HasPlace DEF OffQueue
  <1>3. ~(i < j) /\ ~(j < i)
    BY <1>0, <1>1, <1>2 DEF InTurn, OffQueue
  <1>4. i \in Nat /\ j \in Nat
    BY <1>0, <1>1, <1>2 DEF TypeOK
  <1> QED
    BY <1>1, <1>2, <1>3, <1>4

(* The rows of a run are finitely many.                                     *)
LEMMA RowsAreFinite ==
    ASSUME NEW r \in Runs
    PROVE  IsFiniteSet(Rows(r)) /\ Cardinality(Rows(r)) \in Nat
  <1>1. Rows(r) \subseteq Calls
    BY DEF Rows
  <1> QED
    BY <1>1, QueueAssumption, FS_Subset, FS_CardinalityType

(* findFirst by descending sequenceIndex, plus one, is the number of rows.  *)
LEMMA NextIsCount ==
    ASSUME Numbered, NEW r \in Runs
    PROVE  LastIndex(r) + 1 = Cardinality(Rows(r))
  <1> DEFINE n == Cardinality(Rows(r))
             used == {index[c] : c \in Rows(r)}
  <1>1. n \in Nat
    BY RowsAreFinite
  <1>2. used = 0..(n - 1)
    BY DEF Numbered
  <1>3. CASE n = 0
    <2>1. used = {}
      BY <1>2, <1>3
    <2> QED
      BY <2>1, <1>3 DEF LastIndex
  <1>4. CASE n # 0
    <2>1. n - 1 \in used /\ \A j \in used : j <= n - 1
      BY <1>1, <1>2, <1>4
    <2>2. ASSUME NEW i \in used, \A j \in used : j <= i
          PROVE  i = n - 1
      <3>1. n - 1 <= i
        BY <2>1, <2>2
      <3>2. i \in 0..(n - 1)
        BY <1>2, <2>2
      <3> QED
        BY <1>1, <3>1, <3>2
    <2>3. LastIndex(r) = CHOOSE i \in used : \A j \in used : j <= i
      BY <2>1 DEF LastIndex
    <2>4. LastIndex(r) = n - 1
      BY <2>1, <2>2, <2>3
    <2> QED
      BY <1>1, <2>4
  <1> QED
    BY <1>3, <1>4

-----------------------------------------------------------------------------
(* A step of one call that is off the queue, or leaves it in its turn.      *)
LEMMA MoveKeepsOrder ==
    ASSUME QueueInv, NEW c \in Calls, NEW s \in CallState,
           pc[c] \notin {"idle", "released"}, s \notin {"idle", "queued"},
           pc' = [pc EXCEPT ![c] = s],
           pc[c] = "queued" =>
               \A i, j \in DOMAIN asked[RunOf[c]] :
                   asked[RunOf[c]][i] = c /\ j < i => pc[asked[RunOf[c]][j]] = "released",
           asked' = asked, previous' = previous
    PROVE  AskedOnce' /\ InTurn' /\ Chained'
  <1> USE DEF QueueInv
  <1>1. \A d \in Calls : /\ pc'[d] = "idle" <=> pc[d] = "idle"
                         /\ pc[d] = "released" => pc'[d] = "released"
                         /\ d # c => pc'[d] = pc[d]
    BY DEF TypeOK
  <1>2. AskedOnce'
    BY <1>1 DEF AskedOnce
  <1>3. InTurn'
    <2> SUFFICES ASSUME NEW r \in Runs, NEW i \in DOMAIN asked[r], NEW j \in DOMAIN asked[r],
                        j < i, pc'[asked[r][i]] # "queued"
                 PROVE  pc'[asked[r][j]] = "released"
      BY DEF InTurn
    <2>1. /\ asked[r][i] \in Calls /\ asked[r][j] \in Calls
          /\ RunOf[asked[r][i]] = r
      BY PlacesAreTaken
    <2>2. CASE pc[asked[r][i]] # "queued"
      BY <1>1, <2>1, <2>2 DEF InTurn
    <2>3. CASE pc[asked[r][i]] = "queued"
      BY <1>1, <2>1, <2>3
    <2> QED
      BY <2>2, <2>3
  <1>4. Chained'
    <2> SUFFICES ASSUME NEW r \in Runs, NEW i \in DOMAIN asked[r],
                        previous[asked[r][i]] = NoCall,
                        NEW j \in DOMAIN asked[r], j < i
                 PROVE  pc'[asked[r][j]] = "released"
      BY DEF Chained
    <2>1. asked[r][j] \in Calls
      BY PlacesAreTaken
    <2> QED
      BY <1>1, <2>1 DEF Chained
  <1> QED
    BY <1>2, <1>3, <1>4

(* A step that neither makes a row nor computes an index keeps the numbers. *)
LEMMA NumbersKept ==
    ASSUME Numbered, index' = index, nextIndex' = nextIndex,
           \A c \in Calls : pc'[c] = "creating" => pc[c] = "creating"
    PROVE  Numbered'
  <1>1. \A r : Rows(r)' = Rows(r)
    BY DEF Rows
  <1> QED
    BY <1>1 DEF Numbered

(* Until it is released the entry of its run stays.                         *)
LEMMA EntryKept ==
    ASSUME QueueInv, NEW c \in Calls, NEW s \in CallState,
           pc[c] # "released", s # "released",
           pc' = [pc EXCEPT ![c] = s], asked' = asked, startQueues' = startQueues
    PROVE  TailInEntry'
  <1>1. \A d \in Calls : pc'[d] = "released" <=> pc[d] = "released"
    BY DEF QueueInv, TypeOK
  <1> SUFFICES ASSUME NEW r \in Runs
               PROVE  IF startQueues[r] = NoCall
                      THEN \A i \in DOMAIN asked[r] : pc'[asked[r][i]] = "released"
                      ELSE /\ asked[r] # <<>>
                           /\ startQueues[r] = asked[r][Len(asked[r])]
                           /\ pc'[startQueues[r]] # "released"
    BY DEF TailInEntry
  <1>2. \A i \in DOMAIN asked[r] : asked[r][i] \in Calls
    BY PlacesAreTaken DEF QueueInv
  <1>3. startQueues[r] \in Calls \cup {NoCall}
    BY DEF QueueInv, TypeOK
  <1> QED
    BY <1>1, <1>2, <1>3 DEF QueueInv, TailInEntry

-----------------------------------------------------------------------------
(* The invariant holds initially and every step preserves it.               *)

LEMMA InitInv ==
    ASSUME Init
    PROVE  QueueInv
  <1>1. TypeOK /\ AskedOnce /\ InTurn /\ TailInEntry /\ Chained /\ Consistent
    BY QueueAssumption
    DEF Init, TypeOK, CallState, AskedOnce, InTurn, TailInEntry, Chained, Consistent
  <1>2. \A r \in Runs : Rows(r) = {}
    BY DEF Init, Rows
  <1>3. Numbered
    <2>1. Cardinality({}) = 0
      BY FS_EmptySet
    <2>2. 0..(0 - 1) = {}
      OBVIOUS
    <2>3. ASSUME NEW r \in Runs
          PROVE  /\ {index[c] : c \in Rows(r)} = 0..(Cardinality(Rows(r)) - 1)
                 /\ \A c, d \in Rows(r) : index[c] = index[d] => c = d
      <3>1. Rows(r) = {}
        BY <1>2
      <3>2. {index[c] : c \in {}} = {}
        OBVIOUS
      <3> QED
        BY <2>1, <2>2, <3>1, <3>2
    <2>4. \A c \in Calls : pc[c] # "creating"
      BY DEF Init
    <2> QED
      BY <2>3, <2>4 DEF Numbered
  <1> QED
    BY <1>1, <1>3 DEF QueueInv

LEMMA EnqueueInv ==
    ASSUME QueueInv, NEW c \in Calls, Enqueue(c)
    PROVE  QueueInv'
  <1> USE DEF QueueInv
  <1> DEFINE r == RunOf[c]
  <1>0. r \in Runs /\ asked[r] \in Seq(Calls) /\ c # NoCall
    BY QueueAssumption DEF TypeOK
  <1>1. TypeOK'
    BY <1>0 DEF Enqueue, TypeOK, CallState
  <1>2. /\ \A d \in Calls : d # c => pc'[d] = pc[d] /\ previous'[d] = previous[d]
        /\ pc'[c] = "queued"
        /\ previous'[c] = startQueues[r]
    BY DEF Enqueue, TypeOK
  <1>3. /\ \A q \in Runs : q # r => /\ asked'[q] = asked[q]
                                    /\ startQueues'[q] = startQueues[q]
        /\ asked'[r] = Append(asked[r], c)
        /\ startQueues'[r] = c
    BY <1>0 DEF Enqueue, TypeOK
  <1>4. /\ DOMAIN asked'[r] = 1..(Len(asked[r]) + 1)
        /\ DOMAIN asked[r] = 1..Len(asked[r])
        /\ Len(asked[r]) \in Nat
        /\ \A i \in DOMAIN asked[r] : asked'[r][i] = asked[r][i]
        /\ asked'[r][Len(asked[r]) + 1] = c
        /\ Len(asked'[r]) = Len(asked[r]) + 1
    BY <1>0, <1>3
  (* c was in no order, so the calls in one keep their state.               *)
  <1>5. \A q \in Runs : \A i \in DOMAIN asked[q] :
           /\ asked[q][i] \in Calls \ {c}
           /\ RunOf[asked[q][i]] = q
           /\ pc'[asked[q][i]] = pc[asked[q][i]]
           /\ previous'[asked[q][i]] = previous[asked[q][i]]
    BY <1>2, PlacesAreTaken DEF Enqueue
  <1>6. AskedOnce'
    <2>1. ASSUME NEW q \in Runs, NEW i \in DOMAIN asked'[q], NEW j \in DOMAIN asked'[q]
          PROVE  /\ RunOf[asked'[q][i]] = q
                 /\ asked'[q][i] = asked'[q][j] => i = j
      <3>1. CASE q # r
        BY <1>3, <3>1, <2>1 DEF AskedOnce
      <3>2. CASE q = r
        <4>1. i \in DOMAIN asked'[r] /\ j \in DOMAIN asked'[r]
          BY <3>2, <2>1
        <4>2. \A k \in DOMAIN asked'[r] :
                 \/ k \in DOMAIN asked[r] /\ asked'[r][k] = asked[r][k]
                 \/ k = Len(asked[r]) + 1 /\ asked'[r][k] = c
          BY <1>4
        <4>3. RunOf[asked'[r][i]] = r
          BY <1>0, <1>5, <4>1, <4>2
        <4>4. asked'[r][i] = asked'[r][j] => i = j
          BY <1>0, <1>5, <4>1, <4>2 DEF AskedOnce
        <4> QED
          BY <3>2, <4>3, <4>4
      <3> QED
        BY <3>1, <3>2
    <2>2. ASSUME NEW d \in Calls
          PROVE  pc'[d] = "idle" <=> \A i \in DOMAIN asked'[RunOf[d]] : asked'[RunOf[d]][i] # d
      <3>0. RunOf[d] \in Runs
        BY QueueAssumption
      <3>1. CASE d = c
        BY <1>2, <1>4, <3>1
      <3>2. CASE d # c /\ RunOf[d] # r
        BY <1>2, <1>3, <3>0, <3>2 DEF AskedOnce
      <3>3. CASE d # c /\ RunOf[d] = r
        <4>1. (\A i \in DOMAIN asked'[r] : asked'[r][i] # d)
              <=> \A i \in DOMAIN asked[r] : asked[r][i] # d
          BY <1>4, <3>3
        <4>2. pc[d] = "idle" <=> \A i \in DOMAIN asked[r] : asked[r][i] # d
          BY <3>3 DEF AskedOnce
        <4> QED
          BY <1>2, <3>3, <4>1, <4>2
      <3> QED
        BY <3>1, <3>2, <3>3
    <2> QED
      BY <2>1, <2>2 DEF AskedOnce
  <1>7. InTurn'
    <2> SUFFICES ASSUME NEW q \in Runs, NEW i \in DOMAIN asked'[q], NEW j \in DOMAIN asked'[q],
                        j < i, pc'[asked'[q][i]] # "queued"
                 PROVE  pc'[asked'[q][j]] = "released"
      BY DEF InTurn
    <2>1. CASE q # r
      BY <1>3, <1>5, <2>1 DEF InTurn
    <2>2. CASE q = r
      <3>1. i \in DOMAIN asked[r] /\ j \in DOMAIN asked[r]
        BY <1>2, <1>4, <2>2
      <3> QED
        BY <1>0, <1>4, <1>5, <2>2, <3>1 DEF InTurn
    <2> QED
      BY <2>1, <2>2
  <1>8. TailInEntry'
    <2> SUFFICES ASSUME NEW q \in Runs
                 PROVE  IF startQueues'[q] = NoCall
                        THEN \A i \in DOMAIN asked'[q] : pc'[asked'[q][i]] = "released"
                        ELSE /\ asked'[q] # <<>>
                             /\ startQueues'[q] = asked'[q][Len(asked'[q])]
                             /\ pc'[startQueues'[q]] # "released"
      BY DEF TailInEntry
    <2>1. CASE q = r
      BY <1>0, <1>2, <1>3, <1>4, <2>1
    <2>2. CASE q # r
      <3>1. asked[q] \in Seq(Calls)
        BY DEF TypeOK
      <3>2. asked[q] # <<>> => Len(asked[q]) \in DOMAIN asked[q]
        BY <3>1
      <3> QED
        BY <1>3, <1>5, <2>2, <3>2 DEF TailInEntry
    <2> QED
      BY <2>1, <2>2
  <1>9. Chained'
    <2> SUFFICES ASSUME NEW q \in Runs, NEW i \in DOMAIN asked'[q]
                 PROVE  IF previous'[asked'[q][i]] = NoCall
                        THEN \A j \in DOMAIN asked'[q] : j < i => pc'[asked'[q][j]] = "released"
                        ELSE i > 1 /\ previous'[asked'[q][i]] = asked'[q][i - 1]
      BY DEF Chained
    <2>1. CASE q # r
      BY <1>3, <1>5, <2>1 DEF Chained
    <2>2. CASE q = r /\ i \in DOMAIN asked[r]
      <3>1. \A j \in DOMAIN asked'[r] : j < i => j \in DOMAIN asked[r]
        BY <1>4, <2>2
      <3>2. i > 1 => i - 1 \in DOMAIN asked[r]
        BY <1>4, <2>2
      <3>3. /\ asked'[r][i] = asked[r][i]
            /\ previous'[asked[r][i]] = previous[asked[r][i]]
            /\ \A j \in DOMAIN asked[r] : /\ asked'[r][j] = asked[r][j]
                                         /\ pc'[asked[r][j]] = pc[asked[r][j]]
        BY <1>0, <1>4, <1>5, <2>2
      <3>4. IF previous[asked[r][i]] = NoCall
            THEN \A j \in DOMAIN asked[r] : j < i => pc[asked[r][j]] = "released"
            ELSE i > 1 /\ previous[asked[r][i]] = asked[r][i - 1]
        BY <1>0, <2>2 DEF Chained
      <3>5. CASE previous[asked[r][i]] = NoCall
        BY <2>2, <3>1, <3>3, <3>4, <3>5
      <3>6. CASE previous[asked[r][i]] # NoCall
        BY <2>2, <3>2, <3>3, <3>4, <3>6
      <3> QED
        BY <3>5, <3>6
    <2>3. CASE q = r /\ i = Len(asked[r]) + 1
      <3>1. asked'[r][i] = c
        BY <1>4, <2>3
      <3>2. CASE startQueues[r] = NoCall
        <4>1. \A j \in DOMAIN asked[r] : pc'[asked'[r][j]] = "released"
          BY <1>0, <1>4, <1>5, <3>2 DEF TailInEntry
        <4>2. \A j \in DOMAIN asked'[r] : j < i => j \in DOMAIN asked[r]
          BY <1>4, <2>3
        <4> QED
          BY <1>2, <2>3, <3>1, <3>2, <4>1, <4>2
      <3>3. CASE startQueues[r] # NoCall
        <4>1. asked[r] # <<>> /\ startQueues[r] = asked[r][Len(asked[r])]
          BY <1>0, <3>3 DEF TailInEntry
        <4>2. Len(asked[r]) \in DOMAIN asked[r]
          BY <1>0, <4>1
        <4>3. i > 1 /\ i - 1 = Len(asked[r])
          BY <1>4, <2>3, <4>2
        <4>4. asked'[r][Len(asked[r])] = asked[r][Len(asked[r])]
          BY <1>4, <4>2
        <4> QED
          BY <1>2, <2>3, <3>1, <3>3, <4>1, <4>3, <4>4
      <3> QED
        BY <3>2, <3>3
    <2> QED
      BY <1>4, <2>1, <2>2, <2>3
  <1>10. Numbered'
    BY <1>2, NumbersKept DEF Enqueue
  <1>11. Consistent'
    BY <1>2 DEF Consistent, Enqueue
  <1> QED
    BY <1>1, <1>6, <1>7, <1>8, <1>9, <1>10, <1>11

LEMMA BeginInv ==
    ASSUME QueueInv, NEW c \in Calls, Begin(c)
    PROVE  QueueInv'
  <1> USE DEF QueueInv
  <1> DEFINE r == RunOf[c]
  <1>0. r \in Runs
    BY QueueAssumption
  <1>1. TypeOK'
    BY DEF Begin, TypeOK, CallState
  (* The call before c is released, so all earlier ones are.                *)
  <1>2. ASSUME NEW i \in DOMAIN asked[r], NEW j \in DOMAIN asked[r], asked[r][i] = c, j < i
        PROVE  pc[asked[r][j]] = "released"
    <2>1. asked[r] \in Seq(Calls)
      BY <1>0 DEF TypeOK
    <2>2. CASE previous[c] = NoCall
      BY <1>0, <1>2, <2>2 DEF Chained
    <2>3. CASE previous[c] # NoCall
      <3>1. i > 1 /\ previous[c] = asked[r][i - 1]
        BY <1>0, <1>2, <2>3 DEF Chained
      <3>2. pc[asked[r][i - 1]] = "released"
        BY <2>3, <3>1 DEF Begin
      <3>3. i - 1 \in DOMAIN asked[r] /\ (j = i - 1 \/ j < i - 1)
        BY <1>2, <2>1, <3>1
      <3> QED
        BY <1>0, <3>2, <3>3 DEF InTurn
    <2> QED
      BY <2>2, <2>3
  <1>3. AskedOnce' /\ InTurn' /\ Chained'
    BY <1>2, MoveKeepsOrder DEF Begin, CallState
  <1>4. TailInEntry'
    BY EntryKept DEF Begin, CallState
  <1>5. Numbered'
    BY NumbersKept DEF Begin, TypeOK
  <1>6. Consistent'
    BY DEF Begin, Consistent, TypeOK
  <1> QED
    BY <1>1, <1>3, <1>4, <1>5, <1>6

LEMMA ReadLastInv ==
    ASSUME QueueInv, NEW c \in Calls, ReadLast(c)
    PROVE  QueueInv'
  <1> USE DEF QueueInv
  <1>0. RunOf[c] \in Runs
    BY QueueAssumption
  <1>1. LastIndex(RunOf[c]) + 1 = Cardinality(Rows(RunOf[c]))
    BY <1>0, NextIsCount
  <1>2. TypeOK'
    BY <1>0, <1>1, RowsAreFinite DEF ReadLast, TypeOK, CallState
  <1>3. AskedOnce' /\ InTurn' /\ Chained'
    BY MoveKeepsOrder DEF ReadLast, CallState
  <1>4. TailInEntry'
    BY EntryKept DEF ReadLast, CallState
  <1>5. Numbered'
    <2>1. \A r : Rows(r)' = Rows(r)
      BY DEF Rows, ReadLast
    <2>2. ASSUME NEW d \in Calls, pc'[d] = "creating"
          PROVE  nextIndex'[d] = Cardinality(Rows(RunOf[d]))
      BY <1>1, <2>2 DEF ReadLast, Numbered, TypeOK
    <2>3. index' = index
      BY DEF ReadLast
    <2> QED
      BY <2>1, <2>2, <2>3 DEF Numbered
  <1>6. Consistent'
    BY DEF ReadLast, Consistent, TypeOK
  <1> QED
    BY <1>2, <1>3, <1>4, <1>5, <1>6

(* A commit adds one row to its run, with the next number.                  *)
LEMMA CommitAddsRow ==
    ASSUME QueueInv, NEW c \in Calls, Commit(c)
    PROVE  /\ index[c] = Unrecorded
           /\ index' = [index EXCEPT ![c] = Cardinality(Rows(RunOf[c]))]
           /\ Rows(RunOf[c])' = Rows(RunOf[c]) \cup {c}
           /\ Cardinality(Rows(RunOf[c]))' = Cardinality(Rows(RunOf[c])) + 1
           /\ \A r \in Runs : r # RunOf[c] => Rows(r)' = Rows(r)
  <1> USE DEF QueueInv
  <1> DEFINE r == RunOf[c]
  <1>0. r \in Runs /\ IsFiniteSet(Rows(r)) /\ Cardinality(Rows(r)) \in Nat
    BY QueueAssumption, RowsAreFinite
  <1>1. index[c] = Unrecorded
    BY DEF Commit, Consistent
  <1>2. index' = [index EXCEPT ![c] = Cardinality(Rows(r))]
    BY DEF Commit, Numbered
  <1>3. Rows(r)' = Rows(r) \cup {c}
    <2>1. \A d \in Calls : index'[d] = IF d = c THEN Cardinality(Rows(r)) ELSE index[d]
      BY <1>2 DEF TypeOK
    <2>2. Cardinality(Rows(r)) # Unrecorded
      BY <1>0 DEF Unrecorded
    <2> QED
      BY <2>1, <2>2 DEF Rows
  <1>4. c \notin Rows(r)
    BY <1>1 DEF Rows
  <1>5. Cardinality(Rows(r))' = Cardinality(Rows(r)) + 1
    <2>1. Cardinality(Rows(r) \cup {c}) = Cardinality(Rows(r)) + 1
      BY <1>0, <1>4, FS_AddElement
    <2> QED
      BY <1>3, <2>1
  <1>6. \A q \in Runs : q # r => Rows(q)' = Rows(q)
    BY <1>2 DEF Rows, TypeOK
  <1> QED
    BY <1>1, <1>2, <1>3, <1>5, <1>6

LEMMA CommitInv ==
    ASSUME QueueInv, NEW c \in Calls, Commit(c)
    PROVE  QueueInv'
  <1> USE DEF QueueInv
  <1> DEFINE r == RunOf[c]
             n == Cardinality(Rows(r))
  <1>0. r \in Runs /\ IsFiniteSet(Rows(r)) /\ n \in Nat
    BY QueueAssumption, RowsAreFinite
  <1>1. TypeOK'
    BY <1>0, CommitAddsRow DEF Commit, TypeOK, CallState
  <1>2. AskedOnce' /\ InTurn' /\ Chained'
    BY MoveKeepsOrder DEF Commit, CallState
  <1>3. TailInEntry'
    BY EntryKept DEF Commit, CallState
  <1>4. Numbered'
    <2>1. ASSUME NEW q \in Runs
          PROVE  /\ {index'[d] : d \in Rows(q)'} = 0..(Cardinality(Rows(q)') - 1)
                 /\ \A d, e \in Rows(q)' : index'[d] = index'[e] => d = e
      <3>1. CASE q # r
        <4>1. Rows(q)' = Rows(q)
          BY <3>1, CommitAddsRow
        <4>2. \A d \in Rows(q) : index'[d] = index[d]
          BY <3>1, CommitAddsRow DEF Rows, TypeOK
        <4>3. {index'[d] : d \in Rows(q)} = {index[d] : d \in Rows(q)}
          BY <4>2
        <4> QED
          BY <4>1, <4>2, <4>3 DEF Numbered
      <3>2. CASE q = r
        <4>1. Rows(r)' = Rows(r) \cup {c} /\ Cardinality(Rows(r)') = n + 1
          BY CommitAddsRow
        <4>2. c \notin Rows(r)
          BY CommitAddsRow DEF Rows
        <4>3. index'[c] = n /\ \A d \in Rows(r) : index'[d] = index[d]
          BY <4>2, CommitAddsRow DEF Rows, TypeOK
        <4>4. {index[d] : d \in Rows(r)} = 0..(n - 1)
          BY <1>0 DEF Numbered
        <4>5. \A d \in Rows(r) : index[d] \in 0..(n - 1)
          BY <4>4
        <4>6. {index'[d] : d \in Rows(r) \cup {c}} = {index[d] : d \in Rows(r)} \cup {n}
          BY <4>3
        <4>7. 0..(n - 1) \cup {n} = 0..((n + 1) - 1)
          BY <1>0
        <4>8. {index'[d] : d \in Rows(r)'} = 0..(Cardinality(Rows(r)') - 1)
          BY <4>1, <4>4, <4>6, <4>7
        <4>9. \A d, e \in Rows(r)' : index'[d] = index'[e] => d = e
          BY <1>0, <4>1, <4>3, <4>5 DEF Numbered
        <4> QED
          BY <3>2, <4>8, <4>9
      <3> QED
        BY <3>1, <3>2
    <2>2. ASSUME NEW d \in Calls, pc'[d] = "creating"
          PROVE  nextIndex'[d] = Cardinality(Rows(RunOf[d])')
      <3>1. d # c /\ pc[d] = "creating" /\ nextIndex'[d] = nextIndex[d]
        BY <2>2 DEF Commit, TypeOK
      <3>2. RunOf[d] # r
        BY <3>1, OneAtATime DEF OffQueue, Commit
      <3>3. Rows(RunOf[d])' = Rows(RunOf[d])
        BY <3>2, QueueAssumption, CommitAddsRow
      <3> QED
        BY <3>1, <3>3 DEF Numbered
    <2> QED
      BY <2>1, <2>2 DEF Numbered
  <1>5. Consistent'
    <2>1. n # Unrecorded
      BY <1>0 DEF Unrecorded
    <2>2. \A d \in Calls : /\ index'[d] = IF d = c THEN n ELSE index[d]
                           /\ pc'[d] = IF d = c THEN "committed" ELSE pc[d]
                           /\ answer'[d] = answer[d]
      BY CommitAddsRow DEF Commit, TypeOK
    <2>3. answer[c] = "none"
      BY DEF Commit, Consistent
    <2> QED
      BY <2>1, <2>2, <2>3 DEF Consistent
  <1> QED
    BY <1>1, <1>2, <1>3, <1>4, <1>5

LEMMA SettleInv ==
    ASSUME QueueInv, NEW c \in Calls, NEW a \in {"ok", "failed"},
           pc[c] \in {"reading", "creating", "committed"}, Settle(c, a)
    PROVE  QueueInv'
  <1> USE DEF QueueInv
  <1>1. TypeOK'
    BY DEF Settle, TypeOK, CallState
  <1>2. AskedOnce' /\ InTurn' /\ Chained'
    BY MoveKeepsOrder DEF Settle, CallState
  <1>3. TailInEntry'
    BY EntryKept DEF Settle, CallState
  <1>4. Numbered'
    BY NumbersKept DEF Settle, TypeOK
  <1>5. Consistent'
    BY DEF Settle, Consistent, TypeOK
  <1> QED
    BY <1>1, <1>2, <1>3, <1>4, <1>5

LEMMA ReleaseInv ==
    ASSUME QueueInv, NEW c \in Calls, Release(c)
    PROVE  QueueInv'
  <1> USE DEF QueueInv
  <1> DEFINE r == RunOf[c]
  <1>0. r \in Runs /\ c # NoCall
    BY QueueAssumption
  <1>1. TypeOK'
    BY <1>0 DEF Release, DropOwnEntry, TypeOK, CallState
  <1>2. AskedOnce' /\ InTurn' /\ Chained'
    BY MoveKeepsOrder DEF Release, CallState
  <1>3. TailInEntry'
    <2>1. \A d \in Calls : pc'[d] = IF d = c THEN "released" ELSE pc[d]
      BY DEF Release, TypeOK
    <2> SUFFICES ASSUME NEW q \in Runs
                 PROVE  IF startQueues'[q] = NoCall
                        THEN \A i \in DOMAIN asked[q] : pc'[asked[q][i]] = "released"
                        ELSE /\ asked[q] # <<>>
                             /\ startQueues'[q] = asked[q][Len(asked[q])]
                             /\ pc'[startQueues'[q]] # "released"
      BY DEF TailInEntry, Release
    <2>2. \A i \in DOMAIN asked[q] : asked[q][i] \in Calls
      BY PlacesAreTaken
    <2>3. asked[q] \in Seq(Calls) /\ startQueues[q] \in Calls \cup {NoCall}
      BY DEF TypeOK
    <2>4. CASE startQueues[q] = c
      (* c is the last of its run, and all before it have been released.    *)
      <3>1. /\ asked[q] # <<>>
            /\ c = asked[q][Len(asked[q])]
            /\ Len(asked[q]) \in DOMAIN asked[q]
        BY <1>0, <2>3, <2>4 DEF TailInEntry
      <3>2. q = r
        BY <3>1, PlacesAreTaken
      <3>3. startQueues'[q] = NoCall
        BY <2>4, <3>2 DEF Release, DropOwnEntry, TypeOK
      <3>4. ASSUME NEW i \in DOMAIN asked[q]
            PROVE  pc'[asked[q][i]] = "released"
        <4>1. i = Len(asked[q]) \/ i < Len(asked[q])
          BY <2>3, <3>4
        <4>2. i < Len(asked[q]) => pc[asked[q][i]] = "released"
          BY <3>1 DEF InTurn, Release
        <4> QED
          BY <2>1, <2>2, <3>1, <4>1, <4>2
      <3> QED
        BY <3>3, <3>4
    <2>5. CASE startQueues[q] # c
      <3>1. startQueues'[q] = startQueues[q]
        BY <2>5 DEF Release, DropOwnEntry, TypeOK
      <3> QED
        BY <2>1, <2>2, <2>3, <2>5, <3>1 DEF TailInEntry
    <2> QED
      BY <2>4, <2>5
  <1>4. Numbered'
    BY NumbersKept DEF Release, TypeOK
  <1>5. Consistent'
    BY DEF Release, Consistent, TypeOK
  <1> QED
    BY <1>1, <1>2, <1>3, <1>4, <1>5

(* Every step keeps the invariant.                                          *)
LEMMA NextInv ==
    ASSUME QueueInv, [Next]_vars
    PROVE  QueueInv'
  <1>1. CASE UNCHANGED vars
    <2>1. \A r : Rows(r)' = Rows(r)
      BY <1>1 DEF vars, Rows
    <2> QED
      BY <1>1, <2>1 DEF QueueInv, TypeOK, AskedOnce, InTurn, TailInEntry, Chained,
                        Numbered, Consistent, vars
  <1>2. ASSUME NEW c \in Calls, Enqueue(c) \/ Serve(c)
        PROVE  QueueInv'
    <2>1. CASE Confirm(c) \/ Fail(c)
      BY <2>1, SettleInv DEF Confirm, Fail
    <2> QED
      BY <1>2, <2>1, EnqueueInv, BeginInv, ReadLastInv, CommitInv, ReleaseInv DEF Serve
  <1> QED
    BY <1>1, <1>2 DEF Next

(* The numbering invariant holds for every set of runs and calls.           *)
THEOREM QueueIsSafe == Spec => []QueueInv
  <1> QED
    BY InitInv, NextInv, PTL DEF Spec

(* A run without outstanding calls has no entry in startQueues.             *)
THEOREM QueuesAreDropped == Spec => []NoStaleQueue
  <1>1. QueueInv => NoStaleQueue
    <2> SUFFICES ASSUME QueueInv, NEW r \in Runs, startQueues[r] # NoCall
                 PROVE  \E c \in Calls : RunOf[c] = r /\ pc[c] \notin {"idle", "released"}
      BY DEF NoStaleQueue
    <2>1. /\ asked[r] # <<>> /\ asked[r] \in Seq(Calls)
          /\ startQueues[r] = asked[r][Len(asked[r])]
          /\ pc[startQueues[r]] # "released"
      BY DEF QueueInv, TypeOK, TailInEntry
    <2>2. Len(asked[r]) \in DOMAIN asked[r]
      BY <2>1
    <2> QED
      BY <2>1, <2>2, PlacesAreTaken DEF QueueInv
  <1> QED
    BY <1>1, QueueIsSafe, PTL

-----------------------------------------------------------------------------
(* The queue implements the step log: every step is a step of the log or    *)
(* leaves it alone.                                                         *)

(* About each step of the queue.                                            *)
LEMMA StepOfLog ==
    ASSUME QueueInv, [Next]_vars
    PROVE  [Log!Next]_(Log!vars)
  <1> USE DEF QueueInv
  <1>1. CASE UNCHANGED vars
    BY <1>1 DEF vars, Log!vars
  <1>2. ASSUME NEW c \in Calls, Enqueue(c)
        PROVE  Log!Ask(c)
    BY <1>2 DEF Enqueue, Log!Ask, Log!Asked, AskedOnce
  <1>3. ASSUME NEW c \in Calls, Commit(c)
        PROVE  Log!Record(c)
    <2> DEFINE r == RunOf[c]
    <2>0. r \in Runs
      BY QueueAssumption
    <2>1. Log!Asked(c) /\ pc[c] = "creating"
      BY <1>3, HasPlace DEF Commit, Log!Asked
    <2>2. Log!Undecided(c)
      BY <2>1 DEF Log!Undecided, Log!Unrecorded, Unrecorded, Consistent, TypeOK
    <2>3. \A d \in Log!Before(c) : ~Log!Undecided(d)
      <3> SUFFICES ASSUME NEW j \in DOMAIN asked[r], NEW k \in DOMAIN asked[r],
                          j < k, asked[r][k] = c
                   PROVE  ~Log!Undecided(asked[r][j])
        BY DEF Log!Before
      <3>1. pc[asked[r][j]] = "released"
        BY <2>0, <2>1 DEF InTurn
      <3> QED
        BY <2>0, <3>1, PlacesAreTaken DEF Log!Undecided, Consistent
    <2>4. Log!Rows(r) = Rows(r)
      BY DEF Log!Rows, Rows, Log!Unrecorded, Unrecorded
    <2>5. \A S : Log!Cardinality(S) = Cardinality(S)
      BY DEF Log!Cardinality, Cardinality
    <2> QED
      BY <1>3, <2>1, <2>2, <2>3, <2>4, <2>5, CommitAddsRow DEF Log!Record, Commit
  <1>4. ASSUME NEW c \in Calls, Confirm(c) \/ Fail(c)
        PROVE  Log!Answer(c)
    <2>1. Log!Asked(c) /\ answer[c] = "none"
      BY <1>4, HasPlace DEF Confirm, Fail, Log!Asked, Consistent, TypeOK
    <2>2. Confirm(c) => index[c] # Log!Unrecorded
      BY DEF Confirm, Consistent, Log!Unrecorded, Unrecorded
    <2> QED
      BY <1>4, <2>1, <2>2 DEF Confirm, Fail, Settle, Log!Answer
  <1>5. ASSUME NEW c \in Calls, Begin(c) \/ ReadLast(c) \/ Release(c)
        PROVE  UNCHANGED Log!vars
    BY <1>5 DEF Begin, ReadLast, Release, Log!vars
  <1> QED
    BY <1>1, <1>2, <1>3, <1>4, <1>5 DEF Next, Serve, Log!Next

(* Concurrent starts get consecutive indexes in call order: the safety part *)
(* of LogSpec, for every set of runs and calls.                             *)
THEOREM ImplementsLog == Spec => Log!Init /\ [][Log!Next]_(Log!vars)
  <1>1. Init => Log!Init
    BY DEF Init, Log!Init, Log!Unrecorded, Unrecorded
  <1> QED
    BY <1>1, StepOfLog, QueueIsSafe, PTL DEF Spec

-----------------------------------------------------------------------------
(* No queue is ever stuck, and every call comes to its end: the safety part *)
(* of the liveness of LogSpec.                                              *)

(* The store can go on with the call: what Serve asks of its state.         *)
CanBeServed(c) ==
    \/ pc[c] \in OffQueue
    \/ pc[c] = "queued" /\ (previous[c] # NoCall => pc[previous[c]] = "released")

(* A call that was not released yet is one the store can go on with, or     *)
(* waits behind one of its run that was made before it.                     *)
QueueMoves ==
    \A r \in Runs : \A i \in DOMAIN asked[r] :
        pc[asked[r][i]] # "released" =>
            \E j \in DOMAIN asked[r] : j <= i /\ CanBeServed(asked[r][j])

(* The first of some places in an order.                                    *)
LEMMA FirstPlace ==
    ASSUME NEW S, S \subseteq Nat, S # {}
    PROVE  \E m \in S : \A k \in S : m <= k
  <1> DEFINE R == OpToRel(<, Nat)
  <1>1. IsWellFoundedOn(R, Nat)
    BY NatLessThanWellFounded
  <1>2. \A x, y \in Nat : x < y => <<x, y>> \in R
    BY DEF OpToRel
  <1> HIDE DEF R
  <1>3. PICK m \in S : \A k \in S : ~(<<k, m>> \in R)
    BY <1>1, WFMin
  <1>4. \A k \in S : ~(k < m)
    BY <1>2, <1>3
  <1>5. \A k \in S : k \in Nat
    OBVIOUS
  <1> QED
    BY <1>4, <1>5

(* Whatever the database does to a call, the calls behind it get their      *)
(* turn: about serializeByRun of store-prisma/src/index.ts.                 *)
THEOREM NoQueueIsStuck == Spec => []QueueMoves
  <1>1. QueueInv => QueueMoves
    <2> SUFFICES ASSUME QueueInv, NEW r \in Runs, NEW i \in DOMAIN asked[r],
                        pc[asked[r][i]] # "released"
                 PROVE  \E j \in DOMAIN asked[r] : j <= i /\ CanBeServed(asked[r][j])
      BY DEF QueueMoves
    <2> DEFINE S == {j \in DOMAIN asked[r] : pc[asked[r][j]] # "released"}
    <2>1. asked[r] \in Seq(Calls) /\ DOMAIN asked[r] \subseteq Nat
      BY DEF QueueInv, TypeOK
    <2>2. S \subseteq Nat /\ i \in S
      BY <2>1
    <2>3. PICK j \in S : \A k \in S : j <= k
      BY <2>2, FirstPlace
    <2>4. /\ j \in DOMAIN asked[r] /\ j <= i /\ j \in Nat /\ pc[asked[r][j]] # "released"
          /\ \A k \in DOMAIN asked[r] : k < j => pc[asked[r][k]] = "released"
      BY <2>1, <2>2, <2>3
    <2>5. /\ asked[r][j] \in Calls
          /\ pc[asked[r][j]] \in CallState \ {"idle", "released"}
      BY <2>4, PlacesAreTaken DEF QueueInv, TypeOK
    <2>6. CASE pc[asked[r][j]] = "queued"
      <3>1. CASE previous[asked[r][j]] = NoCall
        BY <2>4, <2>6, <3>1 DEF CanBeServed
      <3>2. CASE previous[asked[r][j]] # NoCall
        <4>1. j > 1 /\ previous[asked[r][j]] = asked[r][j - 1]
          BY <2>4, <3>2 DEF QueueInv, Chained
        <4>2. j - 1 \in DOMAIN asked[r]
          BY <2>1, <2>4, <4>1
        <4>3. pc[asked[r][j - 1]] = "released"
          BY <2>4, <4>2
        <4> QED
          BY <2>4, <2>6, <4>1, <4>3 DEF CanBeServed
      <3> QED
        BY <3>1, <3>2
    <2>7. CASE pc[asked[r][j]] # "queued"
      BY <2>4, <2>5, <2>7 DEF CanBeServed, CallState, OffQueue
    <2> QED
      BY <2>6, <2>7
  <1> QED
    BY <1>1, QueueIsSafe, PTL

(* The steps a call has left.                                               *)
StepsOf(state) ==
    CASE state = "idle" -> 6
      [] state = "queued" -> 5
      [] state = "reading" -> 4
      [] state = "creating" -> 3
      [] state = "committed" -> 2
      [] state = "settled" -> 1
      [] OTHER -> 0
StepsToGo == {s \in Calls \X (1..6) : s[2] <= StepsOf(pc[s[1]])}

(* Calls are served in finitely many steps: no step of any call puts        *)
(* another one back.                                                        *)
THEOREM CallsAreFinite ==
    Spec => /\ [](Cardinality(StepsToGo) \in Nat)
            /\ [][Cardinality(StepsToGo') < Cardinality(StepsToGo)]_vars
  <1>1. IsFiniteSet(StepsToGo) /\ Cardinality(StepsToGo) \in Nat
    <2> DEFINE N == 1..6
    <2>1. IsFiniteSet(N)
      <3>1. 1 \in Int /\ 6 \in Int
        OBVIOUS
      <3> QED
        BY <3>1, FS_Interval, Zenon
    <2>2. StepsToGo \subseteq Calls \X N
      BY DEF StepsToGo
    <2> HIDE DEF N
    <2>3. IsFiniteSet(Calls \X N)
      BY <2>1, QueueAssumption, FS_Product
    <2> QED
      BY <2>2, <2>3, FS_Subset, FS_CardinalityType
  <1>2. \A s : StepsOf(s) \in 0..6
    BY DEF StepsOf
  <1>3. ASSUME TypeOK, Next
        PROVE  Cardinality(StepsToGo') < Cardinality(StepsToGo)
    <2>1. PICK c \in Calls : Enqueue(c) \/ Serve(c)
      BY <1>3 DEF Next
    <2>2. PICK to : /\ pc' = [pc EXCEPT ![c] = to]
                    /\ <<pc[c], to>> \in
                          {<<"idle", "queued">>, <<"queued", "reading">>, <<"reading", "creating">>,
                           <<"creating", "committed">>, <<"reading", "settled">>,
                           <<"creating", "settled">>, <<"committed", "settled">>,
                           <<"settled", "released">>}
      BY <2>1 DEF Serve, Enqueue, Begin, ReadLast, Commit, Confirm, Fail, Settle, Release
    <2>3. StepsOf(to) < StepsOf(pc[c])
      BY <2>2 DEF StepsOf
    <2> DEFINE k == StepsOf(pc[c])
    <2>4. /\ k \in 1..6 /\ StepsOf(to) \in Nat
          /\ pc'[c] = to /\ \A d \in Calls \ {c} : pc'[d] = pc[d]
      <3>1. k \in 1..6 /\ StepsOf(to) \in Nat
        BY <1>2, <2>3
      <3>2. pc'[c] = to /\ \A d \in Calls \ {c} : pc'[d] = pc[d]
        BY <1>3, <2>2 DEF TypeOK
      <3> QED
        BY <3>1, <3>2
    <2>5. ASSUME NEW s \in StepsToGo'
          PROVE  s \in StepsToGo
      <3>1. s \in Calls \X (1..6) /\ s[2] <= StepsOf(pc'[s[1]])
        BY DEF StepsToGo
      <3>2. StepsOf(pc'[s[1]]) <= StepsOf(pc[s[1]])
        BY <1>2, <2>3, <2>4, <3>1
      <3>3. s[2] <= StepsOf(pc[s[1]])
        BY <1>2, <3>1, <3>2
      <3> QED
        BY <3>1, <3>3 DEF StepsToGo
    <2>6. <<c, k>> \in StepsToGo
      BY <2>4 DEF StepsToGo
    <2>7. <<c, k>> \notin StepsToGo'
      <3>1. ~(k <= StepsOf(to))
        BY <2>3, <2>4
      <3>2. ~(k <= StepsOf(pc'[c]))
        BY <2>4, <3>1, Zenon
      <3> HIDE DEF k
      <3> QED
        BY <3>2 DEF StepsToGo
    <2>8. StepsToGo' \subseteq StepsToGo /\ StepsToGo' # StepsToGo
      BY <2>5, <2>6, <2>7
    <2>9. /\ IsFiniteSet(StepsToGo')
          /\ Cardinality(StepsToGo') <= Cardinality(StepsToGo)
          /\ Cardinality(StepsToGo') # Cardinality(StepsToGo)
      BY <1>1, <2>8, FS_Subset
    <2>10. Cardinality(StepsToGo') \in Nat
      BY <2>9, FS_CardinalityType
    <2> QED
      BY <1>1, <2>9, <2>10
  <1>4. TypeOK /\ [Next]_vars => [Cardinality(StepsToGo') < Cardinality(StepsToGo)]_vars
    BY <1>3
  <1>5. QueueInv => TypeOK
    BY DEF QueueInv
  <1> QED
    BY <1>1, <1>4, <1>5, QueueIsSafe, PTL DEF Spec

=============================================================================
