----------------------------- MODULE PartsProofs -----------------------------
(***************************************************************************)
(* The three sequential parts: the heap of timers is in order and          *)
(* implements a priority queue, for every size and all keys; a log line is *)
(* sound, for every buffer and every width of integers; and a request gets *)
(* the answer it asks for, for all methods, URIs and files.                *)
(***************************************************************************)
EXTENDS TimeHeap, LogStream, HttpRequest,
        FiniteSetTheorems, SequenceTheorems, WellFoundedInduction, TLAPS

\* A set of numbers has a least one: the intervals up to them are well-founded.
LEMMA LeastNumber ==
  ASSUME NEW T, T \subseteq Nat, T # {}
  PROVE  \E x \in T : \A y \in T : x <= y
<1> DEFINE Upto == {1 .. p : p \in T}
<1>1. Upto \subseteq FiniteSubsetsOf(Nat)
  <2> SUFFICES ASSUME NEW p \in T PROVE 1 .. p \in FiniteSubsetsOf(Nat)
    OBVIOUS
  <2>1. IsFiniteSet(1 .. p)
    BY FS_Interval
  <2> QED
    BY <2>1 DEF FiniteSubsetsOf
<1>2. \E U \in Upto : \A V \in Upto : ~ (<<V, U>> \in StrictSubsetOrdering(Nat))
  <2>1. Upto # {}
    OBVIOUS
  <2> HIDE DEF Upto
  <2> QED
    BY <1>1, <2>1, WFMin, FS_StrictSubsetOrderingWellFounded
<1>3. PICK x \in T : \A V \in Upto : ~ (<<V, 1 .. x>> \in StrictSubsetOrdering(Nat))
  BY <1>2
<1>4. ASSUME NEW y \in T, y < x PROVE FALSE
  <2>1. <<1 .. y, 1 .. x>> \in (SUBSET Nat) \X (SUBSET Nat)
    OBVIOUS
  <2>2. 1 .. y \subseteq 1 .. x /\ x \in 1 .. x /\ x \notin 1 .. y
    BY <1>4
  <2>3. <<1 .. y, 1 .. x>> \in StrictSubsetOrdering(Nat)
    BY <1>4, <2>1, <2>2 DEF StrictSubsetOrdering
  <2> QED
    BY <1>3, <2>3
<1> QED
  BY <1>3, <1>4

-----------------------------------------------------------------------------
(* The heap. *)

Below(p, q) == heap[p] <= heap[q]

\* While up runs, only the node at pos may be smaller than its parent, and the
\* children of pos are in order with that parent.
Rising ==
  loop = "up" =>
    \A p \in 2 .. size :
      /\ p # pos => Below(p \div 2, p)
      /\ p \div 2 = pos /\ pos > 1 => Below(pos \div 2, p)

\* While down runs, only the children of pos may be smaller than their parent,
\* and they are in order with the parent of pos.
Sinking ==
  loop = "down" =>
    \A p \in 2 .. size :
      /\ p \div 2 # pos => Below(p \div 2, p)
      /\ p \div 2 = pos /\ pos > 1 => Below(pos \div 2, p)

Inv == HeapTypeOK /\ HeapOrdered /\ Rising /\ Sinking

\* Parents and children.
LEMMA Halves ==
  ASSUME NEW p \in Nat, p >= 2
  PROVE  p \div 2 \in Nat /\ p \div 2 >= 1 /\ p \div 2 < p /\ (p = 2 * (p \div 2) \/ p = 2 * (p \div 2) + 1)
OBVIOUS

LEMMA Children ==
  ASSUME NEW p \in Nat, p >= 1
  PROVE  (2 * p) \div 2 = p /\ (2 * p + 1) \div 2 = p
OBVIOUS

LEMMA InitInv == HeapInit => Inv
BY HeapAssumption DEF HeapInit, Inv, HeapTypeOK, HeapOrdered, Rising, Sinking, Places

\* An exchange of two nodes.
LEMMA Exchange ==
  ASSUME HeapTypeOK, NEW p \in Places, NEW q \in Places, p # q, heap' = Swapped(p, q)
  PROVE  /\ heap' \in [Places -> Keys]
         /\ heap'[p] = heap[q] /\ heap'[q] = heap[p]
         /\ \A r \in Places : r # p /\ r # q => heap'[r] = heap[r]
BY DEF HeapTypeOK, Swapped

\* The keys are numbers.
LEMMA KeysAreNumbers ==
  ASSUME HeapTypeOK PROVE \A p \in Places : heap[p] \in Int
BY HeapAssumption DEF HeapTypeOK

LEMMA InsertInv == Inv /\ (\E k \in Keys : pq_insert(k)) => Inv'
<1> SUFFICES ASSUME Inv, NEW k \in Keys, pq_insert(k) PROVE Inv'
  OBVIOUS
<1>0. CASE size + 1 \notin Places
  BY <1>0 DEF pq_insert, Inv, HeapTypeOK, HeapOrdered, Rising, Sinking
<1> SUFFICES ASSUME size + 1 \in Places PROVE Inv'
  BY <1>0
<1>1. /\ size \in Nat /\ size + 1 \in Places /\ heap \in [Places -> Keys]
      /\ \A p \in 2 .. size : heap[p \div 2] <= heap[p]
  BY HeapAssumption DEF Inv, HeapTypeOK, HeapOrdered, pq_insert, Places
<1>2. /\ size' = size + 1 /\ pos' = size + 1 /\ loop' = "up"
      /\ heap' = [heap EXCEPT ![size + 1] = k]
  BY DEF pq_insert
<1>3. HeapTypeOK'
  <2>1. size + 1 \in 0 .. HEAPSIZE - 1
    BY <1>1, HeapAssumption DEF Places
  <2>2. heap' \in [Places -> Keys]
    BY <1>1, <1>2
  <2> QED
    BY <1>1, <1>2, <2>1, <2>2 DEF HeapTypeOK
<1>4. ASSUME NEW p \in 2 .. size' PROVE (p # pos' => heap'[p \div 2] <= heap'[p]) /\ p \div 2 # pos'
  BY <1>1, <1>2, Halves, HeapAssumption DEF Places
<1> QED
  BY <1>2, <1>3, <1>4 DEF Inv, HeapOrdered, Rising, Sinking, Below

LEMMA UpInv == Inv /\ up => Inv'
<1> SUFFICES ASSUME Inv, up PROVE Inv'
  OBVIOUS
<1>1. /\ size \in Nat /\ pos \in 1 .. size /\ 1 .. size \subseteq Places
      /\ heap \in [Places -> Keys] /\ loop = "up" /\ HeapTypeOK
  BY HeapAssumption DEF Inv, HeapTypeOK, up, Places
<1>2. ASSUME NEW p \in 2 .. size
      PROVE  /\ p # pos => heap[p \div 2] <= heap[p]
             /\ p \div 2 = pos /\ pos > 1 => heap[pos \div 2] <= heap[p]
  BY <1>1 DEF Inv, Rising, Below
<1>3. CASE pos > 1 /\ heap[pos] < heap[ParentOf(pos)]
  <2> DEFINE par == pos \div 2
  <2>1. par \in 1 .. size /\ par < pos /\ pos \in Places /\ par \in Places /\ par # pos
    BY <1>1, <1>3, Halves
  <2>2. /\ heap' = Swapped(pos, par) /\ pos' = par /\ size' = size /\ loop' = "up"
    BY <1>1, <1>3 DEF up, ParentOf
  <2>3. /\ heap' \in [Places -> Keys]
        /\ heap'[pos] = heap[par] /\ heap'[par] = heap[pos]
        /\ \A r \in Places : r # pos /\ r # par => heap'[r] = heap[r]
    BY <1>1, <2>1, <2>2, Exchange
  <2>4. HeapTypeOK'
    <3>1. par \in 0 .. HEAPSIZE - 1 /\ par >= 1 /\ par <= size
      BY <1>1, <2>1, HeapAssumption DEF Places
    <3> HIDE DEF par
    <3> QED
      BY <1>1, <2>2, <2>3, <3>1 DEF HeapTypeOK
  <2>5. heap[pos] < heap[par] /\ \A p \in Places : heap[p] \in Int
    BY <1>1, <1>3, KeysAreNumbers DEF ParentOf
  <2> HIDE DEF par
  <2>6. ASSUME NEW p \in 2 .. size
        PROVE  /\ p # par => heap'[p \div 2] <= heap'[p]
               /\ p \div 2 = par /\ par > 1 => heap'[par \div 2] <= heap'[p]
    <3> DEFINE q == p \div 2
    <3>1. q \in 1 .. size /\ q < p /\ p \in Places /\ q \in Places
      BY <1>1, Halves
    <3>2. p # pos => heap[q] <= heap[p]
      BY <1>2
    <3>3. q = pos => heap[par] <= heap[p]
      BY <1>2, <1>3 DEF par
    <3>4. p = pos => q = par
      BY DEF par
    <3>5. par > 1 => /\ par \div 2 \in Places /\ par \div 2 < par
                     /\ heap[par \div 2] <= heap[par]
      BY <1>1, <1>2, <2>1, Halves
    <3> HIDE DEF q
    <3>6. p # par => heap'[q] <= heap'[p]
      <4>1. CASE p = pos
        BY <4>1, <3>4, <2>3, <2>5, <2>1
      <4>2. CASE p # pos /\ q = pos
        BY <4>2, <3>1, <3>3, <2>3, <2>5, <2>1
      <4>3. CASE p # pos /\ q = par
        BY <4>3, <3>1, <3>2, <2>3, <2>5, <2>1
      <4>4. CASE p # pos /\ q # pos /\ q # par
        BY <4>4, <3>1, <3>2, <2>3
      <4> QED
        BY <4>1, <4>2, <4>3, <4>4
    <3>7. q = par /\ par > 1 => heap'[par \div 2] <= heap'[p]
      <4>1. SUFFICES ASSUME q = par, par > 1 PROVE heap'[par \div 2] <= heap'[p]
        OBVIOUS
      <4>2. heap'[par \div 2] = heap[par \div 2]
        BY <4>1, <3>5, <2>1, <2>3
      <4>3. CASE p = pos
        BY <4>1, <4>2, <4>3, <3>5, <2>3
      <4>4. CASE p # pos
        <5>1. heap'[p] = heap[p] /\ heap[par] <= heap[p]
          BY <4>1, <4>4, <3>1, <3>2, <2>3
        <5> QED
          BY <5>1, <4>1, <4>2, <3>1, <3>5, <2>1, <2>5
      <4> QED
        BY <4>3, <4>4
    <3> QED
      BY <3>6, <3>7 DEF q
  <2> QED
    BY <2>2, <2>4, <2>6 DEF Inv, HeapOrdered, Rising, Sinking, Below
<1>4. CASE ~(pos > 1 /\ heap[pos] < heap[ParentOf(pos)])
  <2>1. UNCHANGED <<heap, size, pos>> /\ loop' = "none"
    BY <1>4 DEF up
  <2>2. ASSUME NEW p \in 2 .. size PROVE heap[p \div 2] <= heap[p]
    <3>1. \A r \in Places : heap[r] \in Int
      BY <1>1, KeysAreNumbers
    <3>2. p \div 2 \in Places /\ p \in Places
      BY <1>1, Halves
    <3> QED
      BY <1>1, <1>2, <1>4, <3>1, <3>2 DEF ParentOf
  <2> QED
    BY <1>1, <2>1, <2>2 DEF Inv, HeapTypeOK, HeapOrdered, Rising, Sinking
<1> QED
  BY <1>3, <1>4

LEMMA PopInv == Inv /\ pq_pop => Inv'
<1> SUFFICES ASSUME Inv, pq_pop PROVE Inv'
  OBVIOUS
<1>1. /\ size \in Nat \ {0} /\ 1 .. size \subseteq Places
      /\ heap \in [Places -> Keys]
      /\ \A p \in 2 .. size : heap[p \div 2] <= heap[p]
  BY HeapAssumption DEF Inv, HeapTypeOK, HeapOrdered, pq_pop, Places
<1>2. /\ size' = size - 1 /\ pos' = 1 /\ loop' = "down"
      /\ heap' = [heap EXCEPT ![1] = heap[size]]
  BY DEF pq_pop
<1>3. size' \in 0 .. HEAPSIZE - 1 /\ 1 \in 0 .. HEAPSIZE - 1
  BY <1>1, <1>2, HeapAssumption DEF Inv, HeapTypeOK
<1>4. HeapTypeOK'
  BY <1>1, <1>2, <1>3 DEF HeapTypeOK
<1>5. ASSUME NEW p \in 2 .. size', p \div 2 # 1 PROVE heap'[p \div 2] <= heap'[p]
  BY <1>1, <1>2, <1>5, Halves
<1> QED
  BY <1>2, <1>4, <1>5 DEF Inv, HeapOrdered, Rising, Sinking, Below

\* The child that down looks at is a child, and no child is smaller.
LEMMA SmallerChildIsLeast ==
  ASSUME HeapTypeOK, pos >= 1, 2 * pos <= size
  PROVE  /\ SmallerChild(pos) \in {2 * pos, 2 * pos + 1}
         /\ SmallerChild(pos) \in 2 .. size
         /\ \A p \in 2 .. size : p \div 2 = pos => heap[SmallerChild(pos)] <= heap[p]
<1>1. pos \in Nat /\ size \in Nat /\ \A p \in 2 .. size : p \in Places
  BY HeapAssumption DEF HeapTypeOK, Places
<1>2. \A p \in 2 .. size : heap[p] \in Int
  BY <1>1, KeysAreNumbers
<1>3. ASSUME NEW p \in 2 .. size, p \div 2 = pos PROVE p = 2 * pos \/ p = 2 * pos + 1
  BY <1>3, Halves
<1>4. 2 * pos \in 2 .. size /\ (2 * pos < size => 2 * pos + 1 \in 2 .. size)
  BY <1>1
<1> QED
  BY <1>1, <1>2, <1>3, <1>4 DEF SmallerChild

LEMMA DownInv == Inv /\ down => Inv'
<1> SUFFICES ASSUME Inv, down PROVE Inv'
  OBVIOUS
<1>1. /\ size \in Nat /\ pos \in Nat /\ pos >= 1 /\ 1 .. size \subseteq Places
      /\ heap \in [Places -> Keys] /\ loop = "down" /\ HeapTypeOK
  BY HeapAssumption DEF Inv, HeapTypeOK, down, Places
<1>2. ASSUME NEW p \in 2 .. size
      PROVE  /\ p \div 2 # pos => heap[p \div 2] <= heap[p]
             /\ p \div 2 = pos /\ pos > 1 => heap[pos \div 2] <= heap[p]
  BY <1>1 DEF Inv, Sinking, Below
<1>3. \A p \in Places : heap[p] \in Int
  BY <1>1, KeysAreNumbers
<1>4. CASE 2 * pos <= size /\ heap[SmallerChild(pos)] < heap[pos]
  <2> DEFINE child == SmallerChild(pos)
  <2>1. /\ child \in 2 .. size /\ child \div 2 = pos
        /\ child # pos /\ child > pos /\ pos \in Places /\ child \in Places
        /\ \A p \in 2 .. size : p \div 2 = pos => heap[child] <= heap[p]
    BY <1>1, <1>4, SmallerChildIsLeast, Children
  <2>2. heap' = Swapped(child, pos) /\ pos' = child /\ size' = size /\ loop' = "down"
    BY <1>1, <1>4 DEF down
  <2>3. heap[child] < heap[pos]
    BY <1>4
  <2> HIDE DEF child
  <2>4. /\ heap' \in [Places -> Keys]
        /\ heap'[pos] = heap[child] /\ heap'[child] = heap[pos]
        /\ \A r \in Places : r # pos /\ r # child => heap'[r] = heap[r]
    BY <1>1, <2>1, <2>2, Exchange
  <2>5. HeapTypeOK'
    <3>1. child \in 0 .. HEAPSIZE - 1 /\ child >= 1
      BY <1>1, <2>1, HeapAssumption DEF Places
    <3> QED
      BY <1>1, <2>2, <2>4, <3>1 DEF HeapTypeOK
  <2>6. ASSUME NEW p \in 2 .. size
        PROVE  /\ p \div 2 # child => heap'[p \div 2] <= heap'[p]
               /\ p \div 2 = child /\ child > 1 => heap'[child \div 2] <= heap'[p]
    <3> DEFINE q == p \div 2
    <3>1. q \in 1 .. size /\ q < p /\ p \in Places /\ q \in Places
      BY <1>1, Halves
    <3>2. q # pos => heap[q] <= heap[p]
      BY <1>2
    <3>3. p = child => q = pos
      BY <2>1
    <3>4. p = pos => heap[q] <= heap[child]
      BY <1>2, <2>1, <3>1
    <3>5. q = pos => heap[child] <= heap[p]
      BY <2>1
    <3> HIDE DEF q
    <3>6. q # child => heap'[q] <= heap'[p]
      <4>1. CASE p = child
        BY <4>1, <1>3, <3>3, <2>1, <2>3, <2>4
      <4>2. CASE p = pos /\ q # child
        BY <4>2, <3>1, <3>4, <2>4
      <4>3. CASE p # child /\ p # pos /\ q = pos
        BY <4>3, <3>1, <3>5, <2>4
      <4>4. CASE p # child /\ p # pos /\ q # pos /\ q # child
        BY <4>4, <3>1, <3>2, <2>4
      <4> QED
        BY <4>1, <4>2, <4>3, <4>4
    <3>7. q = child => heap'[child \div 2] <= heap'[p]
      <4>1. SUFFICES ASSUME q = child PROVE heap[child] <= heap'[p]
        BY <2>1, <2>4
      <4>2. p # child /\ p # pos /\ q # pos
        BY <4>1, <2>1, <3>1
      <4> QED
        BY <4>1, <4>2, <3>1, <3>2, <2>4
    <3> QED
      BY <3>6, <3>7 DEF q
  <2> QED
    BY <2>2, <2>5, <2>6 DEF Inv, HeapOrdered, Rising, Sinking, Below
<1>5. CASE ~(2 * pos <= size /\ heap[SmallerChild(pos)] < heap[pos])
  <2>1. UNCHANGED <<heap, size, pos>> /\ loop' = "none"
    BY <1>5 DEF down
  <2>2. ASSUME NEW p \in 2 .. size PROVE heap[p \div 2] <= heap[p]
    <3>1. CASE p \div 2 # pos
      BY <3>1, <1>2
    <3>2. CASE p \div 2 = pos
      <4>1. 2 * pos <= size
        BY <3>2, <1>1, Halves
      <4>2. /\ SmallerChild(pos) \in 2 .. size
            /\ heap[SmallerChild(pos)] <= heap[p]
        BY <4>1, <3>2, <1>1, SmallerChildIsLeast
      <4>3. heap[pos] <= heap[SmallerChild(pos)]
        BY <4>1, <4>2, <1>1, <1>3, <1>5
      <4> QED
        BY <4>1, <4>2, <4>3, <3>2, <1>1, <1>3
    <3> QED
      BY <3>1, <3>2
  <2> QED
    BY <1>1, <2>1, <2>2 DEF Inv, HeapTypeOK, HeapOrdered, Rising, Sinking
<1> QED
  BY <1>4, <1>5

LEMMA NextInv == Inv /\ [HeapNext]_heapVars => Inv'
<1> SUFFICES ASSUME Inv, [HeapNext]_heapVars PROVE Inv'
  OBVIOUS
<1>1. CASE UNCHANGED heapVars
  BY <1>1 DEF heapVars, Inv, HeapTypeOK, HeapOrdered, Rising, Sinking, Below
<1> QED
  BY <1>1, InsertInv, UpInv, PopInv, DownInv DEF HeapNext

LEMMA InvCorrect == HeapSpec => []Inv
BY InitInv, NextInv, PTL DEF HeapSpec

\* Between two calls the heap is in order, for arrays of every length.
THEOREM HeapOrderedCorrect == HeapSpec => []HeapOrdered
<1>1. Inv => HeapOrdered
  BY DEF Inv
<1> QED
  BY InvCorrect, <1>1, PTL

\* The nodes that up and down read and exchange are in use and inside the array,
\* for arrays of every length, until an insertion overruns it.
THEOREM InsideArrayCorrect == HeapSpec => []InsideArray
<1>1. Inv => InsideArray
  <2> SUFFICES ASSUME Inv PROVE InsideArray
    OBVIOUS
  <2>1. HeapTypeOK /\ size \in Nat /\ pos \in Nat /\ 1 .. size \subseteq Places
    BY HeapAssumption DEF Inv, HeapTypeOK, Places
  <2>2. loop = "up" /\ pos > 1 => {pos, ParentOf(pos)} \subseteq 1 .. size
    BY <2>1, Halves DEF HeapTypeOK, ParentOf
  <2>3. ASSUME loop = "down", 2 * pos <= size
        PROVE  {pos, 2 * pos, SmallerChild(pos)} \subseteq 1 .. size
    <3>1. pos >= 1
      BY <2>1, <2>3 DEF HeapTypeOK
    <3>2. SmallerChild(pos) \in 2 .. size
      BY <2>1, <2>3, <3>1, SmallerChildIsLeast
    <3> QED
      BY <2>1, <2>3, <3>1, <3>2
  <2> QED
    BY <2>1, <2>2, <2>3 DEF InsideArray
<1> QED
  BY InvCorrect, <1>1, PTL

-----------------------------------------------------------------------------
(* The keys are counted. *)

At(h, n, k) == {p \in 1 .. n : h[p] = k}

Count(h, n, k) == Cardinality(At(h, n, k))

LEMMA CountType ==
  ASSUME NEW h, NEW n \in Nat, NEW k
  PROVE  IsFiniteSet(At(h, n, k)) /\ Count(h, n, k) \in Nat
<1>1. IsFiniteSet(1 .. n)
  BY FS_Interval
<1>2. At(h, n, k) \in SUBSET (1 .. n)
  BY DEF At
<1>3. IsFiniteSet(At(h, n, k))
  BY <1>1, <1>2, FS_Subset
<1> QED
  BY <1>3, FS_CardinalityType DEF Count

LEMMA CountPositive ==
  ASSUME NEW h, NEW n \in Nat, NEW k
  PROVE  Count(h, n, k) > 0 <=> \E p \in 1 .. n : h[p] = k
<1>1. Count(h, n, k) = 0 <=> At(h, n, k) = {}
  BY CountType, FS_EmptySet DEF Count
<1>2. At(h, n, k) = {} <=> ~ \E p \in 1 .. n : h[p] = k
  BY DEF At
<1> QED
  BY <1>1, <1>2, CountType

\* One place is given up for another.
LEMMA CountMoved ==
  ASSUME NEW S, IsFiniteSet(S), NEW p \in S, NEW q, q \notin S
  PROVE  Cardinality((S \ {p}) \cup {q}) = Cardinality(S)
<1>1. IsFiniteSet(S \ {p}) /\ Cardinality(S \ {p}) = Cardinality(S) - 1
  BY FS_RemoveElement
<1>2. Cardinality((S \ {p}) \cup {q}) = Cardinality(S \ {p}) + 1
  BY <1>1, FS_AddElement
<1> QED
  BY <1>1, <1>2, FS_CardinalityType

\* An exchange moves keys and counts as before.
LEMMA ExchangeCounts ==
  ASSUME HeapTypeOK, NEW p \in 1 .. size, NEW q \in 1 .. size, p # q, heap' = Swapped(p, q),
         NEW k
  PROVE  Count(heap', size, k) = Count(heap, size, k)
<1>1. size \in Nat /\ 1 .. size \subseteq Places
  BY HeapAssumption DEF HeapTypeOK, Places
<1>2. /\ heap'[p] = heap[q] /\ heap'[q] = heap[p]
      /\ \A r \in 1 .. size : r # p /\ r # q => heap'[r] = heap[r]
  BY <1>1, Exchange
<1> DEFINE S == At(heap, size, k)
           T == At(heap', size, k)
<1>3. IsFiniteSet(S)
  BY <1>1, CountType
<1>4. CASE (heap[p] = k) = (heap[q] = k)
  <2>1. T = S
    BY <1>2, <1>4 DEF At
  <2> QED
    BY <2>1 DEF Count
<1>5. CASE heap[p] = k /\ heap[q] # k
  <2>1. p \in S /\ q \notin S /\ T = (S \ {p}) \cup {q}
    BY <1>2, <1>5 DEF At
  <2> HIDE DEF S, T
  <2>2. Cardinality(T) = Cardinality(S)
    BY <1>3, <2>1, CountMoved
  <2> QED
    BY <2>2 DEF Count, S, T
<1>6. CASE heap[q] = k /\ heap[p] # k
  <2>1. q \in S /\ p \notin S /\ T = (S \ {q}) \cup {p}
    BY <1>2, <1>6 DEF At
  <2> HIDE DEF S, T
  <2>2. Cardinality(T) = Cardinality(S)
    BY <1>3, <2>1, CountMoved
  <2> QED
    BY <2>2 DEF Count, S, T
<1> QED
  BY <1>4, <1>5, <1>6

LEMMA InsertCounts ==
  ASSUME HeapTypeOK, NEW k \in Keys, pq_insert(k), size + 1 \in Places, NEW j
  PROVE  Count(heap', size', j) = Count(heap, size, j) + (IF j = k THEN 1 ELSE 0)
<1>1. size \in Nat /\ size' = size + 1
  BY HeapAssumption DEF HeapTypeOK, pq_insert
<1>2. heap'[size + 1] = k /\ \A r \in 1 .. size : heap'[r] = heap[r]
  BY <1>1, HeapAssumption DEF HeapTypeOK, pq_insert, Places
<1> DEFINE S == At(heap, size, j)
           T == At(heap', size', j)
<1>3. IsFiniteSet(S) /\ Cardinality(S) = Count(heap, size, j) /\ Count(heap, size, j) \in Nat
  BY <1>1, CountType DEF Count
<1>4. CASE j = k
  <2>1. size + 1 \notin S /\ T = S \cup {size + 1}
    BY <1>1, <1>2, <1>4 DEF At
  <2> HIDE DEF S, T
  <2>2. Cardinality(T) = Cardinality(S) + 1
    BY <1>3, <2>1, FS_AddElement
  <2> QED
    BY <1>3, <1>4, <2>2 DEF Count, T
<1>5. CASE j # k
  <2>1. T = S
    BY <1>1, <1>2, <1>5 DEF At
  <2> QED
    BY <1>3, <1>5, <2>1 DEF Count
<1> QED
  BY <1>4, <1>5

LEMMA PopCounts ==
  ASSUME HeapTypeOK, pq_pop, NEW j
  PROVE  Count(heap', size', j) = Count(heap, size, j) - (IF j = heap[1] THEN 1 ELSE 0)
<1>1. size \in Nat /\ size >= 1 /\ size' = size - 1 /\ 1 .. size \subseteq Places
  BY HeapAssumption DEF HeapTypeOK, pq_pop, Places
<1>2. heap'[1] = heap[size] /\ \A r \in 2 .. size : heap'[r] = heap[r]
  BY <1>1, HeapAssumption DEF HeapTypeOK, pq_pop, Places
<1> DEFINE S == At(heap, size, j)
           T == At(heap', size', j)
<1>3. IsFiniteSet(S) /\ Cardinality(S) = Count(heap, size, j) /\ Count(heap, size, j) \in Nat
  BY <1>1, CountType DEF Count
<1>4. CASE j = heap[1] /\ j = heap[size]
  <2>1. \A p \in 1 .. size' : heap'[p] = j <=> heap[p] = j
    <3> TAKE p \in 1 .. size'
    <3>1. CASE p = 1
      BY <1>2, <1>4, <3>1
    <3>2. CASE p # 1
      <4>1. p \in 2 .. size
        BY <1>1, <3>2
      <4> QED
        BY <1>2, <4>1
    <3> QED
      BY <3>1, <3>2
  <2>2. 1 .. size' = (1 .. size) \ {size} /\ size \in 1 .. size
    BY <1>1
  <2>3. size \in S /\ T = S \ {size}
    BY <1>4, <2>1, <2>2 DEF At
  <2> HIDE DEF S, T
  <2>4. Cardinality(T) = Cardinality(S) - 1
    BY <1>3, <2>3, FS_RemoveElement
  <2> QED
    BY <1>3, <1>4, <2>4 DEF Count, T
<1>5. CASE j = heap[1] /\ j # heap[size]
  <2>1. 1 \in S /\ T = S \ {1}
    BY <1>1, <1>2, <1>5 DEF At
  <2> HIDE DEF S, T
  <2>2. Cardinality(T) = Cardinality(S) - 1
    BY <1>3, <2>1, FS_RemoveElement
  <2> QED
    BY <1>3, <1>5, <2>2 DEF Count, T
<1>6. CASE j # heap[1] /\ j = heap[size]
  <2>1. size \in S /\ 1 \notin S /\ T = (S \ {size}) \cup {1}
    BY <1>1, <1>2, <1>6 DEF At
  <2> HIDE DEF S, T
  <2>2. Cardinality(T) = Cardinality(S)
    BY <1>3, <2>1, CountMoved
  <2> QED
    BY <1>3, <1>6, <2>2 DEF Count, T
<1>7. CASE j # heap[1] /\ j # heap[size]
  <2>1. T = S
    BY <1>1, <1>2, <1>7 DEF At
  <2> QED
    BY <1>3, <1>7, <2>1 DEF Count
<1> QED
  BY <1>4, <1>5, <1>6, <1>7

-----------------------------------------------------------------------------
(* The least key is at the root. *)

LEMMA RootIsLeast ==
  ASSUME HeapTypeOK, \A p \in 2 .. size : heap[p \div 2] <= heap[p]
  PROVE  \A p \in 1 .. size : heap[1] <= heap[p]
<1> DEFINE T == {p \in 1 .. size : ~(heap[1] <= heap[p])}
<1>1. size \in Nat /\ \A p \in 1 .. size : heap[p] \in Int
  BY HeapAssumption, KeysAreNumbers DEF HeapTypeOK, Places
<1>2. CASE T = {}
  BY <1>2
<1>3. CASE T # {}
  <2>0. T \subseteq Nat
    BY <1>1
  <2>1. PICK p \in T : \A q \in T : p <= q
    <3> HIDE DEF T
    <3> QED
      BY <1>3, <2>0, LeastNumber
  <2>2. p \in 2 .. size
    BY <1>1, <2>1
  <2>3. p \div 2 \in 1 .. size /\ p \div 2 < p
    BY <1>1, <2>2, Halves
  <2>4. p \div 2 \notin T
    BY <1>1, <2>1, <2>2, <2>3
  <2>5. heap[1] <= heap[p \div 2] /\ heap[p \div 2] <= heap[p]
    BY <2>2, <2>3, <2>4
  <2>6. 1 \in 1 .. size
    BY <1>1, <2>2
  <2> QED
    BY <1>1, <2>1, <2>2, <2>3, <2>5, <2>6
<1> QED
  BY <1>2, <1>3

-----------------------------------------------------------------------------

\* What the abstract queue is mapped to.
TheBag == [k \in Keys |-> Cardinality({p \in 1 .. size : heap[p] = k})]

LEMMA BagCounts ==
  /\ TheBag = [k \in Keys |-> Count(heap, size, k)]
  /\ TheBag' = [k \in Keys |-> Count(heap', size', k)]
  BY DEF TheBag, Count, At

LEMMA BagInit == HeapInit => Queue!PQInit
<1> SUFFICES ASSUME HeapInit PROVE TheBag = [k \in Keys |-> 0]
  BY DEF Queue!PQInit, TheBag
<1>1. \A k \in Keys : At(heap, 0, k) = {}
  BY DEF At
<1>2. \A k \in Keys : Count(heap, 0, k) = 0
  BY <1>1, FS_EmptySet DEF Count
<1> QED
  BY <1>2, BagCounts DEF HeapInit

LEMMA InsertIsInsert ==
  ASSUME Inv, NEW k \in Keys, pq_insert(k), size + 1 \in Places
  PROVE  Queue!Insert(k)
<1>1. HeapTypeOK /\ size \in Nat
  BY DEF Inv, HeapTypeOK
<1>2. \A j \in Keys : Count(heap', size', j) = Count(heap, size, j) + (IF j = k THEN 1 ELSE 0)
  BY <1>1, InsertCounts
<1>3. \A j \in Keys : Count(heap, size, j) \in Nat
  BY <1>1, CountType
<1>4. TheBag' = [TheBag EXCEPT ![k] = TheBag[k] + 1]
  BY <1>2, <1>3, BagCounts
<1> QED
  BY <1>4 DEF Queue!Insert, TheBag

LEMMA PopIsPop == ASSUME Inv, pq_pop PROVE \E k \in Keys : Queue!Pop(k)
<1>1. /\ HeapTypeOK /\ size \in Nat /\ size >= 1 /\ heap[1] \in Keys
      /\ \A p \in 2 .. size : heap[p \div 2] <= heap[p]
  BY HeapAssumption DEF Inv, HeapTypeOK, HeapOrdered, pq_pop, Places
<1>2. \A j \in Keys : Count(heap', size', j) = Count(heap, size, j) - (IF j = heap[1] THEN 1 ELSE 0)
  BY <1>1, PopCounts
<1>3. \A j \in Keys : Count(heap, size, j) \in Nat
  BY <1>1, CountType
<1>4. \A j \in Keys : TheBag[j] > 0 <=> \E p \in 1 .. size : heap[p] = j
  BY <1>1, CountPositive, BagCounts
<1>5. TheBag[heap[1]] > 0 /\ \A j \in Keys : TheBag[j] > 0 => heap[1] <= j
  BY <1>1, <1>4, RootIsLeast
<1>6. TheBag' = [TheBag EXCEPT ![heap[1]] = TheBag[heap[1]] - 1]
  BY <1>1, <1>2, <1>3, BagCounts
<1>7. Queue!Pop(heap[1])
  BY <1>5, <1>6 DEF Queue!Pop, Queue!Least, TheBag
<1> QED
  BY <1>1, <1>7

LEMMA ExchangeIsInvisible == Inv /\ (up \/ down) => TheBag' = TheBag
<1> SUFFICES ASSUME Inv, up \/ down PROVE TheBag' = TheBag
  OBVIOUS
<1>1. HeapTypeOK /\ size' = size
  BY DEF Inv, up, down
<1>2. CASE heap' = heap
  BY <1>1, <1>2, BagCounts
<1>3. CASE \E p, q \in 1 .. size : p # q /\ heap' = Swapped(p, q)
  <2>1. \A k \in Keys : Count(heap', size, k) = Count(heap, size, k)
    BY <1>1, <1>3, ExchangeCounts
  <2> QED
    BY <1>1, <2>1, BagCounts
<1>4. CASE up /\ heap' # heap
  <2>1. pos \in 1 .. size /\ pos > 1 /\ heap' = Swapped(pos, pos \div 2) /\ size \in Nat
    BY <1>1, <1>4 DEF up, HeapTypeOK, ParentOf
  <2>2. pos \div 2 \in 1 .. size /\ pos \div 2 # pos
    BY <2>1, Halves
  <2> QED
    BY <1>3, <2>1, <2>2
<1>5. CASE down /\ heap' # heap
  <2>1. /\ pos \in Nat /\ pos >= 1 /\ 2 * pos <= size /\ size \in Nat
        /\ heap' = Swapped(SmallerChild(pos), pos)
    BY <1>1, <1>5 DEF down, HeapTypeOK
  <2>2. /\ SmallerChild(pos) \in {2 * pos, 2 * pos + 1}
        /\ SmallerChild(pos) \in 2 .. size
    BY <1>1, <2>1, SmallerChildIsLeast
  <2>3. SmallerChild(pos) \in 1 .. size /\ pos \in 1 .. size /\ SmallerChild(pos) # pos
    BY <2>1, <2>2
  <2> QED
    BY <1>3, <2>1, <2>3
<1> QED
  BY <1>2, <1>4, <1>5

\* What pq_pop removes is a least key, every key comes out as often as it went in,
\* and the exchanges in between change nothing that the user of the heap sees.
THEOREM TakesTheLeastCorrect == HeapSpec => TakesTheLeast
<1>1. Inv /\ [HeapNext]_heapVars => [\E k \in Keys : Queue!Insert(k) \/ Queue!Pop(k)]_TheBag
  <2> SUFFICES ASSUME Inv, [HeapNext]_heapVars
               PROVE  (\E k \in Keys : Queue!Insert(k) \/ Queue!Pop(k)) \/ TheBag' = TheBag
    OBVIOUS
  <2>1. ASSUME NEW k \in Keys, pq_insert(k) PROVE Queue!Insert(k) \/ TheBag' = TheBag
    <3>1. CASE size + 1 \in Places
      BY <2>1, <3>1, InsertIsInsert
    <3>2. CASE size + 1 \notin Places
      BY <2>1, <3>2, BagCounts DEF pq_insert
    <3> QED
      BY <3>1, <3>2
  <2>2. CASE pq_pop
    BY <2>2, PopIsPop
  <2>3. CASE up \/ down
    BY <2>3, ExchangeIsInvisible
  <2>4. CASE UNCHANGED heapVars
    BY <2>4, BagCounts DEF heapVars
  <2> QED
    BY <2>1, <2>2, <2>3, <2>4 DEF HeapNext
<1> QED
  BY BagInit, <1>1, InvCorrect, PTL DEF HeapSpec, TakesTheLeast, Queue!PQSpec, TheBag

-----------------------------------------------------------------------------
(* A log line: what a reader makes of digits. *)

\* The recursion of Digits, up to m.
IsUpto(s, m, g) ==
  /\ g \in [0 .. m -> Int]
  /\ g[0] = 0
  /\ \A n \in 1 .. m : g[n] = 10 * g[n - 1] + s[n]

\* Recursion over a sequence has a solution, up to every position of it: a least
\* position without one would have one.
LEMMA UptoExists ==
  ASSUME NEW s \in Seq(Int)
  PROVE  \A m \in 0 .. Len(s) : \E g : IsUpto(s, m, g)
<1> DEFINE T == {m \in 0 .. Len(s) : ~ \E g : IsUpto(s, m, g)}
<1>1. SUFFICES ASSUME T # {} PROVE FALSE
  OBVIOUS
<1>2. Len(s) \in Nat /\ \A n \in 1 .. Len(s) : s[n] \in Int
  BY LenProperties, ElementOfSeq
<1>3. PICK m \in T : \A k \in T : m <= k
  <2>1. T \subseteq Nat
    BY <1>2
  <2> HIDE DEF T
  <2> QED
    BY <1>1, <2>1, LeastNumber
<1>4. m # 0
  <2>1. IsUpto(s, 0, [n \in 0 .. 0 |-> 0])
    BY DEF IsUpto
  <2> QED
    BY <1>3, <2>1
<1>5. m - 1 \in 0 .. Len(s) /\ m \in 1 .. Len(s) /\ m - 1 \notin T
  <2>1. m \in 0 .. Len(s) /\ \A k \in T : m <= k
    BY <1>3
  <2> HIDE DEF T
  <2>2. m - 1 \in 0 .. Len(s) /\ m \in 1 .. Len(s) /\ ~(m <= m - 1)
    BY <1>2, <1>4, <2>1
  <2> QED
    BY <2>1, <2>2
<1>6. PICK g : IsUpto(s, m - 1, g)
  BY <1>5
<1> DEFINE h == [n \in 0 .. m |-> IF n = m THEN 10 * g[m - 1] + s[m] ELSE g[n]]
<1>7. IsUpto(s, m, h)
  <2>1. /\ g \in [0 .. m - 1 -> Int] /\ g[0] = 0
        /\ \A n \in 1 .. m - 1 : g[n] = 10 * g[n - 1] + s[n]
    BY <1>6 DEF IsUpto
  <2>2. m \in Nat /\ m >= 1 /\ s[m] \in Int /\ g[m - 1] \in Int
    BY <1>2, <1>5, <2>1
  <2>3. h \in [0 .. m -> Int]
    BY <2>1, <2>2
  <2>4. h[0] = 0 /\ h[m] = 10 * g[m - 1] + s[m] /\ \A n \in 0 .. m - 1 : h[n] = g[n]
    BY <2>1, <2>2
  <2>5. ASSUME NEW n \in 1 .. m PROVE h[n] = 10 * h[n - 1] + s[n]
    <3>1. CASE n = m
      BY <2>2, <2>4, <3>1
    <3>2. CASE n # m
      BY <2>1, <2>2, <2>4, <3>2
    <3> QED
      BY <3>1, <3>2
  <2> HIDE DEF h
  <2> QED
    BY <2>3, <2>4, <2>5 DEF IsUpto
<1> QED
  BY <1>3, <1>7

\* Two solutions agree on what they have in common.
LEMMA UptoUnique ==
  ASSUME NEW m \in Nat, NEW l \in Nat, m <= l,
         NEW s \in Seq(Int), NEW t \in Seq(Int), \A n \in 1 .. m : s[n] = t[n],
         NEW g, IsUpto(s, m, g), NEW h, IsUpto(t, l, h)
  PROVE  \A n \in 0 .. m : g[n] = h[n]
<1> DEFINE T == {n \in 0 .. m : g[n] # h[n]}
<1>1. SUFFICES ASSUME T # {} PROVE FALSE
  OBVIOUS
<1>2. PICK n \in T : \A k \in T : n <= k
  <2>1. T \subseteq Nat
    OBVIOUS
  <2> HIDE DEF T
  <2> QED
    BY <1>1, <2>1, LeastNumber
<1>3. n # 0
  BY <1>2 DEF IsUpto
<1>4. n - 1 \in 0 .. m /\ n \in 1 .. m /\ n \in 1 .. l /\ n - 1 \notin T
  BY <1>2, <1>3
<1>5. g[n - 1] = h[n - 1]
  BY <1>4
<1> QED
  BY <1>2, <1>4, <1>5 DEF IsUpto

\* So the function that Digits chooses is the solution.
LEMMA DigitsIs ==
  ASSUME NEW s \in Seq(Int)
  PROVE  \E g : IsUpto(s, Len(s), g) /\ Digits(s) = g[Len(s)]
<1> DEFINE Solves(g) == g = [n \in 0 .. Len(s) |-> IF n = 0 THEN 0 ELSE 10 * g[n - 1] + s[n]]
<1>1. Len(s) \in Nat /\ \A n \in 1 .. Len(s) : s[n] \in Int
  BY LenProperties, ElementOfSeq
<1>2. \E g : Solves(g)
  <2>1. PICK g : IsUpto(s, Len(s), g)
    BY <1>1, UptoExists
  <2>2. g = [n \in 0 .. Len(s) |-> g[n]]
    BY <2>1 DEF IsUpto
  <2>3. \A n \in 0 .. Len(s) : g[n] = IF n = 0 THEN 0 ELSE 10 * g[n - 1] + s[n]
    BY <1>1, <2>1 DEF IsUpto
  <2> QED
    BY <2>2, <2>3
<1>3. Digits(s) = (CHOOSE g : Solves(g))[Len(s)]
  BY Zenon DEF Digits
<1> DEFINE f == CHOOSE g : Solves(g)
<1>4. Solves(f)
  BY <1>2, Zenon
<1>5. IsUpto(s, Len(s), f)
  <2> HIDE DEF f
  <2>1. f = [n \in 0 .. Len(s) |-> IF n = 0 THEN 0 ELSE 10 * f[n - 1] + s[n]]
    BY <1>4
  <2> HIDE DEF Solves
  <2>2. f[0] = 0 /\ \A n \in 1 .. Len(s) : f[n] = 10 * f[n - 1] + s[n]
    <3>1. \A n \in 0 .. Len(s) : f[n] = IF n = 0 THEN 0 ELSE 10 * f[n - 1] + s[n]
      BY <2>1, Zenon
    <3> QED
      BY <1>1, <3>1
  <2>3. \A n \in 0 .. Len(s) : f[n] \in Int
    <3> DEFINE T == {n \in 0 .. Len(s) : f[n] \notin Int}
    <3>1. SUFFICES ASSUME T # {} PROVE FALSE
      OBVIOUS
    <3>2. PICK n \in T : \A k \in T : n <= k
      <4>1. T \subseteq Nat
        BY <1>1
      <4> HIDE DEF T
      <4> QED
        BY <3>1, <4>1, LeastNumber
    <3>3. n # 0 /\ n - 1 \in 0 .. Len(s) /\ n - 1 \notin T /\ n \in 1 .. Len(s)
      BY <1>1, <2>2, <3>2
    <3>4. f[n] \notin Int
      BY <3>2
    <3>5. f[n - 1] \in Int /\ s[n] \in Int /\ f[n] = 10 * f[n - 1] + s[n]
      BY <1>1, <2>2, <3>3
    <3> QED
      BY <3>4, <3>5
  <2>4. f \in [0 .. Len(s) -> Int]
    BY <2>1, <2>3
  <2> QED
    BY <2>2, <2>4 DEF IsUpto
<1> QED
  BY <1>3, <1>5

\* No digits are zero.
LEMMA DigitsEmpty == Digits(<<>>) = 0
  BY DigitsIs, EmptySeq DEF IsUpto

\* One more digit is ten times as much, and that digit.
LEMMA DigitsAppend ==
  ASSUME NEW s \in Seq(Int), NEW d \in Int
  PROVE  Digits(s) \in Int /\ Digits(Append(s, d)) = 10 * Digits(s) + d
<1> DEFINE t == Append(s, d)
<1>1. /\ t \in Seq(Int) /\ Len(t) = Len(s) + 1 /\ Len(s) \in Nat
      /\ \A n \in 1 .. Len(s) : s[n] = t[n]
      /\ t[Len(s) + 1] = d
  BY AppendProperties, LenProperties
<1>2. PICK g : IsUpto(s, Len(s), g) /\ Digits(s) = g[Len(s)]
  BY DigitsIs
<1>3. PICK h : IsUpto(t, Len(t), h) /\ Digits(t) = h[Len(t)]
  BY <1>1, DigitsIs
<1> HIDE DEF t
<1>4. g[Len(s)] = h[Len(s)]
  <2>1. Len(t) \in Nat /\ Len(s) <= Len(t)
    BY <1>1
  <2>2. \A n \in 0 .. Len(s) : g[n] = h[n]
    <3>1. IsUpto(s, Len(s), g) /\ IsUpto(t, Len(t), h)
      BY <1>2, <1>3
    <3>2. t \in Seq(Int) /\ Len(s) \in Nat /\ \A n \in 1 .. Len(s) : s[n] = t[n]
      BY <1>1
    <3> QED
      BY <2>1, <3>1, <3>2, UptoUnique
  <2> QED
    BY <1>1, <2>2
<1>5. h[Len(s) + 1] = 10 * h[Len(s)] + d
  <2>1. Len(s) + 1 \in 1 .. Len(t) /\ (Len(s) + 1) - 1 = Len(s)
    BY <1>1
  <2> QED
    BY <1>1, <1>3, <2>1 DEF IsUpto
<1>6. g[Len(s)] \in Int
  <2>1. g \in [0 .. Len(s) -> Int]
    BY <1>2 DEF IsUpto
  <2>2. Len(s) \in 0 .. Len(s)
    BY <1>1
  <2> QED
    BY <2>1, <2>2
<1> QED
  BY <1>1, <1>2, <1>3, <1>4, <1>5, <1>6 DEF t

-----------------------------------------------------------------------------
(* The digits that convert makes. *)

Abs(i) == IF i < 0 THEN -i ELSE i

\* Division by ten makes every number smaller, and a digit remains.
LEMMA Division ==
  ASSUME NEW i \in Int
  PROVE  /\ Quotient(i) \in Int /\ Remainder(i) \in -9 .. 9
         /\ Abs(i) \in Nat /\ Abs(Quotient(i)) \in Nat
         /\ Abs(Quotient(i)) <= Abs(i)
         /\ Quotient(i) # 0 => Abs(Quotient(i)) < Abs(i)
         /\ Abs(i) = 10 * Abs(Quotient(i)) + Abs(Remainder(i))
  BY DEF Quotient, Remainder, Abs

Decimals == 0 .. 9

\* The digit in the table is the size of the remainder.
LEMMA DigitOf ==
  ASSUME NEW r \in -9 .. 9
  PROVE  zero(r) = Abs(r) /\ zero(r) \in Decimals
  BY DEF zero, digits, Abs, Decimals

\* One step of the recursion.
Longer(i, t) == <<zero(Remainder(i))>> \o (IF Quotient(i) = 0 THEN <<>> ELSE t)

\* A step gives digits.
LEMMA LongerType ==
  ASSUME NEW i \in Int, NEW t \in Seq(Decimals)
  PROVE  Longer(i, t) \in Seq(Decimals)
<1>1. zero(Remainder(i)) \in Decimals
  BY Division, DigitOf
<1> QED
  BY <1>1 DEF Longer

\* The recursion of lsds, between -n and n.
IsDigits(n, g) ==
  /\ g \in [-n .. n -> Seq(Decimals)]
  /\ \A i \in -n .. n : g[i] = Longer(i, g[Quotient(i)])

\* The recursion of lsds has a solution on every interval around zero, ...
LEMMA DigitsExist == \A n \in Nat : \E g : IsDigits(n, g)
<1> DEFINE T == {n \in Nat : ~ \E g : IsDigits(n, g)}
<1>1. SUFFICES ASSUME T # {} PROVE FALSE
  OBVIOUS
<1>2. PICK m \in T : \A k \in T : m <= k
  <2>1. T \subseteq Nat
    OBVIOUS
  <2> HIDE DEF T
  <2> QED
    BY <1>1, <2>1, LeastNumber
<1>3. m # 0
  <2> DEFINE g == [i \in 0 .. 0 |-> Longer(0, <<>>)]
  <2>1. Quotient(0) = 0 /\ Longer(0, g[0]) = Longer(0, <<>>)
    <3>1. Quotient(0) = 0
      BY DEF Quotient
    <3>2. Longer(0, g[0]) = <<zero(Remainder(0))>> \o <<>> /\ Longer(0, <<>>) = <<zero(Remainder(0))>> \o <<>>
      <4> HIDE DEF g
      <4> QED
        BY <3>1 DEF Longer
    <3> QED
      BY <3>1, <3>2
  <2>2. Longer(0, <<>>) \in Seq(Decimals)
    <3>1. \A t \in Seq(Decimals) : Longer(0, t) \in Seq(Decimals)
      BY LongerType
    <3>2. <<>> \in Seq(Decimals)
      BY EmptySeq
    <3> QED
      BY <3>1, <3>2, Zenon
  <2>3. IsDigits(0, g)
    <3>1. -0 .. 0 = 0 .. 0 /\ \A i \in 0 .. 0 : i = 0
      OBVIOUS
    <3>2. g \in [0 .. 0 -> Seq(Decimals)] /\ g[0] = Longer(0, <<>>)
      BY <2>2
    <3> HIDE DEF g
    <3> QED
      BY <2>1, <3>1, <3>2 DEF IsDigits
  <2> QED
    BY <1>2, <2>3
<1>4. m \in Nat /\ m - 1 \in Nat /\ m - 1 \notin T
  BY <1>2, <1>3
<1>5. PICK g : IsDigits(m - 1, g)
  BY <1>4
<1>6. /\ g \in [-(m - 1) .. m - 1 -> Seq(Decimals)]
      /\ \A i \in -(m - 1) .. m - 1 : g[i] = Longer(i, g[Quotient(i)])
  BY <1>5 DEF IsDigits
<1> DEFINE h == [i \in -m .. m |-> IF Abs(i) = m THEN Longer(i, g[Quotient(i)]) ELSE g[i]]
<1>7. ASSUME NEW i \in -m .. m
      PROVE  /\ Abs(i) # m => i \in -(m - 1) .. m - 1
             /\ Quotient(i) \in -(m - 1) .. m - 1
  <2>1. Abs(i) # m => i \in -(m - 1) .. m - 1
    BY <1>4 DEF Abs
  <2>2. Abs(Quotient(i)) < m
    <3>1. Abs(i) <= m /\ i \in Int
      BY <1>4 DEF Abs
    <3>2. CASE Quotient(i) # 0
      BY <1>4, <3>1, <3>2, Division
    <3>3. CASE Quotient(i) = 0
      BY <1>4, <1>3, <3>3 DEF Abs
    <3> QED
      BY <3>2, <3>3
  <2>3. Quotient(i) \in Int
    BY <1>4, Division
  <2> QED
    BY <1>4, <2>1, <2>2, <2>3 DEF Abs
<1>8. \A i \in -(m - 1) .. m - 1 : h[i] = g[i]
  BY <1>4 DEF Abs
<1>9. ASSUME NEW i \in -m .. m
      PROVE  h[i] = Longer(i, h[Quotient(i)]) /\ h[i] \in Seq(Decimals)
  <2>1. h[Quotient(i)] = g[Quotient(i)] /\ g[Quotient(i)] \in Seq(Decimals)
    BY <1>6, <1>7, <1>8
  <2>2. h[i] = Longer(i, g[Quotient(i)])
    BY <1>6, <1>7
  <2>3. i \in Int
    BY <1>4
  <2> HIDE DEF h
  <2> QED
    BY <2>1, <2>2, <2>3, LongerType
<1>10. IsDigits(m, h)
  <2>1. h \in [-m .. m -> Seq(Decimals)]
    BY <1>9
  <2> HIDE DEF h
  <2> QED
    BY <1>9, <2>1 DEF IsDigits
<1> QED
  BY <1>2, <1>10

\* ... which two intervals agree on, ...
LEMMA DigitsUnique ==
  ASSUME NEW m \in Nat, NEW n \in Nat, m <= n, NEW g, IsDigits(m, g), NEW h, IsDigits(n, h)
  PROVE  \A i \in -m .. m : g[i] = h[i]
<1> DEFINE T == {Abs(i) : i \in {j \in -m .. m : g[j] # h[j]}}
<1>1. SUFFICES ASSUME T # {} PROVE FALSE
  OBVIOUS
<1>2. PICK a \in T : \A k \in T : a <= k
  <2>1. T \subseteq Nat
    BY DEF Abs
  <2> HIDE DEF T
  <2> QED
    BY <1>1, <2>1, LeastNumber
<1>3. PICK i \in -m .. m : Abs(i) = a /\ g[i] # h[i]
  BY <1>2
<1>4. g[i] = Longer(i, g[Quotient(i)]) /\ h[i] = Longer(i, h[Quotient(i)])
  BY DEF IsDigits
<1>5. Quotient(i) # 0 /\ g[Quotient(i)] # h[Quotient(i)]
  BY <1>3, <1>4 DEF Longer
<1>6. Abs(Quotient(i)) < Abs(i) /\ Quotient(i) \in Int
  BY <1>5, Division
<1>7. Quotient(i) \in -m .. m
  BY <1>6 DEF Abs
<1>8. Abs(Quotient(i)) \in T
  BY <1>5, <1>7
<1>9. a <= Abs(Quotient(i))
  BY <1>2, <1>8
<1>10. i \in Int /\ Abs(i) \in Int /\ Abs(Quotient(i)) \in Int
  BY <1>6 DEF Abs
<1> HIDE DEF T
<1> QED
  BY <1>3, <1>6, <1>9, <1>10

\* ... so that lsds, which is defined on all numbers, is what it is defined to be.
LEMMA LsdsIs == \A i \in Int : lsds[i] = Longer(i, lsds[Quotient(i)])
<1> DEFINE Solves(g) ==
      g = [i \in Int |-> <<zero(Remainder(i))>> \o (IF Quotient(i) = 0 THEN <<>> ELSE g[Quotient(i)])]
<1>1. lsds = CHOOSE g : Solves(g)
  BY Zenon DEF lsds
<1>2. \E g : Solves(g)
  <2> DEFINE Part(n) == CHOOSE g : IsDigits(n, g)
             f == [i \in Int |-> Part(Abs(i))[i]]
  <2>1. \A n \in Nat : IsDigits(n, Part(n))
    BY DigitsExist, Zenon
  <2> HIDE DEF Part
  <2>2. ASSUME NEW i \in Int PROVE f[i] = Longer(i, f[Quotient(i)])
    <3>1. /\ Abs(i) \in Nat /\ Abs(Quotient(i)) \in Nat /\ Abs(Quotient(i)) <= Abs(i)
          /\ Quotient(i) \in Int
      BY Division
    <3>2. i \in -Abs(i) .. Abs(i) /\ Quotient(i) \in -Abs(Quotient(i)) .. Abs(Quotient(i))
      BY <3>1 DEF Abs
    <3>3. Part(Abs(i))[i] = Longer(i, Part(Abs(i))[Quotient(i)])
      BY <2>1, <3>1, <3>2 DEF IsDigits
    <3>4. Part(Abs(Quotient(i)))[Quotient(i)] = Part(Abs(i))[Quotient(i)]
      BY <2>1, <3>1, <3>2, DigitsUnique
    <3> QED
      BY <3>1, <3>3, <3>4
  <2>3. f = [i \in Int |-> f[i]]
    OBVIOUS
  <2> HIDE DEF f
  <2>4. Solves(f)
    BY <2>2, <2>3 DEF Longer
  <2> QED
    BY <2>4
<1>3. Solves(lsds)
  BY <1>1, <1>2, Zenon
<1> QED
  BY <1>3 DEF Longer

\* Digits turned round are digits.
LEMMA ReverseType ==
  ASSUME NEW t \in Seq(Decimals)
  PROVE  Reverse(t) \in Seq(Decimals) /\ Reverse(t) \in Seq(Int) /\ Len(Reverse(t)) = Len(t)
<1>1. Len(t) \in Nat /\ \A n \in 1 .. Len(t) : t[n] \in Decimals
  BY LenProperties, ElementOfSeq
<1>2. Reverse(t) = [n \in 1 .. Len(t) |-> t[(Len(t) - n) + 1]]
  BY DEF Reverse
<1>3. \A n \in 1 .. Len(t) : (Len(t) - n) + 1 \in 1 .. Len(t)
  BY <1>1
<1>4. Reverse(t) \in [1 .. Len(t) -> Decimals]
  BY <1>1, <1>2, <1>3
<1>5. Reverse(t) \in [1 .. Len(t) -> Int]
  BY <1>4 DEF Decimals
<1> QED
  BY <1>1, <1>4, <1>5, SeqDef, LenProperties

\* The first becomes the last.
LEMMA ReverseLonger ==
  ASSUME NEW t \in Seq(Decimals), NEW d \in Decimals
  PROVE  Reverse(<<d>> \o t) = Append(Reverse(t), d)
<1>1. /\ Len(t) \in Nat /\ <<d>> \o t \in Seq(Decimals) /\ Len(<<d>> \o t) = Len(t) + 1
      /\ \A n \in 1 .. Len(t) + 1 : (<<d>> \o t)[n] = IF n = 1 THEN d ELSE t[n - 1]
  BY LenProperties, ConcatProperties
<1> QED
  BY <1>1 DEF Reverse

\* The digits of every number, turned round, are read as its size.
LEMMA LsdsRead ==
  \A i \in Int : /\ lsds[i] \in Seq(Decimals) /\ Len(lsds[i]) >= 1
                 /\ Digits(Reverse(lsds[i])) = Abs(i)
<1> DEFINE Good(i) == /\ lsds[i] \in Seq(Decimals) /\ Len(lsds[i]) >= 1
                      /\ Digits(Reverse(lsds[i])) = Abs(i)
           T == {Abs(i) : i \in {j \in Int : ~Good(j)}}
<1>1. SUFFICES ASSUME T # {} PROVE FALSE
  OBVIOUS
<1>2. PICK a \in T : \A k \in T : a <= k
  <2>1. T \subseteq Nat
    <3> HIDE DEF Good
    <3> QED
      BY DEF Abs
  <2> HIDE DEF T
  <2> QED
    BY <1>1, <2>1, LeastNumber
<1>3. PICK i \in Int : Abs(i) = a /\ ~Good(i)
  <2> HIDE DEF Good
  <2> QED
    BY <1>2
<1> DEFINE q == Quotient(i)
           d == zero(Remainder(i))
<1>4. /\ q \in Int /\ d \in Decimals /\ d = Abs(Remainder(i))
      /\ Abs(i) \in Nat /\ Abs(q) \in Nat
      /\ q # 0 => Abs(q) < Abs(i)
      /\ Abs(i) = 10 * Abs(q) + d
  BY Division, DigitOf
<1> HIDE DEF d, q
<1>5. lsds[i] = <<d>> \o (IF q = 0 THEN <<>> ELSE lsds[q])
  BY LsdsIs DEF Longer, d, q
<1>6. CASE q = 0
  <2>1. lsds[i] = <<d>>
    BY <1>5, <1>6
  <2>2. Reverse(<<d>>) = Append(<<>>, d)
    BY DEF Reverse
  <2>3. Digits(Append(<<>>, d)) = d
    <3>1. <<>> \in Seq(Int) /\ d \in Int
      BY <1>4 DEF Decimals
    <3>2. Digits(Append(<<>>, d)) = 10 * Digits(<<>>) + d
      BY <3>1, DigitsAppend
    <3> QED
      BY <3>1, <3>2, DigitsEmpty
  <2>4. Abs(i) = d
    BY <1>4, <1>6 DEF Abs
  <2>5. <<d>> \in Seq(Decimals) /\ Len(<<d>>) = 1
    BY <1>4
  <2> QED
    BY <1>3, <2>1, <2>2, <2>3, <2>4, <2>5
<1>7. CASE q # 0
  <2>1. Good(q)
    <3>1. Abs(q) < a /\ a \in Nat /\ Abs(q) \in Nat
      BY <1>3, <1>4, <1>7
    <3>2. Abs(q) \notin T
      <4> HIDE DEF T
      <4> QED
        BY <1>2, <3>1
    <3> HIDE DEF Good
    <3> QED
      BY <1>4, <3>2
  <2> DEFINE t == lsds[q]
  <2>2. t \in Seq(Decimals) /\ Len(t) >= 1 /\ Digits(Reverse(t)) = Abs(q) /\ Len(t) \in Nat
    BY <2>1, LenProperties
  <2> HIDE DEF t
  <2>3. lsds[i] = <<d>> \o t
    BY <1>5, <1>7 DEF t
  <2>4. <<d>> \o t \in Seq(Decimals) /\ Len(<<d>> \o t) >= 1
    BY <1>4, <2>2
  <2>5. Reverse(<<d>> \o t) = Append(Reverse(t), d)
    BY <1>4, <2>2, ReverseLonger
  <2>6. Reverse(t) \in Seq(Int) /\ d \in Int
    <3>1. d \in Int
      BY <1>4 DEF Decimals
    <3> QED
      BY <2>2, <3>1, ReverseType
  <2>7. Digits(Append(Reverse(t), d)) = 10 * Abs(q) + d
    BY <2>2, <2>6, DigitsAppend
  <2> QED
    BY <1>3, <1>4, <2>3, <2>4, <2>5, <2>7
<1> QED
  BY <1>6, <1>7

\* The values are integers.
LEMMA ValuesAreNumbers == Values \subseteq Int
  BY StreamAssumption DEF Values

Symbols == 0 .. 9 \cup {minus, ch}

\* The sign, which convert puts at the end, becomes the first.
LEMMA SignFirst ==
  ASSUME NEW t \in Seq(Symbols), NEW m \in Symbols
  PROVE  /\ Reverse(t \o <<m>>) = <<m>> \o Reverse(t)
         /\ Tail(<<m>> \o Reverse(t)) = Reverse(t)
         /\ (<<m>> \o Reverse(t))[1] = m
         /\ <<m>> \o Reverse(t) \in Seq(Symbols)
         /\ Len(<<m>> \o Reverse(t)) = Len(t) + 1
<1>1. /\ Len(t) \in Nat /\ t \o <<m>> \in Seq(Symbols) /\ Len(t \o <<m>>) = Len(t) + 1
      /\ \A n \in 1 .. Len(t) + 1 : (t \o <<m>>)[n] = IF n = Len(t) + 1 THEN m ELSE t[n]
      /\ \A n \in 1 .. Len(t) : t[n] \in Symbols
  BY LenProperties, ElementOfSeq, ConcatProperties
<1>2. Reverse(t) \in Seq(Symbols) /\ Len(Reverse(t)) = Len(t)
  <2>1. Reverse(t) = [n \in 1 .. Len(t) |-> t[(Len(t) - n) + 1]]
    BY DEF Reverse
  <2>2. Reverse(t) \in [1 .. Len(t) -> Symbols]
    BY <1>1, <2>1
  <2> QED
    BY <1>1, <2>2, SeqDef, LenProperties
<1>3. \A n \in 1 .. Len(t) : Reverse(t)[n] = t[(Len(t) - n) + 1]
  BY DEF Reverse
<1> DEFINE r == Reverse(t)
<1>4. r \in Seq(Symbols) /\ Len(r) = Len(t) /\ \A n \in 1 .. Len(t) : r[n] = t[(Len(t) - n) + 1]
  BY <1>2, <1>3
<1>5. Reverse(t \o <<m>>) = [n \in 1 .. Len(t) + 1 |-> IF n = 1 THEN m ELSE t[(Len(t) - (n - 1)) + 1]]
  BY <1>1 DEF Reverse
<1> HIDE DEF r
<1>6. /\ <<m>> \o r \in Seq(Symbols) /\ Len(<<m>> \o r) = Len(t) + 1
      /\ \A n \in 1 .. Len(t) + 1 : (<<m>> \o r)[n] = IF n = 1 THEN m ELSE r[n - 1]
  BY <1>1, <1>4, ConcatProperties
<1> DEFINE s == <<m>> \o r
<1>7. s \in Seq(Symbols) /\ Len(s) = Len(t) + 1 /\ \A n \in 1 .. Len(t) + 1 : s[n] = IF n = 1 THEN m ELSE r[n - 1]
  BY <1>6
<1> HIDE DEF s
<1>8. s = Reverse(t \o <<m>>)
  <2>1. \A n \in 1 .. Len(t) + 1 : s[n] = IF n = 1 THEN m ELSE t[(Len(t) - (n - 1)) + 1]
    <3> SUFFICES ASSUME NEW n \in 1 .. Len(t) + 1
                 PROVE  s[n] = IF n = 1 THEN m ELSE t[(Len(t) - (n - 1)) + 1]
      OBVIOUS
    <3>1. n # 1 => n - 1 \in 1 .. Len(t)
      BY <1>1
    <3> QED
      BY <1>4, <1>7, <3>1
  <2>2. s = [n \in 1 .. Len(s) |-> s[n]]
    BY <1>7
  <2> QED
    BY <1>5, <1>7, <2>1, <2>2
<1>9. Tail(s) = r
  <2>1. s # <<>>
    BY <1>1, <1>7
  <2>2. /\ Tail(s) \in Seq(Symbols) /\ Len(Tail(s)) = Len(t)
        /\ \A n \in 1 .. Len(t) : Tail(s)[n] = s[n + 1]
    <3>1. /\ Tail(s) \in Seq(Symbols) /\ Len(Tail(s)) = Len(s) - 1
          /\ \A n \in 1 .. Len(Tail(s)) : Tail(s)[n] = s[n + 1]
      BY <1>7, <2>1, HeadTailProperties
    <3> QED
      BY <1>1, <1>7, <3>1
  <2>3. ASSUME NEW n \in 1 .. Len(t) PROVE s[n + 1] = r[n]
    <3>1. n + 1 \in 1 .. Len(t) + 1 /\ n + 1 # 1 /\ (n + 1) - 1 = n
      BY <1>1
    <3> QED
      BY <1>7, <3>1
  <2>4. Len(Tail(s)) = Len(r) /\ \A n \in 1 .. Len(Tail(s)) : Tail(s)[n] = r[n]
    BY <1>4, <2>2, <2>3
  <2> QED
    BY <1>4, <2>2, <2>4, SeqEqual, Zenon
<1>10. s[1] = m
  BY <1>1, <1>7
<1>11. s = <<m>> \o Reverse(t) /\ r = Reverse(t)
  BY DEF r, s
<1> QED
  BY <1>7, <1>8, <1>9, <1>10, <1>11

\* What convert makes of a number is read as that number.
LEMMA ConvertReads ==
  ASSUME NEW v \in Values
  PROVE  /\ convert(v) \in Seq(Symbols) /\ Len(convert(v)) \in Nat \ {0}
         /\ ReadBack(convert(v)) = v
<1>1. v \in Int
  BY ValuesAreNumbers
<1> DEFINE t == lsds[v]
<1>2. t \in Seq(Decimals) /\ Len(t) >= 1 /\ Digits(Reverse(t)) = Abs(v) /\ Len(t) \in Nat
  BY <1>1, LsdsRead, LenProperties
<1>3. convert(v) = Reverse(t \o (IF v < 0 THEN <<minus>> ELSE <<>>))
  BY DEF convert
<1> HIDE DEF t
<1>4. t \in Seq(Symbols)
  BY <1>2 DEF Decimals, Symbols
<1>5. CASE v < 0
  <2>1. minus \in Symbols
    BY DEF Symbols
  <2>2. convert(v) = <<minus>> \o Reverse(t)
    BY <1>3, <1>4, <1>5, <2>1, SignFirst
  <2> DEFINE s == <<minus>> \o Reverse(t)
  <2>3. Tail(s) = Reverse(t) /\ s[1] = minus /\ s \in Seq(Symbols) /\ Len(s) = Len(t) + 1
    BY <1>4, <2>1, SignFirst
  <2> HIDE DEF s
  <2>4. convert(v) = s
    BY <2>2 DEF s
  <2>5. ReadBack(s) = -Digits(Tail(s))
    BY <2>3 DEF ReadBack
  <2>6. ReadBack(s) = -Abs(v)
    BY <1>2, <2>3, <2>5
  <2>7. -Abs(v) = v
    BY <1>1, <1>5 DEF Abs
  <2> QED
    BY <1>2, <2>3, <2>4, <2>6, <2>7
<1>6. CASE ~(v < 0)
  <2> DEFINE s == Reverse(t)
  <2>1. convert(v) = s
    <3>1. t \o <<>> = t
      BY <1>4
    <3> QED
      BY <1>3, <1>6, <3>1
  <2>2. s \in Seq(Decimals) /\ Len(s) = Len(t) /\ Digits(s) = Abs(v)
    BY <1>2, ReverseType
  <2> HIDE DEF s
  <2>3. s[1] # minus
    <3>1. s[1] \in Decimals
      BY <1>2, <2>2, ElementOfSeq
    <3> QED
      BY <3>1, StreamAssumption DEF Decimals
  <2>4. ReadBack(s) = Digits(s)
    BY <2>3 DEF ReadBack
  <2>5. Abs(v) = v
    BY <1>1, <1>6 DEF Abs
  <2>6. s \in Seq(Symbols)
    BY <2>2 DEF Decimals, Symbols
  <2> QED
    BY <1>2, <2>1, <2>2, <2>4, <2>5, <2>6
<1> QED
  BY <1>5, <1>6

-----------------------------------------------------------------------------
(* The log line. *)

\* A number in the line is what convert makes of it.
IsThere(d, p) ==
  /\ p \in [from : Nat, to : Nat, value : Values]
  /\ 1 <= p.from /\ p.from <= p.to /\ p.to <= Len(d)
  /\ SubSeq(d, p.from, p.to) = convert(p.value)

AreThere(d, q) == \A p \in q : IsThere(d, p)

\* The inductive invariant of a line.
LineInv ==
  /\ LogTypeOK
  /\ AreThere(data, put)

\* What is in the line stays when something is written behind it.
LEMMA Behind ==
  ASSUME LineInv, NEW s \in Seq(Symbols)
  PROVE  /\ data \o s \in Seq(Symbols) /\ Len(data \o s) = Len(data) + Len(s)
         /\ AreThere(data \o s, put)
<1>1. data \in Seq(Symbols) /\ Len(data) \in Nat /\ Len(s) \in Nat
  BY LenProperties DEF LineInv, LogTypeOK, Symbols
<1>2. data \o s \in Seq(Symbols) /\ Len(data \o s) = Len(data) + Len(s)
  BY <1>1, ConcatProperties
<1>3. ASSUME NEW p \in put PROVE IsThere(data \o s, p)
  <2>1. IsThere(data, p)
    BY DEF LineInv, AreThere
  <2>2. p.from \in 1 .. Len(data) /\ p.to \in 1 .. Len(data)
    BY <1>1, <2>1 DEF IsThere
  <2>3. SubSeq(data \o s, p.from, p.to) = SubSeq(data, p.from, p.to)
    BY <1>1, <2>2, SubSeqOfConcat1
  <2>4. p.to <= Len(data \o s)
    BY <1>1, <1>2, <2>2
  <2> HIDE DEF Symbols
  <2> QED
    BY <2>1, <2>3, <2>4 DEF IsThere
<1> QED
  BY <1>2, <1>3 DEF AreThere

\* The larger of two numbers is one of them.
LEMMA MostOf ==
  ASSUME NEW a \in Nat, NEW b \in Nat
  PROVE  Max({a, b}) \in {a, b} /\ Max({a, b}) \in Nat
<1>1. \E x \in {a, b} : \A y \in {a, b} : x >= y
  OBVIOUS
<1> QED
  BY <1>1 DEF Max

\* n bytes behind the line, when there is room for them.
LEMMA WroteInv ==
  ASSUME LineInv, NEW n \in Nat, n <= avail, Wrote(n)
  PROVE  top' \in 0 .. SIZE
<1>1. Len(data) \in Nat /\ SIZE \in Nat /\ top \in 0 .. SIZE
  BY StreamAssumption, LenProperties DEF LineInv, LogTypeOK
<1>2. Len(data) + n \in 0 .. SIZE
  BY <1>1 DEF avail
<1>3. top' \in {top, Len(data) + n}
  BY <1>1, <1>2, MostOf DEF Wrote
<1> QED
  BY <1>1, <1>2, <1>3

\* The characters of a text.
LEMMA Characters ==
  ASSUME NEW n \in Nat
  PROVE  [i \in 1 .. n |-> ch] \in Seq(Symbols) /\ Len([i \in 1 .. n |-> ch]) = n
<1>1. ch \in Symbols
  BY DEF Symbols
<1>2. [i \in 1 .. n |-> ch] \in [1 .. n -> Symbols]
  BY <1>1
<1> QED
  BY <1>2, SeqDef, LenProperties

\* What the operations on the buffer keep, whatever the items and the stage are.
Kept ==
  /\ data' \in Seq(Symbols) /\ Len(data') < SIZE
  /\ top' \in 0 .. SIZE
  /\ AreThere(data', put')

\* What is dropped changes nothing.
LEMMA UnchangedKept ==
  LineInv /\ UNCHANGED <<data, top, put>> => Kept
  BY DEF LineInv, LogTypeOK, Kept, Symbols

\* Text behind the line keeps it.
LEMMA TextKept ==
  ASSUME LineInv, NEW n \in Nat, NEW m \in Nat, n < avail, m <= avail,
         data' = data \o [i \in 1 .. n |-> ch], Wrote(m), UNCHANGED put
  PROVE  Kept
<1>1. data' \in Seq(Symbols) /\ Len(data') = Len(data) + n /\ AreThere(data', put')
  BY Behind, Characters
<1>2. Len(data) \in Nat /\ SIZE \in Nat
  BY StreamAssumption, LenProperties DEF LineInv, LogTypeOK
<1>3. top' \in 0 .. SIZE
  BY WroteInv
<1>4. Len(data') < SIZE
  <2>1. n < SIZE - Len(data)
    BY DEF avail
  <2> QED
    BY <1>1, <1>2, <2>1
<1> QED
  BY <1>1, <1>3, <1>4 DEF Kept

\* The room that is left is a number.
LEMMA RoomIsNumber ==
  ASSUME LineInv
  PROVE  avail \in Int /\ number_size_limit \in Nat /\ Len(data) \in Nat /\ data \in Seq(Symbols)
<1>1. data \in Seq(Symbols)
  BY DEF LineInv, LogTypeOK, Symbols
<1>2. Len(data) \in Nat
  BY <1>1, LenProperties
<1>3. SIZE \in Nat /\ number_size_limit \in Nat
  BY StreamAssumption
<1> QED
  BY <1>1, <1>2, <1>3 DEF avail

\* append keeps the line, ...
LEMMA AppendKept ==
  ASSUME LineInv, NEW n \in Nat, append(n)
  PROVE  Kept
<1>1. avail \in Int
  BY RoomIsNumber
<1>2. CASE avail > n
  <2>1. n < avail /\ n <= avail
    BY <1>1, <1>2
  <2> QED
    BY <1>2, <2>1, TextKept DEF append
<1>3. CASE ~(avail > n)
  BY <1>3, UnchangedKept DEF append
<1> QED
  BY <1>2, <1>3

\* ... and so does a double, ...
LEMMA DoubleKept ==
  ASSUME LineInv, NEW n \in Nat, format_double(n)
  PROVE  Kept
<1>1. avail \in Int /\ number_size_limit \in Nat
  BY RoomIsNumber
<1>2. CASE RoomForNumber
  <2>1. n + 1 \in Nat /\ n + 1 <= avail /\ n < avail
    BY <1>1, <1>2 DEF RoomForNumber, format_double
  <2> QED
    BY <1>2, <2>1, TextKept DEF format_double
<1>3. CASE ~RoomForNumber
  BY <1>3, UnchangedKept DEF format_double
<1> QED
  BY <1>2, <1>3

\* ... and so does an integer, which is at its place then.
LEMMA IntegerKept ==
  ASSUME LineInv, NEW v \in Values, format_integer(v)
  PROVE  Kept /\ put' \subseteq [from : Nat, to : Nat, value : Values]
<1>1. avail \in Int /\ number_size_limit \in Nat /\ Len(data) \in Nat /\ data \in Seq(Symbols)
  BY RoomIsNumber
<1>2. CASE RoomForNumber
  <2> DEFINE s == convert(v)
             p == [from |-> Len(data) + 1, to |-> Len(data) + Len(s), value |-> v]
  <2>1. s \in Seq(Symbols) /\ Len(s) \in Nat \ {0} /\ Len(s) < number_size_limit
    BY ConvertReads, NumbersFit
  <2>2. data' = data \o s /\ Wrote(Len(s) + 1) /\ put' = put \cup {p}
    BY <1>2 DEF format_integer
  <2>3. Len(s) + 1 \in Nat /\ Len(s) + 1 <= avail
    BY <1>1, <1>2, <2>1 DEF RoomForNumber
  <2>4. top' \in 0 .. SIZE
    BY <2>2, <2>3, WroteInv
  <2> HIDE DEF s
  <2>5. data' \in Seq(Symbols) /\ Len(data') = Len(data) + Len(s) /\ AreThere(data', put)
    BY <2>1, <2>2, Behind
  <2>10. Len(data') < SIZE
    <3>1. SIZE \in Nat
      BY StreamAssumption
    <3> QED
      BY <1>1, <2>1, <2>3, <2>5, <3>1 DEF avail
  <2>6. SubSeq(data', Len(data) + 1, Len(data) + Len(s)) = s
    <3>1. /\ Len(data) + 1 \in Len(data) + 1 .. Len(data) + Len(s)
          /\ Len(data) + Len(s) \in Len(data) + 1 .. Len(data) + Len(s)
      BY <1>1, <2>1
    <3>2. SubSeq(data \o s, Len(data) + 1, Len(data) + Len(s))
            = SubSeq(s, (Len(data) + 1) - Len(data), (Len(data) + Len(s)) - Len(data))
      BY <1>1, <2>1, <3>1, SubSeqOfConcat2
    <3>3. (Len(data) + 1) - Len(data) = 1 /\ (Len(data) + Len(s)) - Len(data) = Len(s)
      BY <1>1, <2>1
    <3>4. SubSeq(s, 1, Len(s)) = s
      BY <2>1, SubSeqFull
    <3> QED
      BY <2>2, <3>2, <3>3, <3>4
  <2>7. p \in [from : Nat, to : Nat, value : Values]
    BY <1>1, <2>1
  <2>8. IsThere(data', p)
    <3>1. 1 <= Len(data) + 1 /\ Len(data) + 1 <= Len(data) + Len(s) /\ Len(data) + Len(s) <= Len(data')
      BY <1>1, <2>1, <2>5
    <3> QED
      BY <2>6, <2>7, <3>1 DEF IsThere, s
  <2>9. put \subseteq [from : Nat, to : Nat, value : Values]
    BY DEF LineInv, LogTypeOK
  <2> HIDE DEF p
  <2> QED
    BY <2>2, <2>4, <2>5, <2>7, <2>8, <2>9, <2>10 DEF Kept, AreThere
<1>3. CASE ~RoomForNumber
  BY <1>3, UnchangedKept DEF format_integer, LineInv, LogTypeOK
<1> QED
  BY <1>2, <1>3

\* An empty line.
LEMMA LineInitInv == LogInit => LineInv
<1> SUFFICES ASSUME LogInit PROVE LineInv
  OBVIOUS
<1>1. data \in Seq(Symbols)
  BY EmptySeq DEF LogInit
<1> QED
  BY <1>1, StreamAssumption DEF LogInit, LineInv, LogTypeOK, AreThere, Symbols

\* Every step of the Logger.
LEMMA LineNextInv == LineInv /\ [LogNext]_logVars => LineInv'
<1> SUFFICES ASSUME LineInv, [LogNext]_logVars PROVE LineInv'
  OBVIOUS
<1> DEFINE Stages == {"new", "open", "dash", "name", "colon", "line", "newline", "output"}
<1>1. /\ put \subseteq [from : Nat, to : Nat, value : Values]
      /\ items \in 0 .. MaxItems /\ stage \in Stages /\ MaxItems \in Nat
  BY StreamAssumption DEF LineInv, LogTypeOK
<1>2. ASSUME Kept, put' \subseteq [from : Nat, to : Nat, value : Values],
             items' \in 0 .. MaxItems, stage' \in Stages
      PROVE  LineInv'
  BY <1>2 DEF LineInv, LogTypeOK, Kept, Symbols
<1>3. CASE format_time
  <2>1. Kept /\ put' = put
    BY <1>3, AppendKept, StreamAssumption DEF format_time, append
  <2> QED
    BY <1>1, <1>2, <1>3, <2>1 DEF format_time
<1>4. CASE LogItem
  <2>1. items' \in 0 .. MaxItems /\ stage' \in Stages
    BY <1>1, <1>4 DEF LogItem
  <2>2. Kept /\ put' \subseteq [from : Nat, to : Nat, value : Values]
    <3>1. ASSUME NEW n \in TextLengths, append(n) PROVE Kept /\ put' = put
      BY <3>1, AppendKept, StreamAssumption DEF append
    <3>2. ASSUME NEW n \in TextLengths, format_double(n) PROVE Kept /\ put' = put
      BY <3>2, DoubleKept, StreamAssumption DEF format_double
    <3>3. ASSUME NEW v \in Values, format_integer(v)
          PROVE  Kept /\ put' \subseteq [from : Nat, to : Nat, value : Values]
      BY <3>3, IntegerKept
    <3> QED
      BY <1>1, <1>4, <3>1, <3>2, <3>3 DEF LogItem
  <2> QED
    BY <1>2, <2>1, <2>2
<1>5. CASE EndLine
  <2>1. items' \in 0 .. MaxItems /\ stage' \in Stages
    BY <1>1, <1>5 DEF EndLine
  <2>2. Kept /\ put' \subseteq [from : Nat, to : Nat, value : Values]
    <3>1. ASSUME NEW n \in Nat, append(n) PROVE Kept /\ put' = put
      BY <3>1, AppendKept DEF append
    <3>2. CASE format_integer(LineNumber)
      BY <3>2, IntegerKept, NumbersFit
    <3>3. NameLength \in Nat /\ 4 \in Nat /\ 1 \in Nat
      BY StreamAssumption
    <3>4. \/ append(4) \/ append(NameLength) \/ append(1) \/ format_integer(LineNumber)
      BY <1>5 DEF EndLine
    <3> QED
      BY <1>1, <3>1, <3>2, <3>3, <3>4
  <2> QED
    BY <1>2, <2>1, <2>2
<1>6. CASE Output
  BY <1>1, <1>2, <1>6, UnchangedKept DEF Output
<1>7. CASE UNCHANGED logVars
  BY <1>1, <1>2, <1>7, UnchangedKept DEF logVars
<1> QED
  BY <1>3, <1>4, <1>5, <1>6, <1>7 DEF LogNext

\* For every size of the buffer: the line leaves a byte of it free, and what is
\* written, the NUL after a number included, is inside it.
THEOREM LogTypeCorrect == LogSpec => []LogTypeOK
<1>1. LineInv => LogTypeOK
  BY DEF LineInv
<1> QED
  BY LineInitInv, LineNextInv, <1>1, PTL DEF LogSpec

\* For every size of the buffer and every width of the integers: nothing is
\* written beyond the buffer, and every number that is in the line reads as the
\* one that was logged.
THEOREM LineIsSoundCorrect == LogSpec => []LineIsSound
<1>1. LineInv => LineIsSound
  <2> SUFFICES ASSUME LineInv, NEW p \in put
               PROVE  p.to <= Len(data) /\ ReadBack(SubSeq(data, p.from, p.to)) = p.value
    <3>1. LineInv => top <= SIZE
      BY StreamAssumption DEF LineInv, LogTypeOK
    <3> QED
      BY <3>1 DEF LineIsSound
  <2>1. IsThere(data, p)
    BY DEF LineInv, AreThere
  <2> QED
    BY <2>1, ConvertReads DEF IsThere
<1> QED
  BY LineInitInv, LineNextInv, <1>1, PTL DEF LogSpec

-----------------------------------------------------------------------------
(* A request: the operations of std::string. *)

Tokens == Seq(Words)

\* The bounds are numbers.
LEMMA Bounds == NPOS \in Nat /\ MaxPages \in Nat
  BY RequestAssumption

\* The least element of a set of numbers.
LEMMA MinIs ==
  ASSUME NEW T, T \subseteq Nat, T # {}
  PROVE  Min(T) \in T /\ \A y \in T : Min(T) <= y
<1>1. \E x \in T : \A y \in T : x <= y
  BY LeastNumber
<1> QED
  BY <1>1, Zenon DEF Min

\* find gives the first position, when there is one, ...
LEMMA TextAt ==
  ASSUME NEW s \in Tokens, NEW t, NEW from \in Nat, NEW p \in 0 .. Len(s) - 1,
         from <= p, Occurs(t, s[p + 1]),
         \A k \in 0 .. Len(s) - 1 : from <= k /\ k < p => ~Occurs(t, s[k + 1])
  PROVE  find(s, t, from) = p
<1> DEFINE at == {k \in 0 .. Len(s) - 1 : k >= from /\ Occurs(t, s[k + 1])}
<1>1. Len(s) \in Nat
  BY LenProperties DEF Tokens
<1>2. p \in at /\ at \subseteq Nat /\ \A k \in at : ~(k < p)
  BY <1>1
<1>3. find(s, t, from) = IF at = {} THEN NPOS ELSE Min(at)
  BY Zenon DEF find
<1> HIDE DEF at
<1>4. Min(at) \in at /\ Min(at) <= p
  BY <1>2, MinIs
<1>5. Min(at) \in Nat /\ p \in Nat /\ ~(Min(at) < p)
  BY <1>1, <1>2, <1>4
<1>6. Min(at) = p
  BY <1>4, <1>5
<1> QED
  BY <1>2, <1>3, <1>6

\* ... and NPOS when there is none, ...
LEMMA TextNone ==
  ASSUME NEW s \in Tokens, NEW t, NEW from \in Nat,
         \A k \in 0 .. Len(s) - 1 : from <= k => ~Occurs(t, s[k + 1])
  PROVE  find(s, t, from) = NPOS
<1> DEFINE at == {k \in 0 .. Len(s) - 1 : k >= from /\ Occurs(t, s[k + 1])}
<1>1. Len(s) \in Nat
  BY LenProperties DEF Tokens
<1>2. at = {}
  BY <1>1
<1>3. find(s, t, from) = IF at = {} THEN NPOS ELSE Min(at)
  BY Zenon DEF find
<1> QED
  BY <1>2, <1>3

\* ... and nothing else.
LEMMA TextIs ==
  ASSUME NEW s \in Tokens, NEW t, NEW from \in Nat
  PROVE  LET p == find(s, t, from)
         IN  /\ p \in Nat
             /\ \/ p = NPOS /\ \A k \in 0 .. Len(s) - 1 : from <= k => ~Occurs(t, s[k + 1])
                \/ /\ p \in 0 .. Len(s) - 1 /\ from <= p /\ Occurs(t, s[p + 1])
                   /\ \A k \in 0 .. Len(s) - 1 : from <= k /\ k < p => ~Occurs(t, s[k + 1])
<1> DEFINE at == {k \in 0 .. Len(s) - 1 : k >= from /\ Occurs(t, s[k + 1])}
<1>1. Len(s) \in Nat /\ NPOS \in Nat
  BY LenProperties, Bounds DEF Tokens
<1>2. find(s, t, from) = IF at = {} THEN NPOS ELSE Min(at)
  BY Zenon DEF find
<1>3. CASE at = {}
  BY <1>1, <1>2, <1>3
<1>4. CASE at # {}
  <2>1. at \subseteq Nat
    BY <1>1
  <2> DEFINE p == Min(at)
  <2>2. p \in at /\ \A k \in at : p <= k
    <3> HIDE DEF at
    <3> QED
      BY <1>4, <2>1, MinIs
  <2> HIDE DEF p
  <2>3. p \in 0 .. Len(s) - 1 /\ from <= p /\ Occurs(t, s[p + 1])
    BY <2>2
  <2>4. \A k \in 0 .. Len(s) - 1 : from <= k /\ k < p => ~Occurs(t, s[k + 1])
    BY <1>1, <2>2
  <2>5. find(s, t, from) = p
    BY <1>2, <1>4 DEF p
  <2> QED
    BY <2>3, <2>4, <2>5
<1> QED
  BY <1>3, <1>4

\* What a line is cut at.
LEMMA TheEnds == " " \in Ends /\ "/" \in Ends
  BY Zenon DEF Ends

LEMMA LineEnds == "\r" \in Ends
  BY Zenon DEF Ends

LEMMA QueryEnds == "?" \in Ends
  BY Zenon DEF Ends

\* A character that ends a part of the line is in no longer word.
LEMMA EndsAre ==
  ASSUME NEW t \in Ends, NEW w \in Words
  PROVE  Occurs(t, w) <=> w = t
<1>1. Inside[w] \cap Ends = {}
  BY RequestAssumption, Zenon
<1> QED
  BY <1>1 DEF Occurs

\* The elements of a sequence of tokens are words.
LEMMA ElementsAre ==
  ASSUME NEW s \in Tokens, NEW t \in Ends
  PROVE  \A k \in 0 .. Len(s) - 1 : Occurs(t, s[k + 1]) <=> s[k + 1] = t
<1> SUFFICES ASSUME NEW k \in 0 .. Len(s) - 1 PROVE Occurs(t, s[k + 1]) <=> s[k + 1] = t
  OBVIOUS
<1>1. s \in Seq(Words) /\ Len(s) \in Nat
  BY LenProperties DEF Tokens
<1>2. k + 1 \in 1 .. Len(s)
  BY <1>1
<1>3. s[k + 1] \in Words
  BY <1>1, <1>2, ElementOfSeq
<1> QED
  BY <1>3, EndsAre

\* So that finding one is finding itself.
LEMMA FindAt ==
  ASSUME NEW s \in Tokens, NEW t \in Ends, NEW from \in Nat,
         NEW p \in 0 .. Len(s) - 1, from <= p, s[p + 1] = t,
         \A k \in 0 .. Len(s) - 1 : from <= k /\ k < p => s[k + 1] # t
  PROVE  find(s, t, from) = p
<1>1. Occurs(t, s[p + 1])
  BY DEF Occurs
<1>2. \A k \in 0 .. Len(s) - 1 : from <= k /\ k < p => ~Occurs(t, s[k + 1])
  BY ElementsAre
<1> QED
  BY <1>1, <1>2, TextAt

LEMMA FindNone ==
  ASSUME NEW s \in Tokens, NEW t \in Ends, NEW from \in Nat,
         \A k \in 0 .. Len(s) - 1 : from <= k => s[k + 1] # t
  PROVE  find(s, t, from) = NPOS
<1>1. \A k \in 0 .. Len(s) - 1 : from <= k => ~Occurs(t, s[k + 1])
  BY ElementsAre
<1> QED
  BY <1>1, TextNone

LEMMA FindIs ==
  ASSUME NEW s \in Tokens, NEW t \in Ends, NEW from \in Nat
  PROVE  LET p == find(s, t, from)
         IN  /\ p \in Nat
             /\ \/ p = NPOS /\ \A k \in 0 .. Len(s) - 1 : from <= k => s[k + 1] # t
                \/ /\ p \in 0 .. Len(s) - 1 /\ from <= p /\ s[p + 1] = t
                   /\ \A k \in 0 .. Len(s) - 1 : from <= k /\ k < p => s[k + 1] # t
<1> DEFINE p == find(s, t, from)
<1>1. /\ p \in Nat
      /\ \/ p = NPOS /\ \A k \in 0 .. Len(s) - 1 : from <= k => ~Occurs(t, s[k + 1])
         \/ /\ p \in 0 .. Len(s) - 1 /\ from <= p /\ Occurs(t, s[p + 1])
            /\ \A k \in 0 .. Len(s) - 1 : from <= k /\ k < p => ~Occurs(t, s[k + 1])
  BY TextIs
<1>2. \A k \in 0 .. Len(s) - 1 : Occurs(t, s[k + 1]) <=> s[k + 1] = t
  BY ElementsAre
<1> HIDE DEF p
<1> QED
  BY <1>1, <1>2 DEF p

\* The smaller of two numbers is one of them.
LEMMA MinOfTwo ==
  ASSUME NEW a \in Int, NEW b \in Int
  PROVE  Min({a, b}) = IF a <= b THEN a ELSE b
<1>1. \E x \in {a, b} : \A y \in {a, b} : x <= y
  OBVIOUS
<1> QED
  BY <1>1 DEF Min

\* substr: what there is of n tokens, from a position.
LEMMA SubstrIs ==
  ASSUME NEW s \in Tokens, NEW from \in Nat, NEW n \in Int
  PROVE  LET m == IF Len(s) <= from + n THEN Len(s) - from ELSE n
         IN  /\ substr(s, from, n) \in Tokens
             /\ m >= 0 => /\ Len(substr(s, from, n)) = m
                          /\ \A k \in 1 .. m : substr(s, from, n)[k] = s[from + k]
             /\ m < 0 => substr(s, from, n) = <<>>
<1> DEFINE e == IF Len(s) <= from + n THEN Len(s) ELSE from + n
           m == IF Len(s) <= from + n THEN Len(s) - from ELSE n
<1>1. Len(s) \in Nat /\ e \in Int /\ from + 1 \in Int /\ m = e - from
  BY LenProperties DEF Tokens
<1>2. substr(s, from, n) = SubSeq(s, from + 1, e)
  <2>1. Min({Len(s), from + n}) = e
    BY <1>1, MinOfTwo
  <2> HIDE DEF e
  <2> QED
    BY <2>1 DEF substr
<1>3. \A i \in from + 1 .. e : s[i] \in Words
  BY <1>1, ElementOfSeq DEF Tokens
<1> DEFINE x == SubSeq(s, from + 1, e)
<1>4. /\ x \in Seq(Words)
      /\ Len(x) = IF from + 1 <= e THEN (e - (from + 1)) + 1 ELSE 0
      /\ \A i \in 1 .. (e - (from + 1)) + 1 : x[i] = s[((from + 1) + i) - 1]
      /\ e < from + 1 => x = <<>>
  <2> HIDE DEF e
  <2> QED
    BY <1>1, <1>3, SubSeqProperties, SubSeqEmpty
<1>5. substr(s, from, n) = x
  BY <1>2
<1> HIDE DEF x, e
<1>6. \A k \in 1 .. m : x[k] = s[from + k]
  BY <1>1, <1>4
<1>7. m >= 0 => Len(x) = m
  BY <1>1, <1>4
<1>8. m < 0 => x = <<>>
  BY <1>1, <1>4
<1> QED
  BY <1>4, <1>5, <1>6, <1>7, <1>8 DEF Tokens

\* size_t: numbers up to NPOS are themselves, the next is 0.
LEMMA Wraps ==
  /\ \A a \in 0 .. NPOS : Wrap(a) = a
  /\ Wrap(NPOS + 1) = 0
  /\ \A a \in Int : Wrap(a) \in Nat
<1> DEFINE m == NPOS + 1
<1>1. m \in Nat \ {0}
  BY Bounds
<1> HIDE DEF m
<1>2. \A a \in Int : a % m \in 0 .. m - 1
  BY <1>1
<1>3. \A a \in Int : a = m * (a \div m) + (a % m)
  BY <1>1
<1>4. \A a \in 0 .. m - 1 : a % m = a
  BY <1>1
<1>5. m % m = 0
  BY <1>1
<1> QED
  BY <1>2, <1>4, <1>5, Bounds DEF Wrap, m

-----------------------------------------------------------------------------
(* The request line and what is made of it. *)

\* The words of the line that are not of the request.
LEMMA WordsAre ==
  /\ " " \in Words /\ "/" \in Words /\ "HTTP" \in Words /\ "1" \in Words /\ "." \in Words
  /\ "\r" \in Words /\ "index.html" \in Words
  BY RequestAssumption

\* The parts of a request, and what is not in them.
LEMMA RequestParts ==
  ASSUME NEW q \in Requests
  PROVE  /\ q.uri \in Tokens /\ Len(q.uri) \in Nat /\ Len(q.uri) + 11 < NPOS
         /\ DOMAIN q.uri = 1 .. Len(q.uri)
         /\ \A i \in 1 .. Len(q.uri) : q.uri[i] \in Words /\ q.uri[i] # " " /\ q.uri[i] # "\r"
         /\ q.method \in Words /\ q.method # " " /\ q.method # "/" /\ q.method # "\r"
         /\ q.version \in Words /\ q.version # " " /\ q.version # "/" /\ q.version # "\r"
         /\ ~Occurs("GET", q.version)
<1>1. q.uri \in Uris /\ q.method \in Methods /\ q.version \in Versions
  BY DEF Requests
<1>2. q.uri \in Tokens /\ q.method \in Words /\ q.version \in Words
  BY <1>1, RequestAssumption DEF Tokens
<1>3. Len(q.uri) \in Nat /\ DOMAIN q.uri = 1 .. Len(q.uri)
  BY <1>2, LenProperties DEF Tokens
<1>4. Len(q.uri) + 11 < NPOS
  BY <1>1, RequestAssumption
<1>5. \A i \in 1 .. Len(q.uri) : q.uri[i] \in Words
  BY <1>2, ElementOfSeq DEF Tokens
<1>6. \A i \in DOMAIN q.uri : q.uri[i] # " " /\ q.uri[i] # "\r"
  BY <1>1, RequestAssumption, Zenon
<1>7. /\ q.method # " " /\ q.method # "/" /\ q.method # "\r"
      /\ q.version # " " /\ q.version # "/" /\ q.version # "\r"
  <2>1. q.method \notin {" ", "/", "\r"} /\ q.version \notin {" ", "/", "\r"}
    <3>1. (Methods \cup Versions) \cap {" ", "/", "\r"} = {}
      BY RequestAssumption, Zenon
    <3> QED
      BY <1>1, <3>1
  <2> QED
    BY <1>1, <2>1
<1>8. ~Occurs("GET", q.version)
  BY <1>1, RequestAssumption
<1> QED
  BY <1>2, <1>3, <1>4, <1>5, <1>6, <1>7, <1>8

\* There is no GET in the other words of the line.
LEMMA NoGetAfter ==
  /\ ~Occurs("GET", " ") /\ ~Occurs("GET", "/") /\ ~Occurs("GET", "HTTP")
  /\ ~Occurs("GET", "1") /\ ~Occurs("GET", ".")
<1>1. \A w \in Versions \cup {" ", "/", "HTTP", "1", "."} : ~Occurs("GET", w)
  BY RequestAssumption
<1> QED
  BY <1>1

\* A line, token by token.
IsLine(q, s) ==
  LET n == Len(q.uri)
  IN  /\ s \in Tokens /\ Len(s) = n + 10
      /\ s[1] = q.method /\ s[2] = " " /\ s[3] = "/"
      /\ \A i \in 1 .. n : s[3 + i] = q.uri[i]
      /\ s[n + 4] = " " /\ s[n + 5] = "HTTP" /\ s[n + 6] = "/"
      /\ s[n + 7] = "1" /\ s[n + 8] = "." /\ s[n + 9] = q.version /\ s[n + 10] = "\r"

\* Tuples are sequences.
LEMMA Three ==
  ASSUME NEW S, NEW x \in S, NEW y \in S, NEW z \in S
  PROVE  LET t == <<x, y, z>> IN t \in Seq(S) /\ Len(t) = 3 /\ t[1] = x /\ t[2] = y /\ t[3] = z
OBVIOUS

\* A request line is that.
LEMMA LineIs ==
  ASSUME NEW q \in Requests
  PROVE  IsLine(q, Line(q))
<1> DEFINE u == q.uri
           n == Len(u)
           v == q.version
           m == q.method
<1>1. u \in Seq(Words) /\ n \in Nat /\ m \in Words /\ v \in Words
  BY RequestParts DEF Tokens
<1> HIDE DEF m, v
<1> DEFINE a == <<m, " ", "/">>
           b == <<" ", "HTTP", "/", "1", ".", v, "\r">>
<1>2. a \in Seq(Words) /\ Len(a) = 3 /\ a[1] = m /\ a[2] = " " /\ a[3] = "/"
  BY <1>1, WordsAre, Three
<1>3. /\ b \in Seq(Words) /\ Len(b) = 7
      /\ b[1] = " " /\ b[2] = "HTTP" /\ b[3] = "/" /\ b[4] = "1" /\ b[5] = "."
      /\ b[6] = v /\ b[7] = "\r"
  <2>1. " " \in Words /\ "HTTP" \in Words /\ "/" \in Words /\ "1" \in Words /\ "." \in Words /\ "\r" \in Words
    BY WordsAre
  <2>2. Len(b) = 7 /\ b = [i \in 1 .. 7 |-> b[i]]
    OBVIOUS
  <2>3. /\ b[1] = " " /\ b[2] = "HTTP" /\ b[3] = "/" /\ b[4] = "1" /\ b[5] = "."
        /\ b[6] = v /\ b[7] = "\r"
    OBVIOUS
  <2> HIDE DEF b
  <2>4. b \in Seq(Words)
    <3>1. \A i \in 1 .. 7 : i = 1 \/ i = 2 \/ i = 3 \/ i = 4 \/ i = 5 \/ i = 6 \/ i = 7
      OBVIOUS
    <3>2. \A i \in 1 .. 7 : b[i] \in Words
      BY <1>1, <2>1, <2>3, <3>1, Zenon
    <3>3. b \in [1 .. 7 -> Words]
      BY <2>2, <3>2
    <3> QED
      BY <3>3, SeqDef
  <2> QED
    BY <2>2, <2>3, <2>4
<1>4. Line(q) = (a \o u) \o b
  BY DEF Line, m, v
<1> HIDE DEF a, b, u
<1>5. /\ a \o u \in Seq(Words) /\ Len(a \o u) = 3 + n
      /\ \A i \in 1 .. 3 + n : (a \o u)[i] = IF i <= 3 THEN a[i] ELSE u[i - 3]
  <2>1. a \in Seq(Words) /\ Len(a) = 3 /\ u \in Seq(Words) /\ Len(u) = n
    BY <1>1, <1>2
  <2>2. /\ a \o u \in Seq(Words) /\ Len(a \o u) = Len(a) + Len(u)
        /\ \A i \in 1 .. Len(a) + Len(u) : (a \o u)[i] = IF i <= Len(a) THEN a[i] ELSE u[i - Len(a)]
    BY <2>1, ConcatProperties
  <2> QED
    BY <2>1, <2>2
<1> DEFINE c == a \o u
           s == c \o b
<1>6. /\ c \in Seq(Words) /\ Len(c) = 3 + n
      /\ \A i \in 1 .. 3 + n : c[i] = IF i <= 3 THEN a[i] ELSE u[i - 3]
  BY <1>5
<1> HIDE DEF c
<1>7. /\ s \in Seq(Words) /\ Len(s) = (3 + n) + 7
      /\ \A i \in 1 .. (3 + n) + 7 : s[i] = IF i <= 3 + n THEN c[i] ELSE b[i - (3 + n)]
  <2>1. b \in Seq(Words) /\ Len(b) = 7 /\ c \in Seq(Words) /\ Len(c) = 3 + n
    BY <1>3, <1>6
  <2>2. /\ c \o b \in Seq(Words) /\ Len(c \o b) = Len(c) + Len(b)
        /\ \A i \in 1 .. Len(c) + Len(b) : (c \o b)[i] = IF i <= Len(c) THEN c[i] ELSE b[i - Len(c)]
    <3>1. b \in Seq(Words) /\ c \in Seq(Words)
      BY <2>1
    <3> QED
      BY <3>1, ConcatProperties
  <2>3. s = c \o b
    OBVIOUS
  <2> HIDE DEF s
  <2> QED
    BY <2>1, <2>2, <2>3
<1> HIDE DEF s
<1>8. s[1] = m /\ s[2] = " " /\ s[3] = "/"
  <2>1. \A i \in 1 .. 3 : s[i] = c[i]
    BY <1>1, <1>7
  <2>2. \A i \in 1 .. 3 : c[i] = a[i]
    BY <1>1, <1>6
  <2>3. 1 \in 1 .. 3 /\ 2 \in 1 .. 3 /\ 3 \in 1 .. 3
    OBVIOUS
  <2> QED
    BY <1>2, <2>1, <2>2, <2>3
<1>9. \A i \in 1 .. n : s[3 + i] = u[i]
  BY <1>1, <1>6, <1>7
<1>10. \A i \in 1 .. 7 : s[(3 + n) + i] = b[i]
  BY <1>1, <1>7
<1>11. /\ (3 + n) + 1 = n + 4 /\ (3 + n) + 2 = n + 5 /\ (3 + n) + 3 = n + 6
       /\ (3 + n) + 4 = n + 7 /\ (3 + n) + 5 = n + 8 /\ (3 + n) + 6 = n + 9
       /\ (3 + n) + 7 = n + 10
  BY <1>1
<1>12. /\ s[n + 4] = " " /\ s[n + 5] = "HTTP" /\ s[n + 6] = "/" /\ s[n + 7] = "1" /\ s[n + 8] = "."
       /\ s[n + 9] = v /\ s[n + 10] = "\r"
  <2>1. 1 \in 1 .. 7 /\ 2 \in 1 .. 7 /\ 3 \in 1 .. 7 /\ 4 \in 1 .. 7 /\ 5 \in 1 .. 7 /\ 6 \in 1 .. 7 /\ 7 \in 1 .. 7
    OBVIOUS
  <2> QED
    BY <1>3, <1>10, <1>11, <2>1
<1>13. Line(q) = s
  BY <1>4 DEF c, s
<1> QED
  BY <1>7, <1>8, <1>9, <1>11, <1>12, <1>13 DEF IsLine, Tokens, u, v, m

\* What has come of it: the request line, and where it ends.
LEMMA RequestLineIs ==
  ASSUME asked \in Requests, come \in 1 .. Len(Line(asked))
  PROVE  LET n == Len(asked.uri)
             c == Len(request_line)
         IN  /\ request_line \in Tokens /\ c \in 1 .. n + 9
             /\ IsWhole <=> c = n + 9
             /\ \A k \in 1 .. c : request_line[k] = Line(asked)[k]
             /\ find(inbuf_, "\r", 0) \in Nat /\ find(inbuf_, "\r", 0) >= c
<1> DEFINE s == Line(asked)
           n == Len(asked.uri)
           i == inbuf_
           e == find(i, "\r", 0)
<1>1. n \in Nat /\ n + 11 < NPOS /\ NPOS \in Nat
  BY RequestParts, Bounds
<1>2. IsLine(asked, s)
  BY LineIs
<1>3. /\ \A k \in 1 .. n : asked.uri[k] # "\r"
      /\ asked.method # "\r" /\ asked.version # "\r"
  BY RequestParts
<1>4. s \in Tokens /\ Len(s) = n + 10
  BY <1>2 DEF IsLine
<1>5. come \in Nat /\ come >= 1 /\ come <= n + 10
  <2>1. come \in 1 .. Len(s)
    OBVIOUS
  <2> HIDE DEF s, n
  <2> QED
    BY <1>1, <1>4, <2>1
<1>6. i \in Tokens /\ Len(i) = come /\ \A k \in 1 .. come : i[k] = s[k]
  <2>1. \A k \in 1 .. come : s[k] \in Words
    BY <1>5, <1>4, ElementOfSeq DEF Tokens
  <2> HIDE DEF s
  <2>2. /\ SubSeq(s, 1, come) \in Seq(Words) /\ Len(SubSeq(s, 1, come)) = (come - 1) + 1
        /\ \A k \in 1 .. (come - 1) + 1 : SubSeq(s, 1, come)[k] = s[(1 + k) - 1]
    BY <1>5, <2>1, SubSeqProperties
  <2>3. i = SubSeq(s, 1, come)
    BY DEF inbuf_, s
  <2> HIDE DEF i
  <2> QED
    BY <1>5, <2>2, <2>3 DEF Tokens
<1>7. \A k \in 1 .. n + 9 : s[k] # "\r"
  <2> SUFFICES ASSUME NEW k \in 1 .. n + 9 PROVE s[k] # "\r"
    OBVIOUS
  <2>1. /\ s[1] = asked.method /\ s[2] = " " /\ s[3] = "/"
        /\ s[n + 4] = " " /\ s[n + 5] = "HTTP" /\ s[n + 6] = "/"
        /\ s[n + 7] = "1" /\ s[n + 8] = "." /\ s[n + 9] = asked.version
    BY <1>2 DEF IsLine
  <2>2. \A j \in 1 .. n : s[3 + j] = asked.uri[j]
    BY <1>2 DEF IsLine
  <2> HIDE DEF s, n
  <2>3. CASE k \in {1, 2, 3}
    BY <1>3, <2>3, <2>1
  <2>4. CASE k \in 4 .. n + 3
    <3>1. k - 3 \in 1 .. n /\ 3 + (k - 3) = k
      BY <1>1, <2>4
    <3>2. s[3 + (k - 3)] = asked.uri[k - 3]
      BY <2>2, <3>1
    <3> QED
      BY <1>3, <3>1, <3>2
  <2>5. CASE k \in {n + 4, n + 5, n + 6, n + 7, n + 8, n + 9}
    BY <1>3, <2>5, <2>1
  <2>6. k \in {1, 2, 3} \/ k \in 4 .. n + 3 \/ k \in {n + 4, n + 5, n + 6, n + 7, n + 8, n + 9}
    BY <1>1
  <2> QED
    BY <2>3, <2>4, <2>5, <2>6
<1>8. s[n + 10] = "\r"
  BY <1>2 DEF IsLine
<1> HIDE DEF i, s, n
<1>9. e = IF come = n + 10 THEN n + 9 ELSE NPOS
  <2>1. CASE come = n + 10
    <3>1. n + 9 \in 0 .. Len(i) - 1 /\ 0 \in Nat /\ 0 <= n + 9 /\ i[(n + 9) + 1] = "\r"
      BY <1>1, <1>5, <1>6, <1>8, <2>1
    <3>2. \A k \in 0 .. Len(i) - 1 : 0 <= k /\ k < n + 9 => i[k + 1] # "\r"
      BY <1>1, <1>5, <1>6, <1>7, <2>1
    <3>3. find(i, "\r", 0) = n + 9
      <4> DEFINE p == n + 9
      <4>1. /\ p \in 0 .. Len(i) - 1 /\ 0 <= p /\ i[p + 1] = "\r"
            /\ \A k \in 0 .. Len(i) - 1 : 0 <= k /\ k < p => i[k + 1] # "\r"
        BY <3>1, <3>2, Zenon
      <4> HIDE DEF p
      <4>2. find(i, "\r", 0) = p
        BY <1>6, <3>1, <4>1, FindAt, LineEnds, Zenon
      <4> QED
        BY <4>2 DEF p
    <3> QED
      BY <2>1, <3>3
  <2>2. CASE come # n + 10
    <3>1. \A k \in 0 .. Len(i) - 1 : 0 <= k => i[k + 1] # "\r"
      BY <1>1, <1>5, <1>6, <1>7, <2>2
    <3>2. 0 \in Nat
      OBVIOUS
    <3> QED
      BY <1>6, <2>2, <3>1, <3>2, FindNone, LineEnds, Zenon
  <2> QED
    BY <2>1, <2>2
<1>10. e \in Nat
  BY <1>1, <1>9, Bounds
<1> HIDE DEF e
<1> DEFINE c == IF come = n + 10 THEN n + 9 ELSE come
           r == substr(i, 0, e)
<1>11. r \in Tokens /\ Len(r) = c /\ \A k \in 1 .. c : r[k] = i[k]
  <2> DEFINE m == IF Len(i) <= 0 + e THEN Len(i) - 0 ELSE e
  <2>1. /\ r \in Tokens
        /\ m >= 0 => Len(r) = m /\ \A k \in 1 .. m : r[k] = i[0 + k]
    <3> DEFINE z == 0
    <3>1. z \in Nat /\ e \in Int
      BY <1>10
    <3> HIDE DEF z
    <3>2. LET l == IF Len(i) <= z + e THEN Len(i) - z ELSE e
          IN  /\ substr(i, z, e) \in Tokens
              /\ l >= 0 => Len(substr(i, z, e)) = l /\ \A k \in 1 .. l : substr(i, z, e)[k] = i[z + k]
      BY <1>6, <3>1, SubstrIs
    <3> QED
      BY <3>2 DEF z
  <2>2. m = c /\ c >= 0
    BY <1>1, <1>5, <1>6, <1>9
  <2>3. \A k \in 1 .. c : 0 + k = k
    BY <1>1, <1>5
  <2> HIDE DEF m, r
  <2> QED
    BY <2>1, <2>2, <2>3
<1>12. request_line = r
  BY DEF request_line, r, e, i
<1>13. IsWhole <=> c = n + 9
  BY <1>1, <1>5, <1>4 DEF IsWhole, s
<1>14. e >= c
  BY <1>1, <1>5, <1>9
<1>15. c \in 1 .. n + 9 /\ \A k \in 1 .. c : k \in 1 .. come
  BY <1>1, <1>5
<1> HIDE DEF r, c
<1> QED
  BY <1>6, <1>10, <1>11, <1>12, <1>13, <1>14, <1>15 DEF e, i, n, s

\* The request line, token by token, as far as it goes.
IsRequestLine(q, r) ==
  LET n == Len(q.uri)
      c == Len(r)
  IN  /\ r \in Tokens /\ c \in 1 .. n + 9
      /\ r[1] = q.method /\ (2 <= c => r[2] = " ") /\ (3 <= c => r[3] = "/")
      /\ \A i \in 1 .. n : 3 + i <= c => r[3 + i] = q.uri[i]
      /\ n + 4 <= c => r[n + 4] = " "
      /\ n + 5 <= c => r[n + 5] = "HTTP"
      /\ n + 6 <= c => r[n + 6] = "/"
      /\ n + 7 <= c => r[n + 7] = "1"
      /\ n + 8 <= c => r[n + 8] = "."
      /\ n + 9 <= c => r[n + 9] = q.version

\* The request line is the beginning of the line, the end of it excepted.
LEMMA RequestLineTokens ==
  ASSUME asked \in Requests, come \in 1 .. Len(Line(asked))
  PROVE  /\ IsRequestLine(asked, request_line)
         /\ IsWhole <=> Len(request_line) = Len(asked.uri) + 9
<1> DEFINE n == Len(asked.uri)
           r == request_line
           c == Len(r)
           s == Line(asked)
<1>1. /\ r \in Tokens /\ c \in 1 .. n + 9
      /\ IsWhole <=> c = n + 9
      /\ \A k \in 1 .. c : r[k] = s[k]
  BY RequestLineIs
<1>2. /\ s[1] = asked.method /\ s[2] = " " /\ s[3] = "/"
      /\ \A i \in 1 .. n : s[3 + i] = asked.uri[i]
      /\ s[n + 4] = " " /\ s[n + 5] = "HTTP" /\ s[n + 6] = "/"
      /\ s[n + 7] = "1" /\ s[n + 8] = "." /\ s[n + 9] = asked.version
  BY LineIs DEF IsLine
<1>3. n \in Nat
  BY RequestParts
<1>4. c \in Nat
  BY <1>1, LenProperties DEF Tokens
<1> HIDE DEF n, r, c, s
<1>5. \A k \in Nat : 1 <= k /\ k <= c => r[k] = s[k]
  BY <1>1, <1>4
<1>6. r[1] = asked.method /\ (2 <= c => r[2] = " ") /\ (3 <= c => r[3] = "/")
  <2>1. r[1] = s[1] /\ (2 <= c => r[2] = s[2]) /\ (3 <= c => r[3] = s[3])
    <3>1. 1 \in Nat /\ 2 \in Nat /\ 3 \in Nat /\ 1 <= 1 /\ 1 <= 2 /\ 1 <= 3 /\ 1 <= c
      BY <1>1, <1>3
    <3> QED
      BY <1>5, <3>1, Zenon
  <2> QED
    BY <1>2, <2>1
<1>7. \A i \in 1 .. n : 3 + i <= c => r[3 + i] = asked.uri[i]
  <2>1. \A i \in 1 .. n : 3 + i <= c => r[3 + i] = s[3 + i]
    BY <1>3, <1>4, <1>5
  <2> QED
    BY <1>2, <2>1, Zenon
<1>8. /\ n + 4 <= c => r[n + 4] = " "
      /\ n + 5 <= c => r[n + 5] = "HTTP"
      /\ n + 6 <= c => r[n + 6] = "/"
      /\ n + 7 <= c => r[n + 7] = "1"
      /\ n + 8 <= c => r[n + 8] = "."
      /\ n + 9 <= c => r[n + 9] = asked.version
  <2>1. \A i \in 4 .. 9 : n + i <= c => r[n + i] = s[n + i]
    BY <1>3, <1>4, <1>5
  <2>2. 4 \in 4 .. 9 /\ 5 \in 4 .. 9 /\ 6 \in 4 .. 9 /\ 7 \in 4 .. 9 /\ 8 \in 4 .. 9 /\ 9 \in 4 .. 9
    OBVIOUS
  <2> QED
    BY <1>2, <2>1, <2>2, Zenon
<1> QED
  BY <1>1, <1>6, <1>7, <1>8 DEF IsRequestLine, n, r, c

\* Without the slash of the version, what is looked at begins at 0.
LEMMA NoVersion ==
  ASSUME asked \in Requests, come \in 1 .. Len(Line(asked))
  PROVE  ~IsVersion(NPOS)
<1> DEFINE r == request_line
           z == 0
           three == 3
           x == substr(r, z, three)
<1>1. r \in Tokens /\ Len(r) \in Nat /\ (2 <= Len(r) => r[2] = " ")
  BY RequestLineTokens, LenProperties DEF IsRequestLine, Tokens
<1>2. Len(r) \in Nat
  BY <1>1
<1>3. IsVersion(NPOS) => x \in {<<"1", ".", v>> : v \in Known}
  BY Wraps DEF IsVersion
<1>4. z \in Nat /\ three \in Int /\ z = 0 /\ three = 3
  OBVIOUS
<1> HIDE DEF z, three, r
<1>5. LET m == IF Len(r) <= z + three THEN Len(r) - z ELSE three
      IN  /\ x \in Tokens
          /\ m >= 0 => /\ Len(x) = m
                       /\ \A k \in 1 .. m : x[k] = r[z + k]
  BY <1>1, <1>4, SubstrIs
<1> HIDE DEF x
<1>6. Len(x) = 3 => Len(r) >= 3 /\ x[2] = r[2]
  <2> DEFINE m == IF Len(r) <= z + three THEN Len(r) - z ELSE three
  <2>1. m \in Nat /\ (m = 3 => Len(r) >= 3)
    <3>1. z + three = 3 /\ Len(r) - z = Len(r)
      BY <1>4, <1>2
    <3>2. m = IF Len(r) <= 3 THEN Len(r) ELSE three
      BY <3>1
    <3> HIDE DEF m
    <3> QED
      BY <1>4, <1>2, <3>2
  <2>2. Len(x) = m /\ \A k \in 1 .. m : x[k] = r[z + k]
    <3>1. m >= 0
      BY <2>1
    <3> QED
      BY <1>5, <3>1
  <2> HIDE DEF m
  <2>3. m = 3 => x[2] = r[z + 2]
    BY <2>2
  <2>4. z + 2 = 2
    BY <1>4
  <2> QED
    BY <2>1, <2>2, <2>3, <2>4
<1>7. x \in {<<"1", ".", v>> : v \in Known} => Len(x) = 3 /\ x[2] = "."
  OBVIOUS
<1>8. "." # " "
  OBVIOUS
<1>9. 3 <= Len(r) => 2 <= Len(r)
  BY <1>2
<1> QED
  BY <1>1, <1>3, <1>6, <1>7, <1>8, <1>9

\* A slash or a space that is not there is not there after NPOS either.
LEMMA NothingAfter ==
  ASSUME asked \in Requests, come \in 1 .. Len(Line(asked)), NEW t
  PROVE  find(request_line, t, NPOS) = NPOS
<1> DEFINE r == request_line
<1>1. r \in Tokens /\ Len(r) \in Nat /\ Len(r) < NPOS
  <2>1. Len(r) \in 1 .. Len(asked.uri) + 9 /\ r \in Tokens
    BY RequestLineTokens DEF IsRequestLine
  <2>2. Len(asked.uri) \in Nat /\ Len(asked.uri) + 11 < NPOS
    BY RequestParts
  <2> HIDE DEF r
  <2> QED
    BY <2>1, <2>2, Bounds
<1> HIDE DEF r
<1>2. \A k \in 0 .. Len(r) - 1 : NPOS <= k => ~Occurs(t, r[k + 1])
  BY <1>1, Bounds
<1>3. find(r, t, NPOS) = NPOS
  BY <1>1, <1>2, TextNone, Bounds
<1> QED
  BY <1>3 DEF r

\* A line without an end of the URI is an error.
LEMMA NoEndMeansError ==
  ASSUME asked \in Requests, come \in 1 .. Len(Line(asked)), UriTo = NPOS
  PROVE  ~IsVersion(find(request_line, "/", UriTo))
BY NothingAfter, NoVersion

\* What can be at a position.
LEMMA TokenAt ==
  ASSUME NEW q \in Requests, NEW r, IsRequestLine(q, r), NEW k \in 1 .. Len(r)
  PROVE  LET n == Len(q.uri)
         IN  \/ k = 1 /\ r[k] = q.method
             \/ k = 2 /\ r[k] = " "
             \/ k = 3 /\ r[k] = "/"
             \/ k \in 4 .. n + 3 /\ k - 3 \in 1 .. n /\ r[k] = q.uri[k - 3]
             \/ k = n + 4 /\ r[k] = " "
             \/ k = n + 5 /\ r[k] = "HTTP"
             \/ k = n + 6 /\ r[k] = "/"
             \/ k = n + 7 /\ r[k] = "1"
             \/ k = n + 8 /\ r[k] = "."
             \/ k = n + 9 /\ r[k] = q.version
<1> DEFINE n == Len(q.uri)
           c == Len(r)
<1>1. n \in Nat
  BY RequestParts
<1>2. c \in Nat /\ c <= n + 9
  <2>1. c \in 1 .. n + 9
    BY DEF IsRequestLine
  <2> HIDE DEF n, c
  <2> QED
    BY <1>1, <2>1
<1>3. \A i \in 1 .. n : 3 + i <= c => r[3 + i] = q.uri[i]
  BY DEF IsRequestLine
<1>4. r[1] = q.method /\ (2 <= c => r[2] = " ") /\ (3 <= c => r[3] = "/")
  BY DEF IsRequestLine
<1>5. /\ n + 4 <= c => r[n + 4] = " "
      /\ n + 5 <= c => r[n + 5] = "HTTP"
      /\ n + 6 <= c => r[n + 6] = "/"
      /\ n + 7 <= c => r[n + 7] = "1"
      /\ n + 8 <= c => r[n + 8] = "."
      /\ n + 9 <= c => r[n + 9] = q.version
  BY DEF IsRequestLine
<1>6. k \in Nat /\ 1 <= k /\ k <= c
  BY <1>2
<1> HIDE DEF n, c
<1>7. \/ k = 1 \/ k = 2 \/ k = 3 \/ k \in 4 .. n + 3
      \/ k = n + 4 \/ k = n + 5 \/ k = n + 6 \/ k = n + 7 \/ k = n + 8 \/ k = n + 9
  BY <1>1, <1>2, <1>6
<1>8. CASE k \in 4 .. n + 3
  <2>1. k - 3 \in 1 .. n /\ 3 + (k - 3) = k /\ 3 + (k - 3) <= c
    BY <1>1, <1>6, <1>8
  <2>2. r[3 + (k - 3)] = q.uri[k - 3]
    BY <1>3, <2>1, Zenon
  <2> QED
    BY <1>8, <2>1, <2>2 DEF n
<1>9. CASE k = 1 \/ k = 2 \/ k = 3
  BY <1>4, <1>6, <1>9, Zenon
<1>10. CASE k = n + 4 \/ k = n + 5 \/ k = n + 6 \/ k = n + 7 \/ k = n + 8 \/ k = n + 9
  BY <1>5, <1>6, <1>10, Zenon DEF n
<1> QED
  BY <1>7, <1>8, <1>9, <1>10

\* A request of another method that is not disguised never gets beyond parsing,
\* unless as a POST: no slash is found from which the version would be reached.
LEMMA OtherMethods ==
  ASSUME asked \in Requests, come \in 1 .. Len(Line(asked)),
         ~Occurs("GET", asked.method), ~Disguised, IsVersion(find(request_line, "/", UriTo))
  PROVE  IsPost
<1> DEFINE n == Len(asked.uri)
           r == request_line
           c == Len(r)
           z == 0
           p == find(r, "GET", z)
           u == find(r, "/", Start)
           v == find(r, " ", u)
<1>1. n \in Nat /\ n + 11 < NPOS /\ NPOS \in Nat /\ z \in Nat
  BY RequestParts, Bounds
<1>2. /\ DOMAIN asked.uri = 1 .. n
      /\ \A i \in 1 .. n : asked.uri[i] # " "
      /\ asked.version # " " /\ asked.version # "/" /\ ~Occurs("GET", asked.version) /\ asked.method # "/"
  BY RequestParts
<1>3. r \in Tokens /\ c \in Nat /\ c >= 1 /\ c <= n + 9
  <2>1. r \in Tokens /\ c \in 1 .. n + 9
    BY RequestLineTokens DEF IsRequestLine
  <2> HIDE DEF r, n, c
  <2> QED
    BY <1>1, <2>1
<1>4. \A k \in 1 .. c :
        \/ k = 1 /\ r[k] = asked.method
        \/ k = 2 /\ r[k] = " "
        \/ k = 3 /\ r[k] = "/"
        \/ k \in 4 .. n + 3 /\ k - 3 \in 1 .. n /\ r[k] = asked.uri[k - 3]
        \/ k = n + 4 /\ r[k] = " "
        \/ k = n + 5 /\ r[k] = "HTTP"
        \/ k = n + 6 /\ r[k] = "/"
        \/ k = n + 7 /\ r[k] = "1"
        \/ k = n + 8 /\ r[k] = "."
        \/ k = n + 9 /\ r[k] = asked.version
  BY RequestLineTokens, TokenAt
<1>5. SUFFICES v # NPOS => IsPost
  <2>1. v = UriTo
    BY DEF UriTo, UriFrom
  <2> QED
    BY <2>1, NoEndMeansError
<1>6. /\ HasGet => Start = p
      /\ ~HasGet /\ ~IsPost => Start = find(inbuf_, "\r", 0)
  <2>1. IsPost => ~HasGet
    BY DEF IsPost
  <2>2. HasGet => Start = p
    BY <2>1, Zenon DEF Start
  <2>3. ~HasGet /\ ~IsPost => Start = find(inbuf_, "\r", 0)
    BY Zenon DEF Start
  <2> QED
    BY <2>2, <2>3
<1>7. CASE HasGet
  <2>1. p # NPOS
    BY <1>7 DEF HasGet
  <2>2. p \in 0 .. c - 1 /\ Occurs("GET", r[p + 1])
    <3> HIDE DEF r, z
    <3> QED
      BY <1>1, <1>3, <2>1, TextIs
  <2> HIDE DEF p, r, n, c
  <2>3. p \in Nat /\ p + 1 \in 1 .. c
    BY <1>3, <2>2
  <2>4. (p + 1) - 3 \in 1 .. n /\ Occurs("GET", asked.uri[(p + 1) - 3])
    <3> DEFINE k == p + 1
    <3>1. k \in 1 .. c /\ Occurs("GET", r[k])
      BY <2>2, <2>3
    <3> HIDE DEF k
    <3>2. /\ r[k] # "/" /\ r[k] # " " /\ r[k] # "HTTP" /\ r[k] # "1" /\ r[k] # "."
          /\ r[k] # asked.method /\ r[k] # asked.version
      BY <1>2, <3>1, NoGetAfter
    <3>3. k - 3 \in 1 .. n /\ r[k] = asked.uri[k - 3]
      BY <1>4, <3>1, <3>2, Zenon
    <3>4. k - 3 \in 1 .. n /\ Occurs("GET", asked.uri[k - 3])
      BY <3>1, <3>3
    <3> QED
      BY <3>4 DEF k
  <2>5. u = find(r, "/", p)
    BY <1>6, <1>7
  <2>6. CASE u = NPOS
    BY <2>6, NothingAfter DEF r
  <2>7. CASE u # NPOS
    <3>1. u \in 0 .. c - 1 /\ p <= u /\ r[u + 1] = "/"
      <4>1. r \in Tokens /\ "/" \in Ends /\ p \in Nat
        BY <1>3, <2>3, TheEnds
      <4> HIDE DEF r, p, u
      <4> QED
        BY <2>5, <2>7, <4>1, FindIs DEF c
    <3> HIDE DEF u
    <3>2. u \in Nat /\ u + 1 \in 1 .. c
      BY <1>3, <3>1
    <3>3. u + 1 = n + 6
      <4>1. p \in Int /\ u \in Int /\ p >= 3
        BY <2>3, <2>4, <1>1, <3>2
      <4>2. u + 1 # 1 /\ u + 1 # 3
        BY <4>1, <3>1
      <4>3. ASSUME (u + 1) - 3 \in 1 .. n, r[u + 1] = asked.uri[(u + 1) - 3] PROVE FALSE
        <5>1. asked.uri[(u + 1) - 3] = "/"
          BY <3>1, <4>3
        <5>2. (p + 1) - 3 # (u + 1) - 3
          BY <2>4, <5>1, NoGetAfter
        <5>3. (p + 1) - 3 < (u + 1) - 3
          BY <3>1, <4>1, <5>2
        <5> QED
          BY <1>2, <2>4, <4>3, <5>1, <5>3 DEF Disguised
      <4> DEFINE k == u + 1
      <4>4. k \in 1 .. c /\ r[k] = "/" /\ k # 1 /\ k # 3
        BY <3>1, <3>2, <4>2
      <4>5. k - 3 \in 1 .. n => r[k] # asked.uri[k - 3]
        BY <4>3
      <4>6. r[k] # " " /\ r[k] # "HTTP" /\ r[k] # "1" /\ r[k] # "." /\ r[k] # asked.version
        BY <4>4, <1>2
      <4> HIDE DEF k
      <4>7. k = n + 6
        BY <1>4, <4>4, <4>5, <4>6, Zenon
      <4> QED
        BY <4>7 DEF k
    <3>4. u = n + 5
      BY <1>1, <3>2, <3>3
    <3>5. \A k \in 0 .. Len(r) - 1 : u <= k => r[k + 1] # " "
      <4> SUFFICES ASSUME NEW k \in 0 .. c - 1, u <= k PROVE r[k + 1] # " "
        BY DEF c
      <4>1. k + 1 \in 1 .. c /\ k + 1 \in Nat /\ k + 1 >= n + 6
        BY <1>1, <1>3, <3>4
      <4> DEFINE j == k + 1
      <4>2. j \in 1 .. c /\ j \in Nat /\ j >= n + 6
        BY <4>1
      <4> HIDE DEF j
      <4>3. j # 2 /\ j # n + 4 /\ j # 1 /\ j # 3 /\ ~(j \in 4 .. n + 3)
        BY <1>1, <4>2
      <4>4. r[j] \in {"HTTP", "/", "1", ".", asked.version}
        BY <1>4, <4>2, <4>3
      <4>5. r[j] # " "
        BY <1>2, <4>4
      <4> QED
        BY <4>5 DEF j
    <3>6. v = NPOS
      BY <1>3, <3>2, <3>5, FindNone, TheEnds
    <3> QED
      BY <3>6
  <2> QED
    BY <2>6, <2>7
<1>8. CASE ~HasGet /\ ~IsPost
  <2>1. Start = find(inbuf_, "\r", 0)
    BY <1>6, <1>8
  <2>2. Start \in Nat /\ Start >= c
    BY <2>1, RequestLineIs
  <2>3. \A k \in 0 .. Len(r) - 1 : Start <= k => r[k + 1] # "/"
    <3> HIDE DEF r
    <3> QED
      BY <1>3, <2>2
  <2>4. u = NPOS
    <3> HIDE DEF r
    <3> QED
      BY <1>3, <2>2, <2>3, FindNone, TheEnds
  <2>5. v = NPOS
    BY <2>4, NothingAfter
  <2> QED
    BY <2>5
<1> QED
  BY <1>7, <1>8

\* The name of a request is what stands before its question mark.
LEMMA WithoutQueryIs ==
  ASSUME NEW q \in Requests, q.uri # <<>>
  PROVE  WithoutQuery(q.uri) = NameOf(q)
<1> DEFINE u == q.uri
           z == 0
           p == find(u, "?", z)
<1>1. u \in Tokens /\ Len(u) \in Nat /\ Len(u) + 11 < NPOS /\ NPOS \in Nat /\ z \in Nat
  BY RequestParts, Bounds
<1>2. WithoutQuery(u) = SubSeq(u, 1, IF Len(u) <= p THEN Len(u) ELSE p)
  <2>1. p \in Nat
    <3> HIDE DEF u, z
    <3> QED
      BY <1>1, FindIs, QueryEnds
  <2> HIDE DEF p, u
  <2>2. Min({Len(u), 0 + p}) = IF Len(u) <= p THEN Len(u) ELSE p
    <3>1. 0 + p = p /\ p \in Int /\ Len(u) \in Int
      BY <1>1, <2>1
    <3> QED
      BY <3>1, MinOfTwo
  <2>3. WithoutQuery(u) = SubSeq(u, 0 + 1, Min({Len(u), 0 + p}))
    BY DEF WithoutQuery, substr, p
  <2>4. 0 + 1 = 1
    OBVIOUS
  <2> QED
    BY <2>2, <2>3, <2>4, Zenon
<1> DEFINE at == {i \in 1 .. Len(u) : u[i] = "?"}
<1>3. NameOf(q) = IF at # {} THEN SubSeq(u, 1, Min(at) - 1) ELSE u
  <2>1. Contains(u, "?") <=> at # {}
    BY DEF Contains
  <2>2. at # {} => SelectInSeq(u, LAMBDA t : t = "?") = Min(at)
    BY Zenon DEF SelectInSeq
  <2> HIDE DEF u, at
  <2>3. NameOf(q) = IF Contains(u, "?") THEN SubSeq(u, 1, SelectInSeq(u, LAMBDA t : t = "?") - 1) ELSE u
    BY Zenon DEF NameOf, u
  <2> QED
    BY <2>1, <2>2, <2>3, Zenon
<1> HIDE DEF u
<1>4. \/ p = NPOS /\ \A k \in 0 .. Len(u) - 1 : z <= k => u[k + 1] # "?"
      \/ /\ p \in 0 .. Len(u) - 1 /\ z <= p /\ u[p + 1] = "?"
         /\ \A k \in 0 .. Len(u) - 1 : z <= k /\ k < p => u[k + 1] # "?"
  <2> HIDE DEF z
  <2> QED
    BY <1>1, FindIs, QueryEnds
<1> HIDE DEF p
<1>5. CASE at = {}
  <2>1. p = NPOS
    <3> SUFFICES ASSUME p \in 0 .. Len(u) - 1, u[p + 1] = "?" PROVE FALSE
      BY <1>4
    <3>1. p + 1 \in 1 .. Len(u)
      BY <1>1
    <3> QED
      BY <1>5, <3>1
  <2>2. WithoutQuery(u) = SubSeq(u, 1, Len(u))
    BY <1>1, <1>2, <2>1
  <2>3. SubSeq(u, 1, Len(u)) = u
    BY <1>1, SubSeqFull DEF Tokens
  <2> QED
    BY <1>3, <1>5, <2>2, <2>3 DEF u
<1>6. CASE at # {}
  <2> DEFINE m == Min(at)
  <2>1. m \in at /\ \A k \in at : m <= k
    <3>1. at \subseteq Nat
      BY <1>1
    <3> HIDE DEF at
    <3> QED
      BY <1>6, <3>1, MinIs
  <2> HIDE DEF m
  <2>2. m \in 1 .. Len(u) /\ u[m] = "?"
    BY <2>1
  <2>3. m - 1 \in 0 .. Len(u) - 1 /\ z <= m - 1 /\ (m - 1) + 1 = m
    BY <1>1, <2>2
  <2>4. p \in 0 .. Len(u) - 1 /\ u[p + 1] = "?" /\ ~(m - 1 < p)
    BY <1>4, <2>2, <2>3
  <2>5. p + 1 \in at
    BY <1>1, <2>4
  <2>6. m <= p + 1
    BY <2>1, <2>5
  <2>7. p = m - 1 /\ ~(Len(u) <= p)
    BY <1>1, <2>2, <2>4, <2>6
  <2> QED
    BY <1>2, <1>3, <1>6, <2>7 DEF u, m
<1> QED
  BY <1>5, <1>6

\* What is taken for a GET request is accepted when it is whole and its version is
\* known, and then its name is taken out of the line.
LEMMA GetRequests ==
  ASSUME asked \in Requests, come \in 1 .. Len(Line(asked)), Occurs("GET", asked.method)
  PROVE  /\ ~IsPost
         /\ IsVersion(find(request_line, "/", UriTo)) <=> IsTaken
         /\ IsTaken => ParsedUri = NameOf(asked)
<1> DEFINE n == Len(asked.uri)
           r == request_line
           c == Len(r)
           z == 0
<1>1. n \in Nat /\ n + 11 < NPOS /\ NPOS \in Nat /\ z \in Nat
  BY RequestParts, Bounds
<1>2. /\ DOMAIN asked.uri = 1 .. n /\ asked.uri \in Tokens
      /\ \A i \in 1 .. n : asked.uri[i] # " "
      /\ asked.version # " " /\ asked.version # "/" /\ ~Occurs("GET", asked.version) /\ asked.method # "/"
  BY RequestParts
<1>3. r \in Tokens /\ c \in Nat /\ c >= 1 /\ c <= n + 9
  <2>1. r \in Tokens /\ c \in 1 .. n + 9
    BY RequestLineTokens DEF IsRequestLine
  <2> HIDE DEF r, n, c
  <2> QED
    BY <1>1, <2>1
<1>4. /\ Occurs("GET", r[1]) /\ r[1] # "/" /\ (2 <= c => r[2] = " ") /\ (3 <= c => r[3] = "/")
      /\ \A i \in 1 .. n : 3 + i <= c => r[3 + i] = asked.uri[i]
  BY <1>2, RequestLineTokens DEF IsRequestLine
<1>5. /\ n + 4 <= c => r[n + 4] = " "
      /\ n + 5 <= c => r[n + 5] = "HTTP"
      /\ n + 6 <= c => r[n + 6] = "/"
      /\ n + 7 <= c => r[n + 7] = "1"
      /\ n + 8 <= c => r[n + 8] = "."
      /\ n + 9 <= c => r[n + 9] = asked.version
  BY RequestLineTokens DEF IsRequestLine
<1>6. IsWhole <=> c = n + 9
  BY RequestLineTokens
<1>7. find(r, "GET", z) = z
  <2>1. z \in 0 .. Len(r) - 1 /\ z <= z /\ Occurs("GET", r[z + 1])
    <3>1. z \in 0 .. Len(r) - 1 /\ z <= z /\ z + 1 = 1
      BY <1>3
    <3> QED
      BY <1>4, <3>1
  <2>2. \A k \in 0 .. Len(r) - 1 : z <= k /\ k < z => ~Occurs("GET", r[k + 1])
    BY <1>3
  <2> HIDE DEF r, z
  <2> QED
    BY <1>1, <1>3, <2>1, <2>2, TextAt
<1>8. HasGet /\ ~IsPost /\ Start = z
  <2>1. HasGet
    BY <1>1, <1>7 DEF HasGet
  <2>2. ~IsPost
    BY <2>1 DEF IsPost
  <2> QED
    BY <1>7, <2>1, <2>2, Zenon DEF Start
<1> DEFINE two == 2
           last == n + 3
           slash == n + 5
<1>9. /\ 3 <= c => UriFrom = two
      /\ ~(3 <= c) => UriFrom = NPOS
  <2>1. UriFrom = find(r, "/", z)
    BY <1>8 DEF UriFrom
  <2>2. ASSUME 3 <= c PROVE find(r, "/", z) = two
    <3>1. two \in 0 .. Len(r) - 1 /\ z <= two /\ r[two + 1] = "/"
      <4>1. two \in 0 .. Len(r) - 1 /\ z <= two /\ two + 1 = 3
        BY <1>3, <2>2
      <4> QED
        BY <1>4, <2>2, <4>1
    <3>2. \A k \in 0 .. Len(r) - 1 : z <= k /\ k < two => r[k + 1] # "/"
      <4> SUFFICES ASSUME NEW k \in 0 .. Len(r) - 1, k < two PROVE r[k + 1] # "/"
        OBVIOUS
      <4>1. k + 1 = 1 \/ k + 1 = 2
        OBVIOUS
      <4>2. 2 <= c
        BY <1>3, <2>2
      <4> HIDE DEF r, c
      <4> QED
        BY <1>4, <4>1, <4>2
    <3> HIDE DEF r, z, two
    <3> QED
      BY <1>1, <1>3, <3>1, <3>2, FindAt, TheEnds
  <2>3. ASSUME ~(3 <= c) PROVE find(r, "/", z) = NPOS
    <3>1. \A k \in 0 .. Len(r) - 1 : z <= k => r[k + 1] # "/"
      <4> SUFFICES ASSUME NEW k \in 0 .. Len(r) - 1 PROVE r[k + 1] # "/"
        OBVIOUS
      <4>1. k + 1 = 1 \/ (k + 1 = 2 /\ 2 <= c)
        BY <1>3, <2>3
      <4> HIDE DEF r, c
      <4> QED
        BY <1>4, <4>1
    <3> HIDE DEF r, z
    <3> QED
      BY <1>1, <1>3, <3>1, FindNone, TheEnds
  <2> QED
    BY <2>1, <2>2, <2>3
<1>10. /\ n + 4 <= c => UriTo = last
       /\ ~(n + 4 <= c) => UriTo = NPOS
  <2>1. UriTo = find(r, " ", UriFrom)
    BY DEF UriTo
  <2>2. ASSUME n + 4 <= c PROVE find(r, " ", two) = last
    <3>1. last \in 0 .. Len(r) - 1 /\ two <= last /\ last + 1 = n + 4
      BY <1>1, <1>3, <2>2
    <3>2. r[last + 1] = " "
      BY <1>5, <2>2, <3>1
    <3>3. \A k \in 0 .. Len(r) - 1 : two <= k /\ k < last => r[k + 1] # " "
      <4> SUFFICES ASSUME NEW k \in 0 .. Len(r) - 1, two <= k, k < last PROVE r[k + 1] # " "
        OBVIOUS
      <4>1. k + 1 = 3 \/ ((k + 1) - 3 \in 1 .. n /\ 3 + ((k + 1) - 3) <= c /\ 3 + ((k + 1) - 3) = k + 1)
        BY <1>1, <1>3
      <4>2. 3 <= c
        BY <1>1, <1>3, <2>2
      <4> HIDE DEF r, c, n, last, two
      <4>3. CASE k + 1 = 3
        BY <1>4, <4>2, <4>3
      <4>4. CASE (k + 1) - 3 \in 1 .. n /\ 3 + ((k + 1) - 3) <= c /\ 3 + ((k + 1) - 3) = k + 1
        <5>1. r[3 + ((k + 1) - 3)] = asked.uri[(k + 1) - 3]
          BY <1>4, <4>4, Zenon
        <5> QED
          BY <1>2, <4>4, <5>1
      <4> QED
        BY <4>1, <4>3, <4>4
    <3> HIDE DEF r, two, last
    <3>4. two \in Nat
      BY DEF two
    <3>5. r \in Tokens /\ " " \in Ends /\ last \in 0 .. Len(r) - 1 /\ two <= last
      BY <1>3, <3>1, TheEnds
    <3> QED
      BY <3>2, <3>3, <3>4, <3>5, FindAt
  <2>3. ASSUME ~(n + 4 <= c) PROVE find(r, " ", two) = NPOS
    <3>1. \A k \in 0 .. Len(r) - 1 : two <= k => r[k + 1] # " "
      <4> SUFFICES ASSUME NEW k \in 0 .. Len(r) - 1, two <= k PROVE r[k + 1] # " "
        OBVIOUS
      <4>1. (k + 1 = 3 /\ 3 <= c) \/ ((k + 1) - 3 \in 1 .. n /\ 3 + ((k + 1) - 3) <= c /\ 3 + ((k + 1) - 3) = k + 1)
        BY <1>1, <1>3, <2>3
      <4> HIDE DEF r, c, n, two
      <4>2. CASE k + 1 = 3 /\ 3 <= c
        BY <1>4, <4>2
      <4>3. CASE (k + 1) - 3 \in 1 .. n /\ 3 + ((k + 1) - 3) <= c /\ 3 + ((k + 1) - 3) = k + 1
        <5>1. r[3 + ((k + 1) - 3)] = asked.uri[(k + 1) - 3]
          BY <1>4, <4>3, Zenon
        <5> QED
          BY <1>2, <4>3, <5>1
      <4> QED
        BY <4>1, <4>2, <4>3
    <3>2. two \in Nat
      OBVIOUS
    <3> HIDE DEF r, two
    <3> QED
      BY <1>3, <3>1, <3>2, FindNone, TheEnds
  <2>4. n + 4 <= c => 3 <= c
    BY <1>1, <1>3
  <2>5. find(r, " ", NPOS) = NPOS
    BY NothingAfter
  <2> HIDE DEF n, c, r, two, last
  <2> QED
    BY <1>9, <2>1, <2>2, <2>3, <2>4, <2>5
<1>11. /\ n + 6 <= c => find(r, "/", UriTo) = slash
       /\ ~(n + 6 <= c) => find(r, "/", UriTo) = NPOS
  <2>1. ASSUME n + 6 <= c PROVE find(r, "/", last) = slash
    <3>1. slash \in 0 .. Len(r) - 1 /\ last <= slash /\ slash + 1 = n + 6 /\ last \in Nat
      BY <1>1, <1>3, <2>1
    <3>2. r[slash + 1] = "/"
      BY <1>5, <2>1, <3>1
    <3>3. \A k \in 0 .. Len(r) - 1 : last <= k /\ k < slash => r[k + 1] # "/"
      <4> SUFFICES ASSUME NEW k \in 0 .. Len(r) - 1, last <= k, k < slash PROVE r[k + 1] # "/"
        OBVIOUS
      <4>1. k \in 0 .. c - 1 /\ n + 3 <= k /\ k < n + 5
        OBVIOUS
      <4> HIDE DEF r, c, n
      <4>2. (k + 1 = n + 4 /\ n + 4 <= c) \/ (k + 1 = n + 5 /\ n + 5 <= c)
        BY <1>1, <1>3, <2>1, <4>1
      <4> QED
        BY <1>5, <4>2
    <3> HIDE DEF r, last, slash
    <3> QED
      BY <1>3, <3>1, <3>2, <3>3, FindAt, TheEnds
  <2>2. ASSUME ~(n + 6 <= c) PROVE find(r, "/", last) = NPOS
    <3>1. \A k \in 0 .. Len(r) - 1 : last <= k => r[k + 1] # "/"
      <4> SUFFICES ASSUME NEW k \in 0 .. Len(r) - 1, last <= k PROVE r[k + 1] # "/"
        OBVIOUS
      <4>1. k \in 0 .. c - 1 /\ n + 3 <= k
        OBVIOUS
      <4> HIDE DEF r, c, n
      <4>2. (k + 1 = n + 4 /\ n + 4 <= c) \/ (k + 1 = n + 5 /\ n + 5 <= c)
        BY <1>1, <1>3, <2>2, <4>1
      <4> QED
        BY <1>5, <4>2
    <3>2. last \in Nat
      BY <1>1
    <3> HIDE DEF r, last
    <3> QED
      BY <1>3, <3>1, <3>2, FindNone, TheEnds
  <2>3. n + 6 <= c => n + 4 <= c
    BY <1>1, <1>3
  <2>4. find(r, "/", NPOS) = NPOS
    BY NothingAfter
  <2> HIDE DEF n, c, r, slash, last
  <2> QED
    BY <1>10, <2>1, <2>2, <2>3, <2>4
<1>12. CASE ~(n + 6 <= c)
  <2>1. ~IsVersion(find(r, "/", UriTo))
    BY <1>11, <1>12, NoVersion
  <2>2. ~IsWhole
    BY <1>1, <1>3, <1>6, <1>12
  <2> QED
    BY <1>8, <2>1, <2>2 DEF IsTaken
<1>13. CASE n + 6 <= c
  <2> DEFINE at == n + 6
             three == 3
             x == substr(r, at, three)
  <2>1. Wrap(c - slash) = c - slash /\ Wrap(slash + 1) = at
    <3>1. c - slash \in 0 .. NPOS /\ slash + 1 \in 0 .. NPOS /\ slash + 1 = at
      BY <1>1, <1>3, <1>13
    <3> HIDE DEF slash, c, at
    <3> QED
      BY <3>1, Wraps
  <2>2. IsVersion(find(r, "/", UriTo)) <=>
          c - slash > 3 /\ x \in {<<"1", ".", v>> : v \in Known}
    BY <1>11, <1>13, <2>1 DEF IsVersion
  <2>3. c - slash > 3 <=> c = n + 9
    BY <1>1, <1>3
  <2>4. CASE c # n + 9
    BY <1>6, <1>8, <2>2, <2>3, <2>4 DEF IsTaken
  <2>5. CASE c = n + 9
    <3>1. x = <<"1", ".", asked.version>>
      <4>1. at \in Nat /\ three \in Int /\ three >= 0 /\ Len(r) <= at + three /\ Len(r) - at = three
        BY <1>1, <1>3, <2>5
      <4>2. r[at + 1] = "1" /\ r[at + 2] = "." /\ r[at + 3] = asked.version
        <5>1. at + 1 = n + 7 /\ at + 2 = n + 8 /\ at + 3 = n + 9 /\ n + 7 <= c /\ n + 8 <= c /\ n + 9 <= c
          BY <1>1, <1>3, <2>5
        <5> HIDE DEF at, n, c, r
        <5> QED
          BY <1>5, <5>1
      <4> HIDE DEF at, r
      <4>3. x \in Tokens /\ Len(x) = three /\ \A k \in 1 .. three : x[k] = r[at + k]
        <5> HIDE DEF three
        <5> DEFINE m == IF Len(r) <= at + three THEN Len(r) - at ELSE three
        <5>1. /\ x \in Tokens
              /\ m >= 0 => Len(x) = m /\ \A k \in 1 .. m : x[k] = r[at + k]
          <6>1. r \in Tokens /\ at \in Nat /\ three \in Int
            BY <1>3, <4>1
          <6> HIDE DEF at, r
          <6> QED
            BY <6>1, SubstrIs, Zenon
        <5>2. m = three
          BY <4>1
        <5> HIDE DEF m, x
        <5> QED
          BY <4>1, <5>1, <5>2
      <4> HIDE DEF x
      <4>4. 1 \in 1 .. three /\ 2 \in 1 .. three /\ 3 \in 1 .. three
        OBVIOUS
      <4>5. x[1] = "1" /\ x[2] = "." /\ x[3] = asked.version
        BY <4>2, <4>3, <4>4, Zenon
      <4>6. x \in Seq(Words) /\ Len(x) = 3
        BY <4>3 DEF Tokens
      <4> QED
        BY <4>5, <4>6
    <3>2. x \in {<<"1", ".", v>> : v \in Known} <=> asked.version \in Known
      <4> HIDE DEF x
      <4> QED
        BY <3>1
    <3>3. IsVersion(find(r, "/", UriTo)) <=> IsTaken
      BY <1>6, <2>2, <2>3, <2>5, <3>2 DEF IsTaken
    <3>4. ParsedUri = NameOf(asked)
      <4> DEFINE m == UriTo - UriFrom
      <4>1. UriTo = last /\ UriFrom = two
        BY <1>1, <1>9, <1>10, <2>5
      <4>2. Wrap(UriTo - UriFrom) = n + 1 /\ Wrap(UriFrom + 1) = 3
        <5>1. UriTo - UriFrom = n + 1 /\ UriFrom + 1 = 3
          BY <1>1, <4>1
        <5>2. n + 1 \in 0 .. NPOS /\ 3 \in 0 .. NPOS
          BY <1>1
        <5> QED
          BY <5>1, <5>2, Wraps
      <4>3. CASE n = 0
        <5>1. ParsedUri = <<"index.html">>
          BY <4>2, <4>3 DEF ParsedUri
        <5>2. asked.uri = <<>>
          BY <1>2, <4>3, EmptySeq DEF Tokens
        <5> QED
          BY <5>1, <5>2 DEF NameOf
      <4>4. CASE n # 0
        <5>1. n + 1 > 1 /\ (n + 1) - 1 = n
          BY <1>1, <4>4
        <5>2. ParsedUri = WithoutQuery(substr(r, three, n))
          <6> HIDE DEF n, r
          <6> QED
            BY <4>2, <5>1 DEF ParsedUri, r
        <5>3. substr(r, three, n) = asked.uri
          <6>1. three \in Nat /\ n \in Int /\ n >= 0 /\ (Len(r) <= three + n => Len(r) - three = n)
            BY <1>1, <1>3, <2>5
          <6>2. substr(r, three, n) \in Tokens /\ Len(substr(r, three, n)) = n
                /\ \A k \in 1 .. n : substr(r, three, n)[k] = r[three + k]
            <7> HIDE DEF r, three, n
            <7>1. LET l == IF Len(r) <= three + n THEN Len(r) - three ELSE n
                  IN  /\ substr(r, three, n) \in Tokens
                      /\ l >= 0 => /\ Len(substr(r, three, n)) = l
                                   /\ \A k \in 1 .. l : substr(r, three, n)[k] = r[three + k]
              <8>1. r \in Tokens /\ three \in Nat /\ n \in Int
                BY <1>3, <6>1
              <8> QED
                BY <8>1, SubstrIs
            <7> QED
              BY <6>1, <7>1
          <6>3. \A k \in 1 .. n : r[three + k] = asked.uri[k]
            <7>1. \A k \in 1 .. n : 3 + k <= c
              BY <1>1, <1>3, <2>5
            <7> QED
              BY <1>4, <7>1
          <6> DEFINE y == substr(r, three, n)
          <6> HIDE DEF three, r
          <6>4. y \in Seq(Words) /\ asked.uri \in Seq(Words) /\ Len(y) = Len(asked.uri)
                /\ \A k \in 1 .. Len(y) : y[k] = asked.uri[k]
            BY <1>2, <6>2, <6>3 DEF Tokens
          <6> HIDE DEF y
          <6>5. y = asked.uri
            BY <6>4, SeqEqual
          <6> QED
            BY <6>5 DEF y
        <5>4. asked.uri # <<>>
          BY <4>4
        <5> QED
          BY <5>2, <5>3, <5>4, WithoutQueryIs
      <4> QED
        BY <4>3, <4>4
    <3> QED
      BY <1>8, <3>3, <3>4
  <2> QED
    BY <2>4, <2>5
<1> QED
  BY <1>12, <1>13

\* Whatever is taken out of a line consists of its words.
LEMMA ParsedUriType ==
  ASSUME asked \in Requests, come \in 1 .. Len(Line(asked))
  PROVE  ParsedUri \in Tokens
<1> DEFINE r == request_line
           z == 0
           from == Wrap(UriFrom + 1)
           n == Wrap(UriTo - UriFrom)
<1>1. r \in Tokens
  BY RequestLineTokens DEF IsRequestLine
<1>2. z \in Nat
  OBVIOUS
<1>3. Start \in Nat
  <2>1. find(r, "GET", z) \in Nat /\ find(r, "POST", z) \in Nat
    <3> HIDE DEF r, z
    <3> QED
      BY <1>1, <1>2, TextIs
  <2>2. find(inbuf_, "\r", 0) \in Nat
    BY RequestLineIs
  <2>3. CASE HasGet
    BY <2>1, <2>3, Zenon DEF Start, IsPost
  <2>4. CASE IsPost
    BY <2>1, <2>4, Zenon DEF Start, IsPost
  <2>5. CASE ~HasGet /\ ~IsPost
    BY <2>2, <2>5, Zenon DEF Start
  <2> QED
    BY <2>3, <2>4, <2>5
<1>4. UriFrom \in Nat
  BY <1>1, <1>3, FindIs, TheEnds DEF UriFrom
<1>5. UriTo \in Nat
  BY <1>1, <1>4, FindIs, TheEnds DEF UriTo
<1>6. from \in Nat /\ n \in Nat
  <2>1. UriFrom + 1 \in Int /\ UriTo - UriFrom \in Int
    BY <1>4, <1>5
  <2> QED
    BY <2>1, Wraps
<1>7. ParsedUri = IF n > 1 THEN WithoutQuery(substr(r, from, n - 1)) ELSE <<"index.html">>
  BY Zenon DEF ParsedUri
<1> HIDE DEF r, from, n
<1>8. substr(r, from, n - 1) \in Tokens
  <2> DEFINE m == n - 1
  <2>1. m \in Int
    BY <1>6
  <2> HIDE DEF m
  <2>2. substr(r, from, m) \in Tokens
    BY <1>1, <1>6, <2>1, SubstrIs
  <2> QED
    BY <2>2 DEF m
<1> DEFINE x == substr(r, from, n - 1)
<1>9. WithoutQuery(x) \in Tokens
  <2> DEFINE q == find(x, "?", z)
  <2>1. x \in Tokens
    BY <1>8
  <2> HIDE DEF x
  <2>2. q \in Nat
    <3> HIDE DEF z
    <3> QED
      BY <1>2, <2>1, FindIs, QueryEnds
  <2>3. WithoutQuery(x) = substr(x, z, q)
    BY DEF WithoutQuery
  <2> HIDE DEF q, z
  <2>4. q \in Int
    BY <2>2
  <2>5. substr(x, z, q) \in Tokens
    BY <1>2, <2>1, <2>4, SubstrIs
  <2> QED
    BY <2>3, <2>5
<1>10. <<"index.html">> \in Tokens
  <2>1. \A w \in Words : <<w>> \in Seq(Words)
    OBVIOUS
  <2> QED
    BY <2>1, WordsAre, Zenon DEF Tokens
<1> QED
  BY <1>7, <1>9, <1>10

-----------------------------------------------------------------------------
(* The steps of a request. *)

\* What has been parsed is taken for a good request, or is a disguised one.
Parsed ==
  /\ state \in {"open", "map"} => uri \in Files
  /\ state \in {"analysis", "open", "map", "fin"} => Disguised \/ (IsTaken /\ uri = NameOf(asked))

\* The answer, from stat to write.
Answering ==
  /\ state \in {"read", "uri", "analysis", "body", "error", "ended"} => outbuf_ = Nothing
  /\ state \in {"open", "map"} => outbuf_ = Answer(st_size, uri, 0)
  /\ state = "fin" => outbuf_ = Nothing \/ (outbuf_.name = uri /\ outbuf_.announced = outbuf_.body)

\* An answer is given at the end only, and is the right one.
Given ==
  /\ state # "ended" => written = Nothing
  /\ written # Nothing =>
       /\ Disguised \/ (IsTaken /\ written.name = NameOf(asked))
       /\ written.announced = written.body

IsServed == /\ IsTaken /\ ~trouble
            /\ NameOf(asked) \in Files \ {<<"favicon.ico">>} /\ files[NameOf(asked)] > 0

\* A file that is there and stays as it is is on its way.
Serving ==
  IsServed =>
    /\ state \notin {"body", "error", "killed"}
    /\ state \in {"open", "map"} => st_size = files[NameOf(asked)]
    /\ state = "map" => src = files[NameOf(asked)]
    /\ state = "fin" => outbuf_ # Nothing
    /\ state = "ended" => written # Nothing

\* The inductive invariant of a request.
HttpInv ==
  /\ HttpTypeOK
  /\ state # "read" => come \in 1 .. Len(Line(asked))
  /\ Parsed /\ Answering /\ Given /\ Serving

\* A disguised request is not taken for a good one.
LEMMA NotBoth == ~(Disguised /\ IsTaken)
  BY DEF Disguised, IsTaken

\* What is said of a request depends on it and on what has come of it only.
LEMMA SameRequest ==
  ASSUME asked' = asked, come' = come
  PROVE  /\ IsTaken' <=> IsTaken
         /\ Disguised' <=> Disguised
         /\ NameOf(asked)' = NameOf(asked)
         /\ Line(asked)' = Line(asked)
  BY DEF IsTaken, IsWhole, Disguised

\* Nothing is an answer of its own.
LEMMA NothingIs ==
  /\ Nothing \in Answers /\ Nothing.announced = -1
  /\ \A u \in Seq(Words), n \in 0 .. MaxPages :
       Answer(n, u, 0) \in Answers /\ Answer(n, u, 0) # Nothing
<1>1. <<>> \in Seq(Words)
  BY EmptySeq
<1>2. -1 \in -1 .. MaxPages /\ 0 \in 0 .. MaxPages /\ \A n \in 0 .. MaxPages : n \in -1 .. MaxPages /\ n # -1
  BY Bounds
<1> QED
  BY <1>1, <1>2 DEF Nothing, Answers, Answer

\* The beginning.
LEMMA HttpInitInv == HttpInit => HttpInv
<1> SUFFICES ASSUME HttpInit PROVE HttpInv
  OBVIOUS
<1>1. HttpTypeOK
  <2>1. <<>> \in Seq(Words)
    BY EmptySeq
  <2>2. files \in [Files -> -1 .. MaxPages]
    <3>1. \A n \in 0 .. MaxPages : n \in -1 .. MaxPages
      BY Bounds
    <3> QED
      BY <3>1 DEF HttpInit
  <2>3. -1 \in -1 .. MaxPages
    BY Bounds
  <2> QED
    BY <2>1, <2>2, <2>3, NothingIs DEF HttpInit, HttpTypeOK
<1> QED
  BY <1>1 DEF HttpInit, HttpInv, Parsed, Answering, Given, Serving

\* Reading.
LEMMA ReadInv == HttpInv /\ Read => HttpInv'
<1> SUFFICES ASSUME HttpInv, Read PROVE HttpInv'
  OBVIOUS
<1>1. /\ state = "read" /\ state' = "uri" /\ come' \in 1 .. Len(Line(asked))
      /\ asked' = asked /\ UNCHANGED <<uri, st_size, src, outbuf_, written, files, trouble>>
  BY DEF Read
<1>2. come' \in Nat
  <2>1. Len(Line(asked)) \in Nat
    BY LineIs, LenProperties DEF IsLine, Tokens, HttpInv, HttpTypeOK
  <2> QED
    BY <1>1, <2>1
<1>3. HttpTypeOK'
  BY <1>1, <1>2 DEF HttpInv, HttpTypeOK
<1>4. Line(asked)' = Line(asked)
  BY <1>1
<1>5. outbuf_' = Nothing /\ written' = Nothing
  BY <1>1 DEF HttpInv, Answering, Given
<1>6. Parsed' /\ Answering' /\ Given' /\ Serving'
  BY <1>1, <1>5 DEF Parsed, Answering, Given, Serving
<1> QED
  BY <1>1, <1>3, <1>4, <1>6 DEF HttpInv

\* Parsing: only what is taken for a good request or a disguised one comes out of it.
LEMMA ParseInv == HttpInv /\ ParseUri => HttpInv'
<1> SUFFICES ASSUME HttpInv, ParseUri PROVE HttpInv'
  OBVIOUS
<1>1. /\ state = "uri" /\ uri' = ParsedUri
      /\ UNCHANGED <<asked, come, st_size, src, outbuf_, written, files, trouble>>
      /\ state' \in {"error", "body", "analysis"}
      /\ state' = IF ~IsVersion(find(request_line, "/", UriTo)) THEN "error"
                  ELSE IF IsPost THEN "body" ELSE "analysis"
  BY DEF ParseUri
<1>2. asked \in Requests /\ come \in 1 .. Len(Line(asked))
  BY <1>1 DEF HttpInv, HttpTypeOK
<1>3. uri' \in Seq(Words)
  BY <1>1, <1>2, ParsedUriType DEF Tokens
<1>4. HttpTypeOK'
  BY <1>1, <1>3 DEF HttpInv, HttpTypeOK
<1>5. outbuf_' = Nothing /\ written' = Nothing
  BY <1>1 DEF HttpInv, Answering, Given
<1>6. /\ IsTaken' <=> IsTaken
      /\ Disguised' <=> Disguised
      /\ NameOf(asked)' = NameOf(asked)
      /\ Line(asked)' = Line(asked)
  BY <1>1, SameRequest
<1>7. IsTaken => state' = "analysis" /\ uri' = NameOf(asked)
  <2> SUFFICES ASSUME IsTaken PROVE state' = "analysis" /\ uri' = NameOf(asked)
    OBVIOUS
  <2>1. Occurs("GET", asked.method)
    BY DEF IsTaken
  <2>2. ~IsPost /\ IsVersion(find(request_line, "/", UriTo)) /\ ParsedUri = NameOf(asked)
    BY <1>2, <2>1, GetRequests
  <2> QED
    BY <1>1, <2>2
<1>8. state' = "analysis" => Disguised \/ IsTaken
  <2> SUFFICES ASSUME state' = "analysis", ~Disguised PROVE IsTaken
    OBVIOUS
  <2>1. IsVersion(find(request_line, "/", UriTo)) /\ ~IsPost
    BY <1>1
  <2>2. Occurs("GET", asked.method)
    BY <1>2, <2>1, OtherMethods
  <2> QED
    BY <1>2, <2>1, <2>2, GetRequests
<1>9. Parsed'
  BY <1>1, <1>6, <1>7, <1>8 DEF Parsed
<1>10. Answering' /\ Given'
  BY <1>1, <1>5 DEF Answering, Given
<1>11. Serving'
  <2> SUFFICES ASSUME IsServed' PROVE Serving'
    BY DEF Serving
  <2>1. state' = "analysis"
    BY <1>6, <1>7 DEF IsServed
  <2> QED
    BY <2>1 DEF Serving
<1> QED
  BY <1>1, <1>2, <1>4, <1>6, <1>9, <1>10, <1>11 DEF HttpInv

\* The steps after parsing change neither the request nor what has come of it.
LEMMA AnalysisInv == HttpInv /\ Analysis => HttpInv'
<1> SUFFICES ASSUME HttpInv, Analysis PROVE HttpInv'
  OBVIOUS
<1>1. state = "analysis" /\ UNCHANGED <<asked, come, uri, src, written, files, trouble>>
  BY DEF Analysis
<1>2. /\ IsTaken' <=> IsTaken
      /\ Disguised' <=> Disguised
      /\ NameOf(asked)' = NameOf(asked)
      /\ Line(asked)' = Line(asked)
  BY <1>1, SameRequest
<1>3. /\ HttpTypeOK /\ outbuf_ = Nothing /\ written = Nothing
      /\ Disguised \/ (IsTaken /\ uri = NameOf(asked))
      /\ come \in 1 .. Len(Line(asked))
      /\ uri \in Seq(Words) /\ files \in [Files -> -1 .. MaxPages] /\ st_size \in -1 .. MaxPages
  BY <1>1 DEF HttpInv, HttpTypeOK, Parsed, Answering, Given
<1>4. uri \in Files /\ files[uri] # -1 => files[uri] \in 0 .. MaxPages /\ files[uri] \in -1 .. MaxPages
  BY <1>3, Bounds
<1>5. \/ /\ state' = "fin" /\ st_size' = st_size
         /\ \/ uri = <<"hello">> /\ outbuf_' = Answer(0, uri, 0)
            \/ uri = <<"favicon.ico">> /\ outbuf_' = outbuf_
      \/ /\ uri \in Files /\ files[uri] # -1 /\ st_size' = files[uri]
         /\ outbuf_' = Answer(files[uri], uri, 0) /\ state' = "open"
      \/ ~(uri \in Files /\ files[uri] # -1) /\ state' = "error" /\ UNCHANGED <<st_size, outbuf_>>
  BY DEF Analysis
<1>6. 0 \in 0 .. MaxPages
  BY Bounds
<1>7. HttpTypeOK'
  <2>1. outbuf_' \in Answers
    BY <1>3, <1>4, <1>5, <1>6, NothingIs
  <2>2. st_size' \in -1 .. MaxPages
    BY <1>3, <1>4, <1>5
  <2>3. state' \in {"fin", "open", "error"}
    BY <1>5
  <2> QED
    BY <1>1, <1>3, <2>1, <2>2, <2>3 DEF HttpTypeOK
<1>8. Parsed'
  BY <1>1, <1>2, <1>3, <1>5 DEF Parsed
<1>9. Answering'
  <2>1. Answer(0, uri, 0).name = uri /\ Answer(0, uri, 0).announced = Answer(0, uri, 0).body
    BY DEF Answer
  <2> QED
    BY <1>1, <1>3, <1>5, <2>1 DEF Answering
<1>10. Given'
  BY <1>1, <1>3 DEF Given
<1>11. Serving'
  <2> SUFFICES ASSUME IsServed' PROVE Serving'
    BY DEF Serving
  <2>1. IsServed /\ uri = NameOf(asked)
    BY <1>1, <1>2, <1>3, NotBoth DEF IsServed
  <2>2. uri \in Files /\ uri # <<"favicon.ico">> /\ files[uri] # -1
    BY <1>3, <2>1 DEF IsServed
  <2>3. Answer(0, uri, 0) # Nothing
    BY <1>3, <1>6, NothingIs
  <2> QED
    BY <1>1, <1>2, <1>5, <2>1, <2>2, <2>3 DEF Serving
<1> QED
  BY <1>1, <1>2, <1>3, <1>7, <1>8, <1>9, <1>10, <1>11 DEF HttpInv

\* The file is opened or the answer is taken back.
LEMMA OpenInv == HttpInv /\ Open => HttpInv'
<1> SUFFICES ASSUME HttpInv, Open PROVE HttpInv'
  OBVIOUS
<1>1. state = "open" /\ UNCHANGED <<asked, come, uri, st_size, written, files>>
  BY DEF Open
<1>2. /\ IsTaken' <=> IsTaken
      /\ Disguised' <=> Disguised
      /\ NameOf(asked)' = NameOf(asked)
      /\ Line(asked)' = Line(asked)
  BY <1>1, SameRequest
<1>3. /\ HttpTypeOK /\ outbuf_ = Answer(st_size, uri, 0) /\ written = Nothing
      /\ Disguised \/ (IsTaken /\ uri = NameOf(asked))
      /\ come \in 1 .. Len(Line(asked))
      /\ files \in [Files -> -1 .. MaxPages]
  BY <1>1 DEF HttpInv, HttpTypeOK, Parsed, Answering, Given
<1>4. \/ files[uri] # -1 /\ src' = files[uri] /\ state' = "map" /\ UNCHANGED <<outbuf_, trouble>>
      \/ outbuf_' = Nothing /\ state' = "error" /\ trouble' = TRUE /\ src' = src
  BY DEF Open, Cleared
<1>5. uri \in Files /\ files[uri] \in -1 .. MaxPages
  BY <1>1, <1>3 DEF HttpInv, Parsed
<1>6. HttpTypeOK'
  BY <1>1, <1>3, <1>4, <1>5, NothingIs DEF HttpTypeOK
<1>7. Parsed'
  BY <1>1, <1>2, <1>3, <1>4, <1>5 DEF Parsed
<1>8. Answering' /\ Given'
  BY <1>1, <1>3, <1>4 DEF Answering, Given
<1>9. Serving'
  <2> SUFFICES ASSUME IsServed' PROVE Serving'
    BY DEF Serving
  <2>1. src' = files[uri] /\ state' = "map" /\ UNCHANGED <<outbuf_, trouble>>
    BY <1>4 DEF IsServed
  <2>2. IsServed /\ uri = NameOf(asked)
    BY <1>1, <1>2, <1>3, <2>1, NotBoth DEF IsServed
  <2>3. st_size = files[NameOf(asked)]
    BY <1>1, <2>2 DEF HttpInv, Serving
  <2> QED
    BY <1>1, <1>2, <2>1, <2>2, <2>3 DEF Serving
<1> QED
  BY <1>1, <1>2, <1>3, <1>6, <1>7, <1>8, <1>9 DEF HttpInv

\* The file is mapped, or the answer is taken back.
LEMMA MapInv == HttpInv /\ Map => HttpInv'
<1> SUFFICES ASSUME HttpInv, Map PROVE HttpInv'
  OBVIOUS
<1>1. state = "map" /\ src' = -1 /\ UNCHANGED <<asked, come, uri, st_size, written, files>>
  BY DEF Map
<1>2. /\ IsTaken' <=> IsTaken
      /\ Disguised' <=> Disguised
      /\ NameOf(asked)' = NameOf(asked)
      /\ Line(asked)' = Line(asked)
  BY <1>1, SameRequest
<1>3. /\ HttpTypeOK /\ outbuf_ = Answer(st_size, uri, 0) /\ written = Nothing
      /\ Disguised \/ (IsTaken /\ uri = NameOf(asked))
      /\ come \in 1 .. Len(Line(asked))
      /\ files \in [Files -> -1 .. MaxPages] /\ uri \in Seq(Words)
      /\ st_size \in -1 .. MaxPages /\ src \in -1 .. MaxPages /\ trouble \in BOOLEAN
  BY <1>1 DEF HttpInv, HttpTypeOK, Parsed, Answering, Given
<1> DEFINE full == Answer(st_size, uri, st_size)
<1>4. [outbuf_ EXCEPT !.body = st_size] = full
  BY <1>3 DEF Answer
<1>5. \/ st_size > 0 /\ src < st_size /\ state' = "killed" /\ outbuf_' = outbuf_ /\ trouble' = trouble
      \/ st_size > 0 /\ ~(src < st_size) /\ state' = "fin" /\ outbuf_' = full /\ trouble' = trouble
      \/ outbuf_' = Nothing /\ state' = "error" /\ trouble' = (trouble \/ st_size > 0)
  BY <1>4 DEF Map, Cleared
<1>6. full.name = uri /\ full.announced = st_size /\ full.body = st_size
  BY DEF Answer
<1>7. st_size > 0 => full \in Answers
  <2>1. st_size > 0 => st_size \in 0 .. MaxPages
    BY <1>3, Bounds
  <2> QED
    BY <1>3, <2>1 DEF Answer, Answers
<1> HIDE DEF full
<1>8. HttpTypeOK'
  <2>1. outbuf_' \in Answers
    BY <1>3, <1>5, <1>7, NothingIs DEF HttpTypeOK
  <2>2. state' \in {"killed", "fin", "error"} /\ trouble' \in BOOLEAN
    BY <1>3, <1>5
  <2>3. -1 \in -1 .. MaxPages
    BY Bounds
  <2> QED
    BY <1>1, <1>3, <2>1, <2>2, <2>3 DEF HttpTypeOK
<1>9. Parsed'
  BY <1>1, <1>2, <1>3, <1>5 DEF Parsed
<1>10. Answering' /\ Given'
  BY <1>1, <1>3, <1>5, <1>6 DEF Answering, Given
<1>11. Serving'
  <2> SUFFICES ASSUME IsServed' PROVE Serving'
    BY DEF Serving
  <2>1. ~trouble'
    BY DEF IsServed
  <2>2. ~trouble
    BY <1>3, <1>5, <2>1
  <2>3. IsServed
    BY <1>1, <1>2, <2>2 DEF IsServed
  <2>4. st_size = files[NameOf(asked)] /\ src = files[NameOf(asked)] /\ st_size > 0
    BY <1>1, <2>3 DEF HttpInv, Serving, IsServed
  <2>5. state' = "fin" /\ outbuf_' = full
    <3>1. ~(src < st_size)
      BY <1>3, <2>4
    <3>2. ~(trouble' = (trouble \/ st_size > 0))
      BY <2>1, <2>4
    <3> QED
      BY <1>5, <3>1, <3>2
  <2>6. full # Nothing
    BY <1>3, <1>6, <2>4, NothingIs
  <2> QED
    BY <2>5, <2>6 DEF Serving
<1> QED
  BY <1>1, <1>2, <1>3, <1>8, <1>9, <1>10, <1>11 DEF HttpInv

\* What is left of the answer is given.
LEMMA EndInv == HttpInv /\ EndParse => HttpInv'
<1> SUFFICES ASSUME HttpInv, EndParse PROVE HttpInv'
  OBVIOUS
<1>1. /\ state \in {"body", "fin", "error"} /\ state' = "ended"
      /\ written' = outbuf_ /\ outbuf_' = Nothing
      /\ UNCHANGED <<asked, come, uri, st_size, src, files, trouble>>
  BY DEF EndParse
<1>2. /\ IsTaken' <=> IsTaken
      /\ Disguised' <=> Disguised
      /\ NameOf(asked)' = NameOf(asked)
      /\ Line(asked)' = Line(asked)
  BY <1>1, SameRequest
<1>3. HttpTypeOK'
  BY <1>1, NothingIs DEF HttpInv, HttpTypeOK
<1>4. Parsed' /\ Answering'
  BY <1>1 DEF Parsed, Answering
<1>5. written' # Nothing =>
        /\ state = "fin" /\ written'.name = uri /\ written'.announced = written'.body
        /\ Disguised \/ (IsTaken /\ uri = NameOf(asked))
  BY <1>1 DEF HttpInv, Answering, Parsed
<1>6. Given'
  BY <1>1, <1>2, <1>5 DEF Given
<1>7. Serving'
  <2> SUFFICES ASSUME IsServed' PROVE written' # Nothing
    BY <1>1 DEF Serving
  <2>1. IsServed
    BY <1>1, <1>2 DEF IsServed
  <2> QED
    BY <1>1, <2>1 DEF HttpInv, Serving
<1> QED
  BY <1>1, <1>2, <1>3, <1>4, <1>6, <1>7 DEF HttpInv

\* What the world does to the files is trouble.
LEMMA FilesInv == HttpInv /\ (ResizeFile \/ RemoveFile) => HttpInv'
<1> SUFFICES ASSUME HttpInv, ResizeFile \/ RemoveFile PROVE HttpInv'
  OBVIOUS
<1>1. /\ UNCHANGED <<asked, come, state, uri, st_size, outbuf_, written>> /\ trouble' = TRUE
      /\ files' \in [Files -> -1 .. MaxPages] /\ src' \in -1 .. MaxPages
  <2>1. files \in [Files -> -1 .. MaxPages] /\ src \in -1 .. MaxPages
    BY DEF HttpInv, HttpTypeOK
  <2>2. \A n \in 0 .. MaxPages : n \in -1 .. MaxPages
    BY Bounds
  <2>3. -1 \in -1 .. MaxPages
    BY Bounds
  <2>4. CASE ResizeFile
    BY <2>1, <2>2, <2>4 DEF ResizeFile
  <2>5. CASE RemoveFile
    BY <2>1, <2>3, <2>5 DEF RemoveFile
  <2> QED
    BY <2>4, <2>5
<1>2. /\ IsTaken' <=> IsTaken
      /\ Disguised' <=> Disguised
      /\ NameOf(asked)' = NameOf(asked)
      /\ Line(asked)' = Line(asked)
  BY <1>1, SameRequest
<1>3. HttpTypeOK'
  BY <1>1 DEF HttpInv, HttpTypeOK
<1>4. Parsed'
  BY <1>1, <1>2 DEF HttpInv, Parsed
<1>5. Answering'
  BY <1>1 DEF HttpInv, Answering
<1>6. Given'
  BY <1>1, <1>2 DEF HttpInv, Given
<1>7. Serving'
  BY <1>1 DEF Serving, IsServed
<1> QED
  BY <1>1, <1>2, <1>3, <1>4, <1>5, <1>6, <1>7 DEF HttpInv

\* Stuttering.
LEMMA HttpStutter == HttpInv /\ UNCHANGED httpVars => HttpInv'
<1> SUFFICES ASSUME HttpInv, UNCHANGED httpVars PROVE HttpInv'
  OBVIOUS
<1>1. UNCHANGED <<asked, come, state, uri, st_size, src, outbuf_, written, files, trouble>>
  BY DEF httpVars
<1>2. /\ IsTaken' <=> IsTaken
      /\ Disguised' <=> Disguised
      /\ NameOf(asked)' = NameOf(asked)
      /\ Line(asked)' = Line(asked)
  BY <1>1, SameRequest
<1>3. HttpTypeOK'
  BY <1>1 DEF HttpInv, HttpTypeOK
<1>4. Parsed' /\ Answering' /\ Given'
  BY <1>1, <1>2 DEF HttpInv, Parsed, Answering, Given
<1>5. IsServed' <=> IsServed
  BY <1>1, <1>2 DEF IsServed
<1>6. Serving'
  BY <1>1, <1>2, <1>5 DEF HttpInv, Serving
<1> QED
  BY <1>1, <1>2, <1>3, <1>4, <1>6 DEF HttpInv

\* Every step.
LEMMA HttpNextInv == HttpInv /\ [HttpNext]_httpVars => HttpInv'
  BY ReadInv, ParseInv, AnalysisInv, OpenInv, MapInv, EndInv, FilesInv, HttpStutter DEF HttpNext

\* The positions that parse_uri takes are in the request line or npos.
LEMMA Positions ==
  ASSUME asked \in Requests, come \in 1 .. Len(Line(asked))
  PROVE  \A p \in {UriFrom, find(request_line, "/", UriTo)} :
           p = NPOS \/ p \in 0 .. Len(request_line) - 1
<1> DEFINE r == request_line
           z == 0
<1>1. r \in Tokens
  BY RequestLineTokens DEF IsRequestLine
<1>2. z \in Nat
  OBVIOUS
<1>3. Start \in Nat
  <2>1. find(r, "GET", z) \in Nat /\ find(r, "POST", z) \in Nat
    <3> HIDE DEF r, z
    <3> QED
      BY <1>1, <1>2, TextIs
  <2>2. find(inbuf_, "\r", 0) \in Nat
    BY RequestLineIs
  <2>3. CASE HasGet
    BY <2>1, <2>3, Zenon DEF Start, IsPost
  <2>4. CASE IsPost
    BY <2>1, <2>4, Zenon DEF Start, IsPost
  <2>5. CASE ~HasGet /\ ~IsPost
    BY <2>2, <2>5, Zenon DEF Start
  <2> QED
    BY <2>3, <2>4, <2>5
<1>4. UriFrom \in Nat /\ (UriFrom = NPOS \/ UriFrom \in 0 .. Len(r) - 1)
  <2> HIDE DEF r
  <2> QED
    BY <1>1, <1>3, FindIs, TheEnds DEF UriFrom, r
<1>5. UriTo \in Nat
  BY <1>1, <1>4, FindIs, TheEnds DEF UriTo
<1> DEFINE v == find(r, "/", UriTo)
<1>6. v = NPOS \/ v \in 0 .. Len(r) - 1
  <2> HIDE DEF r
  <2> QED
    BY <1>1, <1>5, FindIs, TheEnds
<1> QED
  BY <1>4, <1>6

\* For all lines, wherever they are cut off: no substr of parse_uri begins behind
\* the end of the line, although npos is taken for a position.
THEOREM NoThrowCorrect == HttpSpec => []NoThrow
<1>1. HttpInv => NoThrow
  <2> SUFFICES ASSUME HttpInv, state # "read",
                      NEW p \in {UriFrom, find(request_line, "/", UriTo)}
               PROVE  Wrap(p + 1) <= Len(request_line)
    BY DEF NoThrow
  <2>1. asked \in Requests /\ come \in 1 .. Len(Line(asked))
    BY DEF HttpInv, HttpTypeOK
  <2> DEFINE c == Len(request_line)
  <2>2. p = NPOS \/ p \in 0 .. c - 1
    BY <2>1, Positions
  <2>3. c \in Nat /\ c < NPOS
    <3>1. c \in 1 .. Len(asked.uri) + 9
      BY <2>1, RequestLineTokens DEF IsRequestLine
    <3>2. Len(asked.uri) \in Nat /\ Len(asked.uri) + 11 < NPOS
      BY <2>1, RequestParts
    <3> HIDE DEF c
    <3> QED
      BY <3>1, <3>2, Bounds
  <2> HIDE DEF c
  <2>4. CASE p = NPOS
    BY <2>3, <2>4, Wraps DEF c
  <2>5. CASE p \in 0 .. c - 1
    <3>1. p + 1 \in 0 .. NPOS /\ p + 1 <= c
      BY <2>3, <2>5, Bounds
    <3>2. Wrap(p + 1) = p + 1
      BY <3>1, Wraps
    <3> QED
      BY <3>1, <3>2 DEF c
  <2> QED
    BY <2>2, <2>4, <2>5
<1> QED
  BY HttpInitInv, HttpNextInv, <1>1, PTL DEF HttpSpec

\* For all methods, URIs, versions and files, wherever the line is cut off: only
\* what is taken for a good request and disguised ones are answered, with what they
\* name and with as much as is announced, and what is taken for a good one is.
THEOREM AnswersTheRequestCorrect == HttpSpec => []AnswersTheRequest
<1>1. HttpInv => AnswersTheRequest
  BY DEF HttpInv, Given, Serving, IsServed, AnswersTheRequest
<1> QED
  BY HttpInitInv, HttpNextInv, <1>1, PTL DEF HttpSpec
=============================================================================
