------------------------- MODULE CpuSchedulerProofs -------------------------
(***************************************************************************)
(* The run queues of resource-scheduling/cpu_scheduler.c, proved: the       *)
(* invariant CpusInv, that every call keeps it, and that with it no thread  *)
(* is lost or doubled, the processor found by load is a least loaded one,   *)
(* and the head of a queue is next when priorities play no part.            *)
(***************************************************************************)
EXTENDS CpuScheduler, FiniteSetTheorems, TLAPS

\* Sizes and bounds are numbers.
CpuConstants ==
  Priority \subseteq Nat /\ MaxRunqueues \in Nat /\ MaxThreads \in Nat /\ MaxRuntime \in Nat

-----------------------------------------------------------------------------
(* Counting the threads of run queues *)

\* Where threads of S are in the queues rq: processor and place.
Places(rq, S) ==
  {ci \in (1..Len(rq)) \X (1..MaxThreads) :
     ci[2] \in 1..Len(rq[ci[1]].queue) /\ rq[ci[1]].queue[ci[2]].id \in S}

\* All queues have room for what they hold.
Fits(rq) ==
  /\ Len(rq) \in Nat /\ MaxThreads \in Nat
  /\ \A d \in 1..Len(rq) : Len(rq[d].queue) \in Nat /\ Len(rq[d].queue) <= MaxThreads

\* A pair of a processor and a place, in the words of the queues.
LEMMA InPlaces ==
  ASSUME NEW rq, Fits(rq), NEW S
  PROVE  /\ \A d, j : <<d, j>> \in Places(rq, S) <=>
                        d \in 1..Len(rq) /\ j \in 1..Len(rq[d].queue) /\ rq[d].queue[j].id \in S
         /\ \A x \in Places(rq, S) : x = <<x[1], x[2]>> /\ x[1] \in Nat /\ x[2] \in Nat
         /\ IsFiniteSet(Places(rq, S)) /\ Cardinality(Places(rq, S)) \in Nat
<1>1. ASSUME NEW d, NEW j
      PROVE  <<d, j>> \in Places(rq, S) <=>
               d \in 1..Len(rq) /\ j \in 1..Len(rq[d].queue) /\ rq[d].queue[j].id \in S
  BY DEF Places, Fits
<1>2. \A x \in Places(rq, S) : x = <<x[1], x[2]>> /\ x[1] \in Nat /\ x[2] \in Nat
  BY DEF Places, Fits
<1>3. IsFiniteSet((1..Len(rq)) \X (1..MaxThreads))
  <2>1. 1 \in Int /\ Len(rq) \in Int /\ MaxThreads \in Int
    BY DEF Fits
  <2>2. IsFiniteSet(1..Len(rq)) /\ IsFiniteSet(1..MaxThreads)
    BY <2>1, FS_Interval
  <2> QED
    BY Zenon, <2>2, FS_Product
<1>4. Places(rq, S) \subseteq (1..Len(rq)) \X (1..MaxThreads)
  BY DEF Places
<1>5. IsFiniteSet(Places(rq, S))
  BY <1>3, <1>4, FS_Subset
<1> QED
  BY <1>1, <1>2, <1>5, FS_CardinalityType

\* Sets between which a function is one to one and onto are of one size.
LEMMA SameSize ==
  ASSUME NEW A, NEW B, IsFiniteSet(A), NEW f \in [A -> B],
         \A x, y \in A : f[x] = f[y] => x = y,
         \A z \in B : \E x \in A : f[x] = z
  PROVE  IsFiniteSet(B) /\ Cardinality(B) = Cardinality(A)
<1>1. f \in Bijection(A, B)
  BY DEF Bijection, Injection, Surjection, IsInjective
<1>2. ExistsBijection(A, B)
  BY <1>1 DEF ExistsBijection
<1> QED
  BY <1>2, FS_Bijection

\* r2 is rq after memmove over the entry at i of queue c.
LeftAt(rq, r2, c, i) ==
  /\ Fits(rq) /\ c \in 1..Len(rq) /\ i \in 1..Len(rq[c].queue)
  /\ Len(r2) = Len(rq) /\ Len(r2[c].queue) = Len(rq[c].queue) - 1
  /\ \A d \in 1..Len(rq) : d # c => r2[d].queue = rq[d].queue
  /\ \A j \in 1..(Len(rq[c].queue) - 1) :
       r2[c].queue[j] = IF j < i THEN rq[c].queue[j] ELSE rq[c].queue[j + 1]

\* r2 has one thread of S less if the entry at i of queue c of rq was one of them.
FewerBy(rq, r2, c, i, S) ==
  /\ Fits(r2)
  /\ rq[c].queue[i].id \in S => Cardinality(Places(r2, S)) = Cardinality(Places(rq, S)) - 1
  /\ rq[c].queue[i].id \notin S => Cardinality(Places(r2, S)) = Cardinality(Places(rq, S))

\* Taking the entry at i out of queue c, the ones behind it moving up.
LEMMA TakenOut ==
  ASSUME NEW rq, NEW r2, NEW c, NEW i, NEW S, LeftAt(rq, r2, c, i)
  PROVE  FewerBy(rq, r2, c, i, S)
<1> USE DEF LeftAt
<1> DEFINE P == Places(rq, S)
<1> DEFINE Q == Places(r2, S)
<1>1. Fits(r2)
  <2>1. Len(r2[c].queue) \in Nat /\ Len(r2[c].queue) <= MaxThreads
    BY DEF Fits
  <2>2. ASSUME NEW d \in 1..Len(r2) PROVE Len(r2[d].queue) \in Nat /\ Len(r2[d].queue) <= MaxThreads
    <3>1. CASE d = c
      BY <2>1, <3>1
    <3>2. CASE d # c
      BY <3>2 DEF Fits
    <3> QED
      BY <3>1, <3>2
  <2> QED
    BY <2>2 DEF Fits
<1> DEFINE old(d, j) == IF d = c /\ j >= i THEN <<d, j + 1>> ELSE <<d, j>>
<1> DEFINE f == [x \in Q |-> old(x[1], x[2])]
<1>2. ASSUME NEW x \in Q PROVE f[x] \in P \ {<<c, i>>}
  <2>1. /\ x = <<x[1], x[2]>> /\ x[1] \in 1..Len(rq) /\ x[2] \in 1..Len(r2[x[1]].queue)
        /\ r2[x[1]].queue[x[2]].id \in S /\ x[1] \in Nat /\ x[2] \in Nat
    BY <1>1, InPlaces
  <2>2. CASE x[1] = c /\ x[2] >= i
    <3>1. f[x] = <<c, x[2] + 1>> /\ x[2] + 1 # i
      BY <2>1, <2>2
    <3>2. x[2] \in 1..(Len(rq[c].queue) - 1) /\ x[2] + 1 \in 1..Len(rq[c].queue)
      BY <2>1, <2>2 DEF Fits
    <3>3. r2[c].queue[x[2]] = rq[c].queue[x[2] + 1]
      BY <2>1, <2>2, <3>2
    <3>4. rq[c].queue[x[2] + 1].id \in S
      BY <2>1, <2>2, <3>3
    <3> QED
      BY <3>1, <3>2, <3>4, InPlaces
  <2>3. CASE x[1] = c /\ ~(x[2] >= i)
    <3>1. f[x] = <<c, x[2]>> /\ x[2] # i
      BY <2>1, <2>3
    <3>2. Len(rq[c].queue) \in Nat
      BY DEF Fits
    <3>3. x[2] < i /\ x[2] \in 1..(Len(rq[c].queue) - 1) /\ x[2] \in 1..Len(rq[c].queue)
      BY <2>1, <2>3, <3>2
    <3>4. r2[c].queue[x[2]] = rq[c].queue[x[2]]
      BY Zenon, <3>3
    <3>5. rq[c].queue[x[2]].id \in S
      BY <2>1, <2>3, <3>4
    <3> QED
      BY <3>1, <3>3, <3>5, InPlaces
  <2>4. CASE x[1] # c
    <3>1. f[x] = x
      BY <2>1, <2>4
    <3>2. x[2] \in 1..Len(rq[x[1]].queue) /\ rq[x[1]].queue[x[2]].id \in S
      BY <2>1, <2>4
    <3> QED
      BY <2>1, <2>4, <3>1, <3>2, InPlaces
  <2> QED
    BY <2>2, <2>3, <2>4
<1>3. f \in [Q -> P \ {<<c, i>>}]
  BY <1>2
<1>4. ASSUME NEW x \in Q, NEW y \in Q, f[x] = f[y] PROVE x = y
  <2>1. /\ x = <<x[1], x[2]>> /\ x[1] \in Nat /\ x[2] \in Nat
        /\ y = <<y[1], y[2]>> /\ y[1] \in Nat /\ y[2] \in Nat
    BY <1>1, InPlaces
  <2>2. old(x[1], x[2]) = old(y[1], y[2])
    BY <1>4
  <2>3. x[1] = y[1] /\ x[2] = y[2]
    BY <2>1, <2>2
  <2> QED
    BY <2>1, <2>3
<1>5. ASSUME NEW z \in P \ {<<c, i>>} PROVE \E x \in Q : f[x] = z
  <2>1. /\ z = <<z[1], z[2]>> /\ z[1] \in 1..Len(rq) /\ z[2] \in 1..Len(rq[z[1]].queue)
        /\ rq[z[1]].queue[z[2]].id \in S /\ z[1] \in Nat /\ z[2] \in Nat
    BY InPlaces
  <2>2. CASE z[1] = c /\ z[2] > i
    <3>1. z[2] - 1 \in 1..(Len(rq[c].queue) - 1) /\ z[2] - 1 >= i /\ z[2] - 1 + 1 = z[2]
      BY <2>1, <2>2 DEF Fits
    <3>4. r2[c].queue[z[2] - 1] = rq[c].queue[z[2]]
      BY <2>1, <2>2, <3>1
    <3>2. <<c, z[2] - 1>> \in Q
      BY Zenon, <1>1, <2>1, <2>2, <3>1, <3>4, InPlaces
    <3>3. f[<<c, z[2] - 1>>] = z
      BY <2>1, <2>2, <3>1, <3>2
    <3> QED
      BY <3>2, <3>3
  <2>3. CASE z[1] = c /\ z[2] < i
    <3>1. z[2] \in 1..(Len(rq[c].queue) - 1) /\ ~(z[2] >= i)
      BY <2>1, <2>3 DEF Fits
    <3>2. <<c, z[2]>> \in Q
      BY Zenon, <1>1, <2>1, <2>3, <3>1, InPlaces
    <3>3. f[<<c, z[2]>>] = z
      BY <2>1, <2>3, <3>1, <3>2
    <3> QED
      BY <3>2, <3>3
  <2>4. CASE z[1] # c
    <3>1. <<z[1], z[2]>> \in Q
      BY <1>1, <2>1, <2>4, InPlaces
    <3>2. f[<<z[1], z[2]>>] = z
      BY <2>1, <2>4, <3>1
    <3> QED
      BY <3>1, <3>2
  <2>5. z[1] = c => z[2] # i
    BY <2>1
  <2> QED
    BY <2>1, <2>2, <2>3, <2>4, <2>5
<1>6. Cardinality(P \ {<<c, i>>}) = Cardinality(Q)
  <2> HIDE DEF f, P, Q
  <2>1. IsFiniteSet(Q)
    BY <1>1, InPlaces DEF Q
  <2> QED
    BY Zenon, <1>3, <1>4, <1>5, <2>1, SameSize
<1>7. IsFiniteSet(P) /\ (<<c, i>> \in P <=> rq[c].queue[i].id \in S)
  BY InPlaces
<1>8. Cardinality(P \ {<<c, i>>}) = IF <<c, i>> \in P THEN Cardinality(P) - 1 ELSE Cardinality(P)
  BY Zenon, <1>7, FS_RemoveElement
<1> QED
  BY <1>1, <1>6, <1>7, <1>8 DEF FewerBy

\* Putting an entry at the end of queue c.
LEMMA PutIn ==
  ASSUME NEW rq, NEW r2, Fits(rq), Len(r2) = Len(rq), NEW c \in 1..Len(rq), NEW e,
         Len(rq[c].queue) < MaxThreads,
         \A d \in 1..Len(rq) : d # c => r2[d].queue = rq[d].queue,
         Len(r2[c].queue) = Len(rq[c].queue) + 1, r2[c].queue[Len(rq[c].queue) + 1] = e,
         \A j \in 1..Len(rq[c].queue) : r2[c].queue[j] = rq[c].queue[j],
         NEW S
  PROVE  /\ Fits(r2)
         /\ Cardinality(Places(r2, S)) =
              IF e.id \in S THEN Cardinality(Places(rq, S)) + 1 ELSE Cardinality(Places(rq, S))
<1> DEFINE P == Places(rq, S)
<1> DEFINE Q == Places(r2, S)
<1> DEFINE n == Len(rq[c].queue) + 1
<1>0. n \in Nat /\ Len(rq[c].queue) \in Nat /\ MaxThreads \in Nat
  BY DEF Fits
<1>1. Fits(r2)
  <2>1. Len(r2[c].queue) \in Nat /\ Len(r2[c].queue) <= MaxThreads
    BY <1>0
  <2>2. ASSUME NEW d \in 1..Len(r2) PROVE Len(r2[d].queue) \in Nat /\ Len(r2[d].queue) <= MaxThreads
    <3>1. CASE d = c
      BY <2>1, <3>1
    <3>2. CASE d # c
      BY <3>2 DEF Fits
    <3> QED
      BY <3>1, <3>2
  <2> QED
    BY <2>2 DEF Fits
<1>2. <<c, n>> \notin P /\ (<<c, n>> \in Q <=> e.id \in S)
  <2>1. n \notin 1..Len(rq[c].queue) /\ n \in 1..Len(r2[c].queue) /\ r2[c].queue[n] = e /\ c \in 1..Len(r2)
    BY <1>0
  <2> HIDE DEF n
  <2>2. <<c, n>> \in P => n \in 1..Len(rq[c].queue)
    BY InPlaces
  <2>3. <<c, n>> \in Q <=> c \in 1..Len(r2) /\ n \in 1..Len(r2[c].queue) /\ r2[c].queue[n].id \in S
    BY <1>1, InPlaces
  <2> QED
    BY <2>1, <2>2, <2>3
<1>3. ASSUME NEW x, x # <<c, n>> PROVE x \in Q <=> x \in P
  <2>1. ASSUME x \in P \/ x \in Q PROVE x = <<x[1], x[2]>> /\ x[1] \in Nat /\ x[2] \in Nat
    BY <1>1, <2>1, InPlaces
  <2>2. ASSUME NEW d \in Nat, NEW j \in Nat, <<d, j>> # <<c, n>> PROVE <<d, j>> \in Q <=> <<d, j>> \in P
    <3>1. CASE d = c
      <4>1. j # n
        BY <2>2, <3>1
      <4>2. j \in 1..Len(r2[c].queue) <=> j \in 1..Len(rq[c].queue)
        BY <1>0, <4>1
      <4>3. <<c, j>> \in Q <=> c \in 1..Len(r2) /\ j \in 1..Len(r2[c].queue) /\ r2[c].queue[j].id \in S
        BY <1>1, InPlaces
      <4>4. <<c, j>> \in P <=> c \in 1..Len(rq) /\ j \in 1..Len(rq[c].queue) /\ rq[c].queue[j].id \in S
        BY InPlaces
      <4> QED
        BY <3>1, <4>2, <4>3, <4>4
    <3>2. CASE d # c
      BY <1>1, <3>2, InPlaces
    <3> QED
      BY <3>1, <3>2
  <2> QED
    BY <1>3, <2>1, <2>2
<1>4. Q = IF e.id \in S THEN P \cup {<<c, n>>} ELSE P
  <2> DEFINE new == <<c, n>>
  <2>1. new \notin P /\ (new \in Q <=> e.id \in S) /\ \A x : x # new => (x \in Q <=> x \in P)
    BY <1>2, <1>3
  <2> HIDE DEF P, Q, new
  <2>2. ASSUME e.id \in S PROVE Q = P \cup {new}
    BY <2>1, <2>2
  <2>3. ASSUME e.id \notin S PROVE Q = P
    <3>1. \A x : x \in Q <=> x \in P
      BY <2>1, <2>3
    <3>2. Q \subseteq P /\ P \subseteq Q
      BY <3>1
    <3> QED
      BY Zenon, <3>2
  <2> QED
    BY <2>2, <2>3 DEF new
<1>5. IsFiniteSet(P)
  BY InPlaces
<1>6. Cardinality(P \cup {<<c, n>>}) = Cardinality(P) + 1
  <2> HIDE DEF P, n
  <2> QED
    BY Zenon, <1>2, <1>5, FS_AddElement
<1> QED
  BY <1>1, <1>4, <1>6

\* Queues that hold the same threads, whatever else changed in their entries.
LEMMA SameThreads ==
  ASSUME NEW rq, NEW r2, Fits(rq), Len(r2) = Len(rq),
         \A d \in 1..Len(rq) :
           /\ Len(r2[d].queue) = Len(rq[d].queue)
           /\ \A j \in 1..Len(rq[d].queue) : r2[d].queue[j].id = rq[d].queue[j].id,
         NEW S
  PROVE  Fits(r2) /\ Places(r2, S) = Places(rq, S)
<1>1. Fits(r2)
  BY DEF Fits
<1> QED
  BY <1>1 DEF Places

\* The threads of S in r2 are the ones in rq less those of its queue c.
LossOf(rq, r2, c, S) ==
  /\ Fits(r2)
  /\ Cardinality(Places(r2, S)) =
       Cardinality(Places(rq, S)) - Cardinality({i \in 1..Len(rq[c].queue) : rq[c].queue[i].id \in S})
  /\ Cardinality(Places(r2, S)) <= Cardinality(Places(rq, S))

\* Taking queue c away, with its threads.
LEMMA QueueGone ==
  ASSUME NEW rq, NEW r2, Fits(rq), NEW c \in 1..Len(rq), Len(r2) = Len(rq) - 1,
         \A d \in 1..(Len(rq) - 1) : r2[d] = IF d < c THEN rq[d] ELSE rq[d + 1],
         NEW S
  PROVE  LossOf(rq, r2, c, S)
<1> DEFINE P == Places(rq, S)
<1> DEFINE Q == Places(r2, S)
<1> DEFINE C == {i \in 1..Len(rq[c].queue) : rq[c].queue[i].id \in S}
<1> DEFINE G == {x \in P : x[1] = c}
<1> DEFINE old(d) == IF d < c THEN d ELSE d + 1
<1> DEFINE f == [x \in Q |-> <<old(x[1]), x[2]>>]
<1> DEFINE g == [i \in C |-> <<c, i>>]
<1>0. c \in Nat /\ Len(rq) \in Nat /\ Len(rq) - 1 \in Nat
  BY DEF Fits
<1>1. Fits(r2)
  <2>1. \A d \in 1..Len(r2) : old(d) \in 1..Len(rq) /\ r2[d] = rq[old(d)]
    BY <1>0
  <2> QED
    BY Zenon, <1>0, <2>1 DEF Fits
<1>2. IsFiniteSet(C)
  <2>1. IsFiniteSet(1..Len(rq[c].queue))
    <3>1. 1 \in Int /\ Len(rq[c].queue) \in Int
      BY DEF Fits
    <3> QED
      BY Zenon, <3>1, FS_Interval
  <2> QED
    BY <2>1, FS_Subset
<1>3. Cardinality(G) = Cardinality(C)
  <2>1. ASSUME NEW i \in C PROVE <<c, i>> \in G
    BY InPlaces
  <2>2. g \in [C -> G] /\ \A x, y \in C : g[x] = g[y] => x = y
    BY <2>1
  <2>3. ASSUME NEW z \in G PROVE \E i \in C : g[i] = z
    <3>1. z = <<c, z[2]>> /\ z[2] \in C
      BY InPlaces
    <3> QED
      BY <3>1
  <2> HIDE DEF C, G, g
  <2> QED
    BY Zenon, <1>2, <2>2, <2>3, SameSize
<1>4. Cardinality(Q) = Cardinality(P \ G)
  <2>1. ASSUME NEW x \in Q PROVE f[x] \in P \ G
    <3>1. /\ x = <<x[1], x[2]>> /\ x[1] \in 1..(Len(rq) - 1) /\ x[2] \in 1..Len(r2[x[1]].queue)
          /\ r2[x[1]].queue[x[2]].id \in S /\ x[1] \in Nat
      BY <1>1, InPlaces
    <3>2. old(x[1]) \in 1..Len(rq) /\ old(x[1]) # c /\ r2[x[1]] = rq[old(x[1])]
      BY <1>0, <3>1
    <3>3. <<old(x[1]), x[2]>> \in P
      <4> HIDE DEF old
      <4> QED
        BY <3>1, <3>2, InPlaces
    <3> QED
      BY <3>2, <3>3
  <2>2. f \in [Q -> P \ G]
    BY <2>1
  <2>3. ASSUME NEW x \in Q, NEW y \in Q, f[x] = f[y] PROVE x = y
    <3>1. /\ x = <<x[1], x[2]>> /\ x[1] \in Nat /\ y = <<y[1], y[2]>> /\ y[1] \in Nat
      BY <1>1, InPlaces
    <3>2. <<old(x[1]), x[2]>> = <<old(y[1]), y[2]>>
      BY <2>3
    <3>3. old(x[1]) = old(y[1]) /\ x[2] = y[2]
      BY <3>2
    <3>4. x[1] = y[1]
      BY <1>0, <3>1, <3>3
    <3> QED
      BY <3>1, <3>3, <3>4
  <2>4. ASSUME NEW z \in P \ G PROVE \E x \in Q : f[x] = z
    <3>1. /\ z = <<z[1], z[2]>> /\ z[1] \in 1..Len(rq) /\ z[2] \in 1..Len(rq[z[1]].queue)
          /\ rq[z[1]].queue[z[2]].id \in S /\ z[1] # c
      BY InPlaces
    <3> DEFINE d == IF z[1] < c THEN z[1] ELSE z[1] - 1
    <3>2. d \in 1..(Len(rq) - 1) /\ old(d) = z[1] /\ r2[d] = rq[z[1]]
      BY <1>0, <3>1
    <3>3. <<d, z[2]>> \in Q
      <4> HIDE DEF d
      <4> QED
        BY <1>1, <3>1, <3>2, InPlaces
    <3>4. f[<<d, z[2]>>] = z
      <4> HIDE DEF d
      <4> QED
        BY <3>1, <3>2, <3>3
    <3> QED
      BY <3>3, <3>4
  <2>5. IsFiniteSet(Q)
    BY <1>1, InPlaces
  <2> HIDE DEF f, P, Q, G
  <2> QED
    BY Zenon, <2>2, <2>3, <2>4, <2>5, SameSize
<1>5. Cardinality(P \ G) = Cardinality(P) - Cardinality(G)
  <2>1. IsFiniteSet(P) /\ P \cap G = G
    BY InPlaces
  <2> HIDE DEF P, G
  <2>2. Cardinality(P \ G) = Cardinality(P) - Cardinality(P \cap G)
    BY Zenon, <2>1, FS_Difference
  <2> QED
    BY Zenon, <2>1, <2>2
<1>6. Cardinality(C) \in Nat /\ Cardinality(P) \in Nat
  BY <1>2, InPlaces, FS_CardinalityType
<1> HIDE DEF P, Q, C, G
<1>7. Cardinality(Q) = Cardinality(P) - Cardinality(C) /\ Cardinality(Q) <= Cardinality(P)
  BY <1>3, <1>4, <1>5, <1>6
<1> QED
  BY <1>1, <1>7 DEF P, Q, C, LossOf

-----------------------------------------------------------------------------
(* The run queues *)

\* Copies of entries wait in queues as they came: nobody tells them how long they ran.
Waiting == [id : Id, priority : Priority, state : State, vruntime : {0}]
Lane == [queue : Seq(Waiting), load : Nat]

\* The load of a processor is the length of its queue.
Lanes(rq) ==
  /\ rq \in Seq(Lane)
  /\ \A c \in 1..Len(rq) : rq[c].load = Len(rq[c].queue) /\ Len(rq[c].queue) <= MaxThreads

CpusInv ==
  /\ policy \in Policy
  /\ Lanes(runqueues) /\ Len(runqueues) <= MaxRunqueues
  /\ threads \in Seq(ScheduleEntry) /\ Len(threads) <= MaxThreads
  /\ placed \in [Id -> Nat]
  /\ \A id \in Id : placed[id] = Cardinality(Places(runqueues, {id}))
  /\ Cardinality(Places(runqueues, Id)) <= Len(threads)

\* What Lanes says of one lane and of one place in its queue.
LEMMA LanesTypes ==
  ASSUME CpuConstants, NEW rq, Lanes(rq)
  PROVE  /\ Fits(rq) /\ rq \in [1..Len(rq) -> Lane] /\ Len(rq) \in Nat
         /\ \A c \in 1..Len(rq) :
              /\ rq[c] \in Lane /\ rq[c].queue \in Seq(Waiting) /\ rq[c].load \in Nat
              /\ \A j \in 1..Len(rq[c].queue) : rq[c].queue[j] \in Waiting
<1>1. rq \in Seq(Lane) /\ Len(rq) \in Nat /\ rq \in [1..Len(rq) -> Lane]
  BY DEF Lanes
<1>2. ASSUME NEW c \in 1..Len(rq)
      PROVE  /\ rq[c] \in Lane /\ rq[c].queue \in Seq(Waiting) /\ rq[c].load \in Nat
             /\ Len(rq[c].queue) \in Nat
             /\ \A j \in 1..Len(rq[c].queue) : rq[c].queue[j] \in Waiting
  <2>1. rq[c] \in Lane
    BY <1>1
  <2>2. rq[c].queue \in Seq(Waiting) /\ rq[c].load \in Nat
    BY <2>1 DEF Lane
  <2> QED
    BY <2>1, <2>2
<1>3. Fits(rq)
  BY <1>1, <1>2 DEF Fits, Lanes, CpuConstants
<1> QED
  BY <1>1, <1>2, <1>3

\* memmove over an entry of a queue.
LEMMA QueueMovedUp ==
  ASSUME NEW T, NEW s \in Seq(T), NEW i \in 1..Len(s)
  PROVE  /\ MovedUp(s, i) \in Seq(T) /\ Len(MovedUp(s, i)) = Len(s) - 1
         /\ \A j \in 1..(Len(s) - 1) : MovedUp(s, i)[j] = IF j < i THEN s[j] ELSE s[j + 1]
<1>1. Len(s) \in Nat /\ Len(s) - 1 \in Nat /\ \A j \in 1..Len(s) : s[j] \in T
  OBVIOUS
<1>2. ASSUME NEW j \in 1..(Len(s) - 1) PROVE (IF j < i THEN s[j] ELSE s[j + 1]) \in T
  BY <1>1
<1> QED
  BY <1>1, <1>2 DEF MovedUp

\* Replacing one lane by another.
LEMMA NewLane ==
  ASSUME CpuConstants, NEW rq, Lanes(rq), NEW c \in 1..Len(rq), NEW l \in Lane,
         l.load = Len(l.queue), Len(l.queue) <= MaxThreads
  PROVE  LET r2 == [rq EXCEPT ![c] = l]
         IN  /\ Lanes(r2) /\ Len(r2) = Len(rq) /\ r2[c] = l
             /\ \A d \in 1..Len(rq) : d # c => r2[d] = rq[d]
<1> DEFINE r2 == [rq EXCEPT ![c] = l]
<1>1. rq \in Seq(Lane) /\ rq \in [1..Len(rq) -> Lane] /\ Len(rq) \in Nat
  BY LanesTypes DEF Lanes
<1>2. r2 \in [1..Len(rq) -> Lane] /\ r2[c] = l /\ \A d \in 1..Len(rq) : d # c => r2[d] = rq[d]
  BY <1>1
<1>3. r2 \in Seq(Lane) /\ Len(r2) = Len(rq)
  BY <1>1, <1>2
<1>4. \A d \in 1..Len(rq) : r2[d].load = Len(r2[d].queue) /\ Len(r2[d].queue) <= MaxThreads
  BY <1>2 DEF Lanes
<1> HIDE DEF r2
<1>5. Lanes(r2)
  BY <1>3, <1>4 DEF Lanes
<1> QED
  BY <1>2, <1>3, <1>5 DEF r2

\* An entry leaves its queue.
LEMMA Leaves ==
  ASSUME CpuConstants, Lanes(runqueues), NEW c \in 1..Len(runqueues), NEW i \in 1..Len(runqueues[c].queue)
  PROVE  LET rest == Without(c, i)
         IN  /\ Lanes(rest) /\ Len(rest) = Len(runqueues)
             /\ \A S : runqueues[c].queue[i].id \in S
                        => Cardinality(Places(rest, S)) = Cardinality(Places(runqueues, S)) - 1
             /\ \A S : runqueues[c].queue[i].id \notin S
                        => Cardinality(Places(rest, S)) = Cardinality(Places(runqueues, S))
<1> DEFINE q == runqueues[c].queue
<1> DEFINE l == [queue |-> MovedUp(q, i), load |-> runqueues[c].load - 1]
<1> DEFINE rest == [runqueues EXCEPT ![c] = l]
<1>1. Fits(runqueues) /\ q \in Seq(Waiting) /\ runqueues[c].load = Len(q) /\ Len(q) <= MaxThreads /\ Len(q) \in Nat
  BY LanesTypes DEF Lanes, Fits
<1>2. /\ l.queue \in Seq(Waiting) /\ Len(l.queue) = Len(q) - 1
      /\ \A j \in 1..(Len(q) - 1) : l.queue[j] = IF j < i THEN q[j] ELSE q[j + 1]
  BY Zenon, <1>1, QueueMovedUp
<1>3. l \in Lane /\ l.load = Len(l.queue) /\ Len(l.queue) <= MaxThreads
  BY <1>1, <1>2 DEF CpuConstants, Lane
<1>4. Without(c, i) = rest
  BY DEF Without
<1>5. /\ Lanes(rest) /\ Len(rest) = Len(runqueues) /\ rest[c] = l
      /\ \A d \in 1..Len(runqueues) : d # c => rest[d] = runqueues[d]
  <2> HIDE DEF l
  <2> QED
    BY <1>3, NewLane
<1> HIDE DEF rest, l
<1>6. ASSUME NEW S
      PROVE  /\ q[i].id \in S => Cardinality(Places(rest, S)) = Cardinality(Places(runqueues, S)) - 1
             /\ q[i].id \notin S => Cardinality(Places(rest, S)) = Cardinality(Places(runqueues, S))
  <2>1. LeftAt(runqueues, rest, c, i)
    BY <1>1, <1>2, <1>5 DEF LeftAt
  <2>2. FewerBy(runqueues, rest, c, i, S)
    BY <2>1, TakenOut
  <2> QED
    BY <2>2 DEF FewerBy
<1> QED
  BY <1>4, <1>5, <1>6

\* An entry joins a queue that has room for it.
LEMMA Joins ==
  ASSUME CpuConstants, NEW rq, Lanes(rq), NEW c \in 1..Len(rq), NEW e \in Waiting, Len(rq[c].queue) < MaxThreads
  PROVE  LET r2 == [rq EXCEPT ![c] = [queue |-> Append(rq[c].queue, e), load |-> rq[c].load + 1]]
         IN  /\ Lanes(r2) /\ Len(r2) = Len(rq)
             /\ \A S : Cardinality(Places(r2, S)) =
                         IF e.id \in S THEN Cardinality(Places(rq, S)) + 1 ELSE Cardinality(Places(rq, S))
<1> DEFINE q == rq[c].queue
<1> DEFINE l == [queue |-> Append(q, e), load |-> rq[c].load + 1]
<1> DEFINE r2 == [rq EXCEPT ![c] = l]
<1>1. Fits(rq) /\ q \in Seq(Waiting) /\ rq[c].load = Len(q) /\ Len(q) \in Nat
  BY LanesTypes DEF Lanes, Fits
<1>2. /\ Append(q, e) \in Seq(Waiting) /\ Len(Append(q, e)) = Len(q) + 1 /\ Append(q, e)[Len(q) + 1] = e
      /\ \A j \in 1..Len(q) : Append(q, e)[j] = q[j]
  <2> HIDE DEF q
  <2> QED
    BY <1>1
<1>3. l \in Lane /\ l.load = Len(l.queue) /\ Len(l.queue) <= MaxThreads /\ l.queue = Append(q, e)
  BY <1>1, <1>2 DEF CpuConstants, Lane
<1>4. /\ Lanes(r2) /\ Len(r2) = Len(rq) /\ r2[c] = l
      /\ \A d \in 1..Len(rq) : d # c => r2[d] = rq[d]
  <2> HIDE DEF l
  <2> QED
    BY <1>3, NewLane
<1>5. ASSUME NEW S
      PROVE  Cardinality(Places(r2, S)) =
               IF e.id \in S THEN Cardinality(Places(rq, S)) + 1 ELSE Cardinality(Places(rq, S))
  <2> HIDE DEF r2, l
  <2>1. /\ Len(r2[c].queue) = Len(rq[c].queue) + 1 /\ r2[c].queue[Len(rq[c].queue) + 1] = e
        /\ \A j \in 1..Len(rq[c].queue) : r2[c].queue[j] = rq[c].queue[j]
    BY <1>2, <1>3, <1>4
  <2> QED
    BY <1>1, <1>4, <2>1, PutIn
<1> QED
  BY Zenon, <1>4, <1>5

\* What CpusInv says of the queues rq and the counts p, for a table of n entries.
Counted(rq, p, n) ==
  /\ Lanes(rq) /\ Len(rq) <= MaxRunqueues /\ p \in [Id -> Nat]
  /\ \A id \in Id : p[id] = Cardinality(Places(rq, {id}))
  /\ Cardinality(Places(rq, Id)) <= n

\* The invariant in terms of Counted, which is what the calls change.
LEMMA CpusParts ==
  CpusInv <=> /\ policy \in Policy /\ Counted(runqueues, placed, Len(threads))
              /\ threads \in Seq(ScheduleEntry) /\ Len(threads) <= MaxThreads
BY DEF CpusInv, Counted

\* An empty queue is added.
LEMMA CountAdded ==
  ASSUME CpuConstants, Counted(runqueues, placed, Len(threads)), cpu_scheduler_add_runqueue
  PROVE  Counted(runqueues, placed, Len(threads))'
<1> DEFINE r2 == Append(runqueues, Empty)
<1>1. Lanes(runqueues) /\ Fits(runqueues) /\ runqueues \in Seq(Lane) /\ Len(runqueues) \in Nat
  BY LanesTypes DEF Counted, Lanes
<1>2. Empty \in Lane /\ Len(Empty.queue) = 0 /\ Empty.load = 0
  BY DEF Empty, Lane
<1>3. /\ r2 \in Seq(Lane) /\ Len(r2) = Len(runqueues) + 1 /\ r2[Len(runqueues) + 1] = Empty
      /\ \A d \in 1..Len(runqueues) : r2[d] = runqueues[d]
  BY <1>1, <1>2
<1> HIDE DEF r2
<1>4. Lanes(r2)
  <2>1. ASSUME NEW d \in 1..Len(r2) PROVE r2[d].load = Len(r2[d].queue) /\ Len(r2[d].queue) <= MaxThreads
    <3>1. CASE d = Len(runqueues) + 1
      BY <1>2, <1>3, <3>1 DEF CpuConstants
    <3>2. CASE d # Len(runqueues) + 1
      <4>1. d \in 1..Len(runqueues)
        BY <1>1, <1>3, <3>2
      <4> QED
        BY <1>1, <1>3, <4>1 DEF Lanes
    <3> QED
      BY <3>1, <3>2
  <2> QED
    BY <1>3, <2>1 DEF Lanes
<1>5. Fits(r2)
  BY <1>4, LanesTypes
<1>6. ASSUME NEW S PROVE Places(r2, S) = Places(runqueues, S)
  <2>1. ASSUME NEW d, NEW j PROVE <<d, j>> \in Places(r2, S) <=> <<d, j>> \in Places(runqueues, S)
    <3>1. <<d, j>> \in Places(r2, S) <=> d \in 1..Len(r2) /\ j \in 1..Len(r2[d].queue) /\ r2[d].queue[j].id \in S
      BY <1>5, InPlaces
    <3>2. <<d, j>> \in Places(runqueues, S) <=>
            d \in 1..Len(runqueues) /\ j \in 1..Len(runqueues[d].queue) /\ runqueues[d].queue[j].id \in S
      BY <1>1, InPlaces
    <3>3. CASE d = Len(runqueues) + 1
      <4>1. d \notin 1..Len(runqueues) /\ ~(j \in 1..Len(r2[d].queue))
        BY <1>1, <1>2, <1>3, <3>3
      <4> QED
        BY <3>1, <3>2, <4>1
    <3>4. CASE d # Len(runqueues) + 1
      <4>1. d \in 1..Len(r2) <=> d \in 1..Len(runqueues)
        BY <1>1, <1>3, <3>4
      <4> QED
        BY <1>3, <3>1, <3>2, <4>1
    <3> QED
      BY <3>3, <3>4
  <2>2. /\ \A x \in Places(r2, S) : x = <<x[1], x[2]>>
        /\ \A x \in Places(runqueues, S) : x = <<x[1], x[2]>>
    BY <1>1, <1>5, InPlaces
  <2>3. Places(r2, S) \subseteq Places(runqueues, S) /\ Places(runqueues, S) \subseteq Places(r2, S)
    BY <2>1, <2>2
  <2> QED
    BY Zenon, <2>3
<1>7. runqueues' = r2 /\ placed' = placed /\ threads' = threads /\ Len(r2) <= MaxRunqueues
  BY <1>1, <1>3 DEF CpuConstants, cpu_scheduler_add_runqueue, r2
<1> QED
  BY <1>4, <1>6, <1>7 DEF Counted

\* Adding up the loads finds them right already.
LEMMA CountUpdated ==
  ASSUME CpuConstants, Counted(runqueues, placed, Len(threads)), cpu_scheduler_update_runqueue_loads
  PROVE  runqueues' = runqueues
<1> DEFINE now(c) == [runqueues[c] EXCEPT !.load = Len(runqueues[c].queue)]
<1>1. runqueues \in [1..Len(runqueues) -> Lane]
  BY LanesTypes DEF Counted
<1>2. ASSUME NEW c \in 1..Len(runqueues) PROVE now(c) = runqueues[c]
  <2>1. runqueues[c] \in Lane /\ runqueues[c].load = Len(runqueues[c].queue)
    BY <1>1 DEF Counted, Lanes
  <2> QED
    BY <2>1 DEF Lane
<1>3. runqueues' = [c \in 1..Len(runqueues) |-> now(c)]
  BY DEF cpu_scheduler_update_runqueue_loads
<1>4. runqueues' = [c \in 1..Len(runqueues) |-> runqueues[c]]
  BY <1>2, <1>3
<1> QED
  BY <1>1, <1>4

\* A queue goes with its threads.
LEMMA CountRemoved ==
  ASSUME CpuConstants, Counted(runqueues, placed, Len(threads)), Len(threads) \in Nat,
         NEW c \in 1..Len(runqueues), cpu_scheduler_remove_runqueue(c)
  PROVE  Counted(runqueues, placed, Len(threads))'
<1> DEFINE r2 == MovedUp(runqueues, c)
<1>1. Lanes(runqueues) /\ Fits(runqueues) /\ runqueues \in Seq(Lane) /\ Len(runqueues) \in Nat
  BY LanesTypes DEF Counted, Lanes
<1>2. /\ r2 \in Seq(Lane) /\ Len(r2) = Len(runqueues) - 1
      /\ \A d \in 1..(Len(runqueues) - 1) : r2[d] = IF d < c THEN runqueues[d] ELSE runqueues[d + 1]
  BY <1>1, QueueMovedUp
<1>3. runqueues' = r2 /\ threads' = threads
  BY DEF cpu_scheduler_remove_runqueue
<1> HIDE DEF r2
<1>4. Lanes(r2)
  <2>1. ASSUME NEW d \in 1..Len(r2) PROVE r2[d].load = Len(r2[d].queue) /\ Len(r2[d].queue) <= MaxThreads
    <3>1. d \in 1..Len(runqueues) /\ d + 1 \in 1..Len(runqueues) /\ (r2[d] = runqueues[d] \/ r2[d] = runqueues[d + 1])
      BY <1>1, <1>2
    <3> QED
      BY <1>1, <3>1 DEF Lanes
  <2> QED
    BY <1>2, <2>1 DEF Lanes
<1>5. \A S : LossOf(runqueues, r2, c, S)
  BY <1>1, <1>2, QueueGone
<1>6. ASSUME NEW id \in Id PROVE placed'[id] = Cardinality(Places(r2, {id})) /\ placed'[id] \in Nat
  <2> DEFINE C == {i \in 1..Len(runqueues[c].queue) : runqueues[c].queue[i].id \in {id}}
  <2>1. Copies(runqueues[c].queue, id) = C
    BY DEF Copies
  <2>2. placed'[id] = placed[id] - Cardinality(C)
    BY Zenon, <2>1 DEF cpu_scheduler_remove_runqueue
  <2>3. Cardinality(Places(r2, {id})) = Cardinality(Places(runqueues, {id})) - Cardinality(C)
    BY <1>5 DEF LossOf
  <2>4. Cardinality(Places(r2, {id})) \in Nat
    BY <1>4, LanesTypes, InPlaces
  <2> QED
    BY <2>2, <2>3, <2>4 DEF Counted
<1>7. placed' \in [Id -> Nat]
  <2>1. placed' = [id \in Id |-> placed'[id]]
    BY DEF cpu_scheduler_remove_runqueue
  <2> QED
    BY Zenon, <1>6, <2>1
<1>8. Cardinality(Places(r2, Id)) <= Len(threads)
  <2>1. Cardinality(Places(r2, Id)) <= Cardinality(Places(runqueues, Id))
    BY <1>5 DEF LossOf
  <2>2. Cardinality(Places(r2, Id)) \in Nat /\ Cardinality(Places(runqueues, Id)) \in Nat
    BY <1>1, <1>4, LanesTypes, InPlaces
  <2> QED
    BY <2>1, <2>2 DEF Counted
<1>9. Len(r2) <= MaxRunqueues
  BY <1>1, <1>2 DEF CpuConstants, Counted
<1> QED
  BY <1>3, <1>4, <1>6, <1>7, <1>8, <1>9 DEF Counted

\* A copy is found where the queue says.
LEMMA FoundCopy ==
  ASSUME NEW q, NEW id, NEW i \in First(Copies(q, id))
  PROVE  i \in 1..Len(q) /\ q[i].id = id
BY DEF First, Copies

\* A thread leaves its queue.
LEMMA CountDequeued ==
  ASSUME CpuConstants, Counted(runqueues, placed, Len(threads)), Len(threads) \in Nat,
         NEW c \in 1..Len(runqueues), NEW id \in Id, cpu_scheduler_dequeue_thread(c, id)
  PROVE  Counted(runqueues, placed, Len(threads))'
<1>1. PICK i \in First(Copies(runqueues[c].queue, id)) :
        /\ runqueues' = Without(c, i) /\ placed' = [placed EXCEPT ![id] = @ - 1]
        /\ threads' = threads
  BY DEF cpu_scheduler_dequeue_thread
<1>2. i \in 1..Len(runqueues[c].queue) /\ runqueues[c].queue[i].id = id
  BY FoundCopy
<1>3. Lanes(runqueues) /\ Fits(runqueues)
  BY LanesTypes DEF Counted
<1>4. /\ Lanes(runqueues') /\ Len(runqueues') = Len(runqueues)
      /\ \A S : id \in S => Cardinality(Places(runqueues', S)) = Cardinality(Places(runqueues, S)) - 1
      /\ \A S : id \notin S => Cardinality(Places(runqueues', S)) = Cardinality(Places(runqueues, S))
  BY Zenon, <1>1, <1>2, <1>3, Leaves
<1>5. Fits(runqueues')
  BY <1>4, LanesTypes
<1>6. ASSUME NEW k \in Id PROVE placed'[k] = Cardinality(Places(runqueues', {k})) /\ placed'[k] \in Nat
  <2>1. placed'[k] = IF k = id THEN placed[k] - 1 ELSE placed[k]
    BY <1>1 DEF Counted
  <2>2. placed[k] = Cardinality(Places(runqueues, {k}))
    BY DEF Counted
  <2>3. Cardinality(Places(runqueues', {k})) =
          IF k = id THEN Cardinality(Places(runqueues, {k})) - 1 ELSE Cardinality(Places(runqueues, {k}))
    BY <1>4
  <2>4. Cardinality(Places(runqueues', {k})) \in Nat
    BY <1>5, InPlaces
  <2> QED
    BY <2>1, <2>2, <2>3, <2>4
<1>7. placed' \in [Id -> Nat]
  <2>1. DOMAIN placed' = Id /\ placed' = [k \in Id |-> placed'[k]]
    BY Zenon, <1>1 DEF Counted
  <2> QED
    BY Zenon, <1>6, <2>1
<1>8. Cardinality(Places(runqueues', Id)) <= Len(threads')
  <2>1. Cardinality(Places(runqueues', Id)) = Cardinality(Places(runqueues, Id)) - 1
    BY <1>4
  <2>2. Cardinality(Places(runqueues, Id)) \in Nat /\ Cardinality(Places(runqueues, Id)) <= Len(threads)
    BY <1>3, InPlaces DEF Counted
  <2> QED
    BY <1>1, <2>1, <2>2
<1>9. Len(runqueues') <= MaxRunqueues
  BY <1>4 DEF Counted
<1> QED
  BY <1>4, <1>6, <1>7, <1>8, <1>9 DEF Counted

\* Running a thread changes the state of its copy only.
LEMMA CountRun ==
  ASSUME CpuConstants, Counted(runqueues, placed, Len(threads)),
         NEW c \in 1..Len(runqueues), NEW id \in Id, cpu_scheduler_run_thread(c, id)
  PROVE  Counted(runqueues, placed, Len(threads))'
<1> DEFINE q == runqueues[c].queue
<1>1. PICK i \in First(Copies(q, id)) :
        /\ runqueues' = [runqueues EXCEPT ![c].queue[i].state = "RUNNING"]
        /\ UNCHANGED <<policy, threads, placed>>
  BY Zenon DEF cpu_scheduler_run_thread
<1>2. i \in 1..Len(q)
  BY FoundCopy
<1>3. /\ Lanes(runqueues) /\ Fits(runqueues) /\ q \in Seq(Waiting) /\ q[i] \in Waiting
      /\ runqueues[c] \in Lane /\ runqueues[c].load = Len(q) /\ Len(q) <= MaxThreads
  BY <1>2, LanesTypes DEF Counted, Lanes
<1> DEFINE e == [q[i] EXCEPT !.state = "RUNNING"]
<1> DEFINE q2 == [q EXCEPT ![i] = e]
<1> DEFINE l == [runqueues[c] EXCEPT !.queue = q2]
<1>4. runqueues' = [runqueues EXCEPT ![c] = l]
  BY <1>1
<1>5. e \in Waiting /\ e.id = q[i].id
  BY <1>3 DEF Waiting, State
<1>6. /\ q2 \in Seq(Waiting) /\ Len(q2) = Len(q)
      /\ \A j \in 1..Len(q) : q2[j].id = q[j].id
  <2> HIDE DEF q, e
  <2>1. q2 \in Seq(Waiting) /\ Len(q2) = Len(q) /\ \A j \in 1..Len(q) : q2[j] = IF j = i THEN e ELSE q[j]
    BY <1>2, <1>3, <1>5
  <2> QED
    BY <1>5, <2>1
<1>7. l \in Lane /\ l.load = Len(l.queue) /\ Len(l.queue) <= MaxThreads /\ l.queue = q2
  <2> HIDE DEF q2, q
  <2> QED
    BY <1>3, <1>6 DEF Lane
<1> HIDE DEF l
<1>8. /\ Lanes(runqueues') /\ Len(runqueues') = Len(runqueues) /\ runqueues'[c] = l
      /\ \A d \in 1..Len(runqueues) : d # c => runqueues'[d] = runqueues[d]
  <2> DEFINE r2 == [runqueues EXCEPT ![c] = l]
  <2>1. /\ Lanes(r2) /\ Len(r2) = Len(runqueues) /\ r2[c] = l
        /\ \A d \in 1..Len(runqueues) : d # c => r2[d] = runqueues[d]
    BY <1>3, <1>7, NewLane
  <2> QED
    BY <1>4, <2>1
<1>9. \A d \in 1..Len(runqueues) :
        /\ Len(runqueues'[d].queue) = Len(runqueues[d].queue)
        /\ \A j \in 1..Len(runqueues[d].queue) : runqueues'[d].queue[j].id = runqueues[d].queue[j].id
  <2> HIDE DEF q2
  <2> QED
    BY <1>6, <1>7, <1>8
<1>10. \A S : Places(runqueues', S) = Places(runqueues, S)
  BY <1>3, <1>8, <1>9, SameThreads
<1> QED
  BY Zenon, <1>1, <1>8, <1>10 DEF Counted

\* A queue is no longer than the threads in all queues.
LEMMA QueueInPlaces ==
  ASSUME CpuConstants, NEW rq, Lanes(rq), NEW c \in 1..Len(rq)
  PROVE  Len(rq[c].queue) \in Nat /\ Len(rq[c].queue) <= Cardinality(Places(rq, Id))
<1>1. Fits(rq) /\ \A j \in 1..Len(rq[c].queue) : rq[c].queue[j].id \in Id
  BY LanesTypes DEF Waiting
<1> DEFINE n == Len(rq[c].queue)
<1> DEFINE f == [j \in 1..n |-> <<c, j>>]
<1>2. n \in Nat
  BY <1>1 DEF Fits
<1>3. \A j \in 1..n : <<c, j>> \in Places(rq, Id)
  BY <1>1, InPlaces
<1>4. f \in Injection(1..n, Places(rq, Id))
  BY <1>3 DEF Injection, IsInjective
<1>5. IsFiniteSet(Places(rq, Id))
  BY <1>1, InPlaces
<1>6. Cardinality(1..n) <= Cardinality(Places(rq, Id))
  <2> HIDE DEF n, f
  <2> QED
    BY <1>4, <1>5, FS_Injection
<1>7. Cardinality(1..n) = n
  <2>1. 1 \in Int /\ n \in Int
    BY <1>2
  <2>2. Cardinality(1..n) = IF 1 > n THEN 0 ELSE n - 1 + 1
    BY Zenon, <2>1, FS_Interval
  <2> QED
    BY <1>2, <2>2
<1> QED
  BY <1>2, <1>6, <1>7

\* A thread changes its queue: the other one always has room, as the table had.
LEMMA CountMigrated ==
  ASSUME CpuConstants, Counted(runqueues, placed, Len(threads)), Len(threads) \in Nat, Len(threads) <= MaxThreads,
         NEW t \in 1..Len(runqueues), NEW id \in Id, cpu_scheduler_migrate_thread(id, t)
  PROVE  Counted(runqueues, placed, Len(threads))'
<1>1. PICK c \in 1..Len(runqueues) : \E i \in First(Copies(runqueues[c].queue, id)) :
        /\ runqueues' = IF Len(Without(c, i)[t].queue) < MaxThreads
                        THEN [Without(c, i) EXCEPT
                                ![t] = [queue |-> Append(@.queue, runqueues[c].queue[i]), load |-> @.load + 1]]
                        ELSE Without(c, i)
        /\ UNCHANGED <<policy, threads, placed>>
  BY Zenon DEF cpu_scheduler_migrate_thread, First
<1>2. PICK i \in First(Copies(runqueues[c].queue, id)) :
        /\ runqueues' = IF Len(Without(c, i)[t].queue) < MaxThreads
                        THEN [Without(c, i) EXCEPT
                                ![t] = [queue |-> Append(@.queue, runqueues[c].queue[i]), load |-> @.load + 1]]
                        ELSE Without(c, i)
        /\ UNCHANGED <<policy, threads, placed>>
  BY Zenon, <1>1
<1> DEFINE rest == Without(c, i)
<1> DEFINE e == runqueues[c].queue[i]
<1>3. i \in 1..Len(runqueues[c].queue) /\ e.id = id
  BY FoundCopy
<1>4. Lanes(runqueues) /\ Fits(runqueues) /\ e \in Waiting
  BY <1>3, LanesTypes DEF Counted
<1>5. /\ Lanes(rest) /\ Len(rest) = Len(runqueues)
      /\ \A S : id \in S => Cardinality(Places(rest, S)) = Cardinality(Places(runqueues, S)) - 1
      /\ \A S : id \notin S => Cardinality(Places(rest, S)) = Cardinality(Places(runqueues, S))
  BY <1>3, <1>4, Leaves
<1> HIDE DEF rest
<1>6. Len(rest[t].queue) < MaxThreads
  <2>1. Cardinality(Places(rest, Id)) = Cardinality(Places(runqueues, Id)) - 1
    BY <1>5
  <2>2. Cardinality(Places(runqueues, Id)) \in Nat /\ Cardinality(Places(runqueues, Id)) <= Len(threads)
    BY <1>4, InPlaces DEF Counted
  <2>3. Len(rest[t].queue) \in Nat /\ Len(rest[t].queue) <= Cardinality(Places(rest, Id))
    BY <1>5, QueueInPlaces
  <2> QED
    BY <2>1, <2>2, <2>3 DEF CpuConstants
<1>7. runqueues' = [rest EXCEPT ![t] = [queue |-> Append(rest[t].queue, e), load |-> rest[t].load + 1]]
  BY <1>2, <1>6 DEF rest
<1> HIDE DEF e
<1>8. /\ Lanes(runqueues') /\ Len(runqueues') = Len(rest)
      /\ \A S : Cardinality(Places(runqueues', S)) =
                  IF e.id \in S THEN Cardinality(Places(rest, S)) + 1 ELSE Cardinality(Places(rest, S))
  <2> DEFINE r2 == [rest EXCEPT ![t] = [queue |-> Append(rest[t].queue, e), load |-> rest[t].load + 1]]
  <2>1. t \in 1..Len(rest)
    BY <1>5
  <2>2. /\ Lanes(r2) /\ Len(r2) = Len(rest)
        /\ \A S : Cardinality(Places(r2, S)) =
                    IF e.id \in S THEN Cardinality(Places(rest, S)) + 1 ELSE Cardinality(Places(rest, S))
    BY Zenon, <1>4, <1>5, <1>6, <2>1, Joins
  <2> HIDE DEF r2
  <2>3. runqueues' = r2
    BY <1>7 DEF r2
  <2> QED
    BY <2>2, <2>3
<1>9. ASSUME NEW S PROVE Cardinality(Places(runqueues', S)) = Cardinality(Places(runqueues, S))
  <2>1. Cardinality(Places(runqueues, S)) \in Nat
    BY <1>4, InPlaces
  <2>2. CASE id \in S
    <3>1. Cardinality(Places(rest, S)) = Cardinality(Places(runqueues, S)) - 1
      BY <1>5, <2>2
    <3>2. Cardinality(Places(runqueues', S)) = Cardinality(Places(rest, S)) + 1
      BY <1>3, <1>8, <2>2 DEF e
    <3> QED
      BY <2>1, <3>1, <3>2
  <2>3. CASE id \notin S
    <3>1. Cardinality(Places(rest, S)) = Cardinality(Places(runqueues, S))
      BY <1>5, <2>3
    <3>2. Cardinality(Places(runqueues', S)) = Cardinality(Places(rest, S))
      BY <1>3, <1>8, <2>3 DEF e
    <3> QED
      BY <3>1, <3>2
  <2> QED
    BY <2>2, <2>3
<1>10. UNCHANGED <<threads, placed>>
  BY <1>2
<1> QED
  BY <1>5, <1>8, <1>9, <1>10 DEF Counted

\* A thread is enqueued, if its processor has room; the table always has it.
LEMMA CountEnqueued ==
  ASSUME CpuConstants, CpusInv, NEW id \in Id, NEW p \in Priority, NEW a \in 0..MaxRunqueues,
         cpu_scheduler_enqueue_thread(id, p, a)
  PROVE  CpusInv'
<1> DEFINE e == [id |-> id, priority |-> p, state |-> "RUNNABLE", vruntime |-> 0]
<1> DEFINE c == (a % Len(runqueues)) + 1
<1>1. /\ Len(threads) < MaxThreads /\ Len(runqueues) > 0 /\ threads' = Append(threads, e)
      /\ policy' = policy
      /\ IF Len(runqueues[c].queue) < MaxThreads
         THEN /\ runqueues' = [runqueues EXCEPT
                   ![c] = [queue |-> Append(runqueues[c].queue, e), load |-> runqueues[c].load + 1]]
              /\ placed' = [placed EXCEPT ![id] = placed[id] + 1]
         ELSE UNCHANGED <<runqueues, placed>>
  BY DEF cpu_scheduler_enqueue_thread
<1>2. /\ Counted(runqueues, placed, Len(threads)) /\ policy \in Policy
      /\ threads \in Seq(ScheduleEntry) /\ Len(threads) \in Nat
  BY CpusParts
<1>3. Lanes(runqueues) /\ Fits(runqueues) /\ Len(runqueues) \in Nat
  BY <1>2, LanesTypes DEF Counted
<1>4. c \in 1..Len(runqueues)
  BY <1>1, <1>3 DEF CpuConstants
<1>5. e \in Waiting /\ e \in ScheduleEntry /\ e.id = id
  BY DEF CpuConstants, Waiting, ScheduleEntry, State
<1> HIDE DEF c, e
<1>6. threads' \in Seq(ScheduleEntry) /\ Len(threads') = Len(threads) + 1 /\ Len(threads') <= MaxThreads
  <2>1. Append(threads, e) \in Seq(ScheduleEntry) /\ Len(Append(threads, e)) = Len(threads) + 1
    BY <1>2, <1>5
  <2> QED
    BY <1>1, <1>2, <2>1 DEF CpuConstants
<1>7. CASE Len(runqueues[c].queue) < MaxThreads
  <2> DEFINE r2 == [runqueues EXCEPT
                      ![c] = [queue |-> Append(runqueues[c].queue, e), load |-> runqueues[c].load + 1]]
  <2>1. /\ Lanes(r2) /\ Len(r2) = Len(runqueues)
        /\ \A S : Cardinality(Places(r2, S)) =
                    IF e.id \in S THEN Cardinality(Places(runqueues, S)) + 1 ELSE Cardinality(Places(runqueues, S))
    BY Zenon, <1>3, <1>4, <1>5, <1>7, Joins
  <2>2. runqueues' = r2 /\ placed' = [placed EXCEPT ![id] = placed[id] + 1]
    BY <1>1, <1>7
  <2> HIDE DEF r2
  <2>3. placed' \in [Id -> Nat] /\ \A k \in Id : placed'[k] = IF k = id THEN placed[k] + 1 ELSE placed[k]
    BY <1>2, <2>2 DEF Counted
  <2>4. ASSUME NEW k \in Id PROVE placed'[k] = Cardinality(Places(r2, {k}))
    <3>1. placed[k] = Cardinality(Places(runqueues, {k}))
      BY <1>2 DEF Counted
    <3>2. Cardinality(Places(r2, {k})) =
            IF k = id THEN Cardinality(Places(runqueues, {k})) + 1 ELSE Cardinality(Places(runqueues, {k}))
      BY <1>5, <2>1
    <3> QED
      BY <2>3, <3>1, <3>2
  <2>5. Cardinality(Places(r2, Id)) <= Len(threads) + 1
    <3>1. Cardinality(Places(runqueues, Id)) \in Nat /\ Cardinality(Places(runqueues, Id)) <= Len(threads)
      BY <1>2, <1>3, InPlaces DEF Counted
    <3>2. Cardinality(Places(r2, Id)) = Cardinality(Places(runqueues, Id)) + 1
      BY <1>5, <2>1
    <3> QED
      BY <1>2, <3>1, <3>2
  <2>6. Counted(runqueues, placed, Len(threads))'
    BY <1>2, <1>6, <2>1, <2>2, <2>3, <2>4, <2>5 DEF Counted
  <2> QED
    BY <1>1, <1>2, <1>6, <2>6, CpusParts DEF CpusInv, Counted
<1>8. CASE ~(Len(runqueues[c].queue) < MaxThreads)
  <2>1. UNCHANGED <<runqueues, placed>>
    BY <1>1, <1>8
  <2>2. Cardinality(Places(runqueues, Id)) \in Nat /\ Cardinality(Places(runqueues, Id)) <= Len(threads)
    BY <1>2, <1>3, InPlaces DEF Counted
  <2>3. Cardinality(Places(runqueues, Id)) <= Len(threads) + 1
    BY <1>2, <2>2
  <2> QED
    BY <1>1, <1>2, <1>6, <2>1, <2>3 DEF CpusInv, Counted
<1> QED
  BY <1>7, <1>8

\* The table is told of run times and of sleep; the queues are not.
LEMMA TableTold ==
  ASSUME CpuConstants, CpusInv, NEW i \in 1..Len(threads), NEW e \in ScheduleEntry,
         threads' = [threads EXCEPT ![i] = e], UNCHANGED <<policy, runqueues, placed>>
  PROVE  CpusInv'
<1>1. threads' \in Seq(ScheduleEntry) /\ Len(threads') = Len(threads)
  BY DEF CpusInv
<1> QED
  BY <1>1 DEF CpusInv

\* Every call of the scheduler keeps the invariant.
LEMMA CpusStep == CpuConstants /\ CpusInv /\ [Next]_vars => CpusInv'
<1> SUFFICES ASSUME CpuConstants, CpusInv, [Next]_vars PROVE CpusInv'
  OBVIOUS
<1>0. /\ Counted(runqueues, placed, Len(threads)) /\ policy \in Policy
      /\ threads \in Seq(ScheduleEntry) /\ Len(threads) \in Nat /\ Len(threads) <= MaxThreads
      /\ \A i \in 1..Len(threads) : threads[i] \in ScheduleEntry
  BY CpusParts
<1>q. ASSUME Counted(runqueues, placed, Len(threads))', UNCHANGED <<policy, threads>> PROVE CpusInv'
  BY <1>0, <1>q DEF CpusInv, Counted
<1>1. CASE cpu_scheduler_add_runqueue
  BY <1>0, <1>1, <1>q, CountAdded DEF cpu_scheduler_add_runqueue
<1>2. CASE cpu_scheduler_update_runqueue_loads
  <2>1. UNCHANGED <<policy, runqueues, threads, placed>>
    BY <1>0, <1>2, CountUpdated DEF cpu_scheduler_update_runqueue_loads
  <2> QED
    BY <2>1 DEF CpusInv
<1>3. ASSUME NEW c \in Cpu, cpu_scheduler_remove_runqueue(c) PROVE CpusInv'
  <2>1. c \in 1..Len(runqueues) /\ UNCHANGED <<policy, threads>>
    BY <1>3 DEF Cpu, cpu_scheduler_remove_runqueue
  <2> QED
    BY <1>0, <1>3, <1>q, <2>1, CountRemoved
<1>4. ASSUME NEW id \in Id, cpu_scheduler_update_vruntime(id) PROVE CpusInv'
  <2>1. PICK i \in First(Copies(threads, id)) :
          /\ threads[i].vruntime < MaxRuntime
          /\ threads' = [threads EXCEPT ![i].vruntime = @ + 1]
          /\ UNCHANGED <<policy, runqueues, placed>>
    BY Zenon, <1>4 DEF cpu_scheduler_update_vruntime
  <2>2. i \in 1..Len(threads)
    BY FoundCopy
  <2> DEFINE e == [threads[i] EXCEPT !.vruntime = @ + 1]
  <2>3. e \in ScheduleEntry
    <3>1. threads[i] \in ScheduleEntry
      BY <1>0, <2>2
    <3> QED
      BY <2>1, <3>1 DEF CpuConstants, ScheduleEntry
  <2>4. threads' = [threads EXCEPT ![i] = e]
    BY <2>1
  <2> HIDE DEF e
  <2> QED
    BY Zenon, <2>1, <2>2, <2>3, <2>4, TableTold
<1>5. ASSUME NEW id \in Id, NEW u \in State, NEW v \in State, Turn(id, u, v) PROVE CpusInv'
  <2>1. PICK i \in 1..Len(threads) :
          /\ threads' = [threads EXCEPT ![i].state = v]
          /\ UNCHANGED <<policy, runqueues, placed>>
    BY Zenon, <1>5 DEF Turn, First, Copies
  <2> DEFINE e == [threads[i] EXCEPT !.state = v]
  <2>3. e \in ScheduleEntry
    <3>1. threads[i] \in ScheduleEntry
      BY <1>0
    <3> QED
      BY <3>1 DEF ScheduleEntry
  <2>4. threads' = [threads EXCEPT ![i] = e]
    BY <2>1
  <2> HIDE DEF e
  <2> QED
    BY Zenon, <2>1, <2>3, <2>4, TableTold
<1>6. ASSUME NEW id \in Id, NEW c \in Cpu, cpu_scheduler_dequeue_thread(c, id) PROVE CpusInv'
  <2>1. c \in 1..Len(runqueues) /\ UNCHANGED <<policy, threads>>
    BY <1>6 DEF Cpu, cpu_scheduler_dequeue_thread
  <2> QED
    BY <1>0, <1>6, <1>q, <2>1, CountDequeued
<1>7. ASSUME NEW id \in Id, NEW c \in Cpu, cpu_scheduler_run_thread(c, id) PROVE CpusInv'
  <2>1. c \in 1..Len(runqueues) /\ UNCHANGED <<policy, threads>>
    BY <1>7 DEF Cpu, cpu_scheduler_run_thread
  <2> QED
    BY <1>0, <1>7, <1>q, <2>1, CountRun
<1>8. ASSUME NEW id \in Id, NEW c \in Cpu, cpu_scheduler_migrate_thread(id, c) PROVE CpusInv'
  <2>1. c \in 1..Len(runqueues) /\ UNCHANGED <<policy, threads>>
    BY <1>8 DEF Cpu, cpu_scheduler_migrate_thread
  <2> QED
    BY <1>0, <1>8, <1>q, <2>1, CountMigrated
<1>9. CASE UNCHANGED vars
  BY <1>9 DEF vars, CpusInv
<1>10. "RUNNABLE" \in State /\ "SLEEPING" \in State
  BY DEF State
<1> QED
  BY <1>1, <1>2, <1>3, <1>4, <1>5, <1>6, <1>7, <1>8, <1>9, <1>10, CountEnqueued
     DEF Next, cpu_scheduler_sleep_thread, cpu_scheduler_wake_up_thread

\* The queues of cpu_scheduler_init satisfy it.
LEMMA CpusInit == CpuConstants /\ Init => CpusInv
<1> SUFFICES ASSUME CpuConstants, Init PROVE CpusInv
  OBVIOUS
<1>2. PICK n \in 0..MaxRunqueues : runqueues = [c \in 1..n |-> Empty]
  BY DEF Init
<1>3. /\ n \in Nat /\ n <= MaxRunqueues /\ Empty \in Lane /\ Len(Empty.queue) = 0 /\ Empty.load = 0
      /\ MaxThreads >= 0 /\ MaxThreads \in Nat
  BY DEF CpuConstants, Empty, Lane
<1>4. runqueues \in Seq(Lane) /\ Len(runqueues) = n /\ \A c \in 1..n : runqueues[c] = Empty
  BY <1>2, <1>3
<1>5. Lanes(runqueues) /\ Fits(runqueues)
  BY <1>3, <1>4 DEF Lanes, Fits
<1>6. ASSUME NEW S PROVE Places(runqueues, S) = {}
  BY <1>3, <1>4 DEF Places
<1>7. \A S : Cardinality(Places(runqueues, S)) = 0
  BY <1>6, FS_EmptySet
<1>8. threads = << >> /\ placed = [id \in Id |-> 0] /\ policy \in Policy
  BY DEF Init
<1>9. threads \in Seq(ScheduleEntry) /\ Len(threads) = 0
  BY <1>8
<1> QED
  BY <1>3, <1>4, <1>5, <1>7, <1>8, <1>9 DEF CpusInv

\* The load finds a shortest queue, its head is next without priorities, and no
\* thread is lost.
LEMMA CpusSafe ==
  CpuConstants /\ CpusInv => /\ TypeOK
                              /\ BalancedCpuIsShortest /\ NoThreadLost /\ HeadIsNext
<1> SUFFICES ASSUME CpuConstants, CpusInv
             PROVE  TypeOK /\ BalancedCpuIsShortest /\ NoThreadLost /\ HeadIsNext
  OBVIOUS
<1>0. /\ Lanes(runqueues) /\ Fits(runqueues) /\ Len(runqueues) \in Nat
      /\ \A c \in 1..Len(runqueues) :
           /\ runqueues[c] \in Lane /\ runqueues[c].load = Len(runqueues[c].queue)
           /\ Len(runqueues[c].queue) \in Nat /\ Len(runqueues[c].queue) <= MaxThreads
           /\ runqueues[c].queue \in Seq(Waiting)
           /\ \A j \in 1..Len(runqueues[c].queue) : runqueues[c].queue[j] \in Waiting
  BY LanesTypes DEF CpusInv, Lanes, Fits
<1>1. BalancedCpuIsShortest
  BY <1>0 DEF BalancedCpuIsShortest, cpu_scheduler_find_load_balanced_cpu, First, Cpu
<1>2. NoThreadLost
  <2>1. ASSUME NEW id \in Id
        PROVE  Places(runqueues, {id}) =
                 {ci \in Cpu \X (1..MaxThreads) : ci[2] \in Copies(runqueues[ci[1]].queue, id)}
    BY DEF Places, Cpu, Copies
  <2> QED
    BY Zenon, <2>1 DEF NoThreadLost, CpusInv
<1>3. HeadIsNext
  <2> SUFFICES ASSUME policy # "RT", NEW c \in 1..Len(runqueues), runqueues[c].queue # << >>
               PROVE  Selected(runqueues[c].queue) = {1}
    BY DEF HeadIsNext, Cpu
  <2> DEFINE q == runqueues[c].queue
  <2>1. q \in Seq(Waiting) /\ Len(q) \in Nat /\ Len(q) # 0 /\ \A j \in 1..Len(q) : q[j].vruntime = 0
    <3>1. q \in Seq(Waiting) /\ q # << >> /\ \A j \in 1..Len(q) : q[j] \in Waiting
      BY <1>0
    <3>2. \A j \in 1..Len(q) : q[j].vruntime = 0
      BY <3>1 DEF Waiting
    <3> HIDE DEF q
    <3>3. Len(q) \in Nat /\ Len(q) # 0
      BY <3>1
    <3> QED
      BY <3>1, <3>2, <3>3
  <2>2. {i \in 1..Len(q) : \A j \in 1..Len(q) :
           ~(\/ policy = "CFS" /\ q[j].vruntime < q[i].vruntime
             \/ policy = "RT" /\ q[j].priority > q[i].priority)} = 1..Len(q)
    BY <2>1
  <2>3. First(1..Len(q)) = {1}
    BY <2>1 DEF First
  <2> QED
    BY Zenon, <2>2, <2>3 DEF Selected
<1>4. TypeOK
  <2>1. \A e : e \in Waiting => e \in ScheduleEntry
    BY DEF CpuConstants, Waiting, ScheduleEntry
  <2>2. \A q : q \in Seq(Waiting) => q \in Seq(ScheduleEntry)
    BY <2>1
  <2>3. \A c \in 1..Len(runqueues) : runqueues[c] \in RunQueue
    <3> TAKE c \in 1..Len(runqueues)
    <3>1. /\ runqueues[c] \in Lane /\ runqueues[c].queue \in Seq(ScheduleEntry)
          /\ runqueues[c].load \in 0..MaxThreads
      BY <1>0, <2>2 DEF CpuConstants
    <3> QED
      BY <3>1 DEF Lane, RunQueue
  <2>4. runqueues \in Seq(RunQueue)
    BY <1>0, <2>3 DEF Lanes
  <2>5. ASSUME NEW id \in Id PROVE placed[id] \in 0..MaxThreads
    <3>1. Places(runqueues, {id}) \subseteq Places(runqueues, Id)
      BY DEF Places
    <3>2. IsFiniteSet(Places(runqueues, Id)) /\ Cardinality(Places(runqueues, Id)) \in Nat
      BY <1>0, InPlaces
    <3>3. Cardinality(Places(runqueues, {id})) <= Cardinality(Places(runqueues, Id))
      BY Zenon, <3>1, <3>2, FS_Subset
    <3>4. placed[id] \in Nat /\ placed[id] = Cardinality(Places(runqueues, {id}))
      BY DEF CpusInv
    <3>5. Len(threads) \in Nat /\ Len(threads) <= MaxThreads /\ Cardinality(Places(runqueues, Id)) <= Len(threads)
      BY DEF CpusInv
    <3> QED
      BY <3>2, <3>3, <3>4, <3>5 DEF CpuConstants
  <2>6. placed \in [Id -> 0..MaxThreads]
    BY <2>5 DEF CpusInv
  <2> QED
    BY <2>4, <2>6 DEF TypeOK, CpusInv
<1> QED
  BY <1>1, <1>2, <1>3, <1>4
=============================================================================
