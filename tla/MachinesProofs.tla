--------------------------- MODULE MachinesProofs ---------------------------
(***************************************************************************)
(* LiveMigration for every number of sessions, machines and jobs and every  *)
(* size of host and machine.  The sessions, the host and the lifecycle      *)
(* manager have an inductive invariant each; MachinesInv is the three       *)
(* together, and Next lets them interleave.  The memory of the host is a    *)
(* sum over the list of machines, so the proofs need induction on its       *)
(* length: a least place where two sums differ cannot exist.                *)
(***************************************************************************)
EXTENDS LiveMigration, WellFoundedInduction, TLAPS

-----------------------------------------------------------------------------
(* Sessions. *)

\* What % makes of a sum or difference of two numbers below W.
LEMMA Wraps ==
  ASSUME NEW W \in Nat, W > 0
  PROVE  /\ \A x \in 0..(W - 1) : x % W = x
         /\ \A x \in W..(2 * W - 1) : x % W = x - W
         /\ \A x \in (-W)..(-1) : x % W = x + W
  OBVIOUS

\* Both phases migrate some pages, and no number of iterations that is counted
\* makes migrated_pages wrap.
LEMMA PageCounts ==
  /\ Precopy \in Nat /\ Delta \in Nat /\ 0 < Delta /\ Delta <= Precopy /\ Precopy <= TotalPages
  /\ Width > 0 /\ TotalPages < Width
  /\ \A i \in Nat : i < MaxIterations =>
       /\ (i + 1) * Precopy = i * Precopy + Precopy
       /\ TotalPages + (i + 1) * Precopy < Width
<1>1. Precopy \in Nat /\ Delta \in Nat /\ 0 < Delta /\ Delta <= Precopy /\ Precopy <= TotalPages
  BY MigrationAssumption DEF Precopy, Delta
<1>2. \A i \in Nat, n \in Nat, p \in Nat : i < n => (i + 1) * p = i * p + p /\ (i + 1) * p <= n * p
  OBVIOUS
<1>3. \A i \in Nat, p \in Nat : i * p \in Nat OBVIOUS
<1> QED BY <1>1, <1>2, <1>3, MigrationAssumption

\* The pages of a session x: they make up the machine or, once remaining_pages has
\* wrapped, exceed it by what the counter holds; every iteration migrated at most
\* what a pre-copy does, and the first some page.
Fits(x) ==
  /\ x \in Session
  /\ x.migrated + x.remaining = TotalPages \/ x.migrated + x.remaining = TotalPages + Width
  /\ x.migrated <= TotalPages + x.iterations * Precopy
  /\ x.iterations > 0 => x.migrated > 0

\* Every slot is free or has a session that fits.
SlotsInv ==
  /\ sessions \in [Slot -> Session \cup {Free}]
  /\ \A s \in Occupied : Fits(sessions[s])

\* A session has the types of its fields.
LEMMA SessionFields ==
  ASSUME NEW x \in Session
  PROVE  /\ x.phase \in Phase /\ x.migrated \in Nat /\ x.remaining \in Nat /\ x.iterations \in Nat
         /\ x.migrated < Width /\ x.remaining < Width /\ x.iterations <= MaxIterations /\ x # Free
  BY PageCounts, MigrationAssumption DEF Session, Free, Phase

\* A pre-copy or delta phase, which moves pages from remaining_pages to
\* migrated_pages and counts an iteration, keeps a session fitting.
LEMMA MovedFits ==
  ASSUME NEW x, Fits(x), x.iterations < MaxIterations,
         NEW pages \in Nat, 0 < pages, pages <= Precopy
  PROVE  Fits(Moved(x, pages))
<1> DEFINE y == Moved(x, pages)
           i == x.iterations
<1>1. /\ x.migrated \in Nat /\ x.remaining \in Nat /\ i \in Nat /\ x.phase \in Phase
      /\ x.migrated < Width /\ x.remaining < Width
  BY SessionFields DEF Fits
<1>2. /\ Precopy \in Nat /\ Precopy < Width /\ Width \in Nat /\ Width > 0 /\ TotalPages \in Nat
      /\ (i + 1) * Precopy = i * Precopy + Precopy /\ TotalPages + (i + 1) * Precopy < Width
  BY <1>1, PageCounts, MigrationAssumption
<1> DEFINE k == i * Precopy
           n == (i + 1) * Precopy
<1>3. k \in Nat /\ n = k + Precopy /\ TotalPages + n < Width /\ x.migrated <= TotalPages + k
  BY <1>1, <1>2 DEF Fits
<1> HIDE DEF k, n
<1>4. x.migrated + pages \in 0..(Width - 1) BY <1>1, <1>2, <1>3
<1>5. (x.migrated + pages) % Width = x.migrated + pages BY <1>2, <1>4, Wraps
<1>6. \/ x.remaining >= pages /\ (x.remaining - pages) % Width = x.remaining - pages
      \/ x.remaining < pages /\ (x.remaining - pages) % Width = x.remaining - pages + Width
  <2>1. CASE x.remaining >= pages
    <3>1. x.remaining - pages \in 0..(Width - 1) BY <1>1, <1>2, <2>1
    <3> QED BY <1>2, <3>1, <2>1, Wraps
  <2>2. CASE x.remaining < pages
    <3>1. x.remaining - pages \in (-Width)..(-1) BY <1>1, <1>2, <2>2
    <3> QED BY <1>2, <3>1, <2>2, Wraps
  <2> QED BY <1>1, <2>1, <2>2
<1>7. (x.remaining - pages) % Width \in 0..(Width - 1) BY <1>1, <1>2, <1>6
<1>8. i + 1 \in 0..MaxIterations BY <1>1, MigrationAssumption
<1>9. x \in Session BY DEF Fits
<1>10. /\ y \in Session /\ y.migrated = x.migrated + pages
       /\ y.remaining = (x.remaining - pages) % Width /\ y.iterations = i + 1
  <2> DEFINE a == (x.migrated + pages) % Width
             b == (x.remaining - pages) % Width
             c == i + 1
  <2>1. y = [x EXCEPT !.migrated = a, !.remaining = b, !.iterations = c] BY DEF Moved
  <2>2. a \in 0..(Width - 1) /\ b \in 0..(Width - 1) /\ c \in 0..MaxIterations BY <1>4, <1>5, <1>7, <1>8
  <2>3. a = x.migrated + pages BY <1>5
  <2> HIDE DEF a, b, c, y
  <2>4. y \in Session /\ y.migrated = a /\ y.remaining = b /\ y.iterations = c
    BY Zenon, <1>9, <2>1, <2>2 DEF Session
  <2> QED BY <2>3, <2>4 DEF b, c
<1> HIDE DEF y
<1>11. y.migrated + y.remaining = TotalPages \/ y.migrated + y.remaining = TotalPages + Width
  <2> DEFINE r == (x.remaining - pages) % Width
  <2>1. r \in Nat /\ r < Width /\ (r = x.remaining - pages \/ r = x.remaining - pages + Width)
    BY <1>1, <1>2, <1>6, <1>7
  <2>2. x.migrated + x.remaining = TotalPages \/ x.migrated + x.remaining = TotalPages + Width BY DEF Fits
  <2>3. y.migrated = x.migrated + pages /\ y.remaining = r BY <1>10
  <2> HIDE DEF r
  <2>4. \/ y.migrated + y.remaining = x.migrated + x.remaining
        \/ y.migrated + y.remaining = x.migrated + x.remaining + Width
    BY <1>1, <1>2, <2>1, <2>3
  <2>5. y.migrated + y.remaining < 2 * Width BY <1>1, <1>2, <1>4, <2>1, <2>3
  <2> QED BY <1>1, <1>2, <2>2, <2>4, <2>5
<1>12. y.migrated <= TotalPages + y.iterations * Precopy
  <2>1. y.migrated <= TotalPages + n BY <1>1, <1>2, <1>3, <1>10
  <2> QED BY <1>10, <2>1 DEF n
<1>13. y.migrated > 0 BY <1>1, <1>10
<1>14. Fits(y) BY <1>10, <1>11, <1>12, <1>13, Zenon DEF Fits
<1> QED BY <1>14 DEF y

\* Another phase changes nothing of that.
LEMMA EnteredFits ==
  ASSUME NEW x, Fits(x), NEW phase \in Phase
  PROVE  Fits([x EXCEPT !.phase = phase])
<1>1. /\ x.migrated \in Nat /\ x.remaining \in Nat /\ x.iterations \in Nat BY SessionFields DEF Fits
<1> QED BY <1>1 DEF Fits, Session

\* The last phase migrates all pages, a new session none.
LEMMA EndsFit ==
  /\ \A x : Fits(x) => Fits([x EXCEPT !.phase = "FINAL", !.migrated = TotalPages, !.remaining = 0])
  /\ Fits([phase |-> "INIT", migrated |-> 0, remaining |-> TotalPages, iterations |-> 0])
<1> USE PageCounts
<1>1. ASSUME NEW x, Fits(x) PROVE Fits([x EXCEPT !.phase = "FINAL", !.migrated = TotalPages, !.remaining = 0])
  <2> DEFINE y == [x EXCEPT !.phase = "FINAL", !.migrated = TotalPages, !.remaining = 0]
  <2>1. x.iterations \in Nat /\ x.iterations * Precopy \in Nat BY <1>1, SessionFields DEF Fits
  <2>2. /\ y \in Session /\ y.migrated = TotalPages /\ y.remaining = 0 /\ y.iterations = x.iterations
    <3>1. x \in Session /\ x.iterations \in 0..MaxIterations BY <1>1 DEF Fits, Session
    <3>2. TotalPages \in 0..(Width - 1) /\ 0 \in 0..(Width - 1) BY MigrationAssumption
    <3>3. y = [x EXCEPT !.phase = "FINAL", !.migrated = TotalPages, !.remaining = 0] OBVIOUS
    <3> HIDE DEF y
    <3> QED BY Zenon, <3>1, <3>2, <3>3 DEF Session, Phase
  <2> QED BY <2>1, <2>2, MigrationAssumption DEF Fits
<1>2. Fits([phase |-> "INIT", migrated |-> 0, remaining |-> TotalPages, iterations |-> 0])
  <2>1. 0 * Precopy = 0 OBVIOUS
  <2> QED BY <2>1, MigrationAssumption DEF Fits, Session, Phase
<1> QED BY Zenon, <1>1, <1>2

\* What every step of the sessions does: at most one slot changes, to free or to
\* a session that fits, and active_migrations follows.
SlotStep(s) ==
  /\ s \in Slot /\ sessions' = [sessions EXCEPT ![s] = sessions'[s]]
  /\ sessions'[s] = Free \/ Fits(sessions'[s])
  /\ \/ s \notin Occupied /\ sessions'[s] # Free /\ active_migrations' = active_migrations + 1
     \/ s \in Occupied /\ sessions'[s] # Free /\ active_migrations' \in {active_migrations, Down}
     \/ s \in Occupied /\ sessions'[s] = Free /\ active_migrations' = Down

\* Each call changes one slot in one of these ways.
LEMMA OneSlot ==
  ASSUME SlotsInv, SessionsNext
  PROVE  \E s \in Slot : SlotStep(s)
<1>1. ASSUME NEW s \in Slot, NEW x, Fits(x), sessions' = [sessions EXCEPT ![s] = x]
      PROVE  /\ sessions'[s] = x /\ sessions'[s] # Free /\ Fits(sessions'[s])
             /\ sessions' = [sessions EXCEPT ![s] = sessions'[s]]
  <2>1. sessions'[s] = x BY <1>1 DEF SlotsInv
  <2>2. x # Free BY <1>1, SessionFields DEF Fits
  <2> QED BY Zenon, <1>1, <2>1, <2>2
<1>2. ASSUME NEW s \in Slot, NEW phase \in Phase, Enter(s, phase)
      PROVE  /\ s \in Occupied /\ sessions'[s] # Free /\ Fits(sessions'[s])
             /\ sessions' = [sessions EXCEPT ![s] = sessions'[s]]
  <2>1. s \in Occupied /\ Fits(sessions[s]) BY <1>2 DEF Enter, SlotsInv
  <2>2. Fits([sessions[s] EXCEPT !.phase = phase]) BY <2>1, EnteredFits
  <2>3. sessions' = [sessions EXCEPT ![s] = [sessions[s] EXCEPT !.phase = phase]] BY <1>2 DEF Enter
  <2> QED BY Zenon, <1>1, <2>1, <2>2, <2>3
<1>3. CASE migration_session_create
  <2>1. PICK s \in Slot \ Occupied :
          sessions' = [sessions EXCEPT ![s] = [phase |-> "INIT", migrated |-> 0, remaining |-> TotalPages, iterations |-> 0]]
    BY Zenon, <1>3 DEF migration_session_create
  <2>2. sessions'[s] # Free /\ Fits(sessions'[s]) /\ sessions' = [sessions EXCEPT ![s] = sessions'[s]]
    BY Zenon, <2>1, <1>1, EndsFit
  <2> QED BY Zenon, <1>3, <2>1, <2>2 DEF migration_session_create, SlotStep
<1>4. ASSUME NEW s \in Slot, migration_session_destroy(s) PROVE SlotStep(s)
  <2>1. sessions'[s] = Free /\ sessions' = [sessions EXCEPT ![s] = sessions'[s]]
    BY <1>4 DEF migration_session_destroy, SlotsInv
  <2> QED BY <1>4, <2>1 DEF migration_session_destroy, SlotStep
<1>5. ASSUME NEW s \in Slot, migration_start(s) \/ migration_stop_vm_phase(s) \/ migration_complete(s) \/ migration_rollback(s)
      PROVE  SlotStep(s)
  <2>1. "SETUP" \in Phase /\ "STOP_VM" \in Phase /\ "COMPLETE" \in Phase /\ "ABORT" \in Phase BY DEF Phase
  <2>2. PICK phase \in Phase : Enter(s, phase) /\ active_migrations' \in {active_migrations, Down}
    BY <1>5, <2>1 DEF migration_start, migration_stop_vm_phase, migration_complete, migration_rollback
  <2> QED BY <1>2, <2>2 DEF SlotStep
<1>6. ASSUME NEW s \in Slot, migration_precopy_phase(s) \/ migration_delta_phase(s) \/ migration_final_phase(s)
      PROVE  SlotStep(s)
  <2>1. s \in Occupied /\ Fits(sessions[s]) /\ active_migrations' = active_migrations
    BY <1>6 DEF migration_precopy_phase, migration_delta_phase, migration_final_phase, SlotsInv
  <2>2. ASSUME migration_precopy_phase(s) PROVE sessions'[s] # Free /\ Fits(sessions'[s]) /\ sessions' = [sessions EXCEPT ![s] = sessions'[s]]
    <3>1. Fits(Moved(sessions[s], Precopy)) BY <2>1, <2>2, MovedFits, PageCounts DEF migration_precopy_phase
    <3>2. Fits([Moved(sessions[s], Precopy) EXCEPT !.phase = "DELTA"]) BY Zenon, <3>1, EnteredFits DEF Phase
    <3>3. sessions' = [sessions EXCEPT ![s] = [Moved(sessions[s], Precopy) EXCEPT !.phase = "DELTA"]]
      BY <2>2 DEF migration_precopy_phase
    <3> QED BY Zenon, <1>1, <3>2, <3>3
  <2>3. ASSUME migration_delta_phase(s) PROVE sessions'[s] # Free /\ Fits(sessions'[s]) /\ sessions' = [sessions EXCEPT ![s] = sessions'[s]]
    <3>1. Fits(Moved(sessions[s], Delta)) BY <2>1, <2>3, MovedFits, PageCounts DEF migration_delta_phase
    <3>2. sessions' = [sessions EXCEPT ![s] = Moved(sessions[s], Delta)] BY <2>3 DEF migration_delta_phase
    <3> QED BY Zenon, <1>1, <3>1, <3>2
  <2>4. ASSUME migration_final_phase(s) PROVE sessions'[s] # Free /\ Fits(sessions'[s]) /\ sessions' = [sessions EXCEPT ![s] = sessions'[s]]
    <3>1. Fits([sessions[s] EXCEPT !.phase = "FINAL", !.migrated = TotalPages, !.remaining = 0]) BY Zenon, <2>1, EndsFit
    <3>2. sessions' = [sessions EXCEPT ![s] = [sessions[s] EXCEPT !.phase = "FINAL", !.migrated = TotalPages, !.remaining = 0]]
      BY Zenon, <2>4 DEF migration_final_phase, SlotsInv
    <3> QED BY Zenon, <1>1, <3>1, <3>2
  <2> QED BY <1>6, <2>1, <2>2, <2>3, <2>4 DEF SlotStep
<1> QED BY <1>3, <1>4, <1>5, <1>6 DEF SessionsNext

\* The slots stay in order.
LEMMA SlotsStep ==
  ASSUME SlotsInv, SessionsNext
  PROVE  SlotsInv'
<1>1. PICK s \in Slot : SlotStep(s) BY OneSlot
<1>2. sessions' = [sessions EXCEPT ![s] = sessions'[s]] /\ (sessions'[s] = Free \/ Fits(sessions'[s])) BY <1>1 DEF SlotStep
<1>3. sessions' \in [Slot -> Session \cup {Free}]
  <2>1. sessions'[s] \in Session \cup {Free} BY <1>2 DEF Fits
  <2> QED BY <1>2, <2>1 DEF SlotsInv
<1>4. ASSUME NEW t \in Slot, sessions'[t] # Free PROVE Fits(sessions'[t])
  <2>1. CASE t = s BY <1>2, <1>4, <2>1
  <2>2. CASE t # s
    <3>1. sessions'[t] = sessions[t] BY <1>2, <2>2 DEF SlotsInv
    <3> QED BY <1>4, <3>1 DEF SlotsInv, Occupied
  <2> QED BY <2>1, <2>2
<1> QED BY <1>3, <1>4 DEF SlotsInv, Occupied, Fits

-----------------------------------------------------------------------------
(* The memory of a list of machines: a sum over places, which needs that sets *)
(* of numbers have least elements.                                            *)

\* Every set of natural numbers that is not empty has a least element.
LEMMA LeastNatural ==
  ASSUME NEW T \in SUBSET Nat, T # {}
  PROVE  \E x \in T : \A y \in T : x <= y
<1> DEFINE R == OpToRel(<, Nat)
<1>1. IsWellFoundedOn(R, Nat) BY NatLessThanWellFounded, Zenon DEF OpToRel
<1>2. \A x, y \in Nat : x < y => <<x, y>> \in R BY DEF OpToRel
<1> HIDE DEF R
<1>3. PICK x \in T : \A y \in T : ~(<<y, x>> \in R) BY <1>1, WFMin, Zenon
<1>4. \A y \in T : ~(y < x) BY Zenon, <1>2, <1>3
<1> QED BY <1>3, <1>4

\* f adds up the memory of the first k places of list.
Adds(f, list, k) == f = [n \in 0..k |-> IF n = 0 THEN 0 ELSE f[n - 1] + list[n].memory]

\* A machine has the types of its fields.
LEMMA Machines ==
  ASSUME NEW list \in Seq(VirtualMachine)
  PROVE  /\ Len(list) \in Nat /\ DOMAIN list = 1..Len(list)
         /\ \A i \in 1..Len(list) :
              /\ list[i] \in VirtualMachine /\ list[i].memory \in Nat /\ list[i].memory <= HostMemory
              /\ list[i].vm_id \in 1..MaxMachines /\ list[i].state \in VmState
<1>1. \A i \in 1..Len(list) : list[i] \in VirtualMachine OBVIOUS
<1>2. \A vm \in VirtualMachine : vm.memory \in Nat /\ vm.memory <= HostMemory /\ vm.vm_id \in 1..MaxMachines /\ vm.state \in VmState
  BY HostAssumption DEF VirtualMachine
<1> QED BY <1>1, <1>2

\* There is such a function for every list.
LEMMA SumsExist ==
  ASSUME NEW list, NEW len \in Nat
  PROVE  \E f : Adds(f, list, len)
<1> DEFINE T == {k \in 0..len : ~ \E f : Adds(f, list, k)}
<1>1. T \in SUBSET Nat OBVIOUS
<1>2. SUFFICES ASSUME T # {} PROVE FALSE OBVIOUS
<1>3. PICK k \in T : \A y \in T : k <= y BY Zenon, <1>1, <1>2, LeastNatural
<1>4. k # 0
  <2> DEFINE f0 == [n \in 0..0 |-> 0]
  <2>1. Adds(f0, list, 0) BY DEF Adds
  <2> QED BY <2>1, <1>3
<1>5. k \in Nat /\ k > 0 /\ k <= len BY <1>3, <1>4
<1>6. k - 1 \in 0..len BY <1>5
<1>7. k - 1 \notin T BY <1>3, <1>5
<1>8. PICK f : Adds(f, list, k - 1) BY <1>6, <1>7
<1> DEFINE g == [n \in 0..k |-> IF n = k THEN f[k - 1] + list[k].memory ELSE f[n]]
<1>9. Adds(g, list, k)
  <2>1. \A n \in 0..k : g[n] = IF n = 0 THEN 0 ELSE g[n - 1] + list[n].memory
    <3>1. ASSUME NEW n \in 0..k, n = k PROVE g[n] = IF n = 0 THEN 0 ELSE g[n - 1] + list[n].memory
      <4>1. g[k - 1] = f[k - 1] BY <1>5
      <4> QED BY <1>5, <3>1, <4>1
    <3>2. ASSUME NEW n \in 0..k, n # k PROVE g[n] = IF n = 0 THEN 0 ELSE g[n - 1] + list[n].memory
      <4>1. n \in 0..(k - 1) /\ g[n] = f[n] BY <1>5, <3>2
      <4>2. f[n] = IF n = 0 THEN 0 ELSE f[n - 1] + list[n].memory BY <1>8, <4>1 DEF Adds
      <4>3. n # 0 => g[n - 1] = f[n - 1] BY <1>5, <4>1
      <4> QED BY <4>1, <4>2, <4>3
    <3> QED BY <3>1, <3>2
  <2> QED BY Zenon, <2>1 DEF Adds
<1> QED BY <1>3, <1>9

\* Two such functions agree.
LEMMA SumsUnique ==
  ASSUME NEW list, NEW len \in Nat, NEW f, NEW g, Adds(f, list, len), Adds(g, list, len)
  PROVE  f[len] = g[len]
<1> DEFINE T == {k \in 0..len : f[k] # g[k]}
<1>1. T \in SUBSET Nat OBVIOUS
<1>2. SUFFICES ASSUME T # {} PROVE FALSE OBVIOUS
<1>3. PICK k \in T : \A y \in T : k <= y BY Zenon, <1>1, <1>2, LeastNatural
<1>4. k # 0 BY <1>3 DEF Adds
<1>5. k \in Nat /\ k > 0 /\ k <= len BY <1>3, <1>4
<1>6. k - 1 \in 0..len /\ k - 1 \notin T BY <1>3, <1>5
<1>7. f[k - 1] = g[k - 1] BY <1>6
<1> QED BY <1>3, <1>4, <1>7 DEF Adds

\* MemoryOf is the last value of any of them.
LEMMA MemoryIs ==
  ASSUME NEW list, Len(list) \in Nat, NEW f, Adds(f, list, Len(list))
  PROVE  MemoryOf(list) = f[Len(list)]
<1> DEFINE h == CHOOSE g : g = [n \in 0..Len(list) |-> IF n = 0 THEN 0 ELSE g[n - 1] + list[n].memory]
<1>1. \E g : g = [n \in 0..Len(list) |-> IF n = 0 THEN 0 ELSE g[n - 1] + list[n].memory] BY Zenon, SumsExist DEF Adds
<1>2. Adds(h, list, Len(list)) BY <1>1, Zenon DEF Adds
<1>3. MemoryOf(list) = h[Len(list)] BY DEF MemoryOf
<1> HIDE DEF h
<1> QED BY <1>2, <1>3, SumsUnique

\* The sums of a list of machines are natural numbers.
LEMMA SumsAreNatural ==
  ASSUME NEW list \in Seq(VirtualMachine), NEW f, Adds(f, list, Len(list))
  PROVE  /\ \A k \in 0..Len(list) : f[k] \in Nat
         /\ f[0] = 0 /\ \A k \in 1..Len(list) : f[k] = f[k - 1] + list[k].memory
<1> DEFINE T == {k \in 0..Len(list) : f[k] \notin Nat}
<1> USE Machines
<1>1. T \in SUBSET Nat OBVIOUS
<1>2. f[0] = 0 /\ \A k \in 1..Len(list) : f[k] = f[k - 1] + list[k].memory BY DEF Adds
<1>3. ASSUME T # {} PROVE FALSE
  <2>1. PICK k \in T : \A y \in T : k <= y BY Zenon, <1>1, <1>3, LeastNatural
  <2>2. k \in Nat /\ k > 0 /\ k <= Len(list) BY <1>2, <2>1
  <2>3. k - 1 \in 0..Len(list) /\ k - 1 \notin T BY <2>1, <2>2
  <2>4. f[k] \in Nat BY <1>2, <2>2, <2>3
  <2> QED BY <2>1, <2>4
<1> QED BY <1>2, <1>3

\* A new machine adds its memory.
LEMMA MemoryAppended ==
  ASSUME NEW list \in Seq(VirtualMachine), NEW vm \in VirtualMachine
  PROVE  MemoryOf(Append(list, vm)) = MemoryOf(list) + vm.memory
<1> DEFINE L == Len(list)
           new == Append(list, vm)
<1>1. L \in Nat /\ new \in Seq(VirtualMachine) /\ Len(new) = L + 1 BY Machines
<1>2. PICK f : Adds(f, list, L) BY <1>1, SumsExist
<1>3. \A k \in 1..L : new[k] = list[k] OBVIOUS
<1>4. new[L + 1] = vm BY <1>1
<1> HIDE DEF new
<1> DEFINE g == [k \in 0..(L + 1) |-> IF k = L + 1 THEN f[L] + vm.memory ELSE f[k]]
<1>5. /\ f[0] = 0 /\ \A k \in 1..L : f[k] = f[k - 1] + list[k].memory BY <1>2, SumsAreNatural
<1>6. ASSUME NEW k \in 0..(L + 1) PROVE g[k] = IF k = 0 THEN 0 ELSE g[k - 1] + new[k].memory
  <2>1. CASE k = 0 BY <1>1, <1>5, <2>1
  <2>2. CASE k \in 1..L
    <3>1. g[k] = f[k] /\ g[k - 1] = f[k - 1] BY <1>1, <2>2
    <3> QED BY <1>3, <1>5, <2>2, <3>1
  <2>3. CASE k = L + 1
    <3>1. g[k - 1] = f[L] /\ g[k] = f[L] + vm.memory BY <1>1, <2>3
    <3> QED BY <1>1, <1>4, <2>3, <3>1
  <2> QED BY <1>1, <2>1, <2>2, <2>3
<1>7. Adds(g, new, L + 1) BY <1>6 DEF Adds
<1>8. MemoryOf(new) = g[L + 1] BY <1>1, <1>7, MemoryIs
<1>9. MemoryOf(list) = f[L] BY <1>1, <1>2, MemoryIs
<1> QED BY <1>1, <1>8, <1>9 DEF new

\* A machine that changes changes the sum by what its memory changed.
LEMMA MemoryReplaced ==
  ASSUME NEW list \in Seq(VirtualMachine), NEW new \in Seq(VirtualMachine), Len(new) = Len(list),
         NEW i \in 1..Len(list), \A k \in 1..Len(list) : k # i => new[k].memory = list[k].memory
  PROVE  MemoryOf(new) = MemoryOf(list) - list[i].memory + new[i].memory
<1> DEFINE L == Len(list)
           d == new[i].memory - list[i].memory
<1>1. L \in Nat /\ i \in Nat /\ i > 0 /\ i <= L /\ d \in Int BY Machines
<1>2. PICK f : Adds(f, list, L) BY Zenon, <1>1, SumsExist
<1>3. /\ \A k \in 0..L : f[k] \in Nat
      /\ f[0] = 0 /\ \A k \in 1..L : f[k] = f[k - 1] + list[k].memory BY <1>2, SumsAreNatural
<1> DEFINE g == [k \in 0..L |-> IF k < i THEN f[k] ELSE f[k] + d]
<1>4. ASSUME NEW k \in 0..L PROVE g[k] = IF k = 0 THEN 0 ELSE g[k - 1] + new[k].memory
  <2>1. CASE k = 0 BY <1>1, <1>3, <2>1
  <2>2. CASE k > 0 /\ k < i
    <3>1. g[k] = f[k] /\ g[k - 1] = f[k - 1] BY <1>1, <2>2
    <3> QED BY <1>1, <1>3, <2>2, <3>1
  <2>3. CASE k = i
    <3>1. g[k] = f[k] + d /\ g[k - 1] = f[k - 1] BY <1>1, <2>3
    <3>2. k \in 1..L /\ k - 1 \in 0..L BY <1>1, <2>3
    <3>3. f[k - 1] \in Nat /\ f[k] = f[k - 1] + list[k].memory BY <1>3, <3>2
    <3>4. list[k].memory \in Nat /\ new[k].memory \in Nat BY <3>2, Machines
    <3> QED BY <1>1, <2>3, <3>1, <3>3, <3>4
  <2>4. CASE k > i
    <3>1. g[k] = f[k] + d /\ g[k - 1] = f[k - 1] + d BY <1>1, <2>4
    <3>2. k \in 1..L /\ k - 1 \in 0..L /\ k # 0 BY <1>1, <2>4
    <3>3. f[k - 1] \in Nat /\ f[k] = f[k - 1] + list[k].memory BY <1>3, <3>2
    <3>4. list[k].memory \in Nat /\ new[k].memory = list[k].memory BY <1>1, <2>4, <3>2, Machines
    <3> HIDE DEF d, g
    <3> QED BY <1>1, <3>1, <3>2, <3>3, <3>4
  <2> QED BY <1>1, <2>1, <2>2, <2>3, <2>4
<1>5. Adds(g, new, L) BY Zenon, <1>4 DEF Adds
<1>6. MemoryOf(new) = g[L] /\ MemoryOf(list) = f[L] BY <1>1, <1>2, <1>5, MemoryIs
<1>7. g[L] = f[L] + d /\ f[L] \in Nat BY <1>1, <1>3
<1>8. list[i].memory \in Nat /\ new[i].memory \in Nat BY Machines
<1> QED BY <1>6, <1>7, <1>8

\* memmove takes one place out.
LEMMA WithoutIs ==
  ASSUME NEW S, NEW list \in Seq(S), NEW i \in 1..Len(list)
  PROVE  /\ Without(list, i) \in Seq(S) /\ Len(Without(list, i)) = Len(list) - 1
         /\ \A k \in 1..(Len(list) - 1) : Without(list, i)[k] = IF k < i THEN list[k] ELSE list[k + 1]
<1> DEFINE new == Without(list, i)
           N == Len(list) - 1
<1>1. N \in Nat /\ i \in Nat OBVIOUS
<1>2. \A k \in 1..N : (IF k < i THEN list[k] ELSE list[k + 1]) \in S BY <1>1
<1>3. new \in [1..N -> S] BY <1>2 DEF Without
<1>4. new \in Seq(S) /\ Len(new) = N BY <1>1, <1>3
<1>5. \A k \in 1..N : new[k] = IF k < i THEN list[k] ELSE list[k + 1] BY DEF Without
<1> QED BY <1>4, <1>5

\* A machine that is deleted takes its memory with it, which is part of the sum.
LEMMA MemoryWithout ==
  ASSUME NEW list \in Seq(VirtualMachine), NEW i \in 1..Len(list)
  PROVE  /\ MemoryOf(Without(list, i)) = MemoryOf(list) - list[i].memory
         /\ MemoryOf(list) \in Nat /\ list[i].memory <= MemoryOf(list)
<1> DEFINE L == Len(list)
           new == Without(list, i)
           d == list[i].memory
<1>1. L \in Nat /\ i \in Nat /\ i > 0 /\ i <= L /\ d \in Nat BY Machines
<1>2. PICK f : Adds(f, list, L) BY Zenon, <1>1, SumsExist
<1>3. /\ \A k \in 0..L : f[k] \in Nat
      /\ f[0] = 0 /\ \A k \in 1..L : f[k] = f[k - 1] + list[k].memory BY <1>2, SumsAreNatural
<1>4. /\ new \in Seq(VirtualMachine) /\ Len(new) = L - 1
      /\ \A k \in 1..(L - 1) : new[k] = IF k < i THEN list[k] ELSE list[k + 1]
  BY WithoutIs
<1> HIDE DEF new
<1> DEFINE g == [k \in 0..(L - 1) |-> IF k < i THEN f[k] ELSE f[k + 1] - d]
<1>5. ASSUME NEW k \in 0..(L - 1) PROVE g[k] = IF k = 0 THEN 0 ELSE g[k - 1] + new[k].memory
  <2>1. CASE k = 0 BY <1>1, <1>3, <2>1
  <2>2. CASE k > 0 /\ k < i
    <3>1. g[k] = f[k] /\ g[k - 1] = f[k - 1] BY <1>1, <2>2
    <3> QED BY <1>1, <1>3, <1>4, <2>2, <3>1
  <2>3. CASE k = i
    <3>1. g[k] = f[k + 1] - d /\ g[k - 1] = f[k - 1] BY <1>1, <2>3
    <3>2. k \in 1..L /\ k + 1 \in 1..L /\ k - 1 \in 0..L /\ k \in 0..L /\ k \in 1..(L - 1) /\ k # 0 BY <1>1, <2>3
    <3>3. f[k - 1] \in Nat /\ f[k] = f[k - 1] + d /\ f[k + 1] = f[k] + list[k + 1].memory /\ f[k] \in Nat
      BY <1>3, <2>3, <3>2
    <3>4. list[k + 1].memory \in Nat /\ new[k] = list[k + 1] BY <1>1, <1>4, <2>3, <3>2, Machines
    <3> HIDE DEF d, g
    <3> QED BY <1>1, <3>1, <3>2, <3>3, <3>4
  <2>4. CASE k > i
    <3>1. g[k] = f[k + 1] - d /\ g[k - 1] = f[k] - d BY <1>1, <2>4
    <3>2. k + 1 \in 1..L /\ k \in 0..L /\ k \in 1..(L - 1) /\ k # 0 BY <1>1, <2>4
    <3>3. f[k + 1] = f[k] + list[k + 1].memory /\ f[k] \in Nat BY <1>3, <3>2
    <3>4. list[k + 1].memory \in Nat /\ new[k] = list[k + 1] BY <1>1, <1>4, <2>4, <3>2, Machines
    <3> HIDE DEF d, g
    <3> QED BY <1>1, <3>1, <3>2, <3>3, <3>4
  <2> QED BY <1>1, <2>1, <2>2, <2>3, <2>4
<1>6. Adds(g, new, L - 1) BY <1>5 DEF Adds
<1>7. MemoryOf(new) = g[L - 1] /\ MemoryOf(list) = f[L] BY <1>1, <1>2, <1>4, <1>6, MemoryIs
<1>8. L - 1 \in 0..L /\ L \in 0..L /\ L \in 1..L /\ L - 1 \in 0..(L - 1) BY <1>1
<1>9. f[L] \in Nat /\ f[L - 1] \in Nat /\ f[L] = f[L - 1] + list[L].memory BY <1>3, <1>8
<1>10. g[L - 1] = f[L] - d
  <2>1. CASE L - 1 < i
    <3>1. i = L BY <1>1, <2>1
    <3> QED BY <1>1, <1>8, <1>9, <2>1, <3>1
  <2>2. CASE ~(L - 1 < i)
    <3>1. g[L - 1] = f[(L - 1) + 1] - d BY <1>8, <2>2
    <3>2. (L - 1) + 1 = L BY <1>1
    <3> QED BY <3>1, <3>2
  <2> QED BY <2>1, <2>2
<1>11. g[L - 1] \in Nat
  <2>1. PICK h : Adds(h, new, L - 1) BY <1>6
  <2>2. h[L - 1] \in Nat BY <1>4, <1>8, <2>1, SumsAreNatural
  <2>3. h[L - 1] = MemoryOf(new) BY <1>1, <1>4, <2>1, MemoryIs
  <2> QED BY <1>7, <2>2, <2>3
<1> HIDE DEF g
<1> QED BY <1>1, <1>7, <1>9, <1>10, <1>11 DEF new

-----------------------------------------------------------------------------
(* The host. *)

\* The host's part of TypeOK.
HostTypes ==
  /\ vms \in Seq(VirtualMachine) /\ Len(vms) <= MaxMachines
  /\ migrations \in Seq(Migration) /\ Len(migrations) <= MaxMigrations
  /\ used_host_memory \in 0..HostMemory /\ remigrated \in BOOLEAN

\* Until a machine is migrated twice at a time, the state on record is never
\* MIGRATING, and a machine in that state is the one its id finds and has an
\* active migration: so cancelling finds machine and record together.
Tracked(list, records) ==
  /\ \A m \in 1..Len(records) : records[m].source_state # "MIGRATING"
  /\ \A i \in 1..Len(list) : list[i].state = "MIGRATING" =>
       /\ \A j \in 1..(i - 1) : list[j].vm_id # list[i].vm_id
       /\ \E m \in 1..Len(records) : records[m].vm_id = list[i].vm_id /\ records[m].is_active

\* The invariant of the host: the machine with the oldest of several equal ids is
\* the one all calls find, which Tracked needs, and no machine is larger than the
\* sum HostMemoryExact bounds, which HostTypes needs.
HostInv == HostTypes /\ HostMemoryExact /\ (remigrated \/ Tracked(vms, migrations))

\* What virt_get_vm finds.
LEMMA Found ==
  ASSUME HostTypes, NEW id, NEW i \in virt_get_vm(id)
  PROVE  /\ i \in 1..Len(vms) /\ i \in Nat /\ vms[i].vm_id = id /\ id \in 1..MaxMachines
         /\ \A j \in 1..(i - 1) : vms[j].vm_id # id
         /\ vms[i].memory \in Nat /\ vms[i].state \in VmState /\ vms[i] \in VirtualMachine
<1>1. i \in 1..Len(vms) /\ vms[i].vm_id = id /\ \A j \in 1..(i - 1) : vms[j].vm_id # id
  BY Machines DEF virt_get_vm, HostTypes
<1> QED BY <1>1, Machines DEF HostTypes

\* Assigning to one machine leaves a list of machines.
LEMMA Assigned ==
  ASSUME NEW list \in Seq(VirtualMachine), NEW i \in 1..Len(list)
  PROVE  /\ \A state \in VmState :
              LET new == [list EXCEPT ![i].state = state]
              IN  /\ new \in Seq(VirtualMachine) /\ Len(new) = Len(list)
                  /\ \A k \in 1..Len(list) :
                       /\ new[k].memory = list[k].memory /\ new[k].vm_id = list[k].vm_id
                       /\ new[k].state = IF k = i THEN state ELSE list[k].state
         /\ \A memory \in 0..HostMemory :
              LET new == [list EXCEPT ![i].memory = memory]
              IN  /\ new \in Seq(VirtualMachine) /\ Len(new) = Len(list)
                  /\ \A k \in 1..Len(list) :
                       /\ new[k].state = list[k].state /\ new[k].vm_id = list[k].vm_id
                       /\ new[k].memory = IF k = i THEN memory ELSE list[k].memory
<1>1. list[i] \in VirtualMachine /\ DOMAIN list = 1..Len(list) BY Machines
<1>2. ASSUME NEW vm \in VirtualMachine
      PROVE  LET new == [list EXCEPT ![i] = vm]
             IN  /\ new \in Seq(VirtualMachine) /\ Len(new) = Len(list)
                 /\ \A k \in 1..Len(list) : new[k] = IF k = i THEN vm ELSE list[k]
  OBVIOUS
<1>3. ASSUME NEW state \in VmState
      PROVE  LET vm == [list[i] EXCEPT !.state = state]
             IN  vm \in VirtualMachine /\ vm.state = state /\ vm.memory = list[i].memory /\ vm.vm_id = list[i].vm_id
  BY <1>1 DEF VirtualMachine
<1>4. ASSUME NEW memory \in 0..HostMemory
      PROVE  LET vm == [list[i] EXCEPT !.memory = memory]
             IN  vm \in VirtualMachine /\ vm.memory = memory /\ vm.state = list[i].state /\ vm.vm_id = list[i].vm_id
  BY Zenon, <1>1 DEF VirtualMachine
<1>5. ASSUME NEW state \in VmState
      PROVE  LET new == [list EXCEPT ![i].state = state]
              IN  /\ new \in Seq(VirtualMachine) /\ Len(new) = Len(list)
                  /\ \A k \in 1..Len(list) :
                       /\ new[k].memory = list[k].memory /\ new[k].vm_id = list[k].vm_id
                       /\ new[k].state = IF k = i THEN state ELSE list[k].state
  <2> DEFINE vm == [list[i] EXCEPT !.state = state]
             new == [list EXCEPT ![i] = vm]
  <2>1. new = [list EXCEPT ![i].state = state] OBVIOUS
  <2>2. vm \in VirtualMachine /\ vm.state = state /\ vm.memory = list[i].memory /\ vm.vm_id = list[i].vm_id BY <1>3
  <2> HIDE DEF vm
  <2>3. /\ new \in Seq(VirtualMachine) /\ Len(new) = Len(list)
        /\ \A k \in 1..Len(list) : new[k] = IF k = i THEN vm ELSE list[k] BY <1>2, <2>2
  <2> HIDE DEF new
  <2> QED BY <2>1, <2>2, <2>3
<1>6. ASSUME NEW memory \in 0..HostMemory
      PROVE  LET new == [list EXCEPT ![i].memory = memory]
              IN  /\ new \in Seq(VirtualMachine) /\ Len(new) = Len(list)
                  /\ \A k \in 1..Len(list) :
                       /\ new[k].state = list[k].state /\ new[k].vm_id = list[k].vm_id
                       /\ new[k].memory = IF k = i THEN memory ELSE list[k].memory
  <2> DEFINE vm == [list[i] EXCEPT !.memory = memory]
             new == [list EXCEPT ![i] = vm]
  <2>1. new = [list EXCEPT ![i].memory = memory] OBVIOUS
  <2>2. vm \in VirtualMachine /\ vm.state = list[i].state /\ vm.memory = memory /\ vm.vm_id = list[i].vm_id BY <1>4
  <2> HIDE DEF vm
  <2>3. /\ new \in Seq(VirtualMachine) /\ Len(new) = Len(list)
        /\ \A k \in 1..Len(list) : new[k] = IF k = i THEN vm ELSE list[k] BY <1>2, <2>2
  <2> HIDE DEF new
  <2> QED BY <2>1, <2>2, <2>3
<1> QED BY <1>5, <1>6

\* A new machine is stopped, and no machine before it loses its id.
LEMMA CreateKeeps ==
  ASSUME HostInv, NEW memory \in 0..MaxVmMemory, virt_create_vm(memory)
  PROVE  HostInv'
<1> DEFINE vm == [vm_id |-> Len(vms) + 1, state |-> "STOPPED", memory |-> memory]
           L == Len(vms)
<1>1. /\ L \in Nat /\ L < MaxMachines /\ vms' = Append(vms, vm) /\ memory \in Nat
      /\ used_host_memory \in Nat /\ used_host_memory + memory <= HostMemory /\ used_host_memory' = used_host_memory + memory
      /\ migrations' = migrations /\ remigrated' = remigrated
  BY HostAssumption DEF virt_create_vm, HostInv, HostTypes
<1>2. vm \in VirtualMachine BY <1>1, HostAssumption DEF VirtualMachine, VmState
<1>3. vm.state = "STOPPED" /\ vm.memory = memory OBVIOUS
<1> HIDE DEF vm
<1>4. vms' \in Seq(VirtualMachine) /\ Len(vms') = L + 1 BY <1>1, <1>2 DEF HostInv, HostTypes
<1>5. \A k \in 1..(L + 1) : vms'[k] = IF k = L + 1 THEN vm ELSE vms[k] BY <1>1 DEF HostInv, HostTypes
<1>6. HostTypes' BY <1>1, <1>4, HostAssumption DEF HostInv, HostTypes
<1>7. MemoryOf(vms') = MemoryOf(vms) + memory BY <1>1, <1>2, <1>3, MemoryAppended DEF HostInv, HostTypes
<1>8. HostMemoryExact' BY <1>1, <1>7 DEF HostInv, HostMemoryExact
<1>9. Tracked(vms, migrations) => Tracked(vms', migrations)
  <2> SUFFICES ASSUME Tracked(vms, migrations), NEW i \in 1..(L + 1), vms'[i].state = "MIGRATING"
               PROVE  /\ \A j \in 1..(i - 1) : vms'[j].vm_id # vms'[i].vm_id
                      /\ \E m \in 1..Len(migrations) : migrations[m].vm_id = vms'[i].vm_id /\ migrations[m].is_active
    BY <1>4 DEF Tracked
  <2>1. i # L + 1 BY <1>3, <1>5
  <2>2. i \in 1..L /\ vms'[i] = vms[i] /\ \A j \in 1..(i - 1) : j \in 1..L /\ vms'[j] = vms[j] BY <1>1, <1>5, <2>1
  <2>3. /\ \A j \in 1..(i - 1) : vms[j].vm_id # vms[i].vm_id
        /\ \E m \in 1..Len(migrations) : migrations[m].vm_id = vms[i].vm_id /\ migrations[m].is_active
    BY <2>2 DEF Tracked
  <2> QED BY <2>2, <2>3
<1> QED BY <1>1, <1>6, <1>8, <1>9 DEF HostInv

\* The machine that is deleted is the first with its id; those behind it that
\* migrate have other ids and stay the first with theirs.
LEMMA DeleteKeeps ==
  ASSUME HostInv, NEW id \in 1..MaxMachines, virt_delete_vm(id)
  PROVE  HostInv'
<1>1. PICK i \in virt_get_vm(id) :
        /\ used_host_memory' = used_host_memory - vms[i].memory /\ vms' = Without(vms, i)
        /\ migrations' = migrations /\ remigrated' = remigrated
  BY DEF virt_delete_vm
<1> DEFINE L == Len(vms)
<1>2. i \in 1..L /\ i \in Nat /\ L \in Nat /\ vms \in Seq(VirtualMachine) /\ vms[i].memory \in Nat BY Found DEF HostInv, HostTypes
<1>3. /\ vms' \in Seq(VirtualMachine) /\ Len(vms') = L - 1
      /\ \A k \in 1..(L - 1) : vms'[k] = IF k < i THEN vms[k] ELSE vms[k + 1]
  BY Zenon, <1>1, <1>2, WithoutIs
<1>4. MemoryOf(vms') = MemoryOf(vms) - vms[i].memory /\ MemoryOf(vms) \in Nat /\ vms[i].memory <= MemoryOf(vms)
  BY <1>1, <1>2, MemoryWithout
<1>5. HostTypes' BY <1>1, <1>2, <1>3, <1>4, HostAssumption DEF HostInv, HostTypes, HostMemoryExact
<1>6. HostMemoryExact' BY <1>1, <1>2, <1>4, HostAssumption DEF HostInv, HostMemoryExact
<1>7. Tracked(vms, migrations) => Tracked(vms', migrations)
  <2> SUFFICES ASSUME Tracked(vms, migrations), NEW k \in 1..(L - 1), vms'[k].state = "MIGRATING"
               PROVE  /\ \A j \in 1..(k - 1) : vms'[j].vm_id # vms'[k].vm_id
                      /\ \E m \in 1..Len(migrations) : migrations[m].vm_id = vms'[k].vm_id /\ migrations[m].is_active
    BY <1>3 DEF Tracked
  <2> DEFINE old(p) == IF p < i THEN p ELSE p + 1
  <2>1. \A p \in 1..(L - 1) : old(p) \in 1..L /\ vms'[p] = vms[old(p)] BY <1>2, <1>3
  <2>2. \A j \in 1..(k - 1) : j \in 1..(L - 1) /\ old(j) \in 1..(old(k) - 1) BY <1>2
  <2> HIDE DEF old
  <2>3. /\ \A j \in 1..(old(k) - 1) : vms[j].vm_id # vms[old(k)].vm_id
        /\ \E m \in 1..Len(migrations) : migrations[m].vm_id = vms[old(k)].vm_id /\ migrations[m].is_active
    BY Zenon, <2>1 DEF Tracked
  <2> QED BY Zenon, <2>1, <2>2, <2>3
<1> QED BY <1>1, <1>5, <1>6, <1>7 DEF HostInv

\* A machine that is started, stopped, paused or resumed does not enter MIGRATING.
LEMMA SwitchKeeps ==
  ASSUME HostInv, NEW id \in 1..MaxMachines, NEW from, NEW to \in VmState \ {"MIGRATING"}, Switch(id, from, to)
  PROVE  HostInv'
<1>1. PICK i \in virt_get_vm(id) :
        vms' = [vms EXCEPT ![i].state = to] /\ UNCHANGED <<used_host_memory, migrations, remigrated>>
  BY Zenon DEF Switch
<1>2. i \in 1..Len(vms) /\ vms \in Seq(VirtualMachine) BY Found DEF HostInv, HostTypes
<1>3. /\ vms' \in Seq(VirtualMachine) /\ Len(vms') = Len(vms)
      /\ \A k \in 1..Len(vms) : /\ vms'[k].memory = vms[k].memory /\ vms'[k].vm_id = vms[k].vm_id
                                /\ vms'[k].state = IF k = i THEN to ELSE vms[k].state
  BY <1>1, <1>2, Assigned
<1>4. MemoryOf(vms') = MemoryOf(vms) - vms[i].memory + vms'[i].memory /\ MemoryOf(vms) \in Nat /\ vms[i].memory \in Nat
  BY <1>2, <1>3, MemoryReplaced, MemoryWithout, Machines
<1>5. MemoryOf(vms') = MemoryOf(vms) BY <1>2, <1>3, <1>4
<1>6. HostTypes' /\ HostMemoryExact' BY <1>1, <1>3, <1>5 DEF HostInv, HostTypes, HostMemoryExact
<1>7. Tracked(vms, migrations) => Tracked(vms', migrations)
  <2> SUFFICES ASSUME Tracked(vms, migrations), NEW k \in 1..Len(vms), vms'[k].state = "MIGRATING"
               PROVE  /\ \A j \in 1..(k - 1) : vms'[j].vm_id # vms'[k].vm_id
                      /\ \E m \in 1..Len(migrations) : migrations[m].vm_id = vms'[k].vm_id /\ migrations[m].is_active
    BY <1>3 DEF Tracked
  <2>1. vms[k].state = "MIGRATING" BY <1>3
  <2>2. \A j \in 1..(k - 1) : j \in 1..Len(vms) BY Machines, <1>2
  <2> QED BY <1>3, <2>1, <2>2 DEF Tracked
<1> QED BY <1>1, <1>6, <1>7 DEF HostInv

\* A machine changes its size and nothing else.
LEMMA ResizeKeeps ==
  ASSUME HostInv, NEW id \in 1..MaxMachines, NEW amount \in Nat,
         virt_allocate_memory(id, amount) \/ virt_deallocate_memory(id, amount)
  PROVE  HostInv'
<1>1. PICK i \in virt_get_vm(id), memory \in Int :
        /\ \/ memory = vms[i].memory + amount /\ used_host_memory - vms[i].memory + vms[i].memory + amount <= HostMemory
           \/ memory = vms[i].memory - amount /\ vms[i].memory >= amount
        /\ Resized(i, memory) /\ UNCHANGED <<migrations, remigrated>>
  <2>1. \A i \in virt_get_vm(id) : vms[i].memory \in Nat BY Found DEF HostInv
  <2> QED BY <2>1 DEF virt_allocate_memory, virt_deallocate_memory
<1>2. /\ i \in 1..Len(vms) /\ vms \in Seq(VirtualMachine) /\ vms[i].memory \in Nat
      /\ used_host_memory \in Nat /\ used_host_memory <= HostMemory /\ HostMemory \in Nat
  BY Found, HostAssumption DEF HostInv, HostTypes
<1>3. MemoryOf(vms) \in Nat /\ vms[i].memory <= MemoryOf(vms) /\ used_host_memory = MemoryOf(vms)
  BY <1>2, MemoryWithout DEF HostInv, HostMemoryExact
<1>4. memory \in 0..HostMemory /\ used_host_memory - vms[i].memory + memory \in 0..HostMemory
  <2> DEFINE old == vms[i].memory
             used == used_host_memory
  <2>1. \/ memory = old + amount /\ used - old + old + amount <= HostMemory
        \/ memory = old - amount /\ old >= amount
    BY <1>1
  <2>2. old \in Nat /\ used \in Nat /\ old <= used /\ used <= HostMemory BY <1>2, <1>3
  <2> HIDE DEF old, used
  <2>3. memory \in 0..HostMemory /\ used - old + memory \in 0..HostMemory
    <3>1. HostMemory \in Nat BY HostAssumption
    <3>2. CASE memory = old + amount /\ used - old + old + amount <= HostMemory BY <2>2, <3>1, <3>2
    <3>3. CASE memory = old - amount /\ old >= amount BY <2>2, <3>1, <3>3
    <3> QED BY <2>1, <3>2, <3>3
  <2> QED BY <2>3 DEF old, used
<1>5. vms' = [vms EXCEPT ![i].memory = memory] /\ used_host_memory' = used_host_memory - vms[i].memory + memory
  BY <1>1 DEF Resized
<1>6. /\ vms' \in Seq(VirtualMachine) /\ Len(vms') = Len(vms)
      /\ \A k \in 1..Len(vms) : /\ vms'[k].state = vms[k].state /\ vms'[k].vm_id = vms[k].vm_id
                                /\ vms'[k].memory = IF k = i THEN memory ELSE vms[k].memory
  <2>1. memory \in 0..HostMemory BY <1>4
  <2> QED BY <1>2, <1>5, <2>1, Assigned
<1>7. MemoryOf(vms') = MemoryOf(vms) - vms[i].memory + vms'[i].memory BY <1>2, <1>6, MemoryReplaced
<1>8. HostTypes' BY <1>1, <1>4, <1>5, <1>6 DEF HostInv, HostTypes
<1>9. HostMemoryExact' BY <1>2, <1>3, <1>4, <1>5, <1>6, <1>7 DEF HostMemoryExact
<1>10. Tracked(vms, migrations) => Tracked(vms', migrations)
  <2> SUFFICES ASSUME Tracked(vms, migrations), NEW k \in 1..Len(vms), vms'[k].state = "MIGRATING"
               PROVE  /\ \A j \in 1..(k - 1) : vms'[j].vm_id # vms'[k].vm_id
                      /\ \E m \in 1..Len(migrations) : migrations[m].vm_id = vms'[k].vm_id /\ migrations[m].is_active
    BY <1>6 DEF Tracked
  <2>1. \A j \in 1..(k - 1) : j \in 1..Len(vms) BY Machines, <1>2
  <2> QED BY <1>6, <2>1 DEF Tracked
<1> QED BY <1>1, <1>8, <1>9, <1>10 DEF HostInv

\* A migration puts its machine, the first with the id, into MIGRATING and the
\* state it had on record, unless it was in MIGRATING already.
LEMMA MigrateKeeps ==
  ASSUME HostInv, NEW id \in 1..MaxMachines, virt_migrate_vm(id)
  PROVE  HostInv'
<1> DEFINE L == Len(migrations)
<1>1. PICK i \in virt_get_vm(id) :
        /\ migrations' = Append(migrations, [vm_id |-> id, source_state |-> vms[i].state, is_active |-> TRUE])
        /\ vms' = [vms EXCEPT ![i].state = "MIGRATING"]
        /\ remigrated' = (remigrated \/ vms[i].state = "MIGRATING")
  BY Zenon DEF virt_migrate_vm, Saved
<1>2. used_host_memory' = used_host_memory /\ L < MaxMigrations BY DEF virt_migrate_vm
<1>3. /\ i \in 1..Len(vms) /\ i \in Nat /\ vms \in Seq(VirtualMachine) /\ vms[i].state \in VmState /\ vms[i].vm_id = id
      /\ \A j \in 1..(i - 1) : vms[j].vm_id # id
  BY Found DEF HostInv, HostTypes
<1>4. /\ vms' \in Seq(VirtualMachine) /\ Len(vms') = Len(vms)
      /\ \A k \in 1..Len(vms) : /\ vms'[k].memory = vms[k].memory /\ vms'[k].vm_id = vms[k].vm_id
                                /\ vms'[k].state = IF k = i THEN "MIGRATING" ELSE vms[k].state
  <2>1. "MIGRATING" \in VmState BY DEF VmState
  <2> QED BY <1>1, <1>3, <2>1, Assigned
<1> DEFINE record == [vm_id |-> id, source_state |-> vms[i].state, is_active |-> TRUE]
<1>5. record \in Migration BY <1>3 DEF Migration
<1>6. record.vm_id = id /\ record.source_state = vms[i].state /\ record.is_active OBVIOUS
<1>7. migrations' = Append(migrations, record) BY <1>1
<1> HIDE DEF record
<1>8. /\ L \in Nat /\ migrations' \in Seq(Migration) /\ Len(migrations') = L + 1
      /\ \A m \in 1..(L + 1) : migrations'[m] = IF m = L + 1 THEN record ELSE migrations[m]
  BY <1>5, <1>7 DEF HostInv, HostTypes
<1>9. MemoryOf(vms') = MemoryOf(vms)
  <2>1. MemoryOf(vms') = MemoryOf(vms) - vms[i].memory + vms'[i].memory /\ MemoryOf(vms) \in Nat /\ vms[i].memory \in Nat
    BY <1>3, <1>4, MemoryReplaced, MemoryWithout, Machines
  <2> QED BY <1>3, <1>4, <2>1
<1>10. HostTypes' BY <1>1, <1>2, <1>4, <1>8, HostAssumption DEF HostInv, HostTypes
<1>11. HostMemoryExact' BY <1>2, <1>9 DEF HostInv, HostMemoryExact
<1>12. ASSUME Tracked(vms, migrations), vms[i].state # "MIGRATING" PROVE Tracked(vms', migrations')
  <2>1. ASSUME NEW m \in 1..(L + 1) PROVE migrations'[m].source_state # "MIGRATING"
    <3>1. CASE m = L + 1 BY <1>6, <1>8, <1>12, <3>1
    <3>2. CASE m # L + 1
      <4>1. m \in 1..L /\ migrations'[m] = migrations[m] BY <1>8, <3>2
      <4> QED BY <1>12, <4>1 DEF Tracked
    <3> QED BY <3>1, <3>2
  <2>2. ASSUME NEW k \in 1..Len(vms), vms'[k].state = "MIGRATING"
        PROVE  /\ \A j \in 1..(k - 1) : vms'[j].vm_id # vms'[k].vm_id
               /\ \E m \in 1..(L + 1) : migrations'[m].vm_id = vms'[k].vm_id /\ migrations'[m].is_active
    <3>1. \A j \in 1..(k - 1) : j \in 1..Len(vms) BY Machines, <1>3
    <3>2. CASE k = i
      <4>1. migrations'[L + 1] = record /\ L + 1 \in 1..(L + 1) BY <1>8
      <4> QED BY <1>3, <1>4, <1>6, <3>1, <3>2, <4>1
    <3>3. CASE k # i
      <4>1. vms[k].state = "MIGRATING" BY <1>4, <2>2, <3>3
      <4>2. PICK m \in 1..L : migrations[m].vm_id = vms[k].vm_id /\ migrations[m].is_active BY <1>12, <4>1 DEF Tracked
      <4>3. m \in 1..(L + 1) /\ migrations'[m] = migrations[m] BY <1>8
      <4>4. \A j \in 1..(k - 1) : vms[j].vm_id # vms[k].vm_id BY <1>12, <4>1 DEF Tracked
      <4> QED BY <1>4, <3>1, <4>2, <4>3, <4>4
    <3> QED BY <3>2, <3>3
  <2> QED BY <1>4, <1>8, <2>1, <2>2 DEF Tracked
<1> QED BY Zenon, <1>1, <1>10, <1>11, <1>12 DEF HostInv

\* A record has the types of its fields.
LEMMA Records ==
  ASSUME HostTypes
  PROVE  /\ Len(migrations) \in Nat /\ DOMAIN migrations = 1..Len(migrations)
         /\ \A m \in 1..Len(migrations) : migrations[m] \in Migration /\ migrations[m].source_state \in VmState
<1>1. \A m \in 1..Len(migrations) : migrations[m] \in Migration BY DEF HostTypes
<1>2. \A r \in Migration : r.source_state \in VmState BY DEF Migration
<1> QED BY <1>1, <1>2 DEF HostTypes

\* The oldest active migration of the id ends; the machine of that id leaves
\* MIGRATING, and the others that migrate have other ids.
LEMMA CancelKeeps ==
  ASSUME HostInv, NEW id \in 1..MaxMachines, virt_cancel_migration(id)
  PROVE  HostInv'
<1> DEFINE L == Len(migrations)
           found == virt_get_vm(id)
<1>1. PICK m \in DOMAIN migrations :
        /\ migrations[m].vm_id = id /\ migrations[m].is_active
        /\ migrations' = [migrations EXCEPT ![m].is_active = FALSE]
        /\ vms' = [i \in DOMAIN vms |-> IF i \in found THEN [vms[i] EXCEPT !.state = migrations[m].source_state] ELSE vms[i]]
        /\ UNCHANGED <<used_host_memory, remigrated>>
  BY Zenon DEF virt_cancel_migration
<1>2. /\ m \in 1..L /\ L \in Nat /\ migrations[m] \in Migration /\ migrations[m].source_state \in VmState
      /\ migrations \in Seq(Migration) /\ vms \in Seq(VirtualMachine)
  BY Records DEF HostInv, HostTypes
<1>3. /\ migrations' \in Seq(Migration) /\ Len(migrations') = L
      /\ \A n \in 1..L : /\ migrations'[n].source_state = migrations[n].source_state /\ migrations'[n].vm_id = migrations[n].vm_id
                         /\ n # m => migrations'[n].is_active = migrations[n].is_active
  <2> DEFINE record == [migrations[m] EXCEPT !.is_active = FALSE]
  <2>1. record \in Migration /\ record.source_state = migrations[m].source_state /\ record.vm_id = migrations[m].vm_id
    BY Zenon, <1>2 DEF Migration
  <2>2. migrations' = [migrations EXCEPT ![m] = record] BY <1>1
  <2> HIDE DEF record
  <2> QED BY <1>2, <2>1, <2>2
<1>4. /\ vms' \in Seq(VirtualMachine) /\ Len(vms') = Len(vms)
      /\ \A k \in 1..Len(vms) : /\ vms'[k].memory = vms[k].memory /\ vms'[k].vm_id = vms[k].vm_id
                                /\ vms'[k].state = IF k \in found THEN migrations[m].source_state ELSE vms[k].state
  <2> DEFINE source == migrations[m].source_state
  <2>1. source \in VmState /\ source = migrations[m].source_state BY <1>2
  <2> HIDE DEF source, found
  <2>2. vms' = [k \in 1..Len(vms) |-> IF k \in found THEN [vms[k] EXCEPT !.state = source] ELSE vms[k]]
    <3>1. DOMAIN vms = 1..Len(vms) BY <1>2
    <3> QED BY <1>1, <3>1, Zenon DEF source, found
  <2>3. ASSUME NEW k \in 1..Len(vms)
        PROVE  /\ vms'[k] \in VirtualMachine /\ vms'[k].memory = vms[k].memory /\ vms'[k].vm_id = vms[k].vm_id
               /\ vms'[k].state = IF k \in found THEN migrations[m].source_state ELSE vms[k].state
    <3>1. vms[k] \in VirtualMachine BY <1>2
    <3>2. vms'[k] = IF k \in found THEN [vms[k] EXCEPT !.state = source] ELSE vms[k] BY <2>2
    <3> QED BY Zenon, <1>2, <2>1, <3>1, <3>2 DEF VirtualMachine
  <2>4. vms' \in [1..Len(vms) -> VirtualMachine] BY <2>2, <2>3
  <2>5. vms' \in Seq(VirtualMachine) /\ Len(vms') = Len(vms) BY <1>2, <2>4
  <2> QED BY <2>3, <2>5
<1>5. MemoryOf(vms') = MemoryOf(vms)
  <2>1. CASE Len(vms) = 0
    <3>1. vms = << >> /\ vms' = << >> BY <1>2, <1>4, <2>1
    <3> QED BY <3>1
  <2>2. CASE Len(vms) # 0
    <3>1. 1 \in 1..Len(vms) BY <1>2, <2>2
    <3>2. \A k \in 1..Len(vms) : k # 1 => vms'[k].memory = vms[k].memory BY <1>4
    <3>3. MemoryOf(vms') = MemoryOf(vms) - vms[1].memory + vms'[1].memory BY <1>2, <1>4, <3>1, <3>2, MemoryReplaced
    <3>4. MemoryOf(vms) \in Nat /\ vms[1].memory \in Nat BY <1>2, <3>1, MemoryWithout, Machines
    <3> QED BY <1>4, <3>1, <3>3, <3>4
  <2> QED BY <2>1, <2>2
<1>6. HostTypes' BY <1>1, <1>3, <1>4 DEF HostInv, HostTypes
<1>7. HostMemoryExact' BY <1>1, <1>5 DEF HostInv, HostMemoryExact
<1>8. ASSUME Tracked(vms, migrations) PROVE Tracked(vms', migrations')
  <2>1. ASSUME NEW n \in 1..L PROVE migrations'[n].source_state # "MIGRATING" BY <1>3, <1>8 DEF Tracked
  <2>2. ASSUME NEW k \in 1..Len(vms), vms'[k].state = "MIGRATING"
        PROVE  /\ \A j \in 1..(k - 1) : vms'[j].vm_id # vms'[k].vm_id
               /\ \E n \in 1..L : migrations'[n].vm_id = vms'[k].vm_id /\ migrations'[n].is_active
    <3>1. migrations[m].source_state # "MIGRATING" BY <1>2, <1>8 DEF Tracked
    <3>2. k \notin found /\ vms[k].state = "MIGRATING" BY <1>4, <2>2, <3>1
    <3>3. \A j \in 1..(k - 1) : vms[j].vm_id # vms[k].vm_id BY <1>8, <3>2 DEF Tracked
    <3>4. vms[k].vm_id # id
      <4>1. DOMAIN vms = 1..Len(vms) BY <1>2
      <4> QED BY <3>2, <3>3, <4>1 DEF virt_get_vm
    <3>5. PICK n \in 1..L : migrations[n].vm_id = vms[k].vm_id /\ migrations[n].is_active BY <1>8, <3>2 DEF Tracked
    <3>6. n # m BY <1>1, <3>4, <3>5
    <3>7. \A j \in 1..(k - 1) : j \in 1..Len(vms) BY Machines, <1>2
    <3> QED BY Zenon, <1>3, <1>4, <3>3, <3>5, <3>6, <3>7
  <2> QED BY <1>3, <1>4, <2>1, <2>2 DEF Tracked
<1> QED BY <1>1, <1>6, <1>7, <1>8 DEF HostInv

\* Every call of the host keeps its invariant.
LEMMA HostStep ==
  ASSUME HostInv, HostNext
  PROVE  HostInv'
<1>1. ASSUME NEW id \in 1..MaxMachines, virt_start_vm(id) \/ virt_stop_vm(id) \/ virt_pause_vm(id) \/ virt_resume_vm(id)
      PROVE  HostInv'
  <2>1. "RUNNING" \in VmState \ {"MIGRATING"} /\ "STOPPED" \in VmState \ {"MIGRATING"} /\ "PAUSED" \in VmState \ {"MIGRATING"}
    BY DEF VmState
  <2>2. \E from : \E to \in VmState \ {"MIGRATING"} : Switch(id, from, to)
    BY <1>1, <2>1 DEF virt_start_vm, virt_stop_vm, virt_pause_vm, virt_resume_vm
  <2> QED BY <2>2, SwitchKeeps
<1>2. \A memory \in 0..MaxVmMemory : memory \in Nat BY HostAssumption
<1> QED BY <1>1, <1>2, CreateKeeps, DeleteKeeps, ResizeKeeps, MigrateKeeps, CancelKeeps DEF HostNext

-----------------------------------------------------------------------------
(* The lifecycle manager. *)

\* A job that was not started has moved nothing.
JobsInv ==
  /\ next_snapshot_id \in 0..MaxSnapshotId
  /\ backups \in Seq(Backup) /\ Len(backups) <= MaxBackups /\ total_backup_size \in Int
  /\ jobs \in Seq(Job) /\ Len(jobs) <= MaxJobs
  /\ \A m \in 1..Len(jobs) : jobs[m].state = "INITIATED" => ~jobs[m].transferred

\* What CarriedOutOnce and MovedIsRolledBackFirst say of a step.
JobsStep ==
  \A m \in DOMAIN jobs :
    /\ (jobs[m].state # "COMPLETED" /\ jobs'[m].state = "COMPLETED") => jobs[m].state = "INITIATED" /\ ~jobs[m].transferred
    /\ (jobs[m].state # "FAILED" /\ jobs'[m].state = "FAILED" /\ jobs[m].transferred) => jobs[m].state = "ROLLED_BACK"

\* A job moves from one state to another as its call allows.
LEMMA MoveKeeps ==
  ASSUME JobsInv, NEW m \in DOMAIN jobs,
         vm_start_migration(m) \/ vm_cancel_migration(m) \/ vm_rollback_migration(m)
  PROVE  JobsInv' /\ JobsStep
<1>1. m \in 1..Len(jobs) /\ DOMAIN jobs = 1..Len(jobs) BY DEF JobsInv
<1>2. jobs[m] \in Job BY <1>1 DEF JobsInv
<1>3. PICK from \in SUBSET MigrationState, to \in MigrationState \ {"INITIATED"} :
        /\ Move(m, from, to)
        /\ to = "COMPLETED" => from = {"INITIATED"}
        /\ to = "FAILED" => "COMPLETED" \notin from
  BY DEF vm_start_migration, vm_cancel_migration, vm_rollback_migration, MigrationState
<1> DEFINE job == [state |-> to, transferred |-> jobs[m].transferred \/ to = "COMPLETED"]
<1>4. job \in Job /\ job.state = to BY <1>2, <1>3 DEF Job
<1>5. jobs' = [jobs EXCEPT ![m] = job] /\ UNCHANGED <<next_snapshot_id, backups, total_backup_size>>
  BY <1>3 DEF Move
<1> HIDE DEF job
<1>6. /\ jobs' \in Seq(Job) /\ Len(jobs') = Len(jobs)
      /\ \A n \in 1..Len(jobs) : jobs'[n] = IF n = m THEN job ELSE jobs[n]
  BY <1>1, <1>4, <1>5 DEF JobsInv
<1>7. \A n \in 1..Len(jobs) : jobs'[n].state = "INITIATED" => ~jobs'[n].transferred
  BY <1>3, <1>4, <1>6 DEF JobsInv
<1>8. JobsInv' BY <1>5, <1>6, <1>7 DEF JobsInv
<1>9. jobs[m].state \in from /\ jobs[m].state \in MigrationState BY <1>2, <1>3 DEF Move, Job
<1>10. JobsStep
  <2> SUFFICES ASSUME NEW n \in 1..Len(jobs)
               PROVE  /\ (jobs[n].state # "COMPLETED" /\ jobs'[n].state = "COMPLETED") => jobs[n].state = "INITIATED" /\ ~jobs[n].transferred
                      /\ (jobs[n].state # "FAILED" /\ jobs'[n].state = "FAILED" /\ jobs[n].transferred) => jobs[n].state = "ROLLED_BACK"
    BY <1>1 DEF JobsStep
  <2>1. CASE n # m BY <1>6, <2>1
  <2>2. CASE n = m
    <3>1. jobs'[n].state = to BY <1>4, <1>6, <2>2
    <3>2. jobs[n].state = "INITIATED" => ~jobs[n].transferred BY DEF JobsInv
    <3> QED BY <1>3, <1>9, <2>2, <3>1, <3>2 DEF MigrationState
  <2> QED BY <2>1, <2>2
<1> QED BY <1>8, <1>10

\* So does every other call of the lifecycle manager, which moves no job.
LEMMA LifecycleStep ==
  ASSUME JobsInv, LifecycleNext
  PROVE  JobsInv' /\ JobsStep
<1>1. CASE vm_create_snapshot
  BY <1>1, LifecycleAssumption DEF vm_create_snapshot, JobsInv, JobsStep
<1>2. CASE vm_create_backup
  <2>1. IntProduct(12) \in Int BY DEF IntProduct
  <2>2. [state |-> "PENDING", data_size |-> IntProduct(12)] \in Backup BY <2>1 DEF Backup, BackupState
  <2> QED BY <1>2, <2>1, <2>2, LifecycleAssumption DEF vm_create_backup, JobsInv, JobsStep
<1>3. CASE vm_create_migration
  <2> DEFINE job == [state |-> "INITIATED", transferred |-> FALSE]
             L == Len(jobs)
  <2>1. job \in Job /\ ~job.transferred BY DEF Job, MigrationState
  <2>2. jobs' = Append(jobs, job) /\ L < MaxJobs /\ UNCHANGED <<next_snapshot_id, backups, total_backup_size>>
    BY <1>3 DEF vm_create_migration
  <2> HIDE DEF job
  <2>3. /\ L \in Nat /\ jobs' \in Seq(Job) /\ Len(jobs') = L + 1 /\ DOMAIN jobs = 1..L
        /\ \A m \in 1..(L + 1) : jobs'[m] = IF m = L + 1 THEN job ELSE jobs[m]
    BY <2>1, <2>2 DEF JobsInv
  <2>4. \A m \in 1..(L + 1) : m # L + 1 => m \in 1..L BY <2>3
  <2>5. \A m \in 1..(L + 1) : jobs'[m].state = "INITIATED" => ~jobs'[m].transferred BY <2>1, <2>3, <2>4 DEF JobsInv
  <2>6. L + 1 <= MaxJobs BY <2>2, <2>3, LifecycleAssumption
  <2>7. JobsInv' BY <2>2, <2>3, <2>5, <2>6 DEF JobsInv
  <2>8. \A m \in 1..L : jobs'[m] = jobs[m] BY <2>3
  <2> QED BY <2>3, <2>7, <2>8 DEF JobsStep
<1>4. ASSUME NEW b \in DOMAIN backups, vm_restore_backup(b) \/ vm_verify_backup(b) \/ vm_delete_backup(b)
      PROVE  JobsInv' /\ JobsStep
  <2>1. b \in 1..Len(backups) /\ backups[b] \in Backup BY DEF JobsInv
  <2>2. backups[b].data_size \in Int BY <2>1 DEF Backup
  <2>3. \A state \in BackupState : [backups[b] EXCEPT !.state = state] \in Backup BY <2>1 DEF Backup
  <2>4. "COMPLETED" \in BackupState /\ "VERIFIED" \in BackupState BY DEF BackupState
  <2>5. \/ backups' = backups
        \/ \E backup \in Backup : backups' = [backups EXCEPT ![b] = backup]
    BY <1>4, <2>3, <2>4 DEF vm_restore_backup, vm_verify_backup, vm_delete_backup
  <2>6. backups' \in Seq(Backup) /\ Len(backups') = Len(backups) BY <2>1, <2>5 DEF JobsInv
  <2>7. total_backup_size' \in Int BY <1>4, <2>2 DEF vm_restore_backup, vm_verify_backup, vm_delete_backup, JobsInv
  <2>8. UNCHANGED <<next_snapshot_id, jobs>> BY <1>4 DEF vm_restore_backup, vm_verify_backup, vm_delete_backup
  <2> QED BY <2>6, <2>7, <2>8 DEF JobsInv, JobsStep
<1> QED BY <1>1, <1>2, <1>3, <1>4, MoveKeeps DEF LifecycleNext

-----------------------------------------------------------------------------
(* All three together. *)

Finite == INSTANCE FiniteSetTheorems

\* Facts about the sizes of finite sets, for the operators LiveMigration uses.
LEMMA Sizes ==
  /\ IsFiniteSet({}) /\ Cardinality({}) = 0
  /\ \A S : IsFiniteSet(S) => Cardinality(S) \in Nat
  /\ \A S, x : IsFiniteSet(S) /\ x \notin S => Cardinality(S \cup {x}) = Cardinality(S) + 1
  /\ \A S, x : IsFiniteSet(S) /\ x \in S => IsFiniteSet(S \ {x}) /\ Cardinality(S \ {x}) = Cardinality(S) - 1
  /\ \A S : \A T \in SUBSET S : IsFiniteSet(S) => IsFiniteSet(T) /\ Cardinality(T) <= Cardinality(S)
  /\ \A n \in Nat : IsFiniteSet(1..n) /\ Cardinality(1..n) = n
<1>1. \A S : Finite!IsFiniteSet(S) <=> IsFiniteSet(S) BY DEF Finite!IsFiniteSet, IsFiniteSet
<1>2. \A S : Finite!Cardinality(S) = Cardinality(S) BY <1>1 DEF Finite!Cardinality, Cardinality
<1>3. IsFiniteSet({}) /\ Cardinality({}) = 0 BY <1>1, <1>2, Finite!FS_EmptySet
<1>4. \A S : IsFiniteSet(S) => Cardinality(S) \in Nat BY <1>1, <1>2, Finite!FS_CardinalityType
<1>5. \A S, x : IsFiniteSet(S) /\ x \notin S => Cardinality(S \cup {x}) = Cardinality(S) + 1
  BY <1>1, <1>2, Finite!FS_AddElement
<1>6. \A S, x : IsFiniteSet(S) /\ x \in S => IsFiniteSet(S \ {x}) /\ Cardinality(S \ {x}) = Cardinality(S) - 1
  BY <1>1, <1>2, Finite!FS_RemoveElement
<1>7. \A S : \A T \in SUBSET S : IsFiniteSet(S) => IsFiniteSet(T) /\ Cardinality(T) <= Cardinality(S)
  BY <1>1, <1>2, Finite!FS_Subset
<1>8. ASSUME NEW n \in Nat PROVE IsFiniteSet(1..n) /\ Cardinality(1..n) = n
  <2>1. Finite!IsFiniteSet(1..n) /\ Finite!Cardinality(1..n) = IF 1 > n THEN 0 ELSE n - 1 + 1 BY Finite!FS_Interval
  <2>2. (IF 1 > n THEN 0 ELSE n - 1 + 1) = n OBVIOUS
  <2> QED BY <1>1, <1>2, <2>1, <2>2
<1> QED BY <1>3, <1>4, <1>5, <1>6, <1>7, <1>8

\* active_migrations counts no session that is not there.
LEMMA CountStep ==
  ASSUME SlotsInv, active_migrations \in Nat, FreeSlotUsable, SessionsNext
  PROVE  active_migrations' \in Nat /\ FreeSlotUsable'
<1>1. PICK s \in Slot : SlotStep(s) BY OneSlot
<1>2. sessions' = [sessions EXCEPT ![s] = sessions'[s]] BY <1>1 DEF SlotStep
<1>3. \A t \in Slot : t # s => sessions'[t] = sessions[t] BY <1>2 DEF SlotsInv
<1>4. IsFiniteSet(Occupied) /\ Occupied \subseteq Slot
  <2>1. IsFiniteSet(Slot) BY Sizes, MigrationAssumption DEF Slot
  <2>2. Occupied \subseteq Slot BY DEF Occupied
  <2> QED BY Zenon, <2>1, <2>2, Sizes
<1>5. Cardinality(Occupied) \in Nat BY <1>4, Sizes
<1>6. CASE s \notin Occupied /\ sessions'[s] # Free /\ active_migrations' = active_migrations + 1
  <2>1. Occupied' = Occupied \cup {s} BY <1>3, <1>6 DEF Occupied
  <2>2. Cardinality(Occupied \cup {s}) = Cardinality(Occupied) + 1 BY <1>4, <1>6, Sizes
  <2> QED BY <1>5, <1>6, <2>1, <2>2 DEF FreeSlotUsable
<1>7. CASE s \in Occupied /\ sessions'[s] # Free /\ active_migrations' \in {active_migrations, Down}
  <2>1. Occupied' = Occupied BY <1>3, <1>7 DEF Occupied
  <2>2. active_migrations' \in Nat /\ active_migrations' <= active_migrations BY <1>7 DEF Down
  <2> QED BY <1>5, <2>1, <2>2 DEF FreeSlotUsable
<1>8. CASE s \in Occupied /\ sessions'[s] = Free /\ active_migrations' = Down
  <2>1. Occupied' = Occupied \ {s} BY <1>3, <1>8 DEF Occupied
  <2>2. Cardinality(Occupied \ {s}) = Cardinality(Occupied) - 1 BY <1>4, <1>8, Sizes
  <2>3. Cardinality(Occupied \ {s}) \in Nat BY <1>4, Sizes
  <2> QED BY <1>5, <1>8, <2>1, <2>2, <2>3 DEF FreeSlotUsable, Down
<1> QED BY <1>1, <1>6, <1>7, <1>8 DEF SlotStep

\* The inductive invariant.
MachinesInv == SlotsInv /\ active_migrations \in Nat /\ FreeSlotUsable /\ HostInv /\ JobsInv

\* It holds with no session, machine or job.
LEMMA MachinesInit ==
  ASSUME Init
  PROVE  MachinesInv
<1>1. SlotsInv BY DEF Init, SlotsInv, Occupied
<1>2. Occupied = {} BY DEF Init, Occupied
<1>3. active_migrations \in Nat /\ FreeSlotUsable BY <1>2, Sizes DEF Init, FreeSlotUsable
<1>4. HostInv
  <2>1. vms = << >> /\ used_host_memory = 0 /\ migrations = << >> /\ remigrated = FALSE BY DEF Init
  <2>2. MemoryOf(vms) = 0
    <3> DEFINE f == [n \in 0..0 |-> 0]
    <3>1. Len(vms) = 0 BY <2>1
    <3>2. Adds(f, vms, 0) BY DEF Adds
    <3>3. f[0] = 0 OBVIOUS
    <3> HIDE DEF f
    <3>4. Adds(f, vms, Len(vms)) /\ Len(vms) \in Nat BY <3>1, <3>2
    <3>5. MemoryOf(vms) = f[Len(vms)] BY <3>4, MemoryIs
    <3> QED BY <3>1, <3>3, <3>5
  <2>3. HostTypes
    <3>1. vms \in Seq(VirtualMachine) /\ Len(vms) = 0 BY <2>1
    <3>2. migrations \in Seq(Migration) /\ Len(migrations) = 0 BY <2>1
    <3>3. 0 \in 0..HostMemory /\ 0 <= MaxMachines /\ 0 <= MaxMigrations BY HostAssumption
    <3>4. remigrated \in BOOLEAN BY Zenon, <2>1
    <3>5. used_host_memory \in 0..HostMemory BY <2>1, <3>3
    <3>6. Len(vms) <= MaxMachines /\ Len(migrations) <= MaxMigrations BY <3>1, <3>2, <3>3
    <3> QED BY <3>1, <3>2, <3>4, <3>5, <3>6 DEF HostTypes
  <2>4. HostMemoryExact BY <2>1, <2>2, HostAssumption DEF HostMemoryExact
  <2>5. Tracked(vms, migrations) BY <2>1 DEF Tracked
  <2> QED BY <2>3, <2>4, <2>5 DEF HostInv
<1>5. JobsInv BY LifecycleAssumption DEF Init, NoJobs, JobsInv
<1> QED BY <1>1, <1>3, <1>4, <1>5 DEF MachinesInv

\* A step of one part leaves the other two as they are.
LEMMA MachinesStep ==
  ASSUME MachinesInv, [Next]_vars
  PROVE  MachinesInv' /\ JobsStep
<1>1. ASSUME UNCHANGED sessionVars PROVE (SlotsInv /\ active_migrations \in Nat /\ FreeSlotUsable)'
  BY <1>1 DEF MachinesInv, SlotsInv, FreeSlotUsable, Occupied, sessionVars
<1>2. ASSUME UNCHANGED hostVars PROVE HostInv'
  BY <1>2 DEF MachinesInv, HostInv, HostTypes, HostMemoryExact, Tracked, hostVars
<1>3. ASSUME UNCHANGED lifecycleVars PROVE JobsInv' /\ JobsStep
  BY <1>3 DEF MachinesInv, JobsInv, JobsStep, lifecycleVars
<1>4. CASE SessionsNext
  <2>1. UNCHANGED hostVars /\ UNCHANGED lifecycleVars BY <1>4 DEF SessionsNext
  <2>2. SlotsInv' BY <1>4, SlotsStep DEF MachinesInv
  <2>3. active_migrations' \in Nat /\ FreeSlotUsable' BY <1>4, CountStep DEF MachinesInv
  <2> QED BY <1>2, <1>3, <2>1, <2>2, <2>3 DEF MachinesInv
<1>5. CASE HostNext
  <2>1. UNCHANGED sessionVars /\ UNCHANGED lifecycleVars BY <1>5 DEF HostNext
  <2>2. HostInv' BY <1>5, HostStep DEF MachinesInv
  <2> QED BY <1>1, <1>3, <2>1, <2>2 DEF MachinesInv
<1>6. CASE LifecycleNext
  <2>1. UNCHANGED sessionVars /\ UNCHANGED hostVars BY <1>6 DEF LifecycleNext
  <2>2. JobsInv' /\ JobsStep BY <1>6, LifecycleStep DEF MachinesInv
  <2> QED BY <1>1, <1>2, <2>1, <2>2 DEF MachinesInv
<1>7. CASE UNCHANGED vars
  <2>1. UNCHANGED sessionVars /\ UNCHANGED hostVars /\ UNCHANGED lifecycleVars BY <1>7 DEF vars
  <2> QED BY <1>1, <1>2, <1>3, <2>1 DEF MachinesInv
<1> QED BY <1>4, <1>5, <1>6, <1>7 DEF Next

\* Every state has its types: no counter of sessions, machines, records, jobs or
\* memory leaves its range.
THEOREM MachinesTypes == Spec => []TypeOK
<1>1. Init => MachinesInv BY MachinesInit
<1>2. MachinesInv /\ [Next]_vars => MachinesInv' BY MachinesStep
<1>3. MachinesInv => TypeOK
  <2> SUFFICES ASSUME MachinesInv PROVE TypeOK OBVIOUS
  <2>1. active_migrations \in 0..MaxSessions
    <3>1. IsFiniteSet(Slot) /\ Cardinality(Slot) = MaxSessions
      BY Sizes, MigrationAssumption DEF Slot
    <3>2. Occupied \subseteq Slot BY DEF Occupied
    <3>3. Cardinality(Occupied) \in Nat /\ Cardinality(Occupied) <= MaxSessions
      BY <3>1, <3>2, Sizes
    <3> QED BY <3>3, MigrationAssumption DEF MachinesInv, FreeSlotUsable
  <2> QED BY <2>1 DEF MachinesInv, SlotsInv, HostInv, HostTypes, JobsInv, TypeOK
<1> QED BY <1>1, <1>2, <1>3, PTL DEF Spec

\* virt_create_vm, virt_delete_vm, virt_allocate_memory and virt_deallocate_memory
\* keep used_host_memory_mb equal to the memory of the machines there are, and
\* within the host's.
THEOREM HostMemoryIsExact == Spec => []HostMemoryExact
<1>1. Init => MachinesInv BY MachinesInit
<1>2. MachinesInv /\ [Next]_vars => MachinesInv' BY MachinesStep
<1>3. MachinesInv => HostMemoryExact BY DEF MachinesInv, HostInv
<1> QED BY <1>1, <1>2, <1>3, PTL DEF Spec

\* The four state properties of MigrationSound follow from the invariant.
LEMMA InvariantSuffices ==
  ASSUME MachinesInv
  PROVE  PagesConserved /\ FreeSlotUsable /\ NoDivisionByZero /\ MigrationCanBeCancelled
<1>1. ASSUME NEW s \in Occupied PROVE (sessions[s].migrated + sessions[s].remaining) % Width = TotalPages
  <2> DEFINE sum == sessions[s].migrated + sessions[s].remaining
  <2>1. sum = TotalPages \/ sum = TotalPages + Width BY DEF MachinesInv, SlotsInv, Fits
  <2>2. Width \in Nat /\ Width > 0 /\ TotalPages \in 0..(Width - 1) BY PageCounts, MigrationAssumption
  <2> HIDE DEF sum
  <2>3. sum % Width = TotalPages
    <3>1. CASE sum = TotalPages BY <2>2, <3>1, Wraps
    <3>2. CASE sum = TotalPages + Width
      <4>1. sum \in Width..(2 * Width - 1) /\ sum - Width = TotalPages BY <2>2, <3>2
      <4>2. sum % Width = sum - Width BY <2>2, <4>1, Wraps
      <4> QED BY <4>1, <4>2
    <3> QED BY <2>1, <3>1, <3>2
  <2> QED BY <2>3 DEF sum
<1>2. PagesConserved BY <1>1 DEF PagesConserved
<1>3. NoDivisionByZero BY DEF MachinesInv, SlotsInv, Fits, NoDivisionByZero
<1>4. MigrationCanBeCancelled
  <2>1. DOMAIN vms = 1..Len(vms) /\ DOMAIN migrations = 1..Len(migrations) BY DEF MachinesInv, HostInv, HostTypes
  <2> QED BY <2>1 DEF MachinesInv, HostInv, Tracked, MigrationCanBeCancelled
<1> QED BY <1>2, <1>3, <1>4 DEF MachinesInv

\* Migrations are sound in all three parts: the pages of a session add up though
\* phases repeat and remaining_pages wraps, a free session slot can be used,
\* migration_calculate_progress never divides by zero, a machine that is MIGRATING
\* can be cancelled out of it, and a job is carried out at most once and rolled
\* back before it counts as failed.
THEOREM MigrationIsSound == Spec => MigrationSound
<1>1. Init => MachinesInv BY MachinesInit
<1>2. MachinesInv /\ [Next]_vars => MachinesInv' BY MachinesStep
<1> DEFINE All == PagesConserved /\ FreeSlotUsable /\ NoDivisionByZero /\ MigrationCanBeCancelled
           Once == \A m \in DOMAIN jobs :
                     (jobs[m].state # "COMPLETED" /\ jobs'[m].state = "COMPLETED") =>
                       jobs[m].state = "INITIATED" /\ ~jobs[m].transferred
           First == \A m \in DOMAIN jobs :
                      (jobs[m].state # "FAILED" /\ jobs'[m].state = "FAILED" /\ jobs[m].transferred) =>
                        jobs[m].state = "ROLLED_BACK"
<1>3. MachinesInv => All BY InvariantSuffices
<1>4. MachinesInv /\ [Next]_vars => Once /\ First BY MachinesStep DEF JobsStep
<1>5. Spec => []All /\ [][Once]_vars /\ [][First]_vars
  <2> HIDE DEF All, Once, First
  <2> QED BY <1>1, <1>2, <1>3, <1>4, PTL DEF Spec
<1> QED BY <1>5 DEF MigrationSound, CarriedOutOnce, MovedIsRolledBackFirst

=============================================================================
