------------------------- MODULE CheckQueue_proofs -------------------------
(***************************************************************************)
(* For any number of workers and checks: CheckQueue is type correct, Wait  *)
(* leaves nothing running, the constructor's assertion holds, and the      *)
(* queue implements CheckVerdict.                                          *)
(*                                                                         *)
(* The counters are sums over all threads, so the inductive invariant says *)
(* of which sets they are the cardinalities, and that a failed check that  *)
(* is no longer pending has cleared fAllOk.                                *)
(***************************************************************************)
EXTENDS CheckQueue, FiniteSetTheorems, TLAPS

(* The elements that are not reported yet: what nTodo counts. *)
Pending == queue \cup UNION {batch[t] : t \in Threads}

(* The threads nTotal counts, and those nIdle counts. *)
Counted == {t \in Threads : \/ pc[t] \in {"wait", "woken", "work", "gone"}
                            \/ pc[t] = "lock" /\ batch[t] # {}}
Dozing == {t \in Threads : pc[t] \in {"wait", "woken", "gone"}}

(* The turn of an interrupted master is counted for ever. *)
Leak == IF Master \in interrupted THEN 1 ELSE 0

Kinds ==
    /\ queue \subseteq Checks
    /\ fAllOk \in BOOLEAN
    /\ pc \in [Threads -> {"out", "adding", "lock", "wait", "woken", "work", "gone"}]
    /\ batch \in [Threads -> SUBSET Checks]
    /\ fOk \in [Threads -> BOOLEAN]
    /\ closing \in BOOLEAN
    /\ interrupted \subseteq Threads
    /\ added \subseteq Checks
    /\ verdict \in BOOLEAN

Places ==
    /\ \A t \in Threads : pc[t] \in {"out", "adding", "wait", "woken", "gone"} => batch[t] = {}
    /\ \A t \in Threads : pc[t] = "work" => batch[t] # {}
    /\ \A t \in Threads : pc[t] \in {"out", "adding"} => t = Master
    /\ pc[Master] # "gone"

Disjoint ==
    /\ \A t \in Threads : batch[t] \cap queue = {}
    /\ \A t, u \in Threads : t # u => batch[t] \cap batch[u] = {}

Counts ==
    /\ nTodo = Cardinality(Pending)
    /\ nTotal = Cardinality(Counted) + Leak
    /\ nIdle = Cardinality(Dozing) + Leak

(* Failures are real, and no failure is forgotten. *)
Results ==
    /\ Pending \subseteq added
    /\ ~fAllOk => added \cap Bad # {}
    /\ \A t \in Threads : batch[t] # {} /\ ~fOk[t] => added \cap Bad # {}
    /\ \A t \in Threads : pc[t] = "lock" /\ batch[t] \cap Bad # {} => ~fOk[t]
    /\ pc[Master] # "out" /\ ~((added \cap Bad) \subseteq Pending) => ~fAllOk

Finished ==
    pc[Master] = "out" => Pending = {} /\ fAllOk /\ verdict = (added \cap Bad = {})

IndInv == Kinds /\ Places /\ Disjoint /\ Counts /\ Results /\ Finished
-----------------------------------------------------------------------------
(* The threads are finitely many. *)
LEMMA ThreadsFinite == IsFiniteSet(Threads)
  BY ThreadAssumption, FS_AddElement DEF Threads

(* A set without a subset has the difference of their sizes. *)
LEMMA SizeWithout ==
  ASSUME NEW S, NEW T, IsFiniteSet(S), T \subseteq S
  PROVE  Cardinality(S \ T) = Cardinality(S) - Cardinality(T)
<1>1. IsFiniteSet(T) /\ IsFiniteSet(S \ T)
  BY FS_Subset
<1>2. S = (S \ T) \cup T /\ (S \ T) \cap T = {}
  OBVIOUS
<1>3. Cardinality((S \ T) \cup T) = Cardinality(S \ T) + Cardinality(T) - Cardinality((S \ T) \cap T)
  BY <1>1, FS_Union
<1>4. Cardinality((S \ T) \cap T) = 0
  BY <1>2, FS_EmptySet
<1>5. Cardinality(S \ T) \in Nat /\ Cardinality(T) \in Nat
  BY <1>1, FS_CardinalityType
<1>6. Cardinality(S) = Cardinality(S \ T) + Cardinality(T) - 0
  BY <1>2, <1>3, <1>4
<1> QED BY <1>5, <1>6

(* A set with a disjoint one has the sum of their sizes. *)
LEMMA SizeWith ==
  ASSUME NEW S, NEW T, IsFiniteSet(S), IsFiniteSet(T), S \cap T = {}
  PROVE  Cardinality(S \cup T) = Cardinality(S) + Cardinality(T)
<1>1. Cardinality(S) \in Nat /\ Cardinality(T) \in Nat
  BY FS_CardinalityType
<1>2. Cardinality(S \cup T) = Cardinality(S) + Cardinality(T) - Cardinality(S \cap T)
  BY FS_Union
<1>3. Cardinality(S \cap T) = 0
  BY FS_EmptySet
<1> QED BY <1>1, <1>2, <1>3

(* What is pending is a finite set of checks. *)
LEMMA PendingFinite ==
  ASSUME Kinds
  PROVE  Pending \subseteq Checks /\ IsFiniteSet(Pending)
<1>1. Pending \subseteq Checks
  BY DEF Kinds, Pending
<1> QED BY <1>1, CheckAssumption, FS_Subset

(* The counted and the dozing threads are finite sets. *)
LEMMA ThreadSetsFinite == IsFiniteSet(Counted) /\ IsFiniteSet(Dozing)
  BY ThreadsFinite, FS_Subset DEF Counted, Dozing
-----------------------------------------------------------------------------
(***************************************************************************)
(* Where a turn stands when its thread has the mutex, has reported its     *)
(* batch and is not counted as idle: every turn reaches this point, and    *)
(* Proceed goes on from it.                                                *)
(***************************************************************************)
Mid(t, idle, total, allOk, todo, p) ==
    /\ pc[t] \in {"lock", "woken"}
    /\ todo = Cardinality(Pending \ batch[t])
    /\ total = Cardinality(Counted \cup {t}) + Leak
    /\ idle = Cardinality(Dozing \ {t}) + Leak
    /\ allOk \in BOOLEAN
    /\ ~allOk => added \cap Bad # {}
    /\ pc[Master] # "out" /\ ~((added \cap Bad) \subseteq (Pending \ batch[t])) => ~allOk
    /\ pc[Master] = "out" => allOk
    /\ p \in [Threads -> {"out", "adding", "lock", "wait", "woken", "work", "gone"}]
    /\ \A u \in Threads : p[u] = pc[u] \/ (pc[u] = "wait" /\ p[u] = "woken")

(* Whichever way a turn ends, the invariant holds again. *)
LEMMA ProceedInv ==
  ASSUME IndInv, NEW t \in Threads, NEW idle, NEW total, NEW allOk, NEW todo, NEW p,
         Mid(t, idle, total, allOk, todo, p),
         Proceed(t, idle, total, allOk, todo, p),
         nTodo' = todo, UNCHANGED <<closing, interrupted, added>>
  PROVE  IndInv'
<1> USE DEF Mid
<1>a. Master \in Threads
  BY DEF Threads
<1>b. pc[Master] = "out" => t # Master
  OBVIOUS
<1>c. IsFiniteSet(Pending) /\ IsFiniteSet(Pending \ batch[t])
  BY PendingFinite, FS_Subset DEF IndInv
<1>1. CASE Leave(t, idle, total, allOk, todo, p)
  <2> USE <1>1 DEF Leave, MayLeave
  <2>1. t = Master /\ Pending \ batch[t] = {}
    BY <1>c, FS_EmptySet
  <2>2. Kinds'
    BY <1>a DEF IndInv, Kinds
  <2>3. Places'
    BY <1>a, <2>1 DEF IndInv, Kinds, Places
  <2>4. Disjoint'
    BY <1>a DEF IndInv, Kinds, Disjoint
  <2>5. Pending' = {} /\ Pending' = Pending \ batch[t]
    BY <2>1, <1>a DEF IndInv, Kinds, Pending, Disjoint
  <2>6. Counts'
    <3>1. Counted' = (Counted \cup {t}) \ {t}
      BY <2>1, <2>5, <1>a DEF Counted, IndInv, Kinds, Places
    <3>2. Dozing' = Dozing \ {t}
      BY <2>1, <1>a DEF Dozing, IndInv, Kinds
    <3>3. IsFiniteSet(Counted \cup {t})
      BY ThreadSetsFinite, FS_AddElement
    <3>4. Cardinality((Counted \cup {t}) \ {t}) = Cardinality(Counted \cup {t}) - 1
      BY <3>3, FS_RemoveElement
    <3>5. Cardinality(Counted \cup {t}) \in Nat
      BY <3>3, FS_CardinalityType
    <3>6. Leak' = Leak /\ Leak \in Nat
      BY DEF Leak
    <3>7. nTotal' = Cardinality(Counted') + Leak'
      BY <3>1, <3>4, <3>5, <3>6
    <3>8. nTodo' = Cardinality(Pending') /\ nIdle' = Cardinality(Dozing') + Leak'
      BY <2>5, <3>2, <3>6
    <3> QED BY <3>7, <3>8 DEF Counts
  <2>7. Results'
    BY <2>1, <2>5, <1>a DEF IndInv, Kinds, Places, Results
  <2>8. Finished'
    BY <2>1, <2>5, <1>a DEF IndInv, Kinds, Finished, Results
  <2> QED BY <2>2, <2>3, <2>4, <2>6, <2>7, <2>8 DEF IndInv
<1>2. CASE Sleep(t, idle, total, allOk, todo, p)
  <2> USE <1>2 DEF Sleep
  <2>2. Kinds'
    BY <1>a DEF IndInv, Kinds
  <2>3. Places'
    BY <1>a DEF IndInv, Kinds, Places
  <2>4. Disjoint'
    BY <1>a DEF IndInv, Kinds, Disjoint
  <2>5. Pending' = Pending \ batch[t]
    BY <1>a DEF IndInv, Kinds, Pending, Disjoint
  <2>6. Counts'
    <3>1. Counted' = Counted \cup {t}
      BY <1>a DEF Counted, IndInv, Kinds, Places
    <3>2. Dozing' = (Dozing \ {t}) \cup {t}
      BY <1>a DEF Dozing, IndInv, Kinds
    <3>3. IsFiniteSet(Dozing \ {t})
      BY ThreadSetsFinite, FS_RemoveElement
    <3>4. Cardinality((Dozing \ {t}) \cup {t}) = Cardinality(Dozing \ {t}) + 1
      BY <3>3, FS_AddElement
    <3>5. Cardinality(Dozing \ {t}) \in Nat
      BY <3>3, FS_CardinalityType
    <3>6. Leak' = Leak /\ Leak \in Nat
      BY DEF Leak
    <3> QED BY <2>5, <3>1, <3>2, <3>4, <3>5, <3>6 DEF Counts
  <2>7. Results'
    BY <2>5, <1>a DEF IndInv, Kinds, Places, Results
  <2>8. Finished'
    BY <2>5, <1>a, <1>b DEF IndInv, Kinds, Finished
  <2> QED BY <2>2, <2>3, <2>4, <2>6, <2>7, <2>8 DEF IndInv
<1>3. CASE Take(t, idle, total, allOk, todo, p)
  <2> USE <1>3 DEF Take
  <2>1. PICK S \in SUBSET queue :
           /\ Cardinality(S) = BatchSize(Cardinality(queue), total, idle)
           /\ queue' = queue \ S
           /\ batch' = [batch EXCEPT ![t] = S]
    OBVIOUS
  <2>2. S # {}
    <3>1. Cardinality(Counted \cup {t}) \in Nat /\ Cardinality(Dozing \ {t}) \in Nat /\ Leak \in Nat
      BY ThreadSetsFinite, FS_AddElement, FS_RemoveElement, FS_CardinalityType DEF Leak
    <3>2. Cardinality(queue) \in Nat
      BY CheckAssumption, FS_Subset, FS_CardinalityType DEF IndInv, Kinds
    <3>3. total \in Nat /\ idle \in Nat
      BY <3>1
    <3>4. BatchSize(Cardinality(queue), total, idle) # 0
      BY <3>2, <3>3, BatchAssumption DEF BatchSize
    <3> QED BY <2>1, <3>4, FS_EmptySet
  <2>3. Kinds'
    BY <1>a, <2>1 DEF IndInv, Kinds
  <2>4. Places'
    BY <1>a, <2>1, <2>2 DEF IndInv, Kinds, Places
  <2>5. Disjoint'
    BY <1>a, <2>1 DEF IndInv, Kinds, Disjoint
  <2>6. Pending' = Pending \ batch[t]
    BY <1>a, <2>1 DEF IndInv, Kinds, Pending, Disjoint
  <2>7. Counts'
    <3>1. Counted' = Counted \cup {t}
      BY <1>a, <2>1 DEF Counted, IndInv, Kinds, Places
    <3>2. Dozing' = Dozing \ {t}
      BY <1>a DEF Dozing, IndInv, Kinds
    <3>3. Leak' = Leak
      BY DEF Leak
    <3> QED BY <2>6, <3>1, <3>2, <3>3 DEF Counts
  <2>8. Results'
    BY <2>1, <2>6, <1>a DEF IndInv, Kinds, Places, Results
  <2>9. Finished'
    BY <2>6, <1>a, <1>b DEF IndInv, Kinds, Finished, Pending
  <2> QED BY <2>3, <2>4, <2>5, <2>7, <2>8, <2>9 DEF IndInv
<1> QED BY <1>1, <1>2, <1>3 DEF Proceed
-----------------------------------------------------------------------------
(* The invariant holds when the queue is constructed. *)
LEMMA InitInv == Init => IndInv
<1> SUFFICES ASSUME Init PROVE IndInv
  OBVIOUS
<1>1. Kinds /\ Places /\ Disjoint
  BY ThreadAssumption DEF Init, Kinds, Places, Disjoint, Threads
<1>2. Pending = {} /\ Counted = {} /\ Dozing = {} /\ Leak = 0
  BY DEF Init, Pending, Counted, Dozing, Leak
<1>3. Counts
  BY <1>2, FS_EmptySet DEF Init, Counts
<1>4. Results /\ Finished
  BY <1>2, ThreadAssumption DEF Init, Results, Finished, Threads
<1> QED BY <1>1, <1>3, <1>4 DEF IndInv

(* The counters of the threads depend on two sets only. *)
LEMMA SameCounts ==
  ASSUME Counts, Pending' = Pending, Counted' = Counted, Dozing' = Dozing,
         UNCHANGED <<nTodo, nTotal, nIdle, interrupted>>
  PROVE  Counts'
  BY DEF Counts, Leak

(* Notified threads stay dozing, and nothing else moves. *)
LEMMA WokenSets ==
  ASSUME IndInv, NEW W \in SUBSET Waiting(Threads)
  PROVE  /\ Woken(W) \in [Threads -> {"out", "adding", "lock", "wait", "woken", "work", "gone"}]
         /\ \A u \in Threads : Woken(W)[u] = pc[u] \/ (pc[u] = "wait" /\ Woken(W)[u] = "woken")
  BY DEF IndInv, Kinds, Woken, Waiting

(* A control is constructed on a finished queue. *)
LEMMA ConstructInv == IndInv /\ Construct => IndInv'
<1> SUFFICES ASSUME IndInv, Construct PROVE IndInv'
  OBVIOUS
<1>a. Master \in Threads
  BY DEF Threads
<1>1. Pending = {} /\ Pending' = Pending /\ Counted' = Counted /\ Dozing' = Dozing
  BY <1>a DEF IndInv, Kinds, Finished, Construct, Pending, Counted, Dozing
<1>2. Counts'
  BY <1>1, SameCounts DEF IndInv, Construct
<1>3. \A t \in Threads : batch[t] = {}
  BY <1>1 DEF Pending
<1>4. Kinds' /\ Places' /\ Disjoint'
  BY <1>a DEF IndInv, Kinds, Places, Disjoint, Construct
<1>5. Results' /\ Finished'
  BY <1>a, <1>1, <1>3 DEF IndInv, Kinds, Results, Finished, Construct
<1> QED BY <1>2, <1>4, <1>5 DEF IndInv

(* Adding checks raises nTodo by their number and wakes workers only. *)
LEMMA AddInv ==
  ASSUME IndInv, NEW S \in SUBSET (Checks \ added), Add(S)
  PROVE  IndInv'
<1>a. Master \in Threads /\ Workers \subseteq Threads /\ Master \notin Workers
  BY ThreadAssumption DEF Threads
<1>1. PICK W \in NotifyWorkers(Cardinality(S)) : pc' = Woken(W)
  BY DEF Add
<1>2. W \in SUBSET Waiting(Threads) /\ Master \notin W
  BY <1>a DEF NotifyWorkers, Waiting
<1>3. /\ pc' \in [Threads -> {"out", "adding", "lock", "wait", "woken", "work", "gone"}]
      /\ \A u \in Threads : pc'[u] = pc[u] \/ (pc[u] = "wait" /\ pc'[u] = "woken")
  BY <1>1, <1>2, WokenSets
<1>4. pc'[Master] = "adding"
  BY <1>3, <1>a DEF Add
<1>5. Pending' = Pending \cup S /\ Pending \cap S = {}
  BY DEF Add, Pending, IndInv, Results
<1>6. Counted' = Counted /\ Dozing' = Dozing
  BY <1>3 DEF Add, Counted, Dozing
<1>7. Counts'
  <2>1. IsFiniteSet(S) /\ IsFiniteSet(Pending)
    BY CheckAssumption, FS_Subset, PendingFinite DEF IndInv
  <2>2. Cardinality(Pending \cup S) = Cardinality(Pending) + Cardinality(S)
    BY <2>1, <1>5, SizeWith
  <2>3. nTodo' = Cardinality(Pending')
    BY <1>5, <2>2 DEF IndInv, Counts, Add
  <2> QED BY <2>3, <1>6 DEF IndInv, Counts, Add, Leak
<1>8. Kinds' /\ Places'
  BY <1>3, <1>4 DEF Add, IndInv, Kinds, Places
<1>9. Disjoint'
  BY <1>5 DEF Add, IndInv, Kinds, Disjoint, Pending
<1>10. Results'
  BY <1>3, <1>4, <1>5 DEF Add, IndInv, Kinds, Results
<1>11. Finished'
  BY <1>4 DEF Finished
<1> QED BY <1>7, <1>8, <1>9, <1>10, <1>11 DEF IndInv

(* The master joins the workers, uncounted until its first turn. *)
LEMMA WaitInv ==
  ASSUME IndInv, NEW early \in BOOLEAN, Wait(early)
  PROVE  IndInv'
<1>a. Master \in Threads
  BY DEF Threads
<1>1. batch' = batch /\ batch[Master] = {}
  BY <1>a DEF Wait, IndInv, Kinds, Places
<1>2. Pending' = Pending /\ Counted' = Counted /\ Dozing' = Dozing
  BY <1>a, <1>1 DEF Wait, IndInv, Kinds, Pending, Counted, Dozing
<1>3. Counts'
  BY <1>2, SameCounts DEF IndInv, Wait
<1>4. Kinds' /\ Places' /\ Disjoint'
  BY <1>a, <1>1 DEF Wait, IndInv, Kinds, Places, Disjoint
<1>5. Results' /\ Finished'
  BY <1>a, <1>1, <1>2 DEF Wait, IndInv, Kinds, Results, Finished
<1> QED BY <1>3, <1>4, <1>5 DEF IndInv

(* The first turn of a thread counts it. *)
LEMMA FirstTurnInv ==
  ASSUME IndInv, NEW t \in Threads, FirstTurn(t)
  PROVE  IndInv'
<1>1. IsFiniteSet(Counted) /\ IsFiniteSet(Dozing)
  BY ThreadSetsFinite
<1>2. t \notin Counted /\ t \notin Dozing /\ Dozing \ {t} = Dozing /\ Pending \ batch[t] = Pending
  BY DEF FirstTurn, Counted, Dozing
<1>3. Cardinality(Counted \cup {t}) = Cardinality(Counted) + 1
  BY <1>1, <1>2, FS_AddElement
<1>4. Cardinality(Counted) \in Nat /\ Leak \in Nat
  BY <1>1, FS_CardinalityType DEF Leak
<1>5. nTotal + 1 = Cardinality(Counted \cup {t}) + Leak
  BY <1>3, <1>4 DEF IndInv, Counts
<1>6. Mid(t, nIdle, nTotal + 1, fAllOk, nTodo, pc)
  BY <1>2, <1>5 DEF Mid, FirstTurn, IndInv, Kinds, Counts, Results, Finished
<1> QED BY <1>6, ProceedInv DEF FirstTurn

(* A turn after a batch reports it, and a failure in it clears fAllOk. *)
LEMMA NextTurnInv ==
  ASSUME IndInv, NEW t \in Threads, NextTurn(t)
  PROVE  IndInv'
<1> DEFINE todo == nTodo - Cardinality(batch[t])
           W == NotifyMaster(t, todo)
<1>1. IsFiniteSet(Pending) /\ batch[t] \subseteq Pending
  BY PendingFinite DEF IndInv, Pending
<1>2. todo = Cardinality(Pending \ batch[t])
  BY <1>1, SizeWithout DEF IndInv, Counts
<1>3. Counted \cup {t} = Counted /\ Dozing \ {t} = Dozing
  BY DEF NextTurn, Counted, Dozing
<1>4. W \in SUBSET Waiting(Threads)
  BY DEF NotifyMaster, Waiting, Threads
<1>5. /\ Woken(W) \in [Threads -> {"out", "adding", "lock", "wait", "woken", "work", "gone"}]
      /\ \A u \in Threads : Woken(W)[u] = pc[u] \/ (pc[u] = "wait" /\ Woken(W)[u] = "woken")
  BY <1>4, WokenSets
<1>6. pc[Master] # "out"
  BY <1>1 DEF NextTurn, IndInv, Finished
<1>7. ~(fAllOk /\ fOk[t]) => added \cap Bad # {}
  BY DEF NextTurn, IndInv, Results
<1>8. ~((added \cap Bad) \subseteq (Pending \ batch[t])) => ~(fAllOk /\ fOk[t])
  BY <1>6 DEF NextTurn, IndInv, Results
<1>9. Mid(t, nIdle, nTotal, fAllOk /\ fOk[t], todo, Woken(W))
  <2>1. (fAllOk /\ fOk[t]) \in BOOLEAN
    OBVIOUS
  <2>2. nTotal = Cardinality(Counted \cup {t}) + Leak /\ nIdle = Cardinality(Dozing \ {t}) + Leak
    BY <1>3 DEF IndInv, Counts
  <2>3. pc[t] \in {"lock", "woken"}
    BY DEF NextTurn
  <2> QED BY <1>2, <1>5, <1>6, <1>7, <1>8, <2>1, <2>2, <2>3 DEF Mid
<1>10. Proceed(t, nIdle, nTotal, fAllOk /\ fOk[t], todo, Woken(W)) /\ nTodo' = todo
  BY DEF NextTurn
<1>11. UNCHANGED <<closing, interrupted, added>>
  BY DEF NextTurn
<1> HIDE DEF todo, W
<1> QED BY <1>9, <1>10, <1>11, ProceedInv

(* A turn after a wait uncounts an idle thread. *)
LEMMA ResumeInv ==
  ASSUME IndInv, NEW t \in Threads, Resume(t)
  PROVE  IndInv'
<1>1. IsFiniteSet(Counted) /\ IsFiniteSet(Dozing)
  BY ThreadSetsFinite
<1>2. t \in Dozing /\ Counted \cup {t} = Counted
  BY DEF Resume, Counted, Dozing
<1>3. Cardinality(Dozing \ {t}) = Cardinality(Dozing) - 1
  BY <1>1, <1>2, FS_RemoveElement
<1>4. Cardinality(Dozing) \in Nat /\ Leak \in Nat
  BY <1>1, FS_CardinalityType DEF Leak
<1>5. nIdle - 1 = Cardinality(Dozing \ {t}) + Leak
  BY <1>3, <1>4 DEF IndInv, Counts
<1>6. Pending \ batch[t] = Pending
  BY DEF Resume, IndInv, Places
<1>7. Mid(t, nIdle - 1, nTotal, fAllOk, nTodo, pc)
  BY <1>2, <1>5, <1>6 DEF Mid, Resume, IndInv, Kinds, Counts, Results, Finished
<1> QED BY <1>7, ProceedInv DEF Resume

(* Running a batch changes nothing but the thread's own result. *)
LEMMA WorkInv ==
  ASSUME IndInv, NEW t \in Threads, Work(t)
  PROVE  IndInv'
<1>a. pc[Master] = "out" => pc'[Master] = "out" /\ t # Master
  BY DEF Work, IndInv, Kinds, Threads
<1>b. pc'[Master] = "out" => pc[Master] = "out"
  BY DEF Work, IndInv, Kinds, Threads
<1>1. Kinds' /\ Places' /\ Disjoint'
  BY <1>a DEF Work, IndInv, Kinds, Places, Disjoint, Threads
<1>2. batch[t] # {} /\ batch[t] \subseteq Pending
  BY DEF Work, IndInv, Places, Pending
<1>3. Pending' = Pending /\ Counted' = Counted /\ Dozing' = Dozing
  BY <1>2 DEF Work, IndInv, Kinds, Pending, Counted, Dozing
<1>4. Counts'
  BY <1>3, SameCounts DEF Work, IndInv
<1>5. Results'
  BY <1>2, <1>3, <1>a, <1>b DEF Work, IndInv, Kinds, Results
<1>6. Finished'
  BY <1>3, <1>b DEF Work, IndInv, Finished
<1> QED BY <1>1, <1>4, <1>5, <1>6 DEF IndInv

(* A spurious wake-up is as harmless as a notification. *)
LEMMA SpuriousWakeInv ==
  ASSUME IndInv, NEW t \in Threads, SpuriousWake(t)
  PROVE  IndInv'
<1>1. /\ pc' \in [Threads -> {"out", "adding", "lock", "wait", "woken", "work", "gone"}]
      /\ \A u \in Threads : pc'[u] = pc[u] \/ (pc[u] = "wait" /\ pc'[u] = "woken")
  BY WokenSets DEF SpuriousWake, Waiting
<1>2. Pending' = Pending /\ Counted' = Counted /\ Dozing' = Dozing
  BY <1>1 DEF SpuriousWake, Pending, Counted, Dozing
<1>3. Counts'
  BY <1>2, SameCounts DEF SpuriousWake, IndInv
<1>4. Kinds' /\ Places' /\ Disjoint'
  BY <1>1 DEF SpuriousWake, IndInv, Kinds, Places, Disjoint, Threads
<1>5. Results' /\ Finished'
  BY <1>1, <1>2 DEF SpuriousWake, IndInv, Kinds, Results, Finished, Threads
<1> QED BY <1>3, <1>4, <1>5 DEF IndInv

(* An interrupted worker stays counted as idle; an interrupted master leaves
   its turn in both counters and starts again. *)
LEMMA InterruptInv ==
  ASSUME IndInv, NEW t \in Threads, Interrupt(t)
  PROVE  IndInv'
<1>a. Master \in Threads
  BY DEF Threads
<1>b. (pc'[Master] # "out" /\ pc[Master] # "out") \/ pc'[Master] = pc[Master]
  BY <1>a DEF Interrupt, IndInv, Kinds
<1>1. Pending' = Pending /\ batch[t] = {}
  BY DEF Interrupt, Pending, IndInv, Places
<1>2. Kinds' /\ Places' /\ Disjoint'
  BY <1>a DEF Interrupt, IndInv, Kinds, Places, Disjoint
<1>3. Results' /\ Finished'
  BY <1>a, <1>b, <1>1 DEF Interrupt, IndInv, Kinds, Results, Finished
<1>4. CASE t # Master
  <2>1. Counted' = Counted /\ Dozing' = Dozing
    BY <1>4 DEF Interrupt, Counted, Dozing, IndInv, Kinds
  <2>2. Leak' = Leak
    BY <1>4 DEF Interrupt, Leak
  <2>3. Counts'
    BY <1>1, <2>1, <2>2 DEF Interrupt, IndInv, Counts
  <2> QED BY <1>2, <1>3, <2>3 DEF IndInv
<1>5. CASE t = Master
  <2>1. Counted' = Counted \ {t} /\ Dozing' = Dozing \ {t} /\ t \in Counted /\ t \in Dozing
    BY <1>5, <1>1 DEF Interrupt, Counted, Dozing, IndInv, Kinds
  <2>2. Leak = 0 /\ Leak' = 1
    BY <1>5 DEF Interrupt, Leak
  <2>3. /\ Cardinality(Counted \ {t}) = Cardinality(Counted) - 1
        /\ Cardinality(Dozing \ {t}) = Cardinality(Dozing) - 1
    BY <2>1, ThreadSetsFinite, FS_RemoveElement
  <2>4. Cardinality(Counted) \in Nat /\ Cardinality(Dozing) \in Nat
    BY ThreadSetsFinite, FS_CardinalityType
  <2>5. /\ nTotal' = Cardinality(Counted') + Leak'
        /\ nIdle' = Cardinality(Dozing') + Leak'
    BY <2>1, <2>2, <2>3, <2>4 DEF Interrupt, IndInv, Counts
  <2>6. Counts'
    BY <1>1, <2>5 DEF Interrupt, IndInv, Counts
  <2> QED BY <1>2, <1>3, <2>6 DEF IndInv
<1> QED BY <1>4, <1>5

(* Every step keeps the invariant. *)
LEMMA NextInv == IndInv /\ [Next]_vars => IndInv'
<1> SUFFICES ASSUME IndInv, [Next]_vars PROVE IndInv'
  OBVIOUS
<1>1. CASE Construct
  BY <1>1, ConstructInv
<1>2. CASE \E S \in SUBSET (Checks \ added) : Add(S)
  BY <1>2, AddInv
<1>3. CASE \E early \in BOOLEAN : Wait(early)
  BY <1>3, WaitInv
<1>4. ASSUME NEW t \in Threads,
             FirstTurn(t) \/ NextTurn(t) \/ Resume(t) \/ Work(t) \/ SpuriousWake(t) \/ Interrupt(t)
      PROVE  IndInv'
  BY <1>4, FirstTurnInv, NextTurnInv, ResumeInv, WorkInv, SpuriousWakeInv, InterruptInv
<1>5. CASE UNCHANGED vars
  <2>1. Kinds' /\ Places' /\ Disjoint'
    BY <1>5 DEF vars, IndInv, Kinds, Places, Disjoint
  <2>2. Pending' = Pending /\ Counted' = Counted /\ Dozing' = Dozing
    BY <1>5 DEF vars, Pending, Counted, Dozing
  <2>3. Counts'
    BY <1>5, <2>2, SameCounts DEF vars, IndInv
  <2>4. Results' /\ Finished'
    BY <1>5, <2>2 DEF vars, IndInv, Results, Finished
  <2> QED BY <2>1, <2>3, <2>4 DEF IndInv
<1> QED BY <1>1, <1>2, <1>3, <1>4, <1>5 DEF Next

(* The inductive invariant holds in every state. *)
LEMMA Invariance == Spec => []IndInv
  BY InitInv, NextInv, PTL DEF Spec
-----------------------------------------------------------------------------
(***************************************************************************)
(* The counters of CCheckQueue stay within the number of threads and of    *)
(* checks: nTodo never wraps, and nIdle and nTotal never become negative.  *)
(***************************************************************************)
THEOREM CheckQueueTypeOK == Spec => []TypeOK
<1>1. IndInv => TypeOK
  <2> SUFFICES ASSUME IndInv PROVE TypeOK
    OBVIOUS
  <2>1. nTodo \in 0 .. Cardinality(Checks)
    BY PendingFinite, CheckAssumption, FS_Subset, FS_CardinalityType DEF IndInv, Counts
  <2>2. /\ Cardinality(Counted) \in 0 .. Cardinality(Threads)
        /\ Cardinality(Dozing) \in 0 .. Cardinality(Threads)
        /\ Cardinality(Threads) \in Nat
    <3>1. Counted \in SUBSET Threads /\ Dozing \in SUBSET Threads
      BY DEF Counted, Dozing
    <3>2. Cardinality(Counted) <= Cardinality(Threads) /\ Cardinality(Dozing) <= Cardinality(Threads)
      BY <3>1, ThreadsFinite, FS_Subset
    <3>3. Cardinality(Counted) \in Nat /\ Cardinality(Dozing) \in Nat /\ Cardinality(Threads) \in Nat
      BY ThreadsFinite, ThreadSetsFinite, FS_CardinalityType
    <3> QED BY <3>2, <3>3
  <2>3. Leak \in {0, 1}
    BY DEF Leak
  <2>4. nTotal \in 0 .. Cardinality(Threads) + 1 /\ nIdle \in 0 .. Cardinality(Threads) + 1
    BY <2>2, <2>3 DEF IndInv, Counts
  <2> QED BY <2>1, <2>4 DEF IndInv, Kinds, TypeOK
<1> QED BY <1>1, Invariance, PTL

(***************************************************************************)
(* ~CCheckQueueControl and Wait() leave no check queued or running, for    *)
(* any number of workers, spurious wake-ups and interruptions.             *)
(***************************************************************************)
THEOREM CheckQueueDrained == Spec => []Drained
<1>1. IndInv => Drained
  BY DEF IndInv, Finished, Pending, Places, Drained
<1> QED BY <1>1, Invariance, PTL

(***************************************************************************)
(* The assertion of CCheckQueueControl's constructor never fails.          *)
(***************************************************************************)
THEOREM CheckQueueIdle == Spec => []IdleAtStart
<1>1. IndInv => IdleAtStart
  <2> SUFFICES ASSUME IndInv, pc[Master] = "out"
               PROVE  nTotal = nIdle /\ nTodo = 0 /\ fAllOk
    BY DEF IdleAtStart
  <2>1. Pending = {} /\ fAllOk
    BY DEF IndInv, Finished
  <2>2. \A t \in Threads : batch[t] = {}
    BY <2>1 DEF Pending
  <2>3. Counted = Dozing
    BY <2>2 DEF Counted, Dozing, IndInv, Places
  <2> QED BY <2>1, <2>3, FS_EmptySet DEF IndInv, Counts
<1> QED BY <1>1, Invariance, PTL

(***************************************************************************)
(* Wait() returns the conjunction of the checks added under its control:   *)
(* CCheckQueue implements CheckVerdict.                                    *)
(***************************************************************************)
THEOREM CheckQueueImplementsVerdict == Spec => ImplementsVerdict
<1>1. Init => Verdict!AbsInit
  BY DEF Init, Verdict!AbsInit, Phase, Threads
<1>2. IndInv /\ IndInv' /\ [Next]_vars => [Verdict!AbsNext]_(Verdict!absVars)
  <2> SUFFICES ASSUME IndInv, IndInv', [Next]_vars
               PROVE  Verdict!AbsNext \/ UNCHANGED <<Phase, added, verdict>>
    BY DEF Verdict!absVars
  <2>a. Master \in Threads
    BY DEF Threads
  <2> USE DEF Phase
  <2>1. CASE Construct
    BY <2>1, <2>a DEF Construct, IndInv, Kinds, Verdict!AbsNext, Verdict!Construct
  <2>2. ASSUME NEW S \in SUBSET (Checks \ added), Add(S)
        PROVE  Verdict!AbsNext
    <3>1. \A u \in Threads : pc[u] # "wait" => pc'[u] = pc[u]
      BY <2>2, <2>a DEF Add, NotifyWorkers, Waiting, Woken, IndInv, Kinds, Threads
    <3>2. pc[Master] = "adding" /\ pc'[Master] = "adding"
      BY <2>2, <2>a, <3>1 DEF Add
    <3> QED BY <2>2, <3>2 DEF Add, Verdict!AbsNext, Verdict!Submit
  <2>3. ASSUME NEW early \in BOOLEAN, Wait(early)
        PROVE  Verdict!AbsNext
    BY <2>3, <2>a DEF Wait, IndInv, Kinds, Verdict!AbsNext, Verdict!CallWait
  <2>4. ASSUME NEW t \in Threads, NEW idle, NEW total, NEW allOk, NEW todo, NEW p,
               pc[t] \in {"lock", "woken"},
               p \in [Threads -> {"out", "adding", "lock", "wait", "woken", "work", "gone"}],
               \A u \in Threads : p[u] = pc[u] \/ (pc[u] = "wait" /\ p[u] = "woken"),
               Proceed(t, idle, total, allOk, todo, p), UNCHANGED added
        PROVE  Verdict!AbsNext \/ UNCHANGED <<Phase, added, verdict>>
    <3>1. CASE Leave(t, idle, total, allOk, todo, p)
      <4>1. pc'[Master] = "out" /\ pc[Master] \in {"lock", "woken"}
        BY <3>1, <2>4, <2>a DEF Leave, MayLeave
      <4>2. verdict' = (added \cap Bad = {})
        BY <4>1, <2>4 DEF IndInv, Finished
      <4> QED BY <4>1, <4>2, <2>4 DEF Verdict!AbsNext, Verdict!Answer
    <3>2. CASE Sleep(t, idle, total, allOk, todo, p)
      BY <3>2, <2>4, <2>a DEF Sleep
    <3>3. CASE Take(t, idle, total, allOk, todo, p)
      BY <3>3, <2>4, <2>a DEF Take
    <3> QED BY <2>4, <3>1, <3>2, <3>3 DEF Proceed
  <2>5. ASSUME NEW t \in Threads, FirstTurn(t)
        PROVE  Verdict!AbsNext \/ UNCHANGED <<Phase, added, verdict>>
    <3>1. pc \in [Threads -> {"out", "adding", "lock", "wait", "woken", "work", "gone"}]
      BY DEF IndInv, Kinds
    <3> HIDE DEF Phase
    <3> QED BY <2>4, <2>5, <3>1 DEF FirstTurn
  <2>6. ASSUME NEW t \in Threads, NextTurn(t)
        PROVE  Verdict!AbsNext \/ UNCHANGED <<Phase, added, verdict>>
    <3> DEFINE todo == nTodo - Cardinality(batch[t])
               W == NotifyMaster(t, todo)
    <3>1. W \in SUBSET Waiting(Threads)
      BY DEF NotifyMaster, Waiting, Threads
    <3>2. /\ Woken(W) \in [Threads -> {"out", "adding", "lock", "wait", "woken", "work", "gone"}]
          /\ \A u \in Threads : Woken(W)[u] = pc[u] \/ (pc[u] = "wait" /\ Woken(W)[u] = "woken")
      BY <3>1, WokenSets
    <3>3. Proceed(t, nIdle, nTotal, fAllOk /\ fOk[t], todo, Woken(W)) /\ UNCHANGED added /\ pc[t] = "lock"
      BY <2>6 DEF NextTurn
    <3> HIDE DEF todo, W, Phase
    <3> QED BY <2>4, <3>2, <3>3
  <2>7. ASSUME NEW t \in Threads, Resume(t)
        PROVE  Verdict!AbsNext \/ UNCHANGED <<Phase, added, verdict>>
    <3>1. pc \in [Threads -> {"out", "adding", "lock", "wait", "woken", "work", "gone"}]
      BY DEF IndInv, Kinds
    <3> HIDE DEF Phase
    <3> QED BY <2>4, <2>7, <3>1 DEF Resume
  <2>8. ASSUME NEW t \in Threads, Work(t) \/ SpuriousWake(t) \/ Interrupt(t)
        PROVE  UNCHANGED <<Phase, added, verdict>>
    BY <2>8, <2>a DEF Work, SpuriousWake, Interrupt, Woken, IndInv, Kinds
  <2>9. CASE UNCHANGED vars
    BY <2>9 DEF vars
  <2> HIDE DEF Phase
  <2> QED BY <2>1, <2>2, <2>3, <2>5, <2>6, <2>7, <2>8, <2>9 DEF Next
<1> QED BY <1>1, <1>2, Invariance, PTL DEF Spec, ImplementsVerdict, Verdict!AbsSpec
=============================================================================
