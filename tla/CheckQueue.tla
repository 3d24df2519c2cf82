----------------------------- MODULE CheckQueue -----------------------------
(***************************************************************************)
(* CCheckQueue and CCheckQueueControl (checkqueue.h): the script checks of *)
(* a block are spread over worker threads, and the thread that connects    *)
(* the block, the master, adds them and then joins the workers in Wait()   *)
(* until all are done.                                                     *)
(*                                                                         *)
(* Everything done under the queue's mutex between two waits is one step;  *)
(* the checks themselves run outside it.  Which elements a thread takes    *)
(* from the queue is left open ("the order of booleans doesn't matter").   *)
(* A waiting thread may wake by itself, as boost allows, and is hit by     *)
(* interrupt_all() at shutdown: a worker ends there, while the master      *)
(* leaves Wait() by an exception and ~CCheckQueueControl calls it again.   *)
(* fQuit is never set in this code, so a worker does not return.           *)
(***************************************************************************)
EXTENDS Integers, FiniteSets

CONSTANTS Workers,      \* the threads of ThreadScriptCheck
          Master,       \* the thread that holds cs_main and connects a block
          Checks,       \* the script checks of a block
          Bad,          \* the checks that return false
          nBatchSize    \* most elements taken at once (128 in main.cpp)

Threads == Workers \cup {Master}

ASSUME ThreadAssumption == IsFiniteSet(Workers) /\ Master \notin Workers
ASSUME CheckAssumption == IsFiniteSet(Checks) /\ Bad \subseteq Checks
ASSUME BatchAssumption == nBatchSize \in Nat \ {0}

VARIABLES
    queue,        \* elements nobody has taken yet
    nIdle, nTotal, nTodo, fAllOk,
    pc,           \* where a thread is, see TypeOK
    batch,        \* vChecks of a thread; nNow is its size
    fOk,          \* the local result of a thread
    closing,      \* the master runs Wait() from ~CCheckQueueControl
    interrupted,  \* threads that interrupt_all() has hit
    added,        \* history: the checks added under the present control
    verdict       \* history: what the last Wait() returned

vars == <<queue, nIdle, nTotal, nTodo, fAllOk, pc, batch, fOk, closing,
          interrupted, added, verdict>>

(***************************************************************************)
(* The type of the state.  A thread is at the mutex before a turn of Loop  *)
(* ("lock"), waits on its condition variable ("wait"), was notified but    *)
(* has not got the mutex back ("woken"), runs its batch ("work") or was    *)
(* interrupted ("gone"); the master is outside a control ("out") or adds   *)
(* checks ("adding").  The counters stay within the number of threads and  *)
(* checks (one more for a master interrupted in Wait, whose turn is not    *)
(* taken back), so nTodo, which is unsigned, does not wrap.                *)
(***************************************************************************)
TypeOK ==
    /\ queue \subseteq Checks
    /\ nIdle \in 0 .. Cardinality(Threads) + 1
    /\ nTotal \in 0 .. Cardinality(Threads) + 1
    /\ nTodo \in 0 .. Cardinality(Checks)
    /\ fAllOk \in BOOLEAN
    /\ pc \in [Threads -> {"out", "adding", "lock", "wait", "woken", "work", "gone"}]
    /\ batch \in [Threads -> SUBSET Checks]
    /\ fOk \in [Threads -> BOOLEAN]
    /\ closing \in BOOLEAN
    /\ interrupted \subseteq Threads
    /\ added \subseteq Checks
    /\ verdict \in BOOLEAN
-----------------------------------------------------------------------------
Init == /\ queue = {}
        /\ nIdle = 0 /\ nTotal = 0 /\ nTodo = 0
        /\ fAllOk = TRUE
        /\ pc = [t \in Threads |-> IF t = Master THEN "out" ELSE "lock"]
        /\ batch = [t \in Threads |-> {}]
        /\ fOk = [t \in Threads |-> TRUE]
        /\ closing = FALSE
        /\ interrupted = {}
        /\ added = {}
        /\ verdict = TRUE

Waiting(S) == {t \in S : pc[t] = "wait"}

Woken(S) == [t \in Threads |-> IF t \in S THEN "woken" ELSE pc[t]]

(* ConnectBlock constructs a control; its assertion is IdleAtStart below.  *)
Construct == /\ pc[Master] = "out"
             /\ pc' = [pc EXCEPT ![Master] = "adding"]
             /\ closing' = FALSE
             /\ added' = {}
             /\ UNCHANGED <<queue, nIdle, nTotal, nTodo, fAllOk, batch, fOk,
                            interrupted, verdict>>

(* The workers that an Add of n elements wakes. *)
NotifyWorkers(n) ==
    LET sleeping == Waiting(Workers) IN
    IF n = 0 \/ sleeping = {} THEN {{}}
    ELSE IF n = 1 THEN {{w} : w \in sleeping} ELSE {sleeping}

Add(S) == /\ pc[Master] = "adding"
          /\ queue' = queue \cup S
          /\ nTodo' = nTodo + Cardinality(S)
          /\ added' = added \cup S
          /\ \E W \in NotifyWorkers(Cardinality(S)) : pc' = Woken(W)
          /\ UNCHANGED <<nIdle, nTotal, fAllOk, batch, fOk, closing,
                         interrupted, verdict>>

(* Wait() at the end of ConnectBlock, or from the destructor after one of
   its early returns. *)
Wait(early) == /\ pc[Master] = "adding"
               /\ pc' = [pc EXCEPT ![Master] = "lock"]
               /\ batch' = [batch EXCEPT ![Master] = {}]
               /\ closing' = early
               /\ UNCHANGED <<queue, nIdle, nTotal, nTodo, fAllOk, fOk,
                              interrupted, added, verdict>>
-----------------------------------------------------------------------------
(* How many elements a thread takes from a queue of q elements. *)
BatchSize(q, total, idle) ==
    LET share == q \div (total + idle + 1)
        most == IF share < nBatchSize THEN share ELSE nBatchSize
    IN  IF most < 1 THEN 1 ELSE most

(* Mutant of MayLeave: an empty queue is taken for finished work. *)
MayLeaveEarly(t, todo) == t = Master

(* Only the master leaves, when every element is done. *)
MayLeave(t, todo) == t = Master /\ todo = 0

(* Mutant of Leave: nTotal-- is missing. *)
LeaveStillCounted(t, idle, total, allOk, todo, p) ==
    /\ queue = {} /\ MayLeave(t, todo)
    /\ nTotal' = total /\ nIdle' = idle
    /\ verdict' = allOk
    /\ fAllOk' = TRUE
    /\ pc' = [p EXCEPT ![t] = "out"]
    /\ batch' = [batch EXCEPT ![t] = {}]
    /\ UNCHANGED <<queue, fOk>>

(* The rest of a turn once t has the mutex and has brought the counters up
   to date: p is pc with the notified threads. *)
Leave(t, idle, total, allOk, todo, p) ==
    /\ queue = {} /\ MayLeave(t, todo)
    /\ nTotal' = total - 1 /\ nIdle' = idle
    /\ verdict' = allOk
    /\ fAllOk' = TRUE
    /\ pc' = [p EXCEPT ![t] = "out"]
    /\ batch' = [batch EXCEPT ![t] = {}]
    /\ UNCHANGED <<queue, fOk>>

Sleep(t, idle, total, allOk, todo, p) ==
    /\ queue = {} /\ ~MayLeave(t, todo)
    /\ nTotal' = total /\ nIdle' = idle + 1
    /\ fAllOk' = allOk
    /\ pc' = [p EXCEPT ![t] = "wait"]
    /\ batch' = [batch EXCEPT ![t] = {}]
    /\ UNCHANGED <<queue, fOk, verdict>>

Take(t, idle, total, allOk, todo, p) ==
    /\ queue # {}
    /\ \E S \in SUBSET queue :
          /\ Cardinality(S) = BatchSize(Cardinality(queue), total, idle)
          /\ queue' = queue \ S
          /\ batch' = [batch EXCEPT ![t] = S]
    /\ fOk' = [fOk EXCEPT ![t] = allOk]
    /\ nTotal' = total /\ nIdle' = idle
    /\ fAllOk' = allOk
    /\ pc' = [p EXCEPT ![t] = "work"]
    /\ UNCHANGED verdict

Proceed(t, idle, total, allOk, todo, p) ==
    \/ Leave(t, idle, total, allOk, todo, p)
    \/ Sleep(t, idle, total, allOk, todo, p)
    \/ Take(t, idle, total, allOk, todo, p)

(* A thread that comes to Loop (nNow = 0) is counted; one that comes back
   from a batch reports it, and a worker that finds nothing left to do
   wakes the master. *)
FirstTurn(t) ==
    /\ pc[t] = "lock" /\ batch[t] = {}
    /\ Proceed(t, nIdle, nTotal + 1, fAllOk, nTodo, pc)
    /\ UNCHANGED <<nTodo, closing, interrupted, added>>

(* Mutant of NotifyMaster: the test of fMaster is the wrong way round. *)
NotifyMasterByMaster(t, todo) ==
    IF todo = 0 /\ t = Master THEN Waiting({Master}) ELSE {}

NotifyMaster(t, todo) ==
    IF todo = 0 /\ t # Master THEN Waiting({Master}) ELSE {}

(* Mutant of NextTurn: fAllOk = fOk instead of &=. *)
NextTurnOverwriting(t) ==
    LET todo == nTodo - Cardinality(batch[t]) IN
    /\ pc[t] = "lock" /\ batch[t] # {}
    /\ nTodo' = todo
    /\ Proceed(t, nIdle, nTotal, fOk[t], todo, Woken(NotifyMaster(t, todo)))
    /\ UNCHANGED <<closing, interrupted, added>>

NextTurn(t) ==
    LET todo == nTodo - Cardinality(batch[t]) IN
    /\ pc[t] = "lock" /\ batch[t] # {}
    /\ nTodo' = todo
    /\ Proceed(t, nIdle, nTotal, fAllOk /\ fOk[t], todo,
               Woken(NotifyMaster(t, todo)))
    /\ UNCHANGED <<closing, interrupted, added>>

(* cond.wait returns: the loop looks at the queue again. *)
Resume(t) ==
    /\ pc[t] = "woken"
    /\ Proceed(t, nIdle - 1, nTotal, fAllOk, nTodo, pc)
    /\ UNCHANGED <<nTodo, closing, interrupted, added>>

(* The checks of a batch, one after the other until one fails. *)
Work(t) ==
    /\ pc[t] = "work"
    /\ fOk' = [fOk EXCEPT ![t] = fOk[t] /\ batch[t] \cap Bad = {}]
    /\ pc' = [pc EXCEPT ![t] = "lock"]
    /\ UNCHANGED <<queue, nIdle, nTotal, nTodo, fAllOk, batch, closing,
                   interrupted, added, verdict>>
-----------------------------------------------------------------------------
(* boost::condition_variable may return without a notification. *)
SpuriousWake(t) ==
    /\ pc[t] = "wait"
    /\ pc' = Woken({t})
    /\ UNCHANGED <<queue, nIdle, nTotal, nTodo, fAllOk, batch, fOk, closing,
                   interrupted, added, verdict>>

(* interrupt_all() at shutdown throws thread_interrupted out of cond.wait,
   past nIdle-- and nTotal--.  Out of a destructor it would end the process,
   hence ~closing. *)
Interrupt(t) ==
    /\ pc[t] \in {"wait", "woken"}
    /\ t \notin interrupted
    /\ t = Master => ~closing
    /\ interrupted' = interrupted \cup {t}
    /\ pc' = [pc EXCEPT ![t] = IF t = Master THEN "lock" ELSE "gone"]
    /\ closing' = (closing \/ t = Master)
    /\ UNCHANGED <<queue, nIdle, nTotal, nTodo, fAllOk, batch, fOk, added, verdict>>

Next == \/ Construct
        \/ \E S \in SUBSET (Checks \ added) : Add(S)
        \/ \E early \in BOOLEAN : Wait(early)
        \/ \E t \in Threads : \/ FirstTurn(t) \/ NextTurn(t) \/ Resume(t)
                              \/ Work(t) \/ SpuriousWake(t) \/ Interrupt(t)

Spec == Init /\ [][Next]_vars

(* A thread that can run gets the mutex in the end, and a check ends; a
   thread need not wake by itself and is not interrupted on purpose. *)
Fairness == \A t \in Threads : /\ WF_vars(FirstTurn(t)) /\ WF_vars(NextTurn(t))
                               /\ WF_vars(Resume(t)) /\ WF_vars(Work(t))

LiveSpec == Spec /\ Fairness
-----------------------------------------------------------------------------
(***************************************************************************)
(* "RAII-style controller object for a CCheckQueue that guarantees the     *)
(* passed queue is finished before continuing": once the master is out of  *)
(* its control no element is left, and no worker still runs a check, which *)
(* points into the block and the coins that ConnectBlock is about to drop. *)
(***************************************************************************)
Drained ==
    pc[Master] = "out" =>
        /\ queue = {}
        /\ \A t \in Threads : pc[t] # "work" /\ batch[t] = {}

(***************************************************************************)
(* The assertion in CCheckQueueControl's constructor: between two blocks   *)
(* nTotal == nIdle, nTodo == 0 and fAllOk, though workers may be starting, *)
(* woken, interrupted or late.                                             *)
(***************************************************************************)
IdleAtStart == pc[Master] = "out" => nTotal = nIdle /\ nTodo = 0 /\ fAllOk

(***************************************************************************)
(* Wait() answers whether all checks added under this control succeed,     *)
(* neither losing a failure nor keeping one from an earlier block: the     *)
(* queue implements CheckVerdict.                                          *)
(***************************************************************************)
Phase == IF pc[Master] = "out" THEN "closed"
         ELSE IF pc[Master] = "adding" THEN "open" ELSE "waiting"

Verdict == INSTANCE CheckVerdict WITH phase <- Phase

ImplementsVerdict == Verdict!AbsSpec

(***************************************************************************)
(* Wait() returns: no notification of the master or of a worker is missed, *)
(* whatever the order of Add, the last batch and the waits.                *)
(***************************************************************************)
WaitReturns == pc[Master] = "lock" ~> pc[Master] = "out"
=============================================================================
