---------------------------- MODULE CheckVerdict ----------------------------
(***************************************************************************)
(* What CCheckQueueControl promises its user (checkqueue.h): a block's     *)
(* checks are handed over in batches, and Wait() answers whether all of    *)
(* them succeed.  Nothing is said of threads, batches or waiting.          *)
(***************************************************************************)
CONSTANTS Checks, Bad     \* the checks, and those among them that fail

VARIABLES phase,    \* "closed", "open" (checks may be added) or "waiting"
          added,    \* the checks added since the control was constructed
          verdict   \* what the last Wait() returned

absVars == <<phase, added, verdict>>

AbsInit == phase = "closed" /\ added = {} /\ verdict = TRUE

Construct == /\ phase = "closed"
             /\ phase' = "open" /\ added' = {}
             /\ UNCHANGED verdict

Submit == /\ phase = "open"
          /\ \E S \in SUBSET (Checks \ added) : added' = added \cup S
          /\ UNCHANGED <<phase, verdict>>

CallWait == /\ phase = "open"
            /\ phase' = "waiting"
            /\ UNCHANGED <<added, verdict>>

Answer == /\ phase = "waiting"
          /\ phase' = "closed" /\ verdict' = (added \cap Bad = {})
          /\ UNCHANGED added

AbsNext == Construct \/ Submit \/ CallWait \/ Answer

AbsSpec == AbsInit /\ [][AbsNext]_absVars
=============================================================================
