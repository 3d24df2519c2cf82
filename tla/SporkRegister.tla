---------------------------- MODULE SporkRegister ----------------------------
(***************************************************************************)
(* What the spork messages promise (spork.cpp): every spork is a register  *)
(* that the holder of the key writes.  Its messages are issued in the      *)
(* order of their times, which are seconds and may be equal; a node puts   *)
(* one in force in place of an older one, whatever order they reach it in; *)
(* the signer also puts the newest in force in place of one of the same    *)
(* second; messages may be lost everywhere except where they are in force; *)
(* the signer alone may step back.                                         *)
(* Nothing is said of inventories, databases, restarts or the clock.       *)
(***************************************************************************)
EXTENDS Integers

CONSTANTS Node, Signer, SporkID, Message, None

VARIABLES known,     \* the messages that are left anywhere
          inForce    \* inForce[n][s]: the message in force at n or None

regVars == <<known, inForce>>

Older(k, m) == k = None \/ k.nTimeSigned < m.nTimeSigned

NoYounger(k, m) == k = None \/ k.nTimeSigned <= m.nTimeSigned

Newest(m) == \A k \in known : k.nSporkID = m.nSporkID => NoYounger(k, m)

(* Whatever is lost, what is in force is still there.                      *)
Lose ==
  /\ known' \in SUBSET known
  /\ \A n \in Node, s \in SporkID : inForce'[n][s] \in known' \cup {None}

RegInit ==
  /\ known = {}
  /\ inForce = [n \in Node |-> [s \in SporkID |-> None]]

(* The signer issues a message, none of its spork being younger.           *)
Issue(m) ==
  /\ Newest(m)
  /\ known' = known \cup {m}
  /\ UNCHANGED inForce

(* A node puts a message in force.                                         *)
Take(n, m) ==
  /\ Older(inForce[n][m.nSporkID], m)
  /\ inForce' = [inForce EXCEPT ![n][m.nSporkID] = m]
  /\ Lose

(* The signer puts its own message in force, without comparing times.      *)
Store(m) ==
  /\ Newest(m)
  /\ inForce' = [inForce EXCEPT ![Signer][m.nSporkID] = m]
  /\ Lose

(* The signer loses updates of its own and is back at older messages.      *)
StepBack(old) ==
  /\ \A s \in SporkID :
       /\ old[s] # None => old[s].nSporkID = s
       /\ \/ old[s] = inForce[Signer][s]
          \/ inForce[Signer][s] # None /\ NoYounger(old[s], inForce[Signer][s])
  /\ inForce' = [inForce EXCEPT ![Signer] = old]
  /\ Lose

RegNext ==
  \/ \E m \in Message : Issue(m)
  \/ \E n \in Node, m \in known : Take(n, m)
  \/ \E m \in known : Store(m)
  \/ \E old \in [SporkID -> known \cup {None}] : StepBack(old)
  \/ Lose /\ UNCHANGED inForce

RegSpec == RegInit /\ [][RegNext]_regVars
=============================================================================
