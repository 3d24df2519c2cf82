-------------------------------- MODULE Spork --------------------------------
(***************************************************************************)
(* Sporks: network parameters signed by one key (spork.cpp, sporkdb.cpp)   *)
(* on several nodes.  A spork message is its own hash.  The signer's RPC   *)
(* thread runs without cs_main, so UpdateSpork is two steps: the inventory *)
(* is relayed, then the message is stored.  An inventory, the request it   *)
(* leads to and the answer are one step of the network (Fetch); messages   *)
(* are repeated and reordered, nodes restart from their database.  A lost  *)
(* message is one that is never handled: only FairSpec rules that out.     *)
(***************************************************************************)
EXTENDS Integers, FiniteSets

CONSTANTS Node,
          Signer,       \* the node that holds the spork key
          SporkID,      \* sporks GetSporkNameByID knows
          Value,        \* spork values
          Default,      \* Default[s]: the compiled-in value
          None,
          Restarts,     \* whether nodes may restart
          MaxTime,      \* bound: last second of the clock
          MaxUpdates    \* bound: calls of UpdateSpork

Message == [nSporkID : SporkID, nValue : Value, nTimeSigned : 0 .. MaxTime]

ASSUME SignerAssumption == Signer \in Node
ASSUME FaultAssumption == Restarts \in BOOLEAN
ASSUME TimeAssumption == MaxTime \in Nat /\ MaxUpdates \in Nat
ASSUME DefaultAssumption == Default \in [SporkID -> Value]
ASSUME NoneAssumption == None \notin Message

VARIABLES
  now,               \* GetTime(), in seconds
  mapSporks,         \* mapSporks[n]: messages n can serve
  mapSporksActive,   \* mapSporksActive[n][s]: the message in force or None
  sporkDB,           \* sporkDB[n][s]: what pSporkDB holds
  updating,          \* the message UpdateSpork has relayed and not stored
  wire,              \* inventories and spork messages in flight
  asked,             \* history: <<s, second>> in which s was updated,
  again              \*   and in which it was updated more than once

history == <<asked, again>>
vars == <<now, mapSporks, mapSporksActive, sporkDB, updating, wire, history>>

Inv == [kind : {"inv"}, from : Node, to : Node, msg : Message]
SporkMsg == [kind : {"spork"}, to : Node, msg : Message]

SendSpork(n, m) == [kind |-> "spork", to |-> n, msg |-> m]

(* RelayInv offers the message to every peer.  The inventories that the    *)
(* peer will answer with AlreadyHave are left out: they change nothing.    *)
Relay(n, m) == {[kind |-> "inv", from |-> n, to |-> p, msg |-> m] :
                  p \in {q \in Node \ {n} : m \notin mapSporks[q]}}

TimeOf(m) == IF m = None THEN -1 ELSE m.nTimeSigned

(* GetSporkValue: the active value or the compiled-in default.             *)
GetSporkValue(n, s) ==
  IF mapSporksActive[n][s] = None THEN Default[s]
  ELSE mapSporksActive[n][s].nValue

Init ==
  /\ now = 0
  /\ mapSporks = [n \in Node |-> {}]
  /\ mapSporksActive = [n \in Node |-> [s \in SporkID |-> None]]
  /\ sporkDB = [n \in Node |-> [s \in SporkID |-> None]]
  /\ updating = None
  /\ wire = {}
  /\ asked = {}
  /\ again = {}

-----------------------------------------------------------------------------

(* What CSporkManager::UpdateSpork signs: the new value and the time now.  *)
SignedKeepingTime(s, v) == \* mutant: the time of the old message is kept
  IF mapSporksActive[Signer][s] = None
  THEN [nSporkID |-> s, nValue |-> v, nTimeSigned |-> now]
  ELSE [mapSporksActive[Signer][s] EXCEPT !.nValue = v]
Signed(s, v) == [nSporkID |-> s, nValue |-> v, nTimeSigned |-> now]

(* UpdateSpork, until it has relayed the inventory.  Nothing keeps the     *)
(* operator from changing a spork again within the same second.            *)
UpdateSpork(s, v) ==
  /\ updating = None
  /\ Cardinality(asked) + Cardinality(again) < MaxUpdates
  /\ updating' = Signed(s, v)
  /\ wire' = wire \cup Relay(Signer, Signed(s, v))
  /\ asked' = asked \cup {<<s, now>>}
  /\ again' = again \cup (asked \cap {<<s, now>>})
  /\ UNCHANGED <<now, mapSporks, mapSporksActive, sporkDB>>

(* The rest of UpdateSpork: memory only, nothing is written to pSporkDB.   *)
StoreUpdate ==
  /\ updating # None
  /\ mapSporks' = [mapSporks EXCEPT ![Signer] = @ \cup {updating}]
  /\ mapSporksActive' =
       [mapSporksActive EXCEPT ![Signer][updating.nSporkID] = updating]
  /\ updating' = None
  /\ UNCHANGED <<now, sporkDB, wire, history>>

(* An inventory reaches n.  Unless n has the message (AlreadyHave) it asks *)
(* the peer, which answers if it has it (ProcessGetData).                  *)
Fetch(w) ==
  /\ w \in wire /\ w.kind = "inv"
  /\ wire' = (wire \ {w}) \cup
       IF w.msg \notin mapSporks[w.to] /\ w.msg \in mapSporks[w.from]
       THEN {SendSpork(w.to, w.msg)} ELSE {}
  /\ UNCHANGED <<now, mapSporks, mapSporksActive, sporkDB, updating, history>>

(* ProcessSpork takes a message that is newer than the active one.         *)
NewerOrAny(n, m) == TRUE \* mutant: no comparison with the active message
Newer(n, m) == TimeOf(mapSporksActive[n][m.nSporkID]) < m.nTimeSigned

(* mutant: the database is not written.                                    *)
ProcessSporkVolatile(w) ==
  /\ w \in wire /\ w.kind = "spork"
  /\ Newer(w.to, w.msg)
  /\ mapSporks' = [mapSporks EXCEPT ![w.to] = @ \cup {w.msg}]
  /\ mapSporksActive' = [mapSporksActive EXCEPT ![w.to][w.msg.nSporkID] = w.msg]
  /\ wire' = (wire \ {w}) \cup Relay(w.to, w.msg)
  /\ UNCHANGED <<now, updating, sporkDB, history>>

(* mutant: a message is taken without being offered to the peers.          *)
ProcessSporkSilently(w) ==
  /\ w \in wire /\ w.kind = "spork"
  /\ Newer(w.to, w.msg)
  /\ mapSporks' = [mapSporks EXCEPT ![w.to] = @ \cup {w.msg}]
  /\ mapSporksActive' = [mapSporksActive EXCEPT ![w.to][w.msg.nSporkID] = w.msg]
  /\ sporkDB' = [sporkDB EXCEPT ![w.to][w.msg.nSporkID] = w.msg]
  /\ wire' = wire \ {w}
  /\ UNCHANGED <<now, updating, history>>

(* "spork": an older message is dropped, a newer one is stored, relayed    *)
(* and written to the database.                                            *)
ProcessSpork(w) ==
  LET n == w.to
      m == w.msg
  IN /\ w \in wire /\ w.kind = "spork"
     /\ IF Newer(n, m)
        THEN /\ mapSporks' = [mapSporks EXCEPT ![n] = @ \cup {m}]
             /\ mapSporksActive' = [mapSporksActive EXCEPT ![n][m.nSporkID] = m]
             /\ sporkDB' = [sporkDB EXCEPT ![n][m.nSporkID] = m]
             /\ wire' = (wire \ {w}) \cup Relay(n, m)
        ELSE /\ wire' = wire \ {w}
             /\ UNCHANGED <<mapSporks, mapSporksActive, sporkDB>>
     /\ UNCHANGED <<now, updating, history>>

(* "getsporks" of n, answered by p with everything active there.  Again    *)
(* the messages that n will drop are left out.                             *)
GetSporks(n, p) ==
  /\ n # p
  /\ wire' = wire \cup {SendSpork(n, m) :
                          m \in {k \in {mapSporksActive[p][s] : s \in SporkID} \ {None} :
                                   Newer(n, k)}}
  /\ wire' # wire
  /\ UNCHANGED <<now, mapSporks, mapSporksActive, sporkDB, updating, history>>

(* A node stops and starts again, which takes at least a second:           *)
(* LoadSporksFromDB fills both maps from the database.                     *)
Restart(n) ==
  /\ Restarts
  /\ now < MaxTime
  /\ now' = now + 1
  /\ mapSporksActive' = [mapSporksActive EXCEPT ![n] = sporkDB[n]]
  /\ mapSporks' = [mapSporks EXCEPT ![n] =
                     {sporkDB[n][s] : s \in SporkID} \ {None}]
  /\ updating' = IF n = Signer THEN None ELSE updating
  /\ wire' = {w \in wire : w.to # n /\ (w.kind = "inv" => w.from # n)}
  /\ UNCHANGED <<sporkDB, history>>

Tick ==
  /\ now < MaxTime
  /\ now' = now + 1
  /\ UNCHANGED <<mapSporks, mapSporksActive, sporkDB, updating, wire, history>>

Next ==
  \/ \E s \in SporkID, v \in Value : UpdateSpork(s, v)
  \/ StoreUpdate
  \/ \E w \in wire : Fetch(w)
  \/ \E w \in wire : ProcessSpork(w)
  \/ \E n, p \in Node : GetSporks(n, p)
  \/ \E n \in Node : Restart(n)
  \/ Tick

Spec == Init /\ [][Next]_vars

-----------------------------------------------------------------------------
(* Properties *)

(* Type invariant.                                                         *)
TypeOK ==
  /\ now \in 0 .. MaxTime
  /\ mapSporks \in [Node -> SUBSET Message]
  /\ mapSporksActive \in [Node -> [SporkID -> Message \cup {None}]]
  /\ sporkDB \in [Node -> [SporkID -> Message \cup {None}]]
  /\ updating \in Message \cup {None}
  /\ wire \subseteq Inv \cup SporkMsg
  /\ asked \subseteq SporkID \X (0 .. MaxTime)
  /\ again \subseteq asked

(* Two nodes that hold a spork signed at the same second hold the same     *)
(* value, through restarts of the signer (which forgets its own update)    *)
(* and messages that arrive late, unless the operator changed that spork   *)
(* twice within that very second: ProcessSpork ignores a message with an   *)
(* equal time whatever its value, and only then leaves two side by side.   *)
SameTimeSameValue ==
  \A n, p \in Node, s \in SporkID :
    (/\ mapSporksActive[n][s] # None
     /\ TimeOf(mapSporksActive[n][s]) = TimeOf(mapSporksActive[p][s])
     /\ <<s, TimeOf(mapSporksActive[n][s])>> \notin again)
    => GetSporkValue(n, s) = GetSporkValue(p, s)

(* Every message that is in force, stored, being stored or in flight.      *)
Messages ==
  {m \in Message : \/ \E w \in wire : m = w.msg
                   \/ \E n \in Node : m \in mapSporks[n]
                   \/ \E n \in Node, s \in SporkID : m = mapSporksActive[n][s]
                   \/ \E n \in Node, s \in SporkID : m = sporkDB[n][s]
                   \/ m = updating}

(* Why SameTimeSameValue holds: no message is from the future or from a    *)
(* second in which its spork was not updated, an update in progress is the *)
(* newest of its spork, and a second in which a spork was updated once has *)
(* one message of it, wherever its copies are.                             *)
IssuedOnce ==
  /\ \A m \in Messages : m.nTimeSigned <= now
  /\ \A m \in Messages : <<m.nSporkID, m.nTimeSigned>> \in asked
  /\ updating # None => \A m \in Messages :
       m.nSporkID = updating.nSporkID => m.nTimeSigned <= updating.nTimeSigned
  /\ \A m, k \in Messages :
       (/\ m.nSporkID = k.nSporkID /\ m.nTimeSigned = k.nTimeSigned
        /\ <<m.nSporkID, m.nTimeSigned>> \notin again) => m = k

(* A restart loses nothing a node got from the network: the database holds *)
(* what is in force, except at the signer, whose own updates stay in       *)
(* memory and whose database may only lag behind.                          *)
DurableExceptSigner ==
  \A n \in Node, s \in SporkID :
    /\ n # Signer => sporkDB[n][s] = mapSporksActive[n][s]
    /\ TimeOf(sporkDB[n][s]) <= TimeOf(mapSporksActive[n][s])

(* The nodes implement SporkRegister: whatever order messages come in,     *)
(* are repeated or lost in, each spork's messages are issued in order, a   *)
(* node puts in force only what was issued and is newer, the signer also   *)
(* the update it has just issued, and restarts take nobody back but the    *)
(* signer, to a message that was issued.                                   *)
Register == INSTANCE SporkRegister WITH known <- Messages, inForce <- mapSporksActive

ImplementsRegister == Register!RegSpec

(* Fairness: a node handles the inventories and the messages that are not  *)
(* lost, in some order, and the RPC thread finishes UpdateSpork.           *)
FairSpec ==
  /\ Spec
  /\ WF_vars(StoreUpdate)
  /\ \A n \in Node : WF_vars(\E w \in wire : w.to = n /\ Fetch(w))
  /\ \A n \in Node : WF_vars(\E w \in wire : w.to = n /\ ProcessSpork(w))

Reached(m) ==
  \A n \in Node : TimeOf(mapSporksActive[n][m.nSporkID]) >= m.nTimeSigned

(* After the last restart, a spork message that is on its way to a node    *)
(* without a newer one reaches every node: ProcessSpork stores before it   *)
(* relays, so the peers that ask for it get it, and nodes that missed it   *)
(* in an earlier round catch up.                                           *)
TakenSporkSpreads ==
  \A m \in Message :
    (/\ now = MaxTime
     /\ \E n \in Node : SendSpork(n, m) \in wire /\ Newer(n, m)) ~> Reached(m)

=============================================================================
