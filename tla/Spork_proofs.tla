---------------------------- MODULE Spork_proofs ----------------------------
(* Proofs about Spork for any nodes, sporks, values and any length of time. *)
EXTENDS Spork, TLAPS

(* Signed gives a message.                                                 *)
LEMMA SignedType ==
  ASSUME TypeOK, NEW s \in SporkID, NEW v \in Value
  PROVE  /\ Signed(s, v) \in Message
         /\ Signed(s, v).nSporkID = s
         /\ Signed(s, v).nTimeSigned = now
  BY DEF Signed, Message, TypeOK

(* Relay puts inventories of the message on the wire.                      *)
LEMMA RelayType ==
  ASSUME NEW n \in Node, NEW m \in Message
  PROVE  Relay(n, m) \subseteq Inv
  BY DEF Relay, Inv

(* Replacing one entry of a table of sporks keeps its type.                *)
LEMMA TableUpdate ==
  ASSUME NEW S, NEW f \in [Node -> [SporkID -> S]], NEW n \in Node,
         NEW s \in SporkID, NEW m \in S
  PROVE  [f EXCEPT ![n][s] = m] \in [Node -> [SporkID -> S]]
  OBVIOUS

(* The initial state is well typed. *)
LEMMA TypeOKInit == Init => TypeOK
  BY TimeAssumption DEF Init, TypeOK

(* Every step keeps the types. *)
LEMMA TypeOKNext == TypeOK /\ [Next]_vars => TypeOK'
<1> SUFFICES ASSUME TypeOK, [Next]_vars PROVE TypeOK'
  OBVIOUS
<1>1. ASSUME NEW s \in SporkID, NEW v \in Value, UpdateSpork(s, v) PROVE TypeOK'
  <2>1. asked' \subseteq SporkID \X (0 .. MaxTime) /\ again' \subseteq asked'
    BY <1>1 DEF UpdateSpork, TypeOK
  <2> QED BY <1>1, <2>1, SignedType, RelayType, SignerAssumption
          DEF UpdateSpork, TypeOK
<1>2. CASE StoreUpdate
  <2>1. updating \in Message /\ updating.nSporkID \in SporkID
    BY <1>2 DEF StoreUpdate, TypeOK, Message
  <2> QED BY <1>2, <2>1, SignerAssumption DEF StoreUpdate, TypeOK, history
<1>3. ASSUME NEW w \in wire, Fetch(w) PROVE TypeOK'
  <2>1. w.msg \in Message /\ w.to \in Node
    BY DEF TypeOK, Inv, SporkMsg
  <2>2. SendSpork(w.to, w.msg) \in SporkMsg
    BY <2>1 DEF SendSpork, SporkMsg
  <2> QED BY <1>3, <2>2 DEF Fetch, TypeOK, history
<1>4. ASSUME NEW w \in wire, ProcessSpork(w) PROVE TypeOK'
  <2>1. w.msg \in Message /\ w.to \in Node
    BY DEF TypeOK, Inv, SporkMsg
  <2>2. w.msg.nSporkID \in SporkID
    BY <2>1 DEF Message
  <2>3. wire' \subseteq Inv \cup SporkMsg
    BY <1>4, <2>1, RelayType DEF ProcessSpork, TypeOK
  <2>4. UNCHANGED <<now, updating, asked, again>>
    BY <1>4 DEF ProcessSpork, history
  <2>5. CASE Newer(w.to, w.msg)
    <3>1. mapSporks' \in [Node -> SUBSET Message]
      BY <1>4, <2>1, <2>5 DEF ProcessSpork, TypeOK
    <3>4. /\ mapSporksActive' = [mapSporksActive EXCEPT ![w.to][w.msg.nSporkID] = w.msg]
          /\ sporkDB' = [sporkDB EXCEPT ![w.to][w.msg.nSporkID] = w.msg]
      BY <1>4, <2>5 DEF ProcessSpork
    <3>5. /\ mapSporksActive \in [Node -> [SporkID -> Message \cup {None}]]
          /\ sporkDB \in [Node -> [SporkID -> Message \cup {None}]]
      BY DEF TypeOK
    <3>6. w.msg \in Message \cup {None}
      BY <2>1
    <3>2. mapSporksActive' \in [Node -> [SporkID -> Message \cup {None}]]
      BY <2>1, <2>2, <3>4, <3>5, <3>6, TableUpdate
    <3>3. sporkDB' \in [Node -> [SporkID -> Message \cup {None}]]
      BY <2>1, <2>2, <3>4, <3>5, <3>6, TableUpdate
    <3> QED BY <2>3, <2>4, <3>1, <3>2, <3>3 DEF TypeOK
  <2>6. CASE ~Newer(w.to, w.msg)
    BY <1>4, <2>3, <2>4, <2>6 DEF ProcessSpork, TypeOK
  <2> QED BY <2>5, <2>6
<1>5. ASSUME NEW n \in Node, NEW p \in Node, GetSporks(n, p) PROVE TypeOK'
  <2>1. \A m \in Message : SendSpork(n, m) \in SporkMsg
    BY DEF SendSpork, SporkMsg
  <2>2. \A m \in {mapSporksActive[p][s] : s \in SporkID} \ {None} : m \in Message
    BY DEF TypeOK
  <2> QED BY <1>5, <2>1, <2>2 DEF GetSporks, TypeOK, history
<1>6. ASSUME NEW n \in Node, Restart(n) PROVE TypeOK'
  <2>1. {sporkDB[n][s] : s \in SporkID} \ {None} \subseteq Message
    BY DEF TypeOK
  <2>2. now' \in 0 .. MaxTime
    BY <1>6, TimeAssumption DEF Restart, TypeOK
  <2> QED BY <1>6, <2>1, <2>2 DEF Restart, TypeOK, history
<1>7. CASE Tick
  BY <1>7, TimeAssumption DEF Tick, TypeOK, history
<1>8. CASE UNCHANGED vars
  BY <1>8 DEF vars, TypeOK, history
<1> QED BY <1>1, <1>2, <1>3, <1>4, <1>5, <1>6, <1>7, <1>8 DEF Next

(* Every state of Spork is well typed.                                     *)
THEOREM SporkTypeOK == Spec => []TypeOK
  BY TypeOKInit, TypeOKNext, PTL DEF Spec

-----------------------------------------------------------------------------
(* IssuedOnce *)

(* A step that issues no message keeps IssuedOnce, if the clock does not   *)
(* go back.                                                                *)
LEMMA NothingIssued ==
  ASSUME TypeOK, IssuedOnce, Messages' \subseteq Messages,
         now' \in Int, now <= now', UNCHANGED history,
         updating' # None => updating' = updating
  PROVE  IssuedOnce'
<1>1. \A m \in Messages : m.nTimeSigned \in Int
  BY TimeAssumption DEF Messages, Message
<1>2. now \in Int
  BY TimeAssumption DEF TypeOK
<1>3. (\A m \in Messages : m.nTimeSigned <= now)'
  BY <1>1, <1>2 DEF IssuedOnce
<1>4. (updating # None => \A m \in Messages :
         m.nSporkID = updating.nSporkID => m.nTimeSigned <= updating.nTimeSigned)'
  BY DEF IssuedOnce
<1>5. (\A m, k \in Messages :
        (/\ m.nSporkID = k.nSporkID /\ m.nTimeSigned = k.nTimeSigned
         /\ <<m.nSporkID, m.nTimeSigned>> \notin again) => m = k)'
  BY DEF IssuedOnce, history
<1>6. (\A m \in Messages : <<m.nSporkID, m.nTimeSigned>> \in asked)'
  BY DEF IssuedOnce, history
<1> QED BY <1>3, <1>4, <1>5, <1>6 DEF IssuedOnce

(* A spork message is issued by UpdateSpork alone.                         *)
LEMMA NoNewMessages ==
  ASSUME TypeOK,
         \/ StoreUpdate
         \/ \E w \in wire : Fetch(w) \/ ProcessSpork(w)
         \/ \E n, p \in Node : GetSporks(n, p)
         \/ \E n \in Node : Restart(n)
         \/ Tick
         \/ UNCHANGED vars
  PROVE  Messages' \subseteq Messages
<1>1. CASE StoreUpdate
  <2>1. updating \in Message /\ updating \in Messages /\ updating.nSporkID \in SporkID
    BY <1>1 DEF StoreUpdate, TypeOK, Messages, Message
  <2>2. /\ mapSporks' = [mapSporks EXCEPT ![Signer] = @ \cup {updating}]
        /\ mapSporksActive' = [mapSporksActive EXCEPT ![Signer][updating.nSporkID] = updating]
        /\ updating' = None /\ sporkDB' = sporkDB /\ wire' = wire
    BY <1>1 DEF StoreUpdate
  <2>3. /\ \A n \in Node : mapSporks'[n] \subseteq mapSporks[n] \cup {updating}
        /\ \A n \in Node, s \in SporkID :
             mapSporksActive'[n][s] \in {mapSporksActive[n][s], updating}
    BY <2>1, <2>2, SignerAssumption DEF TypeOK
  <2> QED BY <2>1, <2>2, <2>3, NoneAssumption DEF Messages
<1>2. ASSUME NEW w \in wire, Fetch(w) PROVE Messages' \subseteq Messages
  <2>1. \A x \in wire' : \E y \in wire : x.msg = y.msg
    BY <1>2 DEF Fetch, SendSpork
  <2>2. UNCHANGED <<mapSporks, mapSporksActive, sporkDB, updating>>
    BY <1>2 DEF Fetch
  <2> QED BY <2>1, <2>2 DEF Messages
<1>3. ASSUME NEW w \in wire, ProcessSpork(w) PROVE Messages' \subseteq Messages
  <2>1. w.msg \in Message /\ w.to \in Node /\ w.msg.nSporkID \in SporkID
    BY DEF TypeOK, Inv, SporkMsg, Message
  <2>2. w.msg \in Messages
    BY <2>1 DEF Messages
  <2>3. \A x \in Relay(w.to, w.msg) : x.msg = w.msg
    BY DEF Relay
  <2>4. updating' = updating /\ \A x \in wire' : x.msg = w.msg \/ x \in wire
    BY <1>3, <2>3 DEF ProcessSpork
  <2>5. CASE Newer(w.to, w.msg)
    <3>1. /\ mapSporks' = [mapSporks EXCEPT ![w.to] = @ \cup {w.msg}]
          /\ mapSporksActive' = [mapSporksActive EXCEPT ![w.to][w.msg.nSporkID] = w.msg]
          /\ sporkDB' = [sporkDB EXCEPT ![w.to][w.msg.nSporkID] = w.msg]
      BY <1>3, <2>5 DEF ProcessSpork
    <3>2. /\ \A n \in Node : mapSporks'[n] \subseteq mapSporks[n] \cup {w.msg}
          /\ \A n \in Node, s \in SporkID :
               mapSporksActive'[n][s] \in {mapSporksActive[n][s], w.msg}
          /\ \A n \in Node, s \in SporkID : sporkDB'[n][s] \in {sporkDB[n][s], w.msg}
      BY <2>1, <3>1 DEF TypeOK
    <3> QED BY <2>2, <2>4, <3>2 DEF Messages
  <2>6. CASE ~Newer(w.to, w.msg)
    <3>1. UNCHANGED <<mapSporks, mapSporksActive, sporkDB>>
      BY <1>3, <2>6 DEF ProcessSpork
    <3> QED BY <2>2, <2>4, <3>1 DEF Messages
  <2> QED BY <2>5, <2>6
<1>4. ASSUME NEW n \in Node, NEW p \in Node, GetSporks(n, p) PROVE Messages' \subseteq Messages
  <2>1. UNCHANGED <<mapSporks, mapSporksActive, sporkDB, updating>>
    BY <1>4 DEF GetSporks
  <2>2. \A x \in wire' : x \in wire \/ \E s \in SporkID : x.msg = mapSporksActive[p][s]
    BY <1>4 DEF GetSporks, SendSpork
  <2> QED BY <2>1, <2>2 DEF Messages
<1>5. ASSUME NEW n \in Node, Restart(n) PROVE Messages' \subseteq Messages
  <2>1. wire' \subseteq wire /\ sporkDB' = sporkDB /\ updating' \in {None, updating}
    BY <1>5 DEF Restart
  <2>2. \A q \in Node : mapSporks'[q] = mapSporks[q] \/
          \A m \in mapSporks'[q] : \E s \in SporkID : m = sporkDB[q][s]
    BY <1>5 DEF Restart, TypeOK
  <2>3. \A q \in Node, s \in SporkID :
          mapSporksActive'[q][s] \in {mapSporksActive[q][s], sporkDB[q][s]}
    BY <1>5 DEF Restart, TypeOK
  <2> QED BY <2>1, <2>2, <2>3, NoneAssumption DEF Messages
<1>6. CASE Tick
  BY <1>6 DEF Tick, Messages
<1>7. CASE UNCHANGED vars
  BY <1>7 DEF vars, Messages
<1> QED BY <1>1, <1>2, <1>3, <1>4, <1>5, <1>6, <1>7

(* UpdateSpork issues one message, with the time of the clock: none of its *)
(* spork is younger, and one of the same second means that the spork is    *)
(* updated again in it.                                                    *)
LEMMA NewestIssued ==
  ASSUME TypeOK, IssuedOnce, NEW s \in SporkID, NEW v \in Value, UpdateSpork(s, v)
  PROVE  /\ Messages' = Messages \cup {Signed(s, v)}
         /\ \A m \in Messages : m.nTimeSigned \in Int /\ m.nTimeSigned <= now
         /\ \A m \in Messages :
              m.nSporkID = s /\ m.nTimeSigned = now => <<s, now>> \in again'
<1> DEFINE new == Signed(s, v)
<1>1. new \in Message
  BY SignedType
<1>2. /\ updating = None /\ updating' = new
      /\ UNCHANGED <<mapSporks, mapSporksActive, sporkDB>>
      /\ wire' = wire \cup Relay(Signer, new)
      /\ again' = again \cup (asked \cap {<<s, now>>})
  BY DEF UpdateSpork
<1>3. \A w \in Relay(Signer, new) : w.msg = new
  BY DEF Relay
<1> HIDE DEF new
<1>4. Messages' = Messages \cup {new}
  BY <1>1, <1>2, <1>3, NoneAssumption DEF Messages
<1>5. \A m \in Messages : m.nTimeSigned \in Int /\ m.nTimeSigned <= now
  BY TimeAssumption DEF Messages, Message, IssuedOnce
<1>6. \A m \in Messages :
        m.nSporkID = s /\ m.nTimeSigned = now => <<s, now>> \in again'
  BY <1>2 DEF IssuedOnce
<1> QED BY <1>4, <1>5, <1>6 DEF new

(* Every step keeps the messages of a second in which a spork was updated  *)
(* once unique: a new message has the time of the clock.                   *)
LEMMA IssuedOnceNext == TypeOK /\ IssuedOnce /\ [Next]_vars => IssuedOnce'
<1> SUFFICES ASSUME TypeOK, IssuedOnce, [Next]_vars PROVE IssuedOnce'
  OBVIOUS
<1>0. now \in Int
  BY TimeAssumption DEF TypeOK
<1>1. ASSUME NEW s \in SporkID, NEW v \in Value, UpdateSpork(s, v)
      PROVE  IssuedOnce'
  <2> DEFINE new == Signed(s, v)
  <2>1. new \in Message /\ new.nSporkID = s /\ new.nTimeSigned = now
    BY SignedType
  <2>2. /\ updating' = new /\ now' = now
        /\ asked' = asked \cup {<<s, now>>} /\ again \subseteq again'
    BY <1>1 DEF UpdateSpork
  <2>3. /\ \A m \in Messages' : m \in Messages \/ m = new
        /\ \A m \in Messages : m.nTimeSigned \in Int /\ m.nTimeSigned <= now
        /\ \A m \in Messages :
             m.nSporkID = s /\ m.nTimeSigned = now => <<s, now>> \in again'
    BY <1>1, NewestIssued
  <2> HIDE DEF new
  <2>4. (\A m \in Messages : m.nTimeSigned <= now)'
    BY <1>0, <2>1, <2>2, <2>3
  <2>5. (\A m \in Messages : <<m.nSporkID, m.nTimeSigned>> \in asked)'
    BY <2>1, <2>2, <2>3 DEF IssuedOnce
  <2>6. (\A m \in Messages :
           m.nSporkID = updating.nSporkID => m.nTimeSigned <= updating.nTimeSigned)'
    BY <1>0, <2>1, <2>2, <2>3
  <2>7. (\A m, k \in Messages :
          (/\ m.nSporkID = k.nSporkID /\ m.nTimeSigned = k.nTimeSigned
           /\ <<m.nSporkID, m.nTimeSigned>> \notin again) => m = k)'
    <3> SUFFICES ASSUME NEW m \in Messages', NEW k \in Messages',
                        m.nSporkID = k.nSporkID, m.nTimeSigned = k.nTimeSigned,
                        <<m.nSporkID, m.nTimeSigned>> \notin again'
                 PROVE  m = k
      OBVIOUS
    <3>1. CASE m \in Messages /\ k \in Messages
      BY <2>2, <3>1 DEF IssuedOnce
    <3>2. CASE m = new \/ k = new
      BY <2>1, <2>3, <3>2
    <3> QED BY <2>3, <3>1, <3>2
  <2> QED BY <2>4, <2>5, <2>6, <2>7 DEF IssuedOnce
<1>2. ASSUME \/ StoreUpdate
             \/ \E w \in wire : Fetch(w) \/ ProcessSpork(w)
             \/ \E n, p \in Node : GetSporks(n, p)
             \/ \E n \in Node : Restart(n)
             \/ Tick
      PROVE  IssuedOnce'
  <2>1. /\ now' \in {now, now + 1} /\ updating' \in {None, updating}
        /\ UNCHANGED history
    BY <1>2 DEF StoreUpdate, Fetch, ProcessSpork, GetSporks, Restart, Tick
  <2>2. Messages' \subseteq Messages
    BY <1>2, NoNewMessages
  <2> QED BY <1>0, <2>1, <2>2, NothingIssued
<1>3. CASE UNCHANGED vars
  <2>1. Messages' \subseteq Messages
    BY <1>3, NoNewMessages
  <2> QED BY <1>0, <1>3, <2>1, NothingIssued DEF vars
<1> QED BY <1>1, <1>2, <1>3 DEF Next

(* Over any number of nodes, restarts and updates: an update in progress   *)
(* is the newest message of its spork, and two messages of one spork and   *)
(* second exist only if the operator updated it twice in that second.      *)
THEOREM SporkIssuedOnce == Spec => []IssuedOnce
<1>1. Init => IssuedOnce
  <2>1. Init => Messages = {}
    BY NoneAssumption DEF Init, Messages
  <2>2. Init => updating = None
    BY DEF Init
  <2> QED BY <2>1, <2>2 DEF IssuedOnce
<1> QED BY <1>1, SporkTypeOK, IssuedOnceNext, PTL DEF Spec

(* Both tables are keyed by the spork of their messages.                   *)
Keyed ==
  \A n \in Node, s \in SporkID :
    /\ mapSporksActive[n][s] # None => mapSporksActive[n][s].nSporkID = s
    /\ sporkDB[n][s] # None => sporkDB[n][s].nSporkID = s

(* Every step keeps messages under their own spork. *)
LEMMA KeyedNext == TypeOK /\ Keyed /\ [Next]_vars => Keyed'
<1> SUFFICES ASSUME TypeOK, Keyed, [Next]_vars PROVE Keyed'
  OBVIOUS
<1>1. CASE UNCHANGED <<mapSporksActive, sporkDB>>
  BY <1>1 DEF Keyed
<1>2. CASE StoreUpdate
  <2>1. \A n \in Node, s \in SporkID : mapSporksActive'[n][s] =
          IF n = Signer /\ s = updating.nSporkID THEN updating
          ELSE mapSporksActive[n][s]
    BY <1>2, SignerAssumption DEF StoreUpdate, TypeOK
  <2>2. sporkDB' = sporkDB
    BY <1>2 DEF StoreUpdate
  <2> QED BY <2>1, <2>2 DEF Keyed
<1>3. ASSUME NEW w \in wire, ProcessSpork(w), Newer(w.to, w.msg) PROVE Keyed'
  <2>1. w.msg \in Message /\ w.to \in Node /\ w.msg.nSporkID \in SporkID
    BY DEF TypeOK, Inv, SporkMsg, Message
  <2>2. /\ mapSporksActive' = [mapSporksActive EXCEPT ![w.to][w.msg.nSporkID] = w.msg]
        /\ sporkDB' = [sporkDB EXCEPT ![w.to][w.msg.nSporkID] = w.msg]
    BY <1>3 DEF ProcessSpork
  <2>3. \A n \in Node, s \in SporkID :
          /\ mapSporksActive'[n][s] = IF n = w.to /\ s = w.msg.nSporkID THEN w.msg
                                      ELSE mapSporksActive[n][s]
          /\ sporkDB'[n][s] = IF n = w.to /\ s = w.msg.nSporkID THEN w.msg
                              ELSE sporkDB[n][s]
    BY <2>1, <2>2 DEF TypeOK
  <2> QED BY <2>3 DEF Keyed
<1>4. ASSUME NEW w \in wire, ProcessSpork(w), ~Newer(w.to, w.msg) PROVE Keyed'
  BY <1>1, <1>4 DEF ProcessSpork
<1>5. ASSUME NEW n \in Node, Restart(n) PROVE Keyed'
  <2>1. /\ \A q \in Node, s \in SporkID : mapSporksActive'[q][s] =
             IF q = n THEN sporkDB[q][s] ELSE mapSporksActive[q][s]
        /\ sporkDB' = sporkDB
    BY <1>5 DEF Restart, TypeOK
  <2> QED BY <2>1 DEF Keyed
<1> QED BY <1>1, <1>2, <1>3, <1>4, <1>5
        DEF Next, UpdateSpork, Fetch, GetSporks, Tick, vars

(* Nodes that hold a spork of the same second agree on its value, unless   *)
(* the operator updated it twice in that second.                           *)
THEOREM SporkAgreement == Spec => []SameTimeSameValue
<1>1. TypeOK /\ IssuedOnce /\ Keyed => SameTimeSameValue
  <2> SUFFICES ASSUME TypeOK, IssuedOnce, Keyed, NEW n \in Node, NEW p \in Node,
                      NEW s \in SporkID, mapSporksActive[n][s] # None,
                      TimeOf(mapSporksActive[n][s]) = TimeOf(mapSporksActive[p][s]),
                      <<s, TimeOf(mapSporksActive[n][s])>> \notin again
               PROVE  GetSporkValue(n, s) = GetSporkValue(p, s)
    BY DEF SameTimeSameValue
  <2>1. /\ mapSporksActive[n][s] \in Message
        /\ mapSporksActive[p][s] \in Message \cup {None}
    BY DEF TypeOK
  <2>2. mapSporksActive[n][s].nTimeSigned \in Nat
    BY <2>1, TimeAssumption DEF Message
  <2>3. mapSporksActive[p][s] # None
    BY <2>2 DEF TimeOf
  <2>4. mapSporksActive[n][s] \in Messages /\ mapSporksActive[p][s] \in Messages
    BY <2>1, <2>3 DEF Messages
  <2>5. mapSporksActive[n][s].nTimeSigned = mapSporksActive[p][s].nTimeSigned
    BY <2>3 DEF TimeOf
  <2>6. mapSporksActive[n][s].nSporkID = s /\ mapSporksActive[p][s].nSporkID = s
    BY <2>3 DEF Keyed
  <2>7. <<s, mapSporksActive[n][s].nTimeSigned>> \notin again
    BY DEF TimeOf
  <2>8. mapSporksActive[n][s] = mapSporksActive[p][s]
    BY <2>4, <2>5, <2>6, <2>7 DEF IssuedOnce
  <2> QED BY <2>8 DEF GetSporkValue
<1>2. Init => Keyed
  BY DEF Init, Keyed
<1> QED BY <1>1, <1>2, KeyedNext, SporkTypeOK, SporkIssuedOnce, PTL DEF Spec

(* What a node got from the network is in its database: a restart loses    *)
(* at most the signer's own updates, and never brings a newer spork back.  *)
THEOREM SporkDurable == Spec => []DurableExceptSigner
<1>1. Init => DurableExceptSigner
  BY DEF Init, DurableExceptSigner, TimeOf
<1>2. TypeOK /\ IssuedOnce /\ Keyed /\ DurableExceptSigner /\ [Next]_vars
        => DurableExceptSigner'
  <2> SUFFICES ASSUME TypeOK, IssuedOnce, Keyed, DurableExceptSigner, [Next]_vars
               PROVE  DurableExceptSigner'
    OBVIOUS
  <2>0. \A m \in Message \cup {None} : TimeOf(m) \in Int
    BY TimeAssumption DEF TimeOf, Message
  <2>1. CASE UNCHANGED <<mapSporksActive, sporkDB>>
    BY <2>1 DEF DurableExceptSigner
  <2>2. CASE StoreUpdate
    <3>1. \A n \in Node, s \in SporkID : mapSporksActive'[n][s] =
            IF n = Signer /\ s = updating.nSporkID THEN updating
            ELSE mapSporksActive[n][s]
      BY <2>2, SignerAssumption DEF StoreUpdate, TypeOK
    <3>2. sporkDB' = sporkDB
      BY <2>2 DEF StoreUpdate
    <3>3. ASSUME NEW s \in SporkID, s = updating.nSporkID
          PROVE  TimeOf(sporkDB[Signer][s]) <= TimeOf(updating)
      <4>1. updating \in Message /\ updating # None
        BY <2>2 DEF StoreUpdate, TypeOK
      <4>2. CASE sporkDB[Signer][s] = None
        BY <4>1, <4>2, TimeAssumption DEF TimeOf, Message
      <4>3. CASE sporkDB[Signer][s] # None
        <5>1. sporkDB[Signer][s] \in Messages /\ sporkDB[Signer][s].nSporkID = s
          BY <4>3, SignerAssumption DEF Messages, TypeOK, Keyed
        <5>2. sporkDB[Signer][s].nTimeSigned <= updating.nTimeSigned
          BY <3>3, <4>1, <5>1 DEF IssuedOnce
        <5> QED BY <4>1, <4>3, <5>2 DEF TimeOf
      <4> QED BY <4>2, <4>3
    <3> QED BY <3>1, <3>2, <3>3 DEF DurableExceptSigner
  <2>3. ASSUME NEW w \in wire, ProcessSpork(w), Newer(w.to, w.msg)
        PROVE  DurableExceptSigner'
    <3>1. w.msg \in Message /\ w.to \in Node /\ w.msg.nSporkID \in SporkID
      BY DEF TypeOK, Inv, SporkMsg, Message
    <3>2. /\ mapSporksActive' = [mapSporksActive EXCEPT ![w.to][w.msg.nSporkID] = w.msg]
          /\ sporkDB' = [sporkDB EXCEPT ![w.to][w.msg.nSporkID] = w.msg]
      BY <2>3 DEF ProcessSpork
    <3>3. \A n \in Node, s \in SporkID :
            /\ mapSporksActive'[n][s] = IF n = w.to /\ s = w.msg.nSporkID THEN w.msg
                                        ELSE mapSporksActive[n][s]
            /\ sporkDB'[n][s] = IF n = w.to /\ s = w.msg.nSporkID THEN w.msg
                                ELSE sporkDB[n][s]
      BY <3>1, <3>2 DEF TypeOK
    <3>4. TimeOf(w.msg) <= TimeOf(w.msg)
      BY <2>0, <3>1
    <3> QED BY <3>3, <3>4 DEF DurableExceptSigner
  <2>4. ASSUME NEW w \in wire, ProcessSpork(w), ~Newer(w.to, w.msg)
        PROVE  DurableExceptSigner'
    BY <2>1, <2>4 DEF ProcessSpork
  <2>5. ASSUME NEW n \in Node, Restart(n) PROVE DurableExceptSigner'
    <3>1. /\ \A q \in Node, s \in SporkID : mapSporksActive'[q][s] =
               IF q = n THEN sporkDB[q][s] ELSE mapSporksActive[q][s]
          /\ sporkDB' = sporkDB
      BY <2>5 DEF Restart, TypeOK
    <3>2. \A s \in SporkID : TimeOf(sporkDB[n][s]) <= TimeOf(sporkDB[n][s])
      BY <2>0 DEF TypeOK
    <3> QED BY <3>1, <3>2 DEF DurableExceptSigner
  <2> QED BY <2>1, <2>2, <2>3, <2>4, <2>5
          DEF Next, UpdateSpork, Fetch, GetSporks, Tick, vars
<1>3. Init => Keyed
  BY DEF Init, Keyed
<1> QED BY <1>1, <1>2, <1>3, KeyedNext, SporkTypeOK, SporkIssuedOnce, PTL DEF Spec

(* The nodes implement SporkRegister: the messages of a spork are issued   *)
(* in order, a node goes forward only and only to an issued message, the   *)
(* signer alone replaces one of the same second by its own newest, and the *)
(* signer alone may step back, when it restarts from a database that its   *)
(* own updates never reached.                                              *)
THEOREM SporkImplementsRegister == Spec => ImplementsRegister
<1>1. Init => Register!RegInit
  BY NoneAssumption DEF Init, Messages, Register!RegInit
<1>2. TypeOK /\ TypeOK' /\ IssuedOnce /\ Keyed /\ DurableExceptSigner /\ [Next]_vars
        => [Register!RegNext]_(Register!regVars)
  <2> SUFFICES ASSUME TypeOK, TypeOK', IssuedOnce, Keyed, DurableExceptSigner,
                      [Next]_vars
               PROVE  Register!RegNext \/ UNCHANGED <<Messages, mapSporksActive>>
    BY DEF Register!regVars
  <2>1. \A n \in Node, s \in SporkID :
          /\ mapSporksActive[n][s] \in Messages \cup {None}
          /\ mapSporksActive'[n][s] \in Messages' \cup {None}
          /\ sporkDB[n][s] \in Messages \cup {None}
    BY DEF TypeOK, Messages
  <2>2. Messages' \subseteq Messages => Register!Lose
    BY <2>1 DEF Register!Lose
  <2>3. ASSUME NEW s \in SporkID, NEW v \in Value, UpdateSpork(s, v)
        PROVE  Register!RegNext
    <3>1. /\ Signed(s, v) \in Message
          /\ Signed(s, v).nSporkID = s /\ Signed(s, v).nTimeSigned = now
      BY SignedType
    <3>2. /\ Messages' = Messages \cup {Signed(s, v)}
          /\ \A m \in Messages : m.nTimeSigned <= now
      BY <2>3, NewestIssued
    <3>3. mapSporksActive' = mapSporksActive
      BY <2>3 DEF UpdateSpork
    <3>4. Register!Issue(Signed(s, v))
      BY <3>1, <3>2, <3>3 DEF Register!Issue, Register!Newest, Register!NoYounger
    <3> QED BY <3>1, <3>4 DEF Register!RegNext
  <2>4. CASE StoreUpdate
    <3>1. updating # None /\ updating \in Messages
      BY <2>4 DEF StoreUpdate, TypeOK, Messages
    <3>2. mapSporksActive' = [mapSporksActive EXCEPT ![Signer][updating.nSporkID] = updating]
      BY <2>4 DEF StoreUpdate
    <3>3. Register!Newest(updating)
      BY <3>1 DEF IssuedOnce, Register!Newest, Register!NoYounger
    <3>4. Register!Lose
      BY <2>2, <2>4, NoNewMessages
    <3>5. Register!Store(updating)
      BY <3>2, <3>3, <3>4 DEF Register!Store
    <3> QED BY <3>1, <3>5 DEF Register!RegNext
  <2>5. ASSUME NEW w \in wire, ProcessSpork(w) PROVE Register!RegNext
    <3>1. w.msg \in Message /\ w.to \in Node /\ w.msg.nSporkID \in SporkID
      BY DEF TypeOK, Inv, SporkMsg, Message
    <3>2. Register!Lose
      BY <2>2, <2>5, NoNewMessages
    <3>3. CASE ~Newer(w.to, w.msg)
      <4>1. mapSporksActive' = mapSporksActive
        BY <2>5, <3>3 DEF ProcessSpork
      <4> QED BY <3>2, <4>1 DEF Register!RegNext
    <3>4. CASE Newer(w.to, w.msg)
      <4>1. mapSporksActive' = [mapSporksActive EXCEPT ![w.to][w.msg.nSporkID] = w.msg]
        BY <2>5, <3>4 DEF ProcessSpork
      <4>2. Register!Older(mapSporksActive[w.to][w.msg.nSporkID], w.msg)
        BY <3>4 DEF Newer, TimeOf, Register!Older
      <4>3. Register!Take(w.to, w.msg)
        BY <3>2, <4>1, <4>2 DEF Register!Take
      <4>4. w.msg \in Messages
        BY <3>1 DEF Messages
      <4> QED BY <3>1, <4>3, <4>4 DEF Register!RegNext
    <3> QED BY <3>3, <3>4
  <2>6. ASSUME NEW n \in Node, Restart(n) PROVE Register!RegNext
    <3>1. mapSporksActive' = [mapSporksActive EXCEPT ![n] = sporkDB[n]]
      BY <2>6 DEF Restart
    <3>2. Register!Lose
      BY <2>2, <2>6, NoNewMessages
    <3>3. CASE n # Signer
      <4>1. \A s \in SporkID : sporkDB[n][s] = mapSporksActive[n][s]
        BY <3>3 DEF DurableExceptSigner
      <4>2. sporkDB[n] = mapSporksActive[n]
        BY <4>1 DEF TypeOK
      <4>3. mapSporksActive' = mapSporksActive
        BY <3>1, <4>2 DEF TypeOK
      <4> QED BY <3>2, <4>3 DEF Register!RegNext
    <3>4. CASE n = Signer
      <4>1. sporkDB[Signer] \in [SporkID -> Messages \cup {None}]
        BY <2>1, SignerAssumption DEF TypeOK
      <4>2. ASSUME NEW s \in SporkID
            PROVE  /\ sporkDB[Signer][s] # None => sporkDB[Signer][s].nSporkID = s
                   /\ \/ sporkDB[Signer][s] = mapSporksActive[Signer][s]
                      \/ /\ mapSporksActive[Signer][s] # None
                         /\ Register!NoYounger(sporkDB[Signer][s],
                                               mapSporksActive[Signer][s])
        <5> DEFINE d == sporkDB[Signer][s]
                   k == mapSporksActive[Signer][s]
        <5>1. /\ d # None => d.nSporkID = s
              /\ k # None => k.nSporkID = s
              /\ TimeOf(d) <= TimeOf(k)
          BY SignerAssumption DEF Keyed, DurableExceptSigner
        <5>2. d \in Messages \cup {None} /\ k \in Messages \cup {None}
          BY <2>1, SignerAssumption
        <5>3. \A m \in Messages : m.nTimeSigned \in Nat
          BY TimeAssumption DEF Messages, Message
        <5>4. CASE k = None
          BY <5>1, <5>2, <5>3, <5>4 DEF TimeOf
        <5>5. CASE k # None /\ d # None
          <6>1. d.nTimeSigned <= k.nTimeSigned
            BY <5>1, <5>5 DEF TimeOf
          <6> QED BY <5>1, <5>5, <6>1 DEF Register!NoYounger
        <5>6. CASE k # None /\ d = None
          BY <5>6 DEF Register!NoYounger
        <5> QED BY <5>4, <5>5, <5>6
      <4>3. Register!StepBack(sporkDB[Signer])
        BY <3>1, <3>2, <3>4, <4>2 DEF Register!StepBack
      <4> QED BY <4>1, <4>3 DEF Register!RegNext
    <3> QED BY <3>3, <3>4
  <2>7. CASE (\E w \in wire : Fetch(w)) \/ (\E n, p \in Node : GetSporks(n, p)) \/ Tick
    <3>1. Register!Lose
      BY <2>2, <2>7, NoNewMessages
    <3>2. mapSporksActive' = mapSporksActive
      BY <2>7 DEF Fetch, GetSporks, Tick
    <3> QED BY <3>1, <3>2 DEF Register!RegNext
  <2>8. CASE UNCHANGED vars
    BY <2>8 DEF vars, Messages
  <2> QED BY <2>3, <2>4, <2>5, <2>6, <2>7, <2>8 DEF Next
<1>3. Init => Keyed
  BY DEF Init, Keyed
<1> QED BY <1>1, <1>2, <1>3, KeyedNext, SporkTypeOK, SporkIssuedOnce, SporkDurable, PTL
        DEF Spec, ImplementsRegister, Register!RegSpec

=============================================================================
