---------------------------- MODULE MasternodeMan ----------------------------
(* The masternode list of one node (masternode.cpp, masternodeman.cpp) and *)
(* the state of its own masternode (activemasternode.cpp).                 *)
(*                                                                         *)
(* Peers, masternodes and operators are the environment: broadcasts        *)
(* ("mnb"), pings ("mnp") and answers to "dseg" come in any order.  Times  *)
(* are ages (now minus the time of signing; negative: signed by a clock    *)
(* that is ahead) that stop at Old.  A broadcast is its masternode and a   *)
(* number that grows with its time of signing.  Signatures, known block    *)
(* hashes and free locks are parameters of the actions.                    *)
EXTENDS Integers, FiniteSets

CONSTANTS
  MN,             \* masternodes (their collateral outputs)
  Broadcasts,     \* bound on the broadcasts of a masternode
  OwnBroadcasts,  \* the same for the one that this node runs
  NoPing,         \* the empty CMasternodePing
  None,
  EXPIRATION,     \* MASTERNODE_EXPIRATION_SECONDS, 120 min
  REMOVAL,        \* MASTERNODE_REMOVAL_SECONDS, 135 min
  MIN_MNP,        \* MASTERNODE_MIN_MNP_SECONDS (- 60), 30 min
  MIN_MNB,        \* MASTERNODE_MIN_MNB_SECONDS, 15 min
  PING,           \* MASTERNODE_PING_SECONDS, 15 min
  WINDOW,         \* how far a ping's time may be off, 60 min
  Carried,        \* the pings that come with broadcasts, by age
  OldVersion,     \* broadcasts whose protocol version spork 10 rules out
  Own,            \* which masternode may have this node's key (None: none)
  Wallet          \* whether this node's wallet may hold the collateral

Number == 1 .. Broadcasts
Old == 2 * REMOVAL + 1
Age == (-WINDOW) .. Old
Fresh == (-WINDOW) .. (WINDOW - 1)     \* ages of pings that are looked at
Ping == Age \cup {NoPing}
State == {"ENABLED", "EXPIRED", "REMOVE", "VIN_SPENT"}
Entry == [number : Number, ping : Ping, state : State]

ASSUME MasternodeManAssumption ==
  /\ {EXPIRATION, REMOVAL, MIN_MNP, MIN_MNB, PING, WINDOW, Broadcasts,
      OwnBroadcasts} \subseteq Nat \ {0}
  /\ OwnBroadcasts <= Broadcasts
  /\ EXPIRATION < REMOVAL /\ WINDOW <= REMOVAL
  /\ OldVersion \subseteq Number
  /\ Carried \subseteq Age \cup {NoPing} /\ NoPing \notin Int /\ None \notin Int
  /\ Own \subseteq MN \cup {None} /\ None \notin MN \cup Entry
  /\ Wallet \in BOOLEAN

VARIABLES
  vMasternodes,    \* per masternode its entry or None
  seenBroadcast,   \* mapSeenMasternodeBroadcast: the ping in it, or None
  seenPing,        \* mapSeenMasternodePing: ages of the fresh pings seen
  asked,           \* mWeAskedForMasternodeListEntry: time until we may ask again
  dseg,            \* masternodes we have asked a peer about
  signed,          \* per broadcast its age (up to MIN_MNB), None: not signed
  spent,           \* masternodes whose collateral is spent
  mine,            \* the masternode that has this node's key, or None
  spork10,         \* SPORK_10_MASTERNODE_PAY_UPDATED_NODES is on
  activeVin,       \* activeMasternode.vin
  status           \* activeMasternode.status

listVars == <<vMasternodes, seenBroadcast, seenPing, asked, dseg>>
activeVars == <<activeVin, status>>
worldVars == <<signed, spent, mine, spork10>>
manVars == <<listVars, activeVars, worldVars>>

-----------------------------------------------------------------------------
(* Ages. *)

Aged(ping) == IF ping = NoPing \/ ping = Old THEN ping ELSE ping + 1

(* IsPingedWithin, now and at the time of a ping of the given age.         *)
IsPingedWithin(e, limit) == e.ping # NoPing /\ e.ping < limit
IsPingedWithinAt(e, limit, age) == e.ping # NoPing /\ e.ping - age < limit

-----------------------------------------------------------------------------
(* One entry. *)

(* Its version is below GetMinMasternodePaymentsProto.  The operator of    *)
(* this node's own masternode runs this node's version.                    *)
TooOld(m, n) == spork10 /\ m # mine /\ n \in OldVersion

(* CMasternode::Check; lock: cs_main was free to look at the collateral.   *)
CheckForgetful(m, e, lock) == \* mutant: an expired entry is never removed
  IF e.state = "VIN_SPENT" THEN e
  ELSE IF ~IsPingedWithin(e, EXPIRATION) THEN [e EXCEPT !.state = "EXPIRED"]
  ELSE IF ~lock THEN e
  ELSE [e EXCEPT !.state = IF m \in spent THEN "VIN_SPENT" ELSE "ENABLED"]
Check(m, e, lock) ==
  IF e.state = "VIN_SPENT" THEN e
  ELSE IF ~IsPingedWithin(e, REMOVAL) THEN [e EXCEPT !.state = "REMOVE"]
  ELSE IF ~IsPingedWithin(e, EXPIRATION) THEN [e EXCEPT !.state = "EXPIRED"]
  ELSE IF ~lock THEN e
  ELSE [e EXCEPT !.state = IF m \in spent THEN "VIN_SPENT" ELSE "ENABLED"]

(* CMasternodePing::CheckAndUpdate on an entry it found.                   *)
TakesAlways(m, e, age) == \* mutant: no comparison with the ping we have
  age \in Fresh
Takes(m, e, age) ==
  age \in Fresh /\ ~TooOld(m, e.number) /\ ~IsPingedWithinAt(e, MIN_MNP, age)
Pinged(m, e, age, lock) == Check(m, [e EXCEPT !.ping = age], lock)

(* UpdateFromNewBroadcast with broadcast n carrying ping, if it is newer.  *)
UpdateFromNewBroadcast(m, e, n, ping, lock, good) ==
  LET f == [e EXCEPT !.number = n]
  IN  IF n <= e.number THEN e
      ELSE IF ping = NoPing THEN [f EXCEPT !.ping = NoPing]
      ELSE IF Takes(m, f, ping) /\ good THEN Pinged(m, f, ping, lock)
      ELSE f

(* The broadcast in the table of seen ones follows the entry's ping.       *)
Follow(seen, m, e, age) ==
  IF seen[m][e.number] = None THEN seen ELSE [seen EXCEPT ![m][e.number] = age]

(* The next broadcast of m that its operator may sign.                     *)
Unsigned(m, n) ==
  /\ signed[m][n] = None /\ (n > 1 => signed[m][n - 1] # None)
  /\ m = mine => n <= OwnBroadcasts

-----------------------------------------------------------------------------
ManInit ==
  /\ vMasternodes = [m \in MN |-> None]
  /\ seenBroadcast = [m \in MN |-> [n \in Number |-> None]]
  /\ seenPing = [m \in MN |-> {}]
  /\ asked = [m \in MN |-> 0]
  /\ dseg = {}
  /\ signed = [m \in MN |-> [n \in Number |-> None]]
  /\ spent = {}
  /\ mine \in Own
  /\ spork10 = FALSE
  /\ activeVin = None
  /\ status = "INITIAL"

(* AskForMN: ask the sender for a single entry, at most every MIN_MNP.     *)
AskForMN(m) ==
  IF asked[m] > 0 THEN UNCHANGED <<asked, dseg>>
  ELSE /\ asked' = [asked EXCEPT ![m] = MIN_MNP]
       /\ dseg' = dseg \cup {m}

EnableHotColdMasterNode(m) ==
  IF mine = m THEN activeVin' = m /\ status' = "STARTED"
  ELSE UNCHANGED activeVars

(* "mnb" with a broadcast not seen before.  How its checks end:            *)
(*   refused  its time, version, keys or signature are not in order        *)
(*   mismatch the collateral is not found or not its owner's               *)
(*   retry    cs_main is busy or the collateral too young: it is forgotten *)
(*   bad      the collateral is spent or the time of signing impossible    *)
(*   ok       it may be added                                              *)
Outcome == {"refused", "mismatch", "retry", "bad", "ok"}
IsNewer(e, n) == e = None \/ e.number <= n
Updates(m, e, n) ==
  e # None /\ e.state = "ENABLED" /\ signed[m][e.number] >= MIN_MNB /\ n > e.number

(* CheckInputsAndAdd after CheckAndUpdate left entry e; seen is the table  *)
(* with the new broadcast in it.                                           *)
CheckInputsAndAdd(m, n, ping, e, seen, out) ==
  IF \/ mine = m /\ activeVin = m
     \/ e # None /\ e.state = "ENABLED"
     \/ out = "mismatch"
  THEN /\ vMasternodes' = [vMasternodes EXCEPT ![m] = e]
       /\ seenBroadcast' = seen
       /\ UNCHANGED activeVars
  ELSE /\ vMasternodes' = [vMasternodes EXCEPT ![m] =
            IF out = "ok" THEN [number |-> n, ping |-> ping, state |-> "ENABLED"]
            ELSE None]
       /\ seenBroadcast' = IF out = "retry" THEN [seen EXCEPT ![m][n] = None] ELSE seen
       /\ IF out = "ok" THEN EnableHotColdMasterNode(m) ELSE UNCHANGED activeVars

Mnb(m, n, ping, lock, good, out) ==
  /\ signed[m][n] # None
  /\ seenBroadcast[m][n] = None
  /\ m \in spent => out # "ok"
  /\ TooOld(m, n) => out = "refused"
  /\ LET e == vMasternodes[m]
         seen == [seenBroadcast EXCEPT ![m][n] = ping]
     IN  IF ~IsNewer(e, n) \/ out = "refused"
         THEN seenBroadcast' = seen /\ UNCHANGED <<vMasternodes, seenPing, activeVars>>
         ELSE IF Updates(m, e, n)
         THEN LET f == Check(m, UpdateFromNewBroadcast(m, e, n, ping, lock, good), lock)
              IN  /\ CheckInputsAndAdd(m, n, ping, f, seen, out)
                  /\ seenPing' = IF Takes(m, [e EXCEPT !.number = n], ping) /\ good /\ f.state = "ENABLED"
                                 THEN [seenPing EXCEPT ![m] = @ \cup {ping}]
                                 ELSE seenPing
         ELSE CheckInputsAndAdd(m, n, ping, e, seen, out) /\ UNCHANGED seenPing
  /\ UNCHANGED <<asked, worldVars>>

(* A broadcast that a peer relays, and the answer to our "dseg": the peer  *)
(* names its newest broadcast, which we fetch only if we have not seen it. *)
RelayedMnb(m, n, ping, lock, good, out) ==
  Mnb(m, n, ping, lock, good, out) /\ UNCHANGED dseg
Newest(m) == CHOOSE n \in Number :
  signed[m][n] # None /\ \A k \in Number : signed[m][k] # None => k <= n
Answer(m, ping, lock, good, out) ==
  /\ m \in dseg /\ signed[m][1] # None
  /\ dseg' = dseg \ {m}
  /\ IF seenBroadcast[m][Newest(m)] # None
     THEN UNCHANGED <<vMasternodes, seenBroadcast, seenPing, asked, activeVars, worldVars>>
     ELSE Mnb(m, Newest(m), ping, lock, good, out)

(* "mnp" with a ping within the window, not seen before; good: signature   *)
(* and block hash are in order.                                            *)
Mnp(m, age, lock, good) ==
  /\ age \in Fresh \ seenPing[m]
  /\ seenPing' = [seenPing EXCEPT ![m] = @ \cup {age}]
  /\ LET e == vMasternodes[m] IN
     IF e = None
     THEN AskForMN(m) /\ UNCHANGED <<vMasternodes, seenBroadcast>>
     ELSE /\ IF e.state = "ENABLED" /\ Takes(m, e, age) /\ good
             THEN /\ vMasternodes' = [vMasternodes EXCEPT ![m] = Pinged(m, e, age, lock)]
                  /\ seenBroadcast' = Follow(seenBroadcast, m, e, age)
             ELSE UNCHANGED <<vMasternodes, seenBroadcast>>
          /\ UNCHANGED <<asked, dseg>>
  /\ UNCHANGED <<activeVars, worldVars>>

(* "mnp" outside the window (or with a bad signature): the sender is asked *)
(* for the entry, known or not.                                            *)
MnpRefused(m) ==
  /\ AskForMN(m)
  /\ UNCHANGED <<vMasternodes, seenBroadcast, seenPing, activeVars, worldVars>>

(* "dseg": we name our enabled entries to a peer and make sure that their  *)
(* broadcasts can be served.                                               *)
Dseg ==
  /\ seenBroadcast' = [m \in MN |-> [n \in Number |->
       LET e == vMasternodes[m] IN
       IF e # None /\ e.state = "ENABLED" /\ e.number = n /\ seenBroadcast[m][n] = None
       THEN e.ping ELSE seenBroadcast[m][n]]]
  /\ UNCHANGED <<vMasternodes, seenPing, asked, dseg, activeVars, worldVars>>

(* CheckAndRemove, every minute.  done: entries checked less than          *)
(* MASTERNODE_CHECK_SECONDS ago, which Check leaves alone.                 *)
Removable(m, e, force) ==
  \/ TooOld(m, e.number)
  \/ e.state \in {"REMOVE", "VIN_SPENT"}
  \/ force /\ e.state = "EXPIRED"
Expired(ping) == ping = NoPing \/ ping > 2 * REMOVAL
RemoveKeepingSeen(list, force) == \* mutant: seen broadcasts stay when an entry goes
  /\ vMasternodes' = [m \in MN |->
       IF list[m] # None /\ Removable(m, list[m], force) THEN None ELSE list[m]]
  /\ UNCHANGED <<asked, seenBroadcast, seenPing>>
Remove(list, force) ==
  LET gone == {m \in MN : list[m] # None /\ Removable(m, list[m], force)}
  IN  /\ vMasternodes' = [m \in MN |-> IF m \in gone THEN None ELSE list[m]]
      /\ seenBroadcast' = [m \in MN |-> [n \in Number |->
           IF m \in gone \/ (seenBroadcast[m][n] # None /\ Expired(seenBroadcast[m][n]))
           THEN None ELSE seenBroadcast[m][n]]]
      /\ UNCHANGED seenPing \* the old ones are not in the model
      /\ asked' = [m \in MN |-> IF m \in gone THEN 0 ELSE asked[m]]
CheckAndRemove(lock, done) ==
  /\ Remove([m \in MN |-> IF vMasternodes[m] = None \/ m \in done
                          THEN vMasternodes[m] ELSE Check(m, vMasternodes[m], lock)],
            FALSE)
  /\ UNCHANGED <<dseg, activeVars, worldVars>>

-----------------------------------------------------------------------------
(* The node's own masternode. *)

(* SendMasternodePing, by a started masternode with entry e.               *)
SendMasternodePing(m, e) ==
  IF e = None
  THEN /\ status' = "NOT_CAPABLE"
       /\ UNCHANGED <<vMasternodes, seenBroadcast, seenPing, activeVin>>
  ELSE /\ IF IsPingedWithinAt(e, PING, 0)
          THEN /\ vMasternodes' = [vMasternodes EXCEPT ![m] = e]
               /\ UNCHANGED <<seenBroadcast, seenPing>>
          ELSE /\ vMasternodes' = [vMasternodes EXCEPT ![m] = [e EXCEPT !.ping = 0]]
               /\ seenPing' = [seenPing EXCEPT ![m] = @ \cup {0}]
               /\ seenBroadcast' = Follow(seenBroadcast, m, e, 0)
       /\ activeVin' = m
       /\ status' = "STARTED"

(* Register: sign a broadcast and take it into our own list.               *)
Register(m, e, n, lock) ==
  /\ Wallet /\ m \notin spent
  /\ Unsigned(m, n)
  /\ signed' = [signed EXCEPT ![m][n] = 0]
  /\ seenPing' = [seenPing EXCEPT ![m] = @ \cup {0}]
  /\ seenBroadcast' = [seenBroadcast EXCEPT ![m][n] = 0]
  /\ vMasternodes' = [vMasternodes EXCEPT ![m] =
       IF e = None THEN [number |-> n, ping |-> 0, state |-> "ENABLED"]
       ELSE UpdateFromNewBroadcast(m, e, n, 0, lock, TRUE)]
  /\ activeVin' = m
  /\ status' = "STARTED"

(* ManageStatus: a masternode that is not started looks for its entry once *)
(* and then registers or waits; one that is started pings.  done: the      *)
(* entry was checked a moment ago.  GetMasterNodeVin sets the vin even if   *)
(* the input is too new or a key is missing.                               *)
ManageFrom(before, lock, done) ==
  /\ mine # None
  /\ LET initial == before \in {"INITIAL", "SYNC_IN_PROCESS"}
         e == IF initial /\ ~done /\ vMasternodes[mine] # None
              THEN Check(mine, vMasternodes[mine], lock) ELSE vMasternodes[mine]
         found == initial /\ e # None /\ e.state = "ENABLED"
     IN  IF before = "STARTED" \/ found
         THEN SendMasternodePing(mine, e) /\ UNCHANGED signed
         ELSE \/ /\ status' = "NOT_CAPABLE"
                 /\ activeVin' \in {activeVin} \cup (IF Wallet THEN {mine} ELSE {})
                 /\ vMasternodes' = [vMasternodes EXCEPT ![mine] = e]
                 /\ UNCHANGED <<seenBroadcast, seenPing, signed>>
              \/ \E n \in Number : Register(mine, e, n, lock)
  /\ UNCHANGED <<asked, dseg, spent, mine, spork10>>
ManageStatus(lock, done) == ManageFrom(status, lock, done)

(* ManageStatus while the chain is not synced.                             *)
NotSynced ==
  /\ mine # None
  /\ status' = "SYNC_IN_PROCESS"
  /\ UNCHANGED <<listVars, activeVin, worldVars>>

(* "startmasternode local": one that is not started begins anew.           *)
StartLocal(lock, done) == status # "STARTED" /\ ManageFrom("INITIAL", lock, done)

-----------------------------------------------------------------------------
(* The world. *)

(* The operator signs a new broadcast elsewhere.                           *)
Announce(m, n) ==
  /\ Unsigned(m, n)
  /\ signed' = [signed EXCEPT ![m][n] = 0]
  /\ UNCHANGED <<listVars, activeVars, spent, mine, spork10>>

Spend(m) ==
  /\ m \notin spent
  /\ spent' = spent \cup {m}
  /\ UNCHANGED <<listVars, activeVars, signed, mine, spork10>>

(* Spork 10 is switched on or off.                                         *)
ManSporkChanges ==
  /\ MN # {mine} /\ OldVersion # {}
  /\ spork10' = ~spork10
  /\ UNCHANGED <<listVars, activeVars, signed, spent, mine>>

(* A clean stop and start: mncache.dat keeps the list and the tables, and  *)
(* expired entries are removed after loading.  keep: the file was readable. *)
Restart(keep, lock) ==
  /\ activeVin' = None
  /\ status' = "INITIAL"
  /\ dseg' = {}
  /\ IF keep
     THEN Remove([m \in MN |-> IF vMasternodes[m] = None THEN None
                               ELSE Check(m, vMasternodes[m], lock)], TRUE)
     ELSE /\ vMasternodes' = [m \in MN |-> None]
          /\ seenBroadcast' = [m \in MN |-> [n \in Number |-> None]]
          /\ seenPing' = [m \in MN |-> {}]
          /\ asked' = [m \in MN |-> 0]
  /\ UNCHANGED worldVars

ManTick ==
  /\ vMasternodes' = [m \in MN |-> IF vMasternodes[m] = None THEN None
                       ELSE [vMasternodes[m] EXCEPT !.ping = Aged(@)]]
  /\ seenBroadcast' = [m \in MN |-> [n \in Number |->
       IF seenBroadcast[m][n] = None THEN None ELSE Aged(seenBroadcast[m][n])]]
  /\ seenPing' = [m \in MN |-> {a + 1 : a \in {b \in seenPing[m] : b + 1 \in Fresh}}]
  /\ asked' = [m \in MN |-> IF asked[m] > 0 THEN asked[m] - 1 ELSE 0]
  /\ signed' = [m \in MN |-> [n \in Number |->
       IF signed[m][n] \in {None, MIN_MNB} THEN signed[m][n] ELSE signed[m][n] + 1]]
  /\ UNCHANGED <<dseg, activeVars, spent, mine, spork10>>

Messages ==
  \/ \E m \in MN, n \in Number, p \in Carried, lock, good \in BOOLEAN, out \in Outcome :
       RelayedMnb(m, n, p, lock, good, out)
  \/ \E m \in MN, p \in Carried, lock, good \in BOOLEAN, out \in Outcome :
       Answer(m, p, lock, good, out)
  \/ \E m \in MN, a \in Fresh, lock, good \in BOOLEAN : Mnp(m, a, lock, good)
  \/ \E m \in MN : MnpRefused(m)
  \/ Dseg

ManNext ==
  \/ Messages
  \/ \E lock \in BOOLEAN, done \in SUBSET MN : CheckAndRemove(lock, done)
  \/ \E lock, done \in BOOLEAN : ManageStatus(lock, done)
  \/ NotSynced
  \/ \E lock, done \in BOOLEAN : StartLocal(lock, done)
  \/ \E m \in MN, n \in Number : Announce(m, n)
  \/ \E m \in MN : Spend(m)
  \/ ManSporkChanges
  \/ \E keep, lock \in BOOLEAN : Restart(keep, lock)
  \/ ManTick

ManSpec == ManInit /\ [][ManNext]_manVars

-----------------------------------------------------------------------------
(* Properties *)

(* Type invariant.                                                         *)
ManTypeOK ==
  /\ vMasternodes \in [MN -> Entry \cup {None}]
  /\ seenBroadcast \in [MN -> [Number -> Ping \cup {None}]]
  /\ seenPing \in [MN -> SUBSET Fresh]
  /\ asked \in [MN -> 0 .. MIN_MNP]
  /\ dseg \subseteq MN
  /\ signed \in [MN -> [Number -> (0 .. MIN_MNB) \cup {None}]]
  /\ spent \subseteq MN
  /\ mine \in MN \cup {None} /\ spork10 \in BOOLEAN
  /\ activeVin \in MN \cup {None}
  /\ status \in {"INITIAL", "SYNC_IN_PROCESS", "NOT_CAPABLE", "STARTED"}

(* While the entry of a broadcast is enabled, its last ping only moves     *)
(* forward in time, though pings come with broadcasts, from peers and from *)
(* the node itself, in any order and by clocks that disagree.              *)
PingsForward ==
  [][ManTick \/ \A m \in MN : LET e == vMasternodes[m]  f == vMasternodes'[m] IN
       (e # None /\ e.state = "ENABLED" /\ f # None /\ f.number = e.number)
         => \/ f.ping = e.ping
            \/ f.ping # NoPing /\ (e.ping = NoPing \/ f.ping < e.ping)]_manVars

(* Fairness: the clock moves, CheckAndRemove runs every minute and finds   *)
(* cs_main free now and then; masternodes ping, and peers answer "dseg".   *)
ManFairSpec ==
  /\ ManSpec
  /\ WF_manVars(ManTick)
  /\ WF_manVars(CheckAndRemove(TRUE, {}))
  /\ \A m \in MN : /\ WF_manVars(Mnp(m, 0, TRUE, TRUE))
                   /\ SF_manVars(Answer(m, 0, TRUE, TRUE, "ok"))

Enabled(m) == vMasternodes[m] # None /\ vMasternodes[m].state = "ENABLED"

(* A masternode that pings and keeps its collateral is enabled again and   *)
(* again: an expired entry refuses pings, is removed with its broadcasts,  *)
(* asked for at the next ping and added from a peer's answer.  Its newest  *)
(* broadcast is not of an old version.  Broadcasts refused in vain, which  *)
(* stay in the table of seen ones, only delay it.                          *)
InVain(m) ==
  /\ vMasternodes'[m] = None
  /\ \E n \in Number : seenBroadcast[m][n] = None /\ seenBroadcast'[m][n] # None
Signed(m) == \E n \in Number \ OldVersion : signed[m][n] # None
MasternodeReturns ==
  \A m \in MN :
    ([](m \notin spent /\ mine # m) /\ <>Signed(m) /\ <>[][~InVain(m)]_manVars)
      => []<>Enabled(m)

(* A masternode whose pings stop is removed for good.                      *)
Renewed(m) ==
  LET e == vMasternodes[m]  f == vMasternodes'[m]
  IN  f # None /\ (e = None \/ (f.ping # e.ping /\ ~ManTick))
SilentRemoved ==
  \A m \in MN : <>[][~Renewed(m)]_manVars => <>[](vMasternodes[m] = None)

(* A broadcast with this node's key activates a node whose list does not   *)
(* have it (CheckInputsAndAdd).                                            *)
RemotelyActivated ==
  [][\A m \in MN, n \in Number, p \in Carried :
       (mine = m /\ vMasternodes[m] = None /\ RelayedMnb(m, n, p, TRUE, TRUE, "ok"))
         => status' = "STARTED"]_manVars

=============================================================================
