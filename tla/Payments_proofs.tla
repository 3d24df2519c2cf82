--------------------------- MODULE Payments_proofs ---------------------------
(* Proofs about MasternodePayments, for any masternodes, payees, threads,  *)
(* windows and cleaning limits, and about Budget, for any proposals,       *)
(* budgets and scenes: the two models of what a block has to pay.  They    *)
(* share the masternodes and no state.                                     *)
EXTENDS MasternodePayments, Budget, FiniteSetTheorems, WellFoundedInduction, TLAPS

-----------------------------------------------------------------------------
(* Types *)

(* The arithmetic of heights.                                              *)
LEMMA HeightFacts ==
  /\ Height \subseteq Nat /\ 0 \in Height
  /\ \A h \in 0 .. MaxTip : /\ h \in Height /\ h + 1 \in Height
                            /\ h + OwnAhead \in Height
  BY PaymentsAssumption DEF Height

(* A fresh entry is an entry, and so is one with a vote more.              *)
LEMMA EntryFacts ==
  /\ \A h \in Height : Empty(h) \in Entry
  /\ \A e \in Entry, p \in AnyPayee : [e EXCEPT !.nVotes[p] = @ + 1] \in Entry
  BY DEF Empty, NoVotes, Entry

(* RecordVote keeps the types of what it writes.                           *)
LEMMA RecordVoteType ==
  ASSUME TypeOK, NEW t \in Thread, NEW v \in Vote, NEW own \in Height \cup {None},
         RecordVote(t, v, own)
  PROVE  /\ mapMasternodePayeeVotes' \subseteq Vote
         /\ mapMasternodeBlocks' \in [Height -> Entry \cup {None}]
         /\ adding' \in [Thread -> Adding \cup {None}]
<1>1. v.height \in Height
  BY DEF Vote
<1>2. Empty(v.height) \in Entry
  BY <1>1, EntryFacts
<1>3. [vote |-> v, own |-> own] \in Adding
  BY DEF Adding
<1> QED BY <1>1, <1>2, <1>3 DEF RecordVote, TypeOK

(* The vote this node signs.                                               *)
LEMMA OwnVoteType ==
  ASSUME TypeOK, NEW p \in AnyPayee, NEW h \in {0, tip + OwnAhead}
  PROVE  [mn |-> Self, height |-> h, payee |-> p] \in Vote
  BY HeightFacts, PaymentsAssumption, MasternodesAssumption DEF Vote, TypeOK

(* Every step keeps the types.                                             *)
LEMMA TypeOKNext == TypeOK /\ [Next]_vars => TypeOK'
<1> SUFFICES ASSUME TypeOK, [Next]_vars PROVE TypeOK'
  OBVIOUS
<1>1. ASSUME NEW t \in Thread, AddPayee(t) PROVE TypeOK'
  <2> DEFINE v == adding[t].vote
             e == IF mapMasternodeBlocks[v.height] = None THEN Empty(0)
                  ELSE mapMasternodeBlocks[v.height]
  <2>1. adding[t] \in Adding
    BY <1>1 DEF AddPayee, TypeOK
  <2>2. /\ v \in Vote /\ v.height \in Height /\ v.payee \in AnyPayee
        /\ adding[t].own \in Height \cup {None}
    BY <2>1 DEF Adding, Vote
  <2>3. e \in Entry
    BY <2>2, EntryFacts, HeightFacts DEF TypeOK
  <2>4. [e EXCEPT !.nVotes[v.payee] = @ + 1] \in Entry
    BY <2>2, <2>3, EntryFacts
  <2>5. /\ mapMasternodeBlocks' =
             [mapMasternodeBlocks EXCEPT ![v.height] = [e EXCEPT !.nVotes[v.payee] = @ + 1]]
        /\ counted' = counted \cup {v}
    BY <1>1 DEF AddPayee
  <2>6. mapMasternodeBlocks' \in [Height -> Entry \cup {None}] /\ counted' \subseteq Vote
    BY <2>2, <2>4, <2>5 DEF TypeOK
  <2>7. nLastBlockHeight' \in Height /\ adding' \in [Thread -> Adding \cup {None}]
    BY <1>1, <2>2 DEF AddPayee, TypeOK
  <2> QED BY <1>1, <2>6, <2>7 DEF AddPayee, TypeOK
<1>2. ASSUME NEW v \in Signed, Mnw(v) PROVE TypeOK'
  <2>1. v \in Vote /\ v.mn \in MN /\ v.height \in Height
    BY PaymentsAssumption DEF Vote
  <2>2. mapMasternodesLastVote' \in [MN -> Height \cup {None}]
    BY <1>2, <2>1 DEF Mnw, CanVote, TypeOK
  <2>3. RecordVote(MessageThread, v, None) /\ MessageThread \in Thread
    BY <1>2, PaymentsAssumption DEF Mnw
  <2>4. /\ mapMasternodePayeeVotes' \subseteq Vote
        /\ mapMasternodeBlocks' \in [Height -> Entry \cup {None}]
        /\ adding' \in [Thread -> Adding \cup {None}]
    BY <2>1, <2>3, RecordVoteType
  <2> QED BY <1>2, <2>2, <2>4 DEF Mnw, TypeOK
<1>3. ASSUME NEW v \in Signed \cup Forged, MnwNotAdded(v) PROVE TypeOK'
  <2>1. v.mn \in MN /\ v.height \in Height
    BY PaymentsAssumption DEF Vote
  <2> QED BY <1>3, <2>1 DEF MnwNotAdded, CanVote, TypeOK
<1>4. ASSUME NEW t \in Thread, NEW p \in Queue, ProcessBlock(t, p) PROVE TypeOK'
  <2>1. p \in AnyPayee
    BY PaymentsAssumption
  <2> DEFINE h == IF p = NoPayee THEN 0 ELSE tip + OwnAhead
             v == [mn |-> Self, height |-> h, payee |-> p]
  <2>2. v \in Vote
    BY <2>1, OwnVoteType
  <2>3. RecordVote(t, v, tip + OwnAhead)
    BY <1>4 DEF ProcessBlock
  <2>4. tip + OwnAhead \in Height
    BY HeightFacts DEF TypeOK
  <2> HIDE DEF v
  <2>5. /\ mapMasternodePayeeVotes' \subseteq Vote
        /\ mapMasternodeBlocks' \in [Height -> Entry \cup {None}]
        /\ adding' \in [Thread -> Adding \cup {None}]
    BY <2>2, <2>3, <2>4, RecordVoteType
  <2> QED BY <1>4, <2>5 DEF ProcessBlock, TypeOK
<1>5. ASSUME NEW n \in Limits, CleanPaymentList(n) PROVE TypeOK'
  BY <1>5 DEF CleanPaymentList, TypeOK
<1>6. CASE DumpMasternodePayments
  <2>1. disk' \in Saved
    BY <1>6 DEF DumpMasternodePayments, Saved, TypeOK
  <2> QED BY <1>6, <2>1 DEF DumpMasternodePayments, TypeOK, memory
<1>7. CASE TornWrite
  BY <1>7 DEF TornWrite, TypeOK, memory, Unreadable
<1>8. CASE Restart
  <2>1. /\ mapMasternodesLastVote' \in [MN -> Height \cup {None}]
        /\ nLastBlockHeight' \in Height
        /\ adding' \in [Thread -> Adding \cup {None}]
        /\ UNCHANGED <<tip, best, disk>>
    BY <1>8, HeightFacts DEF Restart, Started
  <2>2. CASE disk \in Unreadable
    BY <1>8, <2>1, <2>2 DEF Restart, TypeOK
  <2>3. CASE disk \notin Unreadable
    <3>1. disk \in Saved
      BY <2>3 DEF TypeOK
    <3> QED BY <1>8, <2>1, <2>3, <3>1 DEF Restart, TypeOK, Saved
  <2> QED BY <2>2, <2>3
<1>9. ASSUME NEW h \in 0 .. MaxTip, NewTip(h) PROVE TypeOK'
  BY <1>9 DEF NewTip, TypeOK, memory
<1>10. CASE UNCHANGED vars
  BY <1>10 DEF vars, TypeOK
<1> QED BY <1>1, <1>2, <1>3, <1>4, <1>5, <1>6, <1>7, <1>8, <1>9, <1>10 DEF Next

(* Every state of the payment votes is well typed.                         *)
THEOREM PaymentsTypeOK == Spec => []TypeOK
<1>1. Init => TypeOK
  BY HeightFacts, PaymentsAssumption DEF Init, TypeOK, Unreadable
<1> QED BY <1>1, TypeOKNext, PTL DEF Spec

-----------------------------------------------------------------------------
(* Every recorded vote is counted *)

(* The file was written with no vote in flight.                            *)
SavedIsCounted == disk \notin Unreadable => disk.votes \subseteq disk.counted

(* What RecordVote and AddPayee do to the votes in flight.                 *)
LEMMA InFlightRecord ==
  ASSUME TypeOK, NEW t \in Thread, NEW v \in Vote, NEW own \in Height \cup {None},
         adding[t] = None, RecordVote(t, v, own)
  PROVE  /\ InFlight' = InFlight \cup {v}
         /\ \A u \in Thread : adding'[u] = IF u = t THEN [vote |-> v, own |-> own]
                                           ELSE adding[u]
         /\ adding'[t] # None
<1>1. [vote |-> v, own |-> own] \in Adding /\ [vote |-> v, own |-> own] # None
  BY PaymentsAssumption DEF Adding
<1>2. \A u \in Thread : adding'[u] = IF u = t THEN [vote |-> v, own |-> own]
                                      ELSE adding[u]
  BY DEF RecordVote, TypeOK
<1>3. ASSUME NEW w \in InFlight \cup {v} PROVE w \in InFlight'
  <2>1. CASE w = v
    <3>1. adding'[t] # None /\ adding'[t].vote = w
      BY <1>1, <1>2, <2>1
    <3> QED BY <3>1 DEF InFlight
  <2>2. CASE w \in InFlight
    <3>1. PICK u \in Thread : adding[u] # None /\ w = adding[u].vote
      BY <2>2 DEF InFlight
    <3>2. adding'[u] = adding[u]
      BY <1>2, <3>1
    <3> QED BY <3>1, <3>2 DEF InFlight
  <2> QED BY <2>1, <2>2
<1>4. ASSUME NEW w \in InFlight' PROVE w \in InFlight \cup {v}
  <2>1. PICK u \in Thread : adding'[u] # None /\ w = adding'[u].vote
    BY DEF InFlight
  <2>2. CASE u = t
    BY <1>2, <2>1, <2>2
  <2>3. CASE u # t
    BY <1>2, <2>1, <2>3 DEF InFlight
  <2> QED BY <2>2, <2>3
<1> QED BY <1>1, <1>2, <1>3, <1>4

(* No cleaning, concurrent vote or restart leaves a recorded vote out of   *)
(* the counts once its counting is over.                                   *)
LEMMA RecordedIsCountedNext ==
  TypeOK /\ SavedIsCounted /\ RecordedIsCounted /\ [Next]_vars
    => SavedIsCounted' /\ RecordedIsCounted'
<1> SUFFICES ASSUME TypeOK, SavedIsCounted, RecordedIsCounted, [Next]_vars
             PROVE  SavedIsCounted' /\ RecordedIsCounted'
  OBVIOUS
<1>0. UNCHANGED disk => SavedIsCounted'
  BY DEF SavedIsCounted
<1>a. UNCHANGED adding => InFlight' = InFlight
  BY DEF InFlight
<1>b. UNCHANGED <<memory, adding>> => RecordedIsCounted'
  BY <1>a DEF RecordedIsCounted, memory
<1>1. ASSUME NEW t \in Thread, AddPayee(t) PROVE SavedIsCounted' /\ RecordedIsCounted'
  <2>1. /\ counted' = counted \cup {adding[t].vote}
        /\ UNCHANGED <<mapMasternodePayeeVotes, disk>>
        /\ \A u \in Thread : u # t => adding'[u] = adding[u]
    BY <1>1 DEF AddPayee, TypeOK
  <2>2. ASSUME NEW w \in InFlight PROVE w \in InFlight' \cup {adding[t].vote}
    <3>1. PICK u \in Thread : adding[u] # None /\ w = adding[u].vote
      BY DEF InFlight
    <3> QED BY <2>1, <3>1 DEF InFlight
  <2> QED BY <1>0, <2>1, <2>2 DEF RecordedIsCounted
<1>2. ASSUME NEW t \in Thread, NEW v \in Vote, NEW own \in Height \cup {None},
             adding[t] = None, RecordVote(t, v, own), UNCHANGED <<counted, disk>>
      PROVE  SavedIsCounted' /\ RecordedIsCounted'
  <2>1. InFlight' = InFlight \cup {v}
    BY <1>2, InFlightRecord
  <2> QED BY <1>0, <1>2, <2>1 DEF RecordedIsCounted, RecordVote
<1>3. ASSUME NEW v \in Signed, Mnw(v) PROVE SavedIsCounted' /\ RecordedIsCounted'
  BY <1>2, <1>3, PaymentsAssumption DEF Mnw
<1>4. ASSUME NEW t \in Thread, NEW p \in Queue, ProcessBlock(t, p)
      PROVE  SavedIsCounted' /\ RecordedIsCounted'
  <2>1. p \in AnyPayee
    BY PaymentsAssumption
  <2> DEFINE h == IF p = NoPayee THEN 0 ELSE tip + OwnAhead
             v == [mn |-> Self, height |-> h, payee |-> p]
  <2>2. v \in Vote
    BY <2>1, OwnVoteType
  <2>3. tip + OwnAhead \in Height
    BY HeightFacts DEF TypeOK
  <2>4. /\ RecordVote(t, v, tip + OwnAhead) /\ adding[t] = None
        /\ UNCHANGED <<counted, disk>>
    BY <1>4 DEF ProcessBlock
  <2> QED BY <1>2, <2>2, <2>3, <2>4
<1>5. ASSUME NEW n \in Limits, CleanPaymentList(n)
      PROVE  SavedIsCounted' /\ RecordedIsCounted'
  <2> DEFINE old == {v \in mapMasternodePayeeVotes : tip - v.height > n}
             gone == {v.height : v \in old}
  <2>1. /\ mapMasternodePayeeVotes' = mapMasternodePayeeVotes \ old
        /\ counted' = {v \in counted : v.height \notin gone}
        /\ UNCHANGED <<adding, disk>>
    BY <1>5 DEF CleanPaymentList
  <2>2. \A w \in mapMasternodePayeeVotes : w.height \in gone => w \in old
    OBVIOUS
  <2> HIDE DEF old, gone
  <2> QED BY <1>0, <1>a, <2>1, <2>2 DEF RecordedIsCounted
<1>6. CASE DumpMasternodePayments
  <2>1. InFlight = {}
    BY <1>6 DEF DumpMasternodePayments, InFlight
  <2>2. disk'.votes \subseteq disk'.counted
    BY <1>6, <2>1 DEF DumpMasternodePayments, RecordedIsCounted
  <2> QED BY <1>b, <1>6, <2>2 DEF DumpMasternodePayments, SavedIsCounted
<1>7. CASE TornWrite
  BY <1>b, <1>7 DEF TornWrite, SavedIsCounted, Unreadable
<1>8. CASE Restart
  <2>1. mapMasternodePayeeVotes' \subseteq counted'
    BY <1>8 DEF Restart, SavedIsCounted
  <2> QED BY <1>0, <1>8, <2>1 DEF RecordedIsCounted, Restart, Started
<1> QED BY <1>0, <1>b, <1>1, <1>3, <1>4, <1>5, <1>6, <1>7, <1>8
        DEF Next, MnwNotAdded, NewTip, vars, memory

(* A vote that would be refused as seen is in the counts, or about to be.  *)
THEOREM PaymentsRecordedIsCounted == Spec => []RecordedIsCounted
<1>1. Init => SavedIsCounted /\ RecordedIsCounted
  BY DEF Init, SavedIsCounted, RecordedIsCounted, Unreadable
<1> QED BY <1>1, PaymentsTypeOK, RecordedIsCountedNext, PTL DEF Spec

-----------------------------------------------------------------------------
(* No vote counts twice *)

(* A vote so old that no chain this node may come to would let it in.      *)
Stale(v) == v.height + Window + ReorgDepth < best

VotersIn(c, h, p) == {m \in MN : [mn |-> m, height |-> h, payee |-> p] \in c}

(* What holds of a table of entries and the votes c that were counted in   *)
(* it, in memory or in the file: a counted vote is still recorded or can   *)
(* not come again, an entry has its own height or none, and no payee has   *)
(* more votes than masternodes that voted for it.                          *)
Remembered(recorded, c) == \A v \in c : v.height # 0 => v \in recorded \/ Stale(v)
EntriesSound(blocks, c) ==
  \A h \in Height : blocks[h] # None =>
    /\ blocks[h].nBlockHeight \in {0, h}
    /\ h # 0 => \A p \in AnyPayee :
                 blocks[h].nVotes[p] <= Cardinality(VotersIn(c, h, p))

(* A vote in flight has not been counted, nor does another thread hold it. *)
FreshIn(t) ==
  LET v == adding[t].vote
  IN (adding[t] # None /\ v.height # 0) =>
       /\ v \in mapMasternodePayeeVotes \/ Stale(v)
       /\ v \notin counted
       /\ \A u \in Thread : (u # t /\ adding[u] # None) => adding[u].vote # v

TipNearBest == best - ReorgDepth <= tip /\ tip <= best

SavedSound == disk \notin Unreadable =>
                /\ Remembered(disk.votes, disk.counted)
                /\ EntriesSound(disk.blocks, disk.counted)

(* The inductive invariant: no vote is counted twice.                      *)
OnceCounted ==
  /\ TipNearBest
  /\ Remembered(mapMasternodePayeeVotes, counted)
  /\ EntriesSound(mapMasternodeBlocks, counted)
  /\ \A t \in Thread : FreshIn(t)
  /\ SavedSound

(* Voters are a finite set, and more counted votes mean more voters.       *)
LEMMA VotersFinite ==
  ASSUME NEW c, NEW h, NEW p
  PROVE  /\ IsFiniteSet(VotersIn(c, h, p))
         /\ Cardinality(VotersIn(c, h, p)) \in Nat
         /\ Cardinality(VotersIn(c, h, p)) <= Cardinality(MN)
<1>1. VotersIn(c, h, p) \in SUBSET MN
  BY DEF VotersIn
<1> QED BY <1>1, MasternodesAssumption, FS_Subset, FS_CardinalityType

(* Counting a vote takes no voter away.                                    *)
LEMMA VotersStay ==
  ASSUME NEW c, NEW v, NEW h, NEW p
  PROVE  Cardinality(VotersIn(c, h, p)) <= Cardinality(VotersIn(c \cup {v}, h, p))
<1>1. VotersIn(c, h, p) \subseteq VotersIn(c \cup {v}, h, p)
  BY DEF VotersIn
<1> QED BY <1>1, VotersFinite, FS_Subset

(* Counting a new vote adds its masternode to the voters of its payee.     *)
LEMMA VotersGrow ==
  ASSUME NEW c, NEW v \in Vote, v \notin c
  PROVE  Cardinality(VotersIn(c \cup {v}, v.height, v.payee)) =
           Cardinality(VotersIn(c, v.height, v.payee)) + 1
<1> DEFINE h == v.height
           p == v.payee
<1>1. v.mn \in MN /\ v = [mn |-> v.mn, height |-> h, payee |-> p]
  BY DEF Vote
<1>2. \A m \in MN : [mn |-> m, height |-> h, payee |-> p] = v => m = v.mn
  OBVIOUS
<1>3. VotersIn(c \cup {v}, h, p) = VotersIn(c, h, p) \cup {v.mn}
  BY <1>1, <1>2 DEF VotersIn
<1>4. v.mn \notin VotersIn(c, h, p)
  BY <1>1 DEF VotersIn
<1> QED BY <1>3, <1>4, VotersFinite, FS_AddElement

(* Stale votes stay stale as the best height grows.                        *)
LEMMA StaleStays ==
  ASSUME TypeOK, TypeOK', best <= best', NEW v \in Vote, Stale(v)
  PROVE  Stale(v)'
<1>1. v.height \in Nat /\ best \in Nat /\ best' \in Nat
  BY HeightFacts, PaymentsAssumption DEF Vote, TypeOK
<1> QED BY <1>1, PaymentsAssumption DEF Stale

(* A step that changes nothing but the tip, the best height and what       *)
(* CanVote remembers keeps the invariant.                                  *)
LEMMA OnlyTheTip ==
  ASSUME TypeOK, TypeOK', OnceCounted, best <= best', TipNearBest',
         UNCHANGED <<memory, adding>>
  PROVE  /\ TipNearBest'
         /\ Remembered(mapMasternodePayeeVotes, counted)'
         /\ EntriesSound(mapMasternodeBlocks, counted)'
         /\ (\A t \in Thread : FreshIn(t))'
         /\ UNCHANGED disk => SavedSound'
<1>1. \A v \in Vote : Stale(v) => Stale(v)'
  BY StaleStays
<1>2. Remembered(mapMasternodePayeeVotes, counted)'
  BY <1>1 DEF OnceCounted, Remembered, memory, TypeOK
<1>3. EntriesSound(mapMasternodeBlocks, counted)'
  BY DEF OnceCounted, EntriesSound, memory, VotersIn
<1>4. ASSUME NEW t \in Thread PROVE FreshIn(t)'
  <2>1. adding[t] # None => adding[t].vote \in Vote
    BY DEF TypeOK, Adding
  <2> QED BY <1>1, <2>1 DEF OnceCounted, FreshIn, memory
<1>5. ASSUME UNCHANGED disk, disk \notin Unreadable
      PROVE  Remembered(disk.votes, disk.counted)' /\ EntriesSound(disk.blocks, disk.counted)'
  <2>1. disk.counted \subseteq Vote
    BY <1>5 DEF TypeOK, Saved
  <2>2. Remembered(disk.votes, disk.counted) /\ EntriesSound(disk.blocks, disk.counted)
    BY <1>5 DEF OnceCounted, SavedSound
  <2> QED BY <1>1, <1>5, <2>1, <2>2 DEF Remembered, EntriesSound, VotersIn
<1> QED BY <1>2, <1>3, <1>4, <1>5 DEF SavedSound

(* Recording a vote that is new and not stale keeps the invariant.         *)
LEMMA OnceCountedRecord ==
  ASSUME TypeOK, OnceCounted, NEW t \in Thread, NEW v \in Vote,
         NEW own \in Height \cup {None}, adding[t] = None, RecordVote(t, v, own),
         v.height = 0 \/ ~Stale(v),
         UNCHANGED <<tip, best, counted, disk>>
  PROVE  OnceCounted'
<1>0. \A w : Stale(w)' <=> Stale(w)
  BY DEF Stale
<1>1. TipNearBest' /\ SavedSound'
  BY DEF OnceCounted, TipNearBest, SavedSound, Remembered, EntriesSound, Stale, VotersIn
<1>2. Remembered(mapMasternodePayeeVotes, counted)'
  BY <1>0 DEF OnceCounted, Remembered, RecordVote
<1>3. EntriesSound(mapMasternodeBlocks, counted)'
  <2>1. \A h \in Height : \/ mapMasternodeBlocks'[h] = mapMasternodeBlocks[h]
                          \/ mapMasternodeBlocks'[h] = Empty(h)
    BY DEF RecordVote, TypeOK
  <2>2. \A h : /\ Empty(h).nBlockHeight = h
               /\ \A p \in AnyPayee : Empty(h).nVotes[p] = 0
    BY DEF Empty, NoVotes
  <2>3. \A h, p : Cardinality(VotersIn(counted, h, p)) >= 0
    BY VotersFinite
  <2>4. EntriesSound(mapMasternodeBlocks, counted)
    BY DEF OnceCounted
  <2> SUFFICES ASSUME NEW h \in Height, mapMasternodeBlocks'[h] # None
               PROVE  /\ mapMasternodeBlocks'[h].nBlockHeight \in {0, h}
                      /\ h # 0 => \A p \in AnyPayee :
                           mapMasternodeBlocks'[h].nVotes[p]
                             <= Cardinality(VotersIn(counted, h, p))
    BY DEF EntriesSound, VotersIn
  <2> QED BY <2>1, <2>2, <2>3, <2>4 DEF EntriesSound
<1>4. ASSUME NEW u \in Thread PROVE FreshIn(u)'
  <2>1. /\ \A q \in Thread : adding'[q] = IF q = t THEN [vote |-> v, own |-> own]
                                           ELSE adding[q]
        /\ adding'[t] # None
    BY InFlightRecord
  <2>2. v \notin mapMasternodePayeeVotes /\ mapMasternodePayeeVotes' = mapMasternodePayeeVotes \cup {v}
    BY DEF RecordVote
  <2>3. v.height # 0 => v \notin counted
    BY <2>2 DEF OnceCounted, Remembered
  <2>4. \A q \in Thread : (adding[q] # None /\ adding[q].vote.height # 0) =>
          adding[q].vote # v
    BY <2>2 DEF OnceCounted, FreshIn
  <2>5. CASE u = t
    <3>1. adding'[t].vote = v
      BY <2>1
    <3> QED BY <2>1, <2>2, <2>3, <2>4, <2>5, <3>1 DEF FreshIn
  <2>6. CASE u # t
    <3>1. FreshIn(u)
      BY DEF OnceCounted
    <3>2. adding'[u] = adding[u] /\ adding'[t].vote = v
      BY <2>1, <2>6
    <3> QED BY <1>0, <2>1, <2>2, <2>4, <3>1, <3>2 DEF FreshIn
  <2> QED BY <2>5, <2>6
<1> QED BY <1>1, <1>2, <1>3, <1>4 DEF OnceCounted

(* Counting a vote in flight keeps the invariant.                          *)
LEMMA OnceCountedAdd ==
  ASSUME TypeOK, OnceCounted, NEW t \in Thread, AddPayee(t)
  PROVE  OnceCounted'
<1> DEFINE v == adding[t].vote
           e == IF mapMasternodeBlocks[v.height] = None THEN Empty(0)
                ELSE mapMasternodeBlocks[v.height]
<1>0. \A w : Stale(w)' <=> Stale(w)
  BY DEF Stale, AddPayee
<1>1. TipNearBest' /\ SavedSound'
  BY DEF OnceCounted, TipNearBest, SavedSound, Remembered, EntriesSound, Stale,
         VotersIn, AddPayee
<1>2. /\ adding[t] \in Adding /\ adding[t] # None
      /\ v \in Vote /\ v.height \in Height /\ v.payee \in AnyPayee
  BY DEF AddPayee, TypeOK, Adding, Vote
<1>3. /\ counted' = counted \cup {v}
      /\ mapMasternodePayeeVotes' = mapMasternodePayeeVotes
      /\ mapMasternodeBlocks' =
           [mapMasternodeBlocks EXCEPT ![v.height] = [e EXCEPT !.nVotes[v.payee] = @ + 1]]
      /\ \A u \in Thread : adding'[u] = IF u = t THEN None ELSE adding[u]
  BY DEF AddPayee, TypeOK
<1>4. v.height # 0 => /\ v \in mapMasternodePayeeVotes \/ Stale(v)
                      /\ v \notin counted
                      /\ \A u \in Thread : (u # t /\ adding[u] # None) => adding[u].vote # v
  BY <1>2 DEF OnceCounted, FreshIn
<1>5. Remembered(mapMasternodePayeeVotes, counted)'
  BY <1>0, <1>3, <1>4 DEF OnceCounted, Remembered
<1>6. EntriesSound(mapMasternodeBlocks, counted)'
  <2> SUFFICES ASSUME NEW h \in Height, mapMasternodeBlocks'[h] # None
               PROVE  /\ mapMasternodeBlocks'[h].nBlockHeight \in {0, h}
                      /\ h # 0 => \A p \in AnyPayee :
                           mapMasternodeBlocks'[h].nVotes[p]
                             <= Cardinality(VotersIn(counted', h, p))
    BY DEF EntriesSound, VotersIn
  <2>1. EntriesSound(mapMasternodeBlocks, counted)
    BY DEF OnceCounted
  <2>2. \A p : /\ Cardinality(VotersIn(counted, h, p)) \in Nat
               /\ Cardinality(VotersIn(counted', h, p)) \in Nat
               /\ Cardinality(VotersIn(counted, h, p)) <= Cardinality(VotersIn(counted', h, p))
    BY <1>3, VotersFinite, VotersStay
  <2>3. CASE h # v.height
    <3>1. mapMasternodeBlocks'[h] = mapMasternodeBlocks[h]
      BY <1>3, <2>3 DEF TypeOK
    <3>2. mapMasternodeBlocks[h] \in Entry
      BY <3>1 DEF TypeOK
    <3>3. \A p \in AnyPayee : mapMasternodeBlocks[h].nVotes[p] \in Nat
      BY <3>2 DEF Entry
    <3> QED BY <2>1, <2>2, <3>1, <3>3 DEF EntriesSound
  <2>4. CASE h = v.height
    <3>1. e \in Entry
      BY <1>2, EntryFacts, HeightFacts DEF TypeOK
    <3>2. mapMasternodeBlocks'[h] = [e EXCEPT !.nVotes[v.payee] = @ + 1]
      BY <1>2, <1>3, <2>4 DEF TypeOK
    <3>3. /\ e.nBlockHeight \in {0, h}
          /\ \A p \in AnyPayee : e.nVotes[p] \in Nat
          /\ h # 0 => \A p \in AnyPayee :
               e.nVotes[p] <= Cardinality(VotersIn(counted, h, p))
      <4>1. CASE mapMasternodeBlocks[v.height] = None
        <5>1. e = Empty(0)
          BY <4>1
        <5>2. Empty(0).nBlockHeight = 0 /\ \A p \in AnyPayee : Empty(0).nVotes[p] = 0
          BY DEF Empty, NoVotes
        <5> HIDE DEF e
        <5> QED BY <2>2, <5>1, <5>2
      <4>2. CASE mapMasternodeBlocks[v.height] # None
        <5>1. e = mapMasternodeBlocks[h]
          BY <2>4, <4>2
        <5>2. \A p \in AnyPayee : e.nVotes[p] \in Nat
          BY <3>1 DEF Entry
        <5> QED BY <2>1, <2>4, <4>2, <5>1, <5>2 DEF EntriesSound
      <4> QED BY <4>1, <4>2
    <3> HIDE DEF e
    <3>4. /\ mapMasternodeBlocks'[h].nBlockHeight = e.nBlockHeight
          /\ \A p \in AnyPayee : mapMasternodeBlocks'[h].nVotes[p] =
               IF p = v.payee THEN e.nVotes[p] + 1 ELSE e.nVotes[p]
      BY <1>2, <3>1, <3>2 DEF Entry
    <3>5. h # 0 => Cardinality(VotersIn(counted', h, v.payee)) =
                     Cardinality(VotersIn(counted, h, v.payee)) + 1
      <4>1. v \notin counted =>
              Cardinality(VotersIn(counted \cup {v}, v.height, v.payee)) =
                Cardinality(VotersIn(counted, v.height, v.payee)) + 1
        BY <1>2, VotersGrow
      <4>2. h # 0 => v \notin counted
        BY <1>4, <2>4
      <4>3. counted' = counted \cup {v}
        BY <1>3
      <4> HIDE DEF v
      <4> QED BY <2>4, <4>1, <4>2, <4>3
    <3>6. ASSUME h # 0, NEW p \in AnyPayee
          PROVE  mapMasternodeBlocks'[h].nVotes[p] <= Cardinality(VotersIn(counted', h, p))
      <4>1. CASE p = v.payee
        BY <2>2, <3>3, <3>4, <3>5, <3>6, <4>1
      <4>2. CASE p # v.payee
        BY <2>2, <3>3, <3>4, <3>6, <4>2
      <4> QED BY <4>1, <4>2
    <3> QED BY <3>3, <3>4, <3>6
  <2> QED BY <2>3, <2>4
<1>7. ASSUME NEW u \in Thread PROVE FreshIn(u)'
  <2>1. CASE u = t
    BY <1>3, <2>1 DEF FreshIn
  <2>2. CASE u # t
    <3>1. FreshIn(u) /\ adding'[u] = adding[u]
      BY <1>3, <2>2 DEF OnceCounted
    <3>2. \A q \in Thread : adding'[q] # None => adding'[q] = adding[q]
      BY <1>3
    <3>3. (adding[u] # None /\ adding[u].vote.height # 0) => adding[u].vote # v
      BY <1>2, <2>2, <3>1 DEF FreshIn
    <3> QED BY <1>0, <1>3, <3>1, <3>2, <3>3 DEF FreshIn
  <2> QED BY <2>1, <2>2
<1> QED BY <1>1, <1>5, <1>6, <1>7 DEF OnceCounted

(* The cleaning keeps the invariant: what it forgets of a vote that is in  *)
(* flight is too old to come again.                                        *)
LEMMA OnceCountedClean ==
  ASSUME TypeOK, OnceCounted, NEW n \in Limits, CleanPaymentList(n)
  PROVE  OnceCounted'
<1> DEFINE old == {v \in mapMasternodePayeeVotes : tip - v.height > n}
           gone == {v.height : v \in old}
<1>0. \A w : Stale(w)' <=> Stale(w)
  BY DEF Stale, CleanPaymentList
<1>1. TipNearBest' /\ SavedSound'
  BY DEF OnceCounted, TipNearBest, SavedSound, Remembered, EntriesSound, Stale,
         VotersIn, CleanPaymentList
<1>2. /\ mapMasternodePayeeVotes' = mapMasternodePayeeVotes \ old
      /\ mapMasternodeBlocks' = [h \in Height |->
           IF h \in gone THEN None ELSE mapMasternodeBlocks[h]]
      /\ counted' = {v \in counted : v.height \notin gone}
      /\ adding' = adding
  BY DEF CleanPaymentList
<1>3. \A w \in old : Stale(w) /\ w.height \in gone
  <2>1. ASSUME NEW w \in old PROVE Stale(w)
    <3>1. w.height \in Nat /\ tip \in Nat /\ best \in Nat /\ tip - w.height > n
      BY HeightFacts, PaymentsAssumption DEF Vote, TypeOK
    <3>2. n \in Nat /\ Window + ReorgDepth <= n /\ tip <= best
      BY LimitsAssumption DEF OnceCounted, TipNearBest
    <3> QED BY <3>1, <3>2, PaymentsAssumption DEF Stale
  <2> QED BY <2>1
<1> HIDE DEF old, gone
<1>4. Remembered(mapMasternodePayeeVotes, counted)'
  BY <1>0, <1>2, <1>3 DEF OnceCounted, Remembered
<1>5. EntriesSound(mapMasternodeBlocks, counted)'
  <2> SUFFICES ASSUME NEW h \in Height, mapMasternodeBlocks'[h] # None
               PROVE  /\ mapMasternodeBlocks'[h].nBlockHeight \in {0, h}
                      /\ h # 0 => \A p \in AnyPayee :
                           mapMasternodeBlocks'[h].nVotes[p]
                             <= Cardinality(VotersIn(counted', h, p))
    BY DEF EntriesSound, VotersIn
  <2>1. h \notin gone /\ mapMasternodeBlocks'[h] = mapMasternodeBlocks[h]
    BY <1>2
  <2>2. \A p : VotersIn(counted', h, p) = VotersIn(counted, h, p)
    BY <1>2, <2>1 DEF VotersIn
  <2> QED BY <2>1, <2>2 DEF OnceCounted, EntriesSound
<1>6. ASSUME NEW t \in Thread PROVE FreshIn(t)'
  BY <1>0, <1>2, <1>3 DEF OnceCounted, FreshIn
<1> QED BY <1>1, <1>4, <1>5, <1>6 DEF OnceCounted

(* A vote that comes in the window, and this node's own vote, is not stale. *)
LEMMA NewVoteNotStale ==
  ASSUME TypeOK, TipNearBest, NEW v \in Vote,
         InWindow(v.height) \/ v.height = tip + OwnAhead
  PROVE  ~Stale(v)
<1>1. v.height \in Nat /\ tip \in Nat /\ best \in Nat
  BY HeightFacts, PaymentsAssumption DEF Vote, TypeOK
<1> QED BY <1>1, PaymentsAssumption DEF Stale, InWindow, TipNearBest

(* Every step keeps the counts free of a vote twice.                       *)
LEMMA OnceCountedNext == TypeOK /\ TypeOK' /\ OnceCounted /\ [Next]_vars => OnceCounted'
<1> SUFFICES ASSUME TypeOK, TypeOK', OnceCounted, [Next]_vars PROVE OnceCounted'
  OBVIOUS
<1>0. TipNearBest /\ tip \in Nat /\ best \in Nat
  BY PaymentsAssumption DEF OnceCounted, TypeOK
<1>1. ASSUME NEW v \in Signed, Mnw(v) PROVE OnceCounted'
  <2>1. v \in Vote /\ MessageThread \in Thread /\ adding[MessageThread] = None
    BY <1>1, PaymentsAssumption DEF Mnw
  <2>2. ~Stale(v)
    BY <1>0, <1>1, <2>1, NewVoteNotStale DEF Mnw
  <2> QED BY <1>1, <2>1, <2>2, OnceCountedRecord DEF Mnw
<1>2. ASSUME NEW t \in Thread, NEW p \in Queue, ProcessBlock(t, p) PROVE OnceCounted'
  <2>1. p \in AnyPayee
    BY PaymentsAssumption
  <2> DEFINE h == IF p = NoPayee THEN 0 ELSE tip + OwnAhead
             v == [mn |-> Self, height |-> h, payee |-> p]
  <2>2. v \in Vote /\ v.height = h
    BY <2>1, OwnVoteType
  <2>3. tip + OwnAhead \in Height
    BY HeightFacts DEF TypeOK
  <2>4. /\ RecordVote(t, v, tip + OwnAhead) /\ adding[t] = None
        /\ UNCHANGED <<tip, best, counted, disk>>
    BY <1>2 DEF ProcessBlock
  <2> HIDE DEF v
  <2>5. v.height = 0 \/ ~Stale(v)
    BY <1>0, <2>2, NewVoteNotStale
  <2> QED BY <2>2, <2>3, <2>4, <2>5, OnceCountedRecord
<1>3. CASE DumpMasternodePayments
  <2>1. UNCHANGED <<tip, best, memory, adding>>
    BY <1>3 DEF DumpMasternodePayments, memory
  <2>2. best <= best' /\ TipNearBest'
    BY <1>0, <2>1 DEF TipNearBest
  <2>3. /\ Remembered(mapMasternodePayeeVotes, counted)'
        /\ EntriesSound(mapMasternodeBlocks, counted)'
        /\ (\A t \in Thread : FreshIn(t))'
    BY <2>1, <2>2, OnlyTheTip
  <2>4. /\ disk'.votes = mapMasternodePayeeVotes' /\ disk'.counted = counted'
        /\ disk'.blocks = mapMasternodeBlocks'
    BY <1>3 DEF DumpMasternodePayments, memory
  <2>5. SavedSound'
    BY <2>3, <2>4 DEF SavedSound, Remembered, EntriesSound
  <2> QED BY <2>2, <2>3, <2>5 DEF OnceCounted
<1>4. CASE TornWrite
  <2>1. UNCHANGED <<tip, best, memory, adding>> /\ disk' = Corrupt
    BY <1>4 DEF TornWrite, memory
  <2>2. best <= best' /\ TipNearBest'
    BY <1>0, <2>1 DEF TipNearBest
  <2>3. SavedSound'
    BY <2>1 DEF SavedSound, Unreadable
  <2> QED BY <2>1, <2>2, <2>3, OnlyTheTip DEF OnceCounted
<1>5. CASE Restart
  <2>1. UNCHANGED <<tip, best, disk>> /\ \A t \in Thread : adding'[t] = None
    BY <1>5 DEF Restart, Started
  <2>2. TipNearBest' /\ SavedSound'
    BY <2>1 DEF OnceCounted, TipNearBest, SavedSound, Remembered, EntriesSound,
                Stale, VotersIn
  <2>3. (\A t \in Thread : FreshIn(t))'
    BY <2>1 DEF FreshIn
  <2>4. CASE disk \in Unreadable
    <3>1. counted' = {} /\ \A h \in Height : mapMasternodeBlocks'[h] = None
      BY <1>5, <2>4 DEF Restart
    <3> QED BY <2>2, <2>3, <3>1 DEF OnceCounted, Remembered, EntriesSound
  <2>5. CASE disk \notin Unreadable
    <3>1. /\ disk'.votes = mapMasternodePayeeVotes' /\ disk'.counted = counted'
          /\ disk'.blocks = mapMasternodeBlocks'
      BY <1>5, <2>1, <2>5 DEF Restart
    <3> QED BY <2>1, <2>2, <2>3, <2>5, <3>1
            DEF OnceCounted, SavedSound, Remembered, EntriesSound
  <2> QED BY <2>4, <2>5
<1>6. ASSUME NEW h \in 0 .. MaxTip, NewTip(h) PROVE OnceCounted'
  <2>1. /\ tip' = h /\ best' = IF h > best THEN h ELSE best
        /\ h >= best - ReorgDepth /\ UNCHANGED <<memory, adding, disk>>
    BY <1>6 DEF NewTip, memory
  <2>2. best <= best' /\ TipNearBest'
    BY <1>0, <2>1, PaymentsAssumption DEF TipNearBest
  <2> QED BY <2>1, <2>2, OnlyTheTip DEF OnceCounted
<1>7. ASSUME UNCHANGED <<tip, best, memory, adding, disk>> PROVE OnceCounted'
  <2>1. best <= best' /\ TipNearBest'
    BY <1>0, <1>7 DEF TipNearBest
  <2> QED BY <1>7, <2>1, OnlyTheTip DEF OnceCounted
<1> QED BY <1>1, <1>2, <1>3, <1>4, <1>5, <1>6, <1>7, OnceCountedAdd, OnceCountedClean
        DEF Next, MnwNotAdded, vars, memory

(* No vote is counted twice in an entry, whatever is cleaned, lost in a    *)
(* crash or sent again.                                                    *)
THEOREM PaymentsOnceCounted == Spec => []OnceCounted
<1>1. Init => OnceCounted
  <2> SUFFICES ASSUME Init PROVE OnceCounted
    OBVIOUS
  <2>1. TipNearBest
    BY PaymentsAssumption DEF Init, TipNearBest
  <2> QED BY <2>1 DEF Init, OnceCounted, Remembered, EntriesSound, FreshIn, SavedSound, Unreadable
<1> QED BY <1>1, PaymentsTypeOK, OnceCountedNext, PTL DEF Spec

(* A payee is enforced only with the votes of REQUIRED masternodes.        *)
THEOREM PaymentsEnforcedHasQuorum == Spec => []EnforcedHasQuorum
<1>1. TypeOK /\ OnceCounted => EnforcedHasQuorum
  <2> SUFFICES ASSUME TypeOK, OnceCounted, NEW h \in Height \ {0}, NEW p \in Enforced(h)
               PROVE  Cardinality(Voters(h, p)) >= REQUIRED
    BY DEF EnforcedHasQuorum
  <2>1. p \in AnyPayee /\ Votes(h, p) >= REQUIRED /\ REQUIRED \in Nat \ {0}
    BY PaymentsAssumption DEF Enforced
  <2>2. mapMasternodeBlocks[h] # None /\ Votes(h, p) = mapMasternodeBlocks[h].nVotes[p]
    BY <2>1 DEF Votes
  <2>3. mapMasternodeBlocks[h].nVotes[p] \in Nat
    BY <2>1, <2>2 DEF TypeOK, Entry
  <2>4. Voters(h, p) = VotersIn(counted, h, p)
    BY DEF Voters, VotersIn
  <2>5. mapMasternodeBlocks[h].nVotes[p] <= Cardinality(VotersIn(counted, h, p))
    BY <2>1, <2>2 DEF OnceCounted, EntriesSound
  <2>6. Cardinality(VotersIn(counted, h, p)) \in Nat
    BY VotersFinite
  <2> QED BY <2>1, <2>2, <2>3, <2>4, <2>5, <2>6
<1> QED BY <1>1, PaymentsTypeOK, PaymentsOnceCounted, PTL

-----------------------------------------------------------------------------
(* A block this node makes passes its own check *)

(* The subsidy never rises from one block to the next after the genesis    *)
(* block.                                                                  *)
LEMMA SubsidyFalls ==
  ASSUME NEW h \in Nat, h >= 1
  PROVE  /\ Subsidy(h) \in Nat /\ Subsidy(h + 1) \in Nat
         /\ Subsidy(h + 1) <= Subsidy(h)
<1>1. COIN \in Nat /\ HALVING \in Nat /\ HALVING >= 1 /\ LAST_HEIGHT \in Nat
      /\ 8 * HALVING <= LAST_HEIGHT
  BY RewardAssumption
<1> QED BY <1>1 DEF Subsidy

(* So neither does the reward, with the same supply, nor the masternode's  *)
(* share of it once masternodes are paid.                                  *)
LEMMA PaymentFalls ==
  ASSUME NEW h \in Nat, h >= LAST_POW, NEW s \in Supplies
  PROVE  /\ Payment(h, s) \in Nat
         /\ Payment(h + 1, s) <= Payment(h, s)
         /\ Payment(0, s) <= Payment(h, s)
<1>1. h >= 1 /\ s \in Nat /\ MaxMoneyOut \in Nat /\ LAST_POW \in Nat /\ LAST_POW >= 1
  BY RewardAssumption
<1>2. /\ GetBlockValue(h, s) \in Nat /\ GetBlockValue(h + 1, s) \in Nat
      /\ GetBlockValue(h + 1, s) <= GetBlockValue(h, s)
  BY <1>1, SubsidyFalls DEF GetBlockValue
<1>3. \A x, y \in Nat : x <= y => (3 * x) \div 4 <= (3 * y) \div 4
  OBVIOUS
<1>4. \A x \in Nat : (3 * x) \div 4 \in Nat
  OBVIOUS
<1> QED BY <1>1, <1>2, <1>3, <1>4 DEF Payment, GetMasternodePayment

(* A height with a vote has a payee with the most votes.                   *)
LEMMA PayeeExists ==
  ASSUME TypeOK, OnceCounted, NEW h \in Height \ {0}, NEW p \in AnyPayee, Votes(h, p) > 0
  PROVE  GetPayee(h) # {}
<1> DEFINE N == Cardinality(MN)
           T == {N - Votes(h, q) : q \in AnyPayee}
<1>1. \A q \in AnyPayee : Votes(h, q) \in Nat /\ Votes(h, q) <= N
  <2> SUFFICES ASSUME NEW q \in AnyPayee
               PROVE  Votes(h, q) \in Nat /\ Votes(h, q) <= N
    OBVIOUS
  <2>0. N \in Nat
    BY MasternodesAssumption, FS_CardinalityType
  <2>1. CASE mapMasternodeBlocks[h] = None
    BY <2>0, <2>1 DEF Votes
  <2>2. CASE mapMasternodeBlocks[h] # None
    <3>1. mapMasternodeBlocks[h].nVotes[q] \in Nat
      BY <2>2 DEF TypeOK, Entry
    <3>2. mapMasternodeBlocks[h].nVotes[q] <= Cardinality(VotersIn(counted, h, q))
      BY <2>2 DEF OnceCounted, EntriesSound
    <3>3. /\ Cardinality(VotersIn(counted, h, q)) \in Nat
          /\ Cardinality(VotersIn(counted, h, q)) <= N
      BY VotersFinite
    <3> QED BY <2>0, <2>2, <3>1, <3>2, <3>3 DEF Votes
  <2> QED BY <2>1, <2>2
<1>2. N \in Nat
  BY MasternodesAssumption, FS_CardinalityType
<1>3. T \subseteq Nat /\ T # {}
  BY <1>1, <1>2
<1>4. PICK x \in T : \A y \in T : ~(<<y, x>> \in OpToRel(<, Nat))
  BY <1>3, WFMin, NatLessThanWellFounded
<1>5. PICK q \in AnyPayee : x = N - Votes(h, q)
  OBVIOUS
<1>6. ASSUME NEW r \in AnyPayee PROVE Votes(h, r) <= Votes(h, q)
  <2>1. N - Votes(h, r) \in T /\ N - Votes(h, r) \in Nat /\ x \in Nat
    BY <1>3
  <2>2. ~(N - Votes(h, r) < x)
    BY <1>4, <2>1 DEF OpToRel
  <2> QED BY <1>1, <1>2, <1>5, <2>2
<1>7. Votes(h, q) > 0
  BY <1>1, <1>6
<1> QED BY <1>6, <1>7 DEF GetPayee

(* A block this node makes pays the payee its own check enforces, and      *)
(* enough, for every amount of coins in existence.                         *)
THEOREM PaymentsOwnBlockAccepted == Spec => []OwnBlockAccepted
<1>1. TypeOK /\ OnceCounted => OwnBlockAccepted
  <2> SUFFICES ASSUME TypeOK, OnceCounted, NEW s \in Supplies, tip >= LAST_POW,
                      NEW p \in FillBlockPayee(s).payees,
                      Enforced(tip + 1) # {}
               PROVE  /\ p \in Enforced(tip + 1)
                      /\ FillBlockPayee(s).amount
                           >= Payment(mapMasternodeBlocks[tip + 1].nBlockHeight, s)
    BY DEF OwnBlockAccepted, IsTransactionValid
  <2> DEFINE h == tip + 1
  <2>1. tip \in Nat /\ h \in Height \ {0}
    BY HeightFacts, PaymentsAssumption DEF TypeOK
  <2>2. PICK q \in AnyPayee : Votes(h, q) >= REQUIRED
    BY DEF Enforced
  <2>3. \A r \in AnyPayee : Votes(h, r) \in Nat
    BY <2>1 DEF Votes, TypeOK, Entry
  <2>4. Votes(h, q) > 0
    BY <2>2, <2>3, PaymentsAssumption
  <2>5. GetPayee(h) # {}
    BY <2>1, <2>4, PayeeExists
  <2>6. p \in GetPayee(h)
    BY <2>5 DEF FillBlockPayee
  <2>7. p \in AnyPayee /\ Votes(h, p) >= REQUIRED
    BY <2>2, <2>3, <2>6, PaymentsAssumption DEF GetPayee
  <2>8. mapMasternodeBlocks[h] # None
    BY <2>4 DEF Votes
  <2>9. mapMasternodeBlocks[h].nBlockHeight \in {0, h}
    BY <2>1, <2>8 DEF OnceCounted, EntriesSound
  <2>10. FillBlockPayee(s).amount = Payment(tip, s)
    BY DEF FillBlockPayee
  <2>11. /\ Payment(h, s) <= Payment(tip, s) /\ Payment(0, s) <= Payment(tip, s)
    BY <2>1, PaymentFalls
  <2> QED BY <2>7, <2>9, <2>10, <2>11 DEF Enforced
<1> QED BY <1>1, PaymentsTypeOK, PaymentsOnceCounted, PTL

-----------------------------------------------------------------------------
(* Budget: entries and their votes *)

(* Who may have cast the vote s that item i has of masternode m: m signed  *)
(* one, this node's operator did, or AutoCheck.                            *)
Cast(i, m, s) ==
  \/ \E v \in scene.signed \cup scene.own :
       v.item = i /\ v.mn = m /\ v.time = s.time /\ v.yes = s.yes
  \/ i \in Budgets /\ m = Self /\ s.yes /\ s.time \in Times /\ scene.mode = "auto"

(* Every vote of the entry e of item i was cast for i.                     *)
VotesCast(i, e) == \A m \in MN : e.votes[m] # None => Cast(i, m, e.votes[m])

(* The votes of e are in f, or later ones of the same masternodes.         *)
Keeps(e, f) == \A m \in MN : e.votes[m] # None =>
  /\ f.votes[m] # None
  /\ \/ f.votes[m].time = e.votes[m].time /\ f.votes[m].yes = e.votes[m].yes
     \/ f.votes[m].time >= e.votes[m].time + UPDATE_MIN

(* The same for whole tables.                                              *)
GoodTable(list) ==
  /\ list \in [Item -> BudgetEntry \cup {None}]
  /\ \A i \in Item : list[i] # None => VotesCast(i, list[i])
KeepsTable(list, next) == \A i \in Item :
  list[i] # None => next[i] # None /\ Keeps(list[i], next[i])

(* The types of the parts of an entry.                                     *)
LEMMA EntryParts ==
  ASSUME NEW e \in BudgetEntry, NEW m \in MN
  PROVE  /\ e.votes \in [MN -> Stored \cup {None}]
         /\ e.votes[m] # None => /\ e.votes[m] \in Stored
                                 /\ e.votes[m].time \in Nat /\ e.votes[m].yes \in BOOLEAN
  BY DEF BudgetEntry, Stored

(* An entry keeps its own votes, and what keeps them keeps what they keep. *)
LEMMA KeepsOrder ==
  /\ \A e : Keeps(e, e)
  /\ \A e, f, g \in BudgetEntry : Keeps(e, f) /\ Keeps(f, g) => Keeps(e, g)
<1>1. \A e : Keeps(e, e)
  BY DEF Keeps
<1>2. ASSUME NEW e \in BudgetEntry, NEW f \in BudgetEntry, NEW g \in BudgetEntry,
             Keeps(e, f), Keeps(f, g)
      PROVE  Keeps(e, g)
  <2> SUFFICES ASSUME NEW m \in MN, e.votes[m] # None
               PROVE  /\ g.votes[m] # None
                      /\ \/ g.votes[m].time = e.votes[m].time /\ g.votes[m].yes = e.votes[m].yes
                         \/ g.votes[m].time >= e.votes[m].time + UPDATE_MIN
    BY DEF Keeps
  <2>1. /\ f.votes[m] # None
        /\ \/ f.votes[m].time = e.votes[m].time /\ f.votes[m].yes = e.votes[m].yes
           \/ f.votes[m].time >= e.votes[m].time + UPDATE_MIN
    BY <1>2 DEF Keeps
  <2>2. /\ g.votes[m] # None
        /\ \/ g.votes[m].time = f.votes[m].time /\ g.votes[m].yes = f.votes[m].yes
           \/ g.votes[m].time >= f.votes[m].time + UPDATE_MIN
    BY <1>2, <2>1 DEF Keeps
  <2>3. e.votes[m].time \in Nat /\ f.votes[m].time \in Nat /\ g.votes[m].time \in Nat
    BY <2>1, <2>2, EntryParts
  <2>4. UPDATE_MIN \in Nat
    BY BudgetAssumption
  <2> QED BY <2>1, <2>2, <2>3, <2>4
<1> QED BY <1>1, <1>2

(* The same for tables.                                                    *)
LEMMA KeepsTableOrder ==
  /\ \A list : KeepsTable(list, list)
  /\ \A a, b, c \in [Item -> BudgetEntry \cup {None}] :
       KeepsTable(a, b) /\ KeepsTable(b, c) => KeepsTable(a, c)
<1>1. \A list : KeepsTable(list, list)
  BY KeepsOrder DEF KeepsTable
<1>2. ASSUME NEW a \in [Item -> BudgetEntry \cup {None}],
             NEW b \in [Item -> BudgetEntry \cup {None}],
             NEW c \in [Item -> BudgetEntry \cup {None}],
             KeepsTable(a, b), KeepsTable(b, c), NEW i \in Item, a[i] # None
      PROVE  c[i] # None /\ Keeps(a[i], c[i])
  <2>1. b[i] # None /\ c[i] # None /\ Keeps(a[i], b[i]) /\ Keeps(b[i], c[i])
    BY <1>2 DEF KeepsTable
  <2>2. a[i] \in BudgetEntry /\ b[i] \in BudgetEntry /\ c[i] \in BudgetEntry
    BY <1>2, <2>1
  <2> QED BY <2>1, <2>2, KeepsOrder
<1>3. \A a, b, c \in [Item -> BudgetEntry \cup {None}] :
        KeepsTable(a, b) /\ KeepsTable(b, c) => KeepsTable(a, c)
  BY <1>2 DEF KeepsTable
<1> QED BY <1>1, <1>3

(* A fresh entry has no votes.                                             *)
LEMMA NewFacts == New \in BudgetEntry /\ New # None /\ \A i : VotesCast(i, New)
<1>1. New \in BudgetEntry
  BY DEF New, BudgetEntry
<1>2. \A m \in MN : New.votes[m] = None
  BY DEF New
<1> QED BY <1>1, <1>2, BudgetAssumption DEF VotesCast

(* Put of a vote that AddOrUpdateVote accepts.                             *)
LEMMA PutFacts ==
  ASSUME NEW i, NEW e \in BudgetEntry, VotesCast(i, e),
         NEW v, v.mn \in MN, v.time \in Nat, v.yes \in BOOLEAN,
         Accepts(e, v), Cast(i, v.mn, v)
  PROVE  Put(e, v) \in BudgetEntry /\ VotesCast(i, Put(e, v)) /\ Keeps(e, Put(e, v))
<1> DEFINE s == [time |-> v.time, yes |-> v.yes, fValid |-> TRUE]
           f == Put(e, v)
<1>1. s \in Stored /\ s # None /\ s.time = v.time /\ s.yes = v.yes
  <2>1. s \in Stored /\ s.time = v.time /\ s.yes = v.yes
    BY DEF Stored
  <2> QED BY <2>1, BudgetAssumption
<1> HIDE DEF s
<1>2. f = [e EXCEPT !.votes[v.mn] = s]
  BY DEF Put, s
<1> DEFINE w == [e.votes EXCEPT ![v.mn] = s]
<1>3. f \in BudgetEntry /\ \A m \in MN : f.votes[m] = IF m = v.mn THEN s ELSE e.votes[m]
  <2>1. e.votes \in [MN -> Stored \cup {None}]
    BY DEF BudgetEntry
  <2>2. /\ w \in [MN -> Stored \cup {None}]
        /\ \A m \in MN : w[m] = IF m = v.mn THEN s ELSE e.votes[m]
    BY <1>1, <2>1
  <2>3. f = [e EXCEPT !.votes = w]
    BY <1>2
  <2> HIDE DEF w
  <2>4. f \in BudgetEntry /\ f.votes = w
    BY <2>2, <2>3 DEF BudgetEntry
  <2> QED BY <2>2, <2>4
<1> HIDE DEF f
<1>4. VotesCast(i, f)
  BY <1>1, <1>3 DEF VotesCast, Cast
<1>5. Keeps(e, f)
  <2> SUFFICES ASSUME NEW m \in MN, e.votes[m] # None
               PROVE  /\ f.votes[m] # None
                      /\ \/ f.votes[m].time = e.votes[m].time /\ f.votes[m].yes = e.votes[m].yes
                         \/ f.votes[m].time >= e.votes[m].time + UPDATE_MIN
    BY DEF Keeps
  <2>1. CASE m # v.mn
    BY <1>3, <2>1
  <2>2. CASE m = v.mn
    <3>1. v.time - e.votes[m].time >= UPDATE_MIN /\ e.votes[m].time \in Nat /\ UPDATE_MIN \in Nat
      BY <2>2, EntryParts, BudgetAssumption DEF Accepts
    <3> QED BY <1>1, <1>3, <2>2, <3>1
  <2> QED BY <2>1, <2>2
<1> QED BY <1>3, <1>4, <1>5 DEF f

(* An entry whose votes have the same times and opinions.                  *)
LEMMA SameVotes ==
  ASSUME NEW i, NEW e \in BudgetEntry, VotesCast(i, e), NEW f \in BudgetEntry,
         \A m \in MN : IF e.votes[m] = None THEN f.votes[m] = None
                       ELSE /\ f.votes[m] # None
                            /\ f.votes[m].time = e.votes[m].time
                            /\ f.votes[m].yes = e.votes[m].yes
  PROVE  VotesCast(i, f) /\ Keeps(e, f)
  BY DEF VotesCast, Keeps, Cast

(* CleanAndRemove sets marks only.                                         *)
LEMMA CleanFacts ==
  ASSUME NEW i, NEW e \in BudgetEntry, VotesCast(i, e)
  PROVE  /\ CleanAndRemove(e) \in BudgetEntry
         /\ VotesCast(i, CleanAndRemove(e)) /\ Keeps(e, CleanAndRemove(e))
<1> DEFINE w == [m \in MN |-> IF e.votes[m] = None THEN None
                   ELSE [e.votes[m] EXCEPT !.fValid = m \in listed]]
           f == CleanAndRemove(e)
<1>1. ASSUME NEW m \in MN
      PROVE  IF e.votes[m] = None THEN w[m] = None
             ELSE /\ w[m] \in Stored /\ w[m] # None
                  /\ w[m].time = e.votes[m].time /\ w[m].yes = e.votes[m].yes
  <2>1. CASE e.votes[m] = None
    BY <2>1
  <2>2. CASE e.votes[m] # None
    <3>1. e.votes[m] \in Stored
      BY <2>2, EntryParts
    <3>2. \E b \in BOOLEAN : w[m] = [e.votes[m] EXCEPT !.fValid = b]
      <4>1. w[m] = [e.votes[m] EXCEPT !.fValid = m \in listed]
        BY <2>2
      <4>2. (m \in listed) \in BOOLEAN
        OBVIOUS
      <4> QED BY <4>1, <4>2, Zenon
    <3> HIDE DEF w
    <3>3. /\ w[m] \in Stored
          /\ w[m].time = e.votes[m].time /\ w[m].yes = e.votes[m].yes
      BY <3>1, <3>2 DEF Stored
    <3>4. w[m] # None
      BY <3>3, BudgetAssumption
    <3> HIDE DEF w
    <3> QED BY <2>2, <3>3, <3>4
  <2> QED BY <2>1, <2>2
<1>2. w \in [MN -> Stored \cup {None}]
  BY <1>1
<1>3. f = [e EXCEPT !.votes = w]
  BY DEF CleanAndRemove
<1> HIDE DEF w
<1>4. f \in BudgetEntry /\ f.votes = w
  BY <1>2, <1>3 DEF BudgetEntry
<1> HIDE DEF f
<1>5. \A m \in MN : IF e.votes[m] = None THEN f.votes[m] = None
                    ELSE /\ f.votes[m] # None
                         /\ f.votes[m].time = e.votes[m].time
                         /\ f.votes[m].yes = e.votes[m].yes
  BY <1>1, <1>4
<1>6. VotesCast(i, f) /\ Keeps(e, f)
  BY <1>4, <1>5, SameVotes
<1> QED BY <1>4, <1>6 DEF f

(* A table whose entries come one by one from good ones.                   *)
LEMMA TableFromEntries ==
  ASSUME NEW list, GoodTable(list), NEW next, next = [i \in Item |-> next[i]],
         \A i \in Item :
           \/ next[i] \in BudgetEntry /\ VotesCast(i, next[i])
              /\ (list[i] # None => Keeps(list[i], next[i]))
           \/ list[i] = None /\ next[i] = None
  PROVE  GoodTable(next) /\ KeepsTable(list, next)
<1>1. \A i \in Item : next[i] \in BudgetEntry \cup {None}
  OBVIOUS
<1>2. next \in [Item -> BudgetEntry \cup {None}]
  BY <1>1
<1>3. \A i \in Item : next[i] # None => VotesCast(i, next[i])
  OBVIOUS
<1>4. KeepsTable(list, next)
  BY BudgetAssumption DEF KeepsTable
<1> QED BY <1>2, <1>3, <1>4 DEF GoodTable

(* What a good table says of one entry.                                    *)
LEMMA GoodEntry ==
  ASSUME NEW list, GoodTable(list), NEW i \in Item, list[i] # None
  PROVE  list[i] \in BudgetEntry /\ VotesCast(i, list[i]) /\ Keeps(list[i], list[i])
  BY KeepsOrder DEF GoodTable

(* Added leaves what is there alone.                                       *)
LEMMA AddedFacts ==
  ASSUME NEW list, GoodTable(list), NEW new
  PROVE  GoodTable(Added(list, new)) /\ KeepsTable(list, Added(list, new))
<1>1. ASSUME NEW i \in Item
      PROVE  \/ Added(list, new)[i] \in BudgetEntry /\ VotesCast(i, Added(list, new)[i])
                /\ (list[i] # None => Keeps(list[i], Added(list, new)[i]))
             \/ list[i] = None /\ Added(list, new)[i] = None
  <2>1. Added(list, new)[i] = IF i \in new /\ list[i] = None THEN New ELSE list[i]
    BY DEF Added
  <2> QED BY <2>1, NewFacts, GoodEntry
<1>2. Added(list, new) = [i \in Item |-> Added(list, new)[i]]
  BY DEF Added
<1> QED BY <1>1, <1>2, TableFromEntries

(* Cleaning the proposals keeps their votes.                               *)
LEMMA CleanProposalsFacts ==
  ASSUME NEW list, GoodTable(list)
  PROVE  GoodTable(CleanProposals(list)) /\ KeepsTable(list, CleanProposals(list))
<1> DEFINE next == CleanProposals(list)
<1>1. ASSUME NEW i \in Item
      PROVE  \/ next[i] \in BudgetEntry /\ VotesCast(i, next[i])
                /\ (list[i] # None => Keeps(list[i], next[i]))
             \/ list[i] = None /\ next[i] = None
  <2>1. next[i] = IF i \in Proposals /\ list[i] # None THEN CleanAndRemove(list[i]) ELSE list[i]
    BY DEF CleanProposals
  <2> HIDE DEF next
  <2> QED BY <2>1, GoodEntry, CleanFacts
<1>2. next = [i \in Item |-> next[i]]
  BY DEF CleanProposals
<1> QED BY <1>1, <1>2, TableFromEntries

(* An entry with other flags has the same votes.                           *)
LEMMA FlagFacts ==
  ASSUME NEW i, NEW e \in BudgetEntry, VotesCast(i, e), NEW b \in BOOLEAN
  PROVE  /\ [e EXCEPT !.fValid = b] \in BudgetEntry
         /\ VotesCast(i, [e EXCEPT !.fValid = b]) /\ Keeps(e, [e EXCEPT !.fValid = b])
         /\ [e EXCEPT !.fAutoChecked = b] \in BudgetEntry
         /\ VotesCast(i, [e EXCEPT !.fAutoChecked = b])
         /\ Keeps(e, [e EXCEPT !.fAutoChecked = b])
<1> DEFINE f == [e EXCEPT !.fValid = b]
           g == [e EXCEPT !.fAutoChecked = b]
<1>1. f \in BudgetEntry /\ f.votes = e.votes /\ g \in BudgetEntry /\ g.votes = e.votes
  BY DEF BudgetEntry
<1> HIDE DEF f, g
<1>2. VotesCast(i, f) /\ VotesCast(i, g) /\ Keeps(e, f) /\ Keeps(e, g)
  BY <1>1 DEF VotesCast, Keeps
<1> QED BY <1>1, <1>2 DEF f, g

(* CheckAndRemove marks entries.                                           *)
LEMMA MarkedFacts ==
  ASSUME NEW list, GoodTable(list)
  PROVE  GoodTable(Marked(list)) /\ KeepsTable(list, Marked(list))
<1> DEFINE next == Marked(list)
<1>1. ASSUME NEW i \in Item
      PROVE  \/ next[i] \in BudgetEntry /\ VotesCast(i, next[i])
                /\ (list[i] # None => Keeps(list[i], next[i]))
             \/ list[i] = None /\ next[i] = None
  <2>1. CASE list[i] = None
    BY <2>1 DEF Marked
  <2>2. CASE list[i] # None
    <3>1. \E b \in BOOLEAN : next[i] = [list[i] EXCEPT !.fValid = b]
      <4>1. next[i] = [list[i] EXCEPT !.fValid = IsValid(i, list[i])]
        BY <2>2 DEF Marked
      <4>2. IsValid(i, list[i]) \in BOOLEAN
        BY DEF IsValid
      <4> HIDE DEF next
      <4> QED BY <4>1, <4>2, Zenon
    <3> HIDE DEF next
    <3>2. PICK b \in BOOLEAN : next[i] = [list[i] EXCEPT !.fValid = b]
      BY <3>1
    <3>3. list[i] \in BudgetEntry /\ VotesCast(i, list[i])
      BY <2>2, GoodEntry
    <3>4. /\ [list[i] EXCEPT !.fValid = b] \in BudgetEntry
          /\ VotesCast(i, [list[i] EXCEPT !.fValid = b])
          /\ Keeps(list[i], [list[i] EXCEPT !.fValid = b])
      BY <3>3, FlagFacts
    <3> QED BY <3>2, <3>4
  <2> QED BY <2>1, <2>2
<1>2. next = [i \in Item |-> next[i]]
  BY DEF Marked
<1> QED BY <1>1, <1>2, TableFromEntries

(* Cleaning all entries keeps their votes.                                 *)
LEMMA CleanAllFacts ==
  ASSUME NEW list, GoodTable(list), NEW next,
         next = [i \in Item |-> IF list[i] = None THEN None ELSE CleanAndRemove(list[i])]
  PROVE  GoodTable(next) /\ KeepsTable(list, next)
<1>1. ASSUME NEW i \in Item
      PROVE  \/ next[i] \in BudgetEntry /\ VotesCast(i, next[i])
                /\ (list[i] # None => Keeps(list[i], next[i]))
             \/ list[i] = None /\ next[i] = None
  <2>1. next[i] = IF list[i] = None THEN None ELSE CleanAndRemove(list[i])
    OBVIOUS
  <2> QED BY <2>1, GoodEntry, CleanFacts
<1> QED BY <1>1, TableFromEntries

(* AutoCheck sets flags and marks, and casts a vote of this node.          *)
LEMMA AutoCheckFacts ==
  ASSUME NEW list, GoodTable(list), NEW mine, NEW on, NEW t \in Times
  PROVE  GoodTable(AutoCheck(list, mine, on, t)) /\ KeepsTable(list, AutoCheck(list, mine, on, t))
<1> DEFINE next == AutoCheck(list, mine, on, t)
           v == [mn |-> Self, time |-> t, yes |-> TRUE]
           Checked(i) == [list[i] EXCEPT !.fAutoChecked = TRUE]
           Voted(i) == AddOrUpdateVote(Checked(i), v)
<1>1. ASSUME NEW i \in Item
      PROVE  \/ list[i] = None /\ next[i] = None
             \/ list[i] # None /\ next[i] \in {list[i], CleanAndRemove(list[i]), Checked(i)}
             \/ list[i] # None /\ next[i] = Voted(i) /\ i \in Budgets /\ scene.mode = "auto"
  BY DEF AutoCheck
<1>2. v.mn \in MN /\ v.time \in Nat /\ v.time \in Times /\ v.yes = TRUE /\ v.mn = Self
  BY BudgetAssumption, MasternodesAssumption
<1>3. next = [i \in Item |-> next[i]]
  BY DEF AutoCheck
<1> HIDE DEF next, v
<1>4. ASSUME NEW i \in Item
      PROVE  \/ next[i] \in BudgetEntry /\ VotesCast(i, next[i])
                /\ (list[i] # None => Keeps(list[i], next[i]))
             \/ list[i] = None /\ next[i] = None
  <2>1. CASE list[i] = None
    BY <1>1, <2>1
  <2>2. CASE list[i] # None
    <3>1. list[i] \in BudgetEntry /\ VotesCast(i, list[i]) /\ Keeps(list[i], list[i])
      BY <2>2, GoodEntry
    <3>2. /\ Checked(i) \in BudgetEntry /\ VotesCast(i, Checked(i))
          /\ Keeps(list[i], Checked(i))
      BY <3>1, FlagFacts
    <3> HIDE DEF Checked
    <3>3. CASE next[i] \in {list[i], CleanAndRemove(list[i]), Checked(i)}
      BY <3>1, <3>2, <3>3, CleanFacts
    <3>4. CASE next[i] = Voted(i) /\ i \in Budgets /\ scene.mode = "auto" /\ Accepts(Checked(i), v)
      <4>1. Cast(i, v.mn, v)
        BY <1>2, <3>4 DEF Cast
      <4>2. /\ Put(Checked(i), v) \in BudgetEntry /\ VotesCast(i, Put(Checked(i), v))
            /\ Keeps(Checked(i), Put(Checked(i), v))
        BY <1>2, <3>2, <3>4, <4>1, PutFacts
      <4>3. next[i] = Put(Checked(i), v)
        BY <3>4 DEF AddOrUpdateVote
      <4> QED BY <3>1, <3>2, <4>2, <4>3, KeepsOrder
    <3>5. CASE next[i] = Voted(i) /\ ~Accepts(Checked(i), v)
      <4>1. next[i] = Checked(i)
        BY <3>5 DEF AddOrUpdateVote
      <4> QED BY <3>2, <4>1
    <3> QED BY <1>1, <2>2, <3>3, <3>4, <3>5
  <2> QED BY <2>1, <2>2
<1>5. GoodTable(next) /\ KeepsTable(list, next)
  BY <1>3, <1>4, TableFromEntries
<1> QED BY <1>5 DEF next

-----------------------------------------------------------------------------
(* Budget: the invariant, action by action *)

(* A vote kept for an unknown item is filed under the item it is for, and  *)
(* its masternode signed it.                                               *)
OrphansCast == \A i \in Item : orphans[i] # None =>
  orphans[i] \in scene.signed /\ orphans[i].item = i

(* Every vote of a known item was cast for it by its masternode.           *)
VotesAuthentic == \A i \in Item : items[i] # None => VotesCast(i, items[i])

BudgetInv == BudgetTypeOK /\ OrphansCast /\ VotesAuthentic

(* What the scene gives.                                                   *)
LEMMA SceneFacts ==
  ASSUME BudgetTypeOK
  PROVE  /\ scene.items \subseteq Item /\ scene.signed \subseteq BudgetVote
         /\ scene.young \subseteq Item /\ scene.leaving \subseteq MN
         /\ \A v \in scene.own : v \in BudgetVote /\ v.mn = Self
  BY BudgetAssumption DEF BudgetTypeOK, Scene

(* The parts of a vote.                                                    *)
LEMMA VoteParts == \A v \in BudgetVote :
  v.mn \in MN /\ v.item \in Item /\ v.time \in Nat /\ v.yes \in BOOLEAN
  BY DEF BudgetVote

(* The invariant in terms of the table, after a step that keeps the scene. *)
LEMMA InvOfTable ==
  ASSUME GoodTable(items'), scene' = scene, OrphansCast',
         seenItems' \subseteq Item, immature' \subseteq Item, seenVotes' \subseteq BudgetVote,
         orphans' \in [Item -> BudgetVote \cup {None}], listed' \subseteq MN,
         depth' \in [Item -> Depth], scene \in Scenes
  PROVE  BudgetInv'
<1>1. BudgetTypeOK'
  BY DEF BudgetTypeOK, GoodTable
<1>2. VotesAuthentic'
  BY DEF VotesAuthentic, GoodTable, VotesCast, Cast
<1> QED BY <1>1, <1>2 DEF BudgetInv

(* The table of a state with the invariant is good.                        *)
LEMMA TableOfInv == BudgetInv => GoodTable(items)
  BY DEF BudgetInv, BudgetTypeOK, VotesAuthentic, GoodTable

(* One more vote of an item.                                               *)
LEMMA VoteFacts ==
  ASSUME GoodTable(items), NEW v \in BudgetVote, v \in scene.signed \cup scene.own,
         items[v.item] # None, Accepts(items[v.item], v),
         NEW next, next = [items EXCEPT ![v.item] = Put(@, v)]
  PROVE  GoodTable(next) /\ KeepsTable(items, next)
<1> DEFINE j == v.item
           f == Put(items[j], v)
<1>1. j \in Item /\ v.mn \in MN /\ v.time \in Nat /\ v.yes \in BOOLEAN
  BY VoteParts
<1>2. Cast(j, v.mn, v)
  BY DEF Cast
<1>3. items[j] \in BudgetEntry /\ VotesCast(j, items[j])
  BY <1>1, GoodEntry
<1>4. f \in BudgetEntry /\ VotesCast(j, f) /\ Keeps(items[j], f)
  BY <1>1, <1>2, <1>3, PutFacts
<1> HIDE DEF f
<1>5. \A i \in Item : next[i] = IF i = j THEN f ELSE items[i]
  BY <1>1 DEF GoodTable, f
<1>6. next = [i \in Item |-> next[i]]
  BY DEF GoodTable
<1>7. ASSUME NEW i \in Item
      PROVE  \/ next[i] \in BudgetEntry /\ VotesCast(i, next[i])
                /\ (items[i] # None => Keeps(items[i], next[i]))
             \/ items[i] = None /\ next[i] = None
  <2>1. CASE i = j
    BY <1>4, <1>5, <2>1
  <2>2. CASE i # j
    BY <1>5, <2>2, GoodEntry
  <2> QED BY <2>1, <2>2
<1> QED BY <1>6, <1>7, TableFromEntries

(* CheckOrphanVotes adds the votes that were kept.                         *)
LEMMA OrphanFacts ==
  ASSUME BudgetInv, NEW list, NEW early, GoodTable(list), CheckOrphanVotes(list, early)
  PROVE  /\ GoodTable(items') /\ KeepsTable(list, items')
         /\ orphans' \in [Item -> BudgetVote \cup {None}]
         /\ \A i \in Item : orphans'[i] \in {orphans[i], None}
<1> DEFINE taken == {i \in Item \ early :
             list[i] # None /\ orphans[i] # None /\ Accepts(list[i], orphans[i])}
<1>1. /\ items' = [i \in Item |-> IF i \in taken THEN Put(list[i], orphans[i]) ELSE list[i]]
      /\ orphans' = [i \in Item |-> IF i \in taken THEN None ELSE orphans[i]]
  BY DEF CheckOrphanVotes
<1>2. /\ orphans' \in [Item -> BudgetVote \cup {None}]
      /\ \A i \in Item : orphans'[i] \in {orphans[i], None}
  BY <1>1 DEF BudgetInv, BudgetTypeOK
<1>3. ASSUME NEW i \in Item
      PROVE  \/ items'[i] \in BudgetEntry /\ VotesCast(i, items'[i])
                /\ (list[i] # None => Keeps(list[i], items'[i]))
             \/ list[i] = None /\ items'[i] = None
  <2>1. CASE i \in taken
    <3>1. items'[i] = Put(list[i], orphans[i])
      BY <1>1, <2>1
    <3>2. orphans[i] \in BudgetVote /\ orphans[i] \in scene.signed /\ orphans[i].item = i
      BY <2>1, SceneFacts DEF BudgetInv, OrphansCast
    <3>3. Cast(i, orphans[i].mn, orphans[i])
      BY <3>2 DEF Cast
    <3>4. list[i] \in BudgetEntry /\ VotesCast(i, list[i]) /\ Accepts(list[i], orphans[i])
      BY <2>1, GoodEntry
    <3>5. orphans[i].mn \in MN /\ orphans[i].time \in Nat /\ orphans[i].yes \in BOOLEAN
      BY <3>2, VoteParts
    <3> QED BY <3>1, <3>3, <3>4, <3>5, PutFacts
  <2>2. CASE i \notin taken
    <3>1. items'[i] = list[i]
      BY <1>1, <2>2
    <3> QED BY <3>1, GoodEntry
  <2> QED BY <2>1, <2>2
<1>4. items' = [i \in Item |-> items'[i]]
  BY <1>1
<1> QED BY <1>2, <1>3, <1>4, TableFromEntries

(* "mprop" and "fbs".                                                      *)
LEMMA TakeItemInv ==
  ASSUME BudgetInv, NEW i \in scene.items, NEW early, TakeItem(i, early)
  PROVE  BudgetInv' /\ KeepsTable(items, items')
<1>1. GoodTable(items) /\ i \in Item /\ UNCHANGED <<seenVotes, listed, depth, scene>>
  BY TableOfInv, SceneFacts DEF BudgetInv, TakeItem, world
<1>2. CASE depth[i] < MATURE
  <2>1. immature' = immature \cup {i} /\ UNCHANGED <<items, seenItems, orphans>>
    BY <1>2 DEF TakeItem
  <2>2. BudgetInv'
    BY <1>1, <2>1 DEF BudgetInv, BudgetTypeOK, OrphansCast, VotesAuthentic, VotesCast, Cast
  <2>3. KeepsTable(items, items')
    BY <2>1, KeepsTableOrder
  <2> QED BY <2>2, <2>3
<1>3. CASE ~(depth[i] < MATURE)
  <2>1. PICK list : list = Added(items, {i})
    OBVIOUS
  <2>2. GoodTable(list) /\ KeepsTable(items, list)
    BY <1>1, <2>1, AddedFacts
  <2>3. seenItems' = seenItems \cup {i} /\ CheckOrphanVotes(list, early)
        /\ UNCHANGED immature
    BY <1>3, <2>1 DEF TakeItem
  <2>4. /\ GoodTable(items') /\ KeepsTable(list, items')
        /\ orphans' \in [Item -> BudgetVote \cup {None}]
        /\ \A j \in Item : orphans'[j] \in {orphans[j], None}
    BY <2>2, <2>3, OrphanFacts
  <2>5. OrphansCast'
    BY <1>1, <2>4 DEF BudgetInv, OrphansCast
  <2>6. BudgetInv'
    BY <1>1, <2>3, <2>4, <2>5, InvOfTable DEF BudgetInv, BudgetTypeOK
  <2>7. KeepsTable(items, items')
    BY <1>1, <2>2, <2>4, KeepsTableOrder DEF GoodTable
  <2> QED BY <2>6, <2>7
<1> QED BY <1>2, <1>3

(* "mvote" and "fbvote".                                                   *)
LEMMA TakeVoteInv ==
  ASSUME BudgetInv, NEW v \in scene.signed, NEW good, NEW early, NEW synced,
         TakeVote(v, good, early, synced)
  PROVE  BudgetInv' /\ KeepsTable(items, items')
<1>1. /\ GoodTable(items) /\ v \in BudgetVote
      /\ UNCHANGED <<seenItems, immature, listed, depth, scene>>
      /\ seenVotes' = seenVotes \cup {v}
  BY TableOfInv, SceneFacts DEF BudgetInv, TakeVote, world
<1>2. v.item \in Item
  BY <1>1, VoteParts
<1>3. \/ UNCHANGED <<items, orphans>>
      \/ items[v.item] = None /\ orphans' = [orphans EXCEPT ![v.item] = v] /\ UNCHANGED items
      \/ /\ items[v.item] # None /\ Accepts(items[v.item], v)
         /\ items' = [items EXCEPT ![v.item] = Put(@, v)] /\ UNCHANGED orphans
  <2>1. CASE items[v.item] = None \/ ~good \/ early
    BY <2>1 DEF TakeVote, UpdateProposal
  <2>2. CASE items[v.item] # None /\ good /\ ~early
    <3>1. items' = [items EXCEPT ![v.item] = AddOrUpdateVote(@, v)] /\ UNCHANGED orphans
      BY <2>2 DEF TakeVote, UpdateProposal
    <3>2. CASE Accepts(items[v.item], v)
      BY <2>2, <3>1, <3>2 DEF AddOrUpdateVote
    <3>3. CASE ~Accepts(items[v.item], v)
      <4>1. items' = [items EXCEPT ![v.item] = items[v.item]]
        BY <3>1, <3>3 DEF AddOrUpdateVote
      <4> QED BY <1>1, <3>1, <4>1 DEF GoodTable
    <3> QED BY <3>2, <3>3
  <2> QED BY <2>1, <2>2
<1>4. GoodTable(items') /\ KeepsTable(items, items')
  <2>1. CASE UNCHANGED items
    BY <1>1, <2>1, KeepsTableOrder
  <2>2. CASE /\ items[v.item] # None /\ Accepts(items[v.item], v)
             /\ items' = [items EXCEPT ![v.item] = Put(@, v)]
    BY <1>1, <2>2, VoteFacts
  <2> QED BY <1>3, <2>1, <2>2
<1>5. orphans' \in [Item -> BudgetVote \cup {None}] /\ OrphansCast'
  BY <1>1, <1>2, <1>3 DEF BudgetInv, BudgetTypeOK, OrphansCast
<1>6. BudgetInv'
  BY <1>1, <1>4, <1>5, InvOfTable DEF BudgetInv, BudgetTypeOK
<1> QED BY <1>4, <1>6

(* The operator's votes.                                                   *)
LEMMA OwnVoteInv ==
  ASSUME BudgetInv, NEW v \in scene.own, OwnVote(v)
  PROVE  BudgetInv' /\ KeepsTable(items, items')
<1>1. /\ GoodTable(items) /\ v \in BudgetVote
      /\ UNCHANGED <<seenItems, seenVotes, orphans, immature, listed, depth, scene>>
  BY TableOfInv, SceneFacts DEF BudgetInv, OwnVote, world
<1>2. /\ items[v.item] # None /\ Accepts(items[v.item], v)
      /\ items' = [items EXCEPT ![v.item] = Put(@, v)]
  BY DEF OwnVote
<1>3. GoodTable(items') /\ KeepsTable(items, items')
  BY <1>1, <1>2, VoteFacts
<1>4. OrphansCast'
  BY <1>1 DEF BudgetInv, OrphansCast
<1>5. BudgetInv'
  BY <1>1, <1>3, <1>4, InvOfTable DEF BudgetInv, BudgetTypeOK
<1> QED BY <1>3, <1>5

(* Between the checks, mode suggest submits.                               *)
LEMMA NewBlockSubmitsInv ==
  ASSUME BudgetInv, NewBlockSubmits
  PROVE  BudgetInv' /\ KeepsTable(items, items')
<1>1. /\ GoodTable(items) /\ UNCHANGED <<seenVotes, orphans, immature, listed, depth, scene>>
      /\ seenItems' = seenItems \cup Submitted(items)
      /\ items' = Added(CleanProposals(items), Submitted(items))
  BY TableOfInv DEF NewBlockSubmits, world
<1>2. PICK list : list = CleanProposals(items)
  OBVIOUS
<1>3. GoodTable(list) /\ KeepsTable(items, list)
  BY <1>1, <1>2, CleanProposalsFacts
<1>4. GoodTable(items') /\ KeepsTable(list, items')
  BY <1>1, <1>2, <1>3, AddedFacts
<1>5. Submitted(items) \subseteq Item
  BY DEF Submitted, Item
<1>6. OrphansCast'
  BY <1>1 DEF BudgetInv, OrphansCast
<1>7. BudgetInv'
  BY <1>1, <1>4, <1>5, <1>6, InvOfTable DEF BudgetInv, BudgetTypeOK
<1>8. KeepsTable(items, items')
  BY <1>1, <1>3, <1>4, KeepsTableOrder DEF GoodTable
<1> QED BY <1>7, <1>8

(* The checks: the table goes through up to six changes, each a good one.  *)
LEMMA NewBlockInv ==
  ASSUME BudgetInv, NEW reset \in BOOLEAN, NEW on, NEW t \in Times, NewBlock(reset, on, t)
  PROVE  BudgetInv' /\ KeepsTable(items, items')
<1> DEFINE ripe == {i \in immature : depth[i] >= MATURE}
           Ends(new, marked) ==
             /\ seenItems' = IF reset THEN {} ELSE seenItems \cup new
             /\ seenVotes' = IF reset THEN {} ELSE seenVotes
             /\ items' = Added([i \in Item |->
                  IF marked[i] = None THEN None ELSE CleanAndRemove(marked[i])], ripe)
             /\ immature' = immature \ ripe
             /\ UNCHANGED <<orphans, world>>
<1>1. \E final \in {scene.mode = "suggest", FALSE} :
      \E new \in {IF final THEN Submitted(items) ELSE {}} :
      \E list \in {IF final THEN Added(CleanProposals(items), new) ELSE items} :
      \E mine \in {GetBudget(CleanProposals(list))} :
      \E marked \in {Marked(AutoCheck(list, mine, on, t))} : Ends(new, marked)
  BY DEF NewBlock
<1> HIDE DEF Ends
<1>2. PICK final, new, list, mine, marked :
        /\ new = IF final THEN Submitted(items) ELSE {}
        /\ list = IF final THEN Added(CleanProposals(items), new) ELSE items
        /\ marked = Marked(AutoCheck(list, mine, on, t))
        /\ Ends(new, marked)
  BY <1>1
<1> USE DEF Ends
<1> HIDE DEF ripe
<1>3. GoodTable(items)
  BY TableOfInv
<1>4. GoodTable(list) /\ KeepsTable(items, list)
  <2>1. CASE ~final
    BY <1>2, <1>3, <2>1, KeepsTableOrder
  <2>2. CASE final
    <3>1. PICK clean : clean = CleanProposals(items)
      OBVIOUS
    <3>2. GoodTable(clean) /\ KeepsTable(items, clean)
      BY <1>3, <3>1, CleanProposalsFacts
    <3>3. list = Added(clean, new)
      BY <1>2, <2>2, <3>1
    <3>4. GoodTable(list) /\ KeepsTable(clean, list)
      BY <3>2, <3>3, AddedFacts
    <3> QED BY <1>3, <3>2, <3>4, KeepsTableOrder DEF GoodTable
  <2> QED BY <2>1, <2>2
<1>5. PICK checked : checked = AutoCheck(list, mine, on, t)
  OBVIOUS
<1>6. GoodTable(checked) /\ KeepsTable(list, checked)
  BY <1>4, <1>5, AutoCheckFacts
<1>7. GoodTable(marked) /\ KeepsTable(checked, marked)
  BY <1>2, <1>5, <1>6, MarkedFacts
<1>8. PICK clean : clean = [i \in Item |-> IF marked[i] = None THEN None
                                           ELSE CleanAndRemove(marked[i])]
  OBVIOUS
<1>9. GoodTable(clean) /\ KeepsTable(marked, clean)
  BY <1>7, <1>8, CleanAllFacts
<1>10. GoodTable(items') /\ KeepsTable(clean, items')
  BY <1>2, <1>8, <1>9, AddedFacts
<1>11. KeepsTable(items, items')
  <2>1. KeepsTable(items, checked)
    BY <1>3, <1>4, <1>6, KeepsTableOrder DEF GoodTable
  <2>2. KeepsTable(items, clean)
    <3>1. KeepsTable(items, marked)
      BY <1>3, <1>6, <1>7, <2>1, KeepsTableOrder DEF GoodTable
    <3> QED BY <1>3, <1>7, <1>9, <3>1, KeepsTableOrder DEF GoodTable
  <2> QED BY <1>3, <1>9, <1>10, <2>2, KeepsTableOrder DEF GoodTable
<1>12. new \subseteq Item
  BY <1>2 DEF Submitted, Item
<1>13. UNCHANGED <<orphans, listed, depth, scene>> /\ OrphansCast'
  BY <1>2 DEF BudgetInv, OrphansCast, world
<1>14. BudgetInv'
  BY <1>2, <1>10, <1>12, <1>13, InvOfTable DEF BudgetInv, BudgetTypeOK
<1> QED BY <1>11, <1>14

(* The entries of budget.dat as they are read: all flags begin anew.       *)
LEMMA ReadFacts ==
  ASSUME NEW list, GoodTable(list), NEW next,
         next = [i \in Item |-> IF list[i] = None THEN None
                  ELSE [list[i] EXCEPT !.fAutoChecked = FALSE, !.votes = [m \in MN |->
                    IF list[i].votes[m] = None THEN None
                    ELSE [list[i].votes[m] EXCEPT !.fValid = TRUE]]]]
  PROVE  GoodTable(next) /\ KeepsTable(list, next)
<1>1. ASSUME NEW i \in Item, list[i] # None
      PROVE  next[i] \in BudgetEntry /\ VotesCast(i, next[i]) /\ Keeps(list[i], next[i])
  <2> DEFINE e == list[i]
             w == [m \in MN |-> IF e.votes[m] = None THEN None
                                ELSE [e.votes[m] EXCEPT !.fValid = TRUE]]
  <2>1. e \in BudgetEntry /\ VotesCast(i, e)
    BY <1>1, GoodEntry
  <2>2. next[i] = [e EXCEPT !.fAutoChecked = FALSE, !.votes = w]
    BY <1>1
  <2> HIDE DEF e
  <2>3. ASSUME NEW m \in MN
        PROVE  IF e.votes[m] = None THEN w[m] = None
               ELSE /\ w[m] \in Stored /\ w[m] # None
                    /\ w[m].time = e.votes[m].time /\ w[m].yes = e.votes[m].yes
    <3>1. CASE e.votes[m] = None
      BY <3>1
    <3>2. CASE e.votes[m] # None
      <4>1. e.votes[m] \in Stored
        BY <2>1, <3>2, EntryParts
      <4>2. w[m] = [e.votes[m] EXCEPT !.fValid = TRUE]
        BY <3>2
      <4> HIDE DEF w
      <4>3. /\ w[m] \in Stored
            /\ w[m].time = e.votes[m].time /\ w[m].yes = e.votes[m].yes
        BY <4>1, <4>2 DEF Stored
      <4>4. w[m] # None
        BY <4>3, BudgetAssumption
      <4> QED BY <3>2, <4>3, <4>4
    <3> QED BY <3>1, <3>2
  <2>4. w \in [MN -> Stored \cup {None}]
    BY <2>3
  <2> HIDE DEF w
  <2>5. next[i] \in BudgetEntry /\ next[i].votes = w
    BY <2>1, <2>2, <2>4 DEF BudgetEntry
  <2>6. \A m \in MN : IF e.votes[m] = None THEN next[i].votes[m] = None
                      ELSE /\ next[i].votes[m] # None
                           /\ next[i].votes[m].time = e.votes[m].time
                           /\ next[i].votes[m].yes = e.votes[m].yes
    BY <2>3, <2>5
  <2>7. VotesCast(i, next[i]) /\ Keeps(e, next[i])
    BY <2>1, <2>5, <2>6, SameVotes
  <2> QED BY <2>5, <2>7 DEF e
<1>2. \A i \in Item : list[i] = None => next[i] = None
  OBVIOUS
<1>3. next = [i \in Item |-> next[i]]
  OBVIOUS
<1> QED BY <1>1, <1>2, <1>3, TableFromEntries

(* A restart keeps the votes, or the file is gone and with it all items.   *)
LEMMA BudgetRestartInv ==
  ASSUME BudgetInv, NEW kept \in BOOLEAN, BudgetRestart(kept)
  PROVE  BudgetInv' /\ (KeepsTable(items, items') \/ \A i \in Item : items'[i] = None)
<1>1. /\ GoodTable(items) /\ UNCHANGED <<listed, depth, scene>>
      /\ seenItems' = {} /\ seenVotes' = {} /\ immature' = {}
      /\ orphans' = IF kept THEN orphans ELSE [i \in Item |-> None]
  BY TableOfInv DEF BudgetRestart
<1>2. orphans' \in [Item -> BudgetVote \cup {None}] /\ OrphansCast'
  BY <1>1 DEF BudgetInv, BudgetTypeOK, OrphansCast
<1>3. GoodTable(items') /\ (KeepsTable(items, items') \/ \A i \in Item : items'[i] = None)
  <2>1. CASE ~kept
    BY <2>1 DEF BudgetRestart, GoodTable
  <2>2. CASE kept
    <3>1. PICK list : list = [i \in Item |-> IF items[i] = None THEN None
                  ELSE [items[i] EXCEPT !.fAutoChecked = FALSE, !.votes = [m \in MN |->
                    IF items[i].votes[m] = None THEN None
                    ELSE [items[i].votes[m] EXCEPT !.fValid = TRUE]]]]
      OBVIOUS
    <3>2. items' = Marked(list)
      BY <2>2, <3>1 DEF BudgetRestart
    <3>3. GoodTable(list) /\ KeepsTable(items, list)
      BY <1>1, <3>1, ReadFacts
    <3>4. GoodTable(items') /\ KeepsTable(list, items')
      BY <3>2, <3>3, MarkedFacts
    <3> QED BY <1>1, <3>3, <3>4, KeepsTableOrder DEF GoodTable
  <2> QED BY <2>1, <2>2
<1>4. BudgetInv'
  BY <1>1, <1>2, <1>3, InvOfTable DEF BudgetInv, BudgetTypeOK
<1> QED BY <1>3, <1>4

(* Masternodes that come and go, collaterals that get deeper.              *)
LEMMA BudgetWorldInv ==
  ASSUME BudgetInv, (\E m \in scene.leaving : List(m))
                    \/ \E i \in scene.young, d \in Depth : Confirm(i, d)
  PROVE  BudgetInv' /\ KeepsTable(items, items')
<1>1. UNCHANGED <<items, seenItems, seenVotes, orphans, immature, scene>>
  BY DEF List, Confirm
<1>2. listed' \subseteq MN /\ depth' \in [Item -> Depth]
  BY SceneFacts DEF List, Confirm, BudgetInv, BudgetTypeOK
<1>3. BudgetInv'
  BY <1>1, <1>2 DEF BudgetInv, BudgetTypeOK, OrphansCast, VotesAuthentic, VotesCast, Cast
<1>4. KeepsTable(items, items')
  BY <1>1, KeepsTableOrder
<1> QED BY <1>3, <1>4

(* Every step keeps the invariant and the votes, or drops all items.       *)
LEMMA BudgetStep ==
  ASSUME BudgetInv, BudgetNext
  PROVE  BudgetInv' /\ (KeepsTable(items, items') \/ \A i \in Item : items'[i] = None)
<1>1. CASE \E i \in scene.items, early \in SUBSET {j \in Item : MayBeEarly(orphans[j])} :
             TakeItem(i, early)
  BY <1>1, TakeItemInv
<1>2. CASE \E v \in scene.signed, good, early, synced \in BOOLEAN :
             TakeVote(v, good, early, synced)
  BY <1>2, TakeVoteInv
<1>3. CASE \E v \in scene.own : OwnVote(v)
  BY <1>3, OwnVoteInv
<1>4. CASE NewBlockSubmits
  BY <1>4, NewBlockSubmitsInv
<1>5. CASE \E reset \in BOOLEAN, on \in SUBSET Budgets, t \in Times : NewBlock(reset, on, t)
  BY <1>5, NewBlockInv
<1>6. CASE \E kept \in BOOLEAN : BudgetRestart(kept)
  BY <1>6, BudgetRestartInv
<1>7. CASE \/ \E m \in scene.leaving : List(m)
           \/ \E i \in scene.young, d \in Depth : Confirm(i, d)
  BY <1>7, BudgetWorldInv
<1> QED BY <1>1, <1>2, <1>3, <1>4, <1>5, <1>6, <1>7 DEF BudgetNext

(* The invariant holds at the start and is kept.                           *)
LEMMA BudgetInvInit == BudgetInit => BudgetInv
<1> SUFFICES ASSUME BudgetInit PROVE BudgetInv
  OBVIOUS
<1>1. BudgetTypeOK
  BY DEF BudgetInit, BudgetTypeOK, Depth, YOUNG, DEEP
<1>2. OrphansCast /\ VotesAuthentic
  BY DEF BudgetInit, OrphansCast, VotesAuthentic
<1> QED BY <1>1, <1>2 DEF BudgetInv

LEMMA BudgetInvNext == BudgetInv /\ [BudgetNext]_budgetVars => BudgetInv'
<1> SUFFICES ASSUME BudgetInv, [BudgetNext]_budgetVars PROVE BudgetInv'
  OBVIOUS
<1>1. CASE BudgetNext
  BY <1>1, BudgetStep
<1>2. CASE UNCHANGED budgetVars
  BY <1>2 DEF budgetVars, BudgetInv, BudgetTypeOK, OrphansCast, VotesAuthentic, VotesCast, Cast
<1> QED BY <1>1, <1>2

-----------------------------------------------------------------------------
(* Budget: theorems *)

(* Proposals, finalized budgets, votes, orphan votes and what was seen     *)
(* keep their types.                                                       *)
THEOREM BudgetTypes == BudgetSpec => []BudgetTypeOK
<1>1. BudgetInv => BudgetTypeOK
  BY DEF BudgetInv
<1> QED BY <1>1, BudgetInvInit, BudgetInvNext, PTL DEF BudgetSpec

(* A vote that a known item has of a masternode is one that this           *)
(* masternode signed for this very item, or this node's operator or        *)
(* AutoCheck cast: none is invented, moved to another item or masternode   *)
(* or turned round by the tables of orphans, the marks of CleanAndRemove,  *)
(* a budget submitted again or a restart from budget.dat.                  *)
THEOREM BudgetVotesAuthentic == BudgetSpec => [](OrphansCast /\ VotesAuthentic)
<1>1. BudgetInv => OrphansCast /\ VotesAuthentic
  BY DEF BudgetInv
<1> QED BY <1>1, BudgetInvInit, BudgetInvNext, PTL DEF BudgetSpec

(* While an item is known a vote for it is never lost, and only replaced   *)
(* by one signed UPDATE_MIN later (AddOrUpdateVote), whatever the order in *)
(* which votes, orphans and the node's own votes come.                     *)
THEOREM BudgetVotesForward == BudgetSpec => VotesForward
<1> DEFINE A == \A i \in Item, m \in MN :
       (items[i] # None /\ items'[i] # None /\ items[i].votes[m] # None)
         => LET old == items[i].votes[m]  new == items'[i].votes[m]
            IN  /\ new # None
                /\ \/ new.time = old.time /\ new.yes = old.yes
                   \/ new.time >= old.time + UPDATE_MIN
<1>1. BudgetInv /\ [BudgetNext]_budgetVars => [A]_budgetVars
  <2> SUFFICES ASSUME BudgetInv, BudgetNext PROVE A
    OBVIOUS
  <2>1. KeepsTable(items, items') \/ \A i \in Item : items'[i] = None
    BY BudgetStep
  <2> QED BY <2>1 DEF KeepsTable, Keeps
<1> QED BY <1>1, BudgetInvInit, BudgetInvNext, PTL DEF BudgetSpec, VotesForward

(* A set of numbers that is bounded above has a greatest one.              *)
LEMMA GreatestExists ==
  ASSUME NEW T, T # {}, T \subseteq Int, NEW N \in Int, \A x \in T : x <= N
  PROVE  \E x \in T : \A y \in T : y <= x
<1> DEFINE D == {N - x : x \in T}
<1>1. \A x \in T : x \in Int /\ N - x \in Nat
  OBVIOUS
<1>2. D \subseteq Nat /\ D # {}
  BY <1>1
<1>3. PICK d \in D : \A c \in D : ~(<<c, d>> \in OpToRel(<, Nat))
  BY <1>2, WFMin, NatLessThanWellFounded
<1>4. PICK x \in T : d = N - x
  OBVIOUS
<1>5. ASSUME NEW y \in T PROVE y <= x
  <2>1. N - y \in D /\ N - y \in Nat /\ d \in Nat
    BY <1>2
  <2>2. ~(N - y < d)
    BY <1>3, <2>1 DEF OpToRel
  <2> QED BY <1>4, <2>1, <2>2
<1> QED BY <1>5

(* A budget has no more votes than there are masternodes.                  *)
LEMMA VoteCountType == \A e : GetVoteCount(e) \in Nat /\ GetVoteCount(e) <= Cardinality(MN)
<1> SUFFICES ASSUME NEW e
             PROVE  GetVoteCount(e) \in Nat /\ GetVoteCount(e) <= Cardinality(MN)
  OBVIOUS
<1> DEFINE S == {m \in MN : e.votes[m] # None}
<1>1. S \subseteq MN /\ IsFiniteSet(MN)
  BY MasternodesAssumption
<1> HIDE DEF S
<1>2. Cardinality(S) \in Nat /\ Cardinality(S) <= Cardinality(MN)
  BY <1>1, FS_Subset, FS_CardinalityType
<1> QED BY <1>2 DEF GetVoteCount, S

(* Highest is the greatest count of a budget that covers the block, or the *)
(* floor when there is none.                                               *)
LEMMA HighestFacts ==
  ASSUME NEW k, NEW floor \in {-1, 0}
  PROVE  /\ Highest(k, floor) \in Int
         /\ \A b \in Covering(k) : GetVoteCount(items[b]) <= Highest(k, floor)
         /\ floor <= Highest(k, floor)
         /\ Highest(k, floor) = floor
              \/ \E b \in Covering(k) : GetVoteCount(items[b]) = Highest(k, floor)
<1> DEFINE T == {GetVoteCount(items[b]) : b \in Covering(k)} \cup {floor}
           N == Cardinality(MN)
<1>1. N \in Nat /\ \A e : GetVoteCount(e) \in Nat /\ GetVoteCount(e) <= N
  BY VoteCountType, MasternodesAssumption, FS_CardinalityType
<1>2. T # {} /\ T \subseteq Int /\ N \in Int /\ \A x \in T : x <= N
  BY <1>1
<1>3. Highest(k, floor) = CHOOSE n \in T : \A c \in T : c <= n
  BY DEF Highest
<1> HIDE DEF T, N
<1>4. \E n \in T : \A c \in T : c <= n
  BY <1>2, GreatestExists
<1>5. Highest(k, floor) \in T /\ \A c \in T : c <= Highest(k, floor)
  BY <1>3, <1>4
<1> QED BY <1>2, <1>5 DEF T

(* Whatever the budgets and their votes, a block that must pay one and     *)
(* pays what FillBlockPayee puts into it is accepted by the node's own     *)
(* IsTransactionValid, if there are ten masternodes at least.              *)
THEOREM BudgetBlocksAccepted == BudgetSpec => []BudgetBlockAccepted
<1>1. BudgetBlockAccepted
  <2> SUFFICES ASSUME NEW k, CountEnabled >= 10, IsBudgetPaymentBlock(k)
               PROVE  /\ BudgetFillBlockPayee(k) # {}
                      /\ \A paid \in BudgetFillBlockPayee(k) : BudgetIsTransactionValid(k, paid)
    BY DEF BudgetBlockAccepted
  <2> DEFINE top == Highest(k, 0)
  <2>1. CountEnabled \in Nat /\ CountEnabled \div 20 \in Nat /\ CountEnabled \div 10 \in Nat
        /\ CountEnabled \div 10 >= 1
    BY BudgetAssumption
  <2>2. \A b : GetVoteCount(items[b]) \in Nat
    BY VoteCountType
  <2>3. PICK b \in Covering(k) : GetVoteCount(items[b]) > CountEnabled \div 20
    <3>1. Highest(k, -1) > CountEnabled \div 20
      BY DEF IsBudgetPaymentBlock
    <3>2. Highest(k, -1) # -1
      BY <2>1, <3>1
    <3> QED BY <3>1, <3>2, HighestFacts
  <2>4. /\ top \in Int /\ \A c \in Covering(k) : GetVoteCount(items[c]) <= top
        /\ top = 0 \/ \E c \in Covering(k) : GetVoteCount(items[c]) = top
    BY HighestFacts
  <2> HIDE DEF top
  <2>5. top > CountEnabled \div 20
    BY <2>1, <2>2, <2>3, <2>4
  <2>6. PICK c \in Covering(k) : GetVoteCount(items[c]) = top /\ top > 0
    BY <2>1, <2>4, <2>5
  <2>7. BudgetFillBlockPayee(k) # {}
    BY <2>6 DEF BudgetFillBlockPayee, top
  <2>8. ASSUME NEW paid \in BudgetFillBlockPayee(k) PROVE BudgetIsTransactionValid(k, paid)
    <3>1. PICK d \in Covering(k) : GetVoteCount(items[d]) = top /\ Pays[d][k] = paid
      BY <2>8 DEF BudgetFillBlockPayee, top
    <3>2. top >= CountEnabled \div 20 /\ GetVoteCount(items[d]) > top - CountEnabled \div 10
      BY <2>1, <2>4, <2>5, <3>1
    <3> QED BY <3>1, <3>2 DEF BudgetIsTransactionValid, top
  <2> QED BY <2>7, <2>8
<1> QED BY <1>1, PTL
=============================================================================
