----------------------- MODULE RequestDeduplicatorProofs -----------------------
(***************************************************************************)
(* Theorems about RequestDeduplicator, for any callers, paths and entries. *)
(***************************************************************************)
EXTENDS RequestDeduplicator, FiniteSetTheorems, TLAPS

Types ==
  /\ inflight \in [Paths -> Entries \cup {NoEntry}]
  /\ result \in [Entries -> Outcomes]
  /\ pc \in [Callers -> {"idle", "decode", "publish", "notify", "clean", "wait", "asleep"}]
  /\ path \in [Callers -> Paths \cup {NoPath}]
  /\ entry \in [Callers -> Entries \cup {NoEntry}]
  /\ decoded \in [Callers -> Outcomes]

\* What ties a caller, its entry and the map together: a caller in Submit has an entry, the
\* entry of a leading caller is the one of its path and of no other leading caller, and an
\* entry has one path, in the map as well as with the callers.
Bound ==
  /\ Types
  /\ \A c \in Callers : pc[c] # "idle" => entry[c] \in Entries /\ path[c] \in Paths
  /\ \A c \in Callers : pc[c] = "idle" => entry[c] = NoEntry
  /\ \A c \in Callers : Leads(c) => inflight[path[c]] = entry[c]
  /\ \A c, d \in Callers : Leads(c) /\ Leads(d) /\ entry[c] = entry[d] => c = d
  /\ \A p, q \in Paths : inflight[p] = inflight[q] /\ inflight[p] # NoEntry => p = q
  /\ \A c \in Callers, p \in Paths : entry[c] = inflight[p] /\ entry[c] # NoEntry => path[c] = p
  /\ SharesItsFile

LEMMA NewEntryIsFree ==
  ASSUME CanMakeEntry
  PROVE  NewEntry \in Entries /\ ~Held(NewEntry)
BY DEF CanMakeEntry, NewEntry

LEMMA BoundInit == ASSUME Init PROVE Bound
BY DedupAssumption DEF Init, Bound, Types, Outcomes, SharesItsFile, Leads

\* A caller that returns drops its entry; the others keep theirs.
LEMMA BoundReturn ==
  ASSUME Bound, NEW c \in Callers, Return(c),
         \/ UNCHANGED inflight
         \/ pc[c] = "clean" /\ inflight' = [inflight EXCEPT ![path[c]] = NoEntry]
  PROVE  Bound'
<1> USE DEF Bound
<1>1. Types'
  <2>1. result' \in [Entries -> Outcomes]
    BY DEF Return, Types, Outcomes
  <2> QED
    BY <2>1 DEF Return, Types, Goto, Outcomes
<1>2. /\ entry' = [entry EXCEPT ![c] = NoEntry] /\ path' = [path EXCEPT ![c] = NoPath]
      /\ pc' = [pc EXCEPT ![c] = "idle"]
  BY DEF Return, Goto
<1>3. CASE UNCHANGED inflight
  BY <1>1, <1>2, <1>3, DedupAssumption DEF Types, SharesItsFile, Leads
<1>4. CASE pc[c] = "clean" /\ inflight' = [inflight EXCEPT ![path[c]] = NoEntry]
  <2>1. \A d \in Callers : Leads(d) /\ d # c => path[d] # path[c]
    BY <1>4 DEF Leads
  <2> QED
    BY <1>1, <1>2, <1>4, <2>1, DedupAssumption DEF Types, SharesItsFile, Leads
<1> QED
  BY <1>3, <1>4

LEMMA BoundStep == ASSUME Bound, [Next]_vars PROVE Bound'
<1> USE DEF Bound
<1>1. ASSUME NEW c \in Callers, NEW p \in Paths, Join(c, p) PROVE Bound'
  BY <1>1, DedupAssumption DEF Join, Goto, Types, SharesItsFile, Leads
<1>2. ASSUME NEW c \in Callers, NEW p \in Paths, Lead(c, p) PROVE Bound'
  <2>1. PICK e \in Entries : e = NewEntry /\ ~Held(e)
    BY <1>2, NewEntryIsFree DEF Lead
  <2>2. /\ \A d \in Callers : entry[d] # e
        /\ \A q \in Paths : inflight[q] # e
    BY <2>1 DEF Held
  <2>3. /\ pc[c] = "idle" /\ inflight[p] = NoEntry
        /\ path' = [path EXCEPT ![c] = p] /\ entry' = [entry EXCEPT ![c] = e]
        /\ inflight' = [inflight EXCEPT ![p] = e] /\ pc' = [pc EXCEPT ![c] = "decode"]
        /\ UNCHANGED <<result, decoded>>
    BY <1>2, <2>1 DEF Lead, Goto
  <2>4. Types'
    BY <2>3 DEF Types
  <2>5. \A d \in Callers : Leads(d) => path[d] # p
    BY <2>3, DedupAssumption DEF Leads
  <2> QED
    BY <2>2, <2>3, <2>4, <2>5, DedupAssumption DEF Types, SharesItsFile, Leads
<1>3. ASSUME NEW c \in Callers, Decode(c) PROVE Bound'
  BY <1>3 DEF Decode, Goto, Types, SharesItsFile, Leads
<1>4. ASSUME NEW c \in Callers, Throw(c) PROVE Bound'
  BY <1>4, BoundReturn DEF Throw
<1>5. ASSUME NEW c \in Callers, Publish(c) PROVE Bound'
  BY <1>5 DEF Publish, Goto, Types, SharesItsFile, Leads
<1>6. ASSUME NEW c \in Callers, Notify(c) PROVE Bound'
  <2>1. Types'
    BY <1>6 DEF Notify, Types
  <2>2. \A d \in Callers : (Leads(d)' <=> Leads(d)) /\ (pc'[d] = "idle" <=> pc[d] = "idle")
    BY <1>6 DEF Notify, Types, Leads
  <2> QED
    BY <1>6, <2>1, <2>2 DEF Notify, SharesItsFile
<1>7. ASSUME NEW c \in Callers, Clean(c) PROVE Bound'
  BY <1>7, BoundReturn DEF Clean
<1>8. ASSUME NEW c \in Callers, Wait(c) PROVE Bound'
  <2>1. CASE Return(c)
    BY <1>8, <2>1, BoundReturn DEF Wait
  <2>2. CASE Goto(c, "asleep") /\ UNCHANGED <<result, path, entry, decoded>>
    BY <1>8, <2>2 DEF Wait, Goto, Types, SharesItsFile, Leads
  <2> QED
    BY <1>8, <2>1, <2>2 DEF Wait
<1>9. CASE UNCHANGED vars
  BY <1>9 DEF vars, Types, SharesItsFile, Leads
<1> QED
  BY <1>1, <1>2, <1>3, <1>4, <1>5, <1>6, <1>7, <1>8, <1>9 DEF Next, Work

LEMMA BoundAlways == Spec => []Bound
  BY BoundInit, BoundStep, PTL DEF Spec

\* However the requests interleave and whatever the decoders do, a file is decoded by one
\* caller at a time: the one whose entry is in the map.
THEOREM OneDecode == Spec => []OneDecodePerPath
<1>1. Bound => OneDecodePerPath
  BY DEF Bound, OneDecodePerPath, Leads
<1> QED
  BY <1>1, BoundAlways, PTL

\* Callers that share a result asked for the same file, although the shared_ptr of a joiner
\* keeps its entry after the leader has taken it out of the map.
THEOREM SharesFile == Spec => []SharesItsFile
<1>1. Bound => SharesItsFile
  BY DEF Bound
<1> QED
  BY <1>1, BoundAlways, PTL

(***************************************************************************)
(* Waking up.                                                              *)
(***************************************************************************)
LEMMA WakeStep == ASSUME Bound, NoLostWakeup, [Next]_vars PROVE NoLostWakeup'
<1> USE DEF NoLostWakeup
<1>1. ASSUME NEW c \in Callers, Return(c), pc[c] # "notify" PROVE NoLostWakeup'
  <2> SUFFICES ASSUME NEW b \in Callers, (pc[b] = "asleep" /\ result[entry[b]] # "none")'
               PROVE  \E d \in Callers : (pc[d] = "notify" /\ entry[d] = entry[b])'
    OBVIOUS
  <2>1. pc' = [pc EXCEPT ![c] = "idle"] /\ entry' = [entry EXCEPT ![c] = NoEntry]
    BY <1>1 DEF Return, Goto
  <2>2. b # c /\ pc[b] = "asleep" /\ entry'[b] = entry[b] /\ entry[b] \in Entries
    BY <2>1 DEF Bound, Types
  <2>3. result'[entry[b]] \in {result[entry[b]], "none"}
    BY <1>1, <2>2 DEF Return
  <2>4. PICK d \in Callers : pc[d] = "notify" /\ entry[d] = entry[b]
    BY <2>2, <2>3
  <2> QED
    BY <1>1, <2>1, <2>2, <2>4 DEF Bound, Types
<1>2. ASSUME NEW c \in Callers, NEW p \in Paths, Join(c, p) PROVE NoLostWakeup'
  BY <1>2 DEF Join, Goto, Bound, Types
<1>3. ASSUME NEW c \in Callers, NEW p \in Paths, Lead(c, p) PROVE NoLostWakeup'
  BY <1>3 DEF Lead, Goto, Bound, Types
<1>4. ASSUME NEW c \in Callers, Decode(c) PROVE NoLostWakeup'
  BY <1>4 DEF Decode, Goto, Bound, Types
<1>5. ASSUME NEW c \in Callers, Publish(c) PROVE NoLostWakeup'
  BY <1>5 DEF Publish, Goto, Bound, Types
<1>6. ASSUME NEW c \in Callers, Notify(c) PROVE NoLostWakeup'
  BY <1>6 DEF Notify, Bound, Types
<1>7. ASSUME NEW c \in Callers, Wait(c) PROVE NoLostWakeup'
  <2>1. CASE Return(c)
    BY <1>1, <1>7, <2>1 DEF Wait
  <2>2. CASE result[entry[c]] = "none" /\ Goto(c, "asleep") /\ UNCHANGED <<result, path, entry, decoded>>
    BY <1>7, <2>2 DEF Wait, Goto, Bound, Types
  <2> QED
    BY <1>7, <2>1, <2>2 DEF Wait
<1>8. ASSUME NEW c \in Callers, Clean(c) \/ Throw(c) PROVE NoLostWakeup'
  BY <1>1, <1>8 DEF Clean, Throw
<1>9. CASE UNCHANGED vars
  BY <1>9 DEF vars
<1> QED
  BY <1>2, <1>3, <1>4, <1>5, <1>6, <1>7, <1>8, <1>9 DEF Next, Work

\* A caller asleep on an entry that has its result is about to be woken: the result is
\* written under the mutex that is held from the look at it to the sleep.
THEOREM WakeupsArrive == Spec => []NoLostWakeup
<1>1. Init => NoLostWakeup
  BY DEF Init, NoLostWakeup
<1>2. (Bound /\ NoLostWakeup) /\ [Next]_vars => (Bound /\ NoLostWakeup)'
  BY BoundStep, WakeStep
<1> QED
  BY <1>1, <1>2, BoundInit, PTL DEF Spec

(***************************************************************************)
(* The statistics.                                                         *)
(***************************************************************************)
Busy == {p \in Paths : inflight[p] # NoEntry}

LEMMA BusyIsFinite == IsFiniteSet(Busy) /\ Cardinality(Busy) \in 0 .. Cardinality(Paths)
<1>1. IsFiniteSet(Paths) /\ Busy \in SUBSET Paths
  BY DedupAssumption DEF Busy
<1> QED
  BY <1>1, FS_Subset, FS_CardinalityType

LEMMA CountStep == ASSUME Bound, CountsInflight, [Next]_vars PROVE CountsInflight'
<1>1. active = Cardinality(Busy)
  BY DEF CountsInflight, Busy
<1>2. SUFFICES active' = Cardinality(Busy')
  BY DEF CountsInflight, Busy
<1>3. ASSUME NEW c \in Callers, NEW p \in Paths, Lead(c, p) PROVE active' = Cardinality(Busy')
  <2>1. NewEntry # NoEntry
    BY <1>3, NewEntryIsFree, DedupAssumption DEF Lead
  <2>2. Busy' = Busy \cup {p} /\ p \notin Busy
    BY <1>3, <2>1 DEF Lead, Busy, Bound, Types
  <2>3. Cardinality(Busy \cup {p}) = Cardinality(Busy) + 1
    BY <2>2, BusyIsFinite, FS_AddElement
  <2> QED
    BY <1>1, <1>3, <2>2, <2>3 DEF Lead
<1>4. ASSUME NEW c \in Callers, Clean(c) PROVE active' = Cardinality(Busy')
  <2>1. path[c] \in Paths /\ inflight[path[c]] \in Entries
    BY <1>4 DEF Clean, Bound, Leads
  <2>2. path[c] \in Busy /\ Busy' = Busy \ {path[c]}
    BY <1>4, <2>1, DedupAssumption DEF Clean, Busy, Bound, Types
  <2>3. Cardinality(Busy \ {path[c]}) = Cardinality(Busy) - 1
    BY <2>2, BusyIsFinite, FS_RemoveElement
  <2>4. Cardinality(Busy) # 0
    BY <2>2, BusyIsFinite, FS_EmptySet
  <2>5. Cardinality(Busy) > 0 /\ Cardinality(Busy) \in Nat
    BY <2>4, BusyIsFinite, FS_CardinalityType
  <2> QED
    BY <1>1, <1>4, <2>2, <2>3, <2>5 DEF Clean
<1>5. ASSUME UNCHANGED <<inflight, active>> PROVE active' = Cardinality(Busy')
  BY <1>1, <1>5 DEF Busy
<1> QED
  BY <1>3, <1>4, <1>5 DEF Next, Work, Join, Decode, Throw, Publish, Notify, Wait, vars

LEMMA CountInvariant == Spec => [](Bound /\ CountsInflight)
<1>1. Init => CountsInflight
  <2>1. ASSUME Init PROVE active = Cardinality(Busy)
    <3>1. Busy = {} /\ active = 0
      BY <2>1 DEF Init, Busy
    <3> QED
      BY <3>1, FS_EmptySet
  <2> QED
    BY <2>1 DEF CountsInflight, Busy
<1>2. (Bound /\ CountsInflight) /\ [Next]_vars => (Bound /\ CountsInflight)'
  BY BoundStep, CountStep
<1> QED
  BY <1>1, <1>2, BoundInit, PTL DEF Spec

\* activeInflight is the number of files in the map, also after decoders have thrown.
THEOREM StatsAreRight == Spec => []CountsInflight
  BY CountInvariant, PTL

\* Every variable keeps its type: the counter of a set of at most that many files neither
\* goes below zero nor beyond their number.
THEOREM TypesCorrect == Spec => []TypeOK
<1>1. Bound /\ CountsInflight => TypeOK
  BY BusyIsFinite DEF Bound, Types, CountsInflight, Busy, TypeOK
<1> QED
  BY <1>1, CountInvariant, PTL

===============================================================================
