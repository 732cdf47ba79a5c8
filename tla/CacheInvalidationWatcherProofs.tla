-------------------- MODULE CacheInvalidationWatcherProofs --------------------
(***************************************************************************)
(* What holds of the watcher for any directories, changes and starts: its  *)
(* types, and that a watcher which is left alone loses no change.          *)
(***************************************************************************)
EXTENDS CacheInvalidationWatcher, FiniteSetTheorems, FunctionTheorems, SequenceTheorems, TLAPS

(***************************************************************************)
(* Entries of the vector.                                                  *)
(***************************************************************************)
Entry == [dir : Dirs, reads : Seq({"here", "left"}), known : BOOLEAN,
          refused : BOOLEAN, signal : BOOLEAN]

LEMMA NewIs ==
  ASSUME NEW d \in Dirs
  PROVE  /\ NewWatch(d) \in Entry /\ NewWatch(d).dir = d
         /\ NewWatch(d).reads = <<>> /\ NewWatch(d).signal = FALSE /\ NewWatch(d).known = FALSE
BY DEF NewWatch, Entry

LEMMA MovedIs ==
  ASSUME NEW w \in Entry
  PROVE  /\ Moved(w) \in Entry /\ Moved(w).dir = w.dir
         /\ w.reads = <<>> => Moved(w) = w
<1> DEFINE left == [i \in DOMAIN w.reads |-> "left"]
<1>1. w.reads \in Seq({"here", "left"})
  BY DEF Entry
<1>2. left \in Seq({"here", "left"})
  BY <1>1
<1>3. w.reads = <<>> => left = w.reads
  OBVIOUS
<1>4. Moved(w) = [w EXCEPT !.reads = left]
  BY DEF Moved
<1> HIDE DEF left
<1> QED
  BY <1>2, <1>3, <1>4 DEF Entry

\* A read is issued, refused, or answered at once.
LEMMA IssuedIs ==
  ASSUME NEW w \in Entry, NEW granted \in BOOLEAN
  PROVE  /\ Issued(w, granted) \in Entry /\ Issued(w, granted).dir = w.dir
         /\ \/ /\ Issued(w, granted).reads = w.reads
               /\ In(w.dir, "kernel") = {} => Issued(w, granted).signal = w.signal
            \/ /\ In(w.dir, "kernel") = {}
               /\ Issued(w, granted).reads = Append(w.reads, "here")
               /\ Issued(w, granted).signal = w.signal
<1>1. w.reads \in Seq({"here", "left"})
  BY DEF Entry
<1>2. Append(w.reads, "here") \in Seq({"here", "left"})
  BY <1>1
<1>3. CASE granted /\ In(w.dir, "kernel") = {}
  BY <1>2, <1>3 DEF Issued, Entry
<1>4. CASE granted /\ In(w.dir, "kernel") # {}
  BY <1>4 DEF Issued, Entry
<1>5. CASE ~granted
  BY <1>5 DEF Issued, Entry
<1> QED
  BY <1>3, <1>4, <1>5

\* What may be granted is a truth value.
LEMMA GrantedIs == Granted \subseteq BOOLEAN
BY DEF Granted

(***************************************************************************)
(* The types.                                                              *)
(***************************************************************************)
Control ==
  /\ callback \in BOOLEAN /\ running \in BOOLEAN /\ stopEvent \in BOOLEAN
  /\ disturbed \in BOOLEAN
  /\ thread \in {"none", "first", "collect", "wait", "process", "done"}
  /\ owner \in {"free", "joining"} /\ starts \in 0 .. MaxStarts
Fates == {"none", "unseen", "kernel", "buffer", "reported", "unheard", "lost",
          "overflowed", "unwatched"}
Types ==
  /\ Control
  /\ watches \in Seq(Entry)
  /\ handles \in Seq(Dirs) /\ picked \in Nat
  /\ where \in [Changes -> Fates]
  /\ dirOf \in [Changes -> Dirs]

\* A directory is watched once, and waited for once.
Apart ==
  /\ \A i, j \in DOMAIN watches : watches[i].dir = watches[j].dir => i = j
  /\ \A i, j \in DOMAIN handles : handles[i] = handles[j] => i = j
  /\ picked = 0 \/ picked \in 1 .. Cardinality(Dirs)

\* A sequence without repetitions is as long as the set of its elements is large.
LEMMA CountDistinct ==
  ASSUME NEW s \in Seq(Dirs), \A i, j \in DOMAIN s : s[i] = s[j] => i = j
  PROVE  LET R == {s[i] : i \in DOMAIN s}
         IN  Len(s) = Cardinality(R) /\ R \subseteq Dirs /\ Len(s) <= Cardinality(Dirs)
<1> DEFINE R == {s[i] : i \in DOMAIN s}
<1>1. Len(s) \in Nat /\ DOMAIN s = 1 .. Len(s) /\ \A i \in 1 .. Len(s) : s[i] \in Dirs
  OBVIOUS
<1>2. IsFiniteSet(1 .. Len(s)) /\ Cardinality(1 .. Len(s)) = Len(s)
  BY <1>1, FS_Interval
<1>3. s \in [1 .. Len(s) -> R]
  BY <1>1
<1>4. s \in Bijection(1 .. Len(s), R)
  BY <1>1, <1>3, Fun_IsBij
<1>5. ExistsBijection(1 .. Len(s), R)
  BY <1>4, Fun_ExistsBij
<1>6. Cardinality(R) = Len(s)
  BY <1>2, <1>5, FS_Bijection
<1>7. R \in SUBSET Dirs
  BY <1>1
<1>8. Cardinality(R) <= Cardinality(Dirs)
  BY <1>7, FS_Subset, WatcherAssumption
<1> QED
  BY <1>6, <1>7, <1>8

LEMMA EntriesAre ==
  ASSUME Types
  PROVE  \A i \in DOMAIN watches : watches[i] \in Entry /\ watches[i].dir \in Dirs
<1>1. \A i \in DOMAIN watches : watches[i] \in Entry
  BY DEF Types
<1>2. \A w \in Entry : w.dir \in Dirs
  BY DEF Entry
<1> QED
  BY <1>1, <1>2

(***************************************************************************)
(* What the steps do to the vector.                                        *)
(***************************************************************************)
\* The entries keep their places and directories.
Steady == /\ watches' \in Seq(Entry) /\ Len(watches') = Len(watches)
          /\ \A i \in 1 .. Len(watches) : watches'[i].dir = watches[i].dir

LEMMA WatchIs ==
  ASSUME Types, NEW d \in Dirs, Watch(d)
  PROVE  /\ watches' \in Seq(Entry) /\ Len(watches') = Len(watches) + 1
         /\ \A i \in 1 .. Len(watches) : watches'[i] \in {watches[i], Moved(watches[i])}
         /\ watches'[Len(watches) + 1] = NewWatch(d)
<1> USE DEF Types
<1> DEFINE moved == [i \in DOMAIN watches |-> Moved(watches[i])]
<1>1. NewWatch(d) \in Entry
  BY NewIs
<1>2. DOMAIN watches = 1 .. Len(watches) /\ Len(watches) \in Nat
      /\ \A i \in 1 .. Len(watches) : watches[i] \in Entry
  OBVIOUS
<1>3. \A i \in 1 .. Len(watches) : Moved(watches[i]) \in Entry
  BY <1>2, MovedIs
<1>4. moved \in Seq(Entry) /\ Len(moved) = Len(watches)
      /\ \A i \in 1 .. Len(watches) : moved[i] = Moved(watches[i])
  BY <1>2, <1>3
<1>5. watches' = Append(watches, NewWatch(d)) \/ watches' = Append(moved, NewWatch(d))
  BY DEF Watch
<1> HIDE DEF moved
<1>6. ASSUME NEW ws \in Seq(Entry), Len(ws) = Len(watches), watches' = Append(ws, NewWatch(d))
      PROVE  /\ watches' \in Seq(Entry) /\ Len(watches') = Len(watches) + 1
             /\ \A i \in 1 .. Len(watches) : watches'[i] = ws[i]
             /\ watches'[Len(watches) + 1] = NewWatch(d)
  BY <1>1, <1>6, AppendProperties
<1>7. CASE watches' = Append(watches, NewWatch(d))
  BY <1>6, <1>7
<1>8. CASE watches' = Append(moved, NewWatch(d))
  BY <1>4, <1>6, <1>8
<1> QED
  BY <1>5, <1>7, <1>8

LEMMA UnwatchIs ==
  ASSUME Types, NEW d \in Dirs, Unwatch(d)
  PROVE  /\ watches' \in Seq(Entry) /\ Len(watches') = Len(watches) - 1
         /\ \E i \in 1 .. Len(watches) : \A j \in 1 .. Len(watches) - 1 :
              watches'[j] = IF j < i THEN watches[j] ELSE Moved(watches[j + 1])
<1> USE DEF Types
<1>1. DOMAIN watches = 1 .. Len(watches) /\ Len(watches) \in Nat
      /\ \A i \in 1 .. Len(watches) : watches[i] \in Entry
  OBVIOUS
<1>2. PICK i \in 1 .. Len(watches) :
        watches' = [j \in 1 .. Len(watches) - 1 |->
                      IF j < i THEN watches[j] ELSE Moved(watches[j + 1])]
  BY <1>1 DEF Unwatch
<1>3. \A j \in 1 .. Len(watches) : Moved(watches[j]) \in Entry
  BY <1>1, MovedIs
<1>4. \A j \in 1 .. Len(watches) - 1 :
        (IF j < i THEN watches[j] ELSE Moved(watches[j + 1])) \in Entry
  BY <1>1, <1>3
<1>5. Len(watches) - 1 \in Nat
  BY <1>1, <1>2
<1> QED
  BY <1>2, <1>4, <1>5

LEMMA FirstReadsIs ==
  ASSUME Types, FirstReads
  PROVE  Steady /\ \E granted \in [1 .. Len(watches) -> BOOLEAN] :
           \A i \in 1 .. Len(watches) : watches'[i] = Issued(watches[i], granted[i])
<1> USE DEF Types
<1>1. DOMAIN watches = 1 .. Len(watches) /\ Len(watches) \in Nat
      /\ \A i \in 1 .. Len(watches) : watches[i] \in Entry
  OBVIOUS
<1>2. PICK granted \in [DOMAIN watches -> Granted] :
        watches' = [i \in DOMAIN watches |-> Issued(watches[i], granted[i])]
  BY Zenon DEF FirstReads
<1>3. granted \in [1 .. Len(watches) -> BOOLEAN] /\ \A i \in 1 .. Len(watches) : granted[i] \in BOOLEAN
  BY <1>1, <1>2, GrantedIs
<1>4. \A i \in 1 .. Len(watches) : /\ Issued(watches[i], granted[i]) \in Entry
                                  /\ Issued(watches[i], granted[i]).dir = watches[i].dir
  <2>1. ASSUME NEW i \in 1 .. Len(watches)
        PROVE  /\ Issued(watches[i], granted[i]) \in Entry
               /\ Issued(watches[i], granted[i]).dir = watches[i].dir
    <3>1. watches[i] \in Entry /\ granted[i] \in BOOLEAN
      BY <1>1, <1>3
    <3> QED
      BY <3>1, IssuedIs, Zenon
  <2> QED
    BY <2>1
<1>5. /\ watches' = [i \in 1 .. Len(watches) |-> Issued(watches[i], granted[i])]
      /\ \A i \in 1 .. Len(watches) : watches'[i] = Issued(watches[i], granted[i])
  BY <1>1, <1>2
<1> QED
  BY <1>1, <1>3, <1>4, <1>5 DEF Steady

\* What a wait does to the vector and picks.
Waited ==
  /\ Steady /\ (picked' = 0 \/ picked' \in DOMAIN handles)
  /\ thread' = "process" => handles' = handles
  /\ \A i \in 1 .. Len(watches) :
       /\ watches'[i].reads = watches[i].reads
       /\ watches'[i].signal => watches[i].signal
  /\ thread' = "process" =>
       \A i \in 1 .. Len(watches) : watches[i].dir = handles[picked'] =>
         ~watches'[i].signal
  /\ thread' = "process" => Signalled(picked') /\ picked' \in DOMAIN handles

LEMMA WaitIs == ASSUME Types, WaitReturns PROVE Waited
<1> USE DEF Types, Waited
<1>1. DOMAIN watches = 1 .. Len(watches) /\ Len(watches) \in Nat
      /\ \A i \in 1 .. Len(watches) : watches[i] \in Entry
  OBVIOUS
<1>2. CASE UNCHANGED watches /\ TurnEnds /\ thread' # "process"
  BY <1>1, <1>2 DEF Steady, TurnEnds
<1>3. ASSUME NEW n \in DOMAIN handles, Signalled(n), picked' = n, handles' = handles,
             watches' = [j \in DOMAIN watches |->
                           IF watches[j].dir = handles[n] THEN [watches[j] EXCEPT !.signal = FALSE]
                           ELSE watches[j]]
      PROVE  Waited
  <2>1. \A j \in 1 .. Len(watches) :
          LET e == [watches[j] EXCEPT !.signal = FALSE]
          IN  /\ e \in Entry /\ e.dir = watches[j].dir /\ e.reads = watches[j].reads
              /\ e.signal = FALSE
    BY <1>1 DEF Entry
  <2>2. watches' \in Seq(Entry) /\ Len(watches') = Len(watches)
    BY <1>1, <1>3, <2>1
  <2>3. \A j \in 1 .. Len(watches) :
          /\ watches'[j].dir = watches[j].dir /\ watches'[j].reads = watches[j].reads
          /\ watches[j].dir = handles[n] => watches'[j].signal = FALSE
          /\ watches[j].dir # handles[n] => watches'[j].signal = watches[j].signal
    BY <1>1, <1>3, <2>1
  <2> QED
    BY <1>3, <2>2, <2>3 DEF Steady
<1> QED
  BY <1>2, <1>3 DEF WaitReturns

LEMMA ProcessIs ==
  ASSUME Types, Process
  PROVE  /\ Steady
         /\ \E granted \in BOOLEAN : \A i \in 1 .. Len(watches) :
              watches'[i] = IF i = picked THEN Issued(watches[i], granted) ELSE watches[i]
<1> USE DEF Types
<1>1. DOMAIN watches = 1 .. Len(watches) /\ Len(watches) \in Nat
      /\ \A i \in 1 .. Len(watches) : watches[i] \in Entry
  OBVIOUS
<1>2. CASE picked \in DOMAIN watches
  <2>1. PICK granted \in Granted :
          watches' = [watches EXCEPT ![picked] = Issued(watches[picked], granted)]
    BY <1>2, Zenon DEF Process
  <2>2. granted \in BOOLEAN
    BY <2>1, GrantedIs
  <2>3. /\ Issued(watches[picked], granted) \in Entry
        /\ Issued(watches[picked], granted).dir = watches[picked].dir
    BY <1>1, <1>2, <2>2, IssuedIs
  <2> QED
    BY <1>1, <1>2, <2>1, <2>2, <2>3 DEF Steady
<1>3. CASE picked \notin DOMAIN watches
  BY <1>1, <1>3 DEF Process, Steady
<1> QED
  BY <1>2, <1>3

\* A read that was answered is outstanding no more.
LEMMA AnsweredIs ==
  ASSUME Types, NEW i \in DOMAIN watches, watches[i].reads # <<>>,
         watches' = [watches EXCEPT ![i] = Answered(watches[i])]
  PROVE  /\ Steady /\ watches'[i].reads = Tail(watches[i].reads)
         /\ \A j \in 1 .. Len(watches) : j # i => watches'[j] = watches[j]
<1> USE DEF Types
<1> DEFINE e == Answered(watches[i])
<1>1. DOMAIN watches = 1 .. Len(watches) /\ Len(watches) \in Nat
      /\ \A j \in 1 .. Len(watches) : watches[j] \in Entry
  OBVIOUS
<1>2. watches[i] \in Entry /\ i \in 1 .. Len(watches)
  BY <1>1
<1>3. watches[i].reads \in Seq({"here", "left"})
  BY <1>2 DEF Entry
<1>4. Tail(watches[i].reads) \in Seq({"here", "left"})
  BY <1>3
<1>5. e \in Entry /\ e.dir = watches[i].dir /\ e.reads = Tail(watches[i].reads)
  BY <1>2, <1>4 DEF Answered, Entry
<1> HIDE DEF e
<1>6. watches' = [watches EXCEPT ![i] = e]
  BY DEF e
<1> QED
  BY <1>1, <1>2, <1>5, <1>6 DEF Steady

\* A change leaves the vector alone or is the answer to the oldest read of an entry.
LEMMA ChangeIs ==
  ASSUME Types, NEW k \in Changes, Change(k)
  PROVE  /\ Steady
         /\ \/ UNCHANGED watches /\ where' \in {[where EXCEPT ![k] = "unseen"],
                                                [where EXCEPT ![k] = "kernel"]}
            \/ \E i \in 1 .. Len(watches) :
                 /\ watches[i].dir = dirOf[k] /\ watches[i].known /\ watches[i].reads # <<>>
                 /\ watches'[i].reads = Tail(watches[i].reads)
                 /\ \A j \in 1 .. Len(watches) : j # i => watches'[j] = watches[j]
                 /\ \/ Head(watches[i].reads) = "left" /\ where' = [where EXCEPT ![k] = "lost"]
                    \/ /\ Head(watches[i].reads) = "here"
                       /\ where' = [Overwritten(watches[i]) EXCEPT ![k] = "buffer"]
<1> USE DEF Types
<1>1. DOMAIN watches = 1 .. Len(watches) /\ Len(watches) \in Nat
      /\ \A i \in 1 .. Len(watches) : watches[i] \in Entry
  OBVIOUS
<1>2. UNCHANGED watches => Steady
  BY <1>1 DEF Steady
<1>3. \A i \in DOMAIN watches :
        watches[i].reads # <<>> /\ watches' = [watches EXCEPT ![i] = Answered(watches[i])]
          => /\ Steady /\ watches'[i].reads = Tail(watches[i].reads)
             /\ \A j \in 1 .. Len(watches) : j # i => watches'[j] = watches[j]
  BY AnsweredIs
<1> QED
  BY <1>1, <1>2, <1>3 DEF Change

(***************************************************************************)
(* Types and distinct directories are preserved.                           *)
(***************************************************************************)
LEMMA ApartKept ==
  ASSUME Types, Apart, Steady, handles' \in {handles, <<>>},
         picked' \in {picked, 0} \cup DOMAIN handles
  PROVE  Apart'
<1>1. DOMAIN watches = 1 .. Len(watches) /\ DOMAIN watches' = 1 .. Len(watches)
      /\ DOMAIN handles = 1 .. Len(handles) /\ Len(handles) \in Nat
  BY DEF Types, Steady
<1>2. picked' \in DOMAIN handles => picked' \in 1 .. Cardinality(Dirs)
  <2>1. Len(handles) <= Cardinality(Dirs)
    BY CountDistinct DEF Types, Apart
  <2>2. Cardinality(Dirs) \in Nat
    BY FS_CardinalityType, WatcherAssumption
  <2> QED
    BY <1>1, <2>1, <2>2
<1> QED
  BY <1>1, <1>2 DEF Apart, Steady

LEMMA TypesStep == ASSUME Types, Apart, [Next]_vars PROVE Types' /\ Apart'
<1>1. ASSUME NEW d \in Dirs, Watch(d) PROVE Types' /\ Apart'
  <2>1. /\ watches' \in Seq(Entry) /\ Len(watches') = Len(watches) + 1 /\ Len(watches) \in Nat
        /\ \A i \in 1 .. Len(watches) : watches'[i] \in {watches[i], Moved(watches[i])}
        /\ watches'[Len(watches) + 1] = NewWatch(d)
    BY <1>1, WatchIs DEF Types
  <2>2. \A i \in 1 .. Len(watches) : watches[i] \in Entry
    BY DEF Types
  <2>3. \A i \in 1 .. Len(watches) : watches'[i].dir = watches[i].dir
    BY <2>1, <2>2, MovedIs
  <2>4. watches'[Len(watches) + 1].dir = d
    BY <2>1, NewIs
  <2>5. \A i \in 1 .. Len(watches) : watches[i].dir # d
    BY <1>1 DEF Watch, Watched, Types
  <2>6. DOMAIN watches' = 1 .. Len(watches) + 1 /\ DOMAIN watches = 1 .. Len(watches)
    BY <2>1 DEF Types
  <2>7. \A i \in DOMAIN watches' : i = Len(watches) + 1 \/ i \in 1 .. Len(watches)
    BY <2>1, <2>6
  <2>8. \A i, j \in DOMAIN watches' : watches'[i].dir = watches'[j].dir => i = j
    BY <2>3, <2>4, <2>5, <2>6, <2>7 DEF Apart
  <2>9. UNCHANGED <<control, loop, disk>> /\ disturbed' \in BOOLEAN
    BY <1>1 DEF Watch, Types, Control
  <2> QED
    BY <2>1, <2>8, <2>9 DEF Types, Control, Apart, control, loop, disk
<1>2. ASSUME NEW d \in Dirs, Unwatch(d) PROVE Types' /\ Apart'
  <2>1. watches' \in Seq(Entry) /\ Len(watches') = Len(watches) - 1 /\ Len(watches) \in Nat
    BY <1>2, UnwatchIs DEF Types
  <2>2. PICK i \in 1 .. Len(watches) : \A j \in 1 .. Len(watches) - 1 :
          watches'[j] = IF j < i THEN watches[j] ELSE Moved(watches[j + 1])
    BY <1>2, UnwatchIs
  <2>3. \A j \in 1 .. Len(watches) : watches[j] \in Entry
    BY DEF Types
  <2>4. \A j \in 1 .. Len(watches) - 1 :
          watches'[j].dir = IF j < i THEN watches[j].dir ELSE watches[j + 1].dir
    BY <2>1, <2>2, <2>3, MovedIs
  <2>5. DOMAIN watches' = 1 .. Len(watches) - 1 /\ DOMAIN watches = 1 .. Len(watches)
    BY <2>1 DEF Types
  <2>6. \A j, k \in DOMAIN watches' : watches'[j].dir = watches'[k].dir => j = k
    BY <2>1, <2>4, <2>5 DEF Apart
  <2>7. UNCHANGED <<control, loop, dirOf>> /\ disturbed' \in BOOLEAN
    BY <1>2 DEF Unwatch, Types, Control
  <2>8. where' \in [Changes -> Fates]
    BY <1>2 DEF Unwatch, Types, Fates
  <2> QED
    BY <2>1, <2>6, <2>7, <2>8 DEF Types, Control, Apart, control, loop
<1>3. CASE Start \/ Stop \/ Join
  <2>1. UNCHANGED <<watches, callback, handles, picked, disk>>
    BY <1>3 DEF Start, Stop, Join, loop
  <2>2. starts' \in 0 .. MaxStarts /\ owner' \in {"free", "joining"}
        /\ thread' \in {"none", "first", "collect", "wait", "process", "done"}
    BY <1>3, WatcherAssumption DEF Start, Stop, Join, loop, Types, Control
  <2>3. /\ callback' \in BOOLEAN /\ running' \in BOOLEAN /\ stopEvent' \in BOOLEAN
        /\ disturbed' \in BOOLEAN
    BY <1>3, <2>1 DEF Start, Stop, Join, Types, Control
  <2>4. Control'
    BY <2>2, <2>3 DEF Control
  <2> QED
    BY <2>1, <2>4 DEF Types, Apart, disk
<1>4. CASE FirstReads
  <2>1. Steady
    BY <1>4, FirstReadsIs
  <2>2. UNCHANGED <<control, handles, picked, dirOf, disturbed>> /\ thread' = "collect"
    BY <1>4 DEF FirstReads
  <2>3. where' \in [Changes -> Fates]
    BY <1>4 DEF FirstReads, Answer, Types, Fates
  <2> QED
    BY <2>1, <2>2, <2>3, ApartKept DEF Types, Control, Steady, control
<1>5. CASE Collect
  <2>1. UNCHANGED <<watches, control, picked, disk, disturbed>> /\ thread' \in {"wait", "done"}
    BY <1>5 DEF Collect
  <2>2. handles' = handles \/ handles' = [i \in DOMAIN watches |-> watches[i].dir]
    BY <1>5 DEF Collect
  <2>3. \A i \in DOMAIN watches : watches[i].dir \in Dirs
    BY EntriesAre
  <2>4. handles' \in Seq(Dirs)
    BY <2>2, <2>3 DEF Types
  <2>5. \A i, j \in DOMAIN handles' : handles'[i] = handles'[j] => i = j
    BY <2>2 DEF Apart
  <2> QED
    BY <2>1, <2>4, <2>5 DEF Types, Control, Apart, control, disk
<1>6. CASE WaitReturns
  <2>1. Steady /\ picked' \in {0} \cup DOMAIN handles
    BY <1>6, WaitIs DEF Waited
  <2>2. /\ UNCHANGED <<control, disk, disturbed>> /\ thread' \in {"done", "process", "collect"}
        /\ handles' \in {handles, <<>>}
    BY <1>6 DEF WaitReturns, TurnEnds
  <2>3. picked' \in Nat
    BY <2>1 DEF Types
  <2>4. handles' \in Seq(Dirs)
    <3>1. <<>> \in Seq(Dirs) /\ handles \in Seq(Dirs)
      BY DEF Types
    <3> QED
      BY <2>2, <3>1, Zenon
  <2>5. Apart'
    BY <2>1, <2>2, ApartKept
  <2>6. Control' /\ UNCHANGED <<where, dirOf>>
    BY <2>2 DEF Types, Control, control, disk
  <2> QED
    BY <2>1, <2>3, <2>4, <2>5, <2>6 DEF Types, Steady
<1>7. CASE Process
  <2>1. Steady
    BY <1>7, ProcessIs
  <2>2. /\ UNCHANGED <<control, dirOf, disturbed>> /\ thread' = "collect"
        /\ handles' = <<>> /\ picked' = 0
    BY <1>7 DEF Process, TurnEnds
  <2>3. where' \in [Changes -> Fates]
    BY <1>7 DEF Process, Heard, Answer, Types, Fates
  <2> QED
    BY <2>1, <2>2, <2>3, ApartKept DEF Types, Control, Steady, control
<1>8. ASSUME NEW k \in Changes, Change(k) PROVE Types' /\ Apart'
  <2>1. Steady
    BY <1>8, ChangeIs
  <2>2. UNCHANGED <<control, loop, dirOf, disturbed>>
    BY <1>8 DEF Change
  <2>3. where' \in [Changes -> Fates]
    BY <1>8 DEF Change, Overwritten, Types, Fates
  <2> QED
    BY <2>1, <2>2, <2>3, ApartKept DEF Types, Control, Steady, control, loop
<1>9. CASE UNCHANGED vars
  BY <1>9 DEF vars, Types, Control, Apart, control, loop, disk
<1>10. CASE SetCallback
  BY <1>10 DEF SetCallback, Types, Control, Apart, loop, disk
<1>11. ASSUME NEW d \in Dirs, ReadFails(d) PROVE Types' /\ Apart'
  <2>1. Steady
    BY <1>11, AnsweredIs DEF ReadFails
  <2>2. UNCHANGED <<control, loop, dirOf, disturbed>>
    BY <1>11 DEF ReadFails
  <2>3. where' \in [Changes -> Fates]
    BY <1>11 DEF ReadFails, Overwritten, Types, Fates
  <2> QED
    BY <2>1, <2>2, <2>3, ApartKept DEF Types, Control, Steady, control, loop
<1> QED
  BY <1>1, <1>2, <1>3, <1>4, <1>5, <1>6, <1>7, <1>8, <1>9, <1>10, <1>11 DEF Next, RunLoop

LEMMA TypesInit == Init => Types /\ Apart
<1> SUFFICES ASSUME Init PROVE Types /\ Apart
  OBVIOUS
<1>1. Control
  <2>1. /\ callback \in BOOLEAN /\ running \in BOOLEAN /\ stopEvent \in BOOLEAN
        /\ disturbed \in BOOLEAN
    BY Zenon DEF Init
  <2>2. thread = "none" /\ owner = "free" /\ starts = 0
    BY DEF Init
  <2> QED
    BY <2>1, <2>2, WatcherAssumption DEF Control
<1>2. watches = <<>> /\ handles = <<>> /\ picked = 0
  BY DEF Init
<1>3. watches \in Seq(Entry) /\ handles \in Seq(Dirs)
  BY <1>2
<1>4. where \in [Changes -> Fates] /\ dirOf \in [Changes -> Dirs]
  BY DEF Init, Fates
<1> QED
  BY <1>1, <1>2, <1>3, <1>4 DEF Types, Apart

LEMMA TypesInvariant == Spec => [](Types /\ Apart)
  BY TypesInit, TypesStep, PTL DEF Spec

\* Every variable keeps its type, and a directory is in the vector once.
THEOREM TypesCorrect == Spec => []TypeOK
<1>1. ASSUME Types, Apart PROVE TypeOK
  <2> DEFINE dirs == [i \in DOMAIN watches |-> watches[i].dir]
  <2>1. \A i \in DOMAIN watches : watches[i] \in Entry /\ watches[i].dir \in Dirs
    BY <1>1, EntriesAre
  <2>2. dirs \in Seq(Dirs) /\ Len(dirs) = Len(watches) /\ DOMAIN dirs = DOMAIN watches
    BY <1>1, <2>1 DEF Types
  <2>3. \A i, j \in DOMAIN dirs : dirs[i] = dirs[j] => i = j
    BY <1>1 DEF Apart
  <2>4. {dirs[i] : i \in DOMAIN dirs} = Watched
    BY DEF Watched
  <2> HIDE DEF dirs
  <2>5. Len(dirs) = Cardinality(Watched) /\ Watched \subseteq Dirs
    BY <2>2, <2>3, <2>4, CountDistinct
  <2>6. picked \in 0 .. Cardinality(Dirs)
    BY <1>1, FS_CardinalityType, WatcherAssumption DEF Apart
  <2> QED
    BY <1>1, <2>1, <2>2, <2>5, <2>6 DEF Types, Control, Fates, Entry, TypeOK
<1> QED
  BY <1>1, TypesInvariant, PTL

(***************************************************************************)
(* A watcher that is left alone.                                           *)
(***************************************************************************)
Early == starts = 0 \/ thread = "first"
\* The read of an entry is outstanding: nothing has been answered since it was issued.
Asks(i) ==
  /\ watches[i].reads = <<"here">> /\ ~watches[i].signal
  /\ In(watches[i].dir, "buffer") = {}
  /\ ~(thread = "process" /\ picked = i)

\* Before the first reads nothing is known of the directories; afterwards an entry has at
\* most one read, which was not answered, and the handles are those of the entries.
Calm ==
  /\ starts <= 1 /\ (starts = 0 => thread = "none")
  /\ thread \in {"wait", "process"} => handles = [i \in DOMAIN watches |-> watches[i].dir]
  /\ Early => /\ \A i \in DOMAIN watches : watches[i] = NewWatch(watches[i].dir)
              /\ \A k \in Changes : where[k] \notin {"kernel", "buffer"}
  /\ \A i \in DOMAIN watches : watches[i].reads # <<>> => Asks(i)
  /\ thread = "process" => \A i \in DOMAIN watches : i = picked => ~watches[i].signal
  /\ \A k \in Changes : where[k] # "lost"

LEMMA EarlyIs ==
  ASSUME Types, Calm, Early
  PROVE  \A i \in DOMAIN watches : /\ watches[i] = NewWatch(watches[i].dir)
                                   /\ watches[i].reads = <<>>
                                   /\ watches[i].signal = FALSE /\ watches[i].known = FALSE
<1> SUFFICES ASSUME NEW i \in DOMAIN watches
             PROVE  /\ watches[i] = NewWatch(watches[i].dir)
                    /\ watches[i].reads = <<>>
                    /\ watches[i].signal = FALSE /\ watches[i].known = FALSE
  OBVIOUS
<1> DEFINE d == watches[i].dir
<1>1. d \in Dirs
  BY EntriesAre
<1>2. watches[i] = NewWatch(d)
  BY DEF Calm
<1> HIDE DEF d
<1>3. watches[i].reads = <<>> /\ watches[i].signal = FALSE /\ watches[i].known = FALSE
  BY <1>1, <1>2, NewIs
<1> QED
  BY <1>2, <1>3 DEF d

LEMMA CalmStep ==
  ASSUME Types, Apart, ~disturbed => Calm, [Next]_vars
  PROVE  ~disturbed' => Calm'
<1> SUFFICES ASSUME ~disturbed' PROVE Calm'
  OBVIOUS
<1> ~disturbed
  BY DEF Next, Watch, Unwatch, SetCallback, Start, Stop, Join, RunLoop, FirstReads, Collect,
         WaitReturns, Process, Change, ReadFails, vars
<1> Calm
  OBVIOUS
<1>0. /\ DOMAIN watches = 1 .. Len(watches) /\ Len(watches) \in Nat
      /\ \A i \in DOMAIN watches : watches[i] \in Entry /\ watches[i].dir \in Dirs
      /\ starts \in Nat
  BY EntriesAre DEF Types, Control
<1>a. disturbed' = (disturbed \/ starts > 0) => starts = 0
  <2>1. disturbed' = (disturbed \/ starts > 0) => ~(starts > 0)
    BY Zenon
  <2> QED
    BY <1>0, <2>1
<1>1. ASSUME NEW d \in Dirs, Watch(d) PROVE Calm'
  <2>1. starts = 0 /\ UNCHANGED <<starts, thread, handles, picked, where, dirOf>>
    BY <1>a, <1>1 DEF Watch, control, loop, disk
  <2>2. \A i \in DOMAIN watches : watches[i] = NewWatch(watches[i].dir) /\ watches[i].reads = <<>>
    BY <2>1, EarlyIs DEF Early
  <2>3. \A i \in 1 .. Len(watches) : watches'[i] = watches[i]
    BY <1>0, <1>1, <2>2, WatchIs, MovedIs
  <2>4. DOMAIN watches' = 1 .. Len(watches) + 1 /\ watches'[Len(watches) + 1] = NewWatch(d)
    BY <1>0, <1>1, WatchIs
  <2>5. \A i \in DOMAIN watches' : watches'[i] = NewWatch(watches'[i].dir) /\ watches'[i].reads = <<>>
    <3>1. ASSUME NEW i \in DOMAIN watches', i # Len(watches) + 1
          PROVE  watches'[i] = watches[i] /\ i \in DOMAIN watches
      BY <1>0, <2>3, <2>4, <3>1
    <3>2. LET w == NewWatch(d) IN w = NewWatch(w.dir) /\ w.reads = <<>>
      BY NewIs
    <3> QED
      BY <2>2, <2>4, <3>1, <3>2
  <2>6. thread = "none"
    BY <2>1 DEF Calm
  <2> QED
    BY <2>1, <2>5, <2>6 DEF Calm, Early
<1>2. ASSUME NEW d \in Dirs, Unwatch(d) PROVE Calm'
  <2>1. starts = 0 /\ UNCHANGED <<starts, thread, handles, picked, dirOf>>
    BY <1>a, <1>2 DEF Unwatch, control, loop
  <2>2. \A i \in DOMAIN watches : watches[i] = NewWatch(watches[i].dir) /\ watches[i].reads = <<>>
    BY <2>1, EarlyIs DEF Early
  <2>3. DOMAIN watches' = 1 .. Len(watches) - 1
    <3>1. watches' \in Seq(Entry) /\ Len(watches') = Len(watches) - 1
      BY <1>2, UnwatchIs
    <3> QED
      BY <3>1
  <2>4. \A j \in DOMAIN watches' : \E i \in DOMAIN watches : watches'[j] = watches[i]
    <3>1. PICK i \in 1 .. Len(watches) : \A j \in 1 .. Len(watches) - 1 :
            watches'[j] = IF j < i THEN watches[j] ELSE Moved(watches[j + 1])
      BY <1>2, UnwatchIs
    <3>2. \A j \in DOMAIN watches : Moved(watches[j]) = watches[j]
      BY <1>0, <2>2, MovedIs
    <3> QED
      BY <1>0, <2>3, <3>1, <3>2
  <2>5. \A k \in Changes : where'[k] = where[k]
    BY <1>2, <2>1 DEF Unwatch, Calm, Early, Types
  <2>6. thread = "none"
    BY <2>1 DEF Calm
  <2> QED
    BY <2>1, <2>2, <2>4, <2>5, <2>6 DEF Calm, Early
<1>3. CASE Start
  <2>1. starts = 0 /\ starts' = 1 /\ thread' = "first" /\ UNCHANGED <<watches, disk>>
    BY <1>a, <1>3 DEF Start
  <2>2. \A i \in DOMAIN watches : watches[i].reads = <<>>
    BY <2>1, EarlyIs DEF Early
  <2> QED
    BY <2>1, <2>2 DEF Calm, Early, disk
<1>4. CASE Stop \/ Join
  <2>1. /\ UNCHANGED <<watches, starts, handles, picked, disk>>
        /\ thread' = thread \/ (thread = "done" /\ thread' = "none")
    BY <1>4 DEF Stop, Join, loop
  <2> QED
    BY <2>1 DEF Calm, Early, Asks, In, disk
<1>5. CASE FirstReads
  <2>1. /\ Steady /\ thread = "first" /\ thread' = "collect" /\ UNCHANGED <<starts, dirOf>>
    BY <1>5, FirstReadsIs DEF FirstReads, control
  <2>g. PICK granted \in [1 .. Len(watches) -> BOOLEAN] :
          \A i \in 1 .. Len(watches) : watches'[i] = Issued(watches[i], granted[i])
    BY <1>5, FirstReadsIs
  <2>2. /\ \A i \in DOMAIN watches : watches[i].reads = <<>> /\ ~watches[i].signal
        /\ \A k \in Changes : where[k] \notin {"kernel", "buffer"}
    BY <2>1, EarlyIs DEF Early, Calm
  <2>3. \A k \in Changes : where'[k] = where[k]
    BY <1>5, <2>2 DEF FirstReads, Types
  <2>4. \A d : In(d, "kernel") = {} /\ In(d, "buffer")' = {}
    BY <2>1, <2>2, <2>3 DEF In
  <2>5. \A i \in DOMAIN watches : watches'[i].reads \in {<<>>, <<"here">>} /\ ~watches'[i].signal
    <3>1. \A i \in DOMAIN watches :
            /\ watches'[i].reads \in {watches[i].reads, Append(watches[i].reads, "here")}
            /\ watches'[i].signal = watches[i].signal
      <4>1. ASSUME NEW i \in DOMAIN watches
            PROVE  /\ watches'[i].reads \in {watches[i].reads, Append(watches[i].reads, "here")}
                   /\ watches'[i].signal = watches[i].signal
        <5>1. /\ watches[i] \in Entry /\ granted[i] \in BOOLEAN
              /\ watches'[i] = Issued(watches[i], granted[i]) /\ In(watches[i].dir, "kernel") = {}
          BY <1>0, <2>g, <2>4
        <5> QED
          BY <5>1, IssuedIs
      <4> QED
        BY <4>1
    <3>2. Append(<<>>, "here") = <<"here">>
      OBVIOUS
    <3> QED
      BY <2>2, <3>1, <3>2
  <2>6. DOMAIN watches' = DOMAIN watches
    BY <1>0, <2>1 DEF Steady
  <2>7. starts # 0
    BY <2>1 DEF Calm
  <2> QED
    BY <2>1, <2>3, <2>4, <2>5, <2>6, <2>7 DEF Calm, Early, Asks
<1>6. CASE Collect
  <2>1. /\ UNCHANGED <<watches, starts, where, dirOf>> /\ thread = "collect" /\ thread' \in {"wait", "done"}
        /\ thread' = "wait" => handles' = [i \in DOMAIN watches |-> watches[i].dir]
    BY <1>6 DEF Collect, control, disk
  <2> QED
    BY <2>1 DEF Calm, Early, Asks, In
<1>7. CASE WaitReturns
  <2>1. /\ UNCHANGED <<starts, where, dirOf>> /\ thread = "wait"
        /\ thread' \in {"done", "process", "collect"} /\ Waited
    BY <1>7, WaitIs DEF WaitReturns, control, disk
  <2>2. DOMAIN watches' = DOMAIN watches /\ \A i \in DOMAIN watches : watches'[i].dir = watches[i].dir
    BY <1>0, <2>1 DEF Waited, Steady
  <2>3. thread' = "process" => handles' = [i \in DOMAIN watches' |-> watches'[i].dir]
    BY <2>1, <2>2 DEF Calm, Waited
  <2>4. starts # 0
    BY <2>1 DEF Calm
  <2>5. ASSUME NEW i \in DOMAIN watches, watches'[i].reads # <<>> PROVE Asks(i)'
    <3>1. watches[i].reads = <<"here">> /\ watches'[i].reads = <<"here">> /\ ~watches'[i].signal
          /\ ~watches[i].signal /\ In(watches[i].dir, "buffer") = {}
      BY <1>0, <2>1, <2>5 DEF Waited, Calm, Asks
    <3>2. ASSUME thread' = "process", picked' = i PROVE FALSE
      <4>1. PICK j \in DOMAIN watches : watches[j].dir = handles[i] /\ watches[j].signal
        BY <2>1, <3>2 DEF Waited, Signalled
      <4>2. watches[j].dir = watches[i].dir
        BY <2>1, <4>1 DEF Calm
      <4> QED
        BY <3>1, <4>1, <4>2 DEF Apart
    <3> QED
      BY <2>1, <2>2, <3>1, <3>2 DEF Asks, In
  <2>6. ASSUME thread' = "process", NEW i \in DOMAIN watches, i = picked' PROVE ~watches'[i].signal
    <3>1. watches[i].dir = handles[picked']
      BY <2>1, <2>6 DEF Calm
    <3> QED
      BY <1>0, <2>1, <2>6, <3>1 DEF Waited
  <2> QED
    BY <2>1, <2>2, <2>3, <2>4, <2>5, <2>6 DEF Calm, Early
<1>8. CASE Process
  <2>1. Steady /\ thread = "process" /\ thread' = "collect" /\ UNCHANGED <<starts, dirOf>>
    BY <1>8, ProcessIs DEF Process, control
  <2>g. PICK granted \in BOOLEAN : \A i \in 1 .. Len(watches) :
          watches'[i] = IF i = picked THEN Issued(watches[i], granted) ELSE watches[i]
    BY <1>8, ProcessIs
  <2>2. DOMAIN watches' = DOMAIN watches /\ \A i \in DOMAIN watches : watches'[i].dir = watches[i].dir
    BY <1>0, <2>1 DEF Steady
  <2>3. starts # 0
    BY <2>1 DEF Calm
  <2>4. \A k \in Changes : where'[k] # "lost"
    BY <1>8 DEF Process, Heard, Answer, Calm, Types
  <2>5. \A k \in Changes : (picked \notin DOMAIN watches \/ dirOf[k] # watches[picked].dir)
                              => where'[k] = where[k]
    BY <1>8 DEF Process, Types
  <2>6. \A k \in Changes : picked \in DOMAIN watches /\ dirOf[k] = watches[picked].dir
                             /\ where'[k] = "buffer" => where[k] = "kernel"
    BY <1>8 DEF Process, Heard, Types
  <2>7. ASSUME NEW i \in DOMAIN watches, watches'[i].reads # <<>> PROVE Asks(i)'
    <3>1. CASE i = picked
      <4>1. watches[i].reads = <<>>
        BY <2>1, <3>1 DEF Calm, Asks
      <4>2. /\ In(watches[i].dir, "kernel") = {}
            /\ watches'[i].reads = Append(<<>>, "here") /\ watches'[i].signal = watches[i].signal
        <5>1. watches[i] \in Entry /\ watches'[i] = Issued(watches[i], granted)
          BY <1>0, <2>g, <3>1
        <5>2. watches'[i].reads # watches[i].reads
          BY <2>7, <4>1
        <5> QED
          BY <4>1, <5>1, <5>2, IssuedIs
      <4>3. In(watches[i].dir, "buffer")' = {}
        BY <2>1, <2>2, <2>6, <3>1, <4>2 DEF In
      <4>4. Append(<<>>, "here") = <<"here">>
        OBVIOUS
      <4>5. ~watches[i].signal
        BY <2>1, <3>1 DEF Calm
      <4> QED
        BY <2>1, <4>2, <4>3, <4>4, <4>5 DEF Asks
    <3>2. CASE i # picked
      <4>1. watches'[i] = watches[i] /\ Asks(i)
        BY <1>0, <2>g, <2>7, <3>2 DEF Calm
      <4>2. picked \in DOMAIN watches => watches[picked].dir # watches[i].dir
        BY <3>2 DEF Apart
      <4>3. In(watches[i].dir, "buffer")' = In(watches[i].dir, "buffer")
        BY <2>1, <2>2, <2>5, <4>2 DEF In
      <4> QED
        BY <2>1, <4>1, <4>3 DEF Asks
    <3> QED
      BY <3>1, <3>2
  <2> QED
    BY <2>1, <2>2, <2>3, <2>4, <2>7 DEF Calm, Early
<1>9. ASSUME NEW k \in Changes, Change(k) PROVE Calm'
  <2>1. Steady /\ UNCHANGED <<starts, thread, handles, picked, dirOf>>
        /\ where[k] \in {"none", "reported"}
    BY <1>9, ChangeIs DEF Change, control, loop
  <2>2. DOMAIN watches' = DOMAIN watches /\ \A i \in DOMAIN watches : watches'[i].dir = watches[i].dir
    BY <1>0, <2>1 DEF Steady
  <2>3. [i \in DOMAIN watches' |-> watches'[i].dir] = [i \in DOMAIN watches |-> watches[i].dir]
    BY <2>2
  <2>4. ASSUME UNCHANGED watches, where' \in {[where EXCEPT ![k] = "unseen"],
                                              [where EXCEPT ![k] = "kernel"]}
        PROVE  Calm'
    <3>1. \A j \in Changes : where'[j] = where[j] \/ (j = k /\ where'[j] \in {"unseen", "kernel"})
      BY <2>4 DEF Types
    <3>2. \A i \in DOMAIN watches : In(watches[i].dir, "buffer")' = In(watches[i].dir, "buffer")
      BY <2>1, <2>4, <3>1 DEF In
    <3>3. \A i \in DOMAIN watches : Asks(i) => Asks(i)'
      BY <2>1, <2>4, <3>2 DEF Asks
    <3>4. Early => where'[k] = "unseen"
      <4>1. Early => \A i \in DOMAIN watches : ~watches[i].known
        BY EarlyIs
      <4> QED
        BY <1>9, <2>4, <4>1 DEF Change, Types
    <3> QED
      BY <2>1, <2>4, <3>1, <3>3, <3>4 DEF Calm, Early
  <2>5. ASSUME NEW i \in 1 .. Len(watches), watches[i].dir = dirOf[k], watches[i].known,
               watches[i].reads # <<>>, watches'[i].reads = Tail(watches[i].reads),
               \A j \in 1 .. Len(watches) : j # i => watches'[j] = watches[j],
               \/ Head(watches[i].reads) = "left" /\ where' = [where EXCEPT ![k] = "lost"]
               \/ /\ Head(watches[i].reads) = "here"
                  /\ where' = [Overwritten(watches[i]) EXCEPT ![k] = "buffer"]
        PROVE  Calm'
    <3>1. watches[i].reads = <<"here">> /\ In(watches[i].dir, "buffer") = {} /\ Asks(i)
      BY <1>0, <2>5 DEF Calm, Asks
    <3>2. watches'[i].reads = <<>> /\ Head(watches[i].reads) = "here"
      BY <2>5, <3>1
    <3>3. where' = [where EXCEPT ![k] = "buffer"]
      <4>1. \A j \in Changes : j \notin In(watches[i].dir, "buffer")
        BY <3>1
      <4>2. Overwritten(watches[i]) = where
        BY <4>1 DEF Overwritten, Types
      <4> QED
        BY <2>5, <3>2, <4>2
    <3>4. \A j \in Changes : j # k => where'[j] = where[j]
      BY <3>3 DEF Types
    <3>5. where'[k] = "buffer"
      BY <3>3 DEF Types
    <3>6. ~Early
      BY <1>0, <2>5, EarlyIs
    <3>7. ASSUME NEW j \in DOMAIN watches, j # i PROVE Asks(j) => Asks(j)'
      <4>1. watches'[j] = watches[j] /\ watches[j].dir # dirOf[k]
        BY <1>0, <2>5, <3>7 DEF Apart
      <4>2. In(watches[j].dir, "buffer")' = In(watches[j].dir, "buffer")
        BY <2>1, <3>4, <4>1 DEF In
      <4> QED
        BY <2>1, <4>1, <4>2 DEF Asks
    <3>8. \A j \in DOMAIN watches : watches'[j].reads # <<>> => Asks(j)'
      BY <1>0, <2>5, <3>2, <3>7 DEF Calm
    <3>9. thread = "process" => \A j \in DOMAIN watches : j = picked => ~watches'[j].signal
      BY <1>0, <2>5, <3>1 DEF Calm, Asks
    <3>10. \A j \in Changes : where'[j] # "lost"
      BY <3>4, <3>5 DEF Calm
    <3> QED
      BY <2>1, <2>2, <2>3, <3>6, <3>8, <3>9, <3>10 DEF Calm, Early
  <2> QED
    BY <1>9, <2>4, <2>5, ChangeIs
<1>10. CASE UNCHANGED vars
  BY <1>10 DEF vars, control, loop, disk, Calm, Early, Asks, In
<1>11. CASE SetCallback
  <2>1. UNCHANGED <<watches, starts, thread, handles, picked, where, dirOf>>
    BY <1>11 DEF SetCallback, loop, disk
  <2> QED
    BY <2>1 DEF Calm, Early, Asks, In
<1>12. ASSUME NEW d \in Dirs, ReadFails(d) PROVE Calm'
  <2>1. PICK i \in DOMAIN watches :
          /\ watches[i].reads # <<>> /\ watches' = [watches EXCEPT ![i] = Answered(watches[i])]
          /\ where' = IF Head(watches[i].reads) = "here" THEN Overwritten(watches[i]) ELSE where
    BY <1>12 DEF ReadFails
  <2>2. UNCHANGED <<starts, thread, handles, picked, dirOf>>
    BY <1>12 DEF ReadFails, control, loop
  <2>3. watches[i].reads = <<"here">> /\ In(watches[i].dir, "buffer") = {} /\ Asks(i)
    BY <2>1 DEF Calm, Asks
  <2>4. where' = where
    <3>1. \A j \in Changes : j \notin In(watches[i].dir, "buffer")
      BY <2>3
    <3>2. Overwritten(watches[i]) = where
      BY <3>1 DEF Overwritten, Types
    <3> QED
      BY <2>1, <3>2
  <2>5. /\ Steady /\ watches'[i].reads = <<>>
        /\ \A j \in 1 .. Len(watches) : j # i => watches'[j] = watches[j]
    <3>1. Tail(<<"here">>) = <<>>
      OBVIOUS
    <3> QED
      BY <2>1, <2>3, <3>1, AnsweredIs
  <2>6. DOMAIN watches' = DOMAIN watches /\ \A j \in DOMAIN watches : watches'[j].dir = watches[j].dir
    BY <1>0, <2>5 DEF Steady
  <2>7. [j \in DOMAIN watches' |-> watches'[j].dir] = [j \in DOMAIN watches |-> watches[j].dir]
    BY <2>6
  <2>8. ~Early
    BY <2>1, EarlyIs
  <2>9. \A j \in DOMAIN watches : watches'[j].reads # <<>> => Asks(j)'
    BY <1>0, <2>2, <2>4, <2>5 DEF Calm, Asks, In
  <2>10. thread = "process" => \A j \in DOMAIN watches : j = picked => ~watches'[j].signal
    BY <1>0, <2>3, <2>5 DEF Calm, Asks
  <2> QED
    BY <2>2, <2>4, <2>6, <2>7, <2>8, <2>9, <2>10 DEF Calm, Early
<1> QED
  BY <1>1, <1>2, <1>3, <1>4, <1>5, <1>6, <1>7, <1>8, <1>9, <1>10, <1>11, <1>12 DEF Next, RunLoop

\* If the directories were all added before the only start, no change that the system handed
\* over is lost, however reads, answers and the callback interleave: an entry never has two
\* reads outstanding, and none while an answer waits to be looked at.
THEOREM LeftAloneLosesNothing == Spec => []NothingIsLost
<1>1. Init => (~disturbed => Calm)
  BY DEF Init, Calm, Early
<1>2. Types /\ Apart /\ (~disturbed => Calm) /\ [Next]_vars => (~disturbed => Calm)'
  BY CalmStep
<1>3. (~disturbed => Calm) => NothingIsLost
  BY DEF Calm, NothingIsLost
<1> QED
  BY <1>1, <1>2, <1>3, TypesInit, TypesStep, PTL DEF Spec
==============================================================================
