-------------------------- MODULE RequestDeduplicator --------------------------
(***************************************************************************)
(* RequestDeduplicator (Engine/Pipeline/RequestDeduplicator.h): callers    *)
(* that ask for a file that is being decoded wait for that decode and      *)
(* share its result.                                                       *)
(*                                                                         *)
(* A step is a critical section of m_mutex or of the mutex of an entry, a  *)
(* decode, or a notification.  An entry is an object that the map and the  *)
(* callers share: its name is free again when nobody holds it.             *)
(***************************************************************************)
EXTENDS Naturals, FiniteSets

CONSTANTS
  Callers,
  Paths,
  Entries,   \* InflightEntry objects, at least one for every caller and every path
  NoEntry,
  NoPath

ASSUME DedupAssumption ==
  NoEntry \notin Entries /\ NoPath \notin Paths /\ IsFiniteSet(Paths)

VARIABLES
  inflight,   \* m_inflight: the entry of each path, or NoEntry
  active,     \* m_stats.activeInflight
  result,     \* what each entry holds: "none" is the default result
  pc,         \* where each caller is in Submit
  path,       \* the file each caller in Submit asked for
  entry,      \* the entry each caller holds
  decoded     \* what the decoder gave each caller that decodes

vars == <<inflight, active, result, pc, path, entry, decoded>>

\* What a decoder returns.  A default result has neither success nor an error text.
Outcomes == {"success", "error", "none"}

Init ==
  /\ inflight = [p \in Paths |-> NoEntry] /\ active = 0
  /\ result = [e \in Entries |-> "none"]
  /\ pc = [c \in Callers |-> "idle"]
  /\ path = [c \in Callers |-> NoPath]
  /\ entry = [c \in Callers |-> NoEntry]
  /\ decoded = [c \in Callers |-> "none"]

Goto(c, l) == pc' = [pc EXCEPT ![c] = l]
Held(e) == (\E c \in Callers : entry[c] = e) \/ (\E p \in Paths : inflight[p] = e)

\* A caller returns: its locals end, and the entry with them if nobody else holds it.
Return(c) ==
  /\ Goto(c, "idle")
  /\ path' = [path EXCEPT ![c] = NoPath]
  /\ entry' = [entry EXCEPT ![c] = NoEntry]
  /\ decoded' = [decoded EXCEPT ![c] = "none"]
  /\ result' = [e \in Entries |-> IF Held(e)' THEN result[e] ELSE "none"]

(***************************************************************************)
(* Submit.                                                                 *)
(***************************************************************************)
\* Variant with a defect: any entry of the map is joined.
JoinAny(c, p) ==
  /\ pc[c] = "idle"
  /\ \E q \in Paths :
       inflight[q] # NoEntry /\ entry' = [entry EXCEPT ![c] = inflight[q]]
  /\ path' = [path EXCEPT ![c] = p]
  /\ Goto(c, "wait")
  /\ UNCHANGED <<inflight, active, result, decoded>>

\* The entry of a decode that is under way; nothing sets completed.
Join(c, p) ==
  /\ pc[c] = "idle" /\ inflight[p] # NoEntry
  /\ path' = [path EXCEPT ![c] = p]
  /\ entry' = [entry EXCEPT ![c] = inflight[p]]
  /\ Goto(c, "wait")
  /\ UNCHANGED <<inflight, active, result, decoded>>

NewEntry == CHOOSE e \in Entries : ~Held(e)
CanMakeEntry == \E e \in Entries : ~Held(e)

\* Variant with a defect: the map is not searched first.
LeadAgain(c, p) ==
  /\ pc[c] = "idle" /\ CanMakeEntry
  /\ path' = [path EXCEPT ![c] = p]
  /\ entry' = [entry EXCEPT ![c] = NewEntry]
  /\ inflight' = [inflight EXCEPT ![p] = NewEntry] /\ active' = active + 1
  /\ Goto(c, "decode")
  /\ UNCHANGED <<result, decoded>>

\* The first request for a path.
Lead(c, p) ==
  /\ pc[c] = "idle" /\ inflight[p] = NoEntry /\ CanMakeEntry
  /\ path' = [path EXCEPT ![c] = p]
  /\ entry' = [entry EXCEPT ![c] = NewEntry]
  /\ inflight' = [inflight EXCEPT ![p] = NewEntry] /\ active' = active + 1
  /\ Goto(c, "decode")
  /\ UNCHANGED <<result, decoded>>

Decode(c) ==
  /\ pc[c] = "decode"
  /\ \E r \in Outcomes : decoded' = [decoded EXCEPT ![c] = r]
  /\ Goto(c, "publish")
  /\ UNCHANGED <<inflight, active, result, path, entry>>

\* An exception of the decoder leaves Submit at once.
Throw(c) ==
  /\ pc[c] = "decode"
  /\ UNCHANGED <<inflight, active>>
  /\ Return(c)

Publish(c) ==
  /\ pc[c] = "publish"
  /\ result' = [result EXCEPT ![entry[c]] = decoded[c]]
  /\ Goto(c, "notify")
  /\ UNCHANGED <<inflight, active, path, entry, decoded>>

\* Variant with a defect: only one caller is woken.
NotifyOne(c) ==
  /\ pc[c] = "notify"
  /\ \/ \E d \in Callers : pc[d] = "asleep" /\ entry[d] = entry[c]
                           /\ pc' = [pc EXCEPT ![c] = "clean", ![d] = "wait"]
     \/ /\ \A d \in Callers : pc[d] = "asleep" => entry[d] # entry[c]
        /\ Goto(c, "clean")
  /\ UNCHANGED <<inflight, active, result, path, entry, decoded>>

\* notify_all: those asleep on the entry look again.
Notify(c) ==
  /\ pc[c] = "notify"
  /\ pc' = [d \in Callers |-> IF d = c THEN "clean"
                              ELSE IF pc[d] = "asleep" /\ entry[d] = entry[c] THEN "wait"
                              ELSE pc[d]]
  /\ UNCHANGED <<inflight, active, result, path, entry, decoded>>

\* Variant with a defect: the counter is left alone.
CleanKeeps(c) ==
  /\ pc[c] = "clean"
  /\ inflight' = [inflight EXCEPT ![path[c]] = NoEntry]
  /\ UNCHANGED active
  /\ Return(c)

Clean(c) ==
  /\ pc[c] = "clean"
  /\ inflight' = [inflight EXCEPT ![path[c]] = NoEntry]
  /\ active' = IF active > 0 THEN active - 1 ELSE active
  /\ Return(c)

\* Variant with a defect: the predicate is not looked at again after the lock was taken.
WaitLoose(c) ==
  /\ pc[c] = "wait"
  /\ UNCHANGED <<inflight, active>>
  /\ \/ result[entry[c]] # "none" /\ Return(c)
     \/ /\ Goto(c, "asleep")
        /\ UNCHANGED <<result, path, entry, decoded>>

\* The wait of a joined caller: the predicate is looked at under the mutex of the entry.
Wait(c) ==
  /\ pc[c] = "wait"
  /\ UNCHANGED <<inflight, active>>
  /\ \/ result[entry[c]] # "none" /\ Return(c)
     \/ /\ result[entry[c]] = "none" /\ Goto(c, "asleep")
        /\ UNCHANGED <<result, path, entry, decoded>>

Work(c) == Decode(c) \/ Publish(c) \/ Notify(c) \/ Clean(c) \/ Wait(c)

Next == \E c \in Callers :
          \/ \E p \in Paths : Join(c, p) \/ Lead(c, p)
          \/ Work(c) \/ Throw(c)

Spec == Init /\ [][Next]_vars

\* A call that can go on goes on; decoders return or throw.
FairSpec == Spec /\ \A c \in Callers : WF_vars(Work(c))

(***************************************************************************)
(* Properties.                                                             *)
(***************************************************************************)
Leads(c) == pc[c] \in {"decode", "publish", "notify", "clean"}
Joined(c) == pc[c] \in {"wait", "asleep"}

TypeOK ==
  /\ inflight \in [Paths -> Entries \cup {NoEntry}]
  /\ active \in 0 .. Cardinality(Paths)
  /\ result \in [Entries -> Outcomes]
  /\ pc \in [Callers -> {"idle", "decode", "publish", "notify", "clean", "wait", "asleep"}]
  /\ path \in [Callers -> Paths \cup {NoPath}]
  /\ entry \in [Callers -> Entries \cup {NoEntry}]
  /\ decoded \in [Callers -> Outcomes]

\* No file is decoded by two callers at the same time, and no caller erases the entry of another.
OneDecodePerPath ==
  \A c, d \in Callers : Leads(c) /\ Leads(d) /\ path[c] = path[d] => c = d

\* A caller that has joined shares its entry with nobody who asked for another file.
SharesItsFile ==
  \A c, d \in Callers : entry[c] = entry[d] /\ entry[c] # NoEntry => path[c] = path[d]

\* activeInflight is the size of the map, also after a decoder has thrown.
CountsInflight == active = Cardinality({p \in Paths : inflight[p] # NoEntry})

\* A caller is not asleep on an entry whose result has been announced: no wake-up is lost.
NoLostWakeup ==
  \A c \in Callers : pc[c] = "asleep" /\ result[entry[c]] # "none"
    => \E d \in Callers : pc[d] = "notify" /\ entry[d] = entry[c]

\* "All waiters share the result": who joins a decode comes back.
CallersReturn == \A c \in Callers : Joined(c) ~> pc[c] = "idle"

\* A caller that joined comes back once its entry holds a success or an error.
JoinedReturn ==
  \A c \in Callers : Joined(c) /\ result[entry[c]] # "none" ~> pc[c] = "idle"
================================================================================
