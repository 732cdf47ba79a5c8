----------------------- MODULE CacheInvalidationWatcher -----------------------
(***************************************************************************)
(* CacheInvalidationWatcher (Engine/Cache/CacheInvalidationWatcher.cpp): a *)
(* thread that waits for changes in directories and gives each to the      *)
(* callback that drops stale cache entries.  Its owner adds and removes    *)
(* directories, starts it and stops it, from one thread.                   *)
(*                                                                         *)
(* ReadDirectoryChangesW is external: from the first read of a directory   *)
(* on the system keeps its changes, hands them to the oldest read that is  *)
(* outstanding and signals the event of the watch.  A read writes to the   *)
(* place where its WatchEntry was when it was issued; what else it damages *)
(* when the vector has moved the entry is not modelled.  The system may    *)
(* refuse a read, which IssueRead does not notice: it is not tried again,  *)
(* since no event will bring the thread back to it.  It may answer a read  *)
(* with an error, which GetOverlappedResult reports: ProcessEvents gives   *)
(* that answer up, and the next read is issued.                            *)
(***************************************************************************)
EXTENDS Naturals, Sequences, FiniteSets

CONSTANTS
  Dirs,
  Changes,     \* changes of files that may happen
  Again,       \* those that may happen again when they have been reported
  ReadFaults,  \* whether the system may refuse a read or answer it with an error
  MaxStarts    \* bound on the number of times the owner starts the watcher

ASSUME WatcherAssumption ==
  IsFiniteSet(Dirs) /\ MaxStarts \in Nat /\ ReadFaults \in BOOLEAN

VARIABLES
  watches,   \* the vector of WatchEntry
  callback,  \* whether there is one
  running,
  stopEvent, \* hStopEvent, a manual-reset event
  thread,    \* where RunLoop is; "none" if there is no thread
  handles,   \* the directories whose events the thread waits for
  picked,    \* the index the wait returned
  owner,     \* "free", or "joining" in Stop
  starts,
  where,     \* what became of each change
  dirOf,     \* the directory of each change
  disturbed  \* whether a watch came or went after a start, or there was a second start

control == <<callback, running, stopEvent, owner, starts>>
loop == <<thread, handles, picked>>
disk == <<where, dirOf>>
vars == <<watches, control, loop, disk, disturbed>>

\* reads: the outstanding reads, each "here" or "left" behind by a move of the entry; known: the
\* system keeps the changes of the directory; refused: the last IssueRead failed; signal: hEvent.
NewWatch(d) == [dir |-> d, reads |-> <<>>, known |-> FALSE, refused |-> FALSE, signal |-> FALSE]

Init ==
  /\ watches = <<>> /\ callback = FALSE /\ running = FALSE /\ stopEvent = FALSE
  /\ thread = "none" /\ handles = <<>> /\ picked = 0
  /\ owner = "free" /\ starts = 0
  /\ where = [k \in Changes |-> "none"]
  /\ dirOf \in [Changes -> Dirs]
  /\ disturbed = FALSE

Watched == {watches[i].dir : i \in DOMAIN watches}
Moved(w) == [w EXCEPT !.reads = [i \in DOMAIN w.reads |-> "left"]]

(***************************************************************************)
(* The owner.                                                              *)
(***************************************************************************)
\* Variant with a defect: a directory is not looked for first.
WatchTwice(d) ==
  /\ owner = "free"
  /\ watches' = Append(watches, NewWatch(d))
  /\ disturbed' = (disturbed \/ starts > 0)
  /\ UNCHANGED <<control, loop, disk>>

\* AddWatch: the vector grows in place, or moves all its entries.
Watch(d) ==
  /\ owner = "free" /\ d \notin Watched
  /\ \/ watches' = Append(watches, NewWatch(d))
     \/ watches' = Append([i \in DOMAIN watches |-> Moved(watches[i])], NewWatch(d))
  /\ disturbed' = (disturbed \/ starts > 0)
  /\ UNCHANGED <<control, loop, disk>>

\* RemoveWatch: the entries behind it move down; what the system held for it is gone.
Unwatch(d) ==
  /\ owner = "free"
  /\ \E i \in DOMAIN watches :
       /\ watches[i].dir = d
       /\ watches' = [j \in 1 .. Len(watches) - 1 |->
                        IF j < i THEN watches[j] ELSE Moved(watches[j + 1])]
  /\ where' = [k \in Changes |-> IF dirOf[k] = d /\ where[k] \in {"kernel", "buffer"}
                                 THEN "unwatched" ELSE where[k]]
  /\ disturbed' = (disturbed \/ starts > 0)
  /\ UNCHANGED <<control, loop, dirOf>>

SetCallback ==
  /\ owner = "free" /\ ~callback
  /\ callback' = TRUE
  /\ UNCHANGED <<watches, running, stopEvent, owner, starts, loop, disk, disturbed>>

Start ==
  /\ owner = "free" /\ ~running /\ starts < MaxStarts
  /\ running' = TRUE /\ stopEvent' = FALSE /\ starts' = starts + 1
  /\ thread' = "first"
  /\ disturbed' = (disturbed \/ starts > 0)
  /\ UNCHANGED <<watches, callback, owner, handles, picked, disk>>

\* Variant with a defect: the event is forgotten.
StopQuiet ==
  /\ owner = "free" /\ running
  /\ running' = FALSE /\ owner' = "joining"
  /\ UNCHANGED <<watches, callback, stopEvent, starts, loop, disk, disturbed>>

Stop ==
  /\ owner = "free" /\ running
  /\ running' = FALSE /\ stopEvent' = TRUE /\ owner' = "joining"
  /\ UNCHANGED <<watches, callback, starts, loop, disk, disturbed>>

Join ==
  /\ owner = "joining" /\ thread = "done"
  /\ thread' = "none" /\ owner' = "free"
  /\ UNCHANGED <<watches, callback, running, stopEvent, starts, handles, picked, disk, disturbed>>

(***************************************************************************)
(* IssueRead and ProcessEvents.                                            *)
(***************************************************************************)
In(d, l) == {k \in Changes : dirOf[k] = d /\ where[k] = l}

\* A new read forgets an answer that nobody looked at.  It is refused, or answered at once if
\* the system has kept changes, by nothing if they were too many.
Granted == IF ReadFaults THEN BOOLEAN ELSE {TRUE}
Issued(w, granted) ==
  IF ~granted THEN [w EXCEPT !.refused = TRUE]
  ELSE IF In(w.dir, "kernel") = {}
    THEN [w EXCEPT !.reads = Append(@, "here"), !.known = TRUE, !.refused = FALSE]
    ELSE [w EXCEPT !.known = TRUE, !.refused = FALSE, !.signal = TRUE]
Answer(overflow) == IF overflow THEN "overflowed" ELSE "buffer"

\* The reads issued before the loop.
FirstReads ==
  /\ thread = "first"
  /\ \E granted \in [DOMAIN watches -> Granted], overflow \in BOOLEAN :
       /\ watches' = [i \in DOMAIN watches |-> Issued(watches[i], granted[i])]
       /\ where' = [k \in Changes |->
                      IF /\ where[k] = "kernel"
                         /\ \E i \in DOMAIN watches : watches[i].dir = dirOf[k] /\ granted[i]
                        THEN Answer(overflow)
                      ELSE IF where[k] = "buffer" /\ dirOf[k] \in Watched THEN "lost"
                      ELSE where[k]]
  /\ thread' = "collect"
  /\ UNCHANGED <<control, handles, picked, dirOf, disturbed>>

Collect ==
  /\ thread = "collect"
  /\ IF running
       THEN thread' = "wait" /\ handles' = [i \in DOMAIN watches |-> watches[i].dir]
       ELSE thread' = "done" /\ UNCHANGED handles
  /\ UNCHANGED <<watches, control, picked, disk, disturbed>>

\* The handles and the index are local to a turn of the loop.
TurnEnds == handles' = <<>> /\ picked' = 0
Signalled(i) == \E j \in DOMAIN watches : watches[j].dir = handles[i] /\ watches[j].signal

\* WaitForMultipleObjects: the stop event comes first, then the first event that is signalled,
\* which is reset; it may fail if the event of a removed watch is among the handles.
WaitReturns ==
  /\ thread = "wait"
  /\ \/ stopEvent /\ thread' = "done" /\ TurnEnds /\ UNCHANGED watches
     \/ /\ ~stopEvent
        /\ \E i \in DOMAIN handles :
             /\ Signalled(i) /\ \A j \in 1 .. i - 1 : ~Signalled(j)
             /\ picked' = i
             /\ watches' = [j \in DOMAIN watches |->
                              IF watches[j].dir = handles[i]
                                THEN [watches[j] EXCEPT !.signal = FALSE] ELSE watches[j]]
        /\ thread' = "process" /\ UNCHANGED handles
     \/ /\ ~stopEvent /\ \E i \in DOMAIN handles : handles[i] \notin Watched
        /\ thread' = "collect" /\ TurnEnds /\ UNCHANGED watches
  /\ UNCHANGED <<control, disk, disturbed>>

\* Variants with a defect: the next read is issued before the answer is looked at, or not at all.
ProcessLate ==
  /\ thread = "process"
  /\ IF picked \in DOMAIN watches
       THEN /\ watches' = [watches EXCEPT ![picked] = Issued(watches[picked], TRUE)]
            /\ where' = [k \in Changes |-> IF dirOf[k] = watches[picked].dir /\ where[k] = "buffer"
                                           THEN "lost" ELSE where[k]]
       ELSE UNCHANGED <<watches, where>>
  /\ thread' = "collect" /\ TurnEnds
  /\ UNCHANGED <<control, dirOf, disturbed>>

ProcessOnce ==
  /\ thread = "process"
  /\ where' = [k \in Changes |-> IF picked \in DOMAIN watches /\ dirOf[k] = watches[picked].dir
                                    /\ where[k] = "buffer" THEN "reported" ELSE where[k]]
  /\ thread' = "collect" /\ TurnEnds
  /\ UNCHANGED <<watches, control, dirOf, disturbed>>

\* The entry that has the index now: its answer, if there is one, is given to the callback,
\* if there is one, and a new read is issued.
Heard == IF callback THEN "reported" ELSE "unheard"
Process ==
  /\ thread = "process"
  /\ IF picked \in DOMAIN watches
       THEN \E granted \in Granted, overflow \in BOOLEAN :
              LET w == watches[picked] IN
                /\ watches' = [watches EXCEPT ![picked] = Issued(w, granted)]
                /\ where' = [k \in Changes |->
                               IF dirOf[k] # w.dir THEN where[k]
                               ELSE IF where[k] = "buffer" THEN Heard
                               ELSE IF where[k] = "kernel" /\ granted THEN Answer(overflow)
                               ELSE where[k]]
       ELSE UNCHANGED <<watches, where>>
  /\ thread' = "collect" /\ TurnEnds
  /\ UNCHANGED <<control, dirOf, disturbed>>

RunLoop == FirstReads \/ Collect \/ WaitReturns \/ Process

(***************************************************************************)
(* The system: a file changes, or a read ends with an error.               *)
(***************************************************************************)
\* The oldest read takes a change; a second answer in the same buffer overwrites the first.
Answered(w) == [w EXCEPT !.reads = Tail(@), !.signal = TRUE]
Overwritten(w) == [j \in Changes |-> IF j \in In(w.dir, "buffer") THEN "lost" ELSE where[j]]
Change(k) ==
  /\ where[k] = "none" \/ (k \in Again /\ where[k] = "reported")
  /\ \/ /\ \A i \in DOMAIN watches : watches[i].dir = dirOf[k] => ~watches[i].known
        /\ where' = [where EXCEPT ![k] = "unseen"]
        /\ UNCHANGED watches
     \/ \E i \in DOMAIN watches :
          /\ watches[i].dir = dirOf[k] /\ watches[i].known
          /\ LET w == watches[i] IN
               \/ /\ w.reads = <<>>
                  /\ where' = [where EXCEPT ![k] = "kernel"]
                  /\ UNCHANGED watches
               \/ /\ w.reads # <<>> /\ Head(w.reads) = "left"
                  /\ where' = [where EXCEPT ![k] = "lost"]
                  /\ watches' = [watches EXCEPT ![i] = Answered(w)]
               \/ /\ w.reads # <<>> /\ Head(w.reads) = "here"
                  /\ where' = [Overwritten(w) EXCEPT ![k] = "buffer"]
                  /\ watches' = [watches EXCEPT ![i] = Answered(w)]
  /\ UNCHANGED <<control, loop, dirOf, disturbed>>

\* An answer that nobody looked at cannot be told from the error any more.
ReadFails(d) ==
  /\ ReadFaults
  /\ \E i \in DOMAIN watches :
       /\ watches[i].dir = d /\ watches[i].reads # <<>>
       /\ watches' = [watches EXCEPT ![i] = Answered(watches[i])]
       /\ where' = IF Head(watches[i].reads) = "here" THEN Overwritten(watches[i]) ELSE where
  /\ UNCHANGED <<control, loop, dirOf, disturbed>>

Next == \/ \E d \in Dirs : Watch(d) \/ Unwatch(d)
        \/ SetCallback \/ Start \/ Stop \/ Join
        \/ RunLoop
        \/ \E k \in Changes : Change(k)
        \/ \E d \in Dirs : ReadFails(d)

Spec == Init /\ [][Next]_vars

\* The thread runs, and the owner's wait for it ends when it has.
FairSpec == Spec /\ WF_vars(RunLoop) /\ WF_vars(Join)

(***************************************************************************)
(* Properties.                                                             *)
(***************************************************************************)
TypeOK ==
  /\ Len(watches) = Cardinality(Watched) /\ Watched \subseteq Dirs
  /\ \A i \in DOMAIN watches :
       watches[i] \in [dir : Dirs, reads : Seq({"here", "left"}), known : BOOLEAN,
                       refused : BOOLEAN, signal : BOOLEAN]
  /\ callback \in BOOLEAN /\ running \in BOOLEAN /\ stopEvent \in BOOLEAN /\ disturbed \in BOOLEAN
  /\ thread \in {"none", "first", "collect", "wait", "process", "done"}
  /\ handles \in Seq(Dirs) /\ picked \in 0 .. Cardinality(Dirs)
  /\ owner \in {"free", "joining"} /\ starts \in 0 .. MaxStarts
  /\ where \in [Changes -> {"none", "unseen", "kernel", "buffer", "reported", "unheard", "lost",
                            "overflowed", "unwatched"}]
  /\ dirOf \in [Changes -> Dirs]

\* As long as the directories were all added before the only start, no change that the
\* system handed over is lost on the way to the callback, whatever reads it refuses or fails.
NothingIsLost == ~disturbed => \A k \in Changes : where[k] # "lost"

\* ... and every one that it keeps or has handed over reaches the callback, also after reads
\* that ended with an error, unless the watcher is stopped, the system gives up on the changes
\* or has refused the directory's last read (neither of which the code notices), or there is no
\* end of answers for other directories (the wait prefers those that were added first).
Refused(k) == \E i \in DOMAIN watches : watches[i].dir = dirOf[k] /\ watches[i].refused
AnotherAnswers(k) == \E d \in Dirs \ {dirOf[k]} :
                       ReadFails(d) \/ \E j \in Changes : dirOf[j] = d /\ Change(j)
ChangeIsReported ==
  \A k \in Changes :
    \/ []<><<AnotherAnswers(k)>>_vars
    \/ where[k] \in {"kernel", "buffer"} /\ callback /\ running /\ ~disturbed
         ~> where[k] \in {"reported", "overflowed"} \/ Refused(k) \/ ~running \/ disturbed

\* Stop returns, whatever the thread was doing.
StopReturns == owner = "joining" ~> owner = "free"

\* "Watches one or more directories ... On change, fires a registered callback": a directory
\* of a running watcher gets its first read.
WatchBegins ==
  \A d \in Dirs : d \in Watched /\ running
    ~> d \notin Watched \/ ~running
         \/ \E i \in DOMAIN watches : watches[i].dir = d /\ watches[i].known
===============================================================================
