---------------------------- MODULE TaskWatchProofs ----------------------------
(***************************************************************************)
(* That a client's rows only ever go forward, and that a stop which keeps to *)
(* its budget tells it how every task ended: for any number of tasks,        *)
(* connections, servers and attachments, and any size of the buffers.        *)
(***************************************************************************)
EXTENDS TaskWatch, FiniteSetTheorems, WellFoundedInduction, TLAPS

Said == UNION {[S -> Live \cup {Ended}] : S \in SUBSET Task}
Event == {End, Cut} \cup [kind : {"snapshot", "changed"}, of : Said]

Typed ==
  /\ stage \in [Task -> None..Gone] /\ rows \in [Task -> None..Ended]
  /\ wire \in Seq(Event)
  /\ conn \in [Conn -> {"reading", "demo", "closed"}]

(* What is retained of the settled tasks was submitted once. *)
RootsSubmitted == roots \in Seq(Task) /\ \A i \in DOMAIN roots : stage[roots[i]] # None

(* A connection that is about to submit a task finds a number for it. *)
DemosFit == IsFiniteSet(Awaited) /\ Cardinality(Awaited) <= Cardinality(Unsubmitted)

(* Row, events in order, registry: each is at least as far as the one before.  *)
InOrder ==
  \A t \in Task :
    /\ rows[t] <= stage[t]
    /\ \A i \in DOMAIN wire : t \in DOMAIN wire[i].of =>
         /\ rows[t] <= wire[i].of[t] /\ wire[i].of[t] <= stage[t]
         /\ \A j \in DOMAIN wire : i < j /\ t \in DOMAIN wire[j].of =>
              wire[i].of[t] <= wire[j].of[t]

Inv == Typed /\ RootsSubmitted /\ DemosFit /\ InOrder

-----------------------------------------------------------------------------
Rises == stage' \in [Task -> None..Gone] /\ \A t \in Task : stage[t] <= stage'[t]

LEMMA Stages ==
  /\ None = 0 /\ Queued = 1 /\ Running = 2 /\ Cancelling = 3 /\ Ended = 4 /\ Gone = 5
  /\ Live = {1, 2, 3}
  BY DEF None, Queued, Running, Cancelling, Ended, Gone, Live

LEMMA TasksFinite == Task \subseteq Nat /\ IsFiniteSet(Task)
  BY FS_Interval, WatchAssumption DEF Task

LEMMA FirstUnsubmitted ==
  ASSUME NEW S \in SUBSET Nat, S # {}
  PROVE  Min(S) \in S
<1> DEFINE R == OpToRel(<, Nat)
<1>1. R = {p \in Nat \X Nat : p[1] < p[2]}
  BY Zenon DEF OpToRel
<1>2. IsWellFoundedOn(R, Nat)
  BY NatLessThanWellFounded
<1> HIDE DEF R
<1>3. PICK x \in S : \A y \in S : ~(<<y, x>> \in R)
  BY <1>2, WFMin
<1>4. ASSUME NEW y \in S PROVE x <= y
  <2>1. x \in Nat /\ y \in Nat /\ <<y, x>> \notin R
    BY <1>3
  <2>2. QED
    BY <1>1, <2>1
<1>5. QED
  BY <1>4 DEF Min

(* A connection that waits to submit has a number that is free.               *)
LEMMA SubmitsNew ==
  ASSUME DemosFit, NEW c \in Conn, conn[c] = "demo"
  PROVE  Min(Unsubmitted) \in Task /\ stage[Min(Unsubmitted)] = None
<1>1. c \in Awaited
  BY DEF Awaited
<1>2. Cardinality(Awaited) # 0
  BY <1>1, FS_EmptySet DEF DemosFit
<1>3. Unsubmitted # {}
  <2>1. Cardinality(Awaited) \in Nat
    BY FS_CardinalityType DEF DemosFit
  <2>2. Cardinality({}) = 0
    BY FS_EmptySet
  <2>3. QED
    BY <1>2, <2>1, <2>2 DEF DemosFit
<1>4. Unsubmitted \in SUBSET Nat
  BY TasksFinite DEF Unsubmitted
<1>5. QED
  BY <1>3, <1>4, FirstUnsubmitted DEF Unsubmitted

(* A task only ever goes on. *)
LEMMA StageRises == ASSUME Typed, DemosFit, [Next]_vars PROVE Rises
<1>1. ASSUME NEW t \in Task, StartTask(t) \/ Report(t) \/ BeginCancelling(t) PROVE Rises
  BY <1>1, Stages DEF StartTask, Report, BeginCancelling, Become, Typed, Rises
<1>2. ASSUME NEW t \in Task, EndTask(t) PROVE Rises
  <2>1. PICK evicted : stage' = [u \in Task |-> IF u \in evicted THEN Gone
                                               ELSE IF u = t THEN Ended ELSE stage[u]]
    BY <1>2 DEF EndTask
  <2>2. stage[t] \in Live
    BY <1>2 DEF EndTask
  <2>3. QED
    BY <2>1, <2>2, Stages DEF Typed, Rises
<1>3. ASSUME NEW c \in Conn, SubmitDemo(c) PROVE Rises
  <2>1. Min(Unsubmitted) \in Task /\ stage[Min(Unsubmitted)] = None
    BY <1>3, SubmitsNew DEF SubmitDemo
  <2>2. stage' = [stage EXCEPT ![Min(Unsubmitted)] = Queued]
    BY <1>3 DEF SubmitDemo, Become
  <2>3. QED
    BY <2>1, <2>2, Stages DEF Typed, Rises
<1>4. CASE Exit
  BY <1>4, Stages DEF Exit, Typed, Rises
<1>5. CASE UNCHANGED stage
  BY <1>5, Stages DEF Typed, Rises
<1>6. QED
  BY <1>1, <1>2, <1>3, <1>4, <1>5
  DEF Next, Runtime, Api, ReadDemo, AskToStop, CloseConn, Signal, Stop, CancelAll, Idle,
      CloseStreams, Join, DeadlinePasses, Crash, Restart, Forward, FirstSnapshot, ReadChange,
      Lag, SeeClosing, Subscribe, LoseLink, Pane, Apply, Expire, vars, registry

-----------------------------------------------------------------------------
(***************************************************************************)
(* The wire.                                                                *)
(***************************************************************************)
LEMMA EventsSay ==
  ASSUME NEW e \in Event
  PROVE  \A t \in DOMAIN e.of : t \in Task /\ e.of[t] \in 1..4
<1>1. CASE e \in {End, Cut}
  BY <1>1 DEF End, Cut
<1>2. CASE e \in [kind : {"snapshot", "changed"}, of : Said]
  <2>1. PICK S \in SUBSET Task : e.of \in [S -> Live \cup {Ended}]
    BY <1>2 DEF Said
  <2>2. QED
    BY <2>1, Stages
<1>3. QED
  BY <1>1, <1>2 DEF Event

LEMMA SnapshotSays ==
  ASSUME Typed
  PROVE  /\ Snapshot \in Event /\ Snapshot.kind = "snapshot"
         /\ \A t \in DOMAIN Snapshot.of :
              t \in Task /\ Snapshot.of[t] = stage[t] /\ stage[t] \in Live \cup {Ended}
<1> DEFINE of == [t \in Retainable |-> stage[t]]
<1>1. Retainable \in SUBSET Task /\ \A t \in Retainable : stage[t] \in Live \cup {Ended}
  BY DEF Retainable
<1>2. of \in [Retainable -> Live \cup {Ended}]
  BY <1>1
<1>3. of \in Said
  BY <1>1, <1>2 DEF Said
<1>4. Snapshot = [kind |-> "snapshot", of |-> of]
  BY DEF Snapshot
<1>5. \A t \in DOMAIN of : t \in Task /\ of[t] = stage[t] /\ stage[t] \in Live \cup {Ended}
  BY <1>1
<1> HIDE DEF of
<1>6. QED
  BY <1>3, <1>4, <1>5 DEF Event

LEMMA ChangedSays ==
  ASSUME Typed, NEW t \in Retainable
  PROVE  /\ Changed(t) \in Event /\ Changed(t).kind = "changed"
         /\ \A u \in DOMAIN Changed(t).of : u \in Task /\ Changed(t).of[u] = stage[u]
<1> DEFINE of == [u \in {t} |-> stage[u]]
<1>1. t \in Task /\ stage[t] \in Live \cup {Ended}
  BY DEF Retainable
<1>2. of \in [{t} -> Live \cup {Ended}]
  BY <1>1
<1>3. of \in Said
  BY <1>1, <1>2 DEF Said
<1>4. Changed(t) = [kind |-> "changed", of |-> of]
  BY DEF Changed
<1>5. \A u \in DOMAIN of : u \in Task /\ of[u] = stage[u]
  BY <1>1
<1> HIDE DEF of
<1>6. QED
  BY <1>3, <1>4, <1>5 DEF Event

(* What is sent now says what the registry says now. *)
Now(e) == e \in Event /\ \A t \in DOMAIN e.of : t \in Task /\ e.of[t] = stage[t]

(* Of the events on their way the first n are left, and later ones are new.     *)
KeepsFirst(n) ==
  /\ wire' \in Seq(Event) /\ n \in 0..Len(wire) /\ n <= Len(wire')
  /\ \A i \in 1..n : wire'[i] = wire[i]
  /\ \A i \in DOMAIN wire' : i > n => Now(wire'[i])

LEMMA Ends == End \in Event /\ Cut \in Event /\ Now(End) /\ Now(Cut)
  BY DEF Event, Now, End, Cut

LEMMA Sends ==
  ASSUME Typed, NEW e, Now(e), Send(e)
  PROVE  KeepsFirst(Len(wire)) /\ wire' = Append(wire, e) /\ wire'[Len(wire')] = e
<1>1. /\ wire \in Seq(Event) /\ e \in Event /\ wire' = Append(wire, e)
  BY DEF Typed, Now, Send
<1>2. /\ wire' \in Seq(Event) /\ Len(wire') = Len(wire) + 1 /\ Len(wire) \in Nat
      /\ DOMAIN wire' = 1..Len(wire) + 1 /\ wire'[Len(wire) + 1] = e
      /\ \A i \in 1..Len(wire) : wire'[i] = wire[i]
  BY <1>1
<1>3. QED
  BY <1>1, <1>2 DEF KeepsFirst

LEMMA Cuts ==
  ASSUME Typed, NEW then \in {<<>>, <<Cut>>}, CutOff(then)
  PROVE  /\ \E n : KeepsFirst(n)
         /\ \A i \in DOMAIN wire' : \/ wire'[i] = Cut /\ i = Len(wire') /\ then = <<Cut>>
                                    \/ i \in DOMAIN wire /\ wire'[i] = wire[i]
<1>1. PICK n \in 0..Len(wire) : wire' = SubSeq(wire, 1, n) \o then
  BY DEF CutOff
<1> DEFINE s == SubSeq(wire, 1, n)
<1>2. wire \in Seq(Event) /\ Cut \in Event /\ Now(Cut)
  BY Ends DEF Typed
<1>3. s \in Seq(Event) /\ Len(s) = n /\ \A i \in 1..n : s[i] = wire[i]
  BY <1>1, <1>2
<1> HIDE DEF s
<1>4. then \in Seq(Event) /\ Len(then) \in {0, 1} /\ \A i \in 1..Len(then) : then[i] = Cut
  <2>1. CASE then = <<>>
    BY <2>1
  <2>2. CASE then = <<Cut>>
    BY <1>2, <2>2
  <2>3. QED
    BY <2>1, <2>2
<1>5. /\ wire' \in Seq(Event) /\ Len(wire') = n + Len(then) /\ DOMAIN wire' = 1..n + Len(then)
      /\ \A i \in 1..n : wire'[i] = wire[i]
      /\ \A i \in DOMAIN wire' : i > n => wire'[i] = Cut /\ i = Len(wire') /\ then # <<>>
  BY <1>1, <1>3, <1>4 DEF s
<1>6. KeepsFirst(n)
  BY <1>1, <1>2, <1>4, <1>5 DEF KeepsFirst
<1>7. QED
  BY <1>1, <1>2, <1>5, <1>6

LEMMA Closes ==
  ASSUME Typed, SeeClosing
  PROVE  /\ KeepsFirst(Len(wire)) /\ Len(wire') = Len(wire) + 2 /\ Len(wire) \in Nat
         /\ wire'[Len(wire) + 1] = Snapshot /\ wire'[Len(wire) + 2] = End
<1>1. wire \in Seq(Event) /\ wire' = wire \o <<Snapshot, End>>
  BY DEF Typed, SeeClosing
<1>2. Now(Snapshot) /\ Now(End) /\ Snapshot \in Event /\ End \in Event
  BY SnapshotSays, Ends DEF Now
<1> DEFINE snapshot == Snapshot
           end == End
<1> HIDE DEF snapshot, end
<1>3. snapshot \in Event /\ end \in Event /\ wire' = wire \o <<snapshot, end>>
  BY <1>1, <1>2 DEF snapshot, end
<1>4. /\ wire' \in Seq(Event) /\ Len(wire') = Len(wire) + 2 /\ Len(wire) \in Nat
      /\ DOMAIN wire' = 1..Len(wire) + 2
      /\ \A i \in 1..Len(wire) : wire'[i] = wire[i]
      /\ wire'[Len(wire) + 1] = snapshot /\ wire'[Len(wire) + 2] = end
  BY <1>1, <1>3
<1>5. QED
  BY <1>2, <1>4 DEF KeepsFirst, snapshot, end

LEMMA Stays == ASSUME Typed, wire' = wire PROVE KeepsFirst(Len(wire))
  BY DEF Typed, KeepsFirst

(* Only the pane takes events off the wire. *)
LEMMA WireKeepsOrder ==
  ASSUME Typed, [Next]_vars, ~Apply
  PROVE  \E n : KeepsFirst(n)
<1>1. CASE UNCHANGED wire
  BY <1>1, Stays
<1>2. CASE FirstSnapshot \/ Lag
  BY <1>2, SnapshotSays, Sends DEF FirstSnapshot, Lag, Now
<1>3. CASE ReadChange /\ wire' # wire
  <2>1. PICK t \in Retainable : Send(Changed(t))
    BY <1>3 DEF ReadChange
  <2>2. QED
    BY <2>1, ChangedSays, Sends DEF Now
<1>4. CASE SeeClosing
  BY <1>4, Closes
<1>5. CASE (Crash \/ Join \/ LoseLink) /\ wire' # wire
  <2>1. CutOff(<<Cut>>) \/ CutOff(<<>>)
    BY <1>5 DEF Crash, Join, LoseLink
  <2>2. QED
    BY <2>1, Cuts
<1>6. QED
  BY <1>1, <1>2, <1>3, <1>4, <1>5
  DEF Next, Runtime, StartTask, Report, BeginCancelling, EndTask, Api, ReadDemo, SubmitDemo,
      AskToStop, CloseConn, Signal, Stop, CancelAll, Idle, CloseStreams, DeadlinePasses, Restart,
      Forward, Subscribe, Pane, Expire, vars, client

-----------------------------------------------------------------------------
(***************************************************************************)
(* The pane.                                                                *)
(***************************************************************************)
(* A row shows what it did, what the event says, or no longer is.             *)
Follows(e) ==
  /\ rows' \in [Task -> None..Ended]
  /\ \A t \in Task : \/ rows'[t] = None \/ (rows'[t] = rows[t] /\ e.kind # "snapshot")
                     \/ t \in DOMAIN e.of /\ rows'[t] = e.of[t]

LEMMA ApplyFollows ==
  ASSUME Typed, Apply
  PROVE  Head(wire) \in Event /\ Follows(Head(wire))
<1> DEFINE e == Head(wire)
<1>1. e \in Event
  BY DEF Typed, Apply
<1>2. \A t \in DOMAIN e.of : t \in Task /\ e.of[t] \in None..Ended
  BY <1>1, EventsSay, Stages
<1>3. CASE e.kind \in {"end", "cut"} /\ UNCHANGED pane
  BY <1>1, <1>3 DEF Follows, pane, Typed
<1>4. CASE e.kind = "snapshot" /\ ApplySnapshot(e.of)
  <2>1. PICK over : ShowWithout(over, [t \in Task |-> IF Shows(t, e.of) THEN e.of[t] ELSE None],
                                {t \in Task : Shows(t, e.of) /\ e.of[t] = Ended})
    BY <1>4 DEF ApplySnapshot, Show
  <2>2. rows' = [t \in Task |-> IF t \in over THEN None
                                ELSE IF Shows(t, e.of) THEN e.of[t] ELSE None]
    BY <2>1 DEF ShowWithout
  <2> HIDE DEF e
  <2>3. QED
    BY <1>1, <1>2, <2>2, Stages DEF Follows, Shows, e
<1>5. CASE e.kind = "changed" /\ \E t \in DOMAIN e.of : ApplyChanged(t, e.of[t])
  <2>1. PICK t \in DOMAIN e.of : ApplyChanged(t, e.of[t])
    BY <1>5
  <2>2. PICK over : rows' = [u \in Task |-> IF u \in over THEN None ELSE [rows EXCEPT ![t] = e.of[t]][u]]
    BY <2>1 DEF ApplyChanged, Show, ShowWithout
  <2> HIDE DEF e
  <2>3. QED
    BY <1>1, <1>2, <1>5, <2>1, <2>2, Stages DEF Follows, Typed, e
<1>6. QED
  BY <1>1, <1>3, <1>4, <1>5 DEF Apply

LEMMA OrderKept ==
  ASSUME Typed, InOrder, Rises, \A t \in Task : rows'[t] \in {None, rows[t]},
         NEW n, KeepsFirst(n)
  PROVE  InOrder'
<1> SUFFICES ASSUME NEW t \in Task
             PROVE  /\ rows'[t] <= stage'[t]
                    /\ \A i \in DOMAIN wire' : t \in DOMAIN wire'[i].of =>
                         /\ rows'[t] <= wire'[i].of[t] /\ wire'[i].of[t] <= stage'[t]
                         /\ \A j \in DOMAIN wire' : i < j /\ t \in DOMAIN wire'[j].of =>
                              wire'[i].of[t] <= wire'[j].of[t]
  BY DEF InOrder
<1>1. /\ stage[t] \in 0..5 /\ stage'[t] \in 0..5 /\ rows[t] \in 0..4 /\ rows'[t] \in 0..4
      /\ stage[t] <= stage'[t] /\ rows[t] <= stage[t] /\ rows'[t] <= rows[t]
  BY Stages DEF Typed, Rises, InOrder
<1>2. /\ Len(wire) \in Nat /\ DOMAIN wire = 1..Len(wire) /\ n \in 0..Len(wire)
      /\ Len(wire') \in Nat /\ DOMAIN wire' = 1..Len(wire')
  BY DEF Typed, KeepsFirst
<1>3. \A i \in DOMAIN wire' : wire'[i] \in Event
  BY <1>2 DEF KeepsFirst
<1>4. ASSUME NEW i \in DOMAIN wire', t \in DOMAIN wire'[i].of
      PROVE  /\ rows'[t] <= wire'[i].of[t] /\ wire'[i].of[t] <= stage[t]
             /\ wire'[i].of[t] \in 1..4 /\ (i > n => wire'[i].of[t] = stage[t])
  <2>1. wire'[i].of[t] \in 1..4
    BY <1>3, <1>4, EventsSay
  <2>2. CASE i > n
    BY <1>1, <1>4, <2>1, <2>2 DEF KeepsFirst, Now
  <2>3. CASE ~(i > n)
    <3>1. i \in 1..n /\ i \in DOMAIN wire /\ wire'[i] = wire[i]
      BY <1>2, <2>3 DEF KeepsFirst
    <3>2. rows[t] <= wire[i].of[t] /\ wire[i].of[t] <= stage[t]
      BY <1>4, <3>1 DEF InOrder
    <3>3. QED
      BY <1>1, <2>1, <2>3, <3>1, <3>2
  <2>4. QED
    BY <2>2, <2>3
<1>5. ASSUME NEW i \in DOMAIN wire', t \in DOMAIN wire'[i].of,
             NEW j \in DOMAIN wire', i < j, t \in DOMAIN wire'[j].of
      PROVE  wire'[i].of[t] <= wire'[j].of[t]
  <2>1. CASE j > n
    BY <1>4, <1>5, <2>1
  <2>2. CASE ~(j > n)
    <3>1. /\ i \in 1..n /\ j \in 1..n /\ i \in DOMAIN wire /\ j \in DOMAIN wire
          /\ wire'[i] = wire[i] /\ wire'[j] = wire[j]
      BY <1>2, <1>5, <2>2 DEF KeepsFirst
    <3>2. QED
      BY <1>5, <3>1 DEF InOrder
  <2>3. QED
    BY <2>1, <2>2
<1>6. ASSUME NEW i \in DOMAIN wire', t \in DOMAIN wire'[i].of
      PROVE  rows'[t] <= wire'[i].of[t] /\ wire'[i].of[t] <= stage'[t]
  BY <1>1, <1>4, <1>6
<1>7. QED
  BY <1>1, <1>5, <1>6

LEMMA ApplyOrder ==
  ASSUME Typed, InOrder, Apply
  PROVE  /\ InOrder' /\ Typed'
         /\ \A t \in Task : rows'[t] # None => rows'[t] >= rows[t]
<1> DEFINE e == Head(wire)
<1>1. /\ wire \in Seq(Event) /\ wire # <<>> /\ wire' = Tail(wire) /\ stage' = stage
      /\ e \in Event /\ Follows(e)
  BY ApplyFollows DEF Apply, Typed, registry
<1>2. /\ Len(wire) \in Nat \ {0} /\ DOMAIN wire = 1..Len(wire) /\ e = wire[1]
      /\ wire' \in Seq(Event) /\ DOMAIN wire' = 1..Len(wire) - 1
      /\ \A i \in 1..Len(wire) - 1 : wire'[i] = wire[i + 1]
  BY <1>1
<1> HIDE DEF e
<1>3. Typed'
  BY <1>1, <1>2 DEF Typed, Follows, Apply, server
<1>4. ASSUME NEW t \in Task
      PROVE  /\ rows'[t] # None => rows'[t] >= rows[t]
             /\ rows'[t] <= stage'[t]
             /\ \A i \in DOMAIN wire' : t \in DOMAIN wire'[i].of =>
                  /\ rows'[t] <= wire'[i].of[t] /\ wire'[i].of[t] <= stage'[t]
                  /\ \A j \in DOMAIN wire' : i < j /\ t \in DOMAIN wire'[j].of =>
                       wire'[i].of[t] <= wire'[j].of[t]
  <2>1. /\ stage[t] \in 0..5 /\ rows[t] \in 0..4 /\ rows'[t] \in 0..4 /\ rows[t] <= stage[t]
    BY <1>3, Stages DEF Typed, InOrder
  <2>2. t \in DOMAIN e.of => rows[t] <= e.of[t] /\ e.of[t] <= stage[t] /\ e.of[t] \in 1..4
    BY <1>1, <1>2, EventsSay DEF InOrder
  <2>3. rows'[t] = None \/ rows'[t] = rows[t] \/ (t \in DOMAIN e.of /\ rows'[t] = e.of[t])
    BY <1>1 DEF Follows
  <2>4. rows'[t] <= stage'[t] /\ (rows'[t] # None => rows'[t] >= rows[t])
    BY <1>1, <2>1, <2>2, <2>3, Stages
  <2>5. ASSUME NEW i \in DOMAIN wire', t \in DOMAIN wire'[i].of
        PROVE  rows'[t] <= wire'[i].of[t] /\ wire'[i].of[t] <= stage'[t]
    <3>1. /\ i + 1 \in DOMAIN wire /\ 1 < i + 1 /\ 1 \in DOMAIN wire /\ wire'[i] = wire[i + 1]
      BY <1>2
    <3>2. wire[i + 1].of[t] \in 1..4
      <4>1. wire[i + 1] \in Event
        BY <1>1, <3>1
      <4>2. QED
        BY <2>5, <3>1, <4>1, EventsSay
    <3>3. rows[t] <= wire[i + 1].of[t] /\ wire[i + 1].of[t] <= stage[t]
      BY <2>5, <3>1 DEF InOrder
    <3>4. t \in DOMAIN e.of => e.of[t] <= wire[i + 1].of[t]
      BY <1>2, <2>5, <3>1 DEF InOrder
    <3>5. QED
      BY <1>1, <2>1, <2>2, <2>3, <3>1, <3>2, <3>3, <3>4, Stages
  <2>6. ASSUME NEW i \in DOMAIN wire', t \in DOMAIN wire'[i].of,
               NEW j \in DOMAIN wire', i < j, t \in DOMAIN wire'[j].of
        PROVE  wire'[i].of[t] <= wire'[j].of[t]
    <3>1. /\ i + 1 \in DOMAIN wire /\ j + 1 \in DOMAIN wire /\ i + 1 < j + 1
          /\ wire'[i] = wire[i + 1] /\ wire'[j] = wire[j + 1]
      BY <1>2, <2>6
    <3>2. QED
      BY <2>6, <3>1 DEF InOrder
  <2>7. QED
    BY <2>4, <2>5, <2>6
<1>5. QED
  BY <1>3, <1>4 DEF InOrder

-----------------------------------------------------------------------------
(* The end of a task evicts only what was submitted. *)
LEMMA EndKeepsSubmitted ==
  ASSUME Typed, RootsSubmitted, NEW t \in Task, EndTask(t)
  PROVE  RootsSubmitted' /\ \A u \in Task : stage'[u] = None <=> stage[u] = None
<1>1. PICK settled : settled = Append(roots, t)
  OBVIOUS
<1>2. PICK over : over = IF Len(settled) > Retained THEN Len(settled) - Retained ELSE 0
  OBVIOUS
<1>3. /\ roots' = SubSeq(settled, over + 1, Len(settled))
      /\ stage' = [u \in Task |-> IF u \in {settled[i] : i \in 1..over} THEN Gone
                                 ELSE IF u = t THEN Ended ELSE stage[u]]
      /\ stage[t] \in Live
  BY <1>1, <1>2 DEF EndTask
<1>4. /\ settled \in Seq(Task) /\ Len(settled) \in Nat /\ DOMAIN settled = 1..Len(settled)
      /\ \A i \in DOMAIN settled : settled[i] \in Task /\ stage[settled[i]] # None
  BY <1>1, <1>3, Stages DEF RootsSubmitted
<1>5. over \in Nat /\ over <= Len(settled)
  <2>1. Retained \in Nat /\ Len(settled) \in Nat
    BY <1>4, WatchAssumption DEF WatchAssumption
  <2>2. CASE Len(settled) > Retained
    BY <1>2, <2>1, <2>2
  <2>3. CASE ~(Len(settled) > Retained)
    BY <1>2, <2>1, <2>3
  <2>4. QED
    BY <2>2, <2>3
<1>6. \A u \in Task : stage'[u] = None <=> stage[u] = None
  BY <1>3, <1>4, <1>5, Stages, SMTT(60)
<1>7. /\ roots' \in Seq(Task) /\ DOMAIN roots' = 1..Len(settled) - over
      /\ \A i \in DOMAIN roots' : i + over \in DOMAIN settled /\ roots'[i] = settled[i + over]
  BY <1>3, <1>4, <1>5
<1>8. \A i \in DOMAIN roots' : roots'[i] \in Task /\ stage'[roots'[i]] # None
  BY <1>4, <1>6, <1>7
<1>9. QED
  BY <1>6, <1>7, <1>8 DEF RootsSubmitted

LEMMA DemosStep == ASSUME Typed, RootsSubmitted, DemosFit, [Next]_vars PROVE DemosFit'
<1>1. Rises
  BY StageRises
<1>2. IsFiniteSet(Awaited) /\ IsFiniteSet(Unsubmitted)
  BY TasksFinite, FS_Subset DEF DemosFit, Unsubmitted
<1>3. Cardinality(Awaited) \in Nat /\ Cardinality(Unsubmitted) \in Nat
  BY <1>2, FS_CardinalityType
<1>4. CASE Awaited' = Awaited /\ Unsubmitted' = Unsubmitted
  BY <1>4 DEF DemosFit
<1>5. CASE Awaited' = {}
  <2>1. IsFiniteSet(Unsubmitted')
    BY TasksFinite, FS_Subset DEF Unsubmitted
  <2>2. Cardinality(Unsubmitted') \in Nat /\ Cardinality({}) = 0 /\ IsFiniteSet({})
    BY <2>1, FS_CardinalityType, FS_EmptySet
  <2>3. QED
    BY <1>5, <2>2 DEF DemosFit
<1>6. ASSUME NEW c \in Conn, ReadDemo(c) PROVE DemosFit'
  <2>1. Awaited' \subseteq Awaited \cup {c} /\ Unsubmitted' = Unsubmitted
    BY <1>6 DEF ReadDemo, Awaited, Unsubmitted, registry
  <2>2. /\ IsFiniteSet(Awaited \cup {c})
        /\ Cardinality(Awaited \cup {c}) \in {Cardinality(Awaited), Cardinality(Awaited) + 1}
    BY <1>2, FS_AddElement
  <2>3. IsFiniteSet(Awaited') /\ Cardinality(Awaited') <= Cardinality(Awaited \cup {c})
    BY <2>1, <2>2, FS_Subset
  <2>4. Cardinality(Awaited') \in Nat
    BY <2>3, FS_CardinalityType
  <2>5. Cardinality(Awaited) < Cardinality(Unsubmitted)
    BY <1>6 DEF ReadDemo
  <2>6. QED
    BY <1>3, <2>1, <2>2, <2>3, <2>4, <2>5 DEF DemosFit
<1>7. ASSUME NEW c \in Conn, SubmitDemo(c) PROVE DemosFit'
  <2> DEFINE t == Min(Unsubmitted)
  <2>1. t \in Task /\ stage[t] = None /\ t \in Unsubmitted
    BY <1>7, SubmitsNew DEF SubmitDemo, Unsubmitted
  <2>2. stage' = [stage EXCEPT ![t] = Queued] /\ conn[c] = "demo"
        /\ conn' = [conn EXCEPT ![c] = "reading"]
    BY <1>7 DEF SubmitDemo, Become
  <2> HIDE DEF t
  <2>3. Awaited' \subseteq Awaited \ {c} /\ c \in Awaited
    BY <2>2 DEF Awaited, Typed
  <2>4. Unsubmitted' = Unsubmitted \ {t}
    BY <2>1, <2>2, Stages DEF Unsubmitted, Typed
  <2>5. /\ IsFiniteSet(Awaited \ {c}) /\ Cardinality(Awaited \ {c}) = Cardinality(Awaited) - 1
        /\ Cardinality(Unsubmitted \ {t}) = Cardinality(Unsubmitted) - 1
    BY <1>2, <2>1, <2>3, FS_RemoveElement
  <2>6. IsFiniteSet(Awaited') /\ Cardinality(Awaited') <= Cardinality(Awaited \ {c})
    BY <2>3, <2>5, FS_Subset
  <2>7. Cardinality(Awaited') \in Nat
    BY <2>6, FS_CardinalityType
  <2>8. QED
    BY <1>3, <2>4, <2>5, <2>6, <2>7 DEF DemosFit
<1>8. CASE (UNCHANGED conn \/ \E c \in Conn : conn' = [conn EXCEPT ![c] = "closed"])
           /\ \A t \in Task : stage'[t] = None <=> stage[t] = None
  <2>1. Awaited' \subseteq Awaited /\ Unsubmitted' = Unsubmitted
    BY <1>8 DEF Awaited, Unsubmitted, Typed
  <2>2. IsFiniteSet(Awaited') /\ Cardinality(Awaited') <= Cardinality(Awaited)
    BY <1>2, <2>1, FS_Subset
  <2>3. Cardinality(Awaited') \in Nat
    BY <2>2, FS_CardinalityType
  <2>4. QED
    BY <1>3, <2>1, <2>2, <2>3 DEF DemosFit
<1>9. CASE Exit \/ Restart
  BY <1>5, <1>9 DEF Exit, Restart, Awaited
<1>10. ASSUME NEW t \in Task, StartTask(t) \/ Report(t) \/ BeginCancelling(t) \/ EndTask(t)
       PROVE  DemosFit'
  <2>1. UNCHANGED conn
    BY <1>10 DEF StartTask, Report, BeginCancelling, EndTask, server
  <2>2. CASE ~EndTask(t)
    BY <1>8, <1>10, <2>1, <2>2, Stages DEF StartTask, Report, BeginCancelling, Become, Typed
  <2>3. CASE EndTask(t)
    BY <1>8, <2>1, <2>3, EndKeepsSubmitted
  <2>4. QED
    BY <2>2, <2>3
<1>11. CASE UNCHANGED stage /\ (UNCHANGED conn \/ \E c \in Conn : conn' = [conn EXCEPT ![c] = "closed"])
  BY <1>8, <1>11
<1>12. QED
  BY <1>6, <1>7, <1>9, <1>10, <1>11
  DEF Next, Runtime, Api, AskToStop, CloseConn, Signal, Stop, CancelAll, Idle, CloseStreams, Join,
      DeadlinePasses, Crash, Forward, FirstSnapshot, ReadChange, Lag, SeeClosing, Subscribe,
      LoseLink, Pane, Apply, Expire, vars, registry, server

LEMMA InitInv == Init => Inv
<1> SUFFICES ASSUME Init PROVE Inv
  OBVIOUS
<1>1. Typed /\ RootsSubmitted /\ InOrder
  BY Stages DEF Init, Typed, RootsSubmitted, InOrder
<1>2. Awaited = {} /\ IsFiniteSet(Unsubmitted)
  BY TasksFinite, FS_Subset DEF Init, Awaited, Unsubmitted
<1>3. IsFiniteSet({}) /\ Cardinality({}) = 0 /\ Cardinality(Unsubmitted) \in Nat
  BY <1>2, FS_EmptySet, FS_CardinalityType
<1>4. QED
  BY <1>1, <1>2, <1>3 DEF Inv, DemosFit

(* What no step but a look at the wire does to the rows: it clears some.        *)
LEMMA RowsCleared ==
  ASSUME Typed, [Next]_vars, ~Apply
  PROVE  rows' \in [Task -> None..Ended] /\ \A t \in Task : rows'[t] \in {None, rows[t]}
<1>1. CASE UNCHANGED rows
  BY <1>1 DEF Typed
<1>2. ASSUME NEW t \in Task, Expire(t)
      PROVE  rows' \in [Task -> None..Ended] /\ \A u \in Task : rows'[u] \in {None, rows[u]}
  BY <1>2, Stages DEF Expire, ShowWithout, Typed
<1>3. QED
  BY <1>1, <1>2
  DEF Next, Runtime, StartTask, Report, BeginCancelling, EndTask, Api, ReadDemo, SubmitDemo,
      AskToStop, CloseConn, Signal, Stop, CancelAll, Idle, CloseStreams, Join, Exit,
      DeadlinePasses, Crash, Restart, Forward, FirstSnapshot, ReadChange, Lag, SeeClosing,
      Subscribe, LoseLink, Pane, vars, pane

LEMMA ConnTyped ==
  ASSUME Typed, [Next]_vars
  PROVE  conn' \in [Conn -> {"reading", "demo", "closed"}]
  BY DEF Next, Runtime, StartTask, Report, BeginCancelling, EndTask, Api, ReadDemo, SubmitDemo,
      AskToStop, CloseConn, Signal, Stop, CancelAll, Idle, CloseStreams, Join, Exit,
      DeadlinePasses, Crash, Restart, Forward, FirstSnapshot, ReadChange, Lag, SeeClosing,
      Subscribe, LoseLink, Pane, Apply, Expire, vars, server, Typed

LEMMA RootsStep ==
  ASSUME Typed, RootsSubmitted, Rises, [Next]_vars
  PROVE  RootsSubmitted'
<1>1. ASSUME NEW t \in Task, EndTask(t) PROVE RootsSubmitted'
  BY <1>1, EndKeepsSubmitted
<1>2. CASE Exit
  BY <1>2 DEF Exit, RootsSubmitted
<1>3. CASE UNCHANGED roots
  BY <1>3, Stages DEF RootsSubmitted, Rises, Typed
<1>4. QED
  BY <1>1, <1>2, <1>3
  DEF Next, Runtime, StartTask, Report, BeginCancelling, Become, Api, ReadDemo, SubmitDemo,
      AskToStop, CloseConn, Signal, Stop, CancelAll, Idle, CloseStreams, Join,
      DeadlinePasses, Crash, Restart, Forward, FirstSnapshot, ReadChange, Lag, SeeClosing,
      Subscribe, LoseLink, Pane, Apply, Expire, vars, registry

LEMMA StepInv ==
  ASSUME Inv, [Next]_vars
  PROVE  Inv' /\ \A t \in Task : rows'[t] # None => rows'[t] >= rows[t]
<1>1. Typed /\ RootsSubmitted /\ DemosFit /\ InOrder
  BY DEF Inv
<1>2. Rises /\ DemosFit'
  BY <1>1, StageRises, DemosStep
<1>3. RootsSubmitted'
  BY <1>1, <1>2, RootsStep
<1>4. CASE Apply
  BY <1>1, <1>2, <1>3, <1>4, ApplyOrder DEF Inv
<1>5. CASE ~Apply
  <2>1. rows' \in [Task -> None..Ended] /\ \A t \in Task : rows'[t] \in {None, rows[t]}
    BY <1>1, <1>5, RowsCleared
  <2>2. PICK n : KeepsFirst(n)
    BY <1>1, <1>5, WireKeepsOrder
  <2>3. Typed'
    BY <1>1, <1>2, <2>1, <2>2, ConnTyped DEF Typed, Rises, KeepsFirst
  <2>4. InOrder'
    BY <1>1, <1>2, <2>1, <2>2, OrderKept
  <2>5. \A t \in Task : rows'[t] # None => rows'[t] >= rows[t]
    BY <1>1, <2>1, Stages DEF Typed
  <2>6. QED
    BY <1>2, <1>3, <2>3, <2>4, <2>5 DEF Inv
<1>6. QED
  BY <1>4, <1>5

(* A row never goes back to an earlier stage: every event that is on its way     *)
(* says of a task no less than the row shows, no more than the registry does     *)
(* (attach.rs:101-104).                                                        *)
THEOREM RowsOnlyAdvance == Spec => NeverBackwards
<1>1. Inv /\ [Next]_vars =>
        [\A t \in Task : rows'[t] # None => rows'[t] >= rows[t]]_rows
  BY StepInv
<1>2. Inv /\ [Next]_vars => Inv'
  BY StepInv
<1>3. QED
  BY <1>1, <1>2, InitInv, PTL DEF Spec, NeverBackwards

-----------------------------------------------------------------------------
(***************************************************************************)
(* The stop.                                                                *)
(***************************************************************************)
(* Nothing follows the end of a stream, and while one is on its way the client  *)
(* opens no other.                                                            *)
StreamClosed ==
  /\ fwd # "off" => link = "up"
  /\ \A i \in DOMAIN wire : wire[i].kind \in {"end", "cut"} =>
       i = Len(wire) /\ fwd = "off" /\ link = "up"

(* What a stop within its budget has cancelled is over once the streams close.  *)
CancelledAreOver ==
  /\ token \subseteq Task
  /\ stop = "down" => LiveTasks = {}
  /\ stop = "serving" => token = {}
  /\ \A t \in token : /\ stage[t] # None
                      /\ stop \in {"closing", "joining"} /\ ~late => stage[t] >= Ended

(* The end of a stream comes right after a snapshot, in which no task is live     *)
(* that was cancelled; what the server that started since runs is in no event.   *)
EndIsTrue ==
  \A n \in DOMAIN wire : wire[n].kind = "end" =>
    /\ n > 1 => wire[n - 1].kind = "snapshot"
    /\ stop = "serving" => \A t \in LiveTasks :
         rows[t] = None /\ \A i \in DOMAIN wire : t \notin DOMAIN wire[i].of
    /\ ~late => \A t \in token :
         IF n = 1 THEN rows[t] \notin Live
         ELSE t \in DOMAIN wire[n - 1].of => wire[n - 1].of[t] \notin Live

StopInv == Inv /\ StreamClosed /\ CancelledAreOver /\ EndIsTrue

LEMMA Kinds ==
  /\ End.kind = "end" /\ Cut.kind = "cut" /\ Snapshot.kind = "snapshot"
  /\ \A t : Changed(t).kind = "changed"
  BY DEF End, Cut, Snapshot, Changed

(* Events that are no end of a stream, appended while it is open. *)
LEMMA SentWhileOpen ==
  ASSUME Typed, StreamClosed, fwd # "off", fwd' # "off", UNCHANGED link,
         NEW e, Now(e), e.kind \in {"snapshot", "changed"}, Send(e)
  PROVE  StreamClosed' /\ \A i \in DOMAIN wire' : wire'[i].kind \notin {"end", "cut"}
<1>1. /\ wire \in Seq(Event) /\ e \in Event /\ wire' = Append(wire, e)
  BY DEF Typed, Now, Send
<1>2. \A i \in DOMAIN wire' : wire'[i] = e \/ (i \in DOMAIN wire /\ wire'[i] = wire[i])
  BY <1>1
<1>3. \A i \in DOMAIN wire' : wire'[i].kind \notin {"end", "cut"}
  BY <1>2 DEF StreamClosed
<1>4. QED
  BY <1>3 DEF StreamClosed

(* A step other than a look at the wire leaves it as it is, adds the end of the   *)
(* stream after a snapshot, or leaves no end in it.                           *)
LEMMA ClosedStep ==
  ASSUME Typed, StreamClosed, [Next]_vars, ~Apply
  PROVE  /\ StreamClosed'
         /\ wire' = wire \/ SeeClosing \/ \A i \in DOMAIN wire' : wire'[i].kind # "end"
<1>1. CASE UNCHANGED <<wire, fwd, link>>
  BY <1>1 DEF StreamClosed
<1>2. CASE FirstSnapshot \/ Lag
  BY <1>2, SnapshotSays, Kinds, SentWhileOpen DEF FirstSnapshot, Lag, Now, client
<1>3. CASE ReadChange
  <2>1. CASE wire' = wire
    BY <1>3, <2>1, <1>1 DEF ReadChange, client
  <2>2. CASE wire' # wire
    <3>1. PICK t \in Retainable : Send(Changed(t))
      BY <1>3, <2>2 DEF ReadChange
    <3>2. QED
      BY <1>3, <3>1, ChangedSays, Kinds, SentWhileOpen DEF ReadChange, Now, client
  <2>3. QED
    BY <2>1, <2>2
<1>4. CASE SeeClosing
  <2>1. /\ wire' \in Seq(Event) /\ Len(wire) \in Nat /\ Len(wire') = Len(wire) + 2
        /\ wire \in Seq(Event)
        /\ \A i \in 1..Len(wire) : wire'[i] = wire[i]
        /\ wire'[Len(wire) + 1] = Snapshot
    BY <1>4, Closes DEF KeepsFirst, Typed
  <2>2. fwd # "off" /\ fwd' = "off" /\ link' = link
    BY <1>4 DEF SeeClosing, StreamOff, client
  <2>3. \A i \in DOMAIN wire' : wire'[i].kind \in {"end", "cut"} => i = Len(wire')
    <3>1. SUFFICES ASSUME NEW i \in DOMAIN wire', i # Len(wire')
                   PROVE  wire'[i].kind \notin {"end", "cut"}
      OBVIOUS
    <3>2. i \in 1..Len(wire) \/ i = Len(wire) + 1
      BY <2>1, <3>1
    <3>3. QED
      BY <2>1, <2>2, <3>2, Kinds DEF StreamClosed
  <2>4. QED
    BY <1>4, <2>2, <2>3 DEF StreamClosed
<1>5. CASE (Crash \/ Join \/ LoseLink) /\ fwd # "off" /\ wire' # wire
  <2>1. /\ fwd' = "off"
        /\ \/ CutOff(<<Cut>>) /\ UNCHANGED link
           \/ CutOff(<<>>)
    BY <1>5 DEF Crash, Join, LoseLink, Exit, StreamOff, client
  <2>2. PICK then \in {<<>>, <<Cut>>} : CutOff(then) /\ (then # <<>> => UNCHANGED link)
    BY <2>1
  <2>3. \A i \in DOMAIN wire' : \/ wire'[i] = Cut /\ i = Len(wire') /\ then = <<Cut>>
                                \/ i \in DOMAIN wire /\ wire'[i] = wire[i]
    BY <2>2, Cuts
  <2>4. \A i \in DOMAIN wire : wire[i].kind \notin {"end", "cut"}
    BY <1>5 DEF StreamClosed
  <2>5. link = "up" /\ <<Cut>> # <<>>
    BY <1>5 DEF StreamClosed
  <2>6. \A i \in DOMAIN wire' : /\ wire'[i].kind # "end"
                                /\ wire'[i].kind = "cut" => i = Len(wire') /\ link' = "up"
    BY <2>2, <2>3, <2>4, <2>5, Kinds
  <2>7. QED
    BY <2>1, <2>6 DEF StreamClosed
<1>6. CASE (Crash \/ Join) /\ wire' = wire
  BY <1>6 DEF Crash, Join, Exit, StreamOff, client, StreamClosed
<1>7. CASE LoseLink /\ wire' = wire
  <2>1. fwd # "off" /\ fwd' = "off"
    BY <1>7 DEF LoseLink, StreamOff
  <2>2. QED
    BY <1>7, <2>1 DEF StreamClosed
<1>8. CASE Subscribe
  BY <1>8 DEF Subscribe, StreamClosed
<1>9. QED
  BY <1>1, <1>2, <1>3, <1>4, <1>5, <1>6, <1>7, <1>8
  DEF Next, Runtime, StartTask, Report, BeginCancelling, Become, EndTask, Api, ReadDemo, SubmitDemo,
      AskToStop, CloseConn, Signal, Stop, CancelAll, Idle, CloseStreams, Join, DeadlinePasses, Crash,
      Restart, Forward, LoseLink, Pane, Expire, vars, client, stream

(* What Apply does to the wire: it takes the first event. *)
LEMMA TakesFirst ==
  ASSUME Typed, Apply
  PROVE  /\ wire \in Seq(Event) /\ Len(wire) \in Nat \ {0} /\ DOMAIN wire = 1..Len(wire)
         /\ Head(wire) = wire[1] /\ wire' \in Seq(Event) /\ Len(wire') = Len(wire) - 1
         /\ DOMAIN wire' = 1..Len(wire) - 1
         /\ \A i \in 1..Len(wire) - 1 : wire'[i] = wire[i + 1]
<1>1. wire \in Seq(Event) /\ wire # <<>> /\ wire' = Tail(wire)
  BY DEF Typed, Apply
<1>2. QED
  BY <1>1

LEMMA ClosedApply ==
  ASSUME Typed, StreamClosed, Apply
  PROVE  StreamClosed'
<1>1. /\ Len(wire) \in Nat \ {0} /\ DOMAIN wire = 1..Len(wire) /\ Head(wire) = wire[1]
      /\ Len(wire') = Len(wire) - 1 /\ DOMAIN wire' = 1..Len(wire) - 1
      /\ \A i \in 1..Len(wire) - 1 : wire'[i] = wire[i + 1]
  BY TakesFirst
<1>2. fwd' = fwd
  BY DEF Apply, stream
<1>3. CASE wire[1].kind \in {"end", "cut"}
  <2>1. Len(wire) = 1 /\ fwd = "off"
    BY <1>1, <1>3 DEF StreamClosed
  <2>2. QED
    BY <1>1, <1>2, <2>1 DEF StreamClosed
<1>4. CASE wire[1].kind \notin {"end", "cut"}
  <2>1. link' = link
    BY <1>1, <1>4 DEF Apply
  <2>2. ASSUME NEW i \in DOMAIN wire', wire'[i].kind \in {"end", "cut"}
        PROVE  i = Len(wire') /\ fwd' = "off" /\ link' = "up"
    <3>1. i + 1 \in DOMAIN wire /\ wire[i + 1].kind \in {"end", "cut"} /\ i \in Nat
      BY <1>1, <2>2
    <3>2. i + 1 = Len(wire) /\ fwd = "off" /\ link = "up"
      BY <3>1 DEF StreamClosed
    <3>3. QED
      BY <1>1, <1>2, <2>1, <3>1, <3>2
  <2>3. QED
    BY <1>2, <2>1, <2>2 DEF StreamClosed
<1>5. QED
  BY <1>3, <1>4

(* A task that is live after a step was live, or is new. *)
LEMMA LiveAfter ==
  ASSUME Typed, Rises
  PROVE  \A t \in LiveTasks' : t \in Task /\ (t \in LiveTasks \/ stage[t] = None)
  BY Stages DEF LiveTasks, Typed, Rises

(* A task that was not submitted is in no row and in no event. *)
LEMMA UnsubmittedUntold ==
  ASSUME Typed, InOrder, NEW t \in Task, stage[t] = None
  PROVE  rows[t] = None /\ \A i \in DOMAIN wire : t \notin DOMAIN wire[i].of
<1>1. rows[t] \in 0..4 /\ rows[t] <= 0 /\ stage[t] = 0
  BY Stages DEF Typed, InOrder
<1>2. ASSUME NEW i \in DOMAIN wire, t \in DOMAIN wire[i].of PROVE FALSE
  <2>1. wire[i] \in Event
    BY DEF Typed
  <2>2. wire[i].of[t] \in 1..4 /\ wire[i].of[t] <= 0
    BY <1>1, <1>2, <2>1, EventsSay DEF InOrder
  <2>3. QED
    BY <2>2
<1>3. QED
  BY <1>1, <1>2, Stages

LEMMA OverStep ==
  ASSUME Typed, DemosFit, CancelledAreOver, [Next]_vars
  PROVE  CancelledAreOver'
<1>1. Rises
  BY StageRises
<1>2. CASE UNCHANGED token /\ UNCHANGED stop /\ stop # "down" /\ (late => late')
  BY <1>1, <1>2, Stages DEF CancelledAreOver, Typed, Rises
<1>3. CASE UNCHANGED <<stage, token, stop, late>>
  BY <1>3 DEF CancelledAreOver, LiveTasks
<1>4. CASE CancelAll
  BY <1>4, Stages DEF CancelAll, CancelledAreOver, LiveTasks
<1>5. CASE Idle
  BY <1>5, Stages DEF Idle, CancelledAreOver, LiveTasks, registry, Typed
<1>6. CASE CloseStreams
  BY <1>6 DEF CloseStreams, CancelledAreOver, LiveTasks, registry
<1>7. CASE Exit
  BY <1>7, Stages DEF Exit, CancelledAreOver, LiveTasks, Typed
<1>8. CASE Restart
  BY <1>8 DEF Restart, CancelledAreOver, LiveTasks
<1>9. ASSUME NEW t \in Task, StartTask(t) \/ Report(t) \/ BeginCancelling(t) \/ EndTask(t)
      PROVE  CancelledAreOver'
  BY <1>2, <1>9 DEF StartTask, Report, BeginCancelling, EndTask, Become, Up, server
<1>10. ASSUME NEW c \in Conn, SubmitDemo(c) PROVE CancelledAreOver'
  BY <1>2, <1>10 DEF SubmitDemo, Become, Up
<1>11. CASE DeadlinePasses
  BY <1>2, <1>11 DEF DeadlinePasses, registry
<1>12. QED
  BY <1>3, <1>4, <1>5, <1>6, <1>7, <1>8, <1>9, <1>10, <1>11
  DEF Next, Runtime, Api, ReadDemo, AskToStop, CloseConn, Signal, Stop, Join, Crash,
      Forward, FirstSnapshot, ReadChange, Lag, SeeClosing, Subscribe, LoseLink, Pane, Apply, Expire,
      vars, registry, server

(* The end of a stream stays true while the pane has not come to it. *)
LEMMA EndWaits ==
  ASSUME Inv, CancelledAreOver, EndIsTrue, Rises, [Next]_vars, ~Apply, wire' = wire,
         \A t \in Task : rows'[t] \in {None, rows[t]}
  PROVE  EndIsTrue'
<1> SUFFICES ASSUME NEW n \in DOMAIN wire, wire[n].kind = "end"
             PROVE  /\ n > 1 => wire[n - 1].kind = "snapshot"
                    /\ stop' = "serving" => \A t \in LiveTasks' :
                         rows'[t] = None /\ \A i \in DOMAIN wire : t \notin DOMAIN wire[i].of
                    /\ ~late' => \A t \in token' :
                         IF n = 1 THEN rows'[t] \notin Live
                         ELSE t \in DOMAIN wire[n - 1].of => wire[n - 1].of[t] \notin Live
  BY DEF EndIsTrue
<1>1. Typed /\ InOrder
  BY DEF Inv
<1>2. n \in Nat /\ n >= 1 /\ (n > 1 => n - 1 \in DOMAIN wire)
  BY <1>1 DEF Typed
<1>3. n > 1 => wire[n - 1].kind = "snapshot"
  BY DEF EndIsTrue
<1>4. ASSUME stop' = "serving", NEW t \in LiveTasks'
      PROVE  rows'[t] = None /\ \A i \in DOMAIN wire : t \notin DOMAIN wire[i].of
  <2>1. t \in Task /\ (t \in LiveTasks \/ stage[t] = None)
    BY <1>1, LiveAfter
  <2>2. stop = "serving" \/ stop = "down"
    BY <1>4 DEF Next, Runtime, StartTask, Report, BeginCancelling, EndTask, Api, ReadDemo, SubmitDemo,
      AskToStop, CloseConn, Signal, Stop, CancelAll, Idle, CloseStreams, Join, Exit, DeadlinePasses,
      Crash, Restart, Forward, FirstSnapshot, ReadChange, Lag, SeeClosing, Subscribe, LoseLink, Pane,
      Apply, Expire, vars, server
  <2>3. CASE t \in LiveTasks
    <3>1. stop = "serving"
      BY <2>2, <2>3 DEF CancelledAreOver
    <3>2. rows[t] = None /\ \A i \in DOMAIN wire : t \notin DOMAIN wire[i].of
      BY <2>3, <3>1 DEF EndIsTrue
    <3>3. QED
      BY <2>1, <3>2
  <2>4. CASE stage[t] = None
    BY <1>1, <2>1, <2>4, UnsubmittedUntold
  <2>5. QED
    BY <2>1, <2>3, <2>4
<1>5. ASSUME ~late', NEW t \in token'
      PROVE  IF n = 1 THEN rows'[t] \notin Live
             ELSE t \in DOMAIN wire[n - 1].of => wire[n - 1].of[t] \notin Live
  <2>1. CASE CancelAll
    <3>1. t \in LiveTasks /\ stop = "serving" /\ rows' = rows
      BY <1>5, <2>1 DEF CancelAll, pane
    <3>2. rows[t] = None /\ \A i \in DOMAIN wire : t \notin DOMAIN wire[i].of
      BY <3>1 DEF EndIsTrue
    <3>3. QED
      BY <1>2, <3>1, <3>2, Stages
  <2>2. CASE ~CancelAll
    <3>1. token' = {} \/ (token' = token /\ (late => late'))
      BY <2>2
      DEF Next, Runtime, StartTask, Report, BeginCancelling, EndTask, Become, Api, ReadDemo, SubmitDemo,
        AskToStop, CloseConn, Signal, Stop, Idle, CloseStreams, Join, Exit, DeadlinePasses,
        Crash, Restart, Forward, FirstSnapshot, ReadChange, Lag, SeeClosing, Subscribe, LoseLink, Pane,
        Apply, Expire, vars, server, registry
    <3>2. t \in token /\ ~late /\ t \in Task
      BY <1>5, <3>1 DEF CancelledAreOver
    <3>3. IF n = 1 THEN rows[t] \notin Live
          ELSE t \in DOMAIN wire[n - 1].of => wire[n - 1].of[t] \notin Live
      BY <3>2 DEF EndIsTrue
    <3>4. QED
      BY <3>2, <3>3, Stages
  <2>3. QED
    BY <2>1, <2>2
<1>6. QED
  BY <1>3, <1>4, <1>5

LEMMA EndSent ==
  ASSUME Typed, StreamClosed, CancelledAreOver, SeeClosing
  PROVE  EndIsTrue'
<1>1. /\ KeepsFirst(Len(wire)) /\ Len(wire') = Len(wire) + 2 /\ Len(wire) \in Nat
      /\ wire'[Len(wire) + 1] = Snapshot /\ wire'[Len(wire) + 2] = End
  BY Closes
<1>2. /\ fwd # "off" /\ UNCHANGED <<stop, late, token, stage, rows>> /\ stop = "joining"
  BY DEF SeeClosing, registry, server, pane
<1>3. DOMAIN wire' = 1..Len(wire) + 2 /\ \A i \in 1..Len(wire) : wire'[i] = wire[i]
  BY <1>1 DEF KeepsFirst
<1>4. DOMAIN wire = 1..Len(wire)
  BY DEF Typed
<1>5. ASSUME NEW n \in DOMAIN wire', wire'[n].kind = "end" PROVE n = Len(wire) + 2
  <2>1. n \in 1..Len(wire) \/ n = Len(wire) + 1 \/ n = Len(wire) + 2
    BY <1>1, <1>3, <1>5
  <2>2. \A i \in 1..Len(wire) : wire'[i].kind # "end"
    BY <1>2, <1>3, <1>4 DEF StreamClosed
  <2>3. QED
    BY <1>1, <1>5, <2>1, <2>2, Kinds
<1>6. ASSUME ~late, NEW t \in token, t \in DOMAIN Snapshot.of PROVE Snapshot.of[t] \notin Live
  <2>1. Snapshot.of[t] = stage[t] /\ t \in Task
    BY <1>6, SnapshotSays
  <2>2. stage[t] >= Ended /\ stage[t] \in None..Gone
    BY <1>2, <1>6, <2>1 DEF CancelledAreOver, Typed
  <2>3. QED
    BY <2>1, <2>2, Stages
<1>7. \A n \in DOMAIN wire' : wire'[n].kind = "end" =>
        n > 1 /\ n # 1 /\ wire'[n - 1] = Snapshot
  <2>1. (Len(wire) + 2) - 1 = Len(wire) + 1 /\ Len(wire) + 2 > 1 /\ Len(wire) + 2 # 1
    BY <1>1
  <2>2. QED
    BY <1>1, <1>5, <2>1
<1>8. QED
  BY <1>2, <1>6, <1>7, Kinds DEF EndIsTrue

LEMMA EndApplied ==
  ASSUME Inv, CancelledAreOver, EndIsTrue, Apply
  PROVE  EndIsTrue'
<1>1. Typed /\ InOrder
  BY DEF Inv
<1>2. /\ Len(wire) \in Nat \ {0} /\ DOMAIN wire = 1..Len(wire) /\ Head(wire) = wire[1]
      /\ DOMAIN wire' = 1..Len(wire) - 1
      /\ \A i \in 1..Len(wire) - 1 : wire'[i] = wire[i + 1]
  BY <1>1, TakesFirst
<1>3. UNCHANGED <<stage, token, stop, late>> /\ LiveTasks' = LiveTasks
  BY DEF Apply, registry, server, LiveTasks
<1>4. Follows(wire[1])
  BY <1>1, <1>2, ApplyFollows
<1> SUFFICES ASSUME NEW n \in DOMAIN wire', wire'[n].kind = "end"
             PROVE  /\ n > 1 => wire'[n - 1].kind = "snapshot"
                    /\ stop = "serving" => \A t \in LiveTasks :
                         rows'[t] = None /\ \A i \in DOMAIN wire' : t \notin DOMAIN wire'[i].of
                    /\ ~late => \A t \in token :
                         IF n = 1 THEN rows'[t] \notin Live
                         ELSE t \in DOMAIN wire'[n - 1].of => wire'[n - 1].of[t] \notin Live
  BY <1>3 DEF EndIsTrue
<1>5. /\ n \in Nat /\ n >= 1 /\ n + 1 \in DOMAIN wire /\ n + 1 > 1 /\ (n + 1) - 1 = n /\ n + 1 # 1
      /\ wire'[n] = wire[n + 1] /\ wire[n + 1].kind = "end" /\ 1 \in DOMAIN wire
  BY <1>2
<1>6. /\ wire[n].kind = "snapshot"
      /\ stop = "serving" => \A t \in LiveTasks :
           rows[t] = None /\ \A i \in DOMAIN wire : t \notin DOMAIN wire[i].of
      /\ ~late => \A t \in token : t \in DOMAIN wire[n].of => wire[n].of[t] \notin Live
  BY <1>5 DEF EndIsTrue
<1>7. n > 1 => wire'[n - 1] = wire[n]
  BY <1>2, <1>5
<1>8. ASSUME stop = "serving", NEW t \in LiveTasks
      PROVE  rows'[t] = None /\ \A i \in DOMAIN wire' : t \notin DOMAIN wire'[i].of
  <2>1. t \in Task /\ rows[t] = None /\ \A i \in DOMAIN wire : t \notin DOMAIN wire[i].of
    BY <1>6, <1>8 DEF LiveTasks
  <2>2. rows'[t] = None
    BY <1>4, <1>5, <2>1 DEF Follows
  <2>3. QED
    BY <1>2, <2>1, <2>2
<1>9. ASSUME ~late, NEW t \in token
      PROVE  IF n = 1 THEN rows'[t] \notin Live
             ELSE t \in DOMAIN wire'[n - 1].of => wire'[n - 1].of[t] \notin Live
  <2>1. CASE n = 1
    <3>1. t \in Task /\ wire[1].kind = "snapshot"
      BY <1>6, <1>9, <2>1 DEF CancelledAreOver
    <3>2. rows'[t] = None \/ (t \in DOMAIN wire[1].of /\ rows'[t] = wire[1].of[t])
      BY <1>4, <3>1 DEF Follows
    <3>3. QED
      BY <1>6, <1>9, <2>1, <3>2, Stages
  <2>2. CASE n # 1
    BY <1>5, <1>6, <1>7, <1>9, <2>2
  <2>3. QED
    BY <2>1, <2>2
<1>10. QED
  BY <1>5, <1>6, <1>7, <1>8, <1>9

LEMMA StopInitInv == Init => StopInv
<1> SUFFICES ASSUME Init PROVE StopInv
  OBVIOUS
<1>1. Inv
  BY InitInv
<1>2. StreamClosed /\ CancelledAreOver /\ EndIsTrue
  BY DEF Init, StreamClosed, CancelledAreOver, EndIsTrue
<1>3. QED
  BY <1>1, <1>2 DEF StopInv

LEMMA StopStepInv == ASSUME StopInv, [Next]_vars PROVE StopInv'
<1>1. /\ Inv /\ StreamClosed /\ CancelledAreOver /\ EndIsTrue
      /\ Typed /\ DemosFit
  BY DEF StopInv, Inv
<1>2. Inv' /\ CancelledAreOver' /\ Rises
  BY <1>1, StepInv, OverStep, StageRises
<1>3. CASE Apply
  BY <1>1, <1>2, <1>3, ClosedApply, EndApplied DEF StopInv
<1>4. CASE ~Apply
  <2>1. /\ StreamClosed'
        /\ wire' = wire \/ SeeClosing \/ \A i \in DOMAIN wire' : wire'[i].kind # "end"
    BY <1>1, <1>4, ClosedStep
  <2>2. CASE wire' = wire
    BY <1>1, <1>2, <1>4, <2>1, <2>2, RowsCleared, EndWaits DEF StopInv
  <2>3. CASE SeeClosing
    BY <1>1, <1>2, <2>1, <2>3, EndSent DEF StopInv
  <2>4. CASE \A i \in DOMAIN wire' : wire'[i].kind # "end"
    <3>1. EndIsTrue'
      BY <2>4 DEF EndIsTrue
    <3>2. QED
      BY <1>2, <2>1, <3>1 DEF StopInv
  <2>5. QED
    BY <2>1, <2>2, <2>3, <2>4
<1>5. QED
  BY <1>3, <1>4

(* When a client has applied all that a stop within its budget sent it, none of   *)
(* the tasks that the stop cancelled shows as live (server/mod.rs:239-247).     *)
THEOREM StopTellsTheEnd == Spec => StopTellsHowItEnded
<1>1. ASSUME StopInv, Apply, Head(wire) = End, ~late, NEW t \in token
      PROVE  rows[t] \notin Live
  <2>1. 1 \in DOMAIN wire /\ wire[1].kind = "end"
    BY <1>1, TakesFirst, Kinds DEF StopInv, Inv
  <2>2. QED
    BY <1>1, <2>1 DEF StopInv, EndIsTrue
<1>2. StopInv /\ [Next]_vars =>
        [Apply /\ Head(wire) = End /\ ~late => \A t \in token : rows[t] \notin Live]_vars
  BY <1>1
<1>3. StopInv /\ [Next]_vars => StopInv'
  BY StopStepInv
<1>4. QED
  BY <1>2, <1>3, StopInitInv, PTL DEF Spec, StopTellsHowItEnded
===============================================================================
