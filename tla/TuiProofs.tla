------------------------------- MODULE TuiProofs -------------------------------
(***************************************************************************)
(* The terminal.  What the connection of a machine makes it draw is late but *)
(* never wrong, whatever the size of the two channels and however slow       *)
(* either side is; and the selection of a browser stays on its row under     *)
(* everything that arrives, whatever the file system, the order and size of  *)
(* the groups, and the keys between.                                        *)
(***************************************************************************)
EXTENDS Connection, Browser, SequenceTheorems, FiniteSetTheorems, WellFoundedInduction, TLAPS

-----------------------------------------------------------------------------
(* The connection of a machine *)

(* What the proof needs of ConnectionTypeOK: the delays and counters play no part. *)
ConnectionTyped ==
  /\ pc \in {"Announce", "Attach", "AnnounceAttached", "Watch", "AnnounceLost",
             "Sleep", "AnnounceStarting", "Start"}
  /\ lost \in {"Disconnected", "NeedsAttention"}
  /\ events \in Seq(States \cup {"Tasks"}) /\ Len(events) <= EventBuffer
  /\ shown \in States

ConnectionInv == ConnectionTyped /\ CatchesUp

(* An announcement is what will be drawn, whatever is on its way before it. *)
LEMMA AnnouncedIsLast ==
  ASSUME ConnectionTyped, NEW e \in States, SendEvent(e), shown' = shown
  PROVE  /\ events' \in Seq(States \cup {"Tasks"}) /\ Len(events') <= EventBuffer
         /\ WillShow(e)'
<1>1. /\ events' = Append(events, e) /\ e # "Tasks"
      /\ Len(events') = Len(events) + 1 /\ Len(events) \in Nat
      /\ events'[Len(events) + 1] = e /\ Len(events) < EventBuffer
  BY DEF SendEvent, ConnectionTyped, States
<1>2. DOMAIN events' = 1..Len(events) + 1
  BY <1>1 DEF ConnectionTyped
<1>3. /\ Len(events) + 1 \in DOMAIN events'
      /\ \A j \in DOMAIN events' : j <= Len(events) + 1
  BY <1>1, <1>2
<1>4. WillShow(e)'
  BY <1>1, <1>3 DEF WillShow
<1>5. events' \in Seq(States \cup {"Tasks"}) /\ Len(events') <= EventBuffer
  BY <1>1, ConnectionAssumption DEF ConnectionTyped
<1>6. QED
  BY <1>4, <1>5

(* An update of tasks changes nothing of it. *)
LEMMA UpdateChangesNothing ==
  ASSUME ConnectionTyped, SendEvent("Tasks"), shown' = shown, NEW s
  PROVE  /\ events' \in Seq(States \cup {"Tasks"}) /\ Len(events') <= EventBuffer
         /\ WillShow(s) => WillShow(s)'
<1>1. /\ Len(events') = Len(events) + 1 /\ Len(events) < EventBuffer
      /\ events'[Len(events) + 1] = "Tasks" /\ DOMAIN events = 1..Len(events)
      /\ \A i \in DOMAIN events : events'[i] = events[i]
      /\ DOMAIN events' = 1..Len(events) + 1
  BY DEF SendEvent, ConnectionTyped
<1>2. {i \in DOMAIN events : events[i] # "Tasks"}'
        = {i \in DOMAIN events : events[i] # "Tasks"}
  BY <1>1 DEF ConnectionTyped
<1>3. WillShow(s) => WillShow(s)'
  BY <1>1, <1>2 DEF WillShow
<1>4. QED
  BY <1>1, <1>3, ConnectionAssumption DEF SendEvent, ConnectionTyped

(* Neither does the UI when it applies the first of them. *)
LEMMA ApplyChangesNothing ==
  ASSUME ConnectionTyped, OnConnection, NEW s, WillShow(s)
  PROVE  WillShow(s)'
<1> DEFINE changes == {i \in DOMAIN events : events[i] # "Tasks"}
<1>1. /\ events # <<>> /\ events' = Tail(events) /\ Len(events) \in Nat
      /\ Len(events') = Len(events) - 1 /\ Len(events) > 0
      /\ DOMAIN events = 1..Len(events) /\ DOMAIN events' = 1..Len(events) - 1
      /\ \A i \in DOMAIN events' : events'[i] = events[i + 1]
      /\ shown' = IF events[1] = "Tasks" THEN shown ELSE events[1]
  BY DEF OnConnection, ConnectionTyped
<1>2. \A i \in DOMAIN events' : i \in changes' <=> i + 1 \in changes
  BY <1>1
<1>3. \A i \in changes : i = 1 \/ i - 1 \in changes'
  BY <1>1, <1>2
<1>4. CASE changes = {} /\ s = shown
  BY <1>1, <1>2, <1>4 DEF WillShow
<1>5. ASSUME NEW i \in changes, s = events[i], \A j \in changes : j <= i
      PROVE  WillShow(s)'
  <2>1. CASE i = 1
    <3>1. changes' = {}
      BY <1>1, <1>2, <1>5, <2>1
    <3>2. QED
      BY <1>1, <1>5, <2>1, <3>1 DEF WillShow
  <2>2. CASE i # 1
    <3>1. i - 1 \in changes' /\ events'[i - 1] = s
      BY <1>1, <1>3, <1>5, <2>2
    <3>2. \A j \in changes' : j <= i - 1
      BY <1>1, <1>2, <1>5
    <3>3. QED
      BY <3>1, <3>2 DEF WillShow
  <2>3. QED
    BY <2>1, <2>2
<1>6. QED
  BY <1>4, <1>5 DEF WillShow

LEMMA ConnectionInitInv == ConnectionInit => ConnectionInv
  BY ConnectionAssumption DEF ConnectionInit, ConnectionInv, ConnectionTyped, CatchesUp, States

LEMMA ConnectionStepInv == ConnectionInv /\ [ConnectionNext]_connectionVars => ConnectionInv'
<1> SUFFICES ASSUME ConnectionInv, [ConnectionNext]_connectionVars PROVE ConnectionInv'
  OBVIOUS
<1> USE DEF ConnectionInv
(* The steps that send nothing, and that leave every state but Announce's alone. *)
<1>1. ASSUME UNCHANGED <<events, shown>>,
             \/ UNCHANGED <<pc, lost>>
             \/ /\ pc' \in {"Announce", "AnnounceAttached", "AnnounceLost",
                            "AnnounceStarting"}
                /\ lost' \in {"Disconnected", "NeedsAttention"}
      PROVE  ConnectionInv'
  BY <1>1 DEF ConnectionTyped, CatchesUp, WillShow
<1>2. CASE Announce
  BY <1>2, AnnouncedIsLast DEF Announce, ConnectionTyped, States, CatchesUp
<1>3. CASE AnnounceAttached
  BY <1>3, AnnouncedIsLast DEF AnnounceAttached, ConnectionTyped, States, CatchesUp
<1>4. CASE AnnounceStarting
  BY <1>4, AnnouncedIsLast DEF AnnounceStarting, ConnectionTyped, States, CatchesUp
<1>5. CASE AnnounceLost
  <2>1. lost \in States
    BY DEF ConnectionTyped, States
  <2>2. WillShow(lost)' /\ ConnectionTyped'
    BY <1>5, <2>1, AnnouncedIsLast DEF AnnounceLost, ConnectionTyped
  <2>3. pc' = "Sleep" /\ lost' = lost
    BY <1>5 DEF AnnounceLost
  <2>4. QED
    BY <2>2, <2>3 DEF CatchesUp, WillShow
<1>6. CASE Relay
  <2>1. pc = "Watch" /\ UNCHANGED <<pc, lost, shown>> /\ SendEvent("Tasks")
    BY <1>6 DEF Relay, run
  <2>2. QED
    BY <2>1, UpdateChangesNothing DEF ConnectionTyped, CatchesUp
<1>7. CASE OnConnection
  <2>1. UNCHANGED <<pc, lost>>
    BY <1>7 DEF OnConnection, run
  <2>2. ConnectionTyped'
    <3>1. Head(events) \in States \cup {"Tasks"} /\ Len(Tail(events)) <= EventBuffer
      BY <1>7, ConnectionAssumption DEF OnConnection, ConnectionTyped
    <3>2. QED
      BY <1>7, <2>1, <3>1 DEF OnConnection, ConnectionTyped
  <2>3. CatchesUp'
    BY <1>7, <2>1, ApplyChangesNothing DEF CatchesUp, WillShow
  <2>4. QED
    BY <2>2, <2>3
<1>8. CASE AttachSucceeds \/ AttachFails \/ WatchEnds \/ WakeUp \/ TakeCommand \/ StartServer
  BY <1>1, <1>8 DEF AttachSucceeds, AttachFails, WatchEnds, WakeUp, TakeCommand, StartServer,
     Lose, ConnectionTyped
<1>9. CASE PressStart \/ Others \/ UNCHANGED connectionVars
  BY <1>1, <1>9 DEF PressStart, Others, StopServer, ServerDies, StartElsewhere, ReachChanges,
     connectionVars, run
<1>10. QED
  BY <1>2, <1>3, <1>4, <1>5, <1>6, <1>7, <1>8, <1>9 DEF ConnectionNext, ConnectionTask

(* Once the UI has applied what is on its way it draws the state that the      *)
(* connection's task is in, for any size of the channels (connection.rs:116-   *)
(* 167): no event overtakes another, and none is sent before its state holds.  *)
THEOREM DrawsWhatHolds == ConnectionSpec => []CatchesUp
<1>1. ConnectionInv => CatchesUp
  BY DEF ConnectionInv
<1>2. QED
  BY <1>1, ConnectionInitInv, ConnectionStepInv, PTL DEF ConnectionSpec

-----------------------------------------------------------------------------
(* The browser *)

(* A tree whose placements lie in its rows. *)
Row == [path : Node, depth : Nat, exp : {Collapsed, Loading, Expanded, Failed}, req : Nat]
Place == [parent : Nat, depth : Nat, insertion : Nat]

(* The expansion r: its row is loading for it, and its children go below that. *)
Placed(r, p, rows) ==
  /\ p \in Place /\ p.parent >= 1 /\ p.parent < p.insertion /\ p.insertion <= Len(rows) + 1
  /\ rows[p.parent].req = r /\ rows[p.parent].exp = Loading

SoundTree(t) ==
  /\ {"root", "rows", "places", "sel", "status"} \subseteq DOMAIN t
  /\ t.root \in Navigable /\ t.rows \in Seq(Row) /\ t.sel \in Nat
  /\ \A r \in DOMAIN t.places : Placed(r, t.places[r], t.rows)

-----------------------------------------------------------------------------
(* Numbers and sequences *)

LEMMA LeastIn ==
  ASSUME NEW S \in SUBSET Nat, S # {}
  PROVE  \E x \in S : \A y \in S : x <= y
<1> DEFINE R == OpToRel(<, Nat)
<1>1. R = {p \in Nat \X Nat : p[1] < p[2]}
  BY Zenon DEF OpToRel
<1>2. IsWellFoundedOn(R, Nat)
  BY NatLessThanWellFounded
<1> HIDE DEF R
<1>3. PICK x \in S : \A y \in S : ~(<<y, x>> \in R)
  BY <1>2, WFMin
<1>4. ASSUME NEW y \in S PROVE x <= y
  <2>1. x \in Nat /\ y \in Nat /\ <<y, x>> \notin R
    BY <1>3
  <2>2. ~(y < x)
    BY <1>1, <2>1
  <2>3. QED
    BY <2>1, <2>2
<1>5. QED
  BY <1>4

LEMMA MinIsIn ==
  ASSUME NEW S \in SUBSET Nat, S # {}
  PROVE  Min(S) \in S /\ \A y \in S : Min(S) <= y
BY LeastIn DEF Min

LEMMA MaxIsIn ==
  ASSUME NEW n \in Nat, NEW S \in SUBSET (0..n), S # {}
  PROVE  Max(S) \in S
<1> DEFINE T == {n - x : x \in S}
<1>1. T \in SUBSET Nat /\ T # {}
  <2>1. \A x \in S : x \in Int /\ 0 <= x /\ x <= n
    OBVIOUS
  <2>2. \A x \in S : n - x \in Nat
    BY <2>1
  <2>3. QED
    BY <2>2
<1> HIDE DEF T
<1>2. PICK t \in T : \A y \in T : t <= y
  BY <1>1, LeastIn
<1> USE DEF T
<1>3. PICK x \in S : t = n - x
  BY <1>2
<1>4. ASSUME NEW y \in S PROVE x >= y
  <2>1. n - y \in T
    OBVIOUS
  <2>2. n - x <= n - y
    BY <1>2, <1>3, <2>1
  <2>3. x \in Nat /\ y \in Nat
    OBVIOUS
  <2> HIDE DEF T
  <2>4. QED
    BY <2>2, <2>3
<1>5. QED
  BY <1>4 DEF Max

LEMMA SpliceFacts ==
  ASSUME NEW S, NEW s \in Seq(S), NEW new \in Seq(S), NEW at \in 1..Len(s)+1
  PROVE  /\ Splice(s, at, new) \in Seq(S)
         /\ Len(Splice(s, at, new)) = Len(s) + Len(new)
         /\ \A i \in 1..at-1 : Splice(s, at, new)[i] = s[i]
         /\ \A i \in at..Len(s) : Splice(s, at, new)[i + Len(new)] = s[i]
<1> DEFINE a == SubSeq(s, 1, at - 1)
           b == SubSeq(s, at, Len(s))
<1>1. a \in Seq(S) /\ Len(a) = at - 1 /\ \A i \in 1..at-1 : a[i] = s[i]
  OBVIOUS
<1>2. b \in Seq(S) /\ Len(b) = Len(s) + 1 - at /\ \A i \in 1..Len(s)+1-at : b[i] = s[at + i - 1]
  OBVIOUS
<1> HIDE DEF a, b
<1> DEFINE c == a \o new
<1>3. c \in Seq(S) /\ Len(c) = at - 1 + Len(new) /\ \A i \in 1..at-1 : c[i] = s[i]
  BY <1>1, SMTT(60)
<1> HIDE DEF c
<1> DEFINE d == c \o b
<1>4. d \in Seq(S) /\ Len(d) = Len(c) + Len(b)
  BY <1>2, <1>3, ConcatProperties
<1>5. \A i \in 1..Len(c) : d[i] = c[i]
  BY <1>2, <1>3
<1>6. \A i \in 1..Len(b) : d[Len(c) + i] = b[i]
  BY <1>2, <1>3, SMTT(60)
<1>7. Splice(s, at, new) = d
  BY DEF Splice, a, b, c
<1> HIDE DEF d
<1>8. \A i \in 1..at-1 : d[i] = s[i]
  BY <1>3, <1>5
<1>9. ASSUME NEW i \in at..Len(s) PROVE d[i + Len(new)] = s[i]
  <2>1. i - at + 1 \in 1..Len(b) /\ Len(c) + (i - at + 1) = i + Len(new)
    BY <1>2, <1>3
  <2>2. b[i - at + 1] = s[i]
    BY <1>2, <2>1
  <2>3. QED
    BY <1>6, <2>1, <2>2
<1>10. QED
  BY <1>2, <1>3, <1>4, <1>7, <1>8, <1>9

LEMMA NewRowsAreRows ==
  ASSUME NEW paths \in Seq(Node), NEW depth \in Nat
  PROVE  NewRows(paths, depth) \in Seq(Row) /\ Len(NewRows(paths, depth)) = Len(paths)
<1>1. \A i \in 1..Len(paths) : NewRow(paths[i], depth) \in Row
  BY DEF NewRow, Row, Collapsed
<1>2. QED
  BY <1>1 DEF NewRows

-----------------------------------------------------------------------------
(* The operators on trees *)

LEMMA SelectionInRows ==
  ASSUME NEW t, SoundTree(t)
  PROVE  /\ EffectiveSelection(t) \in Nat
         /\ t.rows # <<>> => EffectiveSelection(t) \in 1..Len(t.rows)
         /\ Selects(t) => EffectiveSelection(t) = t.sel
<1>1. Len(t.rows) \in Nat /\ (t.rows # <<>> => Len(t.rows) > 0) /\ t.sel \in Nat
  BY DEF SoundTree
<1>2. Selects(t) => t.rows # <<>>
  BY <1>1 DEF Selects, SoundTree
<1>3. QED
  BY <1>1, <1>2 DEF EffectiveSelection, Least, Selects

LEMMA SubtreeEndInRows ==
  ASSUME NEW t, SoundTree(t), NEW i \in 1..Len(t.rows)
  PROVE  SubtreeEnd(t, i) \in i+1..Len(t.rows)+1
<1> DEFINE ends == {j \in i+1..Len(t.rows) : t.rows[j].depth <= t.rows[i].depth}
<1>1. Len(t.rows) \in Nat
  BY DEF SoundTree
<1>2. ends \in SUBSET Nat
  BY <1>1
<1>3. ends # {} => Min(ends) \in ends
  BY <1>2, MinIsIn
<1>4. SubtreeEnd(t, i) = IF ends = {} THEN Len(t.rows) + 1 ELSE Min(ends)
  BY DEF SubtreeEnd
<1>5. CASE ends = {}
  BY <1>1, <1>4, <1>5
<1>6. CASE ends # {}
  BY <1>1, <1>3, <1>4, <1>6
<1>7. QED
  BY <1>5, <1>6

LEMMA RestartIsSound ==
  ASSUME NEW t, SoundTree(t)
  PROVE  SoundTree(Restart(t)) /\ Restart(t).root = t.root
<1>1. DOMAIN NoPlacement = {}
  BY DEF NoPlacement
<1>2. <<>> \in Seq(Row)
  BY EmptySeq
<1>3. QED
  BY <1>1, <1>2 DEF SoundTree, Restart

LEMMA RerootIsSound ==
  ASSUME NEW t, SoundTree(t), NEW root \in Navigable
  PROVE  SoundTree(Reroot(t, root)) /\ Reroot(t, root).root = root
<1> DEFINE u == [t EXCEPT !.root = root, !.sel = 0]
<1>1. SoundTree(u) /\ u.root = root
  BY DEF SoundTree
<1>2. Reroot(t, root) = Restart(u)
  BY DEF Reroot
<1> HIDE DEF u
<1>3. QED
  BY <1>1, <1>2, RestartIsSound

(* Placements stay in the rows when some are inserted, wherever that is. *)
LEMMA InsertionKeepsPlacements ==
  ASSUME NEW rows, NEW new, NEW places, NEW count \in Nat, NEW depth,
         Len(rows) \in Nat, Len(new) = Len(rows) + count, NEW at \in 1..Len(rows)+1,
         \A i \in 1..at-1 : new[i] = rows[i],
         \A i \in at..Len(rows) : new[i + count] = rows[i],
         \A r \in DOMAIN places : Placed(r, places[r], rows)
  PROVE  LET moved == PlacementsAfterInsertion(places, at, count, depth)
         IN  /\ DOMAIN moved = DOMAIN places
             /\ \A r \in DOMAIN moved : Placed(r, moved[r], new)
<1> DEFINE moved == PlacementsAfterInsertion(places, at, count, depth)
<1>1. DOMAIN moved = DOMAIN places
  BY DEF PlacementsAfterInsertion
<1>2. ASSUME NEW r \in DOMAIN places PROVE Placed(r, moved[r], new)
  <2> DEFINE p == places[r]
             later == [p EXCEPT !.insertion = @ + count]
             below == [p EXCEPT !.parent = @ + count, !.insertion = @ + count]
  <2>1. Placed(r, p, rows)
    OBVIOUS
  <2>2. moved[r] = IF at <= p.parent THEN below
                   ELSE IF at < p.insertion \/ (at = p.insertion /\ depth >= p.depth) THEN later
                   ELSE p
    BY DEF PlacementsAfterInsertion
  <2> HIDE DEF p, moved
  <2>3. /\ p = [parent |-> p.parent, depth |-> p.depth, insertion |-> p.insertion]
        /\ p.parent \in Nat /\ p.depth \in Nat /\ p.insertion \in Nat
    BY <2>1 DEF Place, Placed
  <2>4. later = [parent |-> p.parent, depth |-> p.depth, insertion |-> p.insertion + count]
    BY <2>3
  <2>5. below = [parent |-> p.parent + count, depth |-> p.depth, insertion |-> p.insertion + count]
    <3> DEFINE q == [parent |-> p.parent, depth |-> p.depth, insertion |-> p.insertion]
    <3>1. below = [q EXCEPT !.parent = p.parent + count, !.insertion = p.insertion + count]
      BY <2>3
    <3> HIDE DEF below
    <3>2. QED
      BY <3>1
  <2> HIDE DEF later, below
  <2>6. CASE at <= p.parent
    <3>1. p.parent \in at..Len(rows)
      BY <2>1, <2>3, <2>6 DEF Placed
    <3>2. new[p.parent + count] = rows[p.parent]
      BY <3>1
    <3>3. below \in Place
      BY <2>3, <2>5 DEF Place
    <3>4. /\ below.parent = p.parent + count /\ below.insertion = p.insertion + count
          /\ moved[r] = below
      BY <2>2, <2>5, <2>6
    <3>5. QED
      BY <2>1, <2>3, <3>2, <3>3, <3>4 DEF Placed
  <2>7. CASE p.parent < at
    <3>1. p.parent \in 1..at-1
      BY <2>1, <2>3, <2>7 DEF Placed
    <3>2. new[p.parent] = rows[p.parent]
      BY <3>1
    <3>3. moved[r] = later \/ moved[r] = p
      BY <2>2, <2>3, <2>7
    <3>4. /\ later \in Place /\ later.parent = p.parent
          /\ later.insertion = p.insertion + count
      BY <2>3, <2>4 DEF Place
    <3>5. QED
      BY <2>1, <2>3, <3>2, <3>3, <3>4 DEF Placed
  <2>8. QED
    BY <2>3, <2>6, <2>7
<1>3. QED
  BY <1>1, <1>2

(* What arrives for the root, and where the selection is after it. *)
LEMMA ExtendRootIsSound ==
  ASSUME NEW t, SoundTree(t), NEW paths \in Seq(Node)
  PROVE  /\ SoundTree(ExtendRoot(t, paths))
         /\ Selects(t) => /\ ExtendRoot(t, paths).sel = t.sel
                          /\ t.sel \in 1..Len(ExtendRoot(t, paths).rows)
                          /\ ExtendRoot(t, paths).rows[t.sel] = t.rows[t.sel]
<1> DEFINE u == ExtendRoot(t, paths)
           new == NewRows(paths, 0)
           places == PlacementsAfterInsertion(t.places, Len(t.rows) + 1, Len(paths), 0)
<1>1. /\ {"root", "rows", "places", "sel", "status"} \subseteq DOMAIN u
      /\ u.root = t.root /\ u.rows = t.rows \o new /\ u.places = places
      /\ u.sel = IF t.sel = 0 THEN 1 ELSE t.sel
  BY DEF SoundTree, ExtendRoot
<1>2. new \in Seq(Row) /\ Len(new) = Len(paths) /\ Len(paths) \in Nat
  BY NewRowsAreRows
<1>3. /\ t.rows \in Seq(Row) /\ Len(t.rows) \in Nat /\ t.sel \in Nat /\ t.root \in Navigable
      /\ \A r \in DOMAIN t.places : Placed(r, t.places[r], t.rows)
  BY DEF SoundTree
<1> HIDE DEF u, new, places
<1>4. /\ u.rows \in Seq(Row) /\ Len(u.rows) = Len(t.rows) + Len(paths)
      /\ \A i \in 1..Len(t.rows) : u.rows[i] = t.rows[i]
  <2> DEFINE old == t.rows
             all == old \o new
  <2>1. old \in Seq(Row) /\ Len(old) \in Nat
    BY <1>3
  <2> HIDE DEF old
  <2>2. /\ all \in Seq(Row) /\ Len(all) = Len(old) + Len(new)
        /\ \A i \in 1..Len(old) + Len(new) : all[i] = IF i <= Len(old) THEN old[i] ELSE new[i - Len(old)]
    BY <1>2, <2>1, ConcatProperties
  <2>3. \A i \in 1..Len(old) : all[i] = old[i]
    BY <1>2, <2>1, <2>2
  <2>4. u.rows = all
    BY <1>1 DEF old
  <2> HIDE DEF all
  <2>5. QED
    BY <1>2, <2>2, <2>3, <2>4 DEF old
<1>5. \A r \in DOMAIN u.places : Placed(r, u.places[r], u.rows)
  <2> DEFINE at == Len(t.rows) + 1
  <2>1. places = PlacementsAfterInsertion(t.places, at, Len(paths), 0)
    BY DEF places
  <2>2. /\ at \in 1..Len(t.rows)+1 /\ Len(u.rows) = Len(t.rows) + Len(paths)
        /\ \A i \in 1..at-1 : u.rows[i] = t.rows[i]
        /\ \A i \in at..Len(t.rows) : u.rows[i + Len(paths)] = t.rows[i]
    BY <1>3, <1>4
  <2> HIDE DEF at
  <2>3. \A r \in DOMAIN places : Placed(r, places[r], u.rows)
    <3> DEFINE old == t.rows
               all == u.rows
               was == t.places
               count == Len(paths)
    <3>1. /\ Len(old) \in Nat /\ Len(all) = Len(old) + count /\ count \in Nat
          /\ at \in 1..Len(old)+1
          /\ \A i \in 1..at-1 : all[i] = old[i]
          /\ \A i \in at..Len(old) : all[i + count] = old[i]
          /\ \A r \in DOMAIN was : Placed(r, was[r], old)
      BY <1>2, <1>3, <2>2
    <3>2. places = PlacementsAfterInsertion(was, at, count, 0)
      BY <2>1
    <3> HIDE DEF old, was, count
    <3>3. \A r \in DOMAIN places : Placed(r, places[r], all)
      <4> HIDE DEF all
      <4>1. QED
        BY <3>1, <3>2, InsertionKeepsPlacements
    <3>4. QED
      BY <3>3
  <2>4. QED
    BY <1>1, <2>3
<1>6. SoundTree(u)
  <2>1. u.sel \in Nat /\ u.root \in Navigable
    BY <1>1, <1>3
  <2>2. QED
    BY <1>1, <1>4, <1>5, <2>1, Zenon DEF SoundTree
<1>7. Selects(t) => t.sel \in 1..Len(t.rows)
  BY DEF Selects
<1>8. QED
  BY <1>1, <1>2, <1>3, <1>4, <1>6, <1>7 DEF u

ArrivesBeside(t, u) == Selects(t) => Selects(u) /\ SelectedPath(u) = SelectedPath(t)

LEMMA RootArrivesBeside ==
  ASSUME NEW t, SoundTree(t), NEW paths \in Seq(Node)
  PROVE  ArrivesBeside(t, ExtendRoot(t, paths))
<1> DEFINE u == ExtendRoot(t, paths)
<1>1. SoundTree(u) /\ (Selects(t) => /\ u.sel = t.sel /\ t.sel \in 1..Len(u.rows)
                                     /\ u.rows[t.sel] = t.rows[t.sel])
  BY ExtendRootIsSound
<1> HIDE DEF u
<1>2. SUFFICES ASSUME Selects(t) PROVE Selects(u) /\ SelectedPath(u) = SelectedPath(t)
  BY DEF ArrivesBeside, u
<1>3. Selects(u)
  BY <1>1, <1>2 DEF Selects
<1>4. EffectiveSelection(u) = u.sel /\ EffectiveSelection(t) = t.sel
  BY <1>1, <1>2, <1>3, SelectionInRows
<1>5. QED
  BY <1>1, <1>2, <1>3, <1>4 DEF SelectedPath

LEMMA ClampIsSound ==
  ASSUME NEW t, SoundTree(t)
  PROVE  /\ SoundTree(ClampSelection(t)) /\ ClampSelection(t).root = t.root
         /\ ArrivesBeside(t, ClampSelection(t))
<1> DEFINE u == ClampSelection(t)
<1>1. /\ {"root", "rows", "places", "sel", "status"} \subseteq DOMAIN u
      /\ u.root = t.root /\ u.rows = t.rows /\ u.places = t.places
      /\ u.sel = EffectiveSelection(t)
  BY DEF SoundTree, ClampSelection
<1> HIDE DEF u
<1>2. u.sel \in Nat /\ (Selects(t) => u.sel = t.sel)
  BY <1>1, SelectionInRows
<1>3. SoundTree(u)
  BY <1>1, <1>2 DEF SoundTree
<1>4. ASSUME Selects(t) PROVE Selects(u) /\ SelectedPath(u) = SelectedPath(t)
  <2>1. Selects(u)
    BY <1>1, <1>2, <1>4 DEF Selects
  <2>2. EffectiveSelection(u) = u.sel /\ EffectiveSelection(t) = t.sel
    BY <1>3, <1>4, <2>1, SelectionInRows
  <2>3. QED
    BY <1>1, <1>2, <1>4, <2>1, <2>2 DEF SelectedPath
<1>5. QED
  BY <1>1, <1>3, <1>4 DEF u, ArrivesBeside

LEMMA FinishRootIsSound ==
  ASSUME NEW t, SoundTree(t), NEW status
  PROVE  /\ SoundTree(FinishRoot(t, status)) /\ FinishRoot(t, status).root = t.root
         /\ ArrivesBeside(t, FinishRoot(t, status))
<1> DEFINE u == [t EXCEPT !.status = status]
<1>1. /\ {"root", "rows", "places", "sel", "status"} \subseteq DOMAIN u
      /\ u.root = t.root /\ u.rows = t.rows /\ u.places = t.places /\ u.sel = t.sel
  BY DEF SoundTree
<1>2. FinishRoot(t, status) = ClampSelection(u)
  BY DEF FinishRoot
<1> HIDE DEF u
<1>3. SoundTree(u)
  BY <1>1 DEF SoundTree
<1>4. Selects(t) <=> Selects(u)
  BY <1>1 DEF Selects
<1>5. SelectedPath(t) = SelectedPath(u)
  BY <1>1 DEF SelectedPath, EffectiveSelection
<1>6. QED
  BY <1>1, <1>2, <1>3, <1>4, <1>5, ClampIsSound DEF ArrivesBeside

LEMMA ExtendChildIsSound ==
  ASSUME NEW t, SoundTree(t), NEW r, NEW paths \in Seq(Node)
  PROVE  /\ SoundTree(ExtendChild(t, r, paths)) /\ ExtendChild(t, r, paths).root = t.root
         /\ ArrivesBeside(t, ExtendChild(t, r, paths))
<1>1. CASE r \notin DOMAIN t.places
  BY <1>1 DEF ExtendChild, ArrivesBeside
<1>2. CASE r \in DOMAIN t.places
  <2> DEFINE u == ExtendChild(t, r, paths)
             p == t.places[r]
             new == NewRows(paths, p.depth)
             places == PlacementsAfterInsertion(t.places, p.insertion, Len(paths), p.depth)
             sel == IF t.sel # 0 /\ p.insertion <= t.sel THEN t.sel + Len(paths) ELSE t.sel
  <2>1. /\ {"root", "rows", "places", "sel", "status"} \subseteq DOMAIN u
        /\ u.root = t.root /\ u.rows = Splice(t.rows, p.insertion, new)
        /\ u.places = places /\ u.sel = sel
    BY <1>2 DEF SoundTree, ExtendChild
  <2>2. /\ t.rows \in Seq(Row) /\ Len(t.rows) \in Nat /\ t.sel \in Nat
        /\ t.root \in Navigable /\ \A q \in DOMAIN t.places : Placed(q, t.places[q], t.rows)
    BY DEF SoundTree
  <2>3. p \in Place /\ p.depth \in Nat /\ p.insertion \in 1..Len(t.rows)+1
    BY <1>2, <2>2 DEF Placed, Place
  <2> HIDE DEF u, p
  <2>4. new \in Seq(Row) /\ Len(new) = Len(paths) /\ Len(paths) \in Nat
    BY <2>3, NewRowsAreRows
  <2> HIDE DEF new, places
  <2>5. /\ u.rows \in Seq(Row) /\ Len(u.rows) = Len(t.rows) + Len(paths)
        /\ \A i \in 1..p.insertion-1 : u.rows[i] = t.rows[i]
        /\ \A i \in p.insertion..Len(t.rows) : u.rows[i + Len(paths)] = t.rows[i]
    <3> DEFINE all == Splice(t.rows, p.insertion, new)
    <3>1. /\ all \in Seq(Row) /\ Len(all) = Len(t.rows) + Len(new)
          /\ \A i \in 1..p.insertion-1 : all[i] = t.rows[i]
          /\ \A i \in p.insertion..Len(t.rows) : all[i + Len(new)] = t.rows[i]
      <4> DEFINE old == t.rows
                 at == p.insertion
      <4>1. old \in Seq(Row) /\ at \in 1..Len(old)+1
        BY <2>2, <2>3
      <4> HIDE DEF old, at
      <4>2. /\ Splice(old, at, new) \in Seq(Row)
            /\ Len(Splice(old, at, new)) = Len(old) + Len(new)
            /\ \A i \in 1..at-1 : Splice(old, at, new)[i] = old[i]
            /\ \A i \in at..Len(old) : Splice(old, at, new)[i + Len(new)] = old[i]
        BY <2>4, <4>1, SpliceFacts
      <4>3. QED
        BY <4>2 DEF old, at
    <3>2. u.rows = all /\ Len(new) = Len(paths)
      BY <2>1, <2>4
    <3> HIDE DEF all
    <3>3. QED
      BY <3>1, <3>2
  <2>6. \A q \in DOMAIN u.places : Placed(q, u.places[q], u.rows)
    <3>1. \A q \in DOMAIN places : Placed(q, places[q], u.rows)
      BY <2>2, <2>3, <2>4, <2>5, InsertionKeepsPlacements, Zenon DEF places
    <3>2. QED
      BY <2>1, <3>1
  <2>7. u.sel \in Nat
    BY <2>1, <2>2, <2>4
  <2>8. SoundTree(u)
    BY <2>1, <2>2, <2>5, <2>6, <2>7, Zenon DEF SoundTree
  <2>9. ASSUME Selects(t) PROVE Selects(u) /\ SelectedPath(u) = SelectedPath(t)
    <3>1. t.sel \in 1..Len(t.rows)
      BY <2>9 DEF Selects
    <3>2. u.sel \in 1..Len(u.rows) /\ u.rows[u.sel] = t.rows[t.sel]
      <4>1. CASE p.insertion <= t.sel
        <5>1. u.sel = t.sel + Len(paths) /\ t.sel \in p.insertion..Len(t.rows)
          BY <2>1, <2>2, <2>3, <3>1, <4>1
        <5>2. u.rows[t.sel + Len(paths)] = t.rows[t.sel]
          BY <2>5, <5>1
        <5>3. u.sel \in 1..Len(u.rows)
          <6>1. Len(u.rows) = Len(t.rows) + Len(paths)
            BY <2>5
          <6> HIDE DEF sel
          <6>2. QED
            BY <2>2, <2>4, <3>1, <5>1, <6>1
        <5>4. QED
          BY <5>1, <5>2, <5>3
      <4>2. CASE t.sel < p.insertion
        <5>1. u.sel = t.sel /\ t.sel \in 1..p.insertion-1
          BY <2>1, <2>2, <2>3, <3>1, <4>2
        <5>2. QED
          BY <2>2, <2>4, <2>5, <3>1, <5>1
      <4>3. QED
        BY <2>2, <2>3, <4>1, <4>2
    <3>3. Selects(u)
      BY <3>2 DEF Selects
    <3>4. EffectiveSelection(u) = u.sel /\ EffectiveSelection(t) = t.sel
      BY <2>8, <2>9, <3>3, SelectionInRows
    <3>5. QED
      BY <3>2, <3>3, <3>4 DEF SelectedPath
  <2>10. QED
    BY <2>1, <2>8, <2>9 DEF u, ArrivesBeside
<1>3. QED
  BY <1>1, <1>2

LEMMA FinishChildIsSound ==
  ASSUME NEW t, SoundTree(t), NEW r, NEW exp \in {Expanded, Failed}
  PROVE  /\ SoundTree(FinishChild(t, r, exp)) /\ FinishChild(t, r, exp).root = t.root
         /\ ArrivesBeside(t, FinishChild(t, r, exp))
<1>1. CASE r \notin DOMAIN t.places
  BY <1>1 DEF FinishChild, ArrivesBeside
<1>2. CASE r \in DOMAIN t.places
  <2> DEFINE i == t.places[r].parent
             rows == [t.rows EXCEPT ![i].exp = exp]
             places == Without(t.places, {r})
             u == [t EXCEPT !.rows[i].exp = exp, !.places = places]
  <2>1. /\ {"root", "rows", "places", "sel", "status"} \subseteq DOMAIN u
        /\ u.root = t.root /\ u.rows = rows /\ u.places = places /\ u.sel = t.sel
    BY DEF SoundTree
  <2>2. FinishChild(t, r, exp) = ClampSelection(u)
    BY <1>2 DEF FinishChild
  <2> HIDE DEF u
  <2>3. /\ t.rows \in Seq(Row) /\ Len(t.rows) \in Nat /\ t.sel \in Nat
        /\ t.root \in Navigable /\ \A q \in DOMAIN t.places : Placed(q, t.places[q], t.rows)
    BY DEF SoundTree
  <2>4. /\ rows \in Seq(Row) /\ Len(rows) = Len(t.rows)
        /\ \A j \in 1..Len(t.rows) : rows[j].path = t.rows[j].path
        /\ \A j \in 1..Len(t.rows) : j # i => rows[j] = t.rows[j]
    <3>1. \A j \in 1..Len(t.rows) : t.rows[j] \in Row
      BY <2>3
    <3>2. ASSUME NEW j \in 1..Len(t.rows)
          PROVE  /\ [t.rows[j] EXCEPT !.exp = exp] \in Row
                 /\ [t.rows[j] EXCEPT !.exp = exp].path = t.rows[j].path
      BY <3>1 DEF Row
    <3>3. DOMAIN rows = 1..Len(t.rows)
      BY <2>3
    <3>4. ASSUME NEW j \in 1..Len(t.rows)
          PROVE  rows[j] \in Row /\ rows[j].path = t.rows[j].path /\ (j # i => rows[j] = t.rows[j])
      <4>1. rows[j] = IF j = i THEN [t.rows[j] EXCEPT !.exp = exp] ELSE t.rows[j]
        BY <2>3
      <4>2. QED
        BY <3>1, <3>2, <4>1
    <3>5. rows = [j \in 1..Len(t.rows) |-> rows[j]]
      BY <2>3
    <3> HIDE DEF rows
    <3>6. rows \in [1..Len(t.rows) -> Row]
      BY <3>4, <3>5
    <3>7. rows \in Seq(Row) /\ Len(rows) = Len(t.rows)
      BY <2>3, <3>6
    <3>8. QED
      BY <3>4, <3>7
  <2> HIDE DEF rows
  <2>5. ASSUME NEW q \in DOMAIN places PROVE Placed(q, places[q], rows)
    <3>1. q \in DOMAIN t.places /\ q # r /\ places[q] = t.places[q]
      BY DEF Without
    <3>2. Placed(q, t.places[q], t.rows) /\ Placed(r, t.places[r], t.rows)
      BY <1>2, <2>3, <3>1
    <3> HIDE DEF places
    <3> DEFINE j == t.places[q].parent
    <3>3. j \in 1..Len(t.rows) /\ j # i
      BY <2>3, <3>1, <3>2 DEF Placed, Place
    <3>4. rows[j] = t.rows[j]
      BY <2>4, <3>3
    <3>5. QED
      BY <2>4, <3>1, <3>2, <3>4 DEF Placed
  <2> HIDE DEF i
  <2> HIDE DEF places
  <2>6. SoundTree(u)
    BY <2>1, <2>3, <2>4, <2>5 DEF SoundTree
  <2>7. Selects(t) => Selects(u) /\ SelectedPath(u) = SelectedPath(t)
    <3>1. Selects(t) => t.sel \in 1..Len(t.rows) /\ u.sel \in 1..Len(u.rows)
      BY <2>1, <2>4 DEF Selects
    <3>2. Selects(t) => Selects(u)
      BY <3>1 DEF Selects
    <3>3. Selects(t) => EffectiveSelection(u) = t.sel /\ EffectiveSelection(t) = t.sel
      BY <2>1, <2>6, <3>2, SelectionInRows
    <3>4. QED
      BY <2>1, <2>4, <3>1, <3>2, <3>3 DEF SelectedPath
  <2>8. QED
    BY <2>1, <2>2, <2>6, <2>7, ClampIsSound DEF ArrivesBeside
<1>3. QED
  BY <1>1, <1>2

LEMMA BeginExpansionIsSound ==
  ASSUME NEW t, SoundTree(t), NEW i \in 1..Len(t.rows), t.rows[i].exp # Loading, NEW r \in Nat
  PROVE  /\ SoundTree(BeginExpansion(t, i, r)) /\ BeginExpansion(t, i, r).root = t.root
<1> DEFINE u == BeginExpansion(t, i, r)
           row == [t.rows[i] EXCEPT !.exp = Loading, !.req = r]
           rows == [t.rows EXCEPT ![i] = row]
           place == [parent |-> i, depth |-> t.rows[i].depth + 1, insertion |-> i + 1]
           places == [q \in DOMAIN t.places \cup {r} |-> IF q = r THEN place ELSE t.places[q]]
<1>1. /\ t.rows \in Seq(Row) /\ Len(t.rows) \in Nat /\ t.sel \in Nat
      /\ t.root \in Navigable /\ \A q \in DOMAIN t.places : Placed(q, t.places[q], t.rows)
      /\ {"root", "rows", "places", "sel", "status"} \subseteq DOMAIN t
  BY DEF SoundTree
<1>2. t.rows[i] \in Row
  BY <1>1
<1>3. /\ {"root", "rows", "places", "sel", "status"} \subseteq DOMAIN u
      /\ u.root = t.root /\ u.places = places /\ u.sel = t.sel
  BY <1>1 DEF BeginExpansion
<1>4. u.rows = rows
  <2>1. u.rows = [[t.rows EXCEPT ![i].exp = Loading] EXCEPT ![i].req = r]
    BY <1>1 DEF BeginExpansion
  <2>2. QED
    BY <1>1, <1>2, <2>1
<1>5. row \in Row /\ row.exp = Loading /\ row.req = r
  BY <1>2 DEF Row, Loading
<1> HIDE DEF u, row
<1>6. /\ rows \in Seq(Row) /\ Len(rows) = Len(t.rows)
      /\ \A j \in 1..Len(t.rows) : rows[j] = IF j = i THEN row ELSE t.rows[j]
  BY <1>1, <1>5, ExceptSeq
<1> HIDE DEF rows
<1>7. Placed(r, place, rows)
  <2>1. rows[i] = row /\ t.rows[i].depth \in Nat /\ i \in Nat /\ i >= 1 /\ i <= Len(t.rows)
    BY <1>1, <1>2, <1>6 DEF Row
  <2>2. QED
    BY <1>1, <1>5, <1>6, <2>1 DEF Placed, Place
<1>8. ASSUME NEW q \in DOMAIN places PROVE Placed(q, places[q], rows)
  <2>1. CASE q = r
    BY <1>7, <2>1
  <2>2. CASE q # r
    <3> DEFINE p == t.places[q]
    <3>1. places[q] = p /\ Placed(q, p, t.rows)
      BY <1>1, <2>2
    <3> HIDE DEF p, places
    <3>2. p.parent \in 1..Len(t.rows) /\ p.parent # i
      BY <1>1, <3>1 DEF Placed, Place
    <3>3. rows[p.parent] = t.rows[p.parent]
      BY <1>6, <3>2
    <3>4. QED
      BY <1>6, <3>1, <3>3 DEF Placed
  <2>3. QED
    BY <2>1, <2>2
<1> HIDE DEF place, places
<1>9. QED
  BY <1>1, <1>3, <1>4, <1>6, <1>8 DEF SoundTree, u

(* Placements stay in the rows when a subtree is taken out of them, if none of *)
(* them is of a row in it.                                                     *)
LEMMA RemovalKeepsPlacements ==
  ASSUME NEW rows, NEW new, NEW places, NEW start \in Nat \ {0}, NEW end \in Nat, start <= end,
         Len(rows) \in Nat, end <= Len(rows) + 1, Len(new) = Len(rows) - (end - start),
         \A i \in end..Len(rows) : new[i - (end - start)] = rows[i],
         \A r \in DOMAIN places : Placed(r, places[r], rows),
         \A r \in DOMAIN places : places[r].parent < start =>
            new[places[r].parent] = rows[places[r].parent],
         \A r \in DOMAIN places : places[r].parent < start \/ places[r].parent >= end
  PROVE  LET moved == PlacementsAfterRemoval(places, start, end)
         IN  /\ DOMAIN moved = DOMAIN places
             /\ \A r \in DOMAIN moved : Placed(r, moved[r], new)
<1> DEFINE moved == PlacementsAfterRemoval(places, start, end)
           count == end - start
<1>1. DOMAIN moved = DOMAIN places
  BY DEF PlacementsAfterRemoval
<1>2. ASSUME NEW r \in DOMAIN places PROVE Placed(r, moved[r], new)
  <2> DEFINE p == places[r]
             both == [p EXCEPT !.parent = @ - count, !.insertion = @ - count]
             back == [p EXCEPT !.insertion = @ - count]
             here == [p EXCEPT !.insertion = start]
  <2>1. /\ Placed(r, p, rows) /\ (p.parent < start => new[p.parent] = rows[p.parent])
        /\ p.parent < start \/ p.parent >= end
    OBVIOUS
  <2>2. moved[r] = IF p.parent >= end THEN both
                   ELSE IF p.insertion >= end THEN back
                   ELSE IF p.insertion > start THEN here
                   ELSE p
    BY DEF PlacementsAfterRemoval
  <2> HIDE DEF p, moved
  <2>3. /\ p = [parent |-> p.parent, depth |-> p.depth, insertion |-> p.insertion]
        /\ p.parent \in Nat /\ p.depth \in Nat /\ p.insertion \in Nat /\ count \in Nat
    BY <2>1 DEF Place, Placed
  <2>4. /\ back = [parent |-> p.parent, depth |-> p.depth, insertion |-> p.insertion - count]
        /\ here = [parent |-> p.parent, depth |-> p.depth, insertion |-> start]
    BY <2>3, SMTT(60)
  <2>5. both = [parent |-> p.parent - count, depth |-> p.depth, insertion |-> p.insertion - count]
    <3> DEFINE q == [parent |-> p.parent, depth |-> p.depth, insertion |-> p.insertion]
    <3>1. both = [q EXCEPT !.parent = p.parent - count, !.insertion = p.insertion - count]
      BY <2>3
    <3> HIDE DEF both
    <3>2. QED
      BY <3>1
  <2> HIDE DEF both, back, here
  <2>6. CASE p.parent >= end
    <3>1. p.parent \in end..Len(rows) /\ p.parent - count >= 1
      BY <2>1, <2>3, <2>6 DEF Placed
    <3>2. new[p.parent - count] = rows[p.parent]
      BY <3>1
    <3>3. p.parent - count \in Nat /\ p.insertion - count \in Nat
      <4>1. p.parent < p.insertion
        BY <2>1 DEF Placed
      <4>2. QED
        BY <2>3, <3>1, <4>1
    <3>4. /\ both \in Place /\ both.parent = p.parent - count
          /\ both.insertion = p.insertion - count /\ moved[r] = both
      BY <2>2, <2>3, <2>5, <2>6, <3>3 DEF Place
    <3>5. /\ both.parent >= 1 /\ both.parent < both.insertion
          /\ both.insertion <= Len(new) + 1
      BY <2>1, <2>3, <3>1, <3>4, SMTT(60) DEF Placed
    <3>6. new[both.parent] = rows[p.parent]
      BY <3>2, <3>4
    <3>7. QED
      BY <2>1, <3>4, <3>5, <3>6 DEF Placed
  <2>7. CASE p.parent < start /\ p.insertion >= end
    <3>1. p.insertion - count \in Nat /\ moved[r] = back
      BY <2>2, <2>3, <2>7
    <3>2. back \in Place /\ back.parent = p.parent /\ back.insertion = p.insertion - count
      BY <2>3, <2>4, <3>1 DEF Place
    <3>3. QED
      BY <2>1, <2>3, <2>7, <3>1, <3>2, SMTT(60) DEF Placed
  <2>8. CASE p.parent < start /\ p.insertion < end /\ p.insertion > start
    <3>1. moved[r] = here
      BY <2>2, <2>3, <2>8
    <3>2. here \in Place /\ here.parent = p.parent /\ here.insertion = start
      BY <2>3, <2>4 DEF Place
    <3>3. QED
      BY <2>1, <2>3, <2>8, <3>1, <3>2 DEF Placed
  <2>9. CASE p.parent < start /\ p.insertion < end /\ p.insertion <= start
    <3>1. moved[r] = p
      BY <2>2, <2>3, <2>9
    <3>2. QED
      BY <2>1, <2>3, <2>9, <3>1 DEF Placed
  <2>10. QED
    BY <2>1, <2>3, <2>6, <2>7, <2>8, <2>9
<1>3. QED
  BY <1>1, <1>2

LEMMA CollapseIsSound ==
  ASSUME NEW t, SoundTree(t), NEW i \in 1..Len(t.rows)
  PROVE  SoundTree(Collapse(t, i)) /\ Collapse(t, i).root = t.root
<1> DEFINE u == Collapse(t, i)
           end == SubtreeEnd(t, i)
           head == SubSeq(t.rows, 1, i)
           row == [t.rows[i] EXCEPT !.exp = Collapsed, !.req = 0]
           shut == [head EXCEPT ![i] = row]
           rest == SubSeq(t.rows, end, Len(t.rows))
           kept == Without(t.places, Dropped(t, i))
           places == PlacementsAfterRemoval(kept, i + 1, end)
<1>1. /\ t.rows \in Seq(Row) /\ Len(t.rows) \in Nat /\ t.sel \in Nat
      /\ t.root \in Navigable /\ \A q \in DOMAIN t.places : Placed(q, t.places[q], t.rows)
      /\ {"root", "rows", "places", "sel", "status"} \subseteq DOMAIN t
      /\ i \in Nat /\ i >= 1 /\ i <= Len(t.rows)
  BY DEF SoundTree
<1>2. end \in i+1..Len(t.rows)+1
  BY SubtreeEndInRows
<1>3. t.rows[i] \in Row
  BY <1>1
<1>4. head \in Seq(Row) /\ Len(head) = i /\ \A j \in 1..i : head[j] = t.rows[j]
  BY <1>1
<1>5. /\ {"root", "rows", "places", "sel", "status"} \subseteq DOMAIN u
      /\ u.root = t.root /\ u.places = places /\ u.sel = i
      /\ u.rows = [head EXCEPT ![i].exp = Collapsed, ![i].req = 0] \o rest
  BY <1>1 DEF Collapse
<1> HIDE DEF u, end, head
<1>6. row \in Row
  BY <1>3 DEF Row, Collapsed
<1>7. [head EXCEPT ![i].exp = Collapsed, ![i].req = 0] = shut
  <2>1. head[i] \in Row /\ DOMAIN head = 1..i /\ head[i] = t.rows[i]
    BY <1>1, <1>3, <1>4
  <2>2. [head EXCEPT ![i].exp = Collapsed, ![i].req = 0]
          = [[head EXCEPT ![i].exp = Collapsed] EXCEPT ![i].req = 0]
    OBVIOUS
  <2>3. QED
    BY <1>1, <1>4, <2>1, <2>2
<1> HIDE DEF row
<1>8. shut \in Seq(Row) /\ Len(shut) = i /\ \A j \in 1..i : j # i => shut[j] = t.rows[j]
  BY <1>1, <1>4, <1>6, ExceptSeq
<1>9. /\ rest \in Seq(Row) /\ Len(rest) = Len(t.rows) + 1 - end
      /\ \A j \in 1..Len(t.rows)+1-end : rest[j] = t.rows[end + j - 1]
  BY <1>1, <1>2
<1> HIDE DEF shut, rest
<1> DEFINE all == shut \o rest
<1>10. /\ all \in Seq(Row) /\ Len(all) = Len(shut) + Len(rest)
       /\ \A j \in 1..Len(shut) + Len(rest) :
            all[j] = IF j <= Len(shut) THEN shut[j] ELSE rest[j - Len(shut)]
  BY <1>8, <1>9, ConcatProperties
<1>11. u.rows = all
  BY <1>5, <1>7
<1> HIDE DEF all
<1>12. Len(all) = Len(t.rows) - (end - (i + 1))
  BY <1>1, <1>2, <1>8, <1>9, <1>10
<1>13. ASSUME NEW j \in end..Len(t.rows) PROVE all[j - (end - (i + 1))] = t.rows[j]
  <2> DEFINE k == j - end + 1
  <2>1. /\ k \in 1..Len(t.rows)+1-end /\ end + k - 1 = j
        /\ j - (end - (i + 1)) = i + k /\ i + k \in 1..Len(shut) + Len(rest)
        /\ ~(i + k <= Len(shut)) /\ i + k - Len(shut) = k
    BY <1>1, <1>2, <1>8, <1>9
  <2> HIDE DEF k
  <2>2. all[i + k] = rest[k] /\ rest[k] = t.rows[j]
    BY <1>9, <1>10, <2>1, SMTT(60)
  <2>3. QED
    BY <2>1, <2>2
<1>14. \A j \in 1..i : j # i => all[j] = t.rows[j]
  BY <1>1, <1>8, <1>9, <1>10
<1>15. ASSUME NEW q \in DOMAIN kept
       PROVE  /\ Placed(q, kept[q], t.rows)
              /\ kept[q].parent < i + 1 \/ kept[q].parent >= end
              /\ kept[q].parent < i + 1 => all[kept[q].parent] = t.rows[kept[q].parent]
  <2> DEFINE p == kept[q]
  <2>1. q \in DOMAIN t.places /\ q \notin Dropped(t, i) /\ p = t.places[q]
    BY DEF Without
  <2>2. Placed(q, p, t.rows)
    BY <1>1, <2>1
  <2> HIDE DEF p, kept
  <2>3. p.parent \in Nat /\ p.parent >= 1 /\ p.parent <= Len(t.rows) /\ t.rows[p.parent].req = q
    BY <1>1, <2>2 DEF Placed, Place
  <2>4. p.parent \notin i..end-1
    BY <2>1, <2>3 DEF Dropped, end
  <2>5. p.parent < i \/ p.parent >= end
    BY <1>1, <1>2, <2>3, <2>4
  <2>6. p.parent < i => all[p.parent] = t.rows[p.parent]
    BY <1>1, <1>14, <2>3
  <2>7. QED
    BY <1>1, <1>2, <2>2, <2>3, <2>5, <2>6 DEF p
<1> HIDE DEF kept
<1> DEFINE start == i + 1
<1>16. \A q \in DOMAIN places : Placed(q, places[q], all)
  <2>1. /\ start \in Nat \ {0} /\ end \in Nat /\ start <= end /\ end <= Len(t.rows) + 1
        /\ Len(all) = Len(t.rows) - (end - start)
        /\ \A j \in end..Len(t.rows) : all[j - (end - start)] = t.rows[j]
        /\ places = PlacementsAfterRemoval(kept, start, end)
    BY <1>1, <1>2, <1>12, <1>13
  <2>2. \A q \in DOMAIN kept :
          /\ Placed(q, kept[q], t.rows)
          /\ kept[q].parent < start => all[kept[q].parent] = t.rows[kept[q].parent]
          /\ kept[q].parent < start \/ kept[q].parent >= end
    BY <1>15
  <2> HIDE DEF start, places
  <2> DEFINE old == t.rows
             moved == PlacementsAfterRemoval(kept, start, end)
  <2>3. Len(old) \in Nat
    BY <1>1
  <2> HIDE DEF old
  <2>4. /\ start \in Nat \ {0} /\ end \in Nat /\ start <= end /\ end <= Len(old) + 1
        /\ Len(all) = Len(old) - (end - start)
        /\ \A j \in end..Len(old) : all[j - (end - start)] = old[j]
    BY <2>1 DEF old
  <2>5. \A q \in DOMAIN kept :
          /\ Placed(q, kept[q], old)
          /\ kept[q].parent < start => all[kept[q].parent] = old[kept[q].parent]
          /\ kept[q].parent < start \/ kept[q].parent >= end
    BY <2>2 DEF old
  <2>6. \A q \in DOMAIN moved : Placed(q, moved[q], all)
    BY <2>3, <2>4, <2>5, RemovalKeepsPlacements, ZenonT(60)
  <2>7. QED
    BY <2>1, <2>6
<1> HIDE DEF places
<1>17. QED
  BY <1>1, <1>5, <1>10, <1>11, <1>16 DEF SoundTree, u

-----------------------------------------------------------------------------
(* The tab *)

IsSequence(s) == \E S : s \in Seq(S)

SoundTask(task) == task \in [path : Navigable, left : Seq(Node), sent : BOOLEAN, done : BOOLEAN]

SoundTasks(ts) == DOMAIN ts \subseteq Nat /\ \A r \in DOMAIN ts : SoundTask(ts[r])

SoundFilter(f) ==
  /\ {"open", "query", "filled", "descents", "restore"} \subseteq DOMAIN f
  /\ IsSequence(f.descents)

SoundTab(b) ==
  /\ {"tree", "filter", "tasks", "requests"} \subseteq DOMAIN b
  /\ SoundTree(b.tree) /\ SoundFilter(b.filter) /\ b.requests \in Nat
  /\ DOMAIN b.tasks \subseteq Nat /\ \A r \in DOMAIN b.tasks : SoundTask(b.tasks[r])

Event == [generation : Nat, target : Nat, kind : {"entries", "finished", "failed"},
          paths : Seq(Node)]

Sound == SoundTab(Tab) /\ generation \in Nat /\ channel \in Seq(Event)

LEMMA ListingIsSound ==
  ASSUME NEW path \in Navigable
  PROVE  SoundTask(Listing(path))
BY BrowserAssumption DEF SoundTask, Listing

LEMMA SequencesAre ==
  /\ IsSequence(<<>>)
  /\ \A s, e : IsSequence(s) => IsSequence(Append(s, e))
  /\ \A s : IsSequence(s) /\ s # <<>> => IsSequence(Front(s))
<1>1. IsSequence(<<>>)
  BY EmptySeq DEF IsSequence
<1>2. ASSUME NEW s, NEW e, IsSequence(s) PROVE IsSequence(Append(s, e))
  <2>1. PICK S : s \in Seq(S)
    BY <1>2 DEF IsSequence
  <2>2. s \in Seq(S \cup {e})
    BY <2>1, SeqMonotonic
  <2>3. Append(s, e) \in Seq(S \cup {e})
    BY <2>2, AppendProperties
  <2>4. QED
    BY <2>3 DEF IsSequence
<1>3. ASSUME NEW s, IsSequence(s), s # <<>> PROVE IsSequence(Front(s))
  <2>1. PICK S : s \in Seq(S)
    BY <1>3 DEF IsSequence
  <2>2. SubSeq(s, 1, Len(s) - 1) \in Seq(S)
    BY <2>1
  <2>3. QED
    BY <2>2 DEF Front, IsSequence
<1>4. QED
  BY <1>1, <1>2, <1>3

LEMMA SelectIsSound ==
  ASSUME NEW b, SoundTab(b), NEW row \in Nat
  PROVE  SoundTab([b EXCEPT !.tree.sel = row])
<1> DEFINE t == [b.tree EXCEPT !.sel = row]
           c == [b EXCEPT !.tree = t]
<1>1. SoundTree(t)
  BY DEF SoundTab, SoundTree
<1>2. c = [b EXCEPT !.tree.sel = row]
  OBVIOUS
<1> HIDE DEF t
<1>3. SoundTab(c)
  BY <1>1 DEF SoundTab
<1>4. QED
  BY <1>2, <1>3

LEMMA StartDirectoryListingIsSound ==
  ASSUME NEW b, SoundTab(b), NEW i \in 1..Len(b.tree.rows),
         b.tree.rows[i].path \in Navigable, b.tree.rows[i].exp # Loading
  PROVE  SoundTab(StartDirectoryListing(b, i))
<1> DEFINE r == b.requests + 1
           t == BeginExpansion(b.tree, i, r)
           started == [q \in DOMAIN b.tasks \cup {r} |->
                        IF q = r THEN Listing(b.tree.rows[i].path) ELSE b.tasks[q]]
           c == StartDirectoryListing(b, i)
<1>1. r \in Nat /\ SoundTree(b.tree)
  BY DEF SoundTab
<1>2. /\ {"tree", "filter", "tasks", "requests"} \subseteq DOMAIN c
      /\ c.tree = t /\ c.filter = b.filter /\ c.tasks = started /\ c.requests = r
  BY DEF SoundTab, StartDirectoryListing
<1> HIDE DEF c
<1>3. SoundTree(t)
  BY <1>1, BeginExpansionIsSound
<1>4. SoundTask(Listing(b.tree.rows[i].path))
  BY ListingIsSound
<1> HIDE DEF t
<1>5. DOMAIN started \subseteq Nat /\ \A q \in DOMAIN started : SoundTask(started[q])
  BY <1>1, <1>4 DEF SoundTab
<1> HIDE DEF started, r
<1>6. QED
  BY <1>1, <1>2, <1>3, <1>5 DEF SoundTab, c

LEMMA CollapseDirectoryIsSound ==
  ASSUME NEW b, SoundTab(b), NEW i \in 1..Len(b.tree.rows)
  PROVE  SoundTab(CollapseDirectory(b, i)) /\ CollapseDirectory(b, i).filter = b.filter
<1> DEFINE c == CollapseDirectory(b, i)
           left == Without(b.tasks, Dropped(b.tree, i))
<1>1. /\ {"tree", "filter", "tasks", "requests"} \subseteq DOMAIN c
      /\ c.tree = Collapse(b.tree, i) /\ c.filter = b.filter
      /\ c.tasks = left /\ c.requests = b.requests
  BY DEF SoundTab, CollapseDirectory
<1> HIDE DEF c
<1>2. SoundTree(c.tree)
  BY <1>1, CollapseIsSound DEF SoundTab
<1>3. DOMAIN left \subseteq Nat /\ \A q \in DOMAIN left : SoundTask(left[q])
  BY DEF SoundTab, Without
<1> HIDE DEF left
<1>4. QED
  BY <1>1, <1>2, <1>3 DEF SoundTab, c

LEMMA CloseDescentIsSound ==
  ASSUME NEW b, SoundTab(b), NEW descent
  PROVE  SoundTab(CloseDescent(b, descent)) /\ CloseDescent(b, descent).filter = b.filter
<1> DEFINE at == {i \in 1..Len(b.tree.rows) : b.tree.rows[i].path = descent.path}
<1>1. CASE descent.opened /\ at # {}
  <2>1. at \in SUBSET Nat
    OBVIOUS
  <2>2. Min(at) \in at
    BY <1>1, <2>1, MinIsIn
  <2>3. Min(at) \in 1..Len(b.tree.rows)
    BY <2>2
  <2>4. CloseDescent(b, descent) = CollapseDirectory(b, Min(at))
    BY <1>1 DEF CloseDescent
  <2> HIDE DEF at
  <2>5. QED
    BY <2>3, <2>4, CollapseDirectoryIsSound
<1>2. CASE ~(descent.opened /\ at # {})
  <2>1. CloseDescent(b, descent) = b
    BY <1>2 DEF CloseDescent
  <2>2. QED
    BY <2>1
<1>3. QED
  BY <1>1, <1>2

(* The recursion over the directories stepped into is defined, and each step of *)
(* it is a sound tab: a least one that is not would have no predecessor.        *)
LEMMA CloseDescentsIsSound ==
  ASSUME NEW b, SoundTab(b)
  PROVE  SoundTab(CloseDescents(b))
<1> DEFINE descents == b.filter.descents
           n == Len(descents)
           Next1(c, k) == CloseDescent(c, descents[n + 1 - k])
           Closes(f, m) == f = [k \in 0..m |-> IF k = 0 THEN b ELSE Next1(f[k - 1], k)]
           closed == CHOOSE f : Closes(f, n)
<1>1. n \in Nat
  BY DEF SoundTab, SoundFilter, IsSequence
<1>2. CloseDescents(b) = closed[n]
  BY DEF CloseDescents
<1> HIDE DEF n, Next1
<1>3. \E f : Closes(f, n)
  <2> DEFINE T == {m \in Nat : ~ \E f : Closes(f, m)}
  <2>1. SUFFICES ASSUME T # {} PROVE FALSE
    BY <1>1
  <2>2. T \in SUBSET Nat
    OBVIOUS
  <2>3. PICK m \in T : \A k \in T : m <= k
    BY <2>1, <2>2, LeastIn
  <2>4. CASE m = 0
    <3> DEFINE f == [k \in 0..0 |-> b]
    <3>1. Closes(f, 0)
      OBVIOUS
    <3>2. QED
      BY <2>3, <2>4, <3>1
  <2>5. CASE m # 0
    <3>1. m \in Nat /\ m - 1 \in Nat /\ m - 1 \notin T
      <4>1. m \in Nat /\ m - 1 \in Nat /\ ~(m <= m - 1)
        BY <2>2, <2>3, <2>5
      <4> HIDE DEF T
      <4>2. QED
        BY <2>3, <4>1
    <3>2. PICK g : Closes(g, m - 1)
      BY <3>1
    <3> DEFINE f == [k \in 0..m |-> IF k = m THEN Next1(g[m - 1], m) ELSE g[k]]
    <3>3. ASSUME NEW k \in 0..m PROVE f[k] = IF k = 0 THEN b ELSE Next1(f[k - 1], k)
      <4>1. CASE k = m
        <5>1. f[k] = Next1(g[m - 1], m) /\ f[k - 1] = g[m - 1]
          BY <2>5, <3>1, <4>1
        <5>2. QED
          BY <2>5, <4>1, <5>1
      <4>2. CASE k # m
        <5>1. k \in 0..m-1
          BY <3>1, <4>2
        <5>2. g[k] = IF k = 0 THEN b ELSE Next1(g[k - 1], k)
          BY <3>2, <5>1
        <5>3. f[k] = g[k] /\ (k # 0 => f[k - 1] = g[k - 1])
          BY <3>1, <4>2, <5>1
        <5>4. QED
          BY <5>2, <5>3
      <4>3. QED
        BY <4>1, <4>2
    <3>4. f = [k \in 0..m |-> f[k]]
      OBVIOUS
    <3> HIDE DEF f
    <3>5. Closes(f, m)
      BY <3>3, <3>4
    <3>6. QED
      BY <2>3, <3>5
  <2>6. QED
    BY <2>4, <2>5
<1>4. Closes(closed, n)
  BY <1>3
<1> HIDE DEF closed
<1>5. \A k \in 0..n : closed[k] = IF k = 0 THEN b ELSE Next1(closed[k - 1], k)
  BY <1>4
<1> HIDE DEF Closes
<1>6. \A k \in 0..n : SoundTab(closed[k])
  <2> DEFINE T == {k \in 0..n : ~SoundTab(closed[k])}
  <2>1. SUFFICES ASSUME T # {} PROVE FALSE
    OBVIOUS
  <2>2. T \in SUBSET Nat
    BY <1>1
  <2>3. PICK k \in T : \A j \in T : k <= j
    BY <2>1, <2>2, LeastIn
  <2>4. k # 0
    BY <1>1, <1>5, <2>3
  <2>5. k \in 0..n /\ k - 1 \in 0..n /\ k - 1 \notin T
    BY <1>1, <2>3, <2>4
  <2>6. SoundTab(closed[k - 1])
    BY <2>5
  <2>7. closed[k] = CloseDescent(closed[k - 1], descents[n + 1 - k])
    BY <1>5, <2>4, <2>5 DEF Next1
  <2>8. SoundTab(closed[k])
    BY <2>6, <2>7, CloseDescentIsSound
  <2>9. QED
    BY <2>3, <2>8
<1>7. QED
  BY <1>1, <1>2, <1>6

LEMMA CloseIsSound ==
  ASSUME NEW b, SoundTab(b)
  PROVE  SoundTab(Close(b))
<1>1. SoundFilter(NoFilter)
  BY SequencesAre DEF SoundFilter, NoFilter, NewFilter
<1>2. QED
  BY <1>1 DEF SoundTab, Close

LEMMA AbandonIsSound ==
  ASSUME NEW b, SoundTab(b)
  PROVE  SoundTab(AbandonFilter(b))
<1> DEFINE closed == CloseDescents(b)
           at == {i \in 1..Len(closed.tree.rows) : closed.tree.rows[i].path = b.filter.restore}
           row == IF at = {} THEN 0 ELSE Min(at)
<1>1. SoundTab(closed)
  BY CloseDescentsIsSound
<1>2. AbandonFilter(b) = Close([closed EXCEPT !.tree.sel = row])
  BY DEF AbandonFilter
<1>3. row \in Nat
  <2>1. at \in SUBSET Nat
    OBVIOUS
  <2> HIDE DEF at
  <2>2. QED
    BY <2>1, MinIsIn
<1> HIDE DEF closed, row
<1>4. QED
  BY <1>1, <1>2, <1>3, SelectIsSound, CloseIsSound

-----------------------------------------------------------------------------
(* The rows on screen *)

LEMMA WindowInRows ==
  ASSUME NEW t, Len(t.rows) \in Nat, NEW query, NEW scope
  PROVE  /\ Window(t, query, scope).shown \in SUBSET (1..Len(t.rows))
         /\ Window(t, query, scope).matched \in SUBSET (1..Len(t.rows))
<1> DEFINE hits == Hits(t, query, scope)
           base == hits \cup Entered(t, scope)
<1>1. hits \in SUBSET (1..Len(t.rows)) /\ base \in SUBSET (1..Len(t.rows))
  BY DEF Hits, Entered
<1> HIDE DEF hits
<1>2. \A i \in base : AncestorsOf(t, i) \in SUBSET (1..Len(t.rows))
  BY <1>1 DEF AncestorsOf
<1> HIDE DEF base
<1>3. base \cup UNION {AncestorsOf(t, i) : i \in base} \in SUBSET (1..Len(t.rows))
  BY <1>1, <1>2
<1>4. QED
  BY <1>1, <1>3 DEF Window, hits, base

(* There is a k-th of some rows. *)
LEMMA RankHasRow ==
  ASSUME NEW n \in Nat, NEW S \in SUBSET (1..n), NEW k \in 1..Cardinality(S)
  PROVE  \E i \in S : Cardinality({j \in S : j < i}) = k - 1
<1> DEFINE Upto(m) == {j \in S : j <= m}
           T == {m \in 0..n : Cardinality(Upto(m)) >= k}
<1>1. IsFiniteSet(S)
  <2>1. IsFiniteSet(1..n)
    BY FS_Interval
  <2>2. QED
    BY <2>1, FS_Subset
<1>2. \A m \in 0..n : IsFiniteSet(Upto(m)) /\ Cardinality(Upto(m)) \in Nat
  BY <1>1, FS_Subset, FS_CardinalityType
<1>3. /\ n \in Nat
      /\ \A j \in S : j \in Nat /\ 1 <= j /\ j <= n
      /\ \A m : Upto(m) = {j \in S : j <= m}
      /\ \A m \in 0..n : m \in T <=> Cardinality(Upto(m)) >= k
      /\ T \subseteq 0..n
  <2>1. \A j \in S : j \in Nat /\ 1 <= j /\ j <= n
    OBVIOUS
  <2>2. \A m : Upto(m) = {j \in S : j <= m}
    OBVIOUS
  <2> HIDE DEF Upto
  <2>3. T \subseteq 0..n /\ \A m \in 0..n : m \in T <=> Cardinality(Upto(m)) >= k
    OBVIOUS
  <2> HIDE DEF T
  <2>4. QED
    BY <2>1, <2>2, <2>3
<1> HIDE DEF Upto, T
<1>4. k \in Nat /\ k >= 1 /\ k <= Cardinality(S)
  BY <1>1, FS_CardinalityType
<1>5. Upto(n) = S
  BY <1>3
<1>6. Upto(0) = {}
  <2>1. \A j \in S : ~(j <= 0)
    BY <1>3
  <2>2. QED
    BY <1>3, <2>1
<1>7. n \in T /\ T \in SUBSET Nat
  BY <1>3, <1>4, <1>5
<1>8. PICK m \in T : \A j \in T : m <= j
  BY <1>7, LeastIn
<1>9. m \in 0..n /\ m \in Nat /\ Cardinality(Upto(m)) >= k
  BY <1>3, <1>8
<1>10. m # 0
  BY <1>4, <1>6, <1>9, FS_EmptySet
<1>11. m - 1 \in 0..n /\ m - 1 \notin T
  BY <1>3, <1>7, <1>8, <1>9, <1>10
<1>12. Cardinality(Upto(m - 1)) < k
  BY <1>2, <1>3, <1>4, <1>11
<1>13. \A j \in S : j <= m <=> j <= m - 1 \/ j = m
  BY <1>3, <1>9
<1>14. m \in S
  <2>1. SUFFICES ASSUME m \notin S PROVE FALSE
    OBVIOUS
  <2>2. Upto(m) = Upto(m - 1)
    BY <1>3, <1>13, <2>1
  <2>3. Cardinality(Upto(m)) = Cardinality(Upto(m - 1))
    BY <2>2
  <2>4. QED
    BY <1>2, <1>4, <1>9, <1>11, <1>12, <2>3
<1>15. Upto(m) = Upto(m - 1) \cup {m}
  BY <1>3, <1>13, <1>14
<1>16. m \notin Upto(m - 1)
  BY <1>3, <1>9
<1>17. {j \in S : j < m} = Upto(m - 1)
  <2>1. \A j \in S : j < m <=> j <= m - 1
    BY <1>3, <1>9
  <2>2. QED
    BY <1>3, <2>1
<1>18. Cardinality(Upto(m)) = Cardinality(Upto(m - 1)) + 1
  BY <1>2, <1>11, <1>15, <1>16, FS_AddElement
<1>19. Cardinality(Upto(m - 1)) = k - 1
  BY <1>2, <1>4, <1>9, <1>11, <1>12, <1>18
<1>20. QED
  BY <1>14, <1>17, <1>19

LEMMA RowAtIsShown ==
  ASSUME NEW n \in Nat, NEW w, w.shown \in SUBSET (1..n), NEW k \in 1..Cardinality(w.shown)
  PROVE  RowAt(w, k) \in w.shown
<1>1. \E i \in w.shown : Cardinality({j \in w.shown : j < i}) = k - 1
  BY RankHasRow
<1>2. QED
  BY <1>1 DEF RowAt

LEMMA PositionOnScreen ==
  ASSUME NEW n \in Nat, NEW w, w.shown \in SUBSET (1..n), w.shown # {}, NEW row
  PROVE  /\ PositionOf(w, row) \in 1..Cardinality(w.shown)
         /\ Cardinality(w.shown) \in Nat
<1> DEFINE above == {i \in w.shown : i < row}
<1>1. IsFiniteSet(w.shown)
  <2>1. IsFiniteSet(1..n)
    BY FS_Interval
  <2>2. QED
    BY <2>1, FS_Subset
<1>2. Cardinality(w.shown) \in Nat /\ Cardinality(w.shown) # 0
  BY <1>1, FS_CardinalityType, FS_EmptySet
<1>3. Cardinality(above) \in Nat
  <2>1. above \subseteq w.shown
    OBVIOUS
  <2> HIDE DEF above
  <2>2. QED
    BY <1>1, <2>1, FS_Subset, FS_CardinalityType
<1>4. PositionOf(w, row) = Least(Cardinality(above) + 1, Cardinality(w.shown))
  BY DEF PositionOf
<1> HIDE DEF above
<1>5. QED
  BY <1>2, <1>3, <1>4 DEF Least

LEMMA FilterIsSound ==
  ASSUME NEW b, SoundTab(b), NEW f, SoundFilter(f)
  PROVE  SoundTab([b EXCEPT !.filter = f])
BY DEF SoundTab

LEMMA FillIsSound ==
  ASSUME NEW b, SoundTab(b)
  PROVE  SoundTab(FillFromSelection(b))
<1> DEFINE f == [b.filter EXCEPT !.filled = Candidate(b)]
<1>1. SoundFilter(f)
  BY DEF SoundTab, SoundFilter
<1>2. FillFromSelection(b) = IF b.filter.open THEN [b EXCEPT !.filter = f] ELSE b
  BY DEF FillFromSelection
<1> HIDE DEF f
<1>3. QED
  BY <1>1, <1>2, FilterIsSound

LEMMA MoveByIsSound ==
  ASSUME NEW b, SoundTab(b), NEW distance \in Int
  PROVE  SoundTab(MoveBy(b, distance))
<1> DEFINE w == WindowOf(b)
           n == Len(b.tree.rows)
           at == PositionOf(w, EffectiveSelection(b.tree)) + distance
           last == Cardinality(w.shown)
           line == IF at < 1 THEN 1 ELSE Least(at, last)
           to == RowAt(w, line)
<1>1. n \in Nat
  BY DEF SoundTab, SoundTree
<1>2. MoveBy(b, distance) =
        IF w.shown = {} THEN b ELSE FillFromSelection([b EXCEPT !.tree.sel = to])
  BY DEF MoveBy
<1>3. w.shown \in SUBSET (1..n)
  BY <1>1, WindowInRows DEF WindowOf
<1>4. CASE w.shown # {}
  <2> HIDE DEF w, n
  <2>1. PositionOf(w, EffectiveSelection(b.tree)) \in 1..last /\ last \in Nat
    BY <1>1, <1>3, <1>4, PositionOnScreen
  <2> HIDE DEF last
  <2>2. line \in 1..last
    BY <2>1 DEF Least
  <2> HIDE DEF line
  <2>3. to \in w.shown
    BY <1>1, <1>3, <2>2, RowAtIsShown DEF last
  <2> HIDE DEF to
  <2>4. to \in Nat
    BY <1>1, <1>3, <2>3
  <2>5. SoundTab([b EXCEPT !.tree.sel = to])
    BY <2>4, SelectIsSound
  <2>6. QED
    BY <1>2, <1>4, <2>5, FillIsSound
<1>5. QED
  BY <1>2, <1>4

LEMMA FollowIsSound ==
  ASSUME NEW b, SoundTab(b)
  PROVE  SoundTab(FollowFilter(b))
<1> DEFINE w == WindowOf(b)
           n == Len(b.tree.rows)
           row == IF b.tree.sel = 0 THEN 1 ELSE b.tree.sel
           to == MatchFrom(w, row)
<1>1. n \in Nat
  BY DEF SoundTab, SoundTree
<1>2. FollowFilter(b) = IF w.matched = {} THEN b ELSE [b EXCEPT !.tree.sel = to]
  BY DEF FollowFilter
<1>3. w.matched \in SUBSET (1..n)
  BY <1>1, WindowInRows DEF WindowOf
<1>4. CASE w.matched # {}
  <2> HIDE DEF w, n, row
  <2> DEFINE after == {i \in w.matched : i >= row}
  <2>1. after \in SUBSET Nat /\ after \subseteq w.matched
    BY <1>1, <1>3
  <2>2. w.matched \in SUBSET (0..n)
    BY <1>1, <1>3
  <2>3. to = IF after # {} THEN Min(after) ELSE Max(w.matched)
    BY DEF MatchFrom
  <2> HIDE DEF after, to
  <2>4. to \in w.matched
    BY <1>1, <1>4, <2>1, <2>2, <2>3, MinIsIn, MaxIsIn
  <2>5. to \in Nat
    BY <1>1, <2>2, <2>4
  <2>6. QED
    BY <1>2, <1>4, <2>5, SelectIsSound
<1>5. QED
  BY <1>2, <1>4

LEMMA AdoptIsSound ==
  ASSUME NEW b, SoundTab(b)
  PROVE  SoundTab(AdoptFilled(b)) /\ AdoptFilled(b).tree = b.tree
<1> DEFINE f == [b.filter EXCEPT !.query = Displayed(b.filter), !.filled = NoText]
<1>1. SoundFilter(f)
  BY DEF SoundTab, SoundFilter
<1>2. AdoptFilled(b) = [b EXCEPT !.filter = f]
  BY DEF AdoptFilled
<1> HIDE DEF f
<1>3. QED
  BY <1>1, <1>2, FilterIsSound DEF SoundTab

(* A query that is typed or cut leaves the rest of the tab. *)
LEMMA QueryIsSound ==
  ASSUME NEW b, SoundTab(b), NEW query, NEW filled
  PROVE  /\ SoundTab([b EXCEPT !.filter.query = query])
         /\ SoundTab([b EXCEPT !.filter.query = query, !.filter.filled = filled])
<1> DEFINE f == [b.filter EXCEPT !.query = query]
           g == [b.filter EXCEPT !.query = query, !.filled = filled]
<1>1. SoundFilter(f) /\ SoundFilter(g)
  BY DEF SoundTab, SoundFilter
<1>2. /\ [b EXCEPT !.filter.query = query] = [b EXCEPT !.filter = f]
      /\ [b EXCEPT !.filter.query = query, !.filter.filled = filled] = [b EXCEPT !.filter = g]
  OBVIOUS
<1> HIDE DEF f, g
<1>3. QED
  BY <1>1, <1>2, FilterIsSound

LEMMA AscendIsSound ==
  ASSUME NEW b, SoundTab(b), b.filter.descents # <<>>
  PROVE  SoundTab(AscendFilter(b))
<1> DEFINE descent == Last(b.filter.descents)
           f == [b.filter EXCEPT !.descents = Front(@), !.query = descent.query]
           stepped == [b EXCEPT !.filter = f]
<1>1. SoundFilter(f)
  BY SequencesAre DEF SoundTab, SoundFilter
<1>2. AscendFilter(b) = FollowFilter(CloseDescent(stepped, descent))
  BY DEF AscendFilter
<1> HIDE DEF f, descent
<1>3. SoundTab(stepped)
  BY <1>1, FilterIsSound
<1> HIDE DEF stepped
<1>4. QED
  BY <1>2, <1>3, CloseDescentIsSound, FollowIsSound

-----------------------------------------------------------------------------
(* The steps *)

LEMMA TabFields ==
  /\ Tab.tree = tree /\ Tab.filter = filter /\ Tab.tasks = tasks /\ Tab.requests = requests
  /\ DOMAIN Tab = {"tree", "filter", "tasks", "requests"}
BY DEF Tab

LEMMA BecomeIsSound ==
  ASSUME NEW STATE b, SoundTab(b), Become(b)
  PROVE  SoundTab(Tab)'
BY DEF Become, SoundTab, Tab

LEMMA PressIsSound ==
  ASSUME Sound, NEW STATE b, SoundTab(b), NEW STATE others, Press(b, others)
  PROVE  Sound'
BY BecomeIsSound DEF Sound, Press

LEMMA InitSound == Init => Sound
<1> SUFFICES ASSUME Init PROVE Sound
  OBVIOUS
<1>1. PICK start \in Starts : tree = NewTree(start) /\ tasks = [r \in {Root} |-> Listing(start)]
  BY DEF Init
<1>2. start \in Navigable
  BY <1>1, BrowserAssumption
<1>3. SoundTree(tree)
  <2>1. tree.places = << >> /\ tree.rows = << >> /\ tree.sel = 0 /\ tree.root = start
    BY <1>1 DEF NewTree, NoPlacement
  <2>2. {"root", "rows", "places", "sel", "status"} \subseteq DOMAIN tree
    BY <1>1 DEF NewTree
  <2>3. DOMAIN tree.places = {} /\ tree.rows \in Seq(Row)
    BY <2>1
  <2>4. QED
    BY <1>2, <2>1, <2>2, <2>3 DEF SoundTree
<1>4. SoundFilter(filter)
  BY SequencesAre DEF Init, SoundFilter, NoFilter, NewFilter
<1>5. DOMAIN tasks = {0} /\ tasks[0] = Listing(start)
  BY <1>1 DEF Root
<1>6. SoundTask(tasks[0])
  BY <1>2, <1>5, ListingIsSound
<1>7. requests = 0 /\ generation = 1 /\ channel = <<>>
  BY DEF Init
<1>8. SoundTab(Tab)
  BY <1>3, <1>4, <1>5, <1>6, <1>7, TabFields DEF SoundTab
<1>9. QED
  BY <1>7, <1>8 DEF Sound

(* A listing that sends. *)
LEMMA SendIsSound ==
  ASSUME Sound, NEW r \in DOMAIN tasks, SendGroup(r) \/ SendFinished(r) \/ SendFailed(r)
  PROVE  Sound'
<1>1. SoundTask(tasks[r]) /\ r \in Nat /\ generation \in Nat /\ channel \in Seq(Event)
  BY TabFields DEF Sound, SoundTab
<1>2. ASSUME NEW kind \in {"entries", "finished", "failed"}, NEW paths \in Seq(Node),
             Send(r, kind, paths)
      PROVE  channel' \in Seq(Event)
  <2>1. [generation |-> generation, target |-> r, kind |-> kind, paths |-> paths] \in Event
    BY <1>1 DEF Event
  <2>2. QED
    BY <1>1, <1>2, <2>1, AppendProperties DEF Send
<1>3. ASSUME UNCHANGED <<tree, filter, requests, generation>>, channel' \in Seq(Event),
             NEW task, SoundTask(task), tasks' = [tasks EXCEPT ![r] = task]
      PROVE  Sound'
  BY <1>1, <1>3 DEF Sound, SoundTab, Tab
<1>4. CASE SendGroup(r)
  <2>1. PICK k \in 1..Len(tasks[r].left) :
           /\ Send(r, "entries", SubSeq(tasks[r].left, 1, k))
           /\ tasks' = [tasks EXCEPT ![r].left = SubSeq(@, k + 1, Len(@)), ![r].sent = TRUE]
    BY <1>4 DEF SendGroup
  <2> DEFINE task == [tasks[r] EXCEPT !.left = SubSeq(@, k + 1, Len(@)), !.sent = TRUE]
  <2>2. /\ SubSeq(tasks[r].left, 1, k) \in Seq(Node)
        /\ SubSeq(tasks[r].left, k + 1, Len(tasks[r].left)) \in Seq(Node)
    BY <1>1 DEF SoundTask
  <2>3. SoundTask(task)
    BY <1>1, <2>2 DEF SoundTask
  <2>4. tasks' = [tasks EXCEPT ![r] = task]
    BY <2>1
  <2>5. channel' \in Seq(Event)
    BY <1>2, <2>1, <2>2
  <2> HIDE DEF task
  <2>6. QED
    BY <1>3, <1>4, <2>3, <2>4, <2>5 DEF SendGroup
<1>5. CASE SendFinished(r)
  <2> DEFINE task == [tasks[r] EXCEPT !.done = TRUE]
  <2>1. SoundTask(task) /\ tasks' = [tasks EXCEPT ![r] = task]
    BY <1>1, <1>5 DEF SendFinished, SoundTask
  <2>2. Send(r, "finished", <<>>)
    BY <1>5 DEF SendFinished
  <2> HIDE DEF task
  <2>3. QED
    BY <1>2, <1>3, <1>5, <2>1, <2>2, <<>> \in Seq(Node) DEF SendFinished
<1>6. CASE SendFailed(r)
  <2> DEFINE task == [tasks[r] EXCEPT !.done = TRUE, !.left = <<>>]
  <2>1. SoundTask(task)
    BY <1>1, <<>> \in Seq(Node) DEF SoundTask
  <2>2. tasks' = [tasks EXCEPT ![r] = task]
    BY <1>6, Zenon DEF SendFailed
  <2>3. Send(r, "failed", <<>>)
    BY <1>6, Zenon DEF SendFailed
  <2> HIDE DEF task
  <2>4. UNCHANGED <<tree, filter, requests, generation>>
    BY <1>6, Zenon DEF SendFailed
  <2>5. QED
    BY <1>2, <1>3, <2>1, <2>2, <2>3, <2>4, <<>> \in Seq(Node)
<1>7. QED
  BY <1>4, <1>5, <1>6

(* The tab with another tree and other listings. *)
Arrived(t, left) == [tree |-> t, filter |-> filter, tasks |-> left, requests |-> requests]

LEMMA ArrivedIsSound ==
  ASSUME SoundTab(Tab), NEW STATE t, SoundTree(t), ArrivesBeside(tree, t),
         NEW STATE left, SoundTasks(left)
  PROVE  SoundTab(Arrived(t, left)) /\ ArrivesBeside(tree, Arrived(t, left).tree)
BY TabFields DEF SoundTab, SoundTasks, Arrived

(* An event that arrives: the tree is sound, and its selection on the same row. *)
LEMMA ArrivalIsSound ==
  ASSUME Sound, Apply
  PROVE  Sound' /\ ArrivesBeside(tree, tree')
<1> DEFINE event == Head(channel)
           after == IF ~Wanted(event) THEN Tab
                    ELSE IF event.target = Root THEN ApplyRoot(event) ELSE ApplyDirectory(event)
<1>1. event \in Event /\ channel' \in Seq(Event) /\ generation' = generation
  BY DEF Sound, Apply
<1>2. Become(after)
  BY DEF Apply
<1>3. SoundTab(Tab) /\ SoundTree(tree)
  BY TabFields DEF Sound, SoundTab
<1> HIDE DEF event
<1>4. \A gone : SoundTasks(Without(tasks, gone))
  BY <1>3, TabFields DEF SoundTab, SoundTasks, Without
<1>5. SoundTab(after) /\ ArrivesBeside(tree, after.tree)
  <2>1. SoundTab(Tab) /\ ArrivesBeside(tree, Tab.tree)
    BY <1>3, TabFields DEF ArrivesBeside
  <2>2. SoundTab(Tab)
    BY <1>3
  <2>3. SoundTasks(tasks)
    BY <1>3, TabFields DEF SoundTab, SoundTasks
  <2>4. SoundTab(ApplyRoot(event)) /\ ArrivesBeside(tree, ApplyRoot(event).tree)
    <3>1. CASE event.kind = "entries"
      <4> DEFINE t == ExtendRoot(tree, event.paths)
      <4>1. SoundTree(t) /\ ArrivesBeside(tree, t)
        BY <1>1, <1>3, ExtendRootIsSound, RootArrivesBeside DEF Event
      <4>2. ApplyRoot(event) = Arrived(t, tasks)
        BY <3>1 DEF Arrived, Tab, ApplyRoot
      <4> HIDE DEF t
      <4>3. QED
        BY <2>2, <2>3, <4>1, <4>2, ArrivedIsSound
    <3>2. CASE event.kind # "entries"
      <4> DEFINE t == FinishRoot(tree, IF event.kind = "failed" THEN Failed ELSE Complete)
                 left == Without(tasks, {Root})
      <4>1. SoundTree(t) /\ ArrivesBeside(tree, t)
        BY <1>3, FinishRootIsSound
      <4>2. ApplyRoot(event) = Arrived(t, left)
        BY <3>2 DEF Arrived, Tab, ApplyRoot
      <4>3. SoundTasks(left)
        BY <1>4
      <4> HIDE DEF t, left
      <4>4. QED
        BY <2>2, <4>1, <4>2, <4>3, ArrivedIsSound
    <3>3. QED
      BY <3>1, <3>2
  <2>5. SoundTab(ApplyDirectory(event)) /\ ArrivesBeside(tree, ApplyDirectory(event).tree)
    <3> DEFINE r == event.target
    <3>1. CASE r \notin DOMAIN tree.places
      BY <2>1, <3>1 DEF ApplyDirectory
    <3>2. CASE r \in DOMAIN tree.places /\ event.kind = "entries"
      <4> DEFINE t == ExtendChild(tree, r, event.paths)
      <4>1. SoundTree(t) /\ ArrivesBeside(tree, t)
        BY <1>1, <1>3, ExtendChildIsSound DEF Event
      <4>2. ApplyDirectory(event) = Arrived(t, tasks)
        BY <3>2 DEF Arrived, Tab, ApplyDirectory
      <4> HIDE DEF t
      <4>3. QED
        BY <2>2, <2>3, <4>1, <4>2, ArrivedIsSound
    <3>3. CASE r \in DOMAIN tree.places /\ event.kind # "entries"
      <4> DEFINE exp == IF event.kind = "failed" THEN Failed ELSE Expanded
                 t == FinishChild(tree, r, exp)
                 left == Without(tasks, {r})
      <4>1. SoundTree(t) /\ ArrivesBeside(tree, t)
        <5>1. exp \in {Expanded, Failed}
          OBVIOUS
        <5> HIDE DEF exp
        <5>2. QED
          BY <1>3, <5>1, FinishChildIsSound
      <4>2. ApplyDirectory(event) = Arrived(t, left)
        BY <3>3 DEF Arrived, Tab, ApplyDirectory
      <4>3. SoundTasks(left)
        BY <1>4
      <4> HIDE DEF t, left
      <4>4. QED
        BY <2>2, <4>1, <4>2, <4>3, ArrivedIsSound
    <3>4. QED
      BY <3>1, <3>2, <3>3
  <2>6. QED
    BY <2>1, <2>4, <2>5
<1> HIDE DEF after
<1>6. SoundTab(Tab)'
  BY <1>2, <1>5, BecomeIsSound
<1>7. tree' = after.tree
  BY <1>2 DEF Become
<1>8. QED
  BY <1>1, <1>5, <1>6, <1>7 DEF Sound, ArrivesBeside, Selects

LEMMA RootListingIsSound ==
  ASSUME Sound, NEW STATE t, SoundTree(t), StartRootListing(t)
  PROVE  Sound'
<1>1. SoundTask(Listing(t.root))
  BY ListingIsSound DEF SoundTree
<1>2. SoundTasks([r \in {Root} |-> Listing(t.root)])
  BY <1>1 DEF SoundTasks, Root
<1>3. SoundTree(Restart(t))
  BY RestartIsSound
<1> DEFINE b == Arrived(Restart(t), [r \in {Root} |-> Listing(t.root)])
<1>4. SoundTab(b)
  BY <1>2, <1>3, TabFields DEF Sound, SoundTab, SoundTasks, Arrived
<1>5. Become(b)
  BY DEF Become, Arrived, StartRootListing
<1> HIDE DEF b
<1>6. SoundTab(Tab)'
  BY <1>4, <1>5, BecomeIsSound
<1>7. generation \in Nat /\ generation' = generation + 1 /\ channel' = channel
  BY DEF Sound, StartRootListing
<1>8. QED
  BY <1>6, <1>7 DEF Sound

LEMMA SelectedIsRow ==
  ASSUME Sound, Selected # 0
  PROVE  Selected \in 1..Len(tree.rows) /\ SelectedPath(tree) = tree.rows[Selected].path
<1>1. SoundTree(tree)
  BY TabFields DEF Sound, SoundTab
<1>2. tree.rows # <<>>
  BY DEF Selected, EffectiveSelection
<1>3. QED
  BY <1>1, <1>2, SelectionInRows DEF Selected, SelectedPath

(* A key that rests on the selected row, and one that opens or closes it. *)
LEMMA RootKeysAreSound ==
  ASSUME Sound, Refresh \/ EnterSelected \/ Leave
  PROVE  Sound'
<1>1. SoundTree(tree)
  BY TabFields DEF Sound, SoundTab
<1>2. CASE Refresh
  BY <1>1, <1>2, RootListingIsSound DEF Refresh
<1>3. CASE EnterSelected
  <2>1. SelectedPath(tree) \in Navigable
    BY <1>3 DEF EnterSelected, OnDirectory
  <2>2. SoundTree(Reroot(tree, SelectedPath(tree)))
    BY <1>1, <2>1, RerootIsSound
  <2>3. QED
    BY <1>3, <2>2, RootListingIsSound DEF EnterSelected
<1>4. CASE Leave
  <2>1. Parent[tree.root] \in Navigable
    BY <1>1, TreeAssumption DEF SoundTree
  <2>2. SoundTree(Reroot(tree, Parent[tree.root]))
    BY <1>1, <2>1, RerootIsSound
  <2>3. QED
    BY <1>4, <2>2, RootListingIsSound DEF Leave
<1>5. QED
  BY <1>2, <1>3, <1>4

LEMMA ActivationIsSound ==
  ASSUME Sound, ActivateSelected
  PROVE  Sound'
<1>1. /\ Selected \in 1..Len(tree.rows) /\ SelectedPath(tree) = tree.rows[Selected].path
      /\ SelectedPath(tree) \in Navigable
  BY SelectedIsRow DEF ActivateSelected, OnDirectory
<1>2. SoundTab(Tab)
  BY DEF Sound
<1>3. CASE tree.rows[Selected].exp = Collapsed
  <2>1. Become(StartDirectoryListing(Tab, Selected))
    BY <1>3 DEF ActivateSelected
  <2>2. Collapsed # Loading
    BY DEF Collapsed, Loading
  <2>3. SoundTab(StartDirectoryListing(Tab, Selected))
    BY <1>1, <1>2, <1>3, <2>2, TabFields, StartDirectoryListingIsSound
  <2>4. QED
    BY <2>1, <2>3, BecomeIsSound DEF Sound, ActivateSelected
<1>4. CASE tree.rows[Selected].exp # Collapsed
  <2>1. Become(CollapseDirectory(Tab, Selected))
    BY <1>4 DEF ActivateSelected
  <2>2. SoundTab(CollapseDirectory(Tab, Selected))
    BY <1>1, <1>2, TabFields, CollapseDirectoryIsSound
  <2>3. QED
    BY <2>1, <2>2, BecomeIsSound DEF Sound, ActivateSelected
<1>5. QED
  BY <1>3, <1>4

LEMMA MovesAreSound ==
  ASSUME Sound, MoveSelection \/ ScrollHalfPage
  PROVE  Sound'
<1>1. SoundTab(Tab) /\ 0 \in Nat
  BY DEF Sound
<1>2. CASE MoveSelection /\ tree.rows = <<>>
  <2>1. Become([Tab EXCEPT !.tree.sel = 0])
    BY <1>2 DEF MoveSelection
  <2>2. SoundTab([Tab EXCEPT !.tree.sel = 0])
    BY <1>1, SelectIsSound
  <2>3. QED
    BY <1>2, <2>1, <2>2, BecomeIsSound DEF Sound, MoveSelection
<1>3. CASE MoveSelection /\ tree.rows # <<>>
  <2>1. PICK step \in {-1, 1} : Become(MoveBy(Tab, step))
    BY <1>3 DEF MoveSelection
  <2>2. SoundTab(MoveBy(Tab, step))
    BY <1>1, MoveByIsSound
  <2>3. QED
    BY <1>3, <2>1, <2>2, BecomeIsSound DEF Sound, MoveSelection
<1>4. CASE ScrollHalfPage
  <2>1. PICK way \in {-1, 1} : Become(MoveBy(Tab, way * HalfPage))
    BY <1>4 DEF ScrollHalfPage
  <2>2. way * HalfPage \in Int
    BY BrowserAssumption
  <2>3. SoundTab(MoveBy(Tab, way * HalfPage))
    BY <1>1, <2>2, MoveByIsSound
  <2>4. QED
    BY <1>4, <2>1, <2>3, BecomeIsSound DEF Sound, ScrollHalfPage
<1>5. QED
  BY <1>2, <1>3, <1>4

(* What the keys of the prompt do to a tab. *)
LEMMA ShorterIsSound ==
  ASSUME NEW b, SoundTab(b)
  PROVE  SoundTab(IF b.filter.query # <<>> THEN FollowFilter([b EXCEPT !.filter.query = Front(@)])
                  ELSE IF b.filter.descents = <<>> THEN AbandonFilter(b) ELSE AscendFilter(b))
<1>1. CASE b.filter.query # <<>>
  <2> DEFINE c == [b EXCEPT !.filter.query = Front(b.filter.query)]
  <2>1. SoundTab(c)
    BY QueryIsSound
  <2> HIDE DEF c
  <2>2. SoundTab(FollowFilter(c))
    BY <2>1, FollowIsSound
  <2>3. QED
    BY <1>1, <2>2 DEF c
<1>2. CASE b.filter.query = <<>> /\ b.filter.descents = <<>>
  BY <1>2, AbandonIsSound
<1>3. CASE b.filter.query = <<>> /\ b.filter.descents # <<>>
  BY <1>3, AscendIsSound
<1>4. QED
  BY <1>1, <1>2, <1>3

LEMMA QueryFollowedIsSound ==
  ASSUME NEW b, SoundTab(b), NEW query, NEW filled
  PROVE  /\ SoundTab(FollowFilter([b EXCEPT !.filter.query = query]))
         /\ SoundTab(FollowFilter([b EXCEPT !.filter.query = query, !.filter.filled = filled]))
<1> DEFINE c == [b EXCEPT !.filter.query = query]
           d == [b EXCEPT !.filter.query = query, !.filter.filled = filled]
<1>1. SoundTab(c) /\ SoundTab(d)
  BY QueryIsSound
<1> HIDE DEF c, d
<1>2. SoundTab(FollowFilter(c)) /\ SoundTab(FollowFilter(d))
  BY <1>1, FollowIsSound
<1>3. QED
  BY <1>2 DEF c, d

LEMMA TypingIsSound ==
  ASSUME Sound, ExtendFilter \/ ShortenFilter \/ CompleteFilter
  PROVE  Sound'
<1> DEFINE b == AdoptFilled(Tab)
<1>1. SoundTab(b)
  BY AdoptIsSound DEF Sound
<1>2. CASE ExtendFilter
  <2>1. PICK c \in Letters :
          Press(FollowFilter([b EXCEPT !.filter.query = Append(@, c)]), found)
    BY <1>2 DEF ExtendFilter, Key
  <2> HIDE DEF b
  <2>2. SoundTab(FollowFilter([b EXCEPT !.filter.query = Append(b.filter.query, c)]))
    BY <1>1, QueryFollowedIsSound
  <2>3. QED
    BY <2>1, <2>2, PressIsSound
<1>3. CASE ShortenFilter
  <2> DEFINE c == IF b.filter.query # <<>> THEN FollowFilter([b EXCEPT !.filter.query = Front(@)])
                  ELSE IF b.filter.descents = <<>> THEN AbandonFilter(b) ELSE AscendFilter(b)
  <2>1. Press(c, found)
    BY <1>3 DEF ShortenFilter, Key
  <2> HIDE DEF b
  <2>2. SoundTab(c)
    BY <1>1, ShorterIsSound
  <2> HIDE DEF c
  <2>3. QED
    BY <2>1, <2>2, PressIsSound
<1>4. CASE CompleteFilter
  <2> DEFINE completed == FollowFilter([b EXCEPT !.filter.query = Completion(b)])
             c == IF b.filter.query = <<>> \/ WindowOf(b).matched = {} THEN b
                  ELSE IF Len(Completion(b)) <= Len(b.filter.query) THEN b ELSE completed
  <2>1. Press(c, found)
    BY <1>4 DEF CompleteFilter, Key
  <2> HIDE DEF b
  <2>2. SoundTab(completed)
    BY <1>1, QueryFollowedIsSound
  <2> HIDE DEF completed
  <2>3. SoundTab(c)
    BY <1>1, <2>2
  <2> HIDE DEF c
  <2>4. QED
    BY <2>1, <2>3, PressIsSound
<1>5. QED
  BY <1>2, <1>3, <1>4

LEMMA DescentIsSound ==
  ASSUME Sound, DescendFilter
  PROVE  Sound'
<1> DEFINE row == tree.rows[Selected]
           opened == IF Closed(row) THEN StartDirectoryListing(Tab, Selected) ELSE Tab
           into == [path |-> row.path, query |-> Displayed(filter), opened |-> Closed(row)]
           b == [opened EXCEPT !.filter.query = <<>>, !.filter.filled = NoText,
                               !.filter.descents = Append(@, into)]
           others == IF into.opened THEN found \ {row.path} ELSE found
<1>1. Press(FollowFilter(b), others)
  BY DEF DescendFilter
<1>2. SelectedPath(tree) \in Navigable /\ Candidate(Tab) # NoText
  BY DEF DescendFilter, NamesDirectory
<1>3. SoundTab(Tab) /\ SoundTree(tree)
  BY TabFields DEF Sound, SoundTab
<1>4. Selected # 0
  <2>1. SUFFICES ASSUME Selected = 0 PROVE Candidate(Tab) = NoText
    BY <1>2
  <2>2. Len(tree.rows) \in Nat
    BY <1>3 DEF SoundTree
  <2>3. WindowOf(Tab).matched \in SUBSET (1..Len(tree.rows))
    BY <2>2, TabFields, WindowInRows DEF WindowOf
  <2>4. ~(0 \in WindowOf(Tab).matched)
    BY <2>2, <2>3
  <2>5. QED
    BY <2>1, <2>4, TabFields DEF Candidate, Selected
<1>5. Selected \in 1..Len(tree.rows) /\ tree.rows[Selected].path \in Navigable
  BY <1>2, <1>4, SelectedIsRow
<1>6. SoundTab(opened)
  <2>1. CASE Closed(row)
    <3>1. row.exp # Loading
      BY <2>1 DEF Closed, Collapsed, Failed, Loading
    <3>2. QED
      BY <1>3, <1>5, <2>1, <3>1, TabFields, StartDirectoryListingIsSound
  <2>2. QED
    BY <1>3, <2>1
<1> HIDE DEF opened, into, others
<1> DEFINE f == [opened.filter EXCEPT !.query = <<>>, !.filled = NoText,
                                      !.descents = Append(@, into)]
<1>7. SoundFilter(f)
  BY <1>6, SequencesAre DEF SoundTab, SoundFilter
<1>8. b = [opened EXCEPT !.filter = f]
  OBVIOUS
<1> HIDE DEF f, b
<1>9. SoundTab(FollowFilter(b))
  BY <1>6, <1>7, <1>8, FilterIsSound, FollowIsSound
<1>10. QED
  BY <1>1, <1>9, PressIsSound

LEMMA ClearingIsSound ==
  ASSUME Sound, ClearFilterEntry
  PROVE  Sound'
<1> DEFINE cleared(c) == FollowFilter([c EXCEPT !.filter.query = <<>>, !.filter.filled = NoText])
           b == IF Displayed(filter) # <<>> THEN cleared(Tab)
                ELSE IF filter.descents = <<>> THEN AbandonFilter(Tab)
                ELSE cleared(AscendFilter(Tab))
<1>1. Press(b, found)
  BY DEF ClearFilterEntry, Key
<1>2. SoundTab(Tab)
  BY DEF Sound
<1>3. SoundTab(cleared(Tab)) /\ SoundTab(AbandonFilter(Tab))
  BY <1>2, QueryFollowedIsSound, AbandonIsSound
<1>4. ASSUME filter.descents # <<>> PROVE SoundTab(cleared(AscendFilter(Tab)))
  <2>1. SoundTab(AscendFilter(Tab))
    BY <1>2, <1>4, TabFields, AscendIsSound
  <2>2. QED
    BY <2>1, QueryFollowedIsSound
<1> HIDE DEF cleared
<1>5. SoundTab(b)
  BY <1>3, <1>4
<1> HIDE DEF b
<1>6. QED
  BY <1>1, <1>5, PressIsSound

LEMMA PromptKeysAreSound ==
  ASSUME Sound, BeginFilter \/ SubmitFilter \/ Abandon
  PROVE  Sound'
<1>1. SoundTab(Tab)
  BY DEF Sound
<1>2. CASE BeginFilter
  <2> DEFINE path == IF Selected = 0 THEN NoPath ELSE SelectedPath(tree)
             f == NewFilter(path)
  <2>1. SoundFilter(f)
    BY SequencesAre DEF SoundFilter, NewFilter
  <2>2. /\ filter' = f /\ tree' = tree /\ tasks' = tasks /\ requests' = requests
        /\ generation' = generation /\ channel' = channel
    BY <1>2 DEF BeginFilter
  <2> HIDE DEF f
  <2>3. SoundTab(Tab)'
    BY <1>1, <2>1, <2>2 DEF SoundTab, Tab
  <2>4. QED
    BY <2>2, <2>3 DEF Sound
<1>3. CASE SubmitFilter
  <2>1. SoundTab(FillFromSelection(Tab)) /\ SoundTab(Close(Tab))
    BY <1>1, FillIsSound, CloseIsSound
  <2>2. Press(FillFromSelection(Tab), found) \/ Press(Close(Tab), found)
    BY <1>3 DEF SubmitFilter, Key
  <2>3. QED
    BY <2>1, <2>2, PressIsSound
<1>4. CASE Abandon
  BY <1>1, <1>4, AbandonIsSound, PressIsSound DEF Abandon, Key
<1>5. QED
  BY <1>2, <1>3, <1>4

LEMMA StepSound == Sound /\ [Next]_vars => Sound'
<1> SUFFICES ASSUME Sound, [Next]_vars PROVE Sound'
  OBVIOUS
<1>1. CASE Listings
  BY <1>1, SendIsSound DEF Listings
<1>2. CASE Apply
  BY <1>2, ArrivalIsSound
<1>3. CASE Refresh \/ EnterSelected \/ Leave
  BY <1>3, RootKeysAreSound
<1>4. CASE ActivateSelected
  BY <1>4, ActivationIsSound
<1>5. CASE MoveSelection \/ ScrollHalfPage
  BY <1>5, MovesAreSound
<1>6. CASE ExtendFilter \/ ShortenFilter \/ CompleteFilter
  BY <1>6, TypingIsSound
<1>7. CASE DescendFilter
  BY <1>7, DescentIsSound
<1>8. CASE ClearFilterEntry
  BY <1>8, ClearingIsSound
<1>9. CASE BeginFilter \/ SubmitFilter \/ Abandon
  BY <1>9, PromptKeysAreSound
<1>10. CASE UNCHANGED vars
  BY <1>10 DEF vars, Sound, SoundTab, Tab
<1>11. QED
  BY <1>1, <1>2, <1>3, <1>4, <1>5, <1>6, <1>7, <1>8, <1>9, <1>10 DEF Next, Keys

(* What arrives never moves the selection off the row that it is on, whatever   *)
(* the file system is, in whatever groups and order the listings under way      *)
(* arrive, and whatever was opened, closed, filtered and left in between        *)
(* (tree.rs extend_root(), extend_child(), finish_root() and finish_child()).   *)
THEOREM SelectionStays == Spec => ArrivalsLeaveSelection
<1>1. Sound /\ [Next]_vars =>
        [Apply /\ Selects(tree) => Selects(tree') /\ SelectedPath(tree') = SelectedPath(tree)]_vars
  BY ArrivalIsSound DEF ArrivesBeside
<1>2. QED
  BY <1>1, InitSound, StepSound, PTL DEF Spec, ArrivalsLeaveSelection
==============================================================================
