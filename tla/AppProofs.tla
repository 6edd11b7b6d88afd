------------------------------- MODULE AppProofs -------------------------------
(***************************************************************************)
(* What the terminal application shows stays true of what is there, whatever *)
(* is reported between two keys, and nothing outlives it: for any number of   *)
(* connections, tabs, transfers and reports on their way.                    *)
(***************************************************************************)
EXTENDS App, FiniteSetTheorems, WellFoundedInduction, TLAPS

(***************************************************************************)
(* The invariant, of what the handlers hold: `a` is the App.                *)
(***************************************************************************)
Statuses == {"absent", "starting", "ready", "failed", "closing", "gone"}
Requests == [src : Conn, dst : Conn]
Tabs == UNION {[S -> [conn : Conn, root : Path]] : S \in SUBSET TabId}
Overlays ==
  [kind : {"none", "manager", "chooser", "remote", "newBrowser", "close", "overwrite"},
   conn : Conn \cup {None}, request : 0..MaxRequests, path : Path \cup {None},
   back : {"none", "manager"},
   transfer : [src : Conn \cup {None}, dst : Conn \cup {None}]]
Shape ==
  [conns : [Conn -> [status : Statuses, last : TabId \cup {None}]],
   selected : Conn \cup {None}, tabs : Tabs, active : TabId \cup {None},
   overlay : Overlays, clip : Conn \cup {None},
   transfer : 0..MaxTransfers, pending : 0..MaxQuits]

TabsRight(a) ==
  /\ \A t \in DOMAIN a.tabs : Ready(a, a.tabs[t].conn)
  /\ a.active \in DOMAIN a.tabs \/ (a.active = None /\ DOMAIN a.tabs = {})
  /\ \A c \in Conn : \/ a.conns[c].last \in TabsOf(a, c)
                     \/ a.conns[c].last = None /\ TabsOf(a, c) = {}

SelectionRight(a) == a.selected \in Records(a) \/ (a.selected = None /\ Records(a) = {})

OverlayRight(a) ==
  /\ a.overlay.kind \in {"newBrowser", "close"} => Ready(a, a.overlay.conn)
  /\ a.overlay.kind = "overwrite" =>
       /\ a.overlay.transfer \in Requests
       /\ Ready(a, a.overlay.transfer.src) /\ Ready(a, a.overlay.transfer.dst)

(* The tab that a dialog has asked for is one that there never was. *)
RequestRight(a) ==
  /\ \A t \in DOMAIN a.tabs : t <= asked + 1
  /\ a.overlay.request # None =>
       /\ a.overlay.kind = "newBrowser" /\ a.overlay.request <= asked
       /\ a.overlay.request + 1 \notin DOMAIN a.tabs
       /\ a.overlay.path = Typed[a.overlay.request]

TransferRight(a) ==
  a.transfer # None =>
    /\ a.transfer \in DOMAIN copies
    /\ Ready(a, copies[a.transfer].request.src) /\ Ready(a, copies[a.transfer].request.dst)

Right(a) ==
  /\ a \in Shape
  /\ TabsRight(a) /\ SelectionRight(a) /\ OverlayRight(a) /\ RequestRight(a) /\ TransferRight(a)

-----------------------------------------------------------------------------
(***************************************************************************)
(* The invariant, of the tasks and of what they have reported.               *)
(***************************************************************************)
Event ==
  [kind : {"ready", "failed", "closed"}, conn : Conn]
    \cup [kind : {"resolved"}, conn : Conn, id : 1..MaxRequests, ok : BOOLEAN, path : Path]
    \cup [kind : {"copied"}, id : 1..MaxTransfers, request : Requests,
          result : {"ok", "error", "exists"}]
    \cup [kind : {"unconfirmed"}, id : 1..MaxQuits]

TasksTyped ==
  /\ start \in [Conn -> {"none", "opening", "opened"}] /\ registry \subseteq Conn
  /\ resolving \subseteq [id : 1..asked, conn : Conn, path : Path]
  /\ copies \in Seq([request : Requests, replace : BOOLEAN, runs : BOOLEAN])
  /\ Len(copies) <= MaxTransfers
  /\ closing \in [Conn -> [at : {"none", "joining", "closing", "closed"}, joins : Nat]]
  /\ timers \subseteq 1..quits
  /\ asked \in 0..MaxRequests /\ quits \in 0..MaxQuits
  /\ phase \in {"running", "aborting", "closing", "exited"}

(* Whom a report is about has moved on only as far as the report says. *)
EventRight(e) ==
  /\ e.kind = "closed" => app.conns[e.conn].status \in {"closing", "gone"}
  /\ e.kind = "resolved" => e.id <= asked /\ e.path = Typed[e.id]
  /\ e.kind = "copied" => /\ e.id \in DOMAIN copies /\ e.request = copies[e.id].request
                          /\ ~copies[e.id].runs
  /\ e.kind = "unconfirmed" => e.id <= quits /\ e.id \notin timers

EventsRight ==
  events \in Seq(Event) /\ \A i \in DOMAIN events : EventRight(events[i])

Asked == \A r \in resolving : r.path = Typed[r.id]

ClosingRight ==
  \A c \in Conn : closing[c].at # "none" => app.conns[c].status \in {"closing", "gone"}

WhileRunning ==
  phase = "running" =>
    /\ Right(app) /\ EventsRight /\ Asked /\ ClosingRight
    /\ timers \subseteq {app.pending}

Joined(x) == \E c \in Conn : closing[c].at = "joining" /\ closing[c].joins = x

(* A copy that runs is the one that the App knows of, or one that a close joins. *)
CopiesOwned ==
  /\ \A c \in Conn : closing[c].at = "joining" => closing[c].joins \in DOMAIN copies
  /\ \A x \in DOMAIN copies :
       copies[x].runs => Joined(x) \/ (phase \in {"running", "aborting"} /\ x = app.transfer)

Ended ==
  /\ phase # "running" => timers = {}
  /\ phase \in {"closing", "exited"} => resolving = {} /\ start = [c \in Conn |-> "none"]
  /\ phase = "exited" => registry = {} /\ \A c \in Conn : closing[c].at \in {"none", "closed"}

Inv == TasksTyped /\ WhileRunning /\ CopiesOwned /\ Ended

-----------------------------------------------------------------------------
(***************************************************************************)
(* The least and the greatest of some numbers are among them.               *)
(***************************************************************************)
LEMMA Least ==
  ASSUME NEW S \in SUBSET Nat, S # {}
  PROVE  \E x \in S : \A y \in S : x <= y
<1> DEFINE R == OpToRel(<, Nat)
<1>1. R = {p \in Nat \X Nat : p[1] < p[2]}
  BY Zenon DEF OpToRel
<1>2. IsWellFoundedOn(R, Nat)
  BY NatLessThanWellFounded
<1> HIDE DEF R
<1>3. PICK x \in S : \A y \in S : ~(<<y, x>> \in R)
  BY <1>2, WFMin
<1>4. ASSUME NEW y \in S PROVE x <= y
  <2>1. x \in Nat /\ y \in Nat /\ <<y, x>> \notin R
    BY <1>3
  <2>2. ~(y < x)
    BY <1>1, <2>1
  <2>3. QED
    BY <2>1, <2>2
<1>5. QED
  BY <1>4

LEMMA MinIn ==
  ASSUME NEW S \in SUBSET Nat, S # {}
  PROVE  Min(S) \in S
  BY Least DEF Min

LEMMA MaxIn ==
  ASSUME NEW n \in Nat, NEW S \in SUBSET (0..n), S # {}
  PROVE  Max(S) \in S
<1> DEFINE T == {n - x : x \in S}
<1>4. T \in SUBSET Nat /\ T # {}
  OBVIOUS
<1> HIDE DEF T
<1>1. PICK t \in T : \A y \in T : t <= y
  BY <1>4, Least
<1> USE DEF T
<1>2. PICK x \in S : t = n - x
  BY <1>1
<1>3. ASSUME NEW y \in S PROVE x >= y
  <2>1. n - y \in T
    OBVIOUS
  <2>2. n - x <= n - y
    BY <1>1, <1>2, <2>1
  <2>3. x \in Nat /\ y \in Nat
    OBVIOUS
  <2> HIDE DEF T
  <2>4. QED
    BY <2>2, <2>3
<1>5. QED
  BY <1>3 DEF Max

-----------------------------------------------------------------------------
(***************************************************************************)
(* Tabs.                                                                    *)
(***************************************************************************)
LEMMA TabsAre ==
  ASSUME NEW ts
  PROVE  ts \in Tabs <=> /\ DOMAIN ts \subseteq TabId
                         /\ ts \in [DOMAIN ts -> [conn : Conn, root : Path]]
  BY DEF Tabs

(* What a handler of tabs leaves alone. *)
SameRows(a, b) ==
  /\ b.selected = a.selected /\ b.overlay = a.overlay /\ b.clip = a.clip
  /\ b.transfer = a.transfer /\ b.pending = a.pending
  /\ \A c \in Conn : b.conns[c].status = a.conns[c].status

LEMMA CopiesAre ==
  ASSUME TasksTyped, NEW x \in DOMAIN copies
  PROVE  /\ x \in Nat \ {0}
         /\ copies[x] \in [request : Requests, replace : BOOLEAN, runs : BOOLEAN]
<1> DEFINE C == [request : Requests, replace : BOOLEAN, runs : BOOLEAN]
<1>1. copies \in Seq(C)
  BY DEF TasksTyped
<1> HIDE DEF C
<1>2. x \in Nat \ {0} /\ copies[x] \in C
  BY <1>1
<1>3. QED
  BY <1>2 DEF C

LEMMA RowsStand ==
  ASSUME NEW a \in Shape, NEW b \in Shape, SameRows(a, b)
  PROVE  /\ SelectionRight(a) => SelectionRight(b)
         /\ OverlayRight(a) => OverlayRight(b)
         /\ RequestRight(a) /\ DOMAIN b.tabs \subseteq DOMAIN a.tabs => RequestRight(b)
         /\ TransferRight(a) /\ TasksTyped => TransferRight(b)
         /\ \A c : c \in Conn => (Ready(b, c) <=> Ready(a, c))
<1>1. Records(b) = Records(a)
  BY DEF Records, SameRows
<1>2. \A c \in Conn \cup {None} : Ready(b, c) <=> Ready(a, c)
  BY DEF Ready, SameRows, Conn, None
<1>3. SelectionRight(a) => SelectionRight(b)
  BY <1>1 DEF SelectionRight, SameRows
<1>4. OverlayRight(a) => OverlayRight(b)
  <2>1. /\ b.overlay = a.overlay /\ a.overlay.conn \in Conn \cup {None}
        /\ a.overlay.transfer.src \in Conn \cup {None}
        /\ a.overlay.transfer.dst \in Conn \cup {None}
    BY DEF SameRows, Shape, Overlays
  <2>2. QED
    BY <1>2, <2>1 DEF OverlayRight
<1>5. RequestRight(a) /\ DOMAIN b.tabs \subseteq DOMAIN a.tabs => RequestRight(b)
  BY DEF RequestRight, SameRows
<1>6. TransferRight(a) /\ TasksTyped => TransferRight(b)
  <2> SUFFICES ASSUME TransferRight(a), TasksTyped, b.transfer # None PROVE TransferRight(b)
    BY DEF TransferRight
  <2>1. /\ b.transfer = a.transfer /\ a.transfer \in DOMAIN copies
        /\ copies[a.transfer].request \in Requests
    BY CopiesAre DEF SameRows, TransferRight
  <2>2. QED
    BY <1>2, <2>1 DEF TransferRight, Requests
<1>7. QED
  BY <1>2, <1>3, <1>4, <1>5, <1>6

LEMMA ActivateIs ==
  ASSUME NEW a \in Shape, NEW t \in DOMAIN a.tabs
  PROVE  LET b == Activate(a, t)
         IN  /\ b \in Shape /\ SameRows(a, b) /\ b.tabs = a.tabs /\ b.active = t
             /\ \A c \in Conn : b.conns[c].last =
                                 IF c = a.tabs[t].conn THEN t ELSE a.conns[c].last
<1>1. t \in TabId /\ a.tabs[t].conn \in Conn
  BY TabsAre DEF Shape
<1>2. QED
  BY <1>1, ZenonT(60) DEF Activate, Shape, SameRows

(* The tabs that are there are the ones that are shown. *)
LEMMA ActivateKeeps ==
  ASSUME NEW a \in Shape, NEW t \in DOMAIN a.tabs,
         \A u \in DOMAIN a.tabs : Ready(a, a.tabs[u].conn),
         \A c \in Conn : c # a.tabs[t].conn =>
           a.conns[c].last \in TabsOf(a, c) \/ (a.conns[c].last = None /\ TabsOf(a, c) = {})
  PROVE  TabsRight(Activate(a, t))
<1> DEFINE b == Activate(a, t)
<1>1. /\ b \in Shape /\ SameRows(a, b) /\ b.tabs = a.tabs /\ b.active = t
      /\ \A c \in Conn : b.conns[c].last = IF c = a.tabs[t].conn THEN t ELSE a.conns[c].last
  BY ActivateIs
<1> HIDE DEF b
<1>2. \A u \in DOMAIN b.tabs : b.tabs[u].conn \in Conn
  BY <1>1, TabsAre DEF Shape
<1>3. \A u \in DOMAIN b.tabs : Ready(b, b.tabs[u].conn)
  BY <1>1, <1>2, RowsStand
<1>4. \A c \in Conn : TabsOf(b, c) = TabsOf(a, c) /\ (c = a.tabs[t].conn => t \in TabsOf(b, c))
  BY <1>1 DEF TabsOf
<1>5. QED
  BY <1>1, <1>3, <1>4 DEF TabsRight, b

LEMMA RemoveContextsKeeps ==
  ASSUME NEW a \in Shape, NEW c \in Conn, NEW gone \in SUBSET TabsOf(a, c),
         \A u \in DOMAIN a.tabs \ gone : Ready(a, a.tabs[u].conn),
         a.active \in DOMAIN a.tabs \/ (a.active = None /\ DOMAIN a.tabs = {}),
         \A d \in Conn \ {c} :
           a.conns[d].last \in TabsOf(a, d) \/ (a.conns[d].last = None /\ TabsOf(a, d) = {})
  PROVE  LET b == RemoveContexts(a, c, gone)
         IN  /\ b \in Shape /\ SameRows(a, b) /\ TabsRight(b)
             /\ DOMAIN b.tabs \subseteq DOMAIN a.tabs
<1> DEFINE left  == DOMAIN a.tabs \ gone
           own   == TabsOf(a, c) \ gone
           after == {u \in left : u > a.active}
           next  == IF after # {} THEN Min(after) ELSE Max(left)
           fixed == [a EXCEPT !.tabs = [u \in left |-> a.tabs[u]],
                              !.conns[c].last = OrNone(own, Max(own))]
<1>1. /\ DOMAIN a.tabs \subseteq TabId /\ a.tabs \in [DOMAIN a.tabs -> [conn : Conn, root : Path]]
      /\ TabId \subseteq Nat /\ TabId \subseteq 0..MaxRequests + 1 /\ MaxRequests + 1 \in Nat
      /\ None \notin TabId
  BY TabsAre, AppAssumption DEF Shape, TabId, None
<1>2. OrNone(own, Max(own)) \in own \/ (OrNone(own, Max(own)) = None /\ own = {})
  <2>1. own \in SUBSET (0..MaxRequests + 1)
    BY <1>1 DEF TabsOf
  <2>2. QED
    BY <1>1, <2>1, MaxIn DEF OrNone
<1>3. /\ fixed \in Shape /\ SameRows(a, fixed) /\ fixed.active = a.active
      /\ fixed.tabs = [u \in left |-> a.tabs[u]] /\ DOMAIN fixed.tabs = left
      /\ \A d \in Conn : fixed.conns[d].last =
                          IF d = c THEN OrNone(own, Max(own)) ELSE a.conns[d].last
  <2>1. OrNone(own, Max(own)) \in TabId \cup {None}
    BY <1>1, <1>2 DEF TabsOf
  <2>2. [u \in left |-> a.tabs[u]] \in Tabs
    BY <1>1, TabsAre
  <2> HIDE DEF left, own
  <2>3. QED
    BY <2>1, <2>2, ZenonT(60) DEF Shape, SameRows
<1>4. /\ \A d \in Conn : TabsOf(fixed, d) = TabsOf(a, d) \ gone
      /\ \A d \in Conn \ {c} : TabsOf(fixed, d) = TabsOf(a, d)
  BY <1>3 DEF TabsOf
<1>5. \A d \in Conn : \/ fixed.conns[d].last \in TabsOf(fixed, d)
                      \/ fixed.conns[d].last = None /\ TabsOf(fixed, d) = {}
  <2> SUFFICES ASSUME NEW d \in Conn
               PROVE  \/ fixed.conns[d].last \in TabsOf(fixed, d)
                      \/ fixed.conns[d].last = None /\ TabsOf(fixed, d) = {}
    OBVIOUS
  <2> HIDE DEF fixed
  <2>1. CASE d = c
    BY <1>2, <1>3, <1>4, <2>1
  <2>2. CASE d # c
    BY <1>3, <1>4, <2>2
  <2>3. QED
    BY <2>1, <2>2
<1>6. \A u \in DOMAIN fixed.tabs : Ready(fixed, fixed.tabs[u].conn)
  <2>1. \A u \in left : fixed.tabs[u] = a.tabs[u] /\ a.tabs[u].conn \in Conn
    BY <1>1, <1>3
  <2> HIDE DEF fixed
  <2>2. QED
    BY <1>3, <2>1, RowsStand
<1>7. RemoveContexts(a, c, gone) =
        IF a.active \notin gone THEN fixed
        ELSE IF left = {} THEN [fixed EXCEPT !.active = None] ELSE Activate(fixed, next)
  BY Zenon DEF RemoveContexts
<1> HIDE DEF fixed, own, next
<1>8. CASE a.active \notin gone
  <2>1. a.active \in left \/ (a.active = None /\ left = {})
    BY <1>8
  <2>2. TabsRight(fixed)
    BY <1>3, <1>5, <1>6, <2>1 DEF TabsRight
  <2>3. QED
    BY <1>3, <1>7, <1>8, <2>2
<1>9. CASE a.active \in gone /\ left = {}
  <2> DEFINE b == [fixed EXCEPT !.active = None]
  <2>1. /\ b \in Shape /\ SameRows(a, b) /\ b.tabs = fixed.tabs /\ b.conns = fixed.conns
        /\ b.active = None
    BY <1>3 DEF Shape, SameRows
  <2> HIDE DEF b
  <2>2. TabsRight(b)
    BY <1>3, <1>5, <1>9, <2>1 DEF TabsRight, TabsOf
  <2>3. RemoveContexts(a, c, gone) = b
    BY <1>7, <1>9 DEF b
  <2>4. QED
    BY <1>3, <1>9, <2>1, <2>2, <2>3
<1>10. CASE a.active \in gone /\ left # {}
  <2>1. next \in left
    <3>1. after \in SUBSET Nat /\ left \in SUBSET (0..MaxRequests + 1)
      BY <1>1
    <3>2. after # {} => Min(after) \in left
      BY <3>1, MinIn
    <3>3. Max(left) \in left
      BY <1>1, <1>10, <3>1, MaxIn
    <3>4. QED
      BY <3>2, <3>3 DEF next
  <2>2. TabsRight(Activate(fixed, next))
    BY <1>3, <1>5, <1>6, <2>1, ActivateKeeps
  <2>3. /\ Activate(fixed, next) \in Shape /\ SameRows(fixed, Activate(fixed, next))
        /\ DOMAIN Activate(fixed, next).tabs = left
    BY <1>3, <2>1, ActivateIs
  <2>4. SameRows(a, Activate(fixed, next))
    BY <1>3, <2>3 DEF SameRows
  <2>5. QED
    BY <1>7, <1>10, <2>2, <2>3, <2>4
<1>11. QED
  BY <1>8, <1>9, <1>10

LEMMA AddContextKeeps ==
  ASSUME NEW a \in Shape, NEW t \in TabId, NEW c \in Conn, NEW p \in Path,
         t \notin DOMAIN a.tabs, Ready(a, c), TabsRight(a)
  PROVE  LET b == AddContext(a, t, c, p)
         IN  /\ b \in Shape /\ SameRows(a, b) /\ TabsRight(b)
             /\ DOMAIN b.tabs = DOMAIN a.tabs \cup {t}
             /\ b.tabs[t] = [conn |-> c, root |-> p]
             /\ \A u \in DOMAIN a.tabs : b.tabs[u] = a.tabs[u]
<1> DEFINE ts == [u \in DOMAIN a.tabs \cup {t} |->
                    IF u = t THEN [conn |-> c, root |-> p] ELSE a.tabs[u]]
           added == [a EXCEPT !.tabs = ts]
<1>1. /\ DOMAIN a.tabs \subseteq TabId /\ \A u \in DOMAIN a.tabs : a.tabs[u] \in [conn : Conn, root : Path]
  BY TabsAre DEF Shape
<1>2. ts \in Tabs /\ DOMAIN ts = DOMAIN a.tabs \cup {t}
  BY <1>1, TabsAre
<1>3. /\ ts[t] = [conn |-> c, root |-> p] /\ \A u \in DOMAIN a.tabs : ts[u] = a.tabs[u]
      /\ AddContext(a, t, c, p) = Activate(added, t)
  BY DEF AddContext
<1> HIDE DEF ts
<1>4. added \in Shape /\ SameRows(a, added) /\ added.tabs = ts /\ added.conns = a.conns
  BY <1>2 DEF Shape, SameRows
<1> HIDE DEF added
<1>5. \A u \in DOMAIN ts : Ready(added, ts[u].conn)
  <2>1. \A u \in DOMAIN ts : ts[u].conn \in Conn /\ Ready(a, ts[u].conn)
    BY <1>1, <1>2, <1>3 DEF TabsRight
  <2>2. QED
    BY <1>4, <2>1, RowsStand
<1>6. \A d \in Conn : d # c => added.conns[d].last \in TabsOf(added, d)
                              \/ (added.conns[d].last = None /\ TabsOf(added, d) = {})
  <2>1. \A d \in Conn : d # c => TabsOf(added, d) = TabsOf(a, d)
    BY <1>2, <1>3, <1>4 DEF TabsOf
  <2>2. QED
    BY <1>4, <2>1 DEF TabsRight
<1>7. TabsRight(Activate(added, t))
  BY <1>2, <1>3, <1>4, <1>5, <1>6, ActivateKeeps
<1>8. /\ Activate(added, t) \in Shape /\ SameRows(added, Activate(added, t))
      /\ Activate(added, t).tabs = ts
  BY <1>2, <1>4, ActivateIs
<1>9. SameRows(a, Activate(added, t))
  BY <1>4, <1>8 DEF SameRows
<1>10. QED
  BY <1>2, <1>3, <1>7, <1>8, <1>9

-----------------------------------------------------------------------------
(***************************************************************************)
(* Rows.                                                                    *)
(***************************************************************************)
(* What is ready stays so. *)
LEMMA ReadyStands ==
  ASSUME NEW a \in Shape, NEW b \in Shape,
         \A c \in Conn : a.conns[c].status = "ready" => b.conns[c].status = "ready"
  PROVE  /\ /\ b.tabs = a.tabs /\ b.active = a.active /\ TabsRight(a)
            /\ \A c \in Conn : b.conns[c].last = a.conns[c].last
            => TabsRight(b)
         /\ b.overlay = a.overlay /\ OverlayRight(a) => OverlayRight(b)
         /\ b.overlay = a.overlay /\ DOMAIN b.tabs = DOMAIN a.tabs /\ RequestRight(a)
            => RequestRight(b)
         /\ b.transfer = a.transfer /\ TransferRight(a) /\ TasksTyped => TransferRight(b)
<1>1. \A c \in Conn \cup {None} : Ready(a, c) => Ready(b, c)
  BY DEF Ready
<1>2. ASSUME b.tabs = a.tabs, b.active = a.active, TabsRight(a),
             \A c \in Conn : b.conns[c].last = a.conns[c].last
      PROVE  TabsRight(b)
  <2>1. \A t \in DOMAIN b.tabs : b.tabs[t].conn \in Conn
    BY TabsAre DEF Shape
  <2>2. \A c \in Conn : TabsOf(b, c) = TabsOf(a, c)
    BY <1>2 DEF TabsOf
  <2>3. QED
    BY <1>1, <1>2, <2>1, <2>2 DEF TabsRight
<1>3. ASSUME b.overlay = a.overlay, OverlayRight(a) PROVE OverlayRight(b)
  <2>1. /\ a.overlay.conn \in Conn \cup {None}
        /\ a.overlay.transfer.src \in Conn \cup {None}
        /\ a.overlay.transfer.dst \in Conn \cup {None}
    BY DEF Shape, Overlays
  <2>2. QED
    BY <1>1, <1>3, <2>1 DEF OverlayRight
<1>4. ASSUME b.overlay = a.overlay, DOMAIN b.tabs = DOMAIN a.tabs, RequestRight(a)
      PROVE  RequestRight(b)
  BY <1>4 DEF RequestRight
<1>5. ASSUME b.transfer = a.transfer, TransferRight(a), TasksTyped PROVE TransferRight(b)
  <2>1. CASE a.transfer = None
    BY <1>5, <2>1 DEF TransferRight
  <2>2. CASE a.transfer # None
    <3>1. a.transfer \in DOMAIN copies /\ copies[a.transfer].request \in Requests
      BY <1>5, <2>2, CopiesAre DEF TransferRight
    <3>2. QED
      BY <1>1, <1>5, <2>2, <3>1 DEF TransferRight, Requests
  <2>3. QED
    BY <2>1, <2>2
<1>6. QED
  BY <1>2, <1>3, <1>4, <1>5

LEMMA RepairIs ==
  ASSUME NEW a \in Shape
  PROVE  LET b == RepairSelection(a)
         IN  /\ b \in Shape /\ SelectionRight(b) /\ \E s : b = [a EXCEPT !.selected = s]
<1> DEFINE s == OrNone(Records(a), Min(Records(a)))
           b == [a EXCEPT !.selected = s]
<1>1. s \in Records(a) \/ (s = None /\ Records(a) = {})
  BY MinIn DEF OrNone, Records, Conn
<1>2. s \in Conn \cup {None}
  BY <1>1 DEF Records
<1> HIDE DEF s
<1>3. b \in Shape /\ b.selected = s /\ b.conns = a.conns
  BY <1>2 DEF Shape
<1>4. SelectionRight(b)
  BY <1>1, <1>3 DEF SelectionRight, Records
<1>5. CASE a.selected \in Records(a)
  <2>1. RepairSelection(a) = a /\ a = [a EXCEPT !.selected = a.selected]
    BY <1>5 DEF RepairSelection, Shape
  <2>2. QED
    BY <1>5, <2>1 DEF SelectionRight
<1>6. CASE a.selected \notin Records(a)
  <2>1. RepairSelection(a) = b
    BY <1>6 DEF RepairSelection, s
  <2>2. QED
    BY <1>3, <1>4, <2>1
<1>7. QED
  BY <1>5, <1>6

LEMMA NoneIs == None \in 0..MaxRequests /\ None \in 0..MaxTransfers /\ None \in 0..MaxQuits
  BY AppAssumption DEF None

LEMMA OverlaysAre ==
  /\ NoOverlay \in Overlays /\ Manager \in Overlays
  /\ \A kind \in {"chooser", "remote"} : Overlay(kind) \in Overlays
  /\ \A c \in Conn, back \in {"none", "manager"} : Dialog(c, back) \in Overlays
  /\ \A c \in Conn : [Overlay("close") EXCEPT !.conn = c] \in Overlays
  /\ \A r \in Requests : [Overlay("overwrite") EXCEPT !.transfer = r] \in Overlays
<1>1. None \in 0..MaxRequests
  BY NoneIs
<1>2. \A kind \in {"none", "manager", "chooser", "remote", "newBrowser", "close", "overwrite"} :
        Overlay(kind) \in Overlays
  BY <1>1 DEF Overlay, Overlays, NoRequest
<1>3. /\ \A c \in Conn, back \in {"none", "manager"} : Dialog(c, back) \in Overlays
      /\ \A c \in Conn : [Overlay("close") EXCEPT !.conn = c] \in Overlays
  BY <1>1 DEF Dialog, Overlay, Overlays, NoRequest
<1>4. \A r \in Requests : [Overlay("overwrite") EXCEPT !.transfer = r] \in Overlays
  BY <1>1 DEF Overlay, Overlays, Requests
<1>5. QED
  BY <1>2, <1>3, <1>4 DEF NoOverlay, Manager

LEMMA ClearIs ==
  ASSUME NEW a \in Shape, NEW c \in Conn
  PROVE  LET b == ClearTransferState(a, c)
         IN  /\ b \in Shape
             /\ b.conns = a.conns /\ b.tabs = a.tabs /\ b.active = a.active
             /\ b.selected = a.selected /\ b.transfer = a.transfer /\ b.pending = a.pending
             /\ b.overlay \in {a.overlay, NoOverlay}
  BY OverlaysAre DEF ClearTransferState, Shape

LEMMA NoOverlayRight ==
  ASSUME NEW b, b.overlay = NoOverlay \/ b.overlay = Manager
  PROVE  /\ OverlayRight(b)
         /\ \A a : RequestRight(a) /\ DOMAIN b.tabs \subseteq DOMAIN a.tabs => RequestRight(b)
  BY DEF OverlayRight, RequestRight, NoOverlay, Manager, Overlay

LEMMA RemoveRecordKeeps ==
  ASSUME NEW a, Right(a), TasksTyped, NEW c \in Conn,
         a.conns[c].status \in {"failed", "closing", "gone"}
  PROVE  LET b == RemoveRecord(a, c)
         IN  /\ Right(b) /\ b.tabs = a.tabs /\ b.transfer = a.transfer /\ b.pending = a.pending
             /\ \A d \in Conn : b.conns[d].status =
                                 IF d = c THEN "gone" ELSE a.conns[d].status
<1> DEFINE b1 == ClearTransferState(a, c)
           left == Records(b1) \ {c}
           after == {d \in left : d > c}
           next == IF left = {} THEN None ELSE IF after # {} THEN Min(after) ELSE Max(left)
           s == IF b1.selected = c THEN next ELSE b1.selected
           b2 == [b1 EXCEPT !.conns[c] = [status |-> "gone", last |-> None],
                            !.selected = IF @ = c THEN next ELSE @]
           b == RepairSelection(b2)
<1>1. /\ a \in Shape /\ TabsRight(a) /\ SelectionRight(a) /\ OverlayRight(a) /\ RequestRight(a)
      /\ TransferRight(a)
  BY DEF Right
<1>2. /\ b1 \in Shape /\ b1.conns = a.conns /\ b1.tabs = a.tabs /\ b1.active = a.active
      /\ b1.selected = a.selected /\ b1.transfer = a.transfer /\ b1.pending = a.pending
      /\ b1.overlay \in {a.overlay, NoOverlay}
  BY <1>1, ClearIs
<1> HIDE DEF b1
<1>3. next \in Conn \cup {None}
  <2>1. left \subseteq 0..MaxConnections /\ after \subseteq Nat /\ after \subseteq left /\ MaxConnections \in Nat
        /\ left \subseteq Conn
    BY AppAssumption DEF Records, Conn
  <2> HIDE DEF left, after
  <2>2. after # {} => Min(after) \in left
    BY <2>1, MinIn
  <2>3. left # {} => Max(left) \in left
    BY <2>1, MaxIn
  <2>4. QED
    BY <2>1, <2>2, <2>3
<1> HIDE DEF next
<1>4. /\ b2 \in Shape /\ b2.tabs = a.tabs /\ b2.active = a.active /\ b2.transfer = a.transfer
      /\ b2.pending = a.pending /\ b2.overlay = b1.overlay
      /\ \A d \in Conn : b2.conns[d] =
                          IF d = c THEN [status |-> "gone", last |-> None] ELSE a.conns[d]
  BY <1>2, <1>3 DEF Shape, Statuses
<1> HIDE DEF b2
<1>5. b \in Shape /\ SelectionRight(b) /\ \E x : b = [b2 EXCEPT !.selected = x]
  BY <1>4, RepairIs
<1> HIDE DEF b
<1>6. /\ b.tabs = a.tabs /\ b.active = a.active /\ b.transfer = a.transfer
      /\ b.pending = a.pending /\ b.overlay \in {a.overlay, NoOverlay} /\ b.conns = b2.conns
  BY <1>2, <1>4, <1>5 DEF Shape
<1>7. \A d \in Conn : /\ a.conns[d].status = "ready" => b.conns[d].status = "ready"
                      /\ b.conns[d].last = a.conns[d].last
  <2>1. TabsOf(a, c) = {}
    BY <1>1 DEF TabsRight, TabsOf, Ready
  <2>2. a.conns[c].last = None
    BY <1>1, <2>1 DEF TabsRight
  <2>3. QED
    BY <1>4, <1>6, <2>2
<1>8. TabsRight(b) /\ TransferRight(b)
  BY <1>1, <1>5, <1>6, <1>7, ReadyStands
<1>9. OverlayRight(b) /\ RequestRight(b)
  BY <1>1, <1>5, <1>6, <1>7, ReadyStands, NoOverlayRight
<1>10. RemoveRecord(a, c) = b
  BY Zenon DEF RemoveRecord, b, b2, next, b1
<1>11. QED
  BY <1>4, <1>5, <1>6, <1>8, <1>9, <1>10 DEF Right

-----------------------------------------------------------------------------
(***************************************************************************)
(* What is reported.                                                        *)
(***************************************************************************)
LEMMA ApplyKeeps ==
  ASSUME Right(app), TasksTyped, NEW e \in Event, EventRight(e)
  PROVE  LET b == ApplyTo(app, e)
         IN  /\ Right(b)
             /\ \A c \in Conn : app.conns[c].status \in {"closing", "gone"} =>
                                 b.conns[c].status \in {"closing", "gone"}
             /\ b.transfer = app.transfer
                  \/ (e.kind = "copied" /\ e.id = app.transfer /\ b.transfer = None)
             /\ b.pending = app.pending
                  \/ (e.kind = "unconfirmed" /\ e.id = app.pending /\ b.pending = None)
             /\ \A t \in DOMAIN b.tabs \ DOMAIN app.tabs :
                  b.tabs[t] = [conn |-> app.overlay.conn, root |-> app.overlay.path]
<1> DEFINE b == ApplyTo(app, e)
<1>1. /\ app \in Shape /\ TabsRight(app) /\ SelectionRight(app) /\ OverlayRight(app)
      /\ RequestRight(app) /\ TransferRight(app)
  BY DEF Right
<1>2. CASE b = app
  BY <1>1, <1>2 DEF Right
<1>3. ASSUME e.kind \in {"ready", "failed"}, b # app PROVE
        /\ Right(b) /\ b.tabs = app.tabs /\ b.transfer = app.transfer /\ b.pending = app.pending
        /\ \A c \in Conn : app.conns[c].status \in {"closing", "gone"} =>
                            b.conns[c].status \in {"closing", "gone"}
  <2>1. e.conn \in Conn
    BY <1>3 DEF Event
  <2>2. PICK s \in {"ready", "failed"} :
          b = [app EXCEPT !.conns[e.conn].status = s] /\ app.conns[e.conn].status = "starting"
    BY <1>3 DEF ApplyTo, ApplyReady, ApplyFailed
  <2> HIDE DEF b
  <2>3. /\ b \in Shape /\ b.tabs = app.tabs /\ b.active = app.active /\ b.selected = app.selected
        /\ b.overlay = app.overlay /\ b.transfer = app.transfer /\ b.pending = app.pending
        /\ \A c \in Conn : /\ b.conns[c].last = app.conns[c].last
                           /\ b.conns[c].status = IF c = e.conn THEN s ELSE app.conns[c].status
    BY <1>1, <2>1, <2>2, SMTT(60) DEF Shape, Statuses
  <2>4. Records(b) = Records(app)
    BY <2>2, <2>3 DEF Records
  <2>5. \A c \in Conn : app.conns[c].status = "ready" => b.conns[c].status = "ready"
    BY <2>2, <2>3
  <2>6. TabsRight(b) /\ OverlayRight(b) /\ RequestRight(b) /\ TransferRight(b)
    BY <1>1, <2>3, <2>5, ReadyStands
  <2>7. QED
    BY <1>1, <2>2, <2>3, <2>4, <2>6 DEF Right, SelectionRight
<1>4. ASSUME e.kind = "closed" PROVE
        /\ Right(b) /\ b.tabs = app.tabs /\ b.transfer = app.transfer /\ b.pending = app.pending
        /\ \A c \in Conn : app.conns[c].status \in {"closing", "gone"} =>
                            b.conns[c].status \in {"closing", "gone"}
  <2>1. e.conn \in Conn /\ app.conns[e.conn].status \in {"closing", "gone"}
    BY <1>4 DEF Event, EventRight
  <2>2. b = RemoveRecord(app, e.conn)
    BY <1>4 DEF ApplyTo
  <2>3. QED
    BY <2>1, <2>2, RemoveRecordKeeps
<1>5. CASE e.kind = "unconfirmed" /\ b # app
  <2>1. b = [app EXCEPT !.pending = None] /\ app.pending = e.id
    BY <1>5 DEF ApplyTo, ApplyUnconfirmed
  <2> HIDE DEF b
  <2>2. /\ b \in Shape /\ b.pending = None /\ b.transfer = app.transfer /\ b.conns = app.conns
        /\ b.tabs = app.tabs /\ b.active = app.active /\ b.selected = app.selected
        /\ b.overlay = app.overlay
    BY <1>1, <2>1, AppAssumption DEF Shape, None
  <2>3. Right(b)
    BY <1>1, <2>2, ReadyStands DEF Right, SelectionRight, Records
  <2>4. QED
    BY <1>5, <2>1, <2>2, <2>3 DEF b
<1>6. CASE e.kind = "copied" /\ b # app
  <2>1. /\ app.transfer = e.id /\ e.id # None /\ e.request \in Requests
        /\ Ready(app, e.request.src) /\ Ready(app, e.request.dst)
    BY <1>1, <1>6 DEF ApplyTo, ApplyCopied, Finishes, Event, EventRight, TransferRight, None
  <2>2. PICK o \in {app.overlay, [Overlay("overwrite") EXCEPT !.transfer = e.request]} :
          b = [app EXCEPT !.transfer = None, !.overlay = o]
    <3>1. app = [app EXCEPT !.overlay = app.overlay]
      BY <1>1 DEF Shape
    <3>2. QED
      BY <1>1, <1>6, <3>1, ZenonT(60) DEF ApplyTo, ApplyCopied, Shape
  <2> HIDE DEF b
  <2>3. o \in Overlays
    BY <1>1, <2>1, <2>2, OverlaysAre DEF Shape
  <2>4. /\ b \in Shape /\ b.transfer = None /\ b.pending = app.pending /\ b.conns = app.conns
        /\ b.tabs = app.tabs /\ b.active = app.active /\ b.selected = app.selected
        /\ b.overlay = o
    BY <1>1, <2>2, <2>3, NoneIs DEF Shape
  <2>5. TabsRight(b) /\ SelectionRight(b) /\ TransferRight(b)
    BY <1>1, <2>4, ReadyStands DEF SelectionRight, Records, TransferRight
  <2>6. OverlayRight(b) /\ RequestRight(b)
    <3>1. CASE o = app.overlay
      BY <1>1, <2>4, <3>1, ReadyStands
    <3>2. CASE o = [Overlay("overwrite") EXCEPT !.transfer = e.request]
      <4>1. o.kind = "overwrite" /\ o.transfer = e.request /\ o.request = None
        BY <3>2 DEF Overlay
      <4>2. QED
        BY <1>1, <2>1, <2>4, <4>1 DEF OverlayRight, RequestRight, Ready
    <3>3. QED
      BY <3>1, <3>2
  <2>7. QED
    BY <1>6, <2>1, <2>4, <2>5, <2>6 DEF Right, b
<1>7. CASE e.kind = "resolved" /\ b # app
  <2>1. /\ e.id \in 1..MaxRequests /\ e.conn \in Conn /\ e.path \in Path
        /\ e.id <= asked /\ e.path = Typed[e.id] /\ asked \in Nat
    BY <1>7 DEF Event, EventRight, TasksTyped
  <2>2. /\ Current(app, e) /\ app.overlay.request = e.id
        /\ app.overlay.conn = e.conn /\ app.overlay.path = e.path
        /\ e.id + 1 \notin DOMAIN app.tabs
    BY <1>1, <1>7, <2>1 DEF ApplyTo, ApplyResolved, Current, RequestRight, None
  <2>3. CASE ~e.ok
    <3>1. b = [app EXCEPT !.overlay.request = None, !.overlay.path = None]
      BY <1>7, <2>2, <2>3 DEF ApplyTo, ApplyResolved
    <3> HIDE DEF b
    <3>2. /\ b \in Shape /\ b.transfer = app.transfer /\ b.pending = app.pending
          /\ b.conns = app.conns /\ b.tabs = app.tabs /\ b.active = app.active
          /\ b.selected = app.selected /\ b.overlay.request = None
          /\ b.overlay.kind = app.overlay.kind /\ b.overlay.conn = app.overlay.conn
      <4>1. app.overlay \in Overlays /\ b = [app EXCEPT !.overlay =
              [app.overlay EXCEPT !.request = None, !.path = None]]
        BY <1>1, <3>1 DEF Shape
      <4>2. [app.overlay EXCEPT !.request = None, !.path = None] \in Overlays
        BY <4>1, NoneIs DEF Overlays
      <4>3. /\ b \in Shape /\ b.overlay = [app.overlay EXCEPT !.request = None, !.path = None]
            /\ b.transfer = app.transfer /\ b.pending = app.pending
            /\ b.conns = app.conns /\ b.tabs = app.tabs /\ b.active = app.active
            /\ b.selected = app.selected
        BY <1>1, <4>1, <4>2 DEF Shape
      <4>4. LET o == [app.overlay EXCEPT !.request = None, !.path = None]
            IN  o.request = None /\ o.kind = app.overlay.kind /\ o.conn = app.overlay.conn
        BY <4>1 DEF Overlays
      <4>5. QED
        BY <4>3, <4>4
    <3>3. TabsRight(b) /\ SelectionRight(b) /\ TransferRight(b)
      BY <1>1, <3>2, ReadyStands DEF SelectionRight, Records
    <3>4. OverlayRight(b) /\ RequestRight(b)
      BY <1>1, <2>2, <3>2 DEF OverlayRight, RequestRight, Ready, Current
    <3>5. QED
      BY <3>2, <3>3, <3>4 DEF Right, b
  <2>4. CASE e.ok
    <3> DEFINE x == AddContext(app, e.id + 1, e.conn, e.path)
    <3>1. b = [x EXCEPT !.overlay = NoOverlay] /\ Ready(app, e.conn)
      BY <1>7, <2>2, <2>4 DEF ApplyTo, ApplyResolved
    <3>2. e.id + 1 \in TabId
      BY <2>1, AppAssumption DEF TabId
    <3>3. /\ x \in Shape /\ SameRows(app, x) /\ TabsRight(x)
          /\ DOMAIN x.tabs = DOMAIN app.tabs \cup {e.id + 1}
          /\ x.tabs[e.id + 1] = [conn |-> e.conn, root |-> e.path]
      BY <1>1, <2>1, <2>2, <3>1, <3>2, AddContextKeeps
    <3> HIDE DEF x, b
    <3>4. /\ b \in Shape /\ b.transfer = x.transfer /\ b.pending = x.pending
          /\ b.conns = x.conns /\ b.tabs = x.tabs /\ b.active = x.active
          /\ b.selected = x.selected /\ b.overlay = NoOverlay
      BY <3>1, <3>3, OverlaysAre DEF Shape
    <3>5. TabsRight(b)
      BY <3>3, <3>4, ReadyStands
    <3>6. SelectionRight(b) /\ TransferRight(b)
      BY <1>1, <3>3, <3>4, RowsStand, ReadyStands DEF SelectionRight, Records
    <3>7. OverlayRight(b)
      BY <3>4, NoOverlayRight
    <3>8. RequestRight(b)
      <4>1. \A t \in DOMAIN b.tabs : t <= asked + 1
        BY <1>1, <2>1, <3>3, <3>4 DEF RequestRight
      <4>2. QED
        BY <3>4, <4>1 DEF RequestRight, NoOverlay, Overlay
    <3>9. \A t \in DOMAIN b.tabs \ DOMAIN app.tabs :
            b.tabs[t] = [conn |-> app.overlay.conn, root |-> app.overlay.path]
      BY <2>2, <3>3, <3>4
    <3>10. b.transfer = app.transfer /\ b.pending = app.pending
           /\ \A c \in Conn : b.conns[c].status = app.conns[c].status
      BY <3>3, <3>4 DEF SameRows
    <3>11. QED
      BY <3>4, <3>5, <3>6, <3>7, <3>8, <3>9, <3>10 DEF Right, b
  <2>5. QED
    BY <2>3, <2>4
<1>8. e.kind \in {"ready", "failed", "closed", "resolved", "copied", "unconfirmed"}
  BY DEF Event
<1>9. QED
  BY <1>2, <1>3, <1>4, <1>5, <1>6, <1>7, <1>8

-----------------------------------------------------------------------------
(***************************************************************************)
(* Keys.  `b` is the App as a key leaves it, but for the quit that it stands *)
(* down.                                                                    *)
(***************************************************************************)
Steady(b) ==
  /\ Right(b) /\ b.transfer = app.transfer
  /\ \A c \in Conn : app.conns[c].status \in {"closing", "gone"} =>
                      b.conns[c].status \in {"closing", "gone"}

(* What a report is right about stays so. *)
Onward ==
  /\ \A c \in Conn : app.conns[c].status \in {"closing", "gone"} =>
                      app'.conns[c].status \in {"closing", "gone"}
  /\ asked' \in Nat /\ asked <= asked' /\ quits' \in Nat /\ quits <= quits'
  /\ \A x \in DOMAIN copies : /\ x \in DOMAIN copies'
                              /\ copies'[x].request = copies[x].request
                              /\ copies'[x].runs => copies[x].runs
  /\ \A q \in timers' \ timers : q > quits

LEMMA EventStands ==
  ASSUME TasksTyped, Onward, NEW e \in Event, EventRight(e)
  PROVE  EventRight(e)'
<1>1. asked \in Nat /\ quits \in Nat
  BY DEF TasksTyped
<1>2. e.kind = "closed" => e.conn \in Conn
  BY DEF Event
<1>3. e.kind \in {"resolved", "unconfirmed"} => e.id \in Nat
  BY DEF Event
<1>4. e.kind = "closed" => app'.conns[e.conn].status \in {"closing", "gone"}
  BY <1>2 DEF EventRight, Onward
<1>5. e.kind = "resolved" => e.id <= asked' /\ e.path = Typed[e.id]
  BY <1>1, <1>3 DEF EventRight, Onward
<1>6. e.kind = "copied" => /\ e.id \in DOMAIN copies' /\ e.request = copies'[e.id].request
                           /\ ~copies'[e.id].runs
  <2> SUFFICES ASSUME e.kind = "copied"
               PROVE  /\ e.id \in DOMAIN copies' /\ e.request = copies'[e.id].request
                      /\ ~copies'[e.id].runs
    OBVIOUS
  <2>1. PICK y \in DOMAIN copies : y = e.id
    BY DEF EventRight
  <2>2. e.request = copies[y].request /\ ~copies[y].runs
    BY <2>1 DEF EventRight
  <2>3. /\ y \in DOMAIN copies' /\ copies'[y].request = copies[y].request
        /\ copies'[y].runs => copies[y].runs
    BY <2>1 DEF Onward
  <2>4. QED
    BY <2>1, <2>2, <2>3
<1>7. e.kind = "unconfirmed" => e.id <= quits' /\ e.id \notin timers'
  BY <1>1, <1>3 DEF EventRight, Onward
<1>8. QED
  BY <1>4, <1>5, <1>6, <1>7 DEF EventRight

LEMMA EventsStand ==
  ASSUME TasksTyped, Onward, EventsRight, events' = events
  PROVE  EventsRight'
<1> SUFFICES ASSUME NEW i \in DOMAIN events PROVE EventRight(events[i])'
  BY DEF EventsRight
<1>1. events[i] \in Event /\ EventRight(events[i])
  BY DEF EventsRight
<1>2. QED
  BY <1>1, EventStands

LEMMA QuietKeeps ==
  ASSUME NEW b, Right(b), TasksTyped
  PROVE  LET x == [b EXCEPT !.pending = None]
         IN  /\ Right(x) /\ x.conns = b.conns /\ x.transfer = b.transfer /\ x.overlay = b.overlay
             /\ x.tabs = b.tabs /\ x.pending = None
<1> DEFINE x == [b EXCEPT !.pending = None]
<1>1. /\ x \in Shape /\ x.pending = None /\ x.transfer = b.transfer /\ x.conns = b.conns
      /\ x.tabs = b.tabs /\ x.active = b.active /\ x.selected = b.selected
      /\ x.overlay = b.overlay
  BY NoneIs DEF Shape, Right
<1> HIDE DEF x
<1>2. Right(x)
  BY <1>1, ReadyStands DEF Right, SelectionRight, Records
<1>3. QED
  BY <1>1, <1>2 DEF x

LEMMA PlainKey ==
  ASSUME Inv, phase = "running", NEW b, Steady(b),
         app' = [b EXCEPT !.pending = None], timers' = timers \ {app.pending},
         resolving' \in SUBSET resolving, start' \in [Conn -> {"none", "opening", "opened"}],
         UNCHANGED <<registry, copies, closing, events, asked, quits, phase>>
  PROVE  Inv'
<1>1. /\ TasksTyped /\ Right(app) /\ EventsRight /\ Asked /\ ClosingRight /\ CopiesOwned
      /\ timers \subseteq {app.pending}
  BY DEF Inv, WhileRunning
<1>2. /\ Right(app') /\ app'.conns = b.conns /\ app'.transfer = app.transfer
      /\ timers' = {}
  BY <1>1, QuietKeeps DEF Steady
<1>3. TasksTyped'
  BY <1>1 DEF TasksTyped
<1>4. Right(app)'
  BY <1>2 DEF Right, RequestRight, TransferRight
<1>5. Onward
  BY <1>1, <1>2 DEF Onward, Steady, TasksTyped
<1>6. EventsRight' /\ Asked' /\ ClosingRight'
  BY <1>1, <1>2, <1>5, EventsStand DEF Asked, ClosingRight, Steady
<1>7. CopiesOwned'
  BY <1>1, <1>2 DEF CopiesOwned, Joined
<1>8. Ended'
  BY DEF Ended
<1>9. QED
  BY <1>2, <1>3, <1>4, <1>6, <1>7, <1>8 DEF Inv, WhileRunning

LEMMA ShowKeeps ==
  ASSUME Right(app), TasksTyped, NEW o \in Overlays, OverlayRight(Show(o)), o.request = None
  PROVE  /\ Steady(Show(o)) /\ Show(o).overlay = o
         /\ \A f \in {"conns", "tabs", "active", "selected", "clip", "transfer", "pending"} :
              Show(o)[f] = app[f]
<1>1. /\ Show(o) \in Shape /\ Show(o).overlay = o /\ Show(o).conns = app.conns
      /\ Show(o).tabs = app.tabs /\ Show(o).active = app.active
      /\ Show(o).selected = app.selected /\ Show(o).transfer = app.transfer
      /\ Show(o).clip = app.clip /\ Show(o).pending = app.pending
  BY DEF Show, Right, Shape
<1>2. TabsRight(Show(o)) /\ SelectionRight(Show(o)) /\ TransferRight(Show(o))
  BY <1>1, ReadyStands DEF Right, SelectionRight, Records
<1>3. RequestRight(Show(o))
  BY <1>1 DEF Right, RequestRight
<1>4. QED
  BY <1>1, <1>2, <1>3 DEF Steady, Right

(* A handler of tabs. *)
LEMMA TabsSteady ==
  ASSUME Right(app), TasksTyped, NEW b \in Shape, SameRows(app, b), TabsRight(b),
         DOMAIN b.tabs \subseteq DOMAIN app.tabs
  PROVE  Steady(b)
<1>1. SelectionRight(b) /\ OverlayRight(b) /\ RequestRight(b) /\ TransferRight(b)
  BY RowsStand DEF Right
<1>2. QED
  BY <1>1 DEF Steady, Right, SameRows

LEMMA ActivateSteady ==
  ASSUME Right(app), TasksTyped, NEW t \in DOMAIN app.tabs
  PROVE  Steady(Activate(app, t))
<1>1. app \in Shape /\ TabsRight(app)
  BY DEF Right
<1>2. TabsRight(Activate(app, t))
  BY <1>1, ActivateKeeps DEF TabsRight
<1>3. /\ Activate(app, t) \in Shape /\ SameRows(app, Activate(app, t))
      /\ Activate(app, t).tabs = app.tabs
  BY <1>1, ActivateIs
<1>4. QED
  BY <1>2, <1>3, TabsSteady

LEMMA TabNumbers ==
  ASSUME Right(app)
  PROVE  /\ DOMAIN app.tabs \in SUBSET TabId /\ DOMAIN app.tabs \in SUBSET Nat
         /\ DOMAIN app.tabs \in SUBSET (0..MaxRequests + 1) /\ MaxRequests + 1 \in Nat
         /\ \A t \in DOMAIN app.tabs : app.tabs[t] \in [conn : Conn, root : Path]
  BY TabsAre, AppAssumption DEF Right, Shape, TabId

LEMMA TabKeys ==
  ASSUME Inv, SwitchContext \/ CloseActiveContext
  PROVE  Inv'
<1>1. Right(app) /\ TasksTyped /\ phase = "running"
  BY DEF SwitchContext, CloseActiveContext, In, Inv, WhileRunning
<1>2. ASSUME NEW b, Steady(b), Key(b) PROVE Inv'
  BY <1>1, <1>2, PlainKey DEF Key, Quiet, TasksTyped
<1>3. CASE SwitchContext
  <2> DEFINE ids    == DOMAIN app.tabs
             after  == {t \in ids : t > app.active}
             before == {t \in ids : t < app.active}
             up     == IF after = {} THEN Min(ids) ELSE Min(after)
             down   == IF before = {} THEN Max(ids) ELSE Max(before)
  <2>1. Key(Activate(app, up)) \/ Key(Activate(app, down))
    BY <1>3, Zenon DEF SwitchContext
  <2>2. ids \in SUBSET Nat /\ ids \in SUBSET (0..MaxRequests + 1) /\ MaxRequests + 1 \in Nat
    BY <1>1, TabNumbers
  <2>3. ids # {}
    <3>1. Cardinality({}) = 0
      BY FS_EmptySet
    <3>2. QED
      BY <1>3, <3>1 DEF SwitchContext
  <2> HIDE DEF ids
  <2>4. up \in ids
    <3>1. after \in SUBSET Nat /\ after \subseteq ids
      BY <2>2
    <3>2. QED
      BY <2>2, <2>3, <3>1, MinIn
  <2>5. down \in ids
    <3>1. before \in SUBSET (0..MaxRequests + 1) /\ before \subseteq ids
      BY <2>2
    <3>2. QED
      BY <2>2, <2>3, <3>1, MaxIn
  <2> HIDE DEF up, down
  <2>6. Steady(Activate(app, up)) /\ Steady(Activate(app, down))
    BY <1>1, <2>4, <2>5, ActivateSteady DEF ids
  <2>7. QED
    BY <1>2, <2>1, <2>6
<1>4. CASE CloseActiveContext
  <2> DEFINE t == app.active
             c == app.tabs[t].conn
             b == RemoveContexts(app, c, {t})
  <2>1. app.active # None /\ Key(b)
    BY <1>4 DEF CloseActiveContext, RemoveContext
  <2>2. t \in DOMAIN app.tabs /\ TabsRight(app) /\ app \in Shape
    BY <1>1, <2>1 DEF Right, TabsRight
  <2>3. c \in Conn /\ {t} \in SUBSET TabsOf(app, c)
    BY <1>1, <2>2, TabNumbers DEF TabsOf
  <2>4. /\ b \in Shape /\ SameRows(app, b) /\ TabsRight(b)
        /\ DOMAIN b.tabs \subseteq DOMAIN app.tabs
    BY <2>2, <2>3, RemoveContextsKeeps DEF TabsRight
  <2> HIDE DEF b
  <2>5. Steady(b)
    BY <1>1, <2>4, TabsSteady
  <2>6. QED
    BY <1>2, <2>1, <2>5
<1>5. QED
  BY <1>3, <1>4

LEMMA ManagerKeys ==
  ASSUME Inv,
         \/ OpenManager \/ DismissOverlay \/ OpenAddConnection \/ ChooseRemote
         \/ MoveConnectionSelection \/ ActivateConnection \/ NewBrowserForConnection
         \/ NewBrowserForActive \/ DeleteConnection \/ CancelDialog \/ Yank
  PROVE  Inv'
<1>1. Right(app) /\ TasksTyped /\ phase = "running"
  BY DEF OpenManager, DismissOverlay, OpenAddConnection, ChooseRemote, MoveConnectionSelection,
     ActivateConnection, NewBrowserForConnection, NewBrowserForActive, DeleteConnection,
     CancelDialog, Yank, In, Inv, WhileRunning
<1>2. /\ app \in Shape /\ TabsRight(app) /\ SelectionRight(app) /\ OverlayRight(app)
      /\ RequestRight(app) /\ TransferRight(app)
  BY <1>1 DEF Right
<1>3. ASSUME NEW b, Steady(b), Key(b) PROVE Inv'
  BY <1>1, <1>3, PlainKey DEF Key, Quiet, TasksTyped
<1>4. \A kind \in {"chooser", "remote"} :
        Overlay(kind) \in Overlays /\ Overlay(kind).request = None /\ OverlayRight(Show(Overlay(kind)))
  BY <1>2, OverlaysAre DEF Overlay, OverlayRight, Show, Shape
<1>5. \A o \in {NoOverlay, Manager} :
        o \in Overlays /\ o.request = None /\ OverlayRight(Show(o))
  BY <1>2, OverlaysAre DEF NoOverlay, Manager, Overlay, OverlayRight, Show, Shape
<1>6. ASSUME NEW c \in Conn, Ready(app, c)
      PROVE  /\ \A back \in {"none", "manager"} : Steady(Show(Dialog(c, back)))
             /\ Steady(Show([Overlay("close") EXCEPT !.conn = c]))
  <2>1. ASSUME NEW o \in Overlays, o.kind \in {"newBrowser", "close"}, o.conn = c,
               o.request = None
        PROVE  Steady(Show(o))
    BY <1>1, <1>2, <1>6, <2>1, ShowKeeps DEF OverlayRight, Show, Shape, Ready
  <2>2. QED
    BY <2>1, OverlaysAre DEF Dialog, Overlay
<1>7. CASE OpenManager
  <2> DEFINE m == Show(Manager)
             b == RepairSelection(m)
  <2>1. Steady(m) /\ m.overlay = Manager
    BY <1>1, <1>5, ShowKeeps
  <2>2. m \in Shape /\ Right(m)
    BY <2>1 DEF Steady, Right
  <2> HIDE DEF m
  <2>3. b \in Shape /\ SelectionRight(b) /\ \E s : b = [m EXCEPT !.selected = s]
    BY <2>2, RepairIs
  <2> HIDE DEF b
  <2>4. /\ b.tabs = m.tabs /\ b.active = m.active /\ b.transfer = m.transfer
        /\ b.overlay = m.overlay /\ b.conns = m.conns
    BY <2>2, <2>3 DEF Shape
  <2>5. Right(b)
    BY <1>1, <2>2, <2>3, <2>4, ReadyStands DEF Right
  <2>6. Steady(b) /\ Key(b)
    BY <1>7, <2>1, <2>4, <2>5 DEF Steady, OpenManager, b, m
  <2>7. QED
    BY <1>3, <2>6
<1>8. CASE DismissOverlay
  BY <1>1, <1>3, <1>5, <1>8, ShowKeeps DEF DismissOverlay
<1>9. CASE OpenAddConnection \/ ChooseRemote
  BY <1>1, <1>3, <1>4, <1>9, ShowKeeps DEF OpenAddConnection, ChooseRemote
<1>10. CASE MoveConnectionSelection
  <2> DEFINE above == {c \in Records(app) : c < app.selected}
             below == {c \in Records(app) : c > app.selected}
             s1 == IF below = {} THEN app.selected ELSE Min(below)
             s2 == IF above = {} THEN app.selected ELSE Max(above)
  <2>1. Key([app EXCEPT !.selected = s1]) \/ Key([app EXCEPT !.selected = s2])
    BY <1>10 DEF MoveConnectionSelection
  <2>2. Records(app) # {} /\ Records(app) \subseteq 0..MaxConnections /\ MaxConnections \in Nat
        /\ Records(app) \subseteq Conn
    BY <1>10, AppAssumption DEF MoveConnectionSelection, Records, Conn
  <2>3. app.selected \in Records(app)
    BY <1>2, <2>2 DEF SelectionRight
  <2>4. s1 \in Records(app)
    <3>1. below \in SUBSET Nat /\ below \subseteq Records(app)
      BY <2>2
    <3>2. QED
      BY <2>3, <3>1, MinIn
  <2>5. s2 \in Records(app)
    <3>1. above \in SUBSET (0..MaxConnections) /\ above \subseteq Records(app)
      BY <2>2
    <3>2. QED
      BY <2>2, <2>3, <3>1, MaxIn
  <2> HIDE DEF s1, s2
  <2>6. ASSUME NEW s \in Records(app) PROVE Steady([app EXCEPT !.selected = s])
    <3> DEFINE b == [app EXCEPT !.selected = s]
    <3>1. /\ b \in Shape /\ b.selected = s /\ b.conns = app.conns /\ b.tabs = app.tabs
          /\ b.active = app.active /\ b.overlay = app.overlay /\ b.transfer = app.transfer
      BY <1>2, <2>2 DEF Shape
    <3> HIDE DEF b
    <3>2. SelectionRight(b)
      BY <3>1 DEF SelectionRight, Records
    <3>3. Steady(b)
      BY <1>1, <1>2, <3>1, <3>2, ReadyStands DEF Steady, Right
    <3>4. QED
      BY <3>3 DEF b
  <2>7. QED
    BY <1>3, <2>1, <2>4, <2>5, <2>6
<1>11. CASE ActivateConnection
  <2> DEFINE c == app.selected
             last == app.conns[c].last
  <2>1. Ready(app, c) /\ c \in Conn
    BY <1>2, <1>11 DEF ActivateConnection, Ready, Shape
  <2>2. CASE last # None
    <3> DEFINE m == Show(NoOverlay)
    <3>1. Steady(m) /\ m.tabs = app.tabs /\ last \in DOMAIN app.tabs
      BY <1>1, <1>2, <1>5, <2>1, <2>2, ShowKeeps DEF TabsRight, TabsOf
    <3>2. m \in Shape /\ Right(m)
      BY <3>1 DEF Steady, Right
    <3>3. Key(Activate(m, last))
      BY <1>11, <2>2 DEF ActivateConnection
    <3> HIDE DEF m
    <3>4. /\ Activate(m, last) \in Shape /\ SameRows(m, Activate(m, last))
          /\ Activate(m, last).tabs = m.tabs
      BY <3>1, <3>2, ActivateIs
    <3>5. TabsRight(Activate(m, last))
      BY <3>1, <3>2, ActivateKeeps DEF Right, TabsRight
    <3>6. Right(Activate(m, last))
      BY <1>1, <3>2, <3>4, <3>5, RowsStand DEF Right
    <3>7. Steady(Activate(m, last))
      BY <3>1, <3>4, <3>6 DEF Steady, SameRows
    <3>8. QED
      BY <1>3, <3>3, <3>7
  <2>3. CASE last = None
    BY <1>3, <1>6, <1>11, <2>1, <2>3 DEF ActivateConnection
  <2>4. QED
    BY <2>2, <2>3
<1>12. CASE NewBrowserForConnection
  <2>1. Ready(app, app.selected) /\ app.selected \in Conn
    BY <1>2, <1>12 DEF NewBrowserForConnection, Ready, Shape
  <2>2. QED
    BY <1>3, <1>6, <1>12, <2>1 DEF NewBrowserForConnection
<1>13. CASE NewBrowserForActive
  <2>1. app.active \in DOMAIN app.tabs
    BY <1>2, <1>13 DEF NewBrowserForActive, TabsRight
  <2>2. app.tabs[app.active].conn \in Conn /\ Ready(app, app.tabs[app.active].conn)
    BY <1>1, <1>2, <2>1, TabNumbers DEF TabsRight
  <2>3. QED
    BY <1>3, <1>6, <1>13, <2>2 DEF NewBrowserForActive
<1>14. CASE DeleteConnection
  <2>1. app.selected \in Conn
    BY <1>2, <1>14 DEF DeleteConnection, Shape
  <2>2. CASE app.conns[app.selected].status = "failed" /\ Key(RemoveRecord(app, app.selected))
    <3>1. Steady(RemoveRecord(app, app.selected))
      BY <1>1, <2>1, <2>2, RemoveRecordKeeps DEF Steady
    <3>2. QED
      BY <1>3, <2>2, <3>1
  <2>3. CASE /\ Ready(app, app.selected)
             /\ Key(Show([Overlay("close") EXCEPT !.conn = app.selected]))
    BY <1>3, <1>6, <2>1, <2>3
  <2>4. QED
    BY <1>14, <2>2, <2>3 DEF DeleteConnection
<1>15. CASE CancelDialog
  <2>1. PICK o \in {NoOverlay, Manager} : Quiet(Show(o))
    BY <1>15 DEF CancelDialog
  <2>2. Steady(Show(o))
    BY <1>1, <1>5, ShowKeeps
  <2>3. resolving' \in SUBSET resolving /\ UNCHANGED <<start, copies, closing, asked>>
    BY <1>15 DEF CancelDialog
  <2>4. QED
    BY <1>1, <2>1, <2>2, <2>3, PlainKey DEF Quiet, TasksTyped
<1>16. CASE Yank
  <2> DEFINE c == app.tabs[app.active].conn
             b == [app EXCEPT !.clip = c]
  <2>1. c \in Conn
    BY <1>1, <1>2, <1>16, TabNumbers DEF Yank, TabsRight
  <2>2. /\ b \in Shape /\ b.selected = app.selected /\ b.conns = app.conns
        /\ b.tabs = app.tabs /\ b.active = app.active /\ b.overlay = app.overlay
        /\ b.transfer = app.transfer
    BY <1>2, <2>1 DEF Shape
  <2>3. Key(b)
    BY <1>16 DEF Yank
  <2> HIDE DEF b
  <2>4. Steady(b)
    BY <1>1, <1>2, <2>2, ReadyStands DEF Steady, Right, SelectionRight, Records
  <2>5. QED
    BY <1>3, <2>3, <2>4
<1>17. QED
  BY <1>7, <1>8, <1>9, <1>10, <1>11, <1>12, <1>13, <1>14, <1>15, <1>16

-----------------------------------------------------------------------------
(***************************************************************************)
(* Keys that start a task.                                                  *)
(***************************************************************************)
LEMMA RunningKeeps ==
  ASSUME Inv, phase = "running", phase' = "running", TasksTyped', Right(app)', Onward,
         events' = events, Asked', ClosingRight', timers' \subseteq {app'.pending}, CopiesOwned'
  PROVE  Inv'
<1>1. EventsRight'
  BY EventsStand DEF Inv, WhileRunning
<1>2. QED
  BY <1>1 DEF Inv, WhileRunning, Ended

LEMMA StartConnectionKeeps == ASSUME Inv, StartConnection PROVE Inv'
<1>1. Right(app) /\ TasksTyped /\ phase = "running"
  BY DEF StartConnection, In, Inv, WhileRunning
<1>2. PICK c \in Conn :
        /\ app.conns[c].status = "absent" /\ start' = [start EXCEPT ![c] = "opening"]
        /\ Quiet([Show(Manager) EXCEPT !.conns[c].status = "starting",
                                       !.selected = IF @ = None THEN c ELSE @])
  BY DEF StartConnection
<1> DEFINE m == Show(Manager)
           b == [m EXCEPT !.conns[c].status = "starting",
                          !.selected = IF @ = None THEN c ELSE @]
<1>3. m \in Shape /\ Right(m) /\ m.overlay = Manager /\ m.conns = app.conns
      /\ m.transfer = app.transfer
  BY <1>1, OverlaysAre, ShowKeeps DEF OverlayRight, Manager, Overlay, Show, Right, Shape, Steady
<1> HIDE DEF m
<1>4. /\ b \in Shape /\ b.tabs = m.tabs /\ b.active = m.active /\ b.transfer = m.transfer
      /\ b.overlay = m.overlay /\ b.selected = IF m.selected = None THEN c ELSE m.selected
      /\ \A d \in Conn : /\ b.conns[d].last = m.conns[d].last
                         /\ b.conns[d].status = IF d = c THEN "starting" ELSE m.conns[d].status
  BY <1>3, ZenonT(60) DEF Shape, Statuses
<1> HIDE DEF b
<1>5. \A d \in Conn : m.conns[d].status = "ready" => b.conns[d].status = "ready"
  BY <1>2, <1>3, <1>4
<1>6. SelectionRight(b)
  BY <1>3, <1>4 DEF Right, SelectionRight, Records
<1>7. Right(b)
  BY <1>1, <1>3, <1>4, <1>5, <1>6, ReadyStands DEF Right
<1>8. Steady(b)
  BY <1>2, <1>3, <1>4, <1>7 DEF Steady
<1>9. Quiet(b) /\ UNCHANGED <<resolving, copies, closing, asked>>
  BY <1>2 DEF StartConnection, b, m
<1>10. start' \in [Conn -> {"none", "opening", "opened"}]
  BY <1>1, <1>2 DEF TasksTyped
<1>11. QED
  BY <1>1, <1>8, <1>9, <1>10, PlainKey DEF Quiet

LEMMA ConfirmCloseKeeps == ASSUME Inv, ConfirmClose PROVE Inv'
<1> DEFINE c == app.overlay.conn
           a == [app EXCEPT !.conns[c].status = "closing"]
           r == RemoveContextsOf(a, c)
           b == ClearTransferState(r, c)
           x == Taken(b, c)
           z == [b EXCEPT !.overlay = Manager, !.transfer = IF x = None THEN @ ELSE None]
<1>1. /\ Right(app) /\ TasksTyped /\ EventsRight /\ Asked /\ ClosingRight /\ CopiesOwned
      /\ timers \subseteq {app.pending} /\ phase = "running" /\ app.overlay.kind = "close"
  BY DEF ConfirmClose, In, Inv, WhileRunning
<1>2. /\ app \in Shape /\ TabsRight(app) /\ SelectionRight(app) /\ OverlayRight(app)
      /\ RequestRight(app) /\ TransferRight(app)
  BY <1>1 DEF Right
<1>3. c \in Conn /\ Ready(app, c)
  BY <1>1, <1>2 DEF OverlayRight, Ready, Shape, Overlays
<1>4. /\ closing' = [closing EXCEPT ![c] = [at |-> IF x = None THEN "closing" ELSE "joining",
                                            joins |-> x]]
      /\ Quiet(z) /\ UNCHANGED <<start, resolving, copies, asked>>
  BY Zenon DEF ConfirmClose
<1> HIDE DEF c
<1>5. /\ a \in Shape /\ a.tabs = app.tabs /\ a.active = app.active /\ a.selected = app.selected
      /\ a.transfer = app.transfer
      /\ \A d \in Conn : /\ a.conns[d].last = app.conns[d].last
                         /\ a.conns[d].status = IF d = c THEN "closing" ELSE app.conns[d].status
  BY <1>2, <1>3 DEF Shape, Statuses
<1> HIDE DEF a
<1>6. \A d \in Conn : TabsOf(a, d) = TabsOf(app, d)
  BY <1>5 DEF TabsOf
<1>7. \A t \in DOMAIN a.tabs \ TabsOf(a, c) : Ready(a, a.tabs[t].conn)
  <2>1. \A t \in DOMAIN a.tabs : a.tabs[t].conn \in Conn
    BY <1>5, TabsAre DEF Shape
  <2>2. QED
    BY <1>2, <1>5, <2>1 DEF TabsRight, Ready, TabsOf
<1>8. /\ r \in Shape /\ SameRows(a, r) /\ TabsRight(r) /\ DOMAIN r.tabs \subseteq DOMAIN a.tabs
  BY <1>2, <1>3, <1>5, <1>6, <1>7, RemoveContextsKeeps DEF TabsRight, RemoveContextsOf
<1> HIDE DEF r
<1>9. /\ b \in Shape /\ b.conns = r.conns /\ b.tabs = r.tabs /\ b.active = r.active
      /\ b.selected = r.selected /\ b.transfer = r.transfer
  BY <1>3, <1>8, ClearIs
<1> HIDE DEF b
<1>10. /\ z \in Shape /\ z.conns = r.conns /\ z.tabs = r.tabs /\ z.active = r.active
       /\ z.selected = app.selected /\ z.overlay = Manager
       /\ z.transfer = IF x = None THEN app.transfer ELSE None
  BY <1>5, <1>8, <1>9, OverlaysAre, NoneIs DEF Shape, SameRows
<1>11. x = None \/ (x = app.transfer /\ x \in DOMAIN copies)
  BY <1>2, <1>5, <1>8, <1>9 DEF Taken, SameRows, TransferRight
<1>12. app.transfer # None /\ x = None =>
         copies[app.transfer].request.src # c /\ copies[app.transfer].request.dst # c
  BY <1>5, <1>8, <1>9 DEF Taken, SameRows, Uses
<1> HIDE DEF x, z
<1>13. \A d \in Conn : z.conns[d].status = IF d = c THEN "closing" ELSE app.conns[d].status
  BY <1>5, <1>8, <1>10 DEF SameRows
<1>14. TabsRight(z)
  BY <1>8, <1>10, ReadyStands
<1>15. SelectionRight(z)
  <2>1. Records(z) = Records(app)
    BY <1>3, <1>13 DEF Records, Ready
  <2>2. QED
    BY <1>2, <1>10, <2>1 DEF SelectionRight
<1>16. OverlayRight(z) /\ RequestRight(z)
  BY <1>2, <1>5, <1>8, <1>10, NoOverlayRight
<1>17. TransferRight(z)
  <2> SUFFICES ASSUME z.transfer # None PROVE TransferRight(z)
    BY DEF TransferRight
  <2>1. z.transfer = app.transfer /\ x = None
    BY <1>10
  <2>2. app.transfer \in DOMAIN copies /\ copies[app.transfer].request \in Requests
    BY <1>1, <1>2, <2>1, CopiesAre DEF TransferRight
  <2>3. QED
    BY <1>2, <1>12, <1>13, <2>1, <2>2 DEF TransferRight, Ready, Requests
<1>18. /\ Right(app') /\ app'.conns = z.conns /\ app'.transfer = z.transfer /\ timers' = {}
  BY <1>1, <1>4, <1>10, <1>14, <1>15, <1>16, <1>17, QuietKeeps DEF Right, Quiet
<1>19. x \in Nat
  BY <1>1, <1>11, CopiesAre DEF None
<1>20. TasksTyped'
  BY <1>1, <1>3, <1>4, <1>19 DEF TasksTyped, Quiet
<1>21. Right(app)'
  BY <1>4, <1>18 DEF Right, RequestRight, TransferRight
<1>22. Onward
  BY <1>1, <1>3, <1>4, <1>13, <1>18 DEF Onward, TasksTyped, Quiet
<1>23. ClosingRight'
  BY <1>1, <1>3, <1>4, <1>13, <1>18, ZenonT(60) DEF ClosingRight, TasksTyped
<1>24. CopiesOwned'
  <2>1. closing[c].at # "joining"
    BY <1>1, <1>3 DEF ClosingRight, Ready
  <2>2. \A d \in Conn : closing'[d] =
          IF d = c THEN [at |-> IF x = None THEN "closing" ELSE "joining", joins |-> x]
          ELSE closing[d]
    BY <1>1, <1>4 DEF TasksTyped
  <2>3. \A d \in Conn : closing'[d].at = "joining" => closing'[d].joins \in DOMAIN copies'
    BY <1>1, <1>4, <1>11, <2>2 DEF CopiesOwned
  <2>4. ASSUME NEW y \in DOMAIN copies, copies[y].runs
        PROVE  Joined(y)' \/ y = app'.transfer
    <3>1. CASE Joined(y)
      BY <2>1, <2>2, <3>1 DEF Joined
    <3>2. CASE y = app.transfer /\ x = None
      BY <1>10, <1>18, <3>2
    <3>3. CASE y = app.transfer /\ x # None
      BY <1>3, <1>11, <2>2, <3>3 DEF Joined
    <3>4. QED
      BY <1>1, <2>4, <3>1, <3>2, <3>3 DEF CopiesOwned
  <2>5. QED
    BY <1>1, <1>4, <2>3, <2>4 DEF CopiesOwned, Quiet
<1>25. QED
  BY <1>1, <1>4, <1>18, <1>20, <1>21, <1>22, <1>23, <1>24, RunningKeeps DEF Quiet, Asked

LEMMA SubmitNewBrowserKeeps == ASSUME Inv, SubmitNewBrowser PROVE Inv'
<1> DEFINE n == asked + 1
           p == Typed[n]
           b == [app EXCEPT !.overlay.request = n, !.overlay.path = p]
           o == [app.overlay EXCEPT !.request = n, !.path = p]
           r == [id |-> n, conn |-> app.overlay.conn, path |-> p]
<1>1. /\ Right(app) /\ TasksTyped /\ EventsRight /\ Asked /\ ClosingRight /\ CopiesOwned
      /\ timers \subseteq {app.pending} /\ phase = "running"
      /\ app.overlay.kind = "newBrowser" /\ Ready(app, app.overlay.conn)
  BY DEF SubmitNewBrowser, In, Inv, WhileRunning
<1>2. /\ app \in Shape /\ TabsRight(app) /\ SelectionRight(app) /\ OverlayRight(app)
      /\ RequestRight(app) /\ TransferRight(app) /\ app.overlay \in Overlays
  BY <1>1 DEF Right, Shape
<1>3. /\ asked \in Nat /\ n \in 1..MaxRequests /\ asked' = n /\ p \in Path
  BY <1>1, AppAssumption DEF SubmitNewBrowser, TasksTyped
<1>4. /\ resolving' = resolving \cup {r} /\ Quiet(b) /\ UNCHANGED <<start, copies, closing>>
  BY DEF SubmitNewBrowser
<1>5. app.overlay.conn \in Conn
  BY <1>1, <1>2 DEF Ready, Overlays
<1> HIDE DEF n, p
<1>6. o \in Overlays /\ o.kind = "newBrowser" /\ o.request = n /\ o.path = p
      /\ o.conn = app.overlay.conn
  <2>1. n \in 0..MaxRequests
    BY <1>3
  <2>2. QED
    BY <1>1, <1>2, <1>3, <2>1 DEF Overlays
<1>7. /\ b \in Shape /\ b.overlay = o /\ b.conns = app.conns /\ b.tabs = app.tabs
      /\ b.active = app.active /\ b.selected = app.selected /\ b.transfer = app.transfer
  <2>1. b = [app EXCEPT !.overlay = o]
    BY <1>2 DEF Shape
  <2> HIDE DEF b, o
  <2>2. QED
    BY <1>2, <1>6, <2>1 DEF Shape
<1> HIDE DEF b, o
<1>8. TabsRight(b) /\ SelectionRight(b) /\ TransferRight(b)
  BY <1>1, <1>2, <1>7, ReadyStands DEF SelectionRight, Records
<1>9. OverlayRight(b)
  BY <1>1, <1>6, <1>7 DEF OverlayRight, Ready
<1> DEFINE c == [b EXCEPT !.pending = None]
<1>10. app' = c /\ timers' = {} /\ UNCHANGED <<registry, events, quits, phase>>
  BY <1>1, <1>4 DEF Quiet
<1>11. /\ c \in Shape /\ c.pending = None /\ c.transfer = b.transfer /\ c.conns = b.conns
       /\ c.tabs = b.tabs /\ c.active = b.active /\ c.selected = b.selected
       /\ c.overlay = b.overlay
  BY <1>7, NoneIs DEF Shape
<1> HIDE DEF c
<1>12. TabsRight(c) /\ SelectionRight(c) /\ TransferRight(c) /\ OverlayRight(c)
  BY <1>1, <1>7, <1>8, <1>9, <1>11, ReadyStands DEF SelectionRight, Records
<1>13. RequestRight(app)'
  <2>1. \A t \in DOMAIN app.tabs : t <= n /\ t # n + 1 /\ t <= n + 1
    BY <1>1, <1>2, <1>3, TabNumbers DEF RequestRight, n
  <2>2. /\ app'.overlay.request = n /\ app'.overlay.kind = "newBrowser"
        /\ app'.overlay.path = Typed[n] /\ DOMAIN app'.tabs = DOMAIN app.tabs
    BY <1>6, <1>7, <1>10, <1>11 DEF p
  <2>3. QED
    BY <1>3, <2>1, <2>2 DEF RequestRight
<1>14. Right(app)'
  BY <1>4, <1>10, <1>11, <1>12, <1>13 DEF Right, TransferRight
<1>15. r \in [id : 1..n, conn : Conn, path : Path] /\ r.path = Typed[r.id]
  BY <1>3, <1>5 DEF p
<1>16. TasksTyped' /\ Asked'
  <2>1. resolving \subseteq [id : 1..n, conn : Conn, path : Path]
    BY <1>1, <1>3 DEF TasksTyped, n
  <2>2. resolving' \subseteq [id : 1..n, conn : Conn, path : Path]
    BY <1>4, <1>15, <2>1
  <2>3. n \in 0..MaxRequests
    BY <1>3
  <2>4. QED
    BY <1>1, <1>3, <1>4, <1>10, <1>15, <2>2, <2>3 DEF TasksTyped, Asked
<1>17. Onward /\ ClosingRight' /\ CopiesOwned'
  <2>1. app'.conns = app.conns /\ app'.transfer = app.transfer
    BY <1>7, <1>10, <1>11
  <2>2. Onward
    BY <1>1, <1>3, <1>4, <1>10, <2>1 DEF Onward, TasksTyped, n
  <2>3. QED
    BY <1>1, <1>4, <1>10, <2>1, <2>2 DEF ClosingRight, CopiesOwned, Joined
<1>18. QED
  BY <1>1, <1>10, <1>14, <1>16, <1>17, RunningKeeps

LEMMA StartTransferKeeps ==
  ASSUME Inv, phase = "running", NEW b, Steady(b), NEW request \in Requests,
         NEW replace \in BOOLEAN, StartTransfer(b, request, replace),
         UNCHANGED <<start, resolving, closing, asked>>
  PROVE  Inv'
<1>1. /\ Right(app) /\ TasksTyped /\ EventsRight /\ Asked /\ ClosingRight /\ CopiesOwned
      /\ timers \subseteq {app.pending}
  BY DEF Inv, WhileRunning
<1>2. CASE UNCHANGED copies /\ Quiet(b)
  <2>1. start' \in [Conn -> {"none", "opening", "opened"}]
    BY <1>1 DEF TasksTyped
  <2>2. QED
    BY <1>2, <2>1, PlainKey DEF Quiet
<1>3. CASE /\ b.transfer = None /\ Ready(b, request.src) /\ Ready(b, request.dst)
           /\ Len(copies) < MaxTransfers
           /\ copies' = Append(copies, [request |-> request, replace |-> replace, runs |-> TRUE])
           /\ Quiet([b EXCEPT !.transfer = Len(copies) + 1])
  <2> DEFINE C == [request : Requests, replace : BOOLEAN, runs : BOOLEAN]
             new == [request |-> request, replace |-> replace, runs |-> TRUE]
             n == Len(copies) + 1
             z == [b EXCEPT !.transfer = n]
  <2>1. new \in C /\ new.request = request /\ copies \in Seq(C)
    BY <1>1 DEF TasksTyped
  <2> HIDE DEF C, new
  <2>2. /\ copies' \in Seq(C) /\ Len(copies') = n /\ n \in Nat \ {0}
        /\ DOMAIN copies' = 1..n /\ DOMAIN copies = 1..n-1
        /\ copies'[n] = new /\ \A x \in DOMAIN copies : copies'[x] = copies[x]
    BY <1>3, <2>1 DEF new
  <2>3. n \in 1..MaxTransfers
    BY <1>3, <2>2, AppAssumption
  <2> HIDE DEF n
  <2>4. b \in Shape /\ Right(b) /\ b.transfer = app.transfer
    BY DEF Steady, Right
  <2>5. /\ z \in Shape /\ z.transfer = n /\ z.conns = b.conns /\ z.tabs = b.tabs
        /\ z.active = b.active /\ z.selected = b.selected /\ z.overlay = b.overlay
    BY <2>3, <2>4 DEF Shape
  <2> DEFINE c == [z EXCEPT !.pending = None]
  <2>6. app' = c /\ timers' = {} /\ UNCHANGED <<registry, events, quits, phase>>
    BY <1>1, <1>3 DEF Quiet, n
  <2> HIDE DEF z
  <2>7. /\ c \in Shape /\ c.pending = None /\ c.transfer = z.transfer /\ c.conns = z.conns
        /\ c.tabs = z.tabs /\ c.active = z.active /\ c.selected = z.selected
        /\ c.overlay = z.overlay
    BY <2>5, NoneIs DEF Shape
  <2> HIDE DEF c
  <2>8. TabsRight(c) /\ SelectionRight(c) /\ OverlayRight(c) /\ RequestRight(c)
    BY <2>4, <2>5, <2>7, ReadyStands DEF Right, SelectionRight, Records
  <2>9. TransferRight(app)'
    BY <1>3, <2>1, <2>2, <2>5, <2>6, <2>7 DEF TransferRight, Ready
  <2>10. Right(app)'
    BY <2>6, <2>7, <2>8, <2>9 DEF Right, RequestRight
  <2>11. TasksTyped'
    BY <1>1, <2>2, <2>3, <2>6 DEF TasksTyped, C
  <2>12. \A x \in DOMAIN copies : x \in DOMAIN copies'
    BY <2>2
  <2>13. Onward
    BY <1>1, <2>2, <2>4, <2>5, <2>6, <2>7, <2>12 DEF Onward, TasksTyped, Steady
  <2>14. ClosingRight'
    BY <1>1, <2>5, <2>6, <2>7 DEF ClosingRight, Steady
  <2>15. CopiesOwned'
    <3>1. \A x \in DOMAIN copies : copies[x].runs => Joined(x)
      BY <1>1, <1>3, <2>2, <2>4 DEF CopiesOwned, None
    <3>2. app'.transfer = n /\ \A x \in DOMAIN copies' : x \in DOMAIN copies \/ x = n
      BY <2>2, <2>5, <2>6, <2>7
    <3>3. \A x \in DOMAIN copies' : copies'[x].runs => Joined(x)' \/ x = app'.transfer
      BY <2>2, <3>1, <3>2 DEF Joined
    <3>4. QED
      BY <1>1, <2>6, <2>12, <3>3 DEF CopiesOwned
  <2>16. QED
    BY <1>1, <2>6, <2>10, <2>11, <2>13, <2>14, <2>15, RunningKeeps DEF Asked
<1>4. QED
  BY <1>2, <1>3 DEF StartTransfer

LEMMA TransferKeys == ASSUME Inv, Paste \/ ConfirmOverwrite PROVE Inv'
<1>1. Right(app) /\ TasksTyped /\ phase = "running"
  BY DEF Paste, ConfirmOverwrite, In, Inv, WhileRunning
<1>2. app \in Shape /\ TabsRight(app) /\ OverlayRight(app)
  BY <1>1 DEF Right
<1>3. CASE Paste
  <2> DEFINE request == [src |-> app.clip, dst |-> app.tabs[app.active].conn]
  <2>1. app.clip \in Conn /\ app.active \in DOMAIN app.tabs
    BY <1>2, <1>3 DEF Paste, Shape, TabsRight
  <2>2. app.tabs[app.active].conn \in Conn
    BY <1>1, <2>1, TabNumbers
  <2>3. request \in Requests
    BY <2>1, <2>2 DEF Requests
  <2>4. Steady(app)
    BY <1>1 DEF Steady
  <2>5. StartTransfer(app, request, FALSE) /\ UNCHANGED <<start, resolving, closing, asked>>
    BY <1>3 DEF Paste
  <2>6. QED
    BY <1>1, <2>3, <2>4, <2>5, StartTransferKeeps
<1>4. CASE ConfirmOverwrite
  <2>1. app.overlay.transfer \in Requests
    BY <1>2, <1>4 DEF ConfirmOverwrite, In, OverlayRight
  <2>2. NoOverlay \in Overlays /\ NoOverlay.request = None /\ OverlayRight(Show(NoOverlay))
    BY <1>2, OverlaysAre DEF NoOverlay, Overlay, OverlayRight, Show, Shape
  <2>3. Steady(Show(NoOverlay))
    BY <1>1, <2>2, ShowKeeps
  <2>4. /\ StartTransfer(Show(NoOverlay), app.overlay.transfer, TRUE)
        /\ UNCHANGED <<start, resolving, closing, asked>>
    BY <1>4 DEF ConfirmOverwrite
  <2>5. QED
    BY <1>1, <2>1, <2>3, <2>4, StartTransferKeeps
<1>5. QED
  BY <1>3, <1>4

LEMMA ArmQuitKeeps == ASSUME Inv, ArmQuit PROVE Inv'
<1> DEFINE n == quits + 1
           c == [app EXCEPT !.pending = n]
<1>1. /\ Right(app) /\ TasksTyped /\ EventsRight /\ Asked /\ ClosingRight /\ CopiesOwned
      /\ timers \subseteq {app.pending} /\ phase = "running"
  BY DEF ArmQuit, In, Inv, WhileRunning
<1>2. /\ app.pending = None /\ quits' = n /\ n \in 1..MaxQuits /\ quits \in Nat
      /\ app' = c /\ timers' = timers \cup {n}
      /\ UNCHANGED <<start, registry, resolving, copies, closing, events, asked, phase>>
  BY <1>1, AppAssumption DEF ArmQuit, TasksTyped
<1>3. timers' = {n}
  BY <1>1, <1>2 DEF TasksTyped, None
<1>4. n > quits /\ n \in Nat
  BY <1>2
<1> HIDE DEF n
<1>5. /\ c \in Shape /\ c.pending = n /\ c.transfer = app.transfer /\ c.conns = app.conns
      /\ c.tabs = app.tabs /\ c.active = app.active /\ c.selected = app.selected
      /\ c.overlay = app.overlay
  BY <1>1, <1>2 DEF Shape, Right
<1> HIDE DEF c
<1>6. Right(c)
  BY <1>1, <1>5, ReadyStands DEF Right, SelectionRight, Records
<1>7. Right(app)'
  BY <1>2, <1>6 DEF Right, RequestRight, TransferRight
<1>8. TasksTyped'
  BY <1>1, <1>2, <1>3 DEF TasksTyped
<1>9. Onward /\ ClosingRight' /\ CopiesOwned'
  BY <1>1, <1>2, <1>3, <1>4, <1>5 DEF Onward, ClosingRight, CopiesOwned, Joined, TasksTyped
<1>10. QED
  BY <1>1, <1>2, <1>3, <1>5, <1>7, <1>8, <1>9, RunningKeeps DEF Asked

LEMMA KeysKeep == ASSUME Inv, Keys PROVE Inv'
  BY ManagerKeys, TabKeys, StartConnectionKeeps, ConfirmCloseKeeps, SubmitNewBrowserKeeps,
     TransferKeys, ArmQuitKeeps DEF Keys

-----------------------------------------------------------------------------
(***************************************************************************)
(* Tasks.                                                                   *)
(***************************************************************************)
LEMMA TaskKeeps ==
  ASSUME Inv, ByTasks, TasksTyped', CopiesOwned', Ended',
         phase = "running" =>
           /\ Onward /\ Asked' /\ ClosingRight' /\ timers' \subseteq timers
           /\ events' = events \/ \E e \in Event : events' = Append(events, e) /\ EventRight(e)'
  PROVE  Inv'
<1> SUFFICES ASSUME phase = "running" PROVE WhileRunning'
  BY DEF Inv, WhileRunning, ByTasks
<1>1. TasksTyped /\ Right(app) /\ EventsRight /\ timers \subseteq {app.pending}
  BY DEF Inv, WhileRunning
<1>2. Right(app)'
  <2>1. TransferRight(app)'
    BY <1>1 DEF Right, TransferRight, Onward, ByTasks, Ready
  <2>2. QED
    BY <1>1, <2>1 DEF Right, RequestRight, ByTasks
<1>3. EventsRight'
  <2>1. CASE events' = events
    BY <1>1, <2>1, EventsStand
  <2>2. CASE \E e \in Event : events' = Append(events, e) /\ EventRight(e)'
    <3>1. PICK e \in Event : events' = Append(events, e) /\ EventRight(e)'
      BY <2>2
    <3>2. /\ events' \in Seq(Event) /\ DOMAIN events' = 1..Len(events) + 1
          /\ events'[Len(events) + 1] = e /\ Len(events) \in Nat
          /\ DOMAIN events = 1..Len(events)
          /\ \A i \in DOMAIN events : events'[i] = events[i] /\ events[i] \in Event
      BY <1>1, <3>1 DEF EventsRight
    <3>3. \A d \in Event : EventRight(d) => EventRight(d)'
      BY <1>1, EventStands
    <3>4. ASSUME NEW i \in DOMAIN events' PROVE EventRight(events[i])'
      <4>1. PICK d : d = events'[i]
        OBVIOUS
      <4>2. EventRight(d)'
        <5>1. CASE i \in DOMAIN events
          BY <1>1, <3>2, <3>3, <4>1, <5>1 DEF EventsRight
        <5>2. CASE i = Len(events) + 1
          BY <3>1, <3>2, <4>1, <5>2
        <5>3. QED
          BY <3>2, <5>1, <5>2
      <4>3. QED
        BY <4>1, <4>2 DEF EventRight
    <3>5. QED
      BY <3>2, <3>4 DEF EventsRight
  <2>3. QED
    BY <2>1, <2>2
<1>4. QED
  BY <1>1, <1>2, <1>3 DEF WhileRunning, ByTasks

(* A copy that ends, by itself or because it is aborted. *)
LEMMA CopyEnds ==
  ASSUME TasksTyped, NEW x \in DOMAIN copies, copies' = [copies EXCEPT ![x].runs = FALSE]
  PROVE  /\ copies' \in Seq([request : Requests, replace : BOOLEAN, runs : BOOLEAN])
         /\ Len(copies') = Len(copies) /\ DOMAIN copies' = DOMAIN copies
         /\ \A y \in DOMAIN copies :
              /\ copies'[y].request = copies[y].request
              /\ copies'[y].runs = IF y = x THEN FALSE ELSE copies[y].runs
<1> DEFINE C == [request : Requests, replace : BOOLEAN, runs : BOOLEAN]
           n == Len(copies)
<1>1. copies \in Seq(C) /\ n \in Nat /\ DOMAIN copies = 1..n /\ copies \in [1..n -> C]
  <2>1. copies \in Seq(C)
    BY DEF TasksTyped
  <2> HIDE DEF C
  <2>2. QED
    BY <2>1
<1>2. \A y \in 1..n : copies[y] \in C
  BY <1>1
<1>3. copies' \in [1..n -> C]
  BY <1>1, <1>2
<1> HIDE DEF C, n
<1>4. copies' \in Seq(C) /\ Len(copies') = n /\ DOMAIN copies' = 1..n
  BY <1>1, <1>3
<1>5. \A y \in DOMAIN copies : /\ copies'[y].request = copies[y].request
                               /\ copies'[y].runs = IF y = x THEN FALSE ELSE copies[y].runs
  BY <1>1, <1>2 DEF C
<1>6. QED
  BY <1>1, <1>4, <1>5 DEF C, n

LEMMA TasksKeep == ASSUME Inv, Tasks, phase # "exited" PROVE Inv'
<1>1. /\ TasksTyped /\ CopiesOwned /\ Ended
      /\ asked \in 0..MaxRequests /\ quits \in 0..MaxQuits
      /\ MaxRequests \in Nat /\ MaxTransfers \in Nat /\ MaxQuits \in Nat
  BY AppAssumption DEF Inv, TasksTyped
<1>2. phase = "running" => Asked /\ ClosingRight /\ Right(app)
  BY DEF Inv, WhileRunning
<1>3. ASSUME NEW c \in Conn, Open(c) PROVE Inv'
  <2>1. TasksTyped' /\ CopiesOwned' /\ Ended'
    BY <1>1, <1>3 DEF Open, ByTasks, TasksTyped, CopiesOwned, Joined, Ended
  <2>2. Onward /\ (phase = "running" => Asked' /\ ClosingRight')
    BY <1>1, <1>2, <1>3 DEF Open, ByTasks, Onward, Asked, ClosingRight
  <2>3. QED
    BY <1>3, <2>1, <2>2, TaskKeeps DEF Open
<1>4. ASSUME NEW c \in Conn, ReportOpen(c) \/ FailToOpen(c) PROVE Inv'
  <2>1. PICK e \in Event : Report(e) /\ e.kind \in {"ready", "failed"}
    BY <1>4 DEF ReportOpen, FailToOpen, Event
  <2>2. ByTasks /\ UNCHANGED <<registry, resolving, copies, closing, timers>>
        /\ start' = [start EXCEPT ![c] = "none"] /\ start[c] # "none"
    BY <1>4 DEF ReportOpen, FailToOpen
  <2>3. TasksTyped' /\ CopiesOwned' /\ Ended'
    BY <1>1, <2>2 DEF ByTasks, TasksTyped, CopiesOwned, Joined, Ended
  <2>4. Onward /\ (phase = "running" => Asked' /\ ClosingRight')
    BY <1>1, <1>2, <2>2 DEF ByTasks, Onward, Asked, ClosingRight
  <2>5. EventRight(e)'
    BY <2>1 DEF EventRight
  <2>6. QED
    BY <2>1, <2>2, <2>3, <2>4, <2>5, TaskKeeps DEF Report
<1>5. ASSUME NEW r \in resolving, Resolve(r) PROVE Inv'
  <2>1. r.id \in 1..asked /\ r.conn \in Conn /\ r.path \in Path
    BY <1>1 DEF TasksTyped
  <2>2. PICK ok \in BOOLEAN :
          Report([kind |-> "resolved", conn |-> r.conn, id |-> r.id, ok |-> ok, path |-> r.path])
    BY <1>5 DEF Resolve
  <2> DEFINE e == [kind |-> "resolved", conn |-> r.conn, id |-> r.id, ok |-> ok, path |-> r.path]
  <2>3. ByTasks /\ UNCHANGED <<start, registry, copies, closing, timers>>
        /\ resolving' = resolving \ {r}
    BY <1>5 DEF Resolve
  <2>4. TasksTyped' /\ CopiesOwned' /\ Ended'
    BY <1>1, <2>3 DEF ByTasks, TasksTyped, CopiesOwned, Joined, Ended
  <2>5. Onward /\ (phase = "running" => Asked' /\ ClosingRight')
    BY <1>1, <1>2, <2>3 DEF ByTasks, Onward, Asked, ClosingRight
  <2>6. e \in Event
    BY <1>1, <2>1 DEF Event
  <2>7. phase = "running" => EventRight(e)'
    BY <1>1, <1>2, <2>1, <2>3 DEF EventRight, Asked, ByTasks
  <2>8. phase = "running" => \E d \in Event : events' = Append(events, d) /\ EventRight(d)'
    BY <2>2, <2>6, <2>7 DEF Report
  <2>9. QED
    BY <2>3, <2>4, <2>5, <2>8, TaskKeeps
<1>6. ASSUME NEW x \in DOMAIN copies, Copy(x) PROVE Inv'
  <2>1. PICK result \in {"ok", "error", "exists"} :
          Report([kind |-> "copied", id |-> x, request |-> copies[x].request, result |-> result])
    BY <1>6 DEF Copy
  <2> DEFINE e == [kind |-> "copied", id |-> x, request |-> copies[x].request, result |-> result]
  <2>2. ByTasks /\ UNCHANGED <<start, registry, resolving, closing, timers>>
        /\ copies' = [copies EXCEPT ![x].runs = FALSE]
    BY <1>6 DEF Copy
  <2>3. /\ copies' \in Seq([request : Requests, replace : BOOLEAN, runs : BOOLEAN])
        /\ Len(copies') = Len(copies) /\ DOMAIN copies' = DOMAIN copies
        /\ \A y \in DOMAIN copies :
             /\ copies'[y].request = copies[y].request
             /\ copies'[y].runs = IF y = x THEN FALSE ELSE copies[y].runs
    BY <1>1, <2>2, CopyEnds
  <2>4. TasksTyped' /\ CopiesOwned' /\ Ended'
    BY <1>1, <2>2, <2>3 DEF ByTasks, TasksTyped, CopiesOwned, Joined, Ended
  <2>5. Onward /\ (phase = "running" => Asked' /\ ClosingRight')
    BY <1>1, <1>2, <2>2, <2>3 DEF ByTasks, Onward, Asked, ClosingRight
  <2>6. e \in Event
    <3>1. x \in 1..MaxTransfers /\ copies[x].request \in Requests
      BY <1>1, CopiesAre DEF TasksTyped
    <3>2. QED
      BY <3>1 DEF Event
  <2>7. \E d \in Event : events' = Append(events, d) /\ EventRight(d)'
    <3>1. /\ x \in DOMAIN copies' /\ copies'[x].request = copies[x].request
          /\ ~copies'[x].runs
      BY <2>3
    <3>2. PICK d : d = e
      OBVIOUS
    <3>3. d.kind = "copied" /\ d.id = x /\ d.request = copies[x].request
      BY <3>2
    <3>4. EventRight(d)'
      BY <3>1, <3>3 DEF EventRight
    <3>5. QED
      BY <2>1, <2>6, <3>2, <3>4 DEF Report
  <2>8. QED
    BY <2>2, <2>4, <2>5, <2>7, TaskKeeps
<1>7. ASSUME NEW c \in Conn, JoinCopy(c) PROVE Inv'
  <2> DEFINE x == closing[c].joins
  <2>1. ByTasks /\ UNCHANGED <<start, registry, resolving, timers, events>>
        /\ closing[c].at = "joining" /\ closing' = [closing EXCEPT ![c].at = "closing"]
        /\ copies' = [copies EXCEPT ![x].runs = FALSE]
    BY <1>7 DEF JoinCopy
  <2>2. x \in DOMAIN copies
    BY <1>1, <2>1 DEF CopiesOwned
  <2> HIDE DEF x
  <2>3. /\ copies' \in Seq([request : Requests, replace : BOOLEAN, runs : BOOLEAN])
        /\ Len(copies') = Len(copies) /\ DOMAIN copies' = DOMAIN copies
        /\ \A y \in DOMAIN copies :
             /\ copies'[y].request = copies[y].request
             /\ copies'[y].runs = IF y = x THEN FALSE ELSE copies[y].runs
    BY <1>1, <2>1, <2>2, CopyEnds
  <2>4. /\ closing' \in [Conn -> [at : {"none", "joining", "closing", "closed"}, joins : Nat]]
        /\ \A d \in Conn : /\ closing'[d].joins = closing[d].joins
                           /\ closing'[d].at = IF d = c THEN "closing" ELSE closing[d].at
    BY <1>1, <2>1 DEF TasksTyped
  <2>5. TasksTyped'
    BY <1>1, <2>1, <2>3, <2>4 DEF ByTasks, TasksTyped
  <2>6. CopiesOwned'
    <3>1. \A y \in DOMAIN copies : Joined(y) => y = x \/ Joined(y)'
      BY <2>4 DEF Joined, x
    <3>2. QED
      BY <1>1, <2>1, <2>3, <2>4, <3>1 DEF CopiesOwned, ByTasks
  <2>7. Ended'
    BY <1>1, <2>1, phase # "exited" DEF ByTasks, Ended
  <2>8. Onward /\ (phase = "running" => Asked' /\ ClosingRight')
    BY <1>1, <1>2, <2>1, <2>3, <2>4 DEF ByTasks, Onward, Asked, ClosingRight
  <2>9. QED
    BY <2>1, <2>5, <2>6, <2>7, <2>8, TaskKeeps
<1>8. ASSUME NEW c \in Conn, CloseClient(c) PROVE Inv'
  <2> DEFINE e == [kind |-> "closed", conn |-> c]
  <2>1. ByTasks /\ UNCHANGED <<start, resolving, copies, timers>>
        /\ closing[c].at = "closing" /\ closing' = [closing EXCEPT ![c].at = "closed"]
        /\ registry' = registry \ {c} /\ events' = Append(events, e)
    BY <1>8 DEF CloseClient, Report
  <2>2. /\ closing' \in [Conn -> [at : {"none", "joining", "closing", "closed"}, joins : Nat]]
        /\ \A d \in Conn : /\ closing'[d].joins = closing[d].joins
                           /\ closing'[d].at = IF d = c THEN "closed" ELSE closing[d].at
    BY <1>1, <2>1 DEF TasksTyped
  <2>3. TasksTyped'
    BY <1>1, <2>1, <2>2 DEF ByTasks, TasksTyped
  <2>4. CopiesOwned'
    <3>1. \A y \in DOMAIN copies : Joined(y) => Joined(y)'
      BY <2>1, <2>2 DEF Joined
    <3>2. QED
      BY <1>1, <2>1, <2>2, <3>1 DEF CopiesOwned, ByTasks
  <2>5. Ended'
    BY <1>1, <2>1, phase # "exited" DEF ByTasks, Ended
  <2>6. Onward /\ (phase = "running" => Asked' /\ ClosingRight')
    BY <1>1, <1>2, <2>1, <2>2 DEF ByTasks, Onward, Asked, ClosingRight
  <2>7. e \in Event
    BY DEF Event
  <2>8. phase = "running" => EventRight(e)'
    BY <1>2, <2>1 DEF EventRight, ClosingRight, ByTasks
  <2>9. phase = "running" => \E d \in Event : events' = Append(events, d) /\ EventRight(d)'
    BY <2>1, <2>7, <2>8
  <2>10. QED
    BY <2>1, <2>3, <2>4, <2>5, <2>6, <2>9, TaskKeeps
<1>9. ASSUME NEW q \in timers, QuitTimer(q) PROVE Inv'
  <2> DEFINE e == [kind |-> "unconfirmed", id |-> q]
  <2>1. ByTasks /\ UNCHANGED <<start, registry, resolving, copies, closing>>
        /\ timers' = timers \ {q} /\ events' = Append(events, e)
    BY <1>9 DEF QuitTimer, Report
  <2>2. TasksTyped' /\ CopiesOwned' /\ Ended'
    BY <1>1, <2>1 DEF ByTasks, TasksTyped, CopiesOwned, Joined, Ended
  <2>3. Onward /\ (phase = "running" => Asked' /\ ClosingRight')
    BY <1>1, <1>2, <2>1 DEF ByTasks, Onward, Asked, ClosingRight
  <2>4. q \in 1..quits /\ e \in Event
    BY <1>1 DEF TasksTyped, Event
  <2>5. EventRight(e)'
    <3>1. q <= quits' /\ q \notin timers'
      BY <2>1, <2>4 DEF ByTasks
    <3>2. QED
      BY <3>1 DEF EventRight
  <2>6. \E d \in Event : events' = Append(events, d) /\ EventRight(d)'
    BY <2>1, <2>4, <2>5
  <2>7. QED
    BY <2>1, <2>2, <2>3, <2>6, TaskKeeps
<1>10. QED
  BY <1>3, <1>4, <1>5, <1>6, <1>7, <1>8, <1>9 DEF Tasks, Opening, Closing

-----------------------------------------------------------------------------
(***************************************************************************)
(* The main loop, and the end.                                              *)
(***************************************************************************)
LEMMA FirstEvent ==
  ASSUME EventsRight, events # <<>>
  PROVE  /\ Head(events) \in Event /\ EventRight(Head(events)) /\ Tail(events) \in Seq(Event)
         /\ \A i \in DOMAIN Tail(events) : Tail(events)[i] \in Event /\ EventRight(Tail(events)[i])
<1>1. events \in Seq(Event) /\ Len(events) \in Nat \ {0} /\ DOMAIN events = 1..Len(events)
  BY DEF EventsRight
<1>2. /\ Head(events) = events[1] /\ Tail(events) \in Seq(Event)
      /\ DOMAIN Tail(events) = 1..Len(events) - 1
      /\ \A i \in 1..Len(events) - 1 : Tail(events)[i] = events[i + 1]
  BY <1>1
<1>3. events[1] \in Event /\ EventRight(events[1])
  BY <1>1 DEF EventsRight
<1>4. \A i \in 1..Len(events) - 1 : events[i + 1] \in Event /\ EventRight(events[i + 1])
  <2>1. \A i \in 1..Len(events) - 1 : i + 1 \in DOMAIN events
    BY <1>1
  <2>2. QED
    BY <1>1, <2>1 DEF EventsRight
<1>5. QED
  BY <1>2, <1>3, <1>4

LEMMA ApplyKeepsAll == ASSUME Inv, Apply PROVE Inv'
<1> DEFINE e == Head(events)
<1>1. /\ Right(app) /\ TasksTyped /\ EventsRight /\ Asked /\ ClosingRight /\ CopiesOwned
      /\ timers \subseteq {app.pending} /\ phase = "running" /\ events # <<>>
      /\ app' = ApplyTo(app, e) /\ events' = Tail(events)
      /\ UNCHANGED <<tasks, asked, quits, phase>>
  BY DEF Apply, Inv, WhileRunning
<1>2. /\ e \in Event /\ EventRight(e) /\ Tail(events) \in Seq(Event)
      /\ \A i \in DOMAIN Tail(events) : Tail(events)[i] \in Event /\ EventRight(Tail(events)[i])
  BY <1>1, FirstEvent
<1>3. PICK d \in Event : d = e
  BY <1>2
<1>4. EventRight(d)
  BY <1>2, <1>3
<1> HIDE DEF e
<1>5. /\ Right(app')
      /\ \A c \in Conn : app.conns[c].status \in {"closing", "gone"} =>
                          app'.conns[c].status \in {"closing", "gone"}
      /\ app'.transfer = app.transfer
           \/ (d.kind = "copied" /\ d.id = app.transfer /\ app'.transfer = None)
      /\ app'.pending = app.pending
           \/ (d.kind = "unconfirmed" /\ d.id = app.pending /\ app'.pending = None)
  BY <1>1, <1>3, <1>4, ApplyKeeps
<1>6. TasksTyped' /\ Asked'
  BY <1>1 DEF TasksTyped, Asked, tasks
<1>7. Right(app)'
  BY <1>1, <1>5 DEF Right, RequestRight, TransferRight, tasks
<1>8. ClosingRight'
  BY <1>1, <1>5 DEF ClosingRight, tasks
<1>9. EventsRight'
  <2>1. Onward
    BY <1>1, <1>5 DEF Onward, TasksTyped, tasks
  <2>2. \A x \in Event : EventRight(x) => EventRight(x)'
    BY <1>1, <2>1, EventStands
  <2>3. ASSUME NEW i \in DOMAIN events' PROVE EventRight(events[i])'
    <3>1. PICK x : x = events'[i]
      OBVIOUS
    <3>2. x \in Event /\ EventRight(x)
      BY <1>1, <1>2, <2>3, <3>1
    <3>3. QED
      BY <2>2, <3>1, <3>2 DEF EventRight
  <2>4. QED
    BY <1>1, <1>2, <2>3 DEF EventsRight
<1>10. timers' \subseteq {app'.pending}
  BY <1>1, <1>4, <1>5 DEF EventRight, tasks
<1>11. CopiesOwned'
  BY <1>1, <1>4, <1>5 DEF CopiesOwned, Joined, EventRight, tasks
<1>12. QED
  BY <1>1, <1>6, <1>7, <1>8, <1>9, <1>10, <1>11 DEF Inv, WhileRunning, Ended

LEMMA LoopEnds == ASSUME Inv, ConfirmQuit \/ StdinEnds PROVE Inv'
<1>1. /\ app \in Shape /\ TasksTyped /\ CopiesOwned /\ timers \subseteq {app.pending}
      /\ phase = "running"
  BY DEF ConfirmQuit, StdinEnds, In, Inv, WhileRunning, Right
<1>2. /\ phase' = "aborting" /\ timers' = {} /\ app' = [app EXCEPT !.pending = None]
      /\ UNCHANGED <<start, registry, resolving, copies, closing, events, asked, quits>>
  BY <1>1 DEF ConfirmQuit, StdinEnds
<1>3. app'.transfer = app.transfer
  BY <1>1, <1>2 DEF Shape
<1>4. TasksTyped' /\ CopiesOwned' /\ Ended' /\ WhileRunning'
  BY <1>1, <1>2, <1>3 DEF TasksTyped, CopiesOwned, Joined, Ended, WhileRunning
<1>5. QED
  BY <1>4 DEF Inv

LEMMA ShutDown == ASSUME Inv, AbortTasks \/ CloseAll PROVE Inv'
<1>1. TasksTyped /\ CopiesOwned /\ Ended
  BY DEF Inv
<1>2. CASE AbortTasks
  <2> DEFINE C == [request : Requests, replace : BOOLEAN, runs : BOOLEAN]
             n == Len(copies)
             stopped(x) == [copies[x] EXCEPT !.runs = IF x = app.transfer THEN FALSE ELSE @]
  <2>1. /\ phase = "aborting" /\ phase' = "closing"
        /\ copies' = [x \in DOMAIN copies |-> stopped(x)]
        /\ resolving' = {} /\ start' = [c \in Conn |-> "none"]
        /\ UNCHANGED <<registry, closing, timers, asked, quits>>
    BY <1>2 DEF AbortTasks
  <2>2. copies \in Seq(C)
    BY <1>1 DEF TasksTyped
  <2>3. n \in Nat /\ DOMAIN copies = 1..n /\ \A x \in 1..n : copies[x] \in C
    <3> HIDE DEF C
    <3>1. QED
      BY <2>2
  <2>4. \A x \in 1..n : stopped(x) \in C /\ (stopped(x).runs => copies[x].runs /\ x # app.transfer)
    BY <2>3
  <2> HIDE DEF C, n, stopped
  <2>5. copies' \in [1..n -> C] /\ DOMAIN copies' = 1..n
        /\ \A x \in 1..n : copies'[x] = stopped(x)
    BY <2>1, <2>3, <2>4
  <2>6. copies' \in Seq(C) /\ Len(copies') = n
    BY <2>3, <2>5
  <2>7. TasksTyped'
    BY <1>1, <2>1, <2>6 DEF TasksTyped, C, n
  <2>8. CopiesOwned'
    BY <1>1, <2>1, <2>3, <2>4, <2>5 DEF CopiesOwned, Joined
  <2>9. Ended' /\ WhileRunning'
    BY <1>1, <2>1 DEF Ended, WhileRunning
  <2>10. QED
    BY <2>7, <2>8, <2>9 DEF Inv
<1>3. CASE CloseAll
  <2>1. /\ phase = "closing" /\ \A c \in Conn : closing[c].at \in {"none", "closed"}
        /\ phase' = "exited" /\ registry' = {}
        /\ UNCHANGED <<start, resolving, copies, closing, timers, asked, quits>>
    BY <1>3 DEF CloseAll
  <2>2. TasksTyped' /\ CopiesOwned' /\ Ended' /\ WhileRunning'
    BY <1>1, <2>1 DEF TasksTyped, CopiesOwned, Joined, Ended, WhileRunning
  <2>3. QED
    BY <2>2 DEF Inv
<1>4. QED
  BY <1>2, <1>3

-----------------------------------------------------------------------------
(***************************************************************************)
(* The theorems.                                                            *)
(***************************************************************************)
LEMMA InitInv == Init => Inv
<1> SUFFICES ASSUME Init PROVE Inv
  OBVIOUS
<1>1. /\ registry \subseteq Conn /\ start = [c \in Conn |-> "none"] /\ resolving = {}
      /\ copies = <<>> /\ closing = [c \in Conn |-> [at |-> "none", joins |-> None]]
      /\ timers = {} /\ events = <<>> /\ asked = 0 /\ quits = 0 /\ phase = "running"
  BY AppAssumption DEF Init, Conn
<1>2. 1 \in Conn /\ 1 \in TabId /\ StartPath \in Path /\ None \notin Conn
  BY AppAssumption DEF Conn, TabId, None
<1>3. TasksTyped
  <2>1. copies \in Seq([request : Requests, replace : BOOLEAN, runs : BOOLEAN]) /\ Len(copies) = 0
    BY <1>1
  <2>2. QED
    BY <1>1, <2>1, AppAssumption DEF TasksTyped, None
<1>4. CopiesOwned /\ Ended /\ Asked /\ ClosingRight /\ timers \subseteq {app.pending}
  BY <1>1 DEF CopiesOwned, Ended, Asked, ClosingRight
<1>5. EventsRight
  BY <1>1 DEF EventsRight
<1>6. Empty \in Shape /\ Empty.tabs = <<>> /\ Empty.overlay = Manager /\ Empty.active = None
      /\ Empty.transfer = None /\ Empty.selected = None
      /\ \A c \in Conn : Empty.conns[c] = Absent
  <2>1. <<>> \in Tabs
    <3>1. <<>> \in [{} -> [conn : Conn, root : Path]]
      OBVIOUS
    <3>2. QED
      BY <3>1 DEF Tabs
  <2>2. [c \in Conn |-> Absent] \in [Conn -> [status : Statuses, last : TabId \cup {None}]]
    BY DEF Absent, Statuses
  <2>3. QED
    BY <2>1, <2>2, NoneIs, OverlaysAre DEF Empty, Shape
<1>7. CASE app = Empty
  <2>1. Records(app) = {} /\ \A c : TabsOf(app, c) = {}
    BY <1>6, <1>7 DEF Records, TabsOf, Absent
  <2>2. Right(app)
    BY <1>6, <1>7, <2>1, NoOverlayRight
    DEF Right, TabsRight, SelectionRight, RequestRight, TransferRight, Absent, Manager, Overlay
  <2>3. QED
    BY <1>3, <1>4, <1>5, <2>2 DEF Inv, WhileRunning
<1>8. CASE app = OpenedAt(StartPath)
  <2> DEFINE row == [status |-> "ready", last |-> 1]
             tabs == [t \in {1} |-> [conn |-> 1, root |-> StartPath]]
  <2>1. /\ app = [Empty EXCEPT !.conns[1] = row, !.selected = 1, !.tabs = tabs, !.active = 1,
                               !.overlay = NoOverlay]
    BY <1>8 DEF OpenedAt
  <2>2. tabs \in Tabs /\ DOMAIN tabs = {1} /\ tabs[1].conn = 1
    BY <1>2, TabsAre
  <2>3. row \in [status : Statuses, last : TabId \cup {None}]
    BY <1>2 DEF Statuses
  <2> HIDE DEF tabs, row
  <2>4. /\ app \in Shape /\ app.tabs = tabs /\ app.active = 1 /\ app.selected = 1
        /\ app.overlay = NoOverlay /\ app.transfer = None
        /\ \A c \in Conn : app.conns[c] = IF c = 1 THEN row ELSE Absent
    BY <1>2, <1>6, <2>1, <2>2, <2>3, OverlaysAre DEF Shape
  <2>5. \A c \in Conn : TabsOf(app, c) = IF c = 1 THEN {1} ELSE {}
    BY <2>2, <2>4 DEF TabsOf
  <2>6. TabsRight(app)
    BY <1>2, <2>2, <2>4, <2>5 DEF TabsRight, Ready, row, Absent
  <2>7. SelectionRight(app) /\ OverlayRight(app) /\ TransferRight(app)
    BY <1>2, <2>4, NoOverlayRight DEF SelectionRight, Records, TransferRight, row
  <2>8. RequestRight(app)
    BY <1>1, <2>2, <2>4 DEF RequestRight, NoOverlay, Overlay
  <2>9. QED
    BY <1>3, <1>4, <1>5, <2>4, <2>6, <2>7, <2>8 DEF Inv, WhileRunning, Right
<1>9. QED
  BY <1>7, <1>8 DEF Init

LEMMA StepInv == Inv /\ [Next]_vars => Inv'
<1> SUFFICES ASSUME Inv, [Next]_vars PROVE Inv'
  OBVIOUS
<1>1. CASE Next
  BY <1>1, TasksKeep, ApplyKeepsAll, KeysKeep, LoopEnds, ShutDown DEF Next
<1>2. CASE UNCHANGED vars
  BY <1>2 DEF vars, tasks, Inv, TasksTyped, WhileRunning, Right, RequestRight, TransferRight,
     EventsRight, EventRight, Asked, ClosingRight, CopiesOwned, Joined, Ended
<1>3. QED
  BY <1>1, <1>2

LEMMA Invariance == Spec => []Inv
  BY InitInv, StepInv, PTL DEF Spec

(* Whichever reports are applied between two keys, every tab is on a           *)
(* connection that is ready, the active tab, the selected row and the last tab  *)
(* of each row are there or are none, and a dialog that is open can still be    *)
(* answered (TuiContext and Overlay, old/src/tui/app/mod.rs).                  *)
THEOREM ReferencesStayValid == Spec => []ReferencesHold
<1>1. Inv => ReferencesHold
  <2> SUFFICES ASSUME Inv, phase = "running" PROVE TabsAndRowsHold /\ OverlayStillApplies
    BY DEF ReferencesHold, TabsAndRowsHold, OverlayStillApplies
  <2>1. TabsRight(app) /\ SelectionRight(app) /\ OverlayRight(app) /\ app \in Shape
    BY DEF Inv, WhileRunning, Right
  <2>2. DOMAIN app.tabs = {} => app.tabs = <<>>
    <3> SUFFICES ASSUME DOMAIN app.tabs = {} PROVE app.tabs = <<>>
      OBVIOUS
    <3>1. app.tabs \in [{} -> [conn : Conn, root : Path]]
      BY <2>1, TabsAre DEF Shape
    <3>2. QED
      BY <3>1
  <2>3. TabsAndRowsHold
    BY <2>1, <2>2 DEF TabsAndRowsHold, TabsRight, SelectionRight, Records
  <2>4. OverlayStillApplies
    BY <2>1 DEF OverlayStillApplies, OverlayRight
  <2>5. QED
    BY <2>3, <2>4
<1>2. QED
  BY <1>1, Invariance, PTL

(* When the program has ended there is no connection and no task of it left:    *)
(* shutdown() aborts the copy that it knows of, and joins the closes, which     *)
(* join the others (old/src/tui/app/mod.rs).                                   *)
THEOREM ExitLeavesNothing == Spec => []NothingLeftAtExit
<1>1. Inv => NothingLeftAtExit
  BY DEF Inv, NothingLeftAtExit, Ended, CopiesOwned, Joined
<1>2. QED
  BY <1>1, Invariance, PTL

(* An answer opens a tab only where the dialog that is open asked for it, and   *)
(* only the timer of the press that waits stands it down, however late the      *)
(* answers to earlier ones come (apply_lifecycle_event(),                     *)
(* old/src/tui/app/mod.rs).                                                    *)
THEOREM LateAnswersAreIdle == Spec => LateAnswersChangeNothing
<1> DEFINE A == Apply => \A t \in DOMAIN app'.tabs \ DOMAIN app.tabs :
                  app'.tabs[t] = [conn |-> app.overlay.conn, root |-> app.overlay.path]
           B == Apply /\ app.pending # None /\ app'.pending = None => app.pending \notin timers
<1>1. ASSUME Inv, Apply
      PROVE  /\ \A t \in DOMAIN app'.tabs \ DOMAIN app.tabs :
                  app'.tabs[t] = [conn |-> app.overlay.conn, root |-> app.overlay.path]
             /\ app.pending # None /\ app'.pending = None => app.pending \notin timers
  <2>1. /\ Right(app) /\ TasksTyped /\ EventsRight /\ events # <<>>
        /\ app' = ApplyTo(app, Head(events))
    BY <1>1 DEF Apply, Inv, WhileRunning
  <2>2. PICK d : d = Head(events)
    OBVIOUS
  <2>3. d \in Event /\ EventRight(d) /\ app' = ApplyTo(app, d)
    BY <2>1, <2>2, FirstEvent
  <2>4. /\ app'.pending = app.pending
             \/ (d.kind = "unconfirmed" /\ d.id = app.pending /\ app'.pending = None)
        /\ \A t \in DOMAIN app'.tabs \ DOMAIN app.tabs :
             app'.tabs[t] = [conn |-> app.overlay.conn, root |-> app.overlay.path]
    BY <2>1, <2>3, ApplyKeeps
  <2>5. QED
    BY <2>3, <2>4 DEF EventRight
<1>2. Inv /\ [Next]_vars => [A]_vars /\ [B]_vars
  BY <1>1
<1>3. Spec => [][A]_vars /\ [][B]_vars
  <2> HIDE DEF A, B
  <2>1. QED
    BY <1>2, Invariance, PTL DEF Spec
<1>4. QED
  BY <1>3 DEF LateAnswersChangeNothing, TabOpensWhereAsked, QuitLapsesByItsTimer
================================================================================
