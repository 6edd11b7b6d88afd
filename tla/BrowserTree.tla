----------------------------- MODULE BrowserTree -----------------------------
(***************************************************************************)
(* The tree of one browsed root (old/src/browser): rows in pre-order, the    *)
(* expansions that are streaming into them, the selected row, and the window *)
(* that a filter leaves of the rows.  Operators from trees to trees; Browser *)
(* says who calls them and when.                                            *)
(*                                                                         *)
(* Rows are numbered from 1, and a selection of 0 is None.  A path is a Node *)
(* of a fixed file system, an entry's name a sequence of letters: lower case, *)
(* and read as it is escaped.                                               *)
(***************************************************************************)
EXTENDS Integers, SequencesExt

CONSTANTS
  Node,       \* paths
  Parent,     \* [Node -> Node]; the top of the file system is its own
  Name,       \* [Node -> a sequence of letters]
  Navigable   \* the directories among them

ASSUME TreeAssumption ==
  /\ Node \subseteq Nat \ {0} /\ Parent \in [Node -> Node] /\ Navigable \subseteq Node
  /\ \A n \in Node : Parent[n] \in Navigable

Collapsed == "collapsed"
Loading == "loading"
Expanded == "expanded"
Failed == "failed"
Complete == "complete"

NewRow(path, depth) == [path |-> path, depth |-> depth, exp |-> Collapsed, req |-> 0]
NewRows(paths, depth) == [i \in 1..Len(paths) |-> NewRow(paths[i], depth)]

NoPlacement == << >>

NewTree(root) ==
  [root |-> root, rows |-> <<>>, places |-> NoPlacement, sel |-> 0, status |-> Loading]

Restart(t) == [t EXCEPT !.rows = <<>>, !.places = NoPlacement, !.status = Loading]

Reroot(t, root) == Restart([t EXCEPT !.root = root, !.sel = 0])

Least(a, b) == IF a < b THEN a ELSE b

EffectiveSelection(t) ==
  IF t.rows = <<>> THEN 0
  ELSE Least(IF t.sel = 0 THEN 1 ELSE t.sel, Len(t.rows))

SelectedPath(t) == t.rows[EffectiveSelection(t)].path

ClampSelection(t) == [t EXCEPT !.sel = EffectiveSelection(t)]

(* The first row from `from` on that is no deeper than the row at i.           *)
SubtreeEnd(t, i) ==
  LET ends == {j \in i+1..Len(t.rows) : t.rows[j].depth <= t.rows[i].depth}
  IN  IF ends = {} THEN Len(t.rows) + 1 ELSE Min(ends)

-----------------------------------------------------------------------------
(* Listings that arrive *)

(* A mutant: rows that land where an expansion's next go always go before them. *)
TieGoesBefore(places, at, count, depth) ==
  [r \in DOMAIN places |->
    LET p == places[r]
    IN  IF at <= p.parent
        THEN [p EXCEPT !.parent = @ + count, !.insertion = @ + count]
        ELSE IF at <= p.insertion THEN [p EXCEPT !.insertion = @ + count]
        ELSE p]

PlacementsAfterInsertion(places, at, count, depth) ==
  [r \in DOMAIN places |->
    LET p == places[r]
    IN  IF at <= p.parent
        THEN [p EXCEPT !.parent = @ + count, !.insertion = @ + count]
        ELSE IF at < p.insertion \/ (at = p.insertion /\ depth >= p.depth)
        THEN [p EXCEPT !.insertion = @ + count]
        ELSE p]

Splice(rows, at, new) == SubSeq(rows, 1, at - 1) \o new \o SubSeq(rows, at, Len(rows))

ExtendRoot(t, paths) ==
  [t EXCEPT !.rows = @ \o NewRows(paths, 0),
            !.places = PlacementsAfterInsertion(@, Len(t.rows) + 1, Len(paths), 0),
            !.sel = IF @ = 0 THEN 1 ELSE @]

FinishRoot(t, status) == ClampSelection([t EXCEPT !.status = status])

(* A mutant: rows that land right at the selected one do not move it.          *)
SelectionStaysPut(t, r, paths) ==
  IF r \notin DOMAIN t.places THEN t
  ELSE LET p == t.places[r]
       IN  [t EXCEPT !.rows = Splice(@, p.insertion, NewRows(paths, p.depth)),
                     !.places = PlacementsAfterInsertion(@, p.insertion, Len(paths), p.depth),
                     !.sel = IF @ # 0 /\ p.insertion < @ THEN @ + Len(paths) ELSE @]

ExtendChild(t, r, paths) ==
  IF r \notin DOMAIN t.places THEN t
  ELSE LET p == t.places[r]
       IN  [t EXCEPT !.rows = Splice(@, p.insertion, NewRows(paths, p.depth)),
                     !.places = PlacementsAfterInsertion(@, p.insertion, Len(paths), p.depth),
                     !.sel = IF @ # 0 /\ p.insertion <= @ THEN @ + Len(paths) ELSE @]

Without(places, gone) == [r \in DOMAIN places \ gone |-> places[r]]

(* A mutant: the end of a listing is not shown. *)
ForgetsToSettle(t, r, exp) ==
  IF r \notin DOMAIN t.places THEN t
  ELSE ClampSelection([t EXCEPT !.places = Without(@, {r})])

FinishChild(t, r, exp) ==
  IF r \notin DOMAIN t.places THEN t
  ELSE ClampSelection([t EXCEPT !.rows[t.places[r].parent].exp = exp,
                                !.places = Without(@, {r})])

-----------------------------------------------------------------------------
(* Expansion *)

BeginExpansion(t, i, r) ==
  [t EXCEPT !.rows[i].exp = Loading, !.rows[i].req = r,
            !.places = [q \in DOMAIN @ \cup {r} |->
               IF q = r THEN [parent |-> i, depth |-> t.rows[i].depth + 1, insertion |-> i + 1]
               ELSE @[q]]]

(* A mutant: an expansion below what is removed stays where it was.            *)
OnlyEnclosingFollow(places, start, end) ==
  [r \in DOMAIN places |->
    LET p == places[r]
    IN  IF p.parent >= end THEN p
        ELSE IF p.insertion >= end THEN [p EXCEPT !.insertion = @ - (end - start)]
        ELSE IF p.insertion > start THEN [p EXCEPT !.insertion = start]
        ELSE p]

PlacementsAfterRemoval(places, start, end) ==
  [r \in DOMAIN places |->
    LET p == places[r]
        count == end - start
    IN  IF p.parent >= end THEN [p EXCEPT !.parent = @ - count, !.insertion = @ - count]
        ELSE IF p.insertion >= end THEN [p EXCEPT !.insertion = @ - count]
        ELSE IF p.insertion > start THEN [p EXCEPT !.insertion = start]
        ELSE p]

(* The expansions that a collapse of row i takes with it. *)
Dropped(t, i) == {t.rows[j].req : j \in i..SubtreeEnd(t, i)-1} \cap DOMAIN t.places

Collapse(t, i) ==
  LET end == SubtreeEnd(t, i)
  IN  [t EXCEPT !.rows = [SubSeq(@, 1, i) EXCEPT ![i].exp = Collapsed, ![i].req = 0]
                           \o SubSeq(@, end, Len(@)),
                !.places = PlacementsAfterRemoval(Without(@, Dropped(t, i)), i + 1, end),
                !.sel = i]

-----------------------------------------------------------------------------
(* The filter window *)

NoScope == 0

(* A path and the directories that it lies in, each of them by component. *)
Within[n \in Node] == IF Parent[n] = n THEN {n} ELSE {n} \cup Within[Parent[n]]

InScope(path, scope) == scope = NoScope \/ scope \in Within[path]

Matches(query, path) == query = <<>> \/ query \in SubSeqs(Name[path])

Hits(t, query, scope) ==
  {i \in 1..Len(t.rows) : LET path == t.rows[i].path
                          IN  path # scope /\ InScope(path, scope) /\ Matches(query, path)}

Entered(t, scope) == {i \in 1..Len(t.rows) : t.rows[i].path = scope}

AncestorsOf(t, i) ==
  {j \in 1..i-1 : \A k \in j+1..i : t.rows[k].depth > t.rows[j].depth}

(* The rows on screen, and those of them that match.  Without a query or a      *)
(* scope every row is, and counts as a match.                                   *)
Window(t, query, scope) ==
  LET hits == Hits(t, query, scope)
      base == hits \cup Entered(t, scope)
  IN  [shown |-> base \cup UNION {AncestorsOf(t, i) : i \in base}, matched |-> hits]

(* The row on the k-th line of the screen, and where a row sits among them: a    *)
(* row that is hidden sits where the next one does, or at the end.              *)
RowAt(w, k) == CHOOSE i \in w.shown : Cardinality({j \in w.shown : j < i}) = k - 1

PositionOf(w, row) ==
  Least(Cardinality({i \in w.shown : i < row}) + 1, Cardinality(w.shown))

(* The match at or after a row, or the last one. *)
MatchFrom(w, row) ==
  LET after == {i \in w.matched : i >= row}
  IN  IF after # {} THEN Min(after) ELSE Max(w.matched)
=============================================================================
