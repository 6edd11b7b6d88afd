------------------------------- MODULE Browser -------------------------------
(***************************************************************************)
(* One browser tab of the terminal (old/src/tui/browser_context.rs): the     *)
(* listings that fill its tree, the keys that move, open, close and reroot   *)
(* it, and the filter prompt.                                               *)
(*                                                                         *)
(* A listing is a task that sends groups of entries to the channel of events *)
(* and then its end; it is aborted when nobody wants it any more, but what it *)
(* has sent by then still arrives.                                          *)
(***************************************************************************)
EXTENDS BrowserTree

CONSTANTS
  Starts,    \* the paths that a tab may be opened at
  Entries,   \* [Navigable -> Seq(Node)], the order in which read_dir yields them
  Breaks,    \* directories whose listing may fail after some of its entries
  HalfPage,  \* half of the frame's height
  Letters,   \* characters that are typed in the prompt
  MaxQuery,  \* bound: length of a query
  MaxGroups, \* bound: events on the channel
  MaxRequests, \* bound: directories expanded
  MaxListings  \* bound: generations

ASSUME BrowserAssumption ==
  /\ Starts \subseteq Navigable /\ Breaks \subseteq Navigable /\ HalfPage \in Nat
  /\ Entries \in [Navigable -> Seq(Node)]
  /\ \A d \in Navigable : {Entries[d][i] : i \in DOMAIN Entries[d]} = {n \in Node \ {d} : Parent[n] = d}

VARIABLES
  tree,
  filter,     \* the prompt
  tasks,      \* root_listing_task and listing_tasks, by request
  requests,   \* next_request_id
  generation,
  channel,    \* events on their way to the tab
  found,      \* ghost: the directories that were open when the prompt opened, and
              \* that it has not opened again since
  relisted    \* ghost: a row that kept entries of a listing that broke has been
              \* listed again, below them, since the root was listed

vars == <<tree, filter, tasks, requests, generation, channel, found, relisted>>

NoPath == 0
NoText == <<>>
Root == 0  \* ListingTarget::Root; a directory has the number of its request

NewFilter(path) ==
  [open |-> TRUE, query |-> <<>>, filled |-> NoText, descents |-> <<>>, restore |-> path]
NoFilter == [NewFilter(NoPath) EXCEPT !.open = FALSE]
Prompt == filter.open
ScopeOf(f) == IF f.descents = <<>> THEN NoScope ELSE Last(f.descents).path
Displayed(f) == IF f.filled = NoText THEN f.query ELSE f.filled

Listing(path) == [path |-> path, left |-> Entries[path], sent |-> FALSE, done |-> FALSE]
OpenPaths(t) == {t.rows[i].path : i \in {j \in 1..Len(t.rows) : t.rows[j].exp \in {Loading, Expanded}}}

(* What a key or an event may change at once: `b` is the tab as it goes through *)
(* the calls of a handler.                                                     *)
Tab == [tree |-> tree, filter |-> filter, tasks |-> tasks, requests |-> requests]

Become(b) ==
  /\ tree' = b.tree /\ filter' = b.filter /\ tasks' = b.tasks /\ requests' = b.requests

(* tree.rs says of a listing that starts: "A row is only expanded from         *)
(* collapsed, so it has no children yet".  The `/` of the prompt also expands a *)
(* row whose listing failed, and that keeps the rows that came before the error. *)
ListsAgain(t) ==
  \E r \in DOMAIN t.places \ DOMAIN tree.places :
    SubtreeEnd(t, t.places[r].parent) # t.places[r].insertion

Noted(t) == relisted' = (relisted \/ ListsAgain(t))

Init ==
  /\ filter = NoFilter
  /\ \E start \in Starts : tree = NewTree(start) /\ tasks = [r \in {Root} |-> Listing(start)]
  /\ requests = 0 /\ generation = 1
  /\ channel = <<>> /\ found = {} /\ relisted = FALSE

-----------------------------------------------------------------------------
(* run_listing() *)

Send(r, kind, paths) ==
  /\ Len(channel) < MaxGroups
  /\ channel' = Append(channel, [generation |-> generation, target |-> r,
                                 kind |-> kind, paths |-> paths])

(* A group is what the stream has ready. *)
SendGroup(r) ==
  /\ ~tasks[r].done
  /\ \E k \in 1..Len(tasks[r].left) :
       /\ Send(r, "entries", SubSeq(tasks[r].left, 1, k))
       /\ tasks' = [tasks EXCEPT ![r].left = SubSeq(@, k + 1, Len(@)), ![r].sent = TRUE]
  /\ UNCHANGED <<tree, filter, requests, generation, found, relisted>>

SendFinished(r) ==
  /\ ~tasks[r].done /\ tasks[r].left = <<>>
  /\ Send(r, "finished", <<>>)
  /\ tasks' = [tasks EXCEPT ![r].done = TRUE]
  /\ UNCHANGED <<tree, filter, requests, generation, found, relisted>>

(* op_list_dir() is refused, or an error ends the stream. *)
SendFailed(r) ==
  /\ ~tasks[r].done /\ (tasks[r].sent => tasks[r].path \in Breaks)
  /\ Send(r, "failed", <<>>)
  /\ tasks' = [tasks EXCEPT ![r].done = TRUE, ![r].left = <<>>]
  /\ UNCHANGED <<tree, filter, requests, generation, found, relisted>>

-----------------------------------------------------------------------------
(* apply() *)

ApplyRoot(event) ==
  IF event.kind = "entries" THEN [Tab EXCEPT !.tree = ExtendRoot(@, event.paths)]
  ELSE [Tab EXCEPT !.tree = FinishRoot(@, IF event.kind = "failed" THEN Failed ELSE Complete),
                   !.tasks = Without(@, {Root})]

ApplyDirectory(event) ==
  LET r == event.target
  IN  IF r \notin DOMAIN tree.places THEN Tab
      ELSE IF event.kind = "entries" THEN [Tab EXCEPT !.tree = ExtendChild(@, r, event.paths)]
      ELSE [Tab EXCEPT !.tree = FinishChild(@, r, IF event.kind = "failed" THEN Failed ELSE Expanded),
                       !.tasks = Without(@, {r})]

Wanted(event) == event.generation = generation

Apply ==
  /\ channel # <<>>
  /\ LET event == Head(channel)
     IN  Become(IF ~Wanted(event) THEN Tab
                ELSE IF event.target = Root THEN ApplyRoot(event) ELSE ApplyDirectory(event))
  /\ channel' = Tail(channel)
  /\ UNCHANGED <<generation, found, relisted>>

-----------------------------------------------------------------------------
(* Opening and closing directories, and the root *)

StartDirectoryListing(b, i) ==
  LET r == b.requests + 1
      started == [q \in DOMAIN b.tasks \cup {r} |->
                   IF q = r THEN Listing(b.tree.rows[i].path) ELSE b.tasks[q]]
  IN  [b EXCEPT !.tree = BeginExpansion(@, i, r), !.tasks = started, !.requests = r]

CollapseDirectory(b, i) ==
  [b EXCEPT !.tree = Collapse(@, i), !.tasks = Without(@, Dropped(b.tree, i))]

(* start_root_listing(): every listing under way is aborted. *)
StartRootListing(t) ==
  /\ generation < MaxListings
  /\ generation' = generation + 1
  /\ tree' = Restart(t)
  /\ tasks' = [r \in {Root} |-> Listing(t.root)]
  /\ relisted' = FALSE
  /\ UNCHANGED <<filter, requests, channel, found>>

(* The key, while the prompt is closed; or a transfer into the root that has   *)
(* completed, whenever that is.                                               *)
Refresh == StartRootListing(tree)

Selected == EffectiveSelection(tree)
OnDirectory == Selected # 0 /\ SelectedPath(tree) \in Navigable

EnterSelected == ~Prompt /\ OnDirectory /\ StartRootListing(Reroot(tree, SelectedPath(tree)))

Leave == ~Prompt /\ Parent[tree.root] # tree.root /\ StartRootListing(Reroot(tree, Parent[tree.root]))

ActivateSelected ==
  /\ ~Prompt /\ OnDirectory
  /\ IF tree.rows[Selected].exp = Collapsed
     THEN requests < MaxRequests /\ Become(StartDirectoryListing(Tab, Selected))
     ELSE Become(CollapseDirectory(Tab, Selected))
  /\ Noted(tree')
  /\ UNCHANGED <<generation, channel, found>>

-----------------------------------------------------------------------------
(* The selection *)

WindowOf(b) == Window(b.tree, b.filter.query, ScopeOf(b.filter))

Candidate(b) ==
  LET row == EffectiveSelection(b.tree)
  IN  IF row \in WindowOf(b).matched THEN Name[b.tree.rows[row].path] ELSE NoText

FillFromSelection(b) ==
  IF b.filter.open THEN [b EXCEPT !.filter.filled = Candidate(b)] ELSE b

MoveBy(b, distance) ==
  LET w    == WindowOf(b)
      at   == PositionOf(w, EffectiveSelection(b.tree)) + distance
      last == Cardinality(w.shown)
      to   == RowAt(w, IF at < 1 THEN 1 ELSE Least(at, last))
  IN  IF w.shown = {} THEN b ELSE FillFromSelection([b EXCEPT !.tree.sel = to])

MoveSelection ==
  /\ IF tree.rows = <<>> THEN Become([Tab EXCEPT !.tree.sel = 0])
     ELSE \E step \in {-1, 1} : Become(MoveBy(Tab, step))
  /\ UNCHANGED <<generation, channel, found, relisted>>

ScrollHalfPage ==
  /\ tree.rows # <<>>
  /\ \E way \in {-1, 1} : Become(MoveBy(Tab, way * HalfPage))
  /\ UNCHANGED <<generation, channel, found, relisted>>

-----------------------------------------------------------------------------
(* The prompt *)

FollowFilter(b) ==
  LET w == WindowOf(b)
  IN  IF w.matched = {} THEN b
      ELSE [b EXCEPT !.tree.sel = MatchFrom(w, IF @ = 0 THEN 1 ELSE @)]

AdoptFilled(b) ==
  [b EXCEPT !.filter.query = Displayed(b.filter), !.filter.filled = NoText]

Close(b) == [b EXCEPT !.filter = NoFilter]

(* A mutant: what the prompt stepped into is closed, whoever opened it.         *)
ClosesEveryDescent(b, descent) ==
  LET at == {i \in 1..Len(b.tree.rows) : b.tree.rows[i].path = descent.path}
  IN  IF at # {} THEN CollapseDirectory(b, Min(at)) ELSE b

CloseDescent(b, descent) ==
  LET at == {i \in 1..Len(b.tree.rows) : b.tree.rows[i].path = descent.path}
  IN  IF descent.opened /\ at # {} THEN CollapseDirectory(b, Min(at)) ELSE b

AscendFilter(b) ==
  LET descent == Last(b.filter.descents)
      stepped == [b EXCEPT !.filter.descents = Front(@), !.filter.query = descent.query]
  IN  FollowFilter(CloseDescent(stepped, descent))

(* Deepest first. *)
CloseDescents(b) ==
  LET descents == b.filter.descents
      closed[k \in 0..Len(descents)] ==
        IF k = 0 THEN b ELSE CloseDescent(closed[k - 1], descents[Len(descents) + 1 - k])
  IN  closed[Len(descents)]

AbandonFilter(b) ==
  LET closed == CloseDescents(b)
      at     == {i \in 1..Len(closed.tree.rows) : closed.tree.rows[i].path = b.filter.restore}
  IN  Close([closed EXCEPT !.tree.sel = IF at = {} THEN 0 ELSE Min(at)])

Press(b, others) ==
  /\ Become(b)
  /\ found' = IF b.filter.open THEN others ELSE {}
  /\ Noted(b.tree)
  /\ UNCHANGED <<generation, channel>>

Key(b) == Press(b, found)

BeginFilter ==
  /\ ~Prompt
  /\ filter' = NewFilter(IF Selected = 0 THEN NoPath ELSE SelectedPath(tree))
  /\ found' = OpenPaths(tree)
  /\ UNCHANGED <<tree, tasks, requests, generation, channel, relisted>>

ExtendFilter ==
  /\ Prompt /\ Len(Displayed(filter)) < MaxQuery
  /\ \E c \in Letters :
       Key(FollowFilter([AdoptFilled(Tab) EXCEPT !.filter.query = Append(@, c)]))

ShortenFilter ==
  /\ Prompt
  /\ LET b == AdoptFilled(Tab)
     IN  Key(IF b.filter.query # <<>> THEN FollowFilter([b EXCEPT !.filter.query = Front(@)])
             ELSE IF b.filter.descents = <<>> THEN AbandonFilter(b)
             ELSE AscendFilter(b))

Completion(b) == LongestCommonPrefix({Name[b.tree.rows[i].path] : i \in WindowOf(b).matched})

CompleteFilter ==
  /\ Prompt
  /\ LET b == AdoptFilled(Tab)
         completed == [b EXCEPT !.filter.query = Completion(b)]
     IN  Key(IF b.filter.query = <<>> \/ WindowOf(b).matched = {} THEN b
             ELSE IF Len(Completion(b)) <= Len(b.filter.query) THEN b
             ELSE FollowFilter(completed))

Closed(row) == row.exp \in {Collapsed, Failed}

(* Otherwise the prompt only says why not. *)
NamesDirectory ==
  Candidate(Tab) # NoText /\ Candidate(Tab) = Displayed(filter) /\ SelectedPath(tree) \in Navigable

DescendFilter ==
  /\ Prompt /\ NamesDirectory
  /\ LET row    == tree.rows[Selected]
         opened == IF Closed(row) THEN StartDirectoryListing(Tab, Selected) ELSE Tab
         into   == [path |-> row.path, query |-> Displayed(filter), opened |-> Closed(row)]
     IN  /\ Closed(row) => requests < MaxRequests
         /\ Press(FollowFilter([opened EXCEPT !.filter.query = <<>>, !.filter.filled = NoText,
                                              !.filter.descents = Append(@, into)]),
                  IF into.opened THEN found \ {row.path} ELSE found)

ClearFilterEntry ==
  /\ Prompt
  /\ LET cleared(b) == FollowFilter([b EXCEPT !.filter.query = <<>>, !.filter.filled = NoText])
     IN  Key(IF Displayed(filter) # <<>> THEN cleared(Tab)
             ELSE IF filter.descents = <<>> THEN AbandonFilter(Tab)
             ELSE cleared(AscendFilter(Tab)))

SubmitFilter ==
  /\ Prompt
  /\ Key(IF Candidate(Tab) # NoText /\ Candidate(Tab) # Displayed(filter)
         THEN FillFromSelection(Tab) ELSE Close(Tab))

Abandon == Prompt /\ Key(AbandonFilter(Tab))

-----------------------------------------------------------------------------
Listings == \E r \in DOMAIN tasks : SendGroup(r) \/ SendFinished(r) \/ SendFailed(r)

Keys ==
  \/ Refresh \/ EnterSelected \/ Leave \/ ActivateSelected \/ MoveSelection \/ ScrollHalfPage
  \/ BeginFilter \/ ExtendFilter \/ ShortenFilter \/ CompleteFilter \/ DescendFilter
  \/ ClearFilterEntry \/ SubmitFilter \/ Abandon

Next == Listings \/ Apply \/ Keys

Spec == Init /\ [][Next]_vars

(* The runtime polls every task, and the event loop drains the channel. *)
FairSpec ==
  /\ Spec /\ WF_vars(Apply)
  /\ \A r \in Root..MaxRequests : WF_vars(r \in DOMAIN tasks /\ (SendGroup(r) \/ SendFinished(r)))

-----------------------------------------------------------------------------
(* Types. *)
TypeOK ==
  /\ tree.root \in Navigable /\ tree.status \in {Loading, Complete, Failed}
  /\ \A i \in 1..Len(tree.rows) :
       tree.rows[i] \in [path : Node, depth : Nat, req : 0..requests,
                         exp : {Collapsed, Loading, Expanded, Failed}]
  /\ DOMAIN tree.places \subseteq 1..requests /\ tree.sel \in Nat
  /\ filter.open \in BOOLEAN /\ filter.restore \in Node \cup {NoPath}
  /\ DOMAIN tasks \subseteq 0..requests /\ requests <= MaxRequests
  /\ generation \in 1..MaxListings /\ Len(channel) <= MaxGroups
  /\ found \subseteq Node /\ relisted \in BOOLEAN

(* Whatever order groups arrive in, the rows are the pre-order of one tree: the *)
(* rows above a row hold its directory, one level up and open.  No row is there  *)
(* twice, unless one that kept what came before an error was listed again.      *)
PreOrder ==
  LET rows == tree.rows
  IN  \A i \in 1..Len(rows) :
        /\ rows[i].path \in {rows[j].path : j \in 1..i-1} => relisted
        /\ IF rows[i].depth = 0 THEN Parent[rows[i].path] = tree.root
           ELSE \E j \in AncestorsOf(tree, i) :
                  /\ rows[j].path = Parent[rows[i].path] /\ rows[j].depth = rows[i].depth - 1
                  /\ rows[j].exp # Collapsed

(* An expansion is carried to where its row has moved, and its next children go *)
(* into its subtree: to the end of it, unless they go above what was kept.      *)
PlacementsFollow ==
  /\ DOMAIN tree.places = DOMAIN tasks \ {Root}
  /\ {tree.rows[i].req : i \in {j \in 1..Len(tree.rows) : tree.rows[j].exp = Loading}}
       = DOMAIN tree.places
  /\ \A r \in DOMAIN tree.places :
       LET p == tree.places[r]
       IN  /\ p.parent \in 1..Len(tree.rows)
           /\ tree.rows[p.parent].req = r /\ tree.rows[p.parent].exp = Loading
           /\ tree.rows[p.parent].path = tasks[r].path
           /\ p.insertion \in p.parent+1..SubtreeEnd(tree, p.parent)
           /\ p.insertion = SubtreeEnd(tree, p.parent) \/ relisted

(* What the tab draws and where its next entries go are right together, wherever *)
(* rows are opened, closed and moved between two groups, and listings break.    *)
RowsAreATree == PreOrder /\ PlacementsFollow

Selects(t) == t.sel \in 1..Len(t.rows)

(* What arrives never moves the selection off the row that it is on. *)
ArrivalsLeaveSelection ==
  [][Apply /\ Selects(tree) => Selects(tree') /\ SelectedPath(tree') = SelectedPath(tree)]_vars

(* A prompt that is abandoned leaves no directory open that it opened, and closes *)
(* none that it did not; the selection is back on the row it started on, if there *)
(* is one.  It closes by path the first row that it finds, with all below it: this *)
(* is about trees in which nothing was listed again below what it kept.          *)
AbandonRestores ==
  [][(Prompt /\ ~filter'.open /\ ~SubmitFilter /\ ~relisted) =>
       /\ OpenPaths(tree') = OpenPaths(tree) \cap found
       /\ filter.restore \in {tree'.rows[i].path : i \in 1..Len(tree'.rows)} =>
            SelectedPath(tree') = filter.restore]_vars

(* No row is loading for ever: its listing ends, or it is closed; and the root's *)
(* listing ends.                                                              *)
ListingsSettle ==
  /\ []<>(tree.status # Loading)
  /\ \A n \in Node : []<>(\A i \in 1..Len(tree.rows) : tree.rows[i].path = n => tree.rows[i].exp # Loading)

(* What the comment says of an expansion, and the code does not keep. *)
ExpandedFromCollapsed == ~relisted
=============================================================================
