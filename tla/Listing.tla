------------------------------- MODULE Listing -------------------------------
(***************************************************************************)
(* A directory listed, or walked, on another host: the traversal, its        *)
(* batches, the wire, the checks of the client, and the command that prints  *)
(* what it gets.  The same traversal is modelled for both crates: the        *)
(* shipping one serves it over gRPC and cancels it with a token ("served"),  *)
(* its successor hands the stream to a task that drops it ("pulled").        *)
(*                                                                         *)
(* The filesystem changes meanwhile, between any two system calls.  An       *)
(* action of the server is what lies between two awaits.                     *)
(***************************************************************************)
EXTENDS PathNames, FiniteSets, Integers

CONSTANTS
  Node,          \* what the host holds below the root of the request
  Root,          \* the directory asked for
  Parent,        \* the directory each node is in
  Name,          \* its name, as bytes
  KindAtFirst,   \* what it is before anything changes
  Target,        \* the directory a link in its place points at
  Modified,      \* its modification time, in nanoseconds from the epoch
  PerSecond,     \* the nanoseconds of a second
  RootAt,        \* the components of the path of Root
  Home,          \* the home directory of the server's user, as bytes
  Typed,         \* the paths a person may type, as bytes
  ChunkEntries,  \* GRPC_BATCH_MAX_ENTRIES
  BatchBytes,    \* values of GRPC_BATCH_MAX_BYTES
  WireFrames,    \* how many messages the connection holds on the way
  MaxChanges     \* bound: changes of the filesystem during a run

ASSUME TreeAssumption ==
  /\ IsFiniteSet(Node) /\ Root \notin Node
  /\ Parent \in [Node -> Node \cup {Root}]
  /\ \A n, m \in Node : Parent[n] = Parent[m] /\ Name[n] = Name[m] => n = m
  /\ \A n \in Node : Name[n] # <<>> /\ "/" \notin ToSet(Name[n])
  /\ ChunkEntries \in Nat \ {0} /\ WireFrames \in Nat \ {0}

VARIABLES
  request,    \* [by, op, path, limit]: the edition, what for, what was typed
  kind,       \* EntryKind of every node, as lstat would tell now
  broken,     \* the error that reading a directory meets, or "None"
  denied,     \* the nodes whose lstat is refused
  gone,       \* the nodes removed
  changes,    \* how many changes there were
  phase,      \* of the handler: "Opening", "Reading", "Ended", "Closed"
  stack,      \* WalkState::stack; a listing is a walk of one frame
  descent,    \* pending_descent: the directory just reported
  found,      \* the entry read and not yet inspected
  cancelled,  \* FsService::cancellation_token
  chunk,      \* what StreamExt::chunks has gathered
  out,        \* the batches made of the last chunk
  wire,       \* messages on their way
  link,       \* "up", or "lost"
  pending,    \* NetworkWalkState::pending: converted, not yet taken
  got,        \* what the consumer took
  printed,    \* the paths it wrote, as bytes
  end,        \* "Open", "Done", or the io::ErrorKind the stream ended with
  exit,       \* "None", "Ok" or "Error": how the command returned
  read        \* everything the traversal ever produced, errors included

diskVars == <<kind, broken, denied, gone, changes>>
traversalVars == <<stack, descent, found>>
clientVars == <<pending, got, printed, end, exit>>
vars == <<request, diskVars, phase, traversalVars, cancelled, chunk, out, wire,
          link, clientVars, read>>

None == "None"
Served == request.by = "served"
EntryKind == {"File", "Directory", "Symlink", "Other"}

(***************************************************************************)
(* Errors: what the system reports, as it is named on each side.            *)
(***************************************************************************)
Failure(kindOfError) == [failed |-> kindOfError]
IsFailure(item) == "failed" \in DOMAIN item

(* FsError::from_io, then fs_status(). *)
FsKind(io) ==
  CASE io = "NotFound" -> "NotFound"
    [] io = "PermissionDenied" -> "PermissionDenied"
    [] io = "NotADirectory" -> "NotDirectory"
    [] io = "Interrupted" -> "Cancelled"
    [] io = "InvalidInput" -> "InvalidArgument"
    [] OTHER -> "Internal"

StatusCode(fs) ==
  CASE fs = "NotDirectory" -> "FailedPrecondition"
    [] fs = "TooLarge" -> "ResourceExhausted"
    [] OTHER -> fs

(* operation_status_error(). *)
StatusError(code) ==
  CASE code = "NotFound" -> "NotFound"
    [] code = "PermissionDenied" -> "PermissionDenied"
    [] code = "FailedPrecondition" -> "NotADirectory"
    [] code = "Cancelled" -> "Interrupted"
    [] code = "InvalidArgument" -> "InvalidInput"
    [] code = "Unavailable" -> "ConnectionAborted"
    [] OTHER -> "Other"

(* kind_of() of the successor, which has no cancelled kind. *)
PulledKind(io) == IF io = "Interrupted" THEN "Internal" ELSE FsKind(io)

(***************************************************************************)
(* The host's directories.                                                  *)
(***************************************************************************)
(* What read_dir() opens: it follows the link that a path may have become. *)
Opened(n) == IF n # Root /\ kind[n] = "Symlink" THEN Target[n] ELSE n

OpenError(n) ==
  LET dir == Opened(n)
  IN  IF n \in gone \/ dir \in gone THEN "NotFound"
      ELSE IF dir # Root /\ kind[dir] # "Directory" THEN "NotADirectory"
      ELSE broken[dir]

Frame(n, rel, depth) ==
  [of |-> Opened(n), left |-> {m \in Node : Parent[m] = Opened(n)} \ gone,
   rel |-> rel, depth |-> depth]

EscapedName == [n \in Node |-> Escape(Name[n])]

(* Whether lstat describes an entry: it can be refused for one alone. *)
Readable(n) == n \notin denied \cup gone
(* The one place where a link's target is consulted. *)
Navigable(n) == \/ kind[n] = "Directory"
                \/ kind[n] = "Symlink" /\ OpenError(n) = None

(* inspect_entry(): never fails.  An entry that refuses its lstat is reported *)
(* without metadata, with the kind that read_dir() carried.                  *)
Inspect(n, frame) ==
  LET name == EscapedName[n]
  IN  [name |-> name,
       rel |-> Join(frame.rel, name),
       depth |-> frame.depth,
       kind |-> kind[n],
       metadata |-> IF Readable(n) THEN <<Modified[n]>> ELSE <<>>,
       navigable |-> Readable(n) /\ Navigable(n)]
Descends(entry) == entry.metadata # <<>> /\ entry.kind = "Directory"

-----------------------------------------------------------------------------
Init ==
  /\ request \in [by : {"served", "pulled"}, op : {"list", "walk"},
                  path : Typed, limit : BatchBytes]
  /\ kind = KindAtFirst
  /\ broken = [n \in Node \cup {Root} |-> None]
  /\ denied = {} /\ gone = {} /\ changes = 0
  /\ phase = "Opening"
  /\ stack = <<>> /\ descent = <<>> /\ found = <<>>
  /\ cancelled = FALSE
  /\ chunk = <<>> /\ out = <<>> /\ wire = <<>> /\ link = "up"
  /\ pending = <<>> /\ got = <<>> /\ printed = <<>>
  /\ end = "Open" /\ exit = None
  /\ read = <<>>

(***************************************************************************)
(* What the host and the connection may do meanwhile.                       *)
(***************************************************************************)
Change ==
  /\ changes < MaxChanges
  /\ changes' = changes + 1
  /\ UNCHANGED <<request, phase, traversalVars, cancelled, chunk, out, wire,
                 link, clientVars, read>>

Break(n) ==
  /\ Change
  /\ \E error \in {"PermissionDenied", "Other"} :
       broken' = [broken EXCEPT ![n] = error]
  /\ UNCHANGED <<kind, denied, gone>>
Deny(n) ==
  /\ Change
  /\ denied' = denied \cup {n}
  /\ UNCHANGED <<kind, broken, gone>>
Unlink(n) ==
  /\ Change
  /\ gone' = gone \cup {n}
  /\ UNCHANGED <<kind, broken, denied>>
(* A directory is replaced by a file, or by a link to a directory. *)
Replace(n) ==
  /\ Change
  /\ kind[n] = "Directory"
  /\ \E k \in {"File", "Symlink"} : kind' = [kind EXCEPT ![n] = k]
  /\ UNCHANGED <<broken, denied, gone>>

(* FsService::cancel, when the server stops. *)
Cancel ==
  /\ Served /\ ~cancelled
  /\ cancelled' = TRUE
  /\ UNCHANGED <<request, diskVars, phase, traversalVars, chunk, out, wire,
                 link, clientVars, read>>

(* The connection goes, with what is on its way but for a part of it. *)
Lose ==
  /\ Served /\ link = "up" /\ end = "Open"
  /\ link' = "lost"
  /\ \E k \in 0..Len(wire) : wire' = SubSeq(wire, 1, k)
  /\ phase' = "Closed" /\ chunk' = <<>> /\ out' = <<>>
  /\ UNCHANGED <<request, diskVars, traversalVars, cancelled, clientVars, read>>

-----------------------------------------------------------------------------
(***************************************************************************)
(* The server: list_dir() and walk_dir().                                   *)
(***************************************************************************)
(* A fault of the request itself is the answer, before any stream. *)
Answer(error) ==
  /\ phase' = "Closed"
  /\ IF Served
     THEN wire' = <<[code |-> StatusCode(FsKind(error))]>> /\ UNCHANGED end
     ELSE end' = PulledKind(error) /\ UNCHANGED wire
  /\ UNCHANGED stack

(* What each edition opens for a path that was typed, and escaped to be sent. *)
ResolvedPath ==
  [by \in {"served", "pulled"} |->
     [path \in Typed |->
        IF by = "served" THEN ResolvePath(FromLiteral(path), Home, Home)
        ELSE Absolute(FromLiteral(path))]]

(* The root is opened, unless ensure_active() or the biased select finds the  *)
(* token.                                                                    *)
OpenRoot ==
  LET path == ResolvedPath[request.by][request.path]
  IN  /\ phase = "Opening"
      /\ IF cancelled THEN Answer("Interrupted")
         ELSE IF ~path.ok THEN Answer("InvalidInput")
         ELSE IF path.at # RootAt THEN Answer("NotFound")
         ELSE IF OpenError(Root) # None THEN Answer(OpenError(Root))
         ELSE /\ phase' = "Reading"
              /\ stack' = <<Frame(Root, <<>>, 1)>>
              /\ UNCHANGED <<wire, end>>
      /\ UNCHANGED <<request, diskVars, descent, found, cancelled, chunk, out,
                     link, pending, got, printed, exit, read>>

(* The consumer is waiting for an item: a stream does no work until polled.  *)
Polled ==
  /\ phase = "Reading"
  /\ IF Served THEN out = <<>> /\ Len(chunk) < ChunkEntries
     ELSE end = "Open"

(* One item of the stream: to the chunk, or to the task that pulled it. *)
Produce(item) ==
  /\ read' = Append(read, item)
  /\ IF Served
     THEN chunk' = Append(chunk, item) /\ UNCHANGED <<got, end>>
     ELSE /\ UNCHANGED chunk
          /\ IF IsFailure(item)
             THEN end' = PulledKind(item.failed) /\ UNCHANGED got
             ELSE got' = Append(got, item) /\ UNCHANGED end
  /\ UNCHANGED <<request, diskVars, cancelled, out, wire, link, pending,
                 printed, exit>>

EndWith(error) ==
  /\ Produce(Failure(error))
  /\ phase' = "Ended"
  /\ UNCHANGED traversalVars

Waits == UNCHANGED <<request, diskVars, cancelled, chunk, out, wire, link,
                     clientVars, read>>

(* A wait that the token interrupts: it is polled first. *)
SeeCancelled ==
  /\ Polled /\ cancelled
  /\ EndWith("Interrupted")

(* Mutant of Descend: a directory is opened where its parent ends. *)
DescendLast ==
  /\ Polled /\ ~cancelled /\ found = <<>> /\ descent # <<>>
  /\ LET next == Head(descent)
     IN  /\ stack' = <<Frame(next.node, next.rel, next.depth)>> \o stack
         /\ descent' = <<>>
         /\ UNCHANGED <<found, phase>>
         /\ Waits

(* The directory just reported is opened before the next entry is read. *)
Descend ==
  /\ Polled /\ ~cancelled /\ descent # <<>>
  /\ LET next == Head(descent)
     IN  IF OpenError(next.node) # None
         THEN EndWith(OpenError(next.node))
         ELSE /\ stack' = Append(stack, Frame(next.node, next.rel, next.depth))
              /\ descent' = <<>>
              /\ UNCHANGED <<found, phase>>
              /\ Waits

(* next_entry(): the filesystem's order; what was removed may be skipped.    *)
NextEntry ==
  /\ Polled /\ ~cancelled /\ descent = <<>> /\ found = <<>>
  /\ LET frame == Last(stack)
     IN  \/ /\ broken[frame.of] # None
            /\ EndWith(broken[frame.of])
         \/ \E n \in frame.left :
              /\ stack' = [stack EXCEPT ![Len(stack)].left = @ \ {n}]
              /\ found' \in {<<n>>} \cup (IF n \in gone THEN {<<>>} ELSE {})
              /\ UNCHANGED <<descent, phase>>
              /\ Waits
         \/ /\ frame.left = {}
            /\ stack' = Front(stack)
            /\ phase' = IF Len(stack) = 1 THEN "Ended" ELSE phase
            /\ end' = IF Len(stack) = 1 /\ ~Served THEN "Done" ELSE end
            /\ UNCHANGED <<request, diskVars, descent, found, cancelled, chunk,
                           out, wire, link, pending, got, printed, exit, read>>

(* A listing does not descend. *)
InspectEntry ==
  /\ Polled /\ ~cancelled /\ found # <<>>
  /\ LET n == Head(found)
         frame == Last(stack)
         entry == Inspect(n, frame)
     IN  /\ Produce(entry)
         /\ found' = <<>>
         /\ descent' = IF request.op = "walk" /\ Descends(entry)
                       THEN <<[node |-> n, rel |-> entry.rel,
                               depth |-> entry.depth + 1]>>
                       ELSE descent
         /\ UNCHANGED <<stack, phase>>

(***************************************************************************)
(* convert_chunk() and the response stream.                                 *)
(***************************************************************************)
(* A message is no shorter than the text it carries. *)
EntryBytes(entry) == Len(entry.rel) + 1
Batch(entries) == [entries |-> entries]

(* split_unix_time(): whole seconds, and a remainder that is never negative. *)
SplitUnixTime(time) ==
  IF time >= 0
  THEN [seconds |-> time \div PerSecond, nanos |-> time % PerSecond]
  ELSE LET seconds == (-time) \div PerSecond
           nanos == (-time) % PerSecond
       IN  IF nanos = 0 THEN [seconds |-> -seconds, nanos |-> 0]
           ELSE [seconds |-> -seconds - 1, nanos |-> PerSecond - nanos]

ConvertEntry(entry) ==
  [entry EXCEPT !.metadata = [i \in DOMAIN @ |-> SplitUnixTime(@[i])]]

Flush(made) ==
  IF made.batch = <<>> THEN made
  ELSE [made EXCEPT !.results = Append(@, Batch(made.batch)),
                    !.batch = <<>>, !.bytes = 0]

(* Mutant of ConvertChunk: the entries read before an error go with it. *)
ConvertChunkDropping(items) ==
  IF \E i \in DOMAIN items : IsFailure(items[i])
  THEN <<[code |-> StatusCode(FsKind(Last(items).failed))]>>
  ELSE <<Batch(items)>>

(* The first error, of the traversal or an entry too large for a message,    *)
(* ends the results, after the batch of what came before it.                 *)
ConvertChunk(items) ==
  LET Fail(made, code) ==
        [Flush(made) EXCEPT !.results = Append(@, [code |-> code]),
                            !.over = TRUE]
      Take(made, entry) ==
        LET room == IF made.bytes + EntryBytes(entry) > request.limit
                    THEN Flush(made) ELSE made
        IN  [room EXCEPT !.batch = Append(@, ConvertEntry(entry)),
                         !.bytes = @ + EntryBytes(entry)]
      Step(made, item) ==
        IF made.over THEN made
        ELSE IF IsFailure(item) THEN Fail(made, StatusCode(FsKind(item.failed)))
        ELSE IF EntryBytes(item) > request.limit
             THEN Fail(made, StatusCode("TooLarge"))
        ELSE Take(made, item)
  IN  Flush(Scan(Step, [results |-> <<>>, batch |-> <<>>, bytes |-> 0,
                            over |-> FALSE], items)).results

(* Mutant of Convert: only a full chunk is sent on. *)
ConvertFullChunk ==
  /\ Served /\ out = <<>> /\ Len(chunk) = ChunkEntries
  /\ out' = ConvertChunk(chunk)
  /\ chunk' = <<>>
  /\ UNCHANGED <<request, diskVars, phase, traversalVars, cancelled, wire, link,
                 clientVars, read>>

Convert ==
  /\ Served /\ out = <<>> /\ chunk # <<>>
  /\ Len(chunk) = ChunkEntries \/ phase = "Ended"
  /\ out' = ConvertChunk(chunk)
  /\ chunk' = <<>>
  /\ UNCHANGED <<request, diskVars, phase, traversalVars, cancelled, wire, link,
                 clientVars, read>>

(* An error is the last message: the response ends with its status. *)
Send ==
  /\ out # <<>> /\ Len(wire) < WireFrames
  /\ wire' = Append(wire, Head(out))
  /\ IF "code" \in DOMAIN Head(out)
     THEN phase' = "Closed" /\ out' = <<>> /\ chunk' = <<>>
     ELSE out' = Tail(out) /\ UNCHANGED <<phase, chunk>>
  /\ UNCHANGED <<request, diskVars, traversalVars, cancelled, link, clientVars,
                 read>>

SendEnd ==
  /\ Served /\ phase = "Ended" /\ chunk = <<>> /\ out = <<>>
  /\ Len(wire) < WireFrames
  /\ wire' = Append(wire, [code |-> "Ok"])
  /\ phase' = "Closed"
  /\ UNCHANGED <<request, diskVars, traversalVars, cancelled, chunk, out, link,
                 clientVars, read>>

-----------------------------------------------------------------------------
(***************************************************************************)
(* The client: the checks of what arrives, and the command.                 *)
(***************************************************************************)
(* convert_entry(), and convert_walk_entry() for what a walk adds. *)
AcceptsEntry(entry) == Unescape(entry.name).ok /\ entry.kind \in EntryKind
AcceptsWalkEntry(entry) ==
  /\ IsRelativePath(entry.rel) /\ Unescape(entry.rel).ok
  /\ entry.depth # 0
  /\ AcceptsEntry(entry)

(* join_unix_time(): the time back, or none for a remainder out of range. *)
JoinUnixTime(wired) ==
  IF wired.nanos >= PerSecond THEN None
  ELSE wired.seconds * PerSecond + wired.nanos
ReadEntry(entry) ==
  [entry EXCEPT !.metadata = [i \in DOMAIN @ |-> JoinUnixTime(@[i])]]

(* convert_batch(): whole, or not at all. *)
AcceptsBatch(entries) ==
  /\ entries # <<>>
  /\ \A i \in DOMAIN entries :
       IF request.op = "walk" THEN AcceptsWalkEntry(entries[i])
       ELSE AcceptsEntry(entries[i])

Receive ==
  /\ end = "Open" /\ exit = None /\ pending = <<>> /\ wire # <<>>
  /\ wire' = Tail(wire)
  /\ LET message == Head(wire)
     IN  IF "code" \in DOMAIN message
         THEN /\ end' = IF message.code = "Ok" THEN "Done"
                        ELSE StatusError(message.code)
              /\ UNCHANGED pending
         ELSE IF AcceptsBatch(message.entries)
         THEN /\ pending' = [i \in DOMAIN message.entries |->
                                ReadEntry(message.entries[i])]
              /\ UNCHANGED end
         ELSE end' = "InvalidData" /\ UNCHANGED pending
  /\ UNCHANGED <<request, diskVars, phase, traversalVars, cancelled, chunk, out,
                 link, got, printed, exit, read>>

SeeLost ==
  /\ end = "Open" /\ pending = <<>> /\ wire = <<>> /\ link = "lost"
  /\ end' = StatusError("Unavailable")
  /\ UNCHANGED <<request, diskVars, phase, traversalVars, cancelled, chunk, out,
                 wire, link, pending, got, printed, exit, read>>

(* child_path() and descendant_path(): what the command joins to its root. *)
IsChild(entry) == IsOneComponent(entry.name)
IsDescendant(entry) == IsRelativePath(entry.rel) /\ Unescape(entry.rel).ok

(* write_listing() and write_walk(): one entry taken, checked and written.   *)
TakeEntry ==
  /\ pending # <<>> /\ exit = None
  /\ LET entry == Head(pending)
     IN  \/ /\ IF request.op = "list" THEN IsChild(entry)
               ELSE IsDescendant(entry)
            /\ pending' = Tail(pending)
            /\ got' = Append(got, entry)
            /\ printed' = Append(printed, Unescape(entry.rel).bytes)
            /\ UNCHANGED exit
         \/ (* The output refuses the line, or the name is none. *)
            /\ exit' = "Error"
            /\ UNCHANGED <<pending, got, printed>>
  /\ UNCHANGED <<request, diskVars, phase, traversalVars, cancelled, chunk, out,
                 wire, link, end, read>>

(* run(): the connections are closed first, and the first error is returned. *)
Return ==
  /\ end # "Open" /\ pending = <<>> /\ exit = None
  /\ \E closed \in BOOLEAN :
       exit' = IF end = "Done" /\ (closed \/ ~Served) THEN "Ok" ELSE "Error"
  /\ UNCHANGED <<request, diskVars, phase, traversalVars, cancelled, chunk, out,
                 wire, link, pending, got, printed, end, read>>

(* The task that pulls the successor's stream selects on its own token and   *)
(* drops the stream: nothing is told, and nothing more is done.               *)
DropStream ==
  /\ ~Served /\ end = "Open" /\ exit = None
  /\ exit' = "Error"
  /\ end' = "Dropped"
  /\ UNCHANGED <<request, diskVars, phase, traversalVars, cancelled, chunk, out,
                 wire, link, pending, got, printed, read>>

-----------------------------------------------------------------------------
Host == \/ \E n \in Node : Deny(n) \/ Unlink(n) \/ Replace(n)
        \/ \E n \in {Root} \cup {m \in Node : kind[m] = "Directory"} : Break(n)
Server == OpenRoot \/ SeeCancelled \/ Descend \/ NextEntry \/ InspectEntry
          \/ Convert \/ Send \/ SendEnd
Client == Receive \/ SeeLost \/ TakeEntry \/ Return

Finished == exit # None /\ UNCHANGED vars

Next ==
  \/ exit = None /\ (Host \/ Cancel \/ Lose \/ Server \/ Client \/ DropStream)
  \/ Finished

(* The filesystem answers every call, the connection carries what it is given *)
(* unless it is lost, and the command's output takes its lines.               *)
Spec == Init /\ [][Next]_vars /\ WF_vars(Server) /\ WF_vars(Client)

-----------------------------------------------------------------------------
Entries == SelectSeq(read, LAMBDA item : ~IsFailure(item))
(* What fits in messages: everything before the first entry too large. *)
Deliverable ==
  LET large == {i \in DOMAIN Entries :
                  Served /\ EntryBytes(Entries[i]) > request.limit}
  IN  IF large = {} THEN Entries
      ELSE LET first == CHOOSE i \in large : \A j \in large : i <= j
           IN  SubSeq(Entries, 1, first - 1)

RealPath ==
  LET path[n \in Node] == IF Parent[n] = Root THEN Name[n]
                          ELSE path[Parent[n]] \o <<"/">> \o Name[n]
  IN  path
Asked == IF request.op = "walk" THEN Node ELSE {n \in Node : Parent[n] = Root}

(* The consumer holds the beginning of what was read, in its order, with the  *)
(* times it had, before the epoch too.  A stream that ends without an error   *)
(* was read to its end and taken whole, and shows each entry once where       *)
(* nothing changed; one that ends with an error of the server gave all that   *)
(* was read before, and names what the host reported.                         *)
EndTellsTheTruth ==
  /\ IsPrefix(got, Deliverable)
  /\ end = "Done" /\ pending = <<>> =>
       /\ stack = <<>> /\ descent = <<>> /\ got = read
       /\ changes = 0 => /\ Len(got) = Cardinality(Asked)
                         /\ Len(got) = Cardinality(ToSet(got))
  /\ end \notin {"Open", "Done", "Dropped"} /\ link = "up" => got = Deliverable
  /\ Served /\ link = "up" /\ end \notin {"Open", "Done"} /\ read # <<>> =>
       \/ got # Entries /\ end = "Other"
       \/ end = LET error == Last(read).failed
                IN  IF error \in {"NotFound", "PermissionDenied",
                                  "NotADirectory", "Interrupted"}
                    THEN error ELSE "Other"
  /\ exit = "Ok" => end = "Done"

(* A walk reports an entry below a directory it has reported, right behind it *)
(* or behind what is below it, whatever becomes of the directories meanwhile. *)
PreOrder ==
  \A i \in DOMAIN got :
    IF got[i].depth = 1 THEN got[i].rel = got[i].name
    ELSE \E j \in 1..(i - 1) :
           /\ got[j].kind = "Directory" /\ got[j].depth = got[i].depth - 1
           /\ got[i].rel = Join(got[j].rel, got[i].name)
           /\ \A k \in (j + 1)..i : got[k].depth > got[j].depth

(* Names survive both ways: the client refuses nothing that the server sends, *)
(* what it prints is made of the host's own names, byte for byte, and no two  *)
(* files are printed as one.                                                  *)
NamesSurvive ==
  /\ end # "InvalidData"
  /\ \A i \in DOMAIN wire : "entries" \in DOMAIN wire[i] =>
       /\ Len(wire[i].entries) \in 1..ChunkEntries
       /\ Scan(LAMBDA sum, entry : sum + EntryBytes(entry),
                   0, wire[i].entries) <= request.limit
  /\ \A i \in DOMAIN printed :
       /\ \A k \in DOMAIN Components(printed[i]) :
            \E n \in Node : Name[n] = Components(printed[i])[k]
       /\ changes = 0 => \E n \in Asked : printed[i] = RealPath[n]
       /\ \A j \in DOMAIN printed : printed[i] = printed[j] => i = j

(* The command returns: no chunk is kept waiting for more, and an error, a    *)
(* cancelled server and a lost connection each end the stream.                *)
CommandReturns == <>(exit # None)
==============================================================================
