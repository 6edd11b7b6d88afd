------------------------------ MODULE Transfer ------------------------------
(***************************************************************************)
(* The shipping crate's Client: connections that are opened and closed, each   *)
(* with the server that it owns, and one copy from a connection to another     *)
(* (or to itself), a Read stream that feeds a Write stream.                   *)
(*                                                                         *)
(* Nothing holds the parts of a copy together but the two streams: the        *)
(* destination's server publishes when it is told to commit, while either      *)
(* connection may be closed, either server may go, and the task that copies    *)
(* may be dropped wherever it waits.                                         *)
(***************************************************************************)
EXTENDS Integers, Sequences, FiniteSets

CONSTANTS
  Conn,       \* connections
  Kind,       \* whether the server of each is "embedded" or behind "ssh"
  Stuck,      \* where reading and writing files may be slow for ever
  Chunks,     \* chunks of the source file, each of which fits a frame
  Asked,      \* bound: the copies that may be asked for: [from, to, conflict]
  Flow,       \* frames that a stream has under way
  MaxFaults   \* bound: transports and servers that fail

NoConn == "none"

ASSUME TransferAssumption ==
  /\ Kind \in [Conn -> {"embedded", "ssh"}] /\ NoConn \notin Conn
  /\ Stuck \subseteq Conn
  /\ Chunks \in Nat \ {0} /\ Flow \in Nat \ {0} /\ MaxFaults \in Nat

VARIABLES
  opening,  \* where Client::open() stands for each connection
  registry, \* Client::connections
  slot,     \* the slots that hold their connection
  closing,  \* where the close of each connection stands
  server,   \* the server of each connection
  faults,   \* how often something failed
  op,       \* where op_copy_file() stands
  from, to, \* the connections it copies between
  conflict, \* CopyConflict
  guard,    \* the connection whose read lock it holds
  read,     \* where the server of `from` stands in the Read
  left,     \* chunks that it has not read
  rwire,    \* what it has sent
  source,   \* request_stream(): its RequestState
  wwire,    \* frames of the Write under way
  write,    \* where the server of `to` stands in the Write
  answer,   \* its answer
  part,     \* chunks in the partial file, or Absent
  dest,     \* chunks in the destination, or Absent, or Others
  sweep     \* whether a removal of the partial file is spawned

conns == <<opening, registry, slot, closing>>
copy  == <<op, from, to, conflict, guard>>
reader == <<read, left, rwire>>
writer == <<write, answer, part, dest, sweep>>
env   == <<server, faults>>
vars  == <<conns, copy, reader, source, wwire, writer, env>>

Absent == -2
Others == -1

Init ==
  /\ opening = [c \in Conn |-> "no"] /\ registry = {} /\ slot = {}
  /\ closing = [c \in Conn |-> "no"]
  /\ server = [c \in Conn |-> "none"]
  /\ faults = 0
  /\ op = "idle" /\ from = NoConn /\ to = NoConn /\ conflict = "fail"
  /\ guard = NoConn
  /\ read = "off" /\ left = 0 /\ rwire = <<>>
  /\ source = "off" /\ wwire = <<>>
  /\ write = "off" /\ answer = "none" /\ part = Absent
  /\ dest \in {Absent, Others} /\ sweep = FALSE

Over == {"idle", "ok", "error", "dropped"}
Copying == op \notin Over
Stopping(c) == server[c] = "stopping"

(* Whose server is somebody's to stop, or whose lease is held. *)
Held(c) == opening[c] \in {"starting", "connecting", "inserting"} \/ c \in slot

Reading == read \in {"opening", "reading"}
Writing == write \notin {"off", "over"}

-----------------------------------------------------------------------------
(* Client::open() *)

OpeningBecomes(c, s) ==
  /\ opening' = [opening EXCEPT ![c] = s]
  /\ UNCHANGED <<closing, faults, copy, reader, source, wwire, writer>>

Open(c) ==
  /\ opening[c] = "no"
  /\ OpeningBecomes(c, "starting")
  /\ UNCHANGED <<registry, slot, server>>

(* The server runs and has told its port and token; or nothing is left of it. *)
Start(c) ==
  /\ opening[c] = "starting"
  /\ \/ OpeningBecomes(c, "connecting") /\ server' = [server EXCEPT ![c] = "serving"]
     \/ OpeningBecomes(c, "over") /\ UNCHANGED server
  /\ UNCHANGED <<registry, slot>>

(* abort_server(): the embedded one is cancelled, a lease is let go of. *)
AbortServer(c) ==
  server' = IF Kind[c] = "embedded" THEN [server EXCEPT ![c] = "stopping"] ELSE server

(* Mutant of Connect: what could not be reached is left running. *)
ConnectOrForget(c) ==
  /\ opening[c] = "connecting"
  /\ \/ OpeningBecomes(c, "inserting")
     \/ OpeningBecomes(c, "over")
  /\ UNCHANGED <<registry, slot, server>>

(* The channel opens and the health check passes, or the server is stopped. *)
Connect(c) ==
  /\ opening[c] = "connecting"
  /\ \/ OpeningBecomes(c, "inserting") /\ UNCHANGED server
     \/ OpeningBecomes(c, "over") /\ AbortServer(c)
  /\ UNCHANGED <<registry, slot>>

Insert(c) ==
  /\ opening[c] = "inserting"
  /\ OpeningBecomes(c, "over")
  /\ registry' = registry \cup {c} /\ slot' = slot \cup {c}
  /\ UNCHANGED server

(* The task that opens is aborted.  A ServerHandle has no Drop: an embedded      *)
(* server that is being connected to is "lost".                               *)
DropOpen(c) ==
  /\ \/ opening[c] = "starting" /\ OpeningBecomes(c, "over") /\ UNCHANGED server
     \/ /\ opening[c] = "connecting" /\ UNCHANGED server
        /\ OpeningBecomes(c, IF Kind[c] = "embedded" THEN "lost" ELSE "over")
     \/ opening[c] = "inserting" /\ OpeningBecomes(c, "over") /\ AbortServer(c)
  /\ UNCHANGED <<registry, slot>>

-----------------------------------------------------------------------------
(* Client::close(): close_all() is one after the other, of all that are open *)

ClosingUnchanged == UNCHANGED <<opening, faults, copy, source>>

Close(c) ==
  /\ c \in registry
  /\ registry' = registry \ {c}
  /\ closing' = [closing EXCEPT ![c] = "lock"]
  /\ UNCHANGED <<slot, server, reader, wwire, writer>> /\ ClosingUnchanged

(* close_slot(): the write lock is had once no request holds a guard, and is let  *)
(* go of before the server is waited for.                                     *)
EmptySlot(c) ==
  /\ closing[c] = "lock" /\ guard # c
  /\ slot' = slot \ {c}
  /\ closing' = [closing EXCEPT ![c] = "stop"]
  /\ AbortServer(c)
  /\ UNCHANGED <<registry, reader, wwire, writer>> /\ ClosingUnchanged

-----------------------------------------------------------------------------
(* What a server leaves when its handler of the Write is dropped *)

(* Opening, linking and renaming go on when what waits for them is dropped.  The  *)
(* guard's drop only spawns a removal, which may come before a link or after it. *)
DropWrite ==
  /\ write' = "over"
  /\ \/ write \in {"off", "header", "inspect", "over"} /\ UNCHANGED <<part, dest, sweep>>
     \/ write = "create" /\ part' \in {Absent, 0} /\ UNCHANGED <<dest, sweep>>
     \/ write \in {"receive", "commit", "flush"} /\ sweep' = TRUE /\ UNCHANGED <<part, dest>>
     \/ /\ write = "link" /\ sweep' = TRUE
        /\ \/ UNCHANGED <<part, dest>>
           \/ /\ conflict = "replace" \/ dest = Absent
              /\ dest' = part
              /\ part' = IF conflict = "replace" THEN Absent ELSE part
     \/ write \in {"unlink", "clean"} /\ part' = Absent /\ UNCHANGED <<dest, sweep>>

(* The process of the server ends: what it spawned may never have run. *)
LoseWrite ==
  /\ \/ DropWrite
     \/ write' = "over" /\ UNCHANGED <<part, dest, sweep>>

(* What the copy is told when a transport of c breaks. *)
BreakRead(c) ==
  IF from = c /\ Reading
  THEN /\ read' = "over"
       /\ IF Copying
          THEN \E n \in 0..Len(rwire) : rwire' = Append(SubSeq(rwire, 1, n), "error")
          ELSE UNCHANGED rwire
       /\ UNCHANGED left
  ELSE UNCHANGED reader

BreakWrite(c, drop) ==
  IF to = c /\ Writing
  THEN /\ drop
       /\ answer' = IF answer = "none" THEN "error" ELSE answer
       /\ wwire' = <<>>
  ELSE UNCHANGED <<wwire, writer>>

-----------------------------------------------------------------------------
(* Servers *)

ServerUnchanged == UNCHANGED <<conns, copy, source>>

(* The server reads the end of its stdin. *)
LeaseEnds(c) ==
  /\ Kind[c] = "ssh" /\ server[c] = "serving" /\ ~Held(c)
  /\ server' = [server EXCEPT ![c] = "stopping"]
  /\ UNCHANGED <<faults, reader, wwire, writer>> /\ ServerUnchanged

Busy(c) == (from = c /\ Reading) \/ (to = c /\ Writing)

(* tonic's graceful shutdown: the last handler has answered. *)
ServerEnds(c) ==
  /\ Stopping(c) /\ ~Busy(c)
  /\ server' = [server EXCEPT ![c] = "gone"]
  /\ IF Kind[c] = "ssh" /\ to = c THEN sweep' = FALSE ELSE UNCHANGED sweep
  /\ UNCHANGED <<faults, reader, wwire, write, answer, part, dest>> /\ ServerUnchanged

(* A server of its own process does not wait for ever, an embedded one does. *)
ServerGivesUp(c) ==
  /\ Kind[c] = "ssh" /\ Stopping(c) /\ Busy(c)
  /\ server' = [server EXCEPT ![c] = "gone"]
  /\ BreakRead(c) /\ BreakWrite(c, LoseWrite)
  /\ UNCHANGED faults /\ ServerUnchanged

(* The stream under the RPCs breaks, or with it ssh, or the server crashes. *)
Fail(c) ==
  /\ Kind[c] = "ssh" /\ server[c] \in {"serving", "stopping"} /\ faults < MaxFaults
  /\ faults' = faults + 1
  /\ BreakRead(c)
  /\ \/ UNCHANGED server /\ BreakWrite(c, DropWrite)
     \/ server' = [server EXCEPT ![c] = "stopping"] /\ BreakWrite(c, DropWrite)
     \/ server' = [server EXCEPT ![c] = "gone"] /\ BreakWrite(c, LoseWrite)
  /\ ServerUnchanged

(* The server has exited. *)
Closed(c) ==
  /\ closing[c] = "stop" /\ server[c] = "gone"
  /\ closing' = [closing EXCEPT ![c] = "done"]
  /\ UNCHANGED <<opening, registry, slot, copy, reader, source, wwire, writer, env>>

(* Five seconds are over: ssh is killed, an embedded server is let be. *)
CloseTimesOut(c) ==
  /\ closing[c] = "stop" /\ server[c] # "gone"
  /\ closing' = [closing EXCEPT ![c] = "done"]
  /\ IF Kind[c] = "ssh"
     THEN BreakRead(c) /\ BreakWrite(c, DropWrite)
     ELSE UNCHANGED <<reader, wwire, writer>>
  /\ UNCHANGED <<opening, registry, slot, copy, source, env>>

-----------------------------------------------------------------------------
(* op_copy_file() *)

CopyUnchanged == UNCHANGED <<conns, env>>

StartCopy(c, d, how) ==
  /\ [from |-> c, to |-> d, conflict |-> how] \in Asked
  /\ op = "idle" /\ opening[c] = "over" /\ opening[d] = "over"
  /\ op' = "find" /\ from' = c /\ to' = d /\ conflict' = how
  /\ UNCHANGED <<guard, reader, source, wwire, writer>> /\ CopyUnchanged

CopyAt(s) == op' = s /\ UNCHANGED <<from, to, conflict>>

(* Its streams are dropped: what they hold is nobody's. *)
CopyEnds(how) == CopyAt(how) /\ guard' = NoConn /\ rwire' = <<>> /\ source' = "off"

(* connection(): the slot is cloned, then locked; either may find it closed. *)
FindSource ==
  /\ op = "find"
  /\ IF from \in registry
     THEN CopyAt("lock") /\ UNCHANGED <<guard, rwire, source>>
     ELSE CopyEnds("error")
  /\ UNCHANGED <<read, left, wwire, writer>> /\ CopyUnchanged

LockSource ==
  /\ op = "lock"
  /\ IF from \in slot
     THEN CopyAt("resolve") /\ guard' = from /\ UNCHANGED <<rwire, source>>
     ELSE CopyEnds("error")
  /\ UNCHANGED <<read, left, wwire, writer>> /\ CopyUnchanged

(* No file is looked at; the path may be wrong, or its server away. *)
ResolveSource ==
  /\ op = "resolve"
  /\ \/ /\ server[from] = "serving"
        /\ CopyAt("open") /\ read' = "opening" /\ UNCHANGED <<guard, rwire, source>>
     \/ CopyEnds("error") /\ UNCHANGED read
  /\ UNCHANGED <<left, wwire, writer>> /\ CopyUnchanged

(* Mutant of OpenSource: the lock is held for as long as there is to read. *)
OpenSourceLocked ==
  /\ op = "open" /\ read = "opening"
  /\ read' = "reading" /\ left' = Chunks /\ CopyAt("findTo") /\ UNCHANGED guard
  /\ UNCHANGED <<rwire, source, wwire, writer>> /\ CopyUnchanged

(* The server opens the file, or says why not. *)
OpenSource ==
  /\ op = "open" /\ read = "opening"
  /\ guard' = NoConn
  /\ \/ /\ server[from] = "serving"
        /\ read' = "reading" /\ left' = Chunks /\ CopyAt("findTo")
        /\ UNCHANGED <<rwire, source>>
     \/ read' = "over" /\ CopyEnds("error") /\ UNCHANGED left
  /\ UNCHANGED <<wwire, writer>> /\ CopyUnchanged

(* The transport broke meanwhile. *)
OpenSourceBroken ==
  /\ op = "open" /\ read = "over"
  /\ CopyEnds("error")
  /\ UNCHANGED <<read, left, wwire, writer>> /\ CopyUnchanged

FindDestination ==
  /\ op = "findTo"
  /\ IF to \in registry
     THEN CopyAt("lockTo") /\ UNCHANGED <<guard, rwire, source>>
     ELSE CopyEnds("error")
  /\ UNCHANGED <<read, left, wwire, writer>> /\ CopyUnchanged

(* write_file() makes its future while the lock is held, and awaits nothing. *)
LockDestination ==
  /\ op = "lockTo"
  /\ IF to \in slot
     THEN CopyAt("send") /\ source' = "header" /\ UNCHANGED <<guard, rwire>>
     ELSE CopyEnds("error")
  /\ UNCHANGED <<read, left, wwire, writer>> /\ CopyUnchanged

(* The request goes out, if there is a server for it. *)
SendWrite ==
  /\ op = "send"
  /\ \/ /\ server[to] = "serving" /\ CopyAt("writing") /\ write' = "header"
        /\ UNCHANGED <<guard, rwire, source>>
     \/ CopyEnds("error") /\ UNCHANGED write
  /\ UNCHANGED <<read, left, wwire, answer, part, dest, sweep>> /\ CopyUnchanged

(* The task that copies is aborted: clear_transfer_task() of the App. *)
Abort ==
  /\ Copying
  /\ CopyEnds("dropped")
  /\ UNCHANGED <<read, left, wwire, writer>> /\ CopyUnchanged

(* The answer comes, or the Write breaks.  An error of the source comes first. *)
TakeAnswer ==
  /\ op = "writing" /\ answer # "none"
  /\ CopyEnds(IF source = "failed" THEN "error" ELSE answer)
  /\ wwire' = <<>>
  /\ UNCHANGED <<read, left, writer>> /\ CopyUnchanged

-----------------------------------------------------------------------------
(* The Read *)

ReadOnly == UNCHANGED <<conns, copy, source, wwire, writer, env>>

Send(item) == Copying /\ Len(rwire) < Flow /\ rwire' = Append(rwire, item)

ReadChunk ==
  /\ read = "reading" /\ server[from] = "serving" /\ left > 0
  /\ Send("data") /\ left' = left - 1 /\ UNCHANGED read
  /\ ReadOnly

ReadEnd ==
  /\ read = "reading" /\ server[from] = "serving" /\ left = 0
  /\ Send("end") /\ read' = "over" /\ UNCHANGED left
  /\ ReadOnly

(* The file fails to be read on. *)
ReadFails ==
  /\ read = "reading" /\ server[from] = "serving"
  /\ Send("error") /\ read' = "over" /\ UNCHANGED left
  /\ ReadOnly

(* Mutant of ReadCancelled: a stream that is cancelled just ends. *)
ReadStops ==
  /\ Reading /\ Stopping(from)
  /\ Send("end")
  /\ read' = "over" /\ UNCHANGED left
  /\ ReadOnly

(* The service is cancelled: a read that waits for its file no longer does. *)
ReadCancelled ==
  /\ Reading /\ Stopping(from)
  /\ IF read = "reading" THEN Send("error") ELSE UNCHANGED rwire
  /\ read' = "over" /\ UNCHANGED left
  /\ ReadOnly

(* The client has no more use for the stream, and its reset arrives. *)
ReadReset ==
  /\ Reading /\ ~Copying
  /\ read' = "over" /\ UNCHANGED <<left, rwire>>
  /\ ReadOnly

-----------------------------------------------------------------------------
(* The request stream of the Write, which the transport pulls *)

Frame(f, s) ==
  /\ op = "writing" /\ answer = "none" /\ Len(wwire) < Flow
  /\ wwire' = Append(wwire, f)
  /\ source' = s
  /\ UNCHANGED <<conns, copy, writer, env>>

SendHeader == source = "header" /\ Frame("header", "data") /\ UNCHANGED reader

Pull == rwire' = Tail(rwire) /\ UNCHANGED <<read, left>>

SendData ==
  /\ source = "data" /\ rwire # <<>> /\ Head(rwire) = "data"
  /\ Frame("data", "data") /\ Pull

SendCommit ==
  /\ source = "data" /\ rwire # <<>> /\ Head(rwire) = "end"
  /\ Frame("commit", "done") /\ Pull

(* The stream ends without a commit. *)
SourceFails ==
  /\ source = "data" /\ rwire # <<>> /\ Head(rwire) = "error"
  /\ Frame("eof", "failed") /\ Pull

SendEnd == source = "done" /\ Frame("eof", "ended") /\ UNCHANGED reader

RequestStream == SendHeader \/ SendData \/ SendCommit \/ SourceFails \/ SendEnd

-----------------------------------------------------------------------------
(* The Write: server/ops/write.rs over fs/write.rs *)

WriteOnly == UNCHANGED <<conns, copy, reader, source, env>>

WriteAt(s) == write' = s /\ UNCHANGED <<answer, sweep>>

(* The answer goes to whoever still waits for it. *)
Answer(a) == write' = "over" /\ answer' = a /\ UNCHANGED sweep

Next1(f) == wwire # <<>> /\ Head(wwire) = f /\ wwire' = Tail(wwire)

Cancelled == Stopping(to)

ReadHeader ==
  /\ write = "header" /\ Next1("header")
  /\ IF Cancelled THEN Answer("error") ELSE WriteAt("inspect")
  /\ UNCHANGED <<part, dest>> /\ WriteOnly

(* The directory may not be there, and the destination may. *)
Inspect ==
  /\ write = "inspect"
  /\ \/ Answer("error")
     \/ ~Cancelled /\ ~(conflict = "fail" /\ dest # Absent) /\ WriteAt("create")
  /\ UNCHANGED <<wwire, part, dest>> /\ WriteOnly

CreatePartial ==
  /\ write = "create"
  /\ \/ Answer("error") /\ UNCHANGED part
     \/ WriteAt("receive") /\ part' = 0
  /\ UNCHANGED <<wwire, dest>> /\ WriteOnly

WriteChunk ==
  /\ write = "receive" /\ ~Cancelled /\ Next1("data")
  /\ \/ WriteAt("receive") /\ part' = part + 1
     \/ WriteAt("clean") /\ UNCHANGED part
  /\ UNCHANGED dest /\ WriteOnly

SeeCommit ==
  /\ write = "receive" /\ ~Cancelled /\ Next1("commit")
  /\ WriteAt("commit")
  /\ UNCHANGED <<part, dest>> /\ WriteOnly

EndWithoutCommit ==
  /\ write = "receive" /\ ~Cancelled /\ Next1("eof")
  /\ WriteAt("clean")
  /\ UNCHANGED <<part, dest>> /\ WriteOnly

SeeEnd ==
  /\ write = "commit" /\ ~Cancelled /\ Next1("eof")
  /\ WriteAt("flush")
  /\ UNCHANGED <<part, dest>> /\ WriteOnly

(* Mutant of WriteCancelled: a cancel is seen between two chunks only. *)
CancelledBetweenChunks ==
  /\ write \in {"receive", "commit", "flush"} /\ Cancelled
  /\ write = "receive" => wwire = <<>>
  /\ WriteAt("clean")
  /\ UNCHANGED <<wwire, part, dest>> /\ WriteOnly

WriteCancelled ==
  /\ write \in {"receive", "commit", "flush"} /\ Cancelled
  /\ WriteAt("clean")
  /\ UNCHANGED <<wwire, part, dest>> /\ WriteOnly

(* publish() looks once more for a cancel, then links or renames. *)
Flush ==
  /\ write = "flush" /\ ~Cancelled
  /\ WriteAt("link") \/ WriteAt("clean")
  /\ UNCHANGED <<wwire, part, dest>> /\ WriteOnly

Link ==
  /\ write = "link"
  /\ \/ conflict = "replace" /\ dest' = part /\ part' = Absent /\ Answer("ok")
     \/ conflict = "fail" /\ dest = Absent /\ dest' = part /\ WriteAt("unlink")
        /\ UNCHANGED part
     \/ (conflict = "fail" => dest # Absent) /\ WriteAt("clean") /\ UNCHANGED <<part, dest>>
  /\ UNCHANGED wwire /\ WriteOnly

Unlink ==
  /\ write = "unlink"
  /\ part' = Absent /\ Answer("ok")
  /\ UNCHANGED <<wwire, dest>> /\ WriteOnly

(* Mutant of Clean: the guard is left to its drop. *)
AnswerFirst ==
  /\ write = "clean"
  /\ write' = "over" /\ answer' = "error" /\ sweep' = TRUE
  /\ UNCHANGED <<wwire, part, dest>> /\ WriteOnly

Clean ==
  /\ write = "clean"
  /\ part' = Absent /\ Answer("error")
  /\ UNCHANGED <<wwire, dest>> /\ WriteOnly

(* The client has dropped its call, and its reset arrives. *)
WriteReset ==
  /\ Writing /\ op = "dropped"
  /\ DropWrite
  /\ wwire' = <<>> /\ UNCHANGED answer /\ WriteOnly

Sweep ==
  /\ sweep
  /\ part' = Absent /\ sweep' = FALSE
  /\ UNCHANGED <<wwire, write, answer, dest>> /\ WriteOnly

(* Someone else makes a file of this name. *)
DestinationAppears ==
  /\ dest = Absent /\ Copying
  /\ dest' = Others
  /\ UNCHANGED <<wwire, write, answer, part, sweep>> /\ WriteOnly

-----------------------------------------------------------------------------
Opening == \E c \in Conn : Start(c) \/ Connect(c) \/ Insert(c)
Closing(c) == EmptySlot(c) \/ Closed(c) \/ CloseTimesOut(c)
Serving(c) == LeaseEnds(c) \/ ServerEnds(c) \/ ServerGivesUp(c)
User == Abort \/ \E c \in Conn : Open(c) \/ DropOpen(c) \/ Close(c)
          \/ \E d \in Conn, how \in {"fail", "replace"} : StartCopy(c, d, how)
OpenAnswers == ResolveSource \/ OpenSource \/ OpenSourceBroken
Copy == FindSource \/ LockSource \/ FindDestination \/ LockDestination
          \/ SendWrite \/ TakeAnswer
FileRead == ReadChunk \/ ReadEnd \/ ReadFails
FileWrite == Inspect \/ CreatePartial \/ WriteChunk \/ Flush \/ Link \/ Unlink \/ Clean
Write == ReadHeader \/ SeeCommit \/ EndWithoutCommit \/ SeeEnd \/ WriteCancelled \/ WriteReset

Next == \/ Opening \/ User \/ Copy \/ OpenAnswers \/ RequestStream
        \/ FileRead \/ ReadCancelled \/ ReadReset \/ Write \/ FileWrite \/ Sweep
        \/ DestinationAppears
        \/ \E c \in Conn : Closing(c) \/ Serving(c) \/ Fail(c)

Spec == Init /\ [][Next]_vars

(* Whether the Write is in a call that no cancel interrupts: all but the chunks,   *)
(* the flush and the first look at the directory are awaited without cancellable().*)
Uninterrupted ==
  write \in {"create", "link", "unlink", "clean"} \/ (write = "inspect" /\ conflict = "fail")

(* Both runtimes go on, transports deliver, and timers fire.  Only the files of a  *)
(* connection in Stuck may be waited for for ever, and there a cancel is taken      *)
(* where the code waits for it too; nobody has to close or to abort.           *)
Fairness ==
  /\ WF_vars(Copy) /\ WF_vars(RequestStream)
  /\ WF_vars(Write \/ (FileWrite /\ to \notin Stuck) \/ (Inspect /\ Cancelled /\ ~Uninterrupted))
  /\ WF_vars(OpenAnswers /\ (from \notin Stuck \/ Stopping(from)))
  /\ WF_vars(FileRead /\ from \notin Stuck)
  /\ WF_vars(ReadCancelled) /\ WF_vars(ReadReset)
  /\ \A c \in Conn : WF_vars(Closing(c)) /\ WF_vars(Serving(c))

FairSpec == Spec /\ Fairness

-----------------------------------------------------------------------------
TypeOK ==
  /\ opening \in [Conn -> {"no", "starting", "connecting", "inserting", "over", "lost"}]
  /\ registry \subseteq slot /\ slot \subseteq Conn
  /\ closing \in [Conn -> {"no", "lock", "stop", "done"}]
  /\ server \in [Conn -> {"none", "serving", "stopping", "gone"}]
  /\ faults \in 0..MaxFaults
  /\ op \in Over \cup {"find", "lock", "resolve", "open", "findTo", "lockTo",
                       "send", "writing"}
  /\ {from, to, guard} \subseteq Conn \cup {NoConn} /\ conflict \in {"fail", "replace"}
  /\ read \in {"off", "opening", "reading", "over"} /\ left \in 0..Chunks
  /\ rwire \in Seq({"data", "end", "error"}) /\ Len(rwire) <= Flow + 1
  /\ source \in {"off", "header", "data", "done", "ended", "failed"}
  /\ wwire \in Seq({"header", "data", "commit", "eof"}) /\ Len(wwire) <= Flow
  /\ write \in {"off", "header", "inspect", "create", "receive", "commit",
                "flush", "link", "unlink", "clean", "over"}
  /\ answer \in {"none", "ok", "error"}
  /\ part \in {Absent} \cup 0..Chunks
  /\ dest \in {Absent, Others, Chunks} \cup 0..Chunks
  /\ sweep \in BOOLEAN

(* What is there is whole: Absent, somebody else's file, or all of the source.    *)
NeverTruncated == dest \in {Absent, Others, Chunks}

(* A copy only ever publishes the whole of its source, and over a file that is      *)
(* there only when it was told to replace: wherever either stream breaks, whichever *)
(* server stops and however the copy is aborted (fs/write.rs:180-212,             *)
(* client/rpc/write_file.rs:104-166, server/ops/write.rs:49-88).                *)
PublishesTheWhole ==
  [][dest' # dest =>
       \/ dest' = Others /\ dest = Absent
       \/ dest' = Chunks /\ (conflict = "replace" \/ dest = Absent)]_vars

(* A copy that says it is done has published the file and left no partial one, and  *)
(* one whose server answered that it failed has left none either                *)
(* (fs/write.rs:123-151).                                                     *)
AnsweredIsClean ==
  op \in {"ok", "error"} /\ answer # "none" /\ faults = 0 /\ closing[to] # "done"
      /\ server[to] # "gone" =>
    part = Absent /\ ~sweep /\ (op = "ok" => dest = Chunks)

(* The embedded server of c is held up for good by a call of its files that no     *)
(* cancel reaches (fs/write.rs:98, 244, 189, 197, 47), as on a hung mount: it is   *)
(* in its client's process, which nobody ends for it.                          *)
HeldUp(c) == Kind[c] = "embedded" /\ c \in Stuck /\ to = c /\ Uninterrupted
AlwaysLetGo(c) == []<>~HeldUp(c)

(* Closing a connection ends what it copies from or to, even where reading, writing *)
(* or flushing its files is slow for ever: the cancel reaches what waits for them  *)
(* (server/serve.rs:138-151, fs/read.rs:53-68, fs/write.rs:254-265).  A server    *)
(* that is held up for good is excepted, and so the copy to it.                *)
CloseEndsCopy ==
  \A c \in Conn : Stuck \subseteq {c} /\ AlwaysLetGo(c) =>
    (closing[c] = "stop" /\ ((from = c /\ Copying) \/ (to = c /\ op = "writing"))
       ~> ~Copying)

(* A close ends, however long a copy lasts: a guard is let go of before the streams  *)
(* are used (client/file/copy.rs:27-87), and a server that is held up is waited for *)
(* no longer than five seconds.  Only a source whose opening is slow for ever      *)
(* keeps its guard for ever.                                                  *)
CloseReturns ==
  \A c \in Conn : (c \in Stuck => []<>(guard # c)) =>
    (closing[c] = "lock" ~> closing[c] = "done")

(* Closing neither waits for a copy for ever nor is outlived by one. *)
CloseEnds == CloseReturns /\ CloseEndsCopy

(* A server that nobody can reach any more is gone, be its connection closed, its    *)
(* opening failed or its transport lost (connection/mod.rs:142-157, 214-233).  An   *)
(* embedded one whose opening was dropped is lost, and one that is held up waits.  *)
UnheldServersStop ==
  \A c \in Conn : AlwaysLetGo(c) =>
    (server[c] \in {"serving", "stopping"} /\ ~Held(c) /\ opening[c] # "lost"
       ~> server[c] = "gone")

(* A close returns, takes its copies along and leaves no server behind, wherever its *)
(* files can still be waited for with an eye on the cancel.                     *)
ClosingSettles == CloseEnds /\ UnheldServersStop
==============================================================================
