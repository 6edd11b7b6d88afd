---------------------------- MODULE TransferProofs ----------------------------
(***************************************************************************)
(* A copy publishes the whole of its source or nothing, for any number of   *)
(* chunks, of frames under way, of connections and of faults, and what it   *)
(* answers is so.                                                          *)
(***************************************************************************)
EXTENDS Transfer, TLAPS

(***************************************************************************)
(* The invariant.  A chunk is in one of four places, in this order: the      *)
(* partial file, the Write's frames, the Read's items, or still unread.     *)
(***************************************************************************)
(* The Write has seen neither its commit nor a reason to give up. *)
Before == {"off", "header", "inspect", "create", "receive"}
Got == IF write = "receive" THEN part ELSE 0
HeaderWaits == IF wwire # <<>> /\ wwire[1] = "header" THEN 1 ELSE 0
Sent == IF source = "data" THEN Got + Len(wwire) - HeaderWaits ELSE 0

WorldTyped ==
  /\ opening \in [Conn -> {"no", "starting", "connecting", "inserting", "over", "lost"}]
  /\ closing \in [Conn -> {"no", "lock", "stop", "done"}]
  /\ server \in [Conn -> {"none", "serving", "stopping", "gone"}]
  /\ registry \subseteq Conn /\ slot \subseteq Conn
  /\ faults \in Nat

PipeTyped ==
  /\ op \in Over \cup {"find", "lock", "resolve", "open", "findTo", "lockTo", "send",
                       "writing"}
  /\ read \in {"off", "opening", "reading", "over"} /\ left \in Nat
  /\ rwire \in Seq({"data", "end", "error"})
  /\ source \in {"off", "header", "data", "done", "ended", "failed"}
  /\ wwire \in Seq({"header", "data", "commit", "eof"})
  /\ write \in {"off", "header", "inspect", "create", "receive", "commit", "flush",
                "link", "unlink", "clean", "over"}
  /\ answer \in {"none", "ok", "error"}
  /\ part \in Int /\ NeverTruncated

(* How far the Read, the request stream and the Write can be while the copy is   *)
(* where it is.                                                                *)
Stages ==
  /\ op \in {"idle", "find", "lock", "resolve"} => read = "off"
  /\ op \in {"idle", "find", "lock", "resolve", "open", "findTo", "lockTo"} =>
       source = "off" /\ write = "off"
  /\ op = "send" => source = "header" /\ write = "off"
  /\ op = "writing" => source # "off" /\ write # "off"
  /\ source # "off" => op \in {"send", "writing"}
  /\ read \in {"off", "opening"} \/ ~Copying => rwire = <<>>
  /\ read = "opening" => op = "open" \/ ~Copying
  /\ write = "off" => wwire = <<>> /\ answer = "none"
  /\ write \in Before /\ source = "header" => write \in {"off", "header"} /\ wwire = <<>>

(* A commit is sent behind all of the source's chunks. *)
CommitIsLast ==
  write \in Before =>
    /\ \A i \in DOMAIN wwire : i > 1 => wwire[i] # "header"
    /\ \A i \in DOMAIN wwire : wwire[i] = "commit" => Got + i - 1 - HeaderWaits = Chunks

(* So is the end that the request stream turns into one. *)
NothingSkipped ==
  write \in Before /\ source \in {"off", "header", "data"} =>
    /\ \A i \in DOMAIN rwire : rwire[i] = "end" => Sent + i - 1 = Chunks
    /\ read = "reading" /\ Copying => Sent + Len(rwire) + left = Chunks

Written ==
  /\ write \in {"commit", "flush", "link"} => part = Chunks
  /\ write = "unlink" => dest = Chunks

(* A removal is spawned once, when the Write is dropped. *)
PartialLives ==
  /\ write \in {"off", "header", "inspect", "create"} => part = Absent
  /\ sweep => write = "over"

Pipe == PipeTyped /\ Stages /\ CommitIsLast /\ NothingSkipped /\ Written /\ PartialLives

(* A server is gone, and a connection closed, for good. *)
ServersLast ==
  \A c \in Conn :
    /\ opening[c] \in {"no", "starting"} => server[c] = "none"
    /\ Kind[c] = "embedded" /\ server[c] \in {"stopping", "gone"} => ~Held(c)
    /\ c \in slot => opening[c] = "over"
    /\ c \in registry => closing[c] = "no" /\ opening[c] = "over" /\ c \in slot
    /\ closing[c] # "no" => opening[c] = "over"
    /\ closing[c] = "lock" => c \in slot

World == WorldTyped /\ ServersLast

(* Whether all that the copy was told came from the Write itself. *)
Undisturbed == faults = 0 /\ closing[to] # "done" /\ server[to] # "gone"
Answered ==
  /\ op # "idle" => to \in Conn
  /\ op = "ok" => answer = "ok"
  /\ answer # "none" => write = "over"
  /\ answer # "none" /\ Undisturbed =>
       part = Absent /\ ~sweep /\ (answer = "ok" => dest = Chunks)

Inv == World /\ Pipe /\ Answered

-----------------------------------------------------------------------------
LEMMA InitInv == Init => Inv
<1> SUFFICES ASSUME Init PROVE Inv
  OBVIOUS
<1> USE TransferAssumption DEF Init
<1>1. World
  BY DEF World, WorldTyped, ServersLast, Held
<1>2. PipeTyped
  BY DEF PipeTyped, Over, NeverTruncated, Absent, Others
<1>3. Stages /\ CommitIsLast /\ NothingSkipped /\ Written /\ PartialLives
  BY DEF Stages, CommitIsLast, NothingSkipped, Written, PartialLives, Copying, Over, Before
<1>4. Answered
  BY DEF Answered
<1>5. QED
  BY <1>1, <1>2, <1>3, <1>4 DEF Inv, Pipe

-----------------------------------------------------------------------------
(***************************************************************************)
(* Connections and servers.                                                 *)
(***************************************************************************)
Lasting ==
  /\ faults # 0 => faults' # 0
  /\ \A c \in Conn : /\ closing[c] = "done" => closing'[c] = "done"
                     /\ server[c] = "gone" => server'[c] = "gone"

LEMMA OpenSteps ==
  ASSUME World, NEW c \in Conn, Open(c) \/ Start(c) \/ Connect(c) \/ Insert(c) \/ DropOpen(c)
  PROVE  World' /\ Lasting
<1> USE DEF World, WorldTyped, OpeningBecomes, AbortServer
<1>1. WorldTyped'
  BY DEF Open, Start, Connect, Insert, DropOpen
<1>2. ServersLast'
  <2>1. CASE Open(c)
    BY <2>1 DEF Open, ServersLast, Held
  <2>2. CASE Start(c)
    BY <2>2 DEF Start, ServersLast, Held
  <2>3. CASE Connect(c)
    BY <2>3 DEF Connect, ServersLast, Held
  <2>4. CASE Insert(c)
    BY <2>4 DEF Insert, ServersLast, Held
  <2>5. CASE DropOpen(c)
    BY <2>5 DEF DropOpen, ServersLast, Held
  <2>6. QED
    BY <2>1, <2>2, <2>3, <2>4, <2>5
<1>3. Lasting
  BY DEF Open, Start, Connect, Insert, DropOpen, ServersLast, Held, Lasting
<1>4. QED
  BY <1>1, <1>2, <1>3

LEMMA CloseSteps ==
  ASSUME World, NEW c \in Conn, Close(c) \/ EmptySlot(c) \/ Closed(c) \/ CloseTimesOut(c)
  PROVE  World' /\ Lasting
<1> USE DEF World, WorldTyped, AbortServer, ClosingUnchanged, env
<1>1. WorldTyped'
  BY DEF Close, EmptySlot, Closed, CloseTimesOut
<1>2. ServersLast'
  <2>1. CASE Close(c)
    BY <2>1 DEF Close, ServersLast, Held
  <2>2. CASE EmptySlot(c)
    BY <2>2 DEF EmptySlot, ServersLast, Held
  <2>3. CASE Closed(c) \/ CloseTimesOut(c)
    BY <2>3 DEF Closed, CloseTimesOut, ServersLast, Held
  <2>4. QED
    BY <2>1, <2>2, <2>3
<1>3. Lasting
  BY DEF Close, EmptySlot, Closed, CloseTimesOut, ServersLast, Held, Lasting
<1>4. QED
  BY <1>1, <1>2, <1>3

LEMMA ServerSteps ==
  ASSUME World, NEW c \in Conn, Serving(c) \/ Fail(c)
  PROVE  World' /\ Lasting
<1> USE DEF World, WorldTyped, ServerUnchanged, conns, env
<1>1. WorldTyped'
  BY DEF Serving, LeaseEnds, ServerEnds, ServerGivesUp, Fail
<1>2. UNCHANGED <<opening, registry, slot, closing>>
      /\ (\A d \in Conn \ {c} : server'[d] = server[d])
      /\ server[c] \in {"serving", "stopping"} /\ server'[c] \in {"stopping", "gone", server[c]}
      /\ (Kind[c] = "embedded" => server[c] = "stopping")
  BY TransferAssumption DEF Serving, LeaseEnds, ServerEnds, ServerGivesUp, Fail, Stopping
<1>3. ServersLast'
  BY <1>2 DEF ServersLast, Held
<1>4. faults' = faults \/ faults' = faults + 1
  BY DEF Serving, LeaseEnds, ServerEnds, ServerGivesUp, Fail
<1>5. Lasting
  BY <1>2, <1>4 DEF Lasting
<1>6. QED
  BY <1>1, <1>3, <1>5

LEMMA WorldStands ==
  ASSUME World, UNCHANGED <<conns, env>>
  PROVE  World' /\ Lasting
  BY DEF World, WorldTyped, ServersLast, Held, Lasting, conns, env

-----------------------------------------------------------------------------
(***************************************************************************)
(* The copy's own steps.                                                    *)
(***************************************************************************)
LEMMA Empty == \A S : <<>> \in Seq(S)
  OBVIOUS

LEMMA PipeStands ==
  ASSUME Pipe, UNCHANGED <<op, reader, source, wwire, write, part, dest, answer>>,
         sweep' => sweep
  PROVE  Pipe'
<1> USE DEF Pipe, reader
<1>1. PipeTyped'
  BY DEF PipeTyped, NeverTruncated
<1>2. Stages'
  BY DEF Stages, Copying
<1>3. CommitIsLast'
  BY DEF CommitIsLast, Got, HeaderWaits
<1>4. NothingSkipped'
  BY DEF NothingSkipped, Copying, Sent, Got, HeaderWaits
<1>5. Written'
  BY DEF Written
<1>6. PartialLives'
  BY DEF PartialLives
<1>7. QED
  BY <1>1, <1>2, <1>3, <1>4, <1>5, <1>6

(* The copy ends, and its Read goes with it; the Write may go on. *)
LEMMA EndKeeps ==
  ASSUME Pipe, NEW how \in {"ok", "error", "dropped"}, CopyEnds(how),
         read' \in {read, "over"}, wwire' \in {wwire, <<>>},
         UNCHANGED <<left, writer>>
  PROVE  Pipe'
<1> USE DEF Pipe
<1>1. /\ op' = how /\ rwire' = <<>> /\ source' = "off" /\ ~Copying'
      /\ UNCHANGED <<left, write, answer, part, dest>> /\ (sweep' <=> sweep)
  BY DEF CopyEnds, CopyAt, Copying, Over, writer
<1>2. PipeTyped'
  <2>1. op' \in Over /\ read' \in {"off", "opening", "reading", "over"} /\ NeverTruncated'
    BY <1>1 DEF PipeTyped, NeverTruncated, Over
  <2>2. /\ rwire' \in Seq({"data", "end", "error"})
        /\ wwire' \in Seq({"header", "data", "commit", "eof"})
    BY <1>1, Empty DEF PipeTyped
  <2>3. QED
    BY <1>1, <2>1, <2>2 DEF PipeTyped
<1>3. Stages'
  BY <1>1 DEF Stages, Before
<1>4. CommitIsLast'
  BY <1>1 DEF CommitIsLast, Got, HeaderWaits
<1>5. NothingSkipped'
  BY <1>1 DEF NothingSkipped
<1>6. Written' /\ PartialLives'
  BY <1>1 DEF Written, PartialLives
<1>7. QED
  BY <1>2, <1>3, <1>4, <1>5, <1>6

(* The copy goes on to its next stage.  What it opens to read is all unread. *)
LEMMA GoOnKeeps ==
  ASSUME Pipe, NEW s, op' = s,
         op \in {"idle", "find", "lock", "resolve", "open", "findTo", "lockTo"},
         s \in {"find", "lock", "resolve", "open", "findTo", "lockTo", "send"},
         source' = IF s = "send" THEN "header" ELSE source,
         op = "open" <=> s = "findTo",
         s \in {"find", "lock", "resolve"} => op \in {"idle", "find", "lock"},
         \/ UNCHANGED <<read, left>> /\ s # "open" /\ op # "open"
         \/ s = "open" /\ read = "off" /\ read' = "opening" /\ UNCHANGED left
         \/ op = "open" /\ read = "opening" /\ read' = "reading" /\ left' = Chunks,
         UNCHANGED <<rwire, wwire, writer>>
  PROVE  Pipe'
<1> USE TransferAssumption DEF Pipe
<1>1. /\ op' = s /\ source = "off" /\ write = "off" /\ wwire = <<>> /\ Copying'
      /\ UNCHANGED <<rwire, wwire, write, answer, part, dest>> /\ (sweep' <=> sweep)
  BY DEF Stages, Copying, Over, writer
<1>2. PipeTyped'
  BY <1>1 DEF PipeTyped, NeverTruncated, Over
<1>3. Stages'
  BY <1>1 DEF Stages, Before, Copying, Over
<1>4. CommitIsLast'
  BY <1>1 DEF CommitIsLast, Got, HeaderWaits
<1>5. NothingSkipped'
  <2>1. Sent = 0 /\ Sent' = 0
    BY <1>1 DEF Sent
  <2>2. \A i \in DOMAIN rwire : rwire[i] = "end" => Sent + i - 1 = Chunks
    BY <1>1 DEF NothingSkipped, Before
  <2>3. ASSUME read' = "reading" PROVE Len(rwire) + left' = Chunks
    <3>1. CASE read = "reading" /\ left' = left /\ op # "idle"
      BY <1>1, <2>1, <3>1 DEF NothingSkipped, Before, Copying, Over, PipeTyped
    <3>2. CASE read = "opening" /\ left' = Chunks
      BY <1>1, <3>2 DEF Stages
    <3>3. QED
      BY <2>3, <3>1, <3>2 DEF Stages
  <2>4. QED
    BY <1>1, <2>1, <2>2, <2>3 DEF NothingSkipped
<1>6. Written' /\ PartialLives'
  BY <1>1 DEF Written, PartialLives
<1>7. QED
  BY <1>2, <1>3, <1>4, <1>5, <1>6

LEMMA SendWriteKeeps == ASSUME Pipe, SendWrite PROVE Pipe'
<1> USE DEF Pipe, reader
<1>1. CASE /\ op = "send" /\ CopyAt("writing") /\ write' = "header"
           /\ UNCHANGED <<read, left, rwire, source, wwire, answer, part, dest>>
           /\ (sweep' <=> sweep)
  <2>1. /\ op' = "writing" /\ Copying /\ Copying' /\ source = "header" /\ write = "off"
        /\ wwire = <<>>
    BY <1>1 DEF CopyAt, Copying, Over, Stages
  <2>2. PipeTyped'
    BY <1>1, <2>1 DEF PipeTyped, NeverTruncated
  <2>3. Stages'
    BY <1>1, <2>1 DEF Stages
  <2>4. CommitIsLast'
    BY <1>1, <2>1 DEF CommitIsLast
  <2>5. NothingSkipped'
    BY <1>1, <2>1 DEF NothingSkipped, Sent, Before
  <2>6. Written' /\ PartialLives'
    BY <1>1, <2>1 DEF Written, PartialLives
  <2>7. QED
    BY <2>2, <2>3, <2>4, <2>5, <2>6
<1>2. QED
  BY <1>1, EndKeeps DEF SendWrite, writer

LEMMA CopySteps ==
  ASSUME Pipe,
         \/ \E c \in Conn, d \in Conn, how \in {"fail", "replace"} : StartCopy(c, d, how)
         \/ Abort \/ OpenAnswers \/ Copy
  PROVE  Pipe'
<1> USE DEF reader, writer, CopyAt
<1>1. CASE \E c \in Conn, d \in Conn, how \in {"fail", "replace"} : StartCopy(c, d, how)
  BY <1>1, GoOnKeeps DEF StartCopy
<1>2. CASE Abort
  BY <1>2, EndKeeps DEF Abort
<1>3. CASE FindSource
  BY <1>3, EndKeeps, GoOnKeeps DEF FindSource
<1>4. CASE LockSource
  BY <1>4, EndKeeps, GoOnKeeps DEF LockSource
<1>5. CASE ResolveSource
  BY <1>5, EndKeeps, GoOnKeeps DEF ResolveSource, Pipe, Stages
<1>6. CASE OpenSource
  BY <1>6, EndKeeps, GoOnKeeps DEF OpenSource
<1>7. CASE OpenSourceBroken
  BY <1>7, EndKeeps DEF OpenSourceBroken
<1>8. CASE FindDestination
  BY <1>8, EndKeeps, GoOnKeeps DEF FindDestination
<1>9. CASE LockDestination
  BY <1>9, EndKeeps, GoOnKeeps DEF LockDestination
<1>10. CASE SendWrite
  BY <1>10, SendWriteKeeps
<1>11. CASE TakeAnswer
  BY <1>11, EndKeeps DEF TakeAnswer, Pipe, PipeTyped
<1>12. QED
  BY <1>1, <1>2, <1>3, <1>4, <1>5, <1>6, <1>7, <1>8, <1>9, <1>10, <1>11
     DEF OpenAnswers, Copy

-----------------------------------------------------------------------------
(***************************************************************************)
(* The Read.                                                                *)
(***************************************************************************)
(* What a Read sends, or loses, leaves the count of chunks as it is. *)
LEMMA ReaderKeeps ==
  ASSUME Pipe, Reading, read' \in {read, "over"}, left' \in Nat,
         rwire' \in Seq({"data", "end", "error"}), ~Copying => rwire' = rwire,
         read = "opening" => read' = "over",
         write \in Before /\ source \in {"off", "header", "data"} /\ Copying =>
           /\ \A i \in DOMAIN rwire' : rwire'[i] = "end" => Sent + i - 1 = Chunks
           /\ read' = "reading" => Sent + Len(rwire') + left' = Chunks,
         UNCHANGED <<op, source, wwire, write, part, dest, answer>>, sweep' => sweep
  PROVE  Pipe'
<1> USE DEF Pipe, Reading
<1>1. PipeTyped'
  BY DEF PipeTyped, NeverTruncated
<1>2. Stages'
  BY DEF Stages, Copying, Over
<1>3. CommitIsLast'
  BY DEF CommitIsLast, Got, HeaderWaits
<1>4. NothingSkipped'
  <2>1. Sent' = Sent
    BY DEF Sent, Got, HeaderWaits
  <2>2. CASE Copying
    BY <2>1, <2>2 DEF NothingSkipped, Copying
  <2>3. CASE ~Copying
    <3>1. rwire' = <<>> /\ ~Copying'
      BY <2>3 DEF Stages, Copying
    <3>2. QED
      BY <3>1 DEF NothingSkipped
  <2>4. QED
    BY <2>2, <2>3
<1>5. Written' /\ PartialLives'
  BY DEF Written, PartialLives
<1>6. QED
  BY <1>1, <1>2, <1>3, <1>4, <1>5

LEMMA ReadSteps == ASSUME Pipe, FileRead \/ ReadCancelled \/ ReadReset PROVE Pipe'
<1> USE TransferAssumption DEF ReadOnly, copy, writer, Reading
<1>1. /\ UNCHANGED <<op, source, wwire, write, part, dest, answer>> /\ (sweep' <=> sweep)
      /\ rwire \in Seq({"data", "end", "error"}) /\ Len(rwire) \in Nat /\ left \in Nat
      /\ Sent \in Int
  BY DEF FileRead, ReadChunk, ReadEnd, ReadFails, ReadCancelled, ReadReset, Pipe, PipeTyped,
     Sent, Got, HeaderWaits
<1>2. write \in Before /\ source \in {"off", "header", "data"} /\ Copying =>
        /\ \A i \in DOMAIN rwire : rwire[i] = "end" => Sent + i - 1 = Chunks
        /\ read = "reading" => Sent + Len(rwire) + left = Chunks
  BY DEF Pipe, NothingSkipped
<1>3. ASSUME NEW x \in {"data", "end", "error"}, Send(x)
      PROVE  /\ Copying /\ rwire' \in Seq({"data", "end", "error"})
             /\ Len(rwire') = Len(rwire) + 1
             /\ \A i \in DOMAIN rwire' :
                  \/ i \in DOMAIN rwire /\ rwire'[i] = rwire[i]
                  \/ i = Len(rwire) + 1 /\ rwire'[i] = x
  BY <1>1, <1>3 DEF Send
<1>4. CASE ReadChunk
  <2>1. Send("data") /\ left' = left - 1 /\ left > 0 /\ read' = read /\ read = "reading"
    BY <1>4 DEF ReadChunk
  <2>2. /\ left' \in Nat /\ Copying /\ Len(rwire') + left' = Len(rwire) + left
        /\ rwire' \in Seq({"data", "end", "error"})
    BY <1>1, <1>3, <2>1
  <2>3. \A i \in DOMAIN rwire' : rwire'[i] = "end" => i \in DOMAIN rwire /\ rwire[i] = "end"
    BY <1>3, <2>1
  <2>4. QED
    BY <1>1, <1>2, <2>1, <2>2, <2>3, ReaderKeeps
<1>5. CASE ReadEnd
  <2>1. Send("end") /\ left' = left /\ left = 0 /\ read' = "over" /\ read = "reading"
    BY <1>5 DEF ReadEnd
  <2>2. Copying /\ rwire' \in Seq({"data", "end", "error"})
    BY <1>3, <2>1
  <2>3. ASSUME write \in Before, source \in {"off", "header", "data"},
               NEW i \in DOMAIN rwire', rwire'[i] = "end"
        PROVE  Sent + i - 1 = Chunks
    <3>1. CASE i \in DOMAIN rwire /\ rwire[i] = "end"
      BY <1>2, <2>2, <2>3, <3>1
    <3>2. CASE i = Len(rwire) + 1
      BY <1>1, <1>2, <2>1, <2>2, <2>3, <3>2
    <3>3. QED
      BY <1>3, <2>1, <2>3, <3>1, <3>2
  <2>4. QED
    BY <1>1, <2>1, <2>2, <2>3, ReaderKeeps
<1>6. CASE ReadFails \/ ReadCancelled
  <2>1. /\ Send("error") \/ rwire' = rwire
        /\ left' = left /\ Reading /\ read' = "over"
    BY <1>6 DEF ReadFails, ReadCancelled
  <2>2. QED
    BY <1>1, <1>2, <1>3, <2>1, ReaderKeeps
<1>7. CASE ReadReset
  BY <1>1, <1>2, <1>7, ReaderKeeps DEF ReadReset
<1>8. QED
  BY <1>4, <1>5, <1>6, <1>7 DEF FileRead

-----------------------------------------------------------------------------
(***************************************************************************)
(* The request stream.                                                      *)
(***************************************************************************)
LEMMA RequestSteps == ASSUME Pipe, RequestStream PROVE Pipe'
<1> USE TransferAssumption DEF writer, copy, reader
<1>1. PICK f \in {"header", "data", "commit", "eof"},
              s \in {"data", "done", "ended", "failed"} : Frame(f, s)
  BY DEF RequestStream, SendHeader, SendData, SendCommit, SourceFails, SendEnd
<1>2. /\ op = "writing" /\ Copying /\ answer = "none" /\ source' = s /\ source # "off"
      /\ UNCHANGED <<op, write, answer, part, dest>> /\ (sweep' <=> sweep)
      /\ write # "off"
  BY <1>1 DEF Frame, Pipe, Stages, Copying, Over
<1>3. /\ wwire' = Append(wwire, f) /\ wwire' # <<>> /\ Len(wwire) \in Nat
      /\ wwire' \in Seq({"header", "data", "commit", "eof"})
      /\ Len(wwire') = Len(wwire) + 1
      /\ wwire'[Len(wwire) + 1] = f
      /\ DOMAIN wwire = 1..Len(wwire) /\ DOMAIN wwire' = 1..Len(wwire) + 1
      /\ \A i \in DOMAIN wwire : wwire'[i] = wwire[i]
  BY <1>1 DEF Frame, Pipe, PipeTyped
<1>4. /\ UNCHANGED <<read, left>>
      /\ \/ rwire' = rwire
         \/ /\ rwire # <<>> /\ rwire' = Tail(rwire)
  BY DEF RequestStream, SendHeader, SendData, SendCommit, SourceFails, SendEnd, Pull
<1>5. /\ rwire \in Seq({"data", "end", "error"}) /\ rwire' \in Seq({"data", "end", "error"})
      /\ rwire = <<>> => rwire' = <<>>
  BY <1>4 DEF Pipe, PipeTyped
<1>6. \/ source = "header" /\ f = "header" /\ s = "data" /\ rwire' = rwire
      \/ source = "data" /\ f = "data" /\ s = "data" /\ Head(rwire) = "data"
         /\ rwire # <<>> /\ rwire' = Tail(rwire)
      \/ source = "data" /\ f = "commit" /\ s = "done" /\ Head(rwire) = "end" /\ rwire # <<>>
      \/ f = "eof" /\ s \in {"failed", "ended"}
  BY <1>1 DEF RequestStream, SendHeader, SendData, SendCommit, SourceFails, SendEnd, Pull, Frame
<1>7. PipeTyped'
  BY <1>2, <1>3, <1>4, <1>5, <1>6 DEF Pipe, PipeTyped, NeverTruncated
<1>8. Stages'
  BY <1>2, <1>4, <1>5, <1>6 DEF Pipe, Stages, Copying
<1>9. /\ Got' = Got /\ Got \in Int
      /\ HeaderWaits' = IF wwire = <<>> THEN (IF f = "header" THEN 1 ELSE 0) ELSE HeaderWaits
      /\ HeaderWaits \in {0, 1} /\ (wwire = <<>> => HeaderWaits = 0)
  <2>1. Got' = Got /\ Got \in Int
    BY <1>2 DEF Got, Pipe, PipeTyped
  <2>2. CASE wwire = <<>>
    BY <1>3, <2>1, <2>2 DEF HeaderWaits
  <2>3. CASE wwire # <<>>
    <3>1. 1 \in DOMAIN wwire
      BY <1>3, <2>3
    <3>2. QED
      BY <1>3, <2>1, <2>3, <3>1 DEF HeaderWaits
  <2>4. QED
    BY <2>2, <2>3
<1>10. CommitIsLast'
  <2> SUFFICES ASSUME write \in Before PROVE CommitIsLast'
    BY <1>2 DEF CommitIsLast
  <2>1. f = "header" => wwire = <<>>
    BY <1>6 DEF Pipe, Stages
  <2>2. f = "commit" => Got + Len(wwire) - HeaderWaits = Chunks
    <3> SUFFICES ASSUME f = "commit" PROVE Got + Len(wwire) - HeaderWaits = Chunks
      OBVIOUS
    <3>1. 1 \in DOMAIN rwire /\ rwire[1] = "end"
      BY <1>5, <1>6
    <3>2. Sent + 1 - 1 = Chunks
      BY <1>6, <3>1 DEF Pipe, NothingSkipped
    <3>3. QED
      BY <1>3, <1>6, <1>9, <3>2 DEF Sent
  <2>3. ASSUME NEW i \in DOMAIN wwire', wwire'[i] = "commit"
        PROVE  Got + i - 1 - HeaderWaits' = Chunks
    <3>1. CASE i \in DOMAIN wwire
      <4>1. wwire[i] = "commit" /\ wwire # <<>>
        BY <1>3, <2>3, <3>1
      <4>2. QED
        BY <1>9, <3>1, <4>1 DEF Pipe, CommitIsLast
    <3>2. CASE i = Len(wwire) + 1
      <4>1. f = "commit"
        BY <1>3, <2>3, <3>2
      <4>2. HeaderWaits' = HeaderWaits
        BY <1>9, <4>1
      <4>3. QED
        BY <1>3, <1>9, <2>2, <3>2, <4>1, <4>2
    <3>3. QED
      BY <1>3, <3>1, <3>2
  <2>4. ASSUME NEW i \in DOMAIN wwire', i > 1 PROVE wwire'[i] # "header"
    BY <1>3, <2>1, <2>4 DEF Pipe, CommitIsLast
  <2>5. QED
    BY <1>9, <2>3, <2>4 DEF CommitIsLast
<1>11. NothingSkipped'
  <2> SUFFICES ASSUME write \in Before, s = "data" PROVE NothingSkipped'
    BY <1>2, <1>6 DEF NothingSkipped
  <2>1. CASE source = "header"
    <3>1. wwire = <<>> /\ Got = 0 /\ Sent = 0 /\ Sent' = 0
      BY <1>2, <1>3, <1>6, <1>9, <2>1 DEF Pipe, Stages, Got, Sent
    <3>2. QED
      BY <1>2, <1>4, <1>6, <2>1, <3>1 DEF Pipe, NothingSkipped, Copying
  <2>2. CASE source = "data"
    <3>1. Sent \in Int /\ Sent' = Sent + 1
      BY <1>2, <1>3, <1>6, <1>9, <2>2 DEF Sent
    <3>2. /\ Len(rwire') = Len(rwire) - 1 /\ Len(rwire) \in Nat
          /\ \A i \in DOMAIN rwire' : i + 1 \in DOMAIN rwire /\ rwire'[i] = rwire[i + 1]
                                      /\ i \in Nat
      BY <1>5, <1>6, <2>2
    <3>3. ASSUME NEW i \in DOMAIN rwire', rwire'[i] = "end" PROVE Sent' + i - 1 = Chunks
      <4>1. Sent + (i + 1) - 1 = Chunks
        BY <2>2, <3>2, <3>3 DEF Pipe, NothingSkipped
      <4>2. QED
        BY <3>1, <3>2, <4>1
    <3>4. ASSUME read' = "reading" PROVE Sent' + Len(rwire') + left' = Chunks
      <4>1. Sent + Len(rwire) + left = Chunks /\ left \in Nat /\ left' = left
        BY <1>2, <1>4, <2>2, <3>4 DEF Pipe, NothingSkipped, PipeTyped
      <4>2. QED
        BY <3>1, <3>2, <4>1
    <3>5. QED
      BY <3>3, <3>4 DEF NothingSkipped
  <2>3. QED
    BY <1>6, <2>1, <2>2
<1>12. Written' /\ PartialLives'
  BY <1>2 DEF Pipe, Written, PartialLives
<1>13. QED
  BY <1>7, <1>8, <1>10, <1>11, <1>12 DEF Pipe

-----------------------------------------------------------------------------
(***************************************************************************)
(* The Write.                                                               *)
(***************************************************************************)
(* A frame is counted until it is taken, and from then on in the partial file. *)
LEMMA TakenKeeps ==
  ASSUME Pipe, NEW k \in {0, 1},
         write \in {"header", "inspect", "create", "receive"},
         write' \in {"inspect", "create", "receive"}, source # "header",
         wwire' \in Seq({"header", "data", "commit", "eof"}),
         Len(wwire') = Len(wwire) - k,
         \A i \in DOMAIN wwire' : i + k \in DOMAIN wwire /\ wwire'[i] = wwire[i + k],
         Got' - HeaderWaits' = Got - HeaderWaits + k, Got' \in Int, Got \in Int,
         part' \in Int, write' # "receive" => part' = Absent,
         UNCHANGED <<op, reader, source, dest, answer>>, sweep' => sweep
  PROVE  Pipe'
<1> USE TransferAssumption DEF Pipe, reader
<1>1. HeaderWaits \in {0, 1} /\ HeaderWaits' \in {0, 1} /\ Len(wwire) \in Int
      /\ write \in Before /\ write' \in Before /\ k \in Int
  BY DEF HeaderWaits, PipeTyped, Before
<1>8. \A i \in Int : /\ Got' + i - 1 - HeaderWaits' = Got + (i + k) - 1 - HeaderWaits
                     /\ Got' + (i - k) - HeaderWaits' = Got + i - HeaderWaits
  <2> DEFINE g == Got  h == HeaderWaits  g1 == Got'  h1 == HeaderWaits'
  <2>1. g \in Int /\ h \in Int /\ g1 \in Int /\ h1 \in Int
    BY <1>1
  <2>4. g1 - h1 = g - h + k
    BY Zenon
  <2> HIDE DEF g, h, g1, h1
  <2>2. \A i \in Int : /\ g1 + i - 1 - h1 = g + (i + k) - 1 - h
                       /\ g1 + (i - k) - h1 = g + i - h
    BY <1>1, <2>1, <2>4
  <2>3. QED
    BY <2>2 DEF g, h, g1, h1
<1>2. PipeTyped'
  BY DEF PipeTyped, NeverTruncated
<1>3. Stages'
  BY DEF Stages, Copying, Over
<1>4. CommitIsLast'
  <2>1. ASSUME NEW i \in DOMAIN wwire' PROVE i \in Nat /\ i + k \in DOMAIN wwire
    BY <2>1
  <2>2. ASSUME NEW i \in DOMAIN wwire', i > 1 PROVE wwire'[i] # "header"
    BY <1>1, <2>1, <2>2 DEF CommitIsLast
  <2>3. ASSUME NEW i \in DOMAIN wwire', wwire'[i] = "commit"
        PROVE  Got' + i - 1 - HeaderWaits' = Chunks
    <3>1. Got + (i + k) - 1 - HeaderWaits = Chunks
      BY <1>1, <2>1, <2>3 DEF CommitIsLast
    <3>2. Got' + i - 1 - HeaderWaits' = Got + (i + k) - 1 - HeaderWaits
      BY <1>8, <2>1
    <3>3. QED
      BY <3>1, <3>2
  <2>4. QED
    BY <2>2, <2>3 DEF CommitIsLast
<1>5. NothingSkipped'
  <2>1. Sent' = Sent
    <3>1. Got' + (Len(wwire) - k) - HeaderWaits' = Got + Len(wwire) - HeaderWaits
      BY <1>1, <1>8
    <3>2. QED
      BY <3>1 DEF Sent
  <2>2. QED
    BY <1>1, <2>1 DEF NothingSkipped, Copying
<1>6. Written' /\ PartialLives'
  BY DEF Written, PartialLives
<1>7. QED
  BY <1>2, <1>3, <1>4, <1>5, <1>6

LEMMA TakenSteps ==
  ASSUME Pipe, ReadHeader \/ Inspect \/ CreatePartial \/ WriteChunk,
         write' \in {"inspect", "create", "receive"}
  PROVE  Pipe'
<1> USE TransferAssumption DEF WriteOnly, WriteAt, Answer, Next1, copy
<1>1. /\ wwire \in Seq({"header", "data", "commit", "eof"}) /\ part \in Int
      /\ write \in {"inspect", "create", "receive"} => source # "header"
      /\ write \in {"header", "inspect", "create"} => part = Absent
      /\ write \in Before =>
           \A i \in DOMAIN wwire : i > 1 => wwire[i] # "header"
  BY DEF Pipe, PipeTyped, Stages, PartialLives, CommitIsLast, Before
<1>2. CASE ReadHeader
  <2>1. /\ write = "header" /\ write' = "inspect" /\ wwire # <<>> /\ wwire' = Tail(wwire)
        /\ Head(wwire) = "header"
        /\ UNCHANGED <<op, reader, source, dest, part, answer>> /\ (sweep' <=> sweep)
    BY <1>2 DEF ReadHeader
  <2>2. /\ wwire' \in Seq({"header", "data", "commit", "eof"})
        /\ Len(wwire') = Len(wwire) - 1
        /\ \A i \in DOMAIN wwire' : i + 1 \in DOMAIN wwire /\ wwire'[i] = wwire[i + 1]
                                    /\ i \in Nat \ {0}
    BY <1>1, <2>1
  <2>3. source # "header"
    BY <2>1 DEF Pipe, Stages, Before
  <2>4. HeaderWaits' = 0
    <3>1. wwire' # <<>> => 1 \in DOMAIN wwire'
      BY <2>2
    <3>2. QED
      BY <1>1, <2>1, <2>2, <3>1 DEF HeaderWaits, Before
  <2>5. Got = 0 /\ Got' = 0 /\ HeaderWaits = 1
    BY <1>1, <2>1 DEF Got, HeaderWaits
  <2>6. QED
    BY <1>1, <2>1, <2>2, <2>3, <2>4, <2>5, TakenKeeps
<1>3. CASE Inspect \/ CreatePartial
  <2>1. /\ \/ write = "inspect" /\ write' = "create" /\ part' = part
           \/ write = "create" /\ write' = "receive" /\ part' = 0
        /\ UNCHANGED <<op, reader, source, wwire, dest, answer>> /\ (sweep' <=> sweep)
    BY <1>3 DEF Inspect, CreatePartial
  <2>2. Got = 0 /\ Got' = 0 /\ HeaderWaits' = HeaderWaits /\ HeaderWaits \in {0, 1}
    BY <2>1 DEF Got, HeaderWaits
  <2>3. QED
    BY <1>1, <2>1, <2>2, TakenKeeps
<1>4. CASE WriteChunk
  <2>1. /\ write = "receive" /\ write' = "receive" /\ wwire # <<>> /\ wwire' = Tail(wwire)
        /\ Head(wwire) = "data" /\ part' = part + 1
        /\ UNCHANGED <<op, reader, source, dest, answer>> /\ (sweep' <=> sweep)
    BY <1>4 DEF WriteChunk
  <2>2. /\ wwire' \in Seq({"header", "data", "commit", "eof"})
        /\ Len(wwire') = Len(wwire) - 1
        /\ \A i \in DOMAIN wwire' : i + 1 \in DOMAIN wwire /\ wwire'[i] = wwire[i + 1]
                                    /\ i \in Nat \ {0}
    BY <1>1, <2>1
  <2>3. HeaderWaits' = 0
    <3>1. wwire' # <<>> => 1 \in DOMAIN wwire'
      BY <2>2
    <3>2. QED
      BY <1>1, <2>1, <2>2, <3>1 DEF HeaderWaits, Before
  <2>4. Got = part /\ Got' = part + 1 /\ HeaderWaits = 0
    BY <1>1, <2>1 DEF Got, HeaderWaits
  <2>5. Got' - HeaderWaits' = Got - HeaderWaits + 1 /\ Got \in Int /\ Got' \in Int
    BY <1>1, <2>3, <2>4
  <2>6. part' \in Int /\ source # "header" /\ write' = "receive" /\ 1 \in {0, 1}
    BY <1>1, <2>1
  <2>7. QED
    BY <2>1, <2>2, <2>5, <2>6, TakenKeeps
<1>5. QED
  BY <1>2, <1>3, <1>4

(* The Read's transport breaks: what is under way may be lost, an error follows. *)
ReadBreaks ==
  /\ Reading /\ read' = "over" /\ UNCHANGED left
  /\ rwire' \in Seq({"data", "end", "error"}) /\ (~Copying => rwire' = rwire)
  /\ \A i \in DOMAIN rwire' : rwire'[i] = "end" => i \in DOMAIN rwire /\ rwire[i] = "end"

(* Behind the commit, and once it gives up, a Write has no more use for frames. *)
LEMMA BehindKeeps ==
  ASSUME Pipe, write # "off", write' \in {"commit", "flush", "link", "unlink", "clean", "over"},
         wwire' \in Seq({"header", "data", "commit", "eof"}),
         answer' \in {"none", "ok", "error"}, part' \in Int, NeverTruncated',
         write' \in {"commit", "flush", "link"} => part' = Chunks,
         write' = "unlink" => dest' = Chunks,
         sweep' => write' = "over",
         UNCHANGED <<op, source>>, UNCHANGED reader \/ ReadBreaks
  PROVE  Pipe'
<1> USE DEF Pipe, reader, Before, ReadBreaks, Reading
<1>1. PipeTyped'
  BY DEF PipeTyped, NeverTruncated
<1>2. Stages'
  BY DEF Stages, Copying, Over
<1>3. CommitIsLast' /\ NothingSkipped'
  BY DEF CommitIsLast, NothingSkipped
<1>4. Written' /\ PartialLives'
  BY DEF Written, PartialLives
<1>5. QED
  BY <1>1, <1>2, <1>3, <1>4

(* Whatever is under way when a Write is dropped, it is one that was committed. *)
LEMMA DropsWhole ==
  ASSUME Pipe, write # "off", DropWrite \/ LoseWrite
  PROVE  /\ write' = "over" /\ part' \in Int /\ NeverTruncated'
         /\ \/ dest' = dest
            \/ dest' = Chunks /\ (conflict = "replace" \/ dest = Absent)
  BY TransferAssumption
     DEF DropWrite, LoseWrite, Pipe, PipeTyped, Written, NeverTruncated, Absent, Others

LEMMA WriteSteps ==
  ASSUME Pipe, Write \/ FileWrite \/ Sweep \/ DestinationAppears
  PROVE  Pipe'
<1> USE TransferAssumption DEF WriteOnly, WriteAt, Answer, copy
<1>1. /\ wwire \in Seq({"header", "data", "commit", "eof"})
      /\ answer \in {"none", "ok", "error"} /\ part \in Int /\ NeverTruncated
      /\ write \in {"commit", "flush", "link"} => part = Chunks
      /\ write = "unlink" => dest = Chunks
      /\ sweep => write = "over"
  BY DEF Pipe, PipeTyped, Written, PartialLives
<1>2. wwire # <<>> => Tail(wwire) \in Seq({"header", "data", "commit", "eof"})
  BY <1>1
<1>3. CASE ReadHeader \/ Inspect \/ CreatePartial \/ WriteChunk
  <2>1. CASE write' \in {"inspect", "create", "receive"}
    BY <1>3, <2>1, TakenSteps
  <2>2. CASE write' \notin {"inspect", "create", "receive"}
    BY <1>1, <1>2, <1>3, <2>2, BehindKeeps
       DEF ReadHeader, Inspect, CreatePartial, WriteChunk, Next1, NeverTruncated
  <2>3. QED
    BY <2>1, <2>2
<1>4. CASE SeeCommit
  <2>1. /\ write = "receive" /\ wwire # <<>> /\ Head(wwire) = "commit"
        /\ wwire' = Tail(wwire) /\ write' = "commit"
        /\ UNCHANGED <<op, reader, source, part, dest, answer>> /\ (sweep' <=> sweep)
    BY <1>4 DEF SeeCommit, Next1
  <2>2. 1 \in DOMAIN wwire /\ wwire[1] = "commit"
    BY <1>1, <2>1
  <2>3. Got + 1 - 1 - HeaderWaits = Chunks /\ Got = part /\ HeaderWaits = 0
    BY <2>1, <2>2 DEF Pipe, CommitIsLast, Before, Got, HeaderWaits
  <2>4. part = Chunks
    BY <1>1, <2>3
  <2>5. QED
    BY <1>1, <1>2, <2>1, <2>4, BehindKeeps DEF NeverTruncated
<1>5. CASE EndWithoutCommit \/ SeeEnd
  BY <1>1, <1>2, <1>5, BehindKeeps DEF EndWithoutCommit, SeeEnd, Next1, NeverTruncated
<1>6. CASE WriteCancelled \/ Flush
  BY <1>1, <1>6, BehindKeeps DEF WriteCancelled, Flush, NeverTruncated
<1>7. CASE Link
  BY <1>1, <1>7, BehindKeeps DEF Link, NeverTruncated, Absent
<1>8. CASE Unlink \/ Clean
  BY <1>1, <1>8, BehindKeeps DEF Unlink, Clean, NeverTruncated, Absent
<1>9. CASE WriteReset
  BY <1>1, <1>9, DropsWhole, BehindKeeps, Empty DEF WriteReset, Writing
<1>10. CASE Sweep
  BY <1>1, <1>10, BehindKeeps DEF Sweep, NeverTruncated, Absent
<1>11. CASE DestinationAppears
  <2>1. /\ UNCHANGED <<op, reader, source, wwire, write, part, answer>> /\ (sweep' <=> sweep)
        /\ dest = Absent /\ dest' = Others
    BY <1>11 DEF DestinationAppears
  <2>2. PipeTyped'
    BY <2>1 DEF Pipe, PipeTyped, NeverTruncated, reader
  <2>3. Stages' /\ CommitIsLast' /\ NothingSkipped' /\ PartialLives'
    BY <2>1 DEF Pipe, Stages, CommitIsLast, NothingSkipped, PartialLives, Copying, Got,
       HeaderWaits, Sent, reader
  <2>4. Written'
    BY <2>1 DEF Pipe, Written, Absent
  <2>5. QED
    BY <2>2, <2>3, <2>4 DEF Pipe
<1>12. QED
  BY <1>3, <1>4, <1>5, <1>6, <1>7, <1>8, <1>9, <1>10, <1>11 DEF Write, FileWrite

-----------------------------------------------------------------------------
(***************************************************************************)
(* What breaks.                                                             *)
(***************************************************************************)
LEMMA ReadBroken ==
  ASSUME Pipe, NEW c \in Conn, BreakRead(c)
  PROVE  UNCHANGED reader \/ ReadBreaks
<1>1. CASE ~(from = c /\ Reading)
  BY <1>1 DEF BreakRead
<1>2. CASE from = c /\ Reading
  <2>1. read' = "over" /\ UNCHANGED left /\ rwire \in Seq({"data", "end", "error"})
    BY <1>2 DEF BreakRead, Pipe, PipeTyped
  <2>2. CASE ~Copying
    BY <1>2, <2>1, <2>2 DEF BreakRead, ReadBreaks
  <2>3. CASE Copying
    <3>1. PICK n \in 0..Len(rwire) : rwire' = Append(SubSeq(rwire, 1, n), "error")
      BY <1>2, <2>3 DEF BreakRead
    <3> DEFINE kept == SubSeq(rwire, 1, n)
    <3>2. /\ kept \in Seq({"data", "end", "error"}) /\ Len(kept) = n /\ n \in Nat
          /\ \A i \in 1..n : i \in DOMAIN rwire /\ kept[i] = rwire[i]
      BY <2>1
    <3> HIDE DEF kept
    <3>3. /\ Append(kept, "error") \in Seq({"data", "end", "error"})
          /\ \A i \in DOMAIN Append(kept, "error") :
               Append(kept, "error")[i] = "end" => i \in 1..n /\ kept[i] = "end"
      BY <3>2
    <3>4. rwire' = Append(kept, "error")
      BY <3>1 DEF kept
    <3>5. QED
      BY <1>2, <2>1, <2>3, <3>2, <3>3, <3>4 DEF ReadBreaks
  <2>4. QED
    BY <2>2, <2>3
<1>3. QED
  BY <1>1, <1>2

LEMMA BreakKeeps ==
  ASSUME Pipe, NEW c \in Conn, BreakRead(c),
         BreakWrite(c, DropWrite) \/ BreakWrite(c, LoseWrite), UNCHANGED <<op, source>>
  PROVE  Pipe'
<1>1. UNCHANGED reader \/ ReadBreaks
  BY ReadBroken
<1>2. CASE to = c /\ Writing
  <2>1. /\ (DropWrite \/ LoseWrite) /\ wwire' = <<>> /\ write # "off"
        /\ answer' = IF answer = "none" THEN "error" ELSE answer
    BY <1>2 DEF BreakWrite, Writing
  <2>2. write' = "over" /\ part' \in Int /\ NeverTruncated'
    BY <2>1, DropsWhole
  <2>3. answer' \in {"none", "ok", "error"}
    BY <2>1 DEF Pipe, PipeTyped
  <2>4. QED
    BY <1>1, <2>1, <2>2, <2>3, Empty, BehindKeeps
<1>3. CASE ~(to = c /\ Writing)
  <2>1. UNCHANGED <<wwire, writer>>
    BY <1>3 DEF BreakWrite
  <2>2. CASE UNCHANGED reader
    BY <2>1, <2>2, PipeStands DEF writer
  <2>3. CASE ReadBreaks
    <3>1. left' \in Nat
      BY <2>3 DEF ReadBreaks, Pipe, PipeTyped
    <3>2. write \in Before /\ source \in {"off", "header", "data"} =>
            \A i \in DOMAIN rwire' : rwire'[i] = "end" => Sent + i - 1 = Chunks
      BY <2>3 DEF ReadBreaks, Pipe, NothingSkipped
    <3>3. QED
      BY <2>1, <2>3, <3>1, <3>2, ReaderKeeps DEF ReadBreaks, writer
  <2>4. QED
    BY <1>1, <2>2, <2>3
<1>4. QED
  BY <1>2, <1>3

-----------------------------------------------------------------------------
(***************************************************************************)
(* The answer.                                                              *)
(***************************************************************************)
LEMMA StillUndisturbed ==
  ASSUME Lasting, to \in Conn, to' = to
  PROVE  Undisturbed' => Undisturbed
  BY DEF Lasting, Undisturbed

LEMMA AnswerStands ==
  ASSUME Pipe, Answered, Lasting,
         UNCHANGED <<op, to, answer, write, part, dest>>, sweep' => sweep
  PROVE  Answered'
<1>1. answer # "none" => to \in Conn
  BY DEF Answered, Pipe, Stages
<1>2. QED
  BY <1>1, StillUndisturbed DEF Answered

(* Whoever breaks the Write has failed, has gone or has been closed. *)
LEMMA BreakAnswers ==
  ASSUME Pipe, Answered, Lasting, NEW c \in Conn,
         BreakWrite(c, DropWrite) \/ BreakWrite(c, LoseWrite),
         faults' # 0 \/ closing'[c] = "done" \/ server'[c] = "gone", UNCHANGED <<op, to>>
  PROVE  Answered'
<1>1. CASE to = c /\ Writing
  <2>1. write' = "over" /\ (answer # "none" => answer' = answer) /\ ~Undisturbed'
    BY <1>1 DEF BreakWrite, DropWrite, LoseWrite, Undisturbed
  <2>2. QED
    BY <2>1 DEF Answered
<1>2. CASE ~(to = c /\ Writing)
  BY <1>2, AnswerStands DEF BreakWrite, writer
<1>3. QED
  BY <1>1, <1>2

LEMMA CopyAnswers ==
  ASSUME Pipe, Answered, Lasting,
         \/ \E c \in Conn, d \in Conn, how \in {"fail", "replace"} : StartCopy(c, d, how)
         \/ Abort \/ OpenAnswers \/ Copy
  PROVE  Answered'
<1> USE DEF reader, writer, CopyAt, CopyEnds
<1>1. CASE \E c \in Conn, d \in Conn, how \in {"fail", "replace"} : StartCopy(c, d, how)
  <2>1. to' \in Conn /\ op' = "find" /\ answer' = "none"
    BY <1>1 DEF StartCopy, Pipe, Stages
  <2>2. QED
    BY <2>1 DEF Answered
<1>2. CASE SendWrite
  <2>1. to' = to /\ op = "send" /\ op' # "ok" /\ answer' = "none"
    BY <1>2 DEF SendWrite, Pipe, Stages
  <2>2. QED
    BY <2>1 DEF Answered
<1>3. CASE Abort \/ OpenAnswers \/ FindSource \/ LockSource \/ FindDestination
           \/ LockDestination \/ TakeAnswer
  <2>1. /\ UNCHANGED <<to, answer, write, part, dest, sweep>> /\ op # "idle"
        /\ op' = "ok" => answer = "ok"
    BY <1>3 DEF Abort, OpenAnswers, ResolveSource, OpenSource, OpenSourceBroken, FindSource,
       LockSource, FindDestination, LockDestination, TakeAnswer, Copying, Over
  <2>2. Undisturbed' => Undisturbed
    BY <2>1, StillUndisturbed DEF Answered
  <2>3. QED
    BY <2>1, <2>2 DEF Answered
<1>4. QED
  BY <1>1, <1>2, <1>3 DEF Copy

LEMMA WriteAnswers ==
  ASSUME Pipe, Answered, UNCHANGED <<conns, env>>,
         Write \/ FileWrite \/ Sweep \/ DestinationAppears
  PROVE  Answered'
<1> USE DEF WriteOnly, WriteAt, Answer, copy
<1>1. UNCHANGED <<op, to>> /\ Undisturbed' = Undisturbed
  BY DEF Write, FileWrite, ReadHeader, Inspect, CreatePartial, WriteChunk, SeeCommit,
     EndWithoutCommit, SeeEnd, WriteCancelled, Flush, Link, Unlink, Clean, WriteReset, Sweep,
     DestinationAppears, Undisturbed, conns, env
<1>2. /\ write \in {"header", "inspect", "create"} => part = Absent
      /\ sweep => write = "over"
      /\ write = "link" => part = Chunks
      /\ write = "unlink" => dest = Chunks
  BY DEF Pipe, PartialLives, Written
<1>3. CASE ReadHeader \/ Inspect \/ CreatePartial
  BY <1>1, <1>2, <1>3 DEF ReadHeader, Inspect, CreatePartial, Answered
<1>4. CASE WriteChunk \/ SeeCommit \/ EndWithoutCommit \/ SeeEnd \/ WriteCancelled \/ Flush
  <2>1. answer' = answer /\ write # "over"
    BY <1>4 DEF WriteChunk, SeeCommit, EndWithoutCommit, SeeEnd, WriteCancelled, Flush
  <2>2. QED
    BY <1>1, <2>1 DEF Answered
<1>5. CASE Link \/ Unlink \/ Clean
  BY <1>1, <1>2, <1>5 DEF Link, Unlink, Clean, Answered
<1>6. CASE WriteReset
  BY <1>1, <1>6 DEF WriteReset, Writing, Answered
<1>7. CASE Sweep
  BY <1>1, <1>2, <1>7 DEF Sweep, Answered
<1>8. CASE DestinationAppears
  BY <1>1, <1>8, TransferAssumption DEF DestinationAppears, Answered, Absent
<1>9. QED
  BY <1>3, <1>4, <1>5, <1>6, <1>7, <1>8 DEF Write, FileWrite

-----------------------------------------------------------------------------
(***************************************************************************)
(* Every step.                                                              *)
(***************************************************************************)
LEMMA StepInv == Inv /\ [Next]_vars => Inv'
<1> SUFFICES ASSUME Inv, [Next]_vars PROVE Inv'
  OBVIOUS
<1>1. World /\ Pipe /\ Answered
  BY DEF Inv
<1>2. CASE UNCHANGED vars
  <2>1. World' /\ Lasting
    BY <1>1, <1>2, WorldStands DEF vars
  <2>2. Pipe'
    BY <1>1, <1>2, PipeStands DEF vars, copy, writer
  <2>3. Answered'
    BY <1>1, <1>2, <2>1, AnswerStands DEF vars, copy, writer
  <2>4. QED
    BY <2>1, <2>2, <2>3 DEF Inv
<1>3. ASSUME NEW c \in Conn,
             Open(c) \/ Start(c) \/ Connect(c) \/ Insert(c) \/ DropOpen(c)
      PROVE  Inv'
  <2>1. World' /\ Lasting
    BY <1>1, <1>3, OpenSteps
  <2>2. UNCHANGED <<copy, reader, source, wwire, writer>>
    BY <1>3 DEF Open, Start, Connect, Insert, DropOpen, OpeningBecomes
  <2>3. Pipe' /\ Answered'
    BY <1>1, <2>1, <2>2, PipeStands, AnswerStands DEF copy, writer
  <2>4. QED
    BY <2>1, <2>3 DEF Inv
<1>4. ASSUME NEW c \in Conn, Close(c) \/ EmptySlot(c) \/ Closed(c) \/ CloseTimesOut(c)
      PROVE  Inv'
  <2>1. World' /\ Lasting
    BY <1>1, <1>4, CloseSteps
  <2>2. CASE UNCHANGED <<copy, reader, source, wwire, writer>>
    BY <1>1, <2>1, <2>2, PipeStands, AnswerStands DEF copy, writer, Inv
  <2>3. CASE /\ BreakRead(c) /\ BreakWrite(c, DropWrite) /\ closing'[c] = "done"
             /\ UNCHANGED <<copy, source>>
    BY <1>1, <2>1, <2>3, BreakKeeps, BreakAnswers DEF copy, Inv
  <2>4. QED
    BY <1>1, <1>4, <2>2, <2>3
       DEF Close, EmptySlot, Closed, CloseTimesOut, ClosingUnchanged, World, WorldTyped
<1>5. ASSUME NEW c \in Conn, Serving(c) \/ Fail(c) PROVE Inv'
  <2>1. World' /\ Lasting
    BY <1>1, <1>5, ServerSteps
  <2>2. CASE LeaseEnds(c) \/ ServerEnds(c)
    <3>1. /\ UNCHANGED <<copy, reader, source, wwire, write, answer, part, dest>>
          /\ sweep' => sweep
      BY <2>2 DEF LeaseEnds, ServerEnds, ServerUnchanged, writer
    <3>2. QED
      BY <1>1, <2>1, <3>1, PipeStands, AnswerStands DEF copy, Inv
  <2>3. CASE ServerGivesUp(c) \/ Fail(c)
    <3>1. /\ BreakRead(c) /\ (BreakWrite(c, DropWrite) \/ BreakWrite(c, LoseWrite))
          /\ UNCHANGED <<copy, source>>
          /\ faults' # 0 \/ server'[c] = "gone"
      BY <1>1, <2>3 DEF ServerGivesUp, Fail, ServerUnchanged, World, WorldTyped
    <3>2. QED
      BY <1>1, <2>1, <3>1, BreakKeeps, BreakAnswers DEF copy, Inv
  <2>4. QED
    BY <1>5, <2>2, <2>3 DEF Serving
<1>6. CASE \/ \E c \in Conn, d \in Conn, how \in {"fail", "replace"} : StartCopy(c, d, how)
           \/ Abort \/ OpenAnswers \/ Copy
  <2>1. UNCHANGED <<conns, env>>
    BY <1>6 DEF StartCopy, Abort, OpenAnswers, Copy, ResolveSource, OpenSource,
       OpenSourceBroken, FindSource, LockSource, FindDestination, LockDestination, SendWrite,
       TakeAnswer, CopyUnchanged
  <2>2. World' /\ Lasting
    BY <1>1, <2>1, WorldStands
  <2>3. QED
    BY <1>1, <1>6, <2>2, CopySteps, CopyAnswers DEF Inv
<1>7. CASE RequestStream \/ FileRead \/ ReadCancelled \/ ReadReset
  <2>1. UNCHANGED <<conns, env, copy, writer>>
    BY <1>7 DEF RequestStream, SendHeader, SendData, SendCommit, SourceFails, SendEnd, Frame,
       FileRead, ReadChunk, ReadEnd, ReadFails, ReadCancelled, ReadReset, ReadOnly
  <2>2. World' /\ Lasting
    BY <1>1, <2>1, WorldStands
  <2>3. Answered'
    BY <1>1, <2>1, <2>2, AnswerStands DEF copy, writer
  <2>4. QED
    BY <1>1, <1>7, <2>2, <2>3, RequestSteps, ReadSteps DEF Inv
<1>8. CASE Write \/ FileWrite \/ Sweep \/ DestinationAppears
  <2>1. UNCHANGED <<conns, env>>
    BY <1>8 DEF Write, FileWrite, ReadHeader, Inspect, CreatePartial, WriteChunk, SeeCommit,
       EndWithoutCommit, SeeEnd, WriteCancelled, Flush, Link, Unlink, Clean, WriteReset,
       Sweep, DestinationAppears, WriteOnly
  <2>2. World' /\ Lasting
    BY <1>1, <2>1, WorldStands
  <2>3. QED
    BY <1>1, <1>8, <2>1, <2>2, WriteSteps, WriteAnswers DEF Inv
<1>9. QED
  BY <1>2, <1>3, <1>4, <1>5, <1>6, <1>7, <1>8 DEF Next, Opening, User, Closing

LEMMA AlwaysInv == Spec => []Inv
<1>1. Init => Inv
  BY InitInv
<1>2. Inv /\ [Next]_vars => Inv'
  BY StepInv
<1>3. QED
  BY <1>1, <1>2, PTL DEF Spec

(* Whatever the destination is after a step, it is whole and may be there. *)
Published ==
  dest' # dest =>
    \/ dest' = Others /\ dest = Absent
    \/ dest' = Chunks /\ (conflict = "replace" \/ dest = Absent)

LEMMA BreakPublishes ==
  ASSUME Pipe, NEW c, BreakWrite(c, DropWrite) \/ BreakWrite(c, LoseWrite)
  PROVE  Published
  BY DropsWhole DEF BreakWrite, Writing, writer, Published

LEMMA StepPublishes == Inv /\ [Next]_vars => Published
<1> SUFFICES ASSUME Inv, [Next]_vars PROVE Published
  OBVIOUS
<1>1. Pipe
  BY DEF Inv
<1>2. CASE UNCHANGED writer
  BY <1>2 DEF writer, Published
<1>3. ASSUME NEW c \in Conn, Closing(c) \/ Serving(c) \/ Fail(c) PROVE Published
  <2>1. CASE UNCHANGED dest
    BY <2>1 DEF Published
  <2>2. CASE BreakWrite(c, DropWrite) \/ BreakWrite(c, LoseWrite)
    BY <1>1, <2>2, BreakPublishes
  <2>3. QED
    BY <1>3, <2>1, <2>2 DEF Closing, EmptySlot, Closed, CloseTimesOut, Serving, LeaseEnds,
       ServerEnds, ServerGivesUp, Fail, writer
<1>4. CASE Write \/ FileWrite \/ Sweep \/ DestinationAppears
  <2>1. CASE Link
    BY <1>1, <2>1 DEF Link, WriteAt, Answer, Pipe, PipeTyped, Written, Published
  <2>2. CASE WriteReset
    BY <1>1, <2>2, DropsWhole DEF WriteReset, Writing, Published
  <2>3. CASE DestinationAppears
    BY <2>3 DEF DestinationAppears, Published
  <2>4. CASE UNCHANGED dest
    BY <2>4 DEF Published
  <2>5. QED
    BY <1>4, <2>1, <2>2, <2>3, <2>4 DEF Write, FileWrite, ReadHeader, Inspect, CreatePartial,
       WriteChunk, SeeCommit, EndWithoutCommit, SeeEnd, WriteCancelled, Flush, Unlink, Clean,
       Sweep
<1>5. CASE \/ \E c \in Conn : Open(c) \/ Start(c) \/ Connect(c) \/ Insert(c)
                              \/ DropOpen(c) \/ Close(c)
           \/ RequestStream \/ FileRead \/ ReadCancelled \/ ReadReset
  BY <1>2, <1>5 DEF Open, Start, Connect, Insert, DropOpen, OpeningBecomes, Close,
     RequestStream, SendHeader, SendData, SendCommit, SourceFails, SendEnd, Frame, FileRead,
     ReadChunk, ReadEnd, ReadFails, ReadCancelled, ReadReset, ReadOnly
<1>6. CASE \/ \E c \in Conn, d \in Conn, how \in {"fail", "replace"} : StartCopy(c, d, how)
           \/ Abort \/ OpenAnswers \/ Copy
  <2>1. UNCHANGED dest
    BY <1>6 DEF StartCopy, Abort, OpenAnswers, Copy, ResolveSource, OpenSource,
       OpenSourceBroken, FindSource, LockSource, FindDestination, LockDestination, SendWrite,
       TakeAnswer, writer
  <2>2. QED
    BY <2>1 DEF Published
<1>7. QED
  BY <1>2, <1>3, <1>4, <1>5, <1>6 DEF Next, Opening, User, vars

(* A copy that says it is done has published the whole file, and one that its      *)
(* server says has failed has left nothing, however many chunks the file has and   *)
(* wherever what was under way was cancelled (fs/write.rs:123-151).               *)
THEOREM AnswersAreClean == Spec => []AnsweredIsClean
<1>1. Inv => AnsweredIsClean
  BY DEF Inv, Answered, Undisturbed, AnsweredIsClean
<1>2. QED
  BY <1>1, AlwaysInv, PTL

(* Nothing but the whole of the source is ever published, and nothing over a file  *)
(* that was to be kept (fs/write.rs:180-212, client/rpc/write_file.rs:104-166,     *)
(* server/ops/write.rs:49-88).                                                  *)
THEOREM WholeIsPublished == Spec => PublishesTheWhole
<1>1. Inv /\ [Next]_vars => [Published]_vars
  BY StepPublishes
<1>2. QED
  BY <1>1, AlwaysInv, PTL DEF Spec, PublishesTheWhole, Published
==============================================================================
