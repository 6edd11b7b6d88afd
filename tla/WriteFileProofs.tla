--------------------------- MODULE WriteFileProofs ---------------------------
(***************************************************************************)
(* What is proved of write_file() for any number of concurrent writes and   *)
(* sources of any length, whatever is dropped while its call is in the pool. *)
(***************************************************************************)
EXTENDS WriteFile, TLAPS

(* Where a write and its call stand together. *)
CallMatches ==
  \A w \in Writer :
    /\ pc[w] \in {"Idle", "Check", "Create", "Publish"} =>
         call[w] = "none" /\ answer[w] = "none"
    /\ pc[w] = "Opening" => call[w] \in {"none", "open"}
    /\ pc[w] \in {"Copy", "Flush"} => call[w] \in {"none", "write"}
    /\ pc[w] = "Publishing" => call[w] \in {"none", "rename", "link"}
    /\ call[w] # "none" => answer[w] = "none"
    /\ call[w] = "rename" => conflict[w] = "Replace"
    /\ pc[w] = "Done" <=> result[w] # "none"

(* A chunk that was handed over is written, is in the pool, or has failed; from  *)
(* the flush on the source has ended, and what follows finds all of it written. *)
ChunksCounted ==
  \A w \in Writer :
    /\ call[w] = "write" => given[w] = written[w] + 1
    /\ pc[w] \in {"Copy", "Flush"} /\ call[w] = "none" /\ answer[w] # "failed"
         => given[w] = written[w]
    /\ pc[w] \in {"Idle", "Check", "Create", "Opening"}
         => given[w] = 0 /\ written[w] = 0
    /\ pc[w] \in {"Flush", "Publish", "Publishing"} => given[w] = Size[w]
    /\ \/ pc[w] \in {"Publish", "Publishing"}
       \/ call[w] \in {"rename", "link"}
       \/ w \in published
       => written[w] = Size[w] /\ call[w] # "write"

(* What a write knows of its publication, and when it can still happen. *)
PublishedOnce ==
  \A w \in Writer :
    /\ call[w] \in {"rename", "link"} => w \notin published
    /\ w \in published => pc[w] \in {"Publishing", "Done"}
    /\ pc[w] = "Publishing" =>
         /\ answer[w] = "ok" => w \in published
         /\ answer[w] \in {"exists", "failed"} => w \notin published
    /\ result[w] \in {"exists", "failed"} => call[w] \notin {"rename", "link"}

DestPublished == dest \in Writer => dest \in published

IInv == TypeOK /\ CallMatches /\ ChunksCounted /\ PublishedOnce /\ DestPublished
          /\ ResultIsTrue

USE WriteAssumption

LEMMA InitIInv == Init => IInv
  BY DEF Init, IInv, TypeOK, CallMatches, ChunksCounted, PublishedOnce,
         DestPublished, ResultIsTrue

(* A write that ends changes only what it held: no one else's partial name. *)
LEMMA ReturnStep ==
  ASSUME IInv, NEW w \in Writer, NEW r \in {"ok", "exists", "failed", "dropped"},
         Return(w, r), UNCHANGED call,
         r = "ok" => w \in published,
         r \in {"exists", "failed"} =>
           w \notin published /\ call[w] \notin {"rename", "link"},
         pc[w] \notin {"Publishing", "Done"} => w \notin published
  PROVE  IInv'
<1>1. TypeOK'
  <2>1. files' \in [Name -> Writer \cup {Nobody, Other}]
    BY DEF Return, DropGuard, IInv, TypeOK
  <2>2. guard' \in [Writer -> BOOLEAN]
    BY DEF Return, DropGuard, IInv, TypeOK
  <2>3. QED
    BY <2>1, <2>2 DEF Return, Go, Read, IInv, TypeOK
<1>2. CallMatches'
  BY DEF Return, Go, Read, IInv, TypeOK, CallMatches
<1>3. ChunksCounted'
  BY DEF Return, Go, Read, IInv, TypeOK, CallMatches, ChunksCounted
<1>4. PublishedOnce'
  BY DEF Return, Go, Read, IInv, TypeOK, PublishedOnce
<1>5. DestPublished' /\ ResultIsTrue'
  BY DEF Return, IInv, TypeOK, DestPublished, ResultIsTrue
<1>6. QED
  BY <1>1, <1>2, <1>3, <1>4, <1>5 DEF IInv

LEMMA StepIInv == IInv /\ [Next]_vars => IInv'
<1> SUFFICES ASSUME IInv, [Next]_vars PROVE IInv'
  OBVIOUS
<1> USE DEF IInv, TypeOK, CallMatches, ChunksCounted, PublishedOnce,
            DestPublished, ResultIsTrue, Go, Read
<1>1. ASSUME NEW w \in Writer, Begin(w) PROVE IInv'
  BY <1>1 DEF Begin
<1>2. ASSUME NEW w \in Writer, Refuse(w) PROVE IInv'
  BY <1>2, ReturnStep DEF Refuse
<1>3. ASSUME NEW w \in Writer, CheckDestination(w) PROVE IInv'
  BY <1>3 DEF CheckDestination
<1>4. ASSUME NEW w \in Writer, TryName(w) PROVE IInv'
  <2>1. tries[w] + 1 \in 0..Tries /\ nextId + 1 \in Nat \ {0}
    BY <1>4 DEF TryName
  <2>2. TypeOK'
    BY <1>4, <2>1 DEF TryName, Ask
  <2>3. CallMatches' /\ PublishedOnce'
    BY <1>4 DEF TryName, Ask
  <2>4. ChunksCounted' /\ DestPublished' /\ ResultIsTrue'
    BY <1>4 DEF TryName, Ask
  <2>5. QED
    BY <2>2, <2>3, <2>4
<1>5. ASSUME NEW w \in Writer, NoNameLeft(w) PROVE IInv'
  BY <1>5, ReturnStep DEF NoNameLeft
<1>6. ASSUME NEW w \in Writer, Opened(w) PROVE IInv'
  BY <1>6 DEF Opened
<1>7. ASSUME NEW w \in Writer, NameTaken(w) PROVE IInv'
  BY <1>7 DEF NameTaken
<1>8. ASSUME NEW w \in Writer, WriteChunk(w) PROVE IInv'
  BY <1>8 DEF WriteChunk, Ask
<1>9. ASSUME NEW w \in Writer, SourceEnds(w) PROVE IInv'
  BY <1>9 DEF SourceEnds
<1>10. ASSUME NEW w \in Writer, Flushed(w) PROVE IInv'
  BY <1>10 DEF Flushed
<1>11. ASSUME NEW w \in Writer, Publish(w) PROVE IInv'
  <2>1. PICK c \in {"rename", "link"} :
          /\ call' = [call EXCEPT ![w] = c]
          /\ c = "rename" => conflict[w] = "Replace"
    BY <1>11 DEF Publish, Ask
  <2>2. TypeOK' /\ CallMatches'
    BY <1>11, <2>1 DEF Publish
  <2>3. w \notin published /\ written[w] = Size[w]
    BY <1>11 DEF Publish
  <2>4. ChunksCounted' /\ PublishedOnce' /\ DestPublished' /\ ResultIsTrue'
    BY <1>11, <2>1, <2>3 DEF Publish
  <2>5. QED
    BY <2>2, <2>4
<1>12. ASSUME NEW w \in Writer, Renamed(w) PROVE IInv'
  BY <1>12 DEF Renamed
<1>13. ASSUME NEW w \in Writer, Linked(w) PROVE IInv'
  BY <1>13, ReturnStep DEF Linked
<1>14. ASSUME NEW w \in Writer, Fail(w) PROVE IInv'
  BY <1>14, ReturnStep DEF Fail
<1>15. ASSUME NEW w \in Writer, Drop(w) PROVE IInv'
  BY <1>15, ReturnStep DEF Drop
<1>16. ASSUME NEW w \in Writer, Open(w) PROVE IInv'
  BY <1>16, SMTT(60) DEF Open, Ask, Answered
<1>17. ASSUME NEW w \in Writer, Write(w) PROVE IInv'
  BY <1>17 DEF Write, Ask, Answered
<1>18. ASSUME NEW w \in Writer, Rename(w) PROVE IInv'
  BY <1>18 DEF Rename, Ask, Answered
<1>19. ASSUME NEW w \in Writer, Link(w) PROVE IInv'
  BY <1>19 DEF Link, Ask, Answered
<1>20. CASE Elsewhere
  BY <1>20 DEF Elsewhere
<1>21. CASE UNCHANGED vars
  BY <1>21 DEF vars
<1>22. QED
  BY <1>1, <1>2, <1>3, <1>4, <1>5, <1>6, <1>7, <1>8, <1>9, <1>10, <1>11, <1>12, <1>13, <1>14, <1>15, <1>16, <1>17, <1>18, <1>19, <1>20, <1>21 DEF Next, Future, Pool

LEMMA Invariance == Spec => []IInv
  BY InitIInv, StepIInv, PTL DEF Spec

(* Every variable keeps its type, whatever is interleaved with what. *)
THEOREM WriteTypeCorrect == Spec => []TypeOK
<1>1. IInv => TypeOK
  BY DEF IInv
<1>2. QED
  BY <1>1, Invariance, PTL

(* write.rs:34: the destination is never a file that a write has yet to finish. *)
THEOREM PublishedWhole == Spec => []DestinationWhole
<1>1. IInv => DestinationWhole
  BY DEF IInv, DestPublished, ChunksCounted, DestinationWhole
<1>2. QED
  BY <1>1, Invariance, PTL

(* write_file() says Written only of what was published, and reports an error   *)
(* only of what was not.                                                       *)
THEOREM ResultsAreTrue == Spec => []ResultIsTrue
<1>1. IInv => ResultIsTrue
  BY DEF IInv
<1>2. QED
  BY <1>1, Invariance, PTL

(* write.rs:22-24: FailIfExists replaces nothing, not even a file that appeared  *)
(* after it looked: only a rename puts a file in another's place, and only a    *)
(* write that may replace asks for one.                                        *)
THEOREM ExistingIsKept == Spec => ExistingKept
<1>1. ASSUME IInv, [Next]_vars,
             dest # Nobody, dest' # dest, dest' \in Writer
      PROVE  conflict[dest'] = "Replace"
  <2>1. PICK w \in Writer : Rename(w) /\ dest' = w
    <3>1. ASSUME NEW w \in Writer, Future(w) PROVE UNCHANGED dest
      BY <3>1 DEF Future, Begin, Refuse, CheckDestination, TryName, NoNameLeft,
         Opened, NameTaken, WriteChunk, SourceEnds, Flushed, Publish, Renamed,
         Linked, Fail, Drop, Return
    <3>2. ASSUME NEW w \in Writer, Pool(w), ~Rename(w)
          PROVE  UNCHANGED dest \/ dest = Nobody
      BY <3>2 DEF Pool, Open, Write, Link
    <3>3. ~Elsewhere
      BY <1>1 DEF Elsewhere
    <3>4. PICK w \in Writer : Rename(w)
      BY <1>1, <3>1, <3>2, <3>3 DEF Next, vars
    <3>5. QED
      BY <1>1, <3>4 DEF Rename
  <2>2. QED
    BY <1>1, <2>1 DEF Rename, IInv, CallMatches
<1>2. IInv /\ [Next]_vars =>
        [dest # Nobody /\ dest' # dest /\ dest' \in Writer
           => conflict[dest'] = "Replace"]_vars
  BY <1>1 DEF vars
<1>3. QED
  BY <1>2, Invariance, PTL DEF Spec, ExistingKept

(***************************************************************************)
(* Partial names.                                                           *)
(***************************************************************************)
(* The writes that may have a partial file: one that holds its guard, one that    *)
(* has yet to read that it was opened, and one that was dropped before it could.  *)
MayOwn(w) ==
  \/ /\ guard[w] /\ pc[w] \in {"Copy", "Flush", "Publish", "Publishing"}
     /\ ~(pc[w] = "Publishing" /\ answer[w] = "ok" /\ conflict[w] = "Replace")
  \/ pc[w] = "Opening" /\ answer[w] = "ok"
  \/ result[w] = "dropped"

(* A partial name is one write's, a file under it is that write's, and a name     *)
(* that was taken before is nobody's to open or to unlink.                      *)
PartialsOwned ==
  /\ \A w \in Writer : partial[w] < nextId
  /\ \A v, w \in Writer : partial[v] = partial[w] /\ partial[v] # 0 => v = w
  /\ \A n \in Name, w \in Writer : files[n] = w => partial[w] = n /\ MayOwn(w)
  /\ \A n \in Leftovers : files[n] = Other
  /\ \A w \in Writer :
       /\ guard[w] \/ (pc[w] = "Opening" /\ answer[w] = "ok")
            => partial[w] \in Name \ Leftovers
       /\ call[w] = "open" => partial[w] \in Name \ {0}
       /\ guard[w] => pc[w] \in {"Copy", "Flush", "Publish", "Publishing"}
       /\ pc[w] = "Done" /\ call[w] = "open" => result[w] = "dropped"
       /\ call[w] = "link" => conflict[w] = "FailIfExists"

OInv == IInv /\ PartialsOwned

(* A write that returns unlinks its own partial name, if it holds one. *)
LEMMA ReturnOwns ==
  ASSUME OInv, NEW w \in Writer, NEW r \in {"ok", "exists", "failed", "dropped"},
         Return(w, r), UNCHANGED call,
         pc[w] # "Done",
         r # "dropped" => call[w] # "open" /\ ~(pc[w] = "Opening" /\ answer[w] = "ok")
  PROVE  PartialsOwned'
<1> USE DEF Return, DropGuard, Go, Read
<1>1. /\ \A v \in Writer : partial'[v] < nextId'
      /\ \A u, v \in Writer : partial'[u] = partial'[v] /\ partial'[u] # 0 => u = v
  BY DEF OInv, PartialsOwned
<1>2. \A n \in Leftovers : files'[n] = Other
  BY DEF OInv, PartialsOwned, IInv, TypeOK
<1>3. \A v \in Writer :
       /\ guard'[v] \/ (pc'[v] = "Opening" /\ answer'[v] = "ok")
            => partial'[v] \in Name \ Leftovers
       /\ call'[v] = "open" => partial'[v] \in Name \ {0}
       /\ guard'[v] => pc'[v] \in {"Copy", "Flush", "Publish", "Publishing"}
       /\ pc'[v] = "Done" /\ call'[v] = "open" => result'[v] = "dropped"
       /\ call'[v] = "link" => conflict'[v] = "FailIfExists"
  BY DEF OInv, PartialsOwned, IInv, TypeOK
<1>4. ASSUME NEW n \in Name, NEW v \in Writer, files'[n] = v
      PROVE  partial'[v] = n /\ MayOwn(v)'
  <2>1. files[n] = v /\ partial[v] = n /\ MayOwn(v)
    BY <1>4 DEF OInv, PartialsOwned, IInv, TypeOK
  <2>2. CASE v # w
    BY <2>1, <2>2 DEF MayOwn, OInv, IInv, TypeOK
  <2>3. CASE v = w
    <3>1. ~guard[w]
      BY <1>4, <2>1, <2>3 DEF OInv, IInv, TypeOK
    <3>2. r = "dropped"
      BY <2>1, <2>3, <3>1 DEF MayOwn, OInv, IInv, CallMatches
    <3>3. QED
      BY <2>1, <2>3, <3>2 DEF MayOwn, OInv, IInv, TypeOK
  <2>4. QED
    BY <2>2, <2>3
<1>5. QED
  BY <1>1, <1>2, <1>3, <1>4 DEF PartialsOwned

LEMMA StepOwns == OInv /\ [Next]_vars => PartialsOwned'
<1> SUFFICES ASSUME OInv, [Next]_vars PROVE PartialsOwned'
  OBVIOUS
<1> USE DEF OInv, IInv, TypeOK, CallMatches, PartialsOwned, MayOwn, Go, Read
<1>1. ASSUME NEW w \in Writer, Begin(w) \/ CheckDestination(w) PROVE PartialsOwned'
  BY <1>1 DEF Begin, CheckDestination
<1>2. ASSUME NEW w \in Writer, Refuse(w) \/ NoNameLeft(w) PROVE PartialsOwned'
  BY <1>2, ReturnOwns DEF Refuse, NoNameLeft
<1>3. ASSUME NEW w \in Writer, TryName(w) PROVE PartialsOwned'
  <2>1. \A n \in Name : files[n] # w
    BY <1>3 DEF TryName
  <2>2. nextId \in Name \ {0} /\ partial' = [partial EXCEPT ![w] = nextId]
        /\ \A v \in Writer : partial[v] < nextId /\ partial[v] # nextId
    BY <1>3 DEF TryName
  <2>3. \A v \in Writer : partial'[v] < nextId'
    <3>1. nextId' = nextId + 1 /\ nextId \in Nat
      BY <1>3 DEF TryName
    <3>2. \A v \in Writer : partial[v] \in Nat
      <4>1. \A n \in Name \cup {0} : n \in Nat
        BY WriteAssumption
      <4>2. \A v \in Writer : partial[v] \in Name \cup {0}
        BY DEF OInv, IInv, TypeOK
      <4>3. QED
        BY <4>1, <4>2
    <3>3. partial' = [partial EXCEPT ![w] = nextId] /\ DOMAIN partial = Writer
      BY <2>2
    <3> HIDE DEF OInv, PartialsOwned, TypeOK
    <3>4. QED
      BY <2>2, <3>1, <3>2, <3>3
  <2>4. \A u, v \in Writer : partial'[u] = partial'[v] /\ partial'[u] # 0 => u = v
    BY <2>2
  <2>5. ASSUME NEW n \in Name, NEW v \in Writer, files'[n] = v
        PROVE  partial'[v] = n /\ MayOwn(v)'
    BY <1>3, <2>1, <2>2, <2>5 DEF TryName, Ask
  <2>6. \A v \in Writer :
         /\ guard'[v] \/ (pc'[v] = "Opening" /\ answer'[v] = "ok")
              => partial'[v] \in Name \ Leftovers
         /\ call'[v] = "open" => partial'[v] \in Name \ {0}
         /\ guard'[v] => pc'[v] \in {"Copy", "Flush", "Publish", "Publishing"}
         /\ pc'[v] = "Done" /\ call'[v] = "open" => result'[v] = "dropped"
         /\ call'[v] = "link" => conflict'[v] = "FailIfExists"
    BY <1>3, <2>2 DEF TryName, Ask
  <2>7. \A n \in Leftovers : files'[n] = Other
    BY <1>3 DEF TryName
  <2>8. QED
    BY <2>3, <2>4, <2>5, <2>6, <2>7
<1>4. ASSUME NEW w \in Writer, Opened(w) \/ NameTaken(w) PROVE PartialsOwned'
  BY <1>4 DEF Opened, NameTaken
<1>5. ASSUME NEW w \in Writer, WriteChunk(w) PROVE PartialsOwned'
  BY <1>5 DEF WriteChunk, Ask
<1>6. ASSUME NEW w \in Writer, SourceEnds(w) \/ Flushed(w) PROVE PartialsOwned'
  BY <1>6 DEF SourceEnds, Flushed
<1>7. ASSUME NEW w \in Writer, Publish(w) PROVE PartialsOwned'
  BY <1>7 DEF Publish, Ask
<1>8. ASSUME NEW w \in Writer, Renamed(w) PROVE PartialsOwned'
  BY <1>8 DEF Renamed
<1>9. ASSUME NEW w \in Writer, Linked(w) \/ Fail(w) \/ Drop(w) PROVE PartialsOwned'
  BY <1>9, ReturnOwns DEF Linked, Fail, Drop
<1>10. ASSUME NEW w \in Writer, Open(w) PROVE PartialsOwned'
  <2>1. partial[w] \in Name \ Leftovers \/ files[partial[w]] # Nobody
    BY <1>10, ZenonT(60) DEF Open
  <2>2. pc[w] = "Opening" \/ (pc[w] = "Done" /\ result[w] = "dropped")
    BY <1>10 DEF Open
  <2>3. CASE files' = [files EXCEPT ![partial[w]] = w] /\ files[partial[w]] = Nobody
               /\ Answered(w, "ok")
    BY <1>10, <2>1, <2>2, <2>3 DEF Open, Ask, Answered
  <2>4. CASE UNCHANGED files /\ (Answered(w, "exists") \/ Answered(w, "failed"))
    BY <1>10, <2>2, <2>4 DEF Open, Ask, Answered
  <2>5. QED
    BY <1>10, <2>3, <2>4 DEF Open
<1>11. ASSUME NEW w \in Writer, Write(w) PROVE PartialsOwned'
  BY <1>11 DEF Write, Ask, Answered
<1>12. ASSUME NEW w \in Writer, Rename(w) PROVE PartialsOwned'
  BY <1>12 DEF Rename, Ask, Answered
<1>13. ASSUME NEW w \in Writer, Link(w) PROVE PartialsOwned'
  BY <1>13 DEF Link, Ask, Answered
<1>14. CASE Elsewhere \/ UNCHANGED vars
  BY <1>14 DEF Elsewhere, vars
<1>15. QED
  BY <1>1, <1>2, <1>3, <1>4, <1>5, <1>6, <1>7, <1>8, <1>9, <1>10, <1>11, <1>12,
     <1>13, <1>14 DEF Next, Future, Pool

(* A write that has returned has left no partial file of its own, whether it      *)
(* published or failed, and none ever touches a name that was taken before.      *)
THEOREM ReturnsLeaveNothing == Spec => []NothingLeftOnReturn
<1>1. Init => PartialsOwned
  BY DEF Init, PartialsOwned
<1>2. IInv /\ PartialsOwned /\ [Next]_vars => PartialsOwned'
  BY StepOwns DEF OInv
<1>3. IInv /\ PartialsOwned => NothingLeftOnReturn
  BY DEF IInv, TypeOK, CallMatches, PartialsOwned, MayOwn, NothingLeftOnReturn
<1>4. QED
  BY <1>1, <1>2, <1>3, Invariance, PTL DEF Spec
==============================================================================
