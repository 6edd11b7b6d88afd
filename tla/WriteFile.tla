------------------------------ MODULE WriteFile ------------------------------
(***************************************************************************)
(* write_file(): concurrent writes of one name in one directory.            *)
(*                                                                         *)
(* tokio runs a file's system calls on a pool of threads.  A write that is   *)
(* dropped stops waiting for its call; the call is made all the same, before *)
(* or after the drop's own unlink.  So a writer and the call it has in the   *)
(* pool are two processes here.                                             *)
(***************************************************************************)
EXTENDS Integers

CONSTANTS
  Writer,     \* calls of write_file()
  Size,       \* bound: how many chunks each one's source yields
  Name,       \* partial file names, by the id in them: 1..n
  Tries,      \* how often create_partial() tries, 128
  Leftovers,  \* names that an earlier process with this pid left taken
  Nobody, Other

ASSUME WriteAssumption ==
  /\ Size \in [Writer -> Nat]
  /\ Name \subseteq Nat /\ Leftovers \subseteq Name /\ Tries \in Nat
  /\ Nobody \notin Writer /\ Other \notin Writer /\ Nobody # Other

VARIABLES
  pc,        \* where each write_file() stands
  conflict,  \* its WriteConflict
  result,    \* what it returned
  tries,     \* how often create_partial() has tried
  partial,   \* the id in the partial name it tried last
  guard,     \* whether it holds a Partial that is not published
  call,      \* the system call it has in the pool
  answer,    \* what the last such call answered, until it is read
  given,     \* chunks handed to the file
  written,   \* chunks that reached the inode it created
  nextId,    \* NEXT_PARTIAL
  files,     \* whose inode each partial name is
  dest,      \* whose inode the destination is
  published  \* the writers whose inode the destination has been

vars == <<pc, conflict, result, tries, partial, guard, call, answer, given,
          written, nextId, files, dest, published>>

Init ==
  /\ pc = [w \in Writer |-> "Idle"]
  /\ conflict = [w \in Writer |-> "Replace"]
  /\ result = [w \in Writer |-> "none"]
  /\ tries = [w \in Writer |-> 0]
  /\ partial = [w \in Writer |-> 0]
  /\ guard = [w \in Writer |-> FALSE]
  /\ call = [w \in Writer |-> "none"]
  /\ answer = [w \in Writer |-> "none"]
  /\ given = [w \in Writer |-> 0]
  /\ written = [w \in Writer |-> 0]
  /\ nextId = 1
  /\ files = [n \in Name |-> IF n \in Leftovers THEN Other ELSE Nobody]
  /\ dest \in {Nobody, Other}
  /\ published = {}

Go(w, to) == pc' = [pc EXCEPT ![w] = to]
Ask(w, what) == call' = [call EXCEPT ![w] = what]
Read(w) == answer' = [answer EXCEPT ![w] = "none"]

(* Partial::drop(): unlink by name, whatever is there. *)
DropGuard(w) ==
  /\ guard' = [guard EXCEPT ![w] = FALSE]
  /\ files' = IF guard[w] THEN [files EXCEPT ![partial[w]] = Nobody] ELSE files

Return(w, r) ==
  /\ Go(w, "Done")
  /\ result' = [result EXCEPT ![w] = r]
  /\ DropGuard(w)
  /\ Read(w)
  /\ UNCHANGED <<conflict, tries, partial, given, written, nextId, dest, published>>

-----------------------------------------------------------------------------
(* The future *)

(* The destination directory may also turn out not to be one. *)
Begin(w) ==
  /\ pc[w] = "Idle"
  /\ \E c \in {"FailIfExists", "Replace"} :
       /\ conflict' = [conflict EXCEPT ![w] = c]
       /\ Go(w, IF c = "FailIfExists" THEN "Check" ELSE "Create")
  /\ UNCHANGED <<result, tries, partial, guard, call, answer, given, written,
                 nextId, files, dest, published>>

Refuse(w) ==
  /\ pc[w] = "Idle" \/ (pc[w] = "Check" /\ dest # Nobody)
  /\ Return(w, IF pc[w] = "Idle" THEN "failed" ELSE "exists")
  /\ UNCHANGED call

CheckDestination(w) ==
  /\ pc[w] = "Check" /\ dest = Nobody
  /\ Go(w, "Create")
  /\ UNCHANGED <<conflict, result, tries, partial, guard, call, answer, given,
                 written, nextId, files, dest, published>>

(* One turn of create_partial()'s loop; the name is new in this process. *)
TryName(w) ==
  /\ pc[w] = "Create" /\ tries[w] < Tries /\ nextId \in Name
  /\ tries' = [tries EXCEPT ![w] = @ + 1]
  /\ partial' = [partial EXCEPT ![w] = nextId]
  /\ nextId' = nextId + 1
  /\ Ask(w, "open")
  /\ Go(w, "Opening")
  /\ UNCHANGED <<conflict, result, guard, answer, given, written, files, dest,
                 published>>

NoNameLeft(w) ==
  /\ pc[w] = "Create" /\ tries[w] = Tries
  /\ Return(w, "failed")
  /\ UNCHANGED call

(* The guard is made when the answer is read, not when the file is. *)
Opened(w) ==
  /\ pc[w] = "Opening" /\ answer[w] = "ok"
  /\ guard' = [guard EXCEPT ![w] = TRUE]
  /\ Go(w, "Copy")
  /\ Read(w)
  /\ UNCHANGED <<conflict, result, tries, partial, call, given, written, nextId,
                 files, dest, published>>

NameTaken(w) ==
  /\ pc[w] = "Opening" /\ answer[w] = "exists"
  /\ Go(w, "Create")
  /\ Read(w)
  /\ UNCHANGED <<conflict, result, tries, partial, guard, call, given, written,
                 nextId, files, dest, published>>

(* write_all() hands a chunk over as soon as the last one is through. *)
WriteChunk(w) ==
  /\ pc[w] = "Copy" /\ given[w] < Size[w]
  /\ call[w] = "none" /\ answer[w] # "failed"
  /\ given' = [given EXCEPT ![w] = @ + 1]
  /\ Ask(w, "write")
  /\ Read(w)
  /\ UNCHANGED <<pc, conflict, result, tries, partial, guard, written, nextId,
                 files, dest, published>>

SourceEnds(w) ==
  /\ pc[w] = "Copy" /\ given[w] = Size[w]
  /\ Go(w, "Flush")
  /\ UNCHANGED <<conflict, result, tries, partial, guard, call, answer, given,
                 written, nextId, files, dest, published>>

(* Mutant of Flushed: the file is published with a write in the pool. *)
FlushNotAwaited(w) ==
  /\ pc[w] = "Flush" /\ answer[w] # "failed"
  /\ Go(w, "Publish")
  /\ Read(w)
  /\ UNCHANGED <<conflict, result, tries, partial, guard, call, given, written,
                 nextId, files, dest, published>>

(* flush() waits for the write in the pool and reports its error. *)
Flushed(w) ==
  /\ pc[w] = "Flush" /\ call[w] = "none" /\ answer[w] # "failed"
  /\ Go(w, "Publish")
  /\ Read(w)
  /\ UNCHANGED <<conflict, result, tries, partial, guard, call, given, written,
                 nextId, files, dest, published>>

(* Mutant of Publish: the check at the start is trusted. *)
PublishByRename(w) ==
  /\ pc[w] = "Publish"
  /\ Ask(w, "rename")
  /\ Go(w, "Publishing")
  /\ UNCHANGED <<conflict, result, tries, partial, guard, answer, given, written,
                 nextId, files, dest, published>>

Publish(w) ==
  /\ pc[w] = "Publish"
  /\ Ask(w, IF conflict[w] = "Replace" THEN "rename" ELSE "link")
  /\ Go(w, "Publishing")
  /\ UNCHANGED <<conflict, result, tries, partial, guard, answer, given, written,
                 nextId, files, dest, published>>

(* Partial::published(): the name is gone, and its guard has nothing to do. *)
Renamed(w) ==
  /\ pc[w] = "Publishing" /\ answer[w] = "ok" /\ conflict[w] = "Replace"
  /\ guard' = [guard EXCEPT ![w] = FALSE]
  /\ result' = [result EXCEPT ![w] = "ok"]
  /\ Go(w, "Done")
  /\ Read(w)
  /\ UNCHANGED <<conflict, tries, partial, call, given, written, nextId, files,
                 dest, published>>

(* Mutant of Linked: the link's error is let go. *)
LinkUnchecked(w) ==
  /\ pc[w] = "Publishing" /\ answer[w] # "none"
  /\ conflict[w] = "FailIfExists"
  /\ Return(w, "ok")
  /\ UNCHANGED call

Linked(w) ==
  /\ pc[w] = "Publishing" /\ answer[w] = "ok" /\ conflict[w] = "FailIfExists"
  /\ Return(w, "ok")
  /\ UNCHANGED call

(* A link found the name taken; a call failed; the source did. *)
Fail(w) ==
  /\ \/ /\ pc[w] \in {"Opening", "Copy", "Flush", "Publishing"}
        /\ answer[w] = "failed"
     \/ pc[w] = "Publishing" /\ answer[w] = "exists"
     \/ pc[w] = "Copy" /\ given[w] < Size[w]
  /\ Return(w, IF pc[w] = "Publishing" /\ answer[w] = "exists"
               THEN "exists" ELSE "failed")
  /\ UNCHANGED call

(* The future is dropped at any await; its call stays in the pool. *)
Drop(w) ==
  /\ pc[w] \notin {"Idle", "Done"}
  /\ Return(w, "dropped")
  /\ UNCHANGED call

-----------------------------------------------------------------------------
(* The pool.  An answer nobody waits for is thrown away. *)

Answered(w, a) ==
  /\ Ask(w, "none")
  /\ answer' = [answer EXCEPT ![w] = IF pc[w] = "Done" THEN "none" ELSE a]

(* Mutant of Open: create(true) for create_new(true). *)
OpenTruncates(w) ==
  /\ call[w] = "open"
  /\ files' = [files EXCEPT ![partial[w]] = w]
  /\ Answered(w, "ok")
  /\ UNCHANGED <<pc, conflict, result, tries, partial, guard, given, written,
                 nextId, dest, published>>

Open(w) ==
  /\ call[w] = "open"
  /\ \/ /\ files[partial[w]] = Nobody
        /\ files' = [files EXCEPT ![partial[w]] = w]
        /\ Answered(w, "ok")
     \/ /\ files[partial[w]] # Nobody
        /\ Answered(w, "exists")
        /\ UNCHANGED files
     \/ /\ Answered(w, "failed")
        /\ UNCHANGED files
  /\ UNCHANGED <<pc, conflict, result, tries, partial, guard, given, written,
                 nextId, dest, published>>

Write(w) ==
  /\ call[w] = "write"
  /\ \/ /\ written' = [written EXCEPT ![w] = @ + 1]
        /\ Answered(w, "ok")
     \/ /\ Answered(w, "failed")
        /\ UNCHANGED written
  /\ UNCHANGED <<pc, conflict, result, tries, partial, guard, given, nextId,
                 files, dest, published>>

(* The name may be gone: a drop has removed it. *)
Rename(w) ==
  /\ call[w] = "rename"
  /\ \/ /\ files[partial[w]] = w
        /\ files' = [files EXCEPT ![partial[w]] = Nobody]
        /\ dest' = w /\ published' = published \cup {w}
        /\ Answered(w, "ok")
     \/ /\ Answered(w, "failed")
        /\ UNCHANGED <<files, dest, published>>
  /\ UNCHANGED <<pc, conflict, result, tries, partial, guard, given, written,
                 nextId>>

Link(w) ==
  /\ call[w] = "link"
  /\ \/ /\ files[partial[w]] = w /\ dest = Nobody
        /\ dest' = w /\ published' = published \cup {w}
        /\ Answered(w, "ok")
     \/ /\ files[partial[w]] = w /\ dest # Nobody
        /\ Answered(w, "exists")
        /\ UNCHANGED <<dest, published>>
     \/ /\ Answered(w, "failed")
        /\ UNCHANGED <<dest, published>>
  /\ UNCHANGED <<pc, conflict, result, tries, partial, guard, given, written,
                 nextId, files>>

-----------------------------------------------------------------------------
(* Another program makes the destination, or removes it. *)
Elsewhere ==
  /\ dest' = IF dest = Nobody THEN Other ELSE Nobody
  /\ UNCHANGED <<pc, conflict, result, tries, partial, guard, call, answer,
                 given, written, nextId, files, published>>

Future(w) ==
  \/ Begin(w) \/ Refuse(w) \/ CheckDestination(w)
  \/ TryName(w) \/ NoNameLeft(w) \/ Opened(w) \/ NameTaken(w)
  \/ WriteChunk(w) \/ SourceEnds(w) \/ Flushed(w)
  \/ Publish(w) \/ Renamed(w) \/ Linked(w) \/ Fail(w) \/ Drop(w)

Pool(w) == Open(w) \/ Write(w) \/ Rename(w) \/ Link(w)

Next == Elsewhere \/ \E w \in Writer : Future(w) \/ Pool(w)

Spec == Init /\ [][Next]_vars

-----------------------------------------------------------------------------
(* Every variable has its type, a partial name has one owner, and no more      *)
(* reaches an inode than was handed over.                                     *)
TypeOK ==
  /\ pc \in [Writer -> {"Idle", "Check", "Create", "Opening", "Copy", "Flush",
                        "Publish", "Publishing", "Done"}]
  /\ conflict \in [Writer -> {"FailIfExists", "Replace"}]
  /\ result \in [Writer -> {"none", "ok", "exists", "failed", "dropped"}]
  /\ tries \in [Writer -> 0..Tries]
  /\ partial \in [Writer -> Name \cup {0}]
  /\ guard \in [Writer -> BOOLEAN]
  /\ call \in [Writer -> {"none", "open", "write", "rename", "link"}]
  /\ answer \in [Writer -> {"none", "ok", "exists", "failed"}]
  /\ given \in [Writer -> Nat]
  /\ written \in [Writer -> Nat]
  /\ nextId \in Nat \ {0}
  /\ files \in [Name -> Writer \cup {Nobody, Other}]
  /\ dest \in Writer \cup {Nobody, Other}
  /\ published \subseteq Writer
  /\ \A w \in Writer : written[w] <= given[w] /\ given[w] <= Size[w]

(* write.rs:34, published whole or not at all: whatever the destination is, it  *)
(* is never a file that a write has yet to finish.                             *)
DestinationWhole == dest \in Writer => written[dest] = Size[dest]

(* write.rs:22-24: FailIfExists leaves an existing file as it was, even one     *)
(* that appears while the write is under way.                                  *)
ExistingKept ==
  [][dest # Nobody /\ dest' # dest /\ dest' \in Writer
       => conflict[dest'] = "Replace"]_vars

(* What write_file() returned is what happened: Written was published, an       *)
(* error was not.                                                             *)
ResultIsTrue ==
  \A w \in Writer :
    /\ result[w] = "ok" => w \in published
    /\ result[w] \in {"exists", "failed"} => w \notin published

(* The partial names are as they were found once a write has returned, well or   *)
(* not: its own is gone, and one that an earlier process left is still there.    *)
NothingLeftOnReturn ==
  /\ \A w \in Writer : result[w] \in {"ok", "exists", "failed"} =>
       \A n \in Name : files[n] # w
  /\ \A n \in Leftovers : files[n] = Other

(* write.rs:37-39: "A failure, or the future being dropped, removes the partial  *)
(* file before it returns or drops: nothing half-written is ever left under     *)
(* either name."  Said of dropped writes, with nothing left in the pool.        *)
NothingLeftOnDrop ==
  \A w \in Writer : result[w] = "dropped" /\ call[w] = "none" =>
    \A n \in Name : files[n] # w
==============================================================================
