------------------------------ MODULE Machines ------------------------------
(***************************************************************************)
(* Remote machines: the catalog that `fpk machine` edits (cli/machine.rs,   *)
(* client/machines.rs), and what `add` does on a host over SSH               *)
(* (client/remote.rs and its two install scripts).                          *)
(*                                                                         *)
(* An editor is one `fpk machine ...` or `fpk --machine ...` at a time.     *)
(* What it starts on a host is a process of its own, which goes on when the *)
(* editor dies.  A build is a number: the state of the source tree that a   *)
(* dev build is made from, or the version of a release; both only grow.     *)
(***************************************************************************)
EXTENDS Integers, Sequences, FiniteSets

CONSTANTS
  Editor,      \* invocations of fpk on one home, one at a time each
  Persistent,  \* the editor whose user asks again until a machine is saved
  Orphan,      \* the script whose editor died, at most one
  Node,        \* what a target may reach: a host directory per machine ID
  Target,      \* SSH destinations
  First,       \* the host that each target's shared connection leads to at first
  Command,     \* what each editor may be asked: [op, label, target, yes]
  Proto,       \* the client protocol of each build
  MaxTrouble,  \* bound: crashes, failed commands and lost masters
  NoNode

Build == 1..(Len(Proto) - 1)   \* 0 is no binary
Mixed == Len(Proto)            \* made of two states of the tree, or half of one
Half == 0                      \* in a host's src: extraction has not ended
(* What a catalog's file holds: machines in order, or text that does not parse. *)
Text(machines) == [ok |-> TRUE, machines |-> machines]
Torn == [ok |-> FALSE, machines |-> <<>>]
Slot == Editor \cup {Orphan}
Inode == 0..Cardinality(Editor)
NoFile == -1

ASSUME MachinesAssumption ==
  /\ IsFiniteSet(Editor) /\ Persistent \in Editor /\ Orphan \notin Editor
  /\ NoNode \notin Node /\ First \in [Target -> Node \cup {NoNode}]
  /\ Proto \in Seq(Nat) /\ Len(Proto) > 1

VARIABLES
  dev,        \* whether this is a dev build (build_info::RELEASE is false)
  current,    \* the source tree as it is, or the version this client has
  pc, run,    \* where an editor stands, and what it holds
  file, partial,  \* machines.toml and machines.toml.partial: inodes
  content,    \* what an inode holds: the machines, in order
  script,     \* what runs on a host for an editor
  installed,  \* bin/fpk of a host
  recorded,   \* bin/fpk.source of a host: the hash of a source
  src,        \* the states of the tree that a host's src/ was extracted from
  cargo,      \* cargo/bin/fpk of a host
  serving,    \* the build of the server that runs on a host
  master,     \* the host that a target leads to: the shared connection's
  (* What the environment has done, and what the properties ask about it. *)
  trouble,    \* how often something went wrong
  overlapped, \* two editors held the catalog at once
  marred      \* hashes whose install on a host something else interfered with

catalogVars == <<file, partial, content>>
hostVars == <<script, installed, recorded, src, cargo, serving, marred>>
worldVars == <<dev, current>>
vars == <<worldVars, pc, run, catalogVars, hostVars, master,
          trouble, overlapped>>

Catalog == IF file = NoFile THEN Text(<<>>) ELSE content[file]
Idle == [at |-> "None", node |-> NoNode, build |-> 0, holds |-> 0]
NoRun(c) == [cmd |-> c, mine |-> 0, wanted |-> 0, saved |-> <<>>,
             running |-> FALSE, node |-> NoNode, fd |-> NoFile]

Nothing == NoRun(CHOOSE c \in Command[Persistent] : TRUE)

Labels(machines) == {machines[i].label : i \in DOMAIN machines}
Cmd(e) == run[e].cmd

-----------------------------------------------------------------------------
Init ==
  /\ dev \in BOOLEAN
  /\ current = 1
  /\ pc = [e \in Editor |-> "Idle"]
  /\ run = [e \in Editor |-> Nothing]
  /\ file = NoFile /\ partial = NoFile
  /\ content = [i \in Inode |-> Text(<<>>)]
  /\ script = [s \in Slot |-> Idle]
  /\ installed = [n \in Node |-> 0]
  /\ recorded = [n \in Node |-> 0]
  /\ src = [n \in Node |-> {}]
  /\ cargo = [n \in Node |-> 0]
  /\ serving = [n \in Node |-> 0]
  /\ master = First
  /\ trouble = 0
  /\ overlapped = FALSE
  /\ marred = [n \in Node |-> {}]

Go(e, from, to) == pc[e] = from /\ pc' = [pc EXCEPT ![e] = to]
Note(e, field, value) == run' = [run EXCEPT ![e] = [@ EXCEPT ![field] = value]]

(* The command of an editor ends; what it held is gone with its process. *)
End(e) == Go(e, pc[e], "Idle") /\ run' = [run EXCEPT ![e] = Nothing]

Trouble == trouble < MaxTrouble /\ trouble' = trouble + 1

(* Mutant of Reach: each command makes a connection of its own. *)
ReachAny(t, n) ==
  /\ n \in Node
  /\ master' = [master EXCEPT ![t] = n]

(* One `ssh <target> <command>`: it reaches the host at the other end of the  *)
(* shared connection, and makes one when there is none, to a host of those    *)
(* the target's name may lead to.                                            *)
Reach(t, n) ==
  /\ master[t] \in {n, NoNode}
  /\ master' = [master EXCEPT ![t] = n]

(* What `fpk probe` prints on a host: its build, the hash recorded beside it,  *)
(* and whether a server answers.                                             *)
Report(n) ==
  [build |-> installed[n], hash |-> recorded[n],
   running |-> installed[n] # 0 /\ serving[n] # 0]

(* Whether Wanted::mismatch() has nothing to say of it. *)
Matches(e, n) ==
  /\ Report(n).build # 0
  /\ (IF dev THEN Report(n).hash ELSE Report(n).build) = run[e].wanted
  /\ Proto[Report(n).build] = Proto[run[e].mine]

(* Source::read() hashes the tree as it is. *)
SourceHash == current
(* Wanted::for_this_build() *)
Wants(e) == IF dev THEN SourceHash ELSE run[e].mine

-----------------------------------------------------------------------------
(* An editor starts; this client's own build is the newest there is. *)
Start(e, c) ==
  /\ Go(e, "Idle", CASE c.op = "login" -> "Login"
                     [] c.op \in {"start", "stop"} -> "LookUp"
                     [] OTHER -> "Load")
  /\ run' = [run EXCEPT ![e] = [NoRun(c) EXCEPT !.mine = current]]
  /\ UNCHANGED <<worldVars, catalogVars, hostVars, master, trouble,
                 overlapped>>

(* Another editor is between its load() and its end. *)
Contended(e) ==
  \E f \in Editor \ {e} :
    pc[f] \notin {"Idle", "Load", "Login", "LookUp", "Remote"}

Without(machines, label) == SelectSeq(machines, LAMBDA m : m.label # label)
Conflicts(c) ==
  \E i \in DOMAIN Catalog.machines :
    Catalog.machines[i].label = c.label /\ Catalog.machines[i].ssh # c.target

(* Why `add` or `remove` ends once the catalog was read. *)
Refused(c) ==
  \/ ~Catalog.ok
  \/ c.op = "remove" /\ c.label \notin Labels(Catalog.machines)
  \/ c.op = "add" /\ Conflicts(c)

(* machines::load(), what is checked in it, and Wanted::for_this_build(). *)
Load(e) ==
  /\ pc[e] = "Load"
  /\ overlapped' = (overlapped \/ Contended(e))
  /\ \/ /\ Refused(Cmd(e)) /\ End(e)
     \/ /\ ~Refused(Cmd(e)) /\ Cmd(e).op = "remove"
        /\ Go(e, "Load", "Open")
        /\ Note(e, "saved", Without(Catalog.machines, Cmd(e).label))
     \/ /\ ~Refused(Cmd(e)) /\ Cmd(e).op = "add"
        /\ Go(e, "Load", "Probe")
        /\ run' = [run EXCEPT ![e] =
                     [@ EXCEPT !.saved = Catalog.machines,
                               !.wanted = Wants(e)]]
  /\ UNCHANGED <<worldVars, catalogVars, hostVars, master, trouble>>

-----------------------------------------------------------------------------
(* A step that goes wrong ends the command: SSH fails or wants a login that  *)
(* nobody gives, or a file cannot be written.                                *)
Fails(e) ==
  /\ pc[e] \in {"Probe", "Upload", "Install", "Restart", "Reprobe",
                "StartServer", "Open", "Login", "Remote"}
  /\ Trouble
  /\ End(e)
  /\ UNCHANGED <<worldVars, catalogVars, hostVars, master, overlapped>>

Probe(e, n) ==
  /\ Reach(Cmd(e).target, n)
  /\ Go(e, "Probe", IF Matches(e, n) THEN "StartServer" ELSE "Ask")
  /\ run' = [run EXCEPT ![e] =
               [@ EXCEPT !.node = n, !.running = Report(n).running]]
  /\ UNCHANGED <<worldVars, catalogVars, hostVars, trouble,
                 overlapped>>

(* The user is asked unless --yes, and without a terminal says no. *)
Agree(e) ==
  /\ Go(e, "Ask", IF dev THEN "Upload" ELSE "Install")
  /\ UNCHANGED <<worldVars, run, catalogVars, hostVars, master,
                 trouble, overlapped>>
Decline(e) ==
  /\ pc[e] = "Ask" /\ ~Cmd(e).yes
  /\ End(e)
  /\ UNCHANGED <<worldVars, catalogVars, hostVars, master, trouble,
                 overlapped>>

(* One part of install() is sent to a host, and becomes a process there. *)
Send(e, n, first) ==
  /\ Reach(Cmd(e).target, n)
  /\ script' = [script EXCEPT ![e] =
                  [at |-> first, node |-> n, build |-> run[e].wanted, holds |-> 0]]
  /\ Note(e, "node", n)

(* upload(): tar here, into `rm -rf src; mkdir src; tar -x` there. *)
SendUpload(e, n) ==
  /\ Go(e, "Upload", "Uploading")
  /\ Send(e, n, "Clear")
  /\ UNCHANGED <<worldVars, catalogVars, installed, recorded, src, cargo,
                 serving, marred, trouble, overlapped>>

(* run_script() of install-dev.sh or install-release.sh. *)
SendInstall(e, n) ==
  /\ Go(e, "Install", "Installing")
  /\ Send(e, n, IF dev THEN "Cargo" ELSE "Fetch")
  /\ UNCHANGED <<worldVars, catalogVars, installed, recorded, src, cargo,
                 serving, marred, trouble, overlapped>>

(* The editor's ssh exits as its command did. *)
Answered(e) ==
  /\ script[e].at \in {"Ended", "Failed"}
  /\ script' = [script EXCEPT ![e] = Idle]
  /\ \/ /\ script[e].at = "Failed" /\ End(e)
     \/ /\ script[e].at = "Ended"
        /\ \/ Go(e, "Uploading", "Install")
           \/ Go(e, "Installing", IF run[e].running THEN "AskRestart" ELSE "Reprobe")
        /\ UNCHANGED run
  /\ UNCHANGED <<worldVars, catalogVars, installed, recorded, src, cargo,
                 serving, marred, master, trouble, overlapped>>

(* Whether the server that is still the old build is to be stopped. *)
AgreeRestart(e) ==
  /\ Go(e, "AskRestart", "Restart")
  /\ UNCHANGED <<worldVars, run, catalogVars, hostVars, master,
                 trouble, overlapped>>
DeclineRestart(e) ==
  /\ ~Cmd(e).yes
  /\ Go(e, "AskRestart", "Reprobe")
  /\ UNCHANGED <<worldVars, run, catalogVars, hostVars, master,
                 trouble, overlapped>>

(* `fpk server stop` on a host, with what is installed there. *)
StopThere(n) ==
  /\ installed[n] # 0
  /\ serving' = [serving EXCEPT ![n] = 0]

Restart(e, n) ==
  /\ pc[e] = "Restart"
  /\ Reach(Cmd(e).target, n)
  /\ \/ /\ StopThere(n)
        /\ Go(e, "Restart", "Reprobe")
        /\ UNCHANGED run
     \/ installed[n] = 0 /\ End(e) /\ UNCHANGED serving
  /\ UNCHANGED <<worldVars, catalogVars, script, installed, recorded, src, cargo,
                 marred, trouble, overlapped>>

Reprobe(e, n) ==
  /\ pc[e] = "Reprobe"
  /\ Reach(Cmd(e).target, n)
  /\ \/ ~Matches(e, n) /\ End(e)
     \/ /\ Matches(e, n)
        /\ Go(e, "Reprobe", "StartServer")
        /\ Note(e, "node", n)
  /\ UNCHANGED <<worldVars, catalogVars, hostVars, trouble, overlapped>>

(* Mutant of Starts: a server that runs already is an error. *)
StartsAfresh(n) == installed[n] # 0 /\ serving[n] = 0

(* `fpk server start` on a host: attach_or_start(), whose handshake a server *)
(* of another protocol refuses.                                             *)
Starts(n) ==
  /\ installed[n] # 0
  /\ serving[n] # 0 => Proto[serving[n]] = Proto[installed[n]]
StartThere(n) ==
  serving' = IF installed[n] # 0 /\ serving[n] = 0
             THEN [serving EXCEPT ![n] = installed[n]] ELSE serving

Entry(c) == [label |-> c.label, ssh |-> c.target]

StartServer(e, n) ==
  /\ pc[e] = "StartServer"
  /\ Reach(Cmd(e).target, n)
  /\ StartThere(n)
  /\ \/ ~Starts(n) /\ End(e)
     \/ /\ Starts(n) /\ Cmd(e).label \in Labels(run[e].saved)
        /\ End(e)
     \/ /\ Starts(n) /\ Cmd(e).label \notin Labels(run[e].saved)
        /\ Go(e, "StartServer", "Open")
        /\ run' = [run EXCEPT ![e] =
                     [@ EXCEPT !.saved = Append(run[e].saved, Entry(Cmd(e))),
                               !.node = n]]
  /\ UNCHANGED <<worldVars, catalogVars, script, installed, recorded, src, cargo,
                 marred, trouble, overlapped>>

-----------------------------------------------------------------------------
(* machines::save().  fs::write() opens and truncates, then writes; an editor *)
(* that opens what another has open writes the same file.                    *)
FreeInode ==
  CHOOSE i \in Inode : i \notin {run[f].fd : f \in Editor} \cup {file, partial}

(* Mutant of Open: the catalog is written in place. *)
OpenInPlace(e) ==
  /\ Go(e, "Open", "Write")
  /\ LET i == IF file = NoFile THEN FreeInode ELSE file
     IN  /\ file' = i
         /\ content' = [content EXCEPT ![i] = Text(<<>>)]
         /\ Note(e, "fd", i)
  /\ UNCHANGED <<worldVars, partial, hostVars, master, trouble, overlapped>>

Open(e) ==
  /\ Go(e, "Open", "Write")
  /\ LET i == IF partial = NoFile THEN FreeInode ELSE partial
     IN  /\ partial' = i
         /\ content' = [content EXCEPT ![i] = Text(<<>>)]
         /\ Note(e, "fd", i)
  /\ UNCHANGED <<worldVars, file, hostVars, master, trouble,
                 overlapped>>

(* Written from its start: what was longer stays behind the shorter. *)
Write(e) ==
  /\ Go(e, "Write", "Rename")
  /\ content' = [content EXCEPT ![run[e].fd] =
       IF @.machines # <<>> /\ Len(@.machines) > Len(run[e].saved)
       THEN Torn ELSE Text(run[e].saved)]
  /\ Note(e, "fd", NoFile)
  /\ UNCHANGED <<worldVars, file, partial, hostVars, master, trouble,
                 overlapped>>

Rename(e) ==
  /\ pc[e] = "Rename"
  /\ \/ partial = NoFile /\ End(e) /\ UNCHANGED catalogVars
     \/ /\ partial # NoFile
        /\ file' = partial /\ partial' = NoFile
        /\ UNCHANGED content
        /\ End(e)
  /\ UNCHANGED <<worldVars, hostVars, master, trouble, overlapped>>

-----------------------------------------------------------------------------
(* `machine login`: any command over the shared connection, which may ask. *)
Login(e, n) ==
  /\ pc[e] = "Login"
  /\ Reach(Cmd(e).target, n)
  /\ End(e)
  /\ UNCHANGED <<worldVars, catalogVars, hostVars, trouble, overlapped>>

(* ssh_for(): the machine that a label names. *)
Named(label) ==
  {Catalog.machines[i].ssh : i \in {j \in DOMAIN Catalog.machines :
                                      Catalog.machines[j].label = label}}
LookUp(e) ==
  /\ pc[e] = "LookUp"
  /\ \/ /\ Named(Cmd(e).label) # {}
        /\ Go(e, "LookUp", "Remote")
        /\ run' = [run EXCEPT ![e].cmd.target = CHOOSE t \in Named(Cmd(e).label) : TRUE]
     \/ Named(Cmd(e).label) = {} /\ End(e)
  /\ UNCHANGED <<worldVars, catalogVars, hostVars, master, trouble,
                 overlapped>>

(* `fpk --machine <label> server start|stop` exits as the host's fpk did. *)
RunRemote(e, n) ==
  /\ pc[e] = "Remote"
  /\ Reach(Cmd(e).target, n)
  /\ \/ /\ Cmd(e).op = "start" /\ StartThere(n)
        /\ End(e)
     \/ /\ Cmd(e).op = "stop"
        /\ \/ StopThere(n) /\ End(e)
           \/ installed[n] = 0 /\ End(e) /\ UNCHANGED serving
  /\ UNCHANGED <<worldVars, catalogVars, script, installed, recorded, src, cargo,
                 marred, trouble, overlapped>>

-----------------------------------------------------------------------------
(* The scripts, each step of one on its host.                               *)
(* Installs that have begun on a host: an editor's, from its upload to the   *)
(* end of its script, or an orphan's.                                       *)
InstallsOn(n) ==
  {e \in Editor : run[e].node = n /\ pc[e] \in {"Uploading", "Install", "Installing"}}
  \cup {o \in {Orphan} : script[o].node = n}
BuildOf(s) == IF s = Orphan THEN script[s].build ELSE run[s].wanted

(* A second install on the host, or a tree that changes as it is read, mars   *)
(* what a hash is recorded for.                                             *)
Mar(s, spoiled) ==
  LET n == script[s].node
      others == InstallsOn(n) \ {s}
  IN  marred' = [marred EXCEPT ![n] =
        @ \cup {BuildOf(o) : o \in others}
          \cup IF spoiled \/ others # {} THEN {script[s].build} ELSE {}]

Step(s, from, to) ==
  script[s].at = from /\ script' = [script EXCEPT ![s].at = to]

(* Mutant of Clear: the source goes over what was there. *)
KeepOldSource(s) ==
  /\ Step(s, "Clear", "Extract")
  /\ Mar(s, FALSE)
  /\ UNCHANGED <<installed, recorded, src, cargo, serving>>

Clear(s) ==
  LET n == script[s].node IN
  /\ Step(s, "Clear", "Extract")
  /\ src' = [src EXCEPT ![n] = {}]
  /\ Mar(s, FALSE)
  /\ UNCHANGED <<installed, recorded, cargo, serving>>

(* The archive is read from the tree while it is sent; when the editor is    *)
(* gone there is no more of it.                                             *)
Extract(s) ==
  LET n == script[s].node IN
  /\ s \in Editor
  /\ \/ /\ Step(s, "Extract", "Rest")
        /\ src' = [src EXCEPT ![n] = @ \cup {Half, current}]
     \/ /\ Step(s, "Rest", "Ended")
        /\ src' = [src EXCEPT ![n] = (@ \ {Half}) \cup {current}]
  /\ Mar(s, current # script[s].build)
  /\ UNCHANGED <<installed, recorded, cargo, serving>>

Built(n) == IF Cardinality(src[n]) = 1 THEN CHOOSE b \in src[n] : TRUE ELSE Mixed

(* cargo install: half a tree may or may not compile. *)
CargoInstall(s) ==
  LET n == script[s].node IN
  /\ \/ /\ Step(s, "Cargo", "Copy")
        /\ src[n] # {}
        /\ cargo' = [cargo EXCEPT ![n] = Built(n)]
     \/ /\ Step(s, "Cargo", "Failed")
        /\ src[n] = {} \/ Half \in src[n]
        /\ UNCHANGED cargo
  /\ Mar(s, FALSE)
  /\ UNCHANGED <<installed, recorded, src, serving>>

(* A release's asset, of the version asked for: the checksum says so. *)
Fetch(s) ==
  /\ script[s].at = "Fetch"
  /\ script' = [script EXCEPT ![s] = [@ EXCEPT !.at = "Move", !.holds = script[s].build]]
  /\ UNCHANGED <<installed, recorded, src, cargo, serving, marred>>

(* cp into a partial file named for this process. *)
Copy(s) ==
  /\ script[s].at = "Copy"
  /\ script' = [script EXCEPT ![s] =
                  [@ EXCEPT !.at = "Move", !.holds = cargo[script[s].node]]]
  /\ Mar(s, FALSE)
  /\ UNCHANGED <<installed, recorded, src, cargo, serving>>

Move(s) ==
  /\ Step(s, "Move", "Record")
  /\ installed' = [installed EXCEPT ![script[s].node] = script[s].holds]
  /\ Mar(s, FALSE)
  /\ UNCHANGED <<recorded, src, cargo, serving>>

(* The hash beside the binary: written by a dev install, removed by the other. *)
Record(s) ==
  /\ Step(s, "Record", "Ended")
  /\ recorded' = [recorded EXCEPT ![script[s].node] =
                    IF dev THEN script[s].build ELSE 0]
  /\ Mar(s, FALSE)
  /\ UNCHANGED <<installed, src, cargo, serving>>

Script(s) ==
  /\ Clear(s) \/ Extract(s) \/ CargoInstall(s) \/ Fetch(s) \/ Copy(s) \/ Move(s)
     \/ Record(s)
  /\ UNCHANGED <<worldVars, pc, run, catalogVars, master, trouble,
                 overlapped>>

(* A script whose editor is gone may go on, or be ended wherever it stands. *)
OrphanEnds ==
  /\ script[Orphan].at # "None"
  /\ script' = [script EXCEPT ![Orphan] = Idle]
  /\ UNCHANGED <<worldVars, pc, run, catalogVars, installed, recorded,
                 src, cargo, serving, marred, master, trouble, overlapped>>

(* What a script runs fails, or the connection it runs over is lost. *)
ScriptFails(e) ==
  /\ script[e].at \notin {"None", "Ended", "Failed"}
  /\ Trouble
  /\ script' = [script EXCEPT ![e].at = "Failed"]
  /\ UNCHANGED <<worldVars, pc, run, catalogVars, installed, recorded,
                 src, cargo, serving, marred, master, overlapped>>

(* An editor is killed; its script is left alone on the host. *)
Crash(e) ==
  /\ pc[e] # "Idle" /\ Trouble
  /\ script[Orphan].at = "None"
  /\ script' = [script EXCEPT ![e] = Idle, ![Orphan] = script[e]]
  /\ End(e)
  /\ UNCHANGED <<worldVars, catalogVars, installed, recorded, src, cargo, serving,
                 marred, master, overlapped>>

-----------------------------------------------------------------------------
(* The environment: the tree is edited or the client upgraded, and a shared  *)
(* connection is lost.                                                      *)
Edit ==
  /\ current + 1 \in Build
  /\ current' = current + 1
  /\ UNCHANGED <<dev, pc, run, catalogVars, hostVars, master,
                 trouble, overlapped>>

(* The shared connection ends, or, where the user's own SSH configuration      *)
(* shares none, a name leads to another host than it did: the commands that   *)
(* follow may reach another host than those before.                          *)
MasterLost(t) ==
  /\ master[t] # NoNode /\ Trouble
  /\ master' = [master EXCEPT ![t] = NoNode]
  /\ marred' = [n \in Node |-> marred[n] \cup
                  {run[e].wanted : e \in {f \in Editor : Cmd(f).target = t}}]
  /\ UNCHANGED <<worldVars, pc, run, catalogVars, script, installed,
                 recorded, src, cargo, serving, overlapped>>

(* What an editor does once it has started. *)
EditorStep(e) ==
  \/ Load(e) \/ Agree(e) \/ Decline(e) \/ Answered(e) \/ AgreeRestart(e)
  \/ DeclineRestart(e) \/ Open(e) \/ Write(e) \/ Rename(e) \/ LookUp(e)
  \/ \E n \in Node :
       \/ Probe(e, n) \/ SendUpload(e, n) \/ SendInstall(e, n) \/ Restart(e, n)
       \/ Reprobe(e, n) \/ StartServer(e, n) \/ Login(e, n) \/ RunRemote(e, n)

Next ==
  \/ \E e \in Editor :
       \/ \E c \in Command[e] : Start(e, c)
       \/ EditorStep(e) \/ Fails(e) \/ ScriptFails(e) \/ Crash(e)
  \/ \E s \in Slot : Script(s)
  \/ OrphanEnds
  \/ \E t \in Target : MasterLost(t)
  \/ Edit

Spec == Init /\ [][Next]_vars

(* What runs ends, and one user asks again for the machines to be saved. *)
Asked == {c \in Command[Persistent] : c.op = "add" /\ c.yes}
Fairness ==
  /\ \A e \in Editor : WF_vars(EditorStep(e)) /\ WF_vars(Script(e))
  /\ WF_vars(OrphanEnds \/ Script(Orphan))
  /\ \A c \in Asked : SF_vars(Start(Persistent, c))
FairSpec == Spec /\ Fairness

-----------------------------------------------------------------------------
(* With one editor at a time the catalog is always whole, through any crash, *)
(* and only ever gains the machine of an `add` that found its host matching  *)
(* and started a server there, or loses the one that a `remove` names.       *)
CatalogHolds ==
  [][~overlapped' =>
       /\ Catalog'.ok
       /\ \/ Catalog' = Catalog
          \/ \E e \in Editor :
               /\ pc[e] = "Rename"
               /\ \/ /\ Cmd(e).op = "add" /\ installed[run[e].node] # 0
                     /\ Catalog'.machines = Append(Catalog.machines, Entry(Cmd(e)))
                  \/ /\ Cmd(e).op = "remove"
                     /\ Catalog'.machines = Without(Catalog.machines, Cmd(e).label)]_vars

(* An `add` that finds its host up to date with the newest build is right,   *)
(* however installs were cut off before: a hash is recorded only after what  *)
(* it is the hash of, and one shared connection keeps an install on one host. *)
Matched(e) == pc[e] \in {"Probe", "Reprobe"} /\ pc'[e] = "StartServer"
MatchIsBuilt ==
  [][\A e \in Editor :
       LET n == run'[e].node IN
       (Matched(e) /\ run[e].wanted = current /\ run[e].wanted \notin marred[n])
         => installed[n] = current]_vars

(* Whatever was cut off before, a user who goes on asking for a machine gets  *)
(* the newest build there, and the machine saved: unless a server of another  *)
(* protocol was left running beside a newer binary, which `add` then neither  *)
(* attaches to nor stops.                                                    *)
Healed ==
  \E c \in Asked : \E n \in Node :
    /\ \E i \in DOMAIN Catalog.machines : Catalog.machines[i] = Entry(c)
    /\ installed[n] = current \/ current \in marred[n]
LeftRunning ==
  \E n \in Node :
    installed[n] # 0 /\ serving[n] # 0 /\ Proto[serving[n]] # Proto[installed[n]]
HealsByRepeating == ([]~overlapped /\ <>[]~LeftRunning) => <>Healed
=============================================================================
