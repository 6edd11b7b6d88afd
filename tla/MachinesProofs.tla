---------------------------- MODULE MachinesProofs ----------------------------
(***************************************************************************)
(* The catalog of machines, for any number of editors, hosts, targets,      *)
(* builds and commands, and any amount of trouble.                          *)
(***************************************************************************)
EXTENDS Machines, FiniteSetTheorems, TLAPS

(***************************************************************************)
(* What holds whether or not two editors meet.                              *)
(***************************************************************************)
Outside == {"Idle", "Load", "Login", "LookUp", "Remote"}
Adding == {"Probe", "Ask", "Upload", "Uploading", "Install", "Installing",
           "AskRestart", "Restart", "Reprobe", "StartServer"}
Saving == {"Open", "Write", "Rename"}
Stage == {"None", "Clear", "Extract", "Rest", "Cargo", "Copy", "Fetch", "Move",
          "Record", "Ended", "Failed"}

Fields(r) == [cmd |-> r.cmd, mine |-> r.mine, wanted |-> r.wanted, saved |-> r.saved,
              running |-> r.running, node |-> r.node, fd |-> r.fd]

Types ==
  /\ pc \in [Editor -> Outside \cup Adding \cup Saving]
  /\ run = [e \in Editor |-> Fields(run[e])]
  /\ overlapped \in BOOLEAN
  /\ current \in Build
  /\ content = [i \in Inode |-> content[i]]
  /\ \A e \in Editor : pc[e] # "Write" => run[e].fd = NoFile

HostTypes ==
  /\ script \in [Slot -> [at : Stage, node : Node \cup {NoNode}, build : Nat, holds : Nat]]
  /\ installed \in [Node -> Nat] /\ cargo \in [Node -> Nat]
  /\ src \in [Node -> SUBSET (0..Len(Proto))]

(* An install is of a build, and so is what it leaves on a host at each step. *)
AddsReal ==
  /\ \A e \in Editor : pc[e] = "Load" => run[e].mine \in Nat \ {0}
  /\ \A e \in Editor : pc[e] \in Adding =>
       Cmd(e).op = "add" /\ run[e].wanted \in Nat \ {0}

HostsReal ==
  /\ \A s \in Slot : script[s].at # "None" =>
       script[s].node \in Node /\ script[s].build # 0
  /\ \A s \in Slot : script[s].at = "Move" => script[s].holds # 0
  /\ \A s \in Slot : script[s].at = "Copy" => cargo[script[s].node] # 0
  /\ \A n \in Node : src[n] # {} => \E b \in src[n] : b # 0

BuildsReal == AddsReal /\ HostsReal

(***************************************************************************)
(* What holds while no two editors have met.                                *)
(***************************************************************************)
Alone ==
  \A e, f \in Editor : e # f => pc[e] \in Outside \/ pc[f] \in Outside

(* What an editor is about to save is the catalog as it is, but for its change. *)
Change(e) ==
  \/ /\ Cmd(e).op = "add"
     /\ run[e].saved = Append(Catalog.machines, Entry(Cmd(e)))
     /\ run[e].node \in Node /\ installed[run[e].node] # 0
  \/ /\ Cmd(e).op = "remove"
     /\ run[e].saved = Without(Catalog.machines, Cmd(e).label)

Fits(e) ==
  /\ pc[e] \in Adding => run[e].saved = Catalog.machines
  /\ pc[e] \in Saving => Change(e)
  /\ pc[e] = "Write" => /\ run[e].fd = partial /\ partial # NoFile
                        /\ content[partial] = Text(<<>>)
  /\ pc[e] = "Rename" => /\ partial # NoFile
                         /\ content[partial] = Text(run[e].saved)

Sound ==
  /\ Alone
  /\ Catalog.ok
  /\ file \in Inode \cup {NoFile} /\ partial \in Inode \cup {NoFile}
  /\ file # NoFile => file # partial
  /\ \A e \in Editor : Fits(e)

CatalogSound == ~overlapped => Sound

CatalogInv == Types /\ HostTypes /\ BuildsReal /\ CatalogSound

-----------------------------------------------------------------------------
(* What a step leaves in an editor's run. *)
LEMMA AfterNote ==
  ASSUME Types, NEW e \in Editor, NEW v
  PROVE  /\ Note(e, "fd", v) =>
              run' = [run EXCEPT ![e] = [Fields(run[e]) EXCEPT !.fd = v]]
         /\ Note(e, "node", v) =>
              run' = [run EXCEPT ![e] = [Fields(run[e]) EXCEPT !.node = v]]
         /\ Note(e, "saved", v) =>
              run' = [run EXCEPT ![e] = [Fields(run[e]) EXCEPT !.saved = v]]
<1>1. run[e] = Fields(run[e])
  BY DEF Types
<1>2. QED
  BY <1>1 DEF Note, Fields

LEMMA NothingIsRun == Nothing = Fields(Nothing) /\ Nothing.fd = NoFile
  BY DEF Nothing, NoRun, Fields

LEMMA InitInv == Init => CatalogInv
<1> SUFFICES ASSUME Init PROVE CatalogInv
  OBVIOUS
<1>1. Nothing = Fields(Nothing) /\ Nothing.fd = NoFile
  BY NothingIsRun
<1>2. Types
  <2>1. run = [e \in Editor |-> Fields(run[e])]
    BY <1>1 DEF Init
  <2>2. content = [i \in Inode |-> content[i]]
    BY DEF Init
  <2>3. pc \in [Editor -> Outside \cup Adding \cup Saving]
    BY DEF Init, Outside
  <2>4. overlapped \in BOOLEAN
    BY Zenon DEF Init
  <2>5. current \in Build
    BY MachinesAssumption DEF Init, Build
  <2>6. \A e \in Editor : run[e].fd = NoFile
    BY <1>1 DEF Init
  <2>7. QED
    BY <2>1, <2>2, <2>3, <2>4, <2>5, <2>6 DEF Types
<1>3. HostTypes
  BY DEF Init, HostTypes, Idle, Stage
<1>4. BuildsReal
  BY DEF Init, BuildsReal, AddsReal, HostsReal, Adding, Idle
<1>5. CatalogSound
  BY <1>1 DEF Init, CatalogSound, Sound, Alone, Outside, Fits, Adding, Saving, Catalog, Text
<1>6. QED
  BY <1>2, <1>3, <1>4, <1>5 DEF CatalogInv

(* A step of one editor writes its place and its run, and no other's. *)
EditorActs(e) ==
  \/ \E c \in Command[e] : Start(e, c)
  \/ EditorStep(e) \/ Fails(e) \/ Crash(e)

OnlyRunOf(e) ==
  /\ run' = [run EXCEPT ![e] = run'[e]]
  /\ run'[e] = Fields(run'[e])

LEMMA EndKeeps ==
  ASSUME Types, NEW e \in Editor, End(e)
  PROVE  /\ OnlyRunOf(e) /\ run'[e] = Nothing
         /\ pc' = [pc EXCEPT ![e] = "Idle"]
<1>1. run' = [run EXCEPT ![e] = Nothing] /\ run'[e] = Nothing
  BY DEF End, Types
<1>2. QED
  BY <1>1, NothingIsRun DEF End, OnlyRunOf, Go

LEMMA NoteKeeps ==
  ASSUME Types, NEW e \in Editor, NEW v,
         Note(e, "fd", v) \/ Note(e, "node", v) \/ Note(e, "saved", v)
  PROVE  OnlyRunOf(e)
<1>1. \/ run' = [run EXCEPT ![e] = [Fields(run[e]) EXCEPT !.fd = v]]
      \/ run' = [run EXCEPT ![e] = [Fields(run[e]) EXCEPT !.node = v]]
      \/ run' = [run EXCEPT ![e] = [Fields(run[e]) EXCEPT !.saved = v]]
  BY AfterNote
<1>2. \/ run'[e] = [Fields(run[e]) EXCEPT !.fd = v]
      \/ run'[e] = [Fields(run[e]) EXCEPT !.node = v]
      \/ run'[e] = [Fields(run[e]) EXCEPT !.saved = v]
  BY <1>1 DEF Types
<1>3. run'[e] = Fields(run'[e])
  BY <1>2 DEF Fields
<1>4. QED
  BY <1>1, <1>3 DEF OnlyRunOf, Types

LEMMA UnchangedRun ==
  ASSUME Types, NEW e \in Editor, UNCHANGED run
  PROVE  OnlyRunOf(e)
  BY DEF OnlyRunOf, Types

LEMMA EditorKeeps ==
  ASSUME Types, NEW e \in Editor, EditorActs(e)
  PROVE  OnlyRunOf(e) /\ pc' = [pc EXCEPT ![e] = pc'[e]]
         /\ pc'[e] \in Outside \cup Adding \cup Saving
<1> USE DEF Outside, Adding, Saving
<1>0. pc \in [Editor -> Outside \cup Adding \cup Saving]
  BY DEF Types
<1>1. ASSUME NEW c \in Command[e], Start(e, c) PROVE OnlyRunOf(e)
  <2>1. run'[e] = [NoRun(c) EXCEPT !.mine = current]
    BY <1>1 DEF Start, Types
  <2>2. run'[e] = Fields(run'[e])
    BY <2>1 DEF NoRun, Fields
  <2>3. QED
    BY <1>1, <2>1, <2>2 DEF Start, OnlyRunOf
<1>2. ASSUME Load(e) PROVE OnlyRunOf(e)
  <2>1. CASE End(e)
    BY <2>1, EndKeeps
  <2>2. CASE Note(e, "saved", Without(Catalog.machines, Cmd(e).label))
    BY <2>2, NoteKeeps
  <2>3. CASE run' = [run EXCEPT ![e] =
                       [@ EXCEPT !.saved = Catalog.machines, !.wanted = Wants(e)]]
    <3>1. run'[e] = [Fields(run[e]) EXCEPT !.saved = Catalog.machines, !.wanted = Wants(e)]
      BY <2>3 DEF Types
    <3>2. run'[e] = Fields(run'[e])
      BY <3>1 DEF Fields
    <3>3. QED
      BY <2>3, <3>1, <3>2 DEF OnlyRunOf
  <2>4. QED
    BY <1>2, <2>1, <2>2, <2>3 DEF Load
<1>3. ASSUME LookUp(e) PROVE OnlyRunOf(e)
  <2>1. CASE End(e)
    BY <2>1, EndKeeps
  <2>2. CASE ~End(e)
    <3>1. PICK t : run' = [run EXCEPT ![e].cmd.target = t]
      BY <1>3, <2>2 DEF LookUp
    <3>2. run'[e] = [Fields(run[e]) EXCEPT !.cmd.target = t]
      BY <3>1 DEF Types
    <3>3. run'[e] = Fields(run'[e])
      BY <3>2 DEF Fields
    <3>4. QED
      BY <3>1, <3>3 DEF OnlyRunOf, Types
  <2>3. QED
    BY <2>1, <2>2
<1>4. ASSUME NEW n \in Node, Probe(e, n) PROVE OnlyRunOf(e)
  <2>1. run'[e] = [Fields(run[e]) EXCEPT !.node = n, !.running = Report(n).running]
    BY <1>4 DEF Probe, Types
  <2>2. run'[e] = Fields(run'[e])
    BY <2>1 DEF Fields
  <2>3. QED
    BY <1>4, <2>1, <2>2 DEF Probe, OnlyRunOf
<1>5. ASSUME NEW n \in Node, StartServer(e, n) PROVE OnlyRunOf(e)
  <2>1. CASE End(e)
    BY <2>1, EndKeeps
  <2>2. CASE ~End(e)
    <3>1. run' = [run EXCEPT ![e] =
                    [@ EXCEPT !.saved = Append(run[e].saved, Entry(Cmd(e))), !.node = n]]
      BY <1>5, <2>2 DEF StartServer
    <3>2. PICK v : run' = [run EXCEPT ![e] = [@ EXCEPT !.saved = v, !.node = n]]
      BY <3>1
    <3>3. run'[e] = [Fields(run[e]) EXCEPT !.saved = v, !.node = n]
      BY <3>2 DEF Types
    <3>4. run'[e] = Fields(run'[e])
      BY <3>3 DEF Fields
    <3>5. QED
      BY <3>2, <3>3, <3>4 DEF OnlyRunOf
  <2>3. QED
    BY <2>1, <2>2
<1>6. ASSUME NEW n \in Node,
             SendUpload(e, n) \/ SendInstall(e, n) \/ Restart(e, n) \/ Reprobe(e, n)
               \/ Login(e, n) \/ RunRemote(e, n)
      PROVE  OnlyRunOf(e)
  <2>1. End(e) \/ Note(e, "node", n) \/ UNCHANGED run
    BY <1>6 DEF SendUpload, SendInstall, Send, Restart, Reprobe, Login, RunRemote
  <2>2. QED
    BY <2>1, EndKeeps, NoteKeeps, UnchangedRun
<1>7. ASSUME Open(e) \/ Write(e) PROVE OnlyRunOf(e)
  <2>1. PICK i : Note(e, "fd", i)
    BY <1>7 DEF Open, Write
  <2>2. QED
    BY <2>1, NoteKeeps
<1>8. ASSUME Agree(e) \/ Decline(e) \/ Answered(e) \/ AgreeRestart(e) \/ DeclineRestart(e)
               \/ Rename(e) \/ Fails(e) \/ Crash(e)
      PROVE  OnlyRunOf(e)
  <2>1. End(e) \/ UNCHANGED run
    BY <1>8 DEF Agree, Decline, Answered, AgreeRestart, DeclineRestart, Rename, Fails, Crash
  <2>2. QED
    BY <2>1, EndKeeps, UnchangedRun
<1>9. OnlyRunOf(e)
  BY <1>1, <1>2, <1>3, <1>4, <1>5, <1>6, <1>7, <1>8 DEF EditorActs, EditorStep
<1>10. PICK p \in Outside \cup Adding \cup Saving : pc' = [pc EXCEPT ![e] = p]
  BY DEF EditorActs, EditorStep, Go, End, Start, Load, Agree, Decline, Answered,
         AgreeRestart, DeclineRestart, Open, Write, Rename, LookUp, Probe, SendUpload,
         SendInstall, Restart, Reprobe, StartServer, Login, RunRemote, Fails, Crash
<1>11. QED
  BY <1>0, <1>9, <1>10

(* What is not a step of an editor that acts. *)
OthersAct ==
  \/ \E e \in Editor : ScriptFails(e)
  \/ \E s \in Slot : Script(s)
  \/ OrphanEnds
  \/ \E t \in Target : MasterLost(t)
  \/ Edit

LEMMA NextActs == Next <=> (\E e \in Editor : EditorActs(e)) \/ OthersAct
  BY DEF Next, EditorActs, OthersAct

LEMMA OthersKeep ==
  ASSUME OthersAct
  PROVE  UNCHANGED <<pc, run, catalogVars, overlapped>>
  BY DEF OthersAct, ScriptFails, Script, OrphanEnds, MasterLost, Edit, catalogVars

(* What only some of an editor's steps write. *)
LEMMA EditorFrame ==
  ASSUME NEW e \in Editor, EditorActs(e)
  PROVE  /\ UNCHANGED <<dev, current, installed, cargo, src>>
         /\ Load(e) \/ UNCHANGED overlapped
         /\ Open(e) \/ Write(e) \/ Rename(e) \/ UNCHANGED catalogVars
         /\ Open(e) \/ Write(e) \/ UNCHANGED content
<1> USE DEF catalogVars, hostVars, worldVars
<1>1. ASSUME NEW c \in Command[e], Start(e, c)
      PROVE  UNCHANGED <<dev, current, installed, cargo, src, catalogVars, overlapped>>
  BY <1>1 DEF Start
<1>2. ASSUME NEW n \in Node,
             Probe(e, n) \/ SendUpload(e, n) \/ SendInstall(e, n) \/ Restart(e, n)
               \/ Reprobe(e, n) \/ StartServer(e, n) \/ Login(e, n) \/ RunRemote(e, n)
      PROVE  UNCHANGED <<dev, current, installed, cargo, src, catalogVars, overlapped>>
  BY <1>2 DEF Probe, SendUpload, SendInstall, Restart, Reprobe, StartServer, Login, RunRemote
<1>3. ASSUME Agree(e) \/ Decline(e) \/ Answered(e) \/ AgreeRestart(e)
               \/ DeclineRestart(e) \/ LookUp(e) \/ Fails(e) \/ Crash(e)
      PROVE  UNCHANGED <<dev, current, installed, cargo, src, catalogVars, overlapped>>
  BY <1>3 DEF Agree, Decline, Answered, AgreeRestart, DeclineRestart, LookUp, Fails, Crash
<1>4. ASSUME Load(e) PROVE UNCHANGED <<dev, current, installed, cargo, src, catalogVars>>
  BY <1>4 DEF Load
<1>5. ASSUME Open(e) \/ Write(e)
      PROVE  UNCHANGED <<dev, current, installed, cargo, src, overlapped>>
  BY <1>5 DEF Open, Write
<1>6. ASSUME Rename(e)
      PROVE  UNCHANGED <<dev, current, installed, cargo, src, overlapped, content>>
  BY <1>6 DEF Rename
<1>7. QED
  BY <1>1, <1>2, <1>3, <1>4, <1>5, <1>6 DEF EditorActs, EditorStep

LEMMA OthersFrame ==
  ASSUME OthersAct
  PROVE  UNCHANGED dev /\ (UNCHANGED current \/ Edit)
  BY DEF OthersAct, ScriptFails, Script, OrphanEnds, MasterLost, Edit, worldVars

-----------------------------------------------------------------------------
(* How an editor comes to where it is, and what it holds there. *)
SameRun(e) ==
  /\ run'[e].cmd = run[e].cmd /\ run'[e].wanted = run[e].wanted
  /\ run'[e].saved = run[e].saved /\ run'[e].fd = run[e].fd

LoadedToAdd(e) ==
  /\ pc[e] = "Load" /\ pc'[e] = "Probe" /\ Cmd(e).op = "add"
  /\ overlapped' = (overlapped \/ Contended(e))
  /\ run'[e] = [Fields(run[e]) EXCEPT !.saved = Catalog.machines, !.wanted = Wants(e)]

LoadedToRemove(e) ==
  /\ pc[e] = "Load" /\ pc'[e] = "Open" /\ Cmd(e).op = "remove"
  /\ overlapped' = (overlapped \/ Contended(e))
  /\ run'[e] = [Fields(run[e]) EXCEPT !.saved = Without(Catalog.machines, Cmd(e).label)]

Added(e, n) ==
  /\ pc[e] = "StartServer" /\ pc'[e] = "Open"
  /\ installed[n] # 0
  /\ run'[e] = [Fields(run[e]) EXCEPT !.saved = Append(run[e].saved, Entry(Cmd(e))), !.node = n]

(* Where the steps of an editor lead: outside of the catalog, on through an  *)
(* `add`, or on through the saving of a change.                             *)
Leads(e) ==
  \/ pc'[e] \in Outside \ {"Load"} /\ run'[e].fd = NoFile
  \/ pc'[e] = "Load" /\ run'[e].mine = current /\ run'[e].fd = NoFile
  \/ pc[e] \in Adding /\ pc'[e] \in Adding /\ SameRun(e)
  \/ LoadedToAdd(e) \/ LoadedToRemove(e)
  \/ \E n \in Node : Added(e, n)
  \/ Open(e) \/ Write(e)

LEMMA EndLeads ==
  ASSUME Types, NEW e \in Editor, End(e)
  PROVE  Leads(e)
<1>1. pc'[e] = "Idle" /\ run'[e].fd = NoFile
  BY EndKeeps, NothingIsRun DEF Types
<1>2. QED
  BY <1>1 DEF Leads, Outside

LEMMA NodeNoted ==
  ASSUME Types, NEW e \in Editor, NEW n \in Node, Note(e, "node", n) \/ UNCHANGED run
  PROVE  SameRun(e)
<1>1. CASE UNCHANGED run
  BY <1>1 DEF SameRun
<1>2. CASE Note(e, "node", n)
  <2>1. run'[e] = [Fields(run[e]) EXCEPT !.node = n]
    BY <1>2, AfterNote DEF Types
  <2>2. QED
    BY <2>1 DEF SameRun, Fields
<1>3. QED
  BY <1>1, <1>2

LEMMA EditorLeads ==
  ASSUME Types, NEW e \in Editor, EditorActs(e)
  PROVE  Leads(e)
<1> USE DEF Outside, Adding
<1>0. pc \in [Editor -> Outside \cup Adding \cup Saving]
  BY DEF Types
<1>1. ASSUME NEW c \in Command[e], Start(e, c) PROVE Leads(e)
  <2>1. run'[e] = [NoRun(c) EXCEPT !.mine = current]
    BY <1>1 DEF Start, Types
  <2>2. run'[e].mine = current /\ run'[e].fd = NoFile
    BY <2>1 DEF NoRun
  <2>3. pc'[e] \in {"Login", "LookUp", "Load"}
    BY <1>0, <1>1 DEF Start, Go
  <2>4. QED
    BY <2>2, <2>3 DEF Leads
<1>2. ASSUME Load(e) PROVE Leads(e)
  <2>1. CASE End(e)
    BY <2>1, EndLeads
  <2>2. CASE /\ Cmd(e).op = "remove" /\ Go(e, "Load", "Open")
             /\ Note(e, "saved", Without(Catalog.machines, Cmd(e).label))
    <3>1. run'[e] = [Fields(run[e]) EXCEPT !.saved = Without(Catalog.machines, Cmd(e).label)]
      BY <2>2, AfterNote DEF Types
    <3>2. LoadedToRemove(e)
      BY <1>0, <1>2, <2>2, <3>1 DEF LoadedToRemove, Load, Go
    <3>3. QED
      BY <3>2 DEF Leads
  <2>3. CASE /\ Cmd(e).op = "add" /\ Go(e, "Load", "Probe")
             /\ run' = [run EXCEPT ![e] =
                          [@ EXCEPT !.saved = Catalog.machines, !.wanted = Wants(e)]]
    <3>1. run'[e] = [Fields(run[e]) EXCEPT !.saved = Catalog.machines, !.wanted = Wants(e)]
      BY <2>3 DEF Types
    <3>2. LoadedToAdd(e)
      BY <1>0, <1>2, <2>3, <3>1 DEF LoadedToAdd, Load, Go
    <3>3. QED
      BY <3>2 DEF Leads
  <2>4. QED
    BY <1>2, <2>1, <2>2, <2>3 DEF Load
<1>3. ASSUME LookUp(e) PROVE Leads(e)
  <2>1. CASE End(e)
    BY <2>1, EndLeads
  <2>2. CASE ~End(e)
    <3>1. PICK t : run' = [run EXCEPT ![e].cmd.target = t]
      BY <1>3, <2>2 DEF LookUp
    <3>2. run'[e] = [Fields(run[e]) EXCEPT !.cmd.target = t]
      BY <3>1 DEF Types
    <3>3. run'[e].fd = run[e].fd
      BY <3>2 DEF Fields
    <3>4. pc[e] = "LookUp" /\ pc'[e] = "Remote"
      BY <1>0, <1>3, <2>2 DEF LookUp, Go
    <3>5. run[e].fd = NoFile
      BY <3>4 DEF Types
    <3>6. QED
      BY <3>3, <3>4, <3>5 DEF Leads
  <2>3. QED
    BY <2>1, <2>2
<1>4. ASSUME NEW n \in Node, Probe(e, n) PROVE Leads(e)
  <2>1. run'[e] = [Fields(run[e]) EXCEPT !.node = n, !.running = Report(n).running]
    BY <1>4 DEF Probe, Types
  <2>2. SameRun(e)
    BY <2>1 DEF Fields, SameRun
  <2>3. pc[e] = "Probe" /\ pc'[e] \in {"StartServer", "Ask"}
    BY <1>0, <1>4 DEF Probe, Go
  <2>4. QED
    BY <2>2, <2>3 DEF Leads
<1>5. ASSUME NEW n \in Node, StartServer(e, n) PROVE Leads(e)
  <2>1. CASE End(e)
    BY <2>1, EndLeads
  <2>2. CASE ~End(e)
    <3>1. /\ Starts(n) /\ Go(e, "StartServer", "Open")
          /\ run' = [run EXCEPT ![e] =
                       [@ EXCEPT !.saved = Append(run[e].saved, Entry(Cmd(e))), !.node = n]]
      BY <1>5, <2>2 DEF StartServer
    <3>2. run'[e] = [Fields(run[e]) EXCEPT !.saved = Append(run[e].saved, Entry(Cmd(e))), !.node = n]
      BY <3>1 DEF Types
    <3>3. Added(e, n)
      BY <1>0, <3>1, <3>2 DEF Added, Go, Starts
    <3>4. QED
      BY <3>3 DEF Leads
  <2>3. QED
    BY <2>1, <2>2
<1>6. ASSUME NEW n \in Node,
             SendUpload(e, n) \/ SendInstall(e, n) \/ Restart(e, n) \/ Reprobe(e, n)
      PROVE  Leads(e)
  <2>1. \/ End(e)
        \/ /\ Note(e, "node", n) \/ UNCHANGED run
           /\ pc[e] \in Adding /\ pc'[e] \in Adding
    BY <1>0, <1>6 DEF SendUpload, SendInstall, Send, Restart, Reprobe, Go
  <2>2. QED
    BY <2>1, EndLeads, NodeNoted DEF Leads
<1>7. ASSUME NEW n \in Node, Login(e, n) \/ RunRemote(e, n) PROVE Leads(e)
  <2>1. End(e)
    BY <1>7 DEF Login, RunRemote
  <2>2. QED
    BY <2>1, EndLeads
<1>8. ASSUME Agree(e) \/ Decline(e) \/ Answered(e) \/ AgreeRestart(e) \/ DeclineRestart(e)
               \/ Rename(e) \/ Fails(e) \/ Crash(e)
      PROVE  Leads(e)
  <2>1. \/ End(e)
        \/ UNCHANGED run /\ pc[e] \in Adding /\ pc'[e] \in Adding
    BY <1>0, <1>8 DEF Agree, Decline, Answered, AgreeRestart, DeclineRestart, Rename,
                      Fails, Crash, Go
  <2>2. SameRun(e) \/ End(e)
    BY <2>1 DEF SameRun
  <2>3. QED
    BY <2>1, <2>2, EndLeads DEF Leads
<1>9. QED
  BY <1>1, <1>2, <1>3, <1>4, <1>5, <1>6, <1>7, <1>8 DEF EditorActs, EditorStep, Leads

LEMMA TypesStep ==
  ASSUME Types, Next
  PROVE  Types'
<1>1. /\ pc' \in [Editor -> Outside \cup Adding \cup Saving]
      /\ run' = [e \in Editor |-> Fields(run'[e])]
  <2>1. CASE \E e \in Editor : EditorActs(e)
    <3>1. PICK e \in Editor : EditorActs(e)
      BY <2>1
    <3>2. /\ OnlyRunOf(e) /\ pc' = [pc EXCEPT ![e] = pc'[e]]
          /\ pc'[e] \in Outside \cup Adding \cup Saving
      BY <3>1, EditorKeeps
    <3>3. QED
      BY <3>2 DEF OnlyRunOf, Types
  <2>2. CASE OthersAct
    BY <2>2, OthersKeep DEF Types
  <2>3. QED
    BY <2>1, <2>2, NextActs
<1>2. overlapped' \in BOOLEAN
  <2>1. overlapped' = overlapped \/ \E e \in Editor : Load(e)
    BY EditorFrame, OthersKeep, NextActs
  <2>2. ASSUME NEW e \in Editor, Load(e) PROVE overlapped' \in BOOLEAN
    BY <2>2, Zenon DEF Load
  <2>3. QED
    BY <2>1, <2>2 DEF Types
<1>3. current' \in Build
  <2>1. current' = current \/ current' \in Build
    BY EditorFrame, OthersFrame, NextActs DEF Edit
  <2>2. QED
    BY <2>1 DEF Types
<1>4. content' = [i \in Inode |-> content'[i]]
  <2>1. UNCHANGED content \/ \E e \in Editor : Open(e) \/ Write(e)
    BY EditorFrame, OthersKeep, NextActs DEF catalogVars
  <2>2. ASSUME NEW e \in Editor, Open(e) \/ Write(e)
        PROVE  \E i, v : content' = [content EXCEPT ![i] = v]
    BY <2>2 DEF Open, Write
  <2>3. QED
    BY <2>1, <2>2 DEF Types
<1>5. \A e \in Editor : pc'[e] # "Write" => run'[e].fd = NoFile
  <2>1. ASSUME NEW e \in Editor, NEW f \in Editor, EditorActs(e), pc'[f] # "Write"
        PROVE  run'[f].fd = NoFile
    <3>1. CASE f # e
      BY <2>1, <3>1, EditorKeeps DEF OnlyRunOf, Types
    <3>2. CASE f = e
      <4>1. CASE Open(e)
        BY <2>1, <3>2, <4>1 DEF Open, Go, Types
      <4>2. CASE Write(e)
        <5>1. Note(e, "fd", NoFile)
          BY <4>2 DEF Write
        <5>2. run' = [run EXCEPT ![e] = [Fields(run[e]) EXCEPT !.fd = NoFile]]
          BY <5>1, AfterNote
        <5>3. QED
          BY <3>2, <5>2 DEF Types, Fields
      <4>3. CASE ~(Open(e) \/ Write(e))
        BY <2>1, <3>2, <4>3, EditorLeads DEF Leads, SameRun, LoadedToAdd,
             LoadedToRemove, Added, Types, Fields, Adding
      <4>4. QED
        BY <4>1, <4>2, <4>3
    <3>3. QED
      BY <3>1, <3>2
  <2>2. QED
    BY <2>1, OthersKeep, NextActs DEF Types
<1>6. QED
  BY <1>1, <1>2, <1>3, <1>4, <1>5 DEF Types

-----------------------------------------------------------------------------
(* What scripts do on their hosts. *)
LEMMA IdleTyped ==
  Idle \in [at : Stage, node : Node \cup {NoNode}, build : Nat, holds : Nat]
  BY DEF Idle, Stage

(* An editor starts a script on a host, and forgets it or leaves it behind. *)
LEMMA EditorScripts ==
  ASSUME Types, HostTypes, BuildsReal, NEW e \in Editor, EditorActs(e)
  PROVE  /\ script' \in [Slot -> [at : Stage, node : Node \cup {NoNode},
                                  build : Nat, holds : Nat]]
         /\ \A s \in Slot :
              \/ script'[s] = Idle
              \/ \E t \in Slot : script'[s] = script[t]
              \/ /\ script'[s].at \in {"Clear", "Cargo", "Fetch"}
                 /\ script'[s].node \in Node /\ script'[s].build # 0
<1> USE IdleTyped
<1>0. e \in Slot /\ Orphan \in Slot
  BY DEF Slot
<1>1. ASSUME NEW n \in Node, SendUpload(e, n) \/ SendInstall(e, n)
      PROVE  \E f \in {"Clear", "Cargo", "Fetch"} :
               script' = [script EXCEPT ![e] = [at |-> f, node |-> n,
                                                build |-> run[e].wanted, holds |-> 0]]
  BY <1>1 DEF SendUpload, SendInstall, Send
<1>2. ASSUME NEW n \in Node, SendUpload(e, n) \/ SendInstall(e, n)
      PROVE  run[e].wanted \in Nat \ {0}
  BY <1>2 DEF SendUpload, SendInstall, Go, BuildsReal, AddsReal, Adding
<1>3. CASE \E n \in Node : SendUpload(e, n) \/ SendInstall(e, n)
  <2>1. PICK n \in Node, f \in {"Clear", "Cargo", "Fetch"} :
          script' = [script EXCEPT ![e] = [at |-> f, node |-> n,
                                           build |-> run[e].wanted, holds |-> 0]]
    BY <1>1, <1>3
  <2> DEFINE sent == [at |-> f, node |-> n, build |-> run[e].wanted, holds |-> 0]
  <2>2. run[e].wanted \in Nat \ {0}
    BY <1>2, <1>3
  <2>3. /\ sent \in [at : Stage, node : Node \cup {NoNode}, build : Nat, holds : Nat]
        /\ sent.at \in {"Clear", "Cargo", "Fetch"}
        /\ sent.node \in Node /\ sent.build # 0
    BY <2>2 DEF Stage
  <2>4. script' = [script EXCEPT ![e] = sent]
    BY <2>1
  <2> HIDE DEF sent
  <2>5. QED
    BY <1>0, <2>3, <2>4 DEF HostTypes
<1>4. CASE Answered(e)
  BY <1>0, <1>4 DEF Answered, HostTypes
<1>5. CASE Crash(e)
  BY <1>0, <1>5 DEF Crash, HostTypes
<1>6. CASE UNCHANGED script
  BY <1>6 DEF HostTypes
<1>7. \/ UNCHANGED script \/ Answered(e) \/ Crash(e)
      \/ \E n \in Node : SendUpload(e, n) \/ SendInstall(e, n)
  <2> USE DEF hostVars
  <2>1. ASSUME NEW c \in Command[e], Start(e, c) PROVE UNCHANGED script
    BY <2>1 DEF Start
  <2>2. ASSUME NEW n \in Node,
               Probe(e, n) \/ Restart(e, n) \/ Reprobe(e, n) \/ StartServer(e, n)
                 \/ Login(e, n) \/ RunRemote(e, n)
        PROVE  UNCHANGED script
    BY <2>2 DEF Probe, Restart, Reprobe, StartServer, Login, RunRemote
  <2>3. ASSUME Load(e) \/ Agree(e) \/ Decline(e) \/ AgreeRestart(e) \/ DeclineRestart(e)
                 \/ Open(e) \/ Write(e) \/ Rename(e) \/ LookUp(e) \/ Fails(e)
        PROVE  UNCHANGED script
    BY <2>3 DEF Load, Agree, Decline, AgreeRestart, DeclineRestart, Open, Write, Rename,
                LookUp, Fails
  <2>4. QED
    BY <2>1, <2>2, <2>3 DEF EditorActs, EditorStep
<1>8. QED
  BY <1>3, <1>4, <1>5, <1>6, <1>7

(* What a source tree on a host is made into is never 0, which is no binary. *)
LEMMA BuiltReal ==
  ASSUME HostTypes, BuildsReal, NEW n \in Node, src[n] # {}
  PROVE  Built(n) \in Nat \ {0}
<1>1. Len(Proto) \in Nat \ {0}
  BY MachinesAssumption
<1>2. src[n] \in SUBSET (0..Len(Proto))
  BY DEF HostTypes
<1>3. IsFiniteSet(src[n])
  <2>1. IsFiniteSet(0..Len(Proto))
    BY <1>1, FS_Interval
  <2>2. QED
    BY <1>2, <2>1, FS_Subset
<1>4. CASE Cardinality(src[n]) = 1
  <2>1. PICK b : src[n] = {b}
    BY <1>3, <1>4, FS_Singleton
  <2>2. b \in Nat \ {0}
    BY <1>1, <1>2, <2>1 DEF BuildsReal, HostsReal
  <2>3. QED
    BY <1>4, <2>1, <2>2 DEF Built
<1>5. CASE Cardinality(src[n]) # 1
  BY <1>1, <1>5 DEF Built, Mixed
<1>6. QED
  BY <1>4, <1>5

Scripts == [at : Stage, node : Node \cup {NoNode}, build : Nat, holds : Nat]

(* A step of a script moves it on, and keeps what its build and host are. *)
MovesOn(s) ==
  /\ script' \in [Slot -> Scripts]
  /\ \A t \in Slot \ {s} : script'[t] = script[t]
  /\ script'[s].node = script[s].node /\ script'[s].build = script[s].build
  /\ script[s].node \in Node /\ script[s].build # 0

LEMMA StepMovesOn ==
  ASSUME HostTypes, BuildsReal, NEW s \in Slot, NEW from \in Stage \ {"None"},
         NEW to \in Stage, Step(s, from, to)
  PROVE  MovesOn(s) /\ script'[s].at = to
<1>1. script' = [script EXCEPT ![s].at = to] /\ script[s].at # "None"
  BY DEF Step
<1>2. script[s] \in Scripts
  BY DEF HostTypes, Scripts
<1>3. [script[s] EXCEPT !.at = to] \in Scripts
  BY <1>2 DEF Scripts
<1>4. QED
  BY <1>1, <1>2, <1>3 DEF MovesOn, HostTypes, Scripts, BuildsReal, HostsReal

(* What no step takes back: a binary is replaced by a binary. *)
BinariesStay ==
  \A n \in Node : (installed[n] # 0 => installed'[n] # 0) /\ (cargo[n] # 0 => cargo'[n] # 0)

SourcesReal == \A n \in Node : src'[n] # {} => \E b \in src'[n] : b # 0

LEMMA MovesOnKeeps ==
  ASSUME HostTypes, BuildsReal, NEW s \in Slot, MovesOn(s), BinariesStay, SourcesReal,
         script'[s].at = "Move" => script'[s].holds # 0,
         script'[s].at = "Copy" => cargo'[script[s].node] # 0
  PROVE  HostsReal'
<1>1. ASSUME NEW t \in Slot, script'[t].at # "None"
      PROVE  script'[t].node \in Node /\ script'[t].build # 0
  BY <1>1 DEF MovesOn, BuildsReal, HostsReal
<1>2. ASSUME NEW t \in Slot, script'[t].at = "Move" PROVE script'[t].holds # 0
  BY <1>2 DEF MovesOn, BuildsReal, HostsReal
<1>3. ASSUME NEW t \in Slot, script'[t].at = "Copy" PROVE cargo'[script'[t].node] # 0
  <2>1. script'[t].node \in Node
    BY <1>1, <1>3
  <2>2. QED
    BY <1>3, <2>1 DEF MovesOn, BuildsReal, HostsReal, BinariesStay
<1>4. QED
  BY <1>1, <1>2, <1>3 DEF HostsReal, SourcesReal

LEMMA ScriptKeeps ==
  ASSUME Types, HostTypes, BuildsReal, NEW s \in Slot, Script(s)
  PROVE  HostTypes' /\ HostsReal' /\ BinariesStay
<1> DEFINE n == script[s].node
<1> USE DEF Scripts
<1>0. /\ script[s] \in Scripts /\ current \in Nat \ {0} /\ current <= Len(Proto)
      /\ Len(Proto) \in Nat
  BY MachinesAssumption DEF HostTypes, Types, Build
<1>1. CASE Clear(s)
  <2>1. MovesOn(s) /\ script'[s].at = "Extract"
    BY <1>1, StepMovesOn DEF Clear, Stage
  <2>2. UNCHANGED <<installed, cargo>> /\ src' = [src EXCEPT ![n] = {}]
    BY <1>1 DEF Clear
  <2>3. SourcesReal /\ BinariesStay
    BY <2>2 DEF SourcesReal, BinariesStay, BuildsReal, HostsReal, HostTypes
  <2>4. HostTypes'
    BY <2>1, <2>2 DEF HostTypes, MovesOn
  <2>5. QED
    BY <2>1, <2>3, <2>4, MovesOnKeeps
<1>2. CASE Extract(s)
  <2>1. MovesOn(s) /\ script'[s].at \in {"Rest", "Ended"}
    BY <1>2, StepMovesOn DEF Extract, Stage
  <2>2. PICK S \in SUBSET (0..Len(Proto)) : current \in S /\ src' = [src EXCEPT ![n] = S]
    <3>1. src[n] \in SUBSET (0..Len(Proto))
      BY <2>1 DEF MovesOn, HostTypes
    <3>2. /\ src[n] \cup {Half, current} \in SUBSET (0..Len(Proto))
          /\ (src[n] \ {Half}) \cup {current} \in SUBSET (0..Len(Proto))
      BY <1>0, <3>1 DEF Half
    <3>3. \/ src' = [src EXCEPT ![n] = src[n] \cup {Half, current}]
          \/ src' = [src EXCEPT ![n] = (src[n] \ {Half}) \cup {current}]
      BY <1>2, <2>1 DEF Extract, MovesOn, HostTypes
    <3>4. QED
      BY <3>2, <3>3
  <2>3. UNCHANGED <<installed, cargo>>
    BY <1>2 DEF Extract
  <2>4. SourcesReal /\ BinariesStay
    BY <1>0, <2>2, <2>3 DEF SourcesReal, BinariesStay, BuildsReal, HostsReal, HostTypes
  <2>5. HostTypes'
    BY <2>1, <2>2, <2>3 DEF HostTypes, MovesOn
  <2>6. QED
    BY <2>1, <2>4, <2>5, MovesOnKeeps
<1>3. CASE CargoInstall(s)
  <2>1. UNCHANGED <<installed, src>>
    BY <1>3 DEF CargoInstall
  <2>2. SourcesReal
    BY <2>1 DEF SourcesReal, BuildsReal, HostsReal
  <2>3. CASE Step(s, "Cargo", "Copy") /\ src[n] # {} /\ cargo' = [cargo EXCEPT ![n] = Built(n)]
    <3>1. MovesOn(s) /\ script'[s].at = "Copy"
      BY <2>3, StepMovesOn DEF Stage
    <3>2. n \in Node
      BY <3>1 DEF MovesOn
    <3>3. Built(n) \in Nat \ {0}
      BY <2>3, <3>2, BuiltReal
    <3>4. BinariesStay /\ cargo'[n] # 0 /\ cargo' \in [Node -> Nat]
      BY <2>1, <2>3, <3>2, <3>3 DEF BinariesStay, HostTypes
    <3>5. HostTypes'
      BY <2>1, <3>1, <3>4 DEF HostTypes, MovesOn
    <3>6. QED
      BY <2>2, <3>1, <3>4, <3>5, MovesOnKeeps
  <2>4. CASE Step(s, "Cargo", "Failed") /\ UNCHANGED cargo
    <3>1. MovesOn(s) /\ script'[s].at = "Failed"
      BY <2>4, StepMovesOn DEF Stage
    <3>2. BinariesStay /\ HostTypes'
      BY <2>1, <2>4, <3>1 DEF BinariesStay, HostTypes, MovesOn
    <3>3. QED
      BY <2>2, <3>1, <3>2, MovesOnKeeps
  <2>5. QED
    BY <1>3, <2>3, <2>4 DEF CargoInstall
<1>4. CASE Fetch(s)
  <2> DEFINE fetched == [script[s] EXCEPT !.at = "Move", !.holds = script[s].build]
  <2>1. /\ script[s].at = "Fetch" /\ script' = [script EXCEPT ![s] = fetched]
        /\ UNCHANGED <<installed, src, cargo>>
    BY <1>4 DEF Fetch
  <2>2. script[s].node \in Node /\ script[s].build # 0
    BY <2>1 DEF BuildsReal, HostsReal
  <2>3. /\ fetched \in Scripts /\ fetched.holds = script[s].build
        /\ fetched.node = script[s].node /\ fetched.build = script[s].build
        /\ fetched.at = "Move"
    BY <1>0 DEF Stage
  <2> HIDE DEF fetched
  <2>4. MovesOn(s) /\ script'[s] = fetched
    BY <2>1, <2>2, <2>3 DEF MovesOn, HostTypes
  <2>5. SourcesReal /\ BinariesStay /\ HostTypes'
    BY <2>1, <2>4 DEF SourcesReal, BinariesStay, HostTypes, MovesOn, BuildsReal, HostsReal
  <2>6. QED
    BY <2>2, <2>3, <2>4, <2>5, MovesOnKeeps
<1>5. CASE Copy(s)
  <2> DEFINE copied == [script[s] EXCEPT !.at = "Move", !.holds = cargo[script[s].node]]
  <2>1. /\ script[s].at = "Copy" /\ script' = [script EXCEPT ![s] = copied]
        /\ UNCHANGED <<installed, src, cargo>>
    BY <1>5 DEF Copy
  <2>2. script[s].node \in Node /\ script[s].build # 0 /\ cargo[script[s].node] \in Nat \ {0}
    BY <2>1 DEF BuildsReal, HostsReal, HostTypes
  <2>3. /\ copied \in Scripts /\ copied.holds # 0
        /\ copied.node = script[s].node /\ copied.build = script[s].build
        /\ copied.at = "Move"
    BY <1>0, <2>2 DEF Stage
  <2> HIDE DEF copied
  <2>4. MovesOn(s) /\ script'[s] = copied
    BY <2>1, <2>2, <2>3 DEF MovesOn, HostTypes
  <2>5. SourcesReal /\ BinariesStay /\ HostTypes'
    BY <2>1, <2>4 DEF SourcesReal, BinariesStay, HostTypes, MovesOn, BuildsReal, HostsReal
  <2>6. QED
    BY <2>3, <2>4, <2>5, MovesOnKeeps
<1>6. CASE Move(s)
  <2>1. MovesOn(s) /\ script'[s].at = "Record"
    BY <1>6, StepMovesOn DEF Move, Stage
  <2>2. /\ UNCHANGED <<src, cargo>> /\ script[s].at = "Move"
        /\ installed' = [installed EXCEPT ![n] = script[s].holds]
    BY <1>6 DEF Move, Step
  <2>3. script[s].holds \in Nat \ {0}
    BY <1>0, <2>2 DEF BuildsReal, HostsReal
  <2>4. SourcesReal /\ BinariesStay /\ HostTypes'
    BY <2>1, <2>2, <2>3 DEF SourcesReal, BinariesStay, HostTypes, MovesOn, BuildsReal, HostsReal
  <2>5. QED
    BY <2>1, <2>4, MovesOnKeeps
<1>7. CASE Record(s)
  <2>1. MovesOn(s) /\ script'[s].at = "Ended"
    BY <1>7, StepMovesOn DEF Record, Stage
  <2>2. UNCHANGED <<installed, src, cargo>>
    BY <1>7 DEF Record
  <2>3. SourcesReal /\ BinariesStay /\ HostTypes'
    BY <2>1, <2>2 DEF SourcesReal, BinariesStay, HostTypes, MovesOn, BuildsReal, HostsReal
  <2>4. QED
    BY <2>1, <2>3, MovesOnKeeps
<1>8. QED
  BY <1>1, <1>2, <1>3, <1>4, <1>5, <1>6, <1>7 DEF Script

LEMMA AddsRealStep ==
  ASSUME Types, AddsReal, Next
  PROVE  AddsReal'
<1>1. ASSUME NEW e \in Editor, EditorActs(e) PROVE AddsReal'
  <2>1. ASSUME NEW f \in Editor, f # e PROVE pc'[f] = pc[f] /\ run'[f] = run[f]
    BY <1>1, <2>1, EditorKeeps DEF OnlyRunOf, Types
  <2>2. /\ pc'[e] = "Load" => run'[e].mine \in Nat \ {0}
        /\ pc'[e] \in Adding => Cmd(e)'.op = "add" /\ run'[e].wanted \in Nat \ {0}
    <3>1. current \in Nat \ {0}
      BY DEF Types, Build
    <3>2. CASE LoadedToAdd(e)
      <4>1. /\ run'[e].cmd = run[e].cmd /\ run'[e].wanted = Wants(e)
            /\ pc[e] = "Load" /\ pc'[e] = "Probe" /\ run[e].cmd.op = "add"
        BY <3>2 DEF LoadedToAdd, Fields, Cmd
      <4>2. Wants(e) \in Nat \ {0}
        BY <3>1, <4>1 DEF AddsReal, Wants, SourceHash
      <4>3. QED
        BY <4>1, <4>2 DEF Cmd
    <3>3. CASE pc[e] \in Adding /\ pc'[e] \in Adding /\ SameRun(e)
      BY <3>3 DEF SameRun, AddsReal, Cmd, Adding
    <3>4. CASE pc'[e] \notin Adding /\ pc'[e] # "Load"
      BY <3>4
    <3>5. CASE pc'[e] = "Load" /\ run'[e].mine = current
      BY <3>1, <3>5 DEF Adding
    <3>6. CASE Open(e) \/ Write(e)
      BY <3>6, EditorKeeps, <1>1 DEF Open, Write, Go, Adding, Types
    <3>7. QED
      BY <1>1, <3>2, <3>3, <3>4, <3>5, <3>6, EditorLeads
         DEF Leads, LoadedToRemove, Added, Outside, Adding
  <2>3. QED
    BY <2>1, <2>2 DEF AddsReal, Cmd
<1>2. CASE OthersAct
  BY <1>2, OthersKeep DEF AddsReal, Cmd
<1>3. QED
  BY <1>1, <1>2, NextActs

LEMMA HostsStep ==
  ASSUME Types, HostTypes, BuildsReal, Next
  PROVE  HostTypes' /\ HostsReal' /\ BinariesStay
<1>1. ASSUME UNCHANGED <<script, installed, src, cargo>>
      PROVE  HostTypes' /\ HostsReal' /\ BinariesStay
  BY <1>1 DEF HostTypes, BuildsReal, HostsReal, BinariesStay
<1>2. ASSUME NEW e \in Editor, EditorActs(e)
      PROVE  HostTypes' /\ HostsReal' /\ BinariesStay
  <2>1. UNCHANGED <<installed, src, cargo>>
    BY <1>2, EditorFrame
  <2>2. HostTypes' /\ BinariesStay
    BY <1>2, <2>1, EditorScripts DEF HostTypes, BinariesStay
  <2>3. ASSUME NEW s \in Slot
        PROVE  /\ script'[s].at # "None" => script'[s].node \in Node /\ script'[s].build # 0
               /\ script'[s].at = "Move" => script'[s].holds # 0
               /\ script'[s].at = "Copy" => cargo'[script'[s].node] # 0
    <3>1. CASE script'[s] = Idle
      BY <3>1 DEF Idle
    <3>2. CASE \E t \in Slot : script'[s] = script[t]
      BY <2>1, <3>2 DEF BuildsReal, HostsReal
    <3>3. CASE /\ script'[s].at \in {"Clear", "Cargo", "Fetch"}
               /\ script'[s].node \in Node /\ script'[s].build # 0
      BY <3>3
    <3>4. QED
      BY <1>2, <3>1, <3>2, <3>3, EditorScripts
  <2>4. QED
    BY <2>1, <2>2, <2>3 DEF BuildsReal, HostsReal
<1>3. ASSUME NEW e \in Editor, ScriptFails(e)
      PROVE  HostTypes' /\ HostsReal' /\ BinariesStay
  <2>1. /\ script[e].at # "None" /\ script' = [script EXCEPT ![e].at = "Failed"]
        /\ UNCHANGED <<installed, src, cargo>> /\ e \in Slot
    BY <1>3 DEF ScriptFails, Slot
  <2>2. Step(e, script[e].at, "Failed") /\ script[e].at \in Stage \ {"None"}
    BY <2>1 DEF Step, HostTypes
  <2>3. MovesOn(e) /\ script'[e].at = "Failed"
    BY <2>1, <2>2, StepMovesOn DEF Stage
  <2>4. SourcesReal /\ BinariesStay /\ HostTypes'
    BY <2>1, <2>3 DEF SourcesReal, BinariesStay, HostTypes, MovesOn, Scripts, BuildsReal, HostsReal
  <2>5. QED
    BY <2>1, <2>3, <2>4, MovesOnKeeps
<1>4. ASSUME OrphanEnds PROVE HostTypes' /\ HostsReal' /\ BinariesStay
  <2>1. /\ script' = [script EXCEPT ![Orphan] = Idle] /\ Idle.at = "None"
        /\ UNCHANGED <<installed, src, cargo>>
    BY <1>4 DEF OrphanEnds, Idle
  <2>2. HostTypes' /\ BinariesStay
    BY <2>1, IdleTyped DEF HostTypes, BinariesStay
  <2>3. QED
    BY <2>1, <2>2 DEF HostTypes, BuildsReal, HostsReal
<1>5. QED
  BY <1>1, <1>2, <1>3, <1>4, ScriptKeeps, NextActs
     DEF OthersAct, MasterLost, Edit, hostVars

-----------------------------------------------------------------------------
(* The catalog, while no two editors have met.                              *)

(* An inode that nobody holds is left for a partial file. *)
LEMMA FreeInodeIsFree ==
  ASSUME Sound, Types, NEW e \in Editor, pc[e] = "Open", partial = NoFile
  PROVE  FreeInode \in Inode \ {NoFile, file}
<1>1. \A f \in Editor : run[f].fd = NoFile
  BY DEF Sound, Alone, Types, Outside
<1>2. Cardinality(Editor) \in Nat /\ Cardinality(Editor) # 0
  BY MachinesAssumption, FS_CardinalityType, FS_EmptySet
<1>3. 0 \in Inode /\ 1 \in Inode
  BY <1>2 DEF Inode
<1>4. {run[f].fd : f \in Editor} \cup {file, partial} = {NoFile, file}
  BY <1>1
<1>5. \E i \in Inode : i \notin {run[f].fd : f \in Editor} \cup {file, partial}
  BY <1>3, <1>4 DEF NoFile
<1>6. FreeInode \in Inode /\ FreeInode \notin {run[f].fd : f \in Editor} \cup {file, partial}
  BY <1>5 DEF FreeInode
<1>7. QED
  BY <1>4, <1>6

(* What an editor that rests is about to save stays right. *)
LEMMA FitsStay ==
  ASSUME HostTypes, NEW e \in Editor, Fits(e), pc'[e] = pc[e], run'[e] = run[e],
         UNCHANGED catalogVars, BinariesStay
  PROVE  Fits(e)'
<1>1. UNCHANGED <<Catalog, partial, content>>
  BY DEF catalogVars, Catalog
<1>2. ASSUME Change(e) PROVE Change(e)'
  BY <1>1, <1>2 DEF Change, Cmd, BinariesStay
<1>3. QED
  BY <1>1, <1>2 DEF Fits

(* Only one editor is ever inside, and a Load that would make it two is noted. *)
LEMMA AloneStep ==
  ASSUME Types, Alone, NEW e \in Editor, EditorActs(e), ~overlapped'
  PROVE  /\ Alone'
         /\ pc'[e] \notin Outside => \A f \in Editor \ {e} : pc'[f] \in Outside
<1>1. ASSUME NEW f \in Editor, f # e PROVE pc'[f] = pc[f]
  BY <1>1, EditorKeeps DEF Types
<1>2. ASSUME NEW f \in Editor, f # e, pc'[e] \notin Outside PROVE pc'[f] \in Outside
  <2>1. CASE pc[e] \notin Outside
    BY <1>1, <1>2, <2>1 DEF Alone
  <2>2. CASE pc[e] \in Outside
    <3>1. LoadedToAdd(e) \/ LoadedToRemove(e)
      <4>1. pc[e] \notin Adding \cup {"Open", "Write"}
        BY <2>2 DEF Outside, Adding
      <4>2. ~Open(e) /\ ~Write(e) /\ \A n \in Node : ~Added(e, n)
        BY <4>1 DEF Open, Write, Go, Added, Adding
      <4>3. pc'[e] # "Load"
        BY <1>2 DEF Outside
      <4>4. QED
        BY <1>2, <4>1, <4>2, <4>3, EditorLeads DEF Leads
    <3>2. ~Contended(e)
      BY <3>1 DEF LoadedToAdd, LoadedToRemove
    <3>3. QED
      BY <1>1, <1>2, <3>2 DEF Contended, Outside
  <2>3. QED
    BY <2>1, <2>2
<1>3. Alone'
  BY <1>1, <1>2 DEF Alone
<1>4. QED
  BY <1>2, <1>3

(* Up to the rename, the catalog stays and the change in hand is made out.    *)
LEMMA EditorFits ==
  ASSUME Types, HostTypes, AddsReal, BinariesStay, Sound,
         NEW e \in Editor, EditorActs(e), UNCHANGED catalogVars, ~Open(e), ~Write(e)
  PROVE  Fits(e)'
<1>0. UNCHANGED <<Catalog, installed, partial, content>>
  BY EditorFrame DEF catalogVars, Catalog
<1>1. CASE pc'[e] \in Outside
  BY <1>1 DEF Fits, Outside, Adding, Saving
<1>2. CASE pc[e] \in Adding /\ pc'[e] \in Adding /\ SameRun(e)
  BY <1>0, <1>2 DEF Fits, Sound, SameRun, Adding, Saving
<1>3. CASE LoadedToAdd(e)
  <2>1. pc'[e] = "Probe" /\ run'[e].saved = Catalog.machines
    BY <1>3 DEF LoadedToAdd, Fields
  <2>2. QED
    BY <1>0, <2>1 DEF Fits, Saving
<1>4. CASE LoadedToRemove(e)
  <2>1. /\ pc'[e] = "Open" /\ run'[e].cmd = run[e].cmd /\ Cmd(e).op = "remove"
        /\ run'[e].saved = Without(Catalog.machines, Cmd(e).label)
    BY <1>4 DEF LoadedToRemove, Fields
  <2>2. Change(e)'
    BY <1>0, <2>1 DEF Change, Cmd
  <2>3. QED
    BY <2>1, <2>2 DEF Fits, Adding
<1>5. ASSUME NEW n \in Node, Added(e, n) PROVE Fits(e)'
  <2>1. /\ pc[e] = "StartServer" /\ pc'[e] = "Open" /\ installed[n] # 0
        /\ run'[e].cmd = run[e].cmd /\ run'[e].node = n
        /\ run'[e].saved = Append(run[e].saved, Entry(Cmd(e)))
    BY <1>5 DEF Added, Fields
  <2>2. run[e].saved = Catalog.machines /\ Cmd(e).op = "add"
    BY <2>1 DEF Sound, Fits, AddsReal, Adding
  <2>3. Change(e)'
    BY <1>0, <2>1, <2>2 DEF Change, Cmd, Entry
  <2>4. QED
    BY <2>1, <2>3 DEF Fits, Adding
<1>6. QED
  BY <1>1, <1>2, <1>3, <1>4, <1>5, EditorLeads DEF Leads, Outside

LEMMA OpenSound ==
  ASSUME Types, Sound, NEW e \in Editor, Open(e), Alone',
         \A f \in Editor \ {e} : pc'[f] \in Outside
  PROVE  Sound' /\ Catalog' = Catalog
<1>1. PICK i : /\ i = IF partial = NoFile THEN FreeInode ELSE partial
               /\ partial' = i /\ content' = [content EXCEPT ![i] = Text(<<>>)]
               /\ Note(e, "fd", i)
  BY DEF Open
<1>2. pc[e] = "Open" /\ pc'[e] = "Write" /\ UNCHANGED <<file, installed>>
  BY DEF Open, Go, Types, hostVars
<1>3. i \in Inode /\ i # NoFile /\ (file # NoFile => i # file)
  BY <1>1, <1>2, FreeInodeIsFree DEF Sound
<1>4. content'[i] = Text(<<>>) /\ (file # NoFile => content'[file] = content[file])
  BY <1>1, <1>3 DEF Types
<1>5. Catalog' = Catalog
  BY <1>2, <1>4 DEF Catalog
<1>6. run'[e] = [Fields(run[e]) EXCEPT !.fd = i]
  BY <1>1, AfterNote DEF Types
<1>7. /\ run'[e].fd = i /\ run'[e].cmd = run[e].cmd /\ run'[e].saved = run[e].saved
      /\ run'[e].node = run[e].node
  BY <1>6 DEF Fields
<1>8. Change(e)
  BY <1>2 DEF Sound, Fits, Saving
<1>9. Change(e)'
  BY <1>2, <1>5, <1>7, <1>8 DEF Change, Cmd
<1>10. Fits(e)'
  BY <1>1, <1>2, <1>3, <1>4, <1>7, <1>9 DEF Fits, Adding
<1>11. \A f \in Editor : Fits(f)'
  BY <1>10 DEF Fits, Outside, Adding, Saving
<1>12. QED
  BY <1>1, <1>2, <1>3, <1>5, <1>11 DEF Sound

LEMMA WriteSound ==
  ASSUME Types, Sound, NEW e \in Editor, Write(e), Alone',
         \A f \in Editor \ {e} : pc'[f] \in Outside
  PROVE  Sound' /\ Catalog' = Catalog
<1>1. pc[e] = "Write" /\ pc'[e] = "Rename" /\ UNCHANGED <<file, partial, installed>>
  BY DEF Write, Go, Types, hostVars
<1>2. /\ Change(e) /\ run[e].fd = partial /\ partial # NoFile /\ partial \in Inode
      /\ content[partial] = Text(<<>>)
  BY <1>1 DEF Sound, Fits, Saving
<1>3. content' = [content EXCEPT ![partial] = Text(run[e].saved)]
  <2>1. content[partial].machines = <<>>
    BY <1>2 DEF Text
  <2>2. QED
    BY <1>2, <2>1 DEF Write
<1>4. /\ content'[partial] = Text(run[e].saved)
      /\ file # NoFile => content'[file] = content[file]
  BY <1>2, <1>3 DEF Types, Sound
<1>5. Catalog' = Catalog
  BY <1>1, <1>4 DEF Catalog
<1>6. run'[e] = [Fields(run[e]) EXCEPT !.fd = NoFile]
  BY AfterNote DEF Types, Write
<1>7. /\ run'[e].cmd = run[e].cmd /\ run'[e].saved = run[e].saved
      /\ run'[e].node = run[e].node
  BY <1>6 DEF Fields
<1>8. Change(e)'
  BY <1>1, <1>2, <1>5, <1>7 DEF Change, Cmd
<1>9. Fits(e)'
  BY <1>1, <1>2, <1>4, <1>7, <1>8 DEF Fits, Adding
<1>10. \A f \in Editor : Fits(f)'
  BY <1>9 DEF Fits, Outside, Adding, Saving
<1>11. QED
  BY <1>1, <1>5, <1>10 DEF Sound

LEMMA RenameSound ==
  ASSUME Types, Sound, NEW e \in Editor, Rename(e), Alone'
  PROVE  Sound' /\ Change(e) /\ Catalog' = Text(run[e].saved)
<1>1. pc[e] = "Rename" /\ End(e)
  BY DEF Rename
<1>2. Change(e) /\ partial # NoFile /\ content[partial] = Text(run[e].saved)
  BY <1>1 DEF Sound, Fits, Saving
<1>3. file' = partial /\ partial' = NoFile /\ UNCHANGED content
  BY <1>2 DEF Rename
<1>4. Catalog' = Text(run[e].saved)
  BY <1>2, <1>3 DEF Catalog
<1>5. \A f \in Editor : pc'[f] \in Outside
  BY <1>1, EndKeeps DEF Sound, Alone, Outside, Types
<1>6. \A f \in Editor : Fits(f)'
  BY <1>5 DEF Fits, Outside, Adding, Saving
<1>7. Catalog'.ok
  BY <1>4 DEF Text
<1>8. QED
  BY <1>2, <1>3, <1>4, <1>6, <1>7 DEF Sound

(* What a step makes of the catalog while no two editors have met. *)
SavesItsOwn ==
  \/ Catalog' = Catalog
  \/ \E e \in Editor :
       pc[e] = "Rename" /\ Change(e) /\ Catalog' = Text(run[e].saved)

LEMMA SoundStep ==
  ASSUME CatalogInv, Next, ~overlapped'
  PROVE  Sound' /\ SavesItsOwn
<1>1. ~overlapped /\ BinariesStay /\ AddsReal
  <2>1. overlapped' = overlapped \/ \E e \in Editor : Load(e)
    BY EditorFrame, OthersKeep, NextActs
  <2>2. ~overlapped
    BY <2>1, Zenon DEF Load
  <2>3. BinariesStay /\ AddsReal
    BY HostsStep DEF CatalogInv, BuildsReal
  <2>4. QED
    BY <2>2, <2>3
<1>2. Sound
  BY <1>1 DEF CatalogInv, CatalogSound
<1> USE DEF CatalogInv
<1>3. ASSUME NEW e \in Editor, EditorActs(e) PROVE Sound' /\ SavesItsOwn
  <2>1. /\ Alone'
        /\ pc'[e] \notin Outside => \A f \in Editor \ {e} : pc'[f] \in Outside
    BY <1>2, <1>3, AloneStep DEF Sound
  <2>2. CASE Open(e)
    <3>1. pc'[e] \notin Outside
      BY <2>2, EditorKeeps, <1>3 DEF Open, Go, Outside, Types
    <3>2. QED
      BY <1>2, <2>1, <2>2, <3>1, OpenSound DEF SavesItsOwn
  <2>3. CASE Write(e)
    <3>1. pc'[e] \notin Outside
      BY <2>3, EditorKeeps, <1>3 DEF Write, Go, Outside, Types
    <3>2. QED
      BY <1>2, <2>1, <2>3, <3>1, WriteSound DEF SavesItsOwn
  <2>4. CASE Rename(e)
    BY <1>2, <2>1, <2>4, RenameSound DEF SavesItsOwn, Rename
  <2>5. CASE ~Open(e) /\ ~Write(e) /\ ~Rename(e)
    <3>1. UNCHANGED catalogVars
      BY <1>3, <2>5, EditorFrame
    <3>2. ASSUME NEW f \in Editor, f # e PROVE Fits(f)'
      <4>1. pc'[f] = pc[f] /\ run'[f] = run[f]
        BY <1>3, <3>2, EditorKeeps DEF OnlyRunOf, Types
      <4>2. QED
        BY <1>1, <1>2, <3>1, <4>1, FitsStay DEF Sound
    <3>3. Fits(e)'
      BY <1>1, <1>2, <1>3, <2>5, <3>1, EditorFits
    <3>4. Catalog' = Catalog /\ UNCHANGED <<file, partial>>
      BY <3>1 DEF Catalog, catalogVars
    <3>5. Sound'
      BY <1>2, <2>1, <3>2, <3>3, <3>4 DEF Sound
    <3>6. QED
      BY <3>4, <3>5 DEF SavesItsOwn
  <2>6. QED
    BY <2>2, <2>3, <2>4, <2>5
<1>4. CASE OthersAct
  <2>1. UNCHANGED <<pc, run, catalogVars>>
    BY <1>4, OthersKeep
  <2>2. \A f \in Editor : Fits(f)'
    BY <1>1, <1>2, <2>1, FitsStay DEF Sound
  <2>3. Catalog' = Catalog /\ UNCHANGED <<file, partial>>
    BY <2>1 DEF Catalog, catalogVars
  <2>4. Sound'
    BY <1>2, <2>1, <2>2, <2>3 DEF Sound, Alone
  <2>5. QED
    BY <2>3, <2>4 DEF SavesItsOwn
<1>5. QED
  BY <1>3, <1>4, NextActs

LEMMA StepInv == CatalogInv /\ [Next]_vars => CatalogInv'
<1> SUFFICES ASSUME CatalogInv, [Next]_vars PROVE CatalogInv'
  OBVIOUS
<1>1. CASE Next
  <2>1. Types' /\ HostTypes' /\ HostsReal' /\ AddsReal'
    BY <1>1, TypesStep, HostsStep, AddsRealStep DEF CatalogInv, BuildsReal
  <2>2. CatalogSound'
    BY <1>1, SoundStep DEF CatalogSound
  <2>3. QED
    BY <2>1, <2>2 DEF CatalogInv, BuildsReal
<1>2. CASE UNCHANGED vars
  <2> USE <1>2 DEF vars, worldVars, catalogVars, hostVars, CatalogInv
  <2>1. Types' /\ HostTypes' /\ BuildsReal'
    BY DEF Types, HostTypes, BuildsReal, AddsReal, HostsReal, Cmd
  <2>2. UNCHANGED Catalog
    BY DEF Catalog
  <2>3. \A e \in Editor : Change(e) => Change(e)'
    BY <2>2 DEF Change, Cmd
  <2>4. \A e \in Editor : Fits(e) => Fits(e)'
    BY <2>2, <2>3 DEF Fits
  <2>5. CatalogSound'
    BY <2>2, <2>4 DEF CatalogSound, Sound, Alone
  <2>6. QED
    BY <2>1, <2>5
<1>3. QED
  BY <1>1, <1>2

(* machines.rs:75-101, cli/machine.rs: while no two editors meet, the catalog  *)
(* is whole after every step, whatever fails or is killed, and only a rename *)
(* changes it: to what it was with the machine of an `add` whose host has a   *)
(* binary, or without the one that a `remove` names.                        *)
THEOREM CatalogIsHeld == Spec => CatalogHolds
<1> DEFINE Keeps ==
      /\ Catalog'.ok
      /\ \/ Catalog' = Catalog
         \/ \E e \in Editor :
              /\ pc[e] = "Rename"
              /\ \/ /\ Cmd(e).op = "add" /\ installed[run[e].node] # 0
                    /\ Catalog'.machines = Append(Catalog.machines, Entry(Cmd(e)))
                 \/ /\ Cmd(e).op = "remove"
                    /\ Catalog'.machines = Without(Catalog.machines, Cmd(e).label)
<1>1. CatalogInv /\ [Next]_vars => [~overlapped' => Keeps]_vars
  <2> SUFFICES ASSUME CatalogInv, Next, ~overlapped' PROVE Keeps
    OBVIOUS
  <2>1. Sound' /\ SavesItsOwn
    BY SoundStep
  <2>2. Catalog'.ok
    BY <2>1 DEF Sound
  <2>3. CASE Catalog' = Catalog
    BY <2>2, <2>3
  <2>4. ASSUME NEW e \in Editor, pc[e] = "Rename", Change(e), Catalog' = Text(run[e].saved)
        PROVE  Keeps
    <3>1. Catalog'.machines = run[e].saved
      BY <2>4 DEF Text
    <3>2. QED
      BY <2>2, <2>4, <3>1 DEF Change
  <2>5. QED
    BY <2>1, <2>3, <2>4 DEF SavesItsOwn
<1>2. QED
  BY <1>1, InitInv, StepInv, PTL DEF Spec, CatalogHolds
=============================================================================
