--------------------------- MODULE SupervisorProofs ---------------------------
(***************************************************************************)
(* What Supervisor guarantees for any number of handlers and urls, any     *)
(* configurations and any number of events.                                *)
(*                                                                         *)
(* Everything rests on two locks.  Exclusive says that whoever is between two *)
(* awaits of a tick or a visit, or waits for a process to end, holds the   *)
(* lock over the apps; so what it saw of the app when it decided to launch *)
(* or to stop is still so when it does.  Passes says that whoever works    *)
(* from a document holds the pass mutex, and that its document is the live *)
(* one unless another pass is requested.                                   *)
(***************************************************************************)
EXTENDS Supervisor, FiniteSetTheorems, TLAPS

(* Stretches with the lock held; those in which the record has no process. *)
Inside == {"failed", "advance", "advanced", "spawn", "install", "removed", "restarted"}
Childless == Inside \ {"advance"}

Exclusive ==
    \A k \in Actors : job[k].step \in Inside \/ job[k].dying # None => lock = k

(* The process in the record, or the one being stopped, is the only one.   *)
Processed ==
    /\ alive \subseteq Known
    /\ \A k \in Actors :
         job[k].step \in Childless \/ job[k].dying # None => app.child = None

(* The record agrees with what happened to the app; its process runs as it *)
(* is configured.                                                          *)
Recorded ==
    /\ app.ready => gate = "open"
    /\ declined => app.halted
    /\ app.child # None => app.config # None /\ runs = app.config /\ app.config.enabled

(* Who is about to launch has seen that it may, and nobody came between.   *)
Decided ==
    \A k \in Actors : job[k].step = "spawn" =>
        /\ Runnable /\ ~app.halted
        /\ app.config.url # None => app.ready

(* A pass holds the mutex, and unless another one is requested it has read *)
(* what is there to read.                                                  *)
Visiting == {"visit", "install", "removed", "poll"}
Passes ==
    \A k \in Actors :
        /\ job[k].kind \in {"pass", "restart"} => passing = k
        /\ job[k].step \in Visiting => job[k].kind = "pass"
        /\ job[k].kind = "pass" /\ ~requested =>
             /\ job[k].config = live.config /\ job[k].target = output
             /\ job[k].generation = live.generation

(* Once the task has brought the app up to date it stays so, and from its  *)
(* advance on a process is where it may be.                                *)
Arriving == job[Loop].step \in {"visit", "install"}
Advancing == job[Loop].step = "advance" /\ job[Loop].kind = "pass"
Settled ==
    ~requested /\ ~Arriving =>
        /\ app.config = live.config
        /\ live.config # None => app.target = output
        /\ ~Advancing /\ app.child # None => app.target

IInv == TypeOK /\ Exclusive /\ Processed /\ Recorded /\ Decided /\ Passes /\ Settled

----------------------------------------------------------------------------
(* Types.                                                                  *)

LEMMA JobEdits ==
    ASSUME NEW j \in Job, NEW step \in Steps
    PROVE  /\ [j EXCEPT !.step = step] \in Job
           /\ [j EXCEPT !.step = step, !.kind = "restart"] \in Job
           /\ [j EXCEPT !.dying = None] \in Job
           /\ \A p \in Optional(Processes) : [j EXCEPT !.dying = p, !.step = step] \in Job
  BY DEF Job, Optional

LEMMA NoJobIsAJob == NoJob \in Job
  BY SupervisorAssumption DEF NoJob, Job, Steps, Optional

LEMMA Reads ==
    ASSUME NEW c \in Configs, NEW t \in BOOLEAN, NEW g \in Nat
    PROVE  [NoJob EXCEPT !.step = "visit", !.kind = "pass", !.config = c, !.target = t,
                         !.generation = g] \in Job
  BY SupervisorAssumption DEF NoJob, Job, Steps, Optional

LEMMA AppEdits ==
    ASSUME NEW a \in App
    PROVE  /\ [a EXCEPT !.child = None] \in App
           /\ \A b \in BOOLEAN :
                /\ [a EXCEPT !.due = b] \in App
                /\ [a EXCEPT !.ready = b] \in App
                /\ [a EXCEPT !.pending = b] \in App
           /\ [a EXCEPT !.halted = FALSE, !.due = TRUE, !.ready = FALSE] \in App
           /\ \A p \in Processes :
                [a EXCEPT !.child = p, !.due = TRUE, !.halted = FALSE] \in App
           /\ \A c \in Configs, t \in BOOLEAN :
                [a EXCEPT !.config = c, !.target = t, !.pending = FALSE] \in App
  BY DEF App, Optional

LEMMA NewAppIsAnApp == NewApp \in App
  BY SupervisorAssumption DEF NewApp, App, Optional

(* The actor of a step is the only one that moves.                         *)
Moves(k, j) == job' = [job EXCEPT ![k] = j]

LEMMA MovesTyped ==
    ASSUME TypeOK, NEW k \in Actors, NEW j \in Job, Moves(k, j)
    PROVE  /\ job' \in [Actors -> Job]
           /\ job'[k] = j
           /\ \A m \in Actors \ {k} : job'[m] = job[m]
  BY DEF TypeOK, Moves

LEMMA TypedInit == Init => TypeOK
  <1> SUFFICES ASSUME Init PROVE TypeOK
    OBVIOUS
  <1>1. job \in [Actors -> Job] /\ app \in App
    BY NoJobIsAJob, NewAppIsAnApp DEF Init
  <1>2. events \in 0 .. MaxEvents /\ None \in Configs
    BY SupervisorAssumption DEF Init
  <1>4. live \in [config : Configs, generation : Nat]
    BY DEF Init
  <1>3. QED
    BY <1>1, <1>2, <1>4 DEF Init, TypeOK, Optional

LEMMA EventTyped == ASSUME TypeOK, Event PROVE events' \in 0 .. MaxEvents
  BY SupervisorAssumption DEF TypeOK, Event

LEMMA WorldTyped ==
    ASSUME TypeOK,
           \/ Write \/ Plug \/ DelayElapses
           \/ \E u \in Urls : DependencyTurns(u)
           \/ \E p \in alive : Exits(p)
    PROVE  TypeOK'
  <1>1. CASE Write
    <2>1. live' \in [config : Configs, generation : Nat] /\ events' \in 0 .. MaxEvents
      BY <1>1, EventTyped DEF Write, TypeOK
    <2>2. QED
      BY <1>1, <2>1 DEF Write, TypeOK, machine, locks, history
  <1>2. CASE Plug
    BY <1>2, EventTyped DEF Plug, TypeOK, locks, history
  <1>3. CASE DelayElapses
    <2>1. app' \in App
      BY <1>3, AppEdits DEF DelayElapses, TypeOK
    <2>2. QED
      BY <1>3, <2>1 DEF DelayElapses, TypeOK, document, machine, locks, history
  <1>4. CASE \E u \in Urls : DependencyTurns(u)
    BY <1>4 DEF DependencyTurns, TypeOK, document, locks, history
  <1>5. CASE \E p \in alive : Exits(p)
    BY <1>5, EventTyped DEF Exits, TypeOK, document, machine, locks, history
  <1>6. QED
    BY <1>1, <1>2, <1>3, <1>4, <1>5

(* Each of the pieces that the steps are made of.                          *)
LEMMA GotoTyped ==
    ASSUME TypeOK, NEW k \in Actors, NEW step \in Steps, Goto(k, step)
    PROVE  Moves(k, [job[k] EXCEPT !.step = step]) /\ job' \in [Actors -> Job]
  <1>1. [job EXCEPT ![k].step = step] = [job EXCEPT ![k] = [job[k] EXCEPT !.step = step]]
    BY DEF TypeOK
  <1>2. job[k] \in Job
    BY DEF TypeOK
  <1>3. QED
    BY <1>1, <1>2, JobEdits, MovesTyped DEF Goto, Moves

LEMMA FailTyped ==
    ASSUME TypeOK, Fail
    PROVE  /\ app' \in App /\ gate' = "shut" /\ declined' \in BOOLEAN /\ runs' = runs
           /\ app'.child = None /\ ~app'.ready /\ app'.config = app.config
           /\ app'.target = app.target
           /\ app.halted => app'.halted
           /\ declined' => declined \/ app'.halted
  <1>1. PICK d \in BOOLEAN :
          /\ app' = [app EXCEPT !.child = None, !.halted = d \/ @, !.due = d, !.ready = FALSE]
          /\ declined' = (d \/ declined)
    BY DEF Fail
  <1>2. app \in App /\ declined \in BOOLEAN
    BY DEF TypeOK
  <1>3. QED
    BY <1>1, <1>2 DEF Fail, Shut, App, Optional

LEMMA BeginStopTyped ==
    ASSUME TypeOK, NEW k \in Actors, NEW step \in Steps, BeginStop(k, step)
    PROVE  /\ app' = [app EXCEPT !.child = None] /\ app' \in App
           /\ Moves(k, [job[k] EXCEPT !.dying = app.child, !.step = step])
           /\ job' \in [Actors -> Job]
           /\ UNCHANGED history
  <1>1. job[k] \in Job /\ app \in App /\ app.child \in Optional(Processes)
    BY DEF TypeOK, App
  <1>3. [job EXCEPT ![k].dying = app.child, ![k].step = step]
          = [job EXCEPT ![k] = [job[k] EXCEPT !.dying = app.child, !.step = step]]
    BY <1>1 DEF TypeOK
  <1>4. [job[k] EXCEPT !.dying = app.child, !.step = step] \in Job
    BY <1>1, JobEdits
  <1>5. [app EXCEPT !.child = None] \in App
    BY <1>1, AppEdits
  <1>6. QED
    BY <1>3, <1>4, <1>5, MovesTyped DEF BeginStop, Moves

LEMMA DoneTyped ==
    ASSUME TypeOK, NEW k \in Actors, Done(k)
    PROVE  /\ lock' = None /\ passing' \in Optional(Actors) /\ job' \in [Actors -> Job]
           /\ IF job[k].kind = "pass"
                THEN Moves(k, [job[k] EXCEPT !.step = "poll"]) /\ passing' = passing
                ELSE Moves(k, NoJob) /\ passing' = IF passing = k THEN None ELSE passing
  <1>1. CASE job[k].kind = "pass"
    BY <1>1, GotoTyped DEF Done, Steps, TypeOK
  <1>2. CASE job[k].kind # "pass"
    BY <1>2, NoJobIsAJob DEF Done, Moves, TypeOK, Optional
  <1>3. QED
    BY <1>1, <1>2 DEF Done

Reading == [NoJob EXCEPT !.step = "visit", !.kind = "pass", !.config = live.config,
                         !.target = output, !.generation = live.generation]

LEMMA ReadDocumentTyped ==
    ASSUME TypeOK, NEW k \in Actors, ReadDocument(k)
    PROVE  Moves(k, Reading) /\ job' \in [Actors -> Job] /\ Reading \in Job
  <1>1. live.config \in Configs /\ live.generation \in Nat /\ output \in BOOLEAN
    BY SupervisorAssumption DEF TypeOK
  <1>2. Reading \in Job
    BY <1>1, Reads DEF Reading
  <1>3. QED
    BY <1>2, MovesTyped DEF ReadDocument, Reading, Moves

LEMMA AsTickTyped ==
    ASSUME TypeOK, NEW k \in Actors, NEW step \in Steps, NEW answer \in BOOLEAN,
           AsTick(k, step, answer)
    PROVE  /\ Moves(k, [NoJob EXCEPT !.step = step, !.good = answer])
           /\ job' \in [Actors -> Job]
           /\ [NoJob EXCEPT !.step = step, !.good = answer] \in Job
  <1>1. [NoJob EXCEPT !.step = step, !.good = answer] \in Job
    BY NoJobIsAJob DEF Job
  <1>2. QED
    BY <1>1, MovesTyped DEF AsTick, Moves

LEMMA HoldTyped ==
    ASSUME TypeOK, Hold
    PROVE  \E b \in BOOLEAN : app' = [app EXCEPT !.pending = b] /\ app' \in App
  <1>1. PICK b : app' = [app EXCEPT !.pending = app.pending \/ b] /\ b \in BOOLEAN
    <2>1. app \in App
      BY DEF TypeOK
    <2>2. CASE app.config = None
      BY <2>1, <2>2 DEF Hold, App
    <2>3. CASE app.config # None
      BY <2>1, <2>3 DEF Hold, App
    <2>4. QED
      BY <2>2, <2>3
  <1>2. app \in App /\ (app.pending \/ b) \in BOOLEAN
    BY DEF TypeOK, App
  <1>3. QED
    BY <1>1, <1>2, AppEdits

LEMMA ProbingTyped ==
    ASSUME TypeOK, NEW k \in Actors, Probing(k)
    PROVE  TypeOK'
  <1>1. CASE TickAsks(k)
    <2>1. job' \in [Actors -> Job]
      <3>1. Acceptable \in BOOLEAN
        BY DEF Acceptable
      <3>2. QED
        BY <1>1, <3>1, AsTickTyped DEF TickAsks, Steps
    <2>2. QED
      BY <1>1, <2>1 DEF TickAsks, TypeOK, document, machine, locks, history
  <1>2. CASE TickAsksNot(k)
    <2>1. job' \in [Actors -> Job]
      BY <1>2, AsTickTyped DEF TickAsksNot, Steps
    <2>2. QED
      BY <1>2, <2>1 DEF TickAsksNot, TypeOK, document, machine, locks, history
  <1>3. CASE ApplyAnswer(k)
    <2>1. job' \in [Actors -> Job]
      BY <1>3, AsTickTyped DEF ApplyAnswer, Steps
    <2>2. app' \in App /\ gate' \in {"open", "shut"}
      <3>1. [app EXCEPT !.ready = TRUE] \in App
        BY AppEdits DEF TypeOK
      <3>2. QED
        BY <1>3, <3>1 DEF ApplyAnswer, TypeOK
    <2>3. QED
      BY <1>3, <2>1, <2>2 DEF ApplyAnswer, TypeOK, document, machine, locks, history
  <1>4. QED
    BY <1>1, <1>2, <1>3 DEF Probing

LEMMA ReapingTyped ==
    ASSUME TypeOK, NEW k \in Actors, Reap(k) \/ Expires(k) \/ Expired(k) \/ EndStop(k)
    PROVE  TypeOK'
  <1>1. CASE Reap(k)
    <2>1. job' \in [Actors -> Job]
      BY <1>1, GotoTyped DEF Reap, Steps
    <2>2. app' \in App /\ gate' \in {"open", "shut"} /\ declined' \in BOOLEAN /\ runs' \in Configs
      BY <1>1, FailTyped DEF Reap, TypeOK, history
    <2>3. QED
      BY <1>1, <2>1, <2>2 DEF Reap, TypeOK, document, machine, Optional
  <1>2. CASE Expires(k)
    <2>1. job' \in [Actors -> Job] /\ app' \in App /\ UNCHANGED history
      BY <1>2, BeginStopTyped DEF Expires, Steps
    <2>2. QED
      BY <1>2, <2>1, EventTyped DEF Expires, TypeOK, document, machine, history, Optional
  <1>3. CASE Expired(k)
    <2>1. job' \in [Actors -> Job]
      BY <1>3, GotoTyped DEF Expired, Steps
    <2>2. app' \in App /\ gate' \in {"open", "shut"} /\ declined' \in BOOLEAN /\ runs' \in Configs
      BY <1>3, FailTyped DEF Expired, TypeOK
    <2>3. QED
      BY <1>3, <2>1, <2>2 DEF Expired, TypeOK, document, machine, locks
  <1>4. CASE EndStop(k)
    <2>1. job' \in [Actors -> Job]
      <3>1. job[k] \in Job /\ "idle" \in Steps
        BY DEF TypeOK, Steps
      <3>2. Moves(k, [job[k] EXCEPT !.dying = None])
        BY <1>4 DEF EndStop, Moves, TypeOK
      <3>3. QED
        BY <3>1, <3>2, JobEdits, MovesTyped
    <2>2. QED
      BY <1>4, <2>1 DEF EndStop, TypeOK, document, machine, locks, history
  <1>5. QED
    BY <1>1, <1>2, <1>3, <1>4

LEMMA AdvancingTyped ==
    ASSUME TypeOK, NEW k \in Actors,
           Advance(k) \/ Advanced(k) \/ (alive = {} /\ Launch(k)) \/ LaunchFails(k)
    PROVE  TypeOK'
  <1>1. CASE Advance(k)
    <2>1. /\ job' \in [Actors -> Job] /\ app' \in App /\ UNCHANGED history
          /\ lock' \in Optional(Actors) /\ passing' \in Optional(Actors)
      <3>1. CASE BeginStop(k, "advanced") /\ UNCHANGED locks
        BY <3>1, BeginStopTyped DEF Steps, locks, TypeOK
      <3>2. CASE Done(k) /\ UNCHANGED <<app, history>>
        BY <3>2, DoneTyped DEF Optional, TypeOK, history
      <3>3. CASE Goto(k, "spawn") /\ UNCHANGED <<app, locks, history>>
        BY <3>3, GotoTyped DEF Steps, locks, TypeOK, history
      <3>4. QED
        BY <1>1, <3>1, <3>2, <3>3 DEF Advance
    <2>2. QED
      BY <1>1, <2>1 DEF Advance, TypeOK, document, machine, history
  <1>2. CASE Advanced(k)
    <2>1. /\ job' \in [Actors -> Job]
          /\ lock' \in Optional(Actors) /\ passing' \in Optional(Actors)
      BY <1>2, DoneTyped DEF Advanced, Optional
    <2>2. QED
      BY <1>2, <2>1 DEF Advanced, TypeOK, document, machine, history
  <1>3. CASE alive = {} /\ Launch(k)
    <2>1. /\ job' \in [Actors -> Job]
          /\ lock' \in Optional(Actors) /\ passing' \in Optional(Actors)
      BY <1>3, DoneTyped DEF Launch, Optional
    <2>2. PICK p \in Processes :
            /\ alive' = alive \cup {p}
            /\ app' = [app EXCEPT !.child = p, !.due = TRUE, !.halted = FALSE]
      <3>1. \E p \in Processes : p \notin alive
        BY <1>3 DEF Processes
      <3>2. QED
        BY <1>3, <3>1 DEF Launch
    <2>3. app' \in App /\ alive' \subseteq Processes
      BY <2>2, AppEdits DEF TypeOK
    <2>4. runs' \in Configs
      BY <1>3 DEF Launch, TypeOK, App
    <2>5. QED
      BY <1>3, <2>1, <2>3, <2>4 DEF Launch, TypeOK, document, machine
  <1>4. CASE LaunchFails(k)
    <2>1. job' \in [Actors -> Job]
      BY <1>4, GotoTyped DEF LaunchFails, Steps
    <2>2. app' \in App /\ gate' \in {"open", "shut"} /\ declined' \in BOOLEAN /\ runs' \in Configs
      BY <1>4, FailTyped DEF LaunchFails, TypeOK
    <2>3. QED
      BY <1>4, <2>1, <2>2, EventTyped DEF LaunchFails, TypeOK, document, machine, locks
  <1>5. QED
    BY <1>1, <1>2, <1>3, <1>4

LEMMA StartOverTyped ==
    ASSUME TypeOK, NEW k \in Actors, Hold, StartOver(k)
    PROVE  /\ job' \in [Actors -> Job] /\ app' \in App
           /\ lock' \in Optional(Actors) /\ passing' = passing
  BY HoldTyped, ReadDocumentTyped DEF StartOver, Optional

(* A new configuration keeps the process, if there is one.                 *)
LEMMA InstallTyped ==
    ASSUME TypeOK, NEW k \in Actors, Configure(k)
    PROVE  /\ app' \in App /\ app'.config = job[k].config /\ app'.target = job[k].target
           /\ app'.child = app.child
           /\ IF Changed(k)
                THEN ~app'.ready /\ gate' = "shut" /\ declined' = FALSE /\ runs' = runs
                ELSE /\ app'.ready = app.ready /\ app'.halted = app.halted
                     /\ UNCHANGED history
           /\ Moves(k, [job[k] EXCEPT !.step = "advance"]) /\ job' \in [Actors -> Job]
  <1> DEFINE kept == [app EXCEPT !.config = job[k].config, !.target = job[k].target,
                                 !.pending = FALSE]
  <1>1. app \in App /\ job[k].config \in Configs /\ job[k].target \in BOOLEAN
    BY DEF TypeOK, Job
  <1>2. /\ kept \in App /\ kept.config = job[k].config /\ kept.target = job[k].target
        /\ kept.child = app.child /\ kept.ready = app.ready /\ kept.halted = app.halted
    BY <1>1 DEF App
  <1>3. app' = IF Changed(k) THEN [kept EXCEPT !.halted = FALSE, !.due = TRUE, !.ready = FALSE]
                             ELSE kept
    BY DEF Configure, Install
  <1> HIDE DEF kept
  <1>4. /\ app' \in App /\ app'.config = kept.config /\ app'.target = kept.target
        /\ app'.child = kept.child
        /\ IF Changed(k) THEN ~app'.ready ELSE app' = kept
    BY <1>2, <1>3 DEF App
  <1>5. Goto(k, "advance")
    BY DEF Configure
  <1>6. Moves(k, [job[k] EXCEPT !.step = "advance"]) /\ job' \in [Actors -> Job]
    BY <1>5, GotoTyped DEF Steps
  <1>7. QED
    BY <1>2, <1>4, <1>6 DEF Configure, Shut, history

LEMMA ConfigureTyped ==
    ASSUME TypeOK, NEW k \in Actors, Configure(k)
    PROVE  /\ job' \in [Actors -> Job] /\ app' \in App
           /\ gate' \in {"open", "shut"} /\ declined' \in BOOLEAN /\ runs' \in Configs
  BY InstallTyped DEF TypeOK, history

LEMMA RemoveTyped ==
    ASSUME TypeOK, NEW k \in Actors, Remove(k)
    PROVE  /\ app' = NewApp /\ app' \in App
           /\ gate' = "shut" /\ declined' = FALSE /\ runs' = runs
           /\ Moves(k, [job[k] EXCEPT !.dying = app.child, !.step = "removed"])
           /\ job' \in [Actors -> Job]
  <1>1. job[k] \in Job /\ app.child \in Optional(Processes)
    BY DEF TypeOK, App
  <1>2. [job[k] EXCEPT !.dying = app.child, !.step = "removed"] \in Job
    BY <1>1, JobEdits DEF Steps
  <1>3. [job EXCEPT ![k].dying = app.child, ![k].step = "removed"]
          = [job EXCEPT ![k] = [job[k] EXCEPT !.dying = app.child, !.step = "removed"]]
    BY DEF TypeOK
  <1>4. QED
    BY <1>2, <1>3, MovesTyped, NewAppIsAnApp DEF Remove, Forgotten, Shut, Moves

LEMMA PassingTyped ==
    ASSUME TypeOK, NEW k \in Actors, Passing(k) \/ EnterPass(k)
    PROVE  TypeOK'
  <1>1. CASE PassStartsOver(k)
    <2>1. job' \in [Actors -> Job]
      BY <1>1, ReadDocumentTyped DEF PassStartsOver
    <2>2. app' \in App
      BY <1>1, HoldTyped DEF PassStartsOver, TypeOK
    <2>3. QED
      BY <1>1, <2>1, <2>2 DEF PassStartsOver, TypeOK, document, machine, locks, history
  <1>2. CASE Superseded(k)
    <2>1. Hold /\ StartOver(k)
      BY <1>2 DEF Superseded
    <2>2. QED
      BY <1>2, <2>1, StartOverTyped DEF Superseded, TypeOK, document, machine, history
  <1>3. CASE Visit(k)
    <2>1. /\ job' \in [Actors -> Job] /\ app' \in App
          /\ gate' \in {"open", "shut"} /\ declined' \in BOOLEAN /\ runs' \in Configs
      <3>1. CASE Remove(k)
        BY <3>1, RemoveTyped DEF TypeOK
      <3>2. CASE BeginStop(k, "install")
        BY <3>2, BeginStopTyped DEF TypeOK, history, Steps
      <3>3. CASE Configure(k)
        BY <3>3, ConfigureTyped
      <3>4. QED
        BY <1>3, <3>1, <3>2, <3>3 DEF Visit
    <2>2. QED
      BY <1>3, <2>1 DEF Visit, TypeOK, document, machine, Optional
  <1>4. CASE Reconfigured(k)
    BY <1>4, ConfigureTyped DEF Reconfigured, TypeOK, document, machine, locks
  <1>5. CASE Removed(k)
    <2>1. job' \in [Actors -> Job]
      BY <1>5, GotoTyped DEF Removed, Steps
    <2>2. QED
      BY <1>5, <2>1 DEF Removed, TypeOK, document, machine, locks, history
  <1>6. CASE EnterPass(k)
    <2>1. job' \in [Actors -> Job] /\ requested' \in BOOLEAN /\ passing' \in Optional(Actors)
      BY <1>6, ReadDocumentTyped DEF EnterPass, TypeOK, Optional
    <2>2. QED
      BY <1>6, <2>1 DEF EnterPass, TypeOK, machine, history
  <1>7. QED
    BY <1>1, <1>2, <1>3, <1>4, <1>5, <1>6 DEF Passing

LEMMA RestartTyped ==
    ASSUME TypeOK, NEW h \in Handlers,
           EnterRestart(h) \/ StopToRestart(h) \/ Restarted(h) \/ GiveUp(h)
    PROVE  TypeOK'
  <1>0. h \in Actors /\ job[h] \in Job /\ app \in App
    BY DEF Actors, TypeOK
  <1>1. CASE EnterRestart(h)
    <2>1. Moves(h, [job[h] EXCEPT !.step = "restart", !.kind = "restart"])
      BY <1>0, <1>1 DEF EnterRestart, Moves, TypeOK
    <2>2. job' \in [Actors -> Job]
      BY <1>0, <2>1, JobEdits, MovesTyped DEF Steps
    <2>3. QED
      BY <1>0, <1>1, <2>2, EventTyped DEF EnterRestart, TypeOK, document, machine, history, Optional
  <1>2. CASE StopToRestart(h)
    <2>1. /\ job' \in [Actors -> Job] /\ app' \in App /\ UNCHANGED history
          /\ lock' \in Optional(Actors) /\ passing' \in Optional(Actors)
      <3>1. CASE Done(h) /\ UNCHANGED <<app, history>>
        BY <1>0, <3>1, DoneTyped DEF Optional, TypeOK, history
      <3>2. CASE lock' = h /\ BeginStop(h, "restarted") /\ UNCHANGED passing
        BY <1>0, <3>2, BeginStopTyped DEF Steps, Optional, TypeOK
      <3>3. QED
        BY <1>2, <3>1, <3>2 DEF StopToRestart
    <2>2. QED
      BY <1>2, <2>1 DEF StopToRestart, TypeOK, document, machine, history
  <1>3. CASE Restarted(h)
    <2>1. job' \in [Actors -> Job]
      BY <1>0, <1>3, GotoTyped DEF Restarted, Steps
    <2>2. app' \in App
      BY <1>0, <1>3, AppEdits DEF Restarted
    <2>3. QED
      BY <1>3, <2>1, <2>2 DEF Restarted, TypeOK, document, machine, locks, Shut
  <1>4. CASE GiveUp(h)
    <2>1. job' \in [Actors -> Job]
      BY <1>0, <1>4, NoJobIsAJob DEF GiveUp, TypeOK
    <2>2. QED
      BY <1>4, <2>1 DEF GiveUp, TypeOK, document, machine, history, Optional
  <1>5. QED
    BY <1>1, <1>2, <1>3, <1>4

----------------------------------------------------------------------------
(* What a step does to the jobs: its actor's, and no other's.              *)

LEMMA Fields ==
    ASSUME NEW j \in Job, NEW step, NEW p
    PROVE  /\ [j EXCEPT !.step = step].step = step
           /\ [j EXCEPT !.step = step].dying = j.dying
           /\ [j EXCEPT !.step = step].kind = j.kind
           /\ [j EXCEPT !.step = step].config = j.config
           /\ [j EXCEPT !.step = step].target = j.target
           /\ [j EXCEPT !.step = step].generation = j.generation
           /\ [j EXCEPT !.dying = p, !.step = step].step = step
           /\ [j EXCEPT !.dying = p, !.step = step].dying = p
           /\ [j EXCEPT !.dying = p, !.step = step].kind = j.kind
           /\ [j EXCEPT !.dying = p, !.step = step].config = j.config
           /\ [j EXCEPT !.dying = p, !.step = step].target = j.target
           /\ [j EXCEPT !.dying = p, !.step = step].generation = j.generation
  BY DEF Job

(* k goes to a step and otherwise stays as it is, but for what it stops.   *)
Turns(k, step, dying) ==
    /\ job'[k].step = step /\ job'[k].dying = dying
    /\ job'[k].kind = job[k].kind /\ job'[k].config = job[k].config
    /\ job'[k].target = job[k].target /\ job'[k].generation = job[k].generation
    /\ \A m \in Actors \ {k} : job'[m] = job[m]

(* k begins something else.                                                *)
Begins(k, step, kind) ==
    /\ job'[k].step = step /\ job'[k].dying = None /\ job'[k].kind = kind
    /\ \A m \in Actors \ {k} : job'[m] = job[m]

LEMMA GotoTurns ==
    ASSUME TypeOK, NEW k \in Actors, NEW step \in Steps, Goto(k, step)
    PROVE  Turns(k, step, job[k].dying)
  <1> DEFINE j == [job[k] EXCEPT !.step = step]
  <1>0. job[k] \in Job /\ app.child \in Optional(Processes)
    BY DEF TypeOK, App
  <1>1. j \in Job
    BY <1>0, JobEdits
  <1>2. /\ j.step = step /\ j.dying = job[k].dying
        /\ j.kind = job[k].kind /\ j.config = job[k].config
        /\ j.target = job[k].target /\ j.generation = job[k].generation
    BY <1>0, Fields
  <1>3. Moves(k, j)
    BY GotoTyped
  <1> HIDE DEF j
  <1>4. QED
    BY <1>1, <1>2, <1>3, MovesTyped DEF Turns

LEMMA BeginStopTurns ==
    ASSUME TypeOK, NEW k \in Actors, NEW step \in Steps, BeginStop(k, step)
    PROVE  Turns(k, step, app.child)
  <1> DEFINE j == [job[k] EXCEPT !.dying = app.child, !.step = step]
  <1>0. job[k] \in Job /\ app.child \in Optional(Processes)
    BY DEF TypeOK, App
  <1>1. j \in Job
    BY <1>0, JobEdits
  <1>2. /\ j.step = step /\ j.dying = app.child
        /\ j.kind = job[k].kind /\ j.config = job[k].config
        /\ j.target = job[k].target /\ j.generation = job[k].generation
    BY <1>0, Fields
  <1>3. Moves(k, j)
    BY BeginStopTyped
  <1> HIDE DEF j
  <1>4. QED
    BY <1>1, <1>2, <1>3, MovesTyped DEF Turns

LEMMA RemoveTurns ==
    ASSUME TypeOK, NEW k \in Actors, Remove(k)
    PROVE  Turns(k, "removed", app.child)
  <1> DEFINE j == [job[k] EXCEPT !.dying = app.child, !.step = "removed"]
  <1>0. job[k] \in Job /\ app.child \in Optional(Processes)
    BY DEF TypeOK, App
  <1>1. j \in Job
    BY <1>0, JobEdits DEF Steps
  <1>2. /\ j.step = "removed" /\ j.dying = app.child
        /\ j.kind = job[k].kind /\ j.config = job[k].config
        /\ j.target = job[k].target /\ j.generation = job[k].generation
    BY <1>0, Fields
  <1>3. Moves(k, j)
    BY RemoveTyped
  <1> HIDE DEF j
  <1>4. QED
    BY <1>1, <1>2, <1>3, MovesTyped DEF Turns

LEMMA EndStopTurns ==
    ASSUME TypeOK, NEW k \in Actors, EndStop(k)
    PROVE  Turns(k, job[k].step, None)
  BY DEF EndStop, TypeOK, Job, Turns

LEMMA ConfigureTurns ==
    ASSUME TypeOK, NEW k \in Actors, Configure(k)
    PROVE  Turns(k, "advance", job[k].dying)
  BY GotoTurns DEF Configure, Steps

LEMMA NoJobBegins ==
    ASSUME TypeOK, NEW k \in Actors, Moves(k, NoJob)
    PROVE  Begins(k, "idle", "tick")
  BY NoJobIsAJob, MovesTyped DEF Begins, NoJob

LEMMA AsTickBegins ==
    ASSUME TypeOK, NEW k \in Actors, NEW step \in Steps, NEW answer \in BOOLEAN,
           AsTick(k, step, answer)
    PROVE  Begins(k, step, "tick")
  <1> DEFINE j == [NoJob EXCEPT !.step = step, !.good = answer]
  <1>1. Moves(k, j) /\ j \in Job
    BY AsTickTyped
  <1>2. j.step = step /\ j.dying = None /\ j.kind = "tick"
    BY DEF NoJob
  <1> HIDE DEF j
  <1>3. QED
    BY <1>1, <1>2, MovesTyped DEF Begins

LEMMA ReadDocumentBegins ==
    ASSUME TypeOK, NEW k \in Actors, ReadDocument(k)
    PROVE  /\ Begins(k, "visit", "pass")
           /\ job'[k].config = live.config /\ job'[k].target = output
           /\ job'[k].generation = live.generation
  <1>1. Moves(k, Reading) /\ Reading \in Job
    BY ReadDocumentTyped
  <1>2. /\ Reading.step = "visit" /\ Reading.dying = None /\ Reading.kind = "pass"
        /\ Reading.config = live.config /\ Reading.target = output
        /\ Reading.generation = live.generation
    BY DEF Reading, NoJob
  <1>3. QED
    BY <1>1, <1>2, MovesTyped DEF Begins

LEMMA EnterRestartBegins ==
    ASSUME TypeOK, NEW h \in Handlers, EnterRestart(h)
    PROVE  Begins(h, "restart", "restart")
  BY DEF EnterRestart, At, TypeOK, Job, Begins, Actors

LEMMA DoneMoves ==
    ASSUME TypeOK, NEW k \in Actors, Done(k)
    PROVE  IF job[k].kind = "pass"
             THEN Turns(k, "poll", job[k].dying) /\ passing' = passing
             ELSE Begins(k, "idle", "tick") /\ passing' = IF passing = k THEN None ELSE passing
  BY DoneTyped, GotoTurns, NoJobBegins DEF Done, Steps

----------------------------------------------------------------------------
(* Who works on the app holds its lock.                                    *)

LEMMA ExclusiveIf ==
    ASSUME Exclusive, NEW k \in Actors,
           \A m \in Actors \ {k} : job'[m] = job[m],
           lock' = lock \/ lock \in {None, k},
           job'[k].step \in Inside \/ job'[k].dying # None => lock' = k
    PROVE  Exclusive'
  BY SupervisorAssumption DEF Exclusive

(* Steps that are taken by nobody the lock is for.                         *)
Outside ==
    \/ Write \/ Plug \/ DelayElapses
    \/ \E u \in Urls : DependencyTurns(u)
    \/ \E p \in alive : Exits(p)
    \/ UNCHANGED vars

LEMMA OutsideKeeps ==
    ASSUME Outside
    PROVE  /\ UNCHANGED <<job, locks, history>>
           /\ alive' \subseteq alive
           /\ app' = app \/ app' = [app EXCEPT !.due = TRUE]
           /\ requested' \/ UNCHANGED <<requested, live, output>>
  BY DEF Outside, Write, Plug, DelayElapses, DependencyTurns, Exits, vars, locks, history,
         document, machine

LEMMA ProbingBegins ==
    ASSUME TypeOK, NEW k \in Actors, Probing(k)
    PROVE  \E step \in {"answered", "tick"} : Begins(k, step, "tick")
  <1>1. CASE TickAsks(k)
    <2>1. Acceptable \in BOOLEAN
      BY DEF Acceptable
    <2>2. QED
      BY <1>1, <2>1, AsTickBegins DEF TickAsks, Steps
  <1>2. CASE TickAsksNot(k) \/ ApplyAnswer(k)
    BY <1>2, AsTickBegins DEF TickAsksNot, ApplyAnswer, Steps
  <1>3. QED
    BY <1>1, <1>2 DEF Probing

LEMMA ExclusiveStep ==
    ASSUME TypeOK, Exclusive, [Next]_vars
    PROVE  Exclusive'
  <1>1. CASE Outside
    BY <1>1, OutsideKeeps DEF Exclusive, locks
  <1>2. ASSUME NEW k \in Actors, Probing(k) PROVE Exclusive'
    <2>1. lock' = lock /\ \E step \in {"answered", "tick"} : Begins(k, step, "tick")
      BY <1>2, ProbingBegins DEF Probing, TickAsks, TickAsksNot, ApplyAnswer, locks
    <2>2. QED
      BY <2>1, ExclusiveIf DEF Begins, Inside
  <1>3. ASSUME NEW k \in Actors, Locked(k) PROVE Exclusive'
    <2>1. CASE Reap(k)
      <3>1. Turns(k, "advance", None) /\ lock = None /\ lock' = k
        BY <2>1, GotoTurns DEF Reap, At, Steps
      <3>2. QED
        BY <3>1, ExclusiveIf DEF Turns, Inside
    <2>2. CASE Expires(k)
      <3>1. Turns(k, "failed", app.child) /\ lock = None /\ lock' = k
        BY <2>2, BeginStopTurns DEF Expires, At, Steps
      <3>2. QED
        BY <3>1, ExclusiveIf DEF Turns, Inside
    <2>3. CASE Expired(k)
      <3>1. Turns(k, "advance", None) /\ lock = k /\ lock' = lock
        BY <2>3, GotoTurns DEF Expired, At, Steps, Exclusive, Inside, locks
      <3>2. QED
        BY <3>1, ExclusiveIf DEF Turns, Inside
    <2>4. CASE Advance(k) \/ Advanced(k) \/ Launch(k)
      <3>1. lock = k /\ job[k].dying = None
        BY <2>4 DEF Advance, Advanced, Launch, At, Exclusive, Inside
      <3>2. CASE Done(k)
        BY <3>1, <3>2, DoneMoves, DoneTyped, ExclusiveIf DEF Turns, Begins, Inside
      <3>3. CASE BeginStop(k, "advanced") /\ lock' = lock
        BY <3>1, <3>3, BeginStopTurns, ExclusiveIf DEF Turns, Inside, Steps
      <3>4. CASE Goto(k, "spawn") /\ lock' = lock
        BY <3>1, <3>4, GotoTurns, ExclusiveIf DEF Turns, Inside, Steps
      <3>5. QED
        BY <2>4, <3>2, <3>3, <3>4 DEF Advance, Advanced, Launch, locks
    <2>5. CASE LaunchFails(k)
      <3>1. Turns(k, "advanced", None) /\ lock = k /\ lock' = lock
        BY <2>5, GotoTurns DEF LaunchFails, At, Steps, Exclusive, Inside, locks
      <3>2. QED
        BY <3>1, ExclusiveIf DEF Turns, Inside
    <2>6. CASE EndStop(k)
      <3>1. Turns(k, job[k].step, None) /\ lock = k /\ lock' = lock
        BY <2>6, EndStopTurns DEF EndStop, Exclusive, locks
      <3>2. QED
        BY <3>1, ExclusiveIf DEF Turns, Inside
    <2>7. QED
      BY <1>3, <2>1, <2>2, <2>3, <2>4, <2>5, <2>6 DEF Locked
  <1>4. ASSUME NEW k \in Actors, Passing(k) \/ EnterPass(k) PROVE Exclusive'
    <2>1. CASE PassStartsOver(k) \/ Superseded(k) \/ EnterPass(k)
      <3>1. Begins(k, "visit", "pass")
        BY <2>1, ReadDocumentBegins DEF PassStartsOver, Superseded, StartOver, EnterPass
      <3>2. lock' = lock \/ lock = k
        BY <2>1 DEF PassStartsOver, Superseded, EnterPass, locks
      <3>3. QED
        BY <3>1, <3>2, ExclusiveIf DEF Begins, Inside
    <2>2. CASE Visit(k)
      <3>1. \E step \in Inside : \E dying : Turns(k, step, dying)
        <4>1. CASE Remove(k)
          BY <4>1, RemoveTurns DEF Inside
        <4>2. CASE BeginStop(k, "install")
          BY <4>2, BeginStopTurns DEF Inside, Steps
        <4>3. CASE Configure(k)
          BY <4>3, ConfigureTurns DEF Inside
        <4>4. QED
          BY <2>2, <4>1, <4>2, <4>3 DEF Visit
      <3>2. lock = None /\ lock' = k
        BY <2>2 DEF Visit
      <3>3. QED
        BY <3>1, <3>2, ExclusiveIf DEF Turns
    <2>3. CASE Reconfigured(k) \/ Removed(k)
      <3>1. Turns(k, "advance", None) /\ lock = k /\ lock' = lock
        BY <2>3, GotoTurns, ConfigureTurns
           DEF Reconfigured, Removed, At, Steps, Exclusive, Inside, locks
      <3>2. QED
        BY <3>1, ExclusiveIf DEF Turns, Inside
    <2>4. QED
      BY <1>4, <2>1, <2>2, <2>3 DEF Passing
  <1>5. ASSUME NEW h \in Handlers,
               EnterRestart(h) \/ StopToRestart(h) \/ Restarted(h) \/ GiveUp(h)
        PROVE  Exclusive'
    <2>0. h \in Actors
      BY DEF Actors
    <2>1. CASE EnterRestart(h)
      BY <2>0, <2>1, EnterRestartBegins, ExclusiveIf DEF EnterRestart, Begins, Inside
    <2>2. CASE StopToRestart(h)
      <3>1. lock = None
        BY <2>2 DEF StopToRestart
      <3>2. CASE Done(h)
        <4>1. job[h].dying = None
          BY <2>2 DEF StopToRestart, At
        <4>2. QED
          BY <2>0, <3>1, <3>2, <4>1, DoneMoves, DoneTyped, ExclusiveIf DEF Turns, Begins, Inside
      <3>3. CASE lock' = h /\ BeginStop(h, "restarted")
        BY <2>0, <3>1, <3>3, BeginStopTurns, ExclusiveIf DEF Turns, Steps
      <3>4. QED
        BY <2>2, <3>2, <3>3 DEF StopToRestart
    <2>3. CASE Restarted(h)
      <3>1. Turns(h, "advance", None) /\ lock = h /\ lock' = lock
        BY <2>0, <2>3, GotoTurns DEF Restarted, At, Steps, Exclusive, Inside, locks
      <3>2. QED
        BY <2>0, <3>1, ExclusiveIf DEF Turns, Inside
    <2>4. CASE GiveUp(h)
      <3>1. Begins(h, "idle", "tick")
        BY <2>0, <2>4, NoJobBegins DEF GiveUp, Moves
      <3>2. QED
        BY <2>0, <2>4, <3>1, ExclusiveIf DEF GiveUp, Begins, Inside
    <2>5. QED
      BY <1>5, <2>1, <2>2, <2>3, <2>4
  <1>6. QED
    BY <1>1, <1>2, <1>3, <1>4, <1>5 DEF Next, Outside

----------------------------------------------------------------------------
(* The process in the record and the one being stopped are all there are.  *)

(* No process is lost sight of, and who has none in the record keeps none. *)
LEMMA ProcessedIf ==
    ASSUME Processed, NEW k \in Actors,
           \A m \in Actors \ {k} : job'[m] = job[m],
           alive' \subseteq alive,
           \A p \in alive' : p \in {app.child, job[k].dying} => p \in {app'.child, job'[k].dying},
           job'[k].step \in Childless \/ job'[k].dying # None => app'.child = None,
           app'.child \in {None, app.child}
    PROVE  Processed'
  <1>1. ASSUME NEW p \in alive' PROVE p \in Known'
    <2>1. p \in Known
      BY DEF Processed
    <2>2. CASE p \in {app.child, job[k].dying}
      BY <2>2 DEF Known
    <2>3. CASE \E m \in Actors \ {k} : p = job[m].dying
      BY <2>3 DEF Known
    <2>4. QED
      BY <2>1, <2>2, <2>3 DEF Known
  <1>2. ASSUME NEW m \in Actors, job'[m].step \in Childless \/ job'[m].dying # None
        PROVE  app'.child = None
    BY <1>2 DEF Processed
  <1>3. QED
    BY <1>1, <1>2, Zenon DEF Processed

(* Between deciding to launch and launching there is no process at all.    *)
LEMMA NothingAlive ==
    ASSUME TypeOK, Exclusive, Processed, NEW k \in Actors, At(k, "spawn")
    PROVE  alive = {} /\ lock = k
  <1>1. lock = k /\ app.child = None /\ job[k].dying = None
    BY DEF At, Exclusive, Processed, Inside, Childless
  <1>2. \A m \in Actors : job[m].dying = None
    BY <1>1 DEF Exclusive
  <1>3. alive \subseteq {None}
    BY <1>1, <1>2 DEF Processed, Known
  <1>4. QED
    BY <1>1, <1>3, SupervisorAssumption DEF TypeOK

LEMMA ProcessedStep ==
    ASSUME TypeOK, Exclusive, Processed, [Next]_vars
    PROVE  Processed'
  <1>0. app \in App
    BY DEF TypeOK
  <1>1. CASE Outside
    <2>1. app'.child = app.child /\ alive' \subseteq alive /\ job' = job
      BY <1>0, <1>1, OutsideKeeps DEF App
    <2>2. QED
      BY <2>1 DEF Processed, Known
  <1>2. ASSUME NEW k \in Actors, Probing(k) PROVE Processed'
    <2>1. \E step \in {"answered", "tick"} : Begins(k, step, "tick")
      BY <1>2, ProbingBegins
    <2>2. alive' = alive /\ app'.child = app.child /\ job[k].dying = None
      BY <1>0, <1>2 DEF Probing, TickAsks, TickAsksNot, ApplyAnswer, App, MayTick, At
    <2>3. QED
      BY <2>1, <2>2, ProcessedIf DEF Begins, Childless, Inside
  <1>3. ASSUME NEW k \in Actors, Locked(k) PROVE Processed'
    <2>1. CASE Reap(k)
      <3>1. Turns(k, "advance", None) /\ job[k].dying = None /\ alive' = alive
        BY <2>1, GotoTurns DEF Reap, At, Steps
      <3>2. app'.child = app.child \/ (app.child \notin alive /\ app'.child = None)
        BY <2>1, FailTyped DEF Reap
      <3>3. QED
        BY <3>1, <3>2, ProcessedIf DEF Turns, Childless
    <2>2. CASE Expires(k)
      <3>1. Turns(k, "failed", app.child) /\ job[k].dying = None /\ alive' = alive
        BY <2>2, BeginStopTurns DEF Expires, At, Steps
      <3>2. app'.child = None
        BY <1>0, <2>2 DEF Expires, BeginStop, App
      <3>3. QED
        BY <3>1, <3>2, ProcessedIf DEF Turns
    <2>3. CASE Expired(k)
      <3>1. Turns(k, "advance", None) /\ job[k].dying = None /\ alive' = alive
        BY <2>3, GotoTurns DEF Expired, At, Steps
      <3>2. app.child = None /\ app'.child = None
        BY <2>3, FailTyped DEF Expired, At, Processed, Childless, Inside
      <3>3. QED
        BY <3>1, <3>2, ProcessedIf DEF Turns
    <2>4. CASE Advance(k) \/ Advanced(k)
      <3>1. job[k].dying = None /\ alive' = alive
        BY <2>4 DEF Advance, Advanced, At
      <3>2. CASE Done(k) /\ UNCHANGED app
        BY <3>1, <3>2, DoneMoves, ProcessedIf DEF Turns, Begins, Childless, Inside
      <3>3. CASE BeginStop(k, "advanced")
        <4>1. app'.child = None
          BY <1>0, <3>3 DEF BeginStop, App
        <4>2. QED
          BY <3>1, <3>3, <4>1, BeginStopTurns, ProcessedIf DEF Turns, Steps
      <3>4. CASE MayLaunch /\ Goto(k, "spawn") /\ UNCHANGED app
        BY <3>1, <3>4, GotoTurns, ProcessedIf DEF Turns, Steps, MayLaunch
      <3>5. QED
        BY <2>4, <3>2, <3>3, <3>4 DEF Advance, Advanced
    <2>5. CASE Launch(k)
      <3>1. alive = {} /\ lock = k /\ job[k].dying = None
        BY <2>5, NothingAlive DEF Launch, At
      <3>2. alive' \subseteq {app'.child}
        BY <1>0, <2>5, <3>1 DEF Launch, App
      <3>3. \A m \in Actors : job'[m].step \notin Childless /\ job'[m].dying = None
        <4>1. \A m \in Actors \ {k} : job[m].step \notin Inside /\ job[m].dying = None
          BY <3>1 DEF Exclusive
        <4>2. QED
          BY <2>5, <3>1, <4>1, DoneMoves DEF Launch, Turns, Begins, Childless, Inside
      <3>4. QED
        BY <3>2, <3>3 DEF Processed, Known
    <2>6. CASE LaunchFails(k)
      <3>1. Turns(k, "advanced", None) /\ job[k].dying = None /\ alive' = alive
        BY <2>6, GotoTurns DEF LaunchFails, At, Steps
      <3>2. app.child = None /\ app'.child = None
        BY <2>6, FailTyped DEF LaunchFails, At, Processed, Childless, Inside
      <3>3. QED
        BY <3>1, <3>2, ProcessedIf DEF Turns
    <2>7. CASE EndStop(k)
      <3>1. Turns(k, job[k].step, None) /\ alive' = alive \ {job[k].dying} /\ app' = app
        BY <2>7, EndStopTurns DEF EndStop
      <3>2. job[k].dying # None
        BY <2>7 DEF EndStop
      <3>3. app'.child = None
        BY <3>1, <3>2 DEF Processed
      <3>4. QED
        BY <3>1, <3>3, ProcessedIf DEF Turns
    <2>8. QED
      BY <1>3, <2>1, <2>2, <2>3, <2>4, <2>5, <2>6, <2>7 DEF Locked
  <1>4. ASSUME NEW k \in Actors, Passing(k) \/ EnterPass(k) PROVE Processed'
    <2>0. job[k].dying = None /\ alive' = alive
      BY <1>4
         DEF Passing, EnterPass, PassStartsOver, Superseded, Visit, Reconfigured, Removed, At
    <2>1. CASE PassStartsOver(k) \/ Superseded(k) \/ EnterPass(k)
      <3>1. Begins(k, "visit", "pass")
        BY <2>1, ReadDocumentBegins DEF PassStartsOver, Superseded, StartOver, EnterPass
      <3>2. app' = app \/ Hold
        BY <2>1 DEF PassStartsOver, Superseded, EnterPass
      <3>3. app'.child = app.child
        BY <1>0, <3>2, HoldTyped DEF App
      <3>4. QED
        BY <2>0, <3>1, <3>3, ProcessedIf DEF Begins, Childless, Inside
    <2>2. CASE Visit(k)
      <3>1. CASE Remove(k)
        <4>1. app'.child = None
          BY <3>1 DEF Remove, Forgotten, NewApp
        <4>2. QED
          BY <2>0, <3>1, <4>1, RemoveTurns, ProcessedIf DEF Turns
      <3>2. CASE BeginStop(k, "install")
        <4>1. app'.child = None
          BY <1>0, <3>2 DEF BeginStop, App
        <4>2. QED
          BY <2>0, <3>2, <4>1, BeginStopTurns, ProcessedIf DEF Turns, Steps
      <3>3. CASE Configure(k)
        BY <2>0, <3>3, InstallTyped, ConfigureTurns, ProcessedIf DEF Turns, Childless
      <3>4. QED
        BY <2>2, <3>1, <3>2, <3>3 DEF Visit
    <2>3. CASE Reconfigured(k) \/ Removed(k)
      <3>1. Turns(k, "advance", None)
        BY <2>0, <2>3, GotoTurns, ConfigureTurns DEF Reconfigured, Removed, Steps
      <3>2. app'.child = app.child
        BY <2>3, InstallTyped DEF Reconfigured, Removed
      <3>3. QED
        BY <2>0, <3>1, <3>2, ProcessedIf DEF Turns, Childless
    <2>4. QED
      BY <1>4, <2>1, <2>2, <2>3 DEF Passing
  <1>5. ASSUME NEW h \in Handlers,
               EnterRestart(h) \/ StopToRestart(h) \/ Restarted(h) \/ GiveUp(h)
        PROVE  Processed'
    <2>0. h \in Actors
      BY DEF Actors
    <2>1. CASE EnterRestart(h)
      <3>1. Begins(h, "restart", "restart") /\ job[h].dying = None
        BY <2>0, <2>1, EnterRestartBegins DEF EnterRestart, At
      <3>2. app' = app /\ alive' = alive
        BY <2>1 DEF EnterRestart
      <3>3. QED
        BY <2>0, <3>1, <3>2, ProcessedIf DEF Begins, Childless, Inside
    <2>2. CASE StopToRestart(h)
      <3>1. job[h].dying = None /\ alive' = alive
        BY <2>2 DEF StopToRestart, At
      <3>2. CASE Done(h) /\ UNCHANGED app
        BY <2>0, <3>1, <3>2, DoneMoves, ProcessedIf DEF Turns, Begins, Childless, Inside
      <3>3. CASE BeginStop(h, "restarted")
        <4>1. app'.child = None
          BY <1>0, <3>3 DEF BeginStop, App
        <4>2. QED
          BY <2>0, <3>1, <3>3, <4>1, BeginStopTurns, ProcessedIf DEF Turns, Steps
      <3>4. QED
        BY <2>2, <3>2, <3>3 DEF StopToRestart
    <2>3. CASE Restarted(h)
      <3>1. Turns(h, "advance", None) /\ job[h].dying = None /\ alive' = alive
        BY <2>0, <2>3, GotoTurns DEF Restarted, At, Steps
      <3>2. app'.child = app.child
        BY <1>0, <2>3 DEF Restarted, App
      <3>3. QED
        BY <2>0, <3>1, <3>2, ProcessedIf DEF Turns, Childless
    <2>4. CASE GiveUp(h)
      <3>1. Begins(h, "idle", "tick") /\ alive' = alive \ {job[h].dying} /\ app' = app
        BY <2>0, <2>4, NoJobBegins DEF GiveUp, Moves
      <3>2. QED
        BY <2>0, <3>1, ProcessedIf DEF Begins, Childless, Inside
    <2>5. QED
      BY <1>5, <2>1, <2>2, <2>3, <2>4
  <1>6. QED
    BY <1>1, <1>2, <1>3, <1>4, <1>5 DEF Next, Outside

----------------------------------------------------------------------------
(* The types, with the lock to rely on.                                    *)

LEMMA TypedStep ==
    ASSUME TypeOK, Exclusive, Processed, [Next]_vars
    PROVE  TypeOK'
  <1>1. ASSUME UNCHANGED vars PROVE TypeOK'
    BY <1>1 DEF vars, document, machine, locks, history, TypeOK
  <1>2. ASSUME NEW k \in Actors, Locked(k) PROVE TypeOK'
    <2>1. Launch(k) => alive = {}
      BY NothingAlive DEF Launch
    <2>2. QED
      BY <1>2, <2>1, ReapingTyped, AdvancingTyped DEF Locked
  <1>3. QED
    BY <1>1, <1>2, WorldTyped, ProbingTyped, PassingTyped, RestartTyped DEF Next

LEMMA LockingInit == Init => Exclusive /\ Processed
  BY DEF Init, Exclusive, Processed, NoJob, Inside, Childless

Locking == TypeOK /\ Exclusive /\ Processed

LEMMA LockingInvariant == Spec => []Locking
  <1>1. Init => Locking
    BY TypedInit, LockingInit DEF Locking
  <1>2. Locking /\ [Next]_vars => Locking'
    BY TypedStep, ExclusiveStep, ProcessedStep DEF Locking
  <1>3. QED
    BY <1>1, <1>2, PTL DEF Spec

(* Every variable keeps its type, whoever interrupts or drops whom.        *)
THEOREM SupervisorTypeCorrect == Spec => []TypeOK
  <1>1. Locking => TypeOK
    BY DEF Locking
  <1>2. QED
    BY <1>1, LockingInvariant, PTL

(* Over any interleaving of ticks, passes, restarts and dropped handlers   *)
(* the app has one process at most, and it is one that somebody will stop. *)
THEOREM NeverTwoProcesses == Spec => []OneProcess
  <1>1. ASSUME Locking PROVE OneProcess
    <2>1. \E x : alive \subseteq {x}
      <3>1. CASE app.child # None
        <4>1. \A k \in Actors : job[k].dying = None
          BY <1>1, <3>1 DEF Locking, Processed
        <4>2. alive \subseteq {None, app.child}
          BY <1>1, <4>1 DEF Locking, Processed, Known
        <4>3. QED
          BY <1>1, <4>2, SupervisorAssumption DEF Locking, TypeOK
      <3>2. CASE app.child = None /\ \E k \in Actors : job[k].dying # None
        <4>1. PICK k \in Actors : job[k].dying # None
          BY <3>2
        <4>2. \A m \in Actors \ {k} : job[m].dying = None
          BY <1>1, <4>1 DEF Locking, Exclusive
        <4>3. alive \subseteq {None, job[k].dying}
          BY <1>1, <3>2, <4>2 DEF Locking, Processed, Known
        <4>4. QED
          BY <1>1, <4>3, SupervisorAssumption DEF Locking, TypeOK
      <3>3. CASE app.child = None /\ \A k \in Actors : job[k].dying = None
        BY <1>1, <3>3 DEF Locking, Processed, Known
      <3>4. QED
        BY <3>1, <3>2, <3>3
    <2>2. PICK x : alive \subseteq {x}
      BY <2>1
    <2>3. Cardinality(alive) \in {0, 1}
      <3>1. alive = {} \/ alive = {x}
        BY <2>2
      <3>2. QED
        BY <3>1, FS_EmptySet, FS_Singleton
    <2>4. QED
      BY <1>1, <2>3 DEF Locking, Processed, OneProcess
  <1>2. QED
    BY <1>1, LockingInvariant, PTL

----------------------------------------------------------------------------
(* What the record says of the app's past.                                 *)

LEMMA RecordedIf ==
    ASSUME Recorded, UNCHANGED history,
           app'.ready = app.ready, app'.halted = app.halted, app'.config = app.config,
           app'.child \in {None, app.child}
    PROVE  Recorded'
  BY DEF Recorded, history

LEMMA FailRecords == ASSUME TypeOK, Recorded, Fail PROVE Recorded'
  BY FailTyped DEF Recorded

LEMMA ConfigureRecords ==
    ASSUME TypeOK, Recorded, NEW k \in Actors, Configure(k), app.child # None => ~Changed(k)
    PROVE  Recorded'
  <1>1. CASE Changed(k)
    BY <1>1, InstallTyped DEF Recorded
  <1>2. CASE ~Changed(k)
    BY <1>2, InstallTyped DEF Recorded, Changed, history
  <1>3. QED
    BY <1>1, <1>2

LEMMA RecordedStep ==
    ASSUME Locking, Recorded, Decided, [Next]_vars
    PROVE  Recorded'
  <1>0. TypeOK /\ app \in App
    BY DEF Locking, TypeOK
  <1>1. CASE Outside
    <2>1. /\ app'.ready = app.ready /\ app'.halted = app.halted
          /\ app'.config = app.config /\ app'.child = app.child /\ UNCHANGED history
      BY <1>0, <1>1, OutsideKeeps DEF App
    <2>2. QED
      BY <2>1, RecordedIf
  <1>2. ASSUME NEW k \in Actors, Probing(k) PROVE Recorded'
    <2>1. CASE UNCHANGED <<app, history>>
      BY <2>1, RecordedIf
    <2>2. CASE app' = [app EXCEPT !.ready = TRUE] /\ gate' = "open" /\ UNCHANGED <<runs, declined>>
      BY <1>0, <2>2 DEF Recorded, App
    <2>3. QED
      BY <1>2, <2>1, <2>2 DEF Probing, TickAsks, TickAsksNot, ApplyAnswer, history
  <1>3. ASSUME NEW k \in Actors, Locked(k) PROVE Recorded'
    <2>1. CASE UNCHANGED <<app, history>>
      BY <2>1, RecordedIf
    <2>2. CASE Fail
      BY <1>0, <2>2, FailRecords
    <2>3. CASE app' = [app EXCEPT !.child = None] /\ UNCHANGED history
      <3>1. /\ app'.ready = app.ready /\ app'.halted = app.halted
            /\ app'.config = app.config /\ app'.child = None
        BY <1>0, <2>3 DEF App
      <3>2. QED
        BY <2>3, <3>1, RecordedIf
    <2>4. CASE Launch(k)
      <3>1. Runnable /\ ~app.halted
        BY <2>4 DEF Launch, At, Decided
      <3>2. /\ app'.config = app.config /\ app'.ready = app.ready
            /\ runs' = app.config /\ UNCHANGED <<gate, declined>>
        BY <1>0, <2>4 DEF Launch, App
      <3>3. ~declined /\ app.config # None /\ app.config.enabled
        BY <3>1 DEF Recorded, Runnable
      <3>4. QED
        BY <3>2, <3>3 DEF Recorded
    <2>5. QED
      BY <1>3, <2>1, <2>2, <2>3, <2>4
         DEF Locked, Reap, Expires, Expired, Advance, Advanced, LaunchFails, EndStop, BeginStop
  <1>4. ASSUME NEW k \in Actors, Passing(k) \/ EnterPass(k) PROVE Recorded'
    <2>1. CASE UNCHANGED <<app, history>>
      BY <2>1, RecordedIf
    <2>2. CASE Hold /\ UNCHANGED history
      <3>1. /\ app'.ready = app.ready /\ app'.halted = app.halted
            /\ app'.config = app.config /\ app'.child = app.child
        BY <1>0, <2>2, HoldTyped DEF App
      <3>2. QED
        BY <2>2, <3>1, RecordedIf
    <2>3. CASE Visit(k)
      <3>1. CASE Remove(k)
        BY <3>1 DEF Recorded, Remove, Forgotten, NewApp
      <3>2. CASE BeginStop(k, "install")
        <4>1. /\ app'.ready = app.ready /\ app'.halted = app.halted
              /\ app'.config = app.config /\ app'.child = None /\ UNCHANGED history
          BY <1>0, <3>2 DEF App, BeginStop
        <4>2. QED
          BY <4>1, RecordedIf
      <3>3. CASE ~(Changed(k) /\ app.child # None) /\ Configure(k)
        BY <1>0, <3>3, ConfigureRecords
      <3>4. QED
        BY <2>3, <3>1, <3>2, <3>3 DEF Visit
    <2>4. CASE Reconfigured(k)
      <3>1. app.child = None
        BY <2>4 DEF Reconfigured, At, Locking, Processed, Childless, Inside
      <3>2. QED
        BY <1>0, <2>4, <3>1, ConfigureRecords DEF Reconfigured
    <2>5. QED
      BY <1>4, <2>1, <2>2, <2>3, <2>4
         DEF Passing, EnterPass, PassStartsOver, Superseded, Removed
  <1>5. ASSUME NEW h \in Handlers,
               EnterRestart(h) \/ StopToRestart(h) \/ Restarted(h) \/ GiveUp(h)
        PROVE  Recorded'
    <2>1. CASE UNCHANGED <<app, history>>
      BY <2>1, RecordedIf
    <2>2. CASE BeginStop(h, "restarted")
      <3>1. /\ app'.ready = app.ready /\ app'.halted = app.halted
            /\ app'.config = app.config /\ app'.child = None /\ UNCHANGED history
        BY <1>0, <2>2 DEF App, BeginStop
      <3>2. QED
        BY <3>1, RecordedIf
    <2>3. CASE Restarted(h)
      <3>1. app.child = None
        BY <2>3 DEF Restarted, At, Locking, Processed, Childless, Inside, Actors
      <3>2. ~app'.ready /\ app'.child = None /\ declined' = FALSE
        BY <1>0, <2>3, <3>1 DEF Restarted, App
      <3>3. QED
        BY <3>2 DEF Recorded
    <2>4. QED
      BY <1>5, <2>1, <2>2, <2>3 DEF EnterRestart, StopToRestart, GiveUp
  <1>6. QED
    BY <1>1, <1>2, <1>3, <1>4, <1>5 DEF Next, Outside

----------------------------------------------------------------------------
(* The decision to launch stands until it is carried out.                  *)

LEMMA DecidedIf ==
    ASSUME Exclusive, Decided, NEW k \in Actors,
           \A m \in Actors \ {k} : job'[m] = job[m],
           lock \in {None, k} \/ app' = app,
           job'[k].step # "spawn" \/ (job[k].step = "spawn" /\ app' = app)
    PROVE  Decided'
  <1>1. CASE app' = app
    BY <1>1 DEF Decided, Runnable
  <1>2. CASE lock \in {None, k} /\ job'[k].step # "spawn"
    <2>1. \A m \in Actors \ {k} : job[m].step # "spawn"
      BY <1>2, SupervisorAssumption DEF Exclusive, Inside
    <2>2. QED
      BY <1>2, <2>1 DEF Decided
  <1>3. QED
    BY <1>1, <1>2

LEMMA DecidedStep ==
    ASSUME Locking, Decided, [Next]_vars
    PROVE  Decided'
  <1>0. TypeOK /\ Exclusive /\ app \in App
    BY DEF Locking, TypeOK
  <1>1. CASE Outside
    <2>1. /\ app'.ready = app.ready /\ app'.halted = app.halted
          /\ app'.config = app.config /\ app'.target = app.target /\ job' = job
      BY <1>0, <1>1, OutsideKeeps DEF App
    <2>2. QED
      BY <2>1 DEF Decided, Runnable
  <1>2. ASSUME NEW k \in Actors, Probing(k) PROVE Decided'
    <2>1. \E step \in {"answered", "tick"} : Begins(k, step, "tick")
      BY <1>0, <1>2, ProbingBegins
    <2>2. lock = None
      BY <1>2 DEF Probing, TickAsks, TickAsksNot, ApplyAnswer
    <2>3. QED
      BY <1>0, <2>1, <2>2, DecidedIf DEF Begins
  <1>3. ASSUME NEW k \in Actors, Locked(k) PROVE Decided'
    <2>0. lock \in {None, k}
      BY <1>0, <1>3
         DEF Locked, Reap, Expires, Expired, Advance, Advanced, Launch, LaunchFails, EndStop,
             Exclusive, At, Inside
    <2>1. CASE Goto(k, "advance") \/ Goto(k, "advanced")
      BY <1>0, <2>0, <2>1, GotoTurns, DecidedIf DEF Turns, Steps
    <2>2. CASE BeginStop(k, "failed") \/ BeginStop(k, "advanced")
      BY <1>0, <2>0, <2>2, BeginStopTurns, DecidedIf DEF Turns, Steps
    <2>3. CASE Done(k)
      BY <1>0, <2>0, <2>3, DoneMoves, DecidedIf DEF Turns, Begins
    <2>4. CASE MayLaunch /\ Goto(k, "spawn") /\ app' = app
      <3>1. Runnable /\ ~app.halted /\ (app.config.url # None => app.ready)
        BY <2>4 DEF MayLaunch
      <3>2. \A m \in Actors \ {k} : job'[m] = job[m]
        BY <1>0, <2>4, GotoTurns DEF Turns, Steps
      <3>3. QED
        BY <2>4, <3>1, <3>2 DEF Decided, Runnable
    <2>5. CASE EndStop(k)
      BY <1>0, <2>0, <2>5, EndStopTurns, DecidedIf DEF Turns, EndStop
    <2>6. QED
      BY <1>3, <2>1, <2>2, <2>3, <2>4, <2>5
         DEF Locked, Reap, Expires, Expired, Advance, Advanced, Launch, LaunchFails
  <1>4. ASSUME NEW k \in Actors, Passing(k) \/ EnterPass(k) PROVE Decided'
    <2>0. lock \in {None, k} \/ app' = app
      BY <1>0, <1>4
         DEF Passing, EnterPass, PassStartsOver, Superseded, Visit, Reconfigured, Removed,
             Exclusive, At, Inside
    <2>1. CASE ReadDocument(k)
      BY <1>0, <2>0, <2>1, ReadDocumentBegins, DecidedIf DEF Begins
    <2>2. CASE Remove(k)
      BY <1>0, <2>0, <2>2, RemoveTurns, DecidedIf DEF Turns
    <2>3. CASE BeginStop(k, "install")
      BY <1>0, <2>0, <2>3, BeginStopTurns, DecidedIf DEF Turns, Steps
    <2>4. CASE Configure(k) \/ Goto(k, "advance")
      BY <1>0, <2>0, <2>4, ConfigureTurns, GotoTurns, DecidedIf DEF Turns, Steps
    <2>5. QED
      BY <1>4, <2>1, <2>2, <2>3, <2>4
         DEF Passing, EnterPass, PassStartsOver, Superseded, StartOver, Visit, Reconfigured, Removed
  <1>5. ASSUME NEW h \in Handlers,
               EnterRestart(h) \/ StopToRestart(h) \/ Restarted(h) \/ GiveUp(h)
        PROVE  Decided'
    <2>0. /\ h \in Actors
          /\ lock \in {None, h} \/ app' = app
      BY <1>0, <1>5
         DEF Actors, EnterRestart, StopToRestart, Restarted, GiveUp, Exclusive, At, Inside
    <2>1. CASE EnterRestart(h)
      BY <1>0, <2>0, <2>1, EnterRestartBegins, DecidedIf DEF Begins
    <2>2. CASE Done(h)
      BY <1>0, <2>0, <2>2, DoneMoves, DecidedIf DEF Turns, Begins
    <2>3. CASE BeginStop(h, "restarted")
      BY <1>0, <2>0, <2>3, BeginStopTurns, DecidedIf DEF Turns, Steps
    <2>4. CASE Goto(h, "advance")
      BY <1>0, <2>0, <2>4, GotoTurns, DecidedIf DEF Turns, Steps
    <2>5. CASE GiveUp(h)
      BY <1>0, <2>0, <2>5, NoJobBegins, DecidedIf DEF GiveUp, Moves, Begins
    <2>6. QED
      BY <1>5, <2>1, <2>2, <2>3, <2>4, <2>5 DEF StopToRestart, Restarted
  <1>6. QED
    BY <1>1, <1>2, <1>3, <1>4, <1>5 DEF Next, Outside

----------------------------------------------------------------------------
LEMMA RecordInit == Init => Recorded /\ Decided
  BY SupervisorAssumption DEF Init, Recorded, Decided, NewApp, NoJob

LEMMA RecordInvariant == Spec => [](Recorded /\ Decided)
  <1>1. Locking /\ Recorded /\ Decided /\ [Next]_vars => (Recorded /\ Decided)'
    BY RecordedStep, DecidedStep
  <1>2. QED
    BY <1>1, RecordInit, LockingInvariant, PTL DEF Spec

(* Only a launch makes a process.                                          *)
LEMMA LaunchingIsLaunch ==
    ASSUME [Next]_vars, Launching
    PROVE  \E k \in Actors : Launch(k)
  <1>1. ~Outside
    BY OutsideKeeps DEF Launching
  <1>2. ASSUME NEW k \in Actors, Probing(k) PROVE FALSE
    BY <1>2 DEF Launching, Probing, TickAsks, TickAsksNot, ApplyAnswer
  <1>3. ASSUME NEW k \in Actors, Passing(k) \/ EnterPass(k) PROVE FALSE
    BY <1>3 DEF Launching, Passing, PassStartsOver, Superseded, Visit, Reconfigured, Removed,
                EnterPass
  <1>4. ASSUME NEW h \in Handlers,
               EnterRestart(h) \/ StopToRestart(h) \/ Restarted(h) \/ GiveUp(h)
        PROVE  FALSE
    BY <1>4 DEF Launching, EnterRestart, StopToRestart, Restarted, GiveUp
  <1>5. ASSUME NEW k \in Actors, Locked(k), ~Launch(k) PROVE FALSE
    BY <1>5 DEF Launching, Locked, Reap, Expires, Expired, Advance, Advanced, LaunchFails, EndStop
  <1>6. QED
    BY <1>1, <1>2, <1>3, <1>4, <1>5 DEF Next, Outside

(* No launch rests on an answer from before the last failure, change or    *)
(* restart, whatever probes come back late.                                *)
THEOREM LaunchesAwaitAnAnswer == Spec => LaunchesAreGated
  <1>1. Recorded /\ Decided /\ [Next]_vars
          => [Launching /\ app.config.url # None => gate # "shut"]_vars
    <2> SUFFICES ASSUME Recorded, Decided, [Next]_vars, Launching, app.config.url # None
                 PROVE  gate # "shut"
      OBVIOUS
    <2>1. PICK k \in Actors : Launch(k)
      BY LaunchingIsLaunch
    <2>2. app.ready
      BY <2>1 DEF Launch, At, Decided
    <2>3. QED
      BY <2>2 DEF Recorded
  <1>2. QED
    BY <1>1, RecordInvariant, PTL DEF Spec, LaunchesAreGated

(* Nothing but a change or a restart undoes the verdict of the restart     *)
(* policy.                                                                 *)
THEOREM DeclinedIsFinal == Spec => DeclinedStaysDown
  <1>1. Recorded /\ Decided /\ [Next]_vars => [Launching => ~declined]_vars
    <2> SUFFICES ASSUME Recorded, Decided, [Next]_vars, Launching PROVE ~declined
      OBVIOUS
    <2>1. PICK k \in Actors : Launch(k)
      BY LaunchingIsLaunch
    <2>2. ~app.halted
      BY <2>1 DEF Launch, At, Decided
    <2>3. QED
      BY <2>2 DEF Recorded
  <1>2. QED
    BY <1>1, RecordInvariant, PTL DEF Spec, DeclinedStaysDown

----------------------------------------------------------------------------
(* A pass, until it ends, works from the newest document and displays, or  *)
(* another one is requested.                                               *)

Same == UNCHANGED <<live, output, requested>>

(* Somebody who goes on with what he is doing.                             *)
LEMMA PassesTurns ==
    ASSUME Passes, NEW k \in Actors, NEW step, NEW dying, Turns(k, step, dying),
           Same, passing' = passing,
           step \in Visiting => job[k].kind = "pass"
    PROVE  Passes'
  BY DEF Passes, Turns, Same

(* Somebody who begins another thing.                                      *)
LEMMA PassesBegins ==
    ASSUME Passes, NEW k \in Actors, NEW step, NEW kind, Begins(k, step, kind),
           UNCHANGED <<live, output>>,
           requested' = requested \/ passing = None,
           passing' = passing \/ passing \in {None, k},
           kind \in {"pass", "restart"} => passing' = k,
           step \in Visiting => kind = "pass",
           kind = "pass" => /\ job'[k].config = live.config /\ job'[k].target = output
                            /\ job'[k].generation = live.generation
    PROVE  Passes'
  BY SupervisorAssumption DEF Passes, Begins

LEMMA PassesStep ==
    ASSUME TypeOK, Passes, [Next]_vars
    PROVE  Passes'
  <1>1. CASE Outside
    BY <1>1, OutsideKeeps DEF Passes, locks
  <1>2. ASSUME NEW k \in Actors, Probing(k) PROVE Passes'
    <2>1. PICK step \in {"answered", "tick"} : Begins(k, step, "tick")
      BY <1>2, ProbingBegins
    <2>2. Same /\ passing' = passing
      BY <1>2 DEF Probing, TickAsks, TickAsksNot, ApplyAnswer, Same, document, machine, locks
    <2>3. QED
      BY <2>1, <2>2, PassesBegins DEF Same, Visiting
  <1>3. ASSUME NEW k \in Actors, Locked(k) PROVE Passes'
    <2>0. Same
      BY <1>3
         DEF Locked, Reap, Expires, Expired, Advance, Advanced, Launch, LaunchFails, EndStop,
             Same, document, machine
    <2>1. CASE /\ passing' = passing
               /\ Goto(k, "advance") \/ Goto(k, "advanced") \/ Goto(k, "spawn")
      BY <2>0, <2>1, GotoTurns, PassesTurns DEF Visiting, Steps
    <2>2. CASE passing' = passing /\ (BeginStop(k, "failed") \/ BeginStop(k, "advanced"))
      BY <2>0, <2>2, BeginStopTurns, PassesTurns DEF Visiting, Steps
    <2>3. CASE Done(k)
      <3>1. CASE job[k].kind = "pass"
        BY <2>0, <2>3, <3>1, DoneMoves, PassesTurns
      <3>2. CASE job[k].kind # "pass"
        BY <2>0, <2>3, <3>2, DoneMoves, PassesBegins DEF Same, Visiting
      <3>3. QED
        BY <3>1, <3>2
    <2>4. CASE EndStop(k)
      <3>1. Turns(k, job[k].step, None) /\ passing' = passing
        BY <2>4, EndStopTurns DEF EndStop, locks
      <3>2. job[k].step \in Visiting => job[k].kind = "pass"
        BY DEF Passes
      <3>3. QED
        BY <2>0, <3>1, <3>2, PassesTurns
    <2>5. QED
      BY <1>3, <2>1, <2>2, <2>3, <2>4
         DEF Locked, Reap, Expires, Expired, Advance, Advanced, Launch, LaunchFails, locks
  <1>4. ASSUME NEW k \in Actors, Passing(k) PROVE Passes'
    <2>0. Same /\ passing' = passing
      BY <1>4
         DEF Passing, PassStartsOver, Superseded, StartOver, Visit, Reconfigured, Removed,
             Same, document, machine, locks
    <2>1. CASE Visit(k) \/ Reconfigured(k) \/ Removed(k)
      <3>1. CASE Visit(k)
        <4>1. job[k].kind = "pass"
          BY <3>1 DEF Visit, At, Passes, Visiting
        <4>2. QED
          BY <2>0, <3>1, <4>1, RemoveTurns, BeginStopTurns, ConfigureTurns, PassesTurns
             DEF Visit, Steps
      <3>2. CASE Reconfigured(k) \/ Removed(k)
        BY <2>0, <3>2, ConfigureTurns, GotoTurns, PassesTurns
           DEF Reconfigured, Removed, Visiting, Steps
      <3>3. QED
        BY <2>1, <3>1, <3>2
    <2>2. CASE PassStartsOver(k) \/ Superseded(k)
      <3>1. ReadDocument(k)
        BY <2>2 DEF PassStartsOver, Superseded, StartOver
      <3>2. job[k].kind = "pass"
        BY <2>2 DEF PassStartsOver, Superseded, IsCurrent
      <3>3. passing = k
        BY <3>2 DEF Passes
      <3>4. QED
        BY <2>0, <3>1, <3>3, ReadDocumentBegins, PassesBegins DEF Same
    <2>3. QED
      BY <1>4, <2>1, <2>2 DEF Passing
  <1>5. ASSUME NEW k \in Actors, EnterPass(k) PROVE Passes'
    <2>1. passing = None /\ passing' = k /\ ReadDocument(k) /\ UNCHANGED <<live, output>>
      BY <1>5 DEF EnterPass, machine
    <2>2. QED
      BY <2>1, ReadDocumentBegins, PassesBegins
  <1>6. ASSUME NEW h \in Handlers,
               EnterRestart(h) \/ StopToRestart(h) \/ Restarted(h) \/ GiveUp(h)
        PROVE  Passes'
    <2>0. h \in Actors /\ Same
      BY <1>6
         DEF Actors, EnterRestart, StopToRestart, Restarted, GiveUp, Same, document, machine
    <2>1. CASE EnterRestart(h)
      <3>1. passing = None /\ passing' = h
        BY <2>1 DEF EnterRestart
      <3>2. QED
        BY <2>0, <2>1, <3>1, EnterRestartBegins, PassesBegins DEF Same, Visiting
    <2>2. CASE StopToRestart(h)
      <3>1. CASE Done(h)
        <4>1. CASE job[h].kind = "pass"
          BY <2>0, <3>1, <4>1, DoneMoves, PassesTurns
        <4>2. CASE job[h].kind # "pass"
          BY <2>0, <3>1, <4>2, DoneMoves, PassesBegins DEF Same, Visiting
        <4>3. QED
          BY <4>1, <4>2
      <3>2. CASE BeginStop(h, "restarted") /\ passing' = passing
        BY <2>0, <3>2, BeginStopTurns, PassesTurns DEF Visiting, Steps
      <3>3. QED
        BY <2>2, <3>1, <3>2 DEF StopToRestart
    <2>3. CASE Restarted(h)
      BY <2>0, <2>3, GotoTurns, PassesTurns DEF Restarted, Visiting, Steps, locks
    <2>4. CASE GiveUp(h)
      <3>1. Begins(h, "idle", "tick")
        BY <2>0, <2>4, NoJobBegins DEF GiveUp, Moves
      <3>2. QED
        BY <2>0, <2>4, <3>1, PassesBegins DEF GiveUp, Same, Visiting
    <2>5. QED
      BY <1>6, <2>1, <2>2, <2>3, <2>4
  <1>7. QED
    BY <1>1, <1>2, <1>3, <1>4, <1>5, <1>6 DEF Next, Outside

----------------------------------------------------------------------------
(* The app, once the task has seen the newest document and displays.       *)

LEMMA SettledIf ==
    ASSUME Settled, Same,
           app'.config = app.config, app'.target = app.target, app'.child \in {None, app.child},
           Arriving' \/ ~Arriving,
           Advancing' \/ ~Advancing \/ (app'.child # None => app'.target)
    PROVE  Settled'
  BY DEF Settled, Same

(* A step of another actor, or one that leaves no pass of the task behind. *)
LEMMA SettledTurns ==
    ASSUME Settled, Same, NEW k \in Actors,
           app'.config = app.config, app'.target = app.target, app'.child \in {None, app.child},
           \A m \in Actors \ {k} : job'[m] = job[m],
           \/ job[k].step \notin {"visit", "install"} /\ (job[k].step # "advance" \/ job[k].kind # "pass")
           \/ k # Loop
    PROVE  Settled'
  <1>1. CASE k # Loop
    <2>1. job'[Loop] = job[Loop]
      BY <1>1 DEF Actors
    <2>2. QED
      BY <2>1, SettledIf DEF Arriving, Advancing
  <1>2. CASE k = Loop
    BY <1>2, SettledIf DEF Arriving, Advancing
  <1>3. QED
    BY <1>1, <1>2

LEMMA ConfigureSettles ==
    ASSUME TypeOK, Passes, Settled, NEW k \in Actors, Configure(k), Same,
           job[k].kind = "pass",
           app.child # None => job[k].config # None
    PROVE  Settled'
  <1> SUFFICES ASSUME ~requested, ~Arriving'
               PROVE  /\ app'.config = live.config
                      /\ live.config # None => app'.target = output
                      /\ ~Advancing' /\ app'.child # None => app'.target
    BY DEF Settled, Same
  <1>1. app'.config = live.config /\ app'.target = output /\ app'.child = app.child
    BY InstallTyped DEF Passes
  <1>2. ASSUME ~Advancing', app.child # None PROVE app'.target
    <2>1. k # Loop
      <3>1. Turns(k, "advance", job[k].dying)
        BY ConfigureTurns
      <3>2. QED
        BY <1>2, <3>1 DEF Turns, Advancing
    <2>2. job[Loop].kind # "pass" /\ Loop \in Actors
      BY <2>1 DEF Passes, Actors
    <2>3. ~Arriving /\ ~Advancing
      BY <2>2 DEF Passes, Arriving, Advancing, Visiting
    <2>4. live.config # None
      BY <1>2 DEF Passes
    <2>5. QED
      BY <1>1, <1>2, <2>3, <2>4 DEF Settled
  <1>3. QED
    BY <1>1, <1>2

LEMMA SettledStep ==
    ASSUME Locking, Recorded, Decided, Passes, Settled, [Next]_vars
    PROVE  Settled'
  <1>0. TypeOK /\ app \in App /\ Loop \in Actors
    BY DEF Locking, TypeOK, Actors
  <1>1. CASE Outside
    <2>1. app'.config = app.config /\ app'.target = app.target /\ app'.child = app.child
      BY <1>0, <1>1, OutsideKeeps DEF App
    <2>2. job' = job /\ (requested' \/ Same)
      BY <1>1, OutsideKeeps DEF Same
    <2>3. CASE requested'
      BY <2>3 DEF Settled
    <2>4. CASE Same
      BY <2>1, <2>2, <2>4, SettledIf DEF Arriving, Advancing
    <2>5. QED
      BY <2>2, <2>3, <2>4
  <1>2. ASSUME NEW k \in Actors, Probing(k) PROVE Settled'
    <2>1. PICK step \in {"answered", "tick"} : Begins(k, step, "tick")
      BY <1>0, <1>2, ProbingBegins
    <2>2. Same /\ job[k].step \in {"idle", "poll", "answered"}
      BY <1>2 DEF Probing, TickAsks, TickAsksNot, ApplyAnswer, Same, document, machine, MayTick, At
    <2>3. app'.config = app.config /\ app'.target = app.target /\ app'.child = app.child
      BY <1>0, <1>2 DEF Probing, TickAsks, TickAsksNot, ApplyAnswer, App
    <2>4. QED
      BY <2>1, <2>2, <2>3, SettledTurns DEF Begins
  <1>3. ASSUME NEW k \in Actors, Locked(k) PROVE Settled'
    <2>0. Same
      BY <1>3
         DEF Locked, Reap, Expires, Expired, Advance, Advanced, Launch, LaunchFails, EndStop,
             Same, document, machine
    <2>1. CASE Reap(k) \/ Expires(k) \/ Expired(k) \/ Advanced(k) \/ LaunchFails(k)
      <3>1. job[k].step \in {"tick", "failed", "advanced", "spawn"}
        BY <2>1 DEF Reap, Expires, Expired, Advanced, LaunchFails, At
      <3>2. \A m \in Actors \ {k} : job'[m] = job[m]
        BY <1>0, <2>1, GotoTurns, BeginStopTurns, DoneMoves
           DEF Reap, Expires, Expired, Advanced, LaunchFails, Turns, Begins, Steps
      <3>3. /\ app'.config = app.config /\ app'.target = app.target
            /\ app'.child \in {None, app.child}
        BY <1>0, <2>1, FailTyped
           DEF Reap, Expires, Expired, Advanced, LaunchFails, BeginStop, App
      <3>4. QED
        BY <2>0, <3>1, <3>2, <3>3, SettledTurns
    <2>2. CASE Advance(k)
      <3>1. /\ app'.config = app.config /\ app'.target = app.target
            /\ app'.child \in {None, app.child} /\ (app'.child # None => app'.target)
        BY <1>0, <2>2 DEF Advance, BeginStop, App, Runnable, MayLaunch
      <3>2. \A m \in Actors \ {k} : job'[m] = job[m]
        BY <1>0, <2>2, GotoTurns, BeginStopTurns, DoneMoves DEF Advance, Turns, Begins, Steps
      <3>3. Arriving' \/ ~Arriving
        BY <1>0, <2>2, <3>2 DEF Advance, At, Arriving
      <3>4. QED
        BY <2>0, <3>1, <3>3, SettledIf
    <2>3. CASE Launch(k)
      <3>1. app.config # None /\ app.target
        BY <2>3 DEF Launch, At, Decided, Runnable
      <3>2. app'.config = app.config /\ app'.target = app.target
        BY <1>0, <2>3 DEF Launch, App
      <3>3. \A m \in Actors \ {k} : job'[m] = job[m]
        BY <1>0, <2>3, DoneMoves DEF Launch, Turns, Begins
      <3>4. Arriving' \/ ~Arriving
        BY <1>0, <2>3, <3>3 DEF Launch, At, Arriving
      <3>5. QED
        BY <2>0, <3>1, <3>2, <3>4 DEF Settled, Same
    <2>4. CASE EndStop(k)
      <3>1. job'[Loop].step = job[Loop].step /\ job'[Loop].kind = job[Loop].kind /\ app' = app
        BY <1>0, <2>4, EndStopTurns DEF EndStop, Turns
      <3>2. QED
        BY <2>0, <3>1, SettledIf DEF Arriving, Advancing
    <2>5. QED
      BY <1>3, <2>1, <2>2, <2>3, <2>4 DEF Locked
  <1>4. ASSUME NEW k \in Actors, Passing(k) PROVE Settled'
    <2>0. Same
      BY <1>4
         DEF Passing, PassStartsOver, Superseded, StartOver, Visit, Reconfigured, Removed,
             Same, document, machine
    <2>1. CASE PassStartsOver(k) \/ Superseded(k)
      <3>1. requested
        BY <2>1 DEF PassStartsOver, Superseded, IsCurrent, Passes
      <3>2. QED
        BY <2>0, <3>1 DEF Same, Settled
    <2>2. CASE Visit(k)
      <3>0. job[k].kind = "pass"
        BY <2>2 DEF Visit, At, Passes, Visiting
      <3>1. CASE job[k].config = None /\ Remove(k)
        <4>1. app'.config = None /\ app'.child = None
          BY <3>1 DEF Remove, Forgotten, NewApp
        <4>2. ~requested => live.config = None
          BY <3>0, <3>1 DEF Passes
        <4>3. QED
          BY <2>0, <4>1, <4>2 DEF Settled, Same
      <3>2. CASE BeginStop(k, "install")
        <4>1. Turns(k, "install", app.child)
          BY <1>0, <3>2, BeginStopTurns DEF Steps
        <4>2. /\ app'.config = app.config /\ app'.target = app.target /\ app'.child = None
          BY <1>0, <3>2 DEF BeginStop, App
        <4>3. Arriving' \/ ~Arriving
          BY <1>0, <4>1 DEF Turns, Arriving
        <4>4. QED
          BY <2>0, <4>2, <4>3, SettledIf
      <3>3. CASE job[k].config # None /\ Configure(k)
        BY <1>0, <2>0, <3>0, <3>3, ConfigureSettles
      <3>4. QED
        BY <2>2, <3>1, <3>2, <3>3 DEF Visit
    <2>3. CASE Reconfigured(k)
      <3>1. job[k].kind = "pass" /\ app.child = None
        BY <2>3 DEF Reconfigured, At, Passes, Visiting, Locking, Processed, Childless, Inside
      <3>2. QED
        BY <1>0, <2>0, <2>3, <3>1, ConfigureSettles DEF Reconfigured
    <2>4. CASE Removed(k)
      <3>1. job[k].step = "removed" /\ app' = app
        BY <2>4 DEF Removed, At
      <3>2. \A m \in Actors \ {k} : job'[m] = job[m]
        BY <1>0, <2>4, GotoTurns DEF Removed, Turns, Steps
      <3>3. QED
        BY <2>0, <3>1, <3>2, SettledTurns
    <2>5. QED
      BY <1>4, <2>1, <2>2, <2>3, <2>4 DEF Passing
  <1>5. ASSUME NEW k \in Actors, EnterPass(k) PROVE Settled'
    <2>1. Begins(k, "visit", "pass") /\ app' = app
      BY <1>0, <1>5, ReadDocumentBegins DEF EnterPass
    <2>2. CASE k = Loop
      BY <2>1, <2>2 DEF Begins, Settled, Arriving
    <2>3. CASE k # Loop
      <3>1. Same
        BY <1>5, <2>3 DEF EnterPass, Same, machine
      <3>2. QED
        BY <2>1, <2>3, <3>1, SettledTurns DEF Begins
    <2>4. QED
      BY <2>2, <2>3
  <1>6. ASSUME NEW h \in Handlers,
               EnterRestart(h) \/ StopToRestart(h) \/ Restarted(h) \/ GiveUp(h)
        PROVE  Settled'
    <2>0. h \in Actors /\ h # Loop /\ Same
      BY <1>6, SupervisorAssumption
         DEF Actors, EnterRestart, StopToRestart, Restarted, GiveUp, Same, document, machine
    <2>1. \A m \in Actors \ {h} : job'[m] = job[m]
      BY <1>0, <1>6, <2>0, EnterRestartBegins, DoneMoves, BeginStopTurns, GotoTurns, NoJobBegins
         DEF EnterRestart, StopToRestart, Restarted, GiveUp, Moves, Turns, Begins, Steps
    <2>2. /\ app'.config = app.config /\ app'.target = app.target
          /\ app'.child \in {None, app.child}
      BY <1>0, <1>6 DEF EnterRestart, StopToRestart, Restarted, GiveUp, BeginStop, App
    <2>3. QED
      BY <2>0, <2>1, <2>2, SettledTurns
  <1>7. QED
    BY <1>1, <1>2, <1>3, <1>4, <1>5, <1>6 DEF Next, Outside

LEMMA PassInit == Init => Passes /\ Settled
  BY DEF Init, Passes, Settled, NoJob, Visiting

LEMMA InvariantHolds == Spec => []IInv
  <1>1. Locking /\ Recorded /\ Decided /\ Passes /\ Settled /\ [Next]_vars
          => (Passes /\ Settled)'
    BY PassesStep, SettledStep DEF Locking
  <1>2. Locking /\ Recorded /\ Decided /\ Passes /\ Settled => IInv
    BY DEF Locking, IInv
  <1>3. QED
    BY <1>1, <1>2, PassInit, LockingInvariant, RecordInvariant, PTL DEF Spec

(* When nothing is requested, held or under way, a running app is what the *)
(* document says and where its display is: no dropped handler, superseded  *)
(* pass or late answer leaves another one behind.                          *)
THEOREM QuietAppsAreWanted == Spec => []QuietMeansWanted
  <1>1. ASSUME IInv PROVE QuietMeansWanted
    <2> SUFFICES ASSUME ~requested, passing = None, lock = None, app.child # None
                 PROVE  runs = live.config /\ runs.enabled /\ output
      BY DEF QuietMeansWanted
    <2>1. job[Loop].kind # "pass" /\ job[Loop].step \notin Visiting
      BY <1>1, SupervisorAssumption DEF IInv, Passes, Actors
    <2>2. /\ app.config = live.config /\ app.target
          /\ live.config # None => app.target = output
      BY <1>1, <2>1 DEF IInv, Settled, Arriving, Advancing, Visiting
    <2>3. QED
      BY <1>1, <2>2 DEF IInv, Recorded
  <1>2. QED
    BY <1>1, InvariantHolds, PTL
===============================================================================
