----------------------------- MODULE Supervisor -----------------------------
(***************************************************************************)
(* src/supervisor/mod.rs: the life of one application, from the document   *)
(* to its process.                                                         *)
(*                                                                         *)
(* Ticks come from the reconciliation task and from passes; a pass, or the *)
(* restart endpoint, may run inside a request handler and be dropped at    *)
(* any await.  All of them take one lock over the managed apps and keep it *)
(* while a process is being stopped or a launch is being prepared.  Only   *)
(* readiness probes are awaited without it: a tick asks, is answered, and  *)
(* applies the answer to whatever the app has become.                      *)
(*                                                                         *)
(* Time is left out: a delay elapses and a watchdog expires when it likes. *)
(* The app's program is allowed.  Its status, its window, its heartbeats   *)
(* and its audio are left out: what launches and stops it reads none.      *)
(***************************************************************************)
EXTENDS Integers, FiniteSets

CONSTANTS
    Handlers,   \* requests that may run a pass or a restart
    Loop,       \* the reconciliation task
    Urls,       \* what an app may wait for
    Configs,    \* what the document may say of the app
    None,       \* the app is not in the document; no process, no holder
    MayGiveUp,  \* may a handler be dropped at an await?
    MaxEvents   \* bound: writes, plugs, failures and restarts

VARIABLES
    live,       \* the live document: what it says of the app, and its generation
    output,     \* the app's output is connected
    answering,  \* the urls that answer acceptably
    app,        \* the ManagedApp
    lock,       \* holder of the lock over the managed apps
    passing,    \* holder of the reconciler's pass mutex
    job,        \* per actor: what it is doing
    requested,  \* a pass is requested of the task
    alive,      \* its processes
    gate,       \* history: "open" once an answer was accepted; see Shut
    runs,       \* history: the configuration of the last launch
    declined,   \* history: the restart policy declined, nobody asked again since
    events      \* how many the bound has counted

Actors == Handlers \cup {Loop}

document == <<live, requested>>
machine == <<output, answering>>
history == <<gate, runs, declined>>
locks == <<lock, passing>>
vars == <<document, machine, app, locks, job, alive, history, events>>

Processes == {1, 2}

Optional(S) == S \cup {None}

Config == [enabled : BOOLEAN, url : Optional(Urls)]

ASSUME SupervisorAssumption ==
    /\ Configs \subseteq Optional(Config) /\ None \in Configs
    /\ None \notin Config /\ None \notin Urls /\ None \notin Processes /\ None \notin Actors
    /\ Loop \notin Handlers
    /\ MayGiveUp \in BOOLEAN /\ MaxEvents \in Nat

(* due: restart_at has passed, or is not set.                              *)
App == [config : Configs, target : BOOLEAN, child : Optional(Processes),
        halted : BOOLEAN, ready : BOOLEAN, pending : BOOLEAN, due : BOOLEAN]

NewApp == [config |-> None, target |-> TRUE, child |-> None,
           halted |-> FALSE, ready |-> FALSE, pending |-> FALSE, due |-> TRUE]

Steps == {"idle", "poll", "answered", "tick", "failed", "advance", "advanced", "spawn",
          "visit", "install", "removed", "restart", "restarted"}

(* good: the answer a probe got.  config, target, generation: what a pass  *)
(* read.  dying: the process being stopped, which the app's record no      *)
(* longer holds.                                                           *)
Job == [step : Steps, kind : {"tick", "pass", "restart"}, good : BOOLEAN,
        config : Configs, target : BOOLEAN, generation : Nat,
        dying : Optional(Processes)]

NoJob == [step |-> "idle", kind |-> "tick", good |-> FALSE,
          config |-> None, target |-> TRUE, generation |-> 0, dying |-> None]

TypeOK ==
    /\ live \in [config : Configs, generation : Nat] /\ requested \in BOOLEAN
    /\ output \in BOOLEAN /\ answering \subseteq Urls
    /\ app \in App
    /\ lock \in Optional(Actors) /\ passing \in Optional(Actors)
    /\ job \in [Actors -> Job]
    /\ alive \subseteq Processes
    /\ gate \in {"open", "shut"} /\ declined \in BOOLEAN /\ runs \in Configs
    /\ events \in 0..MaxEvents

Init ==
    /\ live \in [config : Configs, generation : {0}] /\ requested = TRUE
    /\ output = TRUE /\ answering = {}
    /\ app = NewApp
    /\ lock = None /\ passing = None
    /\ job = [k \in Actors |-> NoJob]
    /\ alive = {}
    /\ gate = "shut" /\ declined = FALSE /\ runs = None
    /\ events = 0

----------------------------------------------------------------------------
(* The document and the machine.                                           *)

Event == events < MaxEvents /\ events' = events + 1

Write ==
    /\ Event
    /\ \E c \in Configs : live' = [config |-> c, generation |-> live.generation + 1]
    /\ requested' = TRUE
    /\ UNCHANGED <<machine, app, locks, job, alive, history>>

Plug ==
    /\ Event
    /\ output' = ~output
    /\ requested' = TRUE
    /\ UNCHANGED <<live, answering, app, locks, job, alive, history>>

DependencyTurns(u) ==
    /\ answering' = IF u \in answering THEN answering \ {u} ELSE answering \cup {u}
    /\ UNCHANGED <<document, output, app, locks, job, alive, history, events>>

Exits(p) ==
    /\ p \in alive /\ Event
    /\ alive' = alive \ {p}
    /\ UNCHANGED <<document, machine, app, locks, job, history>>

(* A restart delay passes.                                                 *)
DelayElapses ==
    /\ ~app.due /\ app' = [app EXCEPT !.due = TRUE]
    /\ UNCHANGED <<document, machine, locks, job, alive, history, events>>

----------------------------------------------------------------------------
(* Pieces of the steps.                                                    *)

At(k, step) == job[k].step = step /\ job[k].dying = None
Goto(k, step) == job' = [job EXCEPT ![k].step = step]

(* Only a pass works from a document that may be superseded.               *)
IsCurrent(k) == job[k].kind = "pass" => job[k].generation = live.generation

(* What counts as an end that clears the readiness latch.                  *)
Shut == gate' = "shut"

(* stop: the record lets go of the process before it is awaited, the lock  *)
(* held, until it has ended.                                               *)
BeginStop(k, next) ==
    /\ app' = [app EXCEPT !.child = None]
    /\ job' = [job EXCEPT ![k].dying = app.child, ![k].step = next]
    /\ UNCHANGED history

(* Slip: a process that ignores SIGTERM is left alone.                     *)
EndStopPatiently(k) ==
    /\ job[k].dying # None
    /\ alive' \in {alive, alive \ {job[k].dying}}
    /\ job' = [job EXCEPT ![k].dying = None]
    /\ UNCHANGED <<document, machine, app, locks, history, events>>

(* It leaves on SIGTERM, or it is killed.                                  *)
EndStop(k) ==
    /\ job[k].dying # None
    /\ alive' = alive \ {job[k].dying}
    /\ job' = [job EXCEPT ![k].dying = None]
    /\ UNCHANGED <<document, machine, app, locks, history, events>>

(* Slip: the readiness latch survives a failure.                           *)
FailLatched ==
    /\ \E declines \in BOOLEAN :
         /\ app' = [app EXCEPT !.child = None, !.halted = declines \/ @, !.due = declines]
         /\ declined' = (declines \/ declined)
    /\ Shut /\ UNCHANGED runs

(* schedule_restart_or_halt: the restart policy and the exit code decide.  *)
Fail ==
    /\ \E declines \in BOOLEAN :
         /\ app' = [app EXCEPT !.child = None, !.halted = declines \/ @, !.due = declines,
                               !.ready = FALSE]
         /\ declined' = (declines \/ declined)
    /\ Shut /\ UNCHANGED runs

(* The lock is released.  A pass goes on to its own tick; with it, or with *)
(* a restart, the pass mutex is released too.                              *)
Done(k) ==
    /\ lock' = None
    /\ IF job[k].kind = "pass"
         THEN Goto(k, "poll") /\ UNCHANGED passing
         ELSE /\ job' = [job EXCEPT ![k] = NoJob]
              /\ passing' = IF passing = k THEN None ELSE passing

ReadDocument(k) ==
    job' = [job EXCEPT ![k] = [NoJob EXCEPT !.step = "visit", !.kind = "pass",
              !.config = live.config, !.target = output, !.generation = live.generation]]

(* A superseded pass starts over with the lock released.                   *)
StartOver(k) == lock' = None /\ ReadDocument(k) /\ UNCHANGED passing

(* reconcile_is_current: what is enabled and not running waits for a       *)
(* current pass.                                                           *)
Hold ==
    LET waits == IF app.config = None THEN FALSE ELSE app.config.enabled /\ app.child = None
    IN  app' = [app EXCEPT !.pending = @ \/ waits]

----------------------------------------------------------------------------
(* The probes of a tick.                                                   *)

MayTick(k) == (k = Loop /\ At(k, "idle")) \/ At(k, "poll")

AsTick(k, step, answer) ==
    job' = [job EXCEPT ![k] = [NoJob EXCEPT !.step = step, !.good = answer]]

Asks == IF app.config = None THEN FALSE
        ELSE app.config.enabled /\ app.config.url # None /\ ~app.ready

Acceptable == app.config.url \in answering

(* The answer is known from here on, and applied some time later.          *)
TickAsks(k) ==
    /\ MayTick(k) /\ lock = None /\ Asks
    /\ AsTick(k, "answered", Acceptable)
    /\ UNCHANGED <<document, machine, app, locks, alive, history, events>>

(* There is nothing to ask, or the interval has not elapsed.               *)
TickAsksNot(k) ==
    /\ MayTick(k) /\ lock = None
    /\ AsTick(k, "tick", FALSE)
    /\ UNCHANGED <<document, machine, app, locks, alive, history, events>>

(* It is applied to the app as it is now, if there still is one.  An app   *)
(* that has waited too long may be launched without it.                    *)
ApplyAnswer(k) ==
    /\ At(k, "answered") /\ lock = None
    /\ AsTick(k, "tick", FALSE)
    /\ \/ /\ app.config # None
          /\ app' = [app EXCEPT !.ready = TRUE] /\ gate' = "open"
       \/ /\ app.config = None \/ ~job[k].good
          /\ UNCHANGED <<app, gate>>
    /\ UNCHANGED <<document, machine, locks, alive, runs, declined, events>>

----------------------------------------------------------------------------
(* The rest of a tick: reap and watchdogs, under the lock.                 *)

Reap(k) ==
    /\ At(k, "tick") /\ lock = None
    /\ lock' = k
    /\ IF app.child # None /\ app.child \notin alive
         THEN Fail ELSE UNCHANGED <<app, history>>
    /\ Goto(k, "advance")
    /\ UNCHANGED <<document, machine, passing, alive, events>>

(* No window in time, or no heartbeat.                                     *)
Expires(k) ==
    /\ At(k, "tick") /\ lock = None /\ app.child \in alive
    /\ Event
    /\ lock' = k
    /\ BeginStop(k, "failed")
    /\ UNCHANGED <<document, machine, passing, alive>>

Expired(k) ==
    /\ At(k, "failed")
    /\ Fail
    /\ Goto(k, "advance")
    /\ UNCHANGED <<document, machine, locks, alive, events>>

----------------------------------------------------------------------------
(* advance: start what should run and does not, stop what has no output.   *)

(* Slip: an app that lost its output keeps running without a window.       *)
RunnableAnywhere == IF app.config = None THEN FALSE ELSE app.config.enabled

Runnable == IF app.config = None THEN FALSE ELSE app.config.enabled /\ app.target

MayLaunch ==
    /\ Runnable /\ app.child = None
    /\ ~app.halted /\ ~app.pending /\ app.due
    /\ app.config.url # None => app.ready

Superseded(k) ==
    /\ lock = k
    /\ At(k, "advance") \/ At(k, "advanced") \/ At(k, "spawn") \/ At(k, "install")
         \/ At(k, "removed")
    /\ ~IsCurrent(k)
    /\ Hold
    /\ StartOver(k)
    /\ UNCHANGED <<document, machine, alive, history, events>>

Advance(k) ==
    /\ At(k, "advance") /\ IsCurrent(k)
    /\ \/ /\ ~Runnable /\ app.child # None
          /\ BeginStop(k, "advanced") /\ UNCHANGED locks
       \/ /\ ~Runnable /\ app.child = None
          /\ Done(k) /\ UNCHANGED <<app, history>>
       \/ /\ MayLaunch
          /\ Goto(k, "spawn") /\ UNCHANGED <<app, locks, history>>
       \/ /\ Runnable /\ ~MayLaunch
          /\ Done(k) /\ UNCHANGED <<app, history>>
    /\ UNCHANGED <<document, machine, alive, events>>

Advanced(k) ==
    /\ At(k, "advanced") /\ IsCurrent(k)
    /\ Done(k)
    /\ UNCHANGED <<document, machine, app, alive, history, events>>

Launch(k) ==
    /\ At(k, "spawn") /\ IsCurrent(k)
    /\ LET p == CHOOSE p \in Processes : p \notin alive
       IN  /\ alive' = alive \cup {p}
           /\ app' = [app EXCEPT !.child = p, !.due = TRUE, !.halted = FALSE]
    /\ runs' = app.config
    /\ Done(k)
    /\ UNCHANGED <<document, machine, gate, declined, events>>

LaunchFails(k) ==
    /\ At(k, "spawn") /\ Event
    /\ Fail
    /\ Goto(k, "advanced")
    /\ UNCHANGED <<document, machine, locks, alive>>

----------------------------------------------------------------------------
(* A pass: the app's new configuration, then advance, then a tick.         *)

EnterPass(k) ==
    /\ At(k, "idle") /\ passing = None
    /\ passing' = k
    /\ ReadDocument(k)
    /\ requested' = IF k = Loop THEN FALSE ELSE requested
    /\ UNCHANGED <<live, machine, app, lock, alive, history, events>>

(* Superseded before it had the lock, or after its own advance.            *)
PassStartsOver(k) ==
    /\ (At(k, "visit") /\ lock = None) \/ At(k, "poll")
    /\ ~IsCurrent(k)
    /\ IF At(k, "visit") THEN Hold ELSE UNCHANGED app
    /\ ReadDocument(k)
    /\ UNCHANGED <<document, machine, locks, alive, history, events>>

Changed(k) == app.config # None /\ app.config # job[k].config

(* Slip: every pass earns a halted app another attempt.                    *)
InstallAgain(k) ==
    app' = [app EXCEPT !.config = job[k].config, !.target = job[k].target, !.pending = FALSE,
                       !.halted = FALSE, !.due = TRUE]

(* Slip: only a new configuration lifts the hold.                          *)
InstallHeld(k) ==
    app' = IF Changed(k)
             THEN [app EXCEPT !.config = job[k].config, !.target = job[k].target,
                              !.pending = FALSE, !.halted = FALSE, !.due = TRUE,
                              !.ready = FALSE]
             ELSE [app EXCEPT !.config = job[k].config, !.target = job[k].target]

(* A changed configuration earns another attempt and another probe; the    *)
(* hold is lifted either way.                                              *)
Install(k) ==
    LET kept == [app EXCEPT !.config = job[k].config, !.target = job[k].target,
                            !.pending = FALSE]
    IN  app' = IF Changed(k) THEN [kept EXCEPT !.halted = FALSE, !.due = TRUE, !.ready = FALSE]
                             ELSE kept

Configure(k) ==
    /\ Install(k)
    /\ IF Changed(k) THEN Shut /\ declined' = FALSE /\ UNCHANGED runs ELSE UNCHANGED history
    /\ Goto(k, "advance")

(* Slip: the record goes with the app.                                     *)
NoApp == None

Forgotten == NewApp

(* An app that left the document is taken out before it is stopped.        *)
Remove(k) ==
    /\ app' = Forgotten
    /\ Shut /\ declined' = FALSE /\ UNCHANGED runs
    /\ job' = [job EXCEPT ![k].dying = app.child, ![k].step = "removed"]

Visit(k) ==
    /\ At(k, "visit") /\ lock = None /\ IsCurrent(k)
    /\ lock' = k
    /\ \/ job[k].config = None /\ Remove(k)
       \/ job[k].config # None /\ Changed(k) /\ app.child # None /\ BeginStop(k, "install")
       \/ job[k].config # None /\ ~(Changed(k) /\ app.child # None) /\ Configure(k)
    /\ UNCHANGED <<document, machine, passing, alive, events>>

Reconfigured(k) ==
    /\ At(k, "install") /\ IsCurrent(k)
    /\ Configure(k)
    /\ UNCHANGED <<document, machine, locks, alive, events>>

Removed(k) ==
    /\ At(k, "removed") /\ IsCurrent(k)
    /\ Goto(k, "advance")
    /\ UNCHANGED <<document, machine, app, locks, alive, history, events>>

----------------------------------------------------------------------------
(* POST /apps/{id}/restart.                                                *)

EnterRestart(h) ==
    /\ At(h, "idle") /\ passing = None /\ Event
    /\ passing' = h
    /\ job' = [job EXCEPT ![h].step = "restart", ![h].kind = "restart"]
    /\ UNCHANGED <<document, machine, app, lock, alive, history>>

StopToRestart(h) ==
    /\ At(h, "restart") /\ lock = None
    /\ IF app.config = None
         THEN Done(h) /\ UNCHANGED <<app, history>>
         ELSE lock' = h /\ BeginStop(h, "restarted") /\ UNCHANGED passing
    /\ UNCHANGED <<document, machine, alive, events>>

Restarted(h) ==
    /\ At(h, "restarted")
    /\ app' = [app EXCEPT !.halted = FALSE, !.due = TRUE, !.ready = FALSE]
    /\ Shut /\ declined' = FALSE /\ UNCHANGED runs
    /\ Goto(h, "advance")
    /\ UNCHANGED <<document, machine, locks, alive, events>>

(* A dropped handler lets go of its locks, and the process it was stopping *)
(* is killed with it; what should have followed does not.                  *)
GiveUp(h) ==
    /\ MayGiveUp /\ job[h].step # "idle"
    /\ job' = [job EXCEPT ![h] = NoJob]
    /\ lock' = IF lock = h THEN None ELSE lock
    /\ passing' = IF passing = h THEN None ELSE passing
    /\ alive' = alive \ {job[h].dying}
    /\ UNCHANGED <<document, machine, app, history, events>>

----------------------------------------------------------------------------
Probing(k) == TickAsks(k) \/ TickAsksNot(k) \/ ApplyAnswer(k)

Locked(k) ==
    \/ Reap(k) \/ Expires(k) \/ Expired(k)
    \/ Advance(k) \/ Advanced(k) \/ Launch(k) \/ LaunchFails(k) \/ EndStop(k)

Passing(k) ==
    \/ PassStartsOver(k) \/ Superseded(k) \/ Visit(k) \/ Reconfigured(k) \/ Removed(k)

Next ==
    \/ Write \/ Plug \/ DelayElapses
    \/ \E u \in Urls : DependencyTurns(u)
    \/ \E p \in alive : Exits(p)
    \/ \E k \in Actors : Probing(k) \/ Locked(k) \/ Passing(k) \/ EnterPass(k)
    \/ \E h \in Handlers : EnterRestart(h) \/ StopToRestart(h) \/ Restarted(h) \/ GiveUp(h)

Spec == Init /\ [][Next]_vars

(* What is under way goes on: probes time out, stops end in a kill, and    *)
(* tokio's mutexes queue their waiters.  The task comes back to ticks, on  *)
(* a timer, and to the passes it was asked for.                            *)
Underway(k) ==
    \/ job[k].step # "idle" /\ (Probing(k) \/ Locked(k) \/ Passing(k))
    \/ k \in Handlers /\ (StopToRestart(k) \/ Restarted(k))
Fairness ==
    /\ WF_vars(DelayElapses)
    /\ \A k \in Actors : SF_vars(Underway(k))
    /\ SF_vars(TickAsks(Loop)) /\ SF_vars(TickAsksNot(Loop))
    /\ SF_vars(requested /\ EnterPass(Loop))

FairSpec == Spec /\ Fairness

----------------------------------------------------------------------------
(* Properties.                                                             *)

(* Whoever stops and starts the app, and whichever of them is dropped or   *)
(* superseded half-way, there is never a second process of it, nor one     *)
(* that neither the record nor a stop under way knows of.                  *)
Known == {app.child} \cup {job[k].dying : k \in Actors}
OneProcess == Cardinality(alive) <= 1 /\ alive \subseteq Known

Launching == ~(alive' \subseteq alive)

(* After a failure, a changed configuration, a restart, or the first time, *)
(* no launch happens on an answer that was accepted for an earlier one.    *)
LaunchesAreGated ==
    [][Launching /\ app.config.url # None => gate # "shut"]_vars

(* An app whose restart policy declined stays down, over any passes, ticks *)
(* and probes, until its configuration changes or somebody restarts it.    *)
DeclinedStaysDown == [][Launching => ~declined]_vars

(* Once no pass is requested or under way and no stop is, a process that   *)
(* runs was launched as the live document says, and has its output.        *)
QuietMeansWanted ==
    ~requested /\ passing = None /\ lock = None /\ app.child # None
        => runs = live.config /\ runs.enabled /\ output

(* An app that is wanted, with its output connected and its dependency     *)
(* answering, comes up again and again, unless its policy declined:        *)
(* neither holds nor latches nor dropped handlers keep it down.            *)
Wanted ==
    IF live.config = None THEN FALSE
    ELSE live.config.enabled /\ output /\ live.config.url \in answering \cup {None}
ComesUp == <>[]Wanted => []<>(app.child # None \/ app.halted)
=============================================================================
