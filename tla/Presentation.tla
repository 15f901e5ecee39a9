---------------------------- MODULE Presentation ----------------------------
(***************************************************************************)
(* src/presentation.rs, the presentation parts of main.rs and of a pass,   *)
(* and the login profile of packaging/provision.sh: which of two sessions  *)
(* a boot shows, decided by a shell script and a daemon that share three   *)
(* files and end one another.                                              *)
(*                                                                         *)
(* In a direct session a headless compositor holds the canvas and the      *)
(* slicer drives the displays; in an ordinary one the compositor does.  A  *)
(* direct session that fails falls back to an ordinary one for the rest of *)
(* the boot.  The passes of an ordinary session are in Reconciler.         *)
(***************************************************************************)
EXTENDS Naturals

CONSTANTS
    None,
    MaxFaults    \* bound: kills, crashes, failed writes, edits, restarts

VARIABLES
    file,        \* suede.toml: `direct` (with allow_overlaps) or `wayland`
    marker,      \* presentation-fallback exists
    attempts,    \* direct-attempts
    session,     \* session
    login,       \* the login profile on tty1
    compositor,  \* the sway it started
    daemon,      \* the process of suede.service
    pass,        \* a pass that holds the projection manager
    slicer,      \* the direct slicer
    machine,     \* whether headless sway starts here, and whether direct works
    due,         \* an operator who ended the session will restart the daemon
    faults       \* how many the bound has counted

files == <<marker, attempts, session>>
vars == <<file, files, login, compositor, daemon, pass, slicer, machine, due, faults>>

DIRECT_START_ATTEMPTS == 3
CRASH_BUDGET_EXITS == 3

Modes == {"direct", "wayland"}
Exits == {"fallback", "lost", "switch"}
Optional(S) == S \cup {None}

ASSUME PresentationAssumption == MaxFaults \in Nat /\ None \notin Exits

Count == faults < MaxFaults /\ faults' = faults + 1
Uncounted == UNCHANGED faults

-----------------------------------------------------------------------------
(* The login profile, which runs whenever there is no compositor.          *)

LoggedOut == [at |-> "out", session |-> None, tried |-> 0]

\* One slip: the headless starts are not counted against the boot.
WantsDirectAgain == file = "direct" /\ ~marker

WantsDirect == file = "direct" /\ ~marker /\ attempts < DIRECT_START_ATTEMPTS

LoginDecides ==
    /\ compositor = None /\ login.at = "out"
    /\ login' = [at |-> "decided", tried |-> attempts,
                 session |-> IF WantsDirect THEN "direct" ELSE "wayland"]
    /\ marker' = (marker \/ (file = "direct" /\ ~WantsDirect))
    /\ UNCHANGED <<file, attempts, session, compositor, daemon, pass, slicer, machine, due>>
    /\ Uncounted

LoginRecords ==
    /\ login.at = "decided"
    /\ session' = login.session
    /\ login' = [login EXCEPT !.at = "recorded"]
    /\ UNCHANGED <<file, marker, attempts, compositor, daemon, pass, slicer, machine, due>>
    /\ Uncounted

\* A headless sway that does not start gives the terminal back to the login.
LoginStarts ==
    /\ login.at = "recorded"
    /\ login' = LoggedOut
    /\ attempts' = IF login.session = "direct" THEN login.tried + 1 ELSE attempts
    /\ compositor' = IF login.session = "wayland" THEN "drm"
                     ELSE IF machine.sway THEN "headless" ELSE None
    /\ UNCHANGED <<file, marker, session, daemon, pass, slicer, machine, due>>
    /\ Uncounted

-----------------------------------------------------------------------------
(* The daemon starts.                                                      *)

Down == [at |-> "down", file |-> None, session |-> None, attached |-> FALSE, mode |-> None,
         shown |-> FALSE, confirmed |-> FALSE, exits |-> 0, exit |-> None]

\* The end of the process takes everything in its control group along.
Gone == daemon' = Down /\ pass' = "idle" /\ slicer' = "none"

ReadFile ==
    /\ daemon.at = "down"
    /\ daemon' = [Down EXCEPT !.at = "waiting", !.file = file]
    /\ UNCHANGED <<file, files, login, compositor, pass, slicer, machine, due>> /\ Uncounted

\* It waits for a socket, and reads at once what the login has recorded.
Connect ==
    /\ daemon.at = "waiting" /\ compositor # None
    /\ daemon' = [daemon EXCEPT !.at = "connected", !.attached = TRUE, !.session = session]
    /\ UNCHANGED <<file, files, login, compositor, pass, slicer, machine, due>> /\ Uncounted

NeedsCompositor == "direct" \in {daemon.file, daemon.session}

\* One slip: a compositor left over from a direct session is kept.
ResolutionKeeping(wanted, fallback, headless, started) ==
    IF wanted = "direct" /\ ~fallback /\ headless THEN "direct" ELSE "wayland"

\* resolve: the file, the marker, whether all outputs are headless, the session.
Resolution(wanted, fallback, headless, started) ==
    IF wanted = "direct" /\ ~fallback THEN IF headless THEN "direct" ELSE "wayland"
    ELSE IF headless /\ started = "direct" THEN "finish switch" ELSE "wayland"

Resolve ==
    /\ daemon.at = "connected"
    /\ NeedsCompositor => daemon.attached
    /\ LET headless == NeedsCompositor /\ compositor = "headless"
           resolution == Resolution(daemon.file, marker, headless, daemon.session)
       IN daemon' = IF resolution = "finish switch"
                    THEN [daemon EXCEPT !.at = "ended", !.exit = "switch"]
                    ELSE [daemon EXCEPT !.at = "running", !.mode = resolution]
    /\ UNCHANGED <<file, files, login, compositor, pass, slicer, machine, due>> /\ Uncounted

\* The outputs cannot be asked for: the daemon gives up, and is started again.
ResolveFails ==
    /\ daemon.at = "connected" /\ NeedsCompositor /\ ~daemon.attached
    /\ Gone
    /\ UNCHANGED <<file, files, login, compositor, machine, due>> /\ Uncounted

\* write_fallback: the first reason wins; the write may fail, and is only logged.
WriteFallback == (marker' = TRUE /\ Uncounted) \/ (~marker /\ Count /\ UNCHANGED marker)

\* The displays are refused: this boot falls back before it has presented.
PreflightRefuses ==
    /\ daemon.at = "connected" /\ daemon.attached
    /\ Resolution(daemon.file, marker, compositor = "headless", daemon.session) = "direct"
    /\ ~machine.direct
    /\ WriteFallback
    /\ daemon' = [daemon EXCEPT !.at = "ended", !.exit = "fallback"]
    /\ UNCHANGED <<file, attempts, session, login, compositor, pass, slicer, machine, due>>

-----------------------------------------------------------------------------
(* A direct session.  Its passes hold the projection manager from the      *)
(* moment they look at the slicer until they have started or stopped it.   *)

Presenting == daemon.mode = "direct" /\ daemon.at \in {"running", "ended"}
Ending == daemon.exit # None

\* slicer_exited: before confirmation any exit is a failure, after it three
\* within ten minutes are; `recent` are those within, this one included.
Fails(recent) == ~daemon.confirmed \/ recent >= CRASH_BUDGET_EXITS

\* The statistics go with the slicer they are of.
Reaped(recent) ==
    daemon' = [daemon EXCEPT !.shown = FALSE,
                             !.exits = IF daemon.confirmed /\ ~Ending THEN recent ELSE @]

\* A pass beside a slicer that runs is asked for by something else.
PassLooks ==
    /\ Presenting /\ pass = "idle"
    /\ slicer # "dead"
    /\ IF slicer = "none" \/ Ending THEN Uncounted ELSE Count
    /\ pass' = IF Ending THEN "stop" ELSE "start"
    /\ UNCHANGED <<file, files, login, compositor, daemon, slicer, machine, due>>

PassReaps(recent) ==
    /\ Presenting /\ pass = "idle"
    /\ slicer = "dead" /\ slicer' = "none"
    /\ recent \in 1 .. daemon.exits + 1
    /\ Reaped(recent)
    /\ IF ~Ending /\ Fails(recent)
       THEN WriteFallback /\ pass' = "fall back"
       ELSE pass' = (IF Ending THEN "stop" ELSE "start") /\ UNCHANGED marker /\ Uncounted
    /\ UNCHANGED <<file, attempts, session, login, compositor, machine, due>>

\* No configuration can be derived for the displays as they are now.
PassCannotStart ==
    /\ Presenting /\ pass = "idle" /\ ~Ending
    /\ slicer # "dead"
    /\ ~machine.direct
    /\ WriteFallback
    /\ pass' = "fall back"
    /\ UNCHANGED <<file, attempts, session, login, compositor, daemon, slicer, machine, due>>

\* request_exit: the first request wins.
Requested(exit) == [daemon EXCEPT !.exit = IF @ = None THEN exit ELSE @]

PassFallsBack ==
    /\ pass = "fall back"
    /\ daemon' = Requested("fallback")
    /\ pass' = "stop"
    /\ UNCHANGED <<file, files, login, compositor, slicer, machine, due>> /\ Uncounted

\* A slicer that has exited since the pass looked is replaced, and not counted.
PassEnds ==
    /\ pass \in {"start", "stop"}
    /\ pass' = "idle"
    /\ slicer' = IF pass = "stop" THEN "none"
                 ELSE IF slicer \in {"none", "dead"} THEN "up" ELSE slicer
    /\ daemon' = [daemon EXCEPT !.shown = @ /\ slicer' = slicer]
    /\ UNCHANGED <<file, files, login, compositor, machine, due>> /\ Uncounted

Present ==
    /\ slicer = "up" /\ machine.direct /\ daemon.attached
    /\ slicer' = "presenting"
    /\ daemon' = [daemon EXCEPT !.shown = TRUE]
    /\ UNCHANGED <<file, files, login, compositor, pass, machine, due>> /\ Uncounted

\* The slicer exits: at once where direct presentation does not work, soon
\* after its compositor, and otherwise when it must.
SlicerExits ==
    /\ slicer \in {"up", "presenting"}
    /\ slicer' = "dead"
    /\ UNCHANGED <<file, files, login, compositor, daemon, pass, machine, due>>

SlicerBreaks == (~machine.direct \/ ~daemon.attached) /\ SlicerExits /\ Uncounted
SlicerCrashes == machine.direct /\ daemon.attached /\ SlicerExits /\ Count

\* observe_stats
Confirm ==
    /\ Presenting /\ daemon.shown /\ ~daemon.confirmed
    /\ daemon' = [daemon EXCEPT !.confirmed = TRUE]
    /\ attempts' = 0
    /\ UNCHANGED <<file, marker, session, login, compositor, pass, slicer, machine, due>>
    /\ Uncounted

\* watch_compositor, by its event or by its socket
NoticeLoss ==
    /\ Presenting /\ ~daemon.attached /\ ~Ending
    /\ daemon' = Requested("lost")
    /\ UNCHANGED <<file, files, login, compositor, pass, slicer, machine, due>> /\ Uncounted

-----------------------------------------------------------------------------
(* The daemon ends.                                                        *)

\* One slip: the slicer is stopped beside a pass and not after it.
ShutDownAtOnce ==
    /\ daemon.at = "running" /\ Ending
    /\ slicer' = "none"
    /\ daemon' = [daemon EXCEPT !.at = "ended"]
    /\ UNCHANGED <<file, files, login, compositor, pass, machine, due>> /\ Uncounted

\* The slicer is stopped under the lock of the passes.
ShutDown ==
    /\ daemon.at = "running" /\ Ending
    /\ pass = "idle"
    /\ slicer' = "none"
    /\ daemon' = [daemon EXCEPT !.at = "ended"]
    /\ UNCHANGED <<file, files, login, compositor, pass, machine, due>> /\ Uncounted

\* What becomes of a compositor, its daemon sees by its socket.
EndCompositor(end) ==
    /\ daemon.at = "ended"
    /\ Gone
    /\ compositor' = IF end /\ daemon.exit # "lost" /\ daemon.attached THEN None ELSE compositor
    /\ UNCHANGED <<file, files, login, machine, due>>

\* Sway is asked to exit, and waited for; it may not do so in time.
Finish == EndCompositor(TRUE) /\ Uncounted
FinishInVain == daemon.exit # "lost" /\ EndCompositor(FALSE) /\ Count

-----------------------------------------------------------------------------
(* Faults and operators.                                                   *)

Detached == IF daemon.at = "down" THEN daemon ELSE [daemon EXCEPT !.attached = FALSE]

\* Of its daemon only one that presents directly watches for it (NoticeLoss): in
\* an ordinary session nothing does, and the client keeps the path of a socket
\* that is gone although the login starts another compositor.
CompositorCrashes ==
    /\ compositor # None /\ Count
    /\ compositor' = None
    /\ daemon' = Detached
    /\ UNCHANGED <<file, files, login, pass, slicer, machine, due>>

KillDaemon ==
    /\ daemon.at # "down" /\ Count
    /\ Gone
    /\ UNCHANGED <<file, files, login, compositor, machine, due>>

Edit ==
    /\ Count
    /\ file' \in Modes \ {file}
    /\ UNCHANGED <<files, login, compositor, daemon, pass, slicer, machine, due>>

\* systemctl restart getty@tty1, then systemctl --user restart suede
RestartSession ==
    /\ Count
    /\ compositor' = None /\ login' = LoggedOut
    /\ daemon' = Detached
    /\ due' = TRUE
    /\ UNCHANGED <<file, files, pass, slicer, machine>>

RestartDaemon ==
    /\ due /\ due' = FALSE
    /\ Gone
    /\ UNCHANGED <<file, files, login, compositor, machine>> /\ Uncounted

\* The files are on a tmpfs.
Reboot ==
    /\ Count
    /\ marker' = FALSE /\ attempts' = 0 /\ session' = None
    /\ login' = LoggedOut /\ compositor' = None /\ due' = FALSE
    /\ Gone
    /\ UNCHANGED <<file, machine>>

-----------------------------------------------------------------------------
Init ==
    /\ file \in Modes
    /\ marker = FALSE /\ attempts = 0 /\ session = None
    /\ login = LoggedOut /\ compositor = None
    /\ daemon = Down /\ pass = "idle" /\ slicer = "none"
    /\ machine \in [sway : BOOLEAN, direct : BOOLEAN]
    /\ due = FALSE
    /\ faults = 0

Login == LoginDecides \/ LoginRecords \/ LoginStarts
Start == ReadFile \/ Connect \/ Resolve \/ ResolveFails \/ PreflightRefuses
Pass ==
    \/ PassLooks \/ PassFallsBack \/ PassEnds \/ PassCannotStart
    \/ \E recent \in 1 .. CRASH_BUDGET_EXITS : PassReaps(recent)
Fault == SlicerCrashes \/ FinishInVain \/ CompositorCrashes \/ KillDaemon \/ Edit
         \/ RestartSession \/ Reboot

\* A session that presents has no end of its own.
Stay == (daemon.mode = "wayland" \/ slicer = "presenting") /\ UNCHANGED vars

Next ==
    \/ Login \/ Start \/ Pass
    \/ Present \/ SlicerBreaks \/ Confirm \/ NoticeLoss
    \/ ShutDown \/ Finish \/ RestartDaemon
    \/ Fault \/ Stay

Spec == Init /\ [][Next]_vars

\* The lock of the passes is granted in the order it is asked for.
FairSpec ==
    /\ Spec
    /\ WF_vars(Login) /\ WF_vars(Start) /\ WF_vars(Pass)
    /\ WF_vars(Present) /\ WF_vars(SlicerBreaks) /\ WF_vars(Confirm) /\ WF_vars(NoticeLoss)
    /\ SF_vars(ShutDown) /\ WF_vars(Finish) /\ WF_vars(RestartDaemon)
-----------------------------------------------------------------------------
(* Properties.                                                             *)

LoginState == [at : {"out", "decided", "recorded"}, session : Optional(Modes),
               tried : 0 .. DIRECT_START_ATTEMPTS]
DaemonState == [at : {"down", "waiting", "connected", "running", "ended"},
                file : Optional(Modes), session : Optional(Modes), attached : BOOLEAN,
                mode : Optional(Modes), shown : BOOLEAN, confirmed : BOOLEAN,
                exits : 0 .. CRASH_BUDGET_EXITS, exit : Optional(Exits)]

TypeOK ==
    /\ file \in Modes
    /\ marker \in BOOLEAN
    /\ attempts \in 0 .. DIRECT_START_ATTEMPTS
    /\ session \in Optional(Modes)
    /\ login \in LoginState
    /\ compositor \in Optional({"headless", "drm"})
    /\ daemon \in DaemonState
    /\ pass \in {"idle", "start", "stop", "fall back"}
    /\ slicer \in {"none", "up", "presenting", "dead"}
    /\ machine \in [sway : BOOLEAN, direct : BOOLEAN]
    /\ due \in BOOLEAN
    /\ faults \in 0 .. MaxFaults

\* presentation.rs on end_headless_compositor: the slicer must already be
\* stopped.  A stale direct slicer never meets the next compositor, although
\* the session may be ended beside a pass that was about to start one.
SlicerGoesFirst == daemon.at = "ended" => slicer = "none"

Lit ==
    \/ compositor = "drm" /\ daemon.attached /\ daemon.mode = "wayland"
    \/ compositor = "headless" /\ daemon.attached /\ daemon.mode = "direct"
          /\ slicer = "presenting"

\* An ordinary session whose compositor crashed: its daemon stays, and stays with
\* the socket it had, until it is restarted.
Stranded == daemon.mode = "wayland" /\ ~daemon.attached /\ ~due

\* Whatever was killed, refused, edited or restarted, whichever slicer or headless
\* compositor crashed, and whether or not direct presentation works on the machine:
\* the wall is lit in the end.  The one end in the dark is that of a daemon whose
\* ordinary compositor crashed, and which nobody restarts.
EndsLit == <>[]Lit \/ <>[]Stranded
=============================================================================
