------------------------------- MODULE Shell -------------------------------
(***************************************************************************)
(* Starting and releasing the desktop: bootstrap.ts launches it, index.ts  *)
(* makes for each generation a worker process with its port, the handlers  *)
(* of three groups of channels, a workspace session and a window, and      *)
(* gives them back when the window is closed, the application quits or a   *)
(* step fails.  On macOS the application outlives its window, and the next *)
(* activation starts another generation, while calls of the last one may   *)
(* still be under way.                                                     *)
(***************************************************************************)
EXTENDS Integers

CONSTANT MaxLaunches   \* bound: generations started

ASSUME ShellAssumption == MaxLaunches \in Nat \ {0}

VARIABLES
    platform,       \* process.platform
    over,           \* the process has exited
    pendingLaunch,  \* bootstrap waits for a start
    startup,        \* index.ts's startup: its generation, or None
    latest,         \* how many generations were started
    at,             \* where start() of each generation stands
    utility,        \* its worker process runs
    greeting,       \* the worker's ready message: not "sent" yet, "sent", or "read"
    window,         \* its window is there
    session,        \* its workspace session, see Sessions
    late,           \* history: it was released with an unlock under way
    handlers        \* for each group of channels, the generation that serves it

shellVars == <<platform, over, pendingLaunch, startup, latest, at, utility, greeting, window,
               session, late, handlers>>

None == 0
Gens == 1..MaxLaunches
Groups == {"shell", "composition", "workspace"}
Places == {"none", "starting", "readiness", "opening", "loading", "up", "disposed"}

\* "unlocking" and "registering" are the two halves of an unlock call, before and after the
\* session has its composition; "closing" is a close that was not waited for.
Sessions == {"none", "locked", "unlocking", "registering", "open", "closing", "closed"}

Served(g) == {c \in Groups : handlers[c] = g}
Register(group, g) == handlers' = [handlers EXCEPT ![group] = g]

-----------------------------------------------------------------------------
(* Launch *)

\* A bug to check against: a start under way or a running desktop is not looked at.
LaunchAgain ==
    /\ ~over /\ latest < MaxLaunches
    /\ latest' = latest + 1
    /\ startup' = latest' /\ pendingLaunch' = TRUE
    /\ at' = [at EXCEPT ![latest'] = "starting"]
    /\ UNCHANGED <<platform, over, utility, greeting, window, session, late, handlers>>

\* launchDesktop, first and on each activation, with startDesktop and start() up to its wait
\* for Electron.  While a launch is pending, or the desktop is there, nothing begins.
Launch ==
    /\ ~over /\ latest < MaxLaunches
    /\ ~pendingLaunch /\ startup = None
    /\ latest' = latest + 1
    /\ startup' = latest' /\ pendingLaunch' = TRUE
    /\ at' = [at EXCEPT ![latest'] = "starting"]
    /\ UNCHANGED <<platform, over, utility, greeting, window, session, late, handlers>>

\* A step of start() throws: dispose, and handleFatalLaunch exits the process.  Handlers go
\* only if the last group was registered, which matters to nobody in a process that exits.
Fail(g) ==
    /\ at' = [at EXCEPT ![g] = "disposed"]
    /\ utility' = [utility EXCEPT ![g] = FALSE]
    /\ window' = [window EXCEPT ![g] = FALSE]
    /\ startup' = None /\ pendingLaunch' = FALSE /\ over' = TRUE
    /\ handlers' = IF at[g] = "loading"
                   THEN [c \in Groups |-> IF c \in Served(g) THEN None ELSE handlers[c]]
                   ELSE handlers
    /\ UNCHANGED <<platform, latest, greeting, session, late>>

\* Electron is ready: the worker process is forked, and given the other end of a new port ...
Forked(g) ==
    /\ ~over /\ at[g] = "starting"
    /\ at' = [at EXCEPT ![g] = "readiness"]
    /\ utility' = [utility EXCEPT ![g] = TRUE]
    /\ UNCHANGED <<platform, over, pendingLaunch, startup, latest, greeting, window, session,
                   late, handlers>>

\* ... which may throw: the two ends are closed, and the worker killed.
ForkFails(g) == ~over /\ at[g] = "starting" /\ Fail(g)

\* The worker process has its port and says that it is ready.
WorkerGreets(g) ==
    /\ ~over /\ utility[g] /\ greeting[g] = "none"
    /\ greeting' = [greeting EXCEPT ![g] = "sent"]
    /\ UNCHANGED <<platform, over, pendingLaunch, startup, latest, at, utility, window, session,
                   late, handlers>>

\* The worker dies.  Its port tells the start that waits for it, and the coordinator; nobody
\* starts another.
WorkerExits(g) ==
    /\ ~over /\ utility[g]
    /\ utility' = [utility EXCEPT ![g] = FALSE]
    /\ UNCHANGED <<platform, over, pendingLaunch, startup, latest, at, greeting, window, session,
                   late, handlers>>

\* awaitUtilityReady resolves, the coordinator is made and the shell's handlers registered;
\* ipcMain.handle throws where a handler is registered already.
Ready(g) ==
    /\ ~over /\ at[g] = "readiness" /\ greeting[g] = "sent"
    /\ IF handlers["shell"] = None
       THEN /\ Register("shell", g)
            /\ at' = [at EXCEPT ![g] = "opening"]
            /\ greeting' = [greeting EXCEPT ![g] = "read"]
            /\ UNCHANGED <<platform, over, pendingLaunch, startup, latest, utility, window,
                           session, late>>
       ELSE Fail(g)

\* A bug to check against: there is no timer.
NotReadyAlive(g) == ~over /\ at[g] = "readiness" /\ ~utility[g] /\ Fail(g)

\* The timer of five seconds is faster, or the worker's exit.
NotReady(g) == ~over /\ at[g] = "readiness" /\ Fail(g)

\* session.initialize finds a workspace that opens, and registers its composition; or one that
\* is locked, or whose key is missing.  Then the workspace's own handlers are registered.
Initialized(g) ==
    /\ ~over /\ at[g] = "opening"
    /\ \E opens \in BOOLEAN :
          IF handlers["workspace"] = None /\ (opens => handlers["composition"] = None)
          THEN /\ session' = [session EXCEPT ![g] = IF opens THEN "open" ELSE "locked"]
               /\ handlers' = [c \in Groups |->
                     IF c = "workspace" \/ (c = "composition" /\ opens) THEN g ELSE handlers[c]]
               /\ at' = [at EXCEPT ![g] = "loading"]
               /\ window' = [window EXCEPT ![g] = TRUE]
               /\ UNCHANGED <<platform, over, pendingLaunch, startup, latest, utility, greeting,
                              late>>
          ELSE Fail(g)

\* Any other error of session.initialize, such as WORKSPACE_KEY_INVALID.
InitializeFails(g) == ~over /\ at[g] = "opening" /\ Fail(g)

\* createMainWindow resolves, the callbacks of closing and quitting are attached, and the
\* launch is over.
Loaded(g) ==
    /\ ~over /\ at[g] = "loading"
    /\ at' = [at EXCEPT ![g] = "up"]
    /\ pendingLaunch' = FALSE
    /\ UNCHANGED <<platform, over, startup, latest, utility, greeting, window, session, late,
                   handlers>>

\* loadURL rejects, which it does as well when the user closes the window.
LoadFails(g) == ~over /\ at[g] = "loading" /\ Fail(g)

-----------------------------------------------------------------------------
(* Unlocking, from the lock screen *)

Unlock(g) ==
    /\ ~over /\ window[g] /\ session[g] = "locked"
    /\ session' = [session EXCEPT ![g] = "unlocking"]
    /\ UNCHANGED <<platform, over, pendingLaunch, startup, latest, at, utility, greeting, window,
                   late, handlers>>

\* createLocalImportController resolves, and the session has a composition; or the password
\* is wrong.  Nothing asks whether the session was closed meanwhile.
Unlocked(g) ==
    /\ ~over /\ session[g] = "unlocking"
    /\ \E next \in {"registering", "locked"} : session' = [session EXCEPT ![g] = next]
    /\ UNCHANGED <<platform, over, pendingLaunch, startup, latest, at, utility, greeting, window,
                   late, handlers>>

\* The session tells its composition to registerComposition, which throws where another
\* generation's handlers are; the session keeps the composition all the same.
Registered(g) ==
    /\ ~over /\ session[g] = "registering"
    /\ session' = [session EXCEPT ![g] = "open"]
    /\ IF handlers["composition"] = None THEN Register("composition", g)
                                         ELSE UNCHANGED handlers
    /\ UNCHANGED <<platform, over, pendingLaunch, startup, latest, at, utility, greeting, window,
                   late>>

-----------------------------------------------------------------------------
(* Release *)

\* A bug to check against: the composition's handlers are not given back.
UnregisterWithoutComposition(g) ==
    [c \in Groups |-> IF c \in Served(g) \ {"composition"} THEN None ELSE handlers[c]]

\* unregisterHandlers: the shell's, the composition's if there is one, the workspace's.
Unregister(g) == [c \in Groups |-> IF c \in Served(g) THEN None ELSE handlers[c]]

\* A bug to check against: nothing closes the session.
SessionLeft(g) == session[g]

\* What close() leaves: a database being closed, a call that goes on, or nothing.
CloseSession(g) ==
    CASE session[g] \in {"open", "registering"} -> "closing"
      [] session[g] = "unlocking" -> "unlocking"
      [] OTHER -> "closed"

\* dispose and disposeDesktop.  The close of the session is not waited for.
DisposeDesktop(g) ==
    /\ at' = [at EXCEPT ![g] = "disposed"]
    /\ handlers' = Unregister(g)
    /\ utility' = [utility EXCEPT ![g] = FALSE]
    /\ window' = [window EXCEPT ![g] = FALSE]
    /\ session' = [session EXCEPT ![g] = CloseSession(g)]
    /\ late' = [late EXCEPT ![g] = session[g] \in {"unlocking", "registering"}]
    /\ startup' = IF startup = g THEN None ELSE startup
    /\ UNCHANGED <<platform, pendingLaunch, latest, greeting>>

\* The user closes the window; but for macOS the application quits with its last one.
WindowClosed(g) ==
    /\ ~over /\ at[g] = "up" /\ window[g]
    /\ DisposeDesktop(g)
    /\ over' = (platform # "darwin")

\* before-quit, and the exit of the process.
Quit(g) ==
    /\ ~over /\ at[g] = "up"
    /\ DisposeDesktop(g)
    /\ over' = TRUE

\* The database is closed and the keys are zeroed.
Closed(g) ==
    /\ ~over /\ session[g] = "closing"
    /\ session' = [session EXCEPT ![g] = "closed"]
    /\ UNCHANGED <<platform, over, pendingLaunch, startup, latest, at, utility, greeting, window,
                   late, handlers>>

\* An unlock that was registering when its session was closed: registerComposition was under
\* way and registers all the same (otherwise it is called without a composition, and throws).
RegisteredLate(g) ==
    /\ ~over /\ at[g] = "disposed" /\ late[g] /\ session[g] \in {"closing", "closed"}
    /\ handlers["composition"] = None
    /\ Register("composition", g)
    /\ UNCHANGED <<platform, over, pendingLaunch, startup, latest, at, utility, greeting, window,
                   session, late>>

-----------------------------------------------------------------------------

ShellInit ==
    /\ platform \in {"darwin", "win32"}
    /\ over = FALSE /\ pendingLaunch = FALSE /\ startup = None /\ latest = 0
    /\ at = [g \in Gens |-> "none"]
    /\ utility = [g \in Gens |-> FALSE]
    /\ greeting = [g \in Gens |-> "none"]
    /\ window = [g \in Gens |-> FALSE]
    /\ session = [g \in Gens |-> "none"]
    /\ late = [g \in Gens |-> FALSE]
    /\ handlers = [c \in Groups |-> None]

GenStep(g) ==
    \/ Forked(g) \/ ForkFails(g) \/ WorkerGreets(g) \/ WorkerExits(g)
    \/ Ready(g) \/ NotReady(g) \/ Initialized(g) \/ InitializeFails(g)
    \/ Loaded(g) \/ LoadFails(g)
    \/ Unlock(g) \/ Unlocked(g) \/ Registered(g)
    \/ WindowClosed(g) \/ Quit(g) \/ Closed(g) \/ RegisteredLate(g)

ShellNext == Launch \/ \E g \in Gens : GenStep(g)

\* Electron gets ready, the readiness has a timer; opening the workspace, loading the page and
\* closing the database come to an end.
ShellFairness ==
    \A g \in Gens :
       /\ WF_shellVars(Forked(g) \/ ForkFails(g))
       /\ WF_shellVars(NotReady(g))
       /\ WF_shellVars(Initialized(g) \/ InitializeFails(g))
       /\ WF_shellVars(Loaded(g) \/ LoadFails(g))
       /\ WF_shellVars(Closed(g))

ShellSpec == ShellInit /\ [][ShellNext]_shellVars /\ ShellFairness

-----------------------------------------------------------------------------
(* Properties *)

ShellTypeOK ==
    /\ platform \in {"darwin", "win32"}
    /\ {over, pendingLaunch} \subseteq BOOLEAN
    /\ startup \in Gens \cup {None} /\ latest \in Gens \cup {None}
    /\ at \in [Gens -> Places]
    /\ utility \in [Gens -> BOOLEAN]
    /\ greeting \in [Gens -> {"none", "sent", "read"}]
    /\ window \in [Gens -> BOOLEAN]
    /\ session \in [Gens -> Sessions]
    /\ late \in [Gens -> BOOLEAN]
    /\ handlers \in [Groups -> Gens \cup {None}]

Starting == {"starting", "readiness", "opening", "loading"}

\* One desktop at a time: whatever launches, activations and closings cross, only the latest
\* generation may have a window or a worker, and it is the one index.ts remembers; when it
\* is released index.ts remembers none, so that the next activation starts another.
OneDesktop ==
    ~over =>
       /\ \A g \in Gens : window[g] \/ utility[g] \/ at[g] \in Starting \cup {"up"} =>
              g = startup /\ g = latest
       /\ startup # None => at[startup] \in Starting \cup {"up"}

\* A generation that was released has left nothing behind: no handler and no open session,
\* once its close has ended, unless an unlock was under way.
ReleasedWhole ==
    ~over => \A g \in Gens :
       at[g] = "disposed" /\ ~late[g] =>
          Served(g) = {} /\ session[g] \in {"closing", "closed"}

\* While the desktop is up its own session serves it: its handlers are there, those of a
\* composition exactly when its session has one, unless an earlier unlock came too late.
ServedByItself ==
    ~over /\ (\A g \in Gens : ~late[g]) =>
       \A g \in Gens : at[g] \in {"loading", "up"} =>
          /\ handlers["shell"] = g /\ handlers["workspace"] = g
          /\ handlers["composition"] = IF session[g] = "open" THEN g ELSE None

\* Every launch comes to an end: with the desktop, or with the process.
LaunchSettles == pendingLaunch ~> (~pendingLaunch \/ over)

=============================================================================
