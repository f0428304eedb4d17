------------------------------ MODULE Ownership ------------------------------
(***************************************************************************)
(* Who owns a Gravy home: the pidfile and the socket, and the three         *)
(* commands that look at them, `gravy serve`, `gravy run`, `gravy stop`     *)
(* (internal/daemon/pidfile.go, stop.go, daemon.go, internal/api/server.go, *)
(* cmd/gravy/serve.go, commands.go).  Every access to a file is a step of   *)
(* its own, because nothing locks the home: two processes interleave        *)
(* between one's read and its write.                                        *)
(***************************************************************************)
EXTENDS Integers, FiniteSets

CONSTANTS
    Procs,      \* the processes ever started; each is its own pid
    NoProc,     \* the pid of a missing file, and of a path nobody bound
    Commands,   \* the commands they run: a subset of {"serve", "run", "stop"}
    Racing,     \* the windows of another process a command may start in:
                \* "starting", "exiting" (told to stop, and not gone yet)
    Reuse,      \* the pids that may be given again when their process is dead, to
                \* a stranger or to the next command itself
    Crashes     \* bound on kill -9

ASSUME OwnershipAssumption ==
    /\ NoProc \notin Procs
    /\ Commands \subseteq {"serve", "run", "stop"}
    /\ Racing \subseteq {"starting", "exiting"} /\ Reuse \subseteq Procs /\ Crashes \in Nat

VARIABLES
    pidfile,    \* the pid gravyd.pid holds, or NoProc when there is no file
    socket,     \* who bound the file at the socket path, or NoProc
    at,         \* where each process stands
    closing,    \* how far Server.Close has got in each daemon
    term,       \* the processes that were sent SIGTERM
    target,     \* the pid a `gravy stop` read
    crashes,
    recycled    \* the pids given again after their process died

ownVars == <<pidfile, socket, at, closing, term, target, crashes, recycled>>
files == <<pidfile, socket>>
past == <<crashes, recycled>>

ServeSteps == {"acquire", "clear", "write", "listen", "unlink", "bind",
               "reconcile", "serving", "aborting", "release"}

OwnInit ==
    /\ pidfile = NoProc /\ socket = NoProc
    /\ at = [p \in Procs |-> "off"]
    /\ closing = [p \in Procs |-> "open"]
    /\ term = {} /\ crashes = 0 /\ recycled = {}
    /\ target = [p \in Procs |-> NoProc]

----------------------------------------------------------------------------
\* What a process can ask about another.

Alive(p) == p # NoProc /\ at[p] \notin {"off", "gone"}

IsDaemon(p) == at[p] \in ServeSteps

\* The listener is open and accepting: what a Dial of the path finds.
Answers(p) == /\ p # NoProc
              /\ at[p] \in {"reconcile", "serving", "aborting"}
              /\ closing[p] \in {"open", "called", "unlinked"}

\* A process that writes the runs and tickets of the database, starting, finishing
\* or repairing runs: a daemon until its loop has drained, and `gravy run`.
Writing(p) == at[p] \in {"reconcile", "serving", "working"}

Starting(p) == at[p] \in {"acquire", "clear", "write", "listen", "unlink", "bind",
                          "reconcile", "check", "find", "tidy", "signal"}

Exiting(p) == IsDaemon(p) /\ (p \in term \/ closing[p] # "open")

At(p, step) == at[p] = step
Goto(p, step) == at' = [at EXCEPT ![p] = step]

----------------------------------------------------------------------------
\* Commands begin.

\* A command gets a pid nobody has: a new one, or that of a process long gone.
Launch(p, command) ==
    /\ command \in Commands
    /\ \/ At(p, "off") /\ UNCHANGED recycled
       \/ p \in Reuse /\ At(p, "gone") /\ recycled' = recycled \cup {p}
    /\ \A q \in Procs : /\ Starting(q) => "starting" \in Racing
                        /\ Exiting(q) => "exiting" \in Racing
    /\ Goto(p, CASE command = "serve" -> "acquire"
                 [] command = "run"   -> "check"
                 [] command = "stop"  -> "find")
    /\ closing' = [closing EXCEPT ![p] = "open"]
    /\ term' = term \ {p}
    /\ target' = [target EXCEPT ![p] = NoProc]
    /\ UNCHANGED <<files, crashes>>

----------------------------------------------------------------------------
\* `gravy serve`: acquirePidFile, Server.Listen, Reconcile, serve, release.

\* Mutant: any pidfile refuses, so that a crash blocks the home for good.
AcquirePidFile_anyFile(p) ==
    /\ At(p, "acquire")
    /\ Goto(p, IF pidfile = NoProc THEN "write" ELSE "gone")
    /\ UNCHANGED <<files, closing, term, target, past>>

\* Mutant: a daemon that only has its runs to wait for refuses nobody.
AcquirePidFile_draining(p) ==
    /\ At(p, "acquire")
    /\ Goto(p, IF pidfile = NoProc THEN "write"
               ELSE IF ~Alive(pidfile) THEN "clear"
               ELSE IF pidfile \in term /\ At(pidfile, "serving") THEN "listen" ELSE "gone")
    /\ UNCHANGED <<files, closing, term, target, past>>

\* Read the pidfile: a live pid refuses this daemon, any other is stale.  Its own pid
\* is a live one too: there is deliberately no exemption for it.
AcquirePidFile(p) ==
    /\ At(p, "acquire")
    /\ Goto(p, IF pidfile = NoProc THEN "write"
               ELSE IF Alive(pidfile) THEN "gone" ELSE "clear")
    /\ UNCHANGED <<files, closing, term, target, past>>

ClearStalePid(p) ==
    /\ At(p, "clear")
    /\ pidfile' = NoProc
    /\ Goto(p, "write")
    /\ UNCHANGED <<socket, closing, term, target, past>>

\* os.WriteFile: creates or truncates, never exclusive.
WritePidFile(p) ==
    /\ At(p, "write")
    /\ pidfile' = p
    /\ Goto(p, "listen")
    /\ UNCHANGED <<socket, closing, term, target, past>>

\* Stat and Dial: a socket that answers refuses this daemon, a corpse is removed.
\* A refusal runs the deferred release.
Listen(p) ==
    /\ At(p, "listen")
    /\ Goto(p, IF socket = NoProc THEN "bind"
               ELSE IF Answers(socket) THEN "release" ELSE "unlink")
    /\ UNCHANGED <<files, closing, term, target, past>>

\* os.Remove of the stale socket; one that is already gone is an error here.
RemoveStaleSocket(p) ==
    /\ At(p, "unlink")
    /\ Goto(p, IF socket = NoProc THEN "release" ELSE "bind")
    /\ socket' = NoProc
    /\ UNCHANGED <<pidfile, closing, term, target, past>>

\* net.Listen: the one exclusive step, since bind fails on an existing path.
Bind(p) ==
    /\ At(p, "bind")
    /\ \/ /\ socket = NoProc
          /\ socket' = p
          /\ Goto(p, "reconcile")
       \/ /\ socket # NoProc
          /\ Goto(p, "release")
          /\ UNCHANGED socket
    /\ UNCHANGED <<pidfile, closing, term, target, past>>

\* Reconcile: a cancelled context ends it early, as does an error of the store.
Reconcile(p) ==
    /\ At(p, "reconcile")
    /\ \/ /\ p \notin term
          /\ Goto(p, "serving")
          /\ UNCHANGED closing
       \/ /\ Goto(p, "aborting")
          /\ closing' = [closing EXCEPT ![p] = "called"]
    /\ UNCHANGED <<files, term, target, past>>

\* Serve's goroutine wakes on the cancelled context and calls Server.Close.
CloseOnCancel(p) ==
    /\ At(p, "serving") /\ p \in term /\ closing[p] = "open"
    /\ closing' = [closing EXCEPT ![p] = "called"]
    /\ UNCHANGED <<files, at, term, target, past>>

\* Server.Close: the listener unlinks the path and then closes, and Close removes
\* the path once more.  None of them looks at whose socket the path names.
CloseStep(p) ==
    /\ IsDaemon(p)
    /\ \/ /\ closing[p] = "called"
          /\ closing' = [closing EXCEPT ![p] = "unlinked"]
          /\ socket' = NoProc
       \/ /\ closing[p] = "unlinked"
          /\ closing' = [closing EXCEPT ![p] = "closed"]
          /\ UNCHANGED socket
       \/ /\ closing[p] = "closed"
          /\ closing' = [closing EXCEPT ![p] = "done"]
          /\ socket' = NoProc
    /\ UNCHANGED <<pidfile, at, term, target, past>>

\* Serve has returned, its listener being closed, and the loop has waited for its
\* runs.  The deferred Close finds `closed` already set and returns at once, though
\* the goroutine that set it may still have its last removal to do.
Drained(p) ==
    /\ At(p, "serving") /\ closing[p] \in {"closed", "done"}
    /\ Goto(p, "release")
    /\ UNCHANGED <<files, closing, term, target, past>>

\* Reconcile was cut short: here the deferred Close does the whole closing itself.
Aborted(p) ==
    /\ At(p, "aborting") /\ closing[p] = "done"
    /\ Goto(p, "release")
    /\ UNCHANGED <<files, closing, term, target, past>>

\* Mutant: no deferred release.
ReleasePidFile_never(p) ==
    /\ At(p, "release")
    /\ Goto(p, "gone")
    /\ UNCHANGED <<files, closing, term, target, past>>

\* releasePidFile: remove the file only while it still names this process.
ReleasePidFile(p) ==
    /\ At(p, "release")
    /\ \/ /\ pidfile = p
          /\ pidfile' = NoProc
          /\ UNCHANGED at
       \/ /\ pidfile # p
          /\ Goto(p, "gone")
          /\ UNCHANGED pidfile
    /\ UNCHANGED <<socket, closing, term, target, past>>

----------------------------------------------------------------------------
\* `gravy run`: a check of the pidfile, and then a scheduler of its own.

CheckRunning(p) ==
    /\ At(p, "check")
    /\ Goto(p, IF Alive(pidfile) THEN "gone" ELSE "working")
    /\ UNCHANGED <<files, closing, term, target, past>>

\* The queue went idle (--once), or ctrl-c.
FinishRun(p) ==
    /\ At(p, "working")
    /\ Goto(p, "gone")
    /\ UNCHANGED <<files, closing, term, target, past>>

----------------------------------------------------------------------------
\* `gravy stop`.

FindDaemon(p) ==
    /\ At(p, "find")
    /\ target' = [target EXCEPT ![p] = pidfile]
    /\ Goto(p, IF pidfile = NoProc THEN "gone"
               ELSE IF Alive(pidfile) THEN "signal" ELSE "tidy")
    /\ UNCHANGED <<files, closing, term, past>>

\* The pid it read is dead: remove the file, whatever it holds by now.
TidyStalePid(p) ==
    /\ At(p, "tidy")
    /\ pidfile' = NoProc
    /\ Goto(p, "gone")
    /\ UNCHANGED <<socket, closing, term, target, past>>

\* SIGTERM to the pid it read; a pid that has gone by now is no error.
Terminate(p) ==
    /\ At(p, "signal")
    /\ term' = term \cup {q \in {target[p]} : Alive(q)}
    /\ Goto(p, "await")
    /\ UNCHANGED <<files, closing, target, past>>

\* Poll until it has gone, or give up after the wait.
AwaitExit(p) ==
    /\ At(p, "await")
    /\ Goto(p, "gone")
    /\ UNCHANGED <<files, closing, term, target, past>>

----------------------------------------------------------------------------
\* The machine: kill -9 leaves both files behind, and pids come round again.

Crash(p) ==
    /\ IsDaemon(p) /\ crashes < Crashes
    /\ crashes' = crashes + 1
    /\ Goto(p, "gone")
    /\ UNCHANGED <<files, closing, term, target, recycled>>

ReusePid(p) ==
    /\ p \in Reuse /\ At(p, "gone")
    /\ Goto(p, "stranger")
    /\ recycled' = recycled \cup {p}
    /\ term' = term \ {p}
    /\ UNCHANGED <<files, closing, target, crashes>>

Serve(p) ==
    \/ AcquirePidFile(p) \/ ClearStalePid(p) \/ WritePidFile(p)
    \/ Listen(p) \/ RemoveStaleSocket(p) \/ Bind(p) \/ Reconcile(p)
    \/ Drained(p) \/ Aborted(p) \/ ReleasePidFile(p)

Closer(p) == CloseOnCancel(p) \/ CloseStep(p)

Run(p) == CheckRunning(p) \/ FinishRun(p)

StopCommand(p) == FindDaemon(p) \/ TidyStalePid(p) \/ Terminate(p) \/ AwaitExit(p)

OwnNext ==
    \E p \in Procs :
        \/ \E command \in Commands : Launch(p, command)
        \/ Serve(p) \/ Closer(p) \/ Run(p) \/ StopCommand(p)
        \/ Crash(p) \/ ReusePid(p)

\* A process that can take its next step is scheduled, goroutine by goroutine.
\* Nothing is owed by whoever starts commands, kills processes or reuses pids.
OwnFairness ==
    \A p \in Procs :
        WF_ownVars(Serve(p)) /\ WF_ownVars(Closer(p)) /\ WF_ownVars(StopCommand(p))

----------------------------------------------------------------------------
\* Correctness.

\* At most one daemon at a time starts runs and writes the database of a home (pidfile.go: "two
\* daemons writing one SQLite database is the failure this guards"), whatever order they start, stop
\* and die in; and asking the pidfile finds the one that serves: Running would answer zero
\* otherwise, and `gravy run` and `gravy stop` would both believe it.  `gravy run` has no claim on
\* the home to hold, and is left out.
OneDaemon ==
    /\ Cardinality({p \in Procs : Writing(p) /\ IsDaemon(p)}) <= 1
    /\ \A p \in Procs : At(p, "serving") => pidfile = p

\* A daemon gives up starting only because another daemon of the home is alive, or because the pid
\* that a killed daemon left in the file has been given again since, to a process that is alive:
\* a stranger, another command, or this very start, to which pidfile.go gives no exemption for its
\* own pid.  Otherwise neither file a crash leaves behind keeps the home from coming back by itself.
\* (An exiting daemon may also take away the socket this one was about to remove, which is an error
\* and not a refusal.)
Heir(q) == pidfile = q /\ Alive(q) /\ q \in recycled /\ crashes > 0
Refused(p) == \/ At(p, "acquire") /\ at'[p] = "gone" /\ crashes' = crashes
              \/ at[p] \in {"listen", "bind"} /\ at'[p] = "release"
InTheWay(p) == \/ \E q \in Procs \ {p} : IsDaemon(q)
               \/ At(p, "acquire") /\ \E q \in Procs : Heir(q)
RefusedByTheLiving == [][\A p \in Procs : Refused(p) => InTheWay(p)]_ownVars

\* A daemon told to stop does go, and takes its pidfile with it, whichever of its
\* goroutines closes the socket and wherever in its start the signal caught it.
StopEnds ==
    \A p \in Procs :
        (p \in term /\ IsDaemon(p)) ~> (~IsDaemon(p) /\ (pidfile # p \/ crashes > 0))
=============================================================================
