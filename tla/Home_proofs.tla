----------------------------- MODULE Home_proofs ------------------------------
(***************************************************************************)
(* Proofs about a home and its daemon: any processes, crashes and reused pids;  *)
(* any callers and probes of a host; any runs and readers of their logs.      *)
(***************************************************************************)
EXTENDS Home, FiniteSetTheorems, SequenceTheorems, TLAPS

(***************************************************************************)
(* Who owns the home, where commands are started one at a time: nobody starts *)
(* in the window of another's start.  Exits, crashes and pids may overlap.    *)
(***************************************************************************)
OneAtATime == "starting" \notin Racing

Steps == ServeSteps \cup {"off", "gone", "stranger", "check", "working", "find", "tidy", "signal", "await"}

\* A process whose next steps rest on nobody being served by another daemon.
Claiming(p) == at[p] \in {"clear", "write", "listen", "unlink", "bind", "reconcile", "tidy"}
\* It has written its pid, and nobody has taken the file over.
Named(p) == at[p] \in {"listen", "unlink", "bind", "reconcile", "serving"}

OwnInv ==
  /\ at \in [Procs -> Steps] /\ crashes \in Nat
  /\ \A p, q \in Procs : Starting(p) /\ Starting(q) => p = q
  /\ \A p \in Procs : Named(p) => pidfile = p
  /\ \A p \in Procs : Claiming(p) => \A q \in Procs : at[q] # "serving"

\* What a file names: nobody, or a process that got far enough to write it and what is left of it, or
\* whoever has been given the pid that a killed daemon left there.
Wrote(p) == at[p] \in {"listen", "unlink", "bind", "reconcile", "serving", "aborting", "release"}
FilesInv ==
  /\ recycled \subseteq Procs
  /\ \A p \in Procs : at[p] = "off" => p \notin recycled
  /\ pidfile = NoProc \/ pidfile \in {p \in Procs :
       Wrote(p) \/ (crashes > 0 /\ (at[p] = "gone" \/ p \in recycled))}
  /\ socket = NoProc \/ socket \in Procs
  /\ \A p \in Procs : at[p] = "bind" => socket = NoProc

OwnerInv == OwnInv /\ FilesInv

\* Every step of the home keeps it, whichever part takes it.
LEMMA OwnerKept ==
  ASSUME OneAtATime
  PROVE  OwnerInv /\ [Next]_homeVars => OwnerInv'
  <1> SUFFICES ASSUME OwnerInv, [Next]_homeVars PROVE OwnerInv'
    OBVIOUS
  <1> USE OwnershipAssumption
  <1> USE DEF OwnerInv, OwnInv, FilesInv, Steps, ServeSteps, Claiming, Named, Starting, At, Goto, Alive, files,
             past, Wrote
  <1>1. ASSUME NEW p \in Procs, NEW command \in Commands, Launch(p, command)
        PROVE  OwnerInv'
    BY <1>1 DEF Launch, OneAtATime
  <1>2. ASSUME NEW p \in Procs, AcquirePidFile(p)
        PROVE  OwnerInv'
    BY <1>2 DEF AcquirePidFile
  <1>3. ASSUME NEW p \in Procs, ClearStalePid(p) \/ WritePidFile(p)
        PROVE  OwnerInv'
    BY <1>3 DEF ClearStalePid, WritePidFile
  <1>4. ASSUME NEW p \in Procs, Listen(p) \/ RemoveStaleSocket(p) \/ Bind(p)
        PROVE  OwnerInv'
    BY <1>4 DEF Listen, RemoveStaleSocket, Bind
  <1>5. ASSUME NEW p \in Procs, Reconcile(p) \/ Drained(p) \/ Aborted(p)
        PROVE  OwnerInv'
    BY <1>5 DEF Reconcile, Drained, Aborted
  <1>6. ASSUME NEW p \in Procs, ReleasePidFile(p)
        PROVE  OwnerInv'
    BY <1>6 DEF ReleasePidFile
  <1>7. ASSUME NEW p \in Procs, CloseOnCancel(p) \/ CloseStep(p)
        PROVE  OwnerInv'
    BY <1>7 DEF CloseOnCancel, CloseStep
  <1>8. ASSUME NEW p \in Procs, Run(p)
        PROVE  OwnerInv'
    BY <1>8 DEF Run, CheckRunning, FinishRun
  <1>9. ASSUME NEW p \in Procs, StopCommand(p)
        PROVE  OwnerInv'
    BY <1>9 DEF StopCommand, FindDaemon, TidyStalePid, Terminate, AwaitExit
  <1>10. ASSUME NEW p \in Procs, Crash(p) \/ ReusePid(p)
        PROVE  OwnerInv'
    BY <1>10 DEF Crash, ReusePid, IsDaemon
  <1>11. CASE UNCHANGED ownVars
    BY <1>11 DEF ownVars
  <1> QED BY <1>1, <1>2, <1>3, <1>4, <1>5, <1>6, <1>7, <1>8, <1>9, <1>10, <1>11
          DEF Next, homeVars, OwnNext, Serve, Closer

\* It therefore always holds.
LEMMA OwnerInductive ==
  ASSUME OneAtATime
  PROVE  Spec => []OwnerInv
  <1>1. Init => OwnerInv
    BY DEF Init, OwnInit, OwnerInv, OwnInv, FilesInv, Steps, ServeSteps, Claiming, Named, Starting, Wrote
  <1> QED BY <1>1, OwnerKept, PTL DEF Spec

\* While commands are started one at a time, however they stop, crash and get one another's pids, at
\* most one daemon writes the database of the home, and the pidfile names the one that serves.
THEOREM DaemonsExclude ==
  ASSUME OneAtATime
  PROVE  Spec => []OneDaemon
  <1>1. OwnerInv => OneDaemon
    <2> SUFFICES ASSUME OwnerInv PROVE OneDaemon
      OBVIOUS
    <2> DEFINE W == {p \in Procs : Writing(p) /\ IsDaemon(p)}
    <2>1. \A p, q \in W : p = q
      BY DEF OwnerInv, OwnInv, Writing, IsDaemon, ServeSteps, Starting, Claiming, Named
    <2>2. Cardinality(W) <= 1
      <3>1. CASE W = {}
        BY <3>1, FS_EmptySet
      <3>2. CASE W # {}
        <4>1. PICK p \in W : W = {p}
          BY <2>1, <3>2
        <4> QED BY <4>1, FS_Singleton
      <3> QED BY <3>1, <3>2
    <2> QED BY <2>2 DEF OneDaemon, OwnerInv, OwnInv, Named, At
  <1> QED BY <1>1, OwnerInductive, PTL

\* A daemon that gives up starting does so because of another daemon that is alive, or because the pid
\* of a killed one has been given again, to itself or to another: nothing else that a crash leaves
\* behind keeps the home from coming back.
THEOREM RefusedByLiving ==
  ASSUME OneAtATime
  PROVE  Spec => RefusedByTheLiving
  <1> DEFINE refusals == \A p \in Procs : Refused(p) => InTheWay(p)
  <1>1. OwnerInv /\ [Next]_homeVars => [refusals]_ownVars
    <2> SUFFICES ASSUME OwnerInv, OwnNext, NEW p \in Procs, Refused(p)
                 PROVE  InTheWay(p)
      BY DEF Next, homeVars
    <2> USE OwnershipAssumption DEF OwnerInv, OwnInv, FilesInv, Refused, Steps, ServeSteps, At, Goto, IsDaemon,
                                      InTheWay
    <2>1. PICK p0 \in Procs :
            \/ \E command \in Commands : Launch(p0, command)
            \/ Serve(p0) \/ Closer(p0) \/ Run(p0) \/ StopCommand(p0) \/ Crash(p0) \/ ReusePid(p0)
      BY DEF OwnNext
    <2>2. p0 = p
      <3>1. at' = at \/ \E step : Goto(p0, step)
        <4>1. CASE \E command \in Commands : Launch(p0, command)
          BY <4>1 DEF Launch
        <4>2. CASE Serve(p0)
          BY <4>2 DEF Serve, AcquirePidFile, ClearStalePid, WritePidFile, Listen, RemoveStaleSocket,
                      Bind, Reconcile, Drained, Aborted, ReleasePidFile
        <4>3. CASE Closer(p0) \/ Run(p0) \/ StopCommand(p0) \/ Crash(p0) \/ ReusePid(p0)
          BY <4>3 DEF Closer, Run, StopCommand, Crash, ReusePid, CloseOnCancel, CloseStep, CheckRunning,
                      FinishRun, FindDaemon, TidyStalePid, Terminate, AwaitExit
        <4> QED BY <2>1, <4>1, <4>2, <4>3
      <3> QED BY <3>1
    <2>3. AcquirePidFile(p) \/ Listen(p) \/ Bind(p)
      BY <2>1, <2>2 DEF Launch, Serve, Closer, Run, StopCommand, Crash, ReusePid, ClearStalePid,
                  WritePidFile, RemoveStaleSocket, Reconcile, Drained, Aborted,
                  ReleasePidFile, CloseOnCancel, CloseStep, CheckRunning, FinishRun, FindDaemon,
                  TidyStalePid, Terminate, AwaitExit
    <2>4. CASE AcquirePidFile(p)
      <3>1. Alive(pidfile)
        BY <2>4 DEF AcquirePidFile
      <3>2. CASE pidfile = p
        BY <2>4, <3>1, <3>2 DEF AcquirePidFile, Heir, Wrote
      <3> QED BY <2>4, <3>1, <3>2 DEF AcquirePidFile, Alive, Heir, Wrote
    <2>5. CASE Listen(p)
      <3>1. Answers(socket)
        BY <2>5 DEF Listen
      <3> QED BY <2>5, <3>1 DEF Listen, Answers
    <2>6. CASE Bind(p)
      BY <2>6 DEF Bind
    <2> QED BY <2>3, <2>4, <2>5, <2>6
  <1> QED BY <1>1, OwnerInductive, PTL DEF Spec, RefusedByTheLiving

(***************************************************************************)
(* The cached answer of a host.                                             *)
(***************************************************************************)
Looks == [at : Int, ok : BOOLEAN]

\* Whoever makes the first probe holds the lock over an empty cache; and while no human asks again,
\* one refresh is in flight at most, the flag says so, and what it has seen is no older than what
\* is cached.
HostInv ==
  /\ epoch \in Nat /\ entry \in Looks /\ rechecks \in Nat
  /\ pc \in [Probers -> {"idle", "first", "refresh", "recheck"}] /\ probe \in [Probers -> Looks]
  /\ entry.at <= epoch /\ \A p \in Probers : probe[p].at <= epoch
  /\ lock # NoCaller => ~Probed
  /\ \A p \in Probers : pc[p] = "first" => lock = p /\ p \in Callers
  /\ lock # NoCaller => lock \in Callers /\ pc[lock] = "first"
  /\ \A p \in Probers : probe[p] # Pending => probe[p].at >= 0
  /\ rechecks = 0 => /\ \A p \in Probers : pc[p] # "recheck"
                     /\ \A p, q \in Probers : pc[p] = "refresh" /\ pc[q] = "refresh" => p = q
                     /\ \A p \in Probers : pc[p] = "refresh" =>
                          refreshing /\ Probed /\ (probe[p] # Pending => probe[p].at >= entry.at)

\* The probes' own steps keep it, and so do the machine's and the home's other parts.
LEMMA HostKept == HostInv /\ [Next]_homeVars => HostInv'
  <1> SUFFICES ASSUME HostInv, [Next]_homeVars PROVE HostInv'
    OBVIOUS
  <1> USE HostCapsAssumption DEF HostInv, Probed, Looks, Pending, Probers, cache, Begin, Store
  <1>1. CASE Flip \/ Expire
    BY <1>1 DEF Flip, Expire
  <1>2. CASE GetStale
    <2>1. PICK r \in Refreshers : /\ pc[r] = "idle" /\ pc' = [pc EXCEPT ![r] = "refresh"]
                                  /\ probe' = [probe EXCEPT ![r] = Pending]
      BY <1>2 DEF GetStale
    <2>2. Pending \in Looks /\ Pending.at = -1
      OBVIOUS
    <2> HIDE DEF Pending, Looks
    <2>3. probe' \in [Probers -> Looks] /\ pc' \in [Probers -> {"idle", "first", "refresh", "recheck"}]
      BY <2>1, <2>2
    <2>4. refreshing' /\ UNCHANGED <<epoch, entry, lock, rechecks>> /\ Probed /\ ~refreshing /\ lock = NoCaller
      BY <1>2 DEF GetStale
    <2>5. \A p \in Probers \ {r} : pc'[p] = pc[p] /\ probe'[p] = probe[p]
      BY <2>1
    <2>6. r \in Probers /\ pc'[r] = "refresh" /\ probe'[r] = Pending
      BY <2>1
    <2> QED BY <2>2, <2>3, <2>4, <2>5, <2>6
  <1>3. ASSUME NEW p \in Probers, Answer(p)
        PROVE  HostInv'
    <2>1. PICK ok \in BOOLEAN : probe' = [probe EXCEPT ![p] = [at |-> epoch, ok |-> ok]]
      BY <1>3 DEF Answer, On
    <2>2. UNCHANGED <<epoch, entry, refreshing, lock, rechecks, pc>>
      BY <1>3 DEF Answer
    <2>3. probe' \in [Probers -> Looks] /\ probe'[p].at = epoch /\ \A q \in Probers \ {p} : probe'[q] = probe[q]
      BY <2>1
    <2> QED BY <2>2, <2>3
  <1>4. ASSUME NEW c \in Callers, GetFirst(c)
        PROVE  HostInv'
    BY <1>4 DEF GetFirst
  <1>5. ASSUME NEW c \in Callers, GetFirstDone(c)
        PROVE  HostInv'
    BY <1>5 DEF GetFirstDone
  <1>6. ASSUME NEW c \in Callers, Recheck(c)
        PROVE  HostInv'
    BY <1>6 DEF Recheck
  <1>7. ASSUME NEW c \in Callers, RecheckDone(c)
        PROVE  HostInv'
    BY <1>7 DEF RecheckDone
  <1>8. ASSUME NEW r \in Refreshers, RefreshDone(r)
        PROVE  HostInv'
    BY <1>8 DEF RefreshDone
  <1>9. CASE UNCHANGED capsVars
    BY <1>9 DEF capsVars
  <1> QED BY <1>1, <1>2, <1>3, <1>4, <1>5, <1>6, <1>7, <1>8, <1>9 DEF Next, homeVars, CapsNext

\* It therefore always holds.
LEMMA HostInductive == Spec => []HostInv
  <1>1. Init => HostInv
    BY HostCapsAssumption DEF Init, CapsInit, HostInv, Looks, Pending, Probers, Probed
  <1> QED BY <1>1, HostKept, PTL DEF Spec

\* For any callers and probes, a caller waits on the network only for a host never reached, and stale
\* reads share one probe while no human asks for another: what HostLearned says of every state.
THEOREM ReadersShare == Spec => [](NeverWaits /\ OneRefresh)
  <1>1. HostInv => NeverWaits /\ OneRefresh
    <2> SUFFICES ASSUME HostInv PROVE NeverWaits /\ OneRefresh
      OBVIOUS
    <2>1. ASSUME rechecks = 0
          PROVE  Cardinality(InFlight) <= 1
      <3>1. \A p, q \in InFlight : p = q
        BY <2>1 DEF HostInv, InFlight, Probers
      <3>2. CASE InFlight = {}
        BY <3>2, FS_EmptySet
      <3>3. CASE InFlight # {}
        <4>1. PICK p \in InFlight : InFlight = {p}
          BY <3>1, <3>3
        <4> QED BY <4>1, FS_Singleton
      <3> QED BY <3>2, <3>3
    <2> QED BY <2>1 DEF HostInv, NeverWaits, OneRefresh
  <1> QED BY <1>1, HostInductive, PTL

\* Nor does an answer give way to an older one, while no human asks again.
THEOREM NewestAnswerStands == Spec => NewestStands
  <1>1. HostInv /\ [Next]_homeVars => [rechecks = 0 => entry'.at >= entry.at]_capsVars
    <2> SUFFICES ASSUME HostInv, CapsNext, rechecks = 0 PROVE entry'.at >= entry.at
      BY DEF Next, homeVars
    <2>0. entry.at \in Int /\ \A p \in Probers : probe[p].at \in Int
      BY DEF HostInv, Looks
    <2>1. ASSUME NEW c \in Callers, GetFirstDone(c)
          PROVE  entry'.at >= entry.at
      <3>1. lock = c /\ c # NoCaller /\ probe[c].at >= 0
        BY <2>1, HostCapsAssumption DEF GetFirstDone, HostInv, Probers
      <3>2. ~(entry.at >= 0)
        BY <3>1 DEF HostInv, Probed
      <3> QED BY <2>0, <2>1, <3>1, <3>2 DEF GetFirstDone, Store, Probers
    <2>2. ASSUME NEW r \in Refreshers, RefreshDone(r)
          PROVE  entry'.at >= entry.at
      BY <2>2 DEF RefreshDone, Store, HostInv, Probers
    <2>3. ASSUME NEW c \in Callers
          PROVE  ~RecheckDone(c)
      BY DEF RecheckDone, HostInv, Probers
    <2>4. ASSUME \/ Flip \/ Expire \/ GetStale \/ \E p \in Probers : Answer(p)
                 \/ \E c \in Callers : GetFirst(c) \/ Recheck(c)
          PROVE  entry' = entry
      BY <2>4 DEF Flip, Expire, GetStale, Answer, GetFirst, Recheck, cache
    <2> QED BY <2>0, <2>1, <2>2, <2>3, <2>4 DEF CapsNext
  <1> QED BY <1>1, HostInductive, PTL DEF Spec, NewestStands

(***************************************************************************)
(* The logs of runs.                                                        *)
(***************************************************************************)

\* What is about to be removed is the directory of a run that is over, and it stays over; a run that
\* writes has made its own.
LogInv ==
  /\ writer \in [Runs -> {"none", "made", "serving", "open", "closed", "gone"}]
  /\ \A r \in Runs : writer[r] = "none" => r \notin dir
  /\ \A r \in Runs : writer[r] \in {"made", "serving", "open"} => r \in dir
  /\ pruning \in Runs => writer[pruning] = "gone"

\* Every step of the home keeps it.
LEMMA LogKept == LogInv /\ [Next]_homeVars => LogInv'
  <1> SUFFICES ASSUME LogInv, [Next]_homeVars PROVE LogInv'
    OBVIOUS
  <1> USE RunLogAssumption DEF LogInv
  <1>1. ASSUME NEW r \in Runs, MakeDir(r) \/ GoLive(r) \/ Opened(r) \/ CloseLog(r) \/ Forget(r)
        PROVE  LogInv'
    BY <1>1 DEF MakeDir, GoLive, Opened, CloseLog, Forget
  <1>2. ASSUME NEW r \in Runs, LooksOld(r) \/ RemoveDir(r)
        PROVE  LogInv'
    BY <1>2 DEF LooksOld, RemoveDir, Live
  <1>4. ASSUME NEW s \in Readers, ReaderNext(s)
        PROVE  LogInv'
    BY <1>4 DEF ReaderNext, Follow, ServeFiles, NoFiles, WaitForWriter, Subscribe, Serving, Stop, Relay,
                EndStream, Decode, Closed
  <1>5. CASE DaemonDies
    BY <1>5 DEF DaemonDies
  <1>6. CASE UNCHANGED logVars
    BY <1>6 DEF logVars
  <1>7. ASSUME NEW r \in Runs, WriterNext(r)
        PROVE  LogInv'
    <2>1. CASE \E s \in Readers : ServeWaiter(r, s)
      BY <2>1 DEF ServeWaiter
    <2>2. CASE \E f \in Files : Write(r, f)
      BY <2>2 DEF Write
    <2> QED BY <1>1, <1>2, <1>7, <2>1, <2>2 DEF WriterNext
  <1> QED BY <1>4, <1>5, <1>6, <1>7 DEF Next, homeVars, LogNext

(***************************************************************************)
(* What a follower of a run gets.                                           *)
(***************************************************************************)

LineSet == [file : Files, n : Nat \ {0}]
Records == [Files -> Nat]

\* One line handed on is the same lines in all, given and on their way.
LEMMA RelayKeepsAll ==
  ASSUME NEW out \in Seq(LineSet), NEW buf \in Seq(LineSet), buf # <<>>
  PROVE  /\ Append(out, Head(buf)) \o Tail(buf) = out \o buf
         /\ Append(out, Head(buf)) \in Seq(LineSet) /\ Tail(buf) \in Seq(LineSet)
  <1>1. Head(buf) \in LineSet /\ Tail(buf) \in Seq(LineSet) /\ Len(buf) \in Nat \ {0}
    BY HeadTailProperties, EmptySeq
  <1>2. Append(out, Head(buf)) \o Tail(buf) = out \o buf
    BY <1>1
  <1> QED BY <1>1, <1>2

\* A line published at the end of what is on its way comes after all that was given.
LEMMA AppendAtEnd ==
  ASSUME NEW out \in Seq(LineSet), NEW buf \in Seq(LineSet), NEW l \in LineSet
  PROVE  out \o Append(buf, l) = Append(out \o buf, l) /\ Append(buf, l) \in Seq(LineSet)
  OBVIOUS

\* The lines of a file are its numbers in their order.
LEMMA LinesInOrder ==
  ASSUME NEW f \in Files, NEW k \in Nat
  PROVE  /\ LogLines(f, k) \in Seq(LineSet) /\ Len(LogLines(f, k)) = k
         /\ \A i \in 1..k : LogLines(f, k)[i] = Line(f, i)
  <1>1. \A i \in 1..k : Line(f, i) \in LineSet
    BY DEF Line, LineSet
  <1>2. LogLines(f, k) \in [1..k -> LineSet] /\ \A i \in 1..k : LogLines(f, k)[i] = Line(f, i)
    BY <1>1 DEF LogLines
  <1>3. LogLines(f, k) \in Seq(LineSet)
    BY <1>2, SeqDef
  <1>4. DOMAIN LogLines(f, k) = 1..k /\ DOMAIN LogLines(f, k) = 1..Len(LogLines(f, k))
        /\ Len(LogLines(f, k)) \in Nat
    BY <1>2, <1>3, LenProperties
  <1>5. Len(LogLines(f, k)) = k
    BY <1>4
  <1> QED BY <1>2, <1>3, <1>5

\* An empty log is whole, and so is the history of a run, file after file.
LEMMA HistoryWhole ==
  ASSUME NEW n \in Records
  PROVE  LET all == LogLines("agent", n["agent"]) \o LogLines("event", n["event"]) IN
         all \in Seq(LineSet) /\ Whole(all, n)
  <1> DEFINE a == LogLines("agent", n["agent"])
             e == LogLines("event", n["event"])
             all == a \o e
  <1>1. n["agent"] \in Nat /\ n["event"] \in Nat
    BY DEF Records, Files
  <1>2. /\ a \in Seq(LineSet) /\ Len(a) = n["agent"]
        /\ \A i \in 1..n["agent"] : a[i] = Line("agent", i)
    BY <1>1, LinesInOrder DEF Files
  <1>3. /\ e \in Seq(LineSet) /\ Len(e) = n["event"]
        /\ \A i \in 1..n["event"] : e[i] = Line("event", i)
    BY <1>1, LinesInOrder DEF Files
  <1> HIDE DEF a, e
  <1>4. /\ all \in Seq(LineSet) /\ Len(all) = n["agent"] + n["event"]
        /\ DOMAIN all = 1..(n["agent"] + n["event"])
        /\ \A i \in 1..n["agent"] : all[i] = Line("agent", i)
        /\ \A i \in 1..n["event"] : all[n["agent"] + i] = Line("event", i)
    <2>1. /\ all \in Seq(LineSet) /\ Len(all) = n["agent"] + n["event"]
          /\ \A i \in 1..(n["agent"] + n["event"]) :
               all[i] = IF i <= n["agent"] THEN a[i] ELSE e[i - n["agent"]]
      <3>1. a \in Seq(LineSet) /\ e \in Seq(LineSet) /\ Len(a) = n["agent"] /\ Len(e) = n["event"]
        BY <1>2, <1>3
      <3>2. /\ a \o e \in Seq(LineSet) /\ Len(a \o e) = Len(a) + Len(e)
            /\ \A i \in 1..(Len(a) + Len(e)) :
                 (a \o e)[i] = IF i <= Len(a) THEN a[i] ELSE e[i - Len(a)]
        BY <3>1, ConcatProperties, Zenon
      <3> QED BY <3>1, <3>2
    <2> HIDE DEF all
    <2>2. DOMAIN all = 1..(n["agent"] + n["event"])
      BY <2>1, LenProperties
    <2>3. \A i \in 1..n["agent"] : all[i] = Line("agent", i)
      BY <1>1, <1>2, <2>1
    <2>4. ASSUME NEW i \in 1..n["event"]
          PROVE  all[n["agent"] + i] = Line("event", i)
      <3>1. /\ n["agent"] + i \in 1..(n["agent"] + n["event"]) /\ ~(n["agent"] + i <= n["agent"])
            /\ (n["agent"] + i) - n["agent"] = i
        BY <1>1
      <3> QED BY <1>3, <2>1, <3>1
    <2> QED BY <2>1, <2>2, <2>3, <2>4
  <1> HIDE DEF all
  <1>5. \A i \in DOMAIN all :
          \/ i \in 1..n["agent"] /\ all[i].file = "agent" /\ all[i].n = i
          \/ i - n["agent"] \in 1..n["event"] /\ all[i].file = "event" /\ all[i].n = i - n["agent"]
    <2> SUFFICES ASSUME NEW i \in DOMAIN all
                 PROVE  \/ i \in 1..n["agent"] /\ all[i].file = "agent" /\ all[i].n = i
                        \/ /\ i - n["agent"] \in 1..n["event"]
                           /\ all[i].file = "event" /\ all[i].n = i - n["agent"]
      OBVIOUS
    <2>1. CASE i <= n["agent"]
      <3>1. i \in 1..n["agent"]
        BY <1>1, <1>4, <2>1
      <3>2. all[i] = Line("agent", i)
        BY <1>4, <3>1
      <3> QED BY <3>1, <3>2 DEF Line
    <2>2. CASE ~(i <= n["agent"])
      <3>1. i - n["agent"] \in 1..n["event"] /\ n["agent"] + (i - n["agent"]) = i
        BY <1>1, <1>4, <2>2
      <3>2. all[i] = Line("event", i - n["agent"])
        BY <1>4, <3>1
      <3> QED BY <3>1, <3>2 DEF Line
    <2> QED BY <2>1, <2>2
  <1>6. \A f \in Files : \A k \in 1..n[f] : \E i \in DOMAIN all : all[i] = Line(f, k)
    <2> SUFFICES ASSUME NEW f \in Files, NEW k \in 1..n[f]
                 PROVE  \E i \in DOMAIN all : all[i] = Line(f, k)
      OBVIOUS
    <2>1. CASE f = "agent"
      BY <1>1, <1>4, <2>1
    <2>2. CASE f = "event"
      <3>1. n["agent"] + k \in DOMAIN all /\ all[n["agent"] + k] = Line(f, k)
        BY <1>1, <1>4, <2>2
      <3> QED BY <3>1
    <2> QED BY <2>1, <2>2 DEF Files
  <1>7. \A i \in DOMAIN all : all[i].n <= n[all[i].file]
    BY <1>1, <1>5
  <1>8. \A i, j \in DOMAIN all : i < j /\ all[i].file = all[j].file => all[i].n < all[j].n
    BY <1>1, <1>4, <1>5
  <1>9. Whole(all, n)
    BY <1>6, <1>7, <1>8 DEF Whole
  <1> QED BY <1>4, <1>9 DEF all, a, e

\* A line written and published keeps a follower's log whole.
LEMMA WriteWhole ==
  ASSUME NEW got \in Seq(LineSet), NEW n \in Records, Whole(got, n), NEW f \in Files
  PROVE  Whole(Append(got, Line(f, n[f] + 1)), [n EXCEPT ![f] = @ + 1])
  <1> DEFINE l == Line(f, n[f] + 1)
             m == [n EXCEPT ![f] = @ + 1]
             all == Append(got, l)
  <1>1. n[f] \in Nat /\ l.file = f /\ l.n = n[f] + 1 /\ l \in LineSet
    BY DEF Records, Line, LineSet
  <1>2. m[f] = n[f] + 1 /\ \A g \in Files \ {f} : m[g] = n[g]
    BY DEF Records
  <1>3. Len(got) \in Nat /\ DOMAIN got = 1..Len(got) /\ \A i \in DOMAIN got : got[i] \in LineSet
    BY ElementOfSeq, LenProperties
  <1>4. /\ DOMAIN all = 1..(Len(got) + 1) /\ all[Len(got) + 1] = l
        /\ \A i \in DOMAIN got : all[i] = got[i]
    BY <1>1, <1>3
  <1>5. \A i \in DOMAIN all : i \in DOMAIN got \/ i = Len(got) + 1
    BY <1>3, <1>4
  <1>6. \A i \in DOMAIN got : got[i].file \in Files /\ got[i].n \in Nat /\ n[got[i].file] \in Nat
    BY <1>3 DEF LineSet, Records
  <1> HIDE DEF all, l, m
  <1>7. \A g \in Files : \A k \in 1..m[g] : \E i \in DOMAIN all : all[i] = Line(g, k)
    <2> SUFFICES ASSUME NEW g \in Files, NEW k \in 1..m[g]
                 PROVE  \E i \in DOMAIN all : all[i] = Line(g, k)
      OBVIOUS
    <2>1. CASE g = f /\ k = n[f] + 1
      BY <1>3, <1>4, <2>1 DEF l
    <2>2. CASE ~(g = f /\ k = n[f] + 1)
      <3>1. k \in 1..n[g]
        BY <1>1, <1>2, <2>2
      <3>2. PICK i \in DOMAIN got : got[i] = Line(g, k)
        BY <3>1 DEF Whole
      <3> QED BY <1>3, <1>4, <3>2
    <2> QED BY <2>1, <2>2
  <1>8. \A i \in DOMAIN all : all[i].n <= m[all[i].file]
    <2> SUFFICES ASSUME NEW i \in DOMAIN all PROVE all[i].n <= m[all[i].file]
      OBVIOUS
    <2>1. CASE i \in DOMAIN got
      <3>1. got[i].n <= n[got[i].file] /\ n[got[i].file] <= m[got[i].file]
        BY <1>1, <1>2, <1>6, <2>1 DEF Whole
      <3>2. m[got[i].file] \in Nat
        BY <1>1, <1>2, <1>6, <2>1
      <3> QED BY <1>4, <1>6, <2>1, <3>1, <3>2
    <2>2. CASE i = Len(got) + 1
      BY <1>1, <1>2, <1>4, <2>2
    <2> QED BY <1>5, <2>1, <2>2
  <1>9. ASSUME NEW i \in DOMAIN all, NEW j \in DOMAIN all, i < j, all[i].file = all[j].file
        PROVE  all[i].n < all[j].n
    <2>1. i \in DOMAIN got
      BY <1>3, <1>4, <1>9
    <2>2. CASE j \in DOMAIN got
      BY <1>4, <1>9, <2>1, <2>2 DEF Whole
    <2>3. CASE j = Len(got) + 1
      <3>1. got[i].file = f /\ got[i].n <= n[f] /\ got[i].n \in Nat
        BY <1>1, <1>4, <1>6, <1>9, <2>1, <2>3 DEF Whole
      <3> QED BY <1>1, <1>4, <2>1, <2>3, <3>1
    <2> QED BY <1>5, <2>2, <2>3
  <1>10. Whole(all, m)
    BY <1>7, <1>8, <1>9 DEF Whole
  <1> QED BY <1>10 DEF all, l, m

\* No line is all of no lines.
LEMMA NothingWhole == Whole(<<>>, Empty)
  BY DEF Whole, Empty, Files

Stage == {"idle", "found", "missing", "unstarted", "waiting", "following", "ended", "over"}
TailRec == [run : Runs \union {"none"}, at : Stage, taps : BOOLEAN, shut : BOOLEAN,
            buf : Seq(LineSet), out : Seq(LineSet), lagged : BOOLEAN]
Begun == {"serving", "open", "closed", "gone"}

\* What is true of a reader's record, while w, d and l are the writers, the directories and the files.
\* One that has not looked yet has been given nothing; one that holds a channel, or is about to, has
\* a writer that began, and one whose channel is closed a writer that closed it; and who follows has
\* all the lines.
Good(t, w, d, l) ==
  /\ t.at = "idle" => t = Idle
  /\ t.at # "idle" => t.run \in Runs
  /\ t.at \in {"found", "missing", "unstarted", "waiting"} =>
       t.out = <<>> /\ t.buf = <<>> /\ ~t.taps /\ ~t.shut /\ ~t.lagged
  /\ t.taps \/ t.at = "found" => w[t.run] \in Begun
  /\ t.shut => w[t.run] \in {"closed", "gone"}
  /\ t.at \in {"following", "ended"} /\ (t.taps \/ t.shut) /\ ~t.lagged /\ t.run \in d =>
       Whole(t.out \o t.buf, l[t.run])

\* Who waits, or is about to be served, is about that run, and a log is empty until its run is open.
TailInv ==
  /\ tail \in [Readers -> TailRec] /\ file \in [Runs -> Records]
  /\ pending \in [Runs -> SUBSET Readers] /\ toServe \in [Runs -> SUBSET Readers]
  /\ \A s \in Readers : Good(tail[s], writer, dir, file)
  /\ \A r \in Runs : \A s \in pending[r] \union toServe[r] : tail[s].run = r
  /\ \A r \in Runs : writer[r] \in {"none", "made", "serving"} => file[r] = Empty

\* A reader that has not called yet is good whatever the logs are.
LEMMA IdleGood ==
  ASSUME NEW w, NEW d, NEW l
  PROVE  Idle \in TailRec /\ Good(Idle, w, d, l)
  <1>1. <<>> \in Seq(LineSet)
    BY EmptySeq
  <1> QED BY <1>1 DEF Idle, TailRec, Good, Stage

\* A step of one reader keeps everything when what it leaves there is good.
LEMMA OneReader ==
  ASSUME TailInv, NEW s \in Readers, NEW t \in TailRec, Good(t, writer, dir, file),
         t.run = tail[s].run \/ tail[s].at = "idle",
         tail' = [tail EXCEPT ![s] = t], UNCHANGED <<writer, dir, file>>,
         pending' \in [Runs -> SUBSET Readers], toServe' \in [Runs -> SUBSET Readers],
         \A r \in Runs : /\ toServe'[r] \subseteq toServe[r]
                         /\ pending'[r] \subseteq pending[r] \union {s}
                         /\ s \in pending'[r] \ pending[r] => t.run = r
  PROVE  TailInv'
  <1> USE RunLogAssumption DEF TailInv
  <1>1. tail' \in [Readers -> TailRec]
    OBVIOUS
  <1>2. ASSUME NEW q \in Readers
        PROVE  Good(tail'[q], writer', dir', file')
    BY <1>2
  <1>3. ASSUME NEW r \in Runs, NEW q \in pending'[r] \union toServe'[r]
        PROVE  tail'[q].run = r
    <2>1. CASE q # s
      BY <1>3, <2>1
    <2>2. CASE q = s
      <3>1. CASE q \in pending[r] \union toServe[r]
        <4>1. tail[s].run = r
          BY <2>2, <3>1
        <4>2. tail[s].at # "idle"
          BY <4>1 DEF Good, Idle
        <4> QED BY <2>2, <4>1, <4>2
      <3>2. CASE q \notin pending[r] \union toServe[r]
        BY <1>3, <2>2, <3>2
      <3> QED BY <3>1, <3>2
    <2> QED BY <2>1, <2>2
  <1> QED BY <1>1, <1>2, <1>3

\* A step of a writer that writes nothing and closes nothing keeps every reader good: a run goes on,
\* or one that nobody can be following gets its directory.
LEMMA WriterMovesOn ==
  ASSUME LogInv, NEW t \in TailRec, Good(t, writer, dir, file), NEW r \in Runs,
         \/ MakeDir(r) \/ GoLive(r) \/ Opened(r) \/ Forget(r) \/ LooksOld(r) \/ RemoveDir(r)
  PROVE  Good(t, writer', dir', file')
  <1> USE RunLogAssumption DEF LogInv, Begun
  <1> DEFINE follows == t.at \in {"following", "ended"} /\ (t.taps \/ t.shut) /\ ~t.lagged
  <1>1. /\ writer' \in [Runs -> {"none", "made", "serving", "open", "closed", "gone"}]
        /\ \A q \in Runs : /\ writer[q] \in Begun => writer'[q] \in Begun
                           /\ writer[q] \in {"closed", "gone"} => writer'[q] \in {"closed", "gone"}
    BY DEF MakeDir, GoLive, Opened, Forget, LooksOld, RemoveDir
  <1>2. ASSUME follows, t.run \in dir'
        PROVE  t.run \in dir /\ file'[t.run] = file[t.run]
    <2>1. t.run \in Runs /\ writer[t.run] \in Begun
      BY <1>2 DEF Good
    <2>2. CASE MakeDir(r)
      BY <1>2, <2>1, <2>2 DEF MakeDir
    <2>3. CASE RemoveDir(r)
      <3>1. t.run # r /\ t.run \in dir
        BY <1>2, <2>3 DEF RemoveDir
      <3>2. file'[t.run] = file[t.run]
        BY <2>3, <3>1 DEF RemoveDir
      <3> QED BY <3>1, <3>2
    <2>4. CASE GoLive(r) \/ Opened(r) \/ Forget(r) \/ LooksOld(r)
      BY <1>2, <2>4 DEF GoLive, Opened, Forget, LooksOld
    <2> QED BY <2>2, <2>3, <2>4
  <1>3. follows /\ t.run \in dir' => Whole(t.out \o t.buf, file'[t.run])
    BY <1>2 DEF Good
  <1>4. t.taps \/ t.at = "found" => writer'[t.run] \in Begun
    <2>1. t.taps \/ t.at = "found" => t.run \in Runs
      BY DEF Good, Idle
    <2> QED BY <1>1, <2>1 DEF Good
  <1>5. t.shut => writer'[t.run] \in {"closed", "gone"}
    <2>1. t.shut => t.run \in Runs
      BY DEF Good, Idle
    <2> QED BY <1>1, <2>1 DEF Good
  <1> QED BY <1>3, <1>4, <1>5 DEF Good

\* A line written reaches every reader that follows the run, or marks the one it did not reach.
LEMMA WriteReaches ==
  ASSUME LogInv, TailInv, NEW r \in Runs, NEW f \in Files, Write(r, f)
  PROVE  TailInv'
  <1> USE RunLogAssumption DEF TailInv
  <1> DEFINE l == Line(f, file[r][f] + 1)
  <1>0. file[r] \in Records /\ file[r][f] \in Nat /\ l \in LineSet /\ writer[r] = "open"
    BY DEF Write, Records, Line, LineSet
  <1>1. /\ file' = [file EXCEPT ![r] = [file[r] EXCEPT ![f] = @ + 1]]
        /\ tail' = Published(r, l) /\ UNCHANGED <<writer, dir, pending, toServe>>
    BY DEF Write
  <1>2. [file[r] EXCEPT ![f] = @ + 1] \in Records
    BY <1>0 DEF Records
  <1>3. file' \in [Runs -> Records]
    BY <1>1, <1>2
  <1>4. \A q \in Runs : writer'[q] \in {"none", "made", "serving"} => file'[q] = Empty
    BY <1>0, <1>1
  <1> HIDE DEF l
  <1>5. ASSUME NEW s \in Readers
        PROVE  /\ tail'[s] \in TailRec /\ tail'[s].run = tail[s].run
               /\ Good(tail'[s], writer', dir', file')
    <2> DEFINE t == tail[s]
    <2>0. t \in TailRec /\ Good(t, writer, dir, file) /\ t.buf \in Seq(LineSet)
          /\ t.out \in Seq(LineSet)
      BY DEF TailRec
    <2>1. CASE s \in Subscribers(r) /\ Len(t.buf) < LogBuffer
      <3> DEFINE u == [t EXCEPT !.buf = Append(@, l)]
      <3>1. tail'[s] = u
        BY <1>1, <2>1 DEF Published
      <3>2. t.run = r /\ t.taps /\ t.at # "idle"
        BY <2>0, <2>1 DEF Subscribers, Good, Idle
      <3>3. /\ t.out \o Append(t.buf, l) = Append(t.out \o t.buf, l)
            /\ Append(t.buf, l) \in Seq(LineSet) /\ t.out \o t.buf \in Seq(LineSet)
        <4> HIDE DEF t
        <4>1. t.out \o Append(t.buf, l) = Append(t.out \o t.buf, l) /\ Append(t.buf, l) \in Seq(LineSet)
          BY <1>0, <2>0, AppendAtEnd
        <4>2. t.out \o t.buf \in Seq(LineSet)
          BY <2>0, ConcatProperties, Zenon
        <4> QED BY <4>1, <4>2
      <3>4. u \in TailRec
        BY <2>0, <3>3 DEF TailRec
      <3>5. /\ u.run = t.run /\ u.at = t.at /\ u.taps = t.taps /\ u.shut = t.shut /\ u.out = t.out
            /\ u.lagged = t.lagged /\ u.buf = Append(t.buf, l)
        BY <2>0 DEF TailRec
      <3> HIDE DEF u, t
      <3>6. t.at \notin {"found", "missing", "unstarted", "waiting"}
        BY <2>0, <3>2 DEF Good
      <3>7. /\ t.at \in {"following", "ended"} /\ (t.taps \/ t.shut) /\ ~t.lagged /\ t.run \in dir
            => Whole(u.out \o u.buf, file'[r])
        <4> SUFFICES ASSUME t.at \in {"following", "ended"}, ~t.lagged, t.run \in dir
                     PROVE  Whole(u.out \o u.buf, file'[r])
          OBVIOUS
        <4>1. Whole(t.out \o t.buf, file[r])
          BY <2>0, <3>2 DEF Good
        <4>2. Whole(Append(t.out \o t.buf, l), [file[r] EXCEPT ![f] = @ + 1])
          BY <1>0, <3>3, <4>1, WriteWhole DEF l
        <4>3. file'[r] = [file[r] EXCEPT ![f] = @ + 1]
          BY <1>1
        <4> QED BY <3>3, <3>5, <4>2, <4>3
      <3>8. Good(u, writer', dir', file')
        <4>1. /\ t.taps => writer[t.run] \in Begun /\ t.run \in Runs
              /\ t.shut => writer[t.run] \in {"closed", "gone"}
          BY <2>0, <3>2 DEF Good
        <4> QED BY <1>1, <3>2, <3>5, <3>6, <3>7, <4>1 DEF Good
      <3> QED BY <3>1, <3>4, <3>5, <3>8 DEF t
    <2>2. CASE s \in Subscribers(r) /\ ~(Len(t.buf) < LogBuffer)
      <3> DEFINE u == [t EXCEPT !.lagged = TRUE]
      <3>1. tail'[s] = u
        BY <1>1, <2>2 DEF Published
      <3>2. u \in TailRec
        BY <2>0 DEF TailRec
      <3>3. t.run = r /\ t.taps
        BY <2>2 DEF Subscribers
      <3>4. /\ u.run = t.run /\ u.at = t.at /\ u.taps = t.taps /\ u.shut = t.shut /\ u.lagged
        BY <2>0 DEF TailRec
      <3> HIDE DEF u
      <3>5. t.at # "idle" /\ t.at \notin {"found", "missing", "unstarted", "waiting"}
        BY <2>0, <3>3 DEF Good, Idle
      <3>6. Good(u, writer', dir', file')
        BY <1>1, <2>0, <3>3, <3>4, <3>5 DEF Good
      <3> QED BY <3>1, <3>2, <3>4, <3>6
    <2>3. CASE s \notin Subscribers(r)
      <3>1. tail'[s] = t
        BY <1>1, <2>3 DEF Published
      <3>2. t.taps \/ t.shut => t.run # r
        BY <1>0, <2>0, <2>3 DEF Subscribers, Good
      <3>3. t.taps \/ t.shut => file'[t.run] = file[t.run]
        <4>1. t.taps \/ t.shut => t.run \in Runs
          BY <2>0 DEF Good, Idle
        <4> QED BY <1>1, <3>2, <4>1
      <3>4. Good(t, writer', dir', file')
        BY <1>1, <2>0, <3>3 DEF Good
      <3> QED BY <2>0, <3>1, <3>4
    <2> QED BY <2>1, <2>2, <2>3
  <1>6. tail' \in [Readers -> TailRec]
    <2>1. DOMAIN tail' = Readers /\ tail' = [s \in Readers |-> tail'[s]]
      BY <1>1 DEF Published
    <2> QED BY <1>5, <2>1
  <1>7. \A q \in Runs : \A s \in pending'[q] \union toServe'[q] : tail'[s].run = q
    BY <1>1, <1>5
  <1> QED BY <1>1, <1>3, <1>4, <1>5, <1>6, <1>7

\* The end of a run closes the channels; what is in them can still be read.
LEMMA CloseReleases ==
  ASSUME LogInv, TailInv, NEW r \in Runs, CloseLog(r)
  PROVE  TailInv'
  <1> USE RunLogAssumption DEF TailInv
  <1>1. /\ writer[r] = "open" /\ writer' = [writer EXCEPT ![r] = "closed"] /\ tail' = Released(r)
        /\ UNCHANGED <<dir, file, pending, toServe>>
    BY DEF CloseLog
  <1>2. \A q \in Runs : /\ writer[q] \in Begun => writer'[q] \in Begun
                        /\ writer[q] \in {"closed", "gone"} => writer'[q] \in {"closed", "gone"}
                        /\ writer'[q] \in {"none", "made", "serving"} => file[q] = Empty
    BY <1>1 DEF LogInv, Begun
  <1>3. writer'[r] = "closed"
    BY <1>1 DEF LogInv
  <1>4. ASSUME NEW s \in Readers
        PROVE  /\ tail'[s] \in TailRec /\ tail'[s].run = tail[s].run
               /\ Good(tail'[s], writer', dir', file')
    <2> DEFINE t == tail[s]
    <2>0. t \in TailRec /\ Good(t, writer, dir, file)
      OBVIOUS
    <2>1. CASE s \in Subscribers(r)
      <3> DEFINE u == [t EXCEPT !.taps = FALSE, !.shut = TRUE]
      <3>1. tail'[s] = u
        BY <1>1, <2>1 DEF Released
      <3>2. u \in TailRec
        BY <2>0 DEF TailRec
      <3>3. t.run = r /\ t.taps
        BY <2>1 DEF Subscribers
      <3>4. /\ u.run = t.run /\ u.at = t.at /\ ~u.taps /\ u.shut /\ u.lagged = t.lagged
            /\ u.out = t.out /\ u.buf = t.buf
        BY <2>0 DEF TailRec
      <3> HIDE DEF u
      <3>5. t.at # "idle" /\ t.at \notin {"found", "missing", "unstarted", "waiting"}
        BY <2>0, <3>3 DEF Good, Idle
      <3>6. Good(u, writer', dir', file')
        BY <1>1, <1>3, <2>0, <3>3, <3>4, <3>5 DEF Good
      <3> QED BY <3>1, <3>2, <3>4, <3>6
    <2>2. CASE s \notin Subscribers(r)
      <3>1. tail'[s] = t
        BY <1>1, <2>2 DEF Released
      <3>2. t.taps \/ t.shut \/ t.at = "found" => t.run \in Runs
        BY <2>0 DEF Good, Idle
      <3>3. Good(t, writer', dir', file')
        BY <1>1, <1>2, <2>0, <3>2 DEF Good
      <3> QED BY <2>0, <3>1, <3>3
    <2> QED BY <2>1, <2>2
  <1>5. tail' \in [Readers -> TailRec]
    <2>1. DOMAIN tail' = Readers /\ tail' = [s \in Readers |-> tail'[s]]
      BY <1>1 DEF Released
    <2> QED BY <1>4, <2>1
  <1>6. \A q \in Runs : \A s \in pending'[q] \union toServe'[q] : tail'[s].run = q
    BY <1>1, <1>4
  <1> QED BY <1>1, <1>2, <1>4, <1>5, <1>6

\* Every step of a writer keeps what the readers rely on.
LEMMA WriterKeepsTails ==
  ASSUME LogInv, TailInv, NEW r \in Runs, WriterNext(r)
  PROVE  TailInv'
  <1> USE RunLogAssumption
  <1>1. CASE \/ MakeDir(r) \/ GoLive(r) \/ Opened(r) \/ Forget(r) \/ LooksOld(r) \/ RemoveDir(r)
    <2>1. \A s \in Readers : Good(tail[s], writer', dir', file')
      BY <1>1, WriterMovesOn DEF TailInv
    <2>2. tail' = tail
      BY <1>1 DEF MakeDir, GoLive, Opened, Forget, LooksOld, RemoveDir
    <2>3. Empty \in Records
      BY DEF Empty, Records
    <2>4. file' \in [Runs -> Records]
      BY <1>1, <2>3 DEF TailInv, MakeDir, GoLive, Opened, Forget, LooksOld, RemoveDir
    <2>5. \A q \in Runs : writer'[q] \in {"none", "made", "serving"} => file'[q] = Empty
      BY <1>1 DEF TailInv, LogInv, MakeDir, GoLive, Opened, Forget, LooksOld, RemoveDir
    <2>6. /\ pending' \in [Runs -> SUBSET Readers] /\ toServe' \in [Runs -> SUBSET Readers]
          /\ \A q \in Runs : pending'[q] \union toServe'[q] \subseteq pending[q] \union toServe[q]
      BY <1>1 DEF TailInv, MakeDir, GoLive, Opened, Forget, LooksOld, RemoveDir
    <2> QED BY <2>1, <2>2, <2>4, <2>5, <2>6 DEF TailInv
  <1>2. CASE CloseLog(r)
    BY <1>2, CloseReleases
  <1>3. ASSUME NEW f \in Files, Write(r, f)
        PROVE  TailInv'
    BY <1>3, WriteReaches
  <1>4. ASSUME NEW s \in Readers, ServeWaiter(r, s)
        PROVE  TailInv'
    <2> DEFINE t == IF tail[s].at = "waiting"
                    THEN [tail[s] EXCEPT !.at = "following", !.taps = TRUE, !.out = @ \o <<>>]
                    ELSE tail[s]
    <2>0. /\ tail[s] \in TailRec /\ Good(tail[s], writer, dir, file) /\ tail[s].run = r
          /\ writer[r] = "serving" /\ file[r] = Empty
      BY <1>4 DEF ServeWaiter, TailInv
    <2>1. tail' = [tail EXCEPT ![s] = t]
      BY <1>4 DEF ServeWaiter, Tapped, TailInv
    <2>2. t \in TailRec /\ t.run = r /\ Good(t, writer, dir, file)
      <3>1. CASE tail[s].at = "waiting"
        <4>1. <<>> \in Seq(LineSet) /\ <<>> \o <<>> = <<>>
          BY EmptySeq, ConcatEmptySeq
        <4>2. tail[s].out = <<>> /\ tail[s].buf = <<>> /\ ~tail[s].shut
          BY <2>0, <3>1 DEF Good
        <4>3. t = [tail[s] EXCEPT !.at = "following", !.taps = TRUE, !.out = <<>>]
          BY <3>1, <4>1, <4>2
        <4> HIDE DEF t
        <4>4. t \in TailRec
          BY <2>0, <4>1, <4>3 DEF TailRec, Stage
        <4>5. t.run = r /\ t.at = "following" /\ t.out = <<>> /\ t.buf = <<>> /\ ~t.shut
          BY <2>0, <4>2, <4>3 DEF TailRec
        <4>6. Good(t, writer, dir, file)
          BY <2>0, <4>1, <4>5, NothingWhole DEF Good, Begun
        <4> QED BY <4>4, <4>5, <4>6
      <3>2. CASE tail[s].at # "waiting"
        BY <2>0, <3>2
      <3> QED BY <3>1, <3>2
    <2> HIDE DEF t
    <2>3. /\ UNCHANGED <<writer, dir, file, pending>>
          /\ toServe' = [toServe EXCEPT ![r] = @ \ {s}]
      BY <1>4 DEF ServeWaiter
    <2>4. /\ pending' \in [Runs -> SUBSET Readers] /\ toServe' \in [Runs -> SUBSET Readers]
          /\ \A q \in Runs : /\ toServe'[q] \subseteq toServe[q]
                             /\ pending'[q] \subseteq pending[q] \union {s}
                             /\ s \in pending'[q] \ pending[q] => t.run = q
      BY <2>3 DEF TailInv
    <2> QED BY <2>0, <2>1, <2>2, <2>3, <2>4, OneReader
  <1> QED BY <1>1, <1>2, <1>3, <1>4 DEF WriterNext

\* A reader that finds its run live is given its history and its channel under one lock.
LEMMA SubscribeGood ==
  ASSUME LogInv, TailInv, NEW s \in Readers, Subscribe(s)
  PROVE  TailInv'
  <1> DEFINE h == History(tail[s].run)
             t == [tail[s] EXCEPT !.at = "following", !.taps = TRUE, !.out = @ \o h]
  <1>0. /\ tail[s] \in TailRec /\ Good(tail[s], writer, dir, file) /\ tail[s].run \in Runs
        /\ file[tail[s].run] \in Records
    BY DEF Subscribe, TailInv, Good
  <1>1. tail' = [tail EXCEPT ![s] = t] /\ tail[s].at = "found"
    BY DEF Subscribe, Tapped, TailInv
  <1>2. h \in Seq(LineSet) /\ Whole(h, file[tail[s].run])
    BY <1>0, HistoryWhole DEF History
  <1>3. tail[s].out = <<>> /\ tail[s].buf = <<>> /\ writer[tail[s].run] \in Begun /\ ~tail[s].shut
    BY <1>0, <1>1 DEF Good
  <1> HIDE DEF h
  <1>4. <<>> \o h = h /\ h \o <<>> = h
    BY <1>2, ConcatEmptySeq
  <1>5. t = [tail[s] EXCEPT !.at = "following", !.taps = TRUE, !.out = h]
    BY <1>3, <1>4
  <1> HIDE DEF t
  <1>6. t \in TailRec
    BY <1>0, <1>2, <1>5 DEF TailRec, Stage
  <1>7. /\ t.run = tail[s].run /\ t.at = "following" /\ t.out = h /\ t.buf = <<>> /\ ~t.shut
    BY <1>0, <1>3, <1>5 DEF TailRec
  <1>8. Good(t, writer, dir, file)
    BY <1>0, <1>2, <1>3, <1>4, <1>7 DEF Good
  <1>9. UNCHANGED <<writer, dir, file, pending, toServe>>
    BY DEF Subscribe
  <1> QED BY <1>1, <1>6, <1>7, <1>8, <1>9, OneReader DEF TailInv

\* A line relayed is one that was on its way.
LEMMA RelayGood ==
  ASSUME LogInv, TailInv, NEW s \in Readers, Relay(s)
  PROVE  TailInv'
  <1> DEFINE o == Append(tail[s].out, Head(tail[s].buf))
             b == Tail(tail[s].buf)
             t == [tail[s] EXCEPT !.buf = b, !.out = o]
  <1>0. /\ tail[s] \in TailRec /\ Good(tail[s], writer, dir, file) /\ tail[s].at = "following"
        /\ tail[s].out \in Seq(LineSet) /\ tail[s].buf \in Seq(LineSet) /\ tail[s].buf # <<>>
    BY DEF Relay, TailInv, TailRec
  <1>1. tail' = [tail EXCEPT ![s] = t]
    BY DEF Relay, TailInv
  <1>2. o \in Seq(LineSet) /\ b \in Seq(LineSet) /\ o \o b = tail[s].out \o tail[s].buf
    BY <1>0, RelayKeepsAll
  <1> HIDE DEF o, b
  <1>3. t \in TailRec
    BY <1>0, <1>2 DEF TailRec
  <1>4. /\ t.run = tail[s].run /\ t.at = "following" /\ t.out = o /\ t.buf = b
        /\ t.taps = tail[s].taps /\ t.shut = tail[s].shut /\ t.lagged = tail[s].lagged
    BY <1>0 DEF TailRec
  <1> HIDE DEF t
  <1>5. Good(t, writer, dir, file)
    BY <1>0, <1>2, <1>4 DEF Good
  <1>6. UNCHANGED <<writer, dir, file, pending, toServe>>
    BY DEF Relay
  <1> QED BY <1>1, <1>3, <1>4, <1>5, <1>6, OneReader DEF TailInv

\* Every step of a reader keeps what the readers rely on.
LEMMA ReaderKeepsTails ==
  ASSUME LogInv, TailInv, NEW s \in Readers, ReaderNext(s)
  PROVE  TailInv'
  <1> USE RunLogAssumption
  <1>0. /\ tail[s] \in TailRec /\ Good(tail[s], writer, dir, file)
        /\ tail[s].at # "idle" => tail[s].run \in Runs
    BY DEF TailInv, Good
  <1>1. ASSUME NEW r \in Runs, Follow(s, r)
        PROVE  TailInv'
    <2> DEFINE a == IF Live(r) THEN "found" ELSE "missing"
               t == [tail[s] EXCEPT !.run = r, !.at = a]
    <2>1. tail' = [tail EXCEPT ![s] = t] /\ tail[s].at = "idle"
          /\ UNCHANGED <<writer, dir, file, pending, toServe>>
      BY <1>1 DEF Follow, TailInv
    <2>2. t \in TailRec
      BY <1>0 DEF TailRec, Stage
    <2>3. tail[s] = Idle
      BY <1>0, <2>1 DEF Good
    <2>4. t.run = r /\ t.at = a /\ t.out = <<>> /\ t.buf = <<>> /\ ~t.taps /\ ~t.shut /\ ~t.lagged
      BY <2>3 DEF Idle
    <2> HIDE DEF t
    <2>5. Good(t, writer, dir, file)
      BY <2>4 DEF Good, Live, Begun
    <2> QED BY <2>1, <2>2, <2>5, OneReader DEF TailInv
  <1>2. CASE ServeFiles(s)
    <2> DEFINE h == History(tail[s].run)
               t == [tail[s] EXCEPT !.at = "ended", !.out = h]
    <2>1. tail' = [tail EXCEPT ![s] = t] /\ tail[s].at = "missing"
          /\ UNCHANGED <<writer, dir, file, pending, toServe>>
      BY <1>2 DEF ServeFiles, TailInv
    <2>2. h \in Seq(LineSet)
      BY <1>0, <2>1, HistoryWhole DEF History, TailInv
    <2> HIDE DEF h
    <2>3. t \in TailRec /\ t.run = tail[s].run
      BY <1>0, <2>2 DEF TailRec, Stage
    <2>4. t.at = "ended" /\ ~t.taps /\ ~t.shut
      BY <1>0, <2>1 DEF Good, TailRec
    <2> HIDE DEF t
    <2>5. Good(t, writer, dir, file)
      BY <1>0, <2>1, <2>3, <2>4 DEF Good
    <2> QED BY <2>1, <2>3, <2>5, OneReader DEF TailInv
  <1>3. CASE NoFiles(s) \/ WaitForWriter(s)
    <2> DEFINE a == IF tail[s].at = "missing" THEN "unstarted" ELSE "waiting"
               t == [tail[s] EXCEPT !.at = a]
    <2>1. tail' = [tail EXCEPT ![s] = t] /\ tail[s].at \in {"missing", "unstarted"}
          /\ UNCHANGED <<writer, dir, file, toServe>>
      BY <1>3 DEF NoFiles, WaitForWriter, TailInv
    <2>2. t \in TailRec /\ t.run = tail[s].run /\ t.at = a
          /\ t.out = tail[s].out /\ t.buf = tail[s].buf /\ t.taps = tail[s].taps
          /\ t.shut = tail[s].shut /\ t.lagged = tail[s].lagged
      BY <1>0 DEF TailRec, Stage
    <2> HIDE DEF t
    <2>3. Good(t, writer, dir, file)
      BY <1>0, <2>1, <2>2 DEF Good
    <2>4. /\ pending' \in [Runs -> SUBSET Readers]
          /\ \A q \in Runs : /\ pending'[q] \subseteq pending[q] \union {s}
                             /\ s \in pending'[q] \ pending[q] => q = tail[s].run
      BY <1>3 DEF NoFiles, WaitForWriter, TailInv
    <2> QED BY <2>1, <2>2, <2>3, <2>4, OneReader DEF TailInv
  <1>4. CASE Subscribe(s)
    BY <1>4, SubscribeGood
  <1>5. CASE Relay(s)
    BY <1>5, RelayGood
  <1>6. CASE EndStream(s)
    <2> DEFINE t == [tail[s] EXCEPT !.at = "ended"]
    <2>1. tail' = [tail EXCEPT ![s] = t] /\ tail[s].at = "following"
          /\ UNCHANGED <<writer, dir, file, pending, toServe>>
      BY <1>6 DEF EndStream, TailInv
    <2>2. t \in TailRec /\ t.run = tail[s].run /\ t.at = "ended"
          /\ t.out = tail[s].out /\ t.buf = tail[s].buf /\ t.taps = tail[s].taps
          /\ t.shut = tail[s].shut /\ t.lagged = tail[s].lagged
      BY <1>0 DEF TailRec, Stage
    <2> HIDE DEF t
    <2>3. Good(t, writer, dir, file)
      BY <1>0, <2>1, <2>2 DEF Good
    <2> QED BY <2>1, <2>2, <2>3, OneReader DEF TailInv
  <1>7. CASE Decode(s)
    BY <1>7 DEF Decode, TailInv
  <1>8. CASE Closed(s) \/ Stop(s)
    <2>1. tail[s].at \in {"waiting", "following", "ended"}
      BY <1>8 DEF Closed, Stop
    <2>2. \E t \in TailRec : /\ t.run = tail[s].run /\ t.at = "over"
                             /\ t.taps => tail[s].taps
                             /\ t.shut = tail[s].shut
                             /\ tail' = [tail EXCEPT ![s] = t]
      <3>1. CASE Closed(s)
        <4> DEFINE t == [tail[s] EXCEPT !.at = "over"]
        <4>1. tail' = [tail EXCEPT ![s] = t]
          BY <3>1 DEF Closed, TailInv
        <4>2. t \in TailRec /\ t.run = tail[s].run /\ t.at = "over" /\ t.taps = tail[s].taps
              /\ t.shut = tail[s].shut
          BY <1>0 DEF TailRec, Stage
        <4> QED BY <4>1, <4>2
      <3>2. CASE Stop(s)
        <4> DEFINE t == [tail[s] EXCEPT !.at = "over", !.taps = FALSE, !.buf = <<>>]
        <4>1. tail' = [tail EXCEPT ![s] = t]
          BY <3>2 DEF Stop, TailInv
        <4>2. <<>> \in Seq(LineSet)
          BY EmptySeq
        <4>3. t \in TailRec /\ t.run = tail[s].run /\ t.at = "over" /\ ~t.taps
              /\ t.shut = tail[s].shut
          BY <1>0, <4>2 DEF TailRec, Stage
        <4> QED BY <4>1, <4>3
      <3> QED BY <1>8, <3>1, <3>2
    <2>3. PICK t \in TailRec : /\ t.run = tail[s].run /\ t.at = "over"
                               /\ t.taps => tail[s].taps
                               /\ t.shut = tail[s].shut
                               /\ tail' = [tail EXCEPT ![s] = t]
      BY <2>2
    <2>4. Good(t, writer, dir, file)
      BY <1>0, <2>1, <2>3 DEF Good
    <2>5. /\ UNCHANGED <<writer, dir, file, toServe>>
          /\ pending' \in [Runs -> SUBSET Readers]
          /\ \A q \in Runs : pending'[q] \subseteq pending[q]
      BY <1>8 DEF Closed, Stop, TailInv
    <2> QED BY <2>3, <2>4, <2>5, OneReader DEF TailInv
  <1> QED BY <1>1, <1>2, <1>3, <1>4, <1>5, <1>6, <1>7, <1>8 DEF ReaderNext, Serving

\* When the daemon dies nobody follows any more.
LEMMA DeathKeepsTails ==
  ASSUME LogInv, TailInv, DaemonDies
  PROVE  TailInv'
  <1> USE RunLogAssumption
  <1>1. ASSUME NEW s \in Readers
        PROVE  tail'[s] \in TailRec /\ Good(tail'[s], writer', dir', file')
    <2>0. tail[s] \in TailRec /\ Good(tail[s], writer, dir, file)
      BY DEF TailInv
    <2>1. CASE tail[s].at = "idle"
      BY <2>1, IdleGood DEF DaemonDies
    <2>2. CASE tail[s].at # "idle"
      <3> DEFINE t == [tail[s] EXCEPT !.at = "over", !.taps = FALSE, !.buf = <<>>]
      <3>1. tail'[s] = t
        BY <2>2 DEF DaemonDies
      <3>2. <<>> \in Seq(LineSet)
        BY EmptySeq
      <3>3. t \in TailRec /\ t.run = tail[s].run /\ t.at = "over" /\ ~t.taps
            /\ t.shut = tail[s].shut
        BY <2>0, <3>2 DEF TailRec, Stage
      <3> HIDE DEF t
      <3>4. t.shut => writer'[t.run] = "gone"
        BY <2>0, <2>2, <3>3 DEF Good, DaemonDies
      <3>5. Good(t, writer', dir', file')
        BY <2>0, <2>2, <3>3, <3>4 DEF Good
      <3> QED BY <3>1, <3>3, <3>5
    <2> QED BY <2>1, <2>2
  <1>2. tail' \in [Readers -> TailRec]
    <2>1. tail' = [s \in Readers |-> tail'[s]]
      BY DEF DaemonDies
    <2> QED BY <1>1, <2>1
  <1> QED BY <1>1, <1>2 DEF TailInv, DaemonDies

\* No reader of a live run misses a line or is given one twice, and no live run loses its files:
\* nothing comes between a reader's history and its channel, whoever writes, closes or is removed
\* meanwhile (Store.Tail, logWriter.write, Store.Prune).
THEOREM LogsWhole == Spec => []LogWhole
  <1>1. Init => LogInv /\ TailInv
    <2> SUFFICES ASSUME Init PROVE LogInv /\ TailInv
      OBVIOUS
    <2>1. LogInv
      BY RunLogAssumption DEF Init, LogInit, LogInv
    <2>2. Empty \in Records
      BY DEF Empty, Records
    <2>3. \A s \in Readers : Good(tail[s], writer, dir, file) /\ tail[s] \in TailRec
      BY IdleGood DEF Init, LogInit
    <2>4. TailInv
      BY <2>2, <2>3 DEF Init, LogInit, TailInv
    <2> QED BY <2>1, <2>4
  <1>2. LogInv /\ TailInv /\ [Next]_homeVars => LogInv' /\ TailInv'
    <2> SUFFICES ASSUME LogInv, TailInv, [Next]_homeVars PROVE TailInv'
      BY LogKept
    <2>1. CASE LogNext
      BY <2>1, WriterKeepsTails, ReaderKeepsTails, DeathKeepsTails DEF LogNext
    <2>2. CASE UNCHANGED logVars
      BY <2>2 DEF logVars, TailInv
    <2> QED BY <2>1, <2>2 DEF Next, homeVars
  <1>3. LogInv /\ TailInv => LogWhole
    BY DEF LogInv, TailInv, Good, LogWhole, NoGap, Follows, LiveKept
  <1> QED BY <1>1, <1>2, <1>3, PTL DEF Spec
===============================================================================
